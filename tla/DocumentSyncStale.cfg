\* A server that always answers in full and publishes nothing.
SPECIFICATION Spec
CONSTANTS
  Files = {f1}
  Diags = {d1, d2, d3}
  Changes = {c1}
  MaxEdits = 1
  MayUnchange = FALSE
  MayPublish = FALSE
  MayFail = FALSE
  NoFile = NoFile
SYMMETRY Symmetry
CHECK_DEADLOCK FALSE
INVARIANTS
  UpdatedAfterDidChange
