\* One file (files share nothing but the lock table), every behaviour of the
\* server. Every request ends: the system may halt.
SPECIFICATION Spec
CONSTANTS
  Files = {f1}
  Diags = {d1, d2}
  Changes = {c1, c2}
  MaxEdits = 1
  MayUnchange = TRUE
  MayPublish = TRUE
  MayFail = TRUE
  NoFile = NoFile
SYMMETRY Symmetry
CHECK_DEADLOCK FALSE
INVARIANTS
  TypeOK
  FreshCache
  AckSynced
PROPERTIES
  DocNeverOlder
  VersionsRise
