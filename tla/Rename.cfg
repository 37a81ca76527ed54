\* Two applies and two rollbacks overlap; any of them fails or is killed.
SPECIFICATION Spec
CONSTANTS
  Files <- FileSet
  Slots <- SlotSet
  SlotOf <- Paths
  Missing <- MissingSet
  Edits <- EditSet
  Applies = {a1, a2}
  Rollbacks = {r1, r2}
  Sessions = {s1, s2}
  Torn = Torn
  Nothing = Nothing
  Texts <- TextSet
  NewTexts <- NewTextSet
SYMMETRY Symmetry
INVARIANTS
  AppliedAsAsked
  OriginalsKept
PROPERTIES
  FailureUndone
  RollbackUndoes
\* The commands end.
CHECK_DEADLOCK FALSE
