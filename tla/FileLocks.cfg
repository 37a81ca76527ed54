\* More files than the table holds. Every request ends: the system may halt.
SPECIFICATION FairSpec
CONSTANTS
  Files = {f1, f2, f3}
  Tasks = {t1, t2, t3, t4}
  Locks = {l1, l2, l3, l4, l5, l6}
  MaxLocks = 2
  NoLock = NoLock
  NoFile = NoFile
CHECK_DEADLOCK FALSE
INVARIANTS
  Bounded
  SerializedUnlessLost
PROPERTIES
  EveryRequestEnds
