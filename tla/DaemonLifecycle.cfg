\* Three processes: two commands beside a daemon, or a request, the daemon it
\* spawns and another command; one daemon is killed from outside.
CONSTANTS
  MaxProcs = 3
  None = None
  MaxCrashes = 1
SPECIFICATION FairSpec
INVARIANTS
  TypeOK
  SingleUnlessLost
  AloneIsSafe
  StopLeavesNothing
PROPERTIES
  EveryCommandEnds
\* the commands are over
CHECK_DEADLOCK FALSE
