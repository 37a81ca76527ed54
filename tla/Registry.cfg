\* Three requests on two workspaces: any of them may have to start a server,
\* and a manager, a client and a process exist for each.
SPECIFICATION FairSpec
CONSTANTS
  Workspaces = {w1, w2}
  Tasks = {t1, t2, t3}
  Managers <- Three
  Servers <- Three
  Daemon = daemon
  Nothing = Nothing
INVARIANTS
  OneReadyServer
PROPERTIES
  RequestsAfterHandshake
  ShutdownComplete
  EveryRequestEnds
  ShutdownEnds
\* The daemon exits.
CHECK_DEADLOCK FALSE
