\* Two requests, a fire-and-forget call, a server request with a handler;
\* answers may be ill-formed.
\* Calls end and the transport stops: the system may halt.
SPECIFICATION Spec
CONSTANTS
  Requests = {r1, r2}
  Forgets = {f1}
  Asks = {a1}
  Handled = {a1}
  Garbled = {}
  MaxId = 3
  MaxUnread = 2
  NoCall = NoCall
SYMMETRY Symmetry
CHECK_DEADLOCK FALSE
INVARIANTS
  TypeOK
  OwnAnswer
  ReadLoopSurvives
  CallerReachable
  NoEntryOutlivesAnswer
PROPERTIES
  ImplementsRpc
