\* Two requests, a request of the server without a handler and JSON that
\* is no object, under fairness.
SPECIFICATION FairSpec
CONSTANTS
  Requests = {r1, r2}
  Forgets = {}
  Asks = {a2, g1}
  Handled = {}
  Garbled = {g1}
  MaxId = 2
  MaxUnread = 2
  NoCall = NoCall
CHECK_DEADLOCK FALSE
PROPERTIES
  EveryCallEnds
  StopEnds
