\* Two requests and a notification: one is handled while another connects,
\* times out or disconnects.
CONSTANTS
  Conn = {r1, r2, n1}
  Notifications = {n1}
SPECIFICATION FairSpec
INVARIANTS
  HonestAnswers
  StoppedIsIdle
PROPERTIES
  EveryoneEnds
\* the daemon stops
CHECK_DEADLOCK FALSE
