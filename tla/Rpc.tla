-------------------------------- MODULE Rpc --------------------------------
(***************************************************************************)
(* What StdioTransport.send_request promises its callers, whatever pipes,  *)
(* timers and tasks it is built from: a call is opened, it ends once, and  *)
(* it ends well only with the answer the language server gave to it.       *)
(***************************************************************************)
EXTENDS Naturals

CONSTANT Calls          \* the calls of send_request, each made once

VARIABLES status,       \* what the caller of each call knows of it
          answered      \* the calls the language server has answered

vars == <<status, answered>>

Status == {"idle", "open", "ok", "failed"}

Init ==
  /\ status = [c \in Calls |-> "idle"]
  /\ answered = {}

Open(c) ==
  /\ status[c] = "idle"
  /\ status' = [status EXCEPT ![c] = "open"]
  /\ UNCHANGED answered

\* The server may answer a call long after its caller gave up on it.
Answer(c) ==
  /\ status[c] # "idle"
  /\ answered' = answered \cup {c}
  /\ UNCHANGED status

Return(c) ==
  /\ status[c] = "open"
  /\ c \in answered
  /\ status' = [status EXCEPT ![c] = "ok"]
  /\ UNCHANGED answered

\* A timeout, a cancellation or a broken pipe; the last may come at once.
Fail(c) ==
  /\ status[c] \in {"idle", "open"}
  /\ status' = [status EXCEPT ![c] = "failed"]
  /\ UNCHANGED answered

Next == \E c \in Calls : Open(c) \/ Answer(c) \/ Return(c) \/ Fail(c)

Spec == Init /\ [][Next]_vars
=============================================================================
