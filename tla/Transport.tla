----------------------------- MODULE Transport -----------------------------
(***************************************************************************)
(* StdioTransport (lsp/transport.py): tasks of one event loop call         *)
(* send_request, a read loop settles their futures from the language       *)
(* server's stdout, timers and stop() race with it.  An action is what     *)
(* one task does between two points where it really suspends.  The         *)
(* language server itself is external: it reads its stdin, answers         *)
(* requests in any order or never, asks requests of its own, and may exit. *)
(***************************************************************************)
EXTENDS Naturals, Sequences, FiniteSets

CONSTANTS
  Requests,   \* the calls of send_request; each value is one call
  Forgets,    \* the calls of send_request_fire_and_forget
  Asks,       \* the messages the language server may send unasked
  Handled,    \* the requests among them whose method has a registered handler
  Garbled,    \* those that are JSON and no object (a number, null)
  MaxId,      \* bound on _request_id
  MaxUnread,  \* bound on the messages in the server's stdout
  NoCall      \* no call: a key that is absent, a value not set

Calls == Requests \cup Forgets

ASSUME TransportAssumption ==
  /\ Requests \cap Forgets = {}
  /\ Handled \subseteq Asks \ Garbled
  /\ Garbled \subseteq Asks
  /\ {MaxId, MaxUnread} \subseteq Nat
  /\ NoCall \notin Calls

VARIABLES
  requestId,  \* _request_id
  pending,    \* _pending: the call whose future each id maps to
  future,     \* state of the asyncio.Future of each request
  value,      \* the call whose answer the future holds
  pc,         \* where the task of each call stands
  id,         \* the id each call drew, 0 before it draws one
  readLoop,   \* the read task
  running,    \* _running
  stdinOpen,  \* stop() has not closed the server's stdin
  stopping,   \* how far stop() has got
  server,     \* external: the server process
  inbox,      \* external: request frames the server has and has not answered
  toClient,   \* external: the server's stdout, messages in order
  answered,   \* external: the calls the server has answered, in good form
  asked,      \* external: the messages the server has sent unasked
  taken,      \* those the read loop has taken
  replied,    \* requests of the server answered by the read loop
  spoiled     \* the calls whose ill-formed answers the read loop died of

taskVars == <<requestId, pending, future, value, pc, id>>
loopVars == <<readLoop, taken, replied, spoiled>>
stopVars == <<running, stdinOpen, stopping>>
serverVars == <<server, inbox, toClient, answered, asked>>
vars == <<taskVars, loopVars, stopVars, serverVars>>

Ids == 1 .. MaxId
Frame == [id : Ids, call : Calls]
Response == [type : {"response"}, id : Ids, call : Calls, sound : BOOLEAN]
Ask == [type : {"request"}, ask : Asks]
InFlight == {"draining", "waiting", "expiring"}
Ended == {"returned", "timedout", "raised", "cancelled", "sent"}

\* The state start() leaves: a live server, the read task created.
Init ==
  /\ requestId = 0
  /\ pending = [i \in Ids |-> NoCall]
  /\ future = [c \in Requests |-> "none"]
  /\ value = [c \in Requests |-> NoCall]
  /\ pc = [c \in Calls |-> "idle"]
  /\ id = [c \in Calls |-> 0]
  /\ readLoop = "reading"
  /\ running = TRUE
  /\ stdinOpen = TRUE
  /\ stopping = "no"
  /\ server = "up"
  /\ inbox = {}
  /\ toClient = <<>>
  /\ answered = {}
  /\ asked = {}
  /\ taken = {}
  /\ replied = {}
  /\ spoiled = {}

ConnectionLost == server = "dead" \/ ~stdinOpen

\* Faulty variant: an id is skipped, past the bound on them.
NextIdSkips == requestId + 2

\* Faulty variant: ids drawn from the size of _pending come back into use.
NextIdFromSize == Cardinality({i \in Ids : pending[i] # NoCall}) + 1

NextId == requestId + 1

\* _send_payload: the frame is written before drain() can suspend.  Once the
\* connection is lost the frame goes nowhere and drain() may raise.
Written(frame) == IF ConnectionLost THEN inbox ELSE inbox \cup {frame}
AfterWrite(good) ==
  {"draining", good} \cup IF ConnectionLost THEN {"raised"} ELSE {}

\* send_request up to its first suspension: in drain() when the pipe is
\* full, otherwise in wait_for.  The future is registered before the write
\* and a write that raises leaves it registered.
SendRequest(c) ==
  /\ pc[c] = "idle"
  /\ requestId < MaxId
  /\ requestId' = NextId
  /\ id' = [id EXCEPT ![c] = NextId]
  /\ future' = [future EXCEPT ![c] = "pending"]
  /\ pending' = [pending EXCEPT ![NextId] = c]
  /\ inbox' = Written([id |-> NextId, call |-> c])
  /\ \E next \in AfterWrite("waiting") : pc' = [pc EXCEPT ![c] = next]
  /\ UNCHANGED <<value, loopVars, stopVars, server, toClient, answered, asked>>

\* send_request_fire_and_forget: an id, and no future.
SendForget(c) ==
  /\ pc[c] = "idle"
  /\ requestId < MaxId
  /\ requestId' = NextId
  /\ id' = [id EXCEPT ![c] = NextId]
  /\ inbox' = Written([id |-> NextId, call |-> c])
  /\ \E next \in AfterWrite("sent") : pc' = [pc EXCEPT ![c] = next]
  /\ UNCHANGED <<pending, future, value, loopVars, stopVars, server, toClient,
                 answered, asked>>

DrainDone(c) ==
  /\ pc[c] = "draining"
  /\ pc' = [pc EXCEPT ![c] = IF c \in Requests THEN "waiting" ELSE "sent"]
  /\ UNCHANGED <<requestId, pending, future, value, id, loopVars, stopVars,
                 serverVars>>

DrainRaises(c) ==
  /\ pc[c] = "draining"
  /\ ConnectionLost
  /\ pc' = [pc EXCEPT ![c] = "raised"]
  /\ UNCHANGED <<requestId, pending, future, value, id, loopVars, stopVars,
                 serverVars>>

\* future.cancel(): no effect on a future that is done.
Cancelled(f) == IF f = "pending" THEN "cancelled" ELSE f

\* Faulty variant: the future is awaited without wait_for.
NoTimer(c) ==
  /\ pc[c] = "waiting"
  /\ FALSE
  /\ UNCHANGED vars

\* The timer of wait_for cancels the task: the future it waits for is
\* cancelled if it is pending, and the timeout wins over a result the task
\* has not picked up.
TimerFires(c) ==
  /\ pc[c] = "waiting"
  /\ pc' = [pc EXCEPT ![c] = "expiring"]
  /\ future' = [future EXCEPT ![c] = Cancelled(@)]
  /\ UNCHANGED <<requestId, pending, value, id, loopVars, stopVars, serverVars>>

\* Faulty variant: a cancelled future is taken for a null result.
ResumeAnyDone(c) ==
  /\ pc[c] = "waiting"
  /\ future[c] \in {"done", "cancelled"}
  /\ pc' = [pc EXCEPT ![c] = "returned"]
  /\ UNCHANGED <<requestId, pending, future, value, id, loopVars, stopVars,
                 serverVars>>

\* The task resumes with its future done: a result, an LSPError, or the
\* CancelledError of stop().
Resume(c) ==
  /\ pc[c] = "waiting"
  /\ future[c] \in {"done", "cancelled"}
  /\ pc' = [pc EXCEPT ![c] = IF future[c] = "done" THEN "returned"
                                                  ELSE "cancelled"]
  /\ UNCHANGED <<requestId, pending, future, value, id, loopVars, stopVars,
                 serverVars>>

\* Faulty variant: a timeout leaves its entry behind.
ResumeExpiredKeeps(c) ==
  /\ pc[c] = "expiring"
  /\ pc' = [pc EXCEPT ![c] = "timedout"]
  /\ UNCHANGED <<requestId, pending, future, value, id, loopVars, stopVars,
                 serverVars>>

\* except TimeoutError: the entry is popped, if it is still there.
ResumeExpired(c) ==
  /\ pc[c] = "expiring"
  /\ pc' = [pc EXCEPT ![c] = "timedout"]
  /\ pending' = [pending EXCEPT ![id[c]] = NoCall]
  /\ UNCHANGED <<requestId, future, value, id, loopVars, stopVars, serverVars>>

\* The task of a call is cancelled from outside, as the wait_for around
\* initialize does: no handler of send_request pops the entry.
CancelTask(c) ==
  /\ pc[c] \in InFlight
  /\ pc' = [pc EXCEPT ![c] = "cancelled"]
  /\ future' = IF c \in Requests /\ pc[c] # "draining"
                 THEN [future EXCEPT ![c] = Cancelled(@)] ELSE future
  /\ UNCHANGED <<requestId, pending, value, id, loopVars, stopVars, serverVars>>
-----------------------------------------------------------------------------
(* The read loop. *)

Received(type) ==
  /\ readLoop = "reading"
  /\ running
  /\ toClient # <<>>
  /\ Head(toClient).type = type
  /\ toClient' = Tail(toClient)

\* Faulty variant: no done() guard.
MaySetAlways(c) == TRUE

\* if not future.done()
MaySet(c) == future[c] = "pending"

\* future.set_result / set_exception: InvalidStateError when it is done,
\* which ends the read loop.
SetResult(c, answer) ==
  IF future[c] = "pending"
    THEN /\ future' = [future EXCEPT ![c] = "done"]
         /\ value' = [value EXCEPT ![c] = answer]
         /\ UNCHANGED readLoop
    ELSE /\ readLoop' = "crashed"
         /\ UNCHANGED <<future, value>>

\* LSPError() of an error that is no object raises: the loop ends, the entry
\* is popped and the future still open.
ErrorRaises(c) ==
  /\ readLoop' = "crashed"
  /\ spoiled' = spoiled \cup {c}
  /\ UNCHANGED <<future, value>>

\* _handle_response
ReadResponse ==
  /\ Received("response")
  /\ LET m == Head(toClient)
         c == pending[m.id]
     IN  /\ pending' = [pending EXCEPT ![m.id] = NoCall]
         /\ IF c = NoCall \/ ~MaySet(c)
              THEN UNCHANGED <<future, value, readLoop, spoiled>>
              ELSE IF m.sound THEN SetResult(c, m.call) /\ UNCHANGED spoiled
                              ELSE ErrorRaises(c)
  /\ UNCHANGED <<requestId, pc, id, taken, replied, stopVars, server, inbox,
                 answered, asked>>

\* _handle_message: a look for "id" in JSON that is no object raises, which
\* ends the read loop.
ReadGarbled ==
  /\ Received("request")
  /\ Head(toClient).ask \in Garbled
  /\ taken' = taken \cup {Head(toClient).ask}
  /\ readLoop' = "crashed"
  /\ UNCHANGED <<taskVars, replied, spoiled, stopVars, server, inbox, answered,
                 asked>>

\* _handle_request, no handler registered: the loop goes on to the next
\* message.
IgnoreRequest ==
  /\ Received("request")
  /\ Head(toClient).ask \notin Handled \cup Garbled
  /\ taken' = taken \cup {Head(toClient).ask}
  /\ UNCHANGED <<taskVars, readLoop, replied, spoiled, stopVars, server, inbox,
                 answered, asked>>

\* _handle_request with a handler: the answer is written and the read loop
\* itself waits in drain().  When the write raises so does the error answer,
\* and the loop ends.
AnswerRequest ==
  /\ Received("request")
  /\ Head(toClient).ask \in Handled
  /\ taken' = taken \cup {Head(toClient).ask}
  /\ replied' = IF ConnectionLost THEN replied
                                  ELSE replied \cup {Head(toClient).ask}
  /\ readLoop' \in {"reading", "replying"}
                     \cup IF ConnectionLost THEN {"crashed"} ELSE {}
  /\ UNCHANGED <<taskVars, spoiled, stopVars, server, inbox, answered, asked>>

AnswerDrained ==
  /\ readLoop = "replying"
  /\ readLoop' \in {"reading"} \cup IF ConnectionLost THEN {"crashed"} ELSE {}
  /\ UNCHANGED <<taskVars, taken, replied, spoiled, stopVars, serverVars>>

\* EOF, or a body cut short: no future is settled by it.
ReadEOF ==
  /\ readLoop = "reading"
  /\ toClient = <<>>
  /\ server = "dead"
  /\ readLoop' = "ended"
  /\ UNCHANGED <<taskVars, taken, replied, spoiled, stopVars, serverVars>>
-----------------------------------------------------------------------------
(* stop(). *)

\* _running is cleared and the read task cancelled; it swallows the
\* CancelledError and handles nothing more.
StopBegin ==
  /\ stopping = "no"
  /\ stopping' = "joining"
  /\ running' = FALSE
  /\ readLoop' = IF readLoop = "crashed" THEN readLoop ELSE "ended"
  /\ UNCHANGED <<taskVars, taken, replied, spoiled, stdinOpen, serverVars>>

StopCloseStdin ==
  /\ stopping = "joining"
  /\ stopping' = "exiting"
  /\ stdinOpen' = FALSE
  /\ UNCHANGED <<taskVars, loopVars, running, serverVars>>

\* Faulty variant: a second polite request instead of kill().
StopAskAgain ==
  /\ stopping = "exiting"
  /\ server = "up"
  /\ UNCHANGED vars

\* The process has not exited after 5 seconds.
StopKill ==
  /\ stopping = "exiting"
  /\ server = "up"
  /\ server' = "dead"
  /\ UNCHANGED <<taskVars, loopVars, stopVars, inbox, toClient, answered, asked>>

\* The calls whose futures stop() finds in _pending.
Registered == {pending[i] : i \in Ids} \ {NoCall}

StopClear ==
  /\ stopping = "exiting"
  /\ server = "dead"
  /\ stopping' = "stopped"
  /\ future' = [c \in Requests |-> IF c \in Registered THEN Cancelled(future[c])
                                                       ELSE future[c]]
  /\ pending' = [i \in Ids |-> NoCall]
  /\ UNCHANGED <<requestId, value, pc, id, loopVars, running, stdinOpen,
                 serverVars>>
-----------------------------------------------------------------------------
(* The language server (external). *)

\* A result or an error object, or, not sound, an error of another type (which
\* only matters where a future waits).
ServerAnswer(f, sound) ==
  /\ server = "up"
  /\ f \in inbox
  /\ f.call \in Forgets => sound
  /\ Len(toClient) < MaxUnread
  /\ inbox' = inbox \ {f}
  /\ toClient' = Append(toClient, [type |-> "response", id |-> f.id,
                                   call |-> f.call, sound |-> sound])
  /\ answered' = IF sound THEN answered \cup {f.call} ELSE answered
  /\ UNCHANGED <<taskVars, loopVars, stopVars, server, asked>>

ServerAsk(r) ==
  /\ server = "up"
  /\ r \notin asked
  /\ Len(toClient) < MaxUnread
  /\ asked' = asked \cup {r}
  /\ toClient' = Append(toClient, [type |-> "request", ask |-> r])
  /\ UNCHANGED <<taskVars, loopVars, stopVars, server, inbox, answered>>

ServerExit ==
  /\ server = "up"
  /\ server' = "dead"
  /\ UNCHANGED <<taskVars, loopVars, stopVars, inbox, toClient, answered, asked>>
-----------------------------------------------------------------------------
RequestStep(c) ==
  SendRequest(c) \/ TimerFires(c) \/ Resume(c) \/ ResumeExpired(c)

CallStep(c) == DrainDone(c) \/ DrainRaises(c) \/ CancelTask(c)

ReadStep ==
  \/ ReadResponse \/ ReadGarbled \/ IgnoreRequest
  \/ AnswerRequest \/ AnswerDrained \/ ReadEOF

StopStep == StopCloseStdin \/ StopKill \/ StopClear

ServerStep ==
  \/ \E f \in inbox, sound \in BOOLEAN : ServerAnswer(f, sound)
  \/ \E r \in Asks : ServerAsk(r)
  \/ ServerExit

Next ==
  \/ \E c \in Requests : RequestStep(c)
  \/ \E c \in Forgets : SendForget(c)
  \/ \E c \in Calls : CallStep(c)
  \/ ReadStep
  \/ StopBegin
  \/ StopStep
  \/ ServerStep

Spec == Init /\ [][Next]_vars

\* The event loop runs what is ready and fires its timers.  Nobody need read,
\* answer or exit: a full pipe drains if the server likes, and drain() is only
\* sure to be woken when the server is dead.
Fairness ==
  /\ \A c \in Requests :
       WF_vars(TimerFires(c)) /\ WF_vars(Resume(c)) /\ WF_vars(ResumeExpired(c))
  /\ \A c \in Calls :
       WF_vars(server = "dead" /\ (DrainDone(c) \/ DrainRaises(c)))
  /\ WF_vars(ReadResponse \/ ReadGarbled \/ IgnoreRequest \/ AnswerRequest
               \/ ReadEOF)
  /\ WF_vars(server = "dead" /\ AnswerDrained)
  /\ WF_vars(StopStep)

FairSpec == Spec /\ Fairness
-----------------------------------------------------------------------------
\* Every variable has its type.
TypeOK ==
  /\ requestId \in 0 .. MaxId
  /\ pending \in [Ids -> Requests \cup {NoCall}]
  /\ future \in [Requests -> {"none", "pending", "done", "cancelled"}]
  /\ value \in [Requests -> Calls \cup {NoCall}]
  /\ pc \in [Calls -> {"idle"} \cup InFlight \cup Ended]
  /\ id \in [Calls -> 0 .. MaxId]
  /\ readLoop \in {"reading", "replying", "ended", "crashed"}
  /\ running \in BOOLEAN
  /\ stdinOpen \in BOOLEAN
  /\ stopping \in {"no", "joining", "exiting", "stopped"}
  /\ server \in {"up", "dead"}
  /\ inbox \subseteq Frame
  /\ toClient \in Seq(Response \cup Ask)
  /\ answered \subseteq Calls
  /\ asked \subseteq Asks
  /\ taken \subseteq Asks
  /\ replied \subseteq taken
  /\ spoiled \subseteq Requests

\* A caller that gets an answer gets the answer to its own request, whatever
\* timed out, was cancelled or came late before it (send_request and
\* _handle_response share nothing but the ids of _pending).
OwnAnswer == \A c \in Requests : pc[c] = "returned" => value[c] = c

\* No sound answer, however late or unexpected, makes set_result raise and so
\* ends the read loop of every caller (the done() guard of _handle_response):
\* with the connection alive, the loop dies of an exception only after a
\* message that breaks the protocol, and of an ill-formed answer only when the
\* caller it was for still waited for it.
ReadLoopSurvives ==
  readLoop = "crashed" =>
    \/ ConnectionLost
    \/ taken \cap Garbled # {}
    \/ \E c \in spoiled : pending[id[c]] = NoCall /\ future[c] \in {"pending", "cancelled"}

\* A caller whose future is not settled can still be reached through
\* _pending, by an answer or by the sweep of stop(): nobody else's entry,
\* pop or clear has displaced it; only its own answer has, when it was
\* ill-formed.
CallerReachable ==
  \A c \in Requests :
    pc[c] \in {"draining", "waiting"} /\ future[c] = "pending"
      => pending[id[c]] = c \/ c \in spoiled

\* Calls that returned or timed out leave nothing in _pending; the entries
\* that outlive their call are those of a failed write and of a cancelled
\* task.
NoEntryOutlivesAnswer ==
  \A i \in Ids : pending[i] # NoCall
                   => pc[pending[i]] \in InFlight \cup {"raised", "cancelled"}

\* When stop() finishes no caller is left waiting for an answer that cannot
\* come, but for the one whose ill-formed answer the read loop died of: it
\* waits for its timeout.
StopReleases ==
  [][StopClear => \A c \in Requests \ spoiled :
                    pc[c] = "waiting" => future'[c] # "pending"]_vars

\* Every call ends, whether the server answers, is silent or dies, and
\* whether or not the transport is stopped meanwhile; but for a call held in
\* drain(), which no timeout covers (transport.py:599), by a server that lives,
\* reads nothing and is never stopped.
EveryCallEnds ==
  \A c \in Requests :
    pc[c] \in InFlight ~>
      \/ pc[c] \in Ended
      \/ [](pc[c] = "draining" /\ server = "up" /\ stopping = "no")

\* stop() finishes whatever the server and the callers do.
StopEnds == stopping = "joining" ~> stopping = "stopped"

\* What the callers see of a call in the terms of Rpc.
RpcStatus ==
  [c \in Requests |-> CASE pc[c] = "idle" -> "idle"
                        [] pc[c] \in InFlight -> "open"
                        [] pc[c] = "returned" -> "ok"
                        [] OTHER -> "failed"]

R == INSTANCE Rpc WITH
       Calls <- Requests, status <- RpcStatus, answered <- answered \cap Requests

\* The transport implements Rpc: a call ends once, and well only with an
\* answer the server gave to that very call.
ImplementsRpc == R!Spec
=============================================================================
