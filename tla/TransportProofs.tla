-------------------------- MODULE TransportProofs --------------------------
(* Invariance and refinement theorems about Transport, for any sets of     *)
(* calls and any bound on the ids.                                         *)
EXTENDS Transport, TLAPS

-----------------------------------------------------------------------------
(* Sequences as queues.                                                     *)

\* Taking the first element leaves the others, one place nearer.
LEMMA HeadTail ==
  ASSUME NEW S, NEW s \in Seq(S), s # <<>>
  PROVE  /\ Head(s) \in S
         /\ Head(s) = s[1]
         /\ Len(s) \in Nat
         /\ 1 \in 1 .. Len(s)
         /\ Tail(s) \in Seq(S)
         /\ Len(Tail(s)) = Len(s) - 1
         /\ \A k \in 1 .. Len(Tail(s)) :
              k + 1 \in 1 .. Len(s) /\ Tail(s)[k] = s[k + 1]
OBVIOUS

\* Appending adds an element behind the others.
LEMMA Appended ==
  ASSUME NEW S, NEW s \in Seq(S), NEW e \in S
  PROVE  /\ Append(s, e) \in Seq(S)
         /\ Append(s, e) # <<>>
         /\ Len(s) \in Nat
         /\ Len(Append(s, e)) = Len(s) + 1
         /\ Append(s, e)[Len(s) + 1] = e
         /\ s # <<>> => Head(Append(s, e)) = Head(s)
         /\ \A k \in 1 .. Len(s) :
              k \in 1 .. Len(Append(s, e)) /\ Append(s, e)[k] = s[k]
<1>1. /\ Append(s, e) \in Seq(S) /\ Len(s) \in Nat
      /\ Len(Append(s, e)) = Len(s) + 1
      /\ Append(s, e)[Len(s) + 1] = e
      /\ \A k \in 1 .. Len(s) : Append(s, e)[k] = s[k]
  OBVIOUS
<1>2. Append(s, e) # <<>>
  BY <1>1
<1>3. ASSUME s # <<>> PROVE Head(Append(s, e)) = Head(s)
  <2>1. Len(s) # 0 /\ Head(s) = s[1]
    BY <1>3
  <2>2. Head(Append(s, e)) = Append(s, e)[1]
    BY <1>1, <1>2
  <2> QED
    BY <1>1, <2>1, <2>2
<1> QED
  BY <1>1, <1>2, <1>3

-----------------------------------------------------------------------------
\* A call draws its id once, and ids are not shared.
IdsDrawn ==
  /\ \A c \in Calls : id[c] <= requestId /\ (pc[c] = "idle" <=> id[c] = 0)
  /\ \A c, d \in Calls : id[c] = id[d] /\ id[c] # 0 => c = d

\* An id stands for the call that drew it in _pending, in the frames the
\* server holds and in the answers under way.
IdsKept ==
  /\ \A i \in Ids : pending[i] # NoCall => id[pending[i]] = i
  /\ \A f \in inbox : id[f.call] = f.id
  /\ \A k \in 1 .. Len(toClient) :
       toClient[k].type = "response"
         => /\ id[toClient[k].call] = toClient[k].id
            /\ toClient[k].sound => toClient[k].call \in answered

\* What a future holds is the server's answer to its own call.
AnswersKept ==
  \A c \in Requests :
    /\ future[c] = "done" => value[c] = c /\ c \in answered
    /\ pc[c] = "returned" => future[c] = "done"

\* A call in flight is registered exactly while its future is open, but for
\* the calls with an ill-formed answer.
Registration ==
  \A c \in Requests \ spoiled :
    pc[c] \in {"draining", "waiting"}
      => (future[c] = "pending" <=> pending[id[c]] = c)

\* Entries belong to calls in flight, failed or cancelled; a future exists
\* from the moment its call has drawn an id.
Entries ==
  /\ NoEntryOutlivesAnswer
  /\ \A c \in Requests : pc[c] = "idle" <=> future[c] = "none"
  /\ \A c \in Requests : pc[c] # "sent"

\* The read loop dies with a call whose entry is gone and whose future nobody
\* will settle but a timer; otherwise it dies of a lost connection or of JSON
\* that is no object.
LoopDeaths ==
  /\ \A c \in spoiled : /\ id[c] # 0
                         /\ pending[id[c]] = NoCall
                         /\ future[c] \in {"pending", "cancelled"}
  /\ readLoop = "crashed"
       => ConnectionLost \/ taken \cap Garbled # {} \/ spoiled # {}

IInv ==
  /\ TypeOK
  /\ IdsDrawn
  /\ IdsKept
  /\ AnswersKept
  /\ Registration
  /\ Entries
  /\ LoopDeaths

-----------------------------------------------------------------------------
\* What the read loop takes is a response or a request, and the rest stays.
LEMMA ReceivedMessage ==
  ASSUME TypeOK, NEW t, Received(t)
  PROVE  /\ toClient \in Seq(Response \cup Ask)
         /\ toClient # <<>>
         /\ toClient' = Tail(toClient)
         /\ toClient' \in Seq(Response \cup Ask)
         /\ t = "response" => Head(toClient) \in Response
         /\ t = "request" => Head(toClient) \in Ask
<1>1. toClient \in Seq(Response \cup Ask) /\ toClient # <<>>
  BY DEF TypeOK, Received
<1>2. Head(toClient) \in Response \cup Ask
      /\ Tail(toClient) \in Seq(Response \cup Ask)
  BY <1>1, HeadTail
<1>3. Head(toClient).type = t /\ toClient' = Tail(toClient)
  BY DEF Received
<1> QED
  BY <1>1, <1>2, <1>3 DEF Response, Ask
-----------------------------------------------------------------------------
\* The types hold at first.
LEMMA TypeInit == Init => TypeOK
BY TransportAssumption
   DEF Init, TypeOK, Calls, Ids, Frame, InFlight, Ended

\* Every step keeps the types.
LEMMA TypeNext == TypeOK /\ [Next]_vars => TypeOK'
<1> SUFFICES ASSUME TypeOK, [Next]_vars PROVE TypeOK'
  OBVIOUS
<1> USE TransportAssumption
    DEF TypeOK, taskVars, loopVars, stopVars, serverVars, Ids, Calls, InFlight,
        Ended, ConnectionLost
<1>1. ASSUME NEW c \in Requests, SendRequest(c) PROVE TypeOK'
  BY <1>1 DEF SendRequest, NextId, Written, AfterWrite, Frame
<1>2. ASSUME NEW c \in Requests, TimerFires(c) PROVE TypeOK'
  BY <1>2 DEF TimerFires, Cancelled
<1>3. ASSUME NEW c \in Requests, Resume(c) PROVE TypeOK'
  BY <1>3 DEF Resume
<1>4. ASSUME NEW c \in Requests, ResumeExpired(c) PROVE TypeOK'
  BY <1>4 DEF ResumeExpired
<1>5. ASSUME NEW c \in Forgets, SendForget(c) PROVE TypeOK'
  BY <1>5 DEF SendForget, NextId, Written, AfterWrite, Frame
<1>6. ASSUME NEW c \in Calls, DrainDone(c) PROVE TypeOK'
  BY <1>6 DEF DrainDone
<1>7. ASSUME NEW c \in Calls, DrainRaises(c) PROVE TypeOK'
  BY <1>7 DEF DrainRaises
<1>8. ASSUME NEW c \in Calls, CancelTask(c) PROVE TypeOK'
  BY <1>8 DEF CancelTask, Cancelled
<1>9. CASE ReadResponse
  <2>1. /\ Received("response")
        /\ UNCHANGED <<requestId, pc, id, taken, replied, stopVars, server, inbox,
                       answered, asked>>
    BY <1>9 DEF ReadResponse
  <2>2. Head(toClient) \in Response /\ toClient' \in Seq(Response \cup Ask)
    BY <2>1, ReceivedMessage
  <2>3. Head(toClient).id \in Ids /\ Head(toClient).call \in Calls
    BY <2>2 DEF Response
  <2> DEFINE m == Head(toClient)
             c == pending[m.id]
  <2>4. /\ pending' = [pending EXCEPT ![m.id] = NoCall]
        /\ \/ UNCHANGED <<future, value, readLoop, spoiled>>
           \/ c # NoCall /\ m.sound /\ SetResult(c, m.call) /\ spoiled' = spoiled
           \/ c # NoCall /\ ErrorRaises(c)
    BY <1>9 DEF ReadResponse, MaySet
  <2>5. c \in Requests \cup {NoCall} /\ m.id \in Ids /\ m.call \in Calls
    BY <2>3
  <2> HIDE DEF m, c
  <2> QED
    BY <2>1, <2>2, <2>4, <2>5 DEF SetResult, ErrorRaises
<1>10. CASE IgnoreRequest
  <2>1. Received("request")
    BY <1>10 DEF IgnoreRequest
  <2>2. Head(toClient) \in Ask /\ toClient' \in Seq(Response \cup Ask)
    BY <2>1, ReceivedMessage
  <2>3. Head(toClient).ask \in Asks
    BY <2>2 DEF Ask
  <2> QED
    BY <1>10, <2>2, <2>3 DEF IgnoreRequest
<1>11. CASE AnswerRequest
  <2>1. Received("request")
    BY <1>11 DEF AnswerRequest
  <2>2. Head(toClient) \in Ask /\ toClient' \in Seq(Response \cup Ask)
    BY <2>1, ReceivedMessage
  <2>3. Head(toClient).ask \in Asks
    BY <2>2 DEF Ask
  <2> QED
    BY <1>11, <2>2, <2>3 DEF AnswerRequest
<1>12. CASE AnswerDrained
  BY <1>12 DEF AnswerDrained
<1>13. CASE ReadEOF
  BY <1>13 DEF ReadEOF
<1>14. CASE StopBegin
  BY <1>14 DEF StopBegin
<1>15. CASE StopCloseStdin
  BY <1>15 DEF StopCloseStdin
<1>16. CASE StopKill
  BY <1>16 DEF StopKill
<1>17. CASE StopClear
  BY <1>17 DEF StopClear, Cancelled, Registered
<1>18. ASSUME NEW f \in inbox, NEW sound \in BOOLEAN, ServerAnswer(f, sound)
       PROVE  TypeOK'
  <2>1. [type |-> "response", id |-> f.id, call |-> f.call, sound |-> sound]
          \in Response \cup Ask
    BY <1>18 DEF Frame, Response
  <2> QED
    BY <1>18, <2>1, Appended DEF ServerAnswer, Frame
<1>19. ASSUME NEW r \in Asks, ServerAsk(r) PROVE TypeOK'
  <2>1. [type |-> "request", ask |-> r] \in Response \cup Ask
    BY <1>19 DEF Ask
  <2> QED
    BY <1>19, <2>1, Appended DEF ServerAsk
<1>20. CASE ServerExit
  BY <1>20 DEF ServerExit
<1>21. CASE UNCHANGED vars
  BY <1>21 DEF vars
<1>22. CASE ReadGarbled
  <2>1. Received("request")
    BY <1>22 DEF ReadGarbled
  <2>2. Head(toClient) \in Ask /\ toClient' \in Seq(Response \cup Ask)
    BY <2>1, ReceivedMessage
  <2>3. Head(toClient).ask \in Asks
    BY <2>2 DEF Ask
  <2> QED
    BY <1>22, <2>2, <2>3 DEF ReadGarbled
<1> QED
  BY <1>1, <1>2, <1>3, <1>4, <1>5, <1>6, <1>7, <1>8, <1>9, <1>10, <1>11, <1>12,
     <1>13, <1>14, <1>15, <1>16, <1>17, <1>18, <1>19, <1>20, <1>21, <1>22
  DEF Next, RequestStep, CallStep, ReadStep, StopStep, ServerStep

\* Every variable of the transport keeps its type (StdioTransport).
THEOREM TypeCorrect == Spec => []TypeOK
BY TypeInit, TypeNext, PTL DEF Spec
-----------------------------------------------------------------------------
\* The inductive invariant holds at first.
LEMMA InvInit == Init => IInv
<1> SUFFICES ASSUME Init PROVE IInv
  OBVIOUS
<1>1. TypeOK
  BY TypeInit
<1>2. IdsDrawn /\ IdsKept /\ AnswersKept /\ Registration /\ Entries
      /\ LoopDeaths
  BY TransportAssumption
     DEF Init, IdsDrawn, IdsKept, AnswersKept, Registration, Entries, Calls, Ids,
         NoEntryOutlivesAnswer, LoopDeaths, InFlight
<1> QED
  BY <1>1, <1>2 DEF IInv

\* The answers that stay under way still carry the ids of their calls.
LEMMA AnswersStay ==
  ASSUME IInv, NEW t, Received(t), id' = id, answered' = answered
  PROVE  \A k \in 1 .. Len(toClient') :
           toClient'[k].type = "response"
             => /\ id'[toClient'[k].call] = toClient'[k].id
                /\ toClient'[k].sound => toClient'[k].call \in answered'
<1>1. toClient \in Seq(Response \cup Ask) /\ toClient # <<>>
      /\ toClient' = Tail(toClient)
  BY ReceivedMessage DEF IInv
<1>2. \A k \in 1 .. Len(Tail(toClient)) :
        k + 1 \in 1 .. Len(toClient) /\ Tail(toClient)[k] = toClient[k + 1]
  BY <1>1, HeadTail
<1> QED
  BY <1>1, <1>2 DEF IInv, IdsKept

\* An answer taken carries the id of the call it answers.
LEMMA AnswerTaken ==
  ASSUME IInv, Received("response")
  PROVE  LET m == Head(toClient)
         IN  /\ m.id \in Ids /\ m.call \in Calls
             /\ id[m.call] = m.id
             /\ m.sound => m.call \in answered
             /\ m.sound \in BOOLEAN
<1>1. Head(toClient) \in Response /\ toClient \in Seq(Response \cup Ask)
      /\ toClient # <<>>
  BY ReceivedMessage DEF IInv
<1>2. Head(toClient) = toClient[1] /\ 1 \in 1 .. Len(toClient)
  BY <1>1, HeadTail
<1>3. Head(toClient).type = "response"
  BY DEF Received
<1> QED
  BY <1>1, <1>2, <1>3 DEF IInv, IdsKept, Response

\* Every step keeps the inductive invariant.
LEMMA InvNext == IInv /\ [Next]_vars => IInv'
<1> SUFFICES ASSUME IInv, [Next]_vars PROVE IInv'
  OBVIOUS
<1>0. TypeOK /\ TypeOK'
  BY TypeNext DEF IInv
<1> USE <1>0, TransportAssumption
    DEF IInv, IdsDrawn, IdsKept, AnswersKept, Registration, Entries,
        NoEntryOutlivesAnswer, LoopDeaths, TypeOK, Frame,
        taskVars, loopVars, stopVars, serverVars, Ids, Calls, InFlight, Ended,
        ConnectionLost
<1>1. ASSUME NEW c \in Requests, SendRequest(c) PROVE IInv'
  <2>1. /\ NextId \in Ids /\ NextId = requestId + 1 /\ requestId \in 0 .. MaxId
        /\ id[c] = 0 /\ c \in Calls
        /\ \A d \in Calls : id[d] # NextId /\ id[d] <= requestId
    BY <1>1 DEF SendRequest, NextId
  <2>2. IdsDrawn'
    BY <1>1, <2>1 DEF SendRequest, AfterWrite
  <2>3. IdsKept'
    <3>1. \A f \in inbox' : id'[f.call] = f.id
      BY <1>1, <2>1 DEF SendRequest, Written
    <3>2. \A i \in Ids : pending'[i] # NoCall => id'[pending'[i]] = i
      BY <1>1, <2>1 DEF SendRequest
    <3>3. \A k \in 1 .. Len(toClient') : toClient'[k].type = "response"
            => /\ id'[toClient'[k].call] = toClient'[k].id
               /\ toClient'[k].sound => toClient'[k].call \in answered'
      <4>1. \A k \in 1 .. Len(toClient) : toClient[k].type = "response"
              => toClient[k].id \in Ids /\ toClient[k].call \in Calls
        BY DEF Response, Ask
      <4> QED
        BY <1>1, <2>1, <4>1 DEF SendRequest
    <3> QED
      BY <3>1, <3>2, <3>3
  <2>4. AnswersKept' /\ Registration'
    BY <1>1, <2>1 DEF SendRequest, AfterWrite
  <2>5. Entries' /\ LoopDeaths'
    BY <1>1, <2>1 DEF SendRequest, AfterWrite
  <2> QED
    BY <2>2, <2>3, <2>4, <2>5
<1>2. ASSUME NEW c \in Requests, TimerFires(c) PROVE IInv'
  BY <1>2 DEF TimerFires, Cancelled
<1>3. ASSUME NEW c \in Requests, Resume(c) PROVE IInv'
  BY <1>3 DEF Resume
<1>4. ASSUME NEW c \in Requests, ResumeExpired(c) PROVE IInv'
  <2>1. /\ id' = id /\ inbox' = inbox /\ toClient' = toClient /\ future' = future
        /\ value' = value /\ answered' = answered /\ readLoop' = readLoop
        /\ requestId' = requestId /\ taken' = taken /\ spoiled' = spoiled
        /\ server' = server /\ stdinOpen' = stdinOpen
        /\ pc[c] = "expiring" /\ pc' = [pc EXCEPT ![c] = "timedout"]
        /\ pending' = [pending EXCEPT ![id[c]] = NoCall]
    BY <1>4 DEF ResumeExpired
  <2>2. id[c] \in Ids /\ \A d \in Calls : id[d] = id[c] => d = c
    BY <2>1
  <2>3. IdsDrawn' /\ IdsKept'
    BY <2>1, <2>2
  <2>4. AnswersKept' /\ Registration'
    BY <2>1, <2>2
  <2>5. Entries' /\ LoopDeaths'
    BY <2>1, <2>2
  <2> QED
    BY <2>3, <2>4, <2>5
<1>5. ASSUME NEW c \in Forgets, SendForget(c) PROVE IInv'
  <2>1. /\ NextId \in Ids /\ NextId = requestId + 1 /\ requestId \in 0 .. MaxId
        /\ id[c] = 0 /\ c \in Calls
        /\ \A d \in Calls : id[d] # NextId /\ id[d] <= requestId
    BY <1>5 DEF SendForget, NextId
  <2>2. IdsDrawn'
    BY <1>5, <2>1 DEF SendForget, AfterWrite
  <2>3. IdsKept'
    <3>1. \A f \in inbox' : id'[f.call] = f.id
      BY <1>5, <2>1 DEF SendForget, Written
    <3>2. \A i \in Ids : pending'[i] # NoCall => id'[pending'[i]] = i
      BY <1>5, <2>1 DEF SendForget
    <3>3. \A k \in 1 .. Len(toClient') : toClient'[k].type = "response"
            => /\ id'[toClient'[k].call] = toClient'[k].id
               /\ toClient'[k].sound => toClient'[k].call \in answered'
      <4>1. \A k \in 1 .. Len(toClient) : toClient[k].type = "response"
              => toClient[k].id \in Ids /\ toClient[k].call \in Calls
        BY DEF Response, Ask
      <4> QED
        BY <1>5, <2>1, <4>1 DEF SendForget
    <3> QED
      BY <3>1, <3>2, <3>3
  <2>4. AnswersKept' /\ Registration'
    BY <1>5, <2>1 DEF SendForget, AfterWrite
  <2>5. Entries' /\ LoopDeaths'
    BY <1>5, <2>1 DEF SendForget, AfterWrite
  <2> QED
    BY <2>2, <2>3, <2>4, <2>5
<1>6. ASSUME NEW c \in Calls, DrainDone(c) PROVE IInv'
  BY <1>6 DEF DrainDone
<1>7. ASSUME NEW c \in Calls, DrainRaises(c) PROVE IInv'
  BY <1>7 DEF DrainRaises
<1>8. ASSUME NEW c \in Calls, CancelTask(c) PROVE IInv'
  BY <1>8 DEF CancelTask, Cancelled
<1>9. ASSUME ReadResponse PROVE IInv'
  <2> DEFINE m == Head(toClient)
  <2>1. Received("response") /\ id' = id /\ answered' = answered /\ pc' = pc
    BY <1>9 DEF ReadResponse
  <2>2. /\ m.id \in Ids /\ m.call \in Calls
        /\ id[m.call] = m.id
        /\ m.sound => m.call \in answered
        /\ m.sound \in BOOLEAN
    BY <2>1, AnswerTaken
  <2>3. pending' = [pending EXCEPT ![m.id] = NoCall]
    BY <1>9 DEF ReadResponse
  <2>4. pending[m.id] # NoCall => pending[m.id] = m.call
    <3> HIDE DEF m
    <3>1. pending[m.id] # NoCall
            => pending[m.id] \in Calls /\ id[pending[m.id]] = m.id
      BY <2>2
    <3>2. m.id # 0
      BY <2>2
    <3> QED
      BY <2>2, <3>1, <3>2
  <2>5. IdsDrawn' /\ IdsKept'
    <3>1. \A k \in 1 .. Len(toClient') : toClient'[k].type = "response"
            => /\ id'[toClient'[k].call] = toClient'[k].id
               /\ toClient'[k].sound => toClient'[k].call \in answered'
      BY <2>1, AnswersStay
    <3>2. inbox' = inbox /\ requestId' = requestId
      BY <1>9 DEF ReadResponse
    <3>3. \A i \in Ids : pending'[i] # NoCall => id'[pending'[i]] = i
      BY <2>1, <2>2, <2>3
    <3> HIDE DEF m
    <3> QED
      BY <2>1, <3>1, <3>2, <3>3
  <2>6. CASE pending[m.id] # NoCall /\ future[m.call] = "pending" /\ m.sound
    <3>1. /\ future' = [future EXCEPT ![m.call] = "done"]
          /\ value' = [value EXCEPT ![m.call] = m.call]
          /\ readLoop' = readLoop /\ spoiled' = spoiled
      BY <1>9, <2>4, <2>6 DEF ReadResponse, MaySet, SetResult
    <3> HIDE DEF m
    <3>2. AnswersKept' /\ Registration'
      BY <2>1, <2>2, <2>3, <2>4, <2>6, <3>1
    <3> QED
      BY <1>9, <2>1, <2>2, <2>3, <2>5, <2>6, <3>1, <3>2 DEF ReadResponse
  <2>8. CASE pending[m.id] # NoCall /\ future[m.call] = "pending" /\ ~m.sound
    <3>1. /\ future' = future /\ value' = value
          /\ readLoop' = "crashed" /\ spoiled' = spoiled \cup {m.call}
      BY <1>9, <2>4, <2>8 DEF ReadResponse, MaySet, ErrorRaises
    <3> HIDE DEF m
    <3>2. AnswersKept' /\ Registration'
      BY <2>1, <2>2, <2>3, <2>4, <2>8, <3>1
    <3>3. LoopDeaths'
      BY <2>1, <2>2, <2>3, <2>4, <2>8, <3>1
    <3> QED
      BY <1>9, <2>1, <2>2, <2>3, <2>5, <2>8, <3>1, <3>2, <3>3 DEF ReadResponse
  <2>7. CASE ~(pending[m.id] # NoCall /\ future[m.call] = "pending")
    <3>1. UNCHANGED <<future, value, readLoop, spoiled>>
      BY <1>9, <2>4, <2>7 DEF ReadResponse, MaySet, SetResult
    <3> HIDE DEF m
    <3>2. AnswersKept' /\ Registration'
      BY <2>1, <2>2, <2>3, <2>4, <2>7, <3>1
    <3> QED
      BY <1>9, <2>1, <2>2, <2>3, <2>5, <2>7, <3>1, <3>2 DEF ReadResponse
  <2> QED
    BY <2>2, <2>6, <2>7, <2>8
<1>10. ASSUME IgnoreRequest PROVE IInv'
  <2>1. Received("request") /\ id' = id /\ answered' = answered
    BY <1>10 DEF IgnoreRequest
  <2>2. IdsKept'
    BY <1>10, <2>1, AnswersStay DEF IgnoreRequest
  <2> QED
    BY <1>10, <2>2 DEF IgnoreRequest
<1>11. ASSUME AnswerRequest PROVE IInv'
  <2>1. Received("request") /\ id' = id /\ answered' = answered
    BY <1>11 DEF AnswerRequest
  <2>2. IdsKept'
    BY <1>11, <2>1, AnswersStay DEF AnswerRequest
  <2> QED
    BY <1>11, <2>2 DEF AnswerRequest
<1>12. ASSUME AnswerDrained PROVE IInv'
  BY <1>12 DEF AnswerDrained
<1>13. ASSUME ReadEOF PROVE IInv'
  BY <1>13 DEF ReadEOF
<1>14. ASSUME StopBegin PROVE IInv'
  BY <1>14 DEF StopBegin
<1>15. ASSUME StopCloseStdin PROVE IInv'
  BY <1>15 DEF StopCloseStdin
<1>16. ASSUME StopKill PROVE IInv'
  BY <1>16 DEF StopKill
<1>17. ASSUME StopClear PROVE IInv'
  BY <1>17 DEF StopClear, Cancelled, Registered
<1>18. ASSUME NEW f \in inbox, NEW sound \in BOOLEAN, ServerAnswer(f, sound)
       PROVE  IInv'
  BY <1>18 DEF ServerAnswer
<1>19. ASSUME NEW r \in Asks, ServerAsk(r) PROVE IInv'
  BY <1>19 DEF ServerAsk
<1>20. ASSUME ServerExit PROVE IInv'
  BY <1>20 DEF ServerExit
<1>21. ASSUME UNCHANGED vars PROVE IInv'
  BY <1>21 DEF vars
<1>22. ASSUME ReadGarbled PROVE IInv'
  <2>1. Received("request") /\ id' = id /\ answered' = answered
    BY <1>22 DEF ReadGarbled
  <2>2. IdsKept'
    BY <1>22, <2>1, AnswersStay DEF ReadGarbled
  <2> QED
    BY <1>22, <2>2 DEF ReadGarbled
<1> HIDE DEF IInv
<1> QED
  BY <1>1, <1>2, <1>3, <1>4, <1>5, <1>6, <1>7, <1>8, <1>9, <1>10, <1>11, <1>12,
     <1>13, <1>14, <1>15, <1>16, <1>17, <1>18, <1>19, <1>20, <1>21, <1>22
  DEF Next, RequestStep, CallStep, ReadStep, StopStep, ServerStep

\* The inductive invariant holds for good.
LEMMA Invariance == Spec => []IInv
BY InvInit, InvNext, PTL DEF Spec

\* A caller that gets an answer gets its own (send_request,
\* _handle_response), for any number of calls.
THEOREM OwnAnswerHolds == Spec => []OwnAnswer
<1>1. IInv => OwnAnswer
  BY DEF IInv, AnswersKept, OwnAnswer
<1> QED
  BY Invariance, <1>1, PTL

\* With the connection alive, the read loop dies of an exception only after
\* JSON that is no object (_handle_message) or after an ill-formed answer to a
\* caller that still waited for it, and whose entry is then gone
\* (_handle_response); no late or unexpected answer ends it.
THEOREM ReadLoopHolds == Spec => []ReadLoopSurvives
<1>1. IInv => ReadLoopSurvives
  BY DEF IInv, LoopDeaths, ReadLoopSurvives
<1> QED
  BY Invariance, <1>1, PTL

\* A caller with an open future is registered under its id, unless its own
\* answer was ill-formed (_pending).
THEOREM CallerReachableHolds == Spec => []CallerReachable
<1>1. IInv => CallerReachable
  BY DEF IInv, Registration, CallerReachable
<1> QED
  BY Invariance, <1>1, PTL

\* Answers and timeouts leave nothing in _pending.
THEOREM NoEntryHolds == Spec => []NoEntryOutlivesAnswer
<1>1. IInv => NoEntryOutlivesAnswer
  BY DEF IInv, Entries
<1> QED
  BY Invariance, <1>1, PTL

\* stop() leaves no caller waiting for an open future, but for one whose answer
\* was ill-formed.
THEOREM StopReleasesHolds == Spec => StopReleases
<1>1. IInv /\ [Next]_vars
        => [StopClear => \A c \in Requests \ spoiled :
                           pc[c] = "waiting" => future'[c] # "pending"]_vars
  <2> SUFFICES ASSUME IInv, StopClear, NEW c \in Requests \ spoiled,
                      pc[c] = "waiting"
               PROVE  future'[c] # "pending"
    OBVIOUS
  <2>1. future[c] = "pending" => c \in Registered
    BY TransportAssumption
       DEF IInv, Registration, TypeOK, IdsDrawn, Registered, Ids, Calls
  <2> QED
    BY <2>1 DEF StopClear, Cancelled
<1> QED
  BY Invariance, <1>1, PTL DEF Spec, StopReleases
-----------------------------------------------------------------------------
(* Every step of the transport is a step of Rpc or a stutter.              *)

\* Initial states map to initial states of Rpc.
LEMMA RpcInit == Init => R!Init
BY TransportAssumption DEF Init, R!Init, RpcStatus, Calls, InFlight

\* Every step maps to a step of Rpc or to a stutter.
LEMMA RpcNext == IInv /\ [Next]_vars => [R!Next]_(R!vars)
<1> SUFFICES ASSUME IInv, [Next]_vars PROVE [R!Next]_(R!vars)
  OBVIOUS
<1> USE TransportAssumption DEF Calls, InFlight
<1>0. TypeOK
  BY DEF IInv
<1>1. ASSUME NEW c \in Requests, SendRequest(c) PROVE R!Next
  <2>1. /\ RpcStatus[c] = "idle" /\ answered' = answered
        /\ RpcStatus' = [RpcStatus EXCEPT ![c] =
                            IF pc'[c] = "raised" THEN "failed" ELSE "open"]
    BY <1>0, <1>1 DEF SendRequest, AfterWrite, RpcStatus, TypeOK
  <2> QED
    BY <2>1 DEF R!Next, R!Open, R!Fail
<1>2. ASSUME NEW c \in Requests, TimerFires(c) PROVE UNCHANGED R!vars
  BY <1>0, <1>2 DEF TimerFires, serverVars, RpcStatus, TypeOK, R!vars
<1>3. ASSUME NEW c \in Requests, Resume(c) PROVE R!Next
  <2>1. /\ RpcStatus[c] = "open" /\ answered' = answered
        /\ RpcStatus' = [RpcStatus EXCEPT ![c] =
                            IF future[c] = "done" THEN "ok" ELSE "failed"]
    BY <1>0, <1>3 DEF Resume, serverVars, RpcStatus, TypeOK
  <2>2. future[c] = "done" => c \in answered
    BY DEF IInv, AnswersKept
  <2> QED
    BY <2>1, <2>2 DEF R!Next, R!Return, R!Fail
<1>4. ASSUME NEW c \in Requests, ResumeExpired(c) PROVE R!Next
  <2>1. /\ RpcStatus[c] = "open" /\ answered' = answered
        /\ RpcStatus' = [RpcStatus EXCEPT ![c] = "failed"]
    BY <1>0, <1>4 DEF ResumeExpired, serverVars, RpcStatus, TypeOK
  <2> QED
    BY <2>1 DEF R!Next, R!Fail
<1>5. ASSUME NEW c \in Forgets, SendForget(c) PROVE UNCHANGED R!vars
  BY <1>0, <1>5 DEF SendForget, RpcStatus, TypeOK, R!vars
<1>6. ASSUME NEW c \in Calls, DrainDone(c) PROVE UNCHANGED R!vars
  BY <1>0, <1>6 DEF DrainDone, serverVars, RpcStatus, TypeOK, R!vars
<1>7. ASSUME NEW c \in Calls, DrainRaises(c) PROVE [R!Next]_(R!vars)
  <2>1. CASE c \in Requests
    <3>1. /\ RpcStatus[c] = "open" /\ answered' = answered
          /\ RpcStatus' = [RpcStatus EXCEPT ![c] = "failed"]
      BY <1>0, <1>7, <2>1 DEF DrainRaises, serverVars, RpcStatus, TypeOK
    <3> QED
      BY <2>1, <3>1 DEF R!Next, R!Fail
  <2>2. CASE c \notin Requests
    BY <1>0, <1>7, <2>2 DEF DrainRaises, serverVars, RpcStatus, TypeOK, R!vars
  <2> QED
    BY <2>1, <2>2
<1>8. ASSUME NEW c \in Calls, CancelTask(c) PROVE [R!Next]_(R!vars)
  <2>1. CASE c \in Requests
    <3>1. /\ RpcStatus[c] = "open" /\ answered' = answered
          /\ RpcStatus' = [RpcStatus EXCEPT ![c] = "failed"]
      BY <1>0, <1>8, <2>1 DEF CancelTask, serverVars, RpcStatus, TypeOK
    <3> QED
      BY <2>1, <3>1 DEF R!Next, R!Fail
  <2>2. CASE c \notin Requests
    BY <1>0, <1>8, <2>2 DEF CancelTask, serverVars, RpcStatus, TypeOK, R!vars
  <2> QED
    BY <2>1, <2>2
<1>9. CASE ReadStep
  BY <1>9 DEF ReadStep, ReadResponse, ReadGarbled, IgnoreRequest, AnswerRequest,
      AnswerDrained, ReadEOF, taskVars, serverVars, RpcStatus, R!vars
<1>10. CASE StopBegin \/ StopStep
  BY <1>10 DEF StopBegin, StopStep, StopCloseStdin, StopKill, StopClear, taskVars,
      serverVars, RpcStatus, R!vars
<1>11. ASSUME NEW f \in inbox, NEW sound \in BOOLEAN, ServerAnswer(f, sound)
       PROVE  [R!Next]_(R!vars)
  <2>1. /\ f.call \in Calls /\ id[f.call] = f.id /\ f.id # 0
    BY <1>0 DEF IInv, IdsKept, TypeOK, Frame, Ids
  <2>2. pc[f.call] # "idle"
    BY <2>1 DEF IInv, IdsDrawn
  <2>3. /\ RpcStatus' = RpcStatus
        /\ answered' = IF sound THEN answered \cup {f.call} ELSE answered
    BY <1>11 DEF ServerAnswer, taskVars, RpcStatus
  <2>6. CASE ~sound
    BY <2>3, <2>6 DEF R!vars
  <2>4. CASE f.call \in Requests /\ sound
    <3>1. RpcStatus[f.call] # "idle"
      BY <2>2, <2>4 DEF RpcStatus
    <3> QED
      BY <2>3, <2>4, <3>1 DEF R!Next, R!Answer
  <2>5. CASE f.call \notin Requests
    BY <2>3, <2>5 DEF R!vars
  <2> QED
    BY <2>4, <2>5, <2>6
<1>12. ASSUME NEW r \in Asks, ServerAsk(r) PROVE UNCHANGED R!vars
  BY <1>12 DEF ServerAsk, taskVars, RpcStatus, R!vars
<1>13. CASE ServerExit
  BY <1>13 DEF ServerExit, taskVars, RpcStatus, R!vars
<1>14. CASE UNCHANGED vars
  BY <1>14 DEF vars, taskVars, serverVars, RpcStatus, R!vars
<1> QED
  BY <1>1, <1>2, <1>3, <1>4, <1>5, <1>6, <1>7, <1>8, <1>9, <1>10, <1>11, <1>12,
     <1>13, <1>14
  DEF Next, RequestStep, CallStep, ServerStep

\* The transport implements Rpc.
THEOREM Refinement == Spec => ImplementsRpc
<1>1. R!Init /\ [][R!Next]_(R!vars) => ImplementsRpc
  BY DEF ImplementsRpc, R!Spec
<1> QED
  BY RpcInit, RpcNext, Invariance, <1>1, PTL DEF Spec
=============================================================================
