----------------------------- MODULE IpcProofs -----------------------------
(* Invariance theorems about Ipc, for any number of calls and however the   *)
(* bytes are cut.                                                           *)
EXTENDS Ipc, TLAPS

Outcomes == {"result", "error"}
Byte == [msg : Conn \cup Outcomes, part : 1..FrameEnd]

\* The first k bytes of the frame of m, and the others.
Begun(m, k) == [i \in 1..k |-> [msg |-> m, part |-> i]]
Rest(m, k) == [i \in 1..(FrameEnd - k) |-> [msg |-> m, part |-> i + k]]

States == {"new", "waiting", "sent", "no socket", "no response", "timeout", "reset"}
            \cup Outcomes

Types ==
  /\ client \in [Conn -> States]
  /\ task \in [Conn -> {"none", "accepting", "reading", "handling", "done"}]
  /\ outcome \in [Conn -> {"none"} \cup Outcomes]
  /\ calls \in [Conn -> 0..1]
  /\ server \in {"up", "closing", "closed", "killed"}

Streams ==
  /\ up \in [Conn -> Seq(Byte)] /\ down \in [Conn -> Seq(Byte)]
  /\ buffer \in [Conn -> Seq(Byte)] /\ data \in [Conn -> Seq(Byte)]

\* Until the handler starts on it, a request is cut in two: what the connection
\* handler has read, and what is under way.
RequestCut(c) ==
  \/ buffer[c] = <<>> /\ up[c] = <<>>
  \/ /\ calls[c] = 0 /\ task[c] # "handling"
     /\ \E k \in 0..FrameEnd : buffer[c] = Begun(c, k) /\ up[c] = Rest(c, k)

\* So is its answer, which says how the handler ended.
AnswerCut(c) ==
  \/ data[c] = <<>> /\ down[c] = <<>>
  \/ /\ outcome[c] \in Outcomes
     /\ \E k \in 0..FrameEnd :
          data[c] = Begun(outcome[c], k) /\ down[c] = Rest(outcome[c], k)

\* Where a call and its handler can be at the same time.
Together(c) ==
  /\ client[c] = "new" =>
       task[c] = "none" /\ calls[c] = 0 /\ buffer[c] = <<>> /\ up[c] = <<>>
  /\ task[c] = "handling" => calls[c] = 1 /\ outcome[c] = "none"
  /\ outcome[c] # "none" => calls[c] = 1
  /\ calls[c] = 1 /\ outcome[c] = "none" => task[c] = "handling" \/ server = "killed"
  /\ task[c] = "done" /\ client[c] = "waiting" => server = "killed"
  /\ client[c] = "no response" => server = "killed"
  /\ client[c] \in Outcomes => outcome[c] = client[c]
  /\ server = "closed" => Idle(c)

CallInv(c) == RequestCut(c) /\ AnswerCut(c) /\ Together(c)

IInv == Types /\ Streams /\ \A c \in Conn : CallInv(c)

-----------------------------------------------------------------------------
\* A chunk moves the cut of a frame.
LEMMA CutMoves ==
  ASSUME NEW m, NEW k \in 0..FrameEnd, NEW n \in 1..Len(Rest(m, k))
  PROVE  /\ k + n \in 1..FrameEnd
         /\ Begun(m, k) \o SubSeq(Rest(m, k), 1, n) = Begun(m, k + n)
         /\ Moved(Rest(m, k), n) = Rest(m, k + n)
<1>1. /\ Len(Rest(m, k)) = FrameEnd - k /\ Len(Begun(m, k)) = k
      /\ Rest(m, k) \in Seq([msg : {m}, part : 1..FrameEnd])
      /\ Begun(m, k) \in Seq([msg : {m}, part : 1..FrameEnd])
  BY DEF Rest, Begun, FrameEnd
<1>2. n \in 1..(FrameEnd - k) /\ k + n \in 1..FrameEnd
  BY <1>1 DEF FrameEnd
<1>3. SubSeq(Rest(m, k), 1, n) = [i \in 1..n |-> [msg |-> m, part |-> i + k]]
  BY <1>1, <1>2 DEF Rest, FrameEnd
<1>4. Begun(m, k) \o [i \in 1..n |-> [msg |-> m, part |-> i + k]] = Begun(m, k + n)
  BY <1>1, <1>2 DEF Begun, FrameEnd
<1>5. Moved(Rest(m, k), n) = Rest(m, k + n)
  BY <1>1, <1>2 DEF Moved, Rest, FrameEnd
<1> QED
  BY <1>2, <1>3, <1>4, <1>5

\* What is parsed of a frame that is not yet whole is nothing, and then the message.
LEMMA ParsedWhole ==
  ASSUME NEW m, NEW k \in 0..FrameEnd
  PROVE  Parsed(Begun(m, k)) = IF k = FrameEnd THEN m ELSE Incomplete
<1>1. Len(Begun(m, k)) = k
  BY DEF Begun, FrameEnd
<1>2. k = FrameEnd => Begun(m, k)[FrameEnd].msg = m
  BY DEF Begun, FrameEnd
<1> QED
  BY <1>1, <1>2 DEF Parsed, FrameEnd, HeaderEnd

\* The two ends of a frame.
LEMMA CutEnds ==
  ASSUME NEW m
  PROVE  /\ Begun(m, 0) = <<>> /\ Rest(m, 0) = Frame(m)
         /\ Rest(m, FrameEnd) = <<>>
BY DEF Begun, Rest, Frame, FrameEnd

LEMMA FrameBytes ==
  ASSUME NEW m \in Conn \cup Outcomes
  PROVE  Frame(m) \in Seq(Byte)
BY DEF Frame, Byte, FrameEnd

-----------------------------------------------------------------------------
\* The parts of the invariant that a call's program points need.
LEMMA AtCall ==
  ASSUME IInv, NEW c \in Conn
  PROVE  /\ RequestCut(c) /\ AnswerCut(c) /\ Together(c)
         /\ calls[c] \in 0..1
         /\ outcome[c] = "none" \/ outcome[c] \in Outcomes
BY DEF IInv, Types, CallInv

\* A call keeps its part of the invariant in a step that does not touch it.
LEMMA Untouched ==
  ASSUME NEW c \in Conn, CallInv(c), server' = server,
         client'[c] = client[c], task'[c] = task[c],
         outcome'[c] = outcome[c], calls'[c] = calls[c],
         up'[c] = up[c], down'[c] = down[c], buffer'[c] = buffer[c], data'[c] = data[c]
  PROVE  CallInv(c)'
<1>1. RequestCut(c)'
  BY DEF CallInv, RequestCut
<1>2. AnswerCut(c)'
  BY DEF CallInv, AnswerCut
<1>3. Together(c)'
  BY DEF CallInv, Together, Idle
<1> QED
  BY <1>1, <1>2, <1>3 DEF CallInv

\* A call over which no bytes move keeps its cuts.
LEMMA CutsKept ==
  ASSUME NEW c \in Conn, CallInv(c), UNCHANGED <<Bytes, outcome, calls>>,
         task'[c] = "handling" => task[c] = "handling"
  PROVE  RequestCut(c)' /\ AnswerCut(c)'
<1>1. RequestCut(c)'
  BY DEF CallInv, RequestCut, Bytes
<1>2. AnswerCut(c)'
  BY DEF CallInv, AnswerCut, Bytes
<1> QED
  BY <1>1, <1>2

-----------------------------------------------------------------------------
(* The client.                                                              *)

LEMMA ConnectKeeps ==
  ASSUME IInv, NEW c \in Conn, Connect(c)
  PROVE  IInv'
<1> USE DEF IInv
<1>1. Types' /\ Streams'
  <2>1. Frame(c) \in Seq(Byte)
    BY FrameBytes
  <2>2. Types'
    BY DEF Types, States, Connect
  <2>3. Streams'
    BY <2>1 DEF Streams, Connect
  <2> QED
    BY <2>2, <2>3
<1>2. ASSUME NEW d \in Conn, d # c PROVE CallInv(d)'
  BY <1>2, Untouched DEF Types, Streams, Connect
<1>3. client[c] = "new" /\ calls[c] = 0 /\ task[c] = "none" /\ buffer[c] = <<>>
  BY DEF Connect, CallInv, Together
<1>4. RequestCut(c)'
  <2>1. CASE server = "up"
    <3>0. up'[c] = Frame(c) /\ buffer'[c] = <<>>
      BY <1>3, <2>1 DEF Connect, Types, Streams
    <3>1. up'[c] = Rest(c, 0) /\ buffer'[c] = Begun(c, 0)
      BY <3>0, CutEnds
    <3>2. calls'[c] = 0
      BY <1>3 DEF Connect
    <3>3. task'[c] # "handling"
      BY <2>1 DEF Connect, Types
    <3>4. 0 \in 0..FrameEnd
      BY DEF FrameEnd
    <3> QED
      BY <3>1, <3>2, <3>3, <3>4 DEF RequestCut
  <2>2. CASE server # "up"
    BY <1>3, <2>2 DEF Connect, CallInv, RequestCut
  <2> QED
    BY <2>1, <2>2
<1>5. AnswerCut(c)'
  BY DEF Connect, CallInv, AnswerCut
<1>6. Together(c)'
  BY <1>3 DEF Connect, CallInv, Together, Types, Idle, Outcomes
<1> QED
  BY <1>1, <1>2, <1>4, <1>5, <1>6 DEF CallInv

LEMMA ReadChunkKeeps ==
  ASSUME IInv, NEW c \in Conn, ReadChunk(c)
  PROVE  IInv'
<1> USE DEF IInv
<1>1. PICK n \in 1..Len(down[c]) :
        LET bytes == data[c] \o SubSeq(down[c], 1, n) IN
        /\ data' = [data EXCEPT ![c] = bytes]
        /\ down' = [down EXCEPT ![c] = Moved(down[c], n)]
        /\ client' = [client EXCEPT ![c] =
             IF Parsed(bytes) \in {Incomplete, Invalid} THEN "waiting" ELSE Parsed(bytes)]
  BY DEF ReadChunk
<1>2. down[c] # <<>> /\ n \in 1..Len(down[c])
  BY <1>1
<1>3. PICK k \in 0..FrameEnd : data[c] = Begun(outcome[c], k) /\ down[c] = Rest(outcome[c], k)
  BY <1>2 DEF CallInv, AnswerCut
<1>4. outcome[c] \in Outcomes
  BY <1>2 DEF CallInv, AnswerCut
<1>5. /\ k + n \in 1..FrameEnd /\ k + n \in 0..FrameEnd
      /\ data[c] \o SubSeq(down[c], 1, n) = Begun(outcome[c], k + n)
      /\ Moved(down[c], n) = Rest(outcome[c], k + n)
  <2>1. n \in 1..Len(Rest(outcome[c], k))
    BY <1>2, <1>3
  <2>2. /\ k + n \in 1..FrameEnd
        /\ Begun(outcome[c], k) \o SubSeq(Rest(outcome[c], k), 1, n) = Begun(outcome[c], k + n)
        /\ Moved(Rest(outcome[c], k), n) = Rest(outcome[c], k + n)
    BY <2>1, CutMoves
  <2> QED
    BY <1>3, <2>2 DEF FrameEnd
<1>6. Parsed(Begun(outcome[c], k + n)) \in Outcomes \cup {Incomplete}
  BY <1>4, <1>5, ParsedWhole
<1>7. /\ data'[c] = Begun(outcome[c], k + n) /\ down'[c] = Rest(outcome[c], k + n)
      /\ client'[c] \in {"waiting", outcome[c]}
  BY <1>1, <1>5, <1>6, ParsedWhole, <1>4 DEF Types, Streams, Outcomes, Incomplete, Invalid
<1>8. Types' /\ Streams'
  <2>1. Begun(outcome[c], k + n) \in Seq(Byte) /\ Rest(outcome[c], k + n) \in Seq(Byte)
    BY <1>4, <1>5 DEF Begun, Rest, Byte, FrameEnd
  <2>2. Types'
    BY <1>1, <1>4, <1>5, <1>6 DEF ReadChunk, Types, States, Outcomes, Incomplete, Invalid
  <2>3. Streams'
    BY <1>1, <1>5, <2>1 DEF ReadChunk, Streams
  <2> QED
    BY <2>2, <2>3
<1>9. ASSUME NEW d \in Conn, d # c PROVE CallInv(d)'
  BY <1>1, <1>9, Untouched DEF Types, Streams, ReadChunk
<1>10. RequestCut(c)'
  BY DEF ReadChunk, CallInv, RequestCut
<1>11. AnswerCut(c)'
  BY <1>4, <1>5, <1>7 DEF ReadChunk, AnswerCut
<1>12. Together(c)'
  BY <1>4, <1>7 DEF ReadChunk, CallInv, Together, Outcomes, Idle
<1> QED
  BY <1>8, <1>9, <1>10, <1>11, <1>12 DEF CallInv

LEMMA ReadEndsKeep ==
  ASSUME IInv, NEW c \in Conn, ReadEOF(c) \/ ReadTimeout(c)
  PROVE  IInv'
<1> USE DEF IInv
<1>1. Types' /\ Streams'
  BY DEF Types, States, Streams, Bytes, ReadEOF, ReadTimeout
<1>2. ASSUME NEW d \in Conn, d # c PROVE CallInv(d)'
  BY <1>2, Untouched DEF Types, Bytes, ReadEOF, ReadTimeout
<1>3. RequestCut(c)' /\ AnswerCut(c)'
  BY CutsKept DEF ReadEOF, ReadTimeout
<1>4. Together(c)'
  BY DEF ReadEOF, ReadTimeout, CallInv, Together, Types, Idle, Outcomes
<1> QED
  BY <1>1, <1>2, <1>3, <1>4 DEF CallInv

-----------------------------------------------------------------------------
(* The daemon.                                                              *)

LEMMA AcceptKeeps ==
  ASSUME IInv, NEW c \in Conn, Accept(c) \/ Disconnected(c)
  PROVE  IInv'
<1> USE DEF IInv
<1>1. Types' /\ Streams'
  BY DEF Types, States, Streams, Bytes, Accept, Disconnected
<1>2. ASSUME NEW d \in Conn, d # c PROVE CallInv(d)'
  BY <1>2, Untouched DEF Types, Bytes, Accept, Disconnected
<1>3. RequestCut(c)' /\ AnswerCut(c)'
  BY CutsKept DEF Accept, Disconnected, Types
<1>4. Together(c)'
  BY DEF Accept, Disconnected, CallInv, Together, Types, Idle, Outcomes, Closed
<1> QED
  BY <1>1, <1>2, <1>3, <1>4 DEF CallInv

LEMMA ReadKeeps ==
  ASSUME IInv, NEW c \in Conn, Read(c)
  PROVE  IInv'
<1> USE DEF IInv
<1>1. PICK n \in 1..Len(up[c]) :
       LET bytes == buffer[c] \o SubSeq(up[c], 1, n)
           message == ReadMessage(bytes) IN
       /\ up' = [up EXCEPT ![c] = Moved(up[c], n)]
       /\ buffer' = [buffer EXCEPT ![c] = IF message = Incomplete THEN bytes ELSE <<>>]
       /\ \/ /\ message = Incomplete
             /\ UNCHANGED <<task, calls>>
          \/ /\ message = Invalid
             /\ task' = [task EXCEPT ![c] = "done"] /\ UNCHANGED calls
          \/ /\ message \in Notifications
             /\ UNCHANGED <<task, calls>>
          \/ /\ message \in Conn \ Notifications
             /\ task' = [task EXCEPT ![c] = "handling"]
             /\ calls' = [calls EXCEPT ![c] = @ + 1]
  BY DEF Read
<1>2. up[c] # <<>> /\ n \in 1..Len(up[c])
  BY <1>1
<1>3. PICK k \in 0..FrameEnd : buffer[c] = Begun(c, k) /\ up[c] = Rest(c, k)
  BY <1>2 DEF CallInv, RequestCut
<1>4. calls[c] = 0 /\ task[c] = "reading"
  BY <1>2 DEF CallInv, RequestCut, Read
<1>5. /\ k + n \in 1..FrameEnd /\ k + n \in 0..FrameEnd
      /\ buffer[c] \o SubSeq(up[c], 1, n) = Begun(c, k + n)
      /\ Moved(up[c], n) = Rest(c, k + n)
  <2>1. n \in 1..Len(Rest(c, k))
    BY <1>2, <1>3
  <2>2. /\ k + n \in 1..FrameEnd
        /\ Begun(c, k) \o SubSeq(Rest(c, k), 1, n) = Begun(c, k + n)
        /\ Moved(Rest(c, k), n) = Rest(c, k + n)
    BY <2>1, CutMoves
  <2> QED
    BY <1>3, <2>2 DEF FrameEnd
<1>6. c # Incomplete /\ c # Invalid
  BY IpcAssumption DEF Incomplete, Invalid
<1>7. Begun(c, k + n) \in Seq(Byte) /\ Rest(c, k + n) \in Seq(Byte)
  BY <1>5 DEF Begun, Rest, Byte, FrameEnd
<1>8. ASSUME NEW d \in Conn, d # c PROVE CallInv(d)'
  BY <1>1, <1>8, Untouched DEF Types, Streams, Read
<1>9. AnswerCut(c)'
  BY DEF Read, CallInv, AnswerCut
<1>10. CASE k + n # FrameEnd
  <2>1. ReadMessage(Begun(c, k + n)) = Incomplete
    BY <1>5, <1>10, ParsedWhole DEF ReadMessage
  <2>2. /\ up' = [up EXCEPT ![c] = Rest(c, k + n)]
        /\ buffer' = [buffer EXCEPT ![c] = Begun(c, k + n)]
        /\ UNCHANGED <<task, calls>>
    BY <1>1, <1>5, <2>1, IpcAssumption DEF Incomplete, Invalid
  <2>3. Types' /\ Streams'
    BY <1>7, <2>2 DEF Types, Streams, Read
  <2>4. RequestCut(c)'
    BY <1>4, <1>5, <2>2 DEF RequestCut, Types, Streams
  <2>5. Together(c)'
    BY <1>4, <2>2 DEF Read, CallInv, Together, Idle
  <2> QED
    BY <1>8, <1>9, <2>3, <2>4, <2>5 DEF CallInv
<1>11. CASE k + n = FrameEnd
  <2>1. ReadMessage(Begun(c, k + n)) = c
    BY <1>5, <1>11, ParsedWhole DEF ReadMessage
  <2>2. /\ up' = [up EXCEPT ![c] = <<>>]
        /\ buffer' = [buffer EXCEPT ![c] = <<>>]
    BY <1>1, <1>5, <1>6, <1>11, <2>1, CutEnds
  <2>3. \/ UNCHANGED <<task, calls>>
        \/ /\ task' = [task EXCEPT ![c] = "handling"]
           /\ calls' = [calls EXCEPT ![c] = @ + 1]
    BY <1>1, <1>5, <1>6, <2>1
  <2>4. Types'
    BY <1>4, <2>3 DEF Types, Read
  <2>7. Streams'
    BY <2>2 DEF Streams, Read
  <2>5. RequestCut(c)'
    BY <2>2 DEF RequestCut, Types, Streams
  <2>6. Together(c)'
    <3>1. buffer'[c] = <<>> /\ up'[c] = <<>>
      BY <2>2 DEF Streams
    <3>2. client'[c] = client[c] /\ outcome'[c] = outcome[c] /\ server' = server
      BY DEF Read
    <3>3. \/ task'[c] = task[c] /\ calls'[c] = calls[c]
          \/ task'[c] = "handling" /\ calls'[c] = 1
      BY <1>4, <2>3 DEF Types
    <3>4. Together(c)
      BY AtCall
    <3>5. /\ client[c] # "new" /\ outcome[c] = "none" /\ server # "closed"
          /\ client[c] = "no response" => server = "killed"
          /\ client[c] \in Outcomes => outcome[c] = client[c]
      <4>1. calls[c] # 1
        BY <1>4
      <4> QED
        BY <1>4, <3>4, <4>1 DEF Together, Idle
    <3> QED
      <4>1. CASE task'[c] = task[c] /\ calls'[c] = calls[c]
        <5>1. calls'[c] # 1 /\ task'[c] = "reading"
          BY <1>4, <4>1
        <5> QED
          BY <3>1, <3>2, <3>5, <5>1 DEF Together
      <4>2. CASE task'[c] = "handling" /\ calls'[c] = 1
        BY <3>1, <3>2, <3>5, <4>2 DEF Together
      <4> QED
        BY <3>3, <4>1, <4>2
  <2> QED
    BY <1>8, <1>9, <2>4, <2>5, <2>6, <2>7 DEF CallInv
<1> QED
  BY <1>10, <1>11

LEMMA RespondKeeps ==
  ASSUME IInv, NEW c \in Conn, NEW how \in Outcomes, Respond(c, how)
  PROVE  IInv'
<1> USE DEF IInv
<1>1. /\ task[c] = "handling" /\ calls[c] = 1 /\ outcome[c] = "none"
      /\ data[c] = <<>> /\ down[c] = <<>>
  BY DEF Respond, CallInv, Together, AnswerCut, Outcomes
<1>2. Types' /\ Streams'
  <2>1. Frame(how) \in Seq(Byte)
    BY FrameBytes
  <2>2. Types'
    BY DEF Types, Respond
  <2>3. Streams'
    BY <2>1 DEF Streams, Respond
  <2> QED
    BY <2>2, <2>3
<1>3. ASSUME NEW d \in Conn, d # c PROVE CallInv(d)'
  BY <1>3, Untouched DEF Types, Streams, Respond
<1>4. RequestCut(c)'
  BY <1>1 DEF Respond, CallInv, RequestCut
<1>5. AnswerCut(c)'
  <2>1. CASE Closed(c)
    BY <1>1, <2>1 DEF Respond, AnswerCut
  <2>2. CASE ~Closed(c)
    <3>1. outcome'[c] = how /\ data'[c] = <<>> /\ down'[c] = Frame(how)
      BY <1>1, <2>2 DEF Respond, Types, Streams
    <3>2. data'[c] = Begun(how, 0) /\ down'[c] = Rest(how, 0) /\ 0 \in 0..FrameEnd
      BY <3>1, CutEnds DEF FrameEnd
    <3> QED
      BY <3>1, <3>2 DEF AnswerCut
  <2> QED
    BY <2>1, <2>2
<1>6. Together(c)'
  <2>1. /\ client'[c] = client[c] /\ calls'[c] = 1 /\ outcome'[c] = how /\ server' = server
        /\ task'[c] \in {"reading", "done"}
        /\ task'[c] = "done" => client[c] # "waiting"
        /\ client[c] # "new" /\ server # "closed" /\ client[c] \notin Outcomes
    BY <1>1, AtCall DEF Types, Respond, Closed, Together, Idle, Outcomes
  <2>2. how # "none"
    BY DEF Outcomes
  <2> QED
    BY <2>1, <2>2, AtCall DEF Together
<1> QED
  BY <1>2, <1>3, <1>4, <1>5, <1>6 DEF CallInv

LEMMA ServerKeeps ==
  ASSUME IInv, StopListening \/ WaitClosed \/ Killed
  PROVE  IInv'
<1> USE DEF IInv
<1>1. Types' /\ Streams'
  BY DEF Types, States, Streams, Bytes, StopListening, WaitClosed, Killed, Reset
<1>2. ASSUME NEW c \in Conn PROVE CallInv(c)'
  <2>1. RequestCut(c)' /\ AnswerCut(c)'
    BY CutsKept DEF StopListening, WaitClosed, Killed, Types
  <2>2. Together(c)'
    <3>1. CASE StopListening
      BY <3>1 DEF StopListening, Reset, Closed, CallInv, Together, Types, Idle, Outcomes, Bytes
    <3>2. CASE WaitClosed
      BY <3>2 DEF WaitClosed, CallInv, Together, Types, Idle, Outcomes, Bytes
    <3>3. CASE Killed
      BY <3>3 DEF Killed, Reset, Closed, CallInv, Together, Types, Idle, Outcomes, Bytes
    <3> QED
      BY <3>1, <3>2, <3>3
  <2> QED
    BY <2>1, <2>2 DEF CallInv
<1> QED
  BY <1>1, <1>2

-----------------------------------------------------------------------------
LEMMA InitInv == Init => IInv
<1> SUFFICES ASSUME Init PROVE IInv
  OBVIOUS
<1>1. Types /\ Streams
  BY DEF Init, Types, States, Streams
<1>2. ASSUME NEW c \in Conn PROVE CallInv(c)
  BY DEF Init, CallInv, RequestCut, AnswerCut, Together, Outcomes, Idle
<1> QED
  BY <1>1, <1>2 DEF IInv

LEMMA StepInv == IInv /\ [Next]_vars => IInv'
<1> SUFFICES ASSUME IInv, [Next]_vars PROVE IInv'
  OBVIOUS
<1>1. ASSUME NEW c \in Conn, ClientStep(c) PROVE IInv'
  BY <1>1, ReadChunkKeeps, ReadEndsKeep DEF ClientStep
<1>2. ASSUME NEW c \in Conn, ConnectionStep(c) PROVE IInv'
  BY <1>2, AcceptKeeps, ReadKeeps DEF ConnectionStep
<1>3. ASSUME NEW c \in Conn, HandlerEnds(c) PROVE IInv'
  BY <1>3, RespondKeeps DEF HandlerEnds, Outcomes
<1>4. CASE UNCHANGED vars
  <2>1. Types' /\ Streams'
    BY <1>4 DEF IInv, Types, Streams, vars, Bytes
  <2>2. ASSUME NEW c \in Conn PROVE CallInv(c)'
    BY <1>4, Untouched DEF IInv, vars
  <2> QED
    BY <2>1, <2>2 DEF IInv
<1> QED
  BY <1>1, <1>2, <1>3, <1>4, ConnectKeeps, ServerKeeps DEF Next

LEMMA InvAlways == Spec => []IInv
BY InitInv, StepInv, PTL DEF Spec

\* A call that returns has the outcome of its own request, however the stream is
\* cut, and a connection is closed without an answer by a kill only
\* (unix_client.py:73, unix_server.py:151).
THEOREM AnswersAreHonest == Spec => []HonestAnswers
<1>1. IInv => HonestAnswers
  <2> SUFFICES ASSUME IInv, NEW c \in Conn
               PROVE  /\ client[c] \in {"result", "error"}
                           => outcome[c] = client[c] /\ calls[c] = 1
                      /\ client[c] = "no response" => server = "killed"
    BY DEF HonestAnswers
  <2> QED
    BY DEF IInv, CallInv, Together, Outcomes
<1> QED
  BY <1>1, InvAlways, PTL

\* A server whose stop() is through handles nothing, and every request whose
\* handling began has ended (unix_server.py:80).
THEOREM StoppedServerIsIdle == Spec => []StoppedIsIdle
<1>1. IInv => StoppedIsIdle
  <2> SUFFICES ASSUME IInv, server = "closed", NEW c \in Conn
               PROVE  task[c] # "handling" /\ (calls[c] > 0 => outcome[c] # "none")
    BY DEF StoppedIsIdle
  <2>1. Together(c) /\ calls[c] \in 0..1
    BY AtCall
  <2>2. task[c] # "handling"
    BY <2>1 DEF Together, Idle
  <2>3. ASSUME calls[c] > 0 PROVE outcome[c] # "none"
    <3>1. calls[c] = 1
      BY <2>1, <2>3
    <3> QED
      BY <2>1, <2>2, <3>1 DEF Together
  <2> QED
    BY <2>2, <2>3
<1> QED
  BY <1>1, InvAlways, PTL
=============================================================================
