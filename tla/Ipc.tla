--------------------------------- MODULE Ipc ---------------------------------
(* The command line calls and the socket server of the daemon: one           *)
(* connection per call, framed messages read in chunks, a handler per        *)
(* request, client time-outs, and the closing of the server                  *)
(* (ipc/unix_server.py, ipc/unix_client.py, ipc/protocol.py).                *)
(* What the handler does is left to Registry, Transport and DocumentSync;    *)
(* here it ends with a result or an exception. A chunk is any non-empty part *)
(* of what is in the pipe. run_daemon gives the server no authenticator.     *)
EXTENDS Naturals, Sequences

CONSTANTS Conn,            \* calls of UNIXClient.request and notify
          Notifications    \* those that send a notification

ASSUME IpcAssumption ==
  Notifications \subseteq Conn /\ Conn \cap {"incomplete", "invalid"} = {}

VARIABLES
  client,     \* what the call is doing, or how it ended
  up, down,   \* bytes under way to the daemon and back
  buffer,     \* bytes the connection handler has read
  data,       \* bytes the client has read
  task,       \* the connection handler in the daemon
  outcome,    \* how the request handler ended
  calls,      \* times the request handler was called
  server

vars == <<client, up, down, buffer, data, task, outcome, calls, server>>
Bytes == <<up, down, buffer, data>>

\* A frame has the length header, its end, and the body.
Frame(m) == [i \in 1..3 |-> [msg |-> m, part |-> i]]
HeaderEnd == 2
FrameEnd == 3
Incomplete == "incomplete"
Invalid == "invalid"

Init ==
  /\ client = [c \in Conn |-> "new"]
  /\ up = [c \in Conn |-> <<>>] /\ down = [c \in Conn |-> <<>>]
  /\ buffer = [c \in Conn |-> <<>>] /\ data = [c \in Conn |-> <<>>]
  /\ task = [c \in Conn |-> "none"]
  /\ outcome = [c \in Conn |-> "none"] /\ calls = [c \in Conn |-> 0]
  /\ server = "up"

\* parse_message: no header yet, body not there yet, or the message.
Parsed(bytes) ==
  IF Len(bytes) < HeaderEnd THEN Incomplete
  ELSE IF Len(bytes) < FrameEnd THEN Incomplete
  ELSE bytes[FrameEnd].msg

Closed(c) == client[c] \notin {"new", "waiting"}    \* the client closed its end
Moved(from, n) == SubSeq(from, n + 1, Len(from))

-----------------------------------------------------------------------------
(* The client.                                                               *)

\* connect() refuses a socket that is gone; the kernel accepts on behalf of the
\* daemon. A notification closes the connection once it is written.
Connect(c) ==
  /\ client[c] = "new"
  /\ IF server = "up"
       THEN /\ client' = [client EXCEPT ![c] = IF c \in Notifications THEN "sent" ELSE "waiting"]
            /\ up' = [up EXCEPT ![c] = Frame(c)]
            /\ task' = [task EXCEPT ![c] = "accepting"]
       ELSE /\ client' = [client EXCEPT ![c] = "no socket"]
            /\ UNCHANGED <<up, task>>
  /\ UNCHANGED <<down, buffer, data, outcome, calls, server>>

\* _read_response parses what it has after every chunk; what is no message yet,
\* or none at all, makes it read on.
ReadChunk(c) ==
  /\ client[c] = "waiting"
  /\ \E n \in 1..Len(down[c]) :
       LET bytes == data[c] \o SubSeq(down[c], 1, n) IN
       /\ data' = [data EXCEPT ![c] = bytes]
       /\ down' = [down EXCEPT ![c] = Moved(down[c], n)]
       /\ client' = [client EXCEPT ![c] =
            IF Parsed(bytes) \in {Incomplete, Invalid} THEN "waiting" ELSE Parsed(bytes)]
  /\ UNCHANGED <<up, buffer, task, outcome, calls, server>>

ReadEOF(c) ==
  /\ client[c] = "waiting" /\ down[c] = <<>> /\ task[c] = "done"
  /\ client' = [client EXCEPT ![c] = "no response"]
  /\ UNCHANGED <<Bytes, task, outcome, calls, server>>

\* Faulty variant: no wait_for around the read.
ReadForever(c) == FALSE /\ UNCHANGED vars

\* wait_for around one read: no chunk within the timeout.
ReadTimeout(c) ==
  /\ client[c] = "waiting"
  /\ client' = [client EXCEPT ![c] = "timeout"]
  /\ UNCHANGED <<Bytes, task, outcome, calls, server>>

-----------------------------------------------------------------------------
(* The daemon.                                                               *)

Accept(c) ==
  /\ task[c] = "accepting" /\ server = "up"
  /\ task' = [task EXCEPT ![c] = "reading"]
  /\ UNCHANGED <<client, Bytes, outcome, calls, server>>

\* Faulty variant: the body is parsed before all of it is there.
ParsedEarly(bytes) ==
  IF Len(bytes) < HeaderEnd THEN Incomplete
  ELSE IF Len(bytes) < FrameEnd THEN Invalid
  ELSE bytes[FrameEnd].msg

ReadMessage(bytes) == Parsed(bytes)

\* The handler takes a chunk and works off the messages it completes: a request
\* starts the request handler, a notification does nothing, and bytes that
\* cannot be parsed end the connection without an answer.
Read(c) ==
  /\ task[c] = "reading"
  /\ \E n \in 1..Len(up[c]) :
       LET bytes == buffer[c] \o SubSeq(up[c], 1, n)
           message == ReadMessage(bytes) IN
       /\ up' = [up EXCEPT ![c] = Moved(up[c], n)]
       /\ buffer' = [buffer EXCEPT ![c] = IF message = Incomplete THEN bytes ELSE <<>>]
       /\ \/ /\ message = Incomplete
             /\ UNCHANGED <<task, calls>>
          \/ /\ message = Invalid
             /\ task' = [task EXCEPT ![c] = "done"] /\ UNCHANGED calls
          \/ /\ message \in Notifications
             /\ UNCHANGED <<task, calls>>
          \/ /\ message \in Conn \ Notifications
             /\ task' = [task EXCEPT ![c] = "handling"]
             /\ calls' = [calls EXCEPT ![c] = @ + 1]
  /\ UNCHANGED <<client, down, data, outcome, server>>

\* The request handler ends, well or not, and the response is written. A client
\* that has gone makes the write raise, which ends the connection.
Respond(c, how) ==
  /\ task[c] = "handling"
  /\ outcome' = [outcome EXCEPT ![c] = how]
  /\ IF Closed(c)
       THEN task' = [task EXCEPT ![c] = "done"] /\ UNCHANGED down
       ELSE /\ task' = [task EXCEPT ![c] = "reading"]
            /\ down' = [down EXCEPT ![c] = Frame(how)]
  /\ UNCHANGED <<client, up, buffer, data, calls, server>>

\* The end of the stream: the client closed its end.
Disconnected(c) ==
  /\ task[c] = "reading" /\ up[c] = <<>> /\ Closed(c)
  /\ task' = [task EXCEPT ![c] = "done"]
  /\ UNCHANGED <<client, Bytes, outcome, calls, server>>

\* Connections not yet accepted are reset with the listening socket.
Reset(state) ==
  /\ client' = [c \in Conn |-> IF task[c] = "accepting" /\ ~Closed(c) THEN "reset" ELSE client[c]]
  /\ server' = state

\* UNIXServer.stop: no task is ever in _clients, so none is cancelled; the
\* listening socket is closed, and wait_closed waits for every connection.
StopListening ==
  /\ server = "up"
  /\ Reset("closing")
  /\ task' = [c \in Conn |-> IF task[c] = "accepting" THEN "done" ELSE task[c]]
  /\ UNCHANGED <<Bytes, outcome, calls>>

\* Faulty variant: wait_closed waits only for connections that are read.
IdleUnlessReading(c) == task[c] # "reading"

Idle(c) == task[c] \in {"none", "done"}

WaitClosed ==
  /\ server = "closing" /\ \A c \in Conn : Idle(c)
  /\ server' = "closed"
  /\ UNCHANGED <<client, Bytes, task, outcome, calls>>

\* SIGKILL: what was written can still be read.
Killed ==
  /\ server \in {"up", "closing"}
  /\ Reset("killed")
  /\ task' = [c \in Conn |-> IF task[c] = "none" THEN "none" ELSE "done"]
  /\ UNCHANGED <<Bytes, outcome, calls>>

-----------------------------------------------------------------------------
ClientStep(c) == ReadChunk(c) \/ ReadEOF(c) \/ ReadTimeout(c)
ConnectionStep(c) == Accept(c) \/ Read(c) \/ Disconnected(c)
HandlerEnds(c) == \E how \in {"result", "error"} : Respond(c, how)

Next ==
  \/ \E c \in Conn : Connect(c) \/ ClientStep(c) \/ ConnectionStep(c) \/ HandlerEnds(c)
  \/ StopListening \/ WaitClosed \/ Killed

Spec == Init /\ [][Next]_vars

\* The client's timer fires and the event loop serves its connections. Nobody has
\* to send a signal, and a request handler need not end: a full pipe of a language
\* server holds it for ever (transport.py:668).
FairSpec == Spec /\ WF_vars(WaitClosed)
                 /\ \A c \in Conn : WF_vars(ClientStep(c)) /\ WF_vars(ConnectionStep(c))

-----------------------------------------------------------------------------
(* Properties.                                                               *)

\* A call that returns has the outcome of its own request, handled once, however
\* the bytes were cut; and a call finds its connection closed without an answer
\* only if the daemon was killed (unix_client.py:73, unix_server.py:151).
HonestAnswers == \A c \in Conn :
  /\ client[c] \in {"result", "error"} => outcome[c] = client[c] /\ calls[c] = 1
  /\ client[c] = "no response" => server = "killed"

\* When stop() is through, no request is being handled, and a request whose
\* handling began has ended: nothing runs on in a daemon that removes its files
\* (unix_server.py:80, runner.py:96).
StoppedIsIdle ==
  server = "closed" => \A c \in Conn :
    task[c] # "handling" /\ (calls[c] > 0 => outcome[c] # "none")

\* Every call ends, also one whose handler hangs, by its own timer. The daemon's
\* stop, though it cancels nothing and waits for the clients, ends unless a
\* handler hangs (unix_client.py:69, unix_server.py:81).
EveryoneEnds ==
  /\ \A c \in Conn : client[c] = "waiting" ~> client[c] # "waiting"
  /\ server = "closing" ~>
       (server \in {"closed", "killed"} \/ \E c \in Conn : [](task[c] = "handling"))
=============================================================================
