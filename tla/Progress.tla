------------------------------ MODULE Progress ------------------------------
(* Workspace diagnostics: the client asks once, by a request it never awaits, *)
(* and the server reports by $/progress under the token of that request; the  *)
(* read loop turns every notification into a task that updates the cache, and *)
(* requests for workspace diagnostics and symbols wait for a timer           *)
(* (lsp/client.py, infrastructure/lsp/progress_handler.py, lsp/cache.py).     *)
EXTENDS Naturals, Sequences, FiniteSets

CONSTANTS Uri,         \* files
          Request,     \* requests for workspace diagnostics
          Work,        \* tokens of work done progress
          MaxReports   \* bound: notifications the server sends

ASSUME ProgressAssumption == MaxReports \in Nat

VARIABLES
  client,    \* how far LSPClient.initialize is
  token,     \* the server knows the token of workspace diagnostics
  indexed,   \* the event _workspace_indexed
  wire,      \* notifications the read loop has not taken
  tasks,     \* tasks of the event loop that update the cache, oldest first
  cache,     \* workspace diagnostics of each file
  published, \* document diagnostics of each file
  works,     \* _progress_states of the progress handler
  request,   \* what each request is doing
  answer,    \* the diagnostics of each file in its answer
  sent,      \* notifications sent so far
  received   \* history: the notifications the read loop has taken

\* The specification has names of its own: its proofs stand beside those of FileLocks.
progressVars == <<client, token, indexed, wire, tasks, cache, published, works, request,
                  answer, sent, received>>
Server == <<token, wire, sent>>
Requests == <<request, answer>>

\* A notification has the number under which the server sent it; its contents
\* stand for that number. A report names its diagnostics "diagnostics", the key the
\* client reads, or "items"; a malformed one fails validation later.
Diagnostics(n, valid) == [written |-> TRUE, n |-> n, valid |-> valid]
Nothing == Diagnostics(0, TRUE)
Unreported == [Nothing EXCEPT !.written = FALSE]
Keys == {"diagnostics", "items"}

ProgressInit ==
  /\ client = "handshaken" /\ token = FALSE /\ indexed = FALSE
  /\ wire = <<>> /\ tasks = <<>>
  /\ cache = [u \in Uri |-> Unreported] /\ published = [u \in Uri |-> 0]
  /\ works = {}
  /\ request = [r \in Request |-> "new"]
  /\ answer = [r \in Request |-> [u \in Uri |-> Unreported]]
  /\ sent = 0 /\ received = {}

-----------------------------------------------------------------------------
(* initialize() after the handshake; each step is followed by a drain.        *)

Initializes(from, to) == client = from /\ client' = to

SendWorkspaceDiagnostic ==
  /\ Initializes("handshaken", "asked")
  /\ token' = TRUE
  /\ UNCHANGED <<indexed, wire, tasks, cache, published, works, Requests, sent, received>>

StartIndexTimer ==
  /\ Initializes("asked", "initialized")
  /\ UNCHANGED <<Server, indexed, tasks, cache, published, works, Requests, received>>

\* _wait_for_workspace_index: two seconds, whatever the server does.
IndexTimer ==
  /\ client = "initialized" /\ ~indexed
  /\ indexed' = TRUE
  /\ UNCHANGED <<client, Server, tasks, cache, published, works, Requests, received>>

-----------------------------------------------------------------------------
(* The server and the read loop.                                             *)

Notify(message) ==
  /\ sent < MaxReports
  /\ sent' = sent + 1
  /\ wire' = Append(wire, message)
  /\ UNCHANGED <<client, token, indexed, tasks, cache, published, works, Requests, received>>

ServerReports == \E u \in Uri, key \in Keys, valid \in BOOLEAN :
  token /\ Notify([type |-> "report", uri |-> u, key |-> key, valid |-> valid, n |-> sent + 1])
ServerPublishes == \E u \in Uri : Notify([type |-> "publish", uri |-> u, n |-> sent + 1])
ServerWorks == \E w \in Work, kind \in {"begin", "report", "end"} :
  Notify([type |-> "work", token |-> w, kind |-> kind, n |-> sent + 1])

\* _process_workspace_diagnostic_items keeps what it finds under "diagnostics".
Kept(message) ==
  IF message.key = "diagnostics" THEN Diagnostics(message.n, message.valid) ELSE Nothing

\* Faulty variant: a report for a work nobody began starts it.
WorksAfterAnyKind(w, kind) == IF kind = "end" THEN works \ {w} ELSE works \cup {w}

\* handle_progress of the progress handler: begin always starts the work, a
\* report for an unknown token is ignored, end forgets it.
WorksAfter(w, kind) ==
  CASE kind = "begin" -> works \cup {w}
    [] kind = "end" -> works \ {w}
    [] OTHER -> works

\* The read loop takes a notification. Reports and published diagnostics become
\* tasks; begin and end of the workspace request are only logged.
Receive ==
  /\ wire # <<>> /\ wire' = Tail(wire)
  /\ received' = received \cup {Head(wire)}
  /\ LET message == Head(wire) IN
       \/ /\ message.type = "work"
          /\ works' = WorksAfter(message.token, message.kind) /\ UNCHANGED tasks
       \/ /\ message.type # "work"
          /\ tasks' = Append(tasks, message) /\ UNCHANGED works
  /\ UNCHANGED <<client, token, indexed, cache, published, Requests, sent>>

\* Faulty variant: the event loop takes any task that is ready.
AnyTask == {i \in 1..2 : i <= Len(tasks)}

\* Faulty variant: a task for published diagnostics never gets the lock.
NextUnlocked == {i \in {1} : i <= Len(tasks) /\ tasks[i].type = "report"}

\* The event loop runs its tasks in the order of their creation. The lock of the
\* cache is never held across a suspension, so a task runs in one step.
NextTask == {i \in {1} : i <= Len(tasks)}

\* update_workspace_diagnostics and update_document_diagnostics.
Store(message) ==
  \/ /\ message.type = "report"
     /\ cache' = [cache EXCEPT ![message.uri] = Kept(message)] /\ UNCHANGED published
  \/ /\ message.type = "publish"
     /\ published' = [published EXCEPT ![message.uri] = message.n] /\ UNCHANGED cache

RunTask ==
  /\ \E i \in NextTask :
       /\ Store(tasks[i])
       /\ tasks' = SubSeq(tasks, 1, i - 1) \o SubSeq(tasks, i + 1, Len(tasks))
  /\ UNCHANGED <<client, Server, indexed, works, Requests, received>>

-----------------------------------------------------------------------------
(* request("workspace/diagnostic") and the wait of request_workspace_symbols. *)

Ask(r) ==
  /\ request[r] = "new" /\ client = "initialized"
  /\ request' = [request EXCEPT ![r] = "waiting"]
  /\ UNCHANGED <<client, Server, indexed, tasks, cache, published, works, answer, received>>

\* get_all_workspace_diagnostics: one malformed diagnostic of one file fails it.
Snapshot(r) ==
  IF \E u \in Uri : cache[u].written /\ ~cache[u].valid
    THEN /\ request' = [request EXCEPT ![r] = "error"] /\ UNCHANGED answer
    ELSE /\ request' = [request EXCEPT ![r] = "answered"]
         /\ answer' = [answer EXCEPT ![r] = cache]

Waited(r) ==
  /\ request[r] = "waiting" /\ Snapshot(r)
  /\ UNCHANGED <<client, Server, indexed, tasks, cache, published, works, received>>

\* wait_for on the event ends with it, or by its own timer of thirty seconds.
Answer(r) == indexed /\ Waited(r)
AnswerUnindexed(r) == ~indexed /\ Waited(r)

-----------------------------------------------------------------------------
Client == SendWorkspaceDiagnostic \/ StartIndexTimer \/ IndexTimer
Loop == Receive \/ RunTask

ProgressNext ==
  \/ Client \/ Loop
  \/ ServerReports \/ ServerPublishes \/ ServerWorks
  \/ \E r \in Request : Ask(r) \/ Answer(r) \/ AnswerUnindexed(r)

ProgressSpec == ProgressInit /\ [][ProgressNext]_progressVars

\* The event loop takes notifications, runs tasks and fires timers.
FairProgress ==
  /\ ProgressSpec
  /\ WF_progressVars(Client) /\ WF_progressVars(Receive) /\ WF_progressVars(RunTask)
  /\ \A r \in Request : WF_progressVars(Answer(r) \/ AnswerUnindexed(r))

-----------------------------------------------------------------------------
(* Properties.                                                               *)

\* The reports for a file whose tasks have run, and the marks of a work.
Applied(u) == {m \in received : /\ m.type = "report" /\ m.uri = u
                                /\ \A i \in 1..Len(tasks) : tasks[i] # m}
Marks(w) == {m \in received : /\ m.type = "work" /\ m.token = w
                              /\ m.kind \in {"begin", "end"}}
LastOf(m, messages) == m \in messages /\ \A k \in messages : k.n <= m.n

\* The cache holds for each file the report the server sent last of those whose
\* tasks have run, untouched by published diagnostics and by reports for other
\* files; it is empty where that report called its diagnostics "items". Tasks that
\* nobody awaits make no answer go back to an older report (client.py:680,
\* cache.py:142).
ReportsInOrder == \A u \in Uri :
  \/ Applied(u) = {} /\ cache[u] = Unreported
  \/ \E last \in Applied(u) :
       /\ LastOf(last, Applied(u))
       /\ cache[u].n = last.n \/ (last.key = "items" /\ cache[u].n = 0)

\* The works the handler knows are those whose last begin or end was a begin,
\* whatever reports come before, between and after (progress_handler.py:80).
WorkTracked == \A w \in Work :
  w \in works <=> \E mark \in Marks(w) : LastOf(mark, Marks(w)) /\ mark.kind = "begin"

\* A request that waits is answered even if the server is silent, and what the
\* server reported reaches the cache in the end (client.py:397, 398).
Settles ==
  /\ \A r \in Request : request[r] = "waiting" ~> request[r] # "waiting"
  /\ <>[](wire = <<>> /\ tasks = <<>>)
=============================================================================
