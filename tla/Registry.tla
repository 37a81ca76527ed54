------------------------------ MODULE Registry ------------------------------
(***************************************************************************)
(* The life of the language servers inside one daemon: the registry and    *)
(* its global lock (server/registry.py), the workspace managers and their  *)
(* initialisation lock (server/workspace.py), the handshake and the        *)
(* shutdown of a client (lsp/client.py), and the end of the daemon         *)
(* (daemon/runner.py), which a stop command may cut short with SIGKILL.    *)
(***************************************************************************)
EXTENDS Naturals, Sequences

CONSTANTS
  Workspaces,
  Tasks,       \* connections, one request each
  Managers,    \* WorkspaceManager objects; as many as there are tasks
  Servers,     \* LSPClient objects, each with its process; as many as tasks
  Daemon,      \* the coroutine run_daemon
  Nothing      \* Python's None

ASSUME RegistryAssumption ==
  /\ Daemon \notin Tasks
  /\ Nothing \notin Managers \cup Servers \cup Workspaces

VARIABLES
  table,        \* _workspaces: the manager of each workspace, or Nothing
  globalQueue,  \* _global_lock: the holder and the waiters behind it
  lockQueue,    \* _lock of each manager, likewise
  client,       \* _client of each manager
  initialized,  \* _initialized of each manager
  known,        \* the managers created so far
  proc,         \* each server process: "unborn", "starting", "up", "dead",
                \* or "stopped" by the daemon
  cwd,          \* the workspace each process was started in
  ready,        \* _initialized of each client
  pc,           \* each task: "idle", "global" and "locking" at
                \* the locks, "initializing", "waiting" for the server, "done"
  ws,           \* the workspace each request names
  manager,      \* the manager each task looked up
  using,        \* the client each request was sent to
  daemon,       \* "running", "global" and "locking" at the locks, "next",
                \* "closing" a client, "stopping" the socket, "exited"
  left,         \* managers shutdown_all has still to visit
  at            \* the manager it is visiting

tables == <<table, globalQueue, lockQueue, known>>
clients == <<client, initialized, proc, cwd, ready>>
tasks == <<pc, ws, manager, using>>
shutting == <<daemon, left, at>>
vars == <<table, globalQueue, lockQueue, known, client, initialized, proc,
          cwd, ready, pc, ws, manager, using, daemon, left, at>>

Alive(s) == proc[s] \in {"starting", "up"}
First(queue, x) == queue # <<>> /\ Head(queue) = x

Init ==
  /\ table = [w \in Workspaces |-> Nothing]
  /\ globalQueue = <<>>
  /\ lockQueue = [m \in Managers |-> <<>>]
  /\ client = [m \in Managers |-> Nothing]
  /\ initialized = [m \in Managers |-> FALSE]
  /\ known = {}
  /\ proc = [s \in Servers |-> "unborn"]
  /\ cwd = [s \in Servers |-> Nothing]
  /\ ready = [s \in Servers |-> FALSE]
  /\ pc = [t \in Tasks |-> "idle"]
  /\ ws = [t \in Tasks |-> Nothing]
  /\ manager = [t \in Tasks |-> Nothing]
  /\ using = [t \in Tasks |-> Nothing]
  /\ daemon = "running"
  /\ left = {}
  /\ at = Nothing

-----------------------------------------------------------------------------
(* A request: handler -> registry -> manager -> client.                    *)

\* The task ends, and its local variables with it.
Done(t) ==
  /\ pc' = [pc EXCEPT ![t] = "done"]
  /\ ws' = [ws EXCEPT ![t] = Nothing]
  /\ manager' = [manager EXCEPT ![t] = Nothing]
  /\ using' = [using EXCEPT ![t] = Nothing]

\* A request is read and asks for the registry's lock. That of a connection
\* accepted before server.close() may still be read after it.
Arrive(t, w) ==
  /\ pc[t] = "idle"
  /\ daemon # "exited"
  /\ pc' = [pc EXCEPT ![t] = "global"]
  /\ ws' = [ws EXCEPT ![t] = w]
  /\ globalQueue' = Append(globalQueue, t)
  /\ UNCHANGED <<table, lockQueue, known, clients, manager, using, shutting>>

\* The task has a manager and queues on its lock.
Found(t, m) ==
  /\ manager' = [manager EXCEPT ![t] = m]
  /\ lockQueue' = [lockQueue EXCEPT ![m] = Append(@, t)]
  /\ pc' = [pc EXCEPT ![t] = "locking"]
  /\ UNCHANGED <<clients, ws, using, shutting>>

NewManager == CHOOSE m \in Managers : m \notin known

\* The registry creates a manager for a workspace it has not seen.
Create(t) ==
  /\ table[ws[t]] = Nothing
  /\ Managers \ known # {}
  /\ table' = [table EXCEPT ![ws[t]] = NewManager]
  /\ known' = known \cup {NewManager}
  /\ Found(t, NewManager)

Reuse(t) ==
  /\ table[ws[t]] # Nothing
  /\ Found(t, table[ws[t]])
  /\ UNCHANGED <<table, known>>

Lookup(t) ==
  /\ pc[t] = "global"
  /\ daemon # "exited"
  /\ First(globalQueue, t)
  /\ globalQueue' = Tail(globalQueue)
  /\ Create(t) \/ Reuse(t)

\* No server is configured for the language: _get_server_command raises.
LookupFails(t) ==
  /\ pc[t] = "global"
  /\ daemon # "exited"
  /\ First(globalQueue, t)
  /\ table[ws[t]] = Nothing
  /\ globalQueue' = Tail(globalQueue)
  /\ Done(t)
  /\ UNCHANGED <<table, lockQueue, known, clients, shutting>>

\* The task holds the lock of its manager.
Holds(t) ==
  /\ daemon # "exited"
  /\ manager[t] \in Managers
  /\ First(lockQueue[manager[t]], t)

Release(t) ==
  /\ lockQueue' = [lockQueue EXCEPT ![manager[t]] = Tail(@)]
  /\ UNCHANGED <<table, globalQueue, known>>

\* The manager is initialised: the request goes to its client.
Use(t) ==
  /\ pc[t] = "locking"
  /\ Holds(t)
  /\ initialized[manager[t]]
  /\ using' = [using EXCEPT ![t] = client[manager[t]]]
  /\ pc' = [pc EXCEPT ![t] = "waiting"]
  /\ Release(t)
  /\ UNCHANGED <<clients, ws, manager, shutting>>

Unborn == {s \in Servers : proc[s] = "unborn"}
NewServer == CHOOSE s \in Servers : proc[s] = "unborn"

\* A new client replaces the manager's and starts its process.
NewClient(m, w, state) ==
  /\ Unborn # {}
  /\ client' = [client EXCEPT ![m] = NewServer]
  /\ proc' = [proc EXCEPT ![NewServer] = state]
  /\ cwd' = [cwd EXCEPT ![NewServer] = w]
  /\ UNCHANGED ready

\* Faulty variant: the flag is set before the handshake.
SpawnMarked(t) ==
  /\ pc[t] = "locking"
  /\ Holds(t)
  /\ ~initialized[manager[t]]
  /\ NewClient(manager[t], ws[t], "starting")
  /\ initialized' = [initialized EXCEPT ![manager[t]] = TRUE]
  /\ pc' = [pc EXCEPT ![t] = "initializing"]
  /\ UNCHANGED <<tables, ws, manager, using, shutting>>

\* Faulty variant: whether to start was decided before waiting for the lock.
SpawnAnyway(t) ==
  /\ pc[t] = "locking"
  /\ Holds(t)
  /\ NewClient(manager[t], ws[t], "starting")
  /\ pc' = [pc EXCEPT ![t] = "initializing"]
  /\ UNCHANGED <<tables, initialized, ws, manager, using, shutting>>

\* ensure_initialized starts a server; the lock stays held.
Spawn(t) ==
  /\ pc[t] = "locking"
  /\ Holds(t)
  /\ ~initialized[manager[t]]
  /\ NewClient(manager[t], ws[t], "starting")
  /\ pc' = [pc EXCEPT ![t] = "initializing"]
  /\ UNCHANGED <<tables, initialized, ws, manager, using, shutting>>

\* The command is missing, or exits at once: start() raises.
SpawnFails(t) ==
  /\ pc[t] = "locking"
  /\ Holds(t)
  /\ ~initialized[manager[t]]
  /\ NewClient(manager[t], ws[t], "dead")
  /\ Done(t)
  /\ Release(t)
  /\ UNCHANGED <<initialized, shutting>>

\* The handshake succeeds, and the request is sent in the same step.
InitDone(t) ==
  LET s == client[manager[t]] IN
  /\ pc[t] = "initializing"
  /\ Holds(t)
  /\ proc[s] = "starting"
  /\ proc' = [proc EXCEPT ![s] = "up"]
  /\ ready' = [ready EXCEPT ![s] = TRUE]
  /\ initialized' = [initialized EXCEPT ![manager[t]] = TRUE]
  /\ using' = [using EXCEPT ![t] = s]
  /\ pc' = [pc EXCEPT ![t] = "waiting"]
  /\ Release(t)
  /\ UNCHANGED <<client, cwd, ws, manager, shutting>>

\* Faulty variant: the lock is not released when the handshake fails.
InitFailsHolding(t) ==
  /\ pc[t] = "initializing"
  /\ Holds(t)
  /\ Done(t)
  /\ UNCHANGED <<tables, clients, shutting>>

\* The handshake times out, is refused or meets a dead server. Nothing
\* stops the process, and the manager keeps the client uninitialised.
InitFails(t) ==
  /\ pc[t] = "initializing"
  /\ Holds(t)
  /\ Done(t)
  /\ Release(t)
  /\ UNCHANGED <<clients, shutting>>

\* The request returns, fails, times out or is cancelled (see Transport).
RequestEnds(t) ==
  /\ pc[t] = "waiting"
  /\ daemon # "exited"
  /\ Done(t)
  /\ UNCHANGED <<tables, clients, shutting>>

\* A server process dies; nobody in the daemon watches for it.
Crash(s) ==
  /\ Alive(s)
  /\ daemon # "exited"
  /\ proc' = [proc EXCEPT ![s] = "dead"]
  /\ UNCHANGED <<tables, client, initialized, cwd, ready, tasks, shutting>>

-----------------------------------------------------------------------------
(* The end of the daemon.                                                  *)

\* A signal: shutdown_all asks for the registry's lock.
Sigterm ==
  /\ daemon = "running"
  /\ daemon' = "global"
  /\ globalQueue' = Append(globalQueue, Daemon)
  /\ UNCHANGED <<table, lockQueue, known, clients, tasks, left, at>>

ShutdownBegins ==
  /\ daemon = "global"
  /\ First(globalQueue, Daemon)
  /\ left' = {m \in Managers : \E w \in Workspaces : table[w] = m}
  /\ daemon' = "next"
  /\ UNCHANGED <<tables, clients, tasks, at>>

\* The loop reaches a manager and asks for its lock.
NextWorkspace(m) ==
  /\ daemon = "next"
  /\ m \in left
  /\ left' = left \ {m}
  /\ at' = m
  /\ lockQueue' = [lockQueue EXCEPT ![m] = Append(@, Daemon)]
  /\ daemon' = "locking"
  /\ UNCHANGED <<table, globalQueue, known, clients, tasks>>

Leave ==
  /\ lockQueue' = [lockQueue EXCEPT ![at] = Tail(@)]
  /\ UNCHANGED <<table, known>>

\* Faulty variant: the flag is read before the lock is held.
SkipUnlocked ==
  /\ daemon = "locking"
  /\ ~initialized[at]
  /\ lockQueue' = [lockQueue EXCEPT ![at] =
                     SelectSeq(@, LAMBDA x : x # Daemon)]
  /\ daemon' = "next"
  /\ UNCHANGED <<table, globalQueue, known, clients, tasks, left, at>>

\* The manager is not initialised: nothing of it is stopped.
SkipWorkspace ==
  /\ daemon = "locking"
  /\ First(lockQueue[at], Daemon)
  /\ ~initialized[at]
  /\ Leave
  /\ daemon' = "next"
  /\ UNCHANGED <<globalQueue, clients, tasks, left, at>>

\* Its client closes the documents and sends the shutdown request.
Close ==
  /\ daemon = "locking"
  /\ First(lockQueue[at], Daemon)
  /\ initialized[at]
  /\ daemon' = "closing"
  /\ UNCHANGED <<tables, clients, tasks, left, at>>

\* The answer, or its timeout, has come: exit, and the transport stops.
Stopped ==
  /\ daemon = "closing"
  /\ proc' = [proc EXCEPT ![client[at]] = IF @ = "dead" THEN @ ELSE "stopped"]
  /\ ready' = [ready EXCEPT ![client[at]] = FALSE]
  /\ client' = [client EXCEPT ![at] = Nothing]
  /\ initialized' = [initialized EXCEPT ![at] = FALSE]
  /\ Leave
  /\ daemon' = "next"
  /\ UNCHANGED <<globalQueue, cwd, tasks, left, at>>

\* Faulty variant: the registry's lock is kept when the exception leaves.
CloseRaisesHolding ==
  /\ daemon = "closing"
  /\ proc[client[at]] = "dead"
  /\ Leave
  /\ daemon' = "stopping"
  /\ UNCHANGED <<globalQueue, clients, tasks, left, at>>

\* A notification cannot be written to a dead server: the exception ends
\* shutdown_all, and run_daemon goes on to stop the socket.
CloseRaises ==
  /\ daemon = "closing"
  /\ proc[client[at]] = "dead"
  /\ Leave
  /\ globalQueue' = Tail(globalQueue)
  /\ daemon' = "stopping"
  /\ UNCHANGED <<clients, tasks, left, at>>

Clear ==
  /\ daemon = "next"
  /\ left = {}
  /\ table' = [w \in Workspaces |-> Nothing]
  /\ globalQueue' = Tail(globalQueue)
  /\ daemon' = "stopping"
  /\ UNCHANGED <<lockQueue, known, clients, tasks, left, at>>

\* wait_closed() returns once no connection is left.
Exit ==
  /\ daemon = "stopping"
  /\ \A t \in Tasks : pc[t] \in {"idle", "done"}
  /\ daemon' = "exited"
  /\ UNCHANGED <<tables, clients, tasks, left, at>>

\* The stop command has waited five seconds: SIGKILL.
Killed ==
  /\ daemon \notin {"running", "exited"}
  /\ daemon' = "exited"
  /\ pc' = [t \in Tasks |-> IF pc[t] = "idle" THEN "idle" ELSE "done"]
  /\ UNCHANGED <<tables, clients, ws, manager, using, left, at>>

-----------------------------------------------------------------------------
Request(t) ==
  \/ \E w \in Workspaces : Arrive(t, w)
  \/ Lookup(t) \/ LookupFails(t)
  \/ Use(t) \/ Spawn(t) \/ SpawnFails(t) \/ InitDone(t) \/ InitFails(t)
  \/ RequestEnds(t)

Shutdown ==
  \/ ShutdownBegins
  \/ \E m \in Managers : NextWorkspace(m)
  \/ SkipWorkspace \/ Close \/ Stopped \/ CloseRaises \/ Clear \/ Exit

Next ==
  \/ \E t \in Tasks : Request(t)
  \/ \E s \in Servers : Crash(s)
  \/ Sigterm
  \/ Shutdown
  \/ Killed

Spec == Init /\ [][Next]_vars

\* The event loop runs every coroutine that can go on, and the handshake and
\* the requests have timeouts (if the server reads its stdin, see Transport).
Fairness ==
  /\ \A t \in Tasks :
       /\ WF_vars(Lookup(t))
       /\ WF_vars(Use(t) \/ Spawn(t))
       /\ WF_vars(InitFails(t))
       /\ WF_vars(RequestEnds(t))
  /\ WF_vars(Shutdown)

FairSpec == Spec /\ Fairness

-----------------------------------------------------------------------------
(* What the component promises.                                            *)

\* ensure_initialized asserts that an initialised manager has a client.
HasClient == \A m \in Managers : initialized[m] => client[m] # Nothing

\* Every variable has its type, and an initialised manager a client.
TypeOK ==
  /\ table \in [Workspaces -> Managers \cup {Nothing}]
  /\ globalQueue \in Seq(Tasks \cup {Daemon})
  /\ lockQueue \in [Managers -> Seq(Tasks \cup {Daemon})]
  /\ client \in [Managers -> Servers \cup {Nothing}]
  /\ initialized \in [Managers -> BOOLEAN] /\ HasClient
  /\ known \subseteq Managers
  /\ proc \in [Servers -> {"unborn", "starting", "up", "dead", "stopped"}]
  /\ cwd \in [Servers -> Workspaces \cup {Nothing}]
  /\ ready \in [Servers -> BOOLEAN]
  /\ pc \in [Tasks -> {"idle", "global", "locking",
                       "initializing", "waiting", "done"}]
  /\ ws \in [Tasks -> Workspaces \cup {Nothing}]
  /\ manager \in [Tasks -> Managers \cup {Nothing}]
  /\ using \in [Tasks -> Servers \cup {Nothing}]
  /\ daemon \in {"running", "global", "next", "locking", "closing",
                 "stopping", "exited"}
  /\ left \subseteq Managers
  /\ at \in Managers \cup {Nothing}

\* However requests, failed handshakes and the shutdown interleave, no
\* workspace has two live servers that completed their handshake: a retry
\* replaces only a client that never got there, and no request can wake a
\* manager shutdown_all has passed.
OneReadyServer ==
  \A s1, s2 \in Servers :
    /\ ready[s1] /\ proc[s1] = "up"
    /\ ready[s2] /\ proc[s2] = "up"
    /\ cwd[s1] = cwd[s2]
    => s1 = s2

\* A request is only sent to a client that has completed its handshake, and
\* in its own workspace, also when another task's handshake failed.
RequestsAfterHandshake ==
  [][\A t \in Tasks : pc[t] # "waiting" /\ pc'[t] = "waiting"
       => ready'[using'[t]] /\ cwd'[using'[t]] = ws[t]]_vars

\* When shutdown_all completes, no server that finished its handshake is
\* left running, not even one that was starting when the signal came.
ShutdownComplete ==
  [][daemon = "next" /\ daemon' = "stopping"
       => \A s \in Servers : ready[s] => proc[s] # "up"]_vars

\* shutdown_all is in its loop.
Looping == daemon \in {"next", "locking", "closing"}

\* The table does not change under shutdown_all's loop over it, which would
\* raise RuntimeError in the middle of the shutdown.
TableSteady ==
  [][Looping /\ daemon' # "stopping" => table' = table]_vars

\* Every request is served or fails: the locks are handed on whatever
\* becomes of the request that holds them.
EveryRequestEnds == \A t \in Tasks : pc[t] = "global" ~> pc[t] = "done"

\* A signalled daemon exits without the help of SIGKILL.
ShutdownEnds == daemon = "global" ~> daemon = "exited"
=============================================================================
