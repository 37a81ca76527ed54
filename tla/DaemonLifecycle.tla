--------------------------- MODULE DaemonLifecycle ---------------------------
(* The commands that start, stop and use the daemon of one workspace and     *)
(* language, and the daemons themselves: processes that share nothing but a  *)
(* PID file and a socket file, each removed by path, whoever made it         *)
(* (daemon/manager.py, daemon/cleanup.py, daemon/runner.py,                  *)
(* daemon_client.py, commands/daemon.py, UNIXServer.start and stop).         *)
(* An action is what a process does between two system calls another process *)
(* can notice. A process that runs "start" becomes the daemon when it forks. *)
(* PIDs are not reused.                                                      *)
EXTENDS Naturals, FiniteSets

CONSTANTS MaxProcs,    \* bound on the processes, commands and daemons alike
          None,        \* no file, no process
          MaxCrashes   \* bound on the daemons killed from outside

Proc == 1..MaxProcs    \* numbered as they are created

ASSUME DaemonAssumption == MaxProcs \in Nat /\ None \notin Proc /\ MaxCrashes \in Nat

VARIABLES
  proc,        \* program counter, command, where is_running returns to (site),
               \* what follows stop (after) and the PID read (seen)
  pidFile,     \* the process that created the PID file
  wrote,       \* processes that have written their PID to the file they made
  socket,      \* the daemon that bound the socket file
  signalled,   \* processes sent SIGTERM
  crashes,
  lost,        \* history: daemons whose PID file another process removed by its
               \* path while they lived
  overlapped   \* history: a command was issued while something was under way

vars == <<proc, pidFile, wrote, socket, signalled, crashes, lost, overlapped>>

Commands == {"start", "stop", "restart", "request", "clean"}
Checking == {"exists", "read", "probe", "unlink"}          \* inside is_running
Command == Checking \cup {"health", "fork", "getpid", "term", "await",
             "cleanSocket", "cleanPid", "spawn", "spawned", "wait", "connect",
             "scan", "rmtree"}
Daemon == {"write", "locked", "binding", "serving", "closing", "unlinking", "release", "remove"}
Ended == {"done", "locked out", "failed", "timeout", "crashed", "refused", "connected"}

pc(p) == proc[p].pc
Alive(p) == pc(p) \in Daemon
Listening(p) == pc(p) \in {"serving", "closing"}
Exited(p) == pc(p) \notin Command
Busy(p) == \/ pc(p) \in Command \cup {"acquire"}
           \/ Alive(p) /\ (pc(p) = "serving" => p \in signalled)

Idle == [pc |-> "unborn", cmd |-> "start", site |-> "cli", after |-> "done", seen |-> None]

Init ==
  /\ proc = [p \in Proc |-> Idle]
  /\ pidFile = None /\ socket = None
  /\ wrote = {} /\ signalled = {} /\ lost = {}
  /\ crashes = 0 /\ overlapped = FALSE

Becomes(p, q) == proc' = [proc EXCEPT ![p] = q]
Goes(p, l) == proc' = [proc EXCEPT ![p].pc = l]
Over(q, l) == [Idle EXCEPT !.pc = l, !.cmd = q.cmd, !.seen = q.seen]
Call(q, s) == [q EXCEPT !.pc = "exists", !.site = s]       \* call is_running
At(p, l) == pc(p) = l
FilesKept == UNCHANGED <<pidFile, wrote, socket, lost>>
Steady == UNCHANGED <<signalled, crashes, overlapped>>

\* A command line is run. A request reserves the process it may have to spawn.
Invoke(p, c) ==
  /\ At(p, "unborn") /\ \A q \in Proc : q < p => ~At(q, "unborn")
  /\ overlapped' = (overlapped \/ \E q \in Proc : Busy(q))
  /\ LET q == [Idle EXCEPT !.cmd = c] IN
     \/ c \in {"start", "stop", "restart"} /\ Becomes(p, Call(q, "cli"))
     \/ c = "clean" /\ Becomes(p, [q EXCEPT !.pc = "scan"])
     \/ /\ c = "request"
        /\ p + 1 \in Proc
        /\ proc' = [proc EXCEPT ![p] = Call(q, "ready"), ![p + 1].pc = "reserved"]
  /\ FilesKept /\ UNCHANGED <<signalled, crashes>>

-----------------------------------------------------------------------------
(* is_running, and what its caller does with the result.                     *)

\* A second start is refused, and a stop of nothing; restart ignores this check.
RunDaemonCommand(q, running) ==
  CASE q.cmd = "start"   -> IF running THEN Over(q, "done") ELSE Call(q, "start")
    [] q.cmd = "stop"    -> IF running THEN Call(q, "stop") ELSE Over(q, "done")
    [] q.cmd = "restart" -> Call(q, "restart")

DoRestart(q, running) ==
  IF running THEN Call([q EXCEPT !.after = "start"], "stop") ELSE Call(q, "start")

ManagerStart(q, running) == [q EXCEPT !.pc = IF running THEN "health" ELSE "fork"]

ManagerStop(q, running) == [q EXCEPT !.pc = IF running THEN "getpid" ELSE "cleanSocket"]

EnsureDaemonReady(q, running) ==
  [q EXCEPT !.pc = IF running THEN "wait" ELSE "spawn", !.site = "cli"]

Checked(q, running) ==
  CASE q.site = "cli"     -> RunDaemonCommand(q, running)
    [] q.site = "restart" -> DoRestart(q, running)
    [] q.site = "start"   -> ManagerStart(q, running)
    [] q.site = "stop"    -> ManagerStop(q, running)
    [] q.site = "ready"   -> EnsureDaemonReady(q, running)

Look(p) ==
  /\ At(p, "exists")
  /\ IF pidFile = None THEN Becomes(p, Checked(proc[p], FALSE)) ELSE Goes(p, "read")
  /\ FilesKept /\ Steady

\* A file that is gone raises OSError, and the empty file of a process that is
\* about to write its PID raises ValueError.
ReadPid(p) ==
  /\ At(p, "read")
  /\ IF pidFile \in wrote
       THEN Becomes(p, [proc[p] EXCEPT !.pc = "probe", !.seen = pidFile])
       ELSE Goes(p, "unlink")
  /\ FilesKept /\ Steady

Probe(p) ==
  /\ At(p, "probe")
  /\ LET q == [proc[p] EXCEPT !.seen = None] IN
     Becomes(p, IF Alive(proc[p].seen) THEN Checked(q, TRUE) ELSE [q EXCEPT !.pc = "unlink"])
  /\ FilesKept /\ Steady

\* A command removes the PID file, whoever made it.
RemovePidFile ==
  /\ lost' = lost \cup {d \in {pidFile} \ {None} : Alive(d)}
  /\ pidFile' = None

UnlinkStale(p) ==
  /\ At(p, "unlink")
  /\ RemovePidFile
  /\ Becomes(p, Checked(proc[p], FALSE))
  /\ UNCHANGED <<wrote, socket>> /\ Steady

-----------------------------------------------------------------------------
(* manager.start up to the fork, and manager.stop.                           *)

\* A daemon that listens may still fail to answer the ping within two seconds;
\* nobody else answers it at all.
CheckHealth(p) ==
  /\ At(p, "health")
  /\ \/ socket # None /\ Listening(socket) /\ Becomes(p, Over(proc[p], "done"))
     \/ Becomes(p, Call([proc[p] EXCEPT !.after = "fork"], "stop"))
  /\ FilesKept /\ Steady

Fork(p) == At(p, "fork") /\ Becomes(p, [Idle EXCEPT !.pc = "acquire"]) /\ FilesKept /\ Steady

\* Faulty variant: the PID is not tested for None.
GetPidUnchecked(p) ==
  /\ At(p, "getpid")
  /\ Becomes(p, [proc[p] EXCEPT !.pc = "term", !.seen = pidFile])
  /\ FilesKept /\ Steady

GetPid(p) ==
  /\ At(p, "getpid")
  /\ IF pidFile \in wrote
       THEN Becomes(p, [proc[p] EXCEPT !.pc = "term", !.seen = pidFile])
       ELSE Goes(p, "cleanSocket")
  /\ FilesKept /\ Steady

SendTerm(p) ==
  /\ At(p, "term")
  /\ IF Alive(proc[p].seen)
       THEN Goes(p, "await") /\ signalled' = signalled \cup {proc[p].seen}
       ELSE Goes(p, "cleanSocket") /\ UNCHANGED signalled
  /\ FilesKept /\ UNCHANGED <<crashes, overlapped>>

\* Faulty variant: after five seconds the process is left alone.
WaitForStopOnly(p) ==
  /\ At(p, "await")
  /\ Goes(p, "cleanSocket")
  /\ FilesKept /\ Steady

\* The process is gone, or five seconds are over and it is killed.
WaitForStop(p) ==
  /\ At(p, "await")
  /\ proc' = [proc EXCEPT ![p].pc = "cleanSocket",
                          ![proc[p].seen].pc = IF Alive(proc[p].seen) THEN "dead" ELSE @]
  /\ FilesKept /\ Steady

\* Faulty variant: the daemon is trusted to have removed its socket.
CleanNothing(p) ==
  /\ At(p, "cleanSocket")
  /\ Goes(p, "cleanPid")
  /\ FilesKept /\ Steady

CleanSocket(p) ==
  /\ At(p, "cleanSocket")
  /\ socket' = None
  /\ Goes(p, "cleanPid")
  /\ UNCHANGED <<pidFile, wrote, lost>> /\ Steady

CleanPid(p) ==
  /\ At(p, "cleanPid")
  /\ RemovePidFile
  /\ Becomes(p, IF proc[p].after = "start" THEN Call([proc[p] EXCEPT !.after = "done"], "start")
                                           ELSE Over(proc[p], proc[p].after))
  /\ UNCHANGED <<wrote, socket>> /\ Steady

-----------------------------------------------------------------------------
(* The daemon.                                                               *)

\* PIDLockFile creates the file exclusively, tries again once, and gives up.
Acquire(p) ==
  /\ At(p, "acquire")
  /\ IF pidFile = None THEN Goes(p, "write") /\ pidFile' = p
                       ELSE Goes(p, "locked out") /\ UNCHANGED pidFile
  /\ UNCHANGED <<wrote, socket, lost>> /\ Steady

WritePid(p) ==
  /\ At(p, "write")
  /\ Goes(p, "locked")
  /\ wrote' = wrote \cup {p}
  /\ UNCHANGED <<pidFile, socket, lost>> /\ Steady

\* Until run_daemon has installed its handlers, SIGTERM ends the process.
InstallHandlers(p) ==
  /\ At(p, "locked")
  /\ Goes(p, IF p \in signalled THEN "release" ELSE "binding")
  /\ FilesKept /\ Steady

\* An existing socket file is removed, whoever listens on it.
Bind(p) ==
  /\ At(p, "binding")
  /\ Goes(p, "serving")
  /\ socket' = p
  /\ UNCHANGED <<pidFile, wrote, lost>> /\ Steady

\* The signal is seen; the servers are shut down while the socket still listens.
ShutDown(p) ==
  /\ At(p, "serving") /\ p \in signalled
  /\ Goes(p, "closing")
  /\ FilesKept /\ Steady

\* asyncio removes the socket file with the server if it is the one it bound.
CloseServer(p) ==
  /\ At(p, "closing")
  /\ Goes(p, "unlinking")
  /\ socket' = IF socket = p THEN None ELSE socket
  /\ UNCHANGED <<pidFile, wrote, lost>> /\ Steady

\* UNIXServer.stop and cleanup_runtime_files remove whatever socket file is there.
UnlinkSocket(p) ==
  /\ At(p, "unlinking")
  /\ Goes(p, "release")
  /\ socket' = None
  /\ UNCHANGED <<pidFile, wrote, lost>> /\ Steady

\* Faulty variant: the PID file is removed without a look at its contents.
ReleaseAny(p) ==
  /\ At(p, "release")
  /\ Goes(p, "dead")
  /\ pidFile' = None
  /\ UNCHANGED <<wrote, socket, lost>> /\ Steady

\* The PID file is released only by the process whose PID it holds ...
Release(p) ==
  /\ At(p, "release")
  /\ Goes(p, IF pidFile = p THEN "remove" ELSE "dead")
  /\ FilesKept /\ Steady

\* ... when it looks: what it then removes is the file of that name.
RemoveOwn(p) ==
  /\ At(p, "remove")
  /\ Goes(p, "dead")
  /\ pidFile' = None
  /\ lost' = lost \cup {d \in {pidFile} \ {None, p} : Alive(d)}
  /\ UNCHANGED <<wrote, socket>> /\ Steady

\* A daemon is killed from outside and leaves its files.
Crash(p) ==
  /\ Alive(p) /\ crashes < MaxCrashes
  /\ Goes(p, "dead")
  /\ crashes' = crashes + 1
  /\ FilesKept /\ UNCHANGED <<signalled, overlapped>>

-----------------------------------------------------------------------------
(* A request that starts the daemon if it must, and the clean command.       *)

Spawn(p) ==
  /\ At(p, "spawn")
  /\ proc' = [proc EXCEPT ![p].pc = "spawned", ![p + 1] = Call(Idle, "cli")]
  /\ FilesKept /\ Steady

\* A tenth of a second later: a child seen to have exited, if only because it
\* has forked the daemon, counts as a failed start.
SpawnCheck(p) ==
  /\ At(p, "spawned")
  /\ \/ Goes(p, "wait")
     \/ Exited(p + 1) /\ Goes(p, "failed")
  /\ FilesKept /\ Steady

\* Faulty variant: without the limit of ten seconds.
WaitForever(p) ==
  /\ At(p, "wait") /\ socket # None
  /\ Goes(p, "connect")
  /\ FilesKept /\ Steady

\* The socket file is there, or ten seconds are over.
WaitForSocket(p) ==
  /\ At(p, "wait")
  /\ Goes(p, IF socket # None THEN "connect" ELSE "timeout")
  /\ FilesKept /\ Steady

Connect(p) ==
  /\ At(p, "connect")
  /\ Goes(p, IF socket = None THEN "crashed"
             ELSE IF Listening(socket) THEN "connected" ELSE "refused")
  /\ FilesKept /\ Steady

Scan(p) ==
  /\ At(p, "scan")
  /\ \/ socket # None /\ Listening(socket) /\ Goes(p, "done")
     \/ Goes(p, "rmtree")
  /\ FilesKept /\ Steady

RemoveTree(p) ==
  /\ At(p, "rmtree")
  /\ Goes(p, "done")
  /\ socket' = None
  /\ UNCHANGED <<pidFile, wrote, lost>> /\ Steady

-----------------------------------------------------------------------------
CommandStep(p) ==
  \/ Look(p) \/ ReadPid(p) \/ Probe(p) \/ UnlinkStale(p)
  \/ CheckHealth(p) \/ Fork(p) \/ GetPid(p) \/ SendTerm(p) \/ WaitForStop(p)
  \/ CleanSocket(p) \/ CleanPid(p)
  \/ Spawn(p) \/ SpawnCheck(p) \/ WaitForSocket(p) \/ Connect(p)
  \/ Scan(p) \/ RemoveTree(p)

DaemonStep(p) ==
  \/ Acquire(p) \/ WritePid(p) \/ InstallHandlers(p) \/ Bind(p) \/ ShutDown(p)
  \/ CloseServer(p) \/ UnlinkSocket(p) \/ Release(p)
  \/ RemoveOwn(p)

Next == \E p \in Proc :
  \/ \E c \in Commands : Invoke(p, c)
  \/ CommandStep(p)
  \/ DaemonStep(p)
  \/ Crash(p)

Spec == Init /\ [][Next]_vars

\* Processes run: every wait of a command has a timeout, and the shutdown of
\* the servers has one too (Registry).
FairSpec == Spec /\ \A p \in Proc : WF_vars(CommandStep(p)) /\ WF_vars(DaemonStep(p))

-----------------------------------------------------------------------------
(* Properties.                                                               *)

\* Every variable has its type, and only a PID read from the file is signalled
\* (manager.py:202).
TypeOK ==
  /\ \A p \in Proc : proc[p].seen \in Proc \cup {None}
  /\ \A p \in Proc : pc(p) \in {"term", "await"} => proc[p].seen \in wrote
  /\ pidFile \in Proc \cup {None} /\ socket \in Proc \cup {None}
  /\ wrote \subseteq Proc /\ signalled \subseteq wrote /\ lost \subseteq Proc
  /\ crashes \in 0..MaxCrashes /\ overlapped \in BOOLEAN

\* At most one daemon lives whose PID file nobody has taken away: another start
\* does not take it, and the exit of another daemon only if that had just seen
\* its own PID in the file (manager.py:162, python-daemon's PIDLockFile).
SingleUnlessLost ==
  \A d, e \in Proc : Alive(d) /\ Alive(e) /\ {d, e} \cap lost = {} => d = e

Cleaned == \E p \in Proc : proc[p].cmd = "clean"

\* As long as commands do not overlap, with each other or with a daemon that is
\* starting or ending, there is one daemon at most, no command removes its PID
\* file, and it can be reached unless clean found it unhealthy - whatever
\* crashes, kills and unhealthy daemons come between.
AloneIsSafe ==
  ~overlapped =>
    /\ \A d, e \in Proc : Alive(d) /\ Alive(e) => d = e
    /\ lost = {}
    /\ \A d \in Proc : pc(d) = "serving" => socket = d \/ Cleaned

\* When stop is through, the daemon it had signalled is dead and its files are
\* gone for good, also when it had to be killed (manager.py:196).
StopLeavesNothing ==
  \A p \in Proc :
    proc[p].cmd = "stop" /\ pc(p) = "done" /\ proc[p].seen # None =>
      /\ ~Alive(proc[p].seen)
      /\ proc[p].seen \notin {pidFile, socket}

\* Every command ends or becomes a daemon that serves, and every daemon told to
\* stop dies: no two of them wait for each other.
EveryCommandEnds == \A p \in Proc : Busy(p) ~> ~Busy(p)
=============================================================================
