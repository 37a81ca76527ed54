----------------------- MODULE DaemonLifecycleProofs -----------------------
(* Invariance theorems about DaemonLifecycle, for any number of commands,   *)
(* daemons and crashes.                                                     *)
EXTENDS DaemonLifecycle, TLAPS

Places == Command \cup Daemon \cup Ended \cup {"unborn", "reserved", "acquire", "dead"}
Sites == {"cli", "restart", "start", "stop", "ready"}
Record == [pc : Places, cmd : Commands, site : Sites,
           after : {"done", "start", "fork"}, seen : Proc \cup {None}]

Files ==
  /\ pidFile \in Proc \cup {None} /\ socket \in Proc \cup {None}
  /\ wrote \subseteq Proc /\ signalled \subseteq wrote /\ lost \subseteq Proc
  /\ crashes \in 0..MaxCrashes /\ overlapped \in BOOLEAN

\* Only the three commands of the manager ask first, and only a process that has
\* written its PID is signalled.
Asks(p) ==
  /\ pc(p) \in Checking /\ proc[p].site = "cli" => proc[p].cmd \in {"start", "stop", "restart"}
  /\ pc(p) \in {"term", "await"} => proc[p].seen \in wrote

Stopping == {"exists", "read", "probe", "unlink", "getpid", "term", "await",
             "cleanSocket", "cleanPid", "done"}

\* The way of a stop: a PID it has read is signalled before it cleans up.
Stops(p) ==
  proc[p].cmd = "stop" =>
    /\ proc[p].after = "done" /\ proc[p].site \in {"cli", "stop"} /\ pc(p) \in Stopping
    /\ pc(p) \in {"exists", "read", "unlink", "getpid"} => proc[p].seen = None

\* When it does, that process is dead, and nothing of it comes back.
Gone(p) ==
  proc[p].cmd = "stop" /\ pc(p) \in {"cleanSocket", "cleanPid", "done"} /\ proc[p].seen # None =>
    /\ pc(proc[p].seen) = "dead"
    /\ pc(p) \in {"cleanPid", "done"} => socket # proc[p].seen
    /\ pc(p) = "done" => pidFile # proc[p].seen

\* The process a request may spawn waits for it.
MaySpawn(p) == pc(p) = "spawn" \/ (pc(p) \in Checking /\ proc[p].site = "ready")
Reserved(p) == MaySpawn(p) => p + 1 \in Proc /\ pc(p + 1) = "reserved"

\* A process that has written its PID is a daemon, or was one.
Written(p) == p \in wrote => Alive(p) \/ pc(p) = "dead"

\* Processes are born in order.
Born(p) == \A q \in Proc : p < q /\ pc(p) = "unborn" => pc(q) = "unborn"

\* A daemon whose PID file nobody took away owns the PID file.
Owner(p) == Alive(p) /\ p \notin lost => pidFile = p

Types == proc \in [Proc -> Record] /\ Files
Local(p) == Asks(p) /\ Stops(p) /\ Gone(p) /\ Reserved(p) /\ Written(p) /\ Born(p)

IInv == Types /\ \A p \in Proc : Local(p) /\ Owner(p)

-----------------------------------------------------------------------------
\* What a step of a process that was born and is not dead may do: to itself, and
\* to the files.
Moves(p) ==
  /\ \A q \in Proc \ {p} : proc'[q] = proc[q]
  /\ pc(p) \notin {"unborn", "reserved", "dead"}
  /\ proc'[p].pc \notin {"unborn", "reserved"}
  /\ Alive(p) => proc'[p].pc \in Daemon \cup {"dead"}
  /\ MaySpawn(p)' => MaySpawn(p)
  /\ wrote \subseteq wrote'
  /\ wrote' \subseteq wrote \cup {p} /\ (p \in wrote' => p \in wrote \/ Alive(p)')
  /\ pidFile' \in {pidFile, None, p} /\ socket' \in {socket, None, p}

LEMMA MoveKeeps ==
  ASSUME IInv, NEW p \in Proc, Moves(p), Asks(p)', Stops(p)', Gone(p)'
  PROVE  \A q \in Proc : Local(q)'
<1>1. ASSUME NEW q \in Proc PROVE Asks(q)' /\ Stops(q)'
  BY <1>1 DEF Moves, IInv, Local, Asks, Stops, pc
<1>2. ASSUME NEW q \in Proc PROVE Gone(q)'
  <2>1. CASE q = p
    BY <2>1
  <2>2. CASE q # p
    <3> SUFFICES ASSUME proc[q].cmd = "stop", proc[q].seen # None,
                        pc(q) \in {"cleanSocket", "cleanPid", "done"}
                 PROVE  /\ proc'[proc[q].seen].pc = "dead"
                        /\ pc(q) \in {"cleanPid", "done"} => socket' # proc[q].seen
                        /\ pc(q) = "done" => pidFile' # proc[q].seen
      BY <2>2 DEF Gone, Moves, pc
    <3>1. pc(proc[q].seen) = "dead" /\ proc[q].seen \in Proc /\ proc[q].seen # p
      BY DEF IInv, Types, Record, Local, Gone, Moves
    <3> QED
      BY <3>1 DEF IInv, Local, Gone, Moves, pc
  <2> QED
    BY <2>1, <2>2
<1>3. ASSUME NEW q \in Proc PROVE Reserved(q)'
  <2>1. MaySpawn(q)' => MaySpawn(q)
    BY DEF Moves, MaySpawn, pc
  <2>2. MaySpawn(q) => q + 1 \in Proc /\ pc(q + 1) = "reserved" /\ q + 1 # p
    BY DEF IInv, Local, Reserved, Moves
  <2> QED
    BY <2>1, <2>2 DEF Reserved, Moves, pc
<1>4. ASSUME NEW q \in Proc PROVE Written(q)'
  BY DEF IInv, Local, Written, Moves, Alive, pc
<1>5. ASSUME NEW q \in Proc PROVE Born(q)'
  BY DEF IInv, Local, Born, Moves, pc
<1> QED
  BY <1>1, <1>2, <1>3, <1>4, <1>5 DEF Local

\* The PID file of a living daemon stays its own, or is counted as lost.
LEMMA OwnerKeeps ==
  ASSUME IInv, NEW p \in Proc, Moves(p), Alive(p)' => Alive(p),
         \/ UNCHANGED <<pidFile, lost>>
         \/ RemovePidFile
         \/ /\ ~Alive(p)' /\ pidFile' = None
            /\ lost' = lost \cup {d \in {pidFile} \ {None, p} : Alive(d)}
  PROVE  \A q \in Proc : Owner(q)'
<1> SUFFICES ASSUME NEW q \in Proc, Alive(q)', q \notin lost' PROVE pidFile' = q
  BY DEF Owner
<1>1. Alive(q) /\ (~Alive(p)' => q # p)
  BY DEF Moves, Alive, pc
<1>2. q \notin lost => pidFile = q
  BY <1>1 DEF IInv, Owner
<1>3. q # None
  BY DaemonAssumption
<1> QED
  BY <1>1, <1>2, <1>3 DEF RemovePidFile

\* A step of one process that leaves the PID file alone.
LEMMA StepKeeps ==
  ASSUME IInv, NEW p \in Proc, Moves(p), Asks(p)', Stops(p)', Gone(p)', Types',
         Alive(p)' => Alive(p), UNCHANGED <<pidFile, lost>>
  PROVE  IInv'
BY MoveKeeps, OwnerKeeps DEF IInv

LEMMA GoesTo ==
  ASSUME Types, NEW p \in Proc, NEW l \in Places, Goes(p, l)
  PROVE  /\ proc' \in [Proc -> Record]
         /\ \A q \in Proc \ {p} : proc'[q] = proc[q]
         /\ proc'[p].pc = l /\ proc'[p].cmd = proc[p].cmd /\ proc'[p].site = proc[p].site
         /\ proc'[p].after = proc[p].after /\ proc'[p].seen = proc[p].seen
BY DEF Types, Record, Goes

LEMMA BecomesThat ==
  ASSUME Types, NEW p \in Proc, NEW r \in Record, Becomes(p, r)
  PROVE  /\ proc' \in [Proc -> Record] /\ proc'[p] = r
         /\ \A q \in Proc \ {p} : proc'[q] = proc[q]
BY DEF Types, Becomes

LEMMA Numbers == ASSUME NEW p \in Proc PROVE p # None /\ p \in Nat
BY DaemonAssumption DEF Proc

-----------------------------------------------------------------------------
(* is_running, and what its caller does with the result.                    *)

LEMMA PlaceNames ==
  /\ {"exists", "read", "probe", "unlink", "health", "fork", "getpid", "term", "await",
      "cleanSocket", "cleanPid", "spawn", "spawned", "wait", "connect", "scan", "rmtree",
      "write", "locked", "binding", "serving", "closing", "unlinking", "release",
      "remove",
      "done", "locked out", "failed", "timeout", "crashed", "refused", "connected",
      "unborn", "reserved", "acquire", "dead"} \subseteq Places
BY DEF Places, Command, Checking, Daemon, Ended

\* The records the actions build.
LEMMA BuiltAt ==
  ASSUME NEW q \in Record, NEW l \in Places
  PROVE  LET r == [q EXCEPT !.pc = l] IN
         /\ r \in Record /\ r.pc = l /\ r.cmd = q.cmd /\ r.site = q.site
         /\ r.after = q.after /\ r.seen = q.seen
BY DEF Record

LEMMA BuiltCall ==
  ASSUME NEW q \in Record, NEW s \in Sites
  PROVE  /\ Call(q, s) \in Record /\ Call(q, s).pc = "exists" /\ Call(q, s).cmd = q.cmd
         /\ Call(q, s).site = s /\ Call(q, s).after = q.after /\ Call(q, s).seen = q.seen
BY PlaceNames DEF Record, Call

LEMMA BuiltAfter ==
  ASSUME NEW q \in Record, NEW a \in {"done", "start", "fork"}
  PROVE  LET r == [q EXCEPT !.after = a] IN
         /\ r \in Record /\ r.pc = q.pc /\ r.cmd = q.cmd /\ r.site = q.site
         /\ r.after = a /\ r.seen = q.seen
BY DEF Record

LEMMA IdleRecord ==
  /\ Idle \in Record /\ Idle.pc = "unborn" /\ Idle.cmd = "start" /\ Idle.site = "cli"
  /\ Idle.after = "done" /\ Idle.seen = None
BY PlaceNames DEF Idle, Record, Commands, Sites

LEMMA BuiltOver ==
  ASSUME NEW q \in Record, NEW l \in Places
  PROVE  /\ Over(q, l) \in Record /\ Over(q, l).pc = l /\ Over(q, l).cmd = q.cmd
         /\ Over(q, l).site = "cli" /\ Over(q, l).after = "done" /\ Over(q, l).seen = q.seen
<1>1. ASSUME NEW o \in Record
      PROVE  LET r == [o EXCEPT !.pc = l, !.cmd = q.cmd, !.seen = q.seen] IN
             /\ r \in Record /\ r.pc = l /\ r.cmd = q.cmd
             /\ r.site = o.site /\ r.after = o.after /\ r.seen = q.seen
  BY DEF Record
<1> QED
  BY <1>1, IdleRecord DEF Over

\* What is_running's caller goes on as.
Continues(q, r) ==
  /\ r \in Record /\ r.cmd = q.cmd /\ r.seen = q.seen /\ r.site # "ready"
  /\ r.pc \in {"exists", "done", "health", "fork", "getpid", "cleanSocket", "wait", "spawn"}
  /\ r.pc = "exists" => r.site \in {"start", "stop", "restart"}
  /\ r.pc \in {"spawn", "wait"} => q.site = "ready"
  /\ q.cmd = "stop" /\ q.after = "done" /\ q.site \in {"cli", "stop"} =>
       /\ r.after = "done" /\ r.site \in {"cli", "stop"}
       /\ r.pc \in {"exists", "done", "getpid", "cleanSocket"}

LEMMA CheckedRecord ==
  ASSUME NEW q \in Record, NEW running \in BOOLEAN,
         q.site = "cli" => q.cmd \in {"start", "stop", "restart"}
  PROVE  Continues(q, Checked(q, running))
<1>1. CASE q.site = "cli"
  <2>1. Continues(q, Over(q, "done"))
    <3>1. "done" \in Places
      BY PlaceNames
    <3> QED
      BY <3>1, BuiltOver DEF Continues
  <2>2. ASSUME NEW s \in {"start", "restart", "stop"}, q.cmd = "stop" => s = "stop"
        PROVE  Continues(q, Call(q, s))
    BY <2>2, BuiltCall DEF Continues, Sites
  <2>3. Checked(q, running) = RunDaemonCommand(q, running)
    BY <1>1 DEF Checked
  <2>4. CASE q.cmd = "start"
    BY <2>1, <2>2, <2>3, <2>4 DEF RunDaemonCommand
  <2>5. CASE q.cmd = "stop"
    BY <2>1, <2>2, <2>3, <2>5 DEF RunDaemonCommand
  <2>6. CASE q.cmd = "restart"
    BY <2>1, <2>2, <2>3, <2>6 DEF RunDaemonCommand
  <2> QED
    BY <1>1, <2>4, <2>5, <2>6
<1>2. CASE q.site = "restart"
  <2>1. Checked(q, running) = DoRestart(q, running)
    BY <1>2 DEF Checked
  <2> DEFINE a == [q EXCEPT !.after = "start"]
  <2>2. a \in Record /\ a.cmd = q.cmd /\ a.seen = q.seen
    BY BuiltAfter
  <2>3. DoRestart(q, running) = IF running THEN Call(a, "stop") ELSE Call(q, "start")
    BY DEF DoRestart
  <2> HIDE DEF a
  <2>4. Continues(q, Call(a, "stop")) /\ Continues(q, Call(q, "start"))
    BY <1>2, <2>2, BuiltCall DEF Continues, Sites
  <2> QED
    BY <2>1, <2>3, <2>4
<1>3. ASSUME NEW l \in {"health", "fork", "getpid", "cleanSocket"},
             \/ q.site = "start"
             \/ q.site = "stop" /\ l \in {"getpid", "cleanSocket"}
      PROVE  Continues(q, [q EXCEPT !.pc = l])
  <2>1. l \in Places
    BY PlaceNames
  <2> QED
    BY <1>3, <2>1, BuiltAt DEF Continues
<1>4. CASE q.site = "start"
  <2>1. Checked(q, running) = IF running THEN [q EXCEPT !.pc = "health"] ELSE [q EXCEPT !.pc = "fork"]
    BY <1>4 DEF Checked, ManagerStart
  <2> QED
    BY <1>3, <1>4, <2>1
<1>5. CASE q.site = "stop"
  <2>1. Checked(q, running) =
          IF running THEN [q EXCEPT !.pc = "getpid"] ELSE [q EXCEPT !.pc = "cleanSocket"]
    BY <1>5 DEF Checked, ManagerStop
  <2> QED
    BY <1>3, <1>5, <2>1
<1>6. CASE q.site = "ready"
  <2>1. Checked(q, running) =
          [q EXCEPT !.pc = IF running THEN "wait" ELSE "spawn", !.site = "cli"]
    BY <1>6 DEF Checked, EnsureDaemonReady
  <2>2. LET r == Checked(q, running) IN
        /\ r \in Record /\ r.pc \in {"wait", "spawn"} /\ r.site = "cli"
        /\ r.cmd = q.cmd /\ r.after = q.after /\ r.seen = q.seen
    BY <2>1, PlaceNames DEF Record, Sites
  <2> QED
    BY <1>6, <2>2 DEF Continues
<1> QED
  BY <1>1, <1>2, <1>4, <1>5, <1>6 DEF Record, Sites

\* The caller goes on with the result: it is a move, and one that keeps Stops.
LEMMA CheckedMoves ==
  ASSUME IInv, NEW p \in Proc, pc(p) \in Checking, NEW q \in Record, NEW running \in BOOLEAN,
         q.cmd = proc[p].cmd, q.site = proc[p].site, q.after = proc[p].after,
         q.seen = None \/ (q.seen = proc[p].seen /\ pc(p) # "probe"),
         Becomes(p, Checked(q, running)),
         UNCHANGED <<wrote, socket>>, pidFile' \in {pidFile, None}
  PROVE  /\ proc' \in [Proc -> Record] /\ Moves(p) /\ Asks(p)' /\ Stops(p)' /\ Gone(p)'
         /\ ~Alive(p)'
<1> DEFINE r == Checked(q, running)
<1>1. q.site = "cli" => q.cmd \in {"start", "stop", "restart"}
  BY DEF IInv, Local, Asks
<1>0. Continues(q, r)
  BY <1>1, CheckedRecord
<1>2. r \in Record
  BY <1>0 DEF Continues
<1>3. /\ proc' \in [Proc -> Record] /\ proc'[p] = r
      /\ \A d \in Proc \ {p} : proc'[d] = proc[d]
  BY <1>2, BecomesThat DEF IInv
<1> HIDE DEF r
<1> USE <1>0 DEF Continues
<1>4. ~Alive(p)' /\ ~Alive(p)
  BY <1>2, <1>3 DEF Alive, Daemon, Checking, pc
<1>5. MaySpawn(p)' => MaySpawn(p)
  BY <1>2, <1>3 DEF MaySpawn, Checking, pc
<1>6. Moves(p)
  BY <1>2, <1>3, <1>4, <1>5 DEF Moves, Checking, pc
<1>7. Asks(p)'
  BY <1>2, <1>3 DEF Asks, pc, Checking
<1>8. proc[p].cmd = "stop" => r.seen = None
  BY <1>2 DEF IInv, Local, Stops, Checking
<1>9. Stops(p)'
  BY <1>2, <1>3, <1>8 DEF IInv, Local, Stops, Stopping, pc
<1>10. Gone(p)'
  BY <1>2, <1>3, <1>8 DEF Gone, pc
<1> QED
  BY <1>3, <1>4, <1>6, <1>7, <1>9, <1>10
-----------------------------------------------------------------------------
\* A process goes on to another place and leaves the PID file alone.
LEMMA GoesKeeps ==
  ASSUME IInv, NEW p \in Proc, NEW l \in Places, Goes(p, l),
         UNCHANGED <<pidFile, lost>>, socket' \in {socket, None, p}, Files',
         wrote \subseteq wrote', wrote' \subseteq wrote \cup {p}, p \in wrote' => p \in wrote \/ Alive(p),
         pc(p) \notin {"unborn", "reserved", "dead"}, l \notin {"unborn", "reserved"},
         Alive(p) => l \in Daemon \cup {"dead"}, l \in Daemon => Alive(p),
         wrote' # wrote => l \in Daemon,
         l \in Checking \cup {"spawn"} => l \in Checking /\ pc(p) \in Checking,
         l \in {"term", "await"} => proc[p].seen \in wrote,
         proc[p].cmd = "stop" =>
           /\ l \in Stopping \ {"cleanPid", "done"}
           /\ l \in {"exists", "read", "unlink", "getpid"} => proc[p].seen = None
           /\ l = "cleanSocket" /\ proc[p].seen # None => pc(proc[p].seen) = "dead"
  PROVE  IInv'
<1>1. /\ proc' \in [Proc -> Record]
      /\ \A q \in Proc \ {p} : proc'[q] = proc[q]
      /\ proc'[p].pc = l /\ proc'[p].cmd = proc[p].cmd /\ proc'[p].site = proc[p].site
      /\ proc'[p].after = proc[p].after /\ proc'[p].seen = proc[p].seen
  BY GoesTo DEF IInv
<1>2. MaySpawn(p)' => MaySpawn(p)
  <2> SUFFICES ASSUME MaySpawn(p)' PROVE MaySpawn(p)
    OBVIOUS
  <2>1. l \in Checking \cup {"spawn"} /\ (l \in Checking => proc[p].site = "ready")
    BY <1>1 DEF MaySpawn, Checking, pc
  <2> QED
    BY <2>1 DEF MaySpawn
<1>3. Moves(p)
  BY <1>1, <1>2 DEF Moves, Alive, pc
<1>4. Asks(p)'
  BY <1>1 DEF IInv, Local, Asks, pc
<1>5. Stops(p)'
  BY <1>1 DEF IInv, Local, Stops, pc
<1>6. Gone(p)'
  <2>1. proc[p].cmd = "stop" /\ l = "cleanSocket" /\ proc[p].seen # None =>
          proc'[proc[p].seen].pc = "dead"
    <3> SUFFICES ASSUME proc[p].cmd = "stop", l = "cleanSocket", proc[p].seen # None
                 PROVE  proc'[proc[p].seen].pc = "dead"
      OBVIOUS
    <3>1. pc(proc[p].seen) = "dead" /\ proc[p].seen \in Proc \ {p}
      BY DEF IInv, Types, Record
    <3> QED
      BY <1>1, <3>1 DEF pc
  <2> QED
    BY <1>1, <2>1 DEF Gone, pc
<1>7. Types' /\ (Alive(p)' => Alive(p))
  BY <1>1 DEF Types, Alive, pc
<1> QED
  BY <1>3, <1>4, <1>5, <1>6, <1>7, StepKeeps

\* A process that becomes another record, and touches no file.
LEMMA BecomesKeeps ==
  ASSUME IInv, NEW p \in Proc, NEW r \in Record, Becomes(p, r), FilesKept, Files',
         pc(p) \in Command, r.pc \notin Daemon \cup {"unborn", "reserved", "spawn"},
         r.pc \in Checking => r.site \in {"restart", "start", "stop"}
                              \/ (pc(p) \in Checking /\ r.site = proc[p].site /\ r.cmd = proc[p].cmd),
         r.pc \in {"term", "await"} => r.seen \in wrote,
         r.cmd = "stop" =>
           /\ r.after = "done" /\ r.site \in {"cli", "stop"}
           /\ r.pc \in Stopping \ {"cleanSocket", "cleanPid"}
           /\ r.pc \in {"exists", "read", "unlink", "getpid", "done"} => r.seen = None
  PROVE  IInv'
<1>1. /\ proc' \in [Proc -> Record] /\ proc'[p] = r
      /\ \A q \in Proc \ {p} : proc'[q] = proc[q]
  BY BecomesThat DEF IInv
<1>2. ~Alive(p)' /\ ~Alive(p) /\ pc(p) \notin {"unborn", "reserved", "dead"}
  BY <1>1 DEF Alive, Daemon, Command, Checking, pc
<1>3. MaySpawn(p)' => MaySpawn(p)
  <2> SUFFICES ASSUME MaySpawn(p)' PROVE MaySpawn(p)
    OBVIOUS
  <2>1. r.pc \in Checking /\ r.site = "ready"
    BY <1>1 DEF MaySpawn, pc
  <2>2. pc(p) \in Checking /\ r.site = proc[p].site
    BY <2>1
  <2> QED
    BY <2>1, <2>2 DEF MaySpawn
<1>4. Moves(p)
  BY <1>1, <1>2, <1>3 DEF Moves, FilesKept, pc
<1>5. Asks(p)'
  BY <1>1 DEF IInv, Local, Asks, pc, FilesKept
<1>6. Stops(p)'
  BY <1>1 DEF Stops, pc
<1>7. Gone(p)'
  BY <1>1 DEF Gone, pc
<1>8. Types'
  BY <1>1 DEF Types
<1> QED
  BY <1>2, <1>4, <1>5, <1>6, <1>7, <1>8, StepKeeps DEF FilesKept

LEMMA NotStopping ==
  ASSUME IInv, NEW p \in Proc, pc(p) \notin Stopping
  PROVE  proc[p].cmd # "stop"
BY DEF IInv, Local, Stops

-----------------------------------------------------------------------------
(* The steps of the commands.                                               *)

LEMMA LookKeeps ==
  ASSUME IInv, NEW p \in Proc, Look(p)
  PROVE  IInv'
<1>1. Files'
  BY DEF IInv, Types, Files, Look, FilesKept, Steady
<1>2. CASE pidFile = None
  <2>1. proc[p] \in Record /\ pc(p) \in Checking /\ pc(p) # "probe"
    BY DEF IInv, Types, Look, At, Checking
  <2>2. Becomes(p, Checked(proc[p], FALSE)) /\ FilesKept
    BY <1>2 DEF Look
  <2>3. /\ proc' \in [Proc -> Record] /\ Moves(p) /\ Asks(p)' /\ Stops(p)' /\ Gone(p)'
        /\ ~Alive(p)'
    BY <2>1, <2>2, CheckedMoves DEF FilesKept
  <2> QED
    BY <1>1, <2>2, <2>3, StepKeeps DEF Types, FilesKept
<1>3. CASE pidFile # None
  <2>1. Goes(p, "read") /\ FilesKept /\ pc(p) = "exists" /\ "read" \in Places
    BY <1>3, PlaceNames DEF Look, At
  <2>2. proc[p].cmd = "stop" => proc[p].seen = None
    BY <2>1 DEF IInv, Local, Stops
  <2> QED
    BY <1>1, <2>1, <2>2, GoesKeeps DEF FilesKept, Alive, Daemon, Checking, Stopping
<1> QED
  BY <1>2, <1>3

LEMMA ReadPidKeeps ==
  ASSUME IInv, NEW p \in Proc, ReadPid(p)
  PROVE  IInv'
<1>1. Files' /\ FilesKept /\ pc(p) = "read" /\ proc[p] \in Record
  BY DEF IInv, Types, Files, ReadPid, At, FilesKept, Steady
<1>2. CASE pidFile \in wrote
  <2> DEFINE r == [proc[p] EXCEPT !.pc = "probe", !.seen = pidFile]
  <2>1. /\ r \in Record /\ r.pc = "probe" /\ r.cmd = proc[p].cmd /\ r.site = proc[p].site
        /\ r.after = proc[p].after
    BY <1>1, PlaceNames DEF Record, IInv, Types, Files
  <2>2. Becomes(p, r)
    BY <1>2 DEF ReadPid
  <2> HIDE DEF r
  <2>3. proc[p].cmd = "stop" => proc[p].after = "done" /\ proc[p].site \in {"cli", "stop"}
    BY DEF IInv, Local, Stops
  <2> QED
    BY <1>1, <2>1, <2>2, <2>3, BecomesKeeps DEF Command, Checking, Daemon, Stopping
<1>3. CASE pidFile \notin wrote
  <2>1. Goes(p, "unlink") /\ "unlink" \in Places
    BY <1>3, PlaceNames DEF ReadPid
  <2>2. proc[p].cmd = "stop" => proc[p].seen = None
    BY <1>1 DEF IInv, Local, Stops
  <2> QED
    BY <1>1, <2>1, <2>2, GoesKeeps DEF FilesKept, Alive, Daemon, Checking, Stopping
<1> QED
  BY <1>2, <1>3
LEMMA ProbeKeeps ==
  ASSUME IInv, NEW p \in Proc, Probe(p)
  PROVE  IInv'
<1> DEFINE q == [proc[p] EXCEPT !.seen = None]
           r == [q EXCEPT !.pc = "unlink"]
<1>1. Files' /\ FilesKept /\ pc(p) = "probe" /\ pc(p) \in Checking /\ proc[p] \in Record
  BY DEF IInv, Types, Files, Probe, At, FilesKept, Steady, Checking
<1>2. /\ q \in Record /\ q.pc = "probe" /\ q.cmd = proc[p].cmd /\ q.site = proc[p].site
      /\ q.after = proc[p].after /\ q.seen = None
  BY <1>1 DEF Record, pc
<1>3. /\ r \in Record /\ r.pc = "unlink" /\ r.cmd = proc[p].cmd /\ r.site = proc[p].site
      /\ r.after = proc[p].after /\ r.seen = None
  BY <1>2, BuiltAt, PlaceNames
<1>4. Becomes(p, Checked(q, TRUE)) \/ Becomes(p, r)
  BY DEF Probe
<1> HIDE DEF q, r
<1>5. CASE Becomes(p, Checked(q, TRUE))
  <2>1. /\ proc' \in [Proc -> Record] /\ Moves(p) /\ Asks(p)' /\ Stops(p)' /\ Gone(p)'
        /\ ~Alive(p)'
    BY <1>1, <1>2, <1>5, CheckedMoves DEF FilesKept
  <2> QED
    BY <1>1, <2>1, StepKeeps DEF Types, FilesKept
<1>6. CASE Becomes(p, r)
  <2>1. proc[p].cmd = "stop" => proc[p].after = "done" /\ proc[p].site \in {"cli", "stop"}
    BY DEF IInv, Local, Stops
  <2> QED
    BY <1>1, <1>3, <1>6, <2>1, BecomesKeeps DEF Command, Checking, Daemon, Stopping
<1> QED
  BY <1>4, <1>5, <1>6

\* The PID file is removed, whoever made it.
LEMMA RemovalKeeps ==
  ASSUME IInv, NEW p \in Proc, Moves(p), Asks(p)', Stops(p)', Gone(p)', ~Alive(p)',
         proc' \in [Proc -> Record], RemovePidFile, UNCHANGED <<wrote, socket>>, Steady
  PROVE  IInv'
<1>1. Types'
  BY DEF IInv, Types, Files, RemovePidFile, Steady
<1>2. \A q \in Proc : Owner(q)'
  BY OwnerKeeps
<1> QED
  BY <1>1, <1>2, MoveKeeps DEF IInv

LEMMA UnlinkStaleKeeps ==
  ASSUME IInv, NEW p \in Proc, UnlinkStale(p)
  PROVE  IInv'
<1>1. proc[p] \in Record /\ pc(p) \in Checking /\ pc(p) # "probe"
  BY DEF IInv, Types, UnlinkStale, At, Checking
<1>2. Becomes(p, Checked(proc[p], FALSE)) /\ pidFile' = None /\ UNCHANGED <<wrote, socket>>
  BY DEF UnlinkStale, RemovePidFile
<1>3. /\ proc' \in [Proc -> Record] /\ Moves(p) /\ Asks(p)' /\ Stops(p)' /\ Gone(p)'
      /\ ~Alive(p)'
  BY <1>1, <1>2, CheckedMoves
<1> QED
  BY <1>2, <1>3, RemovalKeeps DEF UnlinkStale

LEMMA CheckHealthKeeps ==
  ASSUME IInv, NEW p \in Proc, CheckHealth(p)
  PROVE  IInv'
<1> DEFINE a == [proc[p] EXCEPT !.after = "fork"]
<1>1. Files' /\ FilesKept /\ pc(p) = "health" /\ proc[p] \in Record
  BY DEF IInv, Types, Files, CheckHealth, At, FilesKept, Steady
<1>2. proc[p].cmd # "stop"
  BY <1>1, NotStopping DEF Stopping
<1>3. a \in Record /\ a.cmd = proc[p].cmd
  BY <1>1, BuiltAfter
<1>4. Becomes(p, Over(proc[p], "done")) \/ Becomes(p, Call(a, "stop"))
  BY DEF CheckHealth
<1> HIDE DEF a
<1>5. CASE Becomes(p, Over(proc[p], "done"))
  <2>1. LET r == Over(proc[p], "done") IN r \in Record /\ r.pc = "done" /\ r.cmd = proc[p].cmd
    <3>1. "done" \in Places
      BY PlaceNames
    <3> QED
      BY <1>1, <3>1, BuiltOver
  <2> QED
    BY <1>1, <1>2, <1>5, <2>1, BecomesKeeps DEF Command, Checking, Daemon
<1>6. CASE Becomes(p, Call(a, "stop"))
  <2>1. LET r == Call(a, "stop") IN
        r \in Record /\ r.pc = "exists" /\ r.cmd = proc[p].cmd /\ r.site = "stop"
    BY <1>3, BuiltCall DEF Sites
  <2> QED
    BY <1>1, <1>2, <1>6, <2>1, BecomesKeeps DEF Command, Checking, Daemon
<1> QED
  BY <1>4, <1>5, <1>6

LEMMA ForkKeeps ==
  ASSUME IInv, NEW p \in Proc, Fork(p)
  PROVE  IInv'
<1> DEFINE r == [Idle EXCEPT !.pc = "acquire"]
<1>1. Files' /\ FilesKept /\ pc(p) = "fork" /\ Becomes(p, r)
  BY DEF IInv, Types, Files, Fork, At, FilesKept, Steady
<1>2. r \in Record /\ r.pc = "acquire" /\ r.cmd = "start"
  BY IdleRecord, BuiltAt, PlaceNames
<1> HIDE DEF r
<1> QED
  BY <1>1, <1>2, BecomesKeeps DEF Command, Checking, Daemon

LEMMA GetPidKeeps ==
  ASSUME IInv, NEW p \in Proc, GetPid(p)
  PROVE  IInv'
<1>1. Files' /\ FilesKept /\ pc(p) = "getpid" /\ proc[p] \in Record
  BY DEF IInv, Types, Files, GetPid, At, FilesKept, Steady
<1>2. proc[p].cmd = "stop" =>
        proc[p].after = "done" /\ proc[p].site \in {"cli", "stop"} /\ proc[p].seen = None
  BY <1>1 DEF IInv, Local, Stops
<1>3. CASE pidFile \in wrote
  <2> DEFINE r == [proc[p] EXCEPT !.pc = "term", !.seen = pidFile]
  <2>1. /\ r \in Record /\ r.pc = "term" /\ r.cmd = proc[p].cmd /\ r.site = proc[p].site
        /\ r.after = proc[p].after /\ r.seen \in wrote
    BY <1>1, <1>3, PlaceNames DEF Record, IInv, Types, Files
  <2>2. Becomes(p, r)
    BY <1>3 DEF GetPid
  <2> HIDE DEF r
  <2> QED
    BY <1>1, <1>2, <2>1, <2>2, BecomesKeeps DEF Command, Checking, Daemon, Stopping
<1>4. CASE pidFile \notin wrote
  <2>1. Goes(p, "cleanSocket") /\ "cleanSocket" \in Places
    BY <1>4, PlaceNames DEF GetPid
  <2> QED
    BY <1>1, <1>2, <2>1, GoesKeeps DEF FilesKept, Alive, Daemon, Checking, Stopping
<1> QED
  BY <1>3, <1>4

LEMMA SendTermKeeps ==
  ASSUME IInv, NEW p \in Proc, SendTerm(p)
  PROVE  IInv'
<1>1. FilesKept /\ pc(p) = "term" /\ proc[p].seen \in wrote /\ proc[p].seen \in Proc
  BY DEF IInv, Types, Files, Local, Asks, SendTerm, At
<1>2. Files'
  BY <1>1 DEF IInv, Types, Files, SendTerm, FilesKept
<1>3. CASE Alive(proc[p].seen)
  <2>1. Goes(p, "await") /\ "await" \in Places
    BY <1>3, PlaceNames DEF SendTerm
  <2> QED
    BY <1>1, <1>2, <2>1, GoesKeeps DEF FilesKept, Alive, Daemon, Checking, Stopping
<1>4. CASE ~Alive(proc[p].seen)
  <2>1. Goes(p, "cleanSocket") /\ "cleanSocket" \in Places
    BY <1>4, PlaceNames DEF SendTerm
  <2>2. pc(proc[p].seen) = "dead"
    BY <1>1, <1>4 DEF IInv, Local, Written
  <2> QED
    BY <1>1, <1>2, <2>1, <2>2, GoesKeeps DEF FilesKept, Alive, Daemon, Checking, Stopping
<1> QED
  BY <1>3, <1>4
\* The process that was signalled is dead from now on.
LEMMA WaitForStopKeeps ==
  ASSUME IInv, NEW p \in Proc, WaitForStop(p)
  PROVE  IInv'
<1> DEFINE d == proc[p].seen
<1>1. /\ pc(p) = "await" /\ d \in wrote /\ d \in Proc
      /\ Files' /\ UNCHANGED <<pidFile, wrote, socket, lost>>
  BY DEF IInv, Types, Files, Local, Asks, WaitForStop, At, FilesKept, Steady
<1>2. d # p /\ (Alive(d) \/ pc(d) = "dead")
  BY <1>1 DEF IInv, Local, Written, Alive, Daemon
<1>3. /\ proc' \in [Proc -> Record]
      /\ \A q \in Proc \ {p, d} : proc'[q] = proc[q]
      /\ proc'[p].pc = "cleanSocket" /\ proc'[p].cmd = proc[p].cmd
      /\ proc'[p].site = proc[p].site /\ proc'[p].after = proc[p].after
      /\ proc'[p].seen = proc[p].seen
      /\ proc'[d].pc = "dead" /\ proc'[d].cmd = proc[d].cmd /\ proc'[d].seen = proc[d].seen
  <2>1. proc' = [proc EXCEPT ![p].pc = "cleanSocket",
                             ![d].pc = IF Alive(d) THEN "dead" ELSE @]
    BY DEF WaitForStop
  <2>2. proc' = [proc EXCEPT ![p].pc = "cleanSocket", ![d].pc = "dead"]
    BY <1>1, <1>2, <2>1 DEF IInv, Types, Record, pc
  <2>3. "cleanSocket" \in Places /\ "dead" \in Places
    BY PlaceNames
  <2> HIDE DEF d
  <2> QED
    BY <1>1, <1>2, <2>2, <2>3 DEF IInv, Types, Record
<1> HIDE DEF d
<1>4. ASSUME NEW q \in Proc PROVE pc(q)' = pc(q) \/ q = p \/ (q = d /\ pc(q)' = "dead")
  BY <1>3 DEF pc
<1>5. proc[d].cmd # "stop"
  BY <1>1, <1>2 DEF IInv, Local, Stops, Stopping, Alive, Daemon
<1>6. ASSUME NEW q \in Proc PROVE Asks(q)' /\ Stops(q)'
  <2>1. CASE q = p
    BY <1>1, <1>3, <2>1 DEF IInv, Local, Asks, Stops, Stopping, Checking, pc
  <2>2. CASE q = d
    BY <1>2, <1>3, <1>5, <2>2 DEF Asks, Stops, Checking, pc
  <2>3. CASE q # p /\ q # d
    BY <1>1, <1>3, <2>3 DEF IInv, Local, Asks, Stops, pc
  <2> QED
    BY <2>1, <2>2, <2>3
<1>7. ASSUME NEW q \in Proc PROVE Gone(q)'
  <2>1. CASE q = p
    <3>1. proc[p].seen = d
      BY DEF d
    <3> QED
      BY <1>3, <2>1, <3>1 DEF Gone, pc
  <2>2. CASE q = d
    BY <1>3, <1>5, <2>2 DEF Gone
  <2>3. CASE q # p /\ q # d
    <3> SUFFICES ASSUME proc[q].cmd = "stop", proc[q].seen # None,
                        pc(q) \in {"cleanSocket", "cleanPid", "done"}
                 PROVE  /\ proc'[proc[q].seen].pc = "dead"
                        /\ pc(q) \in {"cleanPid", "done"} => socket # proc[q].seen
                        /\ pc(q) = "done" => pidFile # proc[q].seen
      BY <1>1, <1>3, <2>3 DEF Gone, pc
    <3>1. pc(proc[q].seen) = "dead" /\ proc[q].seen \in Proc /\ proc[q].seen # p
      BY <1>1 DEF IInv, Types, Record, Local, Gone
    <3>2. proc'[proc[q].seen].pc = "dead"
      BY <1>3, <3>1 DEF pc
    <3> QED
      BY <3>2 DEF IInv, Local, Gone
  <2> QED
    BY <2>1, <2>2, <2>3
<1>8. ASSUME NEW q \in Proc PROVE Reserved(q)'
  <2>1. MaySpawn(q)' => MaySpawn(q)
    BY <1>3 DEF MaySpawn, Checking, pc
  <2>2. MaySpawn(q) => q + 1 \in Proc /\ pc(q + 1) = "reserved"
    BY DEF IInv, Local, Reserved
  <2>3. MaySpawn(q) => q + 1 # p /\ q + 1 # d
    BY <1>1, <1>2, <2>2 DEF Alive, Daemon
  <2> QED
    BY <1>3, <2>1, <2>2, <2>3 DEF Reserved, pc
<1>9. ASSUME NEW q \in Proc PROVE Written(q)'
  <2>1. q = p => q \notin wrote
    BY <1>1 DEF IInv, Local, Written, Alive, Daemon
  <2> QED
    BY <1>1, <1>3, <2>1 DEF IInv, Local, Written, Alive, pc
<1>10. ASSUME NEW q \in Proc PROVE Born(q)'
  <2>1. pc(p) # "unborn" /\ pc(d) # "unborn"
    BY <1>1, <1>2 DEF Alive, Daemon
  <2>2. \A e \in Proc : pc(e)' = "unborn" <=> pc(e) = "unborn"
    BY <1>3, <2>1 DEF pc
  <2> QED
    BY <2>2 DEF IInv, Local, Born
<1>11. ASSUME NEW q \in Proc PROVE Owner(q)'
  <2>1. Alive(q)' => Alive(q)
    BY <1>3 DEF Alive, Daemon, pc
  <2> QED
    BY <1>1, <2>1 DEF IInv, Owner
<1> QED
  BY <1>1, <1>3, <1>6, <1>7, <1>8, <1>9, <1>10, <1>11 DEF IInv, Types, Local

LEMMA CleanSocketKeeps ==
  ASSUME IInv, NEW p \in Proc, CleanSocket(p)
  PROVE  IInv'
<1>1. /\ Files' /\ pc(p) = "cleanSocket" /\ Goes(p, "cleanPid") /\ "cleanPid" \in Places
      /\ socket' = None /\ UNCHANGED <<pidFile, wrote, lost>>
  BY PlaceNames DEF IInv, Types, Files, CleanSocket, At, Steady
<1>2. /\ proc' \in [Proc -> Record]
      /\ \A q \in Proc \ {p} : proc'[q] = proc[q]
      /\ proc'[p].pc = "cleanPid" /\ proc'[p].cmd = proc[p].cmd
      /\ proc'[p].site = proc[p].site /\ proc'[p].after = proc[p].after
      /\ proc'[p].seen = proc[p].seen
  BY <1>1, GoesTo DEF IInv
<1>3. ~Alive(p)' /\ ~Alive(p) /\ ~MaySpawn(p)'
  BY <1>1, <1>2 DEF Alive, Daemon, MaySpawn, Checking, pc
<1>4. Moves(p)
  BY <1>1, <1>2, <1>3 DEF Moves, pc
<1>5. Asks(p)' /\ Stops(p)'
  BY <1>1, <1>2 DEF IInv, Local, Asks, Stops, Stopping, Checking, pc
<1>6. Gone(p)'
  <2> SUFFICES ASSUME proc[p].cmd = "stop", proc[p].seen # None
               PROVE  proc'[proc[p].seen].pc = "dead"
    BY <1>1, <1>2 DEF Gone, pc
  <2>1. pc(proc[p].seen) = "dead" /\ proc[p].seen \in Proc \ {p}
    BY <1>1 DEF IInv, Types, Record, Local, Gone
  <2> QED
    BY <1>2, <2>1 DEF pc
<1> QED
  BY <1>1, <1>2, <1>3, <1>4, <1>5, <1>6, StepKeeps DEF Types
LEMMA CleanPidKeeps ==
  ASSUME IInv, NEW p \in Proc, CleanPid(p)
  PROVE  IInv'
<1> DEFINE a == [proc[p] EXCEPT !.after = "done"]
           r == IF proc[p].after = "start" THEN Call(a, "start")
                                           ELSE Over(proc[p], proc[p].after)
<1>1. /\ pc(p) = "cleanPid" /\ proc[p] \in Record /\ Becomes(p, r)
      /\ RemovePidFile /\ pidFile' = None /\ UNCHANGED <<wrote, socket>> /\ Steady
  BY DEF IInv, Types, CleanPid, At, RemovePidFile
<1>2. /\ r \in Record /\ r.cmd = proc[p].cmd /\ r.seen = proc[p].seen
      /\ r.pc \in {"exists", "done", "fork"} /\ r.site \in {"start", "cli"}
      /\ r.pc = "exists" => r.site = "start"
      /\ proc[p].after = "done" => r.pc = "done" /\ r.after = "done" /\ r.site = "cli"
  <2>1. CASE proc[p].after = "start"
    <3>1. a \in Record /\ a.cmd = proc[p].cmd /\ a.seen = proc[p].seen
      BY <1>1, BuiltAfter
    <3> HIDE DEF a
    <3>2. r = Call(a, "start")
      BY <2>1
    <3> QED
      BY <2>1, <3>1, <3>2, BuiltCall DEF Sites
  <2>2. CASE proc[p].after # "start"
    <3>1. proc[p].after \in {"done", "fork"}
      BY <1>1, <2>2 DEF Record
    <3>2. proc[p].after \in Places
      BY <3>1, PlaceNames
    <3>3. r = Over(proc[p], proc[p].after)
      BY <2>2
    <3> HIDE DEF r
    <3> QED
      BY <1>1, <2>2, <3>1, <3>2, <3>3, BuiltOver
  <2> QED
    BY <2>1, <2>2
<1> HIDE DEF r
<1>3. /\ proc' \in [Proc -> Record] /\ proc'[p] = r
      /\ \A q \in Proc \ {p} : proc'[q] = proc[q]
  BY <1>1, <1>2, BecomesThat DEF IInv
<1>4. ~Alive(p)' /\ ~Alive(p) /\ ~MaySpawn(p)'
  BY <1>1, <1>2, <1>3 DEF Alive, Daemon, MaySpawn, Checking, pc
<1>5. Moves(p)
  BY <1>1, <1>2, <1>3, <1>4 DEF Moves, pc
<1>6. Asks(p)'
  BY <1>2, <1>3 DEF Asks, Checking, pc
<1>7. Stops(p)'
  BY <1>2, <1>3 DEF IInv, Local, Stops, Stopping, pc
<1>8. Gone(p)'
  <2> SUFFICES ASSUME proc[p].cmd = "stop", proc[p].seen # None
               PROVE  proc'[proc[p].seen].pc = "dead" /\ socket # proc[p].seen
    BY <1>1, <1>2, <1>3 DEF Gone, pc
  <2>1. /\ pc(proc[p].seen) = "dead" /\ proc[p].seen \in Proc \ {p}
        /\ socket # proc[p].seen
    BY <1>1 DEF IInv, Types, Record, Local, Gone
  <2> QED
    BY <1>3, <2>1 DEF pc
<1> QED
  BY <1>1, <1>3, <1>4, <1>5, <1>6, <1>7, <1>8, RemovalKeeps

\* The other steps of a request and of clean only go on.
LEMMA RequestKeeps ==
  ASSUME IInv, NEW p \in Proc,
         SpawnCheck(p) \/ WaitForSocket(p) \/ Connect(p) \/ Scan(p) \/ RemoveTree(p)
  PROVE  IInv'
<1>1. /\ Files' /\ UNCHANGED <<pidFile, lost, wrote>> /\ socket' \in {socket, None}
      /\ pc(p) \in {"spawned", "wait", "connect", "scan", "rmtree"}
  BY DEF IInv, Types, Files, SpawnCheck, WaitForSocket, Connect, Scan, RemoveTree, At,
         FilesKept, Steady
<1>2. PICK l \in {"wait", "failed", "connect", "timeout", "crashed", "connected", "refused",
                  "done", "rmtree"} : Goes(p, l)
  BY DEF SpawnCheck, WaitForSocket, Connect, Scan, RemoveTree
<1>3. l \in Places
  BY PlaceNames
<1>4. proc[p].cmd # "stop"
  BY <1>1, NotStopping DEF Stopping
<1> QED
  BY <1>1, <1>2, <1>3, <1>4, GoesKeeps DEF Alive, Daemon, Checking

\* A request starts the process it had reserved.
LEMMA SpawnKeeps ==
  ASSUME IInv, NEW p \in Proc, Spawn(p)
  PROVE  IInv'
<1> DEFINE c == p + 1
           r == Call(Idle, "cli")
<1>1. /\ Files' /\ UNCHANGED <<pidFile, wrote, socket, lost>> /\ pc(p) = "spawn"
      /\ proc' = [proc EXCEPT ![p].pc = "spawned", ![c] = r]
  BY DEF IInv, Types, Files, Spawn, At, FilesKept, Steady
<1>2. c \in Proc /\ pc(c) = "reserved" /\ c # p
  BY <1>1 DEF IInv, Local, Reserved, MaySpawn
<1>3. r \in Record /\ r.pc = "exists" /\ r.cmd = "start" /\ r.site = "cli"
  BY IdleRecord, BuiltCall DEF Sites
<1> HIDE DEF c, r
<1>4. /\ proc' \in [Proc -> Record] /\ proc'[c] = r
      /\ \A q \in Proc \ {p, c} : proc'[q] = proc[q]
      /\ proc'[p].pc = "spawned" /\ proc'[p].cmd = proc[p].cmd
  <2>1. "spawned" \in Places
    BY PlaceNames
  <2> QED
    BY <1>1, <1>2, <1>3, <2>1 DEF IInv, Types, Record
<1>5. proc[p].cmd # "stop" /\ proc'[p].cmd # "stop"
  BY <1>1, <1>4, NotStopping DEF Stopping
<1>6. ASSUME NEW q \in Proc PROVE Asks(q)' /\ Stops(q)'
  <2>1. CASE q = p \/ q = c
    BY <1>3, <1>4, <1>5, <2>1 DEF Asks, Stops, Checking, pc
  <2>2. CASE q # p /\ q # c
    BY <1>1, <1>4, <2>2 DEF IInv, Local, Asks, Stops, pc
  <2> QED
    BY <2>1, <2>2
<1>7. ASSUME NEW q \in Proc PROVE Gone(q)'
  <2>1. CASE q = p \/ q = c
    BY <1>3, <1>4, <1>5, <2>1 DEF Gone, pc
  <2>2. CASE q # p /\ q # c
    <3> SUFFICES ASSUME proc[q].cmd = "stop", proc[q].seen # None,
                        pc(q) \in {"cleanSocket", "cleanPid", "done"}
                 PROVE  /\ proc'[proc[q].seen].pc = "dead"
                        /\ pc(q) \in {"cleanPid", "done"} => socket # proc[q].seen
                        /\ pc(q) = "done" => pidFile # proc[q].seen
      BY <1>1, <1>4, <2>2 DEF Gone, pc
    <3>1. pc(proc[q].seen) = "dead" /\ proc[q].seen \in Proc \ {p, c}
      BY <1>1, <1>2 DEF IInv, Types, Record, Local, Gone
    <3>2. proc'[proc[q].seen].pc = "dead"
      BY <1>4, <3>1 DEF pc
    <3> QED
      BY <3>2 DEF IInv, Local, Gone
  <2> QED
    BY <2>1, <2>2
<1>8. ASSUME NEW q \in Proc PROVE Reserved(q)'
  <2>1. ~MaySpawn(p)' /\ ~MaySpawn(c)'
    BY <1>3, <1>4 DEF MaySpawn, Checking, pc
  <2>2. CASE q # p /\ q # c
    <3>1. MaySpawn(q)' => MaySpawn(q)
      BY <1>4, <2>2 DEF MaySpawn, pc
    <3>2. MaySpawn(q) => q + 1 \in Proc /\ pc(q + 1) = "reserved"
      BY DEF IInv, Local, Reserved
    <3>3. q + 1 # c
      BY <2>2, Numbers DEF c
    <3>4. MaySpawn(q) => q + 1 # p
      BY <1>1, <3>2
    <3> QED
      BY <1>4, <3>1, <3>2, <3>3, <3>4 DEF Reserved, pc
  <2> QED
    BY <2>1, <2>2 DEF Reserved
<1>9. ASSUME NEW q \in Proc PROVE Written(q)'
  <2>1. p \notin wrote /\ c \notin wrote
    BY <1>1, <1>2 DEF IInv, Local, Written, Alive, Daemon
  <2> QED
    BY <1>1, <1>4, <2>1 DEF IInv, Local, Written, Alive, pc
<1>10. ASSUME NEW q \in Proc PROVE Born(q)'
  <2>1. \A e \in Proc : pc(e)' = "unborn" <=> pc(e) = "unborn"
    BY <1>1, <1>2, <1>3, <1>4 DEF pc
  <2> QED
    BY <2>1 DEF IInv, Local, Born
<1>11. ASSUME NEW q \in Proc PROVE Owner(q)'
  <2>1. Alive(q)' => Alive(q)
    BY <1>3, <1>4 DEF Alive, Daemon, pc
  <2> QED
    BY <1>1, <2>1 DEF IInv, Owner
<1> QED
  BY <1>1, <1>4, <1>6, <1>7, <1>8, <1>9, <1>10, <1>11 DEF IInv, Types, Local

-----------------------------------------------------------------------------
(* The steps of the daemon.                                                 *)

\* Only here a daemon comes to life, and only when there is no PID file.
LEMMA AcquireKeeps ==
  ASSUME IInv, NEW p \in Proc, Acquire(p)
  PROVE  IInv'
<1>1. /\ pc(p) = "acquire" /\ UNCHANGED <<wrote, socket, lost>> /\ Files'
      /\ proc[p].cmd # "stop"
  BY NotStopping DEF Acquire, At, IInv, Types, Files, Steady, Stopping
<1>2. CASE pidFile # None
  <2>1. Goes(p, "locked out") /\ UNCHANGED pidFile /\ "locked out" \in Places
    BY <1>2, PlaceNames DEF Acquire
  <2> QED
    BY <1>1, <2>1, GoesKeeps DEF Alive, Daemon, Checking
<1>3. CASE pidFile = None
  <2>1. Goes(p, "write") /\ pidFile' = p /\ "write" \in Places
    BY <1>3, PlaceNames DEF Acquire
  <2>2. /\ proc' \in [Proc -> Record]
        /\ \A q \in Proc \ {p} : proc'[q] = proc[q]
        /\ proc'[p].pc = "write" /\ proc'[p].cmd = proc[p].cmd
    BY <2>1, GoesTo DEF IInv
  <2>3. ~MaySpawn(p)' /\ ~Alive(p) /\ p \notin wrote
    BY <1>1, <2>2 DEF IInv, Local, Written, MaySpawn, Alive, Daemon, Checking, pc
  <2>4. Moves(p)
    BY <1>1, <2>1, <2>2, <2>3 DEF Moves, pc
  <2>5. Asks(p)' /\ Stops(p)' /\ Gone(p)'
    BY <1>1, <2>2 DEF Asks, Stops, Gone, Checking, pc
  <2>6. ASSUME NEW q \in Proc PROVE Owner(q)'
    <3>1. CASE q = p
      BY <2>1, <3>1 DEF Owner
    <3>2. CASE q # p
      <4>1. ~(Alive(q) /\ q \notin lost)
        BY <1>3, Numbers DEF IInv, Owner
      <4> QED
        BY <1>1, <2>2, <3>2, <4>1 DEF Owner, Alive, pc
    <3> QED
      BY <3>1, <3>2
  <2> QED
    BY <1>1, <2>2, <2>4, <2>5, <2>6, MoveKeeps DEF IInv, Types
<1> QED
  BY <1>2, <1>3

LEMMA AliveCalm ==
  ASSUME IInv, NEW p \in Proc, Alive(p)
  PROVE  proc[p].cmd # "stop" /\ pc(p) \notin {"unborn", "reserved", "dead"}
BY NotStopping DEF Alive, Daemon, Stopping

LEMMA DaemonGoesOn ==
  ASSUME IInv, NEW p \in Proc,
         WritePid(p) \/ InstallHandlers(p) \/ Bind(p) \/ ShutDown(p) \/ CloseServer(p)
           \/ UnlinkSocket(p) \/ Release(p) \/ Crash(p)
  PROVE  IInv'
<1>1. Alive(p)
  BY DEF WritePid, InstallHandlers, Bind, ShutDown, CloseServer, UnlinkSocket, Release,
         Crash, At, Alive, Daemon
<1>2. PICK l \in Daemon \cup {"dead"} : Goes(p, l) /\ (wrote' # wrote => l \in Daemon)
  BY DEF WritePid, InstallHandlers, Bind, ShutDown, CloseServer, UnlinkSocket, Release,
         Crash, Daemon, FilesKept
<1>3. /\ UNCHANGED <<pidFile, lost>> /\ socket' \in {socket, None, p}
      /\ wrote \subseteq wrote' /\ wrote' \subseteq wrote \cup {p}
  BY DEF WritePid, InstallHandlers, Bind, ShutDown, CloseServer, UnlinkSocket, Release,
     Crash, FilesKept
<1>4. Files'
  <2>1. crashes' \in 0..MaxCrashes /\ UNCHANGED <<signalled, overlapped>>
    BY DaemonAssumption DEF IInv, Types, Files, WritePid, InstallHandlers, Bind, ShutDown,
       CloseServer, UnlinkSocket, Release, Crash, Steady
  <2> QED
    BY <1>3, <2>1 DEF IInv, Types, Files
<1>5. l \in Places
  BY DEF Places
<1> QED
  BY <1>1, <1>2, <1>3, <1>4, <1>5, AliveCalm, GoesKeeps DEF Daemon, Checking

LEMMA RemoveOwnKeeps ==
  ASSUME IInv, NEW p \in Proc, RemoveOwn(p)
  PROVE  IInv'
<1>1. /\ Alive(p) /\ Goes(p, "dead") /\ UNCHANGED <<wrote, socket>>
      /\ "dead" \in Places /\ pidFile' = None
      /\ lost' = lost \cup {d \in {pidFile} \ {None, p} : Alive(d)}
  BY PlaceNames DEF RemoveOwn, At, Alive, Daemon
<1>2. Files'
  BY <1>1 DEF IInv, Types, Files, RemoveOwn, Steady
<1>3. /\ proc' \in [Proc -> Record]
      /\ \A q \in Proc \ {p} : proc'[q] = proc[q]
      /\ proc'[p].pc = "dead" /\ proc'[p].cmd = proc[p].cmd
  BY <1>1, GoesTo DEF IInv
<1>4. ~MaySpawn(p)' /\ ~Alive(p)'
  BY <1>3 DEF MaySpawn, Alive, Daemon, Checking, pc
<1>5. Moves(p)
  BY <1>1, <1>3, <1>4, AliveCalm DEF Moves, pc
<1>6. Asks(p)' /\ Stops(p)' /\ Gone(p)'
  BY <1>1, <1>3, AliveCalm DEF Asks, Stops, Gone, Checking, pc
<1> QED
  BY <1>1, <1>2, <1>3, <1>4, <1>5, <1>6, MoveKeeps, OwnerKeeps DEF IInv, Types
-----------------------------------------------------------------------------
\* A command is issued: a process is born, and a request reserves the next one.
LEMMA BirthKeeps ==
  ASSUME IInv, NEW p \in Proc, pc(p) = "unborn", \A q \in Proc : q < p => pc(q) # "unborn",
         Files', FilesKept, proc' \in [Proc -> Record],
         \A q \in Proc \ {p} :
           \/ proc'[q] = proc[q]
           \/ q = p + 1 /\ proc'[q].pc = "reserved" /\ proc'[q].cmd = proc[q].cmd,
         proc'[p].pc \in {"exists", "scan"}, proc'[p].after = "done", proc'[p].seen = None,
         proc'[p].site \in {"cli", "ready"}, proc'[p].cmd = "stop" => proc'[p].site = "cli",
         proc'[p].pc = "exists" /\ proc'[p].site = "cli" =>
           proc'[p].cmd \in {"start", "stop", "restart"},
         proc'[p].cmd = "stop" => proc'[p].pc = "exists",
         proc'[p].site = "ready" => p + 1 \in Proc /\ proc'[p + 1].pc = "reserved"
  PROVE  IInv'
<1>1. UNCHANGED <<pidFile, wrote, socket, lost>>
  BY DEF FilesKept
<1>2. ASSUME NEW q \in Proc \ {p}
      PROVE  \/ proc'[q] = proc[q]
             \/ /\ q = p + 1 /\ pc(q) = "unborn" /\ proc'[q].pc = "reserved"
                /\ proc'[q].cmd = proc[q].cmd
  BY Numbers DEF IInv, Local, Born
<1>3. ASSUME NEW q \in Proc, pc(q) = "unborn" PROVE proc[q].cmd # "stop" /\ q \notin wrote
  BY <1>3 DEF IInv, Local, Stops, Stopping, Written, Alive, Daemon
<1>4. ASSUME NEW q \in Proc PROVE Asks(q)' /\ Stops(q)'
  <2>1. CASE q = p
    BY <2>1 DEF Asks, Stops, Stopping, Checking, pc
  <2>2. CASE q # p /\ proc'[q] = proc[q]
    BY <1>1, <2>2 DEF IInv, Local, Asks, Stops, pc
  <2>3. CASE q # p /\ proc'[q] # proc[q]
    <3>1. pc(q) = "unborn" /\ proc'[q].pc = "reserved" /\ proc'[q].cmd = proc[q].cmd
      BY <1>2, <2>3
    <3> QED
      BY <1>3, <3>1 DEF Asks, Stops, Checking, pc
  <2> QED
    BY <2>1, <2>2, <2>3
<1>5. ASSUME NEW q \in Proc PROVE Gone(q)'
  <2>1. CASE q = p
    BY <2>1 DEF Gone
  <2>2. CASE q # p /\ proc'[q] = proc[q]
    <3> SUFFICES ASSUME proc[q].cmd = "stop", proc[q].seen # None,
                        pc(q) \in {"cleanSocket", "cleanPid", "done"}
                 PROVE  /\ proc'[proc[q].seen].pc = "dead"
                        /\ pc(q) \in {"cleanPid", "done"} => socket # proc[q].seen
                        /\ pc(q) = "done" => pidFile # proc[q].seen
      BY <1>1, <2>2 DEF Gone, pc
    <3>1. pc(proc[q].seen) = "dead" /\ proc[q].seen \in Proc \ {p}
      BY DEF IInv, Types, Record, Local, Gone
    <3>2. proc'[proc[q].seen].pc = "dead"
      BY <1>2, <3>1 DEF pc
    <3> QED
      BY <3>2 DEF IInv, Local, Gone
  <2>3. CASE q # p /\ proc'[q] # proc[q]
    BY <1>2, <2>3 DEF Gone, pc
  <2> QED
    BY <2>1, <2>2, <2>3
<1>6. ASSUME NEW q \in Proc PROVE Reserved(q)'
  <2>1. CASE q = p
    BY <2>1 DEF Reserved, MaySpawn, Checking, pc
  <2>2. CASE q # p /\ proc'[q] = proc[q]
    <3>1. MaySpawn(q)' => MaySpawn(q)
      BY <2>2 DEF MaySpawn, pc
    <3>2. MaySpawn(q) => q + 1 \in Proc /\ pc(q + 1) = "reserved" /\ q + 1 # p
      BY DEF IInv, Local, Reserved
    <3>3. MaySpawn(q) => proc'[q + 1] = proc[q + 1]
      BY <1>2, <3>2
    <3> QED
      BY <3>1, <3>2, <3>3 DEF Reserved, pc
  <2>3. CASE q # p /\ proc'[q] # proc[q]
    BY <1>2, <2>3 DEF Reserved, MaySpawn, Checking, pc
  <2> QED
    BY <2>1, <2>2, <2>3
<1>7. ASSUME NEW q \in Proc PROVE Written(q)'
  <2>1. CASE q = p
    BY <1>1, <1>3, <2>1 DEF Written
  <2>2. CASE q # p
    BY <1>1, <1>2, <1>3, <2>2 DEF IInv, Local, Written, Alive, pc
  <2> QED
    BY <2>1, <2>2
<1>8. ASSUME NEW q \in Proc PROVE Born(q)'
  <2> SUFFICES ASSUME NEW e \in Proc, q < e, pc(q)' = "unborn" PROVE pc(e)' = "unborn"
    BY DEF Born
  <2>1. q # p /\ proc'[q] = proc[q] /\ pc(q) = "unborn"
    BY <1>2 DEF pc
  <2>2. p < q /\ pc(e) = "unborn" /\ e # p
    BY <2>1, Numbers DEF IInv, Local, Born
  <2>3. e # p + 1
    BY <2>2, Numbers
  <2> QED
    BY <1>2, <2>2, <2>3 DEF pc
<1>9. ASSUME NEW q \in Proc PROVE Owner(q)'
  <2>1. Alive(q)' => Alive(q)
    <3>1. CASE q = p
      BY <3>1 DEF Alive, Daemon, pc
    <3>2. CASE q # p
      BY <1>2, <3>2 DEF Alive, Daemon, pc
    <3> QED
      BY <3>1, <3>2
  <2> QED
    BY <1>1, <2>1 DEF IInv, Owner
<1> QED
  BY <1>4, <1>5, <1>6, <1>7, <1>8, <1>9 DEF IInv, Types, Local

LEMMA InvokeKeeps ==
  ASSUME IInv, NEW p \in Proc, NEW c \in Commands, Invoke(p, c)
  PROVE  IInv'
<1> DEFINE q == [Idle EXCEPT !.cmd = c]
<1>1. /\ pc(p) = "unborn" /\ \A e \in Proc : e < p => pc(e) # "unborn"
      /\ FilesKept /\ UNCHANGED <<signalled, crashes>>
  BY DEF Invoke, At
<1>2. Files'
  <2>1. overlapped' \in BOOLEAN
    BY DEF Invoke, IInv, Types, Files
  <2> QED
    BY <1>1, <2>1 DEF IInv, Types, Files, FilesKept
<1>3. /\ q \in Record /\ q.cmd = c /\ q.site = "cli" /\ q.after = "done" /\ q.seen = None
  BY IdleRecord DEF Record
<1>4. \/ c \in {"start", "stop", "restart"} /\ Becomes(p, Call(q, "cli"))
      \/ c = "clean" /\ Becomes(p, [q EXCEPT !.pc = "scan"])
      \/ /\ c = "request" /\ p + 1 \in Proc
         /\ proc' = [proc EXCEPT ![p] = Call(q, "ready"), ![p + 1].pc = "reserved"]
  BY DEF Invoke
<1> HIDE DEF q
<1>5. CASE c \in {"start", "stop", "restart"} /\ Becomes(p, Call(q, "cli"))
  <2>1. LET r == Call(q, "cli") IN
        /\ r \in Record /\ r.pc = "exists" /\ r.cmd = c /\ r.site = "cli"
        /\ r.after = "done" /\ r.seen = None
    BY <1>3, BuiltCall DEF Sites
  <2>2. /\ proc' \in [Proc -> Record] /\ proc'[p] = Call(q, "cli")
        /\ \A e \in Proc \ {p} : proc'[e] = proc[e]
    BY <1>5, <2>1, BecomesThat DEF IInv
  <2> QED
    BY <1>1, <1>2, <1>5, <2>1, <2>2, BirthKeeps
<1>6. CASE c = "clean" /\ Becomes(p, [q EXCEPT !.pc = "scan"])
  <2>0. "scan" \in Places
    BY PlaceNames
  <2>1. LET r == [q EXCEPT !.pc = "scan"] IN
        /\ r \in Record /\ r.pc = "scan" /\ r.cmd = c /\ r.site = "cli"
        /\ r.after = "done" /\ r.seen = None
    BY <1>3, <2>0, BuiltAt
  <2>2. /\ proc' \in [Proc -> Record] /\ proc'[p] = [q EXCEPT !.pc = "scan"]
        /\ \A e \in Proc \ {p} : proc'[e] = proc[e]
    BY <1>6, <2>1, BecomesThat DEF IInv
  <2> QED
    BY <1>1, <1>2, <1>6, <2>1, <2>2, BirthKeeps
<1>7. CASE /\ c = "request" /\ p + 1 \in Proc
           /\ proc' = [proc EXCEPT ![p] = Call(q, "ready"), ![p + 1].pc = "reserved"]
  <2>1. LET r == Call(q, "ready") IN
        /\ r \in Record /\ r.pc = "exists" /\ r.cmd = c /\ r.site = "ready"
        /\ r.after = "done" /\ r.seen = None
    BY <1>3, BuiltCall DEF Sites
  <2>0. "reserved" \in Places
    BY PlaceNames
  <2>2. "reserved" \in Places /\ p + 1 # p
    BY <2>0, Numbers
  <2>3. /\ proc' \in [Proc -> Record] /\ proc'[p] = Call(q, "ready")
        /\ \A e \in Proc \ {p, p + 1} : proc'[e] = proc[e]
        /\ proc'[p + 1].pc = "reserved" /\ proc'[p + 1].cmd = proc[p + 1].cmd
    BY <1>7, <2>1, <2>2 DEF IInv, Types, Record
  <2> QED
    BY <1>1, <1>2, <1>7, <2>1, <2>3, BirthKeeps
<1> QED
  BY <1>4, <1>5, <1>6, <1>7

-----------------------------------------------------------------------------
LEMMA InitInv == Init => IInv
<1> SUFFICES ASSUME Init PROVE IInv
  OBVIOUS
<1>1. Types
  <2>1. proc \in [Proc -> Record]
    BY IdleRecord DEF Init
  <2>2. Files
    <3>1. crashes \in 0..MaxCrashes
      BY DaemonAssumption DEF Init
    <3>2. overlapped \in BOOLEAN
      BY DEF Init
    <3> QED
      BY <3>1, <3>2 DEF Init, Files
  <2> QED
    BY <2>1, <2>2 DEF Types
<1>2. ASSUME NEW p \in Proc PROVE pc(p) = "unborn" /\ proc[p].cmd = "start"
  BY IdleRecord DEF Init, pc
<1>3. ASSUME NEW p \in Proc PROVE Local(p) /\ Owner(p)
  BY <1>2 DEF Init, Local, Owner, Asks, Stops, Gone, Reserved, MaySpawn, Written, Born,
     Alive, Daemon, Checking
<1> QED
  BY <1>1, <1>3 DEF IInv

LEMMA StutterInv ==
  ASSUME IInv, UNCHANGED vars
  PROVE  IInv'
BY DEF vars, IInv, Types, Files, Local, Owner, Asks, Stops, Gone, Reserved, MaySpawn,
   Written, Born, Alive, pc

LEMMA StepInv == IInv /\ [Next]_vars => IInv'
<1> SUFFICES ASSUME IInv, [Next]_vars PROVE IInv'
  OBVIOUS
<1>1. ASSUME NEW p \in Proc, CommandStep(p) PROVE IInv'
  BY <1>1, LookKeeps, ReadPidKeeps, ProbeKeeps, UnlinkStaleKeeps, CheckHealthKeeps, ForkKeeps,
     GetPidKeeps, SendTermKeeps, WaitForStopKeeps, CleanSocketKeeps, CleanPidKeeps,
     SpawnKeeps, RequestKeeps DEF CommandStep
<1>2. ASSUME NEW p \in Proc, DaemonStep(p) \/ Crash(p) PROVE IInv'
  BY <1>2, AcquireKeeps, DaemonGoesOn, RemoveOwnKeeps DEF DaemonStep
<1> QED
  BY <1>1, <1>2, InvokeKeeps, StutterInv DEF Next

LEMMA InvAlways == Spec => []IInv
BY InitInv, StepInv, PTL DEF Spec

\* The files belong to processes, and only a PID somebody wrote is signalled.
THEOREM TypeCorrect == Spec => []TypeOK
<1>1. IInv => TypeOK
  BY DEF IInv, Types, Files, Record, Local, Asks, TypeOK
<1> QED
  BY <1>1, InvAlways, PTL

\* No two daemons live of which neither was robbed of its PID file
\* (manager.py:162 and python-daemon's PIDLockFile).
THEOREM OneDaemon == Spec => []SingleUnlessLost
<1>1. IInv => SingleUnlessLost
  BY DEF IInv, Owner, SingleUnlessLost
<1> QED
  BY <1>1, InvAlways, PTL

\* A stop that is through leaves neither the daemon it found nor its files
\* (manager.py:196).
THEOREM StopIsThorough == Spec => []StopLeavesNothing
<1>1. IInv => StopLeavesNothing
  <2> SUFFICES ASSUME IInv, NEW p \in Proc, proc[p].cmd = "stop", pc(p) = "done",
                      proc[p].seen # None
               PROVE  ~Alive(proc[p].seen) /\ proc[p].seen \notin {pidFile, socket}
    BY DEF StopLeavesNothing
  <2>1. pc(proc[p].seen) = "dead" /\ socket # proc[p].seen /\ pidFile # proc[p].seen
    BY DEF IInv, Local, Gone
  <2> QED
    BY <2>1 DEF Alive, Daemon
<1> QED
  BY <1>1, InvAlways, PTL

(* What holds in addition while no command was issued during another: the   *)
(* strengthening AInv of AloneIsSafe.                                       *)

\* A request while the process it has started comes up, a process on its way to
\* being the daemon, and the processes that are about to change the files.
Waiting == {"spawned", "wait", "connect"}
Starting == {"acquire", "write", "locked", "binding"}
Commander(p) == pc(p) \in Command \cup Starting

\* One commander at a time, but for a request and the process it has started.
Alone(p) ==
  \A q \in Proc : Commander(p) /\ Commander(q) =>
    \/ q = p
    \/ pc(p) \in Waiting /\ q = p + 1
    \/ pc(q) \in Waiting /\ p = q + 1

\* No daemon lives when a command cleans up, the PID a command goes by is still
\* that of the file, and the daemon that serves has its socket.
Quiet(p) == pc(p) \in {"unlink", "cleanSocket", "cleanPid"} => \A d \in Proc : ~Alive(d)
Sees(p) == pc(p) \in {"probe", "term", "await"} => pidFile \in {None, proc[p].seen}
Serves(p) == pc(p) = "serving" => socket = p \/ Cleaned

Lonely == lost = {} /\ \A p \in Proc : Alone(p) /\ Quiet(p) /\ Sees(p) /\ Serves(p)

\* What a process is about, by its place.
Role(p) ==
  /\ pc(p) \in {"unborn", "reserved"} => proc[p].cmd = "start"
  /\ proc[p].cmd = "clean" => pc(p) \in {"scan", "rmtree", "done"}
  /\ pc(p) \in {"scan", "rmtree"} => proc[p].cmd = "clean"
  /\ pc(p) \in Waiting \cup {"spawn"} => proc[p].cmd = "request"
  /\ pc(p) \in Checking /\ proc[p].site = "ready" => proc[p].cmd = "request"
  /\ proc[p].cmd = "request" /\ pc(p) \in Command =>
       p + 1 \in Proc /\ pc(p + 1) # "unborn" /\ proc[p + 1].cmd = "start"
  /\ Alive(p) /\ pc(p) # "write" => p \in wrote

AInv == (\A p \in Proc : Role(p)) /\ (~overlapped => Lonely)

\* A step of p, and the end it may put to another process.
Advances(p) ==
  /\ \A q \in Proc \ {p} :
       \/ proc'[q] = proc[q]
       \/ /\ pc(q) \in Daemon \cup {"dead"} /\ proc'[q].pc = "dead"
          /\ proc'[q].cmd = proc[q].cmd
  /\ pc(p) \notin {"unborn", "reserved"} /\ pc(p)' \notin {"unborn", "reserved"}
  /\ proc'[p].cmd = proc[p].cmd \/ (pc(p) = "fork" /\ proc'[p].cmd = "start")
  /\ pc(p)' \in Command => pc(p) \in Command
  /\ Commander(p)' => Commander(p)
  /\ pc(p) \in Waiting /\ Commander(p)' => pc(p)' \in Waiting
  /\ wrote \subseteq wrote'
  /\ UNCHANGED overlapped

\* The role p takes on.
Plays(p) ==
  /\ pc(p)' \in {"scan", "rmtree"} => pc(p) = "scan"
  /\ pc(p) \in {"scan", "rmtree"} => pc(p)' \in {"scan", "rmtree", "done"}
  /\ pc(p) = "done" => pc(p)' = "done"
  /\ pc(p)' \in Waiting \cup {"spawn"} =>
       \/ pc(p) \in Waiting \cup {"spawn"}
       \/ pc(p) \in Checking /\ proc[p].site = "ready"
  /\ pc(p)' \in Checking /\ proc'[p].site = "ready" => pc(p) \in Checking /\ proc[p].site = "ready"
  /\ Alive(p)' /\ pc(p)' # "write" => p \in wrote'

\* A step that plays its role keeps everybody's.
LEMMA RolesKeep ==
  ASSUME IInv, AInv, NEW p \in Proc, Advances(p), Plays(p)
  PROVE  \A q \in Proc : Role(q)'
<1>1. ASSUME NEW q \in Proc, proc'[q].cmd = "request", pc(q)' \in Command
      PROVE  q + 1 \in Proc /\ pc(q + 1)' # "unborn" /\ proc'[q + 1].cmd = "start"
  <2>1. proc[q].cmd = "request" /\ pc(q) \in Command
    <3>1. CASE q = p
      BY <1>1, <3>1 DEF Advances
    <3>2. CASE q # p
      BY <1>1, <3>2 DEF Advances, pc, Command, Checking
    <3> QED
      BY <3>1, <3>2
  <2>2. q + 1 \in Proc /\ pc(q + 1) # "unborn" /\ proc[q + 1].cmd = "start"
    BY <2>1 DEF AInv, Role
  <2> QED
    BY <2>2 DEF Advances, pc
<1>2. Role(p)'
  BY <1>1 DEF AInv, Role, Advances, Plays, Waiting, Command, Checking
<1>3. ASSUME NEW q \in Proc, q # p PROVE Role(q)'
  <2>1. CASE proc'[q] = proc[q]
    BY <1>1, <2>1 DEF AInv, Role, Advances, Alive, pc
  <2>2. CASE proc'[q] # proc[q]
    <3>1. pc(q)' = "dead" /\ proc'[q].cmd = proc[q].cmd /\ pc(q) \in Daemon \cup {"dead"}
      BY <1>3, <2>2 DEF Advances, pc
    <3>2. proc'[q].cmd # "clean"
      BY <3>1 DEF AInv, Role, Daemon
    <3> QED
      BY <3>1, <3>2 DEF Role, Alive, Daemon, Waiting, Command, Checking
  <2> QED
    BY <2>1, <2>2
<1> QED
  BY <1>2, <1>3

\* What a step of p leaves of the other commands.
LEMMA OthersKeep ==
  ASSUME IInv, Lonely, NEW p \in Proc, Advances(p)
  PROVE  /\ \A q \in Proc : Alone(q)'
         /\ \A q \in Proc \ {p} :
              /\ pidFile' \in {pidFile, None} => Sees(q)'
              /\ (Alive(p)' => Alive(p)) => Quiet(q)'
<1>1. ASSUME NEW q \in Proc, Commander(q)'
      PROVE  Commander(q) /\ (pc(q) \in Waiting => pc(q)' \in Waiting)
  BY <1>1 DEF Advances, Commander, Command, Checking, Starting, Waiting, pc
<1>2. ASSUME NEW q \in Proc PROVE Alone(q)'
  <2> SUFFICES ASSUME NEW r \in Proc, Commander(q)', Commander(r)'
               PROVE  \/ r = q
                      \/ pc(q)' \in Waiting /\ r = q + 1
                      \/ pc(r)' \in Waiting /\ q = r + 1
    BY DEF Alone
  <2> QED
    BY <1>1 DEF Lonely, Alone
<1>3. ASSUME NEW q \in Proc, q # p, pidFile' \in {pidFile, None} PROVE Sees(q)'
  BY <1>3 DEF Lonely, Sees, Advances, pc
<1>4. ASSUME NEW q \in Proc, q # p, Alive(p)' => Alive(p) PROVE Quiet(q)'
  <2>1. \A d \in Proc : Alive(d)' => Alive(d)
    BY <1>4 DEF Advances, Alive, Daemon, pc
  <2> QED
    BY <1>4, <2>1 DEF Lonely, Quiet, Advances, pc
<1> QED
  BY <1>2, <1>3, <1>4

\* The socket of a daemon that serves stays, if the step leaves it alone.
LEMMA ServesKeep ==
  ASSUME IInv, AInv, Lonely, NEW p \in Proc, Advances(p), socket' = socket,
         pc(p)' = "serving" => pc(p) = "serving"
  PROVE  \A d \in Proc : Serves(d)'
<1>1. Cleaned => Cleaned'
  <2> SUFFICES ASSUME NEW q \in Proc, proc[q].cmd = "clean" PROVE proc'[q].cmd = "clean"
    BY DEF Cleaned
  <2>1. pc(q) \in {"scan", "rmtree", "done"}
    BY DEF AInv, Role
  <2> QED
    BY <2>1 DEF Advances, Daemon
<1>2. ASSUME NEW d \in Proc, pc(d)' = "serving" PROVE pc(d) = "serving"
  BY <1>2 DEF Advances, pc
<1> QED
  BY <1>1, <1>2 DEF Lonely, Serves

\* At most one daemon lives while nobody was robbed of the PID file, and it owns it.
LEMMA LonelySingle ==
  ASSUME IInv, Lonely, NEW d \in Proc, Alive(d)
  PROVE  pidFile = d /\ \A e \in Proc : Alive(e) => e = d
BY DEF IInv, Owner, Lonely

\* A step that brings no daemon to life keeps AInv if its own part holds.
LEMMA AdvanceKeeps ==
  ASSUME IInv, AInv, NEW p \in Proc, Advances(p), Plays(p),
         Alive(p)' => Alive(p), pidFile' \in {pidFile, None},
         Lonely => /\ lost' = {} /\ Quiet(p)' /\ Sees(p)'
                   /\ \A d \in Proc : Serves(d)'
  PROVE  AInv'
<1>1. \A q \in Proc : Role(q)'
  BY RolesKeep
<1>2. ~overlapped' => Lonely
  BY DEF Advances, AInv
<1>3. ASSUME Lonely PROVE Lonely'
  BY <1>3, OthersKeep DEF Lonely
<1> QED
  BY <1>1, <1>2, <1>3 DEF AInv

\* The PID file a command reads, and finds without a writer, is nobody's.
LEMMA NobodyWrites ==
  ASSUME IInv, AInv, Lonely, NEW p \in Proc, pc(p) \in Command \ Waiting, pidFile \notin wrote
  PROVE  \A d \in Proc : ~Alive(d)
<1> SUFFICES ASSUME NEW d \in Proc, Alive(d) PROVE FALSE
  OBVIOUS
<1>1. pidFile = d
  BY LonelySingle
<1>2. pc(d) = "write"
  BY <1>1 DEF AInv, Role
<1>3. Commander(d) /\ Commander(p) /\ pc(d) \notin Waiting /\ d # p
  BY <1>2 DEF Commander, Starting, Waiting, Command, Checking
<1> QED
  BY <1>3 DEF Lonely, Alone

\* A daemon found running is not cleaned up after before it was asked to stop.
LEMMA RunningIsAsked ==
  ASSUME NEW q \in Record, q.site = "cli" => q.cmd \in {"start", "stop", "restart"}
  PROVE  Checked(q, TRUE).pc # "cleanSocket"
<1>1. CASE q.site = "cli"
  <2>1. Over(q, "done").pc = "done" /\ \A s \in Sites : Call(q, s).pc = "exists"
    <3>1. "done" \in Places
      BY PlaceNames
    <3> QED
      BY <3>1, BuiltOver, BuiltCall
  <2> QED
    BY <1>1, <2>1 DEF Checked, RunDaemonCommand, Sites
<1>2. CASE q.site = "restart"
  <2> DEFINE a == [q EXCEPT !.after = "start"]
  <2>1. a \in Record
    BY BuiltAfter
  <2>2. Checked(q, TRUE) = Call(a, "stop")
    BY <1>2 DEF Checked, DoRestart
  <2> HIDE DEF a
  <2> QED
    BY <2>1, <2>2, BuiltCall DEF Sites
<1>3. CASE q.site \in {"start", "stop"}
  <2>1. Checked(q, TRUE) \in {[q EXCEPT !.pc = "health"], [q EXCEPT !.pc = "getpid"]}
    BY <1>3 DEF Checked, ManagerStart, ManagerStop
  <2>2. ASSUME NEW l \in {"health", "getpid"} PROVE [q EXCEPT !.pc = l].pc # "cleanSocket"
    <3>1. l \in Places
      BY PlaceNames
    <3> QED
      BY <3>1, BuiltAt
  <2> QED
    BY <2>1, <2>2
<1>4. CASE q.site = "ready"
  <2>1. Checked(q, TRUE) = [q EXCEPT !.pc = "wait", !.site = "cli"]
    BY <1>4 DEF Checked, EnsureDaemonReady
  <2>2. LET r == [q EXCEPT !.pc = "wait", !.site = "cli"] IN r \in Record /\ r.pc = "wait"
    BY PlaceNames DEF Record, Sites
  <2> QED
    BY <2>1, <2>2
<1> QED
  BY <1>1, <1>2, <1>3, <1>4 DEF Record, Sites

\* The end of is_running() is a step forward of its caller.
LEMMA CheckedAdvances ==
  ASSUME IInv, AInv, NEW p \in Proc, pc(p) \in Checking, NEW q \in Record, NEW running \in BOOLEAN,
         q.cmd = proc[p].cmd, q.site = proc[p].site,
         Becomes(p, Checked(q, running)), UNCHANGED <<wrote, overlapped>>
  PROVE  /\ Advances(p) /\ Plays(p) /\ ~Alive(p)' /\ Sees(p)'
         /\ pc(p)' \notin {"serving", "unlink", "cleanPid"}
         /\ running => pc(p)' # "cleanSocket"
<1> DEFINE r == Checked(q, running)
<1>1. q.site = "cli" => q.cmd \in {"start", "stop", "restart"}
  BY DEF IInv, Local, Asks
<1>2. Continues(q, r) /\ (running => r.pc # "cleanSocket")
  BY <1>1, CheckedRecord, RunningIsAsked
<1>3. proc'[p] = r /\ \A d \in Proc \ {p} : proc'[d] = proc[d]
  BY <1>2, BecomesThat DEF IInv, Continues
<1> HIDE DEF r
<1>4. /\ pc(p)' \in {"exists", "done", "health", "fork", "getpid", "cleanSocket", "wait", "spawn"}
      /\ pc(p)' \in {"wait", "spawn"} => proc[p].site = "ready"
      /\ proc'[p].cmd = proc[p].cmd /\ proc'[p].site # "ready"
  BY <1>2, <1>3 DEF Continues, pc
<1>5. pc(p) \notin Waiting /\ Commander(p)
  BY DEF Checking, Waiting, Commander, Command
<1>6. Advances(p)
  BY <1>3, <1>4, <1>5 DEF Advances, Checking, Command
<1>7. ~Alive(p)'
  BY <1>4 DEF Alive, Daemon
<1>8. Plays(p)
  BY <1>4, <1>7 DEF Plays, Checking, Waiting
<1> QED
  BY <1>2, <1>3, <1>4, <1>6, <1>7, <1>8 DEF Sees, pc

\* A step that leaves the files alone.
LEMMA MoveAlone ==
  ASSUME IInv, AInv, NEW p \in Proc, Advances(p), Plays(p), Alive(p)' => Alive(p),
         UNCHANGED <<pidFile, socket, lost>>, pc(p)' = "serving" => pc(p) = "serving",
         Lonely =>
           /\ pc(p)' \in {"unlink", "cleanSocket", "cleanPid"} => \A d \in Proc : ~Alive(d)
           /\ pc(p)' \in {"probe", "term", "await"} => pidFile \in {None, proc'[p].seen}
  PROVE  AInv'
<1>1. ASSUME Lonely PROVE Quiet(p)'
  <2>1. \A d \in Proc : Alive(d)' => Alive(d)
    BY DEF Advances, Alive, Daemon, pc
  <2> QED
    BY <1>1, <2>1 DEF Quiet
<1>2. ASSUME Lonely PROVE Sees(p)' /\ lost' = {}
  BY <1>2 DEF Sees, Lonely
<1>3. ASSUME Lonely PROVE \A d \in Proc : Serves(d)'
  BY <1>3, ServesKeep
<1> QED
  BY <1>1, <1>2, <1>3, AdvanceKeeps

\* The steps of a command, one by one.
LEMMA LookAlone ==
  ASSUME IInv, AInv, NEW p \in Proc, Look(p)
  PROVE  AInv'
<1>1. /\ pc(p) = "exists" /\ pc(p) \in Checking /\ proc[p] \in Record
      /\ UNCHANGED <<wrote, overlapped, pidFile, socket, lost>>
  BY DEF IInv, Types, Look, At, Checking, FilesKept, Steady
<1>2. CASE pidFile = None
  <2>1. Becomes(p, Checked(proc[p], FALSE))
    BY <1>2 DEF Look
  <2>2. /\ Advances(p) /\ Plays(p) /\ ~Alive(p)' /\ Sees(p)'
        /\ pc(p)' \notin {"serving", "unlink", "cleanPid"}
    BY <1>1, <2>1, CheckedAdvances
  <2>3. ASSUME Lonely PROVE \A d \in Proc : ~Alive(d)
    BY <1>2, <2>3, LonelySingle, Numbers
  <2>4. pidFile' \in {None, proc'[p].seen}
    BY <1>1, <1>2
  <2> QED
    BY <1>1, <2>2, <2>3, <2>4, MoveAlone
<1>3. CASE pidFile # None
  <2>1. Goes(p, "read") /\ "read" \in Places
    BY <1>3, PlaceNames DEF Look
  <2>2. /\ \A q \in Proc \ {p} : proc'[q] = proc[q]
        /\ pc(p)' = "read" /\ proc'[p].cmd = proc[p].cmd /\ proc'[p].site = proc[p].site
    BY <2>1, GoesTo DEF IInv, pc
  <2>3. Advances(p) /\ Plays(p) /\ ~Alive(p)'
    BY <1>1, <2>2 DEF Advances, Plays, Commander, Command, Checking, Waiting, Alive, Daemon
  <2> QED
    BY <1>1, <2>2, <2>3, MoveAlone
<1> QED
  BY <1>2, <1>3

LEMMA ReadPidAlone ==
  ASSUME IInv, AInv, NEW p \in Proc, ReadPid(p)
  PROVE  AInv'
<1>1. /\ pc(p) = "read" /\ proc[p] \in Record
      /\ UNCHANGED <<wrote, overlapped, pidFile, socket, lost>>
  BY DEF IInv, Types, ReadPid, At, FilesKept, Steady
<1> DEFINE r == [proc[p] EXCEPT !.pc = "probe", !.seen = pidFile]
<1>2. /\ r \in Record /\ r.pc = "probe" /\ r.cmd = proc[p].cmd /\ r.site = proc[p].site
      /\ r.seen = pidFile
  BY <1>1, PlaceNames DEF Record, IInv, Types, Files
<1>3. Becomes(p, r) \/ (Goes(p, "unlink") /\ pidFile \notin wrote)
  BY DEF ReadPid
<1> HIDE DEF r
<1>4. "unlink" \in Places
  BY PlaceNames
<1>5. /\ \A q \in Proc \ {p} : proc'[q] = proc[q]
      /\ proc'[p].cmd = proc[p].cmd /\ proc'[p].site = proc[p].site
      /\ \/ pc(p)' = "probe" /\ proc'[p].seen = pidFile
         \/ pc(p)' = "unlink" /\ pidFile \notin wrote
  <2>1. CASE Becomes(p, r)
    BY <1>2, <2>1, BecomesThat DEF IInv, pc
  <2>2. CASE Goes(p, "unlink") /\ pidFile \notin wrote
    BY <1>4, <2>2, GoesTo DEF IInv, pc
  <2> QED
    BY <1>3, <2>1, <2>2
<1>6. Advances(p) /\ Plays(p) /\ ~Alive(p)' /\ pc(p) \in Command \ Waiting
  BY <1>1, <1>5 DEF Advances, Plays, Commander, Command, Checking, Waiting, Alive, Daemon
<1> QED
  BY <1>1, <1>5, <1>6, NobodyWrites, MoveAlone

LEMMA ProbeAlone ==
  ASSUME IInv, AInv, NEW p \in Proc, Probe(p)
  PROVE  AInv'
<1> DEFINE q == [proc[p] EXCEPT !.seen = None]
           r == [q EXCEPT !.pc = "unlink"]
<1>1. /\ pc(p) = "probe" /\ pc(p) \in Checking /\ proc[p] \in Record
      /\ UNCHANGED <<wrote, overlapped, pidFile, socket, lost>>
  BY DEF IInv, Types, Probe, At, FilesKept, Steady, Checking
<1>2. q \in Record /\ q.cmd = proc[p].cmd /\ q.site = proc[p].site
  BY <1>1 DEF Record
<1>3. r \in Record /\ r.pc = "unlink" /\ r.cmd = proc[p].cmd /\ r.site = proc[p].site
  BY <1>2, BuiltAt, PlaceNames
<1>4. Becomes(p, Checked(q, TRUE)) \/ (Becomes(p, r) /\ ~Alive(proc[p].seen))
  BY DEF Probe
<1> HIDE DEF q, r
<1>5. CASE Becomes(p, Checked(q, TRUE))
  <2>1. /\ Advances(p) /\ Plays(p) /\ ~Alive(p)' /\ Sees(p)'
        /\ pc(p)' \notin {"serving", "unlink", "cleanSocket", "cleanPid"}
    BY <1>1, <1>2, <1>5, CheckedAdvances
  <2>2. pc(p)' \notin {"probe", "term", "await"} \/ pidFile \in {None, proc'[p].seen}
    BY <1>1, <2>1 DEF Sees
  <2> QED
    BY <1>1, <2>1, <2>2, MoveAlone
<1>6. CASE Becomes(p, r) /\ ~Alive(proc[p].seen)
  <2>1. /\ \A d \in Proc \ {p} : proc'[d] = proc[d]
        /\ pc(p)' = "unlink" /\ proc'[p].cmd = proc[p].cmd /\ proc'[p].site = proc[p].site
    BY <1>3, <1>6, BecomesThat DEF IInv, pc
  <2>2. Advances(p) /\ Plays(p) /\ ~Alive(p)'
    BY <1>1, <2>1 DEF Advances, Plays, Commander, Command, Checking, Waiting, Alive, Daemon
  <2>3. ASSUME Lonely, NEW d \in Proc, Alive(d) PROVE FALSE
    <3>1. pidFile \in {None, proc[p].seen}
      BY <1>1, <2>3 DEF Lonely, Sees
    <3> QED
      BY <1>6, <2>3, <3>1, LonelySingle, Numbers
  <2> QED
    BY <1>1, <2>1, <2>2, <2>3, MoveAlone
<1> QED
  BY <1>4, <1>5, <1>6

\* Nothing is lost when a command removes the PID file of no living daemon.
LEMMA RemovalAlone ==
  ASSUME IInv, AInv, NEW p \in Proc, Advances(p), Plays(p), ~Alive(p)', RemovePidFile,
         socket' = socket, pc(p) \in {"unlink", "cleanPid"}, pc(p)' # "serving"
  PROVE  AInv'
<1>1. ASSUME Lonely PROVE \A d \in Proc : ~Alive(d)
  BY <1>1 DEF Lonely, Quiet
<1>2. ASSUME Lonely PROVE lost' = {} /\ Quiet(p)' /\ Sees(p)'
  <2>1. lost' = {}
    BY <1>1, <1>2 DEF Lonely, RemovePidFile, IInv, Types, Files
  <2>2. \A d \in Proc : ~Alive(d)'
    BY <1>1, <1>2 DEF Advances, Alive, Daemon, pc
  <2> QED
    BY <2>1, <2>2 DEF RemovePidFile, Quiet, Sees
<1>3. ASSUME Lonely PROVE \A d \in Proc : Serves(d)'
  BY <1>3, ServesKeep
<1> QED
  BY <1>2, <1>3, AdvanceKeeps DEF RemovePidFile

LEMMA UnlinkStaleAlone ==
  ASSUME IInv, AInv, NEW p \in Proc, UnlinkStale(p)
  PROVE  AInv'
<1>1. /\ pc(p) = "unlink" /\ pc(p) \in Checking /\ proc[p] \in Record
      /\ UNCHANGED <<wrote, overlapped, socket>> /\ RemovePidFile
      /\ Becomes(p, Checked(proc[p], FALSE))
  BY DEF IInv, Types, UnlinkStale, At, Steady, Checking
<1>2. Advances(p) /\ Plays(p) /\ ~Alive(p)' /\ pc(p)' # "serving"
  BY <1>1, CheckedAdvances
<1> QED
  BY <1>1, <1>2, RemovalAlone

\* CheckHealth and Fork go on as a record built from that of the process.
LEMMA CheckHealthAlone ==
  ASSUME IInv, AInv, NEW p \in Proc, CheckHealth(p)
  PROVE  AInv'
<1> DEFINE a == [proc[p] EXCEPT !.after = "fork"]
<1>1. /\ pc(p) = "health" /\ proc[p] \in Record
      /\ UNCHANGED <<wrote, overlapped, pidFile, socket, lost>>
  BY DEF IInv, Types, CheckHealth, At, FilesKept, Steady
<1>2. a \in Record /\ a.cmd = proc[p].cmd
  BY <1>1, BuiltAfter
<1>3. Becomes(p, Over(proc[p], "done")) \/ Becomes(p, Call(a, "stop"))
  BY DEF CheckHealth
<1> HIDE DEF a
<1>4. "done" \in Places
  BY PlaceNames
<1>5. /\ \A d \in Proc \ {p} : proc'[d] = proc[d]
      /\ pc(p)' \in {"done", "exists"} /\ proc'[p].cmd = proc[p].cmd
      /\ proc'[p].site \in {"cli", "stop"}
  <2>1. CASE Becomes(p, Over(proc[p], "done"))
    BY <1>1, <1>4, <2>1, BuiltOver, BecomesThat DEF IInv, pc
  <2>2. CASE Becomes(p, Call(a, "stop"))
    <3>1. LET r == Call(a, "stop") IN
          r \in Record /\ r.pc = "exists" /\ r.cmd = proc[p].cmd /\ r.site = "stop"
      BY <1>2, BuiltCall DEF Sites
    <3> QED
      BY <2>2, <3>1, BecomesThat DEF IInv, pc
  <2> QED
    BY <1>3, <2>1, <2>2
<1>6. Advances(p) /\ Plays(p) /\ ~Alive(p)'
  BY <1>1, <1>5 DEF Advances, Plays, Commander, Command, Checking, Waiting, Alive, Daemon
<1> QED
  BY <1>1, <1>5, <1>6, MoveAlone

LEMMA ForkAlone ==
  ASSUME IInv, AInv, NEW p \in Proc, Fork(p)
  PROVE  AInv'
<1> DEFINE r == [Idle EXCEPT !.pc = "acquire"]
<1>1. /\ pc(p) = "fork" /\ Becomes(p, r)
      /\ UNCHANGED <<wrote, overlapped, pidFile, socket, lost>>
  BY DEF Fork, At, FilesKept, Steady
<1>2. r \in Record /\ r.pc = "acquire" /\ r.cmd = "start"
  BY IdleRecord, BuiltAt, PlaceNames
<1> HIDE DEF r
<1>3. /\ \A d \in Proc \ {p} : proc'[d] = proc[d]
      /\ pc(p)' = "acquire" /\ proc'[p].cmd = "start"
  BY <1>1, <1>2, BecomesThat DEF IInv, pc
<1>4. Advances(p) /\ Plays(p) /\ ~Alive(p)'
  BY <1>1, <1>3 DEF Advances, Plays, Commander, Command, Checking, Starting, Waiting, Alive, Daemon
<1> QED
  BY <1>1, <1>3, <1>4, MoveAlone

LEMMA GetPidAlone ==
  ASSUME IInv, AInv, NEW p \in Proc, GetPid(p)
  PROVE  AInv'
<1>1. /\ pc(p) = "getpid" /\ proc[p] \in Record
      /\ UNCHANGED <<wrote, overlapped, pidFile, socket, lost>>
  BY DEF IInv, Types, GetPid, At, FilesKept, Steady
<1> DEFINE r == [proc[p] EXCEPT !.pc = "term", !.seen = pidFile]
<1>2. /\ r \in Record /\ r.pc = "term" /\ r.cmd = proc[p].cmd /\ r.seen = pidFile
  BY <1>1, PlaceNames DEF Record, IInv, Types, Files
<1>3. Becomes(p, r) \/ (Goes(p, "cleanSocket") /\ pidFile \notin wrote)
  BY DEF GetPid
<1> HIDE DEF r
<1>4. "cleanSocket" \in Places
  BY PlaceNames
<1>5. /\ \A q \in Proc \ {p} : proc'[q] = proc[q]
      /\ proc'[p].cmd = proc[p].cmd
      /\ \/ pc(p)' = "term" /\ proc'[p].seen = pidFile
         \/ pc(p)' = "cleanSocket" /\ pidFile \notin wrote
  <2>1. CASE Becomes(p, r)
    BY <1>2, <2>1, BecomesThat DEF IInv, pc
  <2>2. CASE Goes(p, "cleanSocket") /\ pidFile \notin wrote
    BY <1>4, <2>2, GoesTo DEF IInv, pc
  <2> QED
    BY <1>3, <2>1, <2>2
<1>6. Advances(p) /\ Plays(p) /\ ~Alive(p)' /\ pc(p) \in Command \ Waiting
  BY <1>1, <1>5 DEF Advances, Plays, Commander, Command, Checking, Waiting, Alive, Daemon
<1> QED
  BY <1>1, <1>5, <1>6, NobodyWrites, MoveAlone

LEMMA SendTermAlone ==
  ASSUME IInv, AInv, NEW p \in Proc, SendTerm(p)
  PROVE  AInv'
<1>1. pc(p) = "term" /\ UNCHANGED <<wrote, overlapped, pidFile, socket, lost>>
  BY DEF SendTerm, At, FilesKept
<1>2. Goes(p, "await") \/ (Goes(p, "cleanSocket") /\ ~Alive(proc[p].seen))
  BY DEF SendTerm
<1>3. "await" \in Places /\ "cleanSocket" \in Places
  BY PlaceNames
<1>4. /\ \A q \in Proc \ {p} : proc'[q] = proc[q]
      /\ proc'[p].cmd = proc[p].cmd /\ proc'[p].seen = proc[p].seen
      /\ \/ pc(p)' = "await"
         \/ pc(p)' = "cleanSocket" /\ ~Alive(proc[p].seen)
  BY <1>2, <1>3, GoesTo DEF IInv, pc
<1>5. Advances(p) /\ Plays(p) /\ ~Alive(p)'
  BY <1>1, <1>4 DEF Advances, Plays, Commander, Command, Checking, Waiting, Alive, Daemon
<1>6. ASSUME Lonely PROVE pidFile \in {None, proc[p].seen}
  BY <1>1, <1>6 DEF Lonely, Sees
<1>7. ASSUME Lonely, ~Alive(proc[p].seen), NEW d \in Proc PROVE ~Alive(d)
  BY <1>6, <1>7, LonelySingle, Numbers
<1> QED
  BY <1>1, <1>4, <1>5, <1>6, <1>7, MoveAlone

\* The process that was signalled is the one of the PID file, and dead now.
LEMMA WaitForStopAlone ==
  ASSUME IInv, AInv, NEW p \in Proc, WaitForStop(p)
  PROVE  AInv'
<1> DEFINE d == proc[p].seen
<1>1. /\ pc(p) = "await" /\ d \in wrote /\ d \in Proc
      /\ UNCHANGED <<overlapped, pidFile, wrote, socket, lost>>
  BY DEF IInv, Types, Files, Local, Asks, WaitForStop, At, FilesKept, Steady
<1>2. d # p /\ pc(d) \in Daemon \cup {"dead"}
  BY <1>1 DEF IInv, Local, Written, Alive, Daemon
<1>3. /\ \A q \in Proc \ {p, d} : proc'[q] = proc[q]
      /\ pc(p)' = "cleanSocket" /\ proc'[p].cmd = proc[p].cmd
      /\ proc'[d].pc = "dead" /\ proc'[d].cmd = proc[d].cmd
  <2>1. proc' = [proc EXCEPT ![p].pc = "cleanSocket",
                             ![d].pc = IF Alive(d) THEN "dead" ELSE @]
    BY DEF WaitForStop
  <2>2. proc' = [proc EXCEPT ![p].pc = "cleanSocket", ![d].pc = "dead"]
    BY <1>1, <1>2, <2>1 DEF IInv, Types, Record, pc, Alive
  <2> HIDE DEF d
  <2> QED
    BY <1>1, <1>2, <2>2 DEF IInv, Types, Record, pc
<1>4. Advances(p) /\ Plays(p) /\ ~Alive(p)'
  BY <1>1, <1>2, <1>3 DEF Advances, Plays, Commander, Command, Checking, Waiting, Alive, Daemon
<1>5. ASSUME Lonely, NEW e \in Proc PROVE ~Alive(e)'
  <2>1. pidFile \in {None, d}
    BY <1>1, <1>5 DEF Lonely, Sees
  <2>2. Alive(e)' => Alive(e) /\ e # d
    BY <1>3, <1>4 DEF Advances, Alive, Daemon, pc
  <2> QED
    BY <1>5, <2>1, <2>2, LonelySingle, Numbers
<1>6. ASSUME Lonely PROVE Quiet(p)' /\ Sees(p)' /\ lost' = {}
  BY <1>1, <1>3, <1>5, <1>6 DEF Quiet, Sees, Lonely
<1>7. ASSUME Lonely PROVE \A e \in Proc : Serves(e)'
  BY <1>1, <1>3, <1>4, <1>7, ServesKeep
<1> QED
  BY <1>1, <1>4, <1>6, <1>7, AdvanceKeeps

\* No daemon lives when a command comes to clean up.
LEMMA CleanSocketAlone ==
  ASSUME IInv, AInv, NEW p \in Proc, CleanSocket(p)
  PROVE  AInv'
<1>1. /\ pc(p) = "cleanSocket" /\ Goes(p, "cleanPid") /\ "cleanPid" \in Places
      /\ UNCHANGED <<pidFile, wrote, lost, overlapped>>
  BY PlaceNames DEF CleanSocket, At, Steady
<1>2. /\ \A q \in Proc \ {p} : proc'[q] = proc[q]
      /\ pc(p)' = "cleanPid" /\ proc'[p].cmd = proc[p].cmd
  BY <1>1, GoesTo DEF IInv, pc
<1>3. Advances(p) /\ Plays(p) /\ ~Alive(p)'
  BY <1>1, <1>2 DEF Advances, Plays, Commander, Command, Checking, Waiting, Alive, Daemon
<1>4. ASSUME Lonely, NEW d \in Proc PROVE ~Alive(d)'
  BY <1>1, <1>3, <1>4 DEF Lonely, Quiet, Advances, Alive, Daemon, pc
<1>5. ASSUME Lonely
      PROVE lost' = {} /\ Quiet(p)' /\ Sees(p)' /\ \A d \in Proc : Serves(d)'
  BY <1>1, <1>2, <1>4, <1>5 DEF Lonely, Quiet, Sees, Serves, Alive, Daemon
<1> QED
  BY <1>1, <1>3, <1>5, AdvanceKeeps

LEMMA CleanPidAlone ==
  ASSUME IInv, AInv, NEW p \in Proc, CleanPid(p)
  PROVE  AInv'
<1> DEFINE a == [proc[p] EXCEPT !.after = "done"]
           r == IF proc[p].after = "start" THEN Call(a, "start")
                                           ELSE Over(proc[p], proc[p].after)
<1>1. /\ pc(p) = "cleanPid" /\ proc[p] \in Record /\ Becomes(p, r)
      /\ RemovePidFile /\ UNCHANGED <<wrote, socket, overlapped>>
  BY DEF IInv, Types, CleanPid, At, Steady
<1>2. /\ r \in Record /\ r.cmd = proc[p].cmd
      /\ r.pc \in {"exists", "done", "fork"} /\ r.site # "ready"
  <2>1. CASE proc[p].after = "start"
    <3>1. a \in Record /\ a.cmd = proc[p].cmd
      BY <1>1, BuiltAfter
    <3> HIDE DEF a
    <3>2. r = Call(a, "start")
      BY <2>1
    <3> QED
      BY <3>1, <3>2, BuiltCall DEF Sites
  <2>2. CASE proc[p].after # "start"
    <3>1. proc[p].after \in {"done", "fork"}
      BY <1>1, <2>2 DEF Record
    <3>2. proc[p].after \in Places
      BY <3>1, PlaceNames
    <3>3. r = Over(proc[p], proc[p].after)
      BY <2>2
    <3> HIDE DEF r
    <3> QED
      BY <1>1, <3>1, <3>2, <3>3, BuiltOver
  <2> QED
    BY <2>1, <2>2
<1> HIDE DEF r
<1>3. /\ \A q \in Proc \ {p} : proc'[q] = proc[q]
      /\ pc(p)' \in {"exists", "done", "fork"} /\ proc'[p].cmd = proc[p].cmd
      /\ proc'[p].site # "ready"
  BY <1>1, <1>2, BecomesThat DEF IInv, pc
<1>4. Advances(p) /\ Plays(p) /\ ~Alive(p)'
  BY <1>1, <1>3 DEF Advances, Plays, Commander, Command, Checking, Waiting, Alive, Daemon
<1> QED
  BY <1>1, <1>3, <1>4, RemovalAlone

LEMMA RequestAlone ==
  ASSUME IInv, AInv, NEW p \in Proc,
         SpawnCheck(p) \/ WaitForSocket(p) \/ Connect(p) \/ Scan(p)
  PROVE  AInv'
<1>1. UNCHANGED <<wrote, overlapped, pidFile, socket, lost>>
  BY DEF SpawnCheck, WaitForSocket, Connect, Scan, FilesKept, Steady
<1>2. PICK l \in {"wait", "failed", "connect", "timeout", "crashed", "connected", "refused",
                  "done", "rmtree"} :
        /\ Goes(p, l)
        /\ \/ pc(p) = "spawned" /\ l \in {"wait", "failed"}
           \/ pc(p) = "wait" /\ l \in {"connect", "timeout"}
           \/ pc(p) = "connect" /\ l \in {"crashed", "connected", "refused"}
           \/ pc(p) = "scan" /\ l \in {"done", "rmtree"}
  BY DEF SpawnCheck, WaitForSocket, Connect, Scan, At
<1>3. l \in Places
  BY PlaceNames
<1>4. /\ \A q \in Proc \ {p} : proc'[q] = proc[q]
      /\ pc(p)' = l /\ proc'[p].cmd = proc[p].cmd
  BY <1>2, <1>3, GoesTo DEF IInv, pc
<1>5. ~Alive(p)' /\ pc(p) \in Command /\ pc(p) \notin Checking /\ pc(p)' \notin Checking
  BY <1>2, <1>4 DEF Alive, Daemon, Command, Checking
<1>6. Advances(p)
  BY <1>1, <1>2, <1>4 DEF Advances, Commander, Command, Checking, Starting, Waiting
<1>7. Plays(p)
  BY <1>2, <1>4, <1>5 DEF Plays, Waiting
<1> QED
  BY <1>1, <1>2, <1>4, <1>5, <1>6, <1>7, MoveAlone

LEMMA RemoveTreeAlone ==
  ASSUME IInv, AInv, NEW p \in Proc, RemoveTree(p)
  PROVE  AInv'
<1>1. /\ pc(p) = "rmtree" /\ Goes(p, "done") /\ "done" \in Places
      /\ UNCHANGED <<pidFile, wrote, lost, overlapped>>
  BY PlaceNames DEF RemoveTree, At, Steady
<1>2. /\ \A q \in Proc \ {p} : proc'[q] = proc[q]
      /\ pc(p)' = "done" /\ proc'[p].cmd = proc[p].cmd
  BY <1>1, GoesTo DEF IInv, pc
<1>3. Advances(p) /\ Plays(p) /\ ~Alive(p)'
  BY <1>1, <1>2 DEF Advances, Plays, Commander, Command, Checking, Waiting, Alive, Daemon
<1>4. Cleaned'
  BY <1>1, <1>2 DEF AInv, Role, Cleaned
<1>5. ASSUME Lonely
      PROVE lost' = {} /\ Quiet(p)' /\ Sees(p)' /\ \A d \in Proc : Serves(d)'
  BY <1>1, <1>2, <1>4, <1>5 DEF Lonely, Quiet, Sees, Serves
<1> QED
  BY <1>1, <1>3, <1>5, AdvanceKeeps

-----------------------------------------------------------------------------
LEMMA DaemonPlays ==
  ASSUME IInv, AInv, NEW p \in Proc, Alive(p), NEW l \in Daemon \cup {"dead"}, Goes(p, l),
         wrote' \in {wrote, wrote \cup {p}}, l = "write" => FALSE,
         pc(p) = "write" => p \in wrote' \/ l = "dead", overlapped' = overlapped,
         l \in Starting => pc(p) \in Starting
  PROVE  /\ Advances(p) /\ Plays(p) /\ pc(p)' = l
         /\ \A q \in Proc \ {p} : proc'[q] = proc[q]
<1>1. l \in Places
  BY DEF Places
<1>2. /\ \A q \in Proc \ {p} : proc'[q] = proc[q]
      /\ pc(p)' = l /\ proc'[p].cmd = proc[p].cmd
  BY <1>1, GoesTo DEF IInv, pc
<1>3. Advances(p)
  BY <1>2 DEF Advances, Commander, Command, Checking, Starting, Waiting, Alive, Daemon
<1>4. Plays(p)
  <2>1. pc(p) # "write" => p \in wrote
    BY DEF AInv, Role
  <2> QED
    BY <1>2, <2>1 DEF Plays, Waiting, Checking, Alive, Daemon
<1> QED
  BY <1>2, <1>3, <1>4

LEMMA DaemonAlone ==
  ASSUME IInv, AInv, NEW p \in Proc,
         WritePid(p) \/ InstallHandlers(p) \/ ShutDown(p) \/ Release(p) \/ Crash(p)
  PROVE  AInv'
<1>1. Alive(p) /\ UNCHANGED <<pidFile, socket, lost, overlapped>>
  BY DEF WritePid, InstallHandlers, ShutDown, Release, Crash, At, Alive, Daemon, FilesKept, Steady
<1>2. PICK l \in Daemon \cup {"dead"} :
        /\ Goes(p, l) /\ l \notin {"write", "serving"}
        /\ wrote' \in {wrote, wrote \cup {p}} /\ (pc(p) = "write" => p \in wrote' \/ l = "dead")
        /\ l \in Starting => pc(p) \in Starting
  <2>1. CASE WritePid(p)
    BY <2>1 DEF WritePid, At, Daemon, Starting
  <2>2. CASE InstallHandlers(p)
    BY <2>2 DEF InstallHandlers, At, Daemon, Starting, FilesKept
  <2>3. CASE ShutDown(p)
    BY <2>3 DEF ShutDown, At, Daemon, Starting, FilesKept
  <2>4. CASE Crash(p)
    BY <2>4 DEF Crash, Daemon, Starting, FilesKept
  <2>5. CASE Release(p)
    BY <2>5 DEF Release, At, Daemon, Starting, FilesKept
  <2> QED
    BY <2>1, <2>2, <2>3, <2>4, <2>5
<1>3. Advances(p) /\ Plays(p) /\ pc(p)' = l
  BY <1>1, <1>2, DaemonPlays
<1> QED
  BY <1>1, <1>2, <1>3, MoveAlone DEF Daemon

\* Only its own daemon meets these: it is alone with the socket.
LEMMA SocketAlone ==
  ASSUME IInv, AInv, NEW p \in Proc, Bind(p) \/ CloseServer(p) \/ UnlinkSocket(p)
  PROVE  AInv'
<1>1. Alive(p) /\ UNCHANGED <<pidFile, wrote, lost, overlapped>>
  BY DEF Bind, CloseServer, UnlinkSocket, At, Alive, Daemon, Steady
<1>2. PICK l \in {"serving", "unlinking", "release"} :
        Goes(p, l) /\ pc(p) # "write" /\ (l = "serving" => socket' = p)
  BY DEF Bind, CloseServer, UnlinkSocket, At
<1>3. l \in Daemon \cup {"dead"} /\ l # "write" /\ l \notin Starting
  BY DEF Daemon, Starting
<1>4. /\ Advances(p) /\ Plays(p) /\ pc(p)' = l
      /\ \A q \in Proc \ {p} : proc'[q] = proc[q]
  BY <1>1, <1>2, <1>3, DaemonPlays
<1>5. ASSUME Lonely, NEW d \in Proc PROVE Serves(d)'
  <2>1. d # p => ~Alive(d)
    BY <1>1, <1>5, LonelySingle
  <2> QED
    BY <1>2, <1>4, <2>1 DEF Serves, Alive, Daemon, pc
<1>6. ASSUME Lonely PROVE lost' = {} /\ Quiet(p)' /\ Sees(p)'
  BY <1>1, <1>4, <1>6 DEF Lonely, Quiet, Sees
<1> QED
  BY <1>1, <1>4, <1>5, <1>6, AdvanceKeeps

LEMMA RemoveOwnAlone ==
  ASSUME IInv, AInv, NEW p \in Proc, RemoveOwn(p)
  PROVE  AInv'
<1>1. /\ Alive(p) /\ pc(p) = "remove" /\ Goes(p, "dead") /\ pidFile' = None
      /\ UNCHANGED <<wrote, socket, overlapped>>
  BY DEF RemoveOwn, At, Steady, Alive, Daemon
<1>2. Advances(p) /\ Plays(p) /\ pc(p)' = "dead"
  BY <1>1, DaemonPlays DEF Starting
<1>3. ~Alive(p)'
  BY <1>2 DEF Alive, Daemon
<1>4. ASSUME Lonely PROVE lost' = {} /\ \A d \in Proc : Serves(d)'
  <2>1. lost = {} /\ pidFile \in Proc \cup {None}
    BY <1>4 DEF Lonely, IInv, Types, Files
  <2>2. {d \in {pidFile} \ {None, p} : Alive(d)} = {}
    BY <1>1, <1>4, <2>1, LonelySingle
  <2>3. lost' = {}
    BY <2>1, <2>2 DEF RemoveOwn
  <2> QED
    BY <1>1, <1>2, <1>4, <2>3, ServesKeep
<1> QED
  BY <1>1, <1>2, <1>3, <1>4, AdvanceKeeps DEF Lonely, Quiet, Sees

\* Only one command is at the point of becoming the daemon, and no other looks
\* at the PID file meanwhile.
LEMMA AcquireAlone ==
  ASSUME IInv, AInv, NEW p \in Proc, Acquire(p)
  PROVE  AInv'
<1>1. pc(p) = "acquire" /\ UNCHANGED <<wrote, socket, lost, overlapped>>
  BY DEF Acquire, At, Steady
<1>2. PICK l \in {"locked out", "write"} :
        Goes(p, l) /\ (l = "locked out" => UNCHANGED pidFile)
  BY DEF Acquire
<1>3. l \in Places
  BY PlaceNames
<1>4. /\ \A q \in Proc \ {p} : proc'[q] = proc[q]
      /\ pc(p)' = l /\ proc'[p].cmd = proc[p].cmd
  BY <1>2, <1>3, GoesTo DEF IInv, pc
<1>5. Advances(p)
  BY <1>1, <1>4 DEF Advances, Commander, Command, Checking, Starting, Waiting
<1>6. Plays(p)
  BY <1>1, <1>4 DEF Plays, Waiting, Checking, Alive, Daemon
<1>7. CASE l = "locked out"
  BY <1>1, <1>2, <1>4, <1>5, <1>6, <1>7, MoveAlone DEF Alive, Daemon
<1>8. CASE l = "write"
  <2>1. \A q \in Proc : Role(q)'
    BY <1>5, <1>6, RolesKeep
  <2>2. ASSUME Lonely, NEW q \in Proc PROVE Quiet(q)' /\ Sees(q)'
    <3>1. q # p => ~(Commander(q) /\ pc(q) \notin Waiting)
      BY <1>1, <2>2 DEF Lonely, Alone, Commander, Starting, Waiting
    <3>2. q = p => pc(q)' = "write"
      BY <1>4, <1>8
    <3>3. q # p => pc(q)' = pc(q)
      BY <1>4 DEF pc
    <3> QED
      BY <3>1, <3>2, <3>3 DEF Quiet, Sees, Commander, Command, Checking, Waiting
  <2>3. ASSUME Lonely PROVE Lonely'
    <3>1. \A d \in Proc : Serves(d)'
      BY <1>1, <1>4, <1>5, <1>8, <2>3, ServesKeep
    <3>2. \A d \in Proc : Alone(d)'
      BY <1>5, <2>3, OthersKeep
    <3> QED
      BY <1>1, <2>2, <2>3, <3>1, <3>2 DEF Lonely
  <2> QED
    BY <1>1, <2>1, <2>3 DEF AInv
<1> QED
  BY <1>7, <1>8

\* Before a process was there, it played no role.
LEMMA Unborn ==
  ASSUME IInv, AInv, NEW p \in Proc, pc(p) \in {"unborn", "reserved"}
  PROVE  proc[p].cmd = "start" /\ ~Commander(p) /\ ~Alive(p)
BY DEF AInv, Role, Commander, Command, Checking, Starting, Alive, Daemon

\* The request and the process it starts: nobody else is under way.
LEMMA SpawnAlone ==
  ASSUME IInv, AInv, NEW p \in Proc, Spawn(p)
  PROVE  AInv'
<1> DEFINE c == p + 1
           r == Call(Idle, "cli")
<1>1. /\ UNCHANGED <<pidFile, wrote, socket, lost, overlapped>> /\ pc(p) = "spawn"
      /\ proc' = [proc EXCEPT ![p].pc = "spawned", ![c] = r]
  BY DEF Spawn, At, FilesKept, Steady
<1>2. c \in Proc /\ pc(c) = "reserved" /\ c # p
  BY <1>1 DEF IInv, Local, Reserved, MaySpawn
<1>3. r \in Record /\ r.pc = "exists" /\ r.cmd = "start" /\ r.site = "cli"
  BY IdleRecord, BuiltCall DEF Sites
<1>4. "spawned" \in Places
  BY PlaceNames
<1>5. c = p + 1
  OBVIOUS
<1> HIDE DEF c, r
<1>6. /\ pc(c)' = "exists" /\ proc'[c].cmd = "start" /\ proc'[c].site = "cli"
      /\ \A q \in Proc \ {p, c} : proc'[q] = proc[q]
      /\ pc(p)' = "spawned" /\ proc'[p].cmd = proc[p].cmd
  BY <1>1, <1>2, <1>3, <1>4 DEF IInv, Types, Record, pc
<1>7. proc[p].cmd = "request" /\ proc[c].cmd = "start" /\ ~Commander(c) /\ ~Alive(c)
  BY <1>1, <1>2, Unborn DEF AInv, Role
<1>8. \A q \in Proc : Alive(q)' => Alive(q)
  BY <1>1, <1>6 DEF Alive, Daemon, pc
<1>9. ASSUME NEW q \in Proc PROVE Role(q)'
  <2>1. CASE q = p
    BY <1>2, <1>5, <1>6, <1>7, <2>1 DEF Role, Waiting, Checking, Alive, Daemon
  <2>2. CASE q = c
    BY <1>6, <2>2 DEF Role, Waiting, Checking, Alive, Daemon
  <2>3. CASE q # p /\ q # c
    <3>1. proc[q].cmd = "request" /\ pc(q) \in Command =>
            q + 1 \in Proc /\ pc(q + 1) # "unborn" /\ proc[q + 1].cmd = "start" /\ q + 1 # p
      BY <1>7 DEF AInv, Role
    <3>2. ASSUME NEW e \in Proc, pc(e) # "unborn", proc[e].cmd = "start"
          PROVE  pc(e)' # "unborn" /\ proc'[e].cmd = "start"
      BY <1>6, <3>2 DEF pc
    <3>3. proc'[q] = proc[q]
      BY <1>6, <2>3
    <3>4. (proc[q].cmd = "request" /\ pc(q) \in Command)' =>
            q + 1 \in Proc /\ pc(q + 1)' # "unborn" /\ proc'[q + 1].cmd = "start"
      BY <3>1, <3>2, <3>3 DEF pc
    <3> QED
      BY <1>1, <3>3, <3>4 DEF AInv, Role, Alive, pc
  <2> QED
    BY <2>1, <2>2, <2>3
<1>10. ASSUME Lonely, NEW q \in Proc, Commander(q), q # p PROVE FALSE
  <2>1. pc(q) \in Waiting /\ p = q + 1
    BY <1>1, <1>10 DEF Lonely, Alone, Commander, Waiting, Command
  <2>2. proc[q].cmd = "request" /\ pc(q) \in Command
    BY <2>1 DEF AInv, Role, Waiting, Command
  <2> QED
    BY <1>7, <2>1, <2>2 DEF AInv, Role
<1>11. ASSUME Lonely PROVE Lonely'
  <2>1. ASSUME NEW q \in Proc, Commander(q)' PROVE q \in {p, c}
    BY <1>6, <1>10, <1>11, <2>1 DEF Commander, pc
  <2>2. ASSUME NEW q \in Proc PROVE Alone(q)'
    <3> SUFFICES ASSUME NEW e \in Proc, Commander(q)', Commander(e)'
                 PROVE  \/ e = q
                        \/ pc(q)' \in Waiting /\ e = q + 1
                        \/ pc(e)' \in Waiting /\ q = e + 1
      BY DEF Alone
    <3> QED
      BY <1>5, <1>6, <2>1 DEF Waiting
  <2>3. ASSUME NEW q \in Proc PROVE Quiet(q)' /\ Sees(q)'
    BY <1>1, <1>6, <1>8, <1>11 DEF Lonely, Quiet, Sees, pc
  <2>4. Cleaned => Cleaned'
    <3> SUFFICES ASSUME NEW q \in Proc, proc[q].cmd = "clean" PROVE proc'[q].cmd = "clean"
      BY DEF Cleaned
    <3> QED
      BY <1>6, <1>7
  <2>5. ASSUME NEW q \in Proc PROVE Serves(q)'
    BY <1>1, <1>6, <1>11, <2>4 DEF Lonely, Serves, pc
  <2> QED
    BY <1>1, <1>11, <2>2, <2>3, <2>5 DEF Lonely
<1> QED
  BY <1>1, <1>9, <1>11 DEF AInv

\* A command that is not issued while another is under way finds itself alone.
LEMMA InvokeAlone ==
  ASSUME IInv, AInv, NEW p \in Proc, NEW k \in Commands, Invoke(p, k)
  PROVE  AInv'
<1> DEFINE q == [Idle EXCEPT !.cmd = k]
<1>1. /\ pc(p) = "unborn" /\ \A e \in Proc : e < p => pc(e) # "unborn"
      /\ UNCHANGED <<pidFile, wrote, socket, lost>>
      /\ overlapped' = (overlapped \/ \E e \in Proc : Busy(e))
  BY DEF Invoke, At, FilesKept
<1>2. q \in Record /\ q.cmd = k /\ q.site = "cli" /\ q.seen = None
  BY IdleRecord DEF Record
<1>3. "scan" \in Places /\ "reserved" \in Places
  BY PlaceNames
<1>4. \/ k \in {"start", "stop", "restart"} /\ Becomes(p, Call(q, "cli"))
      \/ k = "clean" /\ Becomes(p, [q EXCEPT !.pc = "scan"])
      \/ /\ k = "request" /\ p + 1 \in Proc
         /\ proc' = [proc EXCEPT ![p] = Call(q, "ready"), ![p + 1].pc = "reserved"]
  BY DEF Invoke
<1> HIDE DEF q
<1>5. /\ proc'[p].cmd = k
      /\ \A e \in Proc \ {p} :
           \/ proc'[e] = proc[e]
           \/ k = "request" /\ e = p + 1 /\ pc(e)' = "reserved" /\ proc'[e].cmd = proc[e].cmd
      /\ \/ k \in {"start", "stop", "restart"} /\ pc(p)' = "exists" /\ proc'[p].site = "cli"
         \/ k = "clean" /\ pc(p)' = "scan"
         \/ /\ k = "request" /\ pc(p)' = "exists" /\ p + 1 \in Proc
            /\ pc(p + 1)' = "reserved" /\ proc'[p + 1].cmd = proc[p + 1].cmd
  <2>1. CASE k \in {"start", "stop", "restart"} /\ Becomes(p, Call(q, "cli"))
    <3>1. LET r == Call(q, "cli") IN r \in Record /\ r.pc = "exists" /\ r.cmd = k /\ r.site = "cli"
      BY <1>2, BuiltCall DEF Sites
    <3> QED
      BY <2>1, <3>1, BecomesThat DEF IInv, pc
  <2>2. CASE k = "clean" /\ Becomes(p, [q EXCEPT !.pc = "scan"])
    <3>1. LET r == [q EXCEPT !.pc = "scan"] IN r \in Record /\ r.pc = "scan" /\ r.cmd = k
      BY <1>2, <1>3, BuiltAt
    <3> QED
      BY <2>2, <3>1, BecomesThat DEF IInv, pc
  <2>3. CASE /\ k = "request" /\ p + 1 \in Proc
             /\ proc' = [proc EXCEPT ![p] = Call(q, "ready"), ![p + 1].pc = "reserved"]
    <3>1. LET r == Call(q, "ready") IN r \in Record /\ r.pc = "exists" /\ r.cmd = k
      BY <1>2, BuiltCall DEF Sites
    <3>2. p + 1 # p
      BY Numbers
    <3> QED
      BY <1>3, <2>3, <3>1, <3>2 DEF IInv, Types, Record, pc
  <2> QED
    BY <1>4, <2>1, <2>2, <2>3
<1>6. ASSUME NEW e \in Proc, e # p, proc'[e] # proc[e]
      PROVE  /\ pc(e) = "unborn" /\ pc(e)' = "reserved" /\ proc'[e].cmd = "start"
             /\ proc[e].cmd = "start"
  <2>1. k = "request" /\ e = p + 1 /\ pc(e)' = "reserved" /\ proc'[e].cmd = proc[e].cmd
    BY <1>5, <1>6
  <2>2. pc(e) = "unborn"
    BY <1>1, <2>1, Numbers DEF IInv, Local, Born
  <2> QED
    BY <2>1, <2>2, Unborn
<1>7. ASSUME NEW e \in Proc PROVE Role(e)'
  <2>1. CASE e = p
    <3>1. p + 1 \in Proc => proc[p + 1].cmd = "start"
      <4> SUFFICES ASSUME p + 1 \in Proc PROVE proc[p + 1].cmd = "start"
        OBVIOUS
      <4>1. pc(p + 1) = "unborn"
        BY <1>1, Numbers DEF IInv, Local, Born
      <4> QED
        BY <4>1, Unborn
    <3> QED
      BY <1>5, <2>1, <3>1 DEF Role, Waiting, Checking, Alive, Daemon
  <2>2. CASE e # p /\ proc'[e] # proc[e]
    BY <1>6, <2>2 DEF Role, Waiting, Checking, Alive, Daemon
  <2>3. CASE e # p /\ proc'[e] = proc[e]
    <3>1. proc[e].cmd = "request" /\ pc(e) \in Command =>
            /\ e + 1 \in Proc /\ pc(e + 1) # "unborn" /\ proc[e + 1].cmd = "start"
            /\ e + 1 # p
      BY <1>1 DEF AInv, Role
    <3>2. ASSUME NEW d \in Proc, d # p, pc(d) # "unborn", proc[d].cmd = "start"
          PROVE  pc(d)' # "unborn" /\ proc'[d].cmd = "start"
      BY <1>6, <3>2 DEF pc
    <3> QED
      BY <1>1, <2>3, <3>1, <3>2 DEF AInv, Role, Alive, pc
  <2> QED
    BY <2>1, <2>2, <2>3
<1>8. ASSUME ~overlapped' PROVE Lonely'
  <2>1. Lonely /\ \A e \in Proc : ~Busy(e)
    BY <1>1, <1>8 DEF AInv
  <2>2. ASSUME NEW e \in Proc, Commander(e)' PROVE e = p
    <3>1. ~Commander(e)
      BY <2>1 DEF Busy, Commander, Starting, Alive, Daemon
    <3> QED
      BY <1>6, <2>2, <3>1 DEF Commander, Command, Checking, Starting, pc
  <2>3. \A e \in Proc : Alone(e)'
    BY <2>2 DEF Alone
  <2>4. \A e \in Proc : Quiet(e)' /\ Sees(e)'
    <3> SUFFICES ASSUME NEW e \in Proc PROVE Quiet(e)' /\ Sees(e)'
      OBVIOUS
    <3>1. pc(e)' \notin {"unlink", "cleanSocket", "cleanPid", "probe", "term", "await"}
      BY <1>5, <2>2 DEF Commander, Command, Checking
    <3> QED
      BY <3>1 DEF Quiet, Sees
  <2>5. Cleaned => Cleaned'
    <3> SUFFICES ASSUME NEW e \in Proc, proc[e].cmd = "clean" PROVE proc'[e].cmd = "clean"
      BY DEF Cleaned
    <3>1. e # p
      BY <1>1, Unborn
    <3> QED
      BY <1>6, <3>1
  <2>6. ASSUME NEW e \in Proc, pc(e)' = "serving" PROVE pc(e) = "serving"
    <3>1. e # p
      BY <1>5, <2>6
    <3> QED
      BY <1>6, <2>6, <3>1 DEF pc
  <2> QED
    BY <1>1, <2>1, <2>3, <2>4, <2>5, <2>6 DEF Lonely, Serves
<1> QED
  BY <1>7, <1>8 DEF AInv

LEMMA InitAlone == Init => AInv
<1> SUFFICES ASSUME Init PROVE AInv
  OBVIOUS
<1>1. ASSUME NEW p \in Proc PROVE pc(p) = "unborn" /\ proc[p].cmd = "start"
  BY IdleRecord DEF Init, pc
<1>2. lost = {}
  BY DEF Init
<1> QED
  BY <1>1, <1>2 DEF AInv, Lonely, Role, Alone, Quiet, Sees, Serves, Commander, Command, Starting,
     Waiting, Checking, Alive, Daemon

LEMMA StepAlone == IInv /\ AInv /\ [Next]_vars => AInv'
<1> SUFFICES ASSUME IInv, AInv, [Next]_vars PROVE AInv'
  OBVIOUS
<1>1. ASSUME NEW p \in Proc, CommandStep(p) PROVE AInv'
  BY <1>1, LookAlone, ReadPidAlone, ProbeAlone, UnlinkStaleAlone, CheckHealthAlone, ForkAlone,
     GetPidAlone, SendTermAlone, WaitForStopAlone, CleanSocketAlone, CleanPidAlone,
     SpawnAlone, RequestAlone, RemoveTreeAlone DEF CommandStep
<1>2. ASSUME NEW p \in Proc, DaemonStep(p) \/ Crash(p) PROVE AInv'
  BY <1>2, AcquireAlone, DaemonAlone, SocketAlone, RemoveOwnAlone DEF DaemonStep
<1>3. CASE UNCHANGED vars
  BY <1>3 DEF vars, AInv, Role, Lonely, Alone, Quiet, Sees, Serves, Cleaned, Commander, Alive, pc
<1> QED
  BY <1>1, <1>2, <1>3, InvokeAlone DEF Next

\* Commands that do not overlap never leave two daemons, a daemon robbed of its
\* PID file, or one that serves and cannot be reached (manager.py:73, 162, 212;
\* unix_server.py:55).
THEOREM AloneAlwaysSafe == Spec => []AloneIsSafe
<1>1. IInv /\ AInv => AloneIsSafe
  BY LonelySingle DEF AInv, Lonely, Serves, AloneIsSafe
<1> QED
  BY <1>1, InitAlone, StepAlone, InvAlways, PTL DEF Spec
=============================================================================
