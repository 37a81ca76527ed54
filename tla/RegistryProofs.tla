--------------------------- MODULE RegistryProofs ---------------------------
(* Invariance theorems about Registry, for any number of workspaces,       *)
(* requests and servers.                                                   *)
EXTENDS Registry, TLAPS

-----------------------------------------------------------------------------
(* Sequences as queues.                                                     *)

\* Taking the first element leaves the others, one place nearer.
LEMMA HeadTail ==
  ASSUME NEW S, NEW s \in Seq(S), s # <<>>
  PROVE  /\ Head(s) \in S
         /\ Head(s) = s[1]
         /\ Len(s) \in Nat
         /\ 1 \in 1 .. Len(s)
         /\ Tail(s) \in Seq(S)
         /\ Len(Tail(s)) = Len(s) - 1
         /\ \A k \in 1 .. Len(Tail(s)) :
              k + 1 \in 1 .. Len(s) /\ Tail(s)[k] = s[k + 1]
OBVIOUS

\* What is not first stays when the first element is taken.
LEMMA StaysInTail ==
  ASSUME NEW S, NEW s \in Seq(S), NEW k \in 1 .. Len(s), s[k] # Head(s)
  PROVE  \E j \in 1 .. Len(Tail(s)) : Tail(s)[j] = s[k]
<1>1. s # <<>> /\ Len(s) \in Nat
  OBVIOUS
<1>2. Head(s) = s[1] /\ k # 1
  BY <1>1
<1>3. k - 1 \in 1 .. Len(Tail(s)) /\ Tail(s)[k - 1] = s[k]
  BY <1>1, <1>2
<1> QED
  BY <1>3

\* A queue of one.
LEMMA AloneInQueue ==
  ASSUME NEW x
  PROVE  <<x>> # <<>> /\ Head(<<x>>) = x /\ Tail(<<x>>) = <<>> /\ Len(<<x>>) = 1
OBVIOUS

\* A sequence of length one is its only element.
LEMMA Singleton ==
  ASSUME NEW S, NEW s \in Seq(S), Len(s) = 1
  PROVE  s = <<s[1]>> /\ Tail(s) = <<>>
<1>1. s = <<s[1]>>
  OBVIOUS
<1>2. Tail(<<s[1]>>) = <<>>
  BY AloneInQueue
<1> QED
  BY <1>1, <1>2

\* Appending adds an element behind the others.
LEMMA Appended ==
  ASSUME NEW S, NEW s \in Seq(S), NEW e \in S
  PROVE  /\ Append(s, e) \in Seq(S)
         /\ Append(s, e) # <<>>
         /\ Len(s) \in Nat
         /\ Len(Append(s, e)) = Len(s) + 1
         /\ Append(s, e)[Len(s) + 1] = e
         /\ s # <<>> => Head(Append(s, e)) = Head(s)
         /\ \A k \in 1 .. Len(s) :
              k \in 1 .. Len(Append(s, e)) /\ Append(s, e)[k] = s[k]
<1>1. /\ Append(s, e) \in Seq(S) /\ Len(s) \in Nat
      /\ Len(Append(s, e)) = Len(s) + 1
      /\ Append(s, e)[Len(s) + 1] = e
      /\ \A k \in 1 .. Len(s) : Append(s, e)[k] = s[k]
  OBVIOUS
<1>2. Append(s, e) # <<>>
  BY <1>1
<1>3. ASSUME s # <<>> PROVE Head(Append(s, e)) = Head(s)
  <2>1. Len(s) # 0 /\ Head(s) = s[1]
    BY <1>3
  <2>2. Head(Append(s, e)) = Append(s, e)[1]
    BY <1>1, <1>2
  <2> QED
    BY <1>1, <2>1, <2>2
<1> QED
  BY <1>1, <1>2, <1>3

-----------------------------------------------------------------------------
\* A manager serves one workspace, and one not created yet is untouched.
Named ==
  /\ \A w \in Workspaces : table[w] # Nothing => table[w] \in known
  /\ \A v, w \in Workspaces : table[v] = table[w] /\ table[w] # Nothing => v = w
  /\ \A m \in Managers \ known :
       ~initialized[m] /\ client[m] = Nothing /\ lockQueue[m] = <<>>
  /\ left \subseteq known

\* A task that waits for a manager's lock, or has it, looked this manager up
\* for its workspace and is in the queue; one that initialises is at its head
\* and the client it started is the manager's.
Place(t) ==
  /\ pc[t] = "global" => ws[t] \in Workspaces
  /\ pc[t] \in {"locking", "initializing"}
       => /\ ws[t] \in Workspaces
          /\ manager[t] \in Managers
          /\ table[ws[t]] = manager[t]
          /\ \E k \in 1 .. Len(lockQueue[manager[t]]) :
               lockQueue[manager[t]][k] = t
  /\ pc[t] = "initializing"
       => /\ Head(lockQueue[manager[t]]) = t
          /\ client[manager[t]] \in Servers
          /\ cwd[client[manager[t]]] = ws[t]

Placed == \A t \in Tasks : Place(t)

\* shutdown_all is in one queue of a manager at most, and nobody behind it.
DaemonLast ==
  daemon # "exited" =>
    \A m \in Managers : \A k \in 1 .. Len(lockQueue[m]) :
      lockQueue[m][k] = Daemon
        => /\ daemon \in {"locking", "closing"} /\ at = m
           /\ k = Len(lockQueue[m])

\* The loop of shutdown_all holds the global lock, and what it has passed is
\* neither initialised nor waited for.
Passed(m) == ~initialized[m] /\ lockQueue[m] = <<>>

Loop ==
  /\ Looping => First(globalQueue, Daemon)
  /\ daemon \in {"locking", "closing"} => at \in Managers
  /\ daemon = "closing" => lockQueue[at] = <<Daemon>> /\ initialized[at]
  /\ Looping =>
       \A w \in Workspaces :
         /\ table[w] # Nothing /\ table[w] \notin left
         /\ daemon = "next" \/ table[w] # at
         => Passed(table[w])

\* A live server past its handshake is the client of an initialised manager,
\* the one of its workspace.
Owned ==
  /\ \A s \in Servers : ready[s] /\ proc[s] = "up"
       => \E m \in Managers : client[m] = s /\ initialized[m]
  /\ \A m \in Managers : initialized[m]
       => /\ client[m] \in Servers /\ ready[client[m]]
          /\ cwd[client[m]] \in Workspaces
          /\ table[cwd[client[m]]] = m
  /\ \A m \in Managers : client[m] # Nothing => proc[client[m]] # "unborn"

IInv == TypeOK /\ Named /\ Placed /\ DaemonLast /\ Loop /\ Owned
-----------------------------------------------------------------------------
\* A new object is one of the kind and was not in use.
LEMMA NewManagerUnknown ==
  ASSUME Managers \ known # {}
  PROVE  NewManager \in Managers \ known
BY DEF NewManager

\* The process of a new client is one that was never started.
LEMMA NewServerUnborn ==
  ASSUME Unborn # {}
  PROVE  NewServer \in Servers /\ proc[NewServer] = "unborn"
BY DEF NewServer, Unborn

\* Who holds a manager's lock is at the head of its queue.
LEMMA Holder ==
  ASSUME TypeOK, NEW t \in Tasks, Holds(t)
  PROVE  /\ manager[t] \in Managers
         /\ lockQueue[manager[t]] \in Seq(Tasks \cup {Daemon})
         /\ lockQueue[manager[t]] # <<>>
         /\ Head(lockQueue[manager[t]]) = t
         /\ Tail(lockQueue[manager[t]]) \in Seq(Tasks \cup {Daemon})
<1>1. /\ manager[t] \in Managers
      /\ lockQueue[manager[t]] # <<>> /\ Head(lockQueue[manager[t]]) = t
  BY DEF Holds, First
<1>2. lockQueue[manager[t]] \in Seq(Tasks \cup {Daemon})
  BY <1>1 DEF TypeOK
<1> QED
  BY <1>1, <1>2, HeadTail

\* Releasing a lock keeps the type of the queues.
LEMMA ReleaseType ==
  ASSUME TypeOK, NEW t \in Tasks, Holds(t), Release(t)
  PROVE  /\ lockQueue' \in [Managers -> Seq(Tasks \cup {Daemon})]
         /\ UNCHANGED <<table, globalQueue, known>>
BY Holder DEF Release, TypeOK

\* The end of a task keeps the types of its variables.
LEMMA DoneType ==
  ASSUME TypeOK, NEW t \in Tasks, Done(t)
  PROVE  /\ pc' \in [Tasks -> {"idle", "global", "locking",
                               "initializing", "waiting", "done"}]
         /\ ws' \in [Tasks -> Workspaces \cup {Nothing}]
         /\ manager' \in [Tasks -> Managers \cup {Nothing}]
         /\ using' \in [Tasks -> Servers \cup {Nothing}]
BY DEF Done, TypeOK

\* Releasing the global lock keeps the type of its queue.
LEMMA GlobalTail ==
  ASSUME TypeOK, NEW x, First(globalQueue, x), globalQueue' = Tail(globalQueue)
  PROVE  globalQueue' \in Seq(Tasks \cup {Daemon})
BY HeadTail DEF TypeOK, First

\* The daemon's release keeps the type of the queues.
LEMMA LeaveType ==
  ASSUME TypeOK, at \in Managers, lockQueue[at] # <<>>, Leave
  PROVE  /\ lockQueue' \in [Managers -> Seq(Tasks \cup {Daemon})]
         /\ UNCHANGED <<table, known>>
<1>1. Tail(lockQueue[at]) \in Seq(Tasks \cup {Daemon})
  BY HeadTail DEF TypeOK
<1> QED
  BY <1>1 DEF Leave, TypeOK

\* Queueing at a manager keeps the types.
LEMMA FoundType ==
  ASSUME TypeOK, NEW t \in Tasks, NEW m \in Managers, Found(t, m)
  PROVE  /\ manager' \in [Tasks -> Managers \cup {Nothing}]
         /\ lockQueue' \in [Managers -> Seq(Tasks \cup {Daemon})]
         /\ pc' \in [Tasks -> {"idle", "global", "locking",
                               "initializing", "waiting", "done"}]
         /\ UNCHANGED <<clients, ws, using, shutting>>
<1>1. Append(lockQueue[m], t) \in Seq(Tasks \cup {Daemon})
  BY Appended DEF TypeOK
<1> QED
  BY <1>1 DEF Found, TypeOK

\* Starting a server keeps the types and gives the manager a client.
LEMMA NewClientType ==
  ASSUME TypeOK, NEW m \in Managers, NEW w \in Workspaces,
         NEW p \in {"starting", "dead"}, NewClient(m, w, p)
  PROVE  /\ client' \in [Managers -> Servers \cup {Nothing}]
         /\ client'[m] # Nothing /\ \A n \in Managers \ {m} : client'[n] = client[n]
         /\ proc' \in [Servers -> {"unborn", "starting", "up", "dead", "stopped"}]
         /\ cwd' \in [Servers -> Workspaces \cup {Nothing}]
         /\ ready' = ready
BY NewServerUnborn, RegistryAssumption DEF NewClient, TypeOK

\* The types hold at first.
LEMMA TypeInit == Init => TypeOK
BY DEF Init, TypeOK, HasClient

\* Every step keeps the types.
LEMMA TypeNext == IInv /\ [Next]_vars => TypeOK'
<1> SUFFICES ASSUME IInv, [Next]_vars PROVE TypeOK'
  OBVIOUS
<1>0. TypeOK /\ Placed /\ Loop
  BY DEF IInv
<1> USE RegistryAssumption DEF tables, clients, tasks, shutting
<1>1. ASSUME NEW t \in Tasks, NEW w \in Workspaces, Arrive(t, w) PROVE TypeOK'
  <2>1. globalQueue' \in Seq(Tasks \cup {Daemon})
    BY <1>0, <1>1, Appended DEF Arrive, TypeOK
  <2> QED
    BY <1>0, <1>1, <2>1 DEF Arrive, TypeOK, HasClient
<1>2. ASSUME NEW t \in Tasks, Lookup(t) PROVE TypeOK'
  <2>1. globalQueue' \in Seq(Tasks \cup {Daemon})
    BY <1>0, <1>2, GlobalTail DEF Lookup
  <2>2. ws[t] \in Workspaces
    BY <1>0, <1>2 DEF Lookup, Placed, Place
  <2>3. PICK m \in Managers : /\ Found(t, m)
                              /\ table' \in [Workspaces -> Managers \cup {Nothing}]
                              /\ known' \subseteq Managers
    <3>1. CASE Create(t)
      <4>1. NewManager \in Managers /\ Found(t, NewManager)
        BY <3>1, NewManagerUnknown DEF Create
      <4> QED
        BY <1>0, <2>2, <3>1, <4>1 DEF Create, TypeOK
    <3>2. CASE Reuse(t)
      BY <1>0, <2>2, <3>2 DEF Reuse, TypeOK
    <3> QED
      BY <1>2, <3>1, <3>2 DEF Lookup
  <2>4. /\ manager' \in [Tasks -> Managers \cup {Nothing}]
        /\ lockQueue' \in [Managers -> Seq(Tasks \cup {Daemon})]
        /\ pc' \in [Tasks -> {"idle", "global", "locking",
                              "initializing", "waiting", "done"}]
        /\ UNCHANGED <<clients, ws, using, shutting>>
    BY <1>0, <2>3, FoundType
  <2> QED
    BY <1>0, <2>1, <2>3, <2>4 DEF TypeOK, HasClient
<1>3. ASSUME NEW t \in Tasks, LookupFails(t) PROVE TypeOK'
  <2>1. globalQueue' \in Seq(Tasks \cup {Daemon})
    BY <1>0, <1>3, GlobalTail DEF LookupFails
  <2> QED
    BY <1>0, <1>3, <2>1, DoneType DEF LookupFails, TypeOK, HasClient
<1>4. ASSUME NEW t \in Tasks, Use(t) PROVE TypeOK'
  <2>1. /\ lockQueue' \in [Managers -> Seq(Tasks \cup {Daemon})]
        /\ UNCHANGED <<table, globalQueue, known>>
        /\ manager[t] \in Managers
    BY <1>0, <1>4, ReleaseType, Holder DEF Use
  <2> QED
    BY <1>0, <1>4, <2>1 DEF Use, TypeOK, HasClient
<1>5. ASSUME NEW t \in Tasks, Spawn(t) PROVE TypeOK'
  <2>1. manager[t] \in Managers /\ ws[t] \in Workspaces
    BY <1>0, <1>5, Holder DEF Spawn, Placed, Place
  <2>2. NewClient(manager[t], ws[t], "starting")
    BY <1>5 DEF Spawn
  <2>3. /\ client' \in [Managers -> Servers \cup {Nothing}]
        /\ client'[manager[t]] # Nothing
        /\ \A n \in Managers \ {manager[t]} : client'[n] = client[n]
        /\ proc' \in [Servers -> {"unborn", "starting", "up", "dead", "stopped"}]
        /\ cwd' \in [Servers -> Workspaces \cup {Nothing}]
        /\ ready' = ready
    BY <1>0, <2>1, <2>2, NewClientType
  <2> QED
    BY <1>0, <1>5, <2>3 DEF Spawn, TypeOK, HasClient
<1>6. ASSUME NEW t \in Tasks, SpawnFails(t) PROVE TypeOK'
  <2>1. manager[t] \in Managers /\ ws[t] \in Workspaces
    BY <1>0, <1>6, Holder DEF SpawnFails, Placed, Place
  <2>2. NewClient(manager[t], ws[t], "dead") /\ Done(t) /\ Release(t) /\ Holds(t)
    BY <1>6 DEF SpawnFails
  <2>3. /\ client' \in [Managers -> Servers \cup {Nothing}]
        /\ client'[manager[t]] # Nothing
        /\ \A n \in Managers \ {manager[t]} : client'[n] = client[n]
        /\ proc' \in [Servers -> {"unborn", "starting", "up", "dead", "stopped"}]
        /\ cwd' \in [Servers -> Workspaces \cup {Nothing}]
        /\ ready' = ready
    BY <1>0, <2>1, <2>2, NewClientType
  <2>4. /\ lockQueue' \in [Managers -> Seq(Tasks \cup {Daemon})]
        /\ UNCHANGED <<table, globalQueue, known>>
    BY <1>0, <2>2, ReleaseType
  <2>5. UNCHANGED <<initialized, shutting>>
    BY <1>6 DEF SpawnFails
  <2>6. /\ pc' \in [Tasks -> {"idle", "global", "locking",
                               "initializing", "waiting", "done"}]
        /\ ws' \in [Tasks -> Workspaces \cup {Nothing}]
        /\ manager' \in [Tasks -> Managers \cup {Nothing}]
        /\ using' \in [Tasks -> Servers \cup {Nothing}]
    BY <1>0, <2>2, DoneType
  <2> QED
    BY <1>0, <2>3, <2>4, <2>5, <2>6 DEF TypeOK, HasClient
<1>7. ASSUME NEW t \in Tasks, InitDone(t) PROVE TypeOK'
  <2>1. /\ lockQueue' \in [Managers -> Seq(Tasks \cup {Daemon})]
        /\ UNCHANGED <<table, globalQueue, known>>
        /\ manager[t] \in Managers
    BY <1>0, <1>7, ReleaseType, Holder DEF InitDone
  <2>2. client[manager[t]] \in Servers
    BY <1>0, <1>7 DEF InitDone, Placed, Place
  <2> QED
    BY <1>0, <1>7, <2>1, <2>2 DEF InitDone, TypeOK, HasClient
<1>8. ASSUME NEW t \in Tasks, InitFails(t) PROVE TypeOK'
  <2>1. /\ lockQueue' \in [Managers -> Seq(Tasks \cup {Daemon})]
        /\ UNCHANGED <<table, globalQueue, known>>
    BY <1>0, <1>8, ReleaseType DEF InitFails
  <2> QED
    BY <1>0, <1>8, <2>1, DoneType DEF InitFails, TypeOK, HasClient
<1>9. ASSUME NEW t \in Tasks, RequestEnds(t) PROVE TypeOK'
  BY <1>0, <1>9, DoneType DEF RequestEnds, TypeOK, HasClient
<1>10. ASSUME NEW s \in Servers, Crash(s) PROVE TypeOK'
  BY <1>0, <1>10 DEF Crash, TypeOK, HasClient
<1>11. CASE Sigterm
  <2>1. globalQueue' \in Seq(Tasks \cup {Daemon})
    BY <1>0, <1>11, Appended DEF Sigterm, TypeOK
  <2> QED
    BY <1>0, <1>11, <2>1 DEF Sigterm, TypeOK, HasClient
<1>12. CASE ShutdownBegins
  BY <1>0, <1>12 DEF ShutdownBegins, TypeOK, HasClient
<1>13. ASSUME NEW m \in Managers, NextWorkspace(m) PROVE TypeOK'
  <2>1. Append(lockQueue[m], Daemon) \in Seq(Tasks \cup {Daemon})
    BY <1>0, Appended DEF TypeOK
  <2> QED
    BY <1>0, <1>13, <2>1 DEF NextWorkspace, TypeOK, HasClient
<1>14. CASE SkipWorkspace
  <2>1. at \in Managers /\ lockQueue[at] # <<>> /\ Leave
    BY <1>0, <1>14 DEF SkipWorkspace, First, Loop
  <2> QED
    BY <1>0, <1>14, <2>1, LeaveType DEF SkipWorkspace, TypeOK, HasClient
<1>15. CASE Close
  BY <1>0, <1>15 DEF Close, TypeOK, HasClient
<1>16. CASE Stopped
  <2>1. at \in Managers /\ lockQueue[at] # <<>> /\ Leave
    <3>1. at \in Managers /\ lockQueue[at] = <<Daemon>> /\ Leave
      BY <1>0, <1>16 DEF Stopped, Loop
    <3> QED
      BY <3>1, AloneInQueue
  <2>2. client[at] \in Servers
    BY <1>0, <1>16, <2>1 DEF Stopped, Loop, TypeOK, HasClient
  <2> QED
    BY <1>0, <1>16, <2>1, <2>2, LeaveType DEF Stopped, TypeOK, HasClient
<1>17. CASE CloseRaises
  <2>1. at \in Managers /\ lockQueue[at] # <<>> /\ Leave
    <3>1. at \in Managers /\ lockQueue[at] = <<Daemon>> /\ Leave
      BY <1>0, <1>17 DEF CloseRaises, Loop
    <3> QED
      BY <3>1, AloneInQueue
  <2>2. globalQueue' \in Seq(Tasks \cup {Daemon})
    BY <1>0, <1>17, GlobalTail DEF CloseRaises, Loop, Looping
  <2> QED
    BY <1>0, <1>17, <2>1, <2>2, LeaveType DEF CloseRaises, TypeOK, HasClient
<1>18. CASE Clear
  <2>1. globalQueue' \in Seq(Tasks \cup {Daemon})
    BY <1>0, <1>18, GlobalTail DEF Clear, Loop, Looping
  <2> QED
    BY <1>0, <1>18, <2>1 DEF Clear, TypeOK, HasClient
<1>19. CASE Exit
  BY <1>0, <1>19 DEF Exit, TypeOK, HasClient
<1>20. CASE Killed
  BY <1>0, <1>20 DEF Killed, TypeOK, HasClient
<1>21. CASE UNCHANGED vars
  BY <1>0, <1>21 DEF vars, TypeOK, HasClient
<1> QED
  BY <1>1, <1>2, <1>3, <1>4, <1>5, <1>6, <1>7, <1>8, <1>9, <1>10, <1>11, <1>12,
     <1>13, <1>14, <1>15, <1>16, <1>17, <1>18, <1>19, <1>20, <1>21
  DEF Next, Request, Shutdown
-----------------------------------------------------------------------------
(* What a step does to the queues of the managers.                         *)

QueuesKept == lockQueue' = lockQueue

Joins(m, x) == lockQueue' = [lockQueue EXCEPT ![m] = Append(@, x)]

Quits(m, x) ==
  /\ m \in Managers /\ First(lockQueue[m], x)
  /\ lockQueue' = [lockQueue EXCEPT ![m] = Tail(@)]

\* Nobody but the head leaves a queue.
LEMMA OthersStay ==
  ASSUME TypeOK, NEW m \in Managers, NEW x, Quits(m, x), NEW n \in Managers,
         NEW k \in 1 .. Len(lockQueue[n]), lockQueue[n][k] # x
  PROVE  \E j \in 1 .. Len(lockQueue'[n]) : lockQueue'[n][j] = lockQueue[n][k]
<1>1. lockQueue[n] \in Seq(Tasks \cup {Daemon})
  BY DEF TypeOK
<1>2. CASE n = m
  <2>1. lockQueue'[n] = Tail(lockQueue[n]) /\ Head(lockQueue[n]) = x
    BY <1>2 DEF Quits, First, TypeOK
  <2> QED
    BY <1>1, <2>1, StaysInTail
<1>3. CASE n # m
  BY <1>1, <1>3 DEF Quits, TypeOK
<1> QED
  BY <1>2, <1>3

\* Everybody stays when one joins.
LEMMA AllStay ==
  ASSUME TypeOK, NEW m \in Managers, NEW x \in Tasks \cup {Daemon}, Joins(m, x),
         NEW n \in Managers, NEW k \in 1 .. Len(lockQueue[n])
  PROVE  \E j \in 1 .. Len(lockQueue'[n]) : lockQueue'[n][j] = lockQueue[n][k]
<1>1. lockQueue[n] \in Seq(Tasks \cup {Daemon})
  BY DEF TypeOK
<1>2. CASE n = m
  <2>1. lockQueue'[n] = Append(lockQueue[n], x)
    BY <1>2 DEF Joins, TypeOK
  <2> QED
    BY <1>1, <2>1, Appended
<1>3. CASE n # m
  BY <1>1, <1>3 DEF Joins, TypeOK
<1> QED
  BY <1>2, <1>3

\* Who joins a queue stands in it.
LEMMA JoinerStands ==
  ASSUME TypeOK, NEW m \in Managers, NEW x \in Tasks \cup {Daemon}, Joins(m, x)
  PROVE  \E j \in 1 .. Len(lockQueue'[m]) : lockQueue'[m][j] = x
<1>1. lockQueue[m] \in Seq(Tasks \cup {Daemon})
  BY DEF TypeOK
<1>2. lockQueue'[m] = Append(lockQueue[m], x)
  BY DEF Joins, TypeOK
<1>3. /\ Len(lockQueue'[m]) = Len(lockQueue[m]) + 1 /\ Len(lockQueue[m]) \in Nat
      /\ lockQueue'[m][Len(lockQueue[m]) + 1] = x
  BY <1>1, <1>2, Appended
<1> QED
  BY <1>3

\* The daemon is in no queue of a manager.
Absent == \A m \in Managers : \A k \in 1 .. Len(lockQueue[m]) : lockQueue[m][k] # Daemon

\* A task that joins or quits does not bring the daemon into a queue, nor
\* anybody behind it.
LEMMA AbsentStays ==
  ASSUME TypeOK, Absent,
         \/ QueuesKept
         \/ \E m \in Managers, t \in Tasks : Joins(m, t) \/ Quits(m, t)
  PROVE  Absent'
<1> SUFFICES ASSUME NEW n \in Managers, NEW k \in 1 .. Len(lockQueue'[n])
             PROVE  lockQueue'[n][k] # Daemon
  BY DEF Absent
<1>1. lockQueue[n] \in Seq(Tasks \cup {Daemon})
  BY DEF TypeOK
<1>2. CASE lockQueue'[n] = lockQueue[n]
  BY <1>2 DEF Absent
<1>3. ASSUME NEW t \in Tasks, lockQueue'[n] = Append(lockQueue[n], t)
      PROVE  lockQueue'[n][k] # Daemon
  <2>1. k \in 1 .. Len(lockQueue[n]) \/ k = Len(lockQueue[n]) + 1
    BY <1>1, <1>3, Appended
  <2>2. CASE k = Len(lockQueue[n]) + 1
    BY <1>1, <1>3, <2>2, Appended, RegistryAssumption
  <2>3. CASE k \in 1 .. Len(lockQueue[n])
    <3>1. lockQueue'[n][k] = lockQueue[n][k]
      BY <1>1, <1>3, <2>3, Appended
    <3> QED
      BY <2>3, <3>1 DEF Absent
  <2> QED
    BY <2>1, <2>2, <2>3
<1>4. CASE lockQueue[n] # <<>> /\ lockQueue'[n] = Tail(lockQueue[n])
  <2>1. k + 1 \in 1 .. Len(lockQueue[n]) /\ lockQueue'[n][k] = lockQueue[n][k + 1]
    BY <1>1, <1>4, HeadTail
  <2> QED
    BY <2>1 DEF Absent
<1> QED
  BY <1>2, <1>3, <1>4 DEF QueuesKept, Joins, Quits, First, TypeOK

\* The daemon at the head of the queue it is the last of is alone there.
LEMMA DaemonAlone ==
  ASSUME TypeOK, DaemonLast, daemon # "exited", NEW m \in Managers,
         First(lockQueue[m], Daemon)
  PROVE  /\ m = at /\ Len(lockQueue[m]) = 1 /\ Tail(lockQueue[m]) = <<>>
         /\ lockQueue[m] = <<Daemon>>
<1>1. lockQueue[m] \in Seq(Tasks \cup {Daemon}) /\ lockQueue[m] # <<>>
  BY DEF TypeOK, First
<1>2. lockQueue[m][1] = Daemon /\ 1 \in 1 .. Len(lockQueue[m])
      /\ Len(lockQueue[m]) \in Nat
      /\ Tail(lockQueue[m]) \in Seq(Tasks \cup {Daemon})
      /\ Len(Tail(lockQueue[m])) = Len(lockQueue[m]) - 1
  BY <1>1, HeadTail DEF First
<1>3. at = m /\ Len(lockQueue[m]) = 1
  BY <1>2 DEF DaemonLast
<1> QED
  BY <1>1, <1>2, <1>3, Singleton

\* After it has left, the daemon is in no queue.
LEMMA DaemonQuits ==
  ASSUME TypeOK, DaemonLast, daemon # "exited", at \in Managers,
         First(lockQueue[at], Daemon), Leave
  PROVE  Absent' /\ lockQueue'[at] = <<>>
         /\ \A n \in Managers \ {at} : lockQueue'[n] = lockQueue[n]
<1>1. lockQueue'[at] = <<>>
  BY DaemonAlone DEF Leave, TypeOK
<1>2. \A n \in Managers \ {at} : lockQueue'[n] = lockQueue[n]
  BY DEF Leave, TypeOK
<1>3. \A n \in Managers \ {at} : \A k \in 1 .. Len(lockQueue[n]) :
        lockQueue[n][k] # Daemon
  BY DEF DaemonLast
<1>4. \A k \in 1 .. Len(lockQueue'[at]) : lockQueue'[at][k] # Daemon
  BY <1>1
<1> QED
  BY <1>1, <1>2, <1>3, <1>4 DEF Absent

\* While shutdown_all is in its loop, no request is handed the global lock.
LEMMA NoLookup ==
  ASSUME Loop, NEW t \in Tasks, First(globalQueue, t)
  PROVE  ~Looping
BY RegistryAssumption DEF Loop, First

\* The daemon is in a queue only between its request for a manager's lock and
\* the release.
LEMMA DaemonAbsent ==
  ASSUME DaemonLast, daemon \notin {"locking", "closing", "exited"}
  PROVE  Absent
BY DEF DaemonLast, Absent

\* A task that has a manager's lock looked it up for its workspace, is the
\* only one that may be initialising it, and shutdown_all is not there.
LEMMA TaskHolds ==
  ASSUME IInv, NEW t \in Tasks, pc[t] \in {"locking", "initializing"}, Holds(t)
  PROVE  /\ manager[t] \in known /\ manager[t] \in Managers
         /\ ws[t] \in Workspaces /\ table[ws[t]] = manager[t]
         /\ First(lockQueue[manager[t]], t)
         /\ \A u \in Tasks \ {t} : pc[u] = "initializing" => manager[u] # manager[t]
         /\ \A m \in Managers : Passed(m) => m # manager[t]
         /\ daemon = "closing" => manager[t] # at
<1>1. /\ manager[t] \in Managers /\ ws[t] \in Workspaces
      /\ table[ws[t]] = manager[t] /\ First(lockQueue[manager[t]], t)
  BY DEF IInv, Placed, Place, Holds
<1>2. manager[t] \in known
  BY <1>1, RegistryAssumption DEF IInv, Named
<1>3. ASSUME NEW u \in Tasks \ {t}, pc[u] = "initializing"
      PROVE  manager[u] # manager[t]
  BY <1>1, <1>3 DEF IInv, Placed, Place, First
<1>4. ASSUME NEW m \in Managers, Passed(m) PROVE m # manager[t]
  BY <1>1, <1>4 DEF Passed, First
<1>5. ASSUME daemon = "closing" PROVE manager[t] # at
  <2>1. lockQueue[at] = <<Daemon>> /\ Head(<<Daemon>>) = Daemon
    BY <1>5, AloneInQueue DEF IInv, Loop
  <2> QED
    BY <1>1, <2>1, RegistryAssumption DEF First
<1> QED
  BY <1>1, <1>2, <1>3, <1>4, <1>5

\* Releasing the lock is leaving the queue of the manager.
LEMMA Releases ==
  ASSUME TypeOK, NEW t \in Tasks, Holds(t), Release(t)
  PROVE  /\ Quits(manager[t], t)
         /\ \A m \in Managers \ {manager[t]} : lockQueue'[m] = lockQueue[m]
         /\ UNCHANGED <<table, globalQueue, known>>
BY DEF Quits, Holds, Release, TypeOK

\* What a lookup changes.
LEMMA LookupEffects ==
  ASSUME IInv, NEW t \in Tasks, Lookup(t)
  PROVE  /\ ~Looping /\ ws[t] \in Workspaces
         /\ pc[t] = "global" /\ pc' = [pc EXCEPT ![t] = "locking"]
         /\ UNCHANGED <<clients, ws, using, shutting>>
         /\ \E m \in Managers :
              /\ Joins(m, t) /\ manager' = [manager EXCEPT ![t] = m]
              /\ \A n \in Managers \ {m} : lockQueue'[n] = lockQueue[n]
              /\ m \in known' /\ m # Nothing
              /\ known \subseteq known' /\ known' \subseteq known \cup {m}
              /\ table' = [table EXCEPT ![ws[t]] = m]
              /\ \/ table[ws[t]] = m
                 \/ table[ws[t]] = Nothing /\ m \notin known
<1>1. ~Looping /\ ws[t] \in Workspaces /\ pc[t] = "global"
  BY NoLookup DEF IInv, Lookup, Placed, Place
<1>2. CASE Create(t)
  <2>1. NewManager \in Managers /\ NewManager \notin known
    BY <1>2, NewManagerUnknown DEF Create
  <2> QED
    BY <1>1, <1>2, <2>1, RegistryAssumption
    DEF Create, Found, Joins, IInv, TypeOK
<1>3. CASE Reuse(t)
  <2>1. table[ws[t]] \in Managers /\ table[ws[t]] \in known
    BY <1>1, <1>3 DEF Reuse, IInv, TypeOK, Named
  <2>2. table = [table EXCEPT ![ws[t]] = table[ws[t]]]
    BY <1>1 DEF IInv, TypeOK
  <2> QED
    BY <1>1, <1>3, <2>1, <2>2, RegistryAssumption
    DEF Reuse, Found, Joins, IInv, TypeOK
<1> QED
  BY <1>2, <1>3 DEF Lookup

\* What starting a server changes.
LEMMA NewClientEffects ==
  ASSUME TypeOK, NEW m \in Managers, NEW w \in Workspaces,
         NEW p \in {"starting", "dead"}, NewClient(m, w, p)
  PROVE  \E s \in Servers :
           /\ proc[s] = "unborn" /\ s # Nothing
           /\ client' = [client EXCEPT ![m] = s]
           /\ proc' = [proc EXCEPT ![s] = p]
           /\ cwd' = [cwd EXCEPT ![s] = w]
           /\ ready' = ready
BY NewServerUnborn, RegistryAssumption DEF NewClient

\* A step that changes nothing but managers already known.
LEMMA NamedKept ==
  ASSUME TypeOK, Named, UNCHANGED <<table, known>>, left' \subseteq known,
         \A m \in Managers \ known :
           /\ initialized'[m] = initialized[m] /\ client'[m] = client[m]
           /\ lockQueue'[m] = lockQueue[m]
  PROVE  Named'
BY DEF Named

\* Every step keeps managers and workspaces one to one.
LEMMA NamedNext == IInv /\ [Next]_vars => Named'
<1> SUFFICES ASSUME IInv, [Next]_vars PROVE Named'
  OBVIOUS
<1>0. TypeOK /\ Named /\ left \subseteq known
  BY DEF IInv, Named
<1> USE DEF tables, clients, tasks, shutting
<1>1. ASSUME NEW t \in Tasks, NEW w \in Workspaces, Arrive(t, w) PROVE Named'
  BY <1>0, <1>1, NamedKept DEF Arrive
<1>2. ASSUME NEW t \in Tasks, Lookup(t) PROVE Named'
  <2>1. PICK m \in Managers :
          /\ \A n \in Managers \ {m} : lockQueue'[n] = lockQueue[n]
          /\ m \in known' /\ m # Nothing
          /\ known \subseteq known' /\ known' \subseteq known \cup {m}
          /\ table' = [table EXCEPT ![ws[t]] = m]
          /\ \/ table[ws[t]] = m
             \/ table[ws[t]] = Nothing /\ m \notin known
    BY <1>2, LookupEffects
  <2>2. UNCHANGED <<initialized, client, left>> /\ ws[t] \in Workspaces
    BY <1>2, LookupEffects
  <2>3. \A w \in Workspaces : table'[w] # Nothing => table'[w] \in known'
    BY <1>0, <2>1, <2>2 DEF Named, TypeOK
  <2>4. ASSUME NEW v \in Workspaces, NEW w \in Workspaces,
               table'[v] = table'[w], table'[w] # Nothing
        PROVE  v = w
    <3>1. \A x \in Workspaces \ {ws[t]} : table'[x] = table[x]
      BY <1>0, <2>1 DEF TypeOK
    <3>2. table'[ws[t]] = m
      BY <1>0, <2>1, <2>2 DEF TypeOK
    <3>3. \A x \in Workspaces \ {ws[t]} : table[x] # m
      BY <1>0, <2>1, <2>2 DEF Named
    <3> QED
      BY <1>0, <2>4, <3>1, <3>2, <3>3 DEF Named
  <2>5. \A n \in Managers \ known' :
          ~initialized'[n] /\ client'[n] = Nothing /\ lockQueue'[n] = <<>>
    BY <1>0, <2>1, <2>2 DEF Named
  <2> QED
    BY <1>0, <2>1, <2>2, <2>3, <2>4, <2>5 DEF Named
<1>3. ASSUME NEW t \in Tasks, LookupFails(t) PROVE Named'
  BY <1>0, <1>3, NamedKept DEF LookupFails
<1>4. ASSUME NEW t \in Tasks, Use(t) PROVE Named'
  <2>1. /\ manager[t] \in known /\ UNCHANGED <<table, known>>
        /\ \A m \in Managers \ {manager[t]} : lockQueue'[m] = lockQueue[m]
    BY <1>0, <1>4, TaskHolds, Releases DEF Use
  <2> QED
    BY <1>0, <1>4, <2>1, NamedKept DEF Use
<1>5. ASSUME NEW t \in Tasks, Spawn(t) PROVE Named'
  <2>1. manager[t] \in known
    BY <1>5, TaskHolds DEF Spawn
  <2> QED
    BY <1>0, <1>5, <2>1, NamedKept DEF Spawn, NewClient, TypeOK
<1>6. ASSUME NEW t \in Tasks, SpawnFails(t) PROVE Named'
  <2>1. /\ manager[t] \in known /\ UNCHANGED <<table, known>>
        /\ \A m \in Managers \ {manager[t]} : lockQueue'[m] = lockQueue[m]
    BY <1>0, <1>6, TaskHolds, Releases DEF SpawnFails
  <2>2. /\ \A m \in Managers \ known : client'[m] = client[m]
        /\ UNCHANGED <<initialized, left>>
    BY <1>0, <1>6, <2>1 DEF SpawnFails, NewClient, TypeOK
  <2> QED
    BY <1>0, <2>1, <2>2, NamedKept
<1>7. ASSUME NEW t \in Tasks, InitDone(t) PROVE Named'
  <2>1. /\ manager[t] \in known /\ UNCHANGED <<table, known>>
        /\ \A m \in Managers \ {manager[t]} : lockQueue'[m] = lockQueue[m]
    BY <1>0, <1>7, TaskHolds, Releases DEF InitDone
  <2>2. /\ \A m \in Managers \ known : initialized'[m] = initialized[m]
        /\ UNCHANGED <<client, left>>
    BY <1>0, <1>7, <2>1 DEF InitDone, TypeOK
  <2> QED
    BY <1>0, <2>1, <2>2, NamedKept
<1>8. ASSUME NEW t \in Tasks, InitFails(t) PROVE Named'
  <2>1. /\ manager[t] \in known /\ UNCHANGED <<table, known>>
        /\ \A m \in Managers \ {manager[t]} : lockQueue'[m] = lockQueue[m]
    BY <1>0, <1>8, TaskHolds, Releases DEF InitFails
  <2> QED
    BY <1>0, <1>8, <2>1, NamedKept DEF InitFails
<1>9. ASSUME NEW t \in Tasks, RequestEnds(t) PROVE Named'
  BY <1>0, <1>9, NamedKept DEF RequestEnds
<1>10. ASSUME NEW s \in Servers, Crash(s) PROVE Named'
  BY <1>0, <1>10, NamedKept DEF Crash
<1>11. CASE Sigterm
  BY <1>0, <1>11, NamedKept DEF Sigterm
<1>12. CASE ShutdownBegins
  <2>1. left' \subseteq known
    BY <1>0, <1>12, RegistryAssumption DEF ShutdownBegins, Named
  <2> QED
    BY <1>0, <1>12, <2>1, NamedKept DEF ShutdownBegins
<1>13. ASSUME NEW m \in Managers, NextWorkspace(m) PROVE Named'
  BY <1>0, <1>13, NamedKept DEF NextWorkspace, TypeOK
\* The manager shutdown_all visits is known, for it is in its queue.
<1>14. ASSUME at \in Managers, lockQueue[at] # <<>> PROVE at \in known
  BY <1>0, <1>14 DEF Named
<1>15. CASE SkipWorkspace
  <2>1. at \in known
    BY <1>14, <1>15 DEF SkipWorkspace, First, IInv, Loop
  <2> QED
    BY <1>0, <1>15, <2>1, NamedKept DEF SkipWorkspace, Leave, TypeOK
<1>16. CASE Close
  BY <1>0, <1>16, NamedKept DEF Close
<1>17. ASSUME daemon = "closing" PROVE at \in known
  BY <1>14, <1>17, AloneInQueue DEF IInv, Loop
<1>18. CASE Stopped
  <2>1. at \in known
    BY <1>17, <1>18 DEF Stopped
  <2> QED
    BY <1>0, <1>18, <2>1, NamedKept DEF Stopped, Leave, TypeOK
<1>19. CASE CloseRaises
  <2>1. at \in known
    BY <1>17, <1>19 DEF CloseRaises
  <2> QED
    BY <1>0, <1>19, <2>1, NamedKept DEF CloseRaises, Leave, TypeOK
<1>20. CASE Clear
  BY <1>0, <1>20 DEF Clear, Named
<1>21. CASE Exit
  BY <1>0, <1>21, NamedKept DEF Exit
<1>22. CASE Killed
  BY <1>0, <1>22, NamedKept DEF Killed
<1>23. CASE UNCHANGED vars
  BY <1>0, <1>23, NamedKept DEF vars
<1> QED
  BY <1>1, <1>2, <1>3, <1>4, <1>5, <1>6, <1>7, <1>8, <1>9, <1>10, <1>11, <1>12,
     <1>13, <1>15, <1>16, <1>18, <1>19, <1>20, <1>21, <1>22, <1>23
  DEF Next, Request, Shutdown
-----------------------------------------------------------------------------
(* Placed *)

\* Where a task stands in a queue, others joining and leaving.
LEMMA PlaceInQueue ==
  ASSUME TypeOK, NEW u \in Tasks, Place(u), pc[u] \in {"locking", "initializing"},
         \/ QueuesKept
         \/ \E m \in Managers, x \in (Tasks \cup {Daemon}) \ {u} :
              Joins(m, x) \/ Quits(m, x)
  PROVE  /\ \E k \in 1 .. Len(lockQueue'[manager[u]]) :
              lockQueue'[manager[u]][k] = u
         /\ pc[u] = "initializing" => Head(lockQueue'[manager[u]]) = u
<1>1. /\ manager[u] \in Managers
      /\ lockQueue[manager[u]] \in Seq(Tasks \cup {Daemon})
      /\ \E k \in 1 .. Len(lockQueue[manager[u]]) : lockQueue[manager[u]][k] = u
      /\ pc[u] = "initializing" => Head(lockQueue[manager[u]]) = u
  BY DEF Place, TypeOK
<1>2. CASE QueuesKept
  BY <1>1, <1>2 DEF QueuesKept
<1>3. ASSUME NEW m \in Managers, NEW x \in (Tasks \cup {Daemon}) \ {u}, Joins(m, x)
      PROVE  /\ \E k \in 1 .. Len(lockQueue'[manager[u]]) :
                  lockQueue'[manager[u]][k] = u
             /\ pc[u] = "initializing" => Head(lockQueue'[manager[u]]) = u
  <2>1. \E k \in 1 .. Len(lockQueue'[manager[u]]) : lockQueue'[manager[u]][k] = u
    BY <1>1, <1>3, AllStay
  <2>2. lockQueue[manager[u]] # <<>>
    BY <1>1
  <2>3. CASE m = manager[u]
    <3>1. lockQueue'[m] = Append(lockQueue[m], x)
      BY <1>3 DEF Joins, TypeOK
    <3>2. Head(lockQueue'[m]) = Head(lockQueue[m])
      BY <1>1, <2>2, <2>3, <3>1, Appended
    <3> QED
      BY <1>1, <2>1, <2>3, <3>2
  <2>4. CASE m # manager[u]
    BY <1>1, <1>3, <2>1, <2>4 DEF Joins, TypeOK
  <2> QED
    BY <2>3, <2>4
<1>4. ASSUME NEW m \in Managers, NEW x \in (Tasks \cup {Daemon}) \ {u}, Quits(m, x)
      PROVE  /\ \E k \in 1 .. Len(lockQueue'[manager[u]]) :
                  lockQueue'[manager[u]][k] = u
             /\ pc[u] = "initializing" => Head(lockQueue'[manager[u]]) = u
  <2>1. \E k \in 1 .. Len(lockQueue'[manager[u]]) : lockQueue'[manager[u]][k] = u
    BY <1>1, <1>4, OthersStay
  <2>2. ASSUME pc[u] = "initializing"
        PROVE  lockQueue'[manager[u]] = lockQueue[manager[u]]
    BY <1>1, <1>4, <2>2 DEF Quits, First, TypeOK
  <2> QED
    BY <1>1, <2>1, <2>2
<1> QED
  BY <1>2, <1>3, <1>4

\* A task that does not move keeps its place if its manager stays the one of
\* its workspace and nobody touches the client it is initialising.
LEMMA PlaceKept ==
  ASSUME TypeOK, NEW u \in Tasks, Place(u),
         pc'[u] = pc[u], ws'[u] = ws[u], manager'[u] = manager[u],
         pc[u] \in {"locking", "initializing"} => table'[ws[u]] = table[ws[u]],
         pc[u] = "initializing"
           => /\ client'[manager[u]] = client[manager[u]]
              /\ cwd'[client[manager[u]]] = cwd[client[manager[u]]],
         \/ QueuesKept
         \/ \E m \in Managers, x \in (Tasks \cup {Daemon}) \ {u} :
              Joins(m, x) \/ Quits(m, x)
  PROVE  Place(u)'
<1>1. ASSUME pc[u] \in {"locking", "initializing"}
      PROVE  /\ \E k \in 1 .. Len(lockQueue'[manager[u]]) :
                  lockQueue'[manager[u]][k] = u
             /\ pc[u] = "initializing" => Head(lockQueue'[manager[u]]) = u
  BY <1>1, PlaceInQueue
<1> QED
  BY <1>1 DEF Place

\* A task that left the locks has no place to keep.
LEMMA NoPlace ==
  ASSUME NEW u \in Tasks, pc'[u] \in {"idle", "waiting", "done"}
  PROVE  Place(u)'
BY DEF Place

\* A server that is starting is nobody's yet.
LEMMA NotTheNewOne ==
  ASSUME IInv, NEW u \in Tasks, pc[u] = "initializing", NEW s \in Servers,
         proc[s] = "unborn"
  PROVE  client[manager[u]] # s
BY RegistryAssumption DEF IInv, Placed, Place, Owned

\* Every step keeps the tasks at the locks in their places.
LEMMA PlacedNext == IInv /\ [Next]_vars => Placed'
<1> SUFFICES ASSUME IInv, [Next]_vars, NEW u \in Tasks PROVE Place(u)'
  BY DEF Placed
<1>0. TypeOK /\ Place(u)
  BY DEF IInv, Placed
<1> USE RegistryAssumption DEF tables, clients, tasks, shutting
<1>1. ASSUME NEW t \in Tasks, NEW w \in Workspaces, Arrive(t, w) PROVE Place(u)'
  <2>1. CASE u = t
    BY <1>0, <1>1, <2>1 DEF Arrive, Place, TypeOK
  <2>2. CASE u # t
    BY <1>0, <1>1, <2>2, PlaceKept DEF Arrive, QueuesKept, TypeOK
  <2> QED
    BY <2>1, <2>2
<1>2. ASSUME NEW t \in Tasks, Lookup(t) PROVE Place(u)'
  <2>1. /\ ws[t] \in Workspaces /\ pc' = [pc EXCEPT ![t] = "locking"]
        /\ UNCHANGED <<client, cwd, ws>>
    BY <1>2, LookupEffects
  <2>2. PICK m \in Managers :
          /\ Joins(m, t) /\ manager' = [manager EXCEPT ![t] = m]
          /\ table' = [table EXCEPT ![ws[t]] = m]
          /\ table[ws[t]] = m \/ table[ws[t]] = Nothing
    BY <1>2, LookupEffects
  <2>3. CASE u = t
    <3>1. \E k \in 1 .. Len(lockQueue'[m]) : lockQueue'[m][k] = t
      BY <1>0, <2>2, JoinerStands
    <3> QED
      BY <1>0, <2>1, <2>2, <2>3, <3>1 DEF Place, TypeOK
  <2>4. CASE u # t
    <3>1. pc'[u] = pc[u] /\ ws'[u] = ws[u] /\ manager'[u] = manager[u]
      BY <1>0, <2>1, <2>2, <2>4 DEF TypeOK
    <3>2. ASSUME pc[u] \in {"locking", "initializing"}
          PROVE  table'[ws[u]] = table[ws[u]]
      BY <1>0, <2>1, <2>2, <3>2 DEF Place, TypeOK
    <3> QED
      BY <1>0, <2>1, <2>2, <2>4, <3>1, <3>2, PlaceKept
  <2> QED
    BY <2>3, <2>4
<1>3. ASSUME NEW t \in Tasks, LookupFails(t) PROVE Place(u)'
  <2>1. CASE u = t
    BY <1>0, <1>3, <2>1, NoPlace DEF LookupFails, Done, TypeOK
  <2>2. CASE u # t
    BY <1>0, <1>3, <2>2, PlaceKept DEF LookupFails, Done, QueuesKept, TypeOK
  <2> QED
    BY <2>1, <2>2
<1>4. ASSUME NEW t \in Tasks, Use(t) PROVE Place(u)'
  <2>1. CASE u = t
    BY <1>0, <1>4, <2>1, NoPlace DEF Use, TypeOK
  <2>2. CASE u # t
    <3>1. Quits(manager[t], t) /\ manager[t] \in Managers /\ table' = table
      BY <1>0, <1>4, Releases DEF Use, Quits
    <3>2. /\ pc'[u] = pc[u] /\ ws'[u] = ws[u] /\ manager'[u] = manager[u]
          /\ UNCHANGED <<client, cwd>>
      BY <1>0, <1>4, <2>2 DEF Use, TypeOK
    <3> QED
      BY <1>0, <2>2, <3>1, <3>2, PlaceKept
  <2> QED
    BY <2>1, <2>2
<1>5. ASSUME NEW t \in Tasks, Spawn(t) PROVE Place(u)'
  <2>1. /\ manager[t] \in Managers /\ ws[t] \in Workspaces
        /\ \A v \in Tasks \ {t} : pc[v] = "initializing" => manager[v] # manager[t]
        /\ First(lockQueue[manager[t]], t)
    BY <1>5, TaskHolds DEF Spawn
  <2>2. PICK s \in Servers : /\ proc[s] = "unborn"
                             /\ client' = [client EXCEPT ![manager[t]] = s]
                             /\ cwd' = [cwd EXCEPT ![s] = ws[t]]
    BY <1>0, <1>5, <2>1, NewClientEffects DEF Spawn
  <2>3. /\ pc' = [pc EXCEPT ![t] = "initializing"] /\ pc[t] = "locking"
        /\ UNCHANGED <<table, lockQueue, ws, manager>>
    BY <1>5 DEF Spawn
  <2>4. CASE u = t
    BY <1>0, <2>1, <2>2, <2>3, <2>4 DEF Place, First, TypeOK
  <2>5. CASE u # t
    <3>1. pc'[u] = pc[u]
      BY <1>0, <2>3, <2>5 DEF TypeOK
    <3>2. ASSUME pc[u] = "initializing"
          PROVE  /\ client'[manager[u]] = client[manager[u]]
                 /\ cwd'[client[manager[u]]] = cwd[client[manager[u]]]
      <4>1. client[manager[u]] # s /\ manager[u] # manager[t]
        BY <2>1, <2>2, <2>5, <3>2, NotTheNewOne
      <4> QED
        BY <1>0, <2>2, <3>2, <4>1 DEF Place, TypeOK
    <3> QED
      BY <1>0, <2>3, <3>1, <3>2, PlaceKept DEF QueuesKept
  <2> QED
    BY <2>4, <2>5
<1>6. ASSUME NEW t \in Tasks, SpawnFails(t) PROVE Place(u)'
  <2>1. CASE u = t
    BY <1>0, <1>6, <2>1, NoPlace DEF SpawnFails, Done, TypeOK
  <2>2. CASE u # t
    <3>1. /\ manager[t] \in Managers /\ ws[t] \in Workspaces
          /\ \A v \in Tasks \ {t} : pc[v] = "initializing" => manager[v] # manager[t]
      BY <1>6, TaskHolds DEF SpawnFails
    <3>2. Quits(manager[t], t) /\ table' = table
      BY <1>0, <1>6, Releases DEF SpawnFails
    <3>3. PICK s \in Servers : /\ proc[s] = "unborn"
                               /\ client' = [client EXCEPT ![manager[t]] = s]
                               /\ cwd' = [cwd EXCEPT ![s] = ws[t]]
      BY <1>0, <1>6, <3>1, NewClientEffects DEF SpawnFails
    <3>4. pc'[u] = pc[u] /\ ws'[u] = ws[u] /\ manager'[u] = manager[u]
      BY <1>0, <1>6, <2>2 DEF SpawnFails, Done, TypeOK
    <3>5. ASSUME pc[u] = "initializing"
          PROVE  /\ client'[manager[u]] = client[manager[u]]
                 /\ cwd'[client[manager[u]]] = cwd[client[manager[u]]]
      <4>1. client[manager[u]] # s /\ manager[u] # manager[t]
        BY <2>2, <3>1, <3>3, <3>5, NotTheNewOne
      <4> QED
        BY <1>0, <3>3, <3>5, <4>1 DEF Place, TypeOK
    <3> QED
      BY <1>0, <2>2, <3>1, <3>2, <3>4, <3>5, PlaceKept
  <2> QED
    BY <2>1, <2>2
<1>7. ASSUME NEW t \in Tasks, InitDone(t) PROVE Place(u)'
  <2>1. CASE u = t
    BY <1>0, <1>7, <2>1, NoPlace DEF InitDone, TypeOK
  <2>2. CASE u # t
    <3>1. Quits(manager[t], t) /\ manager[t] \in Managers /\ table' = table
      BY <1>0, <1>7, Releases DEF InitDone, Quits
    <3>2. /\ pc'[u] = pc[u] /\ ws'[u] = ws[u] /\ manager'[u] = manager[u]
          /\ UNCHANGED <<client, cwd>>
      BY <1>0, <1>7, <2>2 DEF InitDone, TypeOK
    <3> QED
      BY <1>0, <2>2, <3>1, <3>2, PlaceKept
  <2> QED
    BY <2>1, <2>2
<1>8. ASSUME NEW t \in Tasks, InitFails(t) PROVE Place(u)'
  <2>1. CASE u = t
    BY <1>0, <1>8, <2>1, NoPlace DEF InitFails, Done, TypeOK
  <2>2. CASE u # t
    <3>1. Quits(manager[t], t) /\ manager[t] \in Managers /\ table' = table
      BY <1>0, <1>8, Releases DEF InitFails, Quits
    <3>2. /\ pc'[u] = pc[u] /\ ws'[u] = ws[u] /\ manager'[u] = manager[u]
          /\ UNCHANGED <<client, cwd>>
      BY <1>0, <1>8, <2>2 DEF InitFails, Done, TypeOK
    <3> QED
      BY <1>0, <2>2, <3>1, <3>2, PlaceKept
  <2> QED
    BY <2>1, <2>2
<1>9. ASSUME NEW t \in Tasks, RequestEnds(t) PROVE Place(u)'
  <2>1. CASE u = t
    BY <1>0, <1>9, <2>1, NoPlace DEF RequestEnds, Done, TypeOK
  <2>2. CASE u # t
    BY <1>0, <1>9, <2>2, PlaceKept DEF RequestEnds, Done, QueuesKept, TypeOK
  <2> QED
    BY <2>1, <2>2
<1>10. ASSUME NEW s \in Servers, Crash(s) PROVE Place(u)'
  BY <1>0, <1>10, PlaceKept DEF Crash, QueuesKept
<1>11. CASE Sigterm
  BY <1>0, <1>11, PlaceKept DEF Sigterm, QueuesKept
<1>12. CASE ShutdownBegins
  BY <1>0, <1>12, PlaceKept DEF ShutdownBegins, QueuesKept
<1>13. ASSUME NEW m \in Managers, NextWorkspace(m) PROVE Place(u)'
  <2>1. Joins(m, Daemon)
    BY <1>13 DEF NextWorkspace, Joins
  <2> QED
    BY <1>0, <1>13, <2>1, PlaceKept DEF NextWorkspace
<1>14. CASE SkipWorkspace
  <2>1. Quits(at, Daemon) /\ at \in Managers
    BY <1>14 DEF SkipWorkspace, Leave, Quits, IInv, Loop
  <2> QED
    BY <1>0, <1>14, <2>1, PlaceKept DEF SkipWorkspace, Leave
<1>15. CASE Close
  BY <1>0, <1>15, PlaceKept DEF Close, QueuesKept
\* Nobody is initialising the manager that shutdown_all is closing.
<1>16. ASSUME daemon = "closing", Leave
       PROVE  /\ at \in Managers /\ Quits(at, Daemon)
              /\ pc[u] = "initializing" => manager[u] # at
  <2>1. at \in Managers /\ lockQueue[at] = <<Daemon>>
    BY <1>16 DEF IInv, Loop
  <2>2. First(lockQueue[at], Daemon) /\ Head(lockQueue[at]) = Daemon
    BY <2>1, AloneInQueue DEF First
  <2> QED
    BY <1>0, <1>16, <2>1, <2>2 DEF Quits, Leave, Place
<1>17. CASE Stopped
  <2>1. /\ at \in Managers /\ Quits(at, Daemon)
        /\ pc[u] = "initializing" => manager[u] # at
    BY <1>16, <1>17 DEF Stopped
  <2>2. /\ client' = [client EXCEPT ![at] = Nothing]
        /\ UNCHANGED <<table, cwd, pc, ws, manager>>
    BY <1>17 DEF Stopped, Leave
  <2>3. pc[u] = "initializing" => client'[manager[u]] = client[manager[u]]
    BY <1>0, <2>1, <2>2 DEF Place, TypeOK
  <2> QED
    BY <1>0, <2>1, <2>2, <2>3, PlaceKept
<1>18. CASE CloseRaises
  <2>1. at \in Managers /\ Quits(at, Daemon)
    BY <1>16, <1>18 DEF CloseRaises
  <2> QED
    BY <1>0, <1>18, <2>1, PlaceKept DEF CloseRaises, Leave
<1>19. CASE Clear
  <2>1. pc[u] \notin {"locking", "initializing"}
    <3>1. SUFFICES ASSUME pc[u] \in {"locking", "initializing"} PROVE FALSE
      OBVIOUS
    <3>2. /\ ws[u] \in Workspaces /\ manager[u] \in Managers
          /\ table[ws[u]] = manager[u]
          /\ \E k \in 1 .. Len(lockQueue[manager[u]]) :
               lockQueue[manager[u]][k] = u
      BY <1>0, <3>1 DEF Place
    <3>3. Passed(manager[u])
      BY <1>19, <3>2 DEF Clear, IInv, Loop, Looping
    <3> QED
      BY <3>2, <3>3 DEF Passed
  <2> QED
    BY <1>0, <1>19, <2>1, PlaceKept DEF Clear, QueuesKept
<1>20. CASE Exit
  BY <1>0, <1>20, PlaceKept DEF Exit, QueuesKept
<1>21. CASE Killed
  BY <1>0, <1>21, NoPlace DEF Killed, TypeOK
<1>22. CASE UNCHANGED vars
  BY <1>0, <1>22, PlaceKept DEF vars, QueuesKept
<1> QED
  BY <1>1, <1>2, <1>3, <1>4, <1>5, <1>6, <1>7, <1>8, <1>9, <1>10, <1>11, <1>12,
     <1>13, <1>14, <1>15, <1>17, <1>18, <1>19, <1>20, <1>21, <1>22
  DEF Next, Request, Shutdown

-----------------------------------------------------------------------------
(* DaemonLast *)

\* A task that leaves a queue moves the daemon one place up, still the last.
LEMMA LastKept ==
  ASSUME TypeOK, DaemonLast, UNCHANGED <<daemon, at>>,
         QueuesKept \/ \E m \in Managers : \E t \in Tasks : Quits(m, t)
  PROVE  DaemonLast'
<1> SUFFICES ASSUME daemon # "exited", NEW n \in Managers,
                    NEW k \in 1 .. Len(lockQueue'[n]), lockQueue'[n][k] = Daemon
             PROVE  /\ daemon \in {"locking", "closing"} /\ at = n
                    /\ k = Len(lockQueue'[n])
  BY DEF DaemonLast
<1>1. lockQueue[n] \in Seq(Tasks \cup {Daemon})
  BY DEF TypeOK
<1>2. CASE lockQueue'[n] = lockQueue[n]
  BY <1>2 DEF DaemonLast
<1>3. CASE lockQueue[n] # <<>> /\ lockQueue'[n] = Tail(lockQueue[n])
  <2>1. /\ k + 1 \in 1 .. Len(lockQueue[n]) /\ lockQueue[n][k + 1] = Daemon
        /\ Len(lockQueue'[n]) = Len(lockQueue[n]) - 1 /\ Len(lockQueue[n]) \in Nat
    BY <1>1, <1>3, HeadTail
  <2>2. /\ daemon \in {"locking", "closing"} /\ at = n
        /\ k + 1 = Len(lockQueue[n])
    BY <2>1 DEF DaemonLast
  <2> QED
    BY <2>1, <2>2
<1> QED
  BY <1>2, <1>3 DEF QueuesKept, Quits, First, TypeOK

\* Every step keeps the daemon the last of its queue.
LEMMA DaemonLastNext == IInv /\ [Next]_vars => DaemonLast'
<1> SUFFICES ASSUME IInv, [Next]_vars PROVE DaemonLast'
  OBVIOUS
<1>0. TypeOK /\ DaemonLast /\ Loop
  BY DEF IInv
<1>a. Absent' => DaemonLast'
  BY DEF Absent, DaemonLast
<1> USE DEF tables, clients, tasks, shutting
<1>1. ASSUME NEW t \in Tasks, NEW w \in Workspaces, Arrive(t, w) PROVE DaemonLast'
  BY <1>0, <1>1, LastKept DEF Arrive, QueuesKept
<1>2. ASSUME NEW t \in Tasks, Lookup(t) PROVE DaemonLast'
  <2>1. ~Looping /\ daemon # "exited"
    BY <1>2, LookupEffects DEF Lookup
  <2>2. Absent
    BY <1>0, <2>1, DaemonAbsent DEF Looping
  <2>3. PICK m \in Managers : Joins(m, t)
    BY <1>2, LookupEffects
  <2> QED
    BY <1>0, <1>a, <2>2, <2>3, AbsentStays
<1>3. ASSUME NEW t \in Tasks, LookupFails(t) PROVE DaemonLast'
  BY <1>0, <1>3, LastKept DEF LookupFails, QueuesKept
<1>4. ASSUME NEW t \in Tasks, Holds(t), Release(t), UNCHANGED shutting
      PROVE  DaemonLast'
  BY <1>0, <1>4, LastKept, Releases DEF Quits
<1>5. ASSUME NEW t \in Tasks, Spawn(t) PROVE DaemonLast'
  BY <1>0, <1>5, LastKept DEF Spawn, QueuesKept
<1>6. ASSUME NEW t \in Tasks, RequestEnds(t) PROVE DaemonLast'
  BY <1>0, <1>6, LastKept DEF RequestEnds, QueuesKept
<1>7. ASSUME NEW s \in Servers, Crash(s) PROVE DaemonLast'
  BY <1>0, <1>7, LastKept DEF Crash, QueuesKept
\* Outside the loop the daemon is in no queue, whatever its state becomes.
<1>8. ASSUME QueuesKept, daemon \notin {"locking", "closing", "exited"}
      PROVE  DaemonLast'
  BY <1>0, <1>a, <1>8, DaemonAbsent, AbsentStays
<1>9. CASE Sigterm
  BY <1>8, <1>9 DEF Sigterm, QueuesKept
<1>10. CASE ShutdownBegins
  BY <1>8, <1>10 DEF ShutdownBegins, QueuesKept
<1>11. ASSUME NEW m \in Managers, NextWorkspace(m) PROVE DaemonLast'
  <2>1. Absent
    BY <1>0, <1>11, DaemonAbsent DEF NextWorkspace
  <2>2. /\ daemon' = "locking" /\ at' = m
        /\ lockQueue' = [lockQueue EXCEPT ![m] = Append(@, Daemon)]
    BY <1>11 DEF NextWorkspace
  <2>3. SUFFICES ASSUME NEW n \in Managers, NEW k \in 1 .. Len(lockQueue'[n]),
                        lockQueue'[n][k] = Daemon
                 PROVE  n = m /\ k = Len(lockQueue'[n])
    BY <2>2 DEF DaemonLast
  <2>4. lockQueue[n] \in Seq(Tasks \cup {Daemon})
    BY <1>0 DEF TypeOK
  <2>5. n = m
    BY <1>0, <2>1, <2>2, <2>3 DEF Absent, TypeOK
  <2>6. lockQueue'[n] = Append(lockQueue[n], Daemon)
    BY <1>0, <2>2, <2>5 DEF TypeOK
  <2>7. k \notin 1 .. Len(lockQueue[n])
    <3>1. ASSUME k \in 1 .. Len(lockQueue[n]) PROVE lockQueue'[n][k] # Daemon
      <4>1. lockQueue'[n][k] = lockQueue[n][k]
        BY <2>4, <2>6, <3>1, Appended
      <4> QED
        BY <2>1, <3>1, <4>1 DEF Absent
    <3> QED
      BY <2>3, <3>1
  <2>8. Len(lockQueue[n]) \in Nat /\ Len(lockQueue'[n]) = Len(lockQueue[n]) + 1
    BY <2>4, <2>6, Appended
  <2> QED
    BY <2>5, <2>7, <2>8
<1>12. ASSUME daemon # "exited", at \in Managers, First(lockQueue[at], Daemon), Leave
       PROVE  DaemonLast'
  BY <1>0, <1>a, <1>12, DaemonQuits
<1>13. CASE SkipWorkspace
  BY <1>0, <1>12, <1>13 DEF SkipWorkspace, Loop
<1>14. CASE Close
  BY <1>0, <1>14 DEF Close, DaemonLast
<1>15. ASSUME daemon = "closing", Leave PROVE DaemonLast'
  <2>1. at \in Managers /\ lockQueue[at] = <<Daemon>>
    BY <1>0, <1>15 DEF Loop
  <2>2. First(lockQueue[at], Daemon)
    BY <2>1, AloneInQueue DEF First
  <2> QED
    BY <1>12, <1>15, <2>1, <2>2
<1>16. CASE Clear
  BY <1>8, <1>16 DEF Clear, QueuesKept
<1>17. CASE Exit
  BY <1>17 DEF Exit, DaemonLast
<1>18. CASE Killed
  BY <1>18 DEF Killed, DaemonLast
<1>19. CASE UNCHANGED vars
  BY <1>0, <1>19, LastKept DEF vars, QueuesKept
<1>20. ASSUME NEW t \in Tasks, Use(t) \/ SpawnFails(t) \/ InitDone(t) \/ InitFails(t)
       PROVE  DaemonLast'
  BY <1>4, <1>20 DEF Use, SpawnFails, InitDone, InitFails
<1>21. CASE Stopped \/ CloseRaises
  BY <1>15, <1>21 DEF Stopped, CloseRaises
<1> QED
  BY <1>1, <1>2, <1>3, <1>5, <1>6, <1>7, <1>9, <1>10, <1>11, <1>13, <1>14,
     <1>16, <1>17, <1>18, <1>19, <1>20, <1>21
  DEF Next, Request, Shutdown

-----------------------------------------------------------------------------
(* Loop *)

\* A step of the others leaves the loop as it is if it keeps the daemon's
\* place at the locks and wakes no manager the loop has passed.
LEMMA LoopKept ==
  ASSUME TypeOK, Loop, UNCHANGED shutting,
         Looping => table' = table /\ First(globalQueue', Daemon),
         daemon = "closing" =>
           lockQueue'[at] = lockQueue[at] /\ initialized'[at] = initialized[at],
         \A m \in Managers : Passed(m) =>
           lockQueue'[m] = lockQueue[m] /\ initialized'[m] = initialized[m]
  PROVE  Loop'
<1> USE DEF shutting
<1>1. Looping' = Looping
  BY DEF Looping
<1>2. ASSUME Looping, NEW w \in Workspaces, table'[w] # Nothing, table'[w] \notin left,
             daemon = "next" \/ table'[w] # at
      PROVE  ~initialized'[table'[w]] /\ lockQueue'[table'[w]] = <<>>
  <2>1. table'[w] \in Managers /\ Passed(table[w]) /\ table'[w] = table[w]
    BY <1>2 DEF Loop, TypeOK
  <2> QED
    BY <2>1 DEF Passed
<1> QED
  BY <1>1, <1>2 DEF Loop, Passed

\* Every step keeps what the loop of shutdown_all has passed asleep.
LEMMA LoopNext == IInv /\ [Next]_vars => Loop'
<1> SUFFICES ASSUME IInv, [Next]_vars PROVE Loop'
  OBVIOUS
<1>0. TypeOK /\ Loop /\ DaemonLast
  BY DEF IInv
<1>k. Looping => First(globalQueue, Daemon)
  BY <1>0 DEF Loop
<1> USE DEF tables, clients, tasks, shutting
\* Whoever joins the global queue stands behind the daemon.
<1>1. ASSUME NEW t \in Tasks, NEW w \in Workspaces, Arrive(t, w) PROVE Loop'
  <2>1. Looping => First(globalQueue', Daemon)
    BY <1>0, <1>k, <1>1, Appended DEF Arrive, First, TypeOK
  <2> QED
    BY <1>0, <1>1, <2>1, LoopKept DEF Arrive
<1>2. ASSUME NEW t \in Tasks, Lookup(t) PROVE Loop'
  <2>1. ~Looping /\ UNCHANGED shutting
    BY <1>2, LookupEffects
  <2> QED
    BY <2>1 DEF Loop, Looping, Passed
<1>3. ASSUME NEW t \in Tasks, LookupFails(t) PROVE Loop'
  <2>1. ~Looping /\ UNCHANGED shutting
    BY <1>0, <1>3, NoLookup DEF LookupFails
  <2> QED
    BY <2>1 DEF Loop, Looping, Passed
<1>4. ASSUME NEW t \in Tasks, pc[t] \in {"locking", "initializing"}, Holds(t),
             Release(t), UNCHANGED shutting,
             \A m \in Managers \ {manager[t]} : initialized'[m] = initialized[m]
      PROVE  Loop'
  <2>1. /\ \A m \in Managers \ {manager[t]} : lockQueue'[m] = lockQueue[m]
        /\ UNCHANGED <<table, globalQueue>>
    BY <1>0, <1>4, Releases
  <2>2. /\ \A m \in Managers : Passed(m) => m # manager[t]
        /\ daemon = "closing" => manager[t] # at
    BY <1>4, TaskHolds
  <2>3. daemon = "closing" => at \in Managers
    BY <1>0 DEF Loop
  <2> QED
    BY <1>0, <1>k, <1>4, <2>1, <2>2, <2>3, LoopKept
<1>5. ASSUME NEW t \in Tasks, Use(t) \/ InitDone(t) PROVE Loop'
  BY <1>0, <1>4, <1>5 DEF Use, InitDone, TypeOK
<1>6. ASSUME NEW t \in Tasks, SpawnFails(t) \/ InitFails(t) PROVE Loop'
  BY <1>4, <1>6 DEF SpawnFails, InitFails
<1>7. ASSUME NEW t \in Tasks, Spawn(t) PROVE Loop'
  BY <1>0, <1>k, <1>7, LoopKept DEF Spawn
<1>8. ASSUME NEW t \in Tasks, RequestEnds(t) PROVE Loop'
  BY <1>0, <1>k, <1>8, LoopKept DEF RequestEnds
<1>9. ASSUME NEW s \in Servers, Crash(s) PROVE Loop'
  BY <1>0, <1>k, <1>9, LoopKept DEF Crash
<1>10. CASE Sigterm
  BY <1>10 DEF Sigterm, Loop, Looping
\* Every manager of the table is still to be visited.
<1>11. CASE ShutdownBegins
  <2>1. \A w \in Workspaces : table'[w] # Nothing => table'[w] \in left'
    BY <1>0, <1>11 DEF ShutdownBegins, TypeOK
  <2> QED
    BY <1>11, <2>1 DEF ShutdownBegins, Loop, Looping
<1>12. ASSUME NEW m \in Managers, NextWorkspace(m) PROVE Loop'
  <2>1. /\ daemon = "next" /\ daemon' = "locking" /\ at' = m /\ left' = left \ {m}
        /\ UNCHANGED <<table, globalQueue, initialized>>
        /\ \A n \in Managers \ {m} : lockQueue'[n] = lockQueue[n]
    BY <1>0, <1>12 DEF NextWorkspace, TypeOK
  <2>2. ASSUME NEW w \in Workspaces, table'[w] # Nothing, table'[w] \notin left',
               table'[w] # m
        PROVE  ~initialized'[table'[w]] /\ lockQueue'[table'[w]] = <<>>
    <3>1. table'[w] \in Managers /\ Passed(table[w])
      BY <1>0, <2>1, <2>2 DEF Loop, Looping, TypeOK
    <3> QED
      BY <2>1, <2>2, <3>1 DEF Passed
  <2> QED
    BY <1>k, <2>1, <2>2 DEF Loop, Looping, Passed
\* The manager the loop leaves is now one it has passed.
<1>13. ASSUME daemon \in {"locking", "closing"}, at \in Managers,
              First(lockQueue[at], Daemon), Leave,
              ~initialized'[at],
              \A n \in Managers \ {at} : initialized'[n] = initialized[n],
              daemon' = "next", UNCHANGED <<globalQueue, left, at>>
       PROVE  Loop'
  <2>1. /\ lockQueue'[at] = <<>> /\ table' = table
        /\ \A n \in Managers \ {at} : lockQueue'[n] = lockQueue[n]
    BY <1>0, <1>13, DaemonQuits DEF Leave
  <2>2. ASSUME NEW w \in Workspaces, table'[w] # Nothing, table'[w] \notin left'
        PROVE  ~initialized'[table'[w]] /\ lockQueue'[table'[w]] = <<>>
    <3>1. CASE table'[w] = at
      BY <1>13, <2>1, <3>1 DEF Passed
    <3>2. CASE table'[w] # at
      <4>1. table'[w] \in Managers /\ Passed(table[w])
        BY <1>0, <1>13, <2>1, <2>2, <3>2 DEF Loop, Looping, TypeOK
      <4> QED
        BY <1>13, <2>1, <3>2, <4>1 DEF Passed
    <3> QED
      BY <3>1, <3>2
  <2> QED
    BY <1>k, <1>13, <2>2 DEF Loop, Looping, Passed
<1>14. CASE SkipWorkspace
  BY <1>0, <1>13, <1>14 DEF SkipWorkspace, Loop
<1>15. CASE Close
  <2>1. lockQueue[at] = <<Daemon>> /\ at \in Managers
    BY <1>0, <1>15, DaemonAlone DEF Close, Loop
  <2>2. ASSUME NEW w \in Workspaces, table'[w] # Nothing, table'[w] \notin left',
               table'[w] # at'
        PROVE  ~initialized'[table'[w]] /\ lockQueue'[table'[w]] = <<>>
    BY <1>0, <1>15, <2>2 DEF Close, Loop, Looping, Passed
  <2> QED
    BY <1>k, <1>15, <2>1, <2>2 DEF Close, Loop, Looping, Passed
<1>16. CASE Stopped
  <2>1. at \in Managers /\ lockQueue[at] = <<Daemon>>
    BY <1>0, <1>16 DEF Stopped, Loop
  <2>2. First(lockQueue[at], Daemon)
    BY <2>1, AloneInQueue DEF First
  <2> QED
    BY <1>0, <1>13, <1>16, <2>1, <2>2 DEF Stopped, TypeOK
<1>17. CASE CloseRaises
  BY <1>17 DEF CloseRaises, Loop, Looping
<1>18. CASE Clear
  BY <1>18 DEF Clear, Loop, Looping
<1>19. CASE Exit
  BY <1>19 DEF Exit, Loop, Looping
<1>20. CASE Killed
  BY <1>20 DEF Killed, Loop, Looping
<1>21. CASE UNCHANGED vars
  BY <1>0, <1>k, <1>21, LoopKept DEF vars
<1> QED
  BY <1>1, <1>2, <1>3, <1>5, <1>6, <1>7, <1>8, <1>9, <1>10, <1>11, <1>12,
     <1>14, <1>15, <1>16, <1>17, <1>18, <1>19, <1>20, <1>21
  DEF Next, Request, Shutdown

-----------------------------------------------------------------------------
(* Owned *)

\* A step that touches neither table, managers nor handshakes; a process may
\* die in it.
LEMMA OwnedKept ==
  ASSUME TypeOK, Owned, UNCHANGED <<client, initialized, ready, cwd>>,
         \A w \in Workspaces : table[w] # Nothing => table'[w] = table[w],
         \A s \in Servers : proc'[s] = proc[s] \/ proc'[s] = "dead"
  PROVE  Owned'
<1>1. \A s \in Servers : ready'[s] /\ proc'[s] = "up"
        => \E m \in Managers : client'[m] = s /\ initialized'[m]
  BY DEF Owned
<1>2. \A m \in Managers : initialized'[m]
        => /\ client'[m] \in Servers /\ ready'[client'[m]]
           /\ cwd'[client'[m]] \in Workspaces
           /\ table'[cwd'[client'[m]]] = m
  BY RegistryAssumption DEF Owned
<1>3. \A m \in Managers : client'[m] # Nothing => proc'[client'[m]] # "unborn"
  BY DEF Owned, TypeOK
<1> QED
  BY <1>1, <1>2, <1>3 DEF Owned

\* A manager that is not initialised gets a new client.
LEMMA OwnedNewClient ==
  ASSUME TypeOK, Owned, NEW m \in Managers, ~initialized[m],
         NEW w \in Workspaces, NEW p \in {"starting", "dead"}, NewClient(m, w, p),
         UNCHANGED <<table, initialized>>
  PROVE  Owned'
<1>1. PICK s \in Servers : /\ proc[s] = "unborn" /\ s # Nothing
                           /\ client' = [client EXCEPT ![m] = s]
                           /\ proc' = [proc EXCEPT ![s] = p]
                           /\ cwd' = [cwd EXCEPT ![s] = w]
                           /\ ready' = ready
  BY NewClientEffects
<1>2. ASSUME NEW r \in Servers, ready'[r], proc'[r] = "up"
      PROVE  \E n \in Managers : client'[n] = r /\ initialized'[n]
  <2>1. r # s
    BY <1>1, <1>2 DEF TypeOK
  <2>2. PICK n \in Managers : client[n] = r /\ initialized[n]
    BY <1>1, <1>2, <2>1 DEF Owned, TypeOK
  <2> QED
    BY <1>1, <2>2 DEF TypeOK
<1>3. ASSUME NEW n \in Managers, initialized'[n]
      PROVE  /\ client'[n] \in Servers /\ ready'[client'[n]]
             /\ cwd'[client'[n]] \in Workspaces
             /\ table'[cwd'[client'[n]]] = n
  <2>1. /\ n # m /\ client[n] \in Servers /\ ready[client[n]]
        /\ cwd[client[n]] \in Workspaces /\ table[cwd[client[n]]] = n
        /\ client[n] # s
    BY <1>1, <1>3, RegistryAssumption DEF Owned
  <2> QED
    BY <1>1, <2>1 DEF TypeOK
<1>4. ASSUME NEW n \in Managers, client'[n] # Nothing
      PROVE  proc'[client'[n]] # "unborn"
  BY <1>1, <1>4 DEF Owned, TypeOK
<1> QED
  BY <1>2, <1>3, <1>4 DEF Owned

\* Every step keeps live servers owned by initialised managers.
LEMMA OwnedNext == IInv /\ [Next]_vars => Owned'
<1> SUFFICES ASSUME IInv, [Next]_vars PROVE Owned'
  OBVIOUS
<1>0. TypeOK /\ Owned
  BY DEF IInv
<1> USE DEF tables, clients, tasks, shutting
<1>1. ASSUME NEW t \in Tasks, NEW w \in Workspaces, Arrive(t, w) PROVE Owned'
  BY <1>0, <1>1, OwnedKept DEF Arrive
<1>2. ASSUME NEW t \in Tasks, Lookup(t) PROVE Owned'
  <2>1. \A w \in Workspaces : table[w] # Nothing => table'[w] = table[w]
    BY <1>0, <1>2, LookupEffects DEF TypeOK
  <2>2. UNCHANGED clients
    BY <1>2, LookupEffects
  <2> QED
    BY <1>0, <2>1, <2>2, OwnedKept
<1>3. ASSUME NEW t \in Tasks, LookupFails(t) PROVE Owned'
  BY <1>0, <1>3, OwnedKept DEF LookupFails
<1>4. ASSUME NEW t \in Tasks, Use(t) PROVE Owned'
  BY <1>0, <1>4, OwnedKept DEF Use, Release
<1>5. ASSUME NEW t \in Tasks, Spawn(t) PROVE Owned'
  BY <1>0, <1>5, TaskHolds, OwnedNewClient DEF Spawn
<1>6. ASSUME NEW t \in Tasks, SpawnFails(t) PROVE Owned'
  BY <1>0, <1>6, TaskHolds, OwnedNewClient DEF SpawnFails, Release
<1>7. ASSUME NEW t \in Tasks, InitDone(t) PROVE Owned'
  <2> DEFINE s == client[manager[t]]
  <2>1. /\ manager[t] \in Managers /\ ws[t] \in Workspaces
        /\ table[ws[t]] = manager[t]
    BY <1>7, TaskHolds DEF InitDone
  <2>2. s \in Servers /\ cwd[s] = ws[t]
    BY <1>7 DEF InitDone, IInv, Placed, Place
  <2>3. /\ proc' = [proc EXCEPT ![s] = "up"]
        /\ ready' = [ready EXCEPT ![s] = TRUE]
        /\ initialized' = [initialized EXCEPT ![manager[t]] = TRUE]
        /\ UNCHANGED <<table, client, cwd>>
    BY <1>7 DEF InitDone, Release
  <2>4. ASSUME NEW r \in Servers, ready'[r], proc'[r] = "up"
        PROVE  \E n \in Managers : client'[n] = r /\ initialized'[n]
    <3>1. CASE r = s
      BY <1>0, <2>1, <2>3, <3>1 DEF TypeOK
    <3>2. CASE r # s
      <4>1. PICK n \in Managers : client[n] = r /\ initialized[n]
        BY <1>0, <2>3, <2>4, <3>2 DEF Owned, TypeOK
      <4> QED
        BY <1>0, <2>3, <4>1 DEF TypeOK
    <3> QED
      BY <3>1, <3>2
  <2>5. ASSUME NEW n \in Managers, initialized'[n]
        PROVE  /\ client'[n] \in Servers /\ ready'[client'[n]]
               /\ cwd'[client'[n]] \in Workspaces
               /\ table'[cwd'[client'[n]]] = n
    <3>1. CASE n = manager[t]
      BY <1>0, <2>1, <2>2, <2>3, <3>1 DEF TypeOK
    <3>2. CASE n # manager[t]
      <4>1. /\ client[n] \in Servers /\ ready[client[n]]
            /\ cwd[client[n]] \in Workspaces /\ table[cwd[client[n]]] = n
        BY <1>0, <2>3, <2>5, <3>2 DEF Owned, TypeOK
      <4> QED
        BY <1>0, <2>2, <2>3, <4>1 DEF TypeOK
    <3> QED
      BY <3>1, <3>2
  <2>6. ASSUME NEW n \in Managers, client'[n] # Nothing
        PROVE  proc'[client'[n]] # "unborn"
    BY <1>0, <2>2, <2>3, <2>6 DEF Owned, TypeOK
  <2> QED
    BY <2>4, <2>5, <2>6 DEF Owned
<1>8. ASSUME NEW t \in Tasks, InitFails(t) PROVE Owned'
  BY <1>0, <1>8, OwnedKept DEF InitFails, Release
<1>9. ASSUME NEW t \in Tasks, RequestEnds(t) PROVE Owned'
  BY <1>0, <1>9, OwnedKept DEF RequestEnds
<1>10. ASSUME NEW s \in Servers, Crash(s) PROVE Owned'
  BY <1>0, <1>10, OwnedKept DEF Crash, TypeOK
<1>11. CASE Sigterm
  BY <1>0, <1>11, OwnedKept DEF Sigterm
<1>12. CASE ShutdownBegins
  BY <1>0, <1>12, OwnedKept DEF ShutdownBegins
<1>13. ASSUME NEW m \in Managers, NextWorkspace(m) PROVE Owned'
  BY <1>0, <1>13, OwnedKept DEF NextWorkspace
<1>14. CASE SkipWorkspace
  BY <1>0, <1>14, OwnedKept DEF SkipWorkspace, Leave
<1>15. CASE Close
  BY <1>0, <1>15, OwnedKept DEF Close
<1>16. CASE Stopped
  <2> DEFINE s == client[at]
  <2>1. at \in Managers /\ initialized[at]
    BY <1>16 DEF Stopped, IInv, Loop
  <2>2. s \in Servers /\ cwd[s] \in Workspaces /\ table[cwd[s]] = at
    BY <1>0, <2>1 DEF Owned
  <2>3. /\ proc' = [proc EXCEPT ![s] = IF @ = "dead" THEN @ ELSE "stopped"]
        /\ ready' = [ready EXCEPT ![s] = FALSE]
        /\ client' = [client EXCEPT ![at] = Nothing]
        /\ initialized' = [initialized EXCEPT ![at] = FALSE]
        /\ UNCHANGED <<table, cwd>>
    BY <1>16 DEF Stopped, Leave
  <2>4. ASSUME NEW r \in Servers, ready'[r], proc'[r] = "up"
        PROVE  \E n \in Managers : client'[n] = r /\ initialized'[n]
    <3>1. r # s
      BY <1>0, <2>3, <2>4 DEF TypeOK
    <3>2. PICK n \in Managers : client[n] = r /\ initialized[n]
      BY <1>0, <2>3, <2>4, <3>1 DEF Owned, TypeOK
    <3> QED
      BY <1>0, <2>3, <3>1, <3>2 DEF TypeOK
  <2>5. ASSUME NEW n \in Managers, initialized'[n]
        PROVE  /\ client'[n] \in Servers /\ ready'[client'[n]]
               /\ cwd'[client'[n]] \in Workspaces
               /\ table'[cwd'[client'[n]]] = n
    <3>1. n # at /\ initialized[n]
      BY <1>0, <2>1, <2>3, <2>5 DEF TypeOK
    <3>2. /\ client[n] \in Servers /\ ready[client[n]]
          /\ cwd[client[n]] \in Workspaces /\ table[cwd[client[n]]] = n
      BY <1>0, <3>1 DEF Owned
    <3>3. client[n] # s
      BY <2>2, <3>1, <3>2
    <3> QED
      BY <1>0, <2>3, <3>1, <3>2, <3>3 DEF TypeOK
  <2>6. ASSUME NEW n \in Managers, client'[n] # Nothing
        PROVE  proc'[client'[n]] # "unborn"
    BY <1>0, <2>1, <2>2, <2>3, <2>6 DEF Owned, TypeOK
  <2> QED
    BY <2>4, <2>5, <2>6 DEF Owned
<1>17. CASE CloseRaises
  BY <1>0, <1>17, OwnedKept DEF CloseRaises, Leave
\* No manager is initialised any more when the table is cleared.
<1>18. CASE Clear
  <2>1. ASSUME NEW m \in Managers PROVE ~initialized[m]
    <3>1. SUFFICES ASSUME initialized[m] PROVE FALSE
      OBVIOUS
    <3>2. /\ cwd[client[m]] \in Workspaces /\ table[cwd[client[m]]] = m
          /\ m # Nothing
      BY <1>0, <3>1, RegistryAssumption DEF Owned
    <3>3. Passed(m)
      BY <1>18, <3>2 DEF Clear, IInv, Loop, Looping
    <3> QED
      BY <3>1, <3>3 DEF Passed
  <2> QED
    BY <1>0, <1>18, <2>1 DEF Clear, Owned
<1>19. CASE Exit
  BY <1>0, <1>19, OwnedKept DEF Exit
<1>20. CASE Killed
  BY <1>0, <1>20, OwnedKept DEF Killed
<1>21. CASE UNCHANGED vars
  BY <1>0, <1>21, OwnedKept DEF vars
<1> QED
  BY <1>1, <1>2, <1>3, <1>4, <1>5, <1>6, <1>7, <1>8, <1>9, <1>10, <1>11, <1>12,
     <1>13, <1>14, <1>15, <1>16, <1>17, <1>18, <1>19, <1>20, <1>21
  DEF Next, Request, Shutdown
-----------------------------------------------------------------------------
(* The theorems.                                                           *)

\* The inductive invariant holds at first.
LEMMA IInvInit == Init => IInv
<1> SUFFICES ASSUME Init PROVE IInv
  OBVIOUS
<1>1. TypeOK
  BY TypeInit
<1>2. Named /\ Placed /\ Loop /\ Owned
  BY RegistryAssumption DEF Init, Named, Placed, Place, Loop, Looping, Owned
<1>3. DaemonLast
  <2>1. \A m \in Managers : lockQueue[m] = <<>>
    BY DEF Init
  <2> QED
    BY <2>1 DEF DaemonLast
<1> QED
  BY <1>1, <1>2, <1>3 DEF IInv

\* Every step keeps the inductive invariant.
LEMMA IInvNext == IInv /\ [Next]_vars => IInv'
BY TypeNext, NamedNext, PlacedNext, DaemonLastNext, LoopNext, OwnedNext DEF IInv

\* The inductive invariant holds for good.
LEMMA Invariance == Spec => []IInv
BY IInvInit, IInvNext, PTL DEF Spec

\* Every variable has its type, and ensure_initialized's assertion holds: an
\* initialised manager has a client.
THEOREM TypeCorrect == Spec => []TypeOK
<1>1. IInv => TypeOK
  BY DEF IInv
<1> QED
  BY <1>1, Invariance, PTL

\* A workspace never has two live servers past their handshake: the owners
\* of both are the one manager of the workspace.
THEOREM OneReadyServerHolds == Spec => []OneReadyServer
<1>1. IInv => OneReadyServer
  <2> SUFFICES ASSUME IInv, NEW s1 \in Servers, NEW s2 \in Servers,
                      ready[s1], proc[s1] = "up", ready[s2], proc[s2] = "up",
                      cwd[s1] = cwd[s2]
               PROVE  s1 = s2
    BY DEF OneReadyServer
  <2>1. PICK m1 \in Managers : client[m1] = s1 /\ initialized[m1]
    BY DEF IInv, Owned
  <2>2. PICK m2 \in Managers : client[m2] = s2 /\ initialized[m2]
    BY DEF IInv, Owned
  <2>3. m1 = table[cwd[s1]] /\ m2 = table[cwd[s2]]
    BY <2>1, <2>2 DEF IInv, Owned
  <2> QED
    BY <2>1, <2>2, <2>3
<1> QED
  BY <1>1, Invariance, PTL

\* A request is sent to a client that has shaken hands, in the request's own
\* workspace.
THEOREM RequestsAfterHandshakeHolds == Spec => RequestsAfterHandshake
<1> DEFINE A == \A t \in Tasks : pc[t] # "waiting" /\ pc'[t] = "waiting"
                  => ready'[using'[t]] /\ cwd'[using'[t]] = ws[t]
<1>1. IInv /\ [Next]_vars => [A]_vars
  <2> SUFFICES ASSUME IInv, Next, NEW u \in Tasks,
                      pc[u] # "waiting", pc'[u] = "waiting"
               PROVE  ready'[using'[u]] /\ cwd'[using'[u]] = ws[u]
    OBVIOUS
  <2>0. TypeOK /\ Named /\ Owned
    BY DEF IInv
  <2> USE DEF tables, clients, tasks, shutting
  <2>1. Use(u) \/ InitDone(u)
    <3>1. ASSUME NEW t \in Tasks, Request(t) PROVE t = u /\ (Use(u) \/ InitDone(u))
      BY <2>0, <3>1
      DEF Request, Arrive, Lookup, Create, Reuse, Found, LookupFails, Use, Spawn,
          SpawnFails, InitDone, InitFails, RequestEnds, Done, TypeOK
    <3>2. ASSUME NEW s \in Servers, Crash(s) PROVE FALSE
      BY <3>2 DEF Crash
    <3>3. CASE Sigterm \/ Shutdown
      BY <3>3 DEF Sigterm, Shutdown, ShutdownBegins, NextWorkspace, SkipWorkspace,
        Close, Stopped, CloseRaises, Clear, Exit
    <3>4. CASE Killed
      BY <2>0, <3>4 DEF Killed, TypeOK
    <3> QED
      BY <3>1, <3>2, <3>3, <3>4 DEF Next
  <2>2. CASE Use(u)
    <3>1. /\ manager[u] \in Managers /\ ws[u] \in Workspaces
          /\ table[ws[u]] = manager[u]
      BY <2>2, TaskHolds DEF Use
    <3>2. /\ ready[client[manager[u]]] /\ cwd[client[manager[u]]] \in Workspaces
          /\ table[cwd[client[manager[u]]]] = manager[u]
      BY <2>0, <2>2, <3>1 DEF Use, Owned
    <3>3. cwd[client[manager[u]]] = ws[u]
      BY <2>0, <3>1, <3>2, RegistryAssumption DEF Named
    <3>4. using'[u] = client[manager[u]] /\ UNCHANGED <<ready, cwd>>
      BY <2>0, <2>2 DEF Use, TypeOK
    <3> QED
      BY <3>2, <3>3, <3>4
  <2>3. CASE InitDone(u)
    <3>1. client[manager[u]] \in Servers /\ cwd[client[manager[u]]] = ws[u]
      BY <2>3 DEF InitDone, IInv, Placed, Place
    <3> QED
      BY <2>0, <2>3, <3>1 DEF InitDone, TypeOK
  <2> QED
    BY <2>1, <2>2, <2>3
<1> QED
  BY <1>1, Invariance, PTL DEF Spec, RequestsAfterHandshake

\* shutdown_all leaves its loop only when no server that finished its
\* handshake is alive, unless an exception cut it short.
THEOREM ShutdownCompleteHolds == Spec => ShutdownComplete
<1> DEFINE A == daemon = "next" /\ daemon' = "stopping"
                  => \A s \in Servers : ready[s] => proc[s] # "up"
<1>1. IInv /\ [Next]_vars => [A]_vars
  <2> SUFFICES ASSUME IInv, Next, daemon = "next", daemon' = "stopping",
                      NEW s \in Servers, ready[s], proc[s] = "up"
               PROVE  FALSE
    OBVIOUS
  <2>1. left = {}
    <3>1. ASSUME NEW t \in Tasks, Request(t) PROVE FALSE
      BY <3>1
      DEF Request, Arrive, Lookup, Create, Reuse, Found, LookupFails, Use, Spawn,
          SpawnFails, InitDone, InitFails, RequestEnds, shutting
    <3> QED
      BY <3>1
      DEF Next, Crash, Sigterm, Shutdown, ShutdownBegins, NextWorkspace,
          SkipWorkspace, Close, Stopped, CloseRaises, Clear, Exit, Killed, shutting
  <2>2. PICK m \in Managers : client[m] = s /\ initialized[m]
    BY DEF IInv, Owned
  <2>3. cwd[s] \in Workspaces /\ table[cwd[s]] = m /\ m # Nothing
    BY <2>2, RegistryAssumption DEF IInv, Owned
  <2>4. Passed(m)
    BY <2>1, <2>3 DEF IInv, Loop, Looping
  <2> QED
    BY <2>2, <2>4 DEF Passed
<1> QED
  BY <1>1, Invariance, PTL DEF Spec, ShutdownComplete

\* The loop of shutdown_all iterates over a table nobody changes.
THEOREM TableSteadyHolds == Spec => TableSteady
<1> DEFINE A == Looping /\ daemon' # "stopping" => table' = table
<1>1. IInv /\ [Next]_vars => [A]_vars
  <2> SUFFICES ASSUME IInv, Next, Looping, daemon' # "stopping" PROVE table' = table
    OBVIOUS
  <2>1. ASSUME NEW t \in Tasks, Request(t) PROVE table' = table
    <3>1. ~Lookup(t)
      BY LookupEffects
    <3> QED
      BY <2>1, <3>1
      DEF Request, Arrive, LookupFails, Use, Spawn, SpawnFails, InitDone, InitFails,
          RequestEnds, Release, tables
  <2> QED
    BY <2>1
    DEF Next, Crash, Sigterm, Shutdown, ShutdownBegins, NextWorkspace, SkipWorkspace,
        Close, Stopped, CloseRaises, Clear, Exit, Killed, Leave, tables
<1> QED
  BY <1>1, Invariance, PTL DEF Spec, TableSteady
=============================================================================
