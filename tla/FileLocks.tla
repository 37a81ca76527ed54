----------------------------- MODULE FileLocks -----------------------------
(***************************************************************************)
(* RequestHandler._get_file_lock and the "async with lock" of the handlers *)
(* that use it (daemon/handler.py): an LRU table of asyncio locks, one per *)
(* file, and requests that hold a lock while they talk to the server.      *)
(***************************************************************************)
EXTENDS Naturals, Sequences

CONSTANTS
  Files,
  Tasks,      \* requests for diagnostics or symbols; each value is one
  Locks,      \* lock objects; enough of them for every table and request
  MaxLocks,   \* _FILE_LOCKS_MAX
  NoLock,     \* no lock object
  NoFile      \* a request that has not arrived

ASSUME FileLocksAssumption ==
  /\ MaxLocks \in Nat /\ MaxLocks >= 2
  /\ NoLock \notin Locks
  /\ NoFile \notin Files

VARIABLES
  table,      \* the keys of _file_locks, least recently used first
  lock,       \* the lock object stored for each file of the table
  file,       \* the file each request is about
  lockOf,     \* the lock object each request got from the table
  queue,      \* the waiters of each lock, the holder first
  pc,         \* "idle", "waiting" for the lock, "inside", "done"
  lostInUse   \* history: files whose lock left the table with a request on it

vars == <<table, lock, file, lockOf, queue, pc, lostInUse>>

InTable(f) == \E k \in 1 .. Len(table) : table[k] = f
Active(t) == pc[t] \in {"waiting", "inside"}

Init ==
  /\ table = <<>>
  /\ lock = [f \in Files |-> NoLock]
  /\ file = [t \in Tasks |-> NoFile]
  /\ lockOf = [t \in Tasks |-> NoLock]
  /\ queue = [l \in Locks |-> <<>>]
  /\ pc = [t \in Tasks |-> "idle"]
  /\ lostInUse = {}

\* asyncio.Lock(): an object nobody refers to stands for the new one.
Free(l) ==
  /\ \A f \in Files : lock[f] # l
  /\ \A t \in Tasks : lockOf[t] # l
NewLock == CHOOSE l \in Locks : Free(l)

\* The table with its p-th key moved to the end.
MovedToEnd(p) ==
  [k \in 1 .. Len(table) |-> CASE k < p -> table[k]
                              [] k >= p /\ k < Len(table) -> table[k + 1]
                              [] k = Len(table) -> table[p]]

\* Faulty variant: one entry over the limit is tolerated.
SurplusLate == IF Len(table) > MaxLocks THEN MaxLocks \div 2 ELSE 0

\* Entries popitem(last=False) removes when the table is full.
Surplus == IF Len(table) >= MaxLocks THEN MaxLocks \div 2 ELSE 0
Evicted == {table[k] : k \in 1 .. Surplus}

\* The request takes its place among the waiters; asyncio.Lock is FIFO.
Enqueue(t, f, l) ==
  /\ file' = [file EXCEPT ![t] = f]
  /\ lockOf' = [lockOf EXCEPT ![t] = l]
  /\ queue' = [queue EXCEPT ![l] = Append(@, t)]
  /\ pc' = [pc EXCEPT ![t] = "waiting"]

\* Faulty variant: a known file gets a new lock object.
GetKnownAnew(t, f) ==
  /\ pc[t] = "idle"
  /\ \E p \in 1 .. Len(table) : table[p] = f /\ table' = MovedToEnd(p)
  /\ \E l \in Locks : Free(l)
  /\ lock' = [lock EXCEPT ![f] = NewLock]
  /\ Enqueue(t, f, NewLock)
  /\ UNCHANGED lostInUse

\* _get_file_lock, the file is in the table: move_to_end.
GetKnown(t, f) ==
  /\ pc[t] = "idle"
  /\ \E p \in 1 .. Len(table) : table[p] = f /\ table' = MovedToEnd(p)
  /\ Enqueue(t, f, lock[f])
  /\ UNCHANGED <<lock, lostInUse>>

\* _get_file_lock, a new file: the oldest half goes when the table is full,
\* held or not, and a new lock object is stored.
GetNew(t, f) ==
  /\ pc[t] = "idle"
  /\ ~InTable(f)
  /\ table' = Append(SubSeq(table, Surplus + 1, Len(table)), f)
  /\ lostInUse' = lostInUse \cup
                    {g \in Evicted : \E u \in Tasks : Active(u) /\ file[u] = g}
  /\ \E l \in Locks : Free(l)
  /\ lock' = [g \in Files |-> CASE g = f -> NewLock
                                [] g # f /\ g \in Evicted -> NoLock
                                [] OTHER -> lock[g]]
  /\ Enqueue(t, f, NewLock)

Acquire(t) ==
  /\ pc[t] = "waiting"
  /\ queue[lockOf[t]] # <<>>
  /\ Head(queue[lockOf[t]]) = t
  /\ pc' = [pc EXCEPT ![t] = "inside"]
  /\ UNCHANGED <<table, lock, file, lockOf, queue, lostInUse>>

\* Faulty variant: the lock is not released on the way out.
LeaveHolding(t) ==
  /\ pc[t] = "inside"
  /\ pc' = [pc EXCEPT ![t] = "done"]
  /\ UNCHANGED <<table, lock, file, lockOf, queue, lostInUse>>

\* The body ends, normally or with an exception, and the lock is released.
Leave(t) ==
  /\ pc[t] = "inside"
  /\ pc' = [pc EXCEPT ![t] = "done"]
  /\ queue' = [queue EXCEPT ![lockOf[t]] = Tail(@)]
  /\ lockOf' = [lockOf EXCEPT ![t] = NoLock]
  /\ UNCHANGED <<table, lock, file, lostInUse>>

TaskStep(t) == Acquire(t) \/ Leave(t)

Next ==
  \E t \in Tasks :
    \/ \E f \in Files : GetKnown(t, f) \/ GetNew(t, f)
    \/ TaskStep(t)

Spec == Init /\ [][Next]_vars

\* The event loop wakes the next waiter, and every body ends because its
\* request to the language server is answered or times out (if the server
\* reads its stdin: Transport tells what happens when it does not).
FairSpec == Spec /\ \A t \in Tasks : WF_vars(TaskStep(t))
-----------------------------------------------------------------------------
\* The table is a dict: no key twice.
UniqueKeys == \A j, k \in 1 .. Len(table) : table[j] = table[k] => j = k

\* Every variable has its type, and the table no key twice.
TypeOK ==
  /\ table \in Seq(Files)
  /\ UniqueKeys
  /\ lock \in [Files -> Locks \cup {NoLock}]
  /\ file \in [Tasks -> Files \cup {NoFile}]
  /\ lockOf \in [Tasks -> Locks \cup {NoLock}]
  /\ queue \in [Locks -> Seq(Tasks)]
  /\ pc \in [Tasks -> {"idle", "waiting", "inside", "done"}]
  /\ lostInUse \subseteq Files

\* The table never outgrows _FILE_LOCKS_MAX (_get_file_lock).
Bounded == Len(table) <= MaxLocks

\* Requests for a file are inside one at a time as long as the table never
\* drops the lock of that file with a request on it (_get_file_lock).
SerializedUnlessLost ==
  \A t, u \in Tasks :
    pc[t] = "inside" /\ pc[u] = "inside" /\ file[t] = file[u] /\ t # u
      => file[t] \in lostInUse

\* Every request gets its turn, whatever the table forgets meanwhile.
EveryRequestEnds == \A t \in Tasks : pc[t] = "waiting" ~> pc[t] = "done"
=============================================================================
