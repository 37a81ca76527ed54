-------------------------- MODULE EventLoopProofs --------------------------
(* LocksInvariance theorems about the two queues the event loop of the daemon     *)
(* keeps in order: the waiters of the file locks (FileLocks), and the tasks  *)
(* made of notifications (Progress). They hold for any files, requests,      *)
(* works and sizes of the table.                                             *)
EXTENDS FileLocks, Progress, TLAPS

-----------------------------------------------------------------------------
(* Sequences as queues.                                                      *)

\* Taking the first element leaves the others, one place nearer.
LEMMA HeadTail ==
  ASSUME NEW S, NEW s \in Seq(S), s # <<>>
  PROVE  /\ Head(s) \in S
         /\ Head(s) = s[1]
         /\ Len(s) \in Nat
         /\ 1 \in 1 .. Len(s)
         /\ Tail(s) \in Seq(S)
         /\ Len(Tail(s)) = Len(s) - 1
         /\ \A k \in 1 .. Len(Tail(s)) :
              k + 1 \in 1 .. Len(s) /\ Tail(s)[k] = s[k + 1]
OBVIOUS

\* Appending adds an element behind the others.
LEMMA Appended ==
  ASSUME NEW S, NEW s \in Seq(S), NEW e \in S
  PROVE  /\ Append(s, e) \in Seq(S)
         /\ Append(s, e) # <<>>
         /\ Len(s) \in Nat
         /\ Len(Append(s, e)) = Len(s) + 1
         /\ Append(s, e)[Len(s) + 1] = e
         /\ s # <<>> => Head(Append(s, e)) = Head(s)
         /\ \A k \in 1 .. Len(s) :
              k \in 1 .. Len(Append(s, e)) /\ Append(s, e)[k] = s[k]
<1>1. /\ Append(s, e) \in Seq(S) /\ Len(s) \in Nat
      /\ Len(Append(s, e)) = Len(s) + 1
      /\ Append(s, e)[Len(s) + 1] = e
      /\ \A k \in 1 .. Len(s) : Append(s, e)[k] = s[k]
  OBVIOUS
<1>2. Append(s, e) # <<>>
  BY <1>1
<1>3. ASSUME s # <<>> PROVE Head(Append(s, e)) = Head(s)
  <2>1. Len(s) # 0 /\ Head(s) = s[1]
    BY <1>3
  <2>2. Head(Append(s, e)) = Append(s, e)[1]
    BY <1>1, <1>2
  <2> QED
    BY <1>1, <2>1, <2>2
<1> QED
  BY <1>1, <1>2, <1>3

-----------------------------------------------------------------------------
(* FileLocks.                                                                *)


\* A request holds the lock object stored for its file, unless the table
\* dropped that lock while a request was on it.
StoredLock ==
  \A t \in Tasks :
    Active(t) /\ file[t] \notin lostInUse
      => InTable(file[t]) /\ lockOf[t] = lock[file[t]]

\* The request inside is the first of its lock's queue.
InsideFirst ==
  \A t \in Tasks :
    /\ Active(t) => file[t] \in Files /\ lockOf[t] \in Locks
    /\ pc[t] = "inside" => /\ queue[lockOf[t]] # <<>>
                           /\ Head(queue[lockOf[t]]) = t

StoredObjects == \A f \in Files : InTable(f) => lock[f] \in Locks

LocksInv ==
  TypeOK /\ Bounded /\ StoredObjects /\ StoredLock /\ InsideFirst

-----------------------------------------------------------------------------
\* The lock object created for a file was referred to by nobody.
LEMMA NewLockFree ==
  ASSUME \E l \in Locks : Free(l)
  PROVE  NewLock \in Locks /\ Free(NewLock)
BY DEF NewLock

\* Moving a key to the end keeps the length and the keys.
LEMMA MoveKeeps ==
  ASSUME TypeOK, NEW p \in 1 .. Len(table), table' = MovedToEnd(p)
  PROVE  /\ table' \in Seq(Files)
         /\ Len(table') = Len(table)
         /\ \A g : InTable(g) <=> InTable(g)'
         /\ UniqueKeys'
<1> DEFINE n == Len(table)
<1>1. n \in Nat /\ \A k \in 1 .. n : table[k] \in Files
  BY DEF TypeOK
<1>2. /\ table' = [k \in 1 .. n |-> IF k < p THEN table[k]
                                    ELSE IF k < n THEN table[k + 1] ELSE table[p]]
  BY <1>1 DEF MovedToEnd
<1> HIDE DEF n
<1>3. table' \in Seq(Files) /\ Len(table') = n
  BY <1>1, <1>2
<1>4. ASSUME NEW g, NEW k \in 1 .. n, table[k] = g
      PROVE  \E j \in 1 .. n : table'[j] = g
  <2>1. CASE k < p
    BY <1>1, <1>2, <1>4, <2>1
  <2>2. CASE k = p
    <3>1. n \in 1 .. n /\ table'[n] = g
      BY <1>1, <1>2, <1>4, <2>2
    <3> QED
      BY <3>1
  <2>3. CASE k > p
    <3>1. k - 1 \in 1 .. n /\ table'[k - 1] = g
      BY <1>1, <1>2, <1>4, <2>3
    <3> QED
      BY <3>1
  <2> QED
    BY <1>1, <2>1, <2>2, <2>3
<1>5. ASSUME NEW g, NEW j \in 1 .. n, table'[j] = g
      PROVE  \E k \in 1 .. n : table[k] = g
  BY <1>1, <1>2, <1>5
<1>6. ASSUME NEW j \in 1 .. n, NEW k \in 1 .. n, table'[j] = table'[k]
      PROVE  j = k
  <2>1. \A i, h \in 1 .. n : table[i] = table[h] => i = h
    BY DEF TypeOK, UniqueKeys, n
  <2> QED
    BY <1>1, <1>2, <1>6, <2>1
<1> QED
  BY <1>3, <1>4, <1>5, <1>6 DEF InTable, UniqueKeys, n

\* A new key takes the place of the evicted ones.
LEMMA NewKey ==
  ASSUME TypeOK, FileLocksAssumption, Bounded, NEW f \in Files,
         table' = Append(SubSeq(table, Surplus + 1, Len(table)), f)
  PROVE  /\ table' \in Seq(Files)
         /\ Len(table') <= MaxLocks
         /\ \A g : InTable(g)' <=> \/ g = f
                                 \/ \E k \in 1 .. Len(table) :
                                      k > Surplus /\ table[k] = g
         /\ ~InTable(f) => UniqueKeys'
<1> DEFINE n == Len(table)
<1> DEFINE s == Surplus
<1>1. n \in Nat /\ n <= MaxLocks /\ table \in Seq(Files)
  BY DEF TypeOK, Bounded
<1>2. s \in Nat /\ s <= n /\ n - s + 1 <= MaxLocks
  BY <1>1 DEF Surplus, FileLocksAssumption
<1> HIDE DEF n, s
<1>3. /\ Len(table') = n - s + 1
      /\ table' \in Seq(Files)
      /\ \A j \in 1 .. n - s + 1 :
           table'[j] = IF j = n - s + 1 THEN f ELSE table[j + s]
  <2>1. SubSeq(table, s + 1, n) \in Seq(Files)
        /\ Len(SubSeq(table, s + 1, n)) = n - s
        /\ \A j \in 1 .. n - s : SubSeq(table, s + 1, n)[j] = table[j + s]
    BY <1>1, <1>2 DEF n
  <2> QED
    BY <1>1, <1>2, <2>1 DEF n, s
<1>4. ASSUME NEW g, g = f \/ \E k \in 1 .. n : k > s /\ table[k] = g
      PROVE  \E j \in 1 .. n - s + 1 : table'[j] = g
  <2>1. CASE g = f
    <3>1. n - s + 1 \in 1 .. n - s + 1 /\ table'[n - s + 1] = g
      BY <1>1, <1>2, <1>3, <2>1
    <3> QED
      BY <3>1
  <2>2. CASE \E k \in 1 .. n : k > s /\ table[k] = g
    <3>1. PICK k \in 1 .. n : k > s /\ table[k] = g
      BY <2>2
    <3>2. k - s \in 1 .. n - s + 1 /\ k - s # n - s + 1 /\ (k - s) + s = k
      BY <1>1, <1>2, <3>1
    <3>3. table'[k - s] = g
      BY <1>3, <3>1, <3>2
    <3> QED
      BY <3>2, <3>3
  <2> QED
    BY <1>4, <2>1, <2>2
<1>5. ASSUME NEW g, NEW j \in 1 .. n - s + 1, table'[j] = g
      PROVE  g = f \/ \E k \in 1 .. n : k > s /\ table[k] = g
  <2>1. CASE j = n - s + 1
    BY <1>1, <1>2, <1>3, <1>5, <2>1
  <2>2. CASE j # n - s + 1
    <3>1. j + s \in 1 .. n /\ j + s > s
      BY <1>1, <1>2, <2>2
    <3>2. table[j + s] = g
      BY <1>3, <1>5, <2>2
    <3> QED
      BY <3>1, <3>2
  <2> QED
    BY <2>1, <2>2
<1>6. ASSUME \A k \in 1 .. n : table[k] # f,
             NEW j \in 1 .. n - s + 1, NEW k \in 1 .. n - s + 1,
             table'[j] = table'[k]
      PROVE  j = k
  <2>1. \A i, h \in 1 .. n : table[i] = table[h] => i = h
    BY DEF TypeOK, UniqueKeys, n
  <2>2. CASE j = n - s + 1 \/ k = n - s + 1
    <3>1. \A i \in 1 .. n - s + 1 : table'[i] = f => i = n - s + 1
      <4> SUFFICES ASSUME NEW i \in 1 .. n - s + 1, i # n - s + 1
                   PROVE  table'[i] # f
        OBVIOUS
      <4>1. i + s \in 1 .. n /\ table'[i] = table[i + s]
        BY <1>1, <1>2, <1>3
      <4> QED
        BY <1>6, <4>1
    <3>2. n - s + 1 \in 1 .. n - s + 1 /\ table'[n - s + 1] = f
      BY <1>1, <1>2, <1>3
    <3> QED
      BY <1>6, <2>2, <3>1, <3>2
  <2>3. CASE j # n - s + 1 /\ k # n - s + 1
    <3>1. j + s \in 1 .. n /\ k + s \in 1 .. n
      BY <1>1, <1>2, <2>3
    <3>2. table[j + s] = table[k + s]
      BY <1>3, <1>6, <2>3
    <3>3. j + s = k + s
      BY <2>1, <3>1, <3>2
    <3> QED
      BY <1>2, <3>3
  <2> QED
    BY <2>2, <2>3
<1> QED
  BY <1>2, <1>3, <1>4, <1>5, <1>6 DEF InTable, UniqueKeys, n, s
-----------------------------------------------------------------------------
\* The inductive invariant holds at first.
LEMMA LocksInvInit == Init => LocksInv
BY FileLocksAssumption
   DEF Init, LocksInv, TypeOK, Bounded, UniqueKeys, StoredObjects, StoredLock,
       InsideFirst, InTable, Active

\* Joining a queue leaves its first request where it is.
LEMMA Enqueued ==
  ASSUME LocksInv, NEW t \in Tasks, NEW f \in Files, NEW l \in Locks,
         pc[t] = "idle", Enqueue(t, f, l)
  PROVE  /\ file' \in [Tasks -> Files \cup {NoFile}]
         /\ lockOf' \in [Tasks -> Locks \cup {NoLock}]
         /\ queue' \in [Locks -> Seq(Tasks)]
         /\ pc' \in [Tasks -> {"idle", "waiting", "inside", "done"}]
         /\ InsideFirst'
<1>1. queue' \in [Locks -> Seq(Tasks)]
  BY DEF LocksInv, TypeOK, Enqueue
<1>2. \A m \in Locks : queue[m] # <<>>
        => queue'[m] # <<>> /\ Head(queue'[m]) = Head(queue[m])
  BY DEF LocksInv, TypeOK, Enqueue
<1>3. \A u \in Tasks \ {t} :
        file'[u] = file[u] /\ lockOf'[u] = lockOf[u] /\ pc'[u] = pc[u]
  BY DEF LocksInv, TypeOK, Enqueue
<1>4. file'[t] = f /\ lockOf'[t] = l /\ pc'[t] = "waiting"
  BY DEF LocksInv, TypeOK, Enqueue
<1>5. InsideFirst'
  BY <1>2, <1>3, <1>4 DEF LocksInv, InsideFirst, Active
<1> QED
  BY <1>1, <1>5 DEF LocksInv, TypeOK, Enqueue

\* Every step keeps the inductive invariant.
LEMMA LocksInvNext == LocksInv /\ [Next]_vars => LocksInv'
<1> SUFFICES ASSUME LocksInv, [Next]_vars PROVE LocksInv'
  OBVIOUS
<1> USE FileLocksAssumption
<1>1. ASSUME NEW t \in Tasks, NEW f \in Files, GetKnown(t, f) PROVE LocksInv'
  <2>1. PICK p \in 1 .. Len(table) : table' = MovedToEnd(p)
    BY <1>1 DEF GetKnown
  <2>2. /\ table' \in Seq(Files) /\ Len(table') = Len(table) /\ UniqueKeys'
        /\ \A g : InTable(g) <=> InTable(g)'
    BY <2>1, MoveKeeps DEF LocksInv
  <2>3. lock[f] \in Locks /\ InTable(f) /\ lock' = lock /\ lostInUse' = lostInUse
        /\ pc[t] = "idle" /\ Enqueue(t, f, lock[f])
    BY <1>1 DEF GetKnown, LocksInv, StoredObjects, InTable
  <2>4. /\ file' \in [Tasks -> Files \cup {NoFile}]
        /\ lockOf' \in [Tasks -> Locks \cup {NoLock}]
        /\ queue' \in [Locks -> Seq(Tasks)]
        /\ pc' \in [Tasks -> {"idle", "waiting", "inside", "done"}]
        /\ InsideFirst'
    BY <2>3, Enqueued
  <2>5. TypeOK' /\ Bounded' /\ StoredObjects'
    BY <2>2, <2>3, <2>4 DEF LocksInv, TypeOK, Bounded, StoredObjects
  <2>6. StoredLock'
    BY <2>2, <2>3 DEF LocksInv, TypeOK, StoredLock, Active, Enqueue
  <2> QED
    BY <2>4, <2>5, <2>6 DEF LocksInv
<1>2. ASSUME NEW t \in Tasks, NEW f \in Files, GetNew(t, f) PROVE LocksInv'
  <2>1. NewLock \in Locks /\ pc[t] = "idle" /\ Enqueue(t, f, NewLock)
    BY <1>2, NewLockFree DEF GetNew
  <2>2. /\ table' \in Seq(Files) /\ Len(table') <= MaxLocks /\ UniqueKeys'
        /\ \A g : InTable(g)' <=> \/ g = f
                                 \/ \E k \in 1 .. Len(table) :
                                      k > Surplus /\ table[k] = g
    BY <1>2, NewKey DEF GetNew, LocksInv
  <2>3. /\ file' \in [Tasks -> Files \cup {NoFile}]
        /\ lockOf' \in [Tasks -> Locks \cup {NoLock}]
        /\ queue' \in [Locks -> Seq(Tasks)]
        /\ pc' \in [Tasks -> {"idle", "waiting", "inside", "done"}]
        /\ InsideFirst'
    BY <2>1, Enqueued
  <2>4. Surplus \in Nat /\ Surplus <= Len(table) /\ Len(table) \in Nat
    BY DEF Surplus, LocksInv, TypeOK, Bounded, FileLocksAssumption
  <2>5. \A g \in Files : InTable(g)' /\ g # f => InTable(g) /\ g \notin Evicted
    <3> SUFFICES ASSUME NEW g \in Files, InTable(g)', g # f
                 PROVE  InTable(g) /\ g \notin Evicted
      OBVIOUS
    <3>1. PICK k \in 1 .. Len(table) : k > Surplus /\ table[k] = g
      BY <2>2
    <3> QED
      BY <2>4, <3>1 DEF InTable, Evicted, LocksInv, TypeOK, UniqueKeys
  <2>6. \A g \in Files : InTable(g) /\ g \notin Evicted => InTable(g)' /\ g # f
    <3> SUFFICES ASSUME NEW g \in Files, InTable(g), g \notin Evicted
                 PROVE  InTable(g)' /\ g # f
      OBVIOUS
    <3>1. PICK k \in 1 .. Len(table) : table[k] = g
      BY DEF InTable
    <3>2. k > Surplus
      BY <2>4, <3>1 DEF Evicted
    <3> QED
      BY <1>2, <2>2, <3>1, <3>2 DEF GetNew
  <2>7. /\ lock'[f] = NewLock
        /\ \A g \in Files : g # f /\ g \notin Evicted => lock'[g] = lock[g]
        /\ lock' \in [Files -> Locks \cup {NoLock}]
    BY <1>2, <2>1 DEF GetNew, LocksInv, TypeOK
  <2>8. TypeOK' /\ Bounded' /\ StoredObjects'
    <3>1. lostInUse' \subseteq Files
      BY <1>2, <2>4 DEF GetNew, Evicted, LocksInv, TypeOK
    <3> QED
      BY <2>1, <2>2, <2>3, <2>5, <2>7, <3>1
      DEF LocksInv, TypeOK, Bounded, StoredObjects
  <2>9. StoredLock'
    <3> SUFFICES ASSUME NEW u \in Tasks, Active(u)', file'[u] \notin lostInUse'
                 PROVE  InTable(file[u])' /\ lockOf'[u] = lock'[file'[u]]
      BY DEF StoredLock
    <3>1. CASE u = t
      BY <2>1, <2>2, <2>7, <3>1 DEF Enqueue, LocksInv, TypeOK
    <3>2. CASE u # t
      <4>1. file'[u] = file[u] /\ lockOf'[u] = lockOf[u] /\ Active(u)
        BY <2>1, <3>2 DEF Enqueue, Active, LocksInv, TypeOK
      <4>2. file[u] \in Files /\ file[u] \notin Evicted /\ file[u] \notin lostInUse
        BY <1>2, <4>1 DEF GetNew, LocksInv, InsideFirst
      <4>3. InTable(file[u]) /\ lockOf[u] = lock[file[u]]
        BY <4>1, <4>2 DEF LocksInv, StoredLock
      <4> QED
        BY <2>6, <2>7, <4>1, <4>2, <4>3
    <3> QED
      BY <3>1, <3>2
  <2> QED
    BY <2>3, <2>8, <2>9 DEF LocksInv
<1>3. ASSUME NEW t \in Tasks, Acquire(t) PROVE LocksInv'
  BY <1>3 DEF Acquire, LocksInv, TypeOK, Bounded, UniqueKeys, StoredObjects, StoredLock,
      InsideFirst, Active, InTable
<1>4. ASSUME NEW t \in Tasks, Leave(t) PROVE LocksInv'
  <2>1. lockOf[t] \in Locks /\ queue[lockOf[t]] # <<>> /\ Head(queue[lockOf[t]]) = t
    BY <1>4 DEF Leave, LocksInv, InsideFirst, Active
  <2>2. TypeOK' /\ Bounded' /\ UniqueKeys' /\ StoredObjects' /\ StoredLock'
    BY <1>4, <2>1 DEF Leave, LocksInv, TypeOK, Bounded, UniqueKeys, StoredObjects,
        StoredLock, Active, InTable
  <2>3. InsideFirst'
    BY <1>4, <2>1 DEF Leave, LocksInv, TypeOK, InsideFirst, Active
  <2> QED
    BY <2>2, <2>3 DEF LocksInv
<1>5. CASE UNCHANGED vars
  BY <1>5 DEF vars, LocksInv, TypeOK, Bounded, UniqueKeys, StoredObjects, StoredLock,
      InsideFirst, Active, InTable
<1> QED
  BY <1>1, <1>2, <1>3, <1>4, <1>5 DEF Next, TaskStep

\* The inductive invariant of the locks holds for good.
LEMMA LocksInvariance == Spec => []LocksInv
BY LocksInvInit, LocksInvNext, PTL DEF Spec

\* Every variable of the lock table keeps its type.
THEOREM LocksTypeCorrect == Spec => []TypeOK
<1>1. LocksInv => TypeOK
  BY DEF LocksInv
<1> QED
  BY LocksInvariance, <1>1, PTL

\* The table stays within _FILE_LOCKS_MAX (_get_file_lock).
THEOREM BoundedHolds == Spec => []Bounded
<1>1. LocksInv => Bounded
  BY DEF LocksInv
<1> QED
  BY LocksInvariance, <1>1, PTL

\* Requests for a file exclude each other while its lock is not dropped in
\* use (_get_file_lock and "async with lock").
THEOREM SerializedHolds == Spec => []SerializedUnlessLost
<1>1. LocksInv => SerializedUnlessLost
  BY DEF LocksInv, SerializedUnlessLost, StoredLock, InsideFirst, Active
<1> QED
  BY LocksInvariance, <1>1, PTL
-----------------------------------------------------------------------------
(* Progress: its types, and the order in which notifications travel.         *)

Report == [type : {"report"}, uri : Uri, key : Keys, valid : BOOLEAN, n : Nat]
Publication == [type : {"publish"}, uri : Uri, n : Nat]
WorkMark == [type : {"work"}, token : Work, kind : {"begin", "report", "end"}, n : Nat]
Message == Report \cup Publication \cup WorkMark
Cached == [written : BOOLEAN, n : Nat, valid : BOOLEAN]

\* Every variable has its type.
ProgressTypeOK ==
  /\ client \in {"handshaken", "asked", "initialized"}
  /\ token \in BOOLEAN /\ indexed \in BOOLEAN
  /\ wire \in Seq(Message) /\ tasks \in Seq(Message)
  /\ cache \in [Uri -> Cached] /\ published \in [Uri -> Nat]
  /\ works \subseteq Work
  /\ request \in [Request -> {"new", "waiting", "answered", "error"}]
  /\ answer \in [Request -> [Uri -> Cached]]
  /\ sent \in Nat /\ received \subseteq Message

InOrder(s) == \A i, j \in 1 .. Len(s) : i < j => s[i].n < s[j].n
Waits(m) == \E i \in 1 .. Len(tasks) : tasks[i] = m

\* What is on the wire was sent in its order, and after all the loop has taken.
Wired ==
  /\ InOrder(wire)
  /\ \A i \in 1 .. Len(wire) :
       wire[i].n <= sent /\ \A m \in received : m.n < wire[i].n

\* A notification is known by its number.
Taken == \A m, k \in received : m.n <= sent /\ (m.n = k.n => m = k)

\* Tasks wait in the order of the notifications they were made of, and those
\* that have run were of earlier ones.
Tasked ==
  /\ InOrder(tasks)
  /\ \A i \in 1 .. Len(tasks) :
       /\ tasks[i] \in received /\ tasks[i].type # "work"
       /\ \A m \in received : m.type # "work" /\ ~Waits(m) => m.n < tasks[i].n

ProgressInv == ProgressTypeOK /\ Wired /\ Taken /\ Tasked /\ ReportsInOrder /\ WorkTracked

\* What a notification of each type has.
LEMMA Messages ==
  /\ \A m \in Message :
       /\ m.n \in Nat /\ m.type \in {"report", "publish", "work"}
       /\ m.type = "report" => m.uri \in Uri /\ m.key \in Keys /\ m.valid \in BOOLEAN
       /\ m.type = "publish" => m.uri \in Uri
       /\ m.type = "work" => m.token \in Work /\ m.kind \in {"begin", "report", "end"}
  /\ \A u \in Uri, key \in Keys, valid \in BOOLEAN, n \in Nat :
       [type |-> "report", uri |-> u, key |-> key, valid |-> valid, n |-> n] \in Message
  /\ \A u \in Uri, n \in Nat : [type |-> "publish", uri |-> u, n |-> n] \in Message
  /\ \A w \in Work, kind \in {"begin", "report", "end"}, n \in Nat :
       [type |-> "work", token |-> w, kind |-> kind, n |-> n] \in Message
<1>1. ASSUME NEW m \in Message
      PROVE  /\ m.n \in Nat /\ m.type \in {"report", "publish", "work"}
             /\ m.type = "report" => m.uri \in Uri /\ m.key \in Keys /\ m.valid \in BOOLEAN
             /\ m.type = "publish" => m.uri \in Uri
             /\ m.type = "work" => m.token \in Work /\ m.kind \in {"begin", "report", "end"}
  <2>1. CASE m \in Report
    BY <2>1 DEF Report
  <2>2. CASE m \in Publication
    BY <2>2 DEF Publication
  <2>3. CASE m \in WorkMark
    BY <2>3 DEF WorkMark
  <2> QED
    BY <1>1, <2>1, <2>2, <2>3 DEF Message
<1>2. ASSUME NEW u \in Uri, NEW key \in Keys, NEW valid \in BOOLEAN, NEW n \in Nat
      PROVE  [type |-> "report", uri |-> u, key |-> key, valid |-> valid, n |-> n] \in Message
  BY DEF Message, Report
<1>3. ASSUME NEW u \in Uri, NEW n \in Nat
      PROVE  [type |-> "publish", uri |-> u, n |-> n] \in Message
  BY DEF Message, Publication
<1>4. ASSUME NEW w \in Work, NEW kind \in {"begin", "report", "end"}, NEW n \in Nat
      PROVE  [type |-> "work", token |-> w, kind |-> kind, n |-> n] \in Message
  BY DEF Message, WorkMark
<1> QED
  BY <1>1, <1>2, <1>3, <1>4

\* The entries of the cache.
LEMMA Entries ==
  /\ \A n \in Nat, valid \in BOOLEAN :
       Diagnostics(n, valid) \in Cached /\ Diagnostics(n, valid).n = n
  /\ Nothing \in Cached /\ Nothing.n = 0 /\ Unreported \in Cached
BY DEF Diagnostics, Nothing, Unreported, Cached

LEMMA ProgressInvInit == ProgressInit => ProgressInv
<1> SUFFICES ASSUME ProgressInit PROVE ProgressInv
  OBVIOUS
<1>1. ProgressTypeOK
  <2>1. cache \in [Uri -> Cached] /\ published \in [Uri -> Nat]
    BY Entries DEF ProgressInit
  <2>2. answer \in [Request -> [Uri -> Cached]]
    BY Entries DEF ProgressInit
  <2>3. wire \in Seq(Message) /\ tasks \in Seq(Message)
    BY DEF ProgressInit
  <2> QED
    BY <2>1, <2>2, <2>3 DEF ProgressInit, ProgressTypeOK
<1>2. Wired /\ Taken /\ Tasked
  BY DEF ProgressInit, Wired, Taken, Tasked, InOrder
<1>3. ReportsInOrder
  BY DEF ProgressInit, ReportsInOrder, Applied
<1>4. WorkTracked
  BY DEF ProgressInit, WorkTracked, Marks
<1> QED
  BY <1>1, <1>2, <1>3, <1>4 DEF ProgressInv

\* Sending keeps the order on the wire.
LEMMA NotifyKeeps ==
  ASSUME ProgressInv, NEW m \in Message, m.n = sent + 1, Notify(m)
  PROVE  ProgressInv'
<1> USE DEF ProgressInv, Notify, Requests
<1>1. /\ wire' \in Seq(Message) /\ Len(wire) \in Nat /\ Len(wire') = Len(wire) + 1
      /\ wire'[Len(wire) + 1] = m
      /\ \A k \in 1 .. Len(wire) : wire'[k] = wire[k]
  BY Appended DEF ProgressTypeOK
<1>2. ProgressTypeOK'
  BY <1>1 DEF ProgressTypeOK
<1>3. /\ sent \in Nat /\ sent' = sent + 1 /\ \A k \in received : k.n \in Nat
      /\ \A i \in 1 .. Len(wire) : wire[i].n \in Nat
  BY Messages DEF ProgressTypeOK
<1>4. InOrder(wire)'
  BY <1>1, <1>3 DEF Wired, InOrder
<1>5. ASSUME NEW i \in 1 .. Len(wire')
      PROVE  wire'[i].n <= sent' /\ \A k \in received' : k.n < wire'[i].n
  <2>1. CASE i \in 1 .. Len(wire)
    BY <1>1, <1>3, <2>1 DEF Wired
  <2>2. CASE i = Len(wire) + 1
    BY <1>1, <1>3, <2>2 DEF Taken
  <2> QED
    BY <1>1, <2>1, <2>2
<1>6. Wired'
  BY <1>4, <1>5 DEF Wired
<1>7. Taken'
  BY <1>3 DEF Taken
<1>8. Tasked'
  BY DEF Tasked, InOrder, Waits
<1>9. ReportsInOrder' /\ WorkTracked'
  BY DEF ReportsInOrder, WorkTracked, Applied, Marks, LastOf
<1> QED
  BY <1>2, <1>6, <1>7, <1>8, <1>9

\* What the loop takes is newer than all it has taken.
LEMMA NextOnWire ==
  ASSUME ProgressInv, Receive
  PROVE  /\ Head(wire) \in Message /\ Head(wire) = wire[1] /\ 1 \in 1 .. Len(wire)
         /\ wire' \in Seq(Message) /\ received' = received \cup {Head(wire)}
         /\ Head(wire).n <= sent /\ Head(wire) \notin received
         /\ \A m \in received : m.n \in Nat /\ m.n < Head(wire).n
<1>1. /\ Head(wire) \in Message /\ Head(wire) = wire[1] /\ 1 \in 1 .. Len(wire)
      /\ wire' \in Seq(Message)
  BY HeadTail DEF ProgressInv, ProgressTypeOK, Receive
<1>2. \A m \in received : m.n \in Nat
  BY Messages DEF ProgressInv, ProgressTypeOK
<1>3. Head(wire).n <= sent /\ \A m \in received : m.n < Head(wire).n
  BY <1>1 DEF ProgressInv, Wired
<1>4. Head(wire) \notin received
  BY <1>2, <1>3
<1> QED
  BY <1>1, <1>2, <1>3, <1>4 DEF Receive

\* Taking a notification keeps the orders.
LEMMA ReceiveKeepsOrder ==
  ASSUME ProgressInv, Receive
  PROVE  Wired' /\ Taken'
<1> DEFINE h == Head(wire)
<1>1. /\ Len(wire) \in Nat /\ Len(wire') = Len(wire) - 1 /\ sent' = sent
      /\ h = wire[1] /\ 1 \in 1 .. Len(wire)
      /\ \A k \in 1 .. Len(wire') : k + 1 \in 1 .. Len(wire) /\ wire'[k] = wire[k + 1]
  BY HeadTail DEF ProgressInv, ProgressTypeOK, Receive
<1>2. /\ received' = received \cup {h} /\ h.n <= sent /\ h.n \in Nat
      /\ \A m \in received : m.n \in Nat /\ m.n < h.n
  BY NextOnWire, Messages
<1> HIDE DEF h
<1>3. InOrder(wire)'
  BY <1>1 DEF ProgressInv, Wired, InOrder
<1>4. ASSUME NEW i \in 1 .. Len(wire')
      PROVE  wire'[i].n <= sent' /\ \A m \in received' : m.n < wire'[i].n
  <2>1. i + 1 \in 1 .. Len(wire) /\ wire'[i] = wire[i + 1] /\ 1 < i + 1
    BY <1>1
  <2>2. h.n < wire[i + 1].n
    BY <1>1, <2>1 DEF ProgressInv, Wired, InOrder
  <2> QED
    BY <1>1, <1>2, <2>1, <2>2 DEF ProgressInv, Wired
<1>5. Taken'
  BY <1>1, <1>2 DEF ProgressInv, Taken
<1> QED
  BY <1>3, <1>4, <1>5 DEF Wired

\* A mark of a work that is taken is the last of its work.
LEMMA ReceiveTracksWork ==
  ASSUME ProgressInv, Receive
  PROVE  WorkTracked'
<1> DEFINE h == Head(wire)
<1>1. /\ h \in Message /\ received' = received \cup {h} /\ h \notin received /\ h.n \in Nat
      /\ \A m \in received : m.n \in Nat /\ m.n < h.n
  BY NextOnWire, Messages
<1>2. \/ h.type # "work" /\ works' = works
      \/ h.type = "work" /\ works' = WorksAfter(h.token, h.kind)
  BY DEF Receive
<1> HIDE DEF h
<1> SUFFICES ASSUME NEW w \in Work
             PROVE  w \in works' <=> \E k \in Marks(w)' : LastOf(k, Marks(w)') /\ k.kind = "begin"
  BY DEF WorkTracked
<1>3. w \in works <=> \E k \in Marks(w) : LastOf(k, Marks(w)) /\ k.kind = "begin"
  BY DEF ProgressInv, WorkTracked
<1>4. CASE h.type = "work" /\ h.token = w /\ h.kind \in {"begin", "end"}
  <2>1. Marks(w)' = Marks(w) \cup {h} /\ \A m \in Marks(w) : m.n \in Nat /\ m.n < h.n
    BY <1>1, <1>4 DEF Marks
  <2>2. \A k \in Marks(w)' : LastOf(k, Marks(w)') <=> k = h
    BY <1>1, <2>1 DEF LastOf
  <2>3. w \in works' <=> h.kind = "begin"
    BY <1>2, <1>4 DEF WorksAfter
  <2> QED
    BY <2>1, <2>2, <2>3
<1>5. CASE ~(h.type = "work" /\ h.token = w /\ h.kind \in {"begin", "end"})
  <2>1. Marks(w)' = Marks(w)
    BY <1>1, <1>5 DEF Marks
  <2>2. w \in works' <=> w \in works
    BY <1>2, <1>5 DEF WorksAfter
  <2> QED
    BY <1>3, <2>1, <2>2
<1> QED
  BY <1>4, <1>5

\* A notification that becomes a task goes behind all others; one that does not
\* is no business of the tasks.
LEMMA ReceiveKeepsTasks ==
  ASSUME ProgressInv, Receive
  PROVE  Tasked' /\ ReportsInOrder' /\ tasks' \in Seq(Message)
<1> DEFINE h == Head(wire)
<1>1. /\ h \in Message /\ received' = received \cup {h} /\ h \notin received /\ h.n \in Nat
      /\ \A m \in received : m.n \in Nat /\ m.n < h.n
  BY NextOnWire, Messages
<1>2. cache' = cache /\ tasks \in Seq(Message) /\ Len(tasks) \in Nat
  BY DEF Receive, ProgressInv, ProgressTypeOK
<1>3. \/ h.type = "work" /\ tasks' = tasks
      \/ h.type # "work" /\ tasks' = Append(tasks, h)
  BY DEF Receive
<1>4. Tasked /\ ReportsInOrder
  BY DEF ProgressInv
<1> HIDE DEF h
<1>5. CASE h.type = "work" /\ tasks' = tasks
  <2>1. Tasked'
    BY <1>1, <1>4, <1>5 DEF Tasked, InOrder, Waits
  <2>2. \A u \in Uri : Applied(u)' = Applied(u)
    BY <1>1, <1>5 DEF Applied
  <2>3. ReportsInOrder'
    BY <1>2, <1>4, <2>2 DEF ReportsInOrder
  <2> QED
    BY <1>2, <1>5, <2>1, <2>3
<1>6. CASE h.type # "work" /\ tasks' = Append(tasks, h)
  <2>1. /\ tasks' \in Seq(Message) /\ Len(tasks') = Len(tasks) + 1
        /\ tasks'[Len(tasks) + 1] = h
        /\ \A k \in 1 .. Len(tasks) : k \in 1 .. Len(tasks') /\ tasks'[k] = tasks[k]
    BY <1>1, <1>2, <1>6, Appended
  <2>2. InOrder(tasks)'
    <3>1. ASSUME NEW i \in 1 .. Len(tasks'), NEW j \in 1 .. Len(tasks'), i < j
          PROVE  tasks'[i].n < tasks'[j].n
      <4>1. i \in 1 .. Len(tasks) /\ tasks'[i] = tasks[i] /\ tasks[i] \in received
        BY <1>2, <1>4, <2>1, <3>1 DEF Tasked
      <4>2. CASE j \in 1 .. Len(tasks)
        BY <1>4, <2>1, <3>1, <4>1, <4>2 DEF Tasked, InOrder
      <4>3. CASE j = Len(tasks) + 1
        BY <1>1, <2>1, <4>1, <4>3
      <4> QED
        BY <1>2, <2>1, <4>2, <4>3
    <3> QED
      BY <3>1 DEF InOrder
  <2>3. \A m : Waits(m)' <=> Waits(m) \/ m = h
    BY <1>2, <2>1 DEF Waits
  <2>4. ASSUME NEW i \in 1 .. Len(tasks')
        PROVE  /\ tasks'[i] \in received' /\ tasks'[i].type # "work"
               /\ \A m \in received' : m.type # "work" /\ ~Waits(m)' => m.n < tasks'[i].n
    <3>1. CASE i \in 1 .. Len(tasks)
      BY <1>1, <1>4, <2>1, <2>3, <3>1 DEF Tasked
    <3>2. CASE i = Len(tasks) + 1
      BY <1>1, <1>6, <2>1, <2>3, <3>2
    <3> QED
      BY <1>2, <2>1, <3>1, <3>2
  <2>5. Tasked'
    BY <2>2, <2>4 DEF Tasked
  <2>6. \A u \in Uri :
          /\ Applied(u)' = {m \in received' : m.type = "report" /\ m.uri = u /\ ~Waits(m)'}
          /\ Applied(u) = {m \in received : m.type = "report" /\ m.uri = u /\ ~Waits(m)}
    BY DEF Applied, Waits
  <2>7. \A u \in Uri : Applied(u)' = Applied(u)
    <3>1. ASSUME NEW u \in Uri, NEW m
          PROVE  m \in Applied(u)' <=> m \in Applied(u)
      <4>1. /\ m \in Applied(u)' <=> m \in received' /\ m.type = "report" /\ m.uri = u /\ ~Waits(m)'
            /\ m \in Applied(u) <=> m \in received /\ m.type = "report" /\ m.uri = u /\ ~Waits(m)
        BY <2>6
      <4> QED
        BY <1>1, <2>3, <4>1
    <3> QED
      BY <3>1
  <2>8. ReportsInOrder'
    BY <1>2, <1>4, <2>7 DEF ReportsInOrder
  <2> QED
    BY <2>1, <2>5, <2>8
<1> QED
  BY <1>3, <1>5, <1>6

\* The read loop keeps the invariant.
LEMMA ReceiveKeeps ==
  ASSUME ProgressInv, Receive
  PROVE  ProgressInv'
<1>1. Head(wire) \in Message /\ wire' \in Seq(Message) /\ received' = received \cup {Head(wire)}
  BY NextOnWire
<1>2. works' \subseteq Work
  BY <1>1, Messages DEF Receive, WorksAfter, ProgressInv, ProgressTypeOK
<1>3. ProgressTypeOK'
  BY <1>1, <1>2, ReceiveKeepsTasks DEF Receive, Requests, ProgressInv, ProgressTypeOK
<1> QED
  BY <1>3, ReceiveKeepsOrder, ReceiveKeepsTasks, ReceiveTracksWork DEF ProgressInv

\* The event loop takes the task that waits longest.
LEMMA OldestTask ==
  ASSUME ProgressInv, RunTask
  PROVE  /\ tasks # <<>> /\ Store(Head(tasks)) /\ tasks' = Tail(tasks)
<1>1. tasks \in Seq(Message) /\ Len(tasks) \in Nat
  BY DEF ProgressInv, ProgressTypeOK
<1>2. /\ 1 <= Len(tasks) /\ Store(tasks[1])
      /\ tasks' = SubSeq(tasks, 1, 0) \o SubSeq(tasks, 2, Len(tasks))
  BY DEF RunTask, NextTask
<1>3. tasks # <<>> /\ Head(tasks) = tasks[1]
  BY <1>1, <1>2
<1>4. SubSeq(tasks, 1, 0) \o SubSeq(tasks, 2, Len(tasks)) = Tail(tasks)
  BY <1>1, <1>2
<1> QED
  BY <1>2, <1>3, <1>4

\* A task that runs applies a newer report than all that ran before it.
LEMMA RunTaskKeeps ==
  ASSUME ProgressInv, RunTask
  PROVE  ProgressInv'
<1> PICK h : h = Head(tasks)
  OBVIOUS
<1>1. /\ tasks \in Seq(Message) /\ tasks # <<>> /\ Len(tasks) \in Nat
      /\ h \in Message /\ h = tasks[1] /\ 1 \in 1 .. Len(tasks)
      /\ tasks' \in Seq(Message) /\ Len(tasks') = Len(tasks) - 1
      /\ \A k \in 1 .. Len(tasks') : k + 1 \in 1 .. Len(tasks) /\ tasks'[k] = tasks[k + 1]
  <2>1. tasks \in Seq(Message) /\ tasks # <<>> /\ tasks' = Tail(tasks)
    BY OldestTask DEF ProgressInv, ProgressTypeOK
  <2> QED
    BY <2>1, HeadTail
<1>2. Store(h)
  BY OldestTask
<1>3. /\ received' = received /\ wire' = wire /\ sent' = sent /\ works' = works
  BY DEF RunTask, Server
<1>4. \A m \in received : m.n \in Nat
  BY Messages DEF ProgressInv, ProgressTypeOK
<1>5. /\ h \in received /\ h.type # "work"
      /\ \A m \in received : m.type # "work" /\ ~Waits(m) => m.n < h.n
      /\ \A k \in 1 .. Len(tasks') : h.n < tasks'[k].n
  BY <1>1 DEF ProgressInv, Tasked, InOrder
<1>6. \A m : Waits(m) <=> Waits(m)' \/ m = h
  <2>1. ASSUME NEW m, Waits(m), m # h PROVE Waits(m)'
    <3>1. PICK i \in 1 .. Len(tasks) : tasks[i] = m
      BY <2>1 DEF Waits
    <3>2. i - 1 \in 1 .. Len(tasks') /\ tasks'[i - 1] = tasks[(i - 1) + 1] /\ (i - 1) + 1 = i
      BY <1>1, <2>1, <3>1
    <3> QED
      BY <3>1, <3>2 DEF Waits
  <2> QED
    BY <1>1, <2>1 DEF Waits
<1>7. ~Waits(h)'
  BY <1>1, <1>4, <1>5 DEF Waits
<1>8. ProgressTypeOK'
  <2>1. cache' \in [Uri -> Cached] /\ published' \in [Uri -> Nat]
    <3>1. cache \in [Uri -> Cached] /\ published \in [Uri -> Nat]
      BY DEF ProgressInv, ProgressTypeOK
    <3>2. CASE /\ h.type = "report" /\ cache' = [cache EXCEPT ![h.uri] = Kept(h)]
               /\ UNCHANGED published
      <4>1. h.uri \in Uri /\ Kept(h) \in Cached
        BY <1>1, <3>2, Messages, Entries DEF Kept
      <4> QED
        BY <3>1, <3>2, <4>1
    <3>3. CASE /\ h.type = "publish" /\ published' = [published EXCEPT ![h.uri] = h.n]
               /\ UNCHANGED cache
      <4>1. h.uri \in Uri /\ h.n \in Nat
        BY <1>1, <3>3, Messages
      <4> QED
        BY <3>1, <3>3, <4>1
    <3> QED
      BY <1>2, <3>2, <3>3 DEF Store
  <2> QED
    BY <1>1, <2>1 DEF RunTask, Server, Requests, ProgressInv, ProgressTypeOK
<1>9. Wired' /\ Taken' /\ WorkTracked'
  BY <1>3 DEF ProgressInv, Wired, Taken, WorkTracked, InOrder, Marks, LastOf
<1>10. Tasked'
  <2>1. ASSUME NEW i \in 1 .. Len(tasks'), NEW j \in 1 .. Len(tasks'), i < j
        PROVE  tasks'[i].n < tasks'[j].n
    <3>1. /\ i + 1 \in 1 .. Len(tasks) /\ tasks'[i] = tasks[i + 1]
          /\ j + 1 \in 1 .. Len(tasks) /\ tasks'[j] = tasks[j + 1] /\ i + 1 < j + 1
      BY <1>1, <2>1
    <3> QED
      BY <3>1 DEF ProgressInv, Tasked, InOrder
  <2>2. ASSUME NEW i \in 1 .. Len(tasks')
        PROVE  /\ tasks'[i] \in received' /\ tasks'[i].type # "work"
               /\ \A m \in received' : m.type # "work" /\ ~Waits(m)' => m.n < tasks'[i].n
    BY <1>1, <1>3, <1>5, <1>6 DEF ProgressInv, Tasked
  <2> QED
    BY <2>1, <2>2 DEF Tasked, InOrder
<1>11. \A u \in Uri :
         /\ Applied(u)' = {m \in received : m.type = "report" /\ m.uri = u /\ ~Waits(m)'}
         /\ Applied(u) = {m \in received : m.type = "report" /\ m.uri = u /\ ~Waits(m)}
  BY <1>3 DEF Applied, Waits
<1>12. ASSUME NEW u \in Uri
       PROVE  \/ Applied(u)' = {} /\ cache'[u] = Unreported
              \/ \E last \in Applied(u)' :
                   /\ LastOf(last, Applied(u)')
                   /\ cache'[u].n = last.n \/ (last.key = "items" /\ cache'[u].n = 0)
  <2>1. \/ Applied(u) = {} /\ cache[u] = Unreported
        \/ \E last \in Applied(u) :
             /\ LastOf(last, Applied(u))
             /\ cache[u].n = last.n \/ (last.key = "items" /\ cache[u].n = 0)
    BY DEF ProgressInv, ReportsInOrder
  <2>2. cache \in [Uri -> Cached]
    BY DEF ProgressInv, ProgressTypeOK
  <2>3. CASE h.type = "report" /\ h.uri = u
    <3>1. h \in Applied(u)' /\ \A m \in Applied(u)' : m = h \/ m.n < h.n
      BY <1>5, <1>6, <1>7, <1>11, <2>3
    <3>2. LastOf(h, Applied(u)')
      BY <1>4, <1>5, <1>11, <3>1 DEF LastOf
    <3>3. cache'[u] = Kept(h)
      BY <1>2, <2>2, <2>3 DEF Store
    <3>4. Kept(h).n = h.n \/ (h.key = "items" /\ Kept(h).n = 0)
      BY <1>1, <2>3, Messages, Entries DEF Kept, Keys
    <3> QED
      BY <3>1, <3>2, <3>3, <3>4
  <2>4. CASE ~(h.type = "report" /\ h.uri = u)
    <3>1. Applied(u)' = Applied(u)
      BY <1>6, <1>7, <1>11, <2>4
    <3>2. cache'[u] = cache[u]
      BY <1>2, <2>2, <2>4 DEF Store
    <3> QED
      BY <2>1, <3>1, <3>2
  <2> QED
    BY <2>3, <2>4
<1>13. ReportsInOrder'
  BY <1>12 DEF ReportsInOrder
<1> QED
  BY <1>8, <1>9, <1>10, <1>13 DEF ProgressInv

\* The steps that touch neither wire nor tasks, cache or works.
LEMMA Aside ==
  ASSUME ProgressInv, ProgressTypeOK',
         UNCHANGED <<wire, tasks, cache, works, sent, received>>
  PROVE  ProgressInv'
<1>1. Wired' /\ Taken' /\ Tasked'
  BY DEF ProgressInv, Wired, Taken, Tasked, InOrder, Waits
<1>2. ReportsInOrder' /\ WorkTracked'
  BY DEF ProgressInv, ReportsInOrder, WorkTracked, Applied, Marks, LastOf
<1> QED
  BY <1>1, <1>2 DEF ProgressInv

LEMMA ProgressInvNext == ProgressInv /\ [ProgressNext]_progressVars => ProgressInv'
<1> SUFFICES ASSUME ProgressInv, [ProgressNext]_progressVars PROVE ProgressInv'
  OBVIOUS
<1>1. sent + 1 \in Nat
  BY DEF ProgressInv, ProgressTypeOK
<1>2. ASSUME NEW m \in Message, m.n = sent + 1, Notify(m)
      PROVE  ProgressInv'
  BY <1>2, NotifyKeeps
<1>3. CASE ServerReports \/ ServerPublishes \/ ServerWorks
  <2>1. CASE ServerReports
    <3>1. PICK u \in Uri, key \in Keys, valid \in BOOLEAN :
            Notify([type |-> "report", uri |-> u, key |-> key, valid |-> valid, n |-> sent + 1])
      BY <2>1 DEF ServerReports
    <3>2. [type |-> "report", uri |-> u, key |-> key, valid |-> valid, n |-> sent + 1] \in Message
      BY <1>1, Messages
    <3> QED
      BY <1>2, <3>1, <3>2
  <2>2. CASE ServerPublishes
    <3>1. PICK u \in Uri : Notify([type |-> "publish", uri |-> u, n |-> sent + 1])
      BY <2>2 DEF ServerPublishes
    <3>2. [type |-> "publish", uri |-> u, n |-> sent + 1] \in Message
      BY <1>1, Messages
    <3> QED
      BY <1>2, <3>1, <3>2
  <2>3. CASE ServerWorks
    <3>1. PICK w \in Work, kind \in {"begin", "report", "end"} :
            Notify([type |-> "work", token |-> w, kind |-> kind, n |-> sent + 1])
      BY <2>3 DEF ServerWorks
    <3>2. [type |-> "work", token |-> w, kind |-> kind, n |-> sent + 1] \in Message
      BY <1>1, Messages
    <3> QED
      BY <1>2, <3>1, <3>2
  <2> QED
    BY <1>3, <2>1, <2>2, <2>3
<1>4. CASE Client
  <2>1. ProgressTypeOK' /\ UNCHANGED <<wire, tasks, cache, works, sent, received>>
    BY <1>4 DEF Client, SendWorkspaceDiagnostic, StartIndexTimer, IndexTimer, Initializes,
      Requests, Server, ProgressInv, ProgressTypeOK
  <2> QED
    BY <2>1, Aside
<1>5. ASSUME NEW r \in Request, Ask(r) \/ Answer(r) \/ AnswerUnindexed(r)
      PROVE  ProgressInv'
  <2>1. UNCHANGED <<client, token, wire, sent, indexed, tasks, cache, published, works, received>>
    BY <1>5 DEF Ask, Answer, AnswerUnindexed, Waited, Server
  <2>2. /\ request' \in [Request -> {"new", "waiting", "answered", "error"}]
        /\ answer' \in [Request -> [Uri -> Cached]]
    BY <1>5 DEF Ask, Answer, AnswerUnindexed, Waited, Snapshot, ProgressInv, ProgressTypeOK
  <2>3. ProgressTypeOK'
    BY <2>1, <2>2 DEF ProgressInv, ProgressTypeOK
  <2> QED
    BY <2>1, <2>3, Aside
<1>6. CASE UNCHANGED progressVars
  <2>1. ProgressTypeOK' /\ UNCHANGED <<wire, tasks, cache, works, sent, received>>
    BY <1>6 DEF progressVars, ProgressInv, ProgressTypeOK
  <2> QED
    BY <2>1, Aside
<1>7. CASE Loop
  BY <1>7, ReceiveKeeps, RunTaskKeeps DEF Loop
<1> QED
  BY <1>3, <1>4, <1>5, <1>6, <1>7 DEF ProgressNext

LEMMA ProgressInvariance == ProgressSpec => []ProgressInv
BY ProgressInvInit, ProgressInvNext, PTL DEF ProgressSpec

\* Every variable of Progress keeps its type.
THEOREM ProgressTypeCorrect == ProgressSpec => []ProgressTypeOK
<1>1. ProgressInv => ProgressTypeOK
  BY DEF ProgressInv
<1> QED
  BY ProgressInvariance, <1>1, PTL

\* Tasks nobody awaits apply the reports of a file in the order in which the server
\* sent them (_handle_workspace_diagnostic_progress).
THEOREM ReportsStayInOrder == ProgressSpec => []ReportsInOrder
<1>1. ProgressInv => ReportsInOrder
  BY DEF ProgressInv
<1> QED
  BY ProgressInvariance, <1>1, PTL

\* The handler knows the works whose last begin or end was a begin
\* (ProgressHandler.handle_progress).
THEOREM WorksStayTracked == ProgressSpec => []WorkTracked
<1>1. ProgressInv => WorkTracked
  BY DEF ProgressInv
<1> QED
  BY ProgressInvariance, <1>1, PTL
=============================================================================
