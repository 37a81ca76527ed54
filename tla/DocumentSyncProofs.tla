------------------------ MODULE DocumentSyncProofs -------------------------
(* Invariance theorems about DocumentSync, for any files, requests, number *)
(* of edits and behaviour of the server.                                   *)
EXTENDS DocumentSync, TLAPS

-----------------------------------------------------------------------------
(* Sequences as queues.                                                     *)

\* Taking the first element leaves the others, one place nearer.
LEMMA HeadTail ==
  ASSUME NEW S, NEW s \in Seq(S), s # <<>>
  PROVE  /\ Head(s) \in S
         /\ Head(s) = s[1]
         /\ Len(s) \in Nat
         /\ 1 \in 1 .. Len(s)
         /\ Tail(s) \in Seq(S)
         /\ Len(Tail(s)) = Len(s) - 1
         /\ \A k \in 1 .. Len(Tail(s)) :
              k + 1 \in 1 .. Len(s) /\ Tail(s)[k] = s[k + 1]
OBVIOUS

\* What is not first stays when the first element is taken.
LEMMA StaysInTail ==
  ASSUME NEW S, NEW s \in Seq(S), NEW k \in 1 .. Len(s), s[k] # Head(s)
  PROVE  \E j \in 1 .. Len(Tail(s)) : Tail(s)[j] = s[k]
<1>1. s # <<>> /\ Len(s) \in Nat
  OBVIOUS
<1>2. Head(s) = s[1] /\ k # 1
  BY <1>1
<1>3. k - 1 \in 1 .. Len(Tail(s)) /\ Tail(s)[k - 1] = s[k]
  BY <1>1, <1>2
<1> QED
  BY <1>3

\* Appending adds an element behind the others.
LEMMA Appended ==
  ASSUME NEW S, NEW s \in Seq(S), NEW e \in S
  PROVE  /\ Append(s, e) \in Seq(S)
         /\ Append(s, e) # <<>>
         /\ Len(s) \in Nat
         /\ Len(Append(s, e)) = Len(s) + 1
         /\ Append(s, e)[Len(s) + 1] = e
         /\ s # <<>> => Head(Append(s, e)) = Head(s)
         /\ \A k \in 1 .. Len(s) :
              k \in 1 .. Len(Append(s, e)) /\ Append(s, e)[k] = s[k]
<1>1. /\ Append(s, e) \in Seq(S) /\ Len(s) \in Nat
      /\ Len(Append(s, e)) = Len(s) + 1
      /\ Append(s, e)[Len(s) + 1] = e
      /\ \A k \in 1 .. Len(s) : Append(s, e)[k] = s[k]
  OBVIOUS
<1>2. Append(s, e) # <<>>
  BY <1>1
<1>3. ASSUME s # <<>> PROVE Head(Append(s, e)) = Head(s)
  <2>1. Len(s) # 0 /\ Head(s) = s[1]
    BY <1>3
  <2>2. Head(Append(s, e)) = Append(s, e)[1]
    BY <1>1, <1>2
  <2> QED
    BY <1>1, <2>1, <2>2
<1> QED
  BY <1>1, <1>2, <1>3

-----------------------------------------------------------------------------
Reply == [kind : {"full", "unchanged"}, task : Diags, file : Files,
          diags : 0 .. MaxEdits + 1, resultId : 0 .. MaxEdits + 1]
Push == [kind : {"push"}, task : {NoFile}, file : Files,
         diags : 0 .. MaxEdits + 1, resultId : 0 .. MaxEdits + 1]

\* Answers name a request, notifications do not; a request that has arrived
\* has a file and stands where its handler can stand.
Formed ==
  /\ TypeOK
  /\ pipe \in Seq(Reply \cup Push)
  /\ \A t \in Tasks : pc[t] # "idle" => file[t] \in Files
  /\ \A t \in Diags : pc[t] \notin {"deciding", "reopening"}
  /\ \A t \in Changes : pc[t] \notin {"locking", "opening", "asking"}

\* A request inside holds the lock of its file; one that waits is queued.
Turns ==
  /\ \A t \in Diags : pc[t] \in {"opening", "asking"}
       => queue[file[t]] # <<>> /\ Head(queue[file[t]]) = t
  /\ \A t \in Diags : pc[t] = "locking"
       => \E k \in 1 .. Len(queue[file[t]]) : queue[file[t]][k] = t

WellFormed == Formed /\ Turns
-----------------------------------------------------------------------------
(* The parts of the state an action touches.                               *)

\* A request that opens, asks or waits finds its lock's queue not empty.
LEMMA TurnTaken ==
  ASSUME WellFormed, NEW t \in Diags,
         \/ pc[t] \in {"opening", "asking"}
         \/ pc[t] = "locking" /\ HasTurn(t)
  PROVE  /\ t \in Tasks
         /\ file[t] \in Files
         /\ queue[file[t]] \in Seq(Diags)
         /\ queue[file[t]] # <<>>
         /\ Head(queue[file[t]]) = t
         /\ Tail(queue[file[t]]) \in Seq(Diags)
<1>1. t \in Tasks /\ file[t] \in Files
  BY DEF WellFormed, Formed, Tasks
<1>2. queue[file[t]] \in Seq(Diags)
  BY <1>1 DEF WellFormed, Formed, TypeOK
<1>3. queue[file[t]] # <<>> /\ Head(queue[file[t]]) = t
  BY <1>1, <1>2 DEF WellFormed, Turns, HasTurn
<1> QED
  BY <1>1, <1>2, <1>3, HeadTail

\* The holder of a lock leaves: the others stay queued or inside.
LEMMA TurnsAfterReturn ==
  ASSUME WellFormed, NEW t \in Diags, NEW d, Returns(t, d), file' = file,
         pc[t] \in {"opening", "asking"} \/ (pc[t] = "locking" /\ HasTurn(t))
  PROVE  Turns'
<1>1. /\ t \in Tasks /\ file[t] \in Files
      /\ queue[file[t]] \in Seq(Diags) /\ queue[file[t]] # <<>>
      /\ Head(queue[file[t]]) = t
  BY TurnTaken
<1>2. /\ pc' = [pc EXCEPT ![t] = "done"]
      /\ queue' = [queue EXCEPT ![file[t]] = Tail(@)]
  BY DEF Returns
<1>3. queue \in [Files -> Seq(Diags)] /\ DOMAIN pc = Tasks
  BY DEF WellFormed, Formed, TypeOK
<1>4. ASSUME NEW u \in Diags, pc'[u] \in {"opening", "asking"}
      PROVE  queue'[file'[u]] # <<>> /\ Head(queue'[file'[u]]) = u
  <2>1. u # t /\ u \in Tasks /\ pc[u] = pc'[u]
    BY <1>1, <1>2, <1>3, <1>4 DEF Tasks
  <2>2. file[u] \in Files /\ queue[file[u]] # <<>> /\ Head(queue[file[u]]) = u
    BY <1>4, <2>1 DEF WellFormed, Formed, Turns
  <2>3. file[u] # file[t]
    BY <1>1, <2>1, <2>2
  <2> QED
    BY <1>2, <1>3, <2>2, <2>3
<1>5. ASSUME NEW u \in Diags, pc'[u] = "locking"
      PROVE  \E k \in 1 .. Len(queue'[file'[u]]) : queue'[file'[u]][k] = u
  <2>1. u # t /\ u \in Tasks /\ pc[u] = "locking"
    BY <1>1, <1>2, <1>3, <1>5 DEF Tasks
  <2>2. /\ file[u] \in Files
        /\ \E k \in 1 .. Len(queue[file[u]]) : queue[file[u]][k] = u
    BY <2>1 DEF WellFormed, Formed, Turns
  <2>3. CASE file[u] = file[t]
    <3>1. \E j \in 1 .. Len(Tail(queue[file[t]])) : Tail(queue[file[t]])[j] = u
      BY <1>1, <2>1, <2>2, <2>3, StaysInTail
    <3> QED
      BY <1>1, <1>2, <1>3, <2>3, <3>1
  <2>4. CASE file[u] # file[t]
    BY <1>2, <1>3, <2>2, <2>4
  <2> QED
    BY <2>3, <2>4
<1> QED
  BY <1>4, <1>5 DEF Turns
-----------------------------------------------------------------------------
\* The types hold at first.
LEMMA FormedInit == Init => WellFormed
BY DocumentSyncAssumption
   DEF Init, WellFormed, Formed, Turns, TypeOK, Tasks, Contents, FileState, Reply,
       Push, Nothing

\* A message taken off the pipe leaves messages.
LEMMA PipeTaken ==
  ASSUME WellFormed, pipe # <<>>
  PROVE  /\ Head(pipe) \in Reply \cup Push /\ Head(pipe) \in Message
         /\ Tail(pipe) \in Seq(Reply \cup Push)
         /\ Tail(pipe) \in Seq(Message)
         /\ Head(pipe).kind # "push" => Head(pipe) \in Reply
<1>1. pipe \in Seq(Reply \cup Push) /\ pipe \in Seq(Message)
  BY DEF WellFormed, Formed, TypeOK
<1>2. Head(pipe) \in Reply \cup Push /\ Tail(pipe) \in Seq(Reply \cup Push)
  BY <1>1, HeadTail
<1>3. Head(pipe) \in Message /\ Tail(pipe) \in Seq(Message)
  BY <1>1, HeadTail
<1> QED
  BY <1>2, <1>3 DEF Reply, Push

\* A message put on the pipe leaves messages.
LEMMA PipeExtended ==
  ASSUME WellFormed, NEW m \in Reply \cup Push
  PROVE  Append(pipe, m) \in Seq(Reply \cup Push) /\ Append(pipe, m) \in Seq(Message)
<1>1. m \in Message
  BY DEF Reply, Push, Message
<1>2. pipe \in Seq(Reply \cup Push) /\ pipe \in Seq(Message)
  BY DEF WellFormed, Formed, TypeOK
<1> QED
  BY <1>1, <1>2, Appended

\* Opening keeps the type of a cache entry.
LEMMA OpenedType ==
  ASSUME NEW s \in FileState
  PROVE  Opened(s) \in FileState
<1> DEFINE r == [s EXCEPT !.open = TRUE]
<1>1. TRUE \in BOOLEAN /\ s.version \in Nat /\ s.version + 1 \in Nat
  BY DEF FileState
<1>2. r \in FileState /\ r.version = s.version
  BY <1>1, Zenon DEF FileState
<1>3. Opened(s) = [r EXCEPT !.version = s.version + 1]
  BY DEF FileState, Opened
<1> HIDE DEF r
<1> QED
  BY <1>1, <1>2, <1>3 DEF FileState

\* Counting a version keeps the type of a cache entry.
LEMMA IncrementedType ==
  ASSUME NEW s \in FileState
  PROVE  Incremented(s) \in FileState
BY DEF FileState, Incremented

\* Storing a mtime and diagnostics keeps the type of a cache entry.
LEMMA StoredType ==
  ASSUME NEW f, NEW s \in FileState, NEW m \in 0 .. MaxEdits + 1,
         NEW d \in 0 .. MaxEdits + 1, NEW i \in 0 .. MaxEdits + 1
  PROVE  Stored(f, s, m, d, i) \in FileState
BY DEF FileState, Stored

\* Published diagnostics keep the type of the cache.
LEMMA PublishedType ==
  ASSUME NEW f \in Files, NEW d \in 0 .. MaxEdits + 1,
         cache \in [Files -> FileState]
  PROVE  [cache EXCEPT ![f].diags = d] \in [Files -> FileState]
BY DEF FileState

\* A didOpen keeps the type of the documents.
LEMMA DidOpenType ==
  ASSUME TypeOK, NEW f \in Files, DidOpen(f)
  PROVE  doc' \in [Files -> [open : BOOLEAN, version : Nat,
                             text : 0 .. MaxEdits + 1]]
BY DocumentSyncAssumption DEF TypeOK, DidOpen, Contents

\* A didChange keeps the type of the documents.
LEMMA ChangedType ==
  ASSUME TypeOK, NEW f \in Files, NEW v \in Nat, NEW x \in 0 .. MaxEdits + 1,
         doc' = [doc EXCEPT ![f].version = v, ![f].text = x]
  PROVE  doc' \in [Files -> [open : BOOLEAN, version : Nat,
                             text : 0 .. MaxEdits + 1]]
<1>1. [doc EXCEPT ![f].version = v]
        \in [Files -> [open : BOOLEAN, version : Nat, text : 0 .. MaxEdits + 1]]
  BY DEF TypeOK
<1>2. doc' = [[doc EXCEPT ![f].version = v] EXCEPT ![f].text = x]
  OBVIOUS
<1> QED
  BY <1>1, <1>2

\* The contents of a file on disk are a number within the bound.
LEMMA DiskType ==
  ASSUME TypeOK, NEW f \in Files
  PROVE  disk[f] \in 0 .. MaxEdits + 1 /\ 0 \in 0 .. MaxEdits + 1
BY DocumentSyncAssumption DEF TypeOK, Contents

\* A request sent keeps the type of the requests under way.
LEMMA RequestType ==
  ASSUME NEW t \in Diags, NEW f \in Files, NEW i \in 0 .. MaxEdits + 1,
         requests \subseteq Request
  PROVE  requests \cup {[task |-> t, file |-> f, previous |-> i]} \subseteq Request
BY DEF Request

\* A handler takes a step of its own.
LEMMA StageKept ==
  ASSUME Formed, TypeOK', NEW t \in Tasks, NEW s, pc' = [pc EXCEPT ![t] = s],
         file' = file, file[t] \in Files,
         pipe' \in Seq(Reply \cup Push),
         t \in Diags => s \notin {"deciding", "reopening"},
         t \in Changes => s \notin {"locking", "opening", "asking"}
  PROVE  Formed'
<1>1. \A u \in Tasks : pc'[u] = IF u = t THEN s ELSE pc[u]
  BY DEF Formed, TypeOK
<1> QED
  BY <1>1 DEF Formed, Tasks

\* Every step keeps the types.
LEMMA FormedNext == WellFormed /\ [Next]_vars => Formed'
<1> SUFFICES ASSUME WellFormed, [Next]_vars PROVE Formed'
  OBVIOUS
<1>0. Formed
  BY DEF WellFormed
<1> USE <1>0, DocumentSyncAssumption
    DEF Formed, TypeOK, codeVars, serverVars, historyVars, Tasks, Contents
<1>1. ASSUME NEW t \in Diags, NEW f \in Files, DiagArrives(t, f) PROVE Formed'
  <2>1. Append(queue[f], t) \in Seq(Diags)
    BY Appended
  <2> QED
    BY <1>1, <2>1 DEF DiagArrives
<1>2. ASSUME NEW t \in Diags, DiagOpens(t) PROVE Formed'
  <2>1. file[t] \in Files
    BY <1>2 DEF DiagOpens
  <2>2. doc' \in [Files -> [open : BOOLEAN, version : Nat,
                             text : 0 .. MaxEdits + 1]]
    BY <1>2, <2>1, DidOpenType DEF DiagOpens
  <2> QED
    BY <1>2, <2>2 DEF DiagOpens
<1>3. ASSUME NEW t \in Diags, DiagOpenRaises(t) PROVE Formed'
  <2>1. file[t] \in Files /\ Tail(queue[file[t]]) \in Seq(Diags)
    BY <1>3, TurnTaken DEF DiagOpenRaises
  <2> QED
    <3>1. queue' \in [Files -> Seq(Diags)]
      BY <1>3, <2>1 DEF DiagOpenRaises, Returns
    <3>2. result' \in [Diags -> 0 .. MaxEdits + 1]
      BY <1>3 DEF DiagOpenRaises, Returns, Nothing
    <3>3. /\ pc' = [pc EXCEPT ![t] = "done"]
          /\ UNCHANGED <<disk, cache, doc, file, mtime, serverVars, historyVars>>
      BY <1>3 DEF DiagOpenRaises, Returns
    <3>4. TypeOK'
      BY <3>1, <3>2, <3>3
    <3>5. pipe' \in Seq(Reply \cup Push)
      BY <3>3
    <3> QED
      BY <2>1, <3>3, <3>4, <3>5, StageKept
<1>4. ASSUME NEW t \in Diags, DiagAsks(t) PROVE Formed'
  <2>1. file[t] \in Files /\ Tail(queue[file[t]]) \in Seq(Diags)
    BY <1>4, TurnTaken DEF DiagAsks
  <2> DEFINE s == IF pc[t] = "opening" THEN Opened(cache[file[t]])
                                       ELSE cache[file[t]]
  <2>2. s \in FileState
    BY <2>1, OpenedType
  <2>3. PICK m \in {StatMtime(file[t]), Nothing} :
          /\ mtime' = [mtime EXCEPT ![t] = m]
          /\ ahead' = IF m > doc[file[t]].text THEN ahead \cup {file[t]} ELSE ahead
          /\ \/ Returns(t, s.diags) /\ UNCHANGED requests
             \/ /\ requests' = requests \cup
                     {[task |-> t, file |-> file[t], previous |-> s.resultId]}
                /\ pc' = [pc EXCEPT ![t] = "asking"]
                /\ UNCHANGED <<result, queue>>
    BY <1>4 DEF DiagAsks
  <2>4. m \in 0 .. MaxEdits + 1
    BY <2>1, DiskType DEF StatMtime, Nothing
  <2>5. /\ cache' = [cache EXCEPT ![file[t]] = s]
        /\ UNCHANGED <<disk, doc, file, published, pipe, lastChange, acked, due,
                       wiped>>
    BY <1>4 DEF DiagAsks
  <2>6. s.diags \in 0 .. MaxEdits + 1 /\ s.resultId \in 0 .. MaxEdits + 1
    BY <2>2 DEF FileState
  <2> HIDE DEF s
  <2>7. requests' \subseteq Request
    BY <2>1, <2>3, <2>6, RequestType
  <2> QED
    <3>1. CASE Returns(t, s.diags) /\ UNCHANGED requests
      <4>1. TypeOK'
        BY <2>1, <2>2, <2>3, <2>4, <2>5, <2>6, <3>1 DEF Returns
      <4>2. /\ pc' = [pc EXCEPT ![t] = "done"] /\ file' = file
            /\ pipe' \in Seq(Reply \cup Push)
        BY <2>5, <3>1 DEF Returns
      <4> QED
        BY <2>1, <4>1, <4>2, StageKept
    <3>2. CASE pc' = [pc EXCEPT ![t] = "asking"] /\ UNCHANGED <<result, queue>>
      <4>1. TypeOK'
        BY <2>1, <2>2, <2>3, <2>4, <2>5, <2>6, <2>7, <3>2
      <4>2. file' = file /\ pipe' \in Seq(Reply \cup Push)
        BY <2>5
      <4> QED
        BY <2>1, <3>2, <4>1, <4>2, StageKept
    <3> QED
      BY <2>3, <3>1, <3>2
<1>5. ASSUME NEW t \in Diags, DiagFails(t) PROVE Formed'
  <2>1. file[t] \in Files /\ Tail(queue[file[t]]) \in Seq(Diags)
    BY <1>5, TurnTaken DEF DiagFails
  <2>2. cache[file[t]].diags \in 0 .. MaxEdits + 1
    BY <2>1 DEF FileState
  <2> QED
    BY <1>5, <2>1, <2>2 DEF DiagFails, Returns
<1>6. CASE DiagAnswered
  <2> DEFINE a == Head(pipe)
             t == a.task
             f == file[t]
  <2>1. a \in Reply /\ Tail(pipe) \in Seq(Reply \cup Push)
        /\ Tail(pipe) \in Seq(Message)
    BY <1>6, PipeTaken DEF DiagAnswered
  <2>2. t \in Diags /\ pc[t] = "asking"
    BY <1>6, <2>1 DEF DiagAnswered, Reply
  <2>3. f \in Files /\ Tail(queue[f]) \in Seq(Diags)
    BY <2>2, TurnTaken
  <2>4. Normalized(a) \in 0 .. MaxEdits + 1 /\ a.resultId \in 0 .. MaxEdits + 1
    BY <2>1 DEF Reply, Normalized, Nothing
  <2>5. Stored(f, cache[f], mtime[t], Normalized(a), a.resultId) \in FileState
    BY <2>2, <2>3, <2>4, StoredType
  <2>6. /\ pipe' = Tail(pipe)
        /\ cache' = [cache EXCEPT ![f] =
                       Stored(f, @, mtime[t], Normalized(a), a.resultId)]
        /\ Returns(t, Normalized(a))
        /\ wiped' \in {wiped, wiped \cup {f}}
        /\ UNCHANGED <<disk, doc, file, mtime, published, requests, lastChange,
                       acked, due, ahead>>
    BY <1>6 DEF DiagAnswered
  <2> HIDE DEF a, t, f
  <2> QED
    <3>1. TypeOK'
      <4>1. cache' \in [Files -> FileState]
        BY <2>3, <2>5, <2>6
      <4>2. queue' \in [Files -> Seq(Diags)]
        BY <2>3, <2>6 DEF Returns, f
      <4>3. result' \in [Diags -> 0 .. MaxEdits + 1]
        BY <2>2, <2>4, <2>6 DEF Returns
      <4>4. wiped' \subseteq Files
        BY <2>3, <2>6
      <4>5. pc' = [pc EXCEPT ![t] = "done"]
        BY <2>6 DEF Returns
      <4> QED
        BY <2>1, <2>6, <4>1, <4>2, <4>3, <4>4, <4>5
    <3>2. pc' = [pc EXCEPT ![t] = "done"]
      BY <2>6 DEF Returns
    <3> QED
      BY <2>1, <2>2, <2>3, <2>6, <3>1, <3>2, StageKept
<1>7. CASE LateAnswer
  BY <1>7, PipeTaken DEF LateAnswer
<1>8. CASE Published
  <2> DEFINE m == Head(pipe)
  <2>1. m \in Reply \cup Push /\ Tail(pipe) \in Seq(Reply \cup Push)
        /\ Tail(pipe) \in Seq(Message)
    BY <1>8, PipeTaken DEF Published
  <2>2. m.file \in Files /\ m.diags \in 0 .. MaxEdits + 1
    BY <2>1 DEF Reply, Push
  <2>3. /\ pipe' = Tail(pipe)
        /\ cache' = [cache EXCEPT ![m.file].diags = m.diags]
        /\ UNCHANGED <<disk, doc, queue, file, pc, mtime, result, published,
                       requests, historyVars>>
    BY <1>8 DEF Published
  <2> HIDE DEF m
  <2>4. cache' \in [Files -> FileState]
    BY <2>2, <2>3, PublishedType
  <2> QED
    BY <2>1, <2>3, <2>4
<1>9. ASSUME NEW t \in Changes, NEW f \in Files, ChangeArrives(t, f) PROVE Formed'
  BY <1>9 DEF ChangeArrives, StatMtime
<1>10. ASSUME NEW t \in Changes, ChangeOpens(t) PROVE Formed'
  <2>1. file[t] \in Files
    BY <1>10 DEF ChangeOpens
  <2>2. doc' \in [Files -> [open : BOOLEAN, version : Nat,
                             text : 0 .. MaxEdits + 1]]
    BY <1>10, <2>1, DidOpenType DEF ChangeOpens
  <2> QED
    BY <1>10, <2>2 DEF ChangeOpens
<1>11. ASSUME NEW t \in Changes, ChangeOpenRaises(t) PROVE Formed'
  BY <1>11 DEF ChangeOpenRaises
<1>12. ASSUME NEW t \in Changes, ChangeSends(t) PROVE Formed'
  <2> DEFINE f == file[t]
             s == Incremented(IF pc[t] = "reopening" THEN Opened(cache[f])
                                                     ELSE cache[f])
  <2>1. f \in Files /\ s \in FileState /\ s.version \in Nat
    <3>1. f \in Files
      BY <1>12 DEF ChangeSends
    <3>2. s \in FileState
      BY <3>1, OpenedType, IncrementedType
    <3> QED
      BY <3>1, <3>2 DEF FileState
  <2>2. TextToSend(t) \in 0 .. MaxEdits + 1 /\ mtime[t] \in 0 .. MaxEdits + 1
    BY <2>1, DiskType DEF TextToSend
  <2>3. /\ pc[t] \in {"reopening", "deciding"}
        /\ cache' = [cache EXCEPT ![f] = s]
        /\ doc' = [doc EXCEPT ![f].version = s.version, ![f].text = TextToSend(t)]
        /\ pc' = [pc EXCEPT ![t] = "done"]
        /\ lastChange' = [lastChange EXCEPT ![f] = s.version]
        /\ acked' = [acked EXCEPT ![f] = IF @ < mtime[t] THEN mtime[t] ELSE @]
        /\ UNCHANGED <<disk, queue, file, mtime, result, serverVars, due, ahead,
                       wiped>>
    BY <1>12 DEF ChangeSends
  <2> HIDE DEF s
  <2>4. TypeOK'
    <3>1. cache' \in [Files -> FileState] /\ lastChange' \in [Files -> Nat]
      BY <2>1, <2>3
    <3>2. acked' \in [Files -> 0 .. MaxEdits + 1]
      BY <2>1, <2>2, <2>3
    <3>3. doc' \in [Files -> [open : BOOLEAN, version : Nat,
                             text : 0 .. MaxEdits + 1]]
      BY <2>1, <2>2, <2>3, ChangedType
    <3> QED
      BY <2>3, <3>1, <3>2, <3>3
  <2> QED
    BY <2>1, <2>3, <2>4, StageKept
<1>13. ASSUME NEW f \in Files, Edit(f) PROVE Formed'
  <2>1. disk' \in [Files -> Contents]
    BY <1>13 DEF Edit
  <2>2. UNCHANGED <<doc, codeVars, serverVars, historyVars>>
    BY <1>13 DEF Edit
  <2> QED
    BY <2>1, <2>2
<1>14. ASSUME NEW f \in Files, ServerPublishes(f) PROVE Formed'
  <2>1. [kind |-> "push", task |-> NoFile, file |-> f, diags |-> doc[f].text,
         resultId |-> Nothing] \in Push
    BY DEF Push, Nothing
  <2> QED
    BY <1>14, <2>1, PipeExtended DEF ServerPublishes
<1>15. ASSUME NEW r \in requests, ServerAnswers(r) PROVE Formed'
  <2>1. r \in Request
    OBVIOUS
  <2>2. \A k \in {"full", "unchanged"}, i \in {doc[r.file].text, Nothing, r.previous} :
          Answer(r, k, i) \in Reply
    BY <2>1 DEF Answer, Request, Reply, Nothing
  <2>3. PICK m \in Reply : pipe' = Append(pipe, m)
    BY <1>15, <2>2 DEF ServerAnswers
  <2>4. pipe' \in Seq(Reply \cup Push) /\ pipe' \in Seq(Message)
    BY <2>3, PipeExtended
  <2>5. requests' \subseteq Request
        /\ UNCHANGED <<disk, doc, codeVars, published, historyVars>>
    BY <1>15 DEF ServerAnswers
  <2> QED
    BY <2>4, <2>5
<1>16. CASE UNCHANGED vars
  BY <1>16 DEF vars
<1> QED
  BY <1>1, <1>2, <1>3, <1>4, <1>5, <1>6, <1>7, <1>8, <1>9, <1>10, <1>11, <1>12,
     <1>13, <1>14, <1>15, <1>16 DEF Next, DiagStep, ChangeStep

\* The queues and the requests behind them stay as they are.
LEMMA TurnsSame ==
  ASSUME Turns, queue' = queue,
         \A u \in Diags : pc'[u] = pc[u] /\ file'[u] = file[u]
  PROVE  Turns'
BY DEF Turns

\* The holder of a lock goes on.
LEMMA TurnsOn ==
  ASSUME WellFormed, NEW t \in Diags, NEW s \in {"opening", "asking"},
         queue' = queue, file' = file, pc' = [pc EXCEPT ![t] = s],
         pc[t] = "opening" \/ (pc[t] = "locking" /\ HasTurn(t))
  PROVE  Turns'
<1>1. \A u \in Diags : pc'[u] = IF u = t THEN s ELSE pc[u]
  BY DEF WellFormed, Formed, TypeOK, Tasks
<1>2. queue[file[t]] # <<>> /\ Head(queue[file[t]]) = t
  BY TurnTaken
<1> QED
  BY <1>1, <1>2 DEF WellFormed, Turns

\* Every step keeps the requests inside at the head of their queue.
LEMMA TurnsNext == WellFormed /\ [Next]_vars => Turns'
<1> SUFFICES ASSUME WellFormed, [Next]_vars PROVE Turns'
  OBVIOUS
<1>0. /\ DOMAIN pc = Tasks /\ DOMAIN file = Tasks
      /\ queue \in [Files -> Seq(Diags)]
      /\ Diags \subseteq Tasks /\ Changes \subseteq Tasks
      /\ \A u \in Diags : u \notin Changes
      /\ Turns
  BY DocumentSyncAssumption DEF WellFormed, Formed, TypeOK, Tasks
<1>1. ASSUME NEW t \in Diags, NEW f \in Files, DiagArrives(t, f) PROVE Turns'
  <2>1. /\ pc[t] = "idle"
        /\ pc' = [pc EXCEPT ![t] = "locking"]
        /\ file' = [file EXCEPT ![t] = f]
        /\ queue' = [queue EXCEPT ![f] = Append(@, t)]
    BY <1>1 DEF DiagArrives
  <2>2. /\ queue'[f] = Append(queue[f], t)
        /\ \A g \in Files \ {f} : queue'[g] = queue[g]
        /\ queue[f] \in Seq(Diags)
    BY <1>0, <2>1
  <2>3. /\ queue'[f] # <<>>
        /\ Len(queue[f]) \in Nat
        /\ Len(queue'[f]) = Len(queue[f]) + 1
        /\ queue'[f][Len(queue[f]) + 1] = t
        /\ queue[f] # <<>> => Head(queue'[f]) = Head(queue[f])
        /\ \A k \in 1 .. Len(queue[f]) :
             k \in 1 .. Len(queue'[f]) /\ queue'[f][k] = queue[f][k]
    BY <2>2, Appended
  <2>4. ASSUME NEW u \in Diags, pc'[u] \in {"opening", "asking"}
        PROVE  queue'[file'[u]] # <<>> /\ Head(queue'[file'[u]]) = u
    <3>1. u # t /\ pc[u] \in {"opening", "asking"} /\ file'[u] = file[u]
      BY <1>0, <2>1, <2>4
    <3>2. file[u] \in Files /\ queue[file[u]] # <<>> /\ Head(queue[file[u]]) = u
      BY <3>1, TurnTaken
    <3> QED
      BY <2>2, <2>3, <3>1, <3>2
  <2>5. ASSUME NEW u \in Diags, pc'[u] = "locking"
        PROVE  \E k \in 1 .. Len(queue'[file'[u]]) : queue'[file'[u]][k] = u
    <3>1. CASE u = t
      BY <1>0, <2>1, <2>3, <3>1
    <3>2. CASE u # t
      <4>1. /\ pc[u] = "locking" /\ file'[u] = file[u] /\ file[u] \in Files
            /\ \E k \in 1 .. Len(queue[file[u]]) : queue[file[u]][k] = u
        BY <1>0, <2>1, <2>5, <3>2 DEF WellFormed, Formed, Turns
      <4> QED
        BY <2>2, <2>3, <4>1
    <3> QED
      BY <3>1, <3>2
  <2> QED
    BY <2>4, <2>5 DEF Turns
<1>2. ASSUME NEW t \in Diags, DiagOpens(t) PROVE Turns'
  BY <1>2, TurnsOn DEF DiagOpens
<1>3. ASSUME NEW t \in Diags, DiagOpenRaises(t) PROVE Turns'
  BY <1>3, TurnsAfterReturn DEF DiagOpenRaises
<1>4. ASSUME NEW t \in Diags, DiagAsks(t) PROVE Turns'
  <2>1. /\ file' = file
        /\ pc[t] = "opening" \/ (pc[t] = "locking" /\ HasTurn(t))
        /\ \/ \E d : Returns(t, d)
           \/ pc' = [pc EXCEPT ![t] = "asking"] /\ queue' = queue
    BY <1>4 DEF DiagAsks
  <2>2. ASSUME NEW d, Returns(t, d) PROVE Turns'
    BY <2>1, <2>2, TurnsAfterReturn
  <2>3. CASE pc' = [pc EXCEPT ![t] = "asking"] /\ queue' = queue
    BY <2>1, <2>3, TurnsOn
  <2> QED
    BY <2>1, <2>2, <2>3
<1>5. ASSUME NEW t \in Diags, DiagFails(t) PROVE Turns'
  BY <1>5, TurnsAfterReturn DEF DiagFails
<1>6. CASE DiagAnswered
  <2>1. /\ pipe # <<>> /\ Head(pipe).kind # "push"
        /\ pc[Head(pipe).task] = "asking" /\ file' = file
        /\ \E d : Returns(Head(pipe).task, d)
    BY <1>6 DEF DiagAnswered
  <2>2. Head(pipe).task \in Diags
    BY <2>1, PipeTaken DEF Reply
  <2> QED
    BY <2>1, <2>2, TurnsAfterReturn
<1>7. CASE LateAnswer
  BY <1>0, <1>7, TurnsSame DEF LateAnswer, codeVars
<1>8. CASE Published
  BY <1>0, <1>8, TurnsSame DEF Published
<1>9. ASSUME NEW t \in Changes, ChangeStep(t) PROVE Turns'
  <2>1. /\ queue' = queue
        /\ \A u \in Diags : pc'[u] = pc[u] /\ file'[u] = file[u]
    <3>1. ASSUME NEW f \in Files, ChangeArrives(t, f)
          PROVE  /\ queue' = queue
                 /\ \A u \in Diags : pc'[u] = pc[u] /\ file'[u] = file[u]
      BY <1>0, <3>1 DEF ChangeArrives
    <3> QED
      BY <1>0, <1>9, <3>1 DEF ChangeStep, ChangeOpens, ChangeOpenRaises, ChangeSends
  <2> QED
    BY <1>0, <2>1, TurnsSame
<1>10. ASSUME NEW f \in Files, Edit(f) PROVE Turns'
  BY <1>0, <1>10, TurnsSame DEF Edit, codeVars
<1>11. ASSUME NEW f \in Files, ServerPublishes(f) PROVE Turns'
  BY <1>0, <1>11, TurnsSame DEF ServerPublishes, codeVars
<1>12. ASSUME NEW r \in requests, ServerAnswers(r) PROVE Turns'
  BY <1>0, <1>12, TurnsSame DEF ServerAnswers, codeVars
<1>13. CASE UNCHANGED vars
  BY <1>0, <1>13, TurnsSame DEF vars, codeVars
<1> QED
  BY <1>1, <1>2, <1>3, <1>4, <1>5, <1>6, <1>7, <1>8, <1>9, <1>10, <1>11, <1>12,
     <1>13 DEF Next, DiagStep

\* Types and turns hold for good.
LEMMA WellFormedAlways == Spec => []WellFormed
BY FormedInit, FormedNext, TurnsNext, PTL DEF Spec, WellFormed

\* Every variable of the document synchronization keeps its type, and a
\* handler that leaves finds itself at the head of the queue it leaves.
THEOREM TypeCorrect == Spec => []TypeOK
<1>1. WellFormed => TypeOK
  BY DEF WellFormed, Formed
<1> QED
  BY <1>1, WellFormedAlways, PTL
-----------------------------------------------------------------------------
(* Documents, mtimes and acknowledgements.                                 *)

\* What is sent or remembered of a file is not newer than the disk.
Behind ==
  /\ \A f \in Files : doc[f].text <= disk[f]
  /\ \A t \in Tasks : pc[t] = "idle" => mtime[t] = 0
  /\ \A t \in Tasks : pc[t] # "idle" => mtime[t] <= disk[file[t]]

SyncInv == WellFormed /\ Behind /\ AckSynced

\* All a step does to these variables.
DocEffect ==
  /\ \A f \in Files : disk'[f] >= disk[f]
  /\ \A f \in Files : doc'[f] = doc[f] \/ doc'[f].text = disk[f]
  /\ \A f \in Files :
       \/ acked'[f] = acked[f]
       \/ /\ doc'[f].text = disk[f]
          /\ \E t \in Tasks : /\ pc[t] # "idle" /\ file[t] = f
                              /\ acked'[f] = IF acked[f] < mtime[t] THEN mtime[t]
                                                                   ELSE acked[f]

MtimeEffect ==
  \A t \in Tasks :
    \/ pc'[t] = "idle" /\ pc[t] = "idle" /\ mtime'[t] = mtime[t]
    \/ pc'[t] # "idle" /\ pc[t] = "idle" /\ mtime'[t] = mtime[t] /\ file'[t] \in Files
    \/ pc'[t] # "idle" /\ pc[t] # "idle" /\ mtime'[t] = mtime[t] /\ file'[t] = file[t]
    \/ pc'[t] # "idle" /\ file'[t] \in Files
         /\ mtime'[t] \in {0, disk[file'[t]]}

\* Every step changes documents, pipe and disk as DocEffect says.
LEMMA DocEffects == WellFormed /\ [Next]_vars => DocEffect
<1> SUFFICES ASSUME WellFormed, [Next]_vars PROVE DocEffect
  OBVIOUS
<1>0. /\ DOMAIN pc = Tasks /\ disk \in [Files -> Nat]
      /\ DOMAIN doc = Files /\ DOMAIN acked = Files
      /\ doc \in [Files -> [open : BOOLEAN, version : Nat,
                            text : 0 .. MaxEdits + 1]]
      /\ Diags \subseteq Tasks /\ Changes \subseteq Tasks
      /\ \A t \in Tasks : pc[t] # "idle" => file[t] \in Files
  BY DocumentSyncAssumption
     DEF WellFormed, Formed, TypeOK, Tasks, Contents
<1>1. ASSUME UNCHANGED <<disk, doc, acked>> PROVE DocEffect
  BY <1>0, <1>1 DEF DocEffect
<1>2. ASSUME NEW f \in Files, DidOpen(f), UNCHANGED <<disk, acked>>
      PROVE  DocEffect
  BY <1>0, <1>2 DEF DocEffect, DidOpen
<1>3. ASSUME NEW t \in Diags, DiagStep(t) PROVE DocEffect
  <2>1. CASE DiagOpens(t)
    <3>1. file[t] \in Files /\ DidOpen(file[t]) /\ UNCHANGED <<disk, acked>>
      BY <1>0, <2>1 DEF DiagOpens, historyVars
    <3> QED
      BY <1>2, <3>1
  <2>2. CASE DiagOpenRaises(t) \/ DiagAsks(t) \/ DiagFails(t)
    BY <1>1, <2>2 DEF DiagOpenRaises, DiagAsks, DiagFails, historyVars
  <2>3. ASSUME NEW f \in Files, DiagArrives(t, f) PROVE DocEffect
    BY <1>1, <2>3 DEF DiagArrives
  <2> QED
    BY <1>3, <2>1, <2>2, <2>3 DEF DiagStep
<1>4. CASE DiagAnswered \/ LateAnswer \/ Published
  BY <1>1, <1>4 DEF DiagAnswered, LateAnswer, Published, historyVars
<1>5. ASSUME NEW t \in Changes, ChangeStep(t) PROVE DocEffect
  <2>1. CASE ChangeOpens(t)
    <3>1. file[t] \in Files /\ DidOpen(file[t]) /\ UNCHANGED <<disk, acked>>
      BY <1>0, <2>1 DEF ChangeOpens, historyVars
    <3> QED
      BY <1>2, <3>1
  <2>2. CASE ChangeOpenRaises(t)
    BY <1>1, <2>2 DEF ChangeOpenRaises, historyVars
  <2>3. ASSUME NEW f \in Files, ChangeArrives(t, f) PROVE DocEffect
    BY <1>1, <2>3 DEF ChangeArrives, historyVars
  <2>4. CASE ChangeSends(t)
    <3>1. PICK v : /\ doc' = [doc EXCEPT ![file[t]].version = v,
                                         ![file[t]].text = disk[file[t]]]
                   /\ acked' = [acked EXCEPT ![file[t]] =
                                  IF @ < mtime[t] THEN mtime[t] ELSE @]
                   /\ disk' = disk
                   /\ pc[t] # "idle" /\ file[t] \in Files /\ t \in Tasks
      BY <1>0, <2>4 DEF ChangeSends, TextToSend
    <3>2. /\ doc'[file[t]].text = disk[file[t]]
          /\ \A f \in Files \ {file[t]} : doc'[f] = doc[f]
      BY <1>0, <3>1
    <3>3. /\ acked'[file[t]] = IF acked[file[t]] < mtime[t] THEN mtime[t]
                                                            ELSE acked[file[t]]
          /\ \A f \in Files \ {file[t]} : acked'[f] = acked[f]
      BY <1>0, <3>1
    <3> QED
      BY <1>0, <3>1, <3>2, <3>3 DEF DocEffect
  <2> QED
    BY <1>5, <2>1, <2>2, <2>3, <2>4 DEF ChangeStep
<1>6. ASSUME NEW f \in Files, Edit(f) PROVE DocEffect
  BY <1>0, <1>6 DEF Edit, historyVars, DocEffect
<1>7. ASSUME NEW f \in Files, ServerPublishes(f) PROVE DocEffect
  BY <1>1, <1>7 DEF ServerPublishes, historyVars
<1>8. ASSUME NEW r \in requests, ServerAnswers(r) PROVE DocEffect
  BY <1>1, <1>8 DEF ServerAnswers, historyVars
<1>9. CASE UNCHANGED vars
  BY <1>1, <1>9 DEF vars, historyVars
<1> QED
  BY <1>3, <1>4, <1>5, <1>6, <1>7, <1>8, <1>9 DEF Next

\* Every step changes the recorded mtimes as MtimeEffect says.
LEMMA MtimeEffects == WellFormed /\ [Next]_vars => MtimeEffect
<1> SUFFICES ASSUME WellFormed, [Next]_vars PROVE MtimeEffect
  OBVIOUS
<1>0. /\ DOMAIN pc = Tasks /\ DOMAIN file = Tasks /\ DOMAIN mtime = Tasks
      /\ Diags \subseteq Tasks /\ Changes \subseteq Tasks
      /\ \A t \in Tasks : pc[t] # "idle" => file[t] \in Files
  BY DEF WellFormed, Formed, TypeOK, Tasks
<1>1. ASSUME UNCHANGED <<file, mtime>>,
             UNCHANGED pc \/ \E t \in Tasks : \E s :
                                /\ pc[t] # "idle" /\ s # "idle"
                                /\ pc' = [pc EXCEPT ![t] = s]
      PROVE  MtimeEffect
  BY <1>0, <1>1 DEF MtimeEffect
<1>2. ASSUME NEW t \in Diags, DiagStep(t) PROVE MtimeEffect
  <2>1. CASE DiagOpens(t)
    BY <1>0, <1>1, <2>1 DEF DiagOpens
  <2>2. CASE DiagOpenRaises(t)
    BY <1>0, <1>1, <2>2 DEF DiagOpenRaises, Returns
  <2>3. CASE DiagFails(t)
    BY <1>0, <1>1, <2>3 DEF DiagFails, Returns
  <2>4. CASE DiagAsks(t)
    <3>1. PICK m \in {disk[file[t]], 0}, s \in {"done", "asking"} :
            /\ mtime' = [mtime EXCEPT ![t] = m]
            /\ pc' = [pc EXCEPT ![t] = s] /\ file' = file /\ pc[t] # "idle"
      BY <2>4 DEF DiagAsks, StatMtime, Nothing, Returns
    <3> QED
      BY <1>0, <3>1 DEF MtimeEffect
  <2>5. ASSUME NEW f \in Files, DiagArrives(t, f) PROVE MtimeEffect
    BY <1>0, <2>5 DEF DiagArrives, MtimeEffect
  <2> QED
    BY <1>2, <2>1, <2>2, <2>3, <2>4, <2>5 DEF DiagStep
<1>3. CASE DiagAnswered
  <2>1. /\ pipe # <<>> /\ Head(pipe).kind # "push"
        /\ pc[Head(pipe).task] = "asking" /\ UNCHANGED <<file, mtime>>
        /\ pc' = [pc EXCEPT ![Head(pipe).task] = "done"]
    BY <1>3 DEF DiagAnswered, Returns
  <2>2. Head(pipe).task \in Tasks
    BY <1>0, <2>1, PipeTaken DEF Reply
  <2> QED
    BY <1>1, <2>1, <2>2
<1>4. CASE LateAnswer \/ Published
  BY <1>1, <1>4 DEF LateAnswer, Published, codeVars
<1>5. ASSUME NEW t \in Changes, ChangeStep(t) PROVE MtimeEffect
  <2>1. CASE ChangeOpens(t)
    BY <1>0, <1>1, <2>1 DEF ChangeOpens
  <2>2. CASE ChangeOpenRaises(t)
    BY <1>0, <1>1, <2>2 DEF ChangeOpenRaises
  <2>3. CASE ChangeSends(t)
    BY <1>0, <1>1, <2>3 DEF ChangeSends
  <2>4. ASSUME NEW f \in Files, ChangeArrives(t, f) PROVE MtimeEffect
    BY <1>0, <2>4 DEF ChangeArrives, MtimeEffect, StatMtime
  <2> QED
    BY <1>5, <2>1, <2>2, <2>3, <2>4 DEF ChangeStep
<1>6. ASSUME NEW f \in Files, Edit(f) PROVE MtimeEffect
  BY <1>1, <1>6 DEF Edit, codeVars
<1>7. ASSUME NEW f \in Files, ServerPublishes(f) PROVE MtimeEffect
  BY <1>1, <1>7 DEF ServerPublishes, codeVars
<1>8. ASSUME NEW r \in requests, ServerAnswers(r) PROVE MtimeEffect
  BY <1>1, <1>8 DEF ServerAnswers, codeVars
<1>9. CASE UNCHANGED vars
  BY <1>1, <1>9 DEF vars, codeVars
<1> QED
  BY <1>2, <1>3, <1>4, <1>5, <1>6, <1>7, <1>8, <1>9 DEF Next

\* SyncInv holds at first.
LEMMA SyncInit == Init => SyncInv
<1>1. Init => Behind /\ AckSynced
  BY DEF Init, Behind, AckSynced, Tasks
<1> QED
  BY <1>1, FormedInit DEF SyncInv

\* Every step keeps SyncInv.
LEMMA SyncNext == SyncInv /\ [Next]_vars => SyncInv'
<1> SUFFICES ASSUME SyncInv, [Next]_vars PROVE SyncInv'
  OBVIOUS
<1>1. WellFormed /\ WellFormed'
  BY FormedNext, TurnsNext DEF SyncInv, WellFormed
<1>2. DocEffect /\ MtimeEffect
  BY <1>1, DocEffects, MtimeEffects
<1>3. /\ disk \in [Files -> Nat] /\ disk' \in [Files -> Nat]
      /\ acked \in [Files -> Nat] /\ mtime \in [Tasks -> Nat]
      /\ \A t \in Tasks : pc[t] # "idle" => file[t] \in Files
      /\ \A f \in Files : doc[f].text \in Nat /\ doc'[f].text \in Nat
  <2>1. /\ disk \in [Files -> Nat] /\ acked \in [Files -> Nat]
        /\ mtime \in [Tasks -> Nat]
        /\ \A t \in Tasks : pc[t] # "idle" => file[t] \in Files
    BY <1>1, DocumentSyncAssumption DEF WellFormed, Formed, TypeOK, Contents
  <2>2. disk' \in [Files -> Nat]
    BY <1>1, DocumentSyncAssumption DEF WellFormed, Formed, TypeOK, Contents
  <2>3. \A f \in Files : doc[f].text \in Nat
    BY <1>1, DocumentSyncAssumption DEF WellFormed, Formed, TypeOK
  <2>4. \A f \in Files : doc'[f].text \in Nat
    BY <1>1, DocumentSyncAssumption DEF WellFormed, Formed, TypeOK
  <2> QED
    BY <2>1, <2>2, <2>3, <2>4
<1>4. \A f \in Files : doc'[f].text <= disk'[f]
  BY <1>2, <1>3 DEF DocEffect, SyncInv, Behind
<1>5. \A t \in Tasks : pc'[t] = "idle" => mtime'[t] = 0
  BY <1>2 DEF MtimeEffect, SyncInv, Behind
<1>6. \A t \in Tasks : pc'[t] # "idle" => mtime'[t] <= disk'[file'[t]]
  BY <1>2, <1>3 DEF DocEffect, MtimeEffect, SyncInv, Behind
<1>7. AckSynced'
  BY <1>2, <1>3 DEF DocEffect, SyncInv, Behind, AckSynced
<1> QED
  BY <1>1, <1>4, <1>5, <1>6, <1>7 DEF SyncInv, Behind

\* SyncInv holds for good.
LEMMA SyncAlways == Spec => []SyncInv
BY SyncInit, SyncNext, PTL DEF Spec

\* An acknowledged did-change has reached the server (_handle_did_change),
\* for any number of requests that open and change the file meanwhile.
THEOREM AckSyncedHolds == Spec => []AckSynced
<1>1. SyncInv => AckSynced
  BY DEF SyncInv
<1> QED
  BY <1>1, SyncAlways, PTL

\* The server's document never goes back to older contents (open_document,
\* send_did_change).
THEOREM DocNeverOlderHolds == Spec => DocNeverOlder
<1>1. SyncInv /\ [Next]_vars => [\A f \in Files : doc'[f].text >= doc[f].text]_vars
  <2> SUFFICES ASSUME SyncInv, [Next]_vars
               PROVE  \A f \in Files : doc'[f].text >= doc[f].text
    OBVIOUS
  <2>1. DocEffect
    BY DocEffects DEF SyncInv
  <2>2. \A f \in Files : doc[f].text \in Nat /\ disk[f] \in Nat
    BY DocumentSyncAssumption DEF SyncInv, WellFormed, Formed, TypeOK, Contents
  <2> QED
    BY <2>1, <2>2 DEF DocEffect, SyncInv, Behind
<1> QED
  BY <1>1, SyncAlways, PTL DEF Spec, DocNeverOlder
-----------------------------------------------------------------------------
(* The entries of the cache.                                               *)

\* An open file has been counted; the last didChange carried a version the
\* counter has not fallen below; the recorded mtime is not newer than the
\* disk, nor than what a request inside has read and may record next.
Counted ==
  /\ \A f \in Files : cache[f].open => cache[f].version >= 1
  /\ \A f \in Files : lastChange[f] <= 1 \/ lastChange[f] <= cache[f].version

Recorded ==
  /\ \A f \in Files : cache[f].mtime <= disk[f]
  /\ \A t \in Diags : pc[t] = "asking" /\ mtime[t] # 0
       => cache[file[t]].mtime <= mtime[t]

CacheInv == SyncInv /\ Counted /\ Recorded

\* All a step does to an entry: nothing, an open, a didChange, a notification
\* or an answer.
Same(s, r) == r.mtime = s.mtime /\ r.diags = s.diags
Counts(s, r) == r.open = s.open /\ r.version = s.version

Answered(f, t) ==
  /\ pipe # <<>> /\ pipe' = Tail(pipe)
  /\ Head(pipe).kind # "push" /\ Head(pipe).task = t
  /\ pc[t] = "asking" /\ pc'[t] = "done" /\ file[t] = f
  /\ cache'[f].mtime = IF mtime[t] = 0 THEN cache[f].mtime ELSE mtime[t]
  /\ f \in wiped' \/ cache'[f].diags = Head(pipe).diags

CacheEffect ==
  \A f \in Files :
    \/ /\ Same(cache[f], cache'[f]) /\ Counts(cache[f], cache'[f])
       /\ lastChange'[f] = lastChange[f]
    \/ /\ Same(cache[f], cache'[f])
       /\ cache'[f].version = cache[f].version + 1
       /\ lastChange'[f] = lastChange[f]
    \/ /\ Same(cache[f], cache'[f])
       /\ cache'[f].version > cache[f].version /\ cache'[f].version > 1
       /\ lastChange'[f] = cache'[f].version
    \/ /\ pipe # <<>> /\ Head(pipe).file = f
       /\ cache'[f].diags = Head(pipe).diags /\ cache'[f].mtime = cache[f].mtime
       /\ Counts(cache[f], cache'[f])
       /\ lastChange'[f] = lastChange[f]
    \/ /\ \E t \in Diags : Answered(f, t)
       /\ Counts(cache[f], cache'[f])
       /\ lastChange'[f] = lastChange[f]

\* Who asks was asking already, or has just read the mtime.
AskEffect ==
  \A t \in Diags : pc'[t] = "asking"
    => /\ file'[t] = file[t] /\ file[t] \in Files /\ pc[t] # "idle"
       /\ \/ pc[t] = "asking" /\ mtime'[t] = mtime[t]
          \/ /\ pc[t] # "asking" /\ pc[t] # "done" /\ pipe' = pipe
             /\ mtime'[t] \in {0, disk[file[t]]}
             /\ file[t] \notin ahead' => mtime'[t] <= doc[file[t]].text

\* Every step changes the asking requests as AskEffect says.
LEMMA AskEffects == WellFormed /\ [Next]_vars => AskEffect
<1> SUFFICES ASSUME WellFormed, [Next]_vars PROVE AskEffect
  OBVIOUS
<1>0. /\ DOMAIN pc = Tasks /\ DOMAIN file = Tasks /\ DOMAIN mtime = Tasks
      /\ Diags \subseteq Tasks /\ Changes \subseteq Tasks
      /\ \A t \in Diags : t \notin Changes
      /\ \A t \in Tasks : pc[t] # "idle" => file[t] \in Files
      /\ \A f \in Files : disk[f] \in Nat /\ doc[f].text \in Nat
  BY DocumentSyncAssumption DEF WellFormed, Formed, TypeOK, Tasks, Contents
<1>1. ASSUME \A t \in Diags : pc'[t] = "asking"
               => pc[t] = "asking" /\ mtime'[t] = mtime[t] /\ file'[t] = file[t]
      PROVE  AskEffect
  BY <1>0, <1>1 DEF AskEffect
<1>2. ASSUME NEW t \in Diags, DiagStep(t) PROVE AskEffect
  <2>1. CASE DiagOpens(t)
    BY <1>0, <1>1, <2>1 DEF DiagOpens
  <2>2. CASE DiagOpenRaises(t)
    BY <1>0, <1>1, <2>2 DEF DiagOpenRaises, Returns
  <2>3. CASE DiagFails(t)
    BY <1>0, <1>1, <2>3 DEF DiagFails, Returns
  <2>4. CASE DiagAsks(t)
    <3>1. PICK m \in {disk[file[t]], 0}, s \in {"done", "asking"} :
            /\ mtime' = [mtime EXCEPT ![t] = m]
            /\ pc' = [pc EXCEPT ![t] = s] /\ file' = file
            /\ pc[t] # "idle" /\ pc[t] # "asking" /\ pc[t] # "done"
            /\ pipe' = pipe
            /\ ahead' = IF m > doc[file[t]].text THEN ahead \cup {file[t]}
                                                 ELSE ahead
      BY <2>4 DEF DiagAsks, StatMtime, Nothing, Returns
    <3>2. m \in Nat /\ doc[file[t]].text \in Nat /\ file[t] \in Files
      BY <1>0, <3>1
    <3>3. file[t] \notin ahead' => m <= doc[file[t]].text
      BY <3>1, <3>2
    <3> QED
      BY <1>0, <3>1, <3>2, <3>3 DEF AskEffect
  <2>5. ASSUME NEW f \in Files, DiagArrives(t, f) PROVE AskEffect
    BY <1>0, <1>1, <2>5 DEF DiagArrives
  <2> QED
    BY <1>2, <2>1, <2>2, <2>3, <2>4, <2>5 DEF DiagStep
<1>3. CASE DiagAnswered
  <2>1. /\ pipe # <<>> /\ Head(pipe).kind # "push"
        /\ UNCHANGED <<file, mtime>>
        /\ pc' = [pc EXCEPT ![Head(pipe).task] = "done"]
    BY <1>3 DEF DiagAnswered, Returns
  <2>2. Head(pipe).task \in Tasks
    BY <1>0, <2>1, PipeTaken DEF Reply
  <2> QED
    BY <1>0, <1>1, <2>1, <2>2
<1>4. CASE LateAnswer \/ Published
  BY <1>1, <1>4 DEF LateAnswer, Published, codeVars
<1>5. ASSUME NEW t \in Changes, ChangeStep(t) PROVE AskEffect
  <2>1. \A u \in Diags : /\ pc'[u] = pc[u] /\ mtime'[u] = mtime[u]
                         /\ file'[u] = file[u]
    <3>1. ASSUME NEW f \in Files, ChangeArrives(t, f)
          PROVE  \A u \in Diags : /\ pc'[u] = pc[u] /\ mtime'[u] = mtime[u]
                                  /\ file'[u] = file[u]
      BY <1>0, <3>1 DEF ChangeArrives
    <3> QED
      BY <1>0, <1>5, <3>1 DEF ChangeStep, ChangeOpens, ChangeOpenRaises, ChangeSends
  <2> QED
    BY <1>1, <2>1
<1>6. ASSUME NEW f \in Files, Edit(f) PROVE AskEffect
  BY <1>1, <1>6 DEF Edit, codeVars
<1>7. ASSUME NEW f \in Files, ServerPublishes(f) PROVE AskEffect
  BY <1>1, <1>7 DEF ServerPublishes, codeVars
<1>8. ASSUME NEW r \in requests, ServerAnswers(r) PROVE AskEffect
  BY <1>1, <1>8 DEF ServerAnswers, codeVars
<1>9. CASE UNCHANGED vars
  BY <1>1, <1>9 DEF vars, codeVars
<1> QED
  BY <1>2, <1>3, <1>4, <1>5, <1>6, <1>7, <1>8, <1>9 DEF Next

\* What opening does to the fields of an entry.
LEMMA EntryOpened ==
  ASSUME NEW s \in FileState
  PROVE  /\ Same(s, Opened(s)) /\ Opened(s).version = s.version + 1
BY DEF FileState, Opened, Same

\* What counting a version does to the fields of an entry.
LEMMA EntryIncremented ==
  ASSUME NEW s \in FileState
  PROVE  Same(s, Incremented(s)) /\ Incremented(s).version = s.version + 1
BY DEF FileState, Incremented, Same

\* What storing does to the fields of an entry.
LEMMA EntryStored ==
  ASSUME NEW s \in FileState, NEW f, NEW m, NEW d, NEW i
  PROVE  /\ Counts(s, Stored(f, s, m, d, i))
         /\ Stored(f, s, m, d, i).diags = d
         /\ Stored(f, s, m, d, i).mtime = IF m = 0 THEN s.mtime ELSE m
BY DEF FileState, Stored, Counts, Nothing

\* A didChange carries a version above the counter.
LEMMA ChangeCounts ==
  ASSUME WellFormed, Counted, NEW t \in Changes, ChangeSends(t)
  PROVE  /\ file[t] \in Files
         /\ Same(cache[file[t]], cache'[file[t]])
         /\ cache'[file[t]].version > cache[file[t]].version
         /\ cache'[file[t]].version > 1
         /\ lastChange'[file[t]] = cache'[file[t]].version
         /\ \A g \in Files \ {file[t]} :
              cache'[g] = cache[g] /\ lastChange'[g] = lastChange[g]
<1> DEFINE f == file[t]
           o == IF pc[t] = "reopening" THEN Opened(cache[f]) ELSE cache[f]
<1>1. /\ pc[t] = "reopening" \/ (pc[t] = "deciding" /\ ~NeedsDidOpen(t))
      /\ cache' = [cache EXCEPT ![f] = Incremented(o)]
      /\ lastChange' = [lastChange EXCEPT ![f] = Incremented(o).version]
  BY DEF ChangeSends
<1>2. f \in Files /\ cache[f] \in FileState /\ cache[f].version \in Nat
  BY <1>1 DEF FileState, WellFormed, Formed, TypeOK, Tasks
<1>3. /\ o \in FileState /\ Same(cache[f], o) /\ o.version >= cache[f].version
      /\ o.version >= 1 /\ o.version \in Nat
  <2>1. CASE pc[t] = "reopening"
    BY <1>2, <2>1, OpenedType, EntryOpened
  <2>2. CASE pc[t] # "reopening"
    BY <1>1, <1>2, <2>2 DEF NeedsDidOpen, Counted, Same
  <2> QED
    BY <2>1, <2>2
<1>4. Same(o, Incremented(o)) /\ Incremented(o).version = o.version + 1
  BY <1>3, EntryIncremented
<1> HIDE DEF o
<1>5. DOMAIN cache = Files /\ DOMAIN lastChange = Files
  BY DEF WellFormed, Formed, TypeOK
<1>6. /\ cache'[f] = Incremented(o) /\ lastChange'[f] = Incremented(o).version
      /\ \A g \in Files \ {f} :
           cache'[g] = cache[g] /\ lastChange'[g] = lastChange[g]
  BY <1>1, <1>2, <1>5
<1>7. /\ Same(cache[f], cache'[f])
      /\ cache'[f].version > cache[f].version /\ cache'[f].version > 1
  BY <1>2, <1>3, <1>4, <1>6 DEF Same
<1> QED
  BY <1>2, <1>6, <1>7

\* Every step changes the cache as CacheEffect says.
LEMMA CacheEffects == WellFormed /\ Counted /\ [Next]_vars => CacheEffect
<1> SUFFICES ASSUME WellFormed, Counted, [Next]_vars PROVE CacheEffect
  OBVIOUS
<1>0. /\ cache \in [Files -> FileState]
      /\ DOMAIN lastChange = Files /\ DOMAIN pc = Tasks
      /\ Diags \subseteq Tasks /\ Changes \subseteq Tasks
      /\ \A t \in Tasks : pc[t] # "idle" => file[t] \in Files
  BY DEF WellFormed, Formed, TypeOK, Tasks
<1>1. ASSUME UNCHANGED <<cache, lastChange>> PROVE CacheEffect
  BY <1>1 DEF CacheEffect, Same, Counts
<1>2. ASSUME NEW t \in Diags, DiagStep(t) PROVE CacheEffect
  <2>1. CASE DiagOpens(t)
    BY <1>1, <2>1 DEF DiagOpens, historyVars
  <2>2. CASE DiagOpenRaises(t)
    BY <1>1, <2>2 DEF DiagOpenRaises, historyVars
  <2>3. CASE DiagFails(t)
    BY <1>1, <2>3 DEF DiagFails, historyVars
  <2>4. CASE DiagAsks(t)
    <3>1. file[t] \in Files /\ lastChange' = lastChange
      BY <1>0, <2>4 DEF DiagAsks
    <3>2. \/ cache' = [cache EXCEPT ![file[t]] = Opened(cache[file[t]])]
          \/ cache' = [cache EXCEPT ![file[t]] = cache[file[t]]]
      BY <2>4 DEF DiagAsks
    <3>3. /\ Same(cache[file[t]], Opened(cache[file[t]]))
          /\ Opened(cache[file[t]]).version = cache[file[t]].version + 1
      BY <1>0, <3>1, EntryOpened
    <3> QED
      BY <1>0, <3>1, <3>2, <3>3 DEF CacheEffect, Same, Counts
  <2>5. ASSUME NEW f \in Files, DiagArrives(t, f) PROVE CacheEffect
    BY <1>1, <2>5 DEF DiagArrives
  <2> QED
    BY <1>2, <2>1, <2>2, <2>3, <2>4, <2>5 DEF DiagStep
<1>3. CASE DiagAnswered
  <2> DEFINE a == Head(pipe)
             t == a.task
             f == file[t]
             s == Stored(f, cache[f], mtime[t], Normalized(a), a.resultId)
  <2>1. /\ pipe # <<>> /\ a.kind # "push" /\ pc[t] = "asking"
        /\ pipe' = Tail(pipe) /\ lastChange' = lastChange
        /\ cache' = [cache EXCEPT ![f] = s]
        /\ pc' = [pc EXCEPT ![t] = "done"]
        /\ a.kind = "unchanged" => f \in wiped'
    BY <1>3 DEF DiagAnswered, Returns
  <2>2. t \in Diags /\ t \in Tasks /\ f \in Files
    BY <1>0, <2>1, PipeTaken DEF Reply
  <2>3. /\ Counts(cache[f], s) /\ s.diags = Normalized(a)
        /\ s.mtime = IF mtime[t] = 0 THEN cache[f].mtime ELSE mtime[t]
    BY <1>0, <2>2, EntryStored
  <2>4. f \in wiped' \/ Normalized(a) = a.diags
    BY <2>1 DEF Normalized
  <2>5. cache'[f] = s /\ pc'[t] = "done"
        /\ \A g \in Files \ {f} : cache'[g] = cache[g]
    BY <1>0, <2>1, <2>2
  <2>6. Answered(f, t)
    BY <2>1, <2>3, <2>4, <2>5 DEF Answered
  <2> HIDE DEF s, f, t, a
  <2>7. \A g \in Files \ {f} : Same(cache[g], cache'[g]) /\ Counts(cache[g], cache'[g])
    BY <2>5 DEF Same, Counts
  <2> QED
    BY <2>1, <2>2, <2>3, <2>5, <2>6, <2>7 DEF CacheEffect
<1>4. CASE LateAnswer
  BY <1>1, <1>4 DEF LateAnswer, codeVars, historyVars
<1>5. CASE Published
  <2> DEFINE m == Head(pipe)
  <2>1. /\ pipe # <<>> /\ lastChange' = lastChange
        /\ cache' = [cache EXCEPT ![m.file].diags = m.diags]
    BY <1>5 DEF Published, historyVars
  <2>2. m.file \in Files
    BY <2>1, PipeTaken DEF Message
  <2> HIDE DEF m
  <2>3. /\ cache'[m.file].diags = m.diags
        /\ cache'[m.file].mtime = cache[m.file].mtime
        /\ Counts(cache[m.file], cache'[m.file])
        /\ \A g \in Files \ {m.file} : cache'[g] = cache[g]
    BY <1>0, <2>1, <2>2 DEF FileState, Counts
  <2>4. \A g \in Files \ {m.file} :
          Same(cache[g], cache'[g]) /\ Counts(cache[g], cache'[g])
    BY <2>3 DEF Same, Counts
  <2> QED
    BY <2>1, <2>2, <2>3, <2>4 DEF CacheEffect, m
<1>6. ASSUME NEW t \in Changes, ChangeStep(t) PROVE CacheEffect
  <2>1. CASE ChangeOpens(t)
    BY <1>1, <2>1 DEF ChangeOpens, historyVars
  <2>2. CASE ChangeOpenRaises(t)
    BY <1>1, <2>2 DEF ChangeOpenRaises, historyVars
  <2>3. ASSUME NEW f \in Files, ChangeArrives(t, f) PROVE CacheEffect
    BY <1>1, <2>3 DEF ChangeArrives, historyVars
  <2>4. CASE ChangeSends(t)
    <3>1. \A g \in Files \ {file[t]} :
            Same(cache[g], cache'[g]) /\ Counts(cache[g], cache'[g])
      BY <1>6, <2>4, ChangeCounts DEF Same, Counts
    <3> QED
      BY <1>6, <2>4, <3>1, ChangeCounts DEF CacheEffect
  <2> QED
    BY <1>6, <2>1, <2>2, <2>3, <2>4 DEF ChangeStep
<1>7. ASSUME NEW f \in Files, Edit(f) PROVE CacheEffect
  BY <1>1, <1>7 DEF Edit, codeVars, historyVars
<1>8. ASSUME NEW f \in Files, ServerPublishes(f) PROVE CacheEffect
  BY <1>1, <1>8 DEF ServerPublishes, codeVars, historyVars
<1>9. ASSUME NEW r \in requests, ServerAnswers(r) PROVE CacheEffect
  BY <1>1, <1>9 DEF ServerAnswers, codeVars, historyVars
<1>10. CASE UNCHANGED vars
  BY <1>1, <1>10 DEF vars, codeVars, historyVars
<1> QED
  BY <1>2, <1>3, <1>4, <1>5, <1>6, <1>7, <1>8, <1>9, <1>10 DEF Next

\* CacheInv holds at first.
LEMMA CacheInit == Init => CacheInv
<1>1. Init => Counted /\ Recorded
  BY DEF Init, Counted, Recorded, Tasks
<1> QED
  BY <1>1, SyncInit DEF CacheInv

\* The ranges the comparisons below need.
Ranges ==
  /\ \A f \in Files : disk[f] \in Nat /\ doc[f].text \in Nat
  /\ \A f \in Files : cache[f].version \in Nat /\ cache[f].mtime \in Nat
                      /\ cache[f].diags \in Nat
  /\ \A f \in Files : lastChange[f] \in Nat
  /\ \A t \in Tasks : mtime[t] \in Nat

\* The numbers compared below are natural numbers.
LEMMA InRange == WellFormed => Ranges
BY DocumentSyncAssumption
   DEF WellFormed, Formed, TypeOK, Ranges, Contents, FileState

\* They are so after a step too.
LEMMA InRangeNext ==
  ASSUME WellFormed'
  PROVE  Ranges'
BY DocumentSyncAssumption
   DEF WellFormed, Formed, TypeOK, Ranges, Contents, FileState

\* Every step keeps the version counter above what was sent.
LEMMA CountedNext == CacheInv /\ [Next]_vars => Counted'
<1> SUFFICES ASSUME CacheInv, [Next]_vars PROVE Counted'
  OBVIOUS
<1>1. CacheEffect /\ Ranges /\ Ranges'
  BY CacheEffects, InRange, SyncNext, InRangeNext DEF CacheInv, SyncInv
<1>2. \A f \in Files : cache'[f].open => cache'[f].version >= 1
  BY <1>1 DEF CacheEffect, Ranges, CacheInv, Counted, Counts
<1>3. \A f \in Files : lastChange'[f] <= 1 \/ lastChange'[f] <= cache'[f].version
  BY <1>1 DEF CacheEffect, Ranges, CacheInv, Counted, Counts
<1> QED
  BY <1>2, <1>3 DEF Counted

\* Every step keeps the recorded mtime below what an asker has read.
LEMMA RecordedNext == CacheInv /\ [Next]_vars => Recorded'
<1> SUFFICES ASSUME CacheInv, [Next]_vars PROVE Recorded'
  OBVIOUS
<1>1. CacheEffect /\ Ranges /\ DocEffect /\ AskEffect
  BY CacheEffects, InRange, DocEffects, AskEffects DEF CacheInv, SyncInv
<1>2. WellFormed /\ Ranges'
  BY SyncNext, InRangeNext DEF CacheInv, SyncInv
<1>3. \A f \in Files : cache'[f].mtime <= disk[f]
  <2> SUFFICES ASSUME NEW f \in Files PROVE cache'[f].mtime <= disk[f]
    OBVIOUS
  <2>1. CASE cache'[f].mtime = cache[f].mtime
    BY <2>1 DEF CacheInv, Recorded
  <2>2. ASSUME NEW t \in Diags, Answered(f, t) PROVE cache'[f].mtime <= disk[f]
    <3>1. mtime[t] <= disk[f]
      BY <2>2 DEF Answered, CacheInv, SyncInv, Behind, Tasks
    <3> QED
      BY <2>2, <3>1 DEF Answered, CacheInv, Recorded
  <2> QED
    BY <1>1, <2>1, <2>2 DEF CacheEffect, Same
<1>4. \A f \in Files : cache'[f].mtime <= disk'[f]
  BY <1>1, <1>2, <1>3 DEF DocEffect, Ranges
<1>5. ASSUME NEW t \in Diags, pc'[t] = "asking", mtime'[t] # 0
      PROVE  cache'[file'[t]].mtime <= mtime'[t]
  <2>1. /\ file'[t] = file[t] /\ file[t] \in Files
        /\ \/ pc[t] = "asking" /\ mtime'[t] = mtime[t]
           \/ mtime'[t] = disk[file[t]]
    BY <1>1, <1>5 DEF AskEffect
  <2>2. CASE mtime'[t] = disk[file[t]]
    BY <1>3, <2>1, <2>2
  <2>3. CASE pc[t] = "asking" /\ mtime'[t] = mtime[t]
    <3>1. ASSUME NEW u \in Diags, Answered(file[t], u) PROVE FALSE
      <4>1. u = t
        BY <2>3, <3>1, TurnTaken, <1>2 DEF Answered
      <4> QED
        BY <1>5, <3>1, <4>1 DEF Answered
    <3>2. cache'[file[t]].mtime = cache[file[t]].mtime
      BY <1>1, <2>1, <3>1 DEF CacheEffect, Same
    <3> QED
      BY <1>5, <2>1, <2>3, <3>2 DEF CacheInv, Recorded
  <2> QED
    BY <2>1, <2>2, <2>3
<1> QED
  BY <1>4, <1>5 DEF Recorded

\* CacheInv holds for good.
LEMMA CacheAlways == Spec => []CacheInv
<1>1. CacheInv /\ [Next]_vars => CacheInv'
  BY SyncNext, CountedNext, RecordedNext DEF CacheInv
<1> QED
  BY <1>1, CacheInit, PTL DEF Spec

\* Each didChange carries a version above all before it (increment_version,
\* on_did_open), however opens and changes interleave.
THEOREM VersionsRiseHolds == Spec => VersionsRise
<1>1. CacheInv /\ [Next]_vars
        => [\A t \in Changes : ChangeSends(t)
              => lastChange'[file[t]] > lastChange[file[t]]]_vars
  <2> SUFFICES ASSUME CacheInv, [Next]_vars, NEW t \in Changes, ChangeSends(t)
               PROVE  lastChange'[file[t]] > lastChange[file[t]]
    OBVIOUS
  <2>1. Ranges /\ WellFormed /\ Counted
    BY InRange DEF CacheInv, SyncInv
  <2>2. /\ file[t] \in Files
        /\ cache'[file[t]].version > cache[file[t]].version
        /\ cache'[file[t]].version > 1
        /\ lastChange'[file[t]] = cache'[file[t]].version
    BY <2>1, ChangeCounts
  <2>3. cache'[file[t]].version \in Nat
    BY <2>2, SyncNext, InRangeNext DEF CacheInv, SyncInv, Ranges
  <2> QED
    BY <2>1, <2>2, <2>3 DEF Counted, Ranges
<1> QED
  BY <1>1, CacheAlways, PTL DEF Spec, VersionsRise

\* The recorded mtime never goes back (set_mtime under the lock of the file),
\* for any number of requests and whatever order their answers come in.
THEOREM MtimeNeverOlderHolds == Spec => MtimeNeverOlder
<1>1. CacheInv /\ [Next]_vars
        => [\A f \in Files : cache'[f].mtime >= cache[f].mtime]_vars
  <2> SUFFICES ASSUME CacheInv, [Next]_vars, NEW f \in Files
               PROVE  cache'[f].mtime >= cache[f].mtime
    OBVIOUS
  <2>1. CacheEffect /\ Ranges
    BY CacheEffects, InRange DEF CacheInv, SyncInv
  <2>2. ASSUME NEW t \in Diags, Answered(f, t)
        PROVE  cache'[f].mtime >= cache[f].mtime
    BY <2>1, <2>2 DEF Answered, CacheInv, Recorded, Ranges, Tasks
  <2> QED
    BY <2>1, <2>2 DEF CacheEffect, Same, Ranges
<1> QED
  BY <1>1, CacheAlways, PTL DEF Spec, MtimeNeverOlder
-----------------------------------------------------------------------------
(* The messages of the server.                                             *)

\* Messages about a file come in the order of the contents they describe, and
\* describe nothing the server has not been sent.
Ordered ==
  /\ \A j, k \in 1 .. Len(pipe) :
       j <= k /\ pipe[j].file = pipe[k].file => pipe[j].diags <= pipe[k].diags
  /\ \A k \in 1 .. Len(pipe) : pipe[k].diags <= doc[pipe[k].file].text

\* Requests and answers belong to handlers that have asked.
Addressed ==
  /\ \A k \in 1 .. Len(pipe) : pipe[k].kind # "push"
       => /\ file[pipe[k].task] = pipe[k].file
          /\ pc[pipe[k].task] \in {"asking", "done"}
  /\ \A r \in requests :
       file[r.task] = r.file /\ pc[r.task] \in {"asking", "done"}

\* Unless an edit overtook a request, what is recorded and what is about to
\* be recorded is not newer than what the answers will describe.
Fresh ==
  \A f \in Files \ ahead :
    /\ cache[f].mtime <= doc[f].text
    /\ \A k \in 1 .. Len(pipe) :
         pipe[k].file = f => cache[f].mtime <= pipe[k].diags
    /\ \A t \in Diags : pc[t] = "asking" /\ file[t] = f
         => /\ mtime[t] <= doc[f].text
            /\ \A k \in 1 .. Len(pipe) :
                 pipe[k].kind # "push" /\ pipe[k].task = t
                   => mtime[t] <= pipe[k].diags

FreshInv == CacheInv /\ Ordered /\ Addressed /\ Fresh /\ FreshCache

\* All a step does to the messages.
Sent(m) ==
  /\ pipe' = Append(pipe, m)
  /\ m.diags = doc[m.file].text
  /\ m.kind # "push" => /\ file[m.task] = m.file
                        /\ pc[m.task] \in {"asking", "done"}
  /\ UNCHANGED <<disk, doc, cache, file, pc, mtime, ahead, wiped>>

MessageEffect ==
  \/ pipe' = pipe
  \/ pipe # <<>> /\ pipe' = Tail(pipe)
  \/ \E m \in Reply \cup Push : Sent(m)

RequestEffect ==
  \A r \in requests' :
    r \in requests \/ (file'[r.task] = r.file /\ pc'[r.task] = "asking")

PipeEffect == MessageEffect /\ RequestEffect

\* A handler that has asked has not another file nor starts again.
TaskEffect ==
  /\ \A t \in Diags : pc[t] \in {"asking", "done"}
       => pc'[t] \in {"asking", "done"} /\ file'[t] = file[t]
  /\ ahead \subseteq ahead' /\ wiped \subseteq wiped'

\* Every step changes the pipe as PipeEffect says.
LEMMA PipeEffects == WellFormed /\ Addressed /\ [Next]_vars => PipeEffect
<1> SUFFICES ASSUME WellFormed, Addressed, [Next]_vars PROVE PipeEffect
  OBVIOUS
<1>0. /\ DOMAIN pc = Tasks /\ Diags \subseteq Tasks
      /\ requests \subseteq Request
  BY DEF WellFormed, Formed, TypeOK, Tasks
<1>1. ASSUME requests' = requests,
             pipe' = pipe \/ (pipe # <<>> /\ pipe' = Tail(pipe))
      PROVE  PipeEffect
  <2>1. MessageEffect
    BY <1>1 DEF MessageEffect
  <2>2. RequestEffect
    BY <1>1 DEF RequestEffect
  <2> QED
    BY <2>1, <2>2 DEF PipeEffect
<1>2. ASSUME NEW t \in Diags, DiagStep(t) PROVE PipeEffect
  <2>1. CASE DiagAsks(t)
    <3>1. pipe' = pipe /\ file' = file
      BY <2>1 DEF DiagAsks
    <3>2. \/ requests' = requests
          \/ \E i : /\ requests' = requests \cup
                         {[task |-> t, file |-> file[t], previous |-> i]}
                    /\ pc' = [pc EXCEPT ![t] = "asking"]
      BY <2>1 DEF DiagAsks
    <3> QED
      BY <1>0, <3>1, <3>2 DEF PipeEffect, MessageEffect, RequestEffect
  <2>2. CASE DiagOpens(t)
    BY <1>1, <2>2 DEF DiagOpens, serverVars
  <2>3. CASE DiagOpenRaises(t)
    BY <1>1, <2>3 DEF DiagOpenRaises, serverVars
  <2>4. CASE DiagFails(t)
    BY <1>1, <2>4 DEF DiagFails, serverVars
  <2>5. ASSUME NEW f \in Files, DiagArrives(t, f) PROVE PipeEffect
    BY <1>1, <2>5 DEF DiagArrives, serverVars
  <2> QED
    BY <1>2, <2>1, <2>2, <2>3, <2>4, <2>5 DEF DiagStep
<1>3. CASE DiagAnswered
  BY <1>1, <1>3 DEF DiagAnswered
<1>4. CASE LateAnswer
  BY <1>1, <1>4 DEF LateAnswer
<1>5. CASE Published
  BY <1>1, <1>5 DEF Published
<1>6. ASSUME NEW t \in Changes, ChangeStep(t) PROVE PipeEffect
  BY <1>1, <1>6 DEF ChangeStep, ChangeOpens, ChangeOpenRaises, ChangeSends,
     ChangeArrives, serverVars
<1>7. ASSUME NEW f \in Files, Edit(f) PROVE PipeEffect
  BY <1>1, <1>7 DEF Edit, serverVars
<1>8. ASSUME NEW f \in Files, ServerPublishes(f) PROVE PipeEffect
  <2> DEFINE m == [kind |-> "push", task |-> NoFile, file |-> f,
                   diags |-> doc[f].text, resultId |-> Nothing]
  <2>1. m \in Push
    BY DocumentSyncAssumption DEF Push, Nothing, WellFormed, Formed, TypeOK
  <2>2. Sent(m) /\ requests' = requests
    BY <1>8 DEF ServerPublishes, Sent, codeVars, historyVars
  <2> HIDE DEF m
  <2> QED
    BY <2>1, <2>2 DEF PipeEffect, MessageEffect, RequestEffect
<1>9. ASSUME NEW r \in requests, ServerAnswers(r) PROVE PipeEffect
  <2>1. r \in Request /\ file[r.task] = r.file /\ pc[r.task] \in {"asking", "done"}
    BY <1>0 DEF Addressed
  <2>2. PICK k \in {"full", "unchanged"}, i \in {doc[r.file].text, Nothing, r.previous} :
          pipe' = Append(pipe, Answer(r, k, i))
    BY <1>9 DEF ServerAnswers
  <2>3. Answer(r, k, i) \in Reply
    BY <2>1, DocumentSyncAssumption
       DEF Answer, Request, Reply, Nothing, WellFormed, Formed, TypeOK
  <2>4. /\ Answer(r, k, i).diags = doc[Answer(r, k, i).file].text
        /\ Answer(r, k, i).task = r.task /\ Answer(r, k, i).file = r.file
    BY DEF Answer
  <2>5. /\ UNCHANGED <<disk, doc, cache, file, pc, mtime, ahead, wiped>>
        /\ requests' \subseteq requests
    BY <1>9 DEF ServerAnswers, codeVars, historyVars
  <2>6. Sent(Answer(r, k, i))
    BY <2>1, <2>2, <2>4, <2>5 DEF Sent
  <2> QED
    BY <2>3, <2>5, <2>6 DEF PipeEffect, MessageEffect, RequestEffect
<1>10. CASE UNCHANGED vars
  BY <1>1, <1>10 DEF vars, serverVars
<1> QED
  BY <1>2, <1>3, <1>4, <1>5, <1>6, <1>7, <1>8, <1>9, <1>10 DEF Next

\* Every step moves requests as TaskEffect says.
LEMMA TaskEffects == WellFormed /\ [Next]_vars => TaskEffect
<1> SUFFICES ASSUME WellFormed, [Next]_vars PROVE TaskEffect
  OBVIOUS
<1>0. /\ DOMAIN pc = Tasks /\ DOMAIN file = Tasks
      /\ Diags \subseteq Tasks /\ Changes \subseteq Tasks
      /\ \A t \in Diags : t \notin Changes
  BY DocumentSyncAssumption DEF WellFormed, Formed, TypeOK, Tasks
<1>1. ASSUME ahead \subseteq ahead', wiped \subseteq wiped', UNCHANGED file,
             UNCHANGED pc \/ \E t \in Diags : \E s :
                               /\ pc[t] # "done"
                               /\ pc[t] # "asking" \/ s \in {"asking", "done"}
                               /\ pc' = [pc EXCEPT ![t] = s]
      PROVE  TaskEffect
  BY <1>0, <1>1 DEF TaskEffect
<1>2. ASSUME NEW t \in Diags, DiagStep(t) PROVE TaskEffect
  <2>1. CASE DiagAsks(t)
    BY <1>0, <1>1, <2>1 DEF DiagAsks, Returns
  <2>2. CASE DiagOpens(t)
    BY <1>0, <1>1, <2>2 DEF DiagOpens, historyVars
  <2>3. CASE DiagOpenRaises(t)
    BY <1>0, <1>1, <2>3 DEF DiagOpenRaises, Returns, historyVars
  <2>4. CASE DiagFails(t)
    BY <1>0, <1>1, <2>4 DEF DiagFails, Returns, historyVars
  <2>5. ASSUME NEW f \in Files, DiagArrives(t, f) PROVE TaskEffect
    BY <1>0, <2>5 DEF DiagArrives, TaskEffect
  <2> QED
    BY <1>2, <2>1, <2>2, <2>3, <2>4, <2>5 DEF DiagStep
<1>3. CASE DiagAnswered
  <2>1. /\ pipe # <<>> /\ Head(pipe).kind # "push"
        /\ pc[Head(pipe).task] = "asking"
        /\ UNCHANGED <<file, ahead>> /\ wiped \subseteq wiped'
        /\ pc' = [pc EXCEPT ![Head(pipe).task] = "done"]
    BY <1>3 DEF DiagAnswered, Returns
  <2>2. Head(pipe).task \in Diags
    BY <2>1, PipeTaken DEF Reply
  <2> QED
    BY <1>1, <2>1, <2>2
<1>4. CASE LateAnswer
  BY <1>1, <1>4 DEF LateAnswer, codeVars, historyVars
<1>5. CASE Published
  BY <1>1, <1>5 DEF Published, historyVars
<1>6. ASSUME NEW t \in Changes, ChangeStep(t) PROVE TaskEffect
  <2>1. \A u \in Diags : pc'[u] = pc[u] /\ file'[u] = file[u]
    <3>1. ASSUME NEW f \in Files, ChangeArrives(t, f)
          PROVE  \A u \in Diags : pc'[u] = pc[u] /\ file'[u] = file[u]
      BY <1>0, <3>1 DEF ChangeArrives
    <3> QED
      BY <1>0, <1>6, <3>1 DEF ChangeStep, ChangeOpens, ChangeOpenRaises, ChangeSends
  <2>2. UNCHANGED <<ahead, wiped>>
    BY <1>6 DEF ChangeStep, ChangeOpens, ChangeOpenRaises, ChangeSends,
       ChangeArrives, historyVars
  <2> QED
    BY <2>1, <2>2 DEF TaskEffect
<1>7. ASSUME NEW f \in Files, Edit(f) PROVE TaskEffect
  BY <1>1, <1>7 DEF Edit, codeVars, historyVars
<1>8. ASSUME NEW f \in Files, ServerPublishes(f) PROVE TaskEffect
  BY <1>1, <1>8 DEF ServerPublishes, codeVars, historyVars
<1>9. ASSUME NEW r \in requests, ServerAnswers(r) PROVE TaskEffect
  BY <1>1, <1>9 DEF ServerAnswers, codeVars, historyVars
<1>10. CASE UNCHANGED vars
  BY <1>1, <1>10 DEF vars, codeVars, historyVars
<1> QED
  BY <1>2, <1>3, <1>4, <1>5, <1>6, <1>7, <1>8, <1>9, <1>10 DEF Next

\* Every message that stays was there before, in the same order; a new one is
\* the last.
LEMMA MessagesKept ==
  ASSUME WellFormed, MessageEffect
  PROVE  /\ Len(pipe) \in Nat /\ Len(pipe') \in Nat
         /\ \/ pipe' = pipe
            \/ /\ pipe # <<>> /\ pipe' = Tail(pipe)
               /\ Head(pipe) = pipe[1] /\ 1 \in 1 .. Len(pipe)
               /\ \A k \in 1 .. Len(pipe') :
                    k + 1 \in 1 .. Len(pipe) /\ pipe'[k] = pipe[k + 1]
            \/ \E m \in Reply \cup Push :
                 /\ Sent(m)
                 /\ Len(pipe') = Len(pipe) + 1
                 /\ pipe'[Len(pipe) + 1] = m
                 /\ \A k \in 1 .. Len(pipe) : pipe'[k] = pipe[k]
<1>1. pipe \in Seq(Reply \cup Push) /\ Len(pipe) \in Nat
  BY DEF WellFormed, Formed
<1>2. CASE pipe' = pipe
  BY <1>1, <1>2
<1>3. CASE pipe # <<>> /\ pipe' = Tail(pipe)
  <2>1. /\ Head(pipe) = pipe[1] /\ 1 \in 1 .. Len(pipe)
        /\ Len(pipe') = Len(pipe) - 1
        /\ \A k \in 1 .. Len(pipe') :
             k + 1 \in 1 .. Len(pipe) /\ pipe'[k] = pipe[k + 1]
    BY <1>1, <1>3, HeadTail
  <2>2. Len(pipe') \in Nat
    BY <1>1, <2>1
  <2> QED
    BY <1>1, <1>3, <2>1, <2>2
<1>4. ASSUME NEW m \in Reply \cup Push, Sent(m)
      PROVE  /\ Len(pipe') = Len(pipe) + 1
             /\ pipe'[Len(pipe) + 1] = m
             /\ \A k \in 1 .. Len(pipe) : pipe'[k] = pipe[k]
  BY <1>1, <1>4, Appended DEF Sent
<1> QED
  BY <1>1, <1>2, <1>3, <1>4 DEF MessageEffect

\* FreshInv holds at first.
LEMMA FreshInit == Init => FreshInv
<1>1. Init => Ordered /\ Addressed /\ Fresh /\ FreshCache
  BY DEF Init, Ordered, Addressed, Fresh, FreshCache, Tasks, Nothing
<1> QED
  BY <1>1, CacheInit DEF FreshInv

\* What the lemmas above say of a step, and the ranges of what it compares.
StepFacts ==
  /\ MessageEffect /\ RequestEffect /\ TaskEffect /\ CacheEffect /\ AskEffect
  /\ \A f \in Files : doc'[f].text >= doc[f].text
  /\ \A k \in 1 .. Len(pipe) : pipe[k] \in Reply \cup Push

\* What the proofs of the parts of FreshInv start from.
LEMMA Facts == FreshInv /\ [Next]_vars => StepFacts /\ WellFormed /\ Ranges /\ Ranges'
<1> SUFFICES ASSUME FreshInv, [Next]_vars
             PROVE  StepFacts /\ WellFormed /\ Ranges /\ Ranges'
  OBVIOUS
<1>1. WellFormed /\ Counted /\ Addressed /\ SyncInv
  BY DEF FreshInv, CacheInv, SyncInv
<1>2. PipeEffect /\ TaskEffect /\ CacheEffect /\ AskEffect /\ DocEffect
  BY <1>1, PipeEffects, TaskEffects, CacheEffects, AskEffects, DocEffects
<1>3. Ranges /\ Ranges'
  BY <1>1, SyncNext, InRange, InRangeNext DEF SyncInv
<1>4. \A f \in Files : doc'[f].text >= doc[f].text
  BY <1>1, <1>2, <1>3 DEF DocEffect, SyncInv, Behind, Ranges
<1>5. \A k \in 1 .. Len(pipe) : pipe[k] \in Reply \cup Push
  BY <1>1 DEF WellFormed, Formed
<1> QED
  BY <1>1, <1>2, <1>3, <1>4, <1>5 DEF StepFacts, PipeEffect

\* Every step keeps the messages of a file in order.
LEMMA OrderedNext == FreshInv /\ [Next]_vars => Ordered'
<1> SUFFICES ASSUME FreshInv, [Next]_vars PROVE Ordered'
  OBVIOUS
<1>1. StepFacts /\ WellFormed /\ Ranges /\ Ranges'
  BY Facts
<1>2. /\ Len(pipe) \in Nat /\ Len(pipe') \in Nat
      /\ \A k \in 1 .. Len(pipe) : /\ pipe[k].file \in Files
                                   /\ pipe[k].diags \in Nat
                                   /\ pipe[k].diags <= doc[pipe[k].file].text
  BY <1>1, MessagesKept, DocumentSyncAssumption
     DEF StepFacts, Reply, Push, FreshInv, Ordered
<1>3. CASE pipe' = pipe
  BY <1>1, <1>2, <1>3 DEF StepFacts, FreshInv, Ordered, Ranges
<1>4. CASE /\ pipe # <<>> /\ pipe' = Tail(pipe)
           /\ \A k \in 1 .. Len(pipe') :
                k + 1 \in 1 .. Len(pipe) /\ pipe'[k] = pipe[k + 1]
  <2>1. \A j, k \in 1 .. Len(pipe') :
          j <= k /\ pipe'[j].file = pipe'[k].file => pipe'[j].diags <= pipe'[k].diags
    <3> SUFFICES ASSUME NEW j \in 1 .. Len(pipe'), NEW k \in 1 .. Len(pipe'),
                        j <= k, pipe'[j].file = pipe'[k].file
                 PROVE  pipe'[j].diags <= pipe'[k].diags
      OBVIOUS
    <3>1. /\ j + 1 \in 1 .. Len(pipe) /\ k + 1 \in 1 .. Len(pipe)
          /\ j + 1 <= k + 1
          /\ pipe'[j] = pipe[j + 1] /\ pipe'[k] = pipe[k + 1]
      BY <1>2, <1>4
    <3> QED
      BY <3>1 DEF FreshInv, Ordered
  <2>2. \A k \in 1 .. Len(pipe') : pipe'[k].diags <= doc'[pipe'[k].file].text
    <3> SUFFICES ASSUME NEW k \in 1 .. Len(pipe')
                 PROVE  pipe'[k].diags <= doc'[pipe'[k].file].text
      OBVIOUS
    <3>1. /\ pipe'[k].file \in Files /\ pipe'[k].diags \in Nat
          /\ pipe'[k].diags <= doc[pipe'[k].file].text
      BY <1>2, <1>4
    <3> QED
      BY <1>1, <3>1 DEF StepFacts, Ranges
  <2> QED
    BY <2>1, <2>2 DEF Ordered
<1>5. ASSUME NEW m \in Reply \cup Push, Sent(m),
             Len(pipe') = Len(pipe) + 1, pipe'[Len(pipe) + 1] = m,
             \A k \in 1 .. Len(pipe) : pipe'[k] = pipe[k]
      PROVE  Ordered'
  <2>1. doc' = doc /\ m.diags = doc[m.file].text
    BY <1>5 DEF Sent
  <2>2. ASSUME NEW k \in 1 .. Len(pipe'), k \notin 1 .. Len(pipe)
        PROVE  k = Len(pipe) + 1 /\ pipe'[k] = m
    BY <1>2, <1>5, <2>2
  <2>3. m.file \in Files /\ m.diags \in Nat
    BY DocumentSyncAssumption DEF Reply, Push
  <2>4. \A j, k \in 1 .. Len(pipe') :
          j <= k /\ pipe'[j].file = pipe'[k].file => pipe'[j].diags <= pipe'[k].diags
    <3> SUFFICES ASSUME NEW j \in 1 .. Len(pipe'), NEW k \in 1 .. Len(pipe'),
                        j <= k, pipe'[j].file = pipe'[k].file
                 PROVE  pipe'[j].diags <= pipe'[k].diags
      OBVIOUS
    <3>1. CASE k \in 1 .. Len(pipe)
      <4>1. j \in 1 .. Len(pipe)
        BY <1>2, <3>1
      <4> QED
        BY <1>5, <3>1, <4>1 DEF FreshInv, Ordered
    <3>2. CASE k \notin 1 .. Len(pipe)
      <4>1. CASE j \in 1 .. Len(pipe)
        BY <1>2, <1>5, <2>1, <2>2, <3>2, <4>1
      <4>2. CASE j \notin 1 .. Len(pipe)
        BY <2>2, <2>3, <3>2, <4>2
      <4> QED
        BY <4>1, <4>2
    <3> QED
      BY <3>1, <3>2
  <2>5. \A k \in 1 .. Len(pipe') : pipe'[k].diags <= doc'[pipe'[k].file].text
    BY <1>2, <1>5, <2>1, <2>2, <2>3
  <2> QED
    BY <2>4, <2>5 DEF Ordered
<1> QED
  BY <1>1, <1>3, <1>4, <1>5, MessagesKept DEF StepFacts

\* Every step keeps answers addressed to the requests that ask.
LEMMA AddressedNext == FreshInv /\ [Next]_vars => Addressed'
<1> SUFFICES ASSUME FreshInv, [Next]_vars PROVE Addressed'
  OBVIOUS
<1>1. StepFacts /\ WellFormed
  BY Facts
<1>2. \A r \in requests : r.task \in Diags
  BY <1>1 DEF WellFormed, Formed, TypeOK, Request
<1>3. \A r \in requests' :
        file'[r.task] = r.file /\ pc'[r.task] \in {"asking", "done"}
  BY <1>1, <1>2 DEF StepFacts, RequestEffect, TaskEffect, FreshInv, Addressed
<1>4. \A k \in 1 .. Len(pipe) : pipe[k].kind # "push"
        => /\ file'[pipe[k].task] = pipe[k].file
           /\ pc'[pipe[k].task] \in {"asking", "done"}
  <2> SUFFICES ASSUME NEW k \in 1 .. Len(pipe), pipe[k].kind # "push"
               PROVE  /\ file'[pipe[k].task] = pipe[k].file
                      /\ pc'[pipe[k].task] \in {"asking", "done"}
    OBVIOUS
  <2>1. pipe[k].task \in Diags
    BY <1>1 DEF StepFacts, Reply, Push
  <2> QED
    BY <1>1, <2>1 DEF StepFacts, TaskEffect, FreshInv, Addressed
<1>5. ASSUME NEW k \in 1 .. Len(pipe'), pipe'[k].kind # "push"
      PROVE  /\ file'[pipe'[k].task] = pipe'[k].file
             /\ pc'[pipe'[k].task] \in {"asking", "done"}
  <2>1. CASE pipe' = pipe
    BY <1>4, <1>5, <2>1
  <2>2. CASE /\ k + 1 \in 1 .. Len(pipe) /\ pipe'[k] = pipe[k + 1]
    BY <1>4, <1>5, <2>2
  <2>3. ASSUME NEW m \in Reply \cup Push, Sent(m),
               Len(pipe') = Len(pipe) + 1, pipe'[Len(pipe) + 1] = m,
               \A j \in 1 .. Len(pipe) : pipe'[j] = pipe[j]
        PROVE  /\ file'[pipe'[k].task] = pipe'[k].file
               /\ pc'[pipe'[k].task] \in {"asking", "done"}
    <3>1. CASE k \in 1 .. Len(pipe)
      BY <1>4, <1>5, <2>3, <3>1
    <3>2. CASE k \notin 1 .. Len(pipe)
      <4>1. k = Len(pipe) + 1
        BY <1>1, <2>3, <3>2, MessagesKept DEF StepFacts
      <4> QED
        BY <1>5, <2>3, <4>1 DEF Sent
    <3> QED
      BY <3>1, <3>2
  <2> QED
    BY <1>1, <2>1, <2>2, <2>3, MessagesKept DEF StepFacts
<1> QED
  BY <1>3, <1>5 DEF Addressed

\* Who answers a message of the pipe about f, asked about f.
LEMMA AnsweredFile ==
  ASSUME FreshInv, StepFacts, WellFormed, NEW f \in Files, NEW t \in Diags,
         Answered(f, t)
  PROVE  /\ Head(pipe) = pipe[1] /\ 1 \in 1 .. Len(pipe)
         /\ pipe[1].file = f /\ pipe[1].task = t /\ pipe[1].kind # "push"
         /\ \A k \in 1 .. Len(pipe') :
              k + 1 \in 1 .. Len(pipe) /\ pipe'[k] = pipe[k + 1]
<1>1. pipe # <<>> /\ pipe \in Seq(Reply \cup Push) /\ pipe' = Tail(pipe)
  BY DEF Answered, WellFormed, Formed
<1>2. /\ Head(pipe) = pipe[1] /\ 1 \in 1 .. Len(pipe)
      /\ \A k \in 1 .. Len(pipe') :
           k + 1 \in 1 .. Len(pipe) /\ pipe'[k] = pipe[k + 1]
  BY <1>1, HeadTail
<1> QED
  BY <1>2 DEF Answered, FreshInv, Addressed

\* Nothing under way about f describes contents older than m, and m is not
\* newer than what the server has been sent.
Covered(m, f) ==
  /\ m <= doc[f].text
  /\ \A k \in 1 .. Len(pipe) : pipe[k].file = f => m <= pipe[k].diags

\* This stays so when the server answers and the document is renewed.
LEMMA CoveredKept ==
  ASSUME FreshInv, StepFacts, WellFormed, Ranges, Ranges',
         NEW f \in Files, NEW m \in Nat, Covered(m, f)
  PROVE  Covered(m, f)'
<1>1. m <= doc'[f].text
  BY DEF Covered, StepFacts, Ranges
<1>2. ASSUME NEW k \in 1 .. Len(pipe'), pipe'[k].file = f
      PROVE  m <= pipe'[k].diags
  <2>1. CASE pipe' = pipe
    BY <1>2, <2>1 DEF Covered
  <2>2. CASE /\ k + 1 \in 1 .. Len(pipe) /\ pipe'[k] = pipe[k + 1]
    BY <1>2, <2>2 DEF Covered
  <2>3. ASSUME NEW e \in Reply \cup Push, Sent(e),
               Len(pipe') = Len(pipe) + 1, pipe'[Len(pipe) + 1] = e,
               \A j \in 1 .. Len(pipe) : pipe'[j] = pipe[j]
        PROVE  m <= pipe'[k].diags
    <3>1. CASE k \in 1 .. Len(pipe)
      BY <1>2, <2>3, <3>1 DEF Covered
    <3>2. CASE k \notin 1 .. Len(pipe)
      <4>1. k = Len(pipe) + 1
        BY <2>3, <3>2, MessagesKept DEF StepFacts
      <4> QED
        BY <1>2, <2>3, <4>1 DEF Sent, Covered
    <3> QED
      BY <3>1, <3>2
  <2> QED
    BY <2>1, <2>2, <2>3, MessagesKept DEF StepFacts
<1> QED
  BY <1>1, <1>2 DEF Covered

\* What the handler that is answered has read is not newer than the answer.
LEMMA AnswerCovers ==
  ASSUME FreshInv, StepFacts, WellFormed, NEW f \in Files \ ahead,
         NEW t \in Diags, Answered(f, t)
  PROVE  mtime[t] <= pipe[1].diags /\ cache[f].mtime <= pipe[1].diags
<1>1. /\ 1 \in 1 .. Len(pipe) /\ pipe[1].file = f /\ pipe[1].task = t
      /\ pipe[1].kind # "push" /\ pc[t] = "asking" /\ file[t] = f
  BY AnsweredFile DEF Answered
<1> QED
  BY <1>1 DEF FreshInv, Fresh

\* Every step keeps mtimes covered by the document and the messages under way.
LEMMA FreshNext == FreshInv /\ [Next]_vars => Fresh'
<1> SUFFICES ASSUME FreshInv, [Next]_vars PROVE Fresh'
  OBVIOUS
<1>1. StepFacts /\ WellFormed /\ Ranges /\ Ranges'
  BY Facts
<1> SUFFICES ASSUME NEW f \in Files \ ahead'
             PROVE  /\ Covered(cache[f].mtime, f)'
                    /\ \A t \in Diags : pc'[t] = "asking" /\ file'[t] = f
                         => /\ mtime'[t] <= doc'[f].text
                            /\ \A k \in 1 .. Len(pipe') :
                                 pipe'[k].kind # "push" /\ pipe'[k].task = t
                                   => mtime'[t] <= pipe'[k].diags
  BY DEF Fresh, Covered
<1>2. f \in Files \ ahead /\ f \in Files
  BY <1>1 DEF StepFacts, TaskEffect
<1>3. Covered(cache[f].mtime, f)'
  <2>1. CASE cache'[f].mtime = cache[f].mtime
    <3>1. Covered(cache[f].mtime, f) /\ cache[f].mtime \in Nat
      BY <1>1, <1>2 DEF FreshInv, Fresh, Covered, Ranges
    <3> DEFINE m == cache[f].mtime
    <3>2. PICK n \in Nat : n = m
      BY <3>1
    <3>3. Covered(n, f)
      BY <3>1, <3>2
    <3>4. Covered(n, f)'
      BY <1>1, <1>2, <3>3, CoveredKept
    <3> QED
      BY <2>1, <3>2, <3>4 DEF Covered
  <2>2. ASSUME NEW t \in Diags, Answered(f, t), mtime[t] # 0
        PROVE  Covered(cache[f].mtime, f)'
    <3>1. /\ cache'[f].mtime = mtime[t] /\ mtime[t] \in Nat
          /\ pc[t] = "asking" /\ file[t] = f
      BY <1>1, <2>2 DEF Answered, Ranges, Tasks
    <3>2. mtime[t] <= doc'[f].text
      BY <1>1, <1>2, <3>1 DEF StepFacts, Ranges, FreshInv, Fresh
    <3>3. ASSUME NEW k \in 1 .. Len(pipe'), pipe'[k].file = f
          PROVE  mtime[t] <= pipe'[k].diags
      <4>1. /\ k + 1 \in 1 .. Len(pipe) /\ pipe'[k] = pipe[k + 1]
            /\ 1 \in 1 .. Len(pipe) /\ pipe[1].file = f /\ 1 <= k + 1
        BY <1>1, <1>2, <2>2, AnsweredFile
      <4>2. pipe[1].diags <= pipe[k + 1].diags
        BY <3>3, <4>1 DEF FreshInv, Ordered
      <4>3. mtime[t] <= pipe[1].diags
        BY <1>1, <1>2, <2>2, AnswerCovers
      <4>4. pipe[1].diags \in Nat /\ pipe[k + 1].diags \in Nat
        BY <1>1, <4>1, DocumentSyncAssumption DEF StepFacts, Reply, Push
      <4> QED
        BY <3>1, <4>1, <4>2, <4>3, <4>4
    <3> QED
      BY <3>1, <3>2, <3>3 DEF Covered
  <2> QED
    BY <1>1, <1>2, <2>1, <2>2 DEF StepFacts, CacheEffect, Same, Answered
<1>4. ASSUME NEW t \in Diags, pc'[t] = "asking", file'[t] = f
      PROVE  /\ mtime'[t] <= doc'[f].text
             /\ \A k \in 1 .. Len(pipe') :
                  pipe'[k].kind # "push" /\ pipe'[k].task = t
                    => mtime'[t] <= pipe'[k].diags
  <2>1. file[t] = f /\ mtime[t] \in Nat /\ mtime'[t] \in Nat
    BY <1>1, <1>4 DEF StepFacts, AskEffect, Ranges, Tasks
  <2>2. CASE pc[t] = "asking" /\ mtime'[t] = mtime[t]
    <3>1. /\ mtime[t] <= doc[f].text
          /\ \A k \in 1 .. Len(pipe) : pipe[k].kind # "push" /\ pipe[k].task = t
               => mtime[t] <= pipe[k].diags
      BY <1>2, <2>1, <2>2 DEF FreshInv, Fresh
    <3>2. mtime'[t] <= doc'[f].text
      BY <1>1, <1>2, <2>1, <2>2, <3>1 DEF StepFacts, Ranges
    <3>3. ASSUME NEW k \in 1 .. Len(pipe'), pipe'[k].kind # "push", pipe'[k].task = t
          PROVE  mtime[t] <= pipe'[k].diags
      <4>1. CASE pipe' = pipe
        BY <3>1, <3>3, <4>1
      <4>2. CASE /\ k + 1 \in 1 .. Len(pipe) /\ pipe'[k] = pipe[k + 1]
        BY <3>1, <3>3, <4>2
      <4>3. ASSUME NEW e \in Reply \cup Push, Sent(e),
                   Len(pipe') = Len(pipe) + 1, pipe'[Len(pipe) + 1] = e,
                   \A j \in 1 .. Len(pipe) : pipe'[j] = pipe[j]
            PROVE  mtime[t] <= pipe'[k].diags
        <5>1. CASE k \in 1 .. Len(pipe)
          BY <3>1, <3>3, <4>3, <5>1
        <5>2. CASE k \notin 1 .. Len(pipe)
          <6>1. k = Len(pipe) + 1
            BY <1>1, <4>3, <5>2, MessagesKept DEF StepFacts
          <6> QED
            BY <2>1, <3>1, <3>3, <4>3, <6>1 DEF Sent
        <5> QED
          BY <5>1, <5>2
      <4> QED
        BY <1>1, <4>1, <4>2, <4>3, MessagesKept DEF StepFacts
    <3> QED
      BY <2>2, <3>2, <3>3
  <2>3. CASE /\ pc[t] # "asking" /\ pc[t] # "done" /\ pipe' = pipe
             /\ f \notin ahead' => mtime'[t] <= doc[f].text
    <3>1. mtime'[t] <= doc'[f].text
      BY <1>1, <1>2, <2>1, <2>3 DEF StepFacts, Ranges
    <3>2. \A k \in 1 .. Len(pipe') : pipe'[k].kind # "push" => pipe'[k].task # t
      BY <2>3 DEF FreshInv, Addressed
    <3> QED
      BY <3>1, <3>2
  <2> QED
    BY <1>1, <1>4, <2>1, <2>2, <2>3 DEF StepFacts, AskEffect
<1> QED
  BY <1>3, <1>4

\* Every step keeps the cache fresh.
LEMMA FreshCacheNext == FreshInv /\ [Next]_vars => FreshCache'
<1> SUFFICES ASSUME FreshInv, [Next]_vars, NEW f \in Files,
                    f \notin ahead' \cup wiped'
             PROVE  cache'[f].diags >= cache'[f].mtime
  BY DEF FreshCache
<1>1. StepFacts /\ WellFormed /\ Ranges
  BY Facts
<1>2. /\ f \in Files \ ahead /\ f \notin ahead \cup wiped
      /\ cache[f].diags \in Nat /\ cache[f].mtime \in Nat
  BY <1>1 DEF StepFacts, TaskEffect, Ranges
<1>3. CASE Same(cache[f], cache'[f])
  BY <1>2, <1>3 DEF Same, FreshInv, FreshCache
<1>4. CASE /\ pipe # <<>> /\ Head(pipe).file = f
           /\ cache'[f].diags = Head(pipe).diags /\ cache'[f].mtime = cache[f].mtime
  <2>1. pipe \in Seq(Reply \cup Push)
    BY <1>1 DEF WellFormed, Formed
  <2>2. Head(pipe) = pipe[1] /\ 1 \in 1 .. Len(pipe)
    BY <1>4, <2>1, HeadTail
  <2>3. cache[f].mtime <= pipe[1].diags /\ pipe[1].diags \in Nat
    BY <1>1, <1>2, <1>4, <2>2, DocumentSyncAssumption
       DEF FreshInv, Fresh, StepFacts, Reply, Push
  <2> QED
    BY <1>2, <1>4, <2>2, <2>3
<1>5. ASSUME NEW t \in Diags, Answered(f, t)
      PROVE  cache'[f].diags >= cache'[f].mtime
  <2>1. mtime[t] <= pipe[1].diags /\ cache[f].mtime <= pipe[1].diags
    BY <1>1, <1>2, <1>5, AnswerCovers
  <2>2. Head(pipe) = pipe[1] /\ 1 \in 1 .. Len(pipe)
    BY <1>1, <1>5, AnsweredFile
  <2>3. pipe[1].diags \in Nat /\ mtime[t] \in Nat
    BY <1>1, <2>2, DocumentSyncAssumption DEF StepFacts, Reply, Push, Ranges, Tasks
  <2>4. /\ cache'[f].diags = pipe[1].diags
        /\ cache'[f].mtime = IF mtime[t] = 0 THEN cache[f].mtime ELSE mtime[t]
    BY <1>5, <2>2 DEF Answered
  <2> QED
    BY <1>2, <2>1, <2>3, <2>4
<1> QED
  BY <1>1, <1>3, <1>4, <1>5 DEF StepFacts, CacheEffect

\* FreshInv holds for good.
LEMMA FreshAlways == Spec => []FreshInv
<1>1. CacheInv /\ [Next]_vars => CacheInv'
  BY SyncNext, CountedNext, RecordedNext DEF CacheInv
<1>2. FreshInv /\ [Next]_vars => FreshInv'
  BY <1>1, OrderedNext, AddressedNext, FreshNext, FreshCacheNext DEF FreshInv
<1> QED
  BY <1>2, FreshInit, PTL DEF Spec

\* A cache hit serves no diagnostics older than the recorded mtime
\* (_request_diagnostics, _handle_diagnostics), except for a file stat'ed ahead
\* of the server or answered "unchanged", whatever else happens.
THEOREM FreshCacheHolds == Spec => []FreshCache
<1>1. FreshInv => FreshCache
  BY DEF FreshInv
<1> QED
  BY <1>1, FreshAlways, PTL
=============================================================================
