--------------------------- MODULE DocumentSync ---------------------------
(***************************************************************************)
(* How the daemon keeps the language server's documents and its own        *)
(* diagnostics cache in step with files that change on disk: the handlers  *)
(* of "diagnostics" and "did-change" (daemon/handler.py), the              *)
(* DocumentSyncContext (daemon/document_sync.py), the diagnostics path of  *)
(* LSPClient (lsp/client.py) and DiagnosticCache (lsp/cache.py).           *)
(*                                                                         *)
(* The contents of a file are numbered in the order they are written; the  *)
(* number is also its mtime, and the number of a diagnostics report is     *)
(* that of the contents it describes.  An action runs to the next point    *)
(* where the code may suspend.                                             *)
(***************************************************************************)
EXTENDS Naturals, Sequences

CONSTANTS
  Files,
  Diags,        \* "diagnostics" requests; each value is one
  Changes,      \* "did-change" requests; each value is one
  MaxEdits,     \* bound: edits of a file by other programs
  MayUnchange,  \* external: the server may answer "unchanged"
  MayPublish,   \* external: the server sends publishDiagnostics
  MayFail,      \* external: a request may fail or time out
  NoFile        \* a request that has not arrived

Tasks == Diags \cup Changes

ASSUME DocumentSyncAssumption ==
  /\ Diags \cap Changes = {}
  /\ MaxEdits \in Nat
  /\ {MayUnchange, MayPublish, MayFail} \subseteq BOOLEAN
  /\ NoFile \notin Files

VARIABLES
  disk,         \* the contents of each file on disk
  cache,        \* the FileState of each file
  doc,          \* external: the server's document for each file
  published,    \* external: the contents last published about
  requests,     \* external: textDocument/diagnostic requests unanswered
  pipe,         \* external: answers and notifications on their way back
  queue,        \* the lock of each file: its holder, then the waiters
  file,         \* the file of each request
  pc,           \* where the handler of each request stands
  mtime,        \* the st_mtime each handler has read, 0 when stat failed
  result,       \* the diagnostics each request returned
  (* history *)
  lastChange,   \* the version of the last didChange
  acked,        \* the contents the last acknowledged did-change was about
  due,          \* acked when a request for diagnostics arrived
  ahead,        \* files stat'ed newer than what the server had been sent
  wiped         \* files an "unchanged" answer was applied to

codeVars == <<cache, queue, file, pc, mtime, result>>
serverVars == <<published, requests, pipe>>
historyVars == <<lastChange, acked, due, ahead, wiped>>
vars == <<disk, doc, codeVars, serverVars, historyVars>>

Contents == 1 .. MaxEdits + 1
Nothing == 0      \* an empty list of diagnostics, a None, an mtime of 0.0

Init ==
  /\ disk = [f \in Files |-> 1]
  /\ cache = [f \in Files |-> [open |-> FALSE, version |-> 0, mtime |-> 0,
                               resultId |-> 0, diags |-> Nothing]]
  /\ doc = [f \in Files |-> [open |-> FALSE, version |-> 0, text |-> 0]]
  /\ published = [f \in Files |-> 0]
  /\ requests = {}
  /\ pipe = <<>>
  /\ queue = [f \in Files |-> <<>>]
  /\ file = [t \in Tasks |-> NoFile]
  /\ pc = [t \in Tasks |-> "idle"]
  /\ mtime = [t \in Tasks |-> 0]
  /\ result = [t \in Diags |-> Nothing]
  /\ lastChange = [f \in Files |-> 1]
  /\ acked = [f \in Files |-> 0]
  /\ due = [t \in Diags |-> 0]
  /\ ahead = {}
  /\ wiped = {}
-----------------------------------------------------------------------------
(* Cache and client operations. *)

\* Faulty variant: opening resets the version.
OpenedAfresh(s) == [s EXCEPT !.open = TRUE, !.version = 1]

\* DiagnosticCache.on_did_open, without an mtime
Opened(s) == [s EXCEPT !.open = TRUE, !.version = @ + 1]

\* DiagnosticCache.increment_version
Incremented(s) == [s EXCEPT !.version = @ + 1]

\* LSPClient.open_document: always version 1
DidOpen(f) == doc' = [doc EXCEPT ![f] = [open |-> TRUE, version |-> 1,
                                         text |-> disk[f]]]

\* DiagnosticCache.is_stale
IsStale(s, m) == m > s.mtime
-----------------------------------------------------------------------------
(* RequestHandler._handle_doc_sync_method for textDocument/diagnostic. *)

\* The lock of the file is asked for; see FileLocks for the table.
DiagArrives(t, f) ==
  /\ pc[t] = "idle"
  /\ pc' = [pc EXCEPT ![t] = "locking"]
  /\ file' = [file EXCEPT ![t] = f]
  /\ queue' = [queue EXCEPT ![f] = Append(@, t)]
  /\ due' = [due EXCEPT ![t] = acked[f]]
  /\ UNCHANGED <<disk, cache, doc, mtime, result, serverVars, lastChange, acked,
                 ahead, wiped>>

\* Faulty variant: the mtime is rounded up to the next tick.
RoundedUp(f) == disk[f] + 1

\* os.stat(...).st_mtime
StatMtime(f) == disk[f]

HasTurn(t) == Head(queue[file[t]]) = t

\* DocumentSyncContext.__aenter__ for a file that is not open: the contents
\* are read and written to the server, and drain() may suspend.
DiagOpens(t) ==
  LET f == file[t] IN
  /\ pc[t] = "locking"
  /\ HasTurn(t)
  /\ ~cache[f].open
  /\ DidOpen(f)
  /\ pc' = [pc EXCEPT ![t] = "opening"]
  /\ UNCHANGED <<disk, cache, queue, file, mtime, result, serverVars, historyVars>>

\* The lock is released with the result.
Returns(t, diags) ==
  /\ pc' = [pc EXCEPT ![t] = "done"]
  /\ result' = [result EXCEPT ![t] = diags]
  /\ queue' = [queue EXCEPT ![file[t]] = Tail(@)]

\* The file counts as open; its mtime is read unless stat fails; and
\* _request_diagnostics answers from the cache or asks the server.
DiagAsks(t) ==
  LET f == file[t]
      s == IF pc[t] = "opening" THEN Opened(cache[f]) ELSE cache[f]
  IN
  /\ \/ pc[t] = "opening"
     \/ pc[t] = "locking" /\ HasTurn(t) /\ cache[f].open
  /\ cache' = [cache EXCEPT ![f] = s]
  /\ \E m \in {StatMtime(f), Nothing} :
       /\ mtime' = [mtime EXCEPT ![t] = m]
       /\ ahead' = IF m > doc[f].text THEN ahead \cup {f} ELSE ahead
       /\ IF s.resultId # Nothing /\ m # Nothing /\ ~IsStale(s, m)
            THEN Returns(t, s.diags) /\ UNCHANGED requests
            ELSE /\ requests' = requests \cup
                      {[task |-> t, file |-> f, previous |-> s.resultId]}
                 /\ pc' = [pc EXCEPT ![t] = "asking"]
                 /\ UNCHANGED <<result, queue>>
  /\ UNCHANGED <<disk, doc, file, published, pipe, lastChange, acked, due, wiped>>

\* The didOpen of a request raises: the file is not marked open.
DiagOpenRaises(t) ==
  /\ MayFail
  /\ pc[t] = "opening"
  /\ Returns(t, Nothing)
  /\ UNCHANGED <<disk, cache, doc, file, mtime, serverVars, historyVars>>

\* Faulty variant: the mtime is read again when the answer is stored.
StoredLate(f, s, m, diags, resultId) ==
  [s EXCEPT !.diags = diags,
            !.resultId = IF resultId = Nothing THEN @ ELSE resultId,
            !.mtime = IF m = Nothing THEN @ ELSE disk[f]]

\* update_document_diagnostics with the answer, then set_mtime with the
\* mtime read before the request was sent.
Stored(f, s, m, diags, resultId) ==
  [s EXCEPT !.diags = diags,
            !.resultId = IF resultId = Nothing THEN @ ELSE resultId,
            !.mtime = IF m = Nothing THEN @ ELSE m]

\* _normalize_document_diagnostics: an "unchanged" answer names no file, so
\* the cache is searched for the file "" and has nothing for it. diags names
\* the contents a list is about, not the list: a null, a bare list and an
\* answer of no known form, taken for a list (perhaps empty) without a result
\* id, are "full" answers whose resultId is Nothing.
Normalized(answer) == IF answer.kind = "unchanged" THEN Nothing ELSE answer.diags

DiagAnswered ==
  /\ pipe # <<>>
  /\ Head(pipe).kind \in {"full", "unchanged"}
  /\ pc[Head(pipe).task] = "asking"
  /\ pipe' = Tail(pipe)
  /\ LET answer == Head(pipe)
         t == answer.task
         f == file[t]
         diags == Normalized(answer)
     IN  /\ cache' = [cache EXCEPT ![f] =
                        Stored(f, @, mtime[t], diags, answer.resultId)]
         /\ Returns(t, diags)
         /\ wiped' = IF answer.kind = "unchanged" THEN wiped \cup {f} ELSE wiped
  /\ UNCHANGED <<disk, doc, file, mtime, published, requests, lastChange, acked,
                 due, ahead>>

\* An answer to a request that gave up: the transport drops it.
LateAnswer ==
  /\ pipe # <<>>
  /\ Head(pipe).kind \in {"full", "unchanged"}
  /\ pc[Head(pipe).task] # "asking"
  /\ pipe' = Tail(pipe)
  /\ UNCHANGED <<disk, doc, codeVars, published, requests, historyVars>>

\* An error or a timeout: the cached diagnostics are returned.
DiagFails(t) ==
  /\ MayFail
  /\ pc[t] = "asking"
  /\ Returns(t, cache[file[t]].diags)
  /\ UNCHANGED <<disk, cache, doc, file, mtime, serverVars, historyVars>>

\* LSPClient._handle_diagnostics: no result id, no mtime.
Published ==
  /\ pipe # <<>>
  /\ Head(pipe).kind = "push"
  /\ pipe' = Tail(pipe)
  /\ cache' = [cache EXCEPT ![Head(pipe).file].diags = Head(pipe).diags]
  /\ UNCHANGED <<disk, doc, queue, file, pc, mtime, result, published, requests,
                 historyVars>>
-----------------------------------------------------------------------------
(* RequestHandler._handle_did_change: no lock is taken. *)

\* The file is stat'ed; the workspace may still have to be initialized.
ChangeArrives(t, f) ==
  /\ pc[t] = "idle"
  /\ pc' = [pc EXCEPT ![t] = "deciding"]
  /\ file' = [file EXCEPT ![t] = f]
  /\ mtime' = [mtime EXCEPT ![t] = StatMtime(f)]
  /\ UNCHANGED <<disk, cache, doc, queue, result, serverVars, historyVars>>

NeedsDidOpen(t) ==
  LET s == cache[file[t]] IN
  ~s.open \/ (s.mtime > 0 /\ IsStale(s, mtime[t]))

ChangeOpens(t) ==
  /\ pc[t] = "deciding"
  /\ NeedsDidOpen(t)
  /\ DidOpen(file[t])
  /\ pc' = [pc EXCEPT ![t] = "reopening"]
  /\ UNCHANGED <<disk, cache, queue, file, mtime, result, serverVars, historyVars>>

\* Faulty variant: the contents are read once, when the request arrives.
TextAtArrival(t) == mtime[t]

\* file_path.read_text() right before didChange
TextToSend(t) == disk[file[t]]

\* Faulty variant: nothing is sent for a file that is open and not stale.
ChangeSkips(t) ==
  LET f == file[t] IN
  /\ \/ pc[t] = "reopening"
     \/ pc[t] = "deciding" /\ ~NeedsDidOpen(t)
  /\ pc' = [pc EXCEPT ![t] = "done"]
  /\ acked' = [acked EXCEPT ![f] = IF @ < mtime[t] THEN mtime[t] ELSE @]
  /\ UNCHANGED <<disk, cache, doc, queue, file, mtime, result, serverVars,
                 lastChange, due, ahead, wiped>>

\* The reopened file is marked open, without an mtime; send_did_change
\* counts the version and sends the contents of the file; the request is
\* acknowledged.
ChangeSends(t) ==
  LET f == file[t]
      s == Incremented(IF pc[t] = "reopening" THEN Opened(cache[f]) ELSE cache[f])
  IN
  /\ \/ pc[t] = "reopening"
     \/ pc[t] = "deciding" /\ ~NeedsDidOpen(t)
  /\ cache' = [cache EXCEPT ![f] = s]
  /\ doc' = [doc EXCEPT ![f].version = s.version, ![f].text = TextToSend(t)]
  /\ pc' = [pc EXCEPT ![t] = "done"]
  /\ lastChange' = [lastChange EXCEPT ![f] = s.version]
  /\ acked' = [acked EXCEPT ![f] = IF @ < mtime[t] THEN mtime[t] ELSE @]
  /\ UNCHANGED <<disk, queue, file, mtime, result, serverVars, due, ahead, wiped>>

ChangeOpenRaises(t) ==
  /\ MayFail
  /\ pc[t] = "reopening"
  /\ pc' = [pc EXCEPT ![t] = "done"]
  /\ UNCHANGED <<disk, cache, doc, queue, file, mtime, result, serverVars,
                 historyVars>>
-----------------------------------------------------------------------------
(* Other programs and the language server (external). *)

Edit(f) ==
  /\ disk[f] <= MaxEdits
  /\ disk' = [disk EXCEPT ![f] = @ + 1]
  /\ UNCHANGED <<doc, codeVars, serverVars, historyVars>>

Answer(r, kind, resultId) ==
  [kind |-> kind, task |-> r.task, file |-> r.file, diags |-> doc[r.file].text,
   resultId |-> resultId]

\* The server answers from the document it has by then, with or without a
\* result id, and may say "unchanged" of the report it was asked about.
ServerAnswers(r) ==
  /\ r \in requests
  /\ requests' = requests \ {r}
  /\ \/ \E resultId \in {doc[r.file].text, Nothing} :
          pipe' = Append(pipe, Answer(r, "full", resultId))
     \/ /\ MayUnchange
        /\ r.previous = doc[r.file].text
        /\ pipe' = Append(pipe, Answer(r, "unchanged", r.previous))
  /\ UNCHANGED <<disk, doc, codeVars, published, historyVars>>

\* publishDiagnostics, once for each text of the document
ServerPublishes(f) ==
  /\ MayPublish
  /\ published[f] < doc[f].text
  /\ published' = [published EXCEPT ![f] = doc[f].text]
  /\ pipe' = Append(pipe, [kind |-> "push", task |-> NoFile, file |-> f,
                           diags |-> doc[f].text, resultId |-> Nothing])
  /\ UNCHANGED <<disk, doc, codeVars, requests, historyVars>>
-----------------------------------------------------------------------------
DiagStep(t) ==
  \/ \E f \in Files : DiagArrives(t, f)
  \/ DiagOpens(t) \/ DiagOpenRaises(t) \/ DiagAsks(t) \/ DiagFails(t)

ChangeStep(t) ==
  \/ \E f \in Files : ChangeArrives(t, f)
  \/ ChangeOpens(t) \/ ChangeOpenRaises(t) \/ ChangeSends(t)

Next ==
  \/ \E t \in Diags : DiagStep(t)
  \/ DiagAnswered
  \/ LateAnswer
  \/ Published
  \/ \E t \in Changes : ChangeStep(t)
  \/ \E f \in Files : Edit(f) \/ ServerPublishes(f)
  \/ \E r \in requests : ServerAnswers(r)

Spec == Init /\ [][Next]_vars
-----------------------------------------------------------------------------
Request == [task : Diags, file : Files, previous : 0 .. MaxEdits + 1]
Message == [kind : {"full", "unchanged", "push"}, task : Diags \cup {NoFile},
            file : Files, diags : 0 .. MaxEdits + 1,
            resultId : 0 .. MaxEdits + 1]
FileState == [open : BOOLEAN, version : Nat, mtime : 0 .. MaxEdits + 1,
              resultId : 0 .. MaxEdits + 1, diags : 0 .. MaxEdits + 1]

\* Every variable has its type.
TypeOK ==
  /\ disk \in [Files -> Contents]
  /\ cache \in [Files -> FileState]
  /\ doc \in [Files -> [open : BOOLEAN, version : Nat, text : 0 .. MaxEdits + 1]]
  /\ published \in [Files -> 0 .. MaxEdits + 1]
  /\ requests \subseteq Request
  /\ pipe \in Seq(Message)
  /\ queue \in [Files -> Seq(Diags)]
  /\ file \in [Tasks -> Files \cup {NoFile}]
  /\ pc \in [Tasks -> {"idle", "locking", "opening", "asking", "deciding",
                       "reopening", "done"}]
  /\ mtime \in [Tasks -> 0 .. MaxEdits + 1]
  /\ result \in [Diags -> 0 .. MaxEdits + 1]
  /\ lastChange \in [Files -> Nat]
  /\ acked \in [Files -> 0 .. MaxEdits + 1]
  /\ due \in [Diags -> 0 .. MaxEdits + 1]
  /\ ahead \subseteq Files /\ wiped \subseteq Files

\* What the cache holds for the recorded mtime describes contents at least as
\* new, so a hit serves no older diagnostics, in every interleaving of
\* requests, notifications, edits and failures.  Two things spoil it: a
\* request made before the server was told of an edit, and an "unchanged"
\* answer (_request_diagnostics).
FreshCache ==
  \A f \in Files : f \notin ahead \cup wiped => cache[f].diags >= cache[f].mtime

\* After a did-change is acknowledged the server's document is at least as
\* new as the file was when the command came (_handle_did_change), whoever
\* opens or changes it at the same time.
AckSynced == \A f \in Files : doc[f].text >= acked[f]

\* The server's document never goes back to older contents (contents are read
\* right before they are written, in open_document's callers too).
DocNeverOlder == [][\A f \in Files : doc'[f].text >= doc[f].text]_vars

\* Each didChange carries a version above that of every didOpen and didChange
\* before it (increment_version, on_did_open).
VersionsRise ==
  [][\A t \in Changes : ChangeSends(t)
       => lastChange'[file[t]] > lastChange[file[t]]]_vars

\* The recorded mtime never goes back, however answers are ordered: requests
\* for a file are serialized by its lock (_handle_doc_sync_method).
MtimeNeverOlder == [][\A f \in Files : cache'[f].mtime >= cache[f].mtime]_vars

\* README, "External File Change Notification": after did-change the next
\* diagnostics are updated ones.
UpdatedAfterDidChange ==
  \A t \in Diags : pc[t] = "done" => result[t] >= due[t]
=============================================================================
