------------------------------- MODULE Rename -------------------------------
(***************************************************************************)
(* "rename --apply" and "rename --rollback": the files of a workspace edit *)
(* are copied to the directory of a session, edited one by one, and        *)
(* restored when an edit fails or a later command asks for it              *)
(* (domain/services/rename_service.py, backup_manager.py).  Every command  *)
(* is a process of its own; it may be killed, Ctrl-C included, between any *)
(* two of its file operations, and two commands may overlap.               *)
(*                                                                         *)
(* The contents of a file are the sequence of the applies it has gone      *)
(* through, Nothing for a file that does not exist; a write cut short      *)
(* leaves the mark Torn.  TextEdits has what an apply makes of the text of *)
(* a file.  No other program creates or removes these files meanwhile.     *)
(***************************************************************************)
EXTENDS TextEdits

CONSTANTS
  Files,
  Slots,      \* paths below the directory of a session
  SlotOf,     \* the backup path of each file; files outside the workspace
              \* are saved under their bare name, and names may be equal
  Missing,    \* bound: the files that may not exist
  Edits,      \* bound: the sets of files a workspace edit may touch
  Applies,    \* "rename --apply" commands
  Rollbacks,  \* "rename --rollback" commands
  Sessions,   \* session ids: a hash of the request and of the minute
  Torn,
  Nothing

Contents == Seq(Applies \cup {Torn})

ASSUME RenameAssumption ==
  /\ SlotOf \in [Files -> Slots]
  /\ Edits \subseteq (SUBSET Files) \ {{}}
  /\ Applies \cap Rollbacks = {}
  /\ Nothing \notin Sessions \cup Contents
  /\ Torn \notin Applies

Processes == Applies \cup Rollbacks

VARIABLES
  content,    \* the contents of each file
  backup,     \* the contents saved in each slot of each session
  manifest,   \* the files named by manifest.json, Nothing without one
  pc,         \* "idle"; "saving", "editing" and "restoring" of an apply;
              \* "restoring" and "cleaning" of a rollback; "done", "failed"
              \* or "killed"
  session,    \* the session of each process
  scope,      \* the files of each apply's workspace edit
  todo,       \* the files each process has still to treat in its phase
  affected,   \* RenameSession.affected_files of each apply
  (* history *)
  before,     \* the contents each apply saved
  mixed       \* <<p, f>>: another command wrote f after the apply p saved it,
              \* or tore f after the rollback p restored it

vars == <<content, backup, manifest, pc, session, scope, todo, affected,
          before, mixed>>

Init ==
  /\ \E missing \in SUBSET (Files \cap Missing) :
       content = [f \in Files |-> IF f \in missing THEN Nothing ELSE <<>>]
  /\ backup = [s \in Sessions |-> [k \in Slots |-> Nothing]]
  /\ manifest = [s \in Sessions |-> Nothing]
  /\ pc = [p \in Processes |-> "idle"]
  /\ session = [p \in Processes |-> Nothing]
  /\ scope = [a \in Applies |-> {}]
  /\ todo = [p \in Processes |-> {}]
  /\ affected = [a \in Applies |-> {}]
  /\ before = [a \in Applies |-> [f \in Files |-> Nothing]]
  /\ mixed = {}

Turn(p, from) == pc[p] = from /\ todo[p] = {}
Picked(p, in, f) == pc[p] = in /\ f \in todo[p]
Finish(p, f) == todo' = [todo EXCEPT ![p] = @ \ {f}]

\* The applies of other sessions that have saved the file.
Savers(p, f) ==
  {a \in Applies \ {p} : f \in affected[a] /\ session[a] # session[p]}

\* The other rollbacks of the session that have restored it.
Restorers(p, f) ==
  {r \in Rollbacks \ {p} : /\ session[r] = session[p] /\ f \notin todo[r]
                            /\ pc[r] \in {"restoring", "cleaning"}}

Write(p, f, c) ==
  /\ content' = [content EXCEPT ![f] = c]
  /\ mixed' = mixed \cup (Savers(p, f) \X {f})

\* A copy back is cut short.
Tear(p, f) ==
  /\ content' = [content EXCEPT ![f] = <<Torn>>]
  /\ mixed' = mixed \cup ((Savers(p, f) \cup Restorers(p, f)) \X {f})

-----------------------------------------------------------------------------
(* rename --apply                                                          *)

\* The workspace edit has come, not an empty one, and a session is created.
ApplyBegins(a, s, edited) ==
  /\ pc[a] = "idle"
  /\ pc' = [pc EXCEPT ![a] = "saving"]
  /\ session' = [session EXCEPT ![a] = s]
  /\ scope' = [scope EXCEPT ![a] = edited]
  /\ todo' = [todo EXCEPT ![a] = edited]
  /\ UNCHANGED <<content, backup, manifest, affected, before, mixed>>

\* backup_files, one file; one that does not exist is skipped.
Save(a, f) ==
  /\ Picked(a, "saving", f)
  /\ content[f] # Nothing
  /\ backup' = [backup EXCEPT ![session[a]][SlotOf[f]] = content[f]]
  /\ affected' = [affected EXCEPT ![a] = @ \cup {f}]
  /\ before' = [before EXCEPT ![a][f] = content[f]]
  /\ Finish(a, f)
  /\ UNCHANGED <<content, manifest, pc, session, scope, mixed>>

SaveSkips(a, f) ==
  /\ Picked(a, "saving", f)
  /\ content[f] = Nothing
  /\ Finish(a, f)
  /\ UNCHANGED <<content, backup, manifest, pc, session, scope, affected, before,
                 mixed>>

\* A copy raises: the command ends with nothing edited.
SaveFails(a, f) ==
  /\ Picked(a, "saving", f)
  /\ content[f] # Nothing
  /\ pc' = [pc EXCEPT ![a] = "failed"]
  /\ todo' = [todo EXCEPT ![a] = {}]
  /\ UNCHANGED <<content, backup, manifest, session, scope, affected, before,
                 mixed>>

\* Faulty variant: editing starts while copies are still to be made.
SavedSome(a) ==
  /\ pc[a] = "saving"
  /\ pc' = [pc EXCEPT ![a] = "editing"]
  /\ todo' = [todo EXCEPT ![a] = scope[a]]
  /\ UNCHANGED <<content, backup, manifest, session, scope, affected, before,
                 mixed>>

Saved(a) ==
  /\ Turn(a, "saving")
  /\ pc' = [pc EXCEPT ![a] = "editing"]
  /\ todo' = [todo EXCEPT ![a] = scope[a]]
  /\ UNCHANGED <<content, backup, manifest, session, scope, affected, before,
                 mixed>>

\* _apply_edits, one file: it is read, edited and written, or skipped if it
\* does not exist.
EditFile(a, f) ==
  /\ Picked(a, "editing", f)
  /\ content[f] # Nothing
  /\ Write(a, f, Append(content[f], a))
  /\ Finish(a, f)
  /\ UNCHANGED <<backup, manifest, pc, session, scope, affected, before>>

EditSkips(a, f) ==
  /\ Picked(a, "editing", f)
  /\ content[f] = Nothing
  /\ Finish(a, f)
  /\ UNCHANGED <<content, backup, manifest, pc, session, scope, affected, before,
                 mixed>>

\* Faulty variant: only the files edited so far are restored.
EditFailsEdited(a, f) ==
  /\ Picked(a, "editing", f)
  /\ content[f] # Nothing
  /\ \/ Write(a, f, <<a, Torn>>)
     \/ UNCHANGED <<content, mixed>>
  /\ pc' = [pc EXCEPT ![a] = "restoring"]
  /\ todo' = [todo EXCEPT ![a] = scope[a] \ todo[a]]
  /\ UNCHANGED <<backup, manifest, session, scope, affected, before>>

\* A file cannot be read, or its write stops half-way: except restores all.
EditFails(a, f) ==
  /\ Picked(a, "editing", f)
  /\ content[f] # Nothing
  /\ \/ Write(a, f, <<a, Torn>>)
     \/ UNCHANGED <<content, mixed>>
  /\ pc' = [pc EXCEPT ![a] = "restoring"]
  /\ todo' = [todo EXCEPT ![a] = affected[a]]
  /\ UNCHANGED <<backup, manifest, session, scope, affected, before>>

\* write_request_json and write_manifest
Applied(a) ==
  /\ Turn(a, "editing")
  /\ manifest' = [manifest EXCEPT ![session[a]] = affected[a]]
  /\ pc' = [pc EXCEPT ![a] = "done"]
  /\ UNCHANGED <<content, backup, session, scope, todo, affected, before, mixed>>

ManifestFails(a) ==
  /\ Turn(a, "editing")
  /\ pc' = [pc EXCEPT ![a] = "restoring"]
  /\ todo' = [todo EXCEPT ![a] = affected[a]]
  /\ UNCHANGED <<content, backup, manifest, session, scope, affected, before,
                 mixed>>

\* restore and restore_by_id, one file; one without its backup is skipped.
RestoreFile(p, f) ==
  /\ Picked(p, "restoring", f)
  /\ IF backup[session[p]][SlotOf[f]] # Nothing
       THEN Write(p, f, backup[session[p]][SlotOf[f]])
       ELSE UNCHANGED <<content, mixed>>
  /\ Finish(p, f)
  /\ UNCHANGED <<backup, manifest, pc, session, scope, affected, before>>

\* The copy back raises, as the write did when the file cannot be written: the
\* except clause, or the rollback, ends there with the files still to restore
\* as they are.
RestoreFails(p, f) ==
  /\ Picked(p, "restoring", f)
  /\ backup[session[p]][SlotOf[f]] # Nothing
  /\ Tear(p, f) \/ UNCHANGED <<content, mixed>>
  /\ pc' = [pc EXCEPT ![p] = "failed"]
  /\ todo' = [todo EXCEPT ![p] = {}]
  /\ UNCHANGED <<backup, manifest, session, scope, affected, before>>

ApplyUndone(a) ==
  /\ Turn(a, "restoring")
  /\ pc' = [pc EXCEPT ![a] = "failed"]
  /\ UNCHANGED <<content, backup, manifest, session, scope, todo, affected,
                 before, mixed>>

-----------------------------------------------------------------------------
(* rename --rollback                                                       *)

\* The manifest is read.
RollbackBegins(r, s) ==
  /\ pc[r] = "idle"
  /\ manifest[s] # Nothing
  /\ pc' = [pc EXCEPT ![r] = "restoring"]
  /\ session' = [session EXCEPT ![r] = s]
  /\ todo' = [todo EXCEPT ![r] = manifest[s]]
  /\ UNCHANGED <<content, backup, manifest, scope, affected, before, mixed>>

\* No such session, or none with a manifest: ValueError.
RollbackRefused(r, s) ==
  /\ pc[r] = "idle"
  /\ manifest[s] = Nothing
  /\ pc' = [pc EXCEPT ![r] = "failed"]
  /\ UNCHANGED <<content, backup, manifest, session, scope, todo, affected,
                 before, mixed>>

\* Faulty variant: the directory goes before every file is restored.
RestoredSome(r) ==
  /\ pc[r] = "restoring"
  /\ pc' = [pc EXCEPT ![r] = "cleaning"]
  /\ UNCHANGED <<content, backup, manifest, session, scope, todo, affected,
                 before, mixed>>

Restored(r) ==
  /\ Turn(r, "restoring")
  /\ pc' = [pc EXCEPT ![r] = "cleaning"]
  /\ UNCHANGED <<content, backup, manifest, session, scope, todo, affected,
                 before, mixed>>

\* rmtree(ignore_errors=True) removes the entries in an order of its own.
RemoveCopy(r, k) ==
  /\ pc[r] = "cleaning"
  /\ backup[session[r]][k] # Nothing
  /\ backup' = [backup EXCEPT ![session[r]][k] = Nothing]
  /\ UNCHANGED <<content, manifest, pc, session, scope, todo, affected, before,
                 mixed>>

RemoveManifest(r) ==
  /\ pc[r] = "cleaning"
  /\ manifest[session[r]] # Nothing
  /\ manifest' = [manifest EXCEPT ![session[r]] = Nothing]
  /\ UNCHANGED <<content, backup, pc, session, scope, todo, affected, before,
                 mixed>>

\* Nothing is left to remove, or removing failed.
RolledBack(r) ==
  /\ pc[r] = "cleaning"
  /\ pc' = [pc EXCEPT ![r] = "done"]
  /\ UNCHANGED <<content, backup, manifest, session, scope, todo, affected,
                 before, mixed>>

Killed(p) ==
  /\ pc[p] \in {"saving", "editing", "restoring", "cleaning"}
  /\ pc' = [pc EXCEPT ![p] = "killed"]
  /\ todo' = [todo EXCEPT ![p] = {}]
  /\ UNCHANGED <<content, backup, manifest, session, scope, affected, before,
                 mixed>>

-----------------------------------------------------------------------------
ApplyStep(a) ==
  \/ \E s \in Sessions, edited \in Edits : ApplyBegins(a, s, edited)
  \/ \E f \in Files : \/ Save(a, f) \/ SaveSkips(a, f) \/ SaveFails(a, f)
                      \/ EditFile(a, f) \/ EditSkips(a, f) \/ EditFails(a, f)
  \/ Saved(a) \/ Applied(a) \/ ManifestFails(a) \/ ApplyUndone(a)

RollbackStep(r) ==
  \/ \E s \in Sessions : RollbackBegins(r, s) \/ RollbackRefused(r, s)
  \/ Restored(r) \/ RemoveManifest(r) \/ RolledBack(r)
  \/ \E k \in Slots : RemoveCopy(r, k)

Next ==
  \/ \E a \in Applies : ApplyStep(a)
  \/ \E r \in Rollbacks : RollbackStep(r)
  \/ \E p \in Processes :
       Killed(p) \/ \E f \in Files : RestoreFile(p, f) \/ RestoreFails(p, f)

Spec == Init /\ [][Next]_vars

-----------------------------------------------------------------------------
\* Every variable has its type, only files of the edit are saved, and a
\* command that ends has no file left to treat.
TypeOK ==
  /\ content \in [Files -> Contents \cup {Nothing}]
  /\ backup \in [Sessions -> [Slots -> Contents \cup {Nothing}]]
  /\ manifest \in [Sessions -> (SUBSET Files) \cup {Nothing}]
  /\ pc \in [Processes -> {"idle", "saving", "editing", "restoring",
                           "cleaning", "done", "failed", "killed"}]
  /\ session \in [Processes -> Sessions \cup {Nothing}]
  /\ scope \in [Applies -> SUBSET Files]
  /\ todo \in [Processes -> SUBSET Files]
  /\ affected \in [Applies -> SUBSET Files]
  /\ before \in [Applies -> [Files -> Contents \cup {Nothing}]]
  /\ mixed \subseteq Processes \X Files
  /\ \A a \in Applies : affected[a] \subseteq scope[a]
  /\ \A p \in Processes : pc[p] \in {"done", "failed", "killed"} => todo[p] = {}

\* The session of the apply is its own: the same rename was not applied
\* twice within a minute.
OwnSession(a) ==
  \A b \in Applies \ {a} : session[b] # session[a] \/ session[b] = Nothing

\* Nothing the code accepts to lose: no other file is saved under the same
\* name, no other command wrote the file meanwhile, and of two rollbacks at once
\* neither tore what the other had restored.
Kept(a, f) ==
  /\ OwnSession(a)
  /\ <<a, f>> \notin mixed
  /\ \A r \in Rollbacks : session[r] = session[a] => <<r, f>> \notin mixed
  /\ \A g \in scope[a] \ {f} : SlotOf[g] # SlotOf[f]

Shows(f, a) ==
  content[f] # Nothing /\ \E k \in 1 .. Len(content[f]) : content[f][k] = a

\* Whatever fails or is killed, the restoring included, as long as a file shows
\* an edit of an apply, or differs from what the apply saved, the contents it
\* had before can be found in the session's directory.
OriginalsKept ==
  \A a \in Applies, f \in Files :
    Kept(a, f) /\ (Shows(f, a) \/ (f \in affected[a] /\ content[f] # before[a][f]))
      => /\ before[a][f] # Nothing
         /\ backup[session[a]][SlotOf[f]] = before[a][f]

\* An apply that reports success has edited every file of its workspace
\* edit that exists, each to the text the protocol asks for, with its line ends
\* made newlines; the edit of a file is lost only to a rollback of the session,
\* or to another command that wrote the file meanwhile or shares the session
\* (apply_from_edit, _apply_edits).
AppliedAsAsked ==
  \A a \in Applies :
    pc[a] = "done"
      => /\ EditsAsAsked
         /\ \A f \in scope[a] :
              \/ Shows(f, a)
              \/ content[f] = Nothing
              \/ ~ OwnSession(a) \/ <<a, f>> \in mixed
              \/ \E r \in Rollbacks : session[r] = session[a]

\* An apply that fails leaves every file of the edit as it found it, also
\* the one whose write stopped half-way, if the restoring goes through; if a
\* copy back raises, every file it had come to before that one (restore).
FailureUndone ==
  [][\A a \in Applies, f \in Files :
       /\ pc[a] = "restoring" /\ pc'[a] = "failed"
       /\ f \in scope[a] \ todo[a] /\ Kept(a, f)
       => content'[f] = before[a][f]]_vars

\* A rollback that gets as far as its clean-up has restored every file of
\* the edit, also when it repeats one that was killed.
RollbackUndoes ==
  [][\A r \in Rollbacks, a \in Applies, f \in Files :
       /\ pc[r] = "restoring" /\ pc'[r] = "cleaning"
       /\ session[a] = session[r] /\ f \in scope[a] /\ Kept(a, f)
       => content[f] = before[a][f]]_vars
=============================================================================
