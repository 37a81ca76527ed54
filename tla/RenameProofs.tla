---------------------------- MODULE RenameProofs ----------------------------
(* Invariance theorems about Rename, for any number of files, commands and  *)
(* sessions.                                                                *)
EXTENDS Rename, TLAPS

\* The apply a took part in the contents c.
Marks(c, a) == c # Nothing /\ \E k \in 1 .. Len(c) : c[k] = a

\* Where a command can be while its variables say what.
Phase(p) ==
  /\ pc[p] = "idle" => session[p] = Nothing /\ todo[p] = {}
  /\ pc[p] \in {"saving", "editing", "restoring", "cleaning"} => session[p] \in Sessions
  /\ pc[p] = "cleaning" => todo[p] = {}
  /\ pc[p] = "restoring" => \A f \in todo[p] : content[f] # Nothing

ApplyPhase(a) ==
  /\ pc[a] # "cleaning"
  /\ session[a] = Nothing => pc[a] = "idle"
  /\ pc[a] = "idle" => affected[a] = {} /\ scope[a] = {}
  /\ pc[a] = "saving" =>
       /\ todo[a] \subseteq scope[a] \ affected[a]
       /\ \A f \in scope[a] \ todo[a] : f \in affected[a] \/ content[f] = Nothing
  /\ pc[a] \in {"editing", "restoring", "done"} =>
       \A f \in scope[a] \ affected[a] : content[f] = Nothing
  /\ pc[a] \in {"editing", "restoring"} => todo[a] \subseteq scope[a]
  /\ \A f \in Files \ affected[a] : before[a][f] = Nothing
  /\ \A f \in affected[a] : /\ before[a][f] # Nothing /\ ~ Marks(before[a][f], a)
                            /\ content[f] # Nothing

RollbackPhase(r) == pc[r] \notin {"saving", "editing"}

Phases ==
  /\ \A p \in Processes : Phase(p)
  /\ \A a \in Applies : ApplyPhase(a)
  /\ \A r \in Rollbacks : RollbackPhase(r)
  /\ \A s \in Sessions : manifest[s] # Nothing =>
       \A f \in manifest[s] : content[f] # Nothing

\* An apply that may have edited a file saved under the path k: then all its
\* copies were made.
Edited(a, k) ==
  pc[a] \notin {"idle", "saving"} /\ \E g \in affected[a] : SlotOf[g] = k

\* Contents that show an apply stem from a file it edited, perhaps through a
\* copy under the same path.
Traced ==
  /\ \A f \in Files, a \in Applies : Marks(content[f], a) => Edited(a, SlotOf[f])
  /\ \A s \in Sessions, k \in Slots, a \in Applies :
       Marks(backup[s][k], a) => Edited(a, k)

\* A session was begun by an apply.
Begun(s) == \E b \in Applies : session[b] = s
Origin ==
  /\ \A s \in Sessions : manifest[s] # Nothing => Begun(s)
  /\ \A r \in Rollbacks : session[r] # Nothing => Begun(session[r])

Original(a, f) == content[f] = before[a][f]
Copy(a, f) == backup[session[a]][SlotOf[f]]

\* The copy of a file is there, or was removed when the file had been restored.
Copied(a, f) ==
  Kept(a, f) /\ f \in affected[a] =>
    \/ Copy(a, f) = before[a][f]
    \/ Copy(a, f) = Nothing /\ pc[a] = "done" /\ Original(a, f)

\* A manifest names the files of the apply that was done.
Listed(a) ==
  OwnSession(a) /\ session[a] \in Sessions /\ manifest[session[a]] # Nothing =>
    pc[a] = "done" /\ manifest[session[a]] = affected[a]

\* A file the failed apply has treated is as it was.
Undone(a, f) ==
  pc[a] = "restoring" /\ Kept(a, f) /\ f \in affected[a] \ todo[a] => Original(a, f)

\* A rollback undoes an apply that was done, and a file it has treated is as it was.
RolledBackTo(r, a) ==
  pc[r] \in {"restoring", "cleaning"} /\ session[r] = session[a] /\ OwnSession(a) =>
    /\ pc[a] = "done"
    /\ \A f \in affected[a] \ todo[r] : Kept(a, f) => Original(a, f)

\* The edit of a file may be gone: another apply has the session, another
\* command wrote the file, or a rollback began.
Excused(a, f) ==
  ~ OwnSession(a) \/ <<a, f>> \in mixed \/ \E r \in Rollbacks : session[r] = session[a]

\* Else a file the apply has treated shows its edit.
EditShown(a, f) ==
  pc[a] \in {"editing", "done"} /\ f \in scope[a] \ todo[a] =>
    Shows(f, a) \/ content[f] = Nothing \/ Excused(a, f)

IInv ==
  /\ TypeOK /\ Phases /\ Traced /\ Origin
  /\ \A a \in Applies : Listed(a)
  /\ \A a \in Applies, f \in Files : Copied(a, f) /\ Undone(a, f) /\ EditShown(a, f)
  /\ \A a \in Applies, r \in Rollbacks : RolledBackTo(r, a)

-----------------------------------------------------------------------------
\* What writes make of contents.
LEMMA ContentFacts ==
  ASSUME NEW a \in Applies
  PROVE  /\ <<>> \in Contents /\ <<a, Torn>> \in Contents
         /\ \A c \in Contents : c # Nothing /\ Append(c, a) \in Contents
         /\ \A b : ~ Marks(<<>>, b)
         /\ \A b \in Applies : Marks(<<a, Torn>>, b) => b = a
         /\ \A c \in Contents, b \in Applies :
              Marks(Append(c, a), b) => b = a \/ Marks(c, b)
         /\ \A c \in Contents : Marks(Append(c, a), a)
<1>1. <<>> \in Contents /\ <<a, Torn>> \in Contents
  BY DEF Contents
<1>2. ASSUME NEW c \in Contents PROVE c # Nothing /\ Append(c, a) \in Contents
  BY <1>2, RenameAssumption DEF Contents
<1>3. ASSUME NEW b PROVE ~ Marks(<<>>, b)
  BY DEF Marks
<1>4. ASSUME NEW b \in Applies, Marks(<<a, Torn>>, b) PROVE b = a
  BY <1>4, RenameAssumption DEF Marks
<1>5. ASSUME NEW c \in Contents, NEW b \in Applies, Marks(Append(c, a), b), b # a
      PROVE  Marks(c, b)
  <2>1. PICK k \in 1 .. Len(Append(c, a)) : Append(c, a)[k] = b
    BY <1>5 DEF Marks
  <2>2. k \in 1 .. Len(c) /\ c[k] = b
    BY <2>1, <1>5 DEF Contents
  <2> QED
    BY <2>2, <1>2 DEF Marks
<1>6. ASSUME NEW c \in Contents PROVE Marks(Append(c, a), a)
  <2>1. Len(c) + 1 \in 1 .. Len(Append(c, a)) /\ Append(c, a)[Len(c) + 1] = a
    BY DEF Contents
  <2> QED
    BY <1>2, <2>1 DEF Marks
<1> QED
  BY <1>1, <1>2, <1>3, <1>4, <1>5, <1>6

\* Torn contents show no apply.
LEMMA TornFacts ==
  <<Torn>> \in Contents /\ <<Torn>> # Nothing /\ \A b \in Applies : ~ Marks(<<Torn>>, b)
<1>1. <<Torn>> \in Contents
  BY DEF Contents
<1>2. <<Torn>> # Nothing
  BY <1>1, RenameAssumption
<1>3. ASSUME NEW b \in Applies PROVE ~ Marks(<<Torn>>, b)
  BY RenameAssumption DEF Marks
<1> QED
  BY <1>1, <1>2, <1>3

-----------------------------------------------------------------------------
(* What a step of a process may do.                                         *)

Others(p) ==
  /\ \A q \in Processes \ {p} :
       pc'[q] = pc[q] /\ session'[q] = session[q] /\ todo'[q] = todo[q]
  /\ \A b \in Applies \ {p} :
       scope'[b] = scope[b] /\ affected'[b] = affected[b] /\ before'[b] = before[b]

SavesFile(p, f) ==
  /\ p \in Applies /\ pc[p] = "saving" /\ f \in todo[p] /\ pc'[p] = "saving"
  /\ content' = content
  /\ affected'[p] = affected[p] \cup {f} /\ before'[p][f] = content[f]

\* The session and the files of the edit are fixed when a command begins, and
\* what is saved once editing begins.
Course(p) ==
  /\ pc[p] \notin {"done", "failed", "killed"} /\ pc'[p] # "idle"
  /\ session'[p] = session[p] \/ (pc[p] = "idle" /\ session'[p] \in Sessions)
  /\ p \in Applies =>
       /\ pc[p] # "idle" => scope'[p] = scope[p] /\ session'[p] = session[p]
       /\ affected[p] \subseteq affected'[p]
       /\ \A f \in affected[p] : before'[p][f] = before[p][f]
       /\ \A f \in affected'[p] \ affected[p] :
            SavesFile(p, f) /\ backup'[session[p]][SlotOf[f]] = content[f]
       /\ pc[p] \notin {"idle", "saving"} =>
            affected'[p] = affected[p] /\ pc'[p] # "saving"
  /\ p \in Rollbacks /\ session'[p] # session[p] => manifest[session'[p]] # Nothing

\* What a command that restores files has treated, and what it begins with.
Treats(p) ==
  /\ pc[p] = "restoring" /\ pc'[p] = "cleaning" => todo[p] = {}
  /\ pc[p] = "restoring" /\ pc'[p] = "failed" =>
       \A f \in Files \ todo[p] : content'[f] = content[f]
  /\ \A f \in todo[p] \ todo'[p] :
       pc[p] = "restoring" /\ pc'[p] \in {"restoring", "cleaning"} =>
       content'[f] = IF backup[session[p]][SlotOf[f]] # Nothing
                       THEN backup[session[p]][SlotOf[f]] ELSE content[f]
  /\ pc'[p] \in {"restoring", "cleaning"} =>
       \/ pc[p] \in {"restoring", "cleaning"} /\ session'[p] = session[p]
       \/ p \in Applies /\ pc[p] = "editing" /\ todo'[p] = affected[p]
       \/ /\ p \in Rollbacks /\ session'[p] \in Sessions
          /\ manifest[session'[p]] # Nothing /\ todo'[p] = manifest[session'[p]]

\* An apply edits every file before it is done.
EditsAll(p) ==
  p \in Applies =>
    /\ pc'[p] = "editing" => pc[p] = "editing" \/ todo'[p] = scope'[p]
    /\ pc'[p] = "done" => pc[p] = "editing" /\ todo[p] = {}
    /\ pc'[p] = "editing" /\ pc[p] = "editing" =>
         \A f \in todo[p] \ todo'[p] : Marks(content'[f], p) \/ content'[f] = Nothing

\* A file is written by its edit or from its copy, and whoever saved it before
\* in another session will find it mixed.
EditsFile(p, f) ==
  /\ p \in Applies /\ pc[p] = "editing" /\ f \in todo[p] /\ content[f] # Nothing
  /\ \A b \in Applies : Marks(content'[f], b) => b = p \/ Marks(content[f], b)

RestoresFile(p, f) ==
  /\ pc[p] = "restoring" /\ f \in todo[p]
  /\ content'[f] = backup[session[p]][SlotOf[f]] /\ content'[f] # Nothing

TearsFile(p, f) ==
  /\ pc[p] = "restoring" /\ pc'[p] = "failed" /\ f \in todo[p]
  /\ backup[session[p]][SlotOf[f]] # Nothing
  /\ \A b \in Applies : ~ Marks(content'[f], b)
  /\ Restorers(p, f) \X {f} \subseteq mixed'

Writes(p) ==
  /\ mixed \subseteq mixed'
  /\ \A f \in Files : content'[f] = Nothing <=> content[f] = Nothing
  /\ \A f \in Files : content'[f] # content[f] =>
       /\ EditsFile(p, f) \/ RestoresFile(p, f) \/ TearsFile(p, f)
       /\ backup' = backup
       /\ \A b \in Applies \ {p} :
            f \in affected[b] /\ session[b] # session[p] => <<b, f>> \in mixed'

Copies(p) ==
  \A s \in Sessions, k \in Slots : backup'[s][k] # backup[s][k] =>
    /\ s = session[p] /\ content' = content
    /\ \/ \E f \in Files : SavesFile(p, f) /\ k = SlotOf[f] /\ backup'[s][k] = content[f]
       \/ p \in Rollbacks /\ pc[p] = "cleaning" /\ backup'[s][k] = Nothing

Lists(p) ==
  \A s \in Sessions : manifest'[s] # manifest[s] =>
    /\ s = session[p]
    /\ \/ p \in Applies /\ pc'[p] = "done" /\ manifest'[s] = affected'[p]
       \/ p \in Rollbacks /\ manifest'[s] = Nothing

Moves(p) ==
  Others(p) /\ Course(p) /\ Treats(p) /\ EditsAll(p) /\ Writes(p) /\ Copies(p) /\ Lists(p)

\* What a lookup in a typed variable returns.
LEMMA ManifestType ==
  ASSUME TypeOK, NEW s \in Sessions, manifest[s] # Nothing
  PROVE  manifest[s] \in SUBSET Files
BY DEF TypeOK

LEMMA ContentType ==
  ASSUME TypeOK, NEW f \in Files
  PROVE  content[f] \in Contents \cup {Nothing}
BY DEF TypeOK

\* A step of any action is a move of one process.
LEMMA StepMoves ==
  ASSUME TypeOK, Phases, Next
  PROVE  \E p \in Processes : Moves(p)
<1> USE DEF Processes, TypeOK, Phases, Phase, ApplyPhase, RollbackPhase,
            Moves, Others, Course, Treats, EditsAll, Writes, Copies, Lists, EditsFile,
            RestoresFile, TearsFile, SavesFile, Turn, Picked, Finish, Write, Tear,
            Savers, Restorers
<1>1. ASSUME NEW a \in Applies, NEW s \in Sessions, NEW e \in Edits, ApplyBegins(a, s, e)
      PROVE  Moves(a)
  BY <1>1, RenameAssumption DEF ApplyBegins
<1>2. ASSUME NEW a \in Applies, NEW f \in Files, Save(a, f)
      PROVE  Moves(a)
  <2>1. session[a] \in Sessions /\ SlotOf[f] \in Slots
    BY <1>2, RenameAssumption DEF Save
  <2>2. SavesFile(a, f) /\ backup'[session[a]][SlotOf[f]] = content[f]
    BY <1>2, <2>1 DEF Save
  <2>3. \A s \in Sessions, k \in Slots :
          backup'[s][k] # backup[s][k] => s = session[a] /\ k = SlotOf[f]
    BY <1>2, <2>1 DEF Save
  <2> HIDE DEF SavesFile, EditsFile, RestoresFile, TearsFile
  <2>4. Copies(a)
    BY <1>2, <2>2, <2>3 DEF Save
  <2>5. Course(a)
    BY <1>2, <2>2 DEF Save
  <2>6. Others(a) /\ Treats(a) /\ EditsAll(a) /\ Writes(a) /\ Lists(a)
    BY <1>2 DEF Save
  <2> HIDE DEF Others, Course, Treats, EditsAll, Writes, Copies, Lists
  <2> QED
    BY <2>4, <2>5, <2>6
<1>3. ASSUME NEW a \in Applies, NEW f \in Files, SaveFails(a, f)
      PROVE  Moves(a)
  BY <1>3 DEF SaveFails
<1>4. ASSUME NEW a \in Applies, NEW f \in Files, EditFile(a, f)
      PROVE  Moves(a)
  <2>1. content[f] \in Contents /\ content'[f] = Append(content[f], a)
        /\ \A g \in Files \ {f} : content'[g] = content[g]
    BY <1>4, ContentType DEF EditFile
  <2>7. content[f] # Nothing /\ content'[f] # Nothing
    <3>1. Append(content[f], a) \in Contents
      BY <2>1, ContentFacts
    <3>2. Append(content[f], a) # Nothing
      BY <3>1, RenameAssumption
    <3> QED
      BY <1>4, <2>1, <3>2 DEF EditFile
  <2>2. \A b \in Applies : Marks(Append(content[f], a), b) => b = a \/ Marks(content[f], b)
    BY <2>1, ContentFacts
  <2>3. EditsFile(a, f)
    BY <1>4, <2>1, <2>2 DEF EditFile
  <2>4. Writes(a)
    BY <1>4, <2>1, <2>3, <2>7 DEF EditFile
  <2>5. EditsAll(a)
    BY <1>4, <2>1, ContentFacts DEF EditFile
  <2>6. Others(a) /\ Course(a) /\ Treats(a) /\ Copies(a) /\ Lists(a)
    BY <1>4 DEF EditFile
  <2> HIDE DEF Others, Course, Treats, EditsAll, Writes, Copies, Lists
  <2> QED
    BY <2>4, <2>5, <2>6
<1>5. ASSUME NEW a \in Applies, NEW f \in Files, EditFails(a, f)
      PROVE  Moves(a)
  BY <1>5, ContentFacts DEF EditFails
<1>6. ASSUME NEW a \in Applies, Saved(a)
      PROVE  Moves(a)
  BY <1>6 DEF Saved
<1>7. ASSUME NEW a \in Applies, Applied(a)
      PROVE  Moves(a)
  BY <1>7 DEF Applied
<1>8. ASSUME NEW a \in Applies, ManifestFails(a)
      PROVE  Moves(a)
  BY <1>8 DEF ManifestFails
<1>9. ASSUME NEW a \in Applies, ApplyUndone(a)
      PROVE  Moves(a)
  BY <1>9 DEF ApplyUndone
<1>10. ASSUME NEW r \in Rollbacks, NEW s \in Sessions, RollbackBegins(r, s)
      PROVE  Moves(r)
  <2>1. manifest[s] \in SUBSET Files
    BY <1>10, ManifestType DEF RollbackBegins
  <2> QED
    BY <1>10, <2>1, RenameAssumption DEF RollbackBegins
<1>11. ASSUME NEW r \in Rollbacks, NEW s \in Sessions, RollbackRefused(r, s)
      PROVE  Moves(r)
  BY <1>11 DEF RollbackRefused
<1>12. ASSUME NEW r \in Rollbacks, Restored(r)
      PROVE  Moves(r)
  BY <1>12 DEF Restored
<1>13. ASSUME NEW r \in Rollbacks, RemoveManifest(r)
      PROVE  Moves(r)
  BY <1>13 DEF RemoveManifest
<1>14. ASSUME NEW r \in Rollbacks, RolledBack(r)
      PROVE  Moves(r)
  BY <1>14, RenameAssumption DEF RolledBack
<1>15. ASSUME NEW r \in Rollbacks, NEW k \in Slots, RemoveCopy(r, k)
      PROVE  Moves(r)
  BY <1>15 DEF RemoveCopy
<1>16. ASSUME NEW p \in Processes, Killed(p)
      PROVE  Moves(p)
  BY <1>16 DEF Killed
<1>17. ASSUME NEW p \in Processes, NEW f \in Files, RestoreFile(p, f)
      PROVE  Moves(p)
  BY <1>17 DEF RestoreFile
<1>18. ASSUME NEW a \in Applies, NEW f \in Files, SaveSkips(a, f)
      PROVE  Moves(a)
  BY <1>18 DEF SaveSkips
<1>19. ASSUME NEW a \in Applies, NEW f \in Files, EditSkips(a, f)
      PROVE  Moves(a)
  BY <1>19 DEF EditSkips
<1>20. ASSUME NEW p \in Processes, NEW f \in Files, RestoreFails(p, f)
      PROVE  Moves(p)
  <2>1. <<Torn>> # Nothing /\ \A b \in Applies : ~ Marks(<<Torn>>, b)
    BY TornFacts
  <2> QED
    BY <1>20, <2>1 DEF RestoreFails
<1> HIDE DEF TypeOK, Phases, Moves, Turn, Picked, Finish, Write, Tear
<1> QED
  BY <1>1, <1>2, <1>3, <1>4, <1>5, <1>6, <1>7, <1>8, <1>9, <1>10, <1>11, <1>12,
     <1>13, <1>14, <1>15, <1>16, <1>17, <1>18, <1>19, <1>20
     DEF Next, ApplyStep, RollbackStep

\* A write keeps the types of what it changes.
LEMMA WriteType ==
  ASSUME TypeOK, NEW p \in Processes, NEW f \in Files, NEW c \in Contents, Write(p, f, c)
  PROVE  /\ content' \in [Files -> Contents \cup {Nothing}]
         /\ mixed' \subseteq Processes \X Files
BY DEF TypeOK, Write, Savers, Processes

\* So does a copy back that is cut short.
LEMMA TearType ==
  ASSUME TypeOK, NEW p \in Processes, NEW f \in Files, Tear(p, f)
  PROVE  /\ content' \in [Files -> Contents \cup {Nothing}]
         /\ mixed' \subseteq Processes \X Files
BY TornFacts DEF TypeOK, Tear, Savers, Restorers, Processes

\* A step keeps the types ...
LEMMA TypeKept ==
  ASSUME TypeOK, Phases, Next
  PROVE  TypeOK'
<1> USE DEF TypeOK, Processes, Turn, Picked, Finish
<1>1. ASSUME NEW a \in Applies, NEW s \in Sessions, NEW e \in Edits, ApplyBegins(a, s, e)
      PROVE  TypeOK'
  <2>1. e \in SUBSET Files
    BY RenameAssumption
  <2> QED
    BY <1>1, <2>1 DEF ApplyBegins, Phases, Phase, ApplyPhase
<1>2. ASSUME NEW a \in Applies, NEW f \in Files, Save(a, f)
      PROVE  TypeOK'
  <2>1. content[f] \in Contents \cup {Nothing} /\ SlotOf[f] \in Slots /\ session[a] \in Sessions
        /\ f \in scope[a]
    BY <1>2, RenameAssumption DEF Save, Phases, Phase, ApplyPhase
  <2>2. /\ backup' \in [Sessions -> [Slots -> Contents \cup {Nothing}]]
        /\ before' \in [Applies -> [Files -> Contents \cup {Nothing}]]
    BY <1>2, <2>1 DEF Save
  <2>3. /\ affected' \in [Applies -> SUBSET Files]
        /\ \A b \in Applies : affected'[b] \subseteq scope'[b]
    BY <1>2, <2>1 DEF Save
  <2> QED
    BY <1>2, <2>2, <2>3 DEF Save
<1>3. ASSUME NEW a \in Applies, NEW f \in Files, SaveFails(a, f)
      PROVE  TypeOK'
  BY <1>3 DEF SaveFails
<1>4. ASSUME NEW a \in Applies, NEW f \in Files, EditFile(a, f)
      PROVE  TypeOK'
  <2>1. Append(content[f], a) \in Contents
    BY <1>4, ContentType, ContentFacts DEF EditFile
  <2>2. content' \in [Files -> Contents \cup {Nothing}] /\ mixed' \subseteq Processes \X Files
    BY <1>4, <2>1, WriteType DEF EditFile
  <2> QED
    BY <1>4, <2>2 DEF EditFile
<1>5. ASSUME NEW a \in Applies, NEW f \in Files, EditFails(a, f)
      PROVE  TypeOK'
  <2>1. <<a, Torn>> \in Contents
    BY ContentFacts
  <2>2. content' \in [Files -> Contents \cup {Nothing}] /\ mixed' \subseteq Processes \X Files
    BY <1>5, <2>1, WriteType DEF EditFails
  <2> QED
    BY <1>5, <2>2 DEF EditFails
<1>6. ASSUME NEW a \in Applies, Saved(a)
      PROVE  TypeOK'
  BY <1>6 DEF Saved
<1>7. ASSUME NEW a \in Applies, Applied(a)
      PROVE  TypeOK'
  BY <1>7 DEF Applied
<1>8. ASSUME NEW a \in Applies, ManifestFails(a)
      PROVE  TypeOK'
  BY <1>8 DEF ManifestFails
<1>9. ASSUME NEW a \in Applies, ApplyUndone(a)
      PROVE  TypeOK'
  BY <1>9 DEF ApplyUndone
<1>10. ASSUME NEW r \in Rollbacks, NEW s \in Sessions, RollbackBegins(r, s)
      PROVE  TypeOK'
  BY <1>10, ManifestType DEF RollbackBegins
<1>11. ASSUME NEW r \in Rollbacks, NEW s \in Sessions, RollbackRefused(r, s)
      PROVE  TypeOK'
  BY <1>11 DEF RollbackRefused, Phases, Phase
<1>12. ASSUME NEW r \in Rollbacks, Restored(r)
      PROVE  TypeOK'
  BY <1>12 DEF Restored
<1>13. ASSUME NEW r \in Rollbacks, RemoveManifest(r)
      PROVE  TypeOK'
  BY <1>13 DEF RemoveManifest
<1>14. ASSUME NEW r \in Rollbacks, RolledBack(r)
      PROVE  TypeOK'
  BY <1>14 DEF RolledBack, Phases, Phase
<1>15. ASSUME NEW r \in Rollbacks, NEW k \in Slots, RemoveCopy(r, k)
      PROVE  TypeOK'
  BY <1>15 DEF RemoveCopy
<1>16. ASSUME NEW p \in Processes, Killed(p)
      PROVE  TypeOK'
  BY <1>16 DEF Killed
<1>17. ASSUME NEW p \in Processes, NEW f \in Files, RestoreFile(p, f)
      PROVE  TypeOK'
  <2>1. backup[session[p]][SlotOf[f]] \in Contents \cup {Nothing}
    BY <1>17, RenameAssumption DEF RestoreFile, Phases, Phase
  <2>2. content' \in [Files -> Contents \cup {Nothing}] /\ mixed' \subseteq Processes \X Files
    BY <1>17, <2>1, WriteType DEF RestoreFile
  <2> QED
    BY <1>17, <2>2 DEF RestoreFile
<1>18. ASSUME NEW a \in Applies, NEW f \in Files, SaveSkips(a, f)
      PROVE  TypeOK'
  BY <1>18 DEF SaveSkips
<1>19. ASSUME NEW a \in Applies, NEW f \in Files, EditSkips(a, f)
      PROVE  TypeOK'
  BY <1>19 DEF EditSkips
<1>20. ASSUME NEW p \in Processes, NEW f \in Files, RestoreFails(p, f)
      PROVE  TypeOK'
  <2>1. content' \in [Files -> Contents \cup {Nothing}] /\ mixed' \subseteq Processes \X Files
    BY <1>20, TearType DEF RestoreFails
  <2> QED
    BY <1>20, <2>1 DEF RestoreFails
<1> HIDE DEF TypeOK, Processes, Turn, Picked, Finish
<1> QED
  BY <1>1, <1>2, <1>3, <1>4, <1>5, <1>6, <1>7, <1>8, <1>9, <1>10, <1>11, <1>12,
     <1>13, <1>14, <1>15, <1>16, <1>17, <1>18, <1>19, <1>20
     DEF Next, ApplyStep, RollbackStep, Processes

\* ... and the phases.
LEMMA PhasesKept ==
  ASSUME TypeOK, Phases, Traced, Next
  PROVE  Phases'
<1> USE DEF TypeOK, Phases, Phase, ApplyPhase, RollbackPhase, Processes, Turn, Picked, Finish
<1>0. \A f \in Files : content'[f] = Nothing <=> content[f] = Nothing
  BY StepMoves DEF Moves, Writes
<1>1. ASSUME NEW a \in Applies, NEW s \in Sessions, NEW e \in Edits, ApplyBegins(a, s, e)
      PROVE  Phases'
  BY <1>1, RenameAssumption DEF ApplyBegins
<1>2. ASSUME NEW a \in Applies, NEW f \in Files, Save(a, f)
      PROVE  Phases'
  <2>1. content[f] # Nothing /\ ~ Marks(content[f], a)
    BY <1>2 DEF Save, Traced, Edited
  <2>2. /\ todo'[a] \subseteq scope'[a] \ affected'[a]
        /\ \A g \in affected'[a] : before'[a][g] # Nothing /\ ~ Marks(before'[a][g], a)
    BY <1>2, <2>1 DEF Save
  <2>3. ApplyPhase(a)'
    BY <1>2, <2>2 DEF Save
  <2>4. \A b \in Applies \ {a} : ApplyPhase(b)'
    BY <1>2 DEF Save
  <2> QED
    BY <1>2, <2>3, <2>4 DEF Save
<1>3. ASSUME NEW a \in Applies, NEW f \in Files, SaveFails(a, f)
      PROVE  Phases'
  BY <1>3 DEF SaveFails
<1>4. ASSUME NEW a \in Applies, NEW f \in Files, EditFile(a, f)
      PROVE  Phases'
  BY <1>0, <1>4 DEF EditFile
<1>5. ASSUME NEW a \in Applies, NEW f \in Files, EditFails(a, f)
      PROVE  Phases'
  BY <1>0, <1>5 DEF EditFails
<1>6. ASSUME NEW a \in Applies, Saved(a)
      PROVE  Phases'
  <2>1. \A f \in scope[a] \ affected[a] : content[f] = Nothing
    BY <1>6 DEF Saved
  <2> QED
    BY <1>6, <2>1, RenameAssumption DEF Saved
<1>7. ASSUME NEW a \in Applies, Applied(a)
      PROVE  Phases'
  BY <1>7 DEF Applied
<1>8. ASSUME NEW a \in Applies, ManifestFails(a)
      PROVE  Phases'
  BY <1>8 DEF ManifestFails
<1>9. ASSUME NEW a \in Applies, ApplyUndone(a)
      PROVE  Phases'
  BY <1>9 DEF ApplyUndone
<1>10. ASSUME NEW r \in Rollbacks, NEW s \in Sessions, RollbackBegins(r, s)
      PROVE  Phases'
  BY <1>10, ManifestType, RenameAssumption DEF RollbackBegins
<1>11. ASSUME NEW r \in Rollbacks, NEW s \in Sessions, RollbackRefused(r, s)
      PROVE  Phases'
  BY <1>11, RenameAssumption DEF RollbackRefused
<1>12. ASSUME NEW r \in Rollbacks, Restored(r)
      PROVE  Phases'
  BY <1>12, RenameAssumption DEF Restored
<1>13. ASSUME NEW r \in Rollbacks, RemoveManifest(r)
      PROVE  Phases'
  BY <1>13 DEF RemoveManifest
<1>14. ASSUME NEW r \in Rollbacks, RolledBack(r)
      PROVE  Phases'
  BY <1>14 DEF RolledBack
<1>15. ASSUME NEW r \in Rollbacks, NEW k \in Slots, RemoveCopy(r, k)
      PROVE  Phases'
  BY <1>15 DEF RemoveCopy
<1>16. ASSUME NEW p \in Processes, Killed(p)
      PROVE  Phases'
  BY <1>16 DEF Killed
<1>17. ASSUME NEW p \in Processes, NEW f \in Files, RestoreFile(p, f)
      PROVE  Phases'
  BY <1>0, <1>17 DEF RestoreFile
<1>18. ASSUME NEW a \in Applies, NEW f \in Files, SaveSkips(a, f)
      PROVE  Phases'
  BY <1>18 DEF SaveSkips
<1>19. ASSUME NEW a \in Applies, NEW f \in Files, EditSkips(a, f)
      PROVE  Phases'
  BY <1>19 DEF EditSkips
<1>20. ASSUME NEW p \in Processes, NEW f \in Files, RestoreFails(p, f)
      PROVE  Phases'
  BY <1>0, <1>20 DEF RestoreFails
<1> HIDE DEF TypeOK, Phases, Processes, Turn, Picked, Finish
<1> QED
  BY <1>1, <1>2, <1>3, <1>4, <1>5, <1>6, <1>7, <1>8, <1>9, <1>10, <1>11, <1>12,
     <1>13, <1>14, <1>15, <1>16, <1>17, <1>18, <1>19, <1>20
     DEF Next, ApplyStep, RollbackStep, Processes


-----------------------------------------------------------------------------
(* What a step keeps, whichever process takes it.                           *)

\* Copies once complete stay so.
LEMMA EditedStays ==
  ASSUME NEW p \in Processes, Moves(p), NEW a \in Applies, NEW k, Edited(a, k)
  PROVE  Edited(a, k)'
BY DEF Moves, Others, Course, Edited, Processes

\* Contents move between a file and a copy under its own path only.
LEMMA TracedKept ==
  ASSUME TypeOK, Phases, Traced, NEW p \in Processes, Moves(p)
  PROVE  Traced'
<1>1. ASSUME NEW f \in Files, NEW a \in Applies, Marks(content'[f], a)
      PROVE  Edited(a, SlotOf[f])
  <2>1. CASE content'[f] = content[f]
    BY <1>1, <2>1 DEF Traced
  <2>2. CASE EditsFile(p, f)
    <3>1. a = p => f \in affected[p] /\ pc[p] = "editing"
      BY <2>2 DEF EditsFile, Phases, ApplyPhase
    <3>2. a # p => Marks(content[f], a)
      BY <1>1, <2>2 DEF EditsFile
    <3> QED
      BY <3>1, <3>2 DEF Edited, Traced
  <2>3. CASE RestoresFile(p, f)
    <3>1. session[p] \in Sessions /\ SlotOf[f] \in Slots
      BY <2>3, RenameAssumption DEF RestoresFile, Phases, Phase
    <3> QED
      BY <1>1, <2>3, <3>1 DEF RestoresFile, Traced
  <2>4. ~ TearsFile(p, f)
    BY <1>1 DEF TearsFile
  <2> QED
    BY <2>1, <2>2, <2>3, <2>4 DEF Moves, Writes
<1>2. ASSUME NEW s \in Sessions, NEW k \in Slots, NEW a \in Applies, Marks(backup'[s][k], a)
      PROVE  Edited(a, k)
  <2>1. CASE backup'[s][k] = backup[s][k]
    BY <1>2, <2>1 DEF Traced
  <2>2. ASSUME NEW f \in Files, k = SlotOf[f], backup'[s][k] = content[f]
        PROVE  Edited(a, k)
    BY <1>2, <2>2 DEF Traced
  <2>3. backup'[s][k] # Nothing
    BY <1>2 DEF Marks
  <2> QED
    BY <2>1, <2>2, <2>3 DEF Moves, Copies
<1>3. \A f \in Files, a \in Applies : Marks(content[f], a)' => Edited(a, SlotOf[f])'
  BY <1>1, EditedStays DEF Marks
<1>4. \A s \in Sessions, k \in Slots, a \in Applies :
        Marks(backup[s][k], a)' => Edited(a, k)'
  BY <1>2, EditedStays DEF Marks
<1> QED
  BY <1>3, <1>4 DEF Traced

\* A session has been begun for good.
LEMMA BegunStays ==
  ASSUME TypeOK, Phases, NEW p \in Processes, Moves(p), NEW s, s # Nothing, Begun(s)
  PROVE  Begun(s)'
BY DEF Moves, Others, Course, Begun, Phases, Phase, Processes

\* A manifest or a rollback needs an apply before it.
LEMMA OriginKept ==
  ASSUME TypeOK, Phases, Origin, NEW p \in Processes, Moves(p)
  PROVE  Origin'
<1>1. ASSUME NEW s \in Sessions, manifest'[s] # Nothing PROVE Begun(s)'
  <2>1. CASE manifest'[s] = manifest[s]
    BY <1>1, <2>1, BegunStays, RenameAssumption DEF Origin
  <2>2. CASE manifest'[s] # manifest[s]
    <3>1. s = session[p] /\ p \in Applies
      BY <1>1, <2>2 DEF Moves, Lists
    <3> QED
      BY <3>1, BegunStays, RenameAssumption DEF Begun
  <2> QED
    BY <2>1, <2>2
<1>2. ASSUME NEW r \in Rollbacks, session'[r] # Nothing PROVE Begun(session[r])'
  <2>1. CASE session'[r] = session[r]
    BY <1>2, <2>1, BegunStays DEF Origin, Begun
  <2>2. CASE session'[r] # session[r]
    <3>1. r = p /\ session'[r] \in Sessions /\ manifest[session'[r]] # Nothing
      BY <2>2 DEF Moves, Others, Course, Processes
    <3>2. Begun(session'[r])
      BY <3>1 DEF Origin
    <3> QED
      BY <1>2, <3>1, <3>2, BegunStays DEF Begun
  <2> QED
    BY <2>1, <2>2
<1> QED
  BY <1>1, <1>2 DEF Origin

\* A session is shared, a file mixed or a slot used twice once and for all.
LEMMA KeptBefore ==
  ASSUME TypeOK, Phases, NEW p \in Processes, Moves(p), NEW a \in Applies,
         pc[a] # "idle"
  PROVE  /\ session'[a] = session[a] /\ scope'[a] = scope[a]
         /\ OwnSession(a)' => OwnSession(a)
         /\ \A f \in Files : Kept(a, f)' => Kept(a, f)
<1>1. session'[a] = session[a] /\ scope'[a] = scope[a]
  BY DEF Moves, Others, Course, Processes
<1>2. ASSUME NEW b \in Applies, session[b] # Nothing PROVE session'[b] = session[b]
  BY <1>2 DEF Moves, Others, Course, Processes, Phases, Phase
<1>3. OwnSession(a)' => OwnSession(a)
  BY <1>1, <1>2 DEF OwnSession
<1>4. ASSUME NEW r \in Rollbacks, session[r] = session[a] PROVE session'[r] = session'[a]
  <2>1. session[a] # Nothing
    BY DEF Phases, ApplyPhase
  <2>2. r \in Processes /\ pc[r] # "idle"
    BY <1>4, <2>1 DEF Processes, Phases, Phase
  <2> QED
    BY <1>1, <1>4, <2>1, <2>2 DEF Moves, Others, Course
<1> QED
  BY <1>1, <1>3, <1>4 DEF Kept, Moves, Writes

\* A file that is as it was stays so, for whoever writes it takes it from its
\* copy or leaves it mixed.
LEMMA OriginalStays ==
  ASSUME IInv, NEW p \in Processes, Moves(p), NEW a \in Applies, NEW f \in affected[a],
         f \in Files, pc[a] \in {"done", "restoring"}, Kept(a, f)', Original(a, f),
         ~ (TearsFile(p, f) /\ session[p] = session[a])
  PROVE  Original(a, f)'
<1>1. Kept(a, f) /\ before'[a][f] = before[a][f] /\ before[a][f] # Nothing
      /\ session'[a] = session[a] /\ session[a] # Nothing
  <2>1. Kept(a, f) /\ session'[a] = session[a]
    BY KeptBefore DEF IInv
  <2>2. before'[a][f] = before[a][f]
    BY DEF Moves, Others, Course
  <2> QED
    BY <2>1, <2>2 DEF IInv, Phases, ApplyPhase
<1>2. CASE content'[f] = content[f]
  BY <1>1, <1>2 DEF Original
<1>3. CASE content'[f] # content[f]
  <2>1. /\ EditsFile(p, f) \/ RestoresFile(p, f) \/ TearsFile(p, f)
        /\ a # p /\ session[a] # session[p] => <<a, f>> \in mixed'
    BY <1>3 DEF Moves, Writes
  <2>2. session[a] = session[p]
    BY <1>1, <2>1 DEF Kept
  <2>3. CASE EditsFile(p, f)
    BY <1>1, <2>2, <2>3 DEF EditsFile, Kept, OwnSession
  <2>4. CASE RestoresFile(p, f)
    BY <1>1, <2>2, <2>4 DEF RestoresFile, IInv, Copied, Copy, Original
  <2> QED
    BY <2>1, <2>2, <2>3, <2>4
<1> QED
  BY <1>2, <1>3

\* Whoever acts in the session of an apply that kept it to itself is the apply
\* or a rollback.
LEMMA SameSession ==
  ASSUME NEW a \in Applies, OwnSession(a), NEW p \in Processes,
         session[p] = session[a], session[a] # Nothing
  PROVE  p = a \/ p \in Rollbacks
BY DEF OwnSession, Processes

\* Only the rollback of its session removes the copy of a file, after restoring it.
LEMMA CopiedKept ==
  ASSUME IInv, NEW p \in Processes, Moves(p), NEW a \in Applies, NEW f \in Files
  PROVE  Copied(a, f)'
<1> SUFFICES ASSUME Kept(a, f)', f \in affected'[a]
             PROVE  \/ Copy(a, f)' = before'[a][f]
                    \/ Copy(a, f)' = Nothing /\ pc'[a] = "done" /\ Original(a, f)'
  BY DEF Copied
<1>1. CASE f \notin affected[a]
  <2>1. a = p /\ SavesFile(p, f) /\ backup'[session[p]][SlotOf[f]] = content[f]
    BY <1>1 DEF Moves, Others, Course
  <2>2. session'[a] = session[a]
    BY <2>1, KeptBefore DEF SavesFile, IInv
  <2> QED
    BY <2>1, <2>2 DEF SavesFile, Copy
<1>2. CASE f \in affected[a]
  <2>1. /\ Kept(a, f) /\ OwnSession(a) /\ session'[a] = session[a] /\ session[a] \in Sessions
        /\ before'[a][f] = before[a][f] /\ SlotOf[f] \in Slots
    <3>1. pc[a] # "idle" /\ session[a] # Nothing
      BY <1>2 DEF IInv, Phases, ApplyPhase
    <3>2. session[a] \in Sessions
      BY <3>1 DEF IInv, TypeOK, Processes
    <3>3. before'[a][f] = before[a][f]
      BY <1>2 DEF Moves, Others, Course
    <3> QED
      BY <3>1, <3>2, <3>3, KeptBefore, RenameAssumption DEF IInv, Kept
  <2>2. \/ Copy(a, f) = before[a][f]
        \/ Copy(a, f) = Nothing /\ pc[a] = "done" /\ Original(a, f)
    BY <1>2, <2>1 DEF IInv, Copied
  <2>3. Copy(a, f) = Nothing /\ pc[a] = "done" /\ Original(a, f)
          => pc'[a] = "done" /\ Original(a, f)'
    BY <1>2, OriginalStays DEF TearsFile, Copy, Moves, Others, Course, Processes
  <2>4. CASE Copy(a, f)' = Copy(a, f)
    BY <2>1, <2>2, <2>3, <2>4
  <2>5. CASE Copy(a, f)' # Copy(a, f)
    <3>1. /\ session[p] = session[a] /\ content' = content
          /\ \/ \E g \in Files : SavesFile(p, g) /\ SlotOf[g] = SlotOf[f]
             \/ p \in Rollbacks /\ pc[p] = "cleaning" /\ Copy(a, f)' = Nothing
      BY <2>1, <2>5 DEF Copy, Moves, Copies
    <3>2. ASSUME NEW g \in Files, SavesFile(p, g), SlotOf[g] = SlotOf[f]
          PROVE  FALSE
      <4>1. p = a
        BY <2>1, <3>1, <3>2, SameSession, RenameAssumption DEF SavesFile
      <4>2. g \in scope[a] \ affected[a]
        BY <3>2, <4>1 DEF SavesFile, IInv, Phases, ApplyPhase
      <4> QED
        BY <1>2, <2>1, <3>2, <4>2 DEF Kept
    <3>3. CASE p \in Rollbacks /\ pc[p] = "cleaning" /\ Copy(a, f)' = Nothing
      <4>1. RolledBackTo(p, a) /\ todo[p] = {}
        BY <3>3 DEF IInv, Phases, Phase
      <4>2. pc[a] = "done" /\ Original(a, f)
        BY <1>2, <2>1, <3>1, <3>3, <4>1 DEF RolledBackTo
      <4>3. content' = content /\ before'[a][f] = before[a][f] /\ pc'[a] = "done"
        BY <2>1, <3>1, <3>3, <4>2, RenameAssumption DEF Moves, Others, Course, Processes
      <4> QED
        BY <3>3, <4>2, <4>3 DEF Original
    <3> QED
      BY <3>1, <3>2, <3>3
  <2> QED
    BY <2>4, <2>5
<1> QED
  BY <1>1, <1>2

\* A manifest is written last, by the only apply of its session.
LEMMA ListedKept ==
  ASSUME IInv, NEW p \in Processes, Moves(p), NEW a \in Applies
  PROVE  Listed(a)'
<1> SUFFICES ASSUME OwnSession(a)', session'[a] \in Sessions, manifest'[session'[a]] # Nothing
             PROVE  pc'[a] = "done" /\ manifest'[session'[a]] = affected'[a]
  BY DEF Listed
<1>1. CASE pc[a] = "idle"
  <2>1. session[a] = Nothing /\ p = a
    BY <1>1, RenameAssumption DEF IInv, Phases, Phase, Moves, Others, Processes
  <2>2. Begun(session'[a])
    BY <2>1, RenameAssumption DEF Moves, Lists, IInv, Origin
  <2> QED
    BY <2>1, <2>2, RenameAssumption DEF Begun, OwnSession, Moves, Others, Processes
<1>2. CASE pc[a] # "idle"
  <2>1. session'[a] = session[a] /\ OwnSession(a)
    BY <1>2, KeptBefore DEF IInv
  <2>2. CASE manifest'[session[a]] = manifest[session[a]]
    <3>1. pc[a] = "done" /\ manifest[session[a]] = affected[a]
      BY <2>1, <2>2 DEF IInv, Listed
    <3>2. a # p
      BY <3>1 DEF Moves, Course
    <3> QED
      BY <2>1, <2>2, <3>1, <3>2 DEF Moves, Others, Processes
  <2>3. CASE manifest'[session[a]] # manifest[session[a]]
    <3>1. /\ session[p] = session[a] /\ p \in Applies
          /\ pc'[p] = "done" /\ manifest'[session[a]] = affected'[p]
      BY <2>1, <2>3 DEF Moves, Lists
    <3>2. p = a
      BY <2>1, <3>1, SameSession, RenameAssumption
    <3> QED
      BY <2>1, <3>1, <3>2
  <2> QED
    BY <2>2, <2>3
<1> QED
  BY <1>1, <1>2

\* An apply that restores its files does so from their copies.
LEMMA UndoneKept ==
  ASSUME IInv, NEW p \in Processes, Moves(p), NEW a \in Applies, NEW f \in Files
  PROVE  Undone(a, f)'
<1> SUFFICES ASSUME pc'[a] = "restoring", Kept(a, f)', f \in affected'[a] \ todo'[a]
             PROVE  Original(a, f)'
  BY DEF Undone
<1>1. CASE p # a
  <2>1. pc[a] = "restoring" /\ f \in affected[a] \ todo[a]
    BY <1>1 DEF Moves, Others, Processes
  <2>2. Kept(a, f) /\ OwnSession(a) /\ session[a] # Nothing
    BY <2>1, KeptBefore DEF IInv, Kept, Phases, ApplyPhase
  <2>3. ~ (TearsFile(p, f) /\ session[p] = session[a])
    BY <1>1, <2>1, <2>2, SameSession DEF TearsFile, IInv, RolledBackTo
  <2> QED
    BY <2>1, <2>2, <2>3, OriginalStays DEF IInv, Undone
<1>2. CASE p = a
  <2>1. /\ pc[a] = "restoring"
        /\ session'[a] = session[a] /\ affected'[a] = affected[a]
    BY <1>2, RenameAssumption DEF Moves, Treats, Course, IInv, Phases, ApplyPhase
  <2>2. Kept(a, f) /\ before'[a][f] = before[a][f] /\ before[a][f] # Nothing
    BY <1>2, <2>1, KeptBefore DEF IInv, Moves, Course, Phases, ApplyPhase
  <2>3. CASE f \in todo[a]
    <3>1. Copy(a, f) = before[a][f]
      BY <2>1, <2>2 DEF IInv, Copied
    <3>2. content'[f] = Copy(a, f)
      BY <1>2, <2>1, <2>2, <2>3, <3>1 DEF Moves, Treats, Copy
    <3> QED
      BY <2>2, <3>1, <3>2 DEF Original
  <2>4. CASE f \notin todo[a]
    BY <1>2, <2>1, <2>2, <2>4, OriginalStays DEF IInv, Undone, TearsFile
  <2> QED
    BY <2>3, <2>4
<1> QED
  BY <1>1, <1>2

\* What an apply edited is undone only by others, or by a rollback of its session.
LEMMA EditShownKept ==
  ASSUME IInv, NEW p \in Processes, Moves(p), NEW a \in Applies, NEW f \in Files
  PROVE  EditShown(a, f)'
<1> SUFFICES ASSUME pc'[a] \in {"editing", "done"}, f \in scope'[a] \ todo'[a]
             PROVE  Shows(f, a)' \/ content'[f] = Nothing \/ Excused(a, f)'
  BY DEF EditShown
<1>1. a \in Processes
  BY DEF Processes
<1>2. ASSUME Marks(content'[f], a) PROVE Shows(f, a)'
  BY <1>2 DEF Marks, Shows
<1>3. CASE p = a /\ f \in todo[a] /\ pc[a] = "editing"
  BY <1>2, <1>3 DEF Moves, EditsAll
<1>4. CASE ~ (p = a /\ f \in todo[a] /\ pc[a] = "editing")
  <2>1. pc[a] \in {"editing", "done"} /\ f \in scope[a] \ todo[a]
    <3>1. CASE p = a
      <4>1. pc[a] = "editing" /\ (todo[a] = {} \/ f \notin todo[a])
        BY <1>4, <3>1 DEF Moves, EditsAll
      <4> QED
        BY <1>1, <3>1, <4>1, KeptBefore DEF IInv
    <3>2. CASE p # a
      BY <1>1, <3>2 DEF Moves, Others
    <3> QED
      BY <3>1, <3>2
  <2>2. /\ pc[a] # "idle" /\ session[a] # Nothing
        /\ content[f] # Nothing => f \in affected[a]
    BY <2>1 DEF IInv, Phases, ApplyPhase
  <2>3. session'[a] = session[a] /\ (OwnSession(a)' => OwnSession(a))
    BY <2>2, KeptBefore DEF IInv
  <2>4. Excused(a, f) => Excused(a, f)'
    <3>1. ASSUME NEW r \in Rollbacks, session[r] = session[a] PROVE session'[r] = session[a]
      BY <2>2, <3>1 DEF Moves, Others, Course, IInv, Phases, Phase, Processes
    <3>2. mixed \subseteq mixed'
      BY DEF Moves, Writes
    <3> QED
      BY <2>3, <3>1, <3>2 DEF Excused
  <2>5. CASE Excused(a, f)
    BY <2>4, <2>5
  <2>7. CASE content[f] = Nothing
    BY <2>7 DEF Moves, Writes
  <2>6. CASE ~ Excused(a, f) /\ content[f] # Nothing
    <3>1. Shows(f, a)
      BY <2>1, <2>6 DEF IInv, EditShown
    <3>2. CASE content'[f] = content[f]
      BY <3>1, <3>2 DEF Shows
    <3>3. CASE content'[f] # content[f]
      <4>1. EditsFile(p, f) \/ RestoresFile(p, f) \/ TearsFile(p, f)
        BY <3>3 DEF Moves, Writes
      <4>2. p # a
        BY <2>1, <4>1, <1>4 DEF EditsFile, RestoresFile, TearsFile
      <4>3. session[a] # session[p] => <<a, f>> \in mixed'
        BY <2>1, <2>2, <2>6, <3>3, <4>2 DEF Moves, Writes
      <4>4. session[a] = session[p] => Excused(a, f)
        BY <2>2, <4>2 DEF Excused, OwnSession, Processes
      <4> QED
        BY <2>6, <4>3, <4>4 DEF Excused
    <3> QED
      BY <3>2, <3>3
  <2> QED
    BY <2>5, <2>6, <2>7
<1> QED
  BY <1>3, <1>4

\* So does a rollback; a file whose copy a killed rollback removed is restored already.
LEMMA RolledBackToKept ==
  ASSUME IInv, NEW p \in Processes, Moves(p), NEW r \in Rollbacks, NEW a \in Applies
  PROVE  RolledBackTo(r, a)'
<1> SUFFICES ASSUME pc'[r] \in {"restoring", "cleaning"}, session'[r] = session'[a],
                    OwnSession(a)'
             PROVE  /\ pc'[a] = "done"
                    /\ \A f \in affected'[a] \ todo'[r] : Kept(a, f)' => Original(a, f)'
  BY DEF RolledBackTo
<1>1. r # a /\ r \in Processes /\ a \in Processes
  BY RenameAssumption DEF Processes
<1>2. CASE pc[a] = "idle"
  <2>1. session[a] = Nothing
    BY <1>2 DEF IInv, Phases, Phase, Processes
  <2>2. session'[r] # Nothing
    BY <1>1, RenameAssumption DEF Moves, Others, Course, Treats, IInv, Phases, Phase
  <2>3. session'[a] # session[a] /\ p = a /\ session'[r] = session[r]
    BY <1>1, <2>1, <2>2 DEF Moves, Others
  <2>4. Begun(session'[a])
    BY <2>2, <2>3 DEF IInv, Origin
  <2> QED
    BY <2>1, <2>2, <2>3, <2>4 DEF Begun, OwnSession, Moves, Others, Processes
<1>3. CASE pc[a] # "idle"
  <2>1. session'[a] = session[a] /\ OwnSession(a) /\ \A f \in Files : Kept(a, f)' => Kept(a, f)
    BY <1>3, KeptBefore DEF IInv
  <2>2. CASE pc[r] \in {"restoring", "cleaning"} /\ session'[r] = session[r]
    <3>1. /\ pc[a] = "done" /\ p # a
          /\ \A f \in affected[a] \ todo[r] : Kept(a, f) => Original(a, f)
      BY <2>1, <2>2 DEF IInv, RolledBackTo, Moves, Course
    <3>2. pc'[a] = "done" /\ affected'[a] = affected[a] /\ before'[a] = before[a]
      BY <1>1, <3>1 DEF Moves, Others
    <3>3. ASSUME NEW f \in affected[a] \ todo'[r], Kept(a, f)'
          PROVE  Original(a, f)'
      <4>1. f \in Files
        BY DEF IInv, TypeOK
      <4>2. CASE f \notin todo[r]
        <5>1. ASSUME TearsFile(p, f), session[p] = session[a] PROVE FALSE
          <6>1. p # r /\ p \in Rollbacks
            BY <1>3, <2>1, <2>2, <3>1, <5>1, SameSession
               DEF TearsFile, IInv, Phases, ApplyPhase
          <6>2. <<r, f>> \in mixed'
            BY <2>1, <2>2, <4>2, <5>1, <6>1 DEF TearsFile, Restorers
          <6> QED
            BY <3>3, <6>2 DEF Kept
        <5> QED
          BY <2>1, <3>1, <3>3, <4>1, <4>2, <5>1, OriginalStays
      <4>3. CASE f \in todo[r]
        <5>1. p = r /\ pc[r] = "restoring"
          BY <1>1, <2>2, <4>3, <3>3 DEF Moves, Others, IInv, Phases, Phase
        <5>2. Copied(a, f) /\ Kept(a, f) /\ before[a][f] # Nothing
          BY <2>1, <3>3, <4>1 DEF IInv, Phases, ApplyPhase
        <5>3. content'[f] = IF Copy(a, f) # Nothing THEN Copy(a, f) ELSE content[f]
          BY <2>1, <2>2, <3>3, <4>3, <5>1 DEF Moves, Treats, Copy
        <5> QED
          BY <3>2, <3>3, <5>2, <5>3 DEF Copied, Original
      <4> QED
        BY <4>2, <4>3
    <3> QED
      BY <3>2, <3>3
  <2>3. CASE ~ (pc[r] \in {"restoring", "cleaning"} /\ session'[r] = session[r])
    <3>1. /\ p = r /\ session'[r] \in Sessions /\ manifest[session'[r]] # Nothing
          /\ todo'[r] = manifest[session'[r]]
      BY <1>1, <2>3, RenameAssumption DEF Moves, Others, Treats
    <3>2. pc[a] = "done" /\ todo'[r] = affected[a]
      BY <2>1, <3>1 DEF IInv, Listed
    <3> QED
      BY <1>1, <3>1, <3>2 DEF Moves, Others
  <2> QED
    BY <2>2, <2>3
<1> QED
  BY <1>2, <1>3

-----------------------------------------------------------------------------
\* The invariant holds at first,
LEMMA Initially == Init => IInv
<1> SUFFICES ASSUME Init PROVE IInv
  OBVIOUS
<1>1. TypeOK
  <2>1. <<>> \in Contents
    BY DEF Contents
  <2> QED
    BY <2>1 DEF Init, TypeOK
<1>2. Phases
  BY RenameAssumption DEF Init, Phases, Phase, ApplyPhase, RollbackPhase, Processes
<1>3. Traced
  BY DEF Init, Traced, Marks
<1>4. Origin
  BY DEF Init, Origin, Processes
<1>5. ASSUME NEW a \in Applies PROVE Listed(a)
  BY DEF Init, Listed
<1>6. ASSUME NEW a \in Applies, NEW f \in Files
      PROVE  Copied(a, f) /\ Undone(a, f) /\ EditShown(a, f)
  BY DEF Init, Copied, Undone, EditShown, Processes
<1>7. ASSUME NEW a \in Applies, NEW r \in Rollbacks PROVE RolledBackTo(r, a)
  BY DEF Init, RolledBackTo, Processes
<1> QED
  BY <1>1, <1>2, <1>3, <1>4, <1>5, <1>6, <1>7 DEF IInv

\* is kept by every step,
LEMMA Stepwise == IInv /\ [Next]_vars => IInv'
<1>1. ASSUME IInv, Next PROVE IInv'
  <2>1. PICK p \in Processes : Moves(p)
    BY <1>1, StepMoves DEF IInv
  <2>2. TypeOK' /\ Phases' /\ Traced' /\ Origin'
    BY <1>1, <2>1, TypeKept, PhasesKept, TracedKept, OriginKept DEF IInv
  <2> QED
    BY <1>1, <2>1, <2>2, CopiedKept, ListedKept, UndoneKept, EditShownKept,
       RolledBackToKept DEF IInv
<1>2. ASSUME IInv, UNCHANGED vars PROVE IInv'
  <2>1. TypeOK' /\ Traced' /\ Origin'
    BY <1>2 DEF IInv, TypeOK, vars, Traced, Marks, Edited, Origin, Begun
  <2>2. Phases'
    BY <1>2 DEF IInv, vars, Phases, Phase, ApplyPhase, RollbackPhase, Marks
  <2>3. \A a \in Applies : Listed(a)'
    BY <1>2 DEF IInv, vars, Listed, OwnSession
  <2>4. \A a \in Applies, f \in Files : Copied(a, f)' /\ Undone(a, f)'
    BY <1>2 DEF IInv, vars, Copied, Undone, Kept, OwnSession, Copy, Original
  <2>6. \A a \in Applies, f \in Files : EditShown(a, f)'
    BY <1>2 DEF IInv, vars, EditShown, Shows, Excused, OwnSession
  <2>5. \A a \in Applies, r \in Rollbacks : RolledBackTo(r, a)'
    BY <1>2 DEF IInv, vars, RolledBackTo, Kept, OwnSession, Original
  <2> QED
    BY <2>1, <2>2, <2>3, <2>4, <2>5, <2>6 DEF IInv
<1> QED
  BY <1>1, <1>2

\* and so holds always.
LEMMA Always == Spec => []IInv
  BY Initially, Stepwise, PTL DEF Spec

-----------------------------------------------------------------------------
(* The theorems.                                                            *)

\* Every variable keeps its type, only files of the edit are saved, and a
\* command that has ended has no file left to treat.
THEOREM TypeCorrect == Spec => []TypeOK
<1>1. IInv => TypeOK
  BY DEF IInv
<1> QED
  BY <1>1, Always, PTL

\* As long as a file shows an edit of an apply, its original is in the backup,
\* whatever fails or is killed, unless the session, the copy's path or the file
\* is shared (backup_files, restore).
THEOREM OriginalsAreKept == Spec => []OriginalsKept
<1>1. ASSUME IInv, NEW a \in Applies, NEW f \in Files, Kept(a, f), Shows(f, a)
      PROVE  before[a][f] # Nothing /\ Copy(a, f) = before[a][f]
  <2>1. Edited(a, SlotOf[f])
    BY <1>1 DEF IInv, Traced, Marks, Shows
  <2>2. f \in affected[a]
    BY <1>1, <2>1 DEF Edited, Kept, IInv, TypeOK
  <2>3. before[a][f] # Nothing /\ ~ Marks(before[a][f], a)
    BY <1>1, <2>2 DEF IInv, Phases, ApplyPhase
  <2>4. ~ Original(a, f)
    BY <1>1, <2>3 DEF Original, Marks, Shows
  <2> QED
    BY <1>1, <2>2, <2>3, <2>4 DEF IInv, Copied
<1>3. ASSUME IInv, NEW a \in Applies, NEW f \in Files, Kept(a, f), f \in affected[a],
             ~ Original(a, f)
      PROVE  before[a][f] # Nothing /\ Copy(a, f) = before[a][f]
  BY <1>3 DEF IInv, Phases, ApplyPhase, Copied
<1>2. IInv => OriginalsKept
  BY <1>1, <1>3 DEF OriginalsKept, Copy, Original
<1> QED
  BY <1>2, Always, PTL

\* An apply that is done has edited every file of its workspace edit that
\* exists, and the edit of a file is lost only to a rollback of its session or to
\* another command (apply_from_edit).  What the edit makes of a text, EditsAsAsked, does not
\* depend on the state; it is a condition here.
THEOREM AppliesAsAsked == Spec => [](EditsAsAsked => AppliedAsAsked)
<1>1. ASSUME IInv, NEW a \in Applies, pc[a] = "done", NEW f \in scope[a]
      PROVE  Shows(f, a) \/ content[f] = Nothing \/ Excused(a, f)
  <2>1. f \in Files /\ todo[a] = {}
    BY <1>1 DEF IInv, TypeOK, Processes
  <2> QED
    BY <1>1, <2>1 DEF IInv, EditShown
<1>2. IInv => (EditsAsAsked => AppliedAsAsked)
  BY <1>1 DEF AppliedAsAsked, Excused
<1> QED
  BY <1>2, Always, PTL

\* An apply that fails leaves as it found it every file of its edit that it
\* has come to restore: all of them, unless a copy back raises, which leaves the
\* files behind it (apply_from_edit, restore).
THEOREM FailureRestores == Spec => FailureUndone
<1>1. ASSUME IInv, Next, NEW a \in Applies, NEW f \in Files,
             pc[a] = "restoring", pc'[a] = "failed", f \in scope[a] \ todo[a],
             Kept(a, f)
      PROVE  content'[f] = before[a][f]
  <2>1. PICK p \in Processes : Moves(p)
    BY <1>1, StepMoves DEF IInv
  <2>2. content'[f] = content[f]
    BY <1>1, <2>1 DEF Moves, Others, Treats, Processes
  <2>3. CASE f \in affected[a]
    BY <1>1, <2>2, <2>3 DEF IInv, Undone, Original
  <2>4. CASE f \notin affected[a]
    BY <1>1, <2>2, <2>4 DEF IInv, Phases, ApplyPhase
  <2> QED
    BY <2>3, <2>4
<1>2. IInv /\ [Next]_vars =>
        [\A a \in Applies, f \in Files :
           /\ pc[a] = "restoring" /\ pc'[a] = "failed"
           /\ f \in scope[a] \ todo[a] /\ Kept(a, f)
           => content'[f] = before[a][f]]_vars
  BY <1>1
<1> QED
  BY <1>2, Always, PTL DEF Spec, FailureUndone

\* A rollback that comes to its clean-up has restored every file of the edit,
\* also when an earlier one was killed (restore_by_id).
THEOREM RollbackRestores == Spec => RollbackUndoes
<1>1. ASSUME IInv, Next, NEW r \in Rollbacks, NEW a \in Applies, NEW f \in Files,
             pc[r] = "restoring", pc'[r] = "cleaning", session[a] = session[r],
             f \in scope[a], Kept(a, f)
      PROVE  content[f] = before[a][f]
  <2>1. PICK p \in Processes : Moves(p)
    BY <1>1, StepMoves DEF IInv
  <2>2. todo[r] = {}
    BY <1>1, <2>1 DEF Moves, Others, Treats, Processes
  <2>3. RolledBackTo(r, a) /\ OwnSession(a)
    BY <1>1 DEF IInv, Kept
  <2>4. pc[a] = "done"
    BY <1>1, <2>3 DEF RolledBackTo
  <2>5. CASE f \in affected[a]
    BY <1>1, <2>2, <2>3, <2>5 DEF RolledBackTo, Original
  <2>6. CASE f \notin affected[a]
    BY <1>1, <2>4, <2>6 DEF IInv, Phases, ApplyPhase
  <2> QED
    BY <2>5, <2>6
<1>2. IInv /\ [Next]_vars =>
        [\A r \in Rollbacks, a \in Applies, f \in Files :
           /\ pc[r] = "restoring" /\ pc'[r] = "cleaning"
           /\ session[a] = session[r] /\ f \in scope[a] /\ Kept(a, f)
           => content[f] = before[a][f]]_vars
  BY <1>1
<1> QED
  BY <1>2, Always, PTL DEF Spec, RollbackUndoes
=============================================================================
