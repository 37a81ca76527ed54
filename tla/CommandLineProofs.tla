------------------------- MODULE CommandLineProofs -------------------------
(* Invariance theorems about CommandLine, for any tree of directories, any *)
(* configuration and any number of commands.                               *)
EXTENDS CommandLine, FiniteSetTheorems, FunctionTheorems, SequenceTheorems,
        WellFoundedInduction, TLAPS

\* A bounded set of numbers has a greatest one.
LEMMA Greatest ==
  ASSUME NEW n \in Nat, NEW S \in SUBSET (0 .. n), S # {}
  PROVE  \E m \in S : \A k \in S : k <= m
<1> DEFINE T == {n - m : m \in S}
<1>1. T \subseteq Nat
  OBVIOUS
<1>2. T # {}
  OBVIOUS
<1>3. PICK x \in T : \A y \in T : <<y, x>> \notin OpToRel(<, Nat)
  BY <1>1, <1>2, NatLessThanWellFounded, WFMin
<1>4. \A y \in T : ~ (y < x)
  BY <1>1, <1>3 DEF OpToRel
<1>5. PICK m \in S : x = n - m
  BY <1>3
<1>6. ASSUME NEW k \in S PROVE k <= m
  <2>1. n - k \in T
    OBVIOUS
  <2>2. ~ (n - k < n - m)
    BY <2>1, <1>4, <1>5
  <2> QED
    BY <2>2
<1> QED
  BY <1>6

\* What a path begins with.
LEMMA Prefix ==
  ASSUME NEW s \in Seq(STRING), NEW n \in 0 .. Len(s)
  PROVE  /\ SubSeq(s, 1, n) \in Seq(STRING) /\ Len(SubSeq(s, 1, n)) = n
         /\ \A i \in 1 .. n : SubSeq(s, 1, n)[i] = s[i]
  BY SubSeqProperties

\* A prefix of a prefix,
LEMMA Prefixes ==
  ASSUME NEW s \in Seq(STRING), NEW n \in 0 .. Len(s), NEW m \in 0 .. n
  PROVE  SubSeq(SubSeq(s, 1, n), 1, m) = SubSeq(s, 1, m)
<1> DEFINE t == SubSeq(s, 1, n)
<1>1. t \in Seq(STRING) /\ Len(t) = n /\ \A i \in 1 .. n : t[i] = s[i]
  BY Prefix
<1>2. m \in 0 .. Len(t) /\ m \in 0 .. Len(s)
  BY <1>1
<1> HIDE DEF t
<1>3. /\ SubSeq(t, 1, m) \in Seq(STRING) /\ Len(SubSeq(t, 1, m)) = m
      /\ \A i \in 1 .. m : SubSeq(t, 1, m)[i] = t[i]
  BY <1>1, <1>2, Prefix
<1>4. /\ SubSeq(s, 1, m) \in Seq(STRING) /\ Len(SubSeq(s, 1, m)) = m
      /\ \A i \in 1 .. m : SubSeq(s, 1, m)[i] = s[i]
  BY <1>2, Prefix
<1>5. \A i \in 1 .. m : SubSeq(t, 1, m)[i] = SubSeq(s, 1, m)[i]
  BY <1>1, <1>3, <1>4
<1>6. SubSeq(t, 1, m) = SubSeq(s, 1, m)
  BY <1>3, <1>4, <1>5, SeqEqual
<1> QED
  BY <1>6 DEF t

\* the longest one,
LEMMA Whole ==
  ASSUME NEW s \in Seq(STRING)
  PROVE  SubSeq(s, 1, Len(s)) = s
<1>1. /\ SubSeq(s, 1, Len(s)) \in Seq(STRING) /\ Len(SubSeq(s, 1, Len(s))) = Len(s)
      /\ \A i \in 1 .. Len(s) : SubSeq(s, 1, Len(s))[i] = s[i]
  BY Prefix
<1> QED
  BY <1>1, SeqEqual

\* and the parent of a path.
LEMMA ParentPath ==
  ASSUME NEW s \in Seq(STRING)
  PROVE  Parent(s) \in Seq(STRING)
<1>1. CASE Len(s) = 0
  <2>1. s = << >>
    BY <1>1
  <2> QED
    BY <1>1, <2>1, SubSeqEmpty DEF Parent
<1>2. CASE Len(s) # 0
  <2>1. Len(s) - 1 \in 0 .. Len(s)
    BY <1>2
  <2> QED
    BY <2>1, Prefix DEF Parent
<1> QED
  BY <1>1, <1>2

\* The nearest of some ancestors.
LEMMA Nearest ==
  ASSUME NEW s \in Seq(STRING), NEW D \in SUBSET Ancestors(s), D # {}
  PROVE  LET r == CHOOSE d \in D : \A e \in D : Len(e) <= Len(d)
         IN  r \in D /\ \A e \in D : Len(e) <= Len(r)
<1> DEFINE N == {Len(d) : d \in D}
<1>1. \A d \in D : Len(d) \in 0 .. Len(s)
  BY Prefix DEF Ancestors
<1>2. N \subseteq 0 .. Len(s) /\ Len(s) \in Nat
  BY <1>1
<1>5. N # {}
  OBVIOUS
<1>3. PICK m \in N : \A k \in N : k <= m
  BY <1>2, <1>5, Greatest
<1>4. \E d \in D : \A e \in D : Len(e) <= Len(d)
  BY <1>3
<1> QED
  BY <1>4

\* A root is a prefix of where the search began.
LEMMA RootPath ==
  ASSUME NEW start \in Seq(STRING), NEW markers
  PROVE  FindRoot(start, markers) \in Seq(STRING) \cup {NoRoot}
<1> DEFINE from == IF start \in Directory THEN start ELSE Parent(start)
           marked == {d \in Ancestors(from) : MarkersIn[d] \cap markers # {}}
<1>1. from \in Seq(STRING)
  BY ParentPath
<1>3. FindRoot(start, markers) =
        IF marked = {} THEN NoRoot ELSE CHOOSE d \in marked : \A e \in marked : Len(e) <= Len(d)
  BY DEF FindRoot
<1>4. marked \subseteq Ancestors(from) /\ Ancestors(from) \subseteq Seq(STRING)
  BY <1>1, Prefix DEF Ancestors
<1> HIDE DEF marked, from
<1>5. marked # {} => (CHOOSE d \in marked : \A e \in marked : Len(e) <= Len(d)) \in marked
  BY <1>1, <1>4, Nearest
<1> QED
  BY <1>3, <1>4, <1>5

\* The directories above a path that hold a marker.
RootsAbove(path, markers) ==
  {d \in Directory : Inside(path, d) /\ MarkersIn[d] \cap markers # {}}

\* From a path that is there, the directories the search visits are those above
\* it; what it finds lies in none of the others that hold a marker.
LEMMA RootFound ==
  ASSUME NEW path \in File \cup Directory, NEW markers
  PROVE  LET roots == RootsAbove(path, markers)
             root == FindRoot(path, markers)
         IN  IF roots = {} THEN root = NoRoot
             ELSE root # NoRoot /\ root \in roots /\ \A d \in roots : Inside(root, d)
<1> DEFINE from == IF path \in Directory THEN path ELSE Parent(path)
           marked == {d \in Ancestors(from) : MarkersIn[d] \cap markers # {}}
           roots == RootsAbove(path, markers)
           root == FindRoot(path, markers)
<1>1. path \in Seq(STRING) /\ Directory \subseteq Seq(STRING) /\ NoRoot \notin Directory
  BY TargetAssumption
<1>2. from \in Directory
  BY TargetAssumption
<1>3. \E n \in 0 .. Len(path) :
        /\ from = SubSeq(path, 1, n)
        /\ \A d \in Directory : Inside(path, d) => Len(d) <= n
  <2>1. CASE path \in Directory
    BY <1>1, <2>1, Whole DEF Inside
  <2>2. CASE path \notin Directory
    <3>1. Len(path) - 1 \in 0 .. Len(path) /\ from = SubSeq(path, 1, Len(path) - 1)
      BY <1>1, <2>2, TargetAssumption DEF Parent
    <3>2. ASSUME NEW d \in Directory, Inside(path, d) PROVE Len(d) <= Len(path) - 1
      <4>1. Len(d) \in Nat /\ Len(d) <= Len(path) /\ SubSeq(path, 1, Len(d)) = d
        BY <1>1, <3>2 DEF Inside
      <4>2. Len(d) # Len(path)
        BY <1>1, <2>2, <4>1, Whole
      <4> QED
        BY <1>1, <4>1, <4>2
    <3> QED
      BY <3>1, <3>2
  <2> QED
    BY <2>1, <2>2
<1>4. PICK n \in 0 .. Len(path) :
        from = SubSeq(path, 1, n) /\ \A d \in Directory : Inside(path, d) => Len(d) <= n
  BY <1>3
<1>5. /\ from \in Seq(STRING) /\ Len(from) = n
      /\ \A m \in 0 .. n : SubSeq(from, 1, m) = SubSeq(path, 1, m)
  BY <1>1, <1>4, Prefix, Prefixes
<1>6. root = IF marked = {} THEN NoRoot
             ELSE CHOOSE d \in marked : \A e \in marked : Len(e) <= Len(d)
  BY DEF FindRoot
<1> HIDE DEF from
<1>7. \A d \in Directory : d \in Ancestors(from) <=> Inside(path, d)
  <2> SUFFICES ASSUME NEW d \in Directory PROVE d \in Ancestors(from) <=> Inside(path, d)
    OBVIOUS
  <2>1. ASSUME d \in Ancestors(from) PROVE Inside(path, d)
    <3>1. PICK m \in 0 .. n : d = SubSeq(path, 1, m)
      BY <1>5, <2>1 DEF Ancestors
    <3>2. m \in 0 .. Len(path)
      BY <1>1
    <3>3. Len(d) = m
      BY <1>1, <3>1, <3>2, Prefix
    <3> QED
      BY <3>1, <3>2, <3>3 DEF Inside
  <2>2. ASSUME Inside(path, d) PROVE d \in Ancestors(from)
    <3>1. Len(d) \in 0 .. n /\ d = SubSeq(path, 1, Len(d))
      BY <1>1, <1>4, <2>2 DEF Inside
    <3> QED
      BY <1>5, <3>1 DEF Ancestors
  <2> QED
    BY <2>1, <2>2
<1>8. Ancestors(from) \subseteq Directory
  BY <1>2, TargetAssumption
<1>9. marked = roots
  BY <1>7, <1>8 DEF RootsAbove
<1>10. CASE marked = {}
  BY <1>6, <1>9, <1>10
<1>11. CASE marked # {}
  <2> HIDE DEF marked
  <2>1. marked \subseteq Ancestors(from)
    BY DEF marked
  <2>2. root \in marked /\ \A e \in marked : Len(e) <= Len(root)
    BY <1>5, <1>6, <1>11, <2>1, Nearest
  <2>3. root \in Directory /\ Inside(path, root)
    BY <1>9, <2>2 DEF RootsAbove
  <2>4. ASSUME NEW d \in roots PROVE Inside(root, d)
    <3>1. d \in Directory /\ Inside(path, d) /\ Len(d) <= Len(root)
      BY <1>9, <2>2, <2>4 DEF RootsAbove
    <3>2. Len(root) \in 0 .. Len(path) /\ root = SubSeq(path, 1, Len(root))
      BY <1>1, <2>3 DEF Inside
    <3>3. Len(d) \in 0 .. Len(root) /\ d = SubSeq(path, 1, Len(d))
      BY <1>1, <3>1 DEF Inside
    <3>4. SubSeq(root, 1, Len(d)) = SubSeq(path, 1, Len(d))
      BY <1>1, <3>2, <3>3, Prefixes
    <3> QED
      BY <3>1, <3>3, <3>4 DEF Inside
  <2>5. root # NoRoot /\ roots # {}
    BY <1>1, <1>9, <1>11, <2>3
  <2> QED
    BY <1>9, <2>2, <2>4, <2>5
<1> QED
  BY <1>10, <1>11

-----------------------------------------------------------------------------
(* What a command is about.                                                *)

\* What ScenarioAssumption says of what is typed.
Typed(x) ==
  /\ x.cwd \in Directory /\ x.file \in Path \ {NoPath}
  /\ x.workspace \in Path /\ x.globalWorkspace \in Path
  /\ x.line \in Int /\ x.column \in Int

\* Resolving leaves absolute paths as they are.
LEMMA Resolved ==
  ASSUME NEW cwd \in Directory, NEW p \in Path
  PROVE  Resolve(cwd, p) \in Seq(STRING)
<1>1. cwd \in Seq(STRING) /\ p.names \in Seq(STRING)
  BY TargetAssumption DEF Path
<1>2. cwd \o p.names \in Seq(STRING)
  BY <1>1, ConcatProperties
<1> QED
  BY <1>1, <1>2 DEF Resolve

LEMMA AbsolutePath ==
  ASSUME NEW s \in Seq(STRING)
  PROVE  /\ Absolute(s) \in Path /\ Absolute(s).absolute /\ Absolute(s).names = s
         /\ \A cwd : Resolve(cwd, Absolute(s)) = s
BY DEF Absolute, Path, Resolve

\* The root of a language, or the working directory, is a path.
LEMMA RootOrCwdPath ==
  ASSUME NEW cwd \in Directory, NEW start \in Seq(STRING), NEW loaded, NEW language
  PROVE  RootOrCwd(cwd, start, loaded, language) \in Path
<1>1. FindRoot(start, MarkersOf(loaded, language)) \in Seq(STRING) \cup {NoRoot}
  BY RootPath
<1> QED
  BY <1>1, AbsolutePath, TargetAssumption DEF RootOrCwd

\* Whatever is detected is a path.
LEMMA DetectedPath ==
  ASSUME NEW cwd \in Directory, NEW loaded, NEW p, p # NoPath => p \in Path,
         NEW workspace \in Path, NEW language
  PROVE  Detect(cwd, loaded, p, workspace, language).workspace \in Path
<1>1. cwd \in Seq(STRING) /\ Absolute(cwd) \in Path /\ Resolve(cwd, workspace) \in Seq(STRING)
  BY AbsolutePath, Resolved, TargetAssumption
<1>2. RootOrCwd(cwd, cwd, loaded, language) \in Path
  BY <1>1, RootOrCwdPath
<1>3. ASSUME p # NoPath
      PROVE  DetectFromFile(cwd, loaded, p, workspace).workspace \in Path
  <2>1. p \in Path /\ Resolve(cwd, p) \in Seq(STRING)
    BY <1>3, Resolved
  <2>2. \A l : RootOrCwd(cwd, IF Exists(Resolve(cwd, p)) THEN Resolve(cwd, p) ELSE cwd, loaded, l)
                 \in Path
    BY <1>1, <2>1, RootOrCwdPath
  <2>3. [p EXCEPT !.names = Parent(@)] \in Path
    BY <2>1, ParentPath DEF Path
  <2> QED
    BY <1>1, <2>2, <2>3 DEF DetectFromFile
<1>4. DetectFromMarkers(cwd, loaded, workspace).workspace \in Path
  <2> DEFINE start == IF workspace = NoPath THEN cwd ELSE Resolve(cwd, workspace)
             first == FirstLanguage(start, loaded)
  <2>1. start \in Seq(STRING)
    BY <1>1
  <2> HIDE DEF start
  <2>2. first.root \in Seq(STRING) \cup {NoRoot}
    BY <2>1, RootPath DEF FirstLanguage
  <2>3. DetectFromMarkers(cwd, loaded, workspace).workspace =
          IF workspace # NoPath THEN workspace
          ELSE Absolute(IF first.root = NoRoot THEN cwd ELSE first.root)
    BY DEF DetectFromMarkers, start
  <2> HIDE DEF first
  <2> QED
    BY <1>1, <2>2, <2>3, AbsolutePath
<1> QED
  BY <1>2, <1>3, <1>4 DEF Detect

\* The workspace of a command that names a file is absolute, and holds the file.
Aims(x, t) ==
  /\ t.workspace \in Path /\ t.workspace.absolute
  /\ t.file = Resolve(x.cwd, x.file)
  /\ t.ends \in {"no", "unsupported", "invalid"}
  /\ t.ends = "no" => /\ t.language # NoLanguage
                      /\ Exists(t.file) /\ Inside(t.file, t.workspace.names)

\* That is so for all three ways of working out a target.
LEMMA RequestAims ==
  ASSUME NEW x, Typed(x), NEW loaded
  PROVE  Aims(x, BuildRequestContext(x, loaded))
<1> DEFINE typed == [workspace |-> Workspace(x), language |-> Language(x)]
           found == IF typed.workspace = NoPath \/ typed.language = NoLanguage
                    THEN Detect(x.cwd, loaded, x.file, typed.workspace, typed.language)
                    ELSE typed
           workspace == Effective(typed.workspace, found.workspace, NoPath)
           language == Effective(typed.language, found.language, NoLanguage)
<1>1. Workspace(x) \in Path
  BY DEF Workspace, Effective, Typed
<1>2. found.workspace \in Path
  BY <1>1, DetectedPath DEF Typed
<1>3. workspace \in Path
  BY <1>1, <1>2 DEF Effective
<1>4. Resolve(x.cwd, workspace) \in Seq(STRING)
  BY <1>3, Resolved DEF Typed
<1>5. BuildRequestContext(x, loaded) =
        [workspace |-> Absolute(Resolve(x.cwd, workspace)),
         language |-> language,
         file |-> Resolve(x.cwd, x.file),
         ends |-> IF language = NoLanguage THEN "unsupported"
                  ELSE IF ValidFile(x, workspace) THEN "no" ELSE "invalid"]
  BY DEF BuildRequestContext
<1> HIDE DEF workspace, language
<1> QED
  BY <1>4, <1>5, AbsolutePath DEF Aims, ValidFile

LEMMA DirectoryAims ==
  ASSUME NEW x, Typed(x), NEW workspace \in Path, NEW language
  PROVE  Aims(x, WorkingDirectoryContext(x, workspace, language))
<1> DEFINE root == IF workspace = NoPath THEN Absolute(x.cwd) ELSE workspace
<1>1. root \in Path
  BY AbsolutePath, TargetAssumption DEF Typed
<1>2. Resolve(x.cwd, root) \in Seq(STRING)
  BY <1>1, Resolved DEF Typed
<1> HIDE DEF root
<1>3. LET t == WorkingDirectoryContext(x, workspace, language)
      IN  /\ t.workspace = Absolute(Resolve(x.cwd, root)) /\ t.file = Resolve(x.cwd, x.file)
          /\ t.ends = IF ValidFile(x, root) THEN "no" ELSE "invalid"
          /\ t.language # NoLanguage
  BY DEF WorkingDirectoryContext, root, NoLanguage
<1> QED
  BY <1>2, <1>3, AbsolutePath DEF Aims, ValidFile

LEMMA ContextAims ==
  ASSUME NEW x, Typed(x), NEW loaded
  PROVE  LET t == ContextOf(x, loaded)
         IN  /\ t.workspace \in Path
             /\ t.ends \in {"no", "unsupported", "invalid", "no language"}
             /\ t.ends = "no" => t.language # NoLanguage
             /\ x.kind \notin ByWorkspace => Aims(x, t)
<1>1. CASE x.kind \in ByWorkspace
  <2> DEFINE found == Detect(x.cwd, loaded, NoPath, Workspace(x), Language(x))
  <2>1. Workspace(x) \in Path
    BY DEF Workspace, Effective, Typed
  <2>2. found.workspace \in Path
    BY <2>1, DetectedPath DEF Typed
  <2>3. ContextOf(x, loaded) = RequireLanguageOrDetect(x, loaded)
    BY <1>1 DEF ContextOf, ByWorkspace
  <2>4. LET t == RequireLanguageOrDetect(x, loaded)
        IN  /\ t.workspace = found.workspace /\ t.ends \in {"no", "no language"}
            /\ t.ends = "no" => t.language # NoLanguage
    BY DEF RequireLanguageOrDetect
  <2> QED
    BY <1>1, <2>2, <2>3, <2>4
<1>2. CASE x.kind \in ByDirectory
  <2>1. \/ ContextOf(x, loaded) = DiagnosticsContext(x)
        \/ ContextOf(x, loaded) = DidChangeContext(x)
    BY <1>2 DEF ContextOf, ByWorkspace, ByDirectory
  <2>2. Workspace(x) \in Path /\ x.workspace \in Path
    BY DEF Workspace, Effective, Typed
  <2>3. Aims(x, ContextOf(x, loaded))
    BY <2>1, <2>2, DirectoryAims DEF DiagnosticsContext, DidChangeContext
  <2> QED
    BY <2>3 DEF Aims
<1>3. CASE x.kind \notin ByWorkspace \cup ByDirectory
  <2>1. ContextOf(x, loaded) = BuildRequestContext(x, loaded)
    BY <1>3 DEF ContextOf, ByWorkspace, ByDirectory
  <2>2. Aims(x, ContextOf(x, loaded))
    BY <2>1, RequestAims
  <2> QED
    BY <2>2 DEF Aims
<1> QED
  BY <1>1, <1>2, <1>3

\* Without the options, the workspace is the root found from the file, or the
\* working directory.
LEMMA RequestRoot ==
  ASSUME NEW x, Typed(x), NEW loaded, Workspace(x) = NoPath, Language(x) = NoLanguage,
         BuildRequestContext(x, loaded).ends = "no"
  PROVE  LET t == BuildRequestContext(x, loaded)
             root == FindRoot(t.file, MarkersOf(loaded, t.language))
         IN  t.workspace.names = IF root = NoRoot THEN x.cwd ELSE root
<1> DEFINE found == DetectFromFile(x.cwd, loaded, x.file, NoPath)
           path == Resolve(x.cwd, x.file)
           t == BuildRequestContext(x, loaded)
           root == FindRoot(path, MarkersOf(loaded, found.language))
<1>1. Detect(x.cwd, loaded, x.file, NoPath, NoLanguage) = found
  BY DEF Detect, Typed
<1>2. /\ t.workspace = Absolute(Resolve(x.cwd, found.workspace)) /\ t.language = found.language
      /\ t.file = path /\ found.language # NoLanguage /\ Exists(path)
  BY <1>1 DEF BuildRequestContext, Effective, ValidFile
<1>3. found.workspace = RootOrCwd(x.cwd, path, loaded, found.language)
  BY <1>2 DEF DetectFromFile
<1>4. found.workspace = Absolute(IF root = NoRoot THEN x.cwd ELSE root)
  BY <1>3 DEF RootOrCwd
<1>5. path \in Seq(STRING) /\ x.cwd \in Seq(STRING)
  BY Resolved, TargetAssumption DEF Typed
<1>6. root \in Seq(STRING) \cup {NoRoot}
  BY <1>5, RootPath
<1> HIDE DEF found, path, root
<1>7. t.workspace.names = IF root = NoRoot THEN x.cwd ELSE root
  BY <1>2, <1>4, <1>5, <1>6, AbsolutePath
<1> QED
  BY <1>2, <1>7 DEF root

-----------------------------------------------------------------------------
(* What a command asks.                                                    *)

\* What the server gets when x was typed and t is the target.
Message(x, t) == BuildLspParams(ExtractRegistryParams(Request(x, t)))

\* The daemon drops what a method has no use for, and nothing else.
LEMMA MessageKept ==
  ASSUME NEW x, NEW t
  PROVE  LET m == Message(x, t)
         IN  /\ m.kind = x.kind
             /\ x.kind \notin ByWorkspace => m.file = t.file
             /\ x.kind \in Positions => m.line = Index(x.line) /\ m.column = Index(x.column)
             /\ x.kind \in {"rename", "workspace-symbol"} => m.text = x.text
<1> DEFINE r == Request(x, t)
           e == ExtractRegistryParams(r)
<1>1. /\ r \in [kind : {x.kind}, file : {t.file}, line : {0, Index(x.line)},
                column : {0, Index(x.column)}, text : {"", x.text}]
      /\ x.kind \in Positions => r.line = Index(x.line) /\ r.column = Index(x.column)
      /\ x.kind \in {"rename", "workspace-symbol"} => r.text = x.text
  BY DEF Request, RenameParams, PositionParams, SymbolQueryParams, WorkspaceParams, FileParams,
     Params, Positions, Locations, Calls
<1> HIDE DEF r
<1>2. CASE Category(x.kind) = "position"
  <2>1. e = r /\ x.kind # "workspace-symbol"
    BY <1>1, <1>2 DEF ExtractRegistryParams, Category, ByWorkspace
  <2> QED
    BY <1>1, <2>1 DEF Message, BuildLspParams, r
<1>3. CASE Category(x.kind) = "file"
  <2>1. /\ x.kind \in Synchronised
        /\ x.kind \notin Positions \cup {"rename", "workspace-symbol"}
    BY <1>3 DEF Category, Synchronised, Positions, Locations, Calls
  <2>2. e = [r EXCEPT !.line = 0, !.column = 0, !.text = ""]
    BY <1>1, <1>3 DEF ExtractRegistryParams
  <2> QED
    BY <1>1, <2>1, <2>2 DEF Message, BuildLspParams, r
<1>4. CASE Category(x.kind) \notin {"position", "file"}
  <2>1. x.kind \in ByWorkspace /\ x.kind \notin Positions \cup {"rename"}
    BY <1>4 DEF Category, ByWorkspace, Positions, Locations, Calls
  <2>2. e = [r EXCEPT !.file = NoRoot, !.line = 0, !.column = 0]
    BY <1>1, <1>4 DEF ExtractRegistryParams
  <2> QED
    BY <1>1, <2>1, <2>2 DEF Message, BuildLspParams, r
<1> QED
  BY <1>2, <1>3, <1>4

-----------------------------------------------------------------------------
(* The invariant.                                                          *)

\* The variables are about commands.
Shape ==
  /\ cmd \in Scenarios
  /\ DOMAIN pc = Command /\ DOMAIN config = Command /\ DOMAIN target = Command
  /\ DOMAIN via = Command /\ DOMAIN asked = Command /\ DOMAIN shown = Command
  /\ \A c \in Command : "outcome" \in DOMAIN shown[c]

\* A command that has a target keeps it, and asks what was typed about it.
Aimed(c) ==
  /\ pc[c] = "resolve" => target[c] = NoTarget /\ ~ Asked(c)
  /\ pc[c] \in {"reach", "handle", "answer", "print"} \/ Asked(c) =>
       target[c] = ContextOf(cmd[c], config[c]) /\ target[c].ends = "no"
  /\ Asked(c) =>
       /\ asked[c].workspace = Resolve(<< >>, target[c].workspace)
       /\ asked[c].message = Message(cmd[c], target[c])

\* As long as every command is Usual, a socket is where its daemon's PID file
\* says, and a daemon that runs has one.
Daemon(t) == [dir |-> t.workspace.names, name |-> ServerName(Defaults, t.language)]
Bound ==
  /\ \A s \in DOMAIN sockets : sockets[s] = [dir |-> s.dir.names, name |-> s.name]
  /\ \A p \in running : SocketPath(Absolute(p.dir), p.name) \in DOMAIN sockets
Found(c) ==
  /\ shown[c].outcome # "unreachable"
  /\ pc[c] \in {"handle", "answer", "print"} \/ Asked(c) => via[c] = Daemon(target[c])

IInv ==
  /\ Shape
  /\ \A c \in Command : Aimed(c)
  /\ (\A c \in Command : Usual(c)) => Bound /\ \A c \in Command : Found(c)

LEMMA TypedAlways ==
  ASSUME Shape, NEW c \in Command
  PROVE  Typed(cmd[c])
BY ScenarioAssumption DEF Shape, Typed

\* A step of c that keeps its target leaves the others where they are.
LEMMA UsualBefore ==
  ASSUME Shape, NEW c \in Command, Aimed(c), cmd' = cmd,
         \A d \in Command \ {c} : target'[d] = target[d],
         target'[c] = target[c] \/ pc[c] = "resolve",
         \A d \in Command : Usual(d)'
  PROVE  \A d \in Command : Usual(d)
BY DEF Usual, Aimed

\* It holds at first,
LEMMA InitInv == Init => IInv
<1> SUFFICES ASSUME Init PROVE IInv
  OBVIOUS
<1>1. Shape
  BY DEF Init, Shape
<1>2. ASSUME NEW c \in Command
      PROVE  /\ pc[c] \in {"done", "resolve"} /\ ~ Asked(c) /\ target[c] = NoTarget
             /\ shown[c].outcome # "unreachable"
  BY DEF Init, Asked, None
<1>3. Bound
  BY DEF Init, Bound
<1> QED
  BY <1>1, <1>2, <1>3 DEF IInv, Aimed, Found

\* A step that changes at most the place of a command that has a target, and
\* what it has shown.
LEMMA MoveKeeps ==
  ASSUME IInv, NEW c \in Command, NEW l,
         UNCHANGED <<cmd, running, sockets, config, target, via, asked>>,
         pc' = [pc EXCEPT ![c] = l], DOMAIN shown' = Command, "outcome" \in DOMAIN shown'[c],
         \A d \in Command \ {c} : shown'[d] = shown[d],
         shown'[c].outcome # "unreachable" \/ shown'[c] = shown[c],
         l = pc[c] \/ (pc[c] \in {"handle", "answer", "print"} /\ l \in {"answer", "print"})
           \/ (pc[c] # "resolve" /\ l = "done")
  PROVE  IInv'
<1>1. Shape'
  BY DEF IInv, Shape
<1>2. ASSUME NEW d \in Command PROVE Aimed(d)'
  BY DEF IInv, Shape, Aimed, Asked
<1>3. ASSUME \A d \in Command : Usual(d)' PROVE Bound' /\ \A d \in Command : Found(d)'
  <2>1. \A d \in Command : Usual(d)
    BY <1>3 DEF Usual
  <2>2. Bound /\ \A d \in Command : Found(d)
    BY <2>1 DEF IInv
  <2>3. Bound'
    BY <2>2 DEF Bound
  <2>4. ASSUME NEW d \in Command PROVE Found(d)'
    BY <2>2 DEF IInv, Shape, Found, Asked, Daemon
  <2> QED
    BY <2>3, <2>4
<1> QED
  BY <1>1, <1>2, <1>3 DEF IInv

\* and every step of a command keeps it.
LEMMA ResolveKeeps ==
  ASSUME IInv, NEW c \in Command, ResolveTarget(c)
  PROVE  IInv'
<1>1. PICK loaded : LET context == ContextOf(cmd[c], loaded) IN
        /\ config' = [config EXCEPT ![c] = loaded]
        /\ target' = [target EXCEPT ![c] = context]
        /\ IF context.ends = "no"
           THEN pc' = [pc EXCEPT ![c] = "reach"] /\ UNCHANGED shown
           ELSE End(c, context.ends)
  BY DEF ResolveTarget
<1>2. /\ pc[c] = "resolve" /\ UNCHANGED <<cmd, running, sockets, via, asked>>
      /\ target[c] = NoTarget /\ ~ Asked(c) /\ Typed(cmd[c])
  BY TypedAlways DEF ResolveTarget, daemons, IInv, Aimed
<1> DEFINE context == ContextOf(cmd[c], loaded)
<1>3. /\ context.workspace \in Path
      /\ context.ends \in {"no", "unsupported", "invalid", "no language"}
  BY <1>2, ContextAims
<1> HIDE DEF context
<1>4. /\ config'[c] = loaded /\ target'[c] = context
      /\ \A d \in Command \ {c} : config'[d] = config[d] /\ target'[d] = target[d]
      /\ \A d \in Command \ {c} : pc'[d] = pc[d] /\ shown'[d] = shown[d]
      /\ pc'[c] \in {"reach", "done"} /\ (pc'[c] = "reach" => context.ends = "no")
      /\ shown'[c].outcome \in {shown[c].outcome, context.ends} /\ Shape'
  BY <1>1, <1>2 DEF IInv, Shape, End, context
<1>5. ASSUME NEW d \in Command PROVE Aimed(d)' /\ (Asked(d)' <=> Asked(d))
  BY <1>2, <1>4 DEF IInv, Aimed, Asked, context
<1>6. ASSUME \A d \in Command : Usual(d)' PROVE Bound' /\ \A d \in Command : Found(d)'
  <2>1. \A d \in Command : Usual(d)
    BY <1>2, <1>4, <1>6, UsualBefore DEF IInv
  <2>2. Bound /\ \A d \in Command : Found(d)
    BY <2>1 DEF IInv
  <2>3. Bound'
    BY <1>2, <2>2 DEF Bound
  <2>4. ASSUME NEW d \in Command PROVE Found(d)'
    BY <1>2, <1>3, <1>4, <1>5, <2>2 DEF Found, Daemon
  <2> QED
    BY <2>3, <2>4
<1> QED
  BY <1>4, <1>5, <1>6 DEF IInv

\* Every command that shares a workspace and a server calls them the same.
LEMMA SameNames ==
  ASSUME Shape, NEW c \in Command, Usual(c), target[c] # NoTarget, target[c].workspace \in Path
  PROVE  LET loaded == Load("whole", cmd[c].cwd)
         IN  /\ ManagerSocket(loaded, target[c]) = ClientSocket(target[c])
             /\ PidFile(cmd[c].cwd, loaded, target[c]) = Daemon(target[c])
             /\ target[c].workspace = Absolute(target[c].workspace.names)
<1> DEFINE loaded == Load("whole", cmd[c].cwd)
           language == target[c].language
<1>1. target[c].workspace.absolute = TRUE
  BY DEF Usual, Path
<1>2. ServerName(loaded, language) = ServerName(Defaults, language)
  <2>1. CASE language \in Languages
    BY <2>1 DEF Usual
  <2>2. CASE language \notin Languages
    <3>1. \A layer \in {Defaults, Global, Project[cmd[c].cwd]} :
            <<language, "command">> \notin DOMAIN layer
      BY <2>2, TypedAlways, TargetAssumption DEF Typed
    <3>2. <<language, "command">> \notin DOMAIN loaded
      BY <3>1 DEF Load, Merge
    <3> QED
      BY <3>1, <3>2 DEF ServerName
  <2> QED
    BY <2>1, <2>2
<1> HIDE DEF loaded
<1>3. target[c].workspace = Absolute(target[c].workspace.names)
  BY <1>1 DEF Path, Absolute
<1> QED
  BY <1>1, <1>2, <1>3 DEF ManagerSocket, ClientSocket, PidFile, Daemon, Resolve, loaded

\* A daemon that runs is found where the command looks, and one just started is.
LEMMA ReachKeeps ==
  ASSUME IInv, NEW c \in Command, ReachDaemon(c)
  PROVE  IInv'
<1> DEFINE loaded == Load(file, cmd[c].cwd)
           pid == PidFile(cmd[c].cwd, loaded, target[c])
           socket == ManagerSocket(loaded, target[c])
           mine == ClientSocket(target[c])
           after == IF pid \in running THEN sockets ELSE With(sockets, socket, pid)
<1>1. /\ pc[c] = "reach" /\ UNCHANGED <<cmd, config, target, asked>>
      /\ IF loaded = NoConfig
         THEN End(c, "config error") /\ UNCHANGED <<running, sockets, via>>
         ELSE /\ running' = running \cup {pid}
              /\ sockets' = after
              /\ IF mine \in DOMAIN after
                 THEN /\ via' = [via EXCEPT ![c] = after[mine]]
                      /\ pc' = [pc EXCEPT ![c] = "handle"]
                      /\ UNCHANGED shown
                 ELSE End(c, "unreachable") /\ UNCHANGED via
  BY DEF ReachDaemon
<1>2. CASE loaded = NoConfig
  <2>1. /\ UNCHANGED <<cmd, running, sockets, config, target, via, asked>>
        /\ pc' = [pc EXCEPT ![c] = "done"] /\ shown' = [shown EXCEPT ![c].outcome = "config error"]
    BY <1>1, <1>2 DEF End
  <2>2. /\ DOMAIN shown' = Command /\ "outcome" \in DOMAIN shown'[c]
        /\ \A d \in Command \ {c} : shown'[d] = shown[d]
        /\ shown'[c].outcome # "unreachable"
    BY <2>1 DEF IInv, Shape
  <2> QED
    BY <1>1, <2>1, <2>2, MoveKeeps
<1>3. CASE loaded # NoConfig
  <2>1. loaded = Load("whole", cmd[c].cwd)
    BY <1>3 DEF Load
  <2>2. /\ target[c] = ContextOf(cmd[c], config[c]) /\ target[c].ends = "no"
        /\ target[c].workspace \in Path /\ target[c] # NoTarget
    <3>1. target[c] = ContextOf(cmd[c], config[c]) /\ target[c].ends = "no"
      BY <1>1 DEF IInv, Aimed
    <3>2. target[c].workspace \in Path /\ target[c].language # NoLanguage
      BY <3>1, TypedAlways, ContextAims DEF IInv
    <3> QED
      BY <3>1, <3>2 DEF NoTarget
  <2>3. /\ running' = running \cup {pid} /\ sockets' = after
        /\ IF mine \in DOMAIN after
           THEN /\ via' = [via EXCEPT ![c] = after[mine]]
                /\ pc' = [pc EXCEPT ![c] = "handle"] /\ shown' = shown
           ELSE /\ pc' = [pc EXCEPT ![c] = "done"] /\ via' = via
                /\ shown' = [shown EXCEPT ![c].outcome = "unreachable"]
    BY <1>1, <1>3 DEF End
  <2>4. ASSUME \A d \in Command : Usual(d)
        PROVE  /\ Bound' /\ mine \in DOMAIN after /\ after[mine] = Daemon(target[c])
               /\ \A d \in Command : Found(d)
    <3>1. Bound /\ \A d \in Command : Found(d)
      BY <2>4 DEF IInv
    <3>2. /\ socket = mine /\ pid = Daemon(target[c])
          /\ target[c].workspace = Absolute(target[c].workspace.names)
      BY <2>1, <2>2, <2>4, SameNames DEF IInv
    <3>3. /\ mine = SocketPath(Absolute(pid.dir), pid.name)
          /\ mine.dir.names = pid.dir /\ mine.name = pid.name
          /\ pid = [dir |-> mine.dir.names, name |-> mine.name]
      BY <3>2 DEF ClientSocket, SocketPath, Daemon
    <3> HIDE DEF loaded, pid, socket, mine
    <3>4. CASE pid \in running
      <4>1. after = sockets /\ running' = running
        BY <2>3, <3>4
      <4>2. mine \in DOMAIN sockets /\ sockets[mine] = pid
        BY <3>1, <3>3, <3>4 DEF Bound
      <4> QED
        BY <2>3, <3>1, <3>2, <4>1, <4>2 DEF Bound
    <3>5. CASE pid \notin running
      <4>1. /\ DOMAIN after = DOMAIN sockets \cup {mine} /\ after[mine] = pid
            /\ \A s \in DOMAIN sockets \ {mine} : after[s] = sockets[s]
        BY <3>2, <3>5 DEF With
      <4> HIDE DEF after
      <4> QED
        BY <2>3, <3>1, <3>2, <3>3, <4>1 DEF Bound
    <3> QED
      BY <3>4, <3>5
  <2> HIDE DEF loaded, pid, socket, mine, after
  <2>5. /\ Shape' /\ pc'[c] \in {"handle", "done"}
        /\ \A d \in Command \ {c} : pc'[d] = pc[d] /\ via'[d] = via[d] /\ shown'[d] = shown[d]
    BY <1>1, <2>3 DEF IInv, Shape
  <2>6. ASSUME NEW d \in Command PROVE Aimed(d)'
    BY <1>1, <2>5 DEF IInv, Aimed, Asked
  <2>7. ASSUME \A d \in Command : Usual(d)' PROVE Bound' /\ \A d \in Command : Found(d)'
    <3>1. \A d \in Command : Usual(d)
      BY <1>1, <2>7 DEF Usual
    <3>2. /\ via'[c] = Daemon(target[c]) /\ shown' = shown
      BY <2>3, <2>4, <3>1 DEF IInv, Shape
    <3>3. ASSUME NEW d \in Command PROVE Found(d)'
      BY <1>1, <2>4, <2>5, <3>1, <3>2 DEF Found, Daemon, Asked
    <3> QED
      BY <2>4, <3>1, <3>3
  <2> QED
    BY <2>5, <2>6, <2>7 DEF IInv
<1> QED
  BY <1>2, <1>3

LEMMA HandleKeeps ==
  ASSUME IInv, NEW c \in Command, HandleRequest(c)
  PROVE  IInv'
<1>1. /\ pc[c] = "handle" /\ pc' = [pc EXCEPT ![c] = "answer"]
      /\ UNCHANGED <<cmd, running, sockets, config, target, via, shown>>
      /\ DOMAIN asked' = Command /\ \A d \in Command \ {c} : asked'[d] = asked[d]
      /\ asked'[c].workspace = Resolve(<< >>, target[c].workspace)
      /\ asked'[c].message = Message(cmd[c], target[c])
  BY DEF HandleRequest, IInv, Shape, DaemonDirectory, Message
<1>2. Shape'
  BY <1>1 DEF IInv, Shape
<1>3. ASSUME NEW d \in Command PROVE Aimed(d)'
  BY <1>1 DEF IInv, Shape, Aimed, Asked
<1>4. ASSUME \A d \in Command : Usual(d)' PROVE Bound' /\ \A d \in Command : Found(d)'
  <2>1. \A d \in Command : Usual(d)
    BY <1>1, <1>4 DEF Usual
  <2>2. Bound /\ \A d \in Command : Found(d)
    BY <2>1 DEF IInv
  <2>3. Bound'
    BY <1>1, <2>2 DEF Bound
  <2>4. ASSUME NEW d \in Command PROVE Found(d)'
    BY <1>1, <2>2 DEF IInv, Shape, Found, Asked, Daemon
  <2> QED
    BY <2>3, <2>4
<1> QED
  BY <1>2, <1>3, <1>4 DEF IInv

LEMMA PrintKeeps ==
  ASSUME IInv, NEW c \in Command, PrintReply(c)
  PROVE  IInv'
<1>1. /\ pc[c] = "print" /\ pc' = [pc EXCEPT ![c] = "done"]
      /\ UNCHANGED <<cmd, running, sockets, config, target, via, asked>>
  BY DEF PrintReply, daemons
<1>2. PICK r : shown' = [shown EXCEPT ![c] =
        [outcome |-> IF ~ UnwrapAndValidate(cmd[c].kind, reply[c]).ok THEN "error"
                     ELSE IF Show(cmd[c], target[c],
                                  UnwrapAndValidate(cmd[c].kind, reply[c]).items).ok
                          THEN "printed" ELSE "traceback",
         rows |-> r]]
  BY DEF PrintReply
<1>3. /\ DOMAIN shown' = Command /\ "outcome" \in DOMAIN shown'[c]
      /\ \A d \in Command \ {c} : shown'[d] = shown[d]
      /\ shown'[c].outcome # "unreachable"
  BY <1>2 DEF IInv, Shape
<1> QED
  BY <1>1, <1>3, MoveKeeps

LEMMA AnswerKeeps ==
  ASSUME IInv, NEW c \in Command, AnswerRequest(c)
  PROVE  IInv'
<1>1. /\ pc[c] = "answer" /\ pc' = [pc EXCEPT ![c] = "print"]
      /\ UNCHANGED <<cmd, running, sockets, config, target, via, asked, shown>>
  BY DEF AnswerRequest, daemons
<1>2. DOMAIN shown' = Command /\ "outcome" \in DOMAIN shown'[c]
  BY <1>1 DEF IInv, Shape
<1> QED
  BY <1>1, <1>2, MoveKeeps

\* Loading the configuration, and a step of nobody.
LEMMA LoadKeeps ==
  ASSUME IInv, UNCHANGED <<cmd, running, sockets, pc, config, target, via, asked, shown>>
  PROVE  IInv'
<1>1. Shape'
  BY DEF IInv, Shape
<1>2. \A c \in Command : Aimed(c)'
  BY DEF IInv, Aimed, Asked
<1>3. ASSUME \A d \in Command : Usual(d)' PROVE Bound' /\ \A d \in Command : Found(d)'
  BY <1>3 DEF IInv, Usual, Bound, Found, Asked, Daemon
<1> QED
  BY <1>1, <1>2, <1>3 DEF IInv

LEMMA StepInv == IInv /\ [Next]_vars => IInv'
<1> SUFFICES ASSUME IInv, [Next]_vars PROVE IInv'
  OBVIOUS
<1>1. ASSUME NEW c \in Command, SeeAbsent(c) \/ CreateEmpty(c) \/ WriteDefaults(c) PROVE IInv'
  BY <1>1, LoadKeeps DEF SeeAbsent, CreateEmpty, WriteDefaults, daemons, local
<1>2. CASE UNCHANGED vars
  BY <1>2, LoadKeeps DEF vars
<1> QED
  BY <1>1, <1>2, ResolveKeeps, ReachKeeps, HandleKeeps, AnswerKeeps, PrintKeeps DEF Next

LEMMA InvAlways == Spec => []IInv
BY InitInv, StepInv, PTL DEF Spec

-----------------------------------------------------------------------------
(* Test files: what the engine of the filter matches.                      *)

\* What one segment of a pattern takes of a path cut into pieces.
Takes(path, pattern, cut, k) ==
  IF pattern[k] = Globstar THEN cut[k] <= cut[k + 1]
  ELSE cut[k + 1] = cut[k] + 1 /\ <<pattern[k], path[cut[k]]>> \in Fnmatch

\* The path from i on falls to the pattern from j on.
CoversFrom(path, pattern, i, j) ==
  \E cut \in [j .. Len(pattern) + 1 -> 1 .. Len(path) + 1] :
      /\ cut[j] = i /\ cut[Len(pattern) + 1] = Len(path) + 1
      /\ \A k \in j .. Len(pattern) : Takes(path, pattern, cut, k)

\* Nothing is left of the pattern.
LEMMA CoversEnd ==
  ASSUME NEW Segment, NEW path \in Seq(Segment), NEW pattern \in Seq(Segment),
         NEW i \in 1 .. Len(path) + 1
  PROVE  CoversFrom(path, pattern, i, Len(pattern) + 1) <=> i > Len(path)
<1> DEFINE m == Len(pattern) + 1
           c == [k \in m .. m |-> Len(path) + 1]
<1>1. Len(path) \in Nat /\ Len(pattern) \in Nat
  OBVIOUS
<1>2. c \in [m .. m -> 1 .. Len(path) + 1] /\ c[m] = Len(path) + 1
  BY <1>1
<1>3. m .. Len(pattern) = {}
  BY <1>1
<1> HIDE DEF c
<1> QED
  BY <1>1, <1>2, <1>3 DEF CoversFrom

\* From the end of a path a pattern goes on at the end.
LEMMA StaysAtEnd ==
  ASSUME NEW Segment, NEW path \in Seq(Segment), NEW pattern \in Seq(Segment),
         NEW j \in 1 .. Len(pattern) + 1,
         NEW cut \in [j .. Len(pattern) + 1 -> 1 .. Len(path) + 1], cut[j] = Len(path) + 1,
         \A k \in j .. Len(pattern) : Takes(path, pattern, cut, k)
  PROVE  \A k \in j .. Len(pattern) : pattern[k] = Globstar
<1>1. Len(path) \in Nat /\ Len(pattern) \in Nat
  OBVIOUS
<1> DEFINE away == {k \in j .. Len(pattern) + 1 : cut[k] # Len(path) + 1}
<1>2. away = {}
  <2> SUFFICES ASSUME away # {} PROVE FALSE
    OBVIOUS
  <2>1. away \subseteq Nat
    BY <1>1
  <2>2. PICK k \in away : \A l \in away : <<l, k>> \notin OpToRel(<, Nat)
    BY <2>1, NatLessThanWellFounded, WFMin
  <2>3. k \in j .. Len(pattern) + 1 /\ cut[k] # Len(path) + 1
    BY <2>2
  <2>4. k # j /\ k - 1 \in j .. Len(pattern) /\ k - 1 \in Nat /\ k \in Nat
    BY <1>1, <2>3
  <2>5. k - 1 \notin away
    <3>1. <<k - 1, k>> \in OpToRel(<, Nat)
      BY <2>4 DEF OpToRel
    <3> QED
      BY <2>2, <3>1
  <2>6. cut[k - 1] = Len(path) + 1
    BY <1>1, <2>4, <2>5
  <2>7. Takes(path, pattern, cut, k - 1) /\ (k - 1) + 1 = k
    BY <2>4
  <2>8. cut[k] \in 1 .. Len(path) + 1
    BY <2>3
  <2> QED
    BY <1>1, <2>6, <2>7, <2>3, <2>8 DEF Takes
<1>3. ASSUME NEW k \in j .. Len(pattern) PROVE pattern[k] = Globstar
  <2>1. cut[k] = Len(path) + 1 /\ cut[k + 1] = Len(path) + 1
    BY <1>1, <1>2
  <2>2. Takes(path, pattern, cut, k)
    OBVIOUS
  <2> QED
    BY <1>1, <2>1, <2>2 DEF Takes
<1> QED
  BY <1>3

\* Nothing is left of the path.
LEMMA CoversNothing ==
  ASSUME NEW Segment, NEW path \in Seq(Segment), NEW pattern \in Seq(Segment),
         NEW j \in 1 .. Len(pattern)
  PROVE  CoversFrom(path, pattern, Len(path) + 1, j)
           <=> \A k \in j .. Len(pattern) : pattern[k] = Globstar
<1> DEFINE c == [k \in j .. Len(pattern) + 1 |-> Len(path) + 1]
<1>1. Len(path) \in Nat /\ Len(pattern) \in Nat /\ j \in 1 .. Len(pattern) + 1
  OBVIOUS
<1>2. /\ c \in [j .. Len(pattern) + 1 -> 1 .. Len(path) + 1]
      /\ \A k \in j .. Len(pattern) + 1 : c[k] = Len(path) + 1
  BY <1>1
<1> HIDE DEF c
<1>3. ASSUME \A k \in j .. Len(pattern) : pattern[k] = Globstar
      PROVE  CoversFrom(path, pattern, Len(path) + 1, j)
  <2>1. ASSUME NEW k \in j .. Len(pattern) PROVE Takes(path, pattern, c, k)
    <3>1. k \in j .. Len(pattern) + 1 /\ k + 1 \in j .. Len(pattern) + 1
      BY <1>1
    <3>2. c[k] = Len(path) + 1 /\ c[k + 1] = Len(path) + 1
      BY <1>2, <3>1
    <3> QED
      BY <1>1, <1>3, <3>2 DEF Takes
  <2> QED
    BY <1>1, <1>2, <2>1 DEF CoversFrom
<1>4. ASSUME CoversFrom(path, pattern, Len(path) + 1, j)
      PROVE  \A k \in j .. Len(pattern) : pattern[k] = Globstar
  BY <1>1, <1>4, StaysAtEnd DEF CoversFrom
<1> QED
  BY <1>3, <1>4

\* A cut with the first place moved.
LEMMA CoversMoved ==
  ASSUME NEW Segment, NEW path \in Seq(Segment), NEW pattern \in Seq(Segment),
         NEW j \in 1 .. Len(pattern),
         NEW i \in 1 .. Len(path) + 1, NEW b \in {j, j + 1},
         NEW cut \in [b .. Len(pattern) + 1 -> 1 .. Len(path) + 1],
         cut[Len(pattern) + 1] = Len(path) + 1,
         \A k \in j + 1 .. Len(pattern) : Takes(path, pattern, cut, k),
         IF pattern[j] = Globstar THEN i <= cut[j + 1]
         ELSE cut[j + 1] = i + 1 /\ <<pattern[j], path[i]>> \in Fnmatch
  PROVE  CoversFrom(path, pattern, i, j)
<1> DEFINE c == [k \in j .. Len(pattern) + 1 |-> IF k = j THEN i ELSE cut[k]]
<1>1. Len(path) \in Nat /\ Len(pattern) \in Nat
  OBVIOUS
<1>2. /\ c \in [j .. Len(pattern) + 1 -> 1 .. Len(path) + 1] /\ c[j] = i
      /\ \A k \in j + 1 .. Len(pattern) + 1 : c[k] = cut[k]
  BY <1>1
<1> HIDE DEF c
<1>3. Len(pattern) + 1 \in j + 1 .. Len(pattern) + 1 /\ j + 1 \in j + 1 .. Len(pattern) + 1
  BY <1>1
<1>4. c[Len(pattern) + 1] = Len(path) + 1 /\ c[j + 1] = cut[j + 1]
  BY <1>2, <1>3
<1>5. ASSUME NEW k \in j .. Len(pattern) PROVE Takes(path, pattern, c, k)
  <2>1. CASE k = j
    BY <1>2, <1>4, <2>1 DEF Takes
  <2>2. CASE k # j
    <3>1. Takes(path, pattern, cut, k) /\ c[k] = cut[k] /\ c[k + 1] = cut[k + 1]
      BY <1>1, <1>2, <2>2
    <3> QED
      BY <3>1 DEF Takes
  <2> QED
    BY <2>1, <2>2
<1> QED
  BY <1>2, <1>5, <1>4 DEF CoversFrom

\* The tail of a cut.
LEMMA CoversRest ==
  ASSUME NEW Segment, NEW path \in Seq(Segment), NEW pattern \in Seq(Segment),
         NEW j \in 1 .. Len(pattern),
         NEW cut \in [j .. Len(pattern) + 1 -> 1 .. Len(path) + 1],
         cut[Len(pattern) + 1] = Len(path) + 1,
         \A k \in j + 1 .. Len(pattern) : Takes(path, pattern, cut, k)
  PROVE  CoversFrom(path, pattern, cut[j + 1], j + 1)
<1> DEFINE c == [k \in j + 1 .. Len(pattern) + 1 |-> cut[k]]
<1>1. Len(path) \in Nat /\ Len(pattern) \in Nat
  OBVIOUS
<1>2. /\ c \in [j + 1 .. Len(pattern) + 1 -> 1 .. Len(path) + 1]
      /\ \A k \in j + 1 .. Len(pattern) + 1 : c[k] = cut[k]
  BY <1>1
<1> HIDE DEF c
<1>3. ASSUME NEW k \in j + 1 .. Len(pattern) PROVE Takes(path, pattern, c, k)
  <2>1. Takes(path, pattern, cut, k) /\ c[k] = cut[k] /\ c[k + 1] = cut[k + 1]
    BY <1>1, <1>2
  <2> QED
    BY <2>1 DEF Takes
<1>4. c[Len(pattern) + 1] = Len(path) + 1 /\ c[j + 1] = cut[j + 1]
  BY <1>1, <1>2
<1> QED
  BY <1>2, <1>3, <1>4 DEF CoversFrom

\* A globstar takes nothing, or one segment more.
LEMMA CoversGlobstar ==
  ASSUME NEW Segment, NEW path \in Seq(Segment), NEW pattern \in Seq(Segment),
         NEW j \in 1 .. Len(pattern),
         NEW i \in 1 .. Len(path), pattern[j] = Globstar
  PROVE  CoversFrom(path, pattern, i, j)
           <=> CoversFrom(path, pattern, i, j + 1) \/ CoversFrom(path, pattern, i + 1, j)
<1>1. Len(path) \in Nat /\ Len(pattern) \in Nat /\ i \in 1 .. Len(path) + 1
  OBVIOUS
<1>2. ASSUME CoversFrom(path, pattern, i, j), ~ CoversFrom(path, pattern, i, j + 1)
      PROVE  CoversFrom(path, pattern, i + 1, j)
  <2>1. PICK cut \in [j .. Len(pattern) + 1 -> 1 .. Len(path) + 1] :
          /\ cut[j] = i /\ cut[Len(pattern) + 1] = Len(path) + 1
          /\ \A k \in j .. Len(pattern) : Takes(path, pattern, cut, k)
    BY <1>2 DEF CoversFrom
  <2>2. \A k \in j + 1 .. Len(pattern) : Takes(path, pattern, cut, k)
    BY <1>1, <2>1
  <2>3. cut[j + 1] # i
    BY <1>2, <2>1, <2>2, CoversRest
  <2>4. j \in j .. Len(pattern) /\ j + 1 \in j .. Len(pattern) + 1
    BY <1>1
  <2>5. Takes(path, pattern, cut, j) /\ cut[j + 1] \in 1 .. Len(path) + 1
    BY <2>1, <2>4
  <2>6. i + 1 <= cut[j + 1] /\ i + 1 \in 1 .. Len(path) + 1
    BY <1>1, <2>1, <2>3, <2>5 DEF Takes
  <2> QED
    BY <2>1, <2>2, <2>6, CoversMoved
<1>3. ASSUME CoversFrom(path, pattern, i, j + 1) PROVE CoversFrom(path, pattern, i, j)
  <2>1. PICK cut \in [j + 1 .. Len(pattern) + 1 -> 1 .. Len(path) + 1] :
          /\ cut[j + 1] = i /\ cut[Len(pattern) + 1] = Len(path) + 1
          /\ \A k \in j + 1 .. Len(pattern) : Takes(path, pattern, cut, k)
    BY <1>3 DEF CoversFrom
  <2>2. i <= cut[j + 1]
    BY <2>1
  <2> QED
    BY <1>1, <2>1, <2>2, CoversMoved
<1>4. ASSUME CoversFrom(path, pattern, i + 1, j) PROVE CoversFrom(path, pattern, i, j)
  <2>1. PICK cut \in [j .. Len(pattern) + 1 -> 1 .. Len(path) + 1] :
          /\ cut[j] = i + 1 /\ cut[Len(pattern) + 1] = Len(path) + 1
          /\ \A k \in j .. Len(pattern) : Takes(path, pattern, cut, k)
    BY <1>4 DEF CoversFrom
  <2>2. /\ Takes(path, pattern, cut, j) /\ cut[j + 1] \in 1 .. Len(path) + 1
        /\ \A k \in j + 1 .. Len(pattern) : Takes(path, pattern, cut, k)
    BY <1>1, <2>1
  <2>3. i <= cut[j + 1]
    BY <1>1, <2>1, <2>2 DEF Takes
  <2> QED
    BY <1>1, <2>1, <2>2, <2>3, CoversMoved
<1> QED
  BY <1>2, <1>3, <1>4

\* Another segment takes the one it matches.
LEMMA CoversOne ==
  ASSUME NEW Segment, NEW path \in Seq(Segment), NEW pattern \in Seq(Segment),
         NEW j \in 1 .. Len(pattern),
         NEW i \in 1 .. Len(path), pattern[j] # Globstar
  PROVE  CoversFrom(path, pattern, i, j)
           <=> <<pattern[j], path[i]>> \in Fnmatch /\ CoversFrom(path, pattern, i + 1, j + 1)
<1>1. Len(path) \in Nat /\ Len(pattern) \in Nat /\ i \in 1 .. Len(path) + 1
  OBVIOUS
<1>2. ASSUME CoversFrom(path, pattern, i, j)
      PROVE  <<pattern[j], path[i]>> \in Fnmatch /\ CoversFrom(path, pattern, i + 1, j + 1)
  <2>1. PICK cut \in [j .. Len(pattern) + 1 -> 1 .. Len(path) + 1] :
          /\ cut[j] = i /\ cut[Len(pattern) + 1] = Len(path) + 1
          /\ \A k \in j .. Len(pattern) : Takes(path, pattern, cut, k)
    BY <1>2 DEF CoversFrom
  <2>2. /\ Takes(path, pattern, cut, j)
        /\ \A k \in j + 1 .. Len(pattern) : Takes(path, pattern, cut, k)
    BY <1>1, <2>1
  <2>3. cut[j + 1] = i + 1 /\ <<pattern[j], path[i]>> \in Fnmatch
    BY <2>1, <2>2 DEF Takes
  <2>4. CoversFrom(path, pattern, cut[j + 1], j + 1)
    BY <2>1, <2>2, CoversRest
  <2> QED
    BY <2>3, <2>4
<1>3. ASSUME <<pattern[j], path[i]>> \in Fnmatch, CoversFrom(path, pattern, i + 1, j + 1)
      PROVE  CoversFrom(path, pattern, i, j)
  <2>1. PICK cut \in [j + 1 .. Len(pattern) + 1 -> 1 .. Len(path) + 1] :
          /\ cut[j + 1] = i + 1 /\ cut[Len(pattern) + 1] = Len(path) + 1
          /\ \A k \in j + 1 .. Len(pattern) : Takes(path, pattern, cut, k)
    BY <1>3 DEF CoversFrom
  <2> QED
    BY <1>1, <1>3, <2>1, CoversMoved
<1> QED
  BY <1>2, <1>3

\* What the table of the engine holds for the path from i and the pattern from j.
Entry(path, pattern, T, i, j) ==
  IF j > Len(pattern) THEN i > Len(path)
  ELSE IF i > Len(path)
  THEN \A k \in j .. Len(pattern) : pattern[k] = Globstar
  ELSE IF pattern[j] = Globstar THEN T[<<i, j + 1>>] \/ T[<<i + 1, j>>]
  ELSE <<pattern[j], path[i]>> \in Fnmatch /\ T[<<i + 1, j + 1>>]

LEMMA EntryBoolean ==
  ASSUME NEW path, NEW pattern, NEW T, NEW i, NEW j
  PROVE  Entry(path, pattern, T, i, j) \in BOOLEAN
<1>1. CASE j > Len(pattern)
  <2>1. Entry(path, pattern, T, i, j) = (i > Len(path))
    BY <1>1 DEF Entry
  <2> QED
    BY <2>1
<1>2. CASE ~ (j > Len(pattern)) /\ i > Len(path)
  <2>1. Entry(path, pattern, T, i, j) = (\A k \in j .. Len(pattern) : pattern[k] = Globstar)
    BY <1>2 DEF Entry
  <2> QED
    BY <2>1
<1>3. CASE ~ (j > Len(pattern)) /\ ~ (i > Len(path)) /\ pattern[j] = Globstar
  <2>1. Entry(path, pattern, T, i, j) = (T[<<i, j + 1>>] \/ T[<<i + 1, j>>])
    BY <1>3 DEF Entry
  <2> QED
    BY <2>1
<1>4. CASE ~ (j > Len(pattern)) /\ ~ (i > Len(path)) /\ pattern[j] # Globstar
  <2>1. Entry(path, pattern, T, i, j) = (<<pattern[j], path[i]>> \in Fnmatch /\ T[<<i + 1, j + 1>>])
    BY <1>4 DEF Entry
  <2> QED
    BY <2>1
<1> QED
  BY <1>1, <1>2, <1>3, <1>4

\* The entries after an entry decide it.
LEMMA EntryCovers ==
  ASSUME NEW Segment, NEW path \in Seq(Segment), NEW pattern \in Seq(Segment),
         NEW i \in 1 .. Len(path) + 1, NEW j \in 1 .. Len(pattern) + 1, NEW T,
         j \in 1 .. Len(pattern) /\ i \in 1 .. Len(path) =>
           /\ T[<<i, j + 1>>] <=> CoversFrom(path, pattern, i, j + 1)
           /\ T[<<i + 1, j>>] <=> CoversFrom(path, pattern, i + 1, j)
           /\ T[<<i + 1, j + 1>>] <=> CoversFrom(path, pattern, i + 1, j + 1)
  PROVE  Entry(path, pattern, T, i, j) <=> CoversFrom(path, pattern, i, j)
<1>1. Len(path) \in Nat /\ Len(pattern) \in Nat
  OBVIOUS
<1>2. CASE j > Len(pattern)
  <2>1. j = Len(pattern) + 1
    BY <1>1, <1>2
  <2>2. CoversFrom(path, pattern, i, j) <=> i > Len(path)
    BY <2>1, CoversEnd
  <2> QED
    BY <1>2, <2>2 DEF Entry
<1>3. CASE ~ (j > Len(pattern)) /\ i > Len(path)
  <2>1. i = Len(path) + 1 /\ j \in 1 .. Len(pattern)
    BY <1>1, <1>3
  <2>2. CoversFrom(path, pattern, i, j) <=> \A k \in j .. Len(pattern) : pattern[k] = Globstar
    BY <2>1, CoversNothing
  <2> QED
    BY <1>3, <2>2 DEF Entry
<1>4. CASE ~ (j > Len(pattern)) /\ ~ (i > Len(path))
  <2>1. j \in 1 .. Len(pattern) /\ i \in 1 .. Len(path)
    BY <1>1, <1>4
  <2>2. CASE pattern[j] = Globstar
    <3>1. CoversFrom(path, pattern, i, j)
            <=> CoversFrom(path, pattern, i, j + 1) \/ CoversFrom(path, pattern, i + 1, j)
      BY <2>1, <2>2, CoversGlobstar
    <3>2. Entry(path, pattern, T, i, j) <=> T[<<i, j + 1>>] \/ T[<<i + 1, j>>]
      BY <1>4, <2>2 DEF Entry
    <3> QED
      BY <2>1, <3>1, <3>2
  <2>3. CASE pattern[j] # Globstar
    <3>1. CoversFrom(path, pattern, i, j)
            <=> <<pattern[j], path[i]>> \in Fnmatch /\ CoversFrom(path, pattern, i + 1, j + 1)
      BY <2>1, <2>3, CoversOne
    <3>2. Entry(path, pattern, T, i, j)
            <=> <<pattern[j], path[i]>> \in Fnmatch /\ T[<<i + 1, j + 1>>]
      BY <1>4, <2>3 DEF Entry
    <3> QED
      BY <2>1, <3>1, <3>2
  <2> QED
    BY <2>2, <2>3
<1> QED
  BY <1>2, <1>3, <1>4

\* Two tables that follow the rule agree: the least place where they differ
\* would be decided by places where they do not.
LEMMA MatchSegmentsCovers ==
  ASSUME NEW Segment, NEW path \in Seq(Segment), NEW pattern \in Seq(Segment)
  PROVE  MatchSegments(path, pattern) <=> Covers(path, pattern)
<1> DEFINE I == 1 .. Len(path) + 1
           J == 1 .. Len(pattern) + 1
           F == [at \in I \X J |-> CoversFrom(path, pattern, at[1], at[2])]
           M == CHOOSE T : T = [at \in I \X J |-> Entry(path, pattern, T, at[1], at[2])]
<1>1. MatchSegments(path, pattern) = M[<<1, 1>>]
  BY DEF MatchSegments, Entry
<1>2. Len(path) \in Nat /\ Len(pattern) \in Nat
  OBVIOUS
<1>3. ASSUME NEW i \in I, NEW j \in J, j \in 1 .. Len(pattern), i \in 1 .. Len(path)
      PROVE  i + 1 \in I /\ j + 1 \in J
  BY <1>2, <1>3
<1>4. F = [at \in I \X J |-> Entry(path, pattern, F, at[1], at[2])]
  <2>1. \A i \in I, j \in J : F[<<i, j>>] <=> CoversFrom(path, pattern, i, j)
    OBVIOUS
  <2> HIDE DEF F
  <2>2. ASSUME NEW i \in I, NEW j \in J
        PROVE  Entry(path, pattern, F, i, j) <=> CoversFrom(path, pattern, i, j)
    BY <1>3, <2>1, EntryCovers
  <2>3. ASSUME NEW at \in I \X J
        PROVE  Entry(path, pattern, F, at[1], at[2]) = CoversFrom(path, pattern, at[1], at[2])
    <3>1. CoversFrom(path, pattern, at[1], at[2]) \in BOOLEAN
      BY DEF CoversFrom
    <3>2. Entry(path, pattern, F, at[1], at[2]) \in BOOLEAN
      BY EntryBoolean
    <3>3. Entry(path, pattern, F, at[1], at[2]) <=> CoversFrom(path, pattern, at[1], at[2])
      BY <2>2
    <3> QED
      BY <3>1, <3>2, <3>3
  <2> HIDE DEF I, J
  <2>4. [at \in I \X J |-> Entry(path, pattern, F, at[1], at[2])]
          = [at \in I \X J |-> CoversFrom(path, pattern, at[1], at[2])]
    BY <2>3
  <2> QED
    BY <2>4 DEF F
<1>5. M = [at \in I \X J |-> Entry(path, pattern, M, at[1], at[2])]
  <2> HIDE DEF F, I, J
  <2> QED
    BY <1>4
<1> HIDE DEF F, M
<1>6. ASSUME NEW i \in I, NEW j \in J
      PROVE  M[<<i, j>>] = Entry(path, pattern, M, i, j)
  <2> HIDE DEF I, J
  <2> QED
    BY <1>5
<1>7. \A i \in I : i \in Nat /\ i <= Len(path) + 1
  BY <1>2
<1>8. \A j \in J : j \in Nat /\ j <= Len(pattern) + 1
  BY <1>2
<1> DEFINE wrong == {n \in Nat : \E i \in I, j \in J :
                       /\ n = Len(path) + Len(pattern) + 2 - i - j
                       /\ ~ (M[<<i, j>>] <=> CoversFrom(path, pattern, i, j))}
<1>9. wrong = {}
  <2> SUFFICES ASSUME wrong # {} PROVE FALSE
    OBVIOUS
  <2>1. PICK n \in wrong : \A m \in wrong : <<m, n>> \notin OpToRel(<, Nat)
    BY NatLessThanWellFounded, WFMin
  <2>2. \A m \in wrong : ~ (m < n)
    BY <2>1 DEF OpToRel
  <2>3. PICK i \in I, j \in J : /\ n = Len(path) + Len(pattern) + 2 - i - j
                                /\ ~ (M[<<i, j>>] <=> CoversFrom(path, pattern, i, j))
    OBVIOUS
  <2>4. ASSUME NEW k \in I, NEW l \in J, k + l > i + j
        PROVE  M[<<k, l>>] <=> CoversFrom(path, pattern, k, l)
    <3>1. PICK m : m = Len(path) + Len(pattern) + 2 - k - l
      OBVIOUS
    <3>2. m \in Nat /\ m < n
      <4> HIDE DEF I, J, wrong
      <4> QED
        BY <1>2, <1>7, <1>8, <2>3, <2>4, <3>1
    <3>3. m \notin wrong
      <4> HIDE DEF wrong
      <4> QED
        BY <2>2, <3>2
    <3> QED
      BY <3>1, <3>2, <3>3
  <2> HIDE DEF wrong
  <2>5. j \in 1 .. Len(pattern) /\ i \in 1 .. Len(path) =>
          /\ M[<<i, j + 1>>] <=> CoversFrom(path, pattern, i, j + 1)
          /\ M[<<i + 1, j>>] <=> CoversFrom(path, pattern, i + 1, j)
          /\ M[<<i + 1, j + 1>>] <=> CoversFrom(path, pattern, i + 1, j + 1)
    BY <1>2, <1>3, <2>4
  <2>6. Entry(path, pattern, M, i, j) <=> CoversFrom(path, pattern, i, j)
    BY <2>5, EntryCovers
  <2> QED
    BY <1>6, <2>3, <2>6
<1>10. 1 \in I /\ 1 \in J
  BY <1>2
<1>11. M[<<1, 1>>] <=> CoversFrom(path, pattern, 1, 1)
  <2>1. Len(path) + Len(pattern) + 2 - 1 - 1 \in Nat
    BY <1>2
  <2> QED
    BY <1>9, <1>10, <2>1
<1> QED
  BY <1>1, <1>11 DEF CoversFrom, Covers, Takes

\* Cuts never go back.
LEMMA CutRises ==
  ASSUME NEW Segment, NEW path \in Seq(Segment), NEW pattern \in Seq(Segment),
         NEW j \in 1 .. Len(pattern) + 1,
         NEW cut \in [j .. Len(pattern) + 1 -> 1 .. Len(path) + 1],
         \A k \in j .. Len(pattern) : Takes(path, pattern, cut, k)
  PROVE  \A k \in j .. Len(pattern) + 1 : cut[j] <= cut[k]
<1>1. Len(path) \in Nat /\ Len(pattern) \in Nat
  OBVIOUS
<1> DEFINE back == {k \in j .. Len(pattern) + 1 : ~ (cut[j] <= cut[k])}
<1>2. back = {}
  <2> SUFFICES ASSUME back # {} PROVE FALSE
    OBVIOUS
  <2>1. back \subseteq Nat
    BY <1>1
  <2>2. PICK k \in back : \A l \in back : <<l, k>> \notin OpToRel(<, Nat)
    BY <2>1, NatLessThanWellFounded, WFMin
  <2>3. k \in j .. Len(pattern) + 1 /\ ~ (cut[j] <= cut[k])
    BY <2>2
  <2>4. j \in j .. Len(pattern) + 1 /\ cut[j] \in Nat
    BY <1>1
  <2>5. k # j
    BY <2>3, <2>4
  <2>6. k - 1 \in j .. Len(pattern) /\ k - 1 \in Nat /\ k \in Nat /\ (k - 1) + 1 = k
    BY <1>1, <2>3, <2>5
  <2>7. k - 1 \notin back
    <3>1. <<k - 1, k>> \in OpToRel(<, Nat)
      BY <2>6 DEF OpToRel
    <3> QED
      BY <2>2, <3>1
  <2>8. k - 1 \in j .. Len(pattern) + 1
    BY <1>1, <2>6
  <2>9. cut[j] <= cut[k - 1] /\ cut[k - 1] \in Nat /\ cut[k] \in Nat
    <3>1. cut[j] <= cut[k - 1]
      BY <2>7, <2>8
    <3>2. cut[k - 1] \in 1 .. Len(path) + 1 /\ cut[k] \in 1 .. Len(path) + 1
      BY <2>3, <2>8
    <3> QED
      BY <1>1, <3>1, <3>2
  <2>10. Takes(path, pattern, cut, k - 1)
    BY <2>6
  <2>11. cut[k - 1] <= cut[k]
    BY <2>6, <2>9, <2>10 DEF Takes
  <2> QED
    BY <2>3, <2>4, <2>9, <2>11
<1> QED
  BY <1>2

\* The end of a path from n on, and a pattern without its first segment.
LEMMA CoversEnds ==
  ASSUME NEW Segment, NEW path \in Seq(Segment), NEW pattern \in Seq(Segment), Len(pattern) > 1,
         NEW n \in 1 .. Len(path)
  PROVE  Covers(SubSeq(path, n, Len(path)), Tail(pattern)) <=> CoversFrom(path, pattern, n, 2)
<1>1. PICK end : end = SubSeq(path, n, Len(path))
  OBVIOUS
<1>2. PICK rest : rest = Tail(pattern)
  OBVIOUS
<1>3. Len(path) \in Nat /\ Len(pattern) \in Nat /\ n \in Nat /\ n >= 1 /\ n <= Len(path)
  OBVIOUS
<1>4. /\ end \in Seq(Segment) /\ Len(end) = Len(path) - n + 1
      /\ \A k \in 1 .. Len(end) : end[k] = path[k + n - 1]
  BY <1>1, <1>3, SubSeqProperties
<1>5. /\ rest \in Seq(Segment) /\ Len(rest) = Len(pattern) - 1
      /\ \A k \in 1 .. Len(rest) : rest[k] = pattern[k + 1]
  BY <1>2, HeadTailProperties
<1>6. ASSUME CoversFrom(end, rest, 1, 1) PROVE CoversFrom(path, pattern, n, 2)
  <2>1. PICK cut \in [1 .. Len(rest) + 1 -> 1 .. Len(end) + 1] :
          /\ cut[1] = 1 /\ cut[Len(rest) + 1] = Len(end) + 1
          /\ \A k \in 1 .. Len(rest) : Takes(end, rest, cut, k)
    BY <1>6 DEF CoversFrom
  <2> DEFINE c == [k \in 2 .. Len(pattern) + 1 |-> cut[k - 1] + n - 1]
  <2>2. ASSUME NEW k \in 2 .. Len(pattern) + 1
        PROVE  c[k] = cut[k - 1] + n - 1 /\ c[k] \in 1 .. Len(path) + 1
    <3>1. cut[k - 1] \in 1 .. Len(end) + 1
      <4>1. k - 1 \in 1 .. Len(rest) + 1
        BY <1>3, <1>5
      <4> QED
        BY <4>1
    <3> QED
      BY <1>3, <1>4, <3>1
  <2>3. c \in [2 .. Len(pattern) + 1 -> 1 .. Len(path) + 1]
    BY <2>2
  <2> HIDE DEF c
  <2>4. c[2] = n /\ c[Len(pattern) + 1] = Len(path) + 1
    <3>1. 2 \in 2 .. Len(pattern) + 1 /\ Len(pattern) + 1 \in 2 .. Len(pattern) + 1
      BY <1>3
    <3>2. c[2] = cut[2 - 1] + n - 1 /\ c[Len(pattern) + 1] = cut[(Len(pattern) + 1) - 1] + n - 1
      BY <2>2, <3>1
    <3>3. 2 - 1 = 1 /\ (Len(pattern) + 1) - 1 = Len(rest) + 1
      BY <1>3, <1>5
    <3>4. c[2] = 1 + n - 1 /\ c[Len(pattern) + 1] = Len(end) + 1 + n - 1
      BY <2>1, <3>2, <3>3
    <3> QED
      BY <1>3, <1>4, <3>4
  <2>5. ASSUME NEW k \in 2 .. Len(pattern) PROVE Takes(path, pattern, c, k)
    <3>1. /\ k - 1 \in 1 .. Len(rest) /\ (k - 1) + 1 = k /\ k \in 2 .. Len(pattern) + 1
          /\ k + 1 \in 2 .. Len(pattern) + 1 /\ (k + 1) - 1 = k /\ k \in 1 .. Len(rest) + 1
          /\ k - 1 \in 1 .. Len(rest) + 1
      BY <1>3, <1>5
    <3>2. Takes(end, rest, cut, k - 1) /\ rest[k - 1] = pattern[k]
      BY <1>5, <2>1, <3>1
    <3>3. c[k] = cut[k - 1] + n - 1 /\ c[k + 1] = cut[k] + n - 1
      BY <2>2, <3>1
    <3>4. cut[k - 1] \in 1 .. Len(end) + 1 /\ cut[k] \in 1 .. Len(end) + 1
      BY <3>1
    <3>5. CASE pattern[k] = Globstar
      <4>1. cut[k - 1] <= cut[k]
        BY <3>1, <3>2, <3>5 DEF Takes
      <4>2. c[k] <= c[k + 1]
        BY <1>3, <1>4, <3>3, <3>4, <4>1
      <4> QED
        BY <3>5, <4>2 DEF Takes
    <3>6. CASE pattern[k] # Globstar
      <4>1. cut[k] = cut[k - 1] + 1 /\ <<pattern[k], end[cut[k - 1]]>> \in Fnmatch
        BY <3>1, <3>2, <3>6 DEF Takes
      <4>2. cut[k - 1] \in 1 .. Len(end)
        BY <1>3, <1>4, <3>4, <4>1
      <4>3. end[cut[k - 1]] = path[c[k]]
        BY <1>4, <3>3, <4>2
      <4>4. c[k + 1] = c[k] + 1
        BY <1>3, <1>4, <3>3, <3>4, <4>1
      <4> QED
        BY <3>6, <4>1, <4>3, <4>4 DEF Takes
    <3> QED
      BY <3>5, <3>6
  <2> QED
    BY <2>3, <2>4, <2>5 DEF CoversFrom
<1>7. ASSUME CoversFrom(path, pattern, n, 2) PROVE CoversFrom(end, rest, 1, 1)
  <2>1. PICK cut \in [2 .. Len(pattern) + 1 -> 1 .. Len(path) + 1] :
          /\ cut[2] = n /\ cut[Len(pattern) + 1] = Len(path) + 1
          /\ \A k \in 2 .. Len(pattern) : Takes(path, pattern, cut, k)
    BY <1>7 DEF CoversFrom
  <2>2. \A k \in 2 .. Len(pattern) + 1 : n <= cut[k]
    <3>1. 2 \in 1 .. Len(pattern) + 1
      BY <1>3
    <3> QED
      BY <2>1, <3>1, CutRises
  <2> DEFINE c == [k \in 1 .. Len(rest) + 1 |-> cut[k + 1] - n + 1]
  <2>3. ASSUME NEW k \in 1 .. Len(rest) + 1
        PROVE  c[k] = cut[k + 1] - n + 1 /\ c[k] \in 1 .. Len(end) + 1
    <3>1. k + 1 \in 2 .. Len(pattern) + 1
      BY <1>3, <1>5
    <3>2. cut[k + 1] \in 1 .. Len(path) + 1 /\ n <= cut[k + 1]
      BY <2>2, <3>1
    <3> QED
      BY <1>3, <1>4, <3>2
  <2>4. c \in [1 .. Len(rest) + 1 -> 1 .. Len(end) + 1]
    BY <2>3
  <2> HIDE DEF c
  <2>5. c[1] = 1 /\ c[Len(rest) + 1] = Len(end) + 1
    <3>1. 1 \in 1 .. Len(rest) + 1 /\ Len(rest) + 1 \in 1 .. Len(rest) + 1
      BY <1>3, <1>5
    <3>2. c[1] = cut[1 + 1] - n + 1 /\ c[Len(rest) + 1] = cut[(Len(rest) + 1) + 1] - n + 1
      BY <2>3, <3>1
    <3>3. 1 + 1 = 2 /\ (Len(rest) + 1) + 1 = Len(pattern) + 1
      BY <1>3, <1>5
    <3>4. c[1] = n - n + 1 /\ c[Len(rest) + 1] = Len(path) + 1 - n + 1
      BY <2>1, <3>2, <3>3
    <3> QED
      BY <1>3, <1>4, <3>4
  <2>6. ASSUME NEW k \in 1 .. Len(rest) PROVE Takes(end, rest, c, k)
    <3>1. /\ k + 1 \in 2 .. Len(pattern) /\ k \in 1 .. Len(rest) + 1
          /\ k + 1 \in 1 .. Len(rest) + 1 /\ k + 1 \in 2 .. Len(pattern) + 1
          /\ (k + 1) + 1 \in 2 .. Len(pattern) + 1
      BY <1>3, <1>5
    <3>2. Takes(path, pattern, cut, k + 1) /\ rest[k] = pattern[k + 1]
      BY <1>5, <2>1, <3>1
    <3>3. c[k] = cut[k + 1] - n + 1 /\ c[k + 1] = cut[(k + 1) + 1] - n + 1
      BY <2>3, <3>1
    <3>4. /\ cut[k + 1] \in 1 .. Len(path) + 1 /\ cut[(k + 1) + 1] \in 1 .. Len(path) + 1
          /\ n <= cut[k + 1]
      BY <2>2, <3>1
    <3>5. CASE rest[k] = Globstar
      <4>1. cut[k + 1] <= cut[(k + 1) + 1]
        BY <3>2, <3>5 DEF Takes
      <4>2. c[k] <= c[k + 1]
        BY <1>3, <3>3, <3>4, <4>1
      <4> QED
        BY <3>5, <4>2 DEF Takes
    <3>6. CASE rest[k] # Globstar
      <4>1. cut[(k + 1) + 1] = cut[k + 1] + 1 /\ <<rest[k], path[cut[k + 1]]>> \in Fnmatch
        BY <3>2, <3>6 DEF Takes
      <4>2. c[k] \in 1 .. Len(end) /\ c[k] + n - 1 = cut[k + 1]
        <5>1. PICK a \in 1 .. Len(path) + 1, b \in 1 .. Len(path) + 1 :
                a = cut[k + 1] /\ b = cut[(k + 1) + 1]
          BY <3>4
        <5>2. n <= a /\ b = a + 1 /\ c[k] = a - n + 1
          BY <3>3, <3>4, <4>1, <5>1
        <5>3. a \in Nat /\ a <= Len(path)
          BY <1>3, <5>2
        <5> QED
          <6>1. PICK e : e = Len(end)
            OBVIOUS
          <6>2. e = Len(path) - n + 1
            BY <1>4, <6>1
          <6>3. a - n + 1 \in 1 .. e /\ (a - n + 1) + n - 1 = a
            BY <1>3, <5>2, <5>3, <6>2
          <6> QED
            BY <5>1, <5>2, <6>1, <6>3
      <4>3. end[c[k]] = path[cut[k + 1]]
        BY <1>4, <4>2
      <4>4. c[k + 1] = c[k] + 1
        BY <1>3, <3>3, <3>4, <4>1
      <4> QED
        BY <3>6, <4>1, <4>3, <4>4 DEF Takes
    <3> QED
      BY <3>5, <3>6
  <2> QED
    BY <2>4, <2>5, <2>6 DEF CoversFrom
<1>8. Covers(end, rest) <=> CoversFrom(end, rest, 1, 1)
  BY DEF Covers, CoversFrom, Takes
<1> QED
  BY <1>1, <1>2, <1>6, <1>7, <1>8

\* A path pattern matches what it covers.
LEMMA MatchPathCovers ==
  ASSUME NEW Segment, NEW path \in Seq(Segment), path # << >>,
         NEW pattern \in Seq(Segment) \ {<< >>, <<Globstar>>}
  PROVE  MatchPath(path, pattern) <=> Covers(path, pattern)
<1>1. Len(path) \in Nat \ {0} /\ Len(pattern) \in Nat \ {0}
  BY EmptySeq
<1>2. CASE pattern[1] # Globstar
  BY <1>2, MatchSegmentsCovers DEF MatchPath
<1>3. CASE pattern[1] = Globstar
  <2>1. Len(pattern) # 1
    <3>1. ASSUME Len(pattern) = 1 PROVE pattern = <<Globstar>>
      <4>1. <<Globstar>> \in Seq(Segment \cup {Globstar}) /\ pattern \in Seq(Segment \cup {Globstar})
        OBVIOUS
      <4>2. Len(<<Globstar>>) = 1 /\ <<Globstar>>[1] = Globstar
        OBVIOUS
      <4> QED
        BY <1>3, <3>1, <4>1, <4>2, SeqEqual
    <3> QED
      BY <3>1
  <2>2. /\ Len(pattern) > 1 /\ 1 \in 1 .. Len(pattern) /\ 2 \in 1 .. Len(pattern)
        /\ 2 \in 1 .. Len(pattern) + 1 /\ 1 + 1 = 2
    <3>1. PICK n \in Nat \ {0} : n = Len(pattern)
      BY <1>1
    <3>2. n # 1
      BY <2>1, <3>1
    <3>3. n >= 2
      BY <3>2
    <3> QED
      BY <3>1, <3>3
  <2>3. Tail(pattern) \in Seq(Segment) /\ \A n \in 1 .. Len(path) : SubSeq(path, n, Len(path)) \in Seq(Segment)
    BY <2>2, HeadTailProperties, SubSeqProperties
  <2>4. MatchPath(path, pattern)
          <=> \E n \in 1 .. Len(path) : CoversFrom(path, pattern, n, 2)
    <3>1. MatchPath(path, pattern)
            <=> \E n \in 1 .. Len(path) : MatchSegments(SubSeq(path, n, Len(path)), Tail(pattern))
      BY <1>3, <2>1 DEF MatchPath, MatchGlobstarPath
    <3>2. \A n \in 1 .. Len(path) :
            MatchSegments(SubSeq(path, n, Len(path)), Tail(pattern))
              <=> CoversFrom(path, pattern, n, 2)
      BY <2>2, <2>3, MatchSegmentsCovers, CoversEnds
    <3> QED
      BY <3>1, <3>2
  <2>5. ASSUME NEW n \in 1 .. Len(path), CoversFrom(path, pattern, n, 2)
        PROVE  CoversFrom(path, pattern, 1, 1)
    <3>1. PICK cut \in [2 .. Len(pattern) + 1 -> 1 .. Len(path) + 1] :
            /\ cut[2] = n /\ cut[Len(pattern) + 1] = Len(path) + 1
            /\ \A k \in 2 .. Len(pattern) : Takes(path, pattern, cut, k)
      BY <2>5 DEF CoversFrom
    <3>2. 1 <= cut[1 + 1] /\ 1 \in 1 .. Len(path) + 1
      BY <1>1, <3>1
    <3> QED
      BY <1>3, <2>2, <3>1, <3>2, CoversMoved
  <2>6. ASSUME CoversFrom(path, pattern, 1, 1)
        PROVE  \E n \in 1 .. Len(path) : CoversFrom(path, pattern, n, 2)
    <3>1. PICK cut \in [1 .. Len(pattern) + 1 -> 1 .. Len(path) + 1] :
            /\ cut[1] = 1 /\ cut[Len(pattern) + 1] = Len(path) + 1
            /\ \A k \in 1 .. Len(pattern) : Takes(path, pattern, cut, k)
      BY <2>6 DEF CoversFrom
    <3>2. \A k \in 1 + 1 .. Len(pattern) : Takes(path, pattern, cut, k)
      BY <1>1, <3>1
    <3>3. CoversFrom(path, pattern, cut[1 + 1], 1 + 1)
      BY <2>2, <3>1, <3>2, CoversRest
    <3>4. cut[2] \in 1 .. Len(path) + 1 /\ CoversFrom(path, pattern, cut[2], 2)
      BY <2>2, <3>3
    <3>5. CASE cut[2] # Len(path) + 1
      <4>1. cut[2] \in 1 .. Len(path)
        BY <1>1, <3>4, <3>5
      <4> QED
        BY <3>4, <4>1
    <3>6. CASE cut[2] = Len(path) + 1
      <4>1. pattern[2] = Globstar
        <5>1. \A k \in 2 .. Len(pattern) : pattern[k] = Globstar
          BY <2>2, <3>4, <3>6, CoversNothing
        <5> QED
          BY <1>1, <2>2, <5>1
      <4>2. Len(path) \in 1 .. Len(path)
        BY <1>1
      <4>3. CoversFrom(path, pattern, Len(path), 2)
        BY <2>2, <3>4, <3>6, <4>1, <4>2, CoversGlobstar
      <4> QED
        BY <4>2, <4>3
    <3> QED
      BY <3>5, <3>6
  <2> QED
    BY <2>4, <2>5, <2>6 DEF Covers, CoversFrom, Takes
<1> QED
  BY <1>2, <1>3

LEMMA Single ==
  ASSUME NEW S, NEW x \in S
  PROVE  <<x>> \in Seq(S) /\ Len(<<x>>) = 1
  OBVIOUS

LEMMA Wider ==
  ASSUME NEW S, NEW T, S \subseteq T, NEW s \in Seq(S)
  PROVE  s \in Seq(T)
  OBVIOUS

\* The filter takes for test files the files its patterns say are
\* (_get_pattern_set_for_language, PatternSet.match, CompiledPattern.match_path).
THEOREM FilterIsExact ==
  \A language : \A f \in Files : IsTest(language, f) <=> OfTests(language, f)
<1> SUFFICES ASSUME NEW language, NEW f \in Files
             PROVE  IsTest(language, f) <=> OfTests(language, f)
  OBVIOUS
<1>1. f \in Seq(STRING) \ {<< >>}
  <2>1. FileOrder \in Seq(Seq(STRING) \ {<< >>})
    BY AnswerAssumption
  <2>2. PICK n \in 1 .. Len(FileOrder) : f = FileOrder[n]
    BY DEF Files
  <2> QED
    BY <2>1, <2>2, ElementOfSeq
<1>2. PICK path : path = <<"">> \o f
  OBVIOUS
<1> DEFINE Segment == STRING \cup {"", Globstar}
<1>3. path \in Seq(Segment) /\ path # << >>
  <2>1. <<"">> \in Seq(Segment) /\ Len(<<"">>) = 1 /\ f \in Seq(Segment)
    <3>1. f \in Seq(Segment)
      BY <1>1, Wider
    <3>2. "" \in Segment
      OBVIOUS
    <3> HIDE DEF Segment
    <3> QED
      BY <3>1, <3>2, Single
  <2> HIDE DEF Segment
  <2>2. path \in Seq(Segment) /\ Len(path) = 1 + Len(f)
    BY <1>2, <2>1, ConcatProperties
  <2>3. PICK n \in Nat : n = Len(f)
    BY <1>1
  <2>4. Len(path) # 0
    BY <2>2, <2>3
  <2> QED
    BY <2>2, <2>4, EmptySeq
<1> DEFINE l == IF language \in DOMAIN FilterConfig THEN language ELSE NoLanguage
           own == IF language \in DOMAIN FilterConfig THEN FilterConfig[language] ELSE DefaultFilter
           set == IF own.directory = {} /\ own.suffix \cup own.prefix = {} THEN DefaultFilter ELSE own
<1>4. PatternSetFor(language) = set
  BY DEF PatternSetFor, GetFilter, IsEmpty
<1>5. set.include \cup set.directory \subseteq Seq(STRING) \ {<< >>, <<Globstar>>}
  <2>1. own \in {DefaultFilter} \cup {FilterConfig[k] : k \in DOMAIN FilterConfig}
    OBVIOUS
  <2> QED
    BY <2>1, FilterAssumption
<1> HIDE DEF set, own
<1>6. \A p \in set.include \cup set.directory : MatchPath(path, p) <=> Covers(path, p)
  <2>1. \A p \in set.include \cup set.directory : p \in Seq(Segment) \ {<< >>, <<Globstar>>}
    <3>1. STRING \subseteq Segment
      OBVIOUS
    <3> HIDE DEF Segment
    <3> QED
      BY <1>5, <3>1, Wider
  <2> HIDE DEF Segment
  <2> QED
    BY <1>3, <2>1, MatchPathCovers
<1>7. IsTest(language, f)
        <=> /\ \A p \in set.include : ~ Covers(path, p)
            /\ \/ \E p \in set.directory : Covers(path, p)
               \/ \E p \in set.suffix \cup set.prefix : <<p, f[Len(f)]>> \in Fnmatch
  BY <1>2, <1>4, <1>6 DEF IsTest, MatchFilename
<1>8. OfTests(language, f)
        <=> /\ \A p \in set.include : ~ Covers(path, p)
            /\ \/ \E p \in set.directory : Covers(path, p)
               \/ \E p \in set.suffix \cup set.prefix : <<p, f[Len(f)]>> \in Fnmatch
  <2>1. l \in DOMAIN FilterConfig \cup {NoLanguage}
    OBVIOUS
  <2>2. own = IF l \in DOMAIN FilterConfig THEN FilterConfig[l] ELSE DefaultFilter
    BY FilterAssumption DEF own
  <2> HIDE DEF l
  <2> QED
    BY <1>2, <2>1, <2>2 DEF OfTests, TestFiles, set, l
<1> QED
  BY <1>7, <1>8

-----------------------------------------------------------------------------
(* Lists in the order of a key.                                            *)

Key == Nat \X Nat \X Nat

LEMMA BeforeOrders ==
  ASSUME NEW k \in Key, NEW l \in Key, NEW m \in Key
  PROVE  /\ ~ Before(k, k)
         /\ Before(k, l) /\ Before(l, m) => Before(k, m)
         /\ k # l => Before(k, l) \/ Before(l, k)
<1>1. PICK k1 \in Nat, k2 \in Nat, k3 \in Nat : k = <<k1, k2, k3>>
  BY DEF Key
<1>2. PICK l1 \in Nat, l2 \in Nat, l3 \in Nat : l = <<l1, l2, l3>>
  BY DEF Key
<1>3. PICK m1 \in Nat, m2 \in Nat, m3 \in Nat : m = <<m1, m2, m3>>
  BY DEF Key
<1>4. ~ Before(k, k)
  BY <1>1 DEF Before
<1>5. Before(k, l) /\ Before(l, m) => Before(k, m)
  BY <1>1, <1>2, <1>3 DEF Before
<1>6. k # l => Before(k, l) \/ Before(l, k)
  BY <1>1, <1>2 DEF Before
<1> QED
  BY <1>4, <1>5, <1>6

\* Places with different keys: a place has fewer before it than any after it.
LEMMA Ranked ==
  ASSUME NEW S, IsFiniteSet(S), NEW key \in [S -> Key],
         \A p, q \in S : key[p] = key[q] => p = q
  PROVE  /\ \A p \in S : Rank(key, p) \in 0 .. Cardinality(S) - 1
         /\ \A p, q \in S : Before(key[p], key[q]) => Rank(key, p) < Rank(key, q)
         /\ \A p, q \in S : Rank(key, p) = Rank(key, q) => p = q
<1> DEFINE lower(p) == {q \in S : Before(key[q], key[p])}
<1>1. \A p \in S : Rank(key, p) = Cardinality(lower(p))
  BY DEF Rank
<1>2. Cardinality(S) \in Nat
  BY FS_CardinalityType
<1>3. ASSUME NEW p \in S PROVE IsFiniteSet(lower(p)) /\ Cardinality(lower(p)) \in Nat
  BY FS_Subset, FS_CardinalityType
<1>4. ASSUME NEW p \in S PROVE Cardinality(lower(p)) \in 0 .. Cardinality(S) - 1
  <2>1. lower(p) \subseteq S \ {p}
    BY BeforeOrders
  <2>2. IsFiniteSet(S \ {p}) /\ Cardinality(S \ {p}) = Cardinality(S) - 1
    BY FS_RemoveElement
  <2> HIDE DEF lower
  <2>3. Cardinality(lower(p)) <= Cardinality(S) - 1
    BY <2>1, <2>2, FS_Subset
  <2> QED
    BY <1>2, <1>3, <2>3
<1>5. ASSUME NEW p \in S, NEW q \in S, Before(key[p], key[q])
      PROVE  Cardinality(lower(p)) < Cardinality(lower(q))
  <2>1. lower(p) \subseteq lower(q)
    <3>1. ASSUME NEW r \in lower(p) PROVE r \in lower(q)
      BY <1>5, BeforeOrders
    <3> QED
      BY <3>1
  <2>2. p \in lower(q) /\ p \notin lower(p)
    BY <1>5, BeforeOrders
  <2>3. IsFiniteSet(lower(q)) /\ Cardinality(lower(p)) \in Nat /\ Cardinality(lower(q)) \in Nat
    BY <1>3
  <2> HIDE DEF lower
  <2>4. Cardinality(lower(p)) <= Cardinality(lower(q)) /\ Cardinality(lower(q)) # Cardinality(lower(p))
    BY <2>1, <2>2, <2>3, FS_Subset
  <2> QED
    BY <2>3, <2>4
<1>6. ASSUME NEW p \in S, NEW q \in S, Cardinality(lower(p)) = Cardinality(lower(q))
      PROVE  p = q
  <2>1. ~ (Cardinality(lower(p)) < Cardinality(lower(q)))
        /\ ~ (Cardinality(lower(q)) < Cardinality(lower(p)))
    BY <1>3, <1>6
  <2>2. ~ Before(key[p], key[q]) /\ ~ Before(key[q], key[p])
    BY <1>5, <2>1
  <2> QED
    BY <2>2, BeforeOrders
<1> HIDE DEF lower
<1> QED
  BY <1>1, <1>4, <1>5, <1>6

\* The order of a key meets every place once, the ones before first.
LEMMA OrderFound ==
  ASSUME NEW S, IsFiniteSet(S), NEW key \in [S -> Key],
         \A p, q \in S : key[p] = key[q] => p = q
  PROVE  /\ Cardinality(S) \in Nat
         /\ InOrder(key) \in Bijection(1 .. Cardinality(S), S)
         /\ \A m, n \in 1 .. Cardinality(S) :
              m < n => Before(key[InOrder(key)[m]], key[InOrder(key)[n]])
<1> DEFINE N == Cardinality(S)
           order == InOrder(key)
           r == [p \in S |-> Rank(key, p) + 1]
<1>1. N \in Nat
  BY FS_CardinalityType
<1>2. /\ \A p \in S : Rank(key, p) \in 0 .. N - 1
      /\ \A p, q \in S : Before(key[p], key[q]) => Rank(key, p) < Rank(key, q)
      /\ \A p, q \in S : Rank(key, p) = Rank(key, q) => p = q
  BY Ranked
<1>3. r \in Injection(S, 1 .. N)
  <2>1. \A p \in S : Rank(key, p) + 1 \in 1 .. N
    BY <1>1, <1>2
  <2>2. \A p, q \in S : Rank(key, p) + 1 = Rank(key, q) + 1 => p = q
    BY <1>1, <1>2
  <2> QED
    BY <2>1, <2>2 DEF Injection, IsInjective
<1>4. IsFiniteSet(1 .. N) /\ Cardinality(1 .. N) = N
  BY <1>1, FS_Interval
<1>5. r \in Surjection(S, 1 .. N)
  BY <1>3, <1>4, FS_Injection
<1>6. ASSUME NEW n \in 1 .. N PROVE \E p \in S : Rank(key, p) = n - 1
  <2>1. PICK p \in S : r[p] = n
    BY <1>5 DEF Surjection
  <2>2. Rank(key, p) + 1 = n
    BY <2>1
  <2> QED
    BY <1>1, <1>2, <2>2
<1>7. DOMAIN key = S
  OBVIOUS
<1>8. order = [n \in 1 .. N |-> CHOOSE p \in S : Rank(key, p) = n - 1]
  BY <1>7 DEF InOrder
<1> HIDE DEF r, order
<1>9. ASSUME NEW n \in 1 .. N PROVE order[n] \in S /\ Rank(key, order[n]) = n - 1
  BY <1>6, <1>8
<1>10. order \in [1 .. N -> S]
  BY <1>8, <1>9
<1> HIDE DEF N
<1>11. ASSUME NEW m \in 1 .. N, NEW n \in 1 .. N, order[m] = order[n] PROVE m = n
  <2>1. m - 1 = n - 1
    BY <1>9, <1>11
  <2> QED
    BY <1>1, <2>1
<1>12. ASSUME NEW p \in S PROVE \E n \in 1 .. N : order[n] = p
  <2>1. PICK n : n = Rank(key, p) + 1
    OBVIOUS
  <2>2. n \in 1 .. N /\ n - 1 = Rank(key, p)
    BY <1>1, <1>2, <2>1
  <2> QED
    BY <1>2, <1>9, <2>2
<1>13. order \in Bijection(1 .. N, S)
  BY <1>10, <1>11, <1>12 DEF Bijection, Injection, Surjection, IsInjective
<1>14. ASSUME NEW m \in 1 .. N, NEW n \in 1 .. N, m < n
       PROVE  Before(key[order[m]], key[order[n]])
  <2>1. order[m] \in S /\ order[n] \in S /\ Rank(key, order[m]) = m - 1 /\ Rank(key, order[n]) = n - 1
    BY <1>9
  <2>2. ~ (n - 1 < m - 1) /\ n - 1 # m - 1
    BY <1>1, <1>14
  <2>3. ~ Before(key[order[n]], key[order[m]]) /\ order[n] # order[m]
    BY <1>2, <2>1, <2>2
  <2>4. key[order[m]] \in Key /\ key[order[n]] \in Key /\ key[order[m]] # key[order[n]]
    BY <2>1, <2>3
  <2> QED
    BY <2>3, <2>4, BeforeOrders
<1> QED
  BY <1>1, <1>13, <1>14 DEF N, order
\* Every item at the places S is in seq, once.
Chosen(seq, items, S) ==
  /\ Len(seq) \in Nat
  /\ \E b \in Bijection(1 .. Len(seq), S) : \A n \in 1 .. Len(seq) : seq[n] = items[b[n]]

LEMMA FunctionLen ==
  ASSUME NEW n \in Nat, NEW T, NEW f \in [1 .. n -> T]
  PROVE  f \in Seq(T) /\ Len(f) = n
<1>1. f \in Seq(T)
  BY SeqDef
<1>2. Len(f) \in Nat /\ DOMAIN f = 1 .. Len(f)
  BY <1>1, LenProperties
<1>3. 1 .. n = 1 .. Len(f)
  BY <1>2
<1> QED
  BY <1>1, <1>2, <1>3

LEMMA ArrangedChosen ==
  ASSUME NEW S, IsFiniteSet(S), NEW key \in [S -> Key],
         \A p, q \in S : key[p] = key[q] => p = q, NEW items
  PROVE  Chosen(Arranged(items, key), items, S)
<1> DEFINE N == Cardinality(S)
           order == InOrder(key)
           T == {items[p] : p \in S}
<1>1. N \in Nat /\ order \in Bijection(1 .. N, S)
  BY OrderFound
<1>2. DOMAIN key = S
  OBVIOUS
<1>3. Arranged(items, key) = [n \in 1 .. N |-> items[order[n]]]
  BY <1>2 DEF Arranged
<1> HIDE DEF N, order
<1>4. \A n \in 1 .. N : order[n] \in S
  BY <1>1 DEF Bijection, Injection
<1>5. Arranged(items, key) \in [1 .. N -> T]
  BY <1>3, <1>4
<1> HIDE DEF T
<1>6. Len(Arranged(items, key)) = N
  BY <1>1, <1>5, FunctionLen
<1>7. \A n \in 1 .. N : Arranged(items, key)[n] = items[order[n]]
  BY <1>3
<1> QED
  BY <1>1, <1>6, <1>7 DEF Chosen

LEMMA ChosenAgain ==
  ASSUME NEW items, NEW S, NEW seq, Chosen(seq, items, S), NEW again,
         Chosen(again, seq, 1 .. Len(seq))
  PROVE  Chosen(again, items, S)
<1>1. PICK b \in Bijection(1 .. Len(seq), S) : \A n \in 1 .. Len(seq) : seq[n] = items[b[n]]
  BY DEF Chosen
<1>2. PICK a \in Bijection(1 .. Len(again), 1 .. Len(seq)) :
        \A n \in 1 .. Len(again) : again[n] = seq[a[n]]
  BY DEF Chosen
<1> DEFINE c == [n \in 1 .. Len(again) |-> b[a[n]]]
<1>3. c \in Bijection(1 .. Len(again), S)
  BY <1>1, <1>2, Fun_BijTransitive
<1>4. \A n \in 1 .. Len(again) : a[n] \in 1 .. Len(seq)
  BY <1>2 DEF Bijection, Injection
<1>5. \A n \in 1 .. Len(again) : again[n] = items[c[n]]
  BY <1>1, <1>2, <1>4
<1> HIDE DEF c
<1> QED
  BY <1>3, <1>5 DEF Chosen

\* Of chosen items, those in V.
LEMMA PickedChosen ==
  ASSUME NEW items, NEW S, NEW seq, Chosen(seq, items, S), NEW V
  PROVE  Chosen(Picked(seq, {n \in 1 .. Len(seq) : seq[n] \in V}), items, {p \in S : items[p] \in V})
<1> DEFINE places == {n \in 1 .. Len(seq) : seq[n] \in V}
           kept == {p \in S : items[p] \in V}
           key == [p \in places |-> <<p, 0, 0>>]
<1>1. PICK b \in Bijection(1 .. Len(seq), S) : \A n \in 1 .. Len(seq) : seq[n] = items[b[n]]
  BY DEF Chosen
<1>2. Len(seq) \in Nat
  BY DEF Chosen
<1>3. IsFiniteSet(places)
  <2>1. places \in SUBSET (1 .. Len(seq)) /\ IsFiniteSet(1 .. Len(seq))
    BY <1>2, FS_Interval
  <2> QED
    BY <2>1, FS_Subset
<1>4. key \in [places -> Key] /\ \A p, q \in places : key[p] = key[q] => p = q
  BY <1>2 DEF Key
<1>5. PICK again : again = Picked(seq, places)
  OBVIOUS
<1>6. again = Arranged(seq, key)
  BY <1>5 DEF Picked
<1> HIDE DEF key
<1>7. Chosen(again, seq, places)
  BY <1>3, <1>4, <1>6, ArrangedChosen
<1>8. PICK a \in Bijection(1 .. Len(again), places) :
        \A n \in 1 .. Len(again) : again[n] = seq[a[n]]
  BY <1>7 DEF Chosen
<1> DEFINE c == [n \in 1 .. Len(again) |-> b[a[n]]]
<1>9. /\ b \in [1 .. Len(seq) -> S]
      /\ \A m, n \in 1 .. Len(seq) : b[m] = b[n] => m = n
      /\ \A p \in S : \E n \in 1 .. Len(seq) : b[n] = p
  BY <1>1 DEF Bijection, Injection, Surjection, IsInjective
<1>10. /\ a \in [1 .. Len(again) -> places]
       /\ \A m, n \in 1 .. Len(again) : a[m] = a[n] => m = n
       /\ \A p \in places : \E n \in 1 .. Len(again) : a[n] = p
  BY <1>8 DEF Bijection, Injection, Surjection, IsInjective
<1>11. \A n \in 1 .. Len(again) : c[n] = b[a[n]] /\ c[n] \in kept /\ again[n] = items[c[n]]
  BY <1>1, <1>8, <1>9, <1>10
<1>12. c \in [1 .. Len(again) -> kept]
  BY <1>11
<1> HIDE DEF c
<1>13. \A m, n \in 1 .. Len(again) : c[m] = c[n] => m = n
  BY <1>9, <1>10, <1>11
<1>14. ASSUME NEW p \in kept PROVE \E n \in 1 .. Len(again) : c[n] = p
  <2>1. PICK m \in 1 .. Len(seq) : b[m] = p
    BY <1>9
  <2>2. m \in places
    BY <1>1, <2>1
  <2>3. PICK n \in 1 .. Len(again) : a[n] = m
    BY <1>10, <2>2
  <2> QED
    BY <1>11, <2>1, <2>3
<1> HIDE DEF places, kept
<1>15. c \in Bijection(1 .. Len(again), kept)
  BY <1>12, <1>13, <1>14 DEF Bijection, Injection, Surjection, IsInjective
<1>16. Chosen(again, items, kept)
  BY <1>7, <1>11, <1>15 DEF Chosen
<1> QED
  BY <1>5, <1>16 DEF places, kept

\* All items, as they are.
LEMMA AllChosen ==
  ASSUME NEW T, NEW items \in Seq(T)
  PROVE  Chosen(items, items, 1 .. Len(items))
<1> DEFINE c == [n \in 1 .. Len(items) |-> n]
<1>1. c \in Bijection(1 .. Len(items), 1 .. Len(items))
  BY DEF Bijection, Injection, Surjection, IsInjective
<1>2. \A n \in 1 .. Len(items) : items[n] = items[c[n]]
  OBVIOUS
<1> HIDE DEF c
<1> QED
  BY <1>1, <1>2 DEF Chosen

-----------------------------------------------------------------------------
(* Records and rows of items. *)

\* records has a record of each item at the places S, with its children if it is
\* deep and in its own file if it keeps that.
Traces(records, items, S, deep, own) ==
  /\ Len(records) \in Nat
  /\ \E b \in Bijection(1 .. Len(records), S) : \A n \in 1 .. Len(records) :
       /\ records[n].at = items[b[n]].at /\ records[n].name = items[b[n]].name
       /\ records[n].keys = items[b[n]].keys
       /\ records[n].inner = IF deep THEN items[b[n]].inner ELSE << >>
       /\ own => records[n].file = items[b[n]].file

\* A record of a chosen item is as it should be.
LEMMA RecordsTrace ==
  ASSUME NEW items, NEW S, NEW seq, Chosen(seq, items, S), NEW deep, NEW own, NEW records,
         Len(records) = Len(seq),
         \A n \in 1 .. Len(seq) :
            /\ records[n].at = seq[n].at /\ records[n].name = seq[n].name
            /\ records[n].keys = seq[n].keys
            /\ records[n].inner = IF deep THEN seq[n].inner ELSE << >>
            /\ own => records[n].file = seq[n].file
  PROVE  Traces(records, items, S, deep, own)
<1>1. PICK b \in Bijection(1 .. Len(seq), S) : \A n \in 1 .. Len(seq) : seq[n] = items[b[n]]
  BY DEF Chosen
<1> QED
  BY <1>1 DEF Traces, Chosen

\* So are the records in another order,
LEMMA ChosenTrace ==
  ASSUME NEW items, NEW S, NEW records, NEW deep, NEW own, Traces(records, items, S, deep, own),
         NEW again, Chosen(again, records, 1 .. Len(records))
  PROVE  Traces(again, items, S, deep, own)
<1>1. PICK b \in Bijection(1 .. Len(records), S) : \A n \in 1 .. Len(records) :
       /\ records[n].at = items[b[n]].at /\ records[n].name = items[b[n]].name
       /\ records[n].keys = items[b[n]].keys
       /\ records[n].inner = IF deep THEN items[b[n]].inner ELSE << >>
       /\ own => records[n].file = items[b[n]].file
  BY DEF Traces
<1>2. PICK a \in Bijection(1 .. Len(again), 1 .. Len(records)) :
        \A n \in 1 .. Len(again) : again[n] = records[a[n]]
  BY DEF Chosen
<1> DEFINE c == [n \in 1 .. Len(again) |-> b[a[n]]]
<1>3. c \in Bijection(1 .. Len(again), S)
  BY <1>1, <1>2, Fun_BijTransitive
<1>4. \A n \in 1 .. Len(again) : a[n] \in 1 .. Len(records)
  BY <1>2 DEF Bijection, Injection
<1>5. \A n \in 1 .. Len(again) : c[n] = b[a[n]]
  OBVIOUS
<1>6. Len(again) \in Nat
  BY DEF Chosen
<1> HIDE DEF c
<1> QED
  BY <1>1, <1>2, <1>3, <1>4, <1>5, <1>6 DEF Traces

\* sorted by any key,
LEMMA SortedTrace ==
  ASSUME NEW items, NEW S, NEW records, NEW deep, NEW own, Traces(records, items, S, deep, own),
         NEW key \in [1 .. Len(records) -> Key],
         \A m, n \in 1 .. Len(records) : key[m] = key[n] => m = n
  PROVE  Traces(Arranged(records, key), items, S, deep, own)
<1>1. Len(records) \in Nat
  BY DEF Traces
<1>2. IsFiniteSet(1 .. Len(records))
  BY <1>1, FS_Interval
<1>3. Chosen(Arranged(records, key), records, 1 .. Len(records))
  BY <1>2, ArrangedChosen
<1> QED
  BY <1>3, ChosenTrace

-----------------------------------------------------------------------------
\* What may be printed of an item: its name, and those of its children if deep.
Said(item, deep) ==
  {item.name} \cup (IF deep THEN {item.inner[n].name : n \in 1 .. Len(item.inner)} ELSE {})

\* The rows say what the items at the places S say.
Prints(rows, items, S, deep, own) ==
  /\ Len(rows) \in Nat /\ Len(rows) >= Cardinality(S)
  /\ \A n \in 1 .. Len(rows) : \E p \in S :
       rows[n].at = items[p].at /\ rows[n].name \in Said(items[p], deep)
  /\ \A p \in S : \A name \in Said(items[p], deep) : \E n \in 1 .. Len(rows) :
       rows[n].at = items[p].at /\ rows[n].name = name
  /\ own => /\ Len(rows) = Cardinality(S)
            /\ \A n \in 1 .. Len(rows) : \E p \in S :
                 rows[n].file = items[p].file /\ rows[n].at = items[p].at
            /\ \A p \in S : \E n \in 1 .. Len(rows) :
                 rows[n].file = items[p].file /\ rows[n].at = items[p].at

\* A row for each record,
LEMMA FlatPrints ==
  ASSUME NEW items, NEW S, NEW records, NEW with, NEW deep \in BOOLEAN, NEW own \in BOOLEAN,
         Traces(records, items, S, with, own),
         deep => \A p \in S : items[p].inner = << >>
  PROVE  Prints(Records(records, Row), items, S, deep, own)
<1>1. PICK b \in Bijection(1 .. Len(records), S) : \A n \in 1 .. Len(records) :
       /\ records[n].at = items[b[n]].at /\ records[n].name = items[b[n]].name
       /\ own => records[n].file = items[b[n]].file
  BY DEF Traces
<1>2. Len(records) \in Nat
  BY DEF Traces
<1>3. Cardinality(S) = Len(records)
  BY <1>1, <1>2, FS_CountingElements DEF ExistsBijection
<1>4. PICK rows : rows = Records(records, Row)
  OBVIOUS
<1>5. rows = [n \in 1 .. Len(records) |-> Row(records[n])]
  BY <1>4 DEF Records
<1>6. Len(rows) = Len(records)
  <2> DEFINE T == {Row(records[n]) : n \in 1 .. Len(records)}
  <2>1. rows \in [1 .. Len(records) -> T]
    BY <1>5
  <2> HIDE DEF T
  <2> QED
    BY <1>2, <2>1, FunctionLen
<1>7. \A n \in 1 .. Len(records) :
        rows[n] = [file |-> records[n].file, at |-> records[n].at, name |-> records[n].name]
  BY <1>5 DEF Row
<1>8. \A n \in 1 .. Len(rows) : /\ b[n] \in S /\ rows[n].at = items[b[n]].at
                                /\ rows[n].name = items[b[n]].name
                                /\ own => rows[n].file = items[b[n]].file
  <2>1. \A n \in 1 .. Len(rows) : b[n] \in S
    BY <1>1, <1>6 DEF Bijection, Injection
  <2>2. ASSUME NEW n \in 1 .. Len(rows)
        PROVE  /\ rows[n].at = items[b[n]].at /\ rows[n].name = items[b[n]].name
               /\ own => rows[n].file = items[b[n]].file
    <3>1. n \in 1 .. Len(records)
      BY <1>6
    <3>2. /\ rows[n].at = records[n].at /\ rows[n].name = records[n].name
          /\ rows[n].file = records[n].file
      <4>1. rows[n] = [file |-> records[n].file, at |-> records[n].at, name |-> records[n].name]
        BY <1>7, <3>1
      <4> QED
        BY <4>1
    <3> QED
      BY <1>1, <3>1, <3>2
  <2> QED
    BY <2>1, <2>2
<1>9. \A p \in S : \E n \in 1 .. Len(rows) : b[n] = p
  BY <1>1, <1>6 DEF Bijection, Surjection
<1>10. \A p \in S : Said(items[p], deep) = {items[p].name}
  <2>1. 1 .. Len(<< >>) = {}
    OBVIOUS
  <2> QED
    BY <2>1 DEF Said
<1>11. \A n \in 1 .. Len(rows) : rows[n].name \in Said(items[b[n]], deep)
  BY <1>8, <1>10
<1>12. /\ Len(rows) \in Nat /\ Len(rows) >= Cardinality(S)
       /\ own => Len(rows) = Cardinality(S)
  BY <1>2, <1>3, <1>6
<1>13. /\ \A n \in 1 .. Len(rows) : \E p \in S :
            rows[n].at = items[p].at /\ rows[n].name \in Said(items[p], deep)
       /\ own => \A n \in 1 .. Len(rows) : \E p \in S :
                   rows[n].file = items[p].file /\ rows[n].at = items[p].at
  BY <1>8, <1>11
<1>14. ASSUME NEW p \in S, NEW name \in Said(items[p], deep)
       PROVE  \E n \in 1 .. Len(rows) : rows[n].at = items[p].at /\ rows[n].name = name
  <2>1. name = items[p].name
    BY <1>10
  <2>2. PICK n \in 1 .. Len(rows) : b[n] = p
    BY <1>9
  <2> QED
    BY <1>8, <2>1, <2>2
<1>15. ASSUME own, NEW p \in S
       PROVE  \E n \in 1 .. Len(rows) : rows[n].file = items[p].file /\ rows[n].at = items[p].at
  <2>1. PICK n \in 1 .. Len(rows) : b[n] = p
    BY <1>9
  <2>2. rows[n].file = items[p].file /\ rows[n].at = items[p].at
    BY <1>8, <1>15, <2>1
  <2> QED
    BY <2>2
<1> QED
  BY <1>4, <1>12, <1>13, <1>14, <1>15 DEF Prints

\* Places of records and of their children.
LEMMA PlacesFinite ==
  ASSUME NEW records, Len(records) \in Nat,
         \A n \in 1 .. Len(records) : Len(records[n].inner) \in Nat
  PROVE  IsFiniteSet(Places(records))
<1> DEFINE F == [n \in 1 .. Len(records) |-> {n} \X (0 .. Len(records[n].inner))]
           parts == {{n} \X (0 .. Len(records[n].inner)) : n \in 1 .. Len(records)}
<1>1. F \in Surjection(1 .. Len(records), parts)
  BY DEF Surjection
<1>2. IsFiniteSet(1 .. Len(records))
  BY FS_Interval
<1>3. IsFiniteSet(parts)
  <2> HIDE DEF F, parts
  <2> QED
    BY <1>1, <1>2, FS_Surjection
<1>4. ASSUME NEW n \in 1 .. Len(records)
      PROVE  IsFiniteSet({n} \X (0 .. Len(records[n].inner)))
  <2>1. IsFiniteSet({n}) /\ IsFiniteSet(0 .. Len(records[n].inner))
    <3>1. 0 \in Int /\ Len(records[n].inner) \in Int
      OBVIOUS
    <3> QED
      BY <3>1, FS_Singleton, FS_Interval
  <2> QED
    BY <2>1, FS_Product
<1>5. \A T \in parts : IsFiniteSet(T)
  BY <1>4
<1> HIDE DEF parts
<1>6. IsFiniteSet(UNION parts)
  BY <1>3, <1>5, FS_UNION
<1> QED
  BY <1>6 DEF Places, parts

\* and one for each of its children.
LEMMA RowsPrint ==
  ASSUME NEW items, NEW S, NEW records, NEW deep \in BOOLEAN, NEW own \in BOOLEAN,
         Traces(records, items, S, deep, own),
         \A p \in S : Len(items[p].inner) \in Nat,
         own => \A p \in S : items[p].inner = << >>
  PROVE  Prints(Rows(records), items, S, deep, own)
<1>1. PICK b \in Bijection(1 .. Len(records), S) : \A n \in 1 .. Len(records) :
       /\ records[n].at = items[b[n]].at /\ records[n].name = items[b[n]].name
       /\ records[n].inner = IF deep THEN items[b[n]].inner ELSE << >>
       /\ own => records[n].file = items[b[n]].file
  BY DEF Traces
<1>2. Len(records) \in Nat
  BY DEF Traces
<1>3. Cardinality(S) = Len(records) /\ IsFiniteSet(S)
  BY <1>1, <1>2, FS_CountingElements, FS_NatBijection DEF ExistsBijection
<1>4. /\ \A n \in 1 .. Len(records) : b[n] \in S
      /\ \A p \in S : \E n \in 1 .. Len(records) : b[n] = p
  BY <1>1 DEF Bijection, Injection, Surjection
<1>5. Len(<< >>) = 0
  OBVIOUS
<1>6. \A n \in 1 .. Len(records) : Len(records[n].inner) \in Nat
  BY <1>1, <1>4, <1>5
<1> DEFINE places == Places(records)
           row == [p \in places |->
                    [Row(records[p[1]]) EXCEPT !.name = IF p[2] = 0 THEN @
                                                        ELSE records[p[1]].inner[p[2]].name]]
           key == [p \in places |-> <<p[1], p[2], 0>>]
<1>7. IsFiniteSet(places)
  BY <1>2, <1>6, PlacesFinite
<1>8. \A p : p \in places <=> \E n \in 1 .. Len(records) : \E m \in 0 .. Len(records[n].inner) : p = <<n, m>>
  BY DEF Places
<1> HIDE DEF places
<1>9. key \in [places -> Key] /\ \A p, q \in places : key[p] = key[q] => p = q
  <2>1. ASSUME NEW p \in places
        PROVE  p = <<p[1], p[2]>> /\ p[1] \in Nat /\ p[2] \in Nat /\ key[p] = <<p[1], p[2], 0>>
    BY <1>2, <1>6, <1>8
  <2>2. \A p \in places : <<p[1], p[2], 0>> \in Key
    BY <2>1 DEF Key
  <2>3. key \in [places -> Key]
    BY <2>2
  <2>4. ASSUME NEW p \in places, NEW q \in places, key[p] = key[q] PROVE p = q
    <3>1. <<p[1], p[2], 0>> = <<q[1], q[2], 0>>
      BY <2>1, <2>4
    <3>2. p[1] = q[1] /\ p[2] = q[2]
      BY <3>1
    <3> QED
      BY <2>1, <3>2
  <2> QED
    BY <2>3, <2>4
<1>10. PICK rows : rows = Rows(records)
  OBVIOUS
<1>11. rows = Arranged(row, key)
  BY <1>10 DEF Rows, places
<1> HIDE DEF key
<1>12. Chosen(rows, row, places)
  BY <1>7, <1>9, <1>11, ArrangedChosen
<1>13. PICK a \in Bijection(1 .. Len(rows), places) : \A n \in 1 .. Len(rows) : rows[n] = row[a[n]]
  BY <1>12 DEF Chosen
<1>14. Len(rows) \in Nat /\ Cardinality(places) = Len(rows)
  BY <1>12, <1>13, FS_CountingElements DEF Chosen, ExistsBijection
<1>15. /\ \A n \in 1 .. Len(rows) : a[n] \in places
       /\ \A p \in places : \E n \in 1 .. Len(rows) : a[n] = p
  BY <1>13 DEF Bijection, Injection, Surjection
\* what stands at a place
<1>16. ASSUME NEW n \in 1 .. Len(records), NEW m \in 0 .. Len(records[n].inner)
       PROVE  /\ <<n, m>> \in places
              /\ row[<<n, m>>].at = items[b[n]].at
              /\ row[<<n, m>>].name = IF m = 0 THEN items[b[n]].name ELSE records[n].inner[m].name
              /\ own => row[<<n, m>>].file = items[b[n]].file
  <2>1. <<n, m>> \in places
    BY <1>8
  <2>2. row[<<n, m>>] = [Row(records[n]) EXCEPT !.name = IF m = 0 THEN @ ELSE records[n].inner[m].name]
    BY <2>1
  <2>3. /\ row[<<n, m>>].at = records[n].at /\ row[<<n, m>>].file = records[n].file
        /\ row[<<n, m>>].name = IF m = 0 THEN records[n].name ELSE records[n].inner[m].name
    BY <2>2 DEF Row
  <2> QED
    BY <1>1, <2>1, <2>3
<1> HIDE DEF row
<1>17. ASSUME NEW n \in 1 .. Len(records), NEW m \in 0 .. Len(records[n].inner)
       PROVE  (IF m = 0 THEN items[b[n]].name ELSE records[n].inner[m].name) \in Said(items[b[n]], deep)
  <2>1. CASE m = 0
    BY <2>1 DEF Said
  <2>2. CASE m # 0
    <3>1. m \in 1 .. Len(records[n].inner)
      BY <1>6, <2>2
    <3>2. deep
      <4>1. ASSUME ~ deep PROVE FALSE
        <5>1. records[n].inner = << >>
          BY <1>1, <4>1
        <5> QED
          BY <1>5, <3>1, <5>1
      <4> QED
        BY <4>1
    <3>3. records[n].inner = items[b[n]].inner
      BY <1>1, <3>2
    <3> QED
      BY <2>2, <3>1, <3>2, <3>3 DEF Said
  <2> QED
    BY <2>1, <2>2
<1>18. ASSUME NEW k \in 1 .. Len(rows)
       PROVE  /\ \E p \in S : rows[k].at = items[p].at /\ rows[k].name \in Said(items[p], deep)
              /\ own => \E p \in S : rows[k].file = items[p].file /\ rows[k].at = items[p].at
  <2>1. PICK n \in 1 .. Len(records) : \E m \in 0 .. Len(records[n].inner) : a[k] = <<n, m>>
    BY <1>8, <1>15
  <2>2. PICK m \in 0 .. Len(records[n].inner) : a[k] = <<n, m>>
    BY <2>1
  <2>3. rows[k] = row[<<n, m>>]
    BY <1>13, <2>2
  <2>4. PICK p : p = b[n]
    OBVIOUS
  <2>5. p \in S
    BY <1>4, <2>4
  <2>6. rows[k].at = items[p].at /\ rows[k].name \in Said(items[p], deep)
    <3>1. /\ row[<<n, m>>].at = items[b[n]].at
          /\ row[<<n, m>>].name = IF m = 0 THEN items[b[n]].name ELSE records[n].inner[m].name
      BY <1>16
    <3> QED
      BY <1>17, <2>3, <2>4, <3>1
  <2>7. ASSUME own PROVE rows[k].file = items[p].file
    BY <1>16, <2>3, <2>4, <2>7
  <2> QED
    BY <2>5, <2>6, <2>7
<1>19. ASSUME NEW p \in S, NEW name \in Said(items[p], deep)
       PROVE  /\ \E k \in 1 .. Len(rows) : rows[k].at = items[p].at /\ rows[k].name = name
              /\ own => \E k \in 1 .. Len(rows) :
                           rows[k].file = items[p].file /\ rows[k].at = items[p].at
  <2>1. PICK n \in 1 .. Len(records) : b[n] = p
    BY <1>4
  <2>2. \E m \in 0 .. Len(records[n].inner) :
          name = IF m = 0 THEN items[p].name ELSE records[n].inner[m].name
    <3>1. CASE name = items[p].name
      <4>1. 0 \in 0 .. Len(records[n].inner)
        BY <1>6
      <4> QED
        BY <3>1, <4>1
    <3>2. CASE name # items[p].name
      <4>1. deep /\ \E m \in 1 .. Len(items[p].inner) : name = items[p].inner[m].name
        BY <3>2 DEF Said
      <4>2. PICK m \in 1 .. Len(items[p].inner) : name = items[p].inner[m].name
        BY <4>1
      <4>3. records[n].inner = items[p].inner
        BY <1>1, <2>1, <4>1
      <4>4. m \in 0 .. Len(records[n].inner) /\ m # 0
        BY <4>3
      <4> QED
        BY <4>2, <4>3, <4>4
    <3> QED
      BY <3>1, <3>2
  <2>3. PICK m \in 0 .. Len(records[n].inner) :
          name = IF m = 0 THEN items[p].name ELSE records[n].inner[m].name
    BY <2>2
  <2>4. PICK k \in 1 .. Len(rows) : a[k] = <<n, m>>
    BY <1>15, <1>16
  <2>5. rows[k] = row[<<n, m>>]
    BY <1>13, <2>4
  <2>6. rows[k].at = items[p].at /\ rows[k].name = name
    <3>1. /\ row[<<n, m>>].at = items[b[n]].at
          /\ row[<<n, m>>].name = IF m = 0 THEN items[b[n]].name ELSE records[n].inner[m].name
      BY <1>16
    <3> QED
      BY <2>1, <2>3, <2>5, <3>1
  <2>7. ASSUME own PROVE rows[k].file = items[p].file
    BY <1>16, <2>1, <2>5, <2>7
  <2> QED
    BY <2>6, <2>7
\* there are as many places as records, or more
<1> DEFINE top == [n \in 1 .. Len(records) |-> <<n, 0>>]
<1>20. top \in Injection(1 .. Len(records), places)
  <2>1. ASSUME NEW n \in 1 .. Len(records) PROVE <<n, 0>> \in places
    <3>1. 0 \in 0 .. Len(records[n].inner)
      BY <1>6
    <3> QED
      BY <1>16, <3>1
  <2> QED
    BY <2>1 DEF Injection, IsInjective
<1>21. Cardinality(1 .. Len(records)) = Len(records)
  <2>1. PICK n \in Nat : n = Len(records)
    BY <1>2
  <2>2. Cardinality(1 .. n) = IF 1 > n THEN 0 ELSE n - 1 + 1
    BY FS_Interval
  <2>3. Cardinality(1 .. n) = n
    BY <2>2
  <2> QED
    BY <2>1, <2>3
<1>22. /\ Len(records) <= Cardinality(places)
       /\ (Len(records) = Cardinality(places)) <=> (top \in Surjection(1 .. Len(records), places))
  <2> HIDE DEF top
  <2> QED
    BY <1>7, <1>20, <1>21, FS_Injection
<1>23. own => Len(rows) = Cardinality(S)
  <2> SUFFICES ASSUME own PROVE Len(rows) = Cardinality(S)
    OBVIOUS
  <2>1. ASSUME NEW p \in places PROVE \E n \in 1 .. Len(records) : top[n] = p
    <3>1. PICK n \in 1 .. Len(records) : \E m \in 0 .. Len(records[n].inner) : p = <<n, m>>
      BY <1>8
    <3>2. PICK m \in 0 .. Len(records[n].inner) : p = <<n, m>>
      BY <3>1
    <3>3. records[n].inner = << >>
      BY <1>1, <1>4
    <3>4. m = 0
      BY <1>5, <3>2, <3>3
    <3> QED
      BY <3>2, <3>4
  <2>2. top \in Surjection(1 .. Len(records), places)
    BY <1>20, <2>1 DEF Injection, Surjection
  <2> QED
    BY <1>3, <1>14, <1>22, <2>2
<1> HIDE DEF top
<1>24. Len(rows) \in Nat /\ Len(rows) >= Cardinality(S)
  BY <1>2, <1>3, <1>14, <1>22
<1>25. \A p \in S : items[p].name \in Said(items[p], deep)
  BY DEF Said
<1>26. own => \A p \in S : \E k \in 1 .. Len(rows) :
                rows[k].file = items[p].file /\ rows[k].at = items[p].at
  BY <1>19, <1>25
<1>27. /\ \A n \in 1 .. Len(rows) : \E p \in S :
            rows[n].at = items[p].at /\ rows[n].name \in Said(items[p], deep)
       /\ own => \A n \in 1 .. Len(rows) : \E p \in S :
                   rows[n].file = items[p].file /\ rows[n].at = items[p].at
  BY <1>18
<1>28. \A p \in S : \A name \in Said(items[p], deep) : \E n \in 1 .. Len(rows) :
         rows[n].at = items[p].at /\ rows[n].name = name
  BY <1>19
<1> QED
  BY <1>10, <1>23, <1>24, <1>26, <1>27, <1>28 DEF Prints

-----------------------------------------------------------------------------
(* What the way to the terminal keeps of the items.                        *)

\* So is a record made for each of chosen items.
LEMMA MadeTrace ==
  ASSUME NEW items, NEW S, NEW seq, Chosen(seq, items, S), NEW deep, NEW own, NEW files,
         own => \A n \in 1 .. Len(seq) : files[n] = seq[n].file,
         NEW records,
         records = [n \in 1 .. Len(seq) |->
                      [file |-> files[n], at |-> seq[n].at, name |-> seq[n].name,
                       keys |-> seq[n].keys, inner |-> IF deep THEN seq[n].inner ELSE << >>]]
  PROVE  Traces(records, items, S, deep, own)
<1>1. Len(seq) \in Nat
  BY DEF Chosen
<1>2. Len(records) = Len(seq)
  <2> DEFINE T == {records[n] : n \in 1 .. Len(seq)}
  <2>1. records \in [1 .. Len(seq) -> T]
    OBVIOUS
  <2> HIDE DEF T
  <2> QED
    BY <1>1, <2>1, FunctionLen
<1>3. ASSUME NEW n \in 1 .. Len(seq)
      PROVE  /\ records[n].at = seq[n].at /\ records[n].name = seq[n].name
             /\ records[n].keys = seq[n].keys
             /\ records[n].inner = IF deep THEN seq[n].inner ELSE << >>
             /\ own => records[n].file = seq[n].file
  <2>1. records[n] = [file |-> files[n], at |-> seq[n].at, name |-> seq[n].name,
                      keys |-> seq[n].keys, inner |-> IF deep THEN seq[n].inner ELSE << >>]
    OBVIOUS
  <2> QED
    BY <2>1
<1> QED
  BY <1>2, <1>3, RecordsTrace

\* Of all items, those in V.
LEMMA PickedOfAll ==
  ASSUME NEW T, NEW items \in Seq(T), NEW V
  PROVE  Chosen(Picked(items, {n \in 1 .. Len(items) : items[n] \in V}), items,
                {p \in 1 .. Len(items) : items[p] \in V})
<1>1. PICK S : S = 1 .. Len(items)
  OBVIOUS
<1>2. PICK seq : seq = items
  OBVIOUS
<1>3. Chosen(seq, items, S)
  BY <1>1, <1>2, AllChosen
<1>4. Chosen(Picked(seq, {n \in 1 .. Len(seq) : seq[n] \in V}), items, {p \in S : items[p] \in V})
  BY <1>3, PickedChosen
<1> QED
  BY <1>1, <1>2, <1>4

\* The filter takes out the items of test files and no others.
LEMMA FilteredChosen ==
  ASSUME NEW items \in Seq(Item), NEW tests \in BOOLEAN, NEW language
  PROVE  Chosen(FilterByUri(items, tests, language), items,
                {n \in 1 .. Len(items) : ~ (~ tests /\ OfTests(language, items[n].file))})
<1>1. Chosen(items, items, 1 .. Len(items))
  BY AllChosen
<1>2. CASE tests
  <2>1. {n \in 1 .. Len(items) : ~ (~ tests /\ OfTests(language, items[n].file))} = 1 .. Len(items)
    BY <1>2
  <2> QED
    BY <1>1, <1>2, <2>1 DEF FilterByUri
<1>3. CASE ~ tests
  <2> DEFINE V == {i \in Item : ~ IsTest(language, i.file)}
  <2>1. \A n \in 1 .. Len(items) : items[n] \in Item
    BY ElementOfSeq
  <2>2. \A i \in Item : i.file \in Files
    BY DEF Item
  <2>3. \A n \in 1 .. Len(items) : items[n] \in V <=> ~ IsTest(language, items[n].file)
    BY <2>1
  <2>4. \A n \in 1 .. Len(items) : items[n] \in V <=> ~ OfTests(language, items[n].file)
    BY <2>1, <2>2, <2>3, FilterIsExact
  <2> HIDE DEF V
  <2>5. Chosen(Picked(items, {n \in 1 .. Len(items) : items[n] \in V}), items,
               {p \in 1 .. Len(items) : items[p] \in V})
    BY PickedOfAll
  <2>6. {n \in 1 .. Len(items) : items[n] \in V} = {n \in 1 .. Len(items) : ~ IsTest(language, items[n].file)}
    BY <2>3
  <2>7. {n \in 1 .. Len(items) : items[n] \in V}
          = {n \in 1 .. Len(items) : ~ (~ tests /\ OfTests(language, items[n].file))}
    BY <1>3, <2>4
  <2> QED
    BY <1>3, <2>5, <2>6, <2>7 DEF FilterByUri
<1> QED
  BY <1>2, <1>3

\* The validation takes out the ill-formed items.
LEMMA ValidChosen ==
  ASSUME NEW items \in Seq(Item), NEW S, NEW seq, Chosen(seq, items, S), S \subseteq 1 .. Len(items)
  PROVE  Chosen(ValidOnly(seq), items, {p \in S : items[p].valid})
<1> DEFINE V == {i \in Item : i.valid}
<1>1. \A p \in S : items[p] \in Item
  BY ElementOfSeq
<1>2. \A n \in 1 .. Len(seq) : seq[n] \in Item
  BY <1>1 DEF Chosen, Bijection, Injection
<1>3. {n \in 1 .. Len(seq) : seq[n] \in V} = {n \in 1 .. Len(seq) : seq[n].valid}
  BY <1>2
<1>4. {p \in S : items[p] \in V} = {p \in S : items[p].valid}
  BY <1>1
<1> HIDE DEF V
<1>5. Chosen(Picked(seq, {n \in 1 .. Len(seq) : seq[n] \in V}), items, {p \in S : items[p] \in V})
  BY PickedChosen
<1> QED
  BY <1>3, <1>4, <1>5 DEF ValidOnly

\* What is in a list has a place in it.
LEMMA PositionFound ==
  ASSUME NEW T, NEW seq \in Seq(T), NEW n \in 1 .. Len(seq)
  PROVE  Position(seq, seq[n]) \in Nat
BY DEF Position

\* The places of items and what a trace of some of them holds.
LEMMA Traced ==
  ASSUME NEW items \in Seq(Item), NEW S \in SUBSET (1 .. Len(items)), NEW records, NEW deep,
         Traces(records, items, S, deep, TRUE)
  PROVE  \A n \in 1 .. Len(records) :
           /\ Position(FileOrder, records[n].file) \in Nat
           /\ Position(NameOrder, records[n].name) \in Nat
           /\ records[n].at \in Nat
<1> SUFFICES ASSUME NEW n \in 1 .. Len(records)
             PROVE  /\ Position(FileOrder, records[n].file) \in Nat
                    /\ Position(NameOrder, records[n].name) \in Nat
                    /\ records[n].at \in Nat
  OBVIOUS
<1>1. PICK p \in S : /\ records[n].at = items[p].at /\ records[n].name = items[p].name
                     /\ records[n].file = items[p].file
  BY DEF Traces, Bijection, Injection
<1>2. items[p] \in Item
  BY ElementOfSeq
<1>3. items[p].file \in Files /\ items[p].at \in Nat /\ items[p].name \in Names
  BY <1>2 DEF Item
<1>4. PICK k \in 1 .. Len(FileOrder) : items[p].file = FileOrder[k]
  BY <1>3 DEF Files
<1>5. PICK m \in 1 .. Len(NameOrder) : items[p].name = NameOrder[m]
  BY <1>3 DEF Names
<1>6. FileOrder \in Seq(Seq(STRING) \ {<< >>}) /\ NameOrder \in Seq(STRING)
  BY AnswerAssumption
<1>7. Position(FileOrder, FileOrder[k]) \in Nat /\ Position(NameOrder, NameOrder[m]) \in Nat
  BY <1>6, PositionFound
<1> QED
  BY <1>1, <1>3, <1>4, <1>5, <1>7

\* Grouping records by file, or sorting them, loses and doubles none.
LEMMA GroupedTrace ==
  ASSUME NEW items \in Seq(Item), NEW S \in SUBSET (1 .. Len(items)), NEW records, NEW deep,
         Traces(records, items, S, deep, TRUE)
  PROVE  /\ Traces(GroupRecordsByFile(records), items, S, deep, TRUE)
         /\ Traces(GroupLocationsByFile(records), items, S, deep, TRUE)
         /\ Traces(SortedCalls(records), items, S, deep, TRUE)
<1> DEFINE k1 == [n \in 1 .. Len(records) |-> <<Position(FileOrder, records[n].file), n, 0>>]
           k2 == [n \in 1 .. Len(records) |->
                    <<Position(FileOrder, records[n].file), records[n].at, n>>]
           k3 == [n \in 1 .. Len(records) |->
                    <<Position(FileOrder, records[n].file), Position(NameOrder, records[n].name), n>>]
<1>1. \A n \in 1 .. Len(records) :
           /\ Position(FileOrder, records[n].file) \in Nat
           /\ Position(NameOrder, records[n].name) \in Nat
           /\ records[n].at \in Nat
  BY Traced
<1>2. Len(records) \in Nat
  BY DEF Traces
<1>3. k1 \in [1 .. Len(records) -> Key] /\ \A m, n \in 1 .. Len(records) : k1[m] = k1[n] => m = n
  BY <1>1, <1>2 DEF Key
<1>4. k2 \in [1 .. Len(records) -> Key] /\ \A m, n \in 1 .. Len(records) : k2[m] = k2[n] => m = n
  BY <1>1, <1>2 DEF Key
<1>5. k3 \in [1 .. Len(records) -> Key] /\ \A m, n \in 1 .. Len(records) : k3[m] = k3[n] => m = n
  BY <1>1, <1>2 DEF Key
<1>6. /\ GroupRecordsByFile(records) = Arranged(records, k1)
      /\ GroupLocationsByFile(records) = Arranged(records, k2)
      /\ SortedCalls(records) = Arranged(records, k3)
  BY DEF GroupRecordsByFile, GroupLocationsByFile, SortedCalls
<1> HIDE DEF k1, k2, k3
<1>7. /\ Traces(Arranged(records, k1), items, S, deep, TRUE)
      /\ Traces(Arranged(records, k2), items, S, deep, TRUE)
      /\ Traces(Arranged(records, k3), items, S, deep, TRUE)
  BY <1>3, <1>4, <1>5, SortedTrace
<1> QED
  BY <1>6, <1>7

\* Without children it does not matter whether they would be printed.
LEMMA NoChildren ==
  ASSUME NEW rows, NEW items, NEW S, NEW own, Prints(rows, items, S, FALSE, own),
         \A p \in S : items[p].inner = << >>, NEW deep
  PROVE  Prints(rows, items, S, deep, own)
<1>1. 1 .. Len(<< >>) = {}
  OBVIOUS
<1>2. \A p \in S : Said(items[p], deep) = Said(items[p], FALSE)
  BY <1>1 DEF Said
<1> QED
  BY <1>2 DEF Prints

\* Whether a command prints children.
Deep(typed) == typed.raw \/ typed.format # "csv"

\* What ScenarioAssumption says of the options.
Optioned(typed) ==
  /\ typed.kind \in Kinds /\ typed.format \in Formats
  /\ typed.includeTests \in BOOLEAN /\ typed.raw \in BOOLEAN /\ typed.depth \in Int
  /\ typed.raw => typed.kind \in WithRaw

\* The places of the items a command is to print, as Expected has them.
Wanted(typed, aim, items) ==
  {n \in 1 .. Len(items) :
     items[n].valid /\ ~ (/\ typed.kind \in Filtered /\ ~ typed.includeTests /\ ~ typed.raw
                          /\ OfTests(aim.language, items[n].file))}

\* Whether a command prints an item under its own file.
Owned(typed) == typed.kind \in Filtered \cup Calls

\* What is printed is right: it says what is wanted, and it ends in a traceback
\* only where two wanted items have different keys.
Right(typed, aim, items, printed) ==
  /\ printed.ok => Prints(printed.rows, items, Wanted(typed, aim, items), Deep(typed), Owned(typed))
  /\ ~ printed.ok => /\ typed.format = "csv" /\ typed.kind \in ByWorkspace
                     /\ \E p, q \in Wanted(typed, aim, items) : items[p].keys # items[q].keys

\* Well-formed items without children.
Plain(items) ==
  items \in Seq(Item) /\ \A n \in 1 .. Len(items) : items[n].valid /\ items[n].inner = << >>

\* What is wanted of well-formed items.
LEMMA PlainWanted ==
  ASSUME NEW typed, Optioned(typed), NEW aim, NEW items, Plain(items)
  PROVE  /\ Wanted(typed, aim, items) \in SUBSET (1 .. Len(items))
         /\ \A p \in Wanted(typed, aim, items) : items[p].inner = << >>
         /\ typed.kind \notin Filtered \/ typed.raw => Wanted(typed, aim, items) = 1 .. Len(items)
         /\ typed.kind \in Filtered /\ ~ typed.raw =>
              Wanted(typed, aim, items)
                = {n \in 1 .. Len(items) : ~ (~ typed.includeTests /\ OfTests(aim.language, items[n].file))}
BY DEF Wanted, Plain, Optioned

\* One row for each record, or one for each child too, is right where there are
\* no children,
LEMMA FlatRight ==
  ASSUME NEW typed, Optioned(typed), NEW aim, NEW items, Plain(items), NEW records, NEW with \in BOOLEAN,
         Traces(records, items, Wanted(typed, aim, items), with, Owned(typed))
  PROVE  /\ Prints(Records(records, Row), items, Wanted(typed, aim, items), Deep(typed), Owned(typed))
         /\ Prints(Rows(records), items, Wanted(typed, aim, items), Deep(typed), Owned(typed))
<1> DEFINE S == Wanted(typed, aim, items)
<1>1. \A p \in S : items[p].inner = << >>
  BY PlainWanted
<1> HIDE DEF S
<1>2. Owned(typed) \in BOOLEAN /\ Deep(typed) \in BOOLEAN
  BY DEF Owned, Deep, Optioned
<1>3. PICK own \in BOOLEAN : own = Owned(typed)
  BY <1>2
<1>4. PICK deep \in BOOLEAN : deep = Deep(typed)
  BY <1>2
<1>5. Traces(records, items, S, with, own)
  BY <1>3 DEF S
<1>6. Prints(Records(records, Row), items, S, deep, own)
  BY <1>1, <1>5, FlatPrints
<1>7. \A p \in S : Len(items[p].inner) \in Nat
  BY <1>1
<1>8. Prints(Rows(records), items, S, with, own)
  BY <1>1, <1>5, <1>7, RowsPrint
<1>9. Prints(Rows(records), items, S, deep, own)
  <2>1. 1 .. Len(<< >>) = {}
    OBVIOUS
  <2>2. \A p \in S : Said(items[p], with) = Said(items[p], deep)
    BY <1>1, <2>1 DEF Said
  <2> QED
    BY <1>8, <2>2 DEF Prints
<1> QED
  BY <1>3, <1>4, <1>6, <1>9 DEF S

\* so is the list,
LEMMA ListRight ==
  ASSUME NEW typed, Optioned(typed), NEW aim, NEW items, Plain(items), NEW records,
         Traces(records, items, Wanted(typed, aim, items), FALSE, Owned(typed))
  PROVE  Right(typed, aim, items, FormatList(typed.format, records))
<1>1. /\ Prints(Records(records, Row), items, Wanted(typed, aim, items), Deep(typed), Owned(typed))
      /\ Prints(Rows(records), items, Wanted(typed, aim, items), Deep(typed), Owned(typed))
  BY FlatRight
<1>2. CASE typed.format = "json"
  BY <1>1, <1>2 DEF FormatList, Right, Printed
<1>3. CASE typed.format # "json"
  BY <1>1, <1>3 DEF FormatList, Right, Printed
<1> QED
  BY <1>2, <1>3

\* so are the groups,
LEMMA GroupsRight ==
  ASSUME NEW typed, Optioned(typed), NEW aim, NEW items, Plain(items), NEW records,
         Traces(records, items, Wanted(typed, aim, items), FALSE, Owned(typed))
  PROVE  /\ Right(typed, aim, items, FormatGrouped(records))
         /\ Right(typed, aim, items, FormatReferencesCsv(records))
         /\ Right(typed, aim, items, RenderSymbolsGrouped(records))
         /\ Right(typed, aim, items, RenderDiagnosticsGrouped(records))
         /\ Right(typed, aim, items, RenderReferencesGrouped(records))
<1>1. /\ Prints(Records(records, Row), items, Wanted(typed, aim, items), Deep(typed), Owned(typed))
      /\ Prints(Rows(records), items, Wanted(typed, aim, items), Deep(typed), Owned(typed))
  BY FlatRight
<1>2. Right(typed, aim, items, Printed(Rows(records)))
  BY <1>1 DEF Right, Printed
<1>3. Right(typed, aim, items, Printed(Records(records, Row)))
  BY <1>1 DEF Right, Printed
<1> QED
  BY <1>2, <1>3 DEF FormatGrouped, FormatReferencesCsv, RenderSymbolsGrouped,
                    RenderDiagnosticsGrouped, RenderReferencesGrouped

\* so is the table unless its rows have different columns,
LEMMA TableRight ==
  ASSUME NEW typed, Optioned(typed), NEW aim, NEW items, Plain(items), NEW records,
         typed.kind \in ByWorkspace, typed.format = "csv",
         Traces(records, items, Wanted(typed, aim, items), FALSE, Owned(typed))
  PROVE  Right(typed, aim, items, FormatGroupedFlat(records))
<1>1. Prints(Rows(records), items, Wanted(typed, aim, items), Deep(typed), Owned(typed))
  BY FlatRight
<1>2. ASSUME NEW n \in 1 .. Len(records), ~ (records[n].keys \subseteq records[1].keys)
      PROVE  \E p, q \in Wanted(typed, aim, items) : items[p].keys # items[q].keys
  <2>1. 1 \in 1 .. Len(records)
    BY DEF Traces
  <2>2. PICK b \in Bijection(1 .. Len(records), Wanted(typed, aim, items)) :
          \A m \in 1 .. Len(records) : records[m].keys = items[b[m]].keys
    BY DEF Traces
  <2>3. b[n] \in Wanted(typed, aim, items) /\ b[1] \in Wanted(typed, aim, items)
    BY <2>1, <2>2 DEF Bijection, Injection
  <2>4. items[b[n]].keys # items[b[1]].keys
    BY <1>2, <2>1, <2>2
  <2> QED
    BY <2>3, <2>4
<1>3. /\ FormatGroupedFlat(records).ok <=>
           \A n \in 1 .. Len(records) : records[n].keys \subseteq records[1].keys
      /\ FormatGroupedFlat(records).rows = Rows(records)
  BY DEF FormatGroupedFlat
<1> QED
  BY <1>1, <1>2, <1>3 DEF Right

\* and so are the items themselves.
LEMMA RawRight ==
  ASSUME NEW typed, Optioned(typed), NEW aim, NEW items, Plain(items), typed.raw
  PROVE  Right(typed, aim, items, FormatRaw(items))
<1>1. Wanted(typed, aim, items) = 1 .. Len(items)
  BY PlainWanted
<1>2. items \in Seq(Item)
  BY DEF Plain
<1>3. Chosen(items, items, 1 .. Len(items))
  BY <1>2, AllChosen
<1> DEFINE records == Records(items, LAMBDA i : Record(i.file, i, i.inner))
           files == [n \in 1 .. Len(items) |-> items[n].file]
<1>4. records = [n \in 1 .. Len(items) |->
                   [file |-> files[n], at |-> items[n].at, name |-> items[n].name,
                    keys |-> items[n].keys, inner |-> IF TRUE THEN items[n].inner ELSE << >>]]
  BY DEF Records, Record
<1>5. \A n \in 1 .. Len(items) : files[n] = items[n].file
  OBVIOUS
<1> HIDE DEF records, files
<1>6. Traces(records, items, 1 .. Len(items), TRUE, Owned(typed))
  BY <1>3, <1>4, <1>5, MadeTrace
<1>7. Prints(Rows(records), items, Wanted(typed, aim, items), Deep(typed), Owned(typed))
  BY <1>1, <1>6, FlatRight
<1> QED
  BY <1>7 DEF records, FormatRaw, Right, Printed

\* Records under the file an item is in,
LEMMA OwnRecords ==
  ASSUME NEW items, NEW S, NEW seq, Chosen(seq, items, S)
  PROVE  /\ Traces(TransformLocations(seq), items, S, FALSE, TRUE)
         /\ Traces(EditRecords(seq), items, S, FALSE, TRUE)
         /\ Traces(Records(seq, TransformSymbolInformation), items, S, FALSE, TRUE)
         /\ Traces(Records(seq, LAMBDA i : TransformDiagnostics(<<i>>, i.file)[1]), items, S, FALSE, TRUE)
<1> DEFINE files == [n \in 1 .. Len(seq) |-> seq[n].file]
           records == [n \in 1 .. Len(seq) |->
                         [file |-> files[n], at |-> seq[n].at, name |-> seq[n].name,
                          keys |-> seq[n].keys, inner |-> IF FALSE THEN seq[n].inner ELSE << >>]]
<1>1. \A n \in 1 .. Len(seq) : files[n] = seq[n].file
  OBVIOUS
<1>2. /\ TransformLocations(seq) = records /\ EditRecords(seq) = records
      /\ Records(seq, TransformSymbolInformation) = records
  BY DEF TransformLocations, EditRecords, TransformSymbolInformation, Records, Record
<1>3. Records(seq, LAMBDA i : TransformDiagnostics(<<i>>, i.file)[1]) = records
  <2>1. ASSUME NEW i PROVE TransformDiagnostics(<<i>>, i.file)[1] = Record(i.file, i, << >>)
    <3>1. 1 \in 1 .. Len(<<i>>) /\ <<i>>[1] = i
      OBVIOUS
    <3> QED
      BY <3>1 DEF TransformDiagnostics, Records
  <2> QED
    BY <2>1 DEF Records, Record
<1>4. Traces(records, items, S, FALSE, TRUE)
  <2> HIDE DEF files
  <2> QED
    BY <1>1, MadeTrace
<1> HIDE DEF records
<1> QED
  BY <1>2, <1>3, <1>4

\* and records under the file that was asked about.
LEMMA FileRecords ==
  ASSUME NEW items, NEW S, NEW seq, Chosen(seq, items, S), NEW f
  PROVE  /\ Traces(TransformDiagnostics(seq, f), items, S, FALSE, FALSE)
         /\ Traces(TransformCompletions(seq, f), items, S, FALSE, FALSE)
<1> DEFINE files == [n \in 1 .. Len(seq) |-> f]
           records == [n \in 1 .. Len(seq) |->
                         [file |-> files[n], at |-> seq[n].at, name |-> seq[n].name,
                          keys |-> seq[n].keys, inner |-> IF FALSE THEN seq[n].inner ELSE << >>]]
<1>1. /\ TransformDiagnostics(seq, f) = records /\ TransformCompletions(seq, f) = records
  BY DEF TransformDiagnostics, TransformCompletions, Records, Record
<1>2. Traces(records, items, S, FALSE, FALSE)
  <2> HIDE DEF files
  <2> QED
    BY MadeTrace
<1> HIDE DEF records
<1> QED
  BY <1>1, <1>2

\* The items a command keeps, once the test files are filtered out of them.
LEMMA KeptChosen ==
  ASSUME NEW typed, Optioned(typed), typed.kind \in Filtered, ~ typed.raw, NEW aim,
         NEW items, Plain(items)
  PROVE  Chosen(FilterByUri(items, typed.includeTests, aim.language), items,
                Wanted(typed, aim, items))
<1>1. items \in Seq(Item) /\ typed.includeTests \in BOOLEAN
  BY DEF Plain, Optioned
<1>2. Wanted(typed, aim, items)
        = {n \in 1 .. Len(items) : ~ (~ typed.includeTests /\ OfTests(aim.language, items[n].file))}
  BY PlainWanted
<1> QED
  BY <1>1, <1>2, FilteredChosen

\* An item with no more than what is read of it: one text of a hover, and of a
\* document symbol what it is normalised to, down to the depth that was asked for.
Read(typed, item) ==
  CASE typed.kind = "hover" -> [item EXCEPT !.name = Content(item), !.inner = << >>]
    [] typed.kind = "document-symbol" /\ typed.raw -> AsDocumentSymbol(item)
    [] typed.kind = "document-symbol" /\ ~ typed.raw ->
         [AsDocumentSymbol(item) EXCEPT !.inner = UpTo(typed.depth, @)]
    [] OTHER -> item

ReadAll(typed, items) == [n \in 1 .. Len(items) |-> Read(typed, items[n])]

\* The children down to a depth.
LEMMA ChildrenUpTo ==
  ASSUME NEW inner \in Seq(Child), NEW depth \in Int
  PROVE  /\ Len(UpTo(depth, inner)) \in Nat
         /\ {UpTo(depth, inner)[n].name : n \in 1 .. Len(UpTo(depth, inner))}
              = {inner[n].name : n \in {m \in 1 .. Len(inner) : depth < 0 \/ inner[m].level <= depth}}
<1>1. CASE depth < 0
  BY <1>1 DEF UpTo
<1>2. CASE ~ depth < 0
  <2> DEFINE V == {c \in Child : c.level <= depth}
  <2>1. \A n \in 1 .. Len(inner) : inner[n] \in Child
    BY ElementOfSeq
  <2>2. {n \in 1 .. Len(inner) : inner[n] \in V} = {m \in 1 .. Len(inner) : depth < 0 \/ inner[m].level <= depth}
    BY <1>2, <2>1
  <2>3. UpTo(depth, inner) = Picked(inner, {n \in 1 .. Len(inner) : inner[n] \in V})
    BY <1>2, <2>2 DEF UpTo
  <2> HIDE DEF V
  <2>4. PICK kept : kept = {n \in 1 .. Len(inner) : inner[n] \in V}
    OBVIOUS
  <2>5. PICK seq : seq = UpTo(depth, inner)
    OBVIOUS
  <2>6. Chosen(seq, inner, kept)
    BY <2>3, <2>4, <2>5, PickedOfAll
  <2>7. PICK b \in Bijection(1 .. Len(seq), kept) : \A n \in 1 .. Len(seq) : seq[n] = inner[b[n]]
    BY <2>6 DEF Chosen
  <2>8. /\ \A n \in 1 .. Len(seq) : b[n] \in kept
        /\ \A p \in kept : \E n \in 1 .. Len(seq) : b[n] = p
    BY <2>7 DEF Bijection, Injection, Surjection
  <2>9. {seq[n].name : n \in 1 .. Len(seq)} = {inner[n].name : n \in kept}
    BY <2>7, <2>8
  <2>10. Len(seq) \in Nat
    BY <2>6 DEF Chosen
  <2>11. kept = {m \in 1 .. Len(inner) : depth < 0 \/ inner[m].level <= depth}
    BY <2>2, <2>4
  <2> QED
    BY <2>5, <2>9, <2>10, <2>11
<1> QED
  BY <1>1, <1>2

\* A document symbol is an item like others.
LEMMA DocumentItem ==
  ASSUME NEW item \in Item
  PROVE  /\ AsDocumentSymbol(item) \in Item
         /\ AsDocumentSymbol(item).file = item.file /\ AsDocumentSymbol(item).at = item.at
         /\ AsDocumentSymbol(item).name = item.name /\ AsDocumentSymbol(item).valid = item.valid
         /\ AsDocumentSymbol(item).inner = IF "location" \in item.keys THEN << >> ELSE item.inner
<1>1. << >> \in Seq(Child) /\ item.keys \cap {"deprecated"} \in SUBSET STRING
  BY DEF Item
<1> QED
  BY <1>1 DEF AsDocumentSymbol, Item

\* What is read of an item,
LEMMA ItemRead ==
  ASSUME NEW typed, Optioned(typed), NEW item \in Item
  PROVE  /\ Read(typed, item).file = item.file /\ Read(typed, item).at = item.at
         /\ Read(typed, item).valid = item.valid
         /\ Len(Read(typed, item).inner) \in Nat
         /\ typed.kind = "hover" => /\ Read(typed, item) \in Item
                                    /\ Read(typed, item).name = Content(item)
                                    /\ Read(typed, item).keys = item.keys
                                    /\ Read(typed, item).inner = << >>
         /\ typed.kind \notin {"hover", "document-symbol"} => Read(typed, item) = item
<1>1. CASE typed.kind = "hover"
  <2>1. Read(typed, item) = [item EXCEPT !.name = Content(item), !.inner = << >>]
    BY <1>1 DEF Read
  <2>2. Content(item) \in Names
    BY AnswerAssumption DEF Content, Item
  <2>3. << >> \in Seq(Child) /\ Len(<< >>) = 0
    OBVIOUS
  <2>4. PICK read : read = Read(typed, item)
    OBVIOUS
  <2>5. PICK content \in Names : content = Content(item)
    BY <2>2
  <2>6. read = [item EXCEPT !.name = content, !.inner = << >>]
    BY <2>1, <2>4, <2>5
  <2>7. /\ read \in Item /\ read.file = item.file /\ read.at = item.at /\ read.valid = item.valid
        /\ read.name = content /\ read.keys = item.keys /\ read.inner = << >>
    BY <2>3, <2>6 DEF Item
  <2> QED
    BY <1>1, <2>3, <2>4, <2>5, <2>7
<1>2. CASE typed.kind = "document-symbol"
  <2>1. PICK symbol \in Item : symbol = AsDocumentSymbol(item)
    BY DocumentItem
  <2>2. /\ symbol.file = item.file /\ symbol.at = item.at /\ symbol.valid = item.valid
    BY <2>1, DocumentItem
  <2>3. symbol.inner \in Seq(Child) /\ typed.depth \in Int
    BY DEF Item, Optioned
  <2>4. Len(UpTo(typed.depth, symbol.inner)) \in Nat /\ Len(symbol.inner) \in Nat
    BY <2>3, ChildrenUpTo
  <2>5. CASE typed.raw
    BY <1>2, <2>1, <2>2, <2>4, <2>5 DEF Read
  <2>6. CASE ~ typed.raw
    <3>1. Read(typed, item) = [symbol EXCEPT !.inner = UpTo(typed.depth, symbol.inner)]
      BY <1>2, <2>1, <2>6 DEF Read
    <3> QED
      BY <1>2, <2>2, <2>4, <3>1 DEF Item
  <2> QED
    BY <2>5, <2>6
<1>3. CASE typed.kind \notin {"hover", "document-symbol"}
  <2>1. Read(typed, item) = item
    BY <1>3 DEF Read
  <2> QED
    BY <1>3, <2>1 DEF Item
<1> QED
  BY <1>1, <1>2, <1>3

\* and of all items.
LEMMA AllRead ==
  ASSUME NEW typed, Optioned(typed), NEW aim, NEW items \in Seq(Item)
  PROVE  /\ Len(ReadAll(typed, items)) = Len(items)
         /\ \A n \in 1 .. Len(items) : ReadAll(typed, items)[n] = Read(typed, items[n])
         /\ Wanted(typed, aim, ReadAll(typed, items)) = Wanted(typed, aim, items)
         /\ typed.kind \notin {"hover", "document-symbol"} => ReadAll(typed, items) = items
<1> DEFINE T == {Read(typed, items[n]) : n \in 1 .. Len(items)}
<1>1. ReadAll(typed, items) \in [1 .. Len(items) -> T]
  BY DEF ReadAll
<1> HIDE DEF T
<1>2. Len(ReadAll(typed, items)) = Len(items)
  BY <1>1, FunctionLen
<1>3. \A n \in 1 .. Len(items) : ReadAll(typed, items)[n] = Read(typed, items[n])
  BY DEF ReadAll
<1>4. \A n \in 1 .. Len(items) : items[n] \in Item
  BY ElementOfSeq
<1>5. \A n \in 1 .. Len(items) : /\ ReadAll(typed, items)[n].valid = items[n].valid
                                  /\ ReadAll(typed, items)[n].file = items[n].file
  BY <1>3, <1>4, ItemRead
<1>6. Wanted(typed, aim, ReadAll(typed, items)) = Wanted(typed, aim, items)
  BY <1>2, <1>5 DEF Wanted
<1>7. ASSUME typed.kind \notin {"hover", "document-symbol"} PROVE ReadAll(typed, items) = items
  <2>1. \A n \in 1 .. Len(items) : Read(typed, items[n]) = items[n]
    BY <1>4, <1>7, ItemRead
  <2>2. ReadAll(typed, items) = [n \in 1 .. Len(items) |-> items[n]]
    BY <2>1 DEF ReadAll
  <2> QED
    BY <2>2
<1> QED
  BY <1>2, <1>3, <1>6, <1>7

\* Items that were chosen are so after they are read.
LEMMA ReadChosen ==
  ASSUME NEW typed, NEW items, NEW S, S \subseteq 1 .. Len(items), NEW seq, Chosen(seq, items, S)
  PROVE  /\ Chosen(ReadAll(typed, seq), ReadAll(typed, items), S)
         /\ Len(ReadAll(typed, seq)) = Len(seq)
<1>1. PICK b \in Bijection(1 .. Len(seq), S) : \A n \in 1 .. Len(seq) : seq[n] = items[b[n]]
  BY DEF Chosen
<1>2. Len(seq) \in Nat
  BY DEF Chosen
<1> DEFINE T == {Read(typed, seq[n]) : n \in 1 .. Len(seq)}
<1>3. ReadAll(typed, seq) \in [1 .. Len(seq) -> T]
  BY DEF ReadAll
<1> HIDE DEF T
<1>4. Len(ReadAll(typed, seq)) = Len(seq)
  BY <1>2, <1>3, FunctionLen
<1>5. \A n \in 1 .. Len(seq) : b[n] \in S
  BY <1>1 DEF Bijection, Injection
<1>6. \A n \in 1 .. Len(seq) : ReadAll(typed, seq)[n] = ReadAll(typed, items)[b[n]]
  BY <1>1, <1>5 DEF ReadAll
<1> QED
  BY <1>1, <1>2, <1>4, <1>6 DEF Chosen

\* Command by command.
LEMMA DefinitionRight ==
  ASSUME NEW typed, Optioned(typed), typed.kind = "definition", NEW aim, NEW items, Plain(items)
  PROVE  Right(typed, aim, items, Definition(typed, aim, items))
<1>1. typed.kind \in Filtered /\ ~ typed.raw /\ Owned(typed)
  BY DEF Filtered, Locations, WithRaw, Calls, Optioned, Owned
<1>2. PICK seq : seq = FilterByUri(items, typed.includeTests, aim.language)
  OBVIOUS
<1>3. Chosen(seq, items, Wanted(typed, aim, items))
  BY <1>1, <1>2, KeptChosen
<1>4. Traces(TransformLocations(seq), items, Wanted(typed, aim, items), FALSE, Owned(typed))
  BY <1>1, <1>3, OwnRecords
<1>5. Right(typed, aim, items, FormatList(typed.format, TransformLocations(seq)))
  BY <1>4, ListRight
<1> QED
  BY <1>2, <1>5 DEF Definition

LEMMA ReferencesRight ==
  ASSUME NEW typed, Optioned(typed), typed.kind = "references", NEW aim, NEW items, Plain(items)
  PROVE  Right(typed, aim, items, References(typed, aim, items))
<1>1. CASE typed.raw
  BY <1>1, RawRight DEF References
<1>2. CASE ~ typed.raw
  <2>1. typed.kind \in Filtered /\ Owned(typed)
    BY DEF Filtered, Locations, Owned
  <2>2. PICK seq : seq = FilterByUri(items, typed.includeTests, aim.language)
    OBVIOUS
  <2>3. Chosen(seq, items, Wanted(typed, aim, items))
    BY <1>2, <2>1, <2>2, KeptChosen
  <2>4. Traces(TransformLocations(seq), items, Wanted(typed, aim, items), FALSE, TRUE)
    BY <2>3, OwnRecords
  <2>5. PICK groups : groups = GroupLocationsByFile(TransformLocations(seq))
    OBVIOUS
  <2>6. items \in Seq(Item) /\ Wanted(typed, aim, items) \in SUBSET (1 .. Len(items))
    BY PlainWanted DEF Plain
  <2>7. Traces(groups, items, Wanted(typed, aim, items), FALSE, Owned(typed))
    BY <2>1, <2>4, <2>5, <2>6, GroupedTrace
  <2>8. /\ Right(typed, aim, items, RenderReferencesGrouped(groups))
        /\ Right(typed, aim, items, FormatReferencesCsv(groups))
        /\ Right(typed, aim, items, FormatGrouped(groups))
    BY <2>7, GroupsRight
  <2>9. References(typed, aim, items) = CASE typed.format = "text" -> RenderReferencesGrouped(groups)
                                          [] typed.format = "csv" -> FormatReferencesCsv(groups)
                                          [] OTHER -> FormatGrouped(groups)
    BY <1>2, <2>2, <2>5 DEF References
  <2> QED
    BY <2>8, <2>9
<1> QED
  BY <1>1, <1>2

LEMMA WorkspaceSymbolRight ==
  ASSUME NEW typed, Optioned(typed), typed.kind = "workspace-symbol", NEW aim, NEW items, Plain(items)
  PROVE  Right(typed, aim, items, WorkspaceSymbol(typed, aim, items))
<1>1. CASE typed.raw
  BY <1>1, RawRight DEF WorkspaceSymbol
<1>2. CASE ~ typed.raw
  <2>1. typed.kind \in Filtered /\ Owned(typed) /\ typed.kind \in ByWorkspace
    BY DEF Filtered, ByWorkspace, Owned
  <2>2. PICK seq : seq = FilterByUri(items, typed.includeTests, aim.language)
    OBVIOUS
  <2>3. Chosen(seq, items, Wanted(typed, aim, items))
    BY <1>2, <2>1, <2>2, KeptChosen
  <2>4. Traces(Records(seq, TransformSymbolInformation), items, Wanted(typed, aim, items), FALSE, TRUE)
    BY <2>3, OwnRecords
  <2>5. PICK groups : groups = GroupRecordsByFile(Records(seq, TransformSymbolInformation))
    OBVIOUS
  <2>6. items \in Seq(Item) /\ Wanted(typed, aim, items) \in SUBSET (1 .. Len(items))
    BY PlainWanted DEF Plain
  <2>7. Traces(groups, items, Wanted(typed, aim, items), FALSE, Owned(typed))
    BY <2>1, <2>4, <2>5, <2>6, GroupedTrace
  <2>8. /\ Right(typed, aim, items, RenderSymbolsGrouped(groups))
        /\ Right(typed, aim, items, FormatGrouped(groups))
    BY <2>7, GroupsRight
  <2>9. typed.format = "csv" => Right(typed, aim, items, FormatGroupedFlat(groups))
    BY <2>1, <2>7, TableRight
  <2>10. WorkspaceSymbol(typed, aim, items)
           = CASE typed.format = "text" -> RenderSymbolsGrouped(groups)
               [] typed.format = "csv" -> FormatGroupedFlat(groups)
               [] OTHER -> FormatGrouped(groups)
    BY <1>2, <2>2, <2>5 DEF WorkspaceSymbol
  <2> QED
    BY <2>8, <2>9, <2>10
<1> QED
  BY <1>1, <1>2

LEMMA CallsRight ==
  ASSUME NEW typed, Optioned(typed), typed.kind \in Calls, NEW aim, NEW items, Plain(items)
  PROVE  /\ Right(typed, aim, items, IncomingCalls(typed, aim, items))
         /\ Right(typed, aim, items, OutgoingCalls(typed, aim, items))
<1>1. CASE typed.raw
  BY <1>1, RawRight DEF IncomingCalls, OutgoingCalls
<1>2. CASE ~ typed.raw
  <2>1. typed.kind \notin Filtered /\ Owned(typed)
    BY DEF Filtered, Locations, ByWorkspace, Calls, Owned
  <2>2. items \in Seq(Item) /\ Wanted(typed, aim, items) = 1 .. Len(items)
    BY <2>1, PlainWanted DEF Plain
  <2>3. Chosen(items, items, Wanted(typed, aim, items))
    BY <2>2, AllChosen
  <2>4. Traces(EditRecords(items), items, Wanted(typed, aim, items), FALSE, TRUE)
    BY <2>3, OwnRecords
  <2>5. PICK records : records = SortedCalls(EditRecords(items))
    OBVIOUS
  <2>6. Wanted(typed, aim, items) \in SUBSET (1 .. Len(items))
    BY <2>2
  <2>7. Traces(records, items, Wanted(typed, aim, items), FALSE, Owned(typed))
    BY <2>1, <2>2, <2>4, <2>5, <2>6, GroupedTrace
  <2>8. Right(typed, aim, items, FormatList(typed.format, records))
    BY <2>7, ListRight
  <2>9. TransformIncoming(items) = records /\ TransformOutgoing(items) = records
    BY <2>5 DEF TransformIncoming, TransformOutgoing, EditRecords
  <2> QED
    BY <1>2, <2>8, <2>9 DEF IncomingCalls, OutgoingCalls
<1> QED
  BY <1>1, <1>2

LEMMA CompletionRight ==
  ASSUME NEW typed, Optioned(typed), typed.kind = "completion", NEW aim, NEW items, Plain(items)
  PROVE  Right(typed, aim, items, Completion(typed, aim, items))
<1>1. typed.kind \notin Filtered /\ Owned(typed) = FALSE
  BY DEF Filtered, Locations, ByWorkspace, Calls, Owned
<1>2. items \in Seq(Item) /\ Wanted(typed, aim, items) = 1 .. Len(items)
  BY <1>1, PlainWanted DEF Plain
<1>3. Chosen(items, items, Wanted(typed, aim, items))
  BY <1>2, AllChosen
<1>4. Traces(TransformCompletions(items, aim.file), items, Wanted(typed, aim, items), FALSE, Owned(typed))
  BY <1>1, <1>3, FileRecords
<1> QED
  BY <1>4, ListRight DEF Completion

LEMMA RenameRight ==
  ASSUME NEW typed, Optioned(typed), typed.kind = "rename", NEW aim, NEW items, Plain(items)
  PROVE  Right(typed, aim, items, RenameCommand(typed, aim, items))
<1>1. typed.kind \notin Filtered /\ Owned(typed) = FALSE
  BY DEF Filtered, Locations, ByWorkspace, Calls, Owned
<1>2. items \in Seq(Item) /\ Wanted(typed, aim, items) = 1 .. Len(items)
  BY <1>1, PlainWanted DEF Plain
<1>3. Chosen(items, items, Wanted(typed, aim, items))
  BY <1>2, AllChosen
<1>4. Traces(EditRecords(items), items, Wanted(typed, aim, items), FALSE, TRUE)
  BY <1>3, OwnRecords
<1>5. Traces(EditRecords(items), items, Wanted(typed, aim, items), FALSE, Owned(typed))
  BY <1>1, <1>4 DEF Traces
<1> QED
  BY <1>5, ListRight DEF RenameCommand

LEMMA HoverRight ==
  ASSUME NEW typed, Optioned(typed), typed.kind = "hover", NEW aim,
         NEW answered \in Seq(Item), AllValid(answered), Len(answered) <= 1
  PROVE  Right(typed, aim, ReadAll(typed, answered), Hover(typed, aim, answered))
<1>1. PICK items : items = ReadAll(typed, answered)
  OBVIOUS
<1>2. /\ Len(items) = Len(answered)
      /\ \A n \in 1 .. Len(items) :
           /\ items[n] \in Item /\ items[n].valid /\ items[n].inner = << >>
           /\ items[n].at = answered[n].at /\ items[n].name = Content(answered[n])
           /\ items[n].keys = answered[n].keys
  <2>1. Len(items) = Len(answered) /\ \A n \in 1 .. Len(answered) : items[n] = Read(typed, answered[n])
    BY <1>1, AllRead
  <2>2. \A n \in 1 .. Len(answered) : answered[n] \in Item /\ answered[n].valid
    BY ElementOfSeq DEF AllValid
  <2> QED
    BY <2>1, <2>2, ItemRead
<1>3. Plain(items)
  <2>1. items \in [1 .. Len(answered) -> Item]
    BY <1>1, <1>2 DEF ReadAll
  <2>2. items \in Seq(Item)
    BY <2>1, FunctionLen
  <2> QED
    BY <1>2, <2>2 DEF Plain
<1>4. Len(items) <= 1
  BY <1>2
<1>5. typed.kind \notin Filtered /\ Owned(typed) = FALSE
  BY DEF Filtered, Locations, ByWorkspace, Calls, Owned
<1>6. items \in Seq(Item) /\ Wanted(typed, aim, items) = 1 .. Len(items)
  BY <1>5, <1>3, PlainWanted DEF Plain
<1>7. Chosen(items, items, Wanted(typed, aim, items))
  BY <1>6, AllChosen
<1>8. PICK records : records = TransformCompletions(items, aim.file)
  OBVIOUS
<1>9. records = TransformHover(answered, aim.file)
  <2>1. TransformHover(answered, aim.file)
          = [n \in 1 .. Len(answered) |->
               Record(aim.file, [answered[n] EXCEPT !.name = Content(answered[n])], << >>)]
    BY DEF TransformHover, Records
  <2>2. records = [n \in 1 .. Len(answered) |-> Record(aim.file, items[n], << >>)]
    BY <1>8, <1>2 DEF TransformCompletions, Records
  <2>3. ASSUME NEW n \in 1 .. Len(answered)
        PROVE  Record(aim.file, [answered[n] EXCEPT !.name = Content(answered[n])], << >>)
                 = Record(aim.file, items[n], << >>)
    <3>1. answered[n] \in Item
      BY ElementOfSeq
    <3>2. /\ items[n].at = answered[n].at /\ items[n].name = Content(answered[n])
          /\ items[n].keys = answered[n].keys
      BY <1>2
    <3>3. PICK hover : hover = [answered[n] EXCEPT !.name = Content(answered[n])]
      OBVIOUS
    <3>4. hover.at = answered[n].at /\ hover.keys = answered[n].keys /\ hover.name = Content(answered[n])
      BY <3>1, <3>3 DEF Item
    <3> QED
      BY <3>2, <3>3, <3>4 DEF Record
  <2> QED
    BY <2>1, <2>2, <2>3
<1>10. Traces(records, items, Wanted(typed, aim, items), FALSE, Owned(typed))
  BY <1>5, <1>7, <1>8, FileRecords
<1>11. Prints(Records(records, Row), items, Wanted(typed, aim, items), Deep(typed), Owned(typed))
  BY <1>10, <1>3, FlatRight
<1>12. Hover(typed, aim, answered) = Printed(Records(records, Row))
  <2>1. PICK N \in Nat : N = Len(items)
    BY <1>6
  <2>2. N = 0 \/ N = 1
    BY <1>4, <2>1
  <2>3. records = [n \in 1 .. N |-> Record(aim.file, items[n], << >>)]
    BY <1>8, <2>1 DEF TransformCompletions, Records
  <2>4. records \in Seq({Record(aim.file, items[n], << >>) : n \in 1 .. N}) /\ Len(records) = N
    <3> DEFINE T == {Record(aim.file, items[n], << >>) : n \in 1 .. N}
    <3>1. records \in [1 .. N -> T]
      BY <2>3
    <3> HIDE DEF T
    <3>2. records \in Seq(T) /\ Len(records) = N
      BY <3>1, FunctionLen
    <3> QED
      BY <3>2 DEF T
  <2>5. CASE N = 0
    <3>1. records = << >>
      BY <2>4, <2>5
    <3>2. Records(records, Row) = << >>
      BY <3>1 DEF Records
    <3> QED
      BY <1>9, <3>1, <3>2 DEF Hover
  <2>6. CASE N = 1
    <3>1. records # << >>
      BY <2>4, <2>6
    <3>2. <<Row(records[1])>> = Records(records, Row)
      BY <2>4, <2>6 DEF Records
    <3> QED
      BY <1>9, <3>1, <3>2 DEF Hover, Format
  <2> QED
    BY <2>2, <2>5, <2>6
<1> QED
  BY <1>1, <1>11, <1>12 DEF Right, Printed

LEMMA WorkspaceDiagnosticsRight ==
  ASSUME NEW typed, Optioned(typed), typed.kind = "workspace-diagnostics", NEW aim, NEW items, Plain(items)
  PROVE  Right(typed, aim, items, WorkspaceDiagnostics(typed, aim, items))
<1>1. typed.kind \in Filtered /\ Owned(typed) /\ typed.kind \in ByWorkspace /\ ~ typed.raw
  BY DEF Filtered, ByWorkspace, Owned, Optioned, WithRaw, Calls
<1>2. PICK seq : seq = FilterByUri(items, typed.includeTests, aim.language)
  OBVIOUS
<1>3. Chosen(seq, items, Wanted(typed, aim, items))
  BY <1>1, <1>2, KeptChosen
<1>4. items \in Seq(Item) /\ Wanted(typed, aim, items) \in SUBSET (1 .. Len(items))
  BY PlainWanted DEF Plain
<1>5. {p \in Wanted(typed, aim, items) : items[p].valid} = Wanted(typed, aim, items)
  BY DEF Wanted
<1>6. PICK valid : valid = ValidOnly(seq)
  OBVIOUS
<1>7. Chosen(valid, items, Wanted(typed, aim, items))
  BY <1>3, <1>4, <1>5, <1>6, ValidChosen
<1>8. PICK records : records = Records(valid, LAMBDA i : TransformDiagnostics(<<i>>, i.file)[1])
  OBVIOUS
<1>9. Traces(records, items, Wanted(typed, aim, items), FALSE, TRUE)
  BY <1>7, <1>8, OwnRecords
<1>10. PICK groups : groups = GroupRecordsByFile(records)
  OBVIOUS
<1>11. Traces(groups, items, Wanted(typed, aim, items), FALSE, Owned(typed))
  BY <1>1, <1>4, <1>9, <1>10, GroupedTrace
<1>12. /\ Right(typed, aim, items, RenderDiagnosticsGrouped(groups))
       /\ Right(typed, aim, items, FormatGrouped(groups))
  BY <1>11, GroupsRight
<1>13. typed.format = "csv" => Right(typed, aim, items, FormatGroupedFlat(groups))
  BY <1>1, <1>11, TableRight
<1>14. WorkspaceDiagnostics(typed, aim, items)
         = CASE typed.format = "text" -> RenderDiagnosticsGrouped(groups)
             [] typed.format = "csv" -> FormatGroupedFlat(groups)
             [] OTHER -> FormatGrouped(groups)
  BY <1>2, <1>6, <1>8, <1>10 DEF WorkspaceDiagnostics
<1> QED
  BY <1>12, <1>13, <1>14

\* Where ill-formed items are dropped, the well-formed ones are left.
LEMMA ValidWanted ==
  ASSUME NEW typed, typed.kind \in {"diagnostics", "document-symbol"}, NEW aim,
         NEW items \in Seq(Item)
  PROVE  /\ ~ Owned(typed)
         /\ Wanted(typed, aim, items) \in SUBSET (1 .. Len(items))
         /\ Chosen(ValidOnly(items), items, Wanted(typed, aim, items))
<1>1. typed.kind \notin Filtered /\ ~ Owned(typed)
  BY DEF Filtered, Locations, ByWorkspace, Calls, Owned
<1>2. Wanted(typed, aim, items) = {p \in 1 .. Len(items) : items[p].valid}
  BY <1>1 DEF Wanted
<1>3. Chosen(items, items, 1 .. Len(items))
  BY AllChosen
<1>4. Chosen(ValidOnly(items), items, {p \in 1 .. Len(items) : items[p].valid})
  <2>1. PICK S : S = 1 .. Len(items)
    OBVIOUS
  <2>2. PICK seq : seq = items
    OBVIOUS
  <2>3. Chosen(ValidOnly(seq), items, {p \in S : items[p].valid})
    BY <1>3, <2>1, <2>2, ValidChosen
  <2> QED
    BY <2>1, <2>2, <2>3
<1> QED
  BY <1>1, <1>2, <1>4

LEMMA DiagnosticsRight ==
  ASSUME NEW typed, Optioned(typed), typed.kind = "diagnostics", NEW aim, NEW items \in Seq(Item),
         \A n \in 1 .. Len(items) : items[n].inner = << >>
  PROVE  Right(typed, aim, items, Diagnostics(typed, aim, items))
<1> DEFINE S == Wanted(typed, aim, items)
<1>1. /\ Owned(typed) = FALSE /\ S \in SUBSET (1 .. Len(items))
      /\ Chosen(ValidOnly(items), items, S)
  <2>1. typed.kind \in {"diagnostics", "document-symbol"}
    OBVIOUS
  <2>2. /\ ~ Owned(typed)
        /\ Wanted(typed, aim, items) \in SUBSET (1 .. Len(items))
        /\ Chosen(ValidOnly(items), items, Wanted(typed, aim, items))
    BY <2>1, ValidWanted
  <2>3. Owned(typed) = FALSE
    BY <2>2 DEF Owned
  <2> QED
    BY <2>2, <2>3
<1>2. \A p \in S : items[p].inner = << >>
  BY <1>1
<1> HIDE DEF S
<1>3. PICK records : records = TransformDiagnostics(ValidOnly(items), aim.file)
  OBVIOUS
<1>4. Traces(records, items, S, FALSE, FALSE)
  BY <1>1, <1>3, FileRecords
<1>5. \A p \in S : Len(items[p].inner) \in Nat
  BY <1>2
<1>6. Prints(Records(records, Row), items, S, FALSE, FALSE) /\ Prints(Rows(records), items, S, FALSE, FALSE)
  BY <1>4, <1>5, FlatPrints, RowsPrint
<1>7. PICK deep : deep = Deep(typed)
  OBVIOUS
<1>8. Prints(Records(records, Row), items, S, deep, FALSE) /\ Prints(Rows(records), items, S, deep, FALSE)
  BY <1>2, <1>6, NoChildren
<1>9. PICK printed : printed = FormatList(typed.format, records)
  OBVIOUS
<1>10. printed.ok /\ (printed.rows = Rows(records) \/ printed.rows = Records(records, Row))
  BY <1>9 DEF FormatList, Printed
<1>11. Diagnostics(typed, aim, items) = printed
  BY <1>3, <1>9 DEF Diagnostics
<1>12. Prints(printed.rows, items, S, Deep(typed), Owned(typed))
  BY <1>1, <1>7, <1>8, <1>10
<1> QED
  BY <1>10, <1>11, <1>12 DEF Right, S

\* The document symbols of an answer, as the daemon sends them on.
Documents(items) ==
  [n \in 1 .. Len(ValidOnly(items)) |-> AsDocumentSymbol(ValidOnly(items)[n])]

\* What a document symbol is printed under does not matter, its children do.
LEMMA DocumentSymbolRight ==
  ASSUME NEW typed, Optioned(typed), typed.kind = "document-symbol", NEW aim, NEW items \in Seq(Item)
  PROVE  Right(typed, aim, ReadAll(typed, items), DocumentSymbol(typed, aim, Documents(items)))
<1> DEFINE S == Wanted(typed, aim, items)
<1>1. /\ Owned(typed) = FALSE /\ S \in SUBSET (1 .. Len(items))
      /\ Chosen(ValidOnly(items), items, S)
  <2>1. typed.kind \in {"diagnostics", "document-symbol"}
    OBVIOUS
  <2>2. /\ ~ Owned(typed)
        /\ Wanted(typed, aim, items) \in SUBSET (1 .. Len(items))
        /\ Chosen(ValidOnly(items), items, Wanted(typed, aim, items))
    BY <2>1, ValidWanted
  <2>3. Owned(typed) = FALSE
    BY <2>2 DEF Owned
  <2> QED
    BY <2>2, <2>3
<1>2. PICK read : read = ReadAll(typed, items)
  OBVIOUS
<1>3. /\ Wanted(typed, aim, read) = S
      /\ \A n \in 1 .. Len(items) : read[n] = Read(typed, items[n])
  BY <1>2, AllRead
<1>4. \A p \in S : items[p] \in Item /\ Len(read[p].inner) \in Nat
  <2>1. \A p \in S : items[p] \in Item
    BY <1>1, ElementOfSeq
  <2> QED
    BY <1>1, <1>3, <2>1, ItemRead
<1> HIDE DEF S
<1>5. PICK fit : fit = ValidOnly(items)
  OBVIOUS
<1>6. Chosen(fit, items, S)
  BY <1>1, <1>5
<1>7. PICK seq : seq = ReadAll(typed, fit)
  OBVIOUS
<1>8. Chosen(seq, read, S) /\ Len(seq) = Len(fit)
  BY <1>1, <1>2, <1>6, <1>7, ReadChosen
<1>9. PICK sent : sent = Documents(items)
  OBVIOUS
<1>10. /\ sent = [n \in 1 .. Len(fit) |-> AsDocumentSymbol(fit[n])]
       /\ Len(sent) = Len(fit)
  <2>1. sent = [n \in 1 .. Len(fit) |-> AsDocumentSymbol(fit[n])]
    BY <1>5, <1>9 DEF Documents
  <2> DEFINE T == {AsDocumentSymbol(fit[n]) : n \in 1 .. Len(fit)}
  <2>2. sent \in [1 .. Len(fit) -> T] /\ Len(fit) \in Nat
    BY <1>6, <2>1 DEF Chosen
  <2> HIDE DEF T
  <2> QED
    BY <2>1, <2>2, FunctionLen
<1>11. \A n \in 1 .. Len(fit) : sent[n] \in Item /\ sent[n] = AsDocumentSymbol(fit[n])
  <2>1. \A n \in 1 .. Len(fit) : fit[n] \in Item
    BY <1>4, <1>6 DEF Chosen, Bijection, Injection
  <2> QED
    BY <1>10, <2>1, DocumentItem
<1>12. ASSUME NEW files, NEW records,
              records = [n \in 1 .. Len(seq) |-> Record(files[n], seq[n], seq[n].inner)]
       PROVE  /\ Prints(Rows(records), read, S, TRUE, FALSE)
              /\ Prints(Records(records, Row), read, S, FALSE, FALSE)
  <2>1. records = [n \in 1 .. Len(seq) |->
                     [file |-> files[n], at |-> seq[n].at, name |-> seq[n].name,
                      keys |-> seq[n].keys, inner |-> IF TRUE THEN seq[n].inner ELSE << >>]]
    BY <1>12 DEF Record
  <2>2. Traces(records, read, S, TRUE, FALSE)
    BY <1>8, <2>1, MadeTrace
  <2>3. Prints(Rows(records), read, S, TRUE, FALSE)
    BY <1>4, <2>2, RowsPrint
  <2>4. Prints(Records(records, Row), read, S, FALSE, FALSE)
    BY <2>2, FlatPrints
  <2> QED
    BY <2>3, <2>4
<1>13. ASSUME NEW rows, NEW deep \in BOOLEAN, Prints(rows, read, S, deep, FALSE), Deep(typed) = deep,
              DocumentSymbol(typed, aim, sent) = Printed(rows)
       PROVE  Right(typed, aim, ReadAll(typed, items), DocumentSymbol(typed, aim, Documents(items)))
  <2>1. Prints(rows, read, Wanted(typed, aim, read), Deep(typed), Owned(typed))
    BY <1>1, <1>3, <1>13
  <2>2. Right(typed, aim, read, Printed(rows))
    BY <2>1 DEF Right, Printed
  <2> QED
    BY <1>2, <1>9, <1>13, <2>2
<1>14. CASE typed.raw
  <2>1. PICK files : files = [n \in 1 .. Len(seq) |-> sent[n].file]
    OBVIOUS
  <2>2. PICK records : records = [n \in 1 .. Len(seq) |-> Record(files[n], seq[n], seq[n].inner)]
    OBVIOUS
  <2>3. Prints(Rows(records), read, S, TRUE, FALSE)
    BY <1>12, <2>2
  <2>4. DocumentSymbol(typed, aim, sent) = Printed(Rows(records))
    <3>1. \A n \in 1 .. Len(fit) : seq[n] = sent[n]
      BY <1>7, <1>11, <1>14 DEF ReadAll, Read
    <3>2. records = Records(sent, LAMBDA i : Record(i.file, i, i.inner))
      BY <1>8, <1>10, <2>1, <2>2, <3>1 DEF Records
    <3> QED
      BY <1>14, <3>2 DEF DocumentSymbol, FormatRaw
  <2>5. Deep(typed) = TRUE
    BY <1>14 DEF Deep
  <2> QED
    BY <1>13, <2>3, <2>4, <2>5
<1>15. CASE ~ typed.raw
  <2>1. ASSUME NEW f, NEW n \in 1 .. Len(fit)
        PROVE  Record(f, sent[n], UpTo(typed.depth, sent[n].inner)) = Record(f, seq[n], seq[n].inner)
    <3>1. sent[n] \in Item
      BY <1>11
    <3>2. seq[n] = [sent[n] EXCEPT !.inner = UpTo(typed.depth, @)]
      BY <1>7, <1>11, <1>15 DEF ReadAll, Read
    <3>3. /\ seq[n].at = sent[n].at /\ seq[n].name = sent[n].name /\ seq[n].keys = sent[n].keys
          /\ seq[n].inner = UpTo(typed.depth, sent[n].inner)
      BY <3>1, <3>2 DEF Item
    <3> QED
      BY <3>3 DEF Record
  <2>2. CASE typed.format = "text"
    <3>1. PICK files : files = [n \in 1 .. Len(seq) |-> aim.file]
      OBVIOUS
    <3>2. PICK records : records = [n \in 1 .. Len(seq) |-> Record(files[n], seq[n], seq[n].inner)]
      OBVIOUS
    <3>3. Prints(Rows(records), read, S, TRUE, FALSE)
      BY <1>12, <3>2
    <3>4. DocumentSymbol(typed, aim, sent) = Printed(Rows(records))
      <4>1. records = Records(sent, LAMBDA i : TransformNode(aim.file, i, typed.depth))
        BY <1>8, <1>10, <2>1, <3>1, <3>2 DEF Records, TransformNode
      <4> QED
        BY <1>15, <2>2, <4>1 DEF DocumentSymbol, RenderText
    <3>5. Deep(typed) = TRUE
      BY <2>2 DEF Deep
    <3> QED
      BY <1>13, <3>3, <3>4, <3>5
  <2>3. CASE typed.format # "text"
    <3>1. PICK files : files = [n \in 1 .. Len(seq) |-> aim.workspace.names]
      OBVIOUS
    <3>2. PICK records : records = [n \in 1 .. Len(seq) |-> Record(files[n], seq[n], seq[n].inner)]
      OBVIOUS
    <3>3. /\ Prints(Rows(records), read, S, TRUE, FALSE)
          /\ Prints(Records(records, Row), read, S, FALSE, FALSE)
      BY <1>12, <3>2
    <3>4. DocumentSymbol(typed, aim, sent) = FormatList(typed.format, records)
      <4>1. records = Records(sent, LAMBDA i :
                        TransformDocumentSymbol(aim.workspace.names, i, typed.depth))
        BY <1>8, <1>10, <2>1, <3>1, <3>2 DEF Records, TransformDocumentSymbol
      <4> QED
        BY <1>15, <2>3, <4>1 DEF DocumentSymbol
    <3>5. CASE typed.format = "csv"
      <4>1. Deep(typed) = FALSE
        BY <1>15, <3>5 DEF Deep, Optioned
      <4>2. DocumentSymbol(typed, aim, sent) = Printed(Records(records, Row))
        BY <3>4, <3>5 DEF FormatList
      <4> QED
        BY <1>13, <3>3, <4>1, <4>2
    <3>6. CASE typed.format = "json"
      <4>1. Deep(typed) = TRUE
        BY <3>6 DEF Deep
      <4>2. DocumentSymbol(typed, aim, sent) = Printed(Rows(records))
        BY <3>4, <3>6 DEF FormatList
      <4> QED
        BY <1>13, <3>3, <4>1, <4>2
    <3> QED
      BY <2>3, <3>5, <3>6 DEF Optioned, Formats
  <2> QED
    BY <2>2, <2>3
<1> QED
  BY <1>14, <1>15 DEF Optioned

LEMMA DidChangeRight ==
  ASSUME NEW typed, typed.kind = "did-change", NEW aim
  PROVE  Right(typed, aim, << >>, DidChange(typed, aim, << >>))
<1>1. Owned(typed) = FALSE
  BY DEF Filtered, Locations, ByWorkspace, Calls, Owned
<1>2. Wanted(typed, aim, << >>) = {}
  BY DEF Wanted
<1>3. Cardinality({}) = 0
  BY FS_EmptySet
<1>4. 1 .. Len(<< >>) = {} /\ Len(<< >>) = 0
  OBVIOUS
<1>5. Prints(<< >>, << >>, {}, Deep(typed), FALSE)
  BY <1>3, <1>4 DEF Prints
<1> QED
  BY <1>1, <1>2, <1>5 DEF DidChange, Printed, Right

-----------------------------------------------------------------------------
(* The answer of a server and what is made of it.                          *)

\* What AnswerAssumption says of an answer.
Answered(kind, raw) ==
  /\ raw \in Raw
  /\ raw.shape \in Shapes(kind) \/ raw.items = << >>
  /\ kind = "hover" => Len(raw.items) <= 1
  /\ \A n \in 1 .. Len(raw.items) :
       kind \notin {"document-symbol", "hover"} \/ "location" \in raw.items[n].keys
         => raw.items[n].inner = << >>

\* Each answer of the shapes the protocol has is taken as it is.
LEMMA Taken ==
  ASSUME NEW kind, NEW raw, Answered(kind, raw)
  PROVE  raw.items \in Seq(Item) /\ Within(raw, Shapes(kind)) = raw.items
<1>1. raw \in [shape : STRING, items : Seq(Item)]
  BY DEF Answered, Raw
<1>2. raw.items \in Seq(Item)
  BY <1>1
<1> QED
  BY <1>2 DEF Answered, Within

\* What the daemon makes of an answer,
LEMMA NormalizedReply ==
  ASSUME NEW kind \in Kinds, NEW raw, Answered(kind, raw)
  PROVE  /\ kind \in Locations \cup {"completion", "hover", "workspace-symbol", "rename",
                                     "workspace-diagnostics"}
              => Normalize(kind, raw) = Validated(raw.items)
         /\ kind \in Calls \cup {"diagnostics"} => Normalize(kind, raw) = Unchecked(raw.items)
         /\ kind = "document-symbol" => Normalize(kind, raw) = Unchecked(Documents(raw.items))
         /\ kind = "did-change" => Normalize(kind, raw) = Unchecked(<< >>) /\ raw.items = << >>
<1>1. Within(raw, Shapes(kind)) = raw.items
  BY Taken
<1>2. CASE kind \in Locations
  <2>1. Shapes(kind) = {"list", "object"}
    BY <1>2 DEF Shapes, Locations, Calls, ByWorkspace
  <2> QED
    BY <1>1, <1>2, <2>1 DEF Normalize, NormalizeLocations, Locations, Calls
<1>3. CASE kind = "completion"
  <2>1. Shapes(kind) = {"list", "items"}
    BY <1>3 DEF Shapes, Locations, Calls, ByWorkspace
  <2> QED
    BY <1>1, <1>3, <2>1 DEF Normalize, NormalizeCompletions, Locations, Calls
<1>4. CASE kind = "hover"
  BY <1>4 DEF Normalize, NormalizeHover, Locations, Calls
<1>5. CASE kind = "document-symbol"
  <2>1. Shapes(kind) = {"list", "items"}
    BY <1>5 DEF Shapes, Locations, Calls, ByWorkspace
  <2> QED
    BY <1>1, <1>5, <2>1 DEF Normalize, NormalizeDocumentSymbols, Documents, Locations, Calls
<1>6. CASE kind = "workspace-symbol"
  <2>1. Shapes(kind) = {"list"}
    BY <1>6 DEF Shapes, Locations, Calls, ByWorkspace
  <2> QED
    BY <1>1, <1>6, <2>1 DEF Normalize, NormalizeWorkspaceSymbols, Locations, Calls
<1>7. CASE kind \in Calls
  <2>1. Shapes(kind) = {"list", "calls"}
    BY <1>7 DEF Shapes, Locations, Calls, ByWorkspace
  <2> QED
    BY <1>1, <1>7, <2>1 DEF Normalize, NormalizeCalls, Locations, Calls
<1>8. CASE kind = "rename"
  <2>1. Shapes(kind) = {"object"}
    BY <1>8 DEF Shapes, Locations, Calls, ByWorkspace
  <2> QED
    BY <1>1, <1>8, <2>1 DEF Normalize, NormalizeRename, Locations, Calls
<1>9. CASE kind = "diagnostics"
  <2>1. Shapes(kind) = {"list", "items"}
    BY <1>9 DEF Shapes, Locations, Calls, ByWorkspace
  <2> QED
    BY <1>1, <1>9, <2>1 DEF Normalize, NormalizeDocumentDiagnostics, Locations, Calls
<1>10. CASE kind = "workspace-diagnostics"
  <2>1. Shapes(kind) = {"list"}
    BY <1>10 DEF Shapes, Locations, Calls, ByWorkspace
  <2> QED
    BY <1>1, <1>10, <2>1 DEF Normalize, NormalizeWorkspaceDiagnostics, Locations, Calls
<1>11. CASE kind = "did-change"
  <2>1. Shapes(kind) = {}
    BY <1>11 DEF Shapes, Locations, Calls, ByWorkspace
  <2>2. raw.items = << >>
    BY <2>1 DEF Answered
  <2> QED
    BY <1>11, <2>2 DEF Normalize, Locations, Calls
<1> QED
  BY <1>2, <1>3, <1>4, <1>5, <1>6, <1>7, <1>8, <1>9, <1>10, <1>11
     DEF Kinds, Positions, ByWorkspace, ByDirectory

\* and the gateway of that.
LEMMA Unwrapped ==
  ASSUME NEW kind, NEW items
  PROVE  /\ UnwrapAndValidate(kind, Validated(items)).items = items
         /\ UnwrapAndValidate(kind, Unchecked(items)).items = items
         /\ UnwrapAndValidate(kind, Validated(items)).ok <=> AllValid(items)
         /\ UnwrapAndValidate(kind, Unchecked(items)).ok <=> (kind \in Calls => AllValid(items))
<1>1. AllValid(items) \in BOOLEAN
  BY DEF AllValid
<1> QED
  BY <1>1 DEF UnwrapAndValidate, Validated, Unchecked

\* A command shows what the server answered, or that some of it is ill-formed.
LEMMA ReplyShown ==
  ASSUME NEW typed, Optioned(typed), NEW raw, Answered(typed.kind, raw), NEW aim, NEW result,
         result = UnwrapAndValidate(typed.kind, Normalize(typed.kind, raw))
  PROVE  /\ ~ result.ok => \E n \in 1 .. Len(raw.items) : ~ raw.items[n].valid
         /\ result.ok => Right(typed, aim, ReadAll(typed, raw.items), Show(typed, aim, result.items))
<1> DEFINE kind == typed.kind
<1>1. kind \in Kinds /\ raw.items \in Seq(Item)
  BY Taken DEF Optioned
<1>2. ASSUME kind \notin {"document-symbol", "diagnostics", "did-change"}
      PROVE  /\ result.items = raw.items /\ (result.ok <=> AllValid(raw.items))
             /\ AllValid(raw.items) /\ kind # "hover" => Plain(raw.items)
  <2>1. ASSUME kind \in Calls
        PROVE  result.items = raw.items /\ (result.ok <=> AllValid(raw.items))
    <3>1. Normalize(kind, raw) = Unchecked(raw.items)
      BY <1>1, <2>1, NormalizedReply
    <3> QED
      BY <2>1, <3>1, Unwrapped
  <2>2. ASSUME kind \notin Calls
        PROVE  result.items = raw.items /\ (result.ok <=> AllValid(raw.items))
    <3>1. Normalize(kind, raw) = Validated(raw.items)
      BY <1>1, <1>2, <2>2, NormalizedReply DEF Kinds, Positions, ByWorkspace, ByDirectory
    <3> QED
      BY <3>1, Unwrapped
  <2>3. AllValid(raw.items) /\ kind # "hover" => Plain(raw.items)
    BY <1>1, <1>2 DEF AllValid, Plain, Answered
  <2> QED
    BY <2>1, <2>2, <2>3
<1>3. CASE kind \notin {"document-symbol", "diagnostics", "did-change"}
  <2>1. ASSUME ~ result.ok PROVE \E n \in 1 .. Len(raw.items) : ~ raw.items[n].valid
    BY <1>2, <1>3, <2>1 DEF AllValid
  <2>2. CASE kind = "hover"
    <3>1. Len(raw.items) <= 1
      BY <2>2 DEF Answered
    <3>2. ASSUME result.ok
          PROVE  Right(typed, aim, ReadAll(typed, raw.items), Show(typed, aim, result.items))
      <4>1. result.items = raw.items /\ AllValid(raw.items)
        BY <1>2, <1>3, <3>2
      <4>2. Right(typed, aim, ReadAll(typed, raw.items), Hover(typed, aim, raw.items))
        BY <1>1, <2>2, <3>1, <4>1, HoverRight
      <4> QED
        BY <2>2, <4>1, <4>2 DEF Show
    <3> QED
      BY <2>1, <3>2
  <2>3. ASSUME result.ok, kind # "hover"
        PROVE  Right(typed, aim, ReadAll(typed, raw.items), Show(typed, aim, result.items))
    <3> DEFINE items == raw.items
    <3>1. result.items = items /\ Plain(items)
      BY <1>2, <1>3, <2>3
    <3>2. ReadAll(typed, raw.items) = items
      BY <1>1, <1>3, <2>3, AllRead
    <3> HIDE DEF items
    <3>3. SUFFICES Right(typed, aim, items, Show(typed, aim, items))
      BY <3>1, <3>2
    <3>4. CASE kind = "definition"
      BY <3>1, <3>4, DefinitionRight DEF Show
    <3>5. CASE kind = "references"
      BY <3>1, <3>5, ReferencesRight DEF Show
    <3>6. CASE kind = "workspace-symbol"
      BY <3>1, <3>6, WorkspaceSymbolRight DEF Show
    <3>7. CASE kind = "incoming-calls"
      <4>1. typed.kind \in Calls
        BY <3>7 DEF Calls
      <4> QED
        BY <3>1, <3>7, <4>1, CallsRight DEF Show
    <3>8. CASE kind = "outgoing-calls"
      <4>1. typed.kind \in Calls
        BY <3>8 DEF Calls
      <4> QED
        BY <3>1, <3>8, <4>1, CallsRight DEF Show
    <3>9. CASE kind = "completion"
      BY <3>1, <3>9, CompletionRight DEF Show
    <3>10. CASE kind = "workspace-diagnostics"
      BY <3>1, <3>10, WorkspaceDiagnosticsRight DEF Show
    <3>11. CASE kind = "rename"
      BY <3>1, <3>11, RenameRight DEF Show
    <3> QED
      BY <1>1, <1>3, <2>3, <3>4, <3>5, <3>6, <3>7, <3>8, <3>9, <3>10, <3>11
         DEF Kinds, Positions, Locations, Calls, ByWorkspace, ByDirectory
  <2> QED
    BY <2>1, <2>2, <2>3
<1>4. CASE kind = "document-symbol"
  <2>1. result.ok /\ result.items = Documents(raw.items)
    <3>1. Normalize(kind, raw) = Unchecked(Documents(raw.items))
      BY <1>1, <1>4, NormalizedReply
    <3>2. kind \notin Calls
      BY <1>4 DEF Calls
    <3> QED
      BY <3>1, <3>2, Unwrapped
  <2> QED
    BY <1>1, <1>4, <2>1, DocumentSymbolRight DEF Show
<1>5. CASE kind = "diagnostics"
  <2>1. result.ok /\ result.items = raw.items
    <3>1. Normalize(kind, raw) = Unchecked(raw.items)
      BY <1>1, <1>5, NormalizedReply
    <3>2. kind \notin Calls
      BY <1>5 DEF Calls
    <3> QED
      BY <3>1, <3>2, Unwrapped
  <2>2. \A n \in 1 .. Len(raw.items) : raw.items[n].inner = << >>
    BY <1>5 DEF Answered
  <2>3. ReadAll(typed, raw.items) = raw.items
    BY <1>1, <1>5, AllRead
  <2> QED
    BY <1>1, <1>5, <2>1, <2>2, <2>3, DiagnosticsRight DEF Show
<1>6. CASE kind = "did-change"
  <2>1. result.ok /\ result.items = << >> /\ raw.items = << >>
    <3>1. Normalize(kind, raw) = Unchecked(<< >>) /\ raw.items = << >>
      BY <1>1, <1>6, NormalizedReply
    <3>2. kind \notin Calls
      BY <1>6 DEF Calls
    <3> QED
      BY <3>1, <3>2, Unwrapped
  <2>2. ReadAll(typed, raw.items) = << >>
    BY <1>1, <1>6, <2>1, AllRead
  <2> QED
    BY <1>6, <2>1, <2>2, DidChangeRight DEF Show
<1> QED
  BY <1>3, <1>4, <1>5, <1>6

\* The rows as PrintsTheAnswer speaks of them.
LEMMA PrintedSets ==
  ASSUME NEW rows, NEW items, NEW S, NEW deep \in BOOLEAN, NEW own \in BOOLEAN,
         Prints(rows, items, S, deep, own)
  PROVE  LET printed == {rows[n] : n \in 1 .. Len(rows)}
             expected == {items[n] : n \in S}
         IN  /\ {<<r.at, r.name>> : r \in printed}
                  = UNION {{<<i.at, n>> : n \in Said(i, deep)} : i \in expected}
             /\ Len(rows) >= Cardinality(S)
             /\ own => /\ Len(rows) = Cardinality(S)
                       /\ {<<r.file, r.at>> : r \in printed} = {<<i.file, i.at>> : i \in expected}
<1> DEFINE printed == {rows[n] : n \in 1 .. Len(rows)}
           expected == {items[n] : n \in S}
           said == {<<r.at, r.name>> : r \in printed}
           meant == UNION {{<<i.at, n>> : n \in Said(i, deep)} : i \in expected}
           there == {<<r.file, r.at>> : r \in printed}
           where == {<<i.file, i.at>> : i \in expected}
<1>1. /\ \A n \in 1 .. Len(rows) : \E p \in S :
           rows[n].at = items[p].at /\ rows[n].name \in Said(items[p], deep)
      /\ \A p \in S : \A name \in Said(items[p], deep) : \E n \in 1 .. Len(rows) :
           rows[n].at = items[p].at /\ rows[n].name = name
      /\ Len(rows) >= Cardinality(S)
  BY DEF Prints
<1>2. ASSUME NEW x \in said PROVE x \in meant
  <2>1. PICK n \in 1 .. Len(rows) : x = <<rows[n].at, rows[n].name>>
    OBVIOUS
  <2>2. PICK p \in S : rows[n].at = items[p].at /\ rows[n].name \in Said(items[p], deep)
    BY <1>1
  <2>3. x \in {<<items[p].at, m>> : m \in Said(items[p], deep)}
    BY <2>1, <2>2
  <2> QED
    BY <2>3
<1>3. ASSUME NEW x \in meant PROVE x \in said
  <2>1. PICK i \in expected : x \in {<<i.at, m>> : m \in Said(i, deep)}
    OBVIOUS
  <2>2. PICK p \in S : i = items[p]
    OBVIOUS
  <2>3. PICK m \in Said(items[p], deep) : x = <<items[p].at, m>>
    BY <2>1, <2>2
  <2>4. PICK n \in 1 .. Len(rows) : rows[n].at = items[p].at /\ rows[n].name = m
    BY <1>1
  <2>5. x = <<rows[n].at, rows[n].name>>
    BY <2>3, <2>4
  <2> QED
    BY <2>5
<1>4. said = meant
  <2> HIDE DEF said, meant
  <2> QED
    BY <1>2, <1>3
<1>5. ASSUME own PROVE Len(rows) = Cardinality(S) /\ there = where
  <2>1. /\ Len(rows) = Cardinality(S)
        /\ \A n \in 1 .. Len(rows) : \E p \in S :
             rows[n].file = items[p].file /\ rows[n].at = items[p].at
        /\ \A p \in S : \E n \in 1 .. Len(rows) :
             rows[n].file = items[p].file /\ rows[n].at = items[p].at
    BY <1>5 DEF Prints
  <2>2. ASSUME NEW x \in there PROVE x \in where
    <3>1. PICK n \in 1 .. Len(rows) : x = <<rows[n].file, rows[n].at>>
      OBVIOUS
    <3>2. PICK p \in S : rows[n].file = items[p].file /\ rows[n].at = items[p].at
      BY <2>1
    <3> QED
      BY <3>1, <3>2
  <2>3. ASSUME NEW x \in where PROVE x \in there
    <3>1. PICK p \in S : x = <<items[p].file, items[p].at>>
      OBVIOUS
    <3>2. PICK n \in 1 .. Len(rows) : rows[n].file = items[p].file /\ rows[n].at = items[p].at
      BY <2>1
    <3> QED
      BY <3>1, <3>2
  <2> HIDE DEF there, where
  <2> QED
    BY <2>1, <2>2, <2>3
<1> QED
  BY <1>1, <1>4, <1>5

\* What is read of an item is what PrintsTheAnswer has told of it.
LEMMA ToldRead ==
  ASSUME NEW c \in Command, Optioned(cmd[c]), NEW item \in Item,
         \/ cmd[c].kind \in {"document-symbol", "hover"} /\ "location" \notin item.keys
         \/ item.inner = << >>,
         NEW deep \in BOOLEAN, deep = Deep(cmd[c])
  PROVE  Said(Read(cmd[c], item), deep) = Told(c, item)
<1> DEFINE typed == cmd[c]
           below(inner) == {inner[n].name : n \in 1 .. Len(inner)}
<1>1. 1 .. Len(<< >>) = {}
  OBVIOUS
<1>2. deep = (typed.raw \/ typed.format # "csv")
  BY DEF Deep
<1>3. CASE typed.kind = "hover"
  <2>1. /\ Read(typed, item).name = Content(item) /\ Read(typed, item).inner = << >>
    BY <1>3, ItemRead
  <2>2. Said(Read(typed, item), deep) = {Content(item)}
    BY <1>1, <2>1 DEF Said
  <2> QED
    BY <1>3, <2>2 DEF Told, Content
<1>4. CASE typed.kind = "document-symbol"
  <2>1. PICK symbol \in Item : symbol = AsDocumentSymbol(item)
    BY DocumentItem
  <2>2. symbol.name = item.name /\ symbol.inner = item.inner
    BY <1>4, <2>1, DocumentItem
  <2>3. item.inner \in Seq(Child) /\ typed.depth \in Int
    BY DEF Item, Optioned
  <2>4. CASE typed.raw
    <3>1. Read(typed, item) = symbol
      BY <1>4, <2>1, <2>4 DEF Read
    <3>2. Said(Read(typed, item), deep) = {item.name} \cup below(item.inner)
      BY <1>2, <2>2, <2>4, <3>1 DEF Said
    <3>3. Children(c, item) = below(item.inner)
      BY <2>4 DEF Children
    <3> QED
      BY <1>4, <3>2, <3>3 DEF Told
  <2>5. CASE ~ typed.raw
    <3>1. Read(typed, item) = [symbol EXCEPT !.inner = UpTo(typed.depth, item.inner)]
      BY <1>4, <2>1, <2>2, <2>5 DEF Read
    <3>2. Read(typed, item).name = item.name /\ Read(typed, item).inner = UpTo(typed.depth, item.inner)
      BY <2>2, <3>1 DEF Item
    <3>3. Said(Read(typed, item), deep)
            = {item.name} \cup IF typed.format # "csv" THEN below(UpTo(typed.depth, item.inner)) ELSE {}
      BY <1>2, <2>5, <3>2 DEF Said
    <3>4. below(UpTo(typed.depth, item.inner))
            = {item.inner[n].name : n \in {m \in 1 .. Len(item.inner) :
                                               typed.depth < 0 \/ item.inner[m].level <= typed.depth}}
      BY <2>3, ChildrenUpTo
    <3> HIDE DEF below
    <3>5. Children(c, item) = IF typed.format # "csv" THEN below(UpTo(typed.depth, item.inner)) ELSE {}
      <4>1. CASE typed.format # "csv"
        BY <2>5, <3>4, <4>1 DEF Children
      <4>2. CASE typed.format = "csv"
        BY <2>5, <4>2 DEF Children
      <4> QED
        BY <4>1, <4>2
    <3> QED
      BY <1>4, <3>3, <3>5 DEF Told
  <2> QED
    BY <2>4, <2>5
<1>5. CASE typed.kind \notin {"hover", "document-symbol"}
  <2>1. Read(typed, item) = item /\ item.inner = << >>
    BY <1>5, ItemRead
  <2>2. Said(item, deep) = {item.name}
    BY <1>1, <2>1 DEF Said
  <2>3. Children(c, item) = {}
    BY <1>1, <2>1 DEF Children
  <2> QED
    BY <1>5, <2>1, <2>2, <2>3 DEF Told
<1> QED
  BY <1>3, <1>4, <1>5

-----------------------------------------------------------------------------
(* The invariant of the answers.                                           *)

\* What c has shown is the reply to the answer it got.
ShownReply(typed, aim, told) ==
  LET result == UnwrapAndValidate(typed.kind, told)
      printed == Show(typed, aim, result.items)
  IN [outcome |-> IF ~ result.ok THEN "error"
                  ELSE IF printed.ok THEN "printed" ELSE "traceback",
      rows |-> IF result.ok /\ printed.ok THEN printed.rows ELSE << >>]

Shows(c) ==
  /\ pc[c] # "done" => cmd[c].kind \in Kinds
  /\ pc[c] = "print" => /\ answer[c] \in Answers[cmd[c].kind]
                        /\ reply[c] = Normalize(cmd[c].kind, answer[c])
  /\ shown[c].outcome \in {"printed", "error", "traceback"} =>
       /\ pc[c] = "done" /\ cmd[c].kind \in Kinds /\ answer[c] \in Answers[cmd[c].kind]
       /\ shown[c] = ShownReply(cmd[c], target[c], Normalize(cmd[c].kind, answer[c]))

AnswersInv == DOMAIN answer = Command /\ DOMAIN reply = Command /\ \A c \in Command : Shows(c)

\* It holds at first,
LEMMA AnswersInit == Init => AnswersInv
<1> SUFFICES ASSUME Init PROVE AnswersInv
  OBVIOUS
<1>1. ASSUME NEW c \in Command PROVE Shows(c)
  <2>1. /\ pc[c] \in {"done", "resolve"} /\ (pc[c] # "done" => cmd[c].kind # None)
        /\ shown[c].outcome = "none"
    BY DEF Init, None
  <2>2. cmd[c].kind \in Kinds \cup {None}
    BY ScenarioAssumption DEF Init
  <2> QED
    BY <2>1, <2>2 DEF Shows
<1> QED
  BY <1>1 DEF Init, AnswersInv

\* A command none of whose parts here changes.
LEMMA ShowsAgain ==
  ASSUME NEW d, Shows(d), cmd' = cmd, pc'[d] = pc[d], target'[d] = target[d], answer'[d] = answer[d],
         reply'[d] = reply[d], shown'[d] = shown[d]
  PROVE  Shows(d)'
BY DEF Shows

\* A step of c before it prints.
LEMMA ShowsOn ==
  ASSUME NEW c, Shows(c), pc[c] \notin {"print", "done"}, cmd' = cmd,
         pc'[c] # "print", shown'[c].outcome \notin {"printed", "error", "traceback"}
  PROVE  Shows(c)'
BY DEF Shows

\* A command that has no target says so.
LEMMA ContextEnds ==
  ASSUME NEW typed, NEW loaded
  PROVE  ContextOf(typed, loaded).ends \in {"no", "unsupported", "no language", "invalid"}
<1>1. /\ RequireLanguageOrDetect(typed, loaded).ends \in {"no", "no language"}
      /\ BuildRequestContext(typed, loaded).ends \in {"no", "unsupported", "invalid"}
  BY DEF RequireLanguageOrDetect, BuildRequestContext
<1>2. /\ DiagnosticsContext(typed).ends \in {"no", "invalid"}
      /\ DidChangeContext(typed).ends \in {"no", "invalid"}
  BY DEF DiagnosticsContext, DidChangeContext, WorkingDirectoryContext
<1>3. ContextOf(typed, loaded) \in {RequireLanguageOrDetect(typed, loaded), DiagnosticsContext(typed),
                                   DidChangeContext(typed), BuildRequestContext(typed, loaded)}
  BY DEF ContextOf
<1> QED
  BY <1>1, <1>2, <1>3

\* and each step keeps it.
LEMMA AnswersStep == IInv /\ AnswersInv /\ [Next]_vars => AnswersInv'
<1> SUFFICES ASSUME IInv, AnswersInv, [Next]_vars PROVE AnswersInv'
  OBVIOUS
<1> USE DEF AnswersInv
<1>1. Shape
  BY DEF IInv
<1>2. ASSUME NEW c \in Command, SeeAbsent(c) \/ CreateEmpty(c) \/ WriteDefaults(c)
      PROVE  AnswersInv'
  <2>1. UNCHANGED <<cmd, pc, local>>
    BY <1>2 DEF SeeAbsent, CreateEmpty, WriteDefaults
  <2> QED
    BY <2>1, ShowsAgain DEF local
<1>3. ASSUME NEW c \in Command, ResolveTarget(c) PROVE AnswersInv'
  <2>1. pc[c] = "resolve" /\ UNCHANGED <<cmd, answer, reply>>
    BY <1>3 DEF ResolveTarget
  <2>2. PICK loaded : loaded = IF Reads(c) THEN Load(file, cmd[c].cwd) ELSE NoConfig
    OBVIOUS
  <2>3. PICK context : context = ContextOf(cmd[c], loaded)
    OBVIOUS
  <2>4. /\ target' = [target EXCEPT ![c] = context]
        /\ IF context.ends = "no"
           THEN pc' = [pc EXCEPT ![c] = "reach"] /\ UNCHANGED shown
           ELSE End(c, context.ends)
    BY <1>3, <2>2, <2>3 DEF ResolveTarget
  <2>5. context.ends \in {"no", "unsupported", "no language", "invalid"}
    BY <2>3, ContextEnds
  <2>6. \A d \in Command \ {c} : pc'[d] = pc[d] /\ target'[d] = target[d] /\ shown'[d] = shown[d]
    BY <1>1, <2>4 DEF Shape, End
  <2>7. \A d \in Command \ {c} : Shows(d)'
    BY <2>1, <2>6, ShowsAgain
  <2>8. pc'[c] # "print" /\ shown'[c].outcome \notin {"printed", "error", "traceback"}
    <3>1. shown[c].outcome \notin {"printed", "error", "traceback"}
      BY <2>1 DEF Shows
    <3>2. CASE context.ends = "no"
      BY <1>1, <2>4, <3>1, <3>2 DEF Shape
    <3>3. CASE context.ends # "no"
      BY <1>1, <2>4, <2>5, <3>3 DEF Shape, End
    <3> QED
      BY <3>2, <3>3
  <2>9. Shows(c)'
    BY <2>1, <2>8, ShowsOn
  <2> QED
    BY <2>1, <2>7, <2>9
<1>4. ASSUME NEW c \in Command, ReachDaemon(c) PROVE AnswersInv'
  <2>1. pc[c] = "reach" /\ UNCHANGED <<cmd, target, answer, reply>>
    BY <1>4 DEF ReachDaemon
  <2>2. \/ End(c, "config error")
        \/ pc' = [pc EXCEPT ![c] = "handle"] /\ UNCHANGED shown
        \/ End(c, "unreachable")
    BY <1>4 DEF ReachDaemon
  <2>3. \A d \in Command \ {c} : pc'[d] = pc[d] /\ shown'[d] = shown[d]
    BY <1>1, <2>2 DEF Shape, End
  <2>4. \A d \in Command \ {c} : Shows(d)'
    BY <2>1, <2>3, ShowsAgain
  <2>5. pc'[c] # "print" /\ shown'[c].outcome \notin {"printed", "error", "traceback"}
    <3>1. shown[c].outcome \notin {"printed", "error", "traceback"}
      BY <2>1 DEF Shows
    <3>2. CASE End(c, "config error")
      BY <1>1, <3>2 DEF Shape, End
    <3>3. CASE pc' = [pc EXCEPT ![c] = "handle"] /\ UNCHANGED shown
      BY <1>1, <3>1, <3>3 DEF Shape
    <3>4. CASE End(c, "unreachable")
      BY <1>1, <3>4 DEF Shape, End
    <3> QED
      BY <2>2, <3>2, <3>3, <3>4
  <2>6. Shows(c)'
    BY <2>1, <2>5, ShowsOn
  <2> QED
    BY <2>1, <2>4, <2>6
<1>5. ASSUME NEW c \in Command, HandleRequest(c) PROVE AnswersInv'
  <2>1. pc[c] = "handle" /\ pc' = [pc EXCEPT ![c] = "answer"]
        /\ UNCHANGED <<cmd, target, answer, reply, shown>>
    BY <1>5 DEF HandleRequest
  <2>2. \A d \in Command \ {c} : Shows(d)'
    BY <1>1, <2>1, ShowsAgain DEF Shape
  <2>3. pc'[c] # "print" /\ shown'[c].outcome \notin {"printed", "error", "traceback"}
    BY <1>1, <2>1 DEF Shape, Shows
  <2>4. Shows(c)'
    BY <2>1, <2>3, ShowsOn
  <2> QED
    BY <2>1, <2>2, <2>4
<1>6. ASSUME NEW c \in Command, AnswerRequest(c) PROVE AnswersInv'
  <2>1. pc[c] = "answer" /\ pc' = [pc EXCEPT ![c] = "print"] /\ UNCHANGED <<cmd, target, shown>>
    BY <1>6 DEF AnswerRequest
  <2>2. PICK raw \in Answers[cmd[c].kind] :
          /\ answer' = [answer EXCEPT ![c] = raw]
          /\ reply' = [reply EXCEPT ![c] = Normalize(cmd[c].kind, raw)]
    BY <1>6 DEF AnswerRequest
  <2>3. \A d \in Command \ {c} : Shows(d)'
    BY <1>1, <2>1, <2>2, ShowsAgain DEF Shape
  <2>4. /\ pc'[c] = "print" /\ answer'[c] = raw /\ reply'[c] = Normalize(cmd[c].kind, raw)
        /\ shown'[c] = shown[c] /\ cmd[c].kind \in Kinds
        /\ shown[c].outcome \notin {"printed", "error", "traceback"}
    BY <1>1, <2>1, <2>2 DEF Shape, Shows
  <2>5. Shows(c)'
    BY <2>1, <2>2, <2>4 DEF Shows
  <2> QED
    BY <2>2, <2>3, <2>5
<1>7. ASSUME NEW c \in Command, PrintReply(c) PROVE AnswersInv'
  <2>1. pc[c] = "print" /\ pc' = [pc EXCEPT ![c] = "done"]
        /\ UNCHANGED <<cmd, target, answer, reply>>
    BY <1>7 DEF PrintReply
  <2>2. shown' = [shown EXCEPT ![c] = ShownReply(cmd[c], target[c], reply[c])]
    BY <1>7 DEF PrintReply, ShownReply
  <2>3. \A d \in Command \ {c} : Shows(d)'
    BY <1>1, <2>1, <2>2, ShowsAgain DEF Shape
  <2>4. /\ pc'[c] = "done" /\ cmd[c].kind \in Kinds /\ answer[c] \in Answers[cmd[c].kind]
        /\ shown'[c] = ShownReply(cmd[c], target[c], Normalize(cmd[c].kind, answer[c]))
    BY <1>1, <2>1, <2>2 DEF Shape, Shows
  <2>5. Shows(c)'
    BY <2>1, <2>4 DEF Shows
  <2> QED
    BY <2>1, <2>3, <2>5
<1>8. CASE UNCHANGED vars
  BY <1>8, ShowsAgain DEF vars
<1> QED
  BY <1>2, <1>3, <1>4, <1>5, <1>6, <1>7, <1>8 DEF Next

LEMMA AnswersAlways == Spec => []AnswersInv
<1>1. AnswersInv /\ IInv /\ [Next]_vars => AnswersInv'
  BY AnswersStep
<1> QED
  BY <1>1, AnswersInit, InvAlways, PTL DEF Spec

-----------------------------------------------------------------------------
(* The theorems.                                                           *)

\* What reaches the server is what was typed, about a file inside the server's
\* workspace (build_request_context, extract_registry_params, _build_lsp_params).
THEOREM AlwaysAsksAsTyped == Spec => []AskedAsTyped
<1>1. ASSUME IInv, NEW c \in Command, Asked(c)
      PROVE  LET message == asked[c].message
             IN  /\ message.kind = cmd[c].kind
                 /\ OfFile(c) => /\ message.file = Resolve(cmd[c].cwd, cmd[c].file)
                                 /\ Exists(message.file)
                                 /\ Inside(message.file, asked[c].workspace)
                 /\ cmd[c].kind \in Positions =>
                      /\ cmd[c].line
                           \in {message.line + 1} \cup (IF message.line = 0 THEN {0} ELSE {})
                      /\ cmd[c].column
                           \in {message.column + 1} \cup (IF message.column = 0 THEN {0} ELSE {})
                 /\ cmd[c].kind \in {"rename", "workspace-symbol"} => message.text = cmd[c].text
  <2>1. /\ target[c] = ContextOf(cmd[c], config[c]) /\ target[c].ends = "no"
        /\ asked[c].workspace = Resolve(<< >>, target[c].workspace)
        /\ asked[c].message = Message(cmd[c], target[c]) /\ Typed(cmd[c])
    BY <1>1, TypedAlways DEF IInv, Aimed
  <2>2. OfFile(c) => Aims(cmd[c], target[c])
    BY <2>1, ContextAims DEF OfFile
  <2>3. OfFile(c) => /\ asked[c].message.file = Resolve(cmd[c].cwd, cmd[c].file)
                     /\ Exists(asked[c].message.file)
                     /\ Inside(asked[c].message.file, asked[c].workspace)
    BY <2>1, <2>2, MessageKept DEF OfFile, Aims, Resolve
  <2>4. /\ asked[c].message.kind = cmd[c].kind
        /\ cmd[c].kind \in Positions => /\ asked[c].message.line = Index(cmd[c].line)
                                        /\ asked[c].message.column = Index(cmd[c].column)
        /\ cmd[c].kind \in {"rename", "workspace-symbol"} => asked[c].message.text = cmd[c].text
    BY <2>1, MessageKept
  <2>5. \A n \in Int : n \in {Index(n) + 1} \cup (IF Index(n) = 0 THEN {0} ELSE {})
    BY DEF Index
  <2> QED
    BY <2>1, <2>3, <2>4, <2>5 DEF Typed
<1>2. IInv => AskedAsTyped
  BY <1>1 DEF AskedAsTyped
<1> QED
  BY <1>2, InvAlways, PTL

\* Without the options, the server works in the nearest root above the file, or
\* in the working directory if there is none (detect_workspace_and_language).
THEOREM RootAlwaysNearest == Spec => []RootNearest
<1>1. ASSUME IInv, NEW c \in Command, Asked(c), OfFile(c), cmd[c].kind \notin ByDirectory,
             Workspace(cmd[c]) = NoPath, Language(cmd[c]) = NoLanguage
      PROVE  LET roots == RootsAbove(target[c].file, MarkersOf(config[c], target[c].language))
             IN  IF roots = {} THEN asked[c].workspace = cmd[c].cwd
                 ELSE /\ asked[c].workspace \in roots
                      /\ \A d \in roots : Inside(asked[c].workspace, d)
  <2> DEFINE markers == MarkersOf(config[c], target[c].language)
             root == FindRoot(target[c].file, markers)
  <2>1. /\ target[c] = ContextOf(cmd[c], config[c]) /\ target[c].ends = "no"
        /\ asked[c].workspace = Resolve(<< >>, target[c].workspace) /\ Typed(cmd[c])
    BY <1>1, TypedAlways DEF IInv, Aimed
  <2>2. target[c] = BuildRequestContext(cmd[c], config[c])
    BY <1>1, <2>1 DEF ContextOf, OfFile, ByDirectory
  <2>3. /\ target[c].workspace.absolute /\ Exists(target[c].file)
    BY <1>1, <2>1, ContextAims DEF OfFile, Aims
  <2>4. asked[c].workspace = IF root = NoRoot THEN cmd[c].cwd ELSE root
    BY <1>1, <2>1, <2>2, <2>3, RequestRoot DEF Resolve
  <2>5. target[c].file \in File \cup Directory
    BY <2>3 DEF Exists
  <2>6. IF RootsAbove(target[c].file, markers) = {} THEN root = NoRoot
        ELSE /\ root # NoRoot /\ root \in RootsAbove(target[c].file, markers)
             /\ \A d \in RootsAbove(target[c].file, markers) : Inside(root, d)
    BY <2>5, RootFound
  <2> HIDE DEF markers, root
  <2>7. LET roots == RootsAbove(target[c].file, markers)
        IN  IF roots = {} THEN asked[c].workspace = cmd[c].cwd
            ELSE /\ asked[c].workspace \in roots
                 /\ \A d \in roots : Inside(asked[c].workspace, d)
    BY <2>4, <2>6
  <2> QED
    BY <2>7 DEF markers
<1>2. IInv => RootNearest
  BY <1>1 DEF RootNearest, RootsAbove
<1> QED
  BY <1>2, InvAlways, PTL

\* As long as every command is Usual, a command finds the daemon of its own
\* workspace and server (DaemonClient, DaemonManager).
THEOREM DaemonAlwaysShared == Spec => []DaemonShared
<1>1. IInv => DaemonShared
  BY DEF IInv, DaemonShared, Found, Daemon
<1> QED
  BY <1>1, InvAlways, PTL

\* A command prints exactly what the server answered, fails only on an answer
\* with an ill-formed item, and ends in a traceback only for a CSV of rows with
\* different columns (the normalisers, gateway, filter, transformers and
\* formatters of every command).
THEOREM AlwaysPrintsTheAnswer == Spec => []PrintsTheAnswer
<1>1. ASSUME IInv, AnswersInv, NEW c \in Command,
             shown[c].outcome \in {"printed", "error", "traceback"}
      PROVE  /\ cmd[c].kind \in Kinds /\ Optioned(cmd[c]) /\ Answered(cmd[c].kind, answer[c])
             /\ shown[c].outcome = "printed" =>
                  Prints(shown[c].rows, ReadAll(cmd[c], answer[c].items), Expected(c),
                         Deep(cmd[c]), Owned(cmd[c]))
             /\ shown[c].outcome = "error" =>
                  \E n \in 1 .. Len(answer[c].items) : ~ answer[c].items[n].valid
             /\ shown[c].outcome = "traceback" =>
                  /\ cmd[c].format = "csv" /\ cmd[c].kind \in ByWorkspace
                  /\ \E p, q \in Expected(c) : answer[c].items[p].keys # answer[c].items[q].keys
  <2>1. /\ cmd[c].kind \in Kinds /\ answer[c] \in Answers[cmd[c].kind]
        /\ shown[c] = ShownReply(cmd[c], target[c], Normalize(cmd[c].kind, answer[c]))
    BY <1>1 DEF AnswersInv, Shows
  <2>2. Optioned(cmd[c])
    BY <1>1, <2>1, ScenarioAssumption DEF IInv, Shape, Optioned
  <2>3. Answered(cmd[c].kind, answer[c])
    BY <2>1, AnswerAssumption DEF Answered
  <2>4. PICK result : result = UnwrapAndValidate(cmd[c].kind, Normalize(cmd[c].kind, answer[c]))
    OBVIOUS
  <2>5. PICK printed : printed = Show(cmd[c], target[c], result.items)
    OBVIOUS
  <2>6. shown[c] = [outcome |-> IF ~ result.ok THEN "error"
                                ELSE IF printed.ok THEN "printed" ELSE "traceback",
                    rows |-> IF result.ok /\ printed.ok THEN printed.rows ELSE << >>]
    BY <2>1, <2>4, <2>5 DEF ShownReply
  <2>7. /\ ~ result.ok => \E n \in 1 .. Len(answer[c].items) : ~ answer[c].items[n].valid
        /\ result.ok => Right(cmd[c], target[c], ReadAll(cmd[c], answer[c].items), printed)
    BY <2>2, <2>3, <2>4, <2>5, ReplyShown
  <2>8. /\ Expected(c) = Wanted(cmd[c], target[c], ReadAll(cmd[c], answer[c].items))
        /\ cmd[c].kind \in ByWorkspace => ReadAll(cmd[c], answer[c].items) = answer[c].items
    <3>1. Expected(c) = Wanted(cmd[c], target[c], answer[c].items)
      BY DEF Expected, Wanted
    <3>2. answer[c].items \in Seq(Item)
      BY <2>3, Taken
    <3> QED
      BY <2>2, <3>1, <3>2, AllRead DEF ByWorkspace
  <2>9. CASE ~ result.ok
    BY <2>1, <2>2, <2>3, <2>6, <2>7, <2>9
  <2>10. CASE result.ok /\ printed.ok
    <3>1. shown[c].outcome = "printed" /\ shown[c].rows = printed.rows
      BY <2>6, <2>10
    <3>2. Prints(printed.rows, ReadAll(cmd[c], answer[c].items), Expected(c),
                 Deep(cmd[c]), Owned(cmd[c]))
      BY <2>7, <2>8, <2>10 DEF Right
    <3> QED
      BY <2>1, <2>2, <2>3, <3>1, <3>2
  <2>11. CASE result.ok /\ ~ printed.ok
    <3>1. shown[c].outcome = "traceback"
      BY <2>6, <2>11
    <3> QED
      BY <2>1, <2>2, <2>3, <2>7, <2>8, <2>11, <3>1 DEF Right
  <2> QED
    BY <2>9, <2>10, <2>11
<1>2. ASSUME IInv, AnswersInv, NEW c \in Command
      PROVE  LET places == Expected(c)
                 expected == {answer[c].items[n] : n \in places}
                 rows == shown[c].rows
                 printed == {rows[n] : n \in 1 .. Len(rows)}
             IN /\ shown[c].outcome = "printed" =>
                     /\ {<<r.at, r.name>> : r \in printed}
                          = UNION {{<<i.at, n>> : n \in Told(c, i)} : i \in expected}
                     /\ Len(rows) >= Cardinality(places)
                     /\ cmd[c].kind \in Filtered \cup Calls =>
                          /\ Len(rows) = Cardinality(places)
                          /\ {<<r.file, r.at>> : r \in printed} = {<<i.file, i.at>> : i \in expected}
                /\ shown[c].outcome = "error" =>
                     \E n \in 1 .. Len(answer[c].items) : ~ answer[c].items[n].valid
                /\ shown[c].outcome = "traceback" =>
                     /\ cmd[c].format = "csv" /\ cmd[c].kind \in ByWorkspace
                     /\ \E i, j \in expected : i.keys # j.keys
  <2> DEFINE places == Expected(c)
             expected == {answer[c].items[n] : n \in places}
             rows == shown[c].rows
             printed == {rows[n] : n \in 1 .. Len(rows)}
  <2>1. ASSUME shown[c].outcome = "printed"
        PROVE  /\ {<<r.at, r.name>> : r \in printed}
                    = UNION {{<<i.at, n>> : n \in Told(c, i)} : i \in expected}
               /\ Len(rows) >= Cardinality(places)
               /\ cmd[c].kind \in Filtered \cup Calls =>
                    /\ Len(rows) = Cardinality(places)
                    /\ {<<r.file, r.at>> : r \in printed} = {<<i.file, i.at>> : i \in expected}
    <3>1. Deep(cmd[c]) \in BOOLEAN /\ Owned(cmd[c]) \in BOOLEAN
      BY DEF Deep, Owned
    <3>2. PICK deep \in BOOLEAN : deep = Deep(cmd[c])
      BY <3>1
    <3>3. PICK own \in BOOLEAN : own = Owned(cmd[c])
      BY <3>1
    <3>4. PICK items : items = ReadAll(cmd[c], answer[c].items)
      OBVIOUS
    <3>5. PICK lines : lines = rows
      OBVIOUS
    <3>6. PICK S : S = places
      OBVIOUS
    <3>7. Prints(lines, items, S, deep, own)
      <4>1. Prints(rows, ReadAll(cmd[c], answer[c].items), places, Deep(cmd[c]), Owned(cmd[c]))
        BY <1>1, <1>2, <2>1
      <4> QED
        BY <4>1, <3>2, <3>3, <3>4, <3>5, <3>6
    <3>8. \A n \in S : /\ items[n].file = answer[c].items[n].file
                      /\ items[n].at = answer[c].items[n].at
                      /\ Said(items[n], deep) = Told(c, answer[c].items[n])
      <4>1. cmd[c].kind \in Kinds /\ Optioned(cmd[c]) /\ Answered(cmd[c].kind, answer[c])
        BY <1>1, <1>2, <2>1
      <4>2. answer[c].items \in Seq(Item)
        BY <4>1, Taken
      <4>3. ASSUME NEW n \in S
            PROVE  /\ answer[c].items[n] \in Item /\ n \in 1 .. Len(answer[c].items)
                   /\ items[n] = Read(cmd[c], answer[c].items[n])
        <5>1. n \in 1 .. Len(answer[c].items)
          BY <3>6 DEF Expected
        <5> QED
          BY <3>4, <4>1, <4>2, <5>1, AllRead, ElementOfSeq
      <4>4. ASSUME NEW n \in S
            PROVE  Said(Read(cmd[c], answer[c].items[n]), deep) = Told(c, answer[c].items[n])
        <5>1. answer[c].items[n] \in Item /\ n \in 1 .. Len(answer[c].items)
          BY <4>3
        <5>2. \/ cmd[c].kind \in {"document-symbol", "hover"} /\ "location" \notin answer[c].items[n].keys
              \/ answer[c].items[n].inner = << >>
          BY <4>1, <5>1 DEF Answered
        <5> QED
          BY <3>2, <4>1, <5>1, <5>2, ToldRead
      <4> QED
        BY <4>1, <4>3, <4>4, ItemRead
    <3>9. LET shownRows == {lines[n] : n \in 1 .. Len(lines)}
              wanted == {items[n] : n \in S}
          IN  /\ {<<r.at, r.name>> : r \in shownRows}
                   = UNION {{<<i.at, n>> : n \in Said(i, deep)} : i \in wanted}
              /\ Len(lines) >= Cardinality(S)
              /\ own => /\ Len(lines) = Cardinality(S)
                        /\ {<<r.file, r.at>> : r \in shownRows} = {<<i.file, i.at>> : i \in wanted}
      BY <3>7, PrintedSets
    <3>10. {<<i.file, i.at>> : i \in {items[n] : n \in S}} = {<<i.file, i.at>> : i \in expected}
      <4>1. expected = {answer[c].items[n] : n \in S}
        BY <3>6
      <4> HIDE DEF expected
      <4> QED
        BY <3>8, <4>1
    <3>11. UNION {{<<i.at, n>> : n \in Said(i, deep)} : i \in {items[n] : n \in S}}
            = UNION {{<<i.at, n>> : n \in Told(c, i)} : i \in expected}
      <4> DEFINE there == {{<<i.at, n>> : n \in Said(i, deep)} : i \in {items[n] : n \in S}}
                 meant == {{<<i.at, n>> : n \in Told(c, i)} : i \in expected}
      <4>1. \A n \in S : {<<items[n].at, m>> : m \in Said(items[n], deep)}
                           = {<<answer[c].items[n].at, m>> : m \in Told(c, answer[c].items[n])}
        BY <3>8
      <4>2. there = {{<<items[n].at, m>> : m \in Said(items[n], deep)} : n \in S}
        OBVIOUS
      <4>3. meant = {{<<answer[c].items[n].at, m>> : m \in Told(c, answer[c].items[n])} : n \in S}
        BY <3>6
      <4>4. there = meant
        <5> HIDE DEF there, meant
        <5> QED
          BY <4>1, <4>2, <4>3
      <4> QED
        BY <4>4
    <3>12. printed = {lines[n] : n \in 1 .. Len(lines)} /\ Len(rows) = Len(lines)
           /\ Cardinality(S) = Cardinality(places)
      BY <3>5, <3>6
    <3> HIDE DEF places, expected, rows, printed
    <3> QED
      BY <3>3, <3>9, <3>10, <3>11, <3>12 DEF Owned
  <2>2. ASSUME shown[c].outcome = "traceback"
        PROVE  /\ cmd[c].format = "csv" /\ cmd[c].kind \in ByWorkspace
               /\ \E i, j \in expected : i.keys # j.keys
    <3>1. /\ cmd[c].format = "csv" /\ cmd[c].kind \in ByWorkspace
          /\ \E p, q \in places : answer[c].items[p].keys # answer[c].items[q].keys
      BY <1>1, <1>2, <2>2
    <3> HIDE DEF places
    <3> QED
      BY <3>1
  <2>3. shown[c].outcome = "error" => \E n \in 1 .. Len(answer[c].items) : ~ answer[c].items[n].valid
    BY <1>1, <1>2
  <2> QED
    BY <2>1, <2>2, <2>3
<1>3. IInv /\ AnswersInv => PrintsTheAnswer
  BY <1>2 DEF PrintsTheAnswer
<1> QED
  BY <1>3, InvAlways, AnswersAlways, PTL
=============================================================================
