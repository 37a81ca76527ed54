-------------------------------- MODULE Target --------------------------------
(***************************************************************************)
(* What a command of the command line is about: the workspace, the         *)
(* language and the file it works out of its options, its working          *)
(* directory, the configuration and the marker files of the tree, and the  *)
(* names of the socket and of the PID file it looks for a daemon under.    *)
(*                                                                         *)
(* A path is the sequence of its names; a path as typed by the user, or as *)
(* handed to the daemon, is a record that also says whether it is          *)
(* absolute.  Symbolic links and ".." are not modelled.  A layer of the    *)
(* configuration maps the pairs <<language, key>> it sets to their values; *)
(* the empty function is a layer without entries, and a configuration that *)
(* could not be loaded.                                                    *)
(***************************************************************************)
EXTENDS Naturals, Sequences

CONSTANTS
    Directory,      \* the directories: absolute paths
    File,           \* the files that exist: absolute paths
    MarkersIn,      \* [Directory -> set of the marker files it holds]
    LanguageOf,     \* [file name -> language, or NoLanguage]
    LanguageOrder,  \* the languages in the order of the configuration
    Defaults,       \* DEFAULT_CONFIG, a layer
    Global,         \* what the user's config.yaml holds, a layer
    Project         \* [Directory -> the layer of its .llm-lsp-cli.yaml]

NoLanguage == "none"
NoConfig == << >>
NoPath == [absolute |-> FALSE, names |-> <<"none">>]
NoRoot == <<"none">>
Git == ".git"

Absolute(path) == [absolute |-> TRUE, names |-> path]
Resolve(cwd, typed) == IF typed.absolute THEN typed.names ELSE cwd \o typed.names
Exists(path) == path \in File \cup Directory
Inside(path, dir) == Len(dir) <= Len(path) /\ SubSeq(path, 1, Len(dir)) = dir
Parent(path) == SubSeq(path, 1, Len(path) - 1)
Ancestors(path) == {SubSeq(path, 1, n) : n \in 0 .. Len(path)}
Languages == {LanguageOrder[n] : n \in 1 .. Len(LanguageOrder)}
Path == [absolute : BOOLEAN, names : Seq(STRING)]

ASSUME TargetAssumption ==
    /\ File \cup Directory \subseteq Seq(STRING) /\ File \cap Directory = {}
    /\ NoRoot \notin File \cup Directory
    /\ \A d \in Directory : Ancestors(d) \subseteq Directory
    /\ \A f \in File : f # << >> /\ Parent(f) \in Directory
    /\ \A layer \in {Defaults, Global} \cup {Project[d] : d \in Directory} :
         \A entry \in DOMAIN layer : entry[2] = "command" => entry[1] \in Languages

-----------------------------------------------------------------------------
(* The configuration: defaults, then the user's file, then the project's. *)

Merge(base, override) ==
    [entry \in DOMAIN base \cup DOMAIN override |->
        IF entry \in DOMAIN override THEN override[entry] ELSE base[entry]]

Load(file, cwd) ==
    IF file = "whole" THEN Merge(Merge(Defaults, Global), Project[cwd]) ELSE NoConfig

Configured(config) ==
    SelectSeq(LanguageOrder, LAMBDA l : <<l, "command">> \in DOMAIN config)

MarkersOf(config, language) ==
    IF <<language, "root_markers">> \in DOMAIN config
    THEN config[<<language, "root_markers">>] ELSE {}

(* A language the configuration does not know gets its default command.    *)
ServerName(config, language) ==
    IF <<language, "command">> \in DOMAIN config THEN config[<<language, "command">>]
    ELSE IF <<language, "command">> \in DOMAIN Defaults
         THEN Defaults[<<language, "command">>] ELSE language

-----------------------------------------------------------------------------
(* The root of a workspace is the nearest directory that holds a marker. *)

FindRootFarthest(start, markers) ==
    LET marked == {d \in Ancestors(start) \cap Directory : MarkersIn[d] \cap markers # {}}
    IN IF marked = {} THEN NoRoot
       ELSE CHOOSE d \in marked : \A e \in marked : Len(d) <= Len(e)

FindRoot(start, markers) ==
    LET from == IF start \in Directory THEN start ELSE Parent(start)
        marked == {d \in Ancestors(from) : MarkersIn[d] \cap markers # {}}
    IN IF marked = {} THEN NoRoot
       ELSE CHOOSE d \in marked : \A e \in marked : Len(e) <= Len(d)

RootOrCwd(cwd, start, config, language) ==
    LET root == FindRoot(start, MarkersOf(config, language))
    IN Absolute(IF root = NoRoot THEN cwd ELSE root)

(* The first language of the configuration one of whose markers is found   *)
(* at or above start: without .git first, then with it.                    *)
FirstLanguage(start, config) ==
    LET rooted(ignored) ==
            SelectSeq(Configured(config),
                      LAMBDA l : FindRoot(start, MarkersOf(config, l) \ ignored) # NoRoot)
        found == rooted({Git}) \o rooted({})
    IN IF found = << >> THEN [language |-> NoLanguage, root |-> NoRoot]
       ELSE [language |-> found[1],
             root |-> FindRoot(start, MarkersOf(config, found[1])
                                      \ (IF rooted({Git}) = << >> THEN {} ELSE {Git}))]

(* A file decides the language by its extension alone. *)
DetectFromFile(cwd, config, file, workspace) ==
    LET path == Resolve(cwd, file)
        language == LanguageOf[file.names[Len(file.names)]]
        start == IF Exists(path) THEN path ELSE cwd
    IN [language |-> language,
        workspace |->
            IF workspace # NoPath THEN workspace
            ELSE IF language # NoLanguage THEN RootOrCwd(cwd, start, config, language)
            ELSE IF Exists(path) THEN [file EXCEPT !.names = Parent(@)] ELSE Absolute(cwd)]

DetectFromMarkers(cwd, config, workspace) ==
    LET first == FirstLanguage(IF workspace = NoPath THEN cwd ELSE Resolve(cwd, workspace), config)
    IN [language |-> first.language,
        workspace |-> IF workspace # NoPath THEN workspace
                      ELSE Absolute(IF first.root = NoRoot THEN cwd ELSE first.root)]

Detect(cwd, config, file, workspace, language) ==
    IF language # NoLanguage
    THEN [language |-> language,
          workspace |-> IF workspace # NoPath THEN workspace
                        ELSE RootOrCwd(cwd, cwd, config, language)]
    ELSE IF file # NoPath THEN DetectFromFile(cwd, config, file, workspace)
    ELSE DetectFromMarkers(cwd, config, workspace)

-----------------------------------------------------------------------------
(* The three ways the commands work out what they are about.  A target     *)
(* whose ends is not "no" is a command that stops here: "unsupported" with *)
(* exit code 0, the other two with 1.                                      *)

Effective(local, global, none) == IF local # none THEN local ELSE global

Workspace(cmd) == Effective(cmd.workspace, cmd.globalWorkspace, NoPath)
Language(cmd) == Effective(cmd.language, cmd.globalLanguage, NoLanguage)

ExistingFile(cmd, workspace) == Exists(Resolve(cmd.cwd, cmd.file))

ValidFile(cmd, workspace) ==
    LET path == Resolve(cmd.cwd, cmd.file)
    IN Inside(path, Resolve(cmd.cwd, workspace)) /\ Exists(path)

(* definition, references, document-symbol, completion, hover, the calls   *)
(* and rename.                                                             *)
BuildRequestContext(cmd, config) ==
    LET typed == [workspace |-> Workspace(cmd), language |-> Language(cmd)]
        found == IF typed.workspace = NoPath \/ typed.language = NoLanguage
                 THEN Detect(cmd.cwd, config, cmd.file, typed.workspace, typed.language)
                 ELSE typed
        workspace == Effective(typed.workspace, found.workspace, NoPath)
        language == Effective(typed.language, found.language, NoLanguage)
    IN [workspace |-> Absolute(Resolve(cmd.cwd, workspace)),
        language |-> language,
        file |-> Resolve(cmd.cwd, cmd.file),
        ends |-> IF language = NoLanguage THEN "unsupported"
                 ELSE IF ValidFile(cmd, workspace) THEN "no" ELSE "invalid"]

(* workspace-symbol and workspace-diagnostics: the workspace stays as it   *)
(* was typed.                                                              *)
RequireLanguageOrDetect(cmd, config) ==
    LET found == Detect(cmd.cwd, config, NoPath, Workspace(cmd), Language(cmd))
    IN [workspace |-> found.workspace,
        language |-> found.language,
        file |-> NoRoot,
        ends |-> IF found.language = NoLanguage THEN "no language" ELSE "no"]

(* diagnostics and did-change: no markers, the working directory unless a  *)
(* workspace is given; python for an extension nobody knows.               *)
WorkingDirectoryContext(cmd, workspace, language) ==
    LET root == IF workspace = NoPath THEN Absolute(cmd.cwd) ELSE workspace
        byName == LanguageOf[cmd.file.names[Len(cmd.file.names)]]
    IN [workspace |-> Absolute(Resolve(cmd.cwd, root)),
        language |-> IF language # NoLanguage THEN language
                     ELSE IF byName # NoLanguage THEN byName ELSE "python",
        file |-> Resolve(cmd.cwd, cmd.file),
        ends |-> IF ValidFile(cmd, root) THEN "no" ELSE "invalid"]

DiagnosticsContext(cmd) == WorkingDirectoryContext(cmd, Workspace(cmd), Language(cmd))
DidChangeContext(cmd) == WorkingDirectoryContext(cmd, cmd.workspace, cmd.language)

-----------------------------------------------------------------------------
(* The names a daemon is found under.  The socket lives under a hash of    *)
(* the workspace as it was typed, the PID file inside the resolved one;    *)
(* the client names the server by the defaults, the manager by the merged  *)
(* configuration.                                                          *)

SocketPath(workspace, server) == [dir |-> workspace, name |-> server]
ClientSocketByLanguage(target) == SocketPath(target.workspace, target.language)
ClientSocket(target) == SocketPath(target.workspace, ServerName(Defaults, target.language))
ManagerSocket(config, target) ==
    SocketPath(target.workspace, ServerName(config, target.language))
PidFile(cwd, config, target) ==
    [dir |-> Resolve(cwd, target.workspace), name |-> ServerName(config, target.language)]
=============================================================================
