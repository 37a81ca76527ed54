----------------------------- MODULE CommandLine -----------------------------
(***************************************************************************)
(* Commands of the command line that run at the same time: each loads the  *)
(* configuration (the first one ever writes the user's file), works out    *)
(* its target, finds or starts the daemon of it, sends its request, and    *)
(* prints the answer.                                                      *)
(*                                                                         *)
(* Starting a daemon and waiting for its socket are one step here, and     *)
(* never fail or race: DaemonLifecycle has their steps.  So are the        *)
(* connection (Ipc) and what the daemon does with the request: Registry    *)
(* starts the server, DocumentSync synchronises the document, Transport    *)
(* carries the request.  Neither module knows which daemon, which server   *)
(* or which file it is.                                                    *)
(***************************************************************************)
EXTENDS Target, Results, Integers

CONSTANTS
    Command,    \* the commands that may run
    Scenarios,  \* the set of [Command -> what is typed] to start from
    Answers,    \* [kind of command -> the raw answers a server may give]
    FirstRun    \* the states config.yaml may be in: "absent", "whole"

None == "none"
Positions == Locations \cup Calls \cup {"completion", "hover", "rename"}
ByWorkspace == {"workspace-symbol", "workspace-diagnostics"}
ByDirectory == {"diagnostics", "did-change"}
Kinds == Positions \cup ByWorkspace \cup ByDirectory \cup {"document-symbol"}
WithRaw == {"references", "document-symbol", "workspace-symbol"} \cup Calls
NotAsked == [server |-> None, workspace |-> NoRoot, message |-> << >>]
NoTarget == [workspace |-> NoPath, language |-> NoLanguage, file |-> NoRoot, ends |-> "no"]
NoDaemon == [dir |-> NoRoot, name |-> None]

(* What is typed: a working directory that is there, a file where the      *)
(* command takes one, paths for the options and numbers for the position,  *)
(* --raw where the command has it.                                         *)
ASSUME ScenarioAssumption ==
    \A s \in Scenarios, c \in Command :
        /\ s[c].cwd \in Directory
        /\ s[c].file \in Path \ {NoPath}
        /\ {s[c].workspace, s[c].globalWorkspace} \subseteq Path
        /\ {s[c].line, s[c].column, s[c].depth} \subseteq Int
        /\ s[c].kind \in Kinds \cup {None} /\ s[c].format \in Formats
        /\ {s[c].includeTests, s[c].raw} \subseteq BOOLEAN
        /\ s[c].raw => s[c].kind \in WithRaw

(* What the protocol has a server answer to the request of a command: null *)
(* stands for an answer without items, a hover has at most one, only       *)
(* document symbols have children, except those that have a location, and  *)
(* only hovers further texts.  One of the names is no text at all.         *)
Shapes(kind) ==
    CASE kind \in Locations -> {"list", "object"}
      [] kind \in Calls -> {"list", "calls"}
      [] kind \in {"completion", "document-symbol", "diagnostics"} -> {"list", "items"}
      [] kind \in ByWorkspace -> {"list"}
      [] kind \in {"hover", "rename"} -> {"object"}
      [] OTHER -> {}

ASSUME AnswerAssumption ==
    /\ FileOrder \in Seq(Seq(STRING) \ {<< >>}) /\ NameOrder \in Seq(STRING) /\ "" \in Names
    /\ \A kind \in Kinds : \A raw \in Answers[kind] :
        /\ raw \in Raw
        /\ raw.shape \in Shapes(kind) \/ raw.items = << >>
        /\ kind = "hover" => Len(raw.items) <= 1
        /\ \A n \in 1 .. Len(raw.items) :
              kind \notin {"document-symbol", "hover"} \/ "location" \in raw.items[n].keys
                => raw.items[n].inner = << >>

(* A pattern of a path has more than a globstar in it. *)
ASSUME FilterAssumption ==
    /\ NoLanguage \notin DOMAIN FilterConfig
    /\ \A set \in {DefaultFilter} \cup {FilterConfig[l] : l \in DOMAIN FilterConfig} :
         set.include \cup set.directory \subseteq Seq(STRING) \ {<< >>, <<Globstar>>}

VARIABLES
    cmd,        \* cmd[c]: what was typed
    file,       \* the user's config.yaml: "absent", "empty" or "whole"
    running,    \* the PID files of the daemons that run
    sockets,    \* [socket path -> PID file of the daemon bound to it]
    servers,    \* [<<daemon, workspace>> -> language server]: the registries
    loading,    \* loading[c]: "create" or "write" while c makes the user's file
    pc, config, target, via, asked, answer, reply, shown

vars == <<cmd, file, running, sockets, servers, loading, pc, config, target, via,
          asked, answer, reply, shown>>

local == <<config, target, via, asked, answer, reply, shown>>
daemons == <<running, sockets, servers>>

Init ==
    /\ cmd \in Scenarios
    /\ file \in FirstRun
    /\ running = {} /\ sockets = << >> /\ servers = << >>
    /\ pc = [c \in Command |-> IF cmd[c].kind = None THEN "done" ELSE "resolve"]
    /\ loading = [c \in Command |-> "no"]
    /\ config = [c \in Command |-> NoConfig]
    /\ target = [c \in Command |-> NoTarget]
    /\ via = [c \in Command |-> NoDaemon]
    /\ asked = [c \in Command |-> NotAsked]
    /\ answer = [c \in Command |-> [shape |-> "null", items |-> << >>]]
    /\ reply = [c \in Command |-> [ok |-> TRUE, items |-> << >>]]
    /\ shown = [c \in Command |-> [outcome |-> None, rows |-> << >>]]

(* The function f with the value v for x. *)
With(f, x, v) == [y \in DOMAIN f \cup {x} |-> IF y = x THEN v ELSE f[y]]

End(c, outcome) ==
    /\ shown' = [shown EXCEPT ![c].outcome = outcome]
    /\ pc' = [pc EXCEPT ![c] = "done"]

-----------------------------------------------------------------------------
(* Loading the configuration, to find the root and again to name the       *)
(* daemon's files.  The user's file is created when it is not there, and   *)
(* is empty until it is written.                                           *)

Reads(c) ==
    /\ pc[c] \in {"resolve", "reach"} /\ loading[c] = "no"
    /\ pc[c] = "reach" \/ cmd[c].kind \notin ByDirectory

Loading(c, step) == loading' = [loading EXCEPT ![c] = step]

SeeAbsent(c) ==
    /\ Reads(c) /\ file = "absent"
    /\ Loading(c, "create")
    /\ UNCHANGED <<cmd, file, daemons, pc, local>>

CreateEmpty(c) ==
    /\ loading[c] = "create"
    /\ file' = "empty"
    /\ Loading(c, "write")
    /\ UNCHANGED <<cmd, daemons, pc, local>>

WriteDefaults(c) ==
    /\ loading[c] = "write"
    /\ file' = "whole"
    /\ Loading(c, "no")
    /\ UNCHANGED <<cmd, daemons, pc, local>>

-----------------------------------------------------------------------------
(* The target.  A configuration that cannot be loaded counts as one        *)
(* without languages.                                                      *)

ContextOf(typed, loaded) ==
    CASE typed.kind \in ByWorkspace -> RequireLanguageOrDetect(typed, loaded)
      [] typed.kind = "diagnostics" -> DiagnosticsContext(typed)
      [] typed.kind = "did-change" -> DidChangeContext(typed)
      [] OTHER -> BuildRequestContext(typed, loaded)

ResolveTarget(c) ==
    /\ pc[c] = "resolve" /\ loading[c] = "no" /\ (Reads(c) => file # "absent")
    /\ LET loaded == IF Reads(c) THEN Load(file, cmd[c].cwd) ELSE NoConfig
           context == ContextOf(cmd[c], loaded)
       IN /\ config' = [config EXCEPT ![c] = loaded]
          /\ target' = [target EXCEPT ![c] = context]
          /\ IF context.ends = "no"
             THEN pc' = [pc EXCEPT ![c] = "reach"] /\ UNCHANGED shown
             ELSE End(c, context.ends)
    /\ UNCHANGED <<cmd, loading, file, daemons, via, asked, answer, reply>>

(* The manager looks for the daemon by its PID file and starts one when    *)
(* there is none; the client then waits for the socket it computed itself. *)
ReachDaemon(c) ==
    /\ pc[c] = "reach" /\ loading[c] = "no" /\ file # "absent"
    /\ LET loaded == Load(file, cmd[c].cwd)
           pid == PidFile(cmd[c].cwd, loaded, target[c])
           after == IF pid \in running THEN sockets
                    ELSE With(sockets, ManagerSocket(loaded, target[c]), pid)
           mine == ClientSocket(target[c])
       IN IF loaded = NoConfig
          THEN End(c, "config error") /\ UNCHANGED <<running, sockets, via>>
          ELSE /\ running' = running \cup {pid}
               /\ sockets' = after
               /\ IF mine \in DOMAIN after
                  THEN /\ via' = [via EXCEPT ![c] = after[mine]]
                       /\ pc' = [pc EXCEPT ![c] = "handle"]
                       /\ UNCHANGED shown
                  ELSE End(c, "unreachable") /\ UNCHANGED via
    /\ UNCHANGED <<cmd, loading, file, servers, config, target, asked, answer, reply>>

-----------------------------------------------------------------------------
(* The request, and the daemon's part.  A daemon's working directory is    *)
(* the root of the file system, and its registry is never told a language. *)

Index(typed) == IF typed = 0 THEN 0 ELSE typed - 1

Params(typed, context, line, column, text) ==
    [kind |-> typed.kind, file |-> context.file, line |-> line, column |-> column, text |-> text]

PositionParams(typed, context) ==
    Params(typed, context, Index(typed.line), Index(typed.column), "")
RenameParams(typed, context) ==
    Params(typed, context, Index(typed.line), Index(typed.column), typed.text)
FileParams(typed, context) == Params(typed, context, 0, 0, "")
SymbolQueryParams(typed, context) == Params(typed, context, 0, 0, typed.text)
WorkspaceParams(typed, context) == Params(typed, context, 0, 0, "")

Request(typed, context) ==
    CASE typed.kind = "rename" -> RenameParams(typed, context)
      [] typed.kind \in Positions \ {"rename"} -> PositionParams(typed, context)
      [] typed.kind = "workspace-symbol" -> SymbolQueryParams(typed, context)
      [] typed.kind = "workspace-diagnostics" -> WorkspaceParams(typed, context)
      [] OTHER -> FileParams(typed, context)

(* The daemon takes from a request what the category of its method lists,  *)
(* and sends the server what the method has a use for.  The requests that  *)
(* first synchronise their document, and did-change, have only a file.     *)
Synchronised == {"document-symbol", "diagnostics", "did-change"}

Category(kind) ==
    IF kind \in Synchronised THEN "file"
    ELSE IF kind \in ByWorkspace THEN "workspace" ELSE "position"

ExtractRegistryParams(request) ==
    CASE Category(request.kind) = "position" -> request
      [] Category(request.kind) = "file" ->
            [request EXCEPT !.line = 0, !.column = 0, !.text = ""]
      [] OTHER -> [request EXCEPT !.file = NoRoot, !.line = 0, !.column = 0]

BuildLspParams(extracted) ==
    IF extracted.kind \in {"rename", "workspace-symbol"} THEN extracted
    ELSE [extracted EXCEPT !.text = ""]

DaemonDirectory == << >>

ServerOf(daemon, workspace) ==
    IF <<daemon, workspace>> \in DOMAIN servers THEN servers[<<daemon, workspace>>]
    ELSE ServerName(Load(file, DaemonDirectory), "python")

HandleRequest(c) ==
    /\ pc[c] = "handle"
    /\ LET workspace == Resolve(DaemonDirectory, target[c].workspace)
           server == ServerOf(via[c], workspace)
       IN /\ servers' = With(servers, <<via[c], workspace>>, server)
          /\ asked' = [asked EXCEPT ![c] =
                         [server |-> server, workspace |-> workspace,
                          message |-> BuildLspParams(ExtractRegistryParams(Request(cmd[c], target[c])))]]
    /\ pc' = [pc EXCEPT ![c] = "answer"]
    /\ UNCHANGED <<cmd, loading, file, running, sockets, config, target, via, answer, reply, shown>>

AnswerRequest(c) ==
    /\ pc[c] = "answer"
    /\ \E raw \in Answers[cmd[c].kind] :
         /\ answer' = [answer EXCEPT ![c] = raw]
         /\ reply' = [reply EXCEPT ![c] = Normalize(cmd[c].kind, raw)]
    /\ pc' = [pc EXCEPT ![c] = "print"]
    /\ UNCHANGED <<cmd, loading, file, daemons, config, target, via, asked, shown>>

PrintReply(c) ==
    /\ pc[c] = "print"
    /\ LET result == UnwrapAndValidate(cmd[c].kind, reply[c])
           printed == Show(cmd[c], target[c], result.items)
       IN shown' = [shown EXCEPT ![c] =
            [outcome |-> IF ~ result.ok THEN "error"
                         ELSE IF printed.ok THEN "printed" ELSE "traceback",
             rows |-> IF result.ok /\ printed.ok THEN printed.rows ELSE << >>]]
    /\ pc' = [pc EXCEPT ![c] = "done"]
    /\ UNCHANGED <<cmd, loading, file, daemons, config, target, via, asked, answer, reply>>

Next ==
    \E c \in Command :
        \/ SeeAbsent(c) \/ CreateEmpty(c) \/ WriteDefaults(c)
        \/ ResolveTarget(c) \/ ReachDaemon(c)
        \/ HandleRequest(c) \/ AnswerRequest(c) \/ PrintReply(c)

Spec == Init /\ [][Next]_vars

-----------------------------------------------------------------------------
(* Properties *)

Asked(c) == asked[c] # NotAsked
OfFile(c) == cmd[c].kind \notin ByWorkspace

(* What reaches the server is what was typed: the same file, whatever      *)
(* directory the daemon runs in, and within the server's workspace; the    *)
(* position counted from 0; the new name or the query                      *)
(* (build_request_context, extract_registry_params, _build_lsp_params).    *)
AskedAsTyped ==
    \A c \in Command : Asked(c) =>
        LET message == asked[c].message
        IN /\ message.kind = cmd[c].kind
           /\ OfFile(c) => /\ message.file = Resolve(cmd[c].cwd, cmd[c].file)
                           /\ Exists(message.file)
                           /\ Inside(message.file, asked[c].workspace)
           /\ cmd[c].kind \in Positions =>
                /\ cmd[c].line \in {message.line + 1} \cup (IF message.line = 0 THEN {0} ELSE {})
                /\ cmd[c].column
                     \in {message.column + 1} \cup (IF message.column = 0 THEN {0} ELSE {})
           /\ cmd[c].kind \in {"rename", "workspace-symbol"} => message.text = cmd[c].text

(* Without a workspace option, the server of a file works in the nearest   *)
(* directory above the file that is a root of its language, as long as the *)
(* extension decided the language and the configuration could be read      *)
(* (detect_workspace_and_language).                                        *)
RootNearest ==
    \A c \in Command :
        /\ Asked(c) /\ config[c] # NoConfig
        /\ OfFile(c) /\ cmd[c].kind \notin ByDirectory
        /\ Workspace(cmd[c]) = NoPath /\ Language(cmd[c]) = NoLanguage
        => LET markers == MarkersOf(config[c], target[c].language)
               roots == {d \in Directory : /\ Inside(target[c].file, d)
                                           /\ MarkersIn[d] \cap markers # {}}
           IN IF roots = {} THEN asked[c].workspace = cmd[c].cwd
              ELSE /\ asked[c].workspace \in roots
                   /\ \A d \in roots : Inside(asked[c].workspace, d)

(* As long as every command ends up with an absolute workspace and no      *)
(* configuration renames a server, a command always finds the daemon of    *)
(* its own workspace and server, and commands that share both share the    *)
(* daemon (DaemonClient and DaemonManager compute the paths on their own). *)
Usual(c) ==
    /\ target[c].workspace.absolute \/ target[c] = NoTarget
    /\ \A l \in Languages :
         ServerName(Load("whole", cmd[c].cwd), l) = ServerName(Defaults, l)

DaemonShared ==
    (\A c \in Command : Usual(c)) =>
        \A c \in Command :
            /\ shown[c].outcome # "unreachable"
            /\ Asked(c) => via[c] = [dir |-> target[c].workspace.names,
                                     name |-> ServerName(Defaults, target[c].language)]

(* Test files, said once more without the engine's recursion: the segments *)
(* of the path fall to those of the pattern in order, one to each and any  *)
(* number to a globstar.                                                   *)
Covers(path, pattern) ==
    \E cut \in [1 .. Len(pattern) + 1 -> 1 .. Len(path) + 1] :
        /\ cut[1] = 1 /\ cut[Len(pattern) + 1] = Len(path) + 1
        /\ \A k \in 1 .. Len(pattern) :
              IF pattern[k] = Globstar THEN cut[k] <= cut[k + 1]
              ELSE cut[k + 1] = cut[k] + 1 /\ <<pattern[k], path[cut[k]]>> \in Fnmatch

(* NoLanguage stands for every language without patterns of its own. *)
TestFiles ==
    {lf \in (DOMAIN FilterConfig \cup {NoLanguage}) \X Files :
        LET own == IF lf[1] \in DOMAIN FilterConfig THEN FilterConfig[lf[1]] ELSE DefaultFilter
            set == IF <<own.directory, own.suffix \cup own.prefix>> = <<{}, {}>>
                   THEN DefaultFilter ELSE own
            name == lf[2][Len(lf[2])]
        IN /\ \A p \in set.include : ~ Covers(<<"">> \o lf[2], p)
           /\ \/ \E p \in set.directory : Covers(<<"">> \o lf[2], p)
              \/ \E p \in set.suffix \cup set.prefix : <<p, name>> \in Fnmatch}

OfTests(language, f) ==
    <<IF language \in DOMAIN FilterConfig THEN language ELSE NoLanguage, f>> \in TestFiles

Filtered == Locations \cup ByWorkspace

(* A command prints exactly what the server answered: every item once,     *)
(* under its own file, in every format, except items of test files where   *)
(* the command filters them, and the children a document symbol's CSV or   *)
(* depth leaves out.  Of a hover it prints one text: none when that is a   *)
(* MarkedString object, and the first when it is a list (transform_hover). *)
(* It fails only on an answer with an ill-formed item, and ends in a       *)
(* traceback only for a CSV of rows with different columns                 *)
(* (format_grouped_flat).                                                  *)
Expected(c) ==
    {n \in 1 .. Len(answer[c].items) :
        LET i == answer[c].items[n]
        IN i.valid /\ ~ (/\ cmd[c].kind \in Filtered /\ ~ cmd[c].includeTests /\ ~ cmd[c].raw
                         /\ OfTests(target[c].language, i.file))}

Children(c, i) ==
    {i.inner[n].name : n \in {m \in 1 .. Len(i.inner) :
        \/ cmd[c].raw
        \/ /\ cmd[c].format # "csv"
           /\ cmd[c].depth < 0 \/ i.inner[m].level <= cmd[c].depth}}

Told(c, i) ==
    IF cmd[c].kind # "hover" THEN {i.name} \cup Children(c, i)
    ELSE IF "marked" \in i.keys THEN {""} ELSE {i.name}

PrintsTheAnswer ==
    \A c \in Command :
        LET places == Expected(c)
            expected == {answer[c].items[n] : n \in places}
            rows == shown[c].rows
            printed == {rows[n] : n \in 1 .. Len(rows)}
        IN /\ shown[c].outcome = "printed" =>
                /\ {<<r.at, r.name>> : r \in printed}
                     = UNION {{<<i.at, n>> : n \in Told(c, i)} : i \in expected}
                /\ Len(rows) >= Cardinality(places)
                /\ cmd[c].kind \in Filtered \cup Calls =>
                     /\ Len(rows) = Cardinality(places)
                     /\ {<<r.file, r.at>> : r \in printed} = {<<i.file, i.at>> : i \in expected}
           /\ shown[c].outcome = "error" =>
                \E n \in 1 .. Len(answer[c].items) : ~ answer[c].items[n].valid
           /\ shown[c].outcome = "traceback" =>
                /\ cmd[c].format = "csv" /\ cmd[c].kind \in ByWorkspace
                /\ \E i, j \in expected : i.keys # j.keys

(* The README offers several language servers, and --language to choose:   *)
(* the server a command is answered by is the one of its language.  It is  *)
(* not: every daemon's registry starts the server of python.               *)
RightServer ==
    \A c \in Command :
        Asked(c) => asked[c].server = ServerName(Load("whole", cmd[c].cwd), target[c].language)
=============================================================================
