---------------------------- MODULE MCCommandLine ----------------------------
(* A tree with a python project and a web project inside a git repository. *)
EXTENDS CommandLine, TLC

Root == <<"work">>
App == <<"work", "app">>
Web == <<"work", "web">>
Main == App \o <<"main.py">>
TestMain == App \o <<"test_main.py">>
Index_ts == Web \o <<"index.ts">>
Tool == Root \o <<"tool.py">>
Notes == App \o <<"notes.txt">>
Tests == App \o <<"tests">>
Data == Tests \o <<"data">>
Helper == Tests \o <<"helper.py">>
Sample == Data \o <<"sample.py">>

MCDirectory == {<< >>, Root, App, Web, Tests, Data}
MCFile == {Main, TestMain, Helper, Sample, Index_ts, Tool, Notes}
MCMarkersIn == [d \in MCDirectory |->
    CASE d = Root -> {".git"}
      [] d = App -> {"pyproject.toml"}
      [] d = Web -> {"package.json"}
      [] OTHER -> {}]
MCLanguageOf == [n \in {f[Len(f)] : f \in MCFile} \cup {"gone.py"} |->
    CASE n = "index.ts" -> "typescript"
      [] n = "notes.txt" -> NoLanguage
      [] OTHER -> "python"]
MCLanguageOrder == <<"python", "typescript", "javascript">>
MCDefaults ==
    (<<"python", "command">> :> "basedpyright") @@ (<<"typescript", "command">> :> "tsserver")
    @@ (<<"javascript", "command">> :> "tsserver")
    @@ (<<"python", "root_markers">> :> {"pyproject.toml", ".git"})
    @@ (<<"typescript", "root_markers">> :> {"tsconfig.json", "package.json", ".git"})
    @@ (<<"javascript", "root_markers">> :> {"package.json", ".git"})
MCProject == [d \in MCDirectory |->
    IF d = Web THEN (<<"typescript", "command">> :> "vtsls") ELSE << >>]

MCFileOrder == <<Main, Notes, TestMain, Sample, Helper, Tool, Index_ts>>
MCNameOrder == <<"", "f", "g", "h">>

(* From the shipped patterns, the ones that tell these files apart. *)
Under(names) == <<Globstar>> \o names \o <<Globstar>>
MCFilterConfig == [l \in {"python", "typescript"} |->
    IF l = "python"
    THEN [directory |-> {Under(<<"tests">>)}, suffix |-> {"*test_*.py"}, prefix |-> {},
          include |-> {Under(<<"tests", "data">>), <<Globstar, "tests", "conftest.py">>}]
    ELSE [directory |-> {Under(<<"__tests__">>)}, suffix |-> {}, prefix |-> {"test_*"},
          include |-> {}]]
MCDefaultFilter ==
    [directory |-> {Under(<<"tests">>), Under(<<"__tests__">>)}, suffix |-> {"*.test.ts"},
     prefix |-> {"test_*", "_test*"}, include |-> {}]
MCFnmatch == {<<"tests", "tests">>, <<"data", "data">>,
              <<"*test_*.py", "test_main.py">>, <<"test_*", "test_main.py">>}

Relative(names) == [absolute |-> FALSE, names |-> names]
Here == Relative(<< >>)
Base == [kind |-> "definition", cwd |-> Root, file |-> Absolute(Main),
         workspace |-> NoPath, globalWorkspace |-> NoPath,
         language |-> NoLanguage, globalLanguage |-> NoLanguage,
         line |-> 2, column |-> 1, text |-> "", includeTests |-> FALSE,
         format |-> "json", raw |-> FALSE, depth |-> 1]
Idle == [Base EXCEPT !.kind = "none"]

Found(f, at, name) == [file |-> f, at |-> at, name |-> name, valid |-> TRUE,
                       keys |-> {}, inner |-> << >>]
Bad(f) == [Found(f, 4, "h") EXCEPT !.valid = FALSE]
Answer(shape, items) == [shape |-> shape, items |-> items]
Three == <<Found(TestMain, 3, "g"), Found(Main, 2, "f"), Found(Main, 1, "g")>>
Below == <<Found(Helper, 2, "f"), Found(Sample, 1, "h"), Found(Helper, 4, "g")>>
Keyed == <<Found(Main, 2, "f"), [Found(Index_ts, 1, "g") EXCEPT !.keys = {"tags"}]>>
Child1(name) == [level |-> 1, name |-> name]
Child2(name) == [level |-> 2, name |-> name]
Nested == <<[Found(Main, 1, "f") EXCEPT !.inner = <<Child1("g"), Child2("h")>>], Found(Main, 3, "h")>>
Flat == <<[Found(Main, 1, "f") EXCEPT !.keys = {"location", "deprecated"}], Found(Main, 3, "h")>>
Marked == [Found(Main, 1, "f") EXCEPT !.keys = {"marked"}]
Texts == [Found(Main, 1, "f") EXCEPT !.inner = <<Child1("g")>>]
Null == Answer("null", << >>)
MCAnswers == [k \in Kinds |->
    CASE k \in Locations -> {Null, Answer("list", Three), Answer("list", Below), Answer("list", <<Bad(Main)>>),
                             Answer("object", <<Found(Main, 1, "f")>>)}
      [] k = "completion" -> {Null, Answer("list", Three), Answer("items", Three)}
      [] k \in {"hover", "rename"} ->
            {Null, Answer("object", <<Found(Main, 1, "f")>>), Answer("object", <<Bad(Main)>>)}
            \cup (IF k = "rename" THEN {}
                  ELSE {Answer("object", <<Marked>>), Answer("object", <<Texts>>)})
      [] k = "document-symbol" -> {Null, Answer("list", Nested), Answer("items", Nested),
                                   Answer("list", Flat),
                                   Answer("list", <<Bad(Main), Found(Main, 1, "f")>>)}
      [] k \in Calls -> {Null, Answer("list", Three), Answer("calls", Three), Answer("list", <<Bad(Main)>>)}
      [] k = "did-change" -> {Null}
      [] k = "diagnostics" -> {Null, Answer("items", Three), Answer("list", <<Bad(Main)>>)}
      [] OTHER -> {Null, Answer("list", Three), Answer("list", Below), Answer("list", Keyed),
                   Answer("list", <<Bad(Main), Found(Main, 1, "f")>>)}]

(* One command alone: every kind, in every format. *)
Printing ==
    {c \in {[Base EXCEPT !.kind = k, !.format = f, !.includeTests = t, !.raw = r, !.depth = d,
                         !.text = "h", !.line = 2 * d * d] :
               k \in Kinds, f \in Formats, t \in BOOLEAN, r \in BOOLEAN, d \in {-1, 0, 1}} :
        c.raw => c.kind \in WithRaw}

(* What a command may be about: where it is typed, the file, the options.  *)
Aimed ==
    {[Base EXCEPT !.kind = k, !.cwd = d, !.file = f, !.workspace = w, !.language = l] :
        k \in {"hover", "diagnostics", "workspace-symbol"}, d \in {Root, App, Web},
        f \in {Absolute(Main), Absolute(Index_ts), Relative(<<"tool.py">>),
               Relative(<<"main.py">>), Absolute(Notes), Absolute(App \o <<"gone.py">>)},
        w \in {NoPath, Absolute(App), Here}, l \in {NoLanguage, "typescript"}}

(* Two commands at once. *)
Together == {c \in Aimed : /\ c.cwd # Web
                           /\ \/ c.kind = "hover" /\ c.file \in {Absolute(Main), Absolute(Index_ts)}
                              \/ c.kind = "workspace-symbol" /\ c.file = Absolute(Main)}
MCScenarios ==
    {("a" :> x) @@ ("b" :> Idle) : x \in Printing \cup Aimed}
    \cup {("a" :> x) @@ ("b" :> y) : x \in Together, y \in {c \in Together : c.cwd = Root}}
=============================================================================
