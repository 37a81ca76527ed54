# Verification of llm-lsp-cli

llm-lsp-cli puts a daemon between short-lived command line calls and a
language server. A command works out the file, the workspace and the language
it is about, connects to the UNIX socket of the daemon for them, starting it if
it must, and prints the answer. The daemon finds or starts the language server
of the workspace, keeps the documents and a cache of diagnostics in step with
the disk, and passes requests on over the server's stdin and stdout. The daemon
is one asyncio event loop, so every hazard in it lies between two `await`s;
commands, other daemons, the server, the editor and the disk act at any moment.

The specifications here are translated from `src/src/llm_lsp_cli`. Paths below
are relative to that directory, unless they start with `src/`.

## The parts of the system

| part | state | operations | what makes it correct |
|---|---|---|---|
| transport (`lsp/transport.py`) | request counter, `_pending`, futures, read task, `_running` | `send_request`, fire-and-forget, read loop, `stop` | every caller gets its own answer or an error, none is lost, no sound answer ends the read loop |
| file locks (`daemon/handler.py`) | LRU table of asyncio locks | `_get_file_lock`, `async with` | bounded, one request per file inside, every request gets its turn |
| document sync (`daemon/handler.py`, `daemon/document_sync.py`, `lsp/client.py`) | documents of the server | `textDocument/diagnostic`, did-change, didOpen | the server's document follows the file, versions rise |
| diagnostic cache (`lsp/cache.py`) | a `FileState` per file | update, open, mtime, version, staleness | what is served for an mtime is at least that fresh |
| registry and workspaces (`server/*.py`) | table of managers, global lock, a lock, a client and a flag per manager | look-up, `ensure_initialized`, `shutdown_all` | one initialised server per workspace, none left after shutdown |
| client (`lsp/client.py`) | transport, `_initialized`, open files | `initialize`, `shutdown`, feature requests | requests only after the handshake |
| daemon (`daemon/*.py`, `daemon_client.py`, `commands/daemon.py`) | PID file, socket file, processes | start, stop, restart, clean, start on demand | at most one daemon per workspace, stop ends it, nobody's files are removed by others |
| IPC (`ipc/*.py`) | connections, buffers, the listening socket | connect, frame, dispatch, respond, stop | a call returns the outcome of its own request, a stopped server is idle |
| progress (`lsp/client.py`, `infrastructure/lsp/progress_handler.py`) | tokens, workspace half of the cache | begin, report, end, the timer of the index | reports of a file are applied in their order, every request is answered |
| rename (`domain/services/*.py`) | files, backups, manifest | apply, restore, rollback | the text is what the edits ask for, originals are never lost, failure and rollback restore what they get to |
| command line (`commands/*.py`, `config/*.py`, `utils/*.py`) | the user's `config.yaml` | target, socket path, request, parameters | the question reaches the right server as it was typed |
| results (`output/*.py`, `file_filter/*.py`) | none | normalise, filter, transform, group, print | what is printed is what the server answered, but for what a format, a filter or the hover leaves out |

Interaction: a command (`CommandLine`) loads the configuration, resolves its
target and finds the socket; `DaemonClient` may start a daemon first
(`DaemonLifecycle`). The call over the socket (`Ipc`) ends in a connection
handler that calls `RequestHandler.handle`, which asks the registry (global
lock) for a manager, the manager (its lock) for an initialised client
(`Registry`), takes a file lock (`FileLocks`), opens the document
(`DocumentSync`) and calls the client; the client calls the transport
(`Transport`) and waits on a future the read loop settles. Notifications of the
server run in the read loop and write the cache (`DocumentSync`, `Progress`).
A signal makes the main coroutine shut down the registry and then the socket.
Every module has the steps of its own part and takes those of its neighbours
as one: a request handler that ends, a start that succeeds. Which daemon,
server and file a request is about matters to `CommandLine` alone.

The hard behaviour is listed with its lines under `hazards` in `PROJECT.json`:
timeouts that race with answers, a shutdown under running requests, state read
before an `await` and used after it (mtime, open flag), a handshake that fails
half-way, eviction of a lock in use, servers and daemons that die, fall silent
or are killed, a PID file and a socket removed by path whoever made them,
frames cut anywhere, kills between two file operations, and commands that
overlap.

## The modules

| module | models | composed with |
|---|---|---|
| `Rpc` | what the transport promises: a call is opened once and ends once, well only with an answer given to it | implemented by `Transport` |
| `Transport`, `TransportProofs` | `StdioTransport` and, external, a language server | `INSTANCE Rpc` through `RpcStatus` |
| `FileLocks`, `EventLoopProofs` | `_get_file_lock` and the requests behind it | |
| `DocumentSync`, `DocumentSyncProofs` | diagnostics, did-change, the cache, the disk and the server's documents | uses a file lock per file as `FileLocks` describes it |
| `Registry`, `RegistryProofs` | registry, managers, handshake, shutdown of the daemon | requests end as in `Transport` |
| `DaemonLifecycle`, `DaemonLifecycleProofs` | the processes around the PID file and the socket file: commands and daemons | a daemon's shutdown ends as in `Registry` |
| `Ipc`, `IpcProofs` | calls over the socket, frames, the stop of the server | a handler ends as in `Transport`, or never |
| `Progress`, `EventLoopProofs` | workspace diagnostics, progress notifications and the wait for the index | |
| `TextEdits` | the text an edit of a file produces, and a reference definition of it | extended by `Rename` |
| `Rename`, `RenameProofs` | apply and rollback as overlapping commands | |
| `Target` | what a command is about: root, language, file, names of socket and PID file | extended by `CommandLine` |
| `Listing` | lists in the order of a key: what `sorted`, a grouping or a comprehension returns | extended by `FileFilter` |
| `FileFilter` | which files count as test files | extended by `Results` |
| `Results` | the way of an answer to the terminal | extended by `CommandLine` |
| `CommandLine`, `CommandLineProofs` | commands that run at the same time, from arguments to what they print | composes `Target`, `Results` and `FileFilter` |
| `MC*` | small instances for TLC | extend the above |

**Reading the models.** Variables carry the attribute names of the code. An
action is what one coroutine does between two points where it really suspends
(an uncontended `asyncio.Lock`, and a cache method that awaits only such a
lock, do not suspend), or, in `Rename` and `DaemonLifecycle`, one file
operation or system call of a process. Locks are queues whose head is the
holder: `asyncio.Lock` is first in, first out and is not overtaken. Definitions
commented as a *faulty variant* are not part of any specification; each is a
plausible mistake, placed before the definition it would replace, and shows
that a property can fail.

**Transport.** `send_request` is `SendRequest`, then `DrainDone` or
`DrainRaises` if the pipe was full, then `Resume` or `TimerFires` and
`ResumeExpired` (`wait_for`: the timer wins over a result not yet picked up).
`CancelTask` is the cancellation of the whole call, which only the timeout
around `initialize` does. The read loop takes one message at a time and waits
itself in `drain()` when it answers a request of the server (`"replying"`).
`stop()` is four steps. The server answers in any order, late or never, and not
always soundly: an answer whose error is no object raises when a future waits
for it, after the entry was popped (`ErrorRaises`), and JSON that is no object
raises at once (`ReadGarbled`); either way the read loop ends with the
connection alive. `spoiled` has the callers of such answers.

**FileLocks.** A lock object that neither the table nor a request refers to is
free, and stands for the one `asyncio.Lock()` creates. `lostInUse` is a
history variable: the files whose lock was evicted while a request had it.

**DocumentSync.** Contents are numbered as they are written; the number also
stands for the mtime and for the diagnostics computed from those contents, so
"at least as fresh" is `>=`. The history variables say what a caller may
expect: `acked` (what a did-change acknowledged), `due` (that value when a
request arrived), `ahead` (files whose mtime was read newer than what the server
had been sent) and `wiped` (files an "unchanged" answer was applied to). An
answer of null, a bare list and one of no known form all store a list, perhaps
an empty one, with the mtime and without a result id: they are the "full"
answers without one.

**Registry.** One identifier stands for an `LSPClient` and its process.
`InitFails` leaves the process running and the manager uninitialised, as the
code does. `Close`/`Stopped`/`CloseRaises` are the shutdown of one client; the
last ends `shutdown_all`. `Killed` is the SIGKILL of an impatient `stop`.

**DaemonLifecycle.** A process is a command until it forks, and then the
daemon; its record has the program counter, the command, the caller of
`is_running` (`site`), what follows a `stop` (`after`) and the PID it read
(`seen`). `Look`, `ReadPid`, `Probe` and `UnlinkStale` are `is_running`, whose
result `Checked` hands to its caller: the command, `restart`, `start`, `stop`
or `ensure_daemon_ready`. The files are known by the process that made them,
and `lost` records whose PID file another process removed: a command, or a daemon
that exits, which looks for its own PID in the file (`Release`) and then removes
the file of that name (`RemoveOwn`). A request reserves the next
process number for the `start` it may spawn.

**Ipc.** A frame is three bytes: the length header, its end, and the body; a
chunk is any non-empty part of what is in the pipe, so a frame is cut in every
way that matters to the parser. The handler of a request ends well or with an
exception (`Respond`), at any time or never.

**Progress.** A notification has the number under which it was sent, and this
number stands for its contents; `received` is the history of those taken. `tasks` is the queue of the event loop: the
tasks `_handle_progress` creates and nobody awaits. A report whose items are
under `"items"` instead of `"diagnostics"` counts as empty, and a malformed
diagnostic makes the next answer fail, as in the code.

**Rename and TextEdits.** Contents are the sequence of applies a file went
through, `Nothing` those of a file that does not exist, which backup and edits
skip (`SaveSkips`, `EditSkips`); `Torn` marks a write cut short. A copy back, of
the except clause as of a rollback, can raise like the write before it, and ends
the command there (`RestoreFails`). `before` and `mixed` are history: what an
apply saved, and which of these files another command wrote afterwards. No other
program creates or removes the files. What an apply makes of a text is in
`TextEdits`: `read_text` makes newlines of all line ends, `_apply_edits` splits
the text into lines and applies the edits from the bottom up (`ApplyEdits`), and
the reference definition replaces every range of the original text at once.

**Target, FileFilter, Results, CommandLine.** A path is the sequence of its
names; a layer of the configuration maps pairs of language and key to values.
There is an operator for each function of the code on the way of a command and
of its answer. `CommandLine` strings them together: load the configuration
(`SeeAbsent`, `CreateEmpty`, `WriteDefaults` are the first run), `ResolveTarget`,
`ReachDaemon`, `HandleRequest`, `AnswerRequest`, `PrintReply`. An item of an
answer stands for a location, symbol, call, diagnostic, hover or edit; it says
where it is, what it is called, whether it passes validation, which optional
keys it has and what lies below it: the descendants of a document symbol, each
with its level, or the texts of a hover after the first. A document symbol with a
`location` is a `SymbolInformation`, which the normalisation converts
(`AsDocumentSymbol`); a `marked` hover is a lone `MarkedString` object, of which
nothing is printed (`Content`). Lists are functions over positions, so that they
can be reasoned about: what a filter keeps, a sort or a grouping arranges and a
table of rows lists is the items at some positions, in the order of a key
(`Listing`). The groups of an answer are one sequence, the records of a file next
to each other; json stands for yaml too; and the pattern matcher fills a table
over the pairs of a position in the path and one in the pattern
(`MatchSegments`).

## The runs

| run | question | result |
|---|---|---|
| `transport` | safety of requests, answers, timeouts and stop; refinement of `Rpc` | holds |
| `transport_live` | does every call end, does `stop()` finish | holds |
| `file_locks` | bounded, serialized unless evicted in use, everybody gets a turn | holds |
| `document_sync` | freshness of the cache, document follows the file, versions | holds |
| `registry` | one initialised server per workspace, handshake first, clean shutdown, every request and the shutdown end | holds |
| `daemon` | one daemon unless another process removed its PID file, undisturbed if commands do not overlap, thorough stop, every command ends | holds |
| `ipc` | every call gets its own outcome or ends, a stopped server is idle | holds |
| `progress` | reports in order, works tracked, every request answered | holds |
| `rename` | text as the edits ask, originals kept, failure and rollback restore what they get to | holds |
| `command_line` | question and answer arrive as typed and as given, root and daemon are the right ones | holds |
| `document_sync_stale` | diagnostics after did-change are updated, `src/README.md:270` | violated: the mtime was read after an edit the server had not been sent |
| `command_language` | the server of the file's language answers, `src/README.md:3` and `:142` | violated: no request carries a language, and the registry takes python |

Bounds, and why they are enough:

- `Transport.cfg`: two requests, a fire-and-forget one and a request of the
  server with a handler: an answer can be late for one request and overtake the
  other, each sound or not, and both meet `stop()`. At most two messages are
  unread (`MaxUnread`): the server then waits to send, which delays answers and
  takes no order of them away. `TransportLive.cfg` has no fire-and-forget
  request, a request of the server nobody answers and a message that is no
  object: the read loop dies of either kind while calls drain, wait and are
  stopped.
- `FileLocks.cfg`: a table of two, three files and four tasks: eviction hits a
  free lock, a held one and one with a waiter; six lock objects are never used up.
- `DocumentSync.cfg`: one file (files do not share state), two diagnostics and
  two did-change requests, one edit: the edit falls into every gap of each
  request, and two requests of each kind overlap.
- `Registry.cfg`: two workspaces and three requests: a holder and a waiter on
  each lock, a retry after a failed handshake, a request on either side of
  every step of the shutdown. No symmetry, for temporal properties exclude it.
- `DaemonLifecycle.cfg`: three processes and one crash: two commands beside a
  living daemon, or a request, the `start` it spawns and another command.
- `Ipc.cfg`: two requests and a notification, which share nothing but the
  server: one is handled while another connects, times out or disconnects.
- `Progress.cfg`: two files, a work, three notifications: a report overtaken by
  a newer one, by one of the other file and by published diagnostics; begin,
  report and end of a work in every order.
- `Rename.cfg`: two applies, two rollbacks, three files of which two collide
  in the backup, two session ids: a rollback is killed and repeated while
  another apply is under way. One of the colliding files may be missing
  (`Missing`). Seven texts with empty lines, with and without an end of line,
  with each kind of line end, and every pair of ranges and replacements on each
  of them.
- `CommandLine.cfg`: a tree with a Python project and a web project in a
  repository, the latter renaming a server. Every command alone, as json, csv
  and text and with every option of its own, each against null, list, object
  and ill-formed answers, symbols two levels deep under a depth of 0, of 1 and
  without limit, and hovers of each form; three commands (about a file, a directory, a
  workspace) from several directories, with relative and absolute paths and
  options; and pairs of commands that share a daemon or do not, with the user's
  configuration present or still to be made.

`CHECK_DEADLOCK FALSE` appears where the modelled commands, calls or the daemon
come to an end; a stuck coroutine is what the liveness properties look for.

Exceptions are part of the properties, where a stronger statement would be
false of the code: `SerializedUnlessLost` excepts files whose lock was evicted
in use, `FreshCache` files with an edit before the mtime was read, or with an
"unchanged" answer, `SingleUnlessLost` daemons whose PID file another process
removed, `AloneIsSafe` overlapping commands, `DaemonShared` configurations that
rename a server and workspaces that stay relative, `OriginalsKept` shared
sessions, colliding files and files others wrote, `FailureUndone` the files
behind a copy back that raised, `AppliedAsAsked` missing files and the kind of
line ends, `ReadLoopSurvives` and `CallerReachable` a message that breaks the
protocol, `PrintsTheAnswer` the text of a `MarkedString` hover and all but the
first of a list, `EveryCallEnds` a call held
in `drain()` by a server that lives, reads nothing and is never stopped. Each
exception happens in the instance of its run, but for the message that is no
object, which is in that of `transport_live`.

## Fairness

`Transport`: the event loop runs callbacks that are ready and fires timers
(`TimerFires`, `Resume`, `ResumeExpired`, the steps of the read loop,
`StopStep`). Nothing is assumed of the server: it need not answer, exit or read
its stdin. `drain()`, which no timeout covers, is only sure to return or raise
once the server is dead (`stop()` kills it), hence the exception of
`EveryCallEnds` for a call held there while the server lives and nobody stops it.
`FileLocks`: a holder leaves eventually, because every request inside has a
timeout. `Registry`: a handshake and a request have timeouts (`InitFails`,
`RequestEnds`), and a coroutine at the head of a lock runs. Both take for
granted that the server reads its stdin, the exception `Transport` has. Neither arrival,
crash nor kill is fair.
`DaemonLifecycle`: every process takes its steps, commands and daemons each by
themselves, for every wait of a command has a limit (0.1, 2, 5 or 10 seconds)
and a daemon's shutdown ends as in `Registry`. Commands need not be issued, and
crashes need not happen.
`Ipc`: the timer of a client fires, the event loop serves its connections and
looks whether all are closed. A request handler need not end and nobody has to
send a signal, hence the exception of `EveryoneEnds` for a handler that hangs.
`Progress`: the event loop takes notifications, runs its tasks and fires its
timers; the server may fall silent at any point.

## What is proved

For every value of the constants, from the named assumptions only
(`TransportAssumption`, `FileLocksAssumption`, ...), with TLAPS:

- `TransportProofs`: type correctness, the five safety properties of
  the `transport` run, `StopReleases`, and that `Transport` implements `Rpc`.
  None of the properties is inductive. The inductive invariant `IInv` adds
  where ids come from and stay (`IdsDrawn`, `IdsKept`: an id in a frame, an
  entry or an answer was drawn by that call and by no other), that an answer
  in the pipe was given (`AnswersKept`), that a registered future belongs to
  its entry (`Registration`), which program points allow an entry (`Entries`), and
  what the read loop can have died of (`LoopDeaths`). The refinement maps a call to `RpcStatus`; every step is a step
  of `Rpc` or leaves its variables unchanged.
- `EventLoopProofs`, about the two queues of the event loop. Of `FileLocks`:
  type correctness, the bound of the table, and serialization of files not lost
  in use. The invariant adds that a lock is in the table under one file, that a
  queue only holds requests that got this lock, and that requests for a file not
  lost share one lock. Of `Progress`: type correctness, `ReportsInOrder` and
  `WorkTracked`, for any number of files, works and notifications. The invariant
  follows a notification by its number: what is on the wire is in order and newer
  than all that was taken (`Wired`), a number is one notification (`Taken`), and
  tasks wait in order, newer than every report that was applied (`Tasked`). So
  the task that runs makes the newest report of its file that was applied, and a
  mark that is taken is the last of its work.
- `DocumentSyncProofs`: all properties of the `document_sync` run and
  `MtimeNeverOlder`, for any number of files, requests and edits. The invariant
  grows in layers, each proved with the one below: `WellFormed` (types, and
  `Turns`: a request inside has the head of its file's queue); `SyncInv`
  (`Behind`: documents and recorded mtimes are never newer than the disk);
  `CacheInv` (`Counted`: the version counter is not below what was sent;
  `Recorded`: a recorded mtime is not above what an asking request has read);
  `FreshInv` (`Ordered`: messages under way are in order and not ahead of the
  document; `Addressed`: an answer belongs to a request that still asks;
  `Fresh`: for a file that is not `ahead`, a mtime recorded or read is covered
  by the document and the messages under way). "Effect" lemmas state once what
  a step of any action may do to documents, cache and pipe, so that each layer
  is proved from them.
- `RegistryProofs`: type correctness, the three safety properties of the
  `registry` run and `TableSteady`, for any number of workspaces, requests and
  servers. No property is inductive, for each rests on who holds which lock:
  `Named` (managers and workspaces are one to one), `Placed` (a task at a
  manager's lock stands in its queue, and one that initialises heads it),
  `DaemonLast` (nobody queues behind `shutdown_all`), `Loop` (its loop holds
  the global lock, and a manager it has passed is uninitialised and waited for
  by nobody), `Owned` (a live server past its handshake is the client of the
  initialised manager of its workspace). When the loop is over it has passed
  every manager, so nothing initialised is left.
- `IpcProofs`: `HonestAnswers` and `StoppedIsIdle`, for any number of calls and
  however their bytes are cut. The invariant says of each call that its
  request, until the handler starts on it, is a frame cut in two between the
  buffer and the pipe (`RequestCut`), that so is its answer, whose contents say
  how the handler ended (`AnswerCut`), and where call and handler can be at the
  same time (`Together`). Lemmas about frames say that a chunk moves the cut and
  that the parser sees a message only in a whole frame.
- `DaemonLifecycleProofs`: type correctness, `SingleUnlessLost`,
  `StopLeavesNothing` and `AloneIsSafe`, for any number of processes and crashes.
  `IInv` says that a living daemon not in `lost` owns the PID file (`Owner`), which
  is why there is one at most; that the process a `stop` signalled is dead from
  the end of its wait on, and keeps no file the stop has passed (`Stops`, `Gone`);
  and, for these, that a PID file is written by a process that lives or has
  lived (`Written`), that a process a request may spawn is still free
  (`Reserved`) and that processes are created in order (`Born`). `Moves` states
  once what a step of any process may do to the others and to the files.
  `AloneIsSafe` is about whole histories of single commands, and needs `AInv` on
  top: what each process is there for (`Role`), and, while nothing overlapped, that
  the one command under way is alone but for the request that spawned it
  (`Alone`), that nobody lives when a command cleans up (`Quiet`), that the PID it
  has read is still that of the file (`Sees`), and that a serving daemon has its
  PID file and, unless `clean` ran, its socket (`Serves`).
- `RenameProofs`: type correctness, `OriginalsKept`, `FailureUndone`,
  `RollbackUndoes` and `AppliedAsAsked`, for any number of files, commands and
  sessions. The invariant says where contents come from (`Traced`: a file or copy
  that shows an apply is one it edited, or shares the path of a copy with one, and
  then all copies were made), that a session, a manifest and a rollback need an
  apply before them (`Origin`, `Listed`), that the copy of a file is there or was
  removed after the file was restored (`Copied`), that a file which a failing
  apply or a rollback has treated so far is as it was (`Undone`, `RolledBackTo`), and that
  a file an apply has treated shows its edit, is missing or is excused (`EditShown`). One
  predicate, `Moves`, says what a step of a command may do; each part of the
  invariant is proved from it. `AppliesAsAsked` assumes `EditsAsAsked`, the
  conjunct of the property that has no variable in it: whether the edits of one
  file make the text the reference asks for is a matter of texts alone, which
  TLC evaluates.
- `CommandLineProofs`: `AskedAsTyped`, `RootNearest`, `DaemonShared` and
  `PrintsTheAnswer`, for any tree of directories, markers, configurations,
  commands, answers and filter patterns, and `FilterIsExact`, which is about the
  patterns alone. The invariant says
  that the target of a command is what its arguments and the configuration it
  loaded determine (`Aimed`), whatever other commands did to the user's
  configuration meanwhile, that a request carries the message of that target,
  that an answer which waits to be printed is one the server may give and the
  reply its normalisation (`AnswersInv`), and,
  as long as every command is `Usual`, that daemons are bound to the sockets of
  their workspaces (`Bound`) and commands find them there (`Found`). The rest is
  about operators: the ancestors of a directory are its prefixes, longest first
  (`Prefixes`), the first of them with a marker is the nearest root (`Nearest`),
  the root lies above the file (`RootFound`), and a file survives the way from a
  relative path to the request (`MessageKept`).

  `PrintsTheAnswer` compares the rows on the terminal with the server's raw
  answer: they name the items, with their children down to the depth asked for and
  the one text printed of a hover (`Told`), at the positions a reference
  definition selects (`Expected`), none is lost and, where there are no children,
  none is printed twice. The proof follows the answer through the program. The order of a key is a bijection from the places of the
  result to those of the list (`OrderFound`, with the rank of an element as its
  place), so a filter or a sort chooses every item it should once and no other
  (`Chosen`); the records come from these items one by one (`Traces`), and the
  rows say what the items say (`Prints`). There is one lemma for each command
  (`DefinitionRight`, `ReferencesRight`, ...); `ReplyShown` combines them. Which
  files are left out rests on `FilterIsExact`: the table of the matcher finds a
  match exactly when the path can be cut along the pattern, a piece of any length
  at each `**`. It is proved from the least pair of positions where
  the two would differ.

  `TargetAssumption` asks that the tree is closed under parents and made of paths,
  and that only languages have commands; `ScenarioAssumption` that a command is
  typed in an existing directory and gives a path and integers, as `typer`
  parses them, and `--raw` only to a command that has it; `AnswerAssumption` that
  a server answers in the shapes of the protocol (a hover has one item at most,
  only document symbols have children, and only hovers further texts); `FilterAssumption` that no pattern of a
  path is empty or a lone `**`, which is so of every shipped pattern and without
  which the code matches nothing. TLC evaluates them all on the instance of the
  run.

Each part of an inductive invariant was first checked with TLC on the
instance of its run. The type invariants of `FileLocks`, `Progress`, `Registry` and
`Rename`, `StopReleases`, `MtimeNeverOlder` and `TableSteady` are proved and in no
run.

Model-checked only: all liveness (the prover does not treat fairness and
`ENABLED`), the two violations, and `EditsAsAsked`: the text that a list of edits
makes is a recursive definition over the list (`TextEdits`), and what it computes
for every input takes induction over data. Every other safety property of
a run is a theorem.

## What the models show of the code besides

Met while the models were written, at the lines given; none is a property of a
run, and the models do as the code does.

- A request of the server without a handler gets no answer, in spite of the
  comment at `lsp/transport.py:525`. An answer with `"error": null`, or any error
  that is no object, raises in the read loop (`lsp/transport.py:509`), as does
  JSON that is no object (`:459`): the loop ends, the caller is no longer in
  `_pending` where `stop()` would find it, and all callers time out from then on,
  with the server alive. The docstring at `daemon/handler.py:123`
  promises one lock per file, but a lock in use can be evicted. An "unchanged"
  report (`lsp/client.py:1002`) carries no uri, so it empties the cached entry.
  The class comment at `server/registry.py:22` promises one server per
  workspace, but the process of a failed handshake lives on.
- A command computes the socket path from the default name of the server
  (`daemon_client.py:70`), the manager from the configured one
  (`daemon/manager.py:51`): with a renamed server the daemon is started and not
  found. A relative workspace option (`-w .`) is passed on unresolved: it names
  one socket for all directories and, in the daemon, `/`.
- An explicit language makes the root be searched from the working directory
  instead of from the file. Diagnostics and did-change take the working
  directory for the workspace. The project file `.llm-lsp-cli.yaml` is read by
  commands and never by the daemon.
- The first `config.yaml` is created empty and then written
  (`config/manager.py:176`): a command in between finds no language.
- A signalled daemon waits for its clients (`ipc/unix_server.py:81`) because no
  task is ever put into `_clients`; the client that connects to a socket file
  left by a kill gets `ConnectionRefusedError`, which the docstring at
  `daemon_client.py:98` does not name; `clean` removes the socket of a daemon that
  lives but does not answer; a connection whose bytes do not parse is closed
  without a response, and a client does not compare the id of a response.
- Workspace reports are read under `"diagnostics"`, while the protocol says
  `"items"`; one malformed diagnostic fails the answer for all files
  (`lsp/cache.py:380`); "indexed" is a timer of two seconds (`lsp/client.py:584`).
- A CSV of grouped rows with different optional columns raises
  (`output/dispatcher.py:332`); the CSV of document symbols leaves out children
  and gives the workspace for the file; `include_tests` has no effect on incoming
  and outgoing calls; the user's `file_filter` is not read; a pattern `**` alone
  matches nothing.
- Of a hover whose contents are a `MarkedString` object nothing is printed, and of a
  list of them the first (`output/formatter.py:1172`), though `lsp/types.py:227`
  takes both.
- A file of a rename that does not exist is skipped and the command reports
  success (`domain/services/rename_service.py:470`). A rename of one word makes
  newlines of all line ends of a file (`:473`, `:510`). The copy back of a file
  that could not be written raises as well
  (`domain/services/backup_manager.py:192`): the files behind it stay renamed,
  in spite of the "Atomic rollback" of
  `src/docs/adr/0019-lsp-rename-feature-with-layered-service-architecture.md:67`,
  and without a manifest `rename --rollback` refuses the session, whose copies
  are all there (`OriginalsKept`).
- The edits of a rename were computed on the document the server has and are
  applied to the file on disk without a version check
  (`domain/services/rename_service.py:476`); of two edits at the same place the
  second goes in before the first; characters are counted as code points,
  where the protocol's default is UTF-16; `rename --rollback` looks for sessions
  in the working directory.

## What is not modelled

- Authentication of connections: no code outside tests gives a validator to
  `UNIXServer`.
- Logging and masking, the layout of rows and trees, help and version texts,
  argument parsing: no state, and no property but their wording.
- The `config` commands and the validation of the schema; `fnmatch` and the
  globs of the standard library are a constant relation.
- Parts only tests call: pruning of sessions, clearing and statistics of the
  cache, reload of the file filter. The log file and stray symbolic links of a
  daemon.
- Capabilities and constants of the protocol (`lsp/constants.py`,
  `lsp/types.py`): tables and data types without behaviour.
- Programs other than the commands that create or remove the files of a rename
  while it runs.
- PIDs that are reused, and the identity of the process behind a PID, which
  `is_running` does not check either.

What a further step could add: the edits of a file as a function over the
positions of its text, so that `EditsAsAsked` needs no induction; an abstract
specification of the cache that `DocumentSync` and `Progress` both implement; and
a composition of `DaemonLifecycle` with `Registry` that follows the servers of a
daemon killed by `stop`.
