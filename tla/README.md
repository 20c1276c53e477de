# A TLA+ model of the C# analyzer provider

The repository is a gRPC service (Rust, tonic/tokio) that answers questions of
the Konveyor analyzer about a C# code base: it builds a stack graph of the
sources with tree-sitter, adds the public names of the NuGet packages and of the
.NET SDK from their XML documentation files, keeps the rows of the graph in a
SQLite store, and evaluates the conditions of migration rules on the graph in
memory.

This directory holds TLA+ modules for the parts of it that are hard to test, TLC
configurations that check them on small instances, and theorems that TLAPS
proves for every instance. Paths below are relative to the repository.

1. [Inventory](#1-inventory): components, state, operations, interactions
2. [Modules](#2-modules): which module models which part
3. [Runs](#3-runs): what is checked, bounds, fairness
4. [Proofs](#4-proofs)
5. [What the model shows about the code](#5-what-the-model-shows-about-the-code)
6. [Not modelled](#6-not-modelled)
7. [What is left](#7-what-is-left)

## 1. Inventory

| component | source | state | operations |
|---|---|---|---|
| gRPC service | `src/provider/csharp.rs` | `config`, `project` (tokio mutexes), `context_lines` | `init`, `evaluate`, `notify_file_changes`; `capabilities`, `prepare`, `stop`, `get_dependencies*` answer constants |
| Project | `src/provider/project.rs` | `graph` (std mutex, can be poisoned), `source_language_config` (tokio RwLock), `sdk_path`, `target_framework`, `dependencies` | `validate_language_configuration`, `get_project_graph`, `get_sdk_path`, `set_sdk_path`, `get_tools` |
| Graph builder and store | `src/c_sharp_graph/loader.rs` | the SQLite file; the `StackGraph` under construction | `init_stack_graph`, `load_graph_for_file`, `load_and_store_file`, `add_dir_to_graph` |
| Dependency resolution | `src/provider/dependency_resolution.rs` | paket's files on disk, rows of packages and SDK in the store | `resolve`, `load_to_database` (source-only and full), `load_sdk_from_path`, `load_sdk_xml_files_to_database` |
| SDK detection | `src/provider/sdk_detection.rs` | none (file system) | `find_sdk`, `validate_sdk_for_tfm` |
| Target frameworks | `src/provider/target_framework.rs` | none (`.csproj` files) | parsing of monikers, earliest framework, `dotnet-install`, XML file search |
| Search patterns | `src/c_sharp_graph/query.rs` | none | `create_search`, `match_namespace`, `partial_namespace`, `match_symbol` |
| Query engine | `src/c_sharp_graph/{query,class_query,method_query,field_query,namespace_query}.rs` | none (reads the graph under its lock) | `get_starting_nodes`, `traverse_node*`, `get_fqdn`, the symbol matchers, `select_best_fqdn` |
| Results | `src/c_sharp_graph/results.rs`, `csharp.rs` | none | `deduplicate_results`, the sort of incidents |
| Dependency XML analyser | `src/c_sharp_graph/dependency_xml_analyzer.rs` | one graph | nodes and edges for the `<member>` elements |
| Language configuration | `src/c_sharp_graph/language_config.rs`, `stack-graphs.tsg` | immutable after construction | building of tree-sitter rules and built-ins |
| Code snippets | `src/provider/code_snip.rs` | none | `get_code_snip` |
| Server and transports | `src/main.rs`, `src/pipe_stream/` | none | command line, TCP/pipe listeners |
| Generated gRPC code | `src/analyzer_service/` | none | generated by tonic-build |

### How they interact

`init` saves the `Config`, makes a `Project`, puts it where the other handlers find
it, **lets go of both locks and takes the project lock again**. It detects the
target framework and the SDK, spawns a task that loads the SDK's XML files, sets the language
configuration, calls `get_project_graph`, resolves the packages with paket,
awaits the SDK task and reads everything back from the store
(`load_to_database`).

`notify_file_changes` keeps the project lock from start to end: for each C# or project file of its
list it cleans the file's rows, rebuilds the file and stores it, each in a transaction of its
own (of a project file there is nothing to store); then it calls `get_project_graph`, which reads the store back into a
graph and swaps it in.

`evaluate` takes the project lock only to get at the project, and then the
graph's own mutex for the query.

So the state that handlers share is: two tokio mutexes, a tokio RwLock and a std mutex per
project, the SQLite store that outlives the process, and the source tree that
somebody edits meanwhile.

### What is hard, and what makes each part correct

- *Service and Project*: handlers interleave at each await, futures are dropped
  when a client goes away, a query that panics poisons the graph. Correct means:
  locks exclude and are always given back; the nested read of the RwLock cannot
  deadlock with a writer; `expect`s never fire; a client that has been told its
  change is in sees it; an answered `init` has indexed what it was asked to; every
  call is answered.
- *Store*: rows outlive the process, are written file by file, and a half-written
  store looks like a whole one. Correct means: what is served agrees with
  what is stored; it never goes back in time; a store that is reused is a store of
  this location and these files.
- *Search patterns*: greedy matching with two indices, two cheaper tests with
  other rules before it. Correct means: matching accepts exactly what a pattern means, and
  the cheaper tests lose nothing.
- *Query engine*: definitions at any depth of several files, one of several classes of
  the same name, a reference that goes through a variable. Correct means: the walk
  finds each definition that matches and no other; a reference is reported when, and only
  when, its file's imports make it mean such a definition.
- *Results, snippets, frameworks*: unsigned subtraction, order of strings against
  order of numbers. Correct means: the answer does not depend on the order of loading, the
  incident is in its snippet, the earliest framework is the earliest by number.
- *SDK loader*: partial failure in a batch of files. Correct means: one bad file
  costs that file.
- *Packages*: what is read back while other tasks write, in files whose order somebody else
  chose. Correct means: the graph that is served has all that this init stored, and of each package the
  files of the framework that was meant.
- *XML analyser*: nodes that are found again by name. Correct means: a member can be reached
  through its own namespace and type and through no other.

`PROJECT.json` lists each hazard at its line with the properties that would catch it.

## 2. Modules

```
FifoMutex <- Provider <- ProviderProps (INSTANCE FreshReads) <- MCProvider
                                        ProviderProofs <- ProviderLockProofs <- ProviderFreshProofs
SearchPattern <- MCSearchPattern, SearchPatternProofs
Query <- Incidents <- MCQuery, QueryProofs
NumberProofs <- SearchPatternProofs, QueryProofs, SdkProofs
DependencyXml <- MCDependencyXml, DependencyXmlProofs
TargetFramework <- Sdk <- Packages <- MCSdk, SdkProofs
```

(`A <- B`: B extends A.) Provider is the whole service at the grain of its locks; the others open up what is one
step of it: a query and its answer, one XML file, the SDK and the packages of one init.

### Provider

`Provider.tla` models `init`, `evaluate`, `notify_file_changes`,
`Project::get_project_graph` and the SDK loader at the grain of their locks, awaits and store
transactions. It extends `FifoMutex.tla`, the promise of `tokio::sync::Mutex` that the
handlers rely on (one owner, first come first served, a dropped waiter
leaves the queue): tokio is not in the repository, so these operators are external.
`ProviderProps.tla` states the properties, `MCProvider.tla` gives the instances.

`FreshReads.tla` is the abstract specification: a service of which only edits, calls and answers are
left. `Acknowledge` makes versions known to clients (a notification is answered), `Answer` takes an answer from
versions that are no older than those known when the call was made and no newer than the disk. There is no lock, project, store or
graph in it. `ReadsStayFresh` says that Provider implements it: `disk` and `acked` are Provider's own, a reader's `status` is read off
`pc` and `resp`, its `floor` is `known`, and `seen` is the versions in the snapshot it answered from.

A request is a constant (`Inits`, `Evals`, `Notifies`); it runs once. A
`Project` is created by an `init`, so it is named by it.

| variables | in the code |
|---|---|
| `pc`, `resp`, `cur` | the handler's place, its answer, the `Arc<Project>` it has got |
| `todo`, `files`, `snap` | `notify`: files still to refresh, files already in its new `StackGraph`; `init_stack_graph`: files still to visit; the rows of the graph it is about to publish, or (`evaluate`) has answered from |
| `config`, `cfgLock`, `project`, `projLock` | `CSharpProvider.config`, `.project` |
| `lcSet`, `lcReaders`, `lcWriters` | `source_language_config`: set?, guards inside, writers queued |
| `graph`, `gLock`, `poisoned` | `Project.graph` |
| `sdkPath`, `deps` | `sdk_path`/`target_framework` as `get_sdk_path` sees them; does `dependencies` hold any? |
| `sdkPc` | the spawned SDK loader |
| `dbFile`, `db` | the SQLite file (absent, without tables, ready) and its rows |
| `disk`, `crashes` | the source tree; crashes so far |
| `acked`, `known` | what clients may rely on: bookkeeping for the freshness properties, read by no guard |

A row has the version of the file that was last examined for it, and whether it
holds nodes (`live`). Cleaning a file makes its row not live; so does a file that
is gone or does not build.

| code | actions |
|---|---|
| `init` (`csharp.rs:100-296`) | `InitCall`, `InitConfig` (save, refuse full mode or missing tools), `InitReplace`, `InitUnlock`, `InitRelock`, `InitBind` (framework, SDK, spawn, language configuration), `InitValidate`, *get_project_graph*, `InitResolve`, `InitJoin`, `InitDeps`, `InitLoad` |
| `get_project_graph` (`project.rs:269-334`) | `GraphOpen`, `GraphSwap`, `WalkGuard`, `WalkOpen`, `WalkSchema`, `WalkFile` (one per file), `WalkSwap` |
| `notify_file_changes` (`csharp.rs:517-654`) | `NotifyCall`, `NotifyStart`, `NotifyType`, `NotifyOpen`, `NotifySchema`, `NotifyClean` and `NotifyStore` (per C# file), `NotifySkip` (per project file), *get_project_graph* |
| `evaluate` (`csharp.rs:334-489`) | `EvalCall`, `EvalStart`, `EvalType`, `EvalLock`, `EvalQuery` |
| SDK loader (`dependency_resolution.rs:716-894`) | `SdkOpen`, `SdkSchema`, `SdkStore`, `SdkMark` |
| around the code | `Edit`, `Cancel`, `Crash`, `Idle` |

A name in *italics* is a function that both handlers call: its actions take
the caller as parameter, and `GraphOk`/`GraphErr` say where each goes on.

Failures are constants in `Faults`, so that a run says which it allows: `config` (tools or
mode refused), `validate`, `resolve`, `deps`, `sdk`, `db` (a SQLite error),
`broken` (a file that does not build), `condition` (a condition that does not
parse or compile), `panic` (in a query, under the graph lock), `cancel` (the
client goes away).

Choices worth knowing:

- A transaction is one step: `SQLiteReader`'s load, a file's store, a file's clean.
  Opening a writer on a new store is two (`CreateFile`, `CreateTables`), because
  another task can open the file in between.
- The walk lists a directory when it reaches it and reads a file when it visits it, in an order of the file system: `WalkFile` may
  find of each file below the location that its directory has it not, or that it has gone since, and a file that is made meanwhile may be met or missed.
- `InitLoad` reads the store and swaps the graph in one step: the code holds
  the graph's mutex over both.
- In `InitDeps`, when one package fails (or the client leaves), the other packages'
  tasks are dropped with their `JoinSet`; whatever they stored is stored with the same step.
- The SDK's XML files are one row, a package's XML file is one row. What SDK
  detection and the framework search may find is the constant `SdkKinds`. Both are opened up in
  `Sdk` and `Packages`.
- `Changed` lists C# and project files. `csharp.rs:536` keeps a `.csproj`, so a notification of nothing else takes the project lock too, cleans
  rows that the store does not have, stores nothing and reloads the graph; with an empty `Changed` it is answered at once.
- A file that a notification has added to its new graph stays there although it does not build (`loader.rs:224-263`), so it is
  refused when the list names it again.
- An `init` in full analysis mode is refused by `InitConfig` like a missing tool:
  the full-mode decompilation is therefore not reachable through the service.
- `Cancel` is only offered where a handler's future can be pending: at the locks, at the file system while packages are resolved,
  at the SDK loader and at the packages' tasks. `NestedReadSafe` shows that the RwLock's awaits never pend, and a std mutex blocks without yielding.
- `evaluate` panics inside the query only; a panic elsewhere does not hold the mutex.

### SearchPattern

`Search::create_search` cuts a pattern such as `System.Web.*` or
`*.AssemblyBuilderAccess.(Save|Run)` at its dots into parts;
`match_namespace` walks the parts and the segments of a full name with
two indices. `SearchPattern.tla` has one action per branch of the two
loops (`OpenGroup`, `GlueToken`, `CloseGroup`, `PlainToken`, `StrayClose`; `StarSkips`, `StarEnds`,
`PartTakes`, `PartFails`, `SegmentsLeft`, `PartsLeft`, `BothEnd`), so that
every behaviour is one call of the two for a pattern and a name. `partial_namespace`
and `match_symbol`, the tests that choose where to look and what to look at
before `match_namespace` decides, are operators.

A segment is a model value. What stands between two dots of a pattern is a token with the
set of segments it matches on its own: that replaces the regular expressions, of
which the code asks nothing but whether they match one segment. An
alternative that spans dots, `(a|b.c)`, arrives as a token that opens it and one that closes it; one without a dot, `(a|b)`, is
a token of kind `group`, which the code takes for one that opens (`Behind` tells when what it collects already has its `)`).

The reference definition is `Glob`: a cut of the name into consecutive pieces,
one per part, where a star's piece is any number of segments and every other piece one segment that
the part matches.

### Query

`Query.tla` models one `Querier::query` on one stack graph, with the matcher of
each location: `StartingNodes` (`get_starting_nodes`), one `Traverse` per call of
`traverse_node`, `NothingFound` or `SomethingFound` when the walk is over, and for each
referenced file `SkipFile`, `SearchFile` (`search_nodes`) or `PanicInFile`; `Finish` returns.

| variables | in the code |
|---|---|
| `graph`, `search`, `location`, `sourceOnly` | the call: `self.graph`, `Search`, the `QueryType`, `SourceType::Source` |
| `roots`, `files` | `definition_root_nodes`; `referenced_files` not yet searched |
| `stack` | calls of `traverse_node` still to be made |
| `found` | the definitions in the maps of the matchers |
| `results`, `answer` | the nodes that are reported; how the call ended |

A graph is a record: of each node its file, syntax type and symbol, and the two kinds of
edges that the code tells apart, children (precedence 0) and FQDN edges (precedence 10). Beside the syntax types that the matchers look at there are
definitions of another (`other`: an argument, a generic name) and nodes that are neither definition nor reference (`plain`). `Shaped`
says what the builder and the XML analyser make: a class may hang below several namespaces, because two types of one XML file with the same simple name share a node.
Nodes and files are their handles, numbers, because the code takes the first by handle
wherever it has a choice. A symbol is the sequence of its dotted segments. A
pattern is given by what its three tests accept, which `SearchPattern` models.

- The matcher for all locations walks the tree four times, once per kind; here it is one
  walk that looks for all of them.
- `get_fqdn` on a reference panics (`query.rs:98`), which `PanicInFile` keeps as an outcome of the call.
  `Provider`'s fault `panic` is its effect on the service.
- The syntax tree between a class and a reference (method body, statements,
  expressions) is left out of the graphs for TLC: the walk passes such nodes without looking at them.

### Incidents

`Incidents.tla` goes on where `Query` ends: `Sort` (the order of `ResultNode` and the stable sort at the end of
`Querier::query`), `Respond` (`deduplicate_results` and the sort of `evaluate` by a formatted string) and
`GetCodeSnip`, which picks an incident of the answer and computes the window of lines. Each result is a node; `place` gives its
positions and `uri` the order of the files' names. The two are chosen at `Sort`, because nothing reads them before.
A sort key is what the code formats: the characters of the URI, a hyphen, the decimal digits of the line
number; so the lines of a file whose URI begins with that of another may come between those of the other.

### DependencyXml

`DependencyXml.tla` is the analyser of one XML documentation file: `ReadEvent`, `ReadError`, `ReadEof` are the rounds
of the reader's loop (`handle_member` splits a name into at most three symbols, innermost first), and
`BuildNamespace`, `BuildType`, `BuildMember`, `SkipMember`, `Finish` are the loop of `build_stack_graph_into`, one member
each, with `namespace_node_map` and `type_node_map`. A name is the sequence of its parts; what the code looks for inside a
part, `(`, `#` and `#ctor`, is given by constants. Edges carry their precedence, 0 downwards and 10 upwards.

### TargetFramework, Sdk, Packages

`TargetFramework.tla` has the pure part: the reader of project files as a function on events (`Reader`, `Chosen`),
`normalize`, `is_valid_base_tfm`, `to_channel`, the choice of the earliest moniker. A text is a sequence of numbers that
compare as its characters do, so that orders of strings are orders of sequences. A number has to fit into 32 bits, as `parse::<u32>` asks.

`Sdk.tla` is the SDK side of one init: `GetTools` (the request), `Detect` (the framework), `FindSdk`, `Install`,
then the detached task: `FindFiles`, `IndexFile`/`IndexFails`, `Indexed`, `OpenStore`, `StoreFile`,
`StoreMissing`, `StoreFails`, `Stored`, `Mark`. An input says what the request names, which projects the directory has, which SDKs
the machine has, and which files will be gone, broken or impossible to store.

`Packages.tla` extends it with the rest of the init: `Resolve` (the lines of `paket.dependencies` and the smallest framework among
them), `Join` (the SDK's task is awaited), `ListPackage` (the cache file of each package in turn, and a task for each XML file
that exists; `ChosenDlls` goes through its lines with `Scan`), `StoreRow`/`TaskFails` (the tasks, in any order) and `LoadGraph`. When a package has no cache file
the other tasks are dropped, and those under way may still store their row after the init has answered.

## 3. Runs

| run | instance | shows |
|---|---|---|
| `notify` | 1 init, 2 notifications (`<<a, b>>` and `<<a>>`), 2 evaluates, 2 files, 2 versions | what an answered call promises about versions: the refinement `ReadsStayFresh`, `ReadYourNotify`, `NotifyPublishes`, `GraphNeverRegresses`, `ServedGraphMatchesStore`, and for a first init `InitServesDisk` |
| `reinit` | 2 inits, 1 notification, 1 evaluate, failed validation, cancellation; fairness | the project is replaced under the other handlers: `NestedReadSafe`, `LanguageConfigReady`, freshness again, and `EveryRequestAnswered` |
| `failures` | 1 of each, all faults, a package, a project file and a C# file in the notification, the SDK loader in all its kinds, 1 crash; fairness | `LockDiscipline` and `TypeOK` over every early return, and `EveryRequestAnswered` although the init awaits its loader |
| `search` | every pattern of up to 4 tokens on every name of up to 4 segments over 2 names | `MatchIsGlob`, `GlobIsMatched`, `SymbolAgrees`, `PrefixAdmitted`, `PartPerKept`, `Decides`, `TypeOK` |
| `query` | 512 graphs of 16 nodes, 4 patterns, each location, with and without packages' files; 2 orders of the file names, 3 placements of the nodes | `FindsReachable`, `ResultsJustified`, `UsesFound`, `AnswerIsCanonical`, `SnippetShowsStart`, `TypeOK` |
| `xml` | every file of up to 4 events out of 16 | `MembersDeclared`, `MembersReachable`, `TreesClimb`, `TypeOK` |
| `sdk` | project files of up to 4 items; pairs of 12 monikers on 3 machines; 2304 requests; every way in which 3 files may be gone or broken; every cache file of up to 4 entries; 2 packages beside an SDK | `CountIsStored`, `PathMeansComplete`, `SdkServed`, `EarliestChosen`, `ReaderAgrees`, `PackagesServed`, `GraphHasStore`, `TypeOK` |
| `two_inits` | 2 concurrent inits | **violated**: `InitLoadsItsProject` |
| `stale_cache` | 2 inits in a row, 1 file, 2 versions | **violated**: `InitServesDisk` |
| `poisoned` | a panicking query, then a notification | **violated**: `NotifyPublishes` |
| `namespace_skipped` | patterns of up to 2, names of up to 3 | **violated**: `NamespaceAdmitted` |
| `sdk_bad_file` | the inputs of `sdk` | **violated**: `BadFileOnlyLosesItself` |

`query` and `notify` take between one and a half and two minutes with two workers, `reinit` and `failures` about one, the others less.
`notify` uses symmetry between its two evaluates, which differ in nothing but their names; it has no liveness property.
Elsewhere files are told apart by `Changed` and `Under`, and requests by what they ask.

Bounds and why they are enough:

- *Two versions of a file* (`MaxVer = 2`) are what it takes for stale and fresh to differ;
  a file can be edited once, before, between or after any two steps.
- *Two files* distinguish a notification that is in the middle of its list from
  one that is not; `notify` overlaps a list of two with a list of one on the same file.
- *Two evaluates* are what one needs to learn from the other's answer; *two inits* are what a replaced project needs.
- *One crash* (`MaxCrashes`) is enough since a crash resets all but the store, and the store after it is
  one the next init may meet anyway. After a crash the requests under way are lost and those not
  yet called still run.
- *Four tokens, four segments, two names*: a star, the part behind it, one more star and
  an end, which is every pair of branches in sequence; two names tell a match from a mismatch and,
  as sets, the four relations of a part to them.
- *Two libraries with a class each, and a program with an import, a class, a variable and a reference*
  (`query`): the two classes may have the same name, in the same namespace or in one below it; the program may
  be in a namespace of theirs; the variable may be called like a class, its type may be either class; and the program
  is loaded before or after the libraries. That gives each choice between candidates two sides. The
  patterns are `*`, `n.k.*`, a class and a method. The placements are: no two nodes on a line; lines 9 and 10 shared by many nodes of
  one span (so that the sort by text and the ties of the deduplication occur); nested spans that start on one line.
- *Four events* (`xml`, `MaxEvents`): a type, its member, a type of the same simple name elsewhere and its member, in
  every order, with events that are skipped or end the file between them.
- *Four items of a project file* (`sdk`): a group, an element that swallows its end, one more element, one more group. *Three files
  of an SDK, in two packs*: one indexed before the broken one, one after it. *Four lines of a cache file*, over a directory, one that begins like
  it, a higher one and one nested in that: every order of two directories and their DLLs. *Two packages*: one that stores rows while the other fails.

Deadlock is checked in the Provider runs: `Idle` is the only step of a server
with nothing to do, so any other stop is a deadlock. In the other runs it is
switched off, because a call ends when it returns.

Fairness: `FairSpec` (`reinit`, `failures`) assumes weak fairness of each handler that has been called, and of
each loader. tokio polls every task that can go on; tokio's mutex is first-come-first-served,
so a waiter's turn comes; the programs that an `init` starts (paket, dotnet-install) are
taken to end. Nothing is assumed about calls being made, edits, faults,
cancellation or crashes. `Decides` (`search`) assumes weak fairness of the loop itself.

Preconditions worth knowing:

- `ServedGraphMatchesStore` holds while no call on the project in place has broken off: a notification that ends with an error may have
  cleaned files without reloading (`csharp.rs:611`), and an init may end in the middle of its walk; both say so to their client.
- `InitServesDisk` holds for a first init without an SDK to load: an existing store always wins (finding 2 below), and rows that the SDK
  loader has stored before the graph is opened make the store a whole one.
- `NotifyPublishes` holds for lists that name no file twice (section 5) and while no query panics (`poisoned`).
- `LockDiscipline` and `EveryRequestAnswered` are checked with several inits, cancellation and failed validation in `reinit`, with one init and every fault in
  `failures`. Two inits that each start an SDK loader, or of which one meets the mutex that a query has poisoned, are in no run: with the other faults they are too many
  states. For the locks, `LocksHeld` covers them.
- `GlobIsMatched` is stated for patterns in which each part behind a star is
  followed by another star (`Forgiving`), or without a star before the end. For the others the walk
  is incomplete: it takes the first segment that the part behind a star matches and never
  goes back, so `*.a` rejects `a.a`, and `*.a.b` rejects `a.x.a.b`.
- `PartPerKept` says what the code makes of every pattern: the alternatives within one token, and what is read behind them up to the next that dots cut
  up, are lost. That nothing should be lost is false of the code (section 5).
- `MembersDeclared` and `MembersReachable` speak of every file, and of a member's own type and namespace where the types of that simple name are all in one
  namespace (`OneSpace`): the analyser files types by their simple name (`dependency_xml_analyzer.rs:182`, `:239`).
- `UsesFound` asks of the namespace of a member's full name that the pattern looks in it: of a class below several namespaces the code takes the first.
- `EarliestChosen` is about versions of one family whose numbers have one digit (`OneDigit`: behind the family's name a
  digit, a dot, a digit and so on, or digits alone): monikers are sorted as texts, and `net10.0` comes before `net6.0`.
- `ReaderAgrees` is about project files without empty elements, comments inside an element, and errors, in which an element that is
  not empty ends under its own name (`Plain`).
- `PackagesServed` takes it from `PaketAssumption` that a line of `paket.dependencies` names at most one framework, as paket writes it.
- `PackagesServed` is about cache files in which no directory's path begins with another's, and DLLs follow their
  directory (`Tidy`): `net40` and `net403`, or `net45` and `net45/de`, are told apart by a prefix only.
- `SnippetShowsStart` excludes the incidents of one line that lie behind the first `context_lines` lines: the window ends before the last line
  of the incident.

## 4. Proofs

For all values of the constants that satisfy the named assumptions: any number of
requests, files, packages, locations, versions, crashes, any set of faults; any patterns and names; any finite graph, with any places of its nodes; any XML
file; any machine and any set of SDK files.

| module | theorem | says |
|---|---|---|
| `ProviderProofs` | `LockTypes`, `AcquireKeeps`, `ReleaseKeeps`, `AbandonKeeps` | what the operations of the lock keep: its type, order, who is in it |
| | `TypeCorrect` | `Spec => []TypeOK` |
| `ProviderLockProofs` | `LocksHeld` | `Spec => []LockDiscipline` |
| | `NestedReadNeverBlocks` | `Spec => []NestedReadSafe` |
| | `UnwrapNeverFails` | `Spec => []LanguageConfigReady` |
| | `OnlyInitServesDisk` | `InitialisedOnce` (one init, no SDK to load) implies `Spec => InitServesDisk` |
| `ProviderFreshProofs` | `ReadsFollowNotifications` | `Reliable` implies `Spec => []ReadYourNotify` |
| | `AnswersStayFresh` | `Reliable` implies `Spec => ReadsStayFresh`, the refinement of `FreshReads` |
| | `GraphNeverGoesBack` | `Reliable` implies `Spec => GraphNeverRegresses` |
| | `NotificationsPublish` | `Reliable` and `NamesOnce` (no notification names a file twice) imply `Spec => NotifyPublishes` |
| | `GraphMatchesStore` | `Reliable` implies `Spec => []ServedGraphMatchesStore` |
| `SearchPatternProofs` | `TypeCorrect` | `Spec => []TypeOK` |
| | `MatchSound` | `Spec => []MatchIsGlob` |
| | `OwnNameFirst` | `Spec => []SymbolAgrees` |
| | `MatchComplete` | `Spec => []GlobIsMatched` |
| | `PrefixPatternsLoseNothing` | `Spec => []PrefixAdmitted` |
| | `PartsOfElements` | `Spec => []PartPerKept` |
| `QueryProofs` | `TypeCorrect` | `Spec => []TypeOK` |
| | `WalkCorrect` | `Spec => []WalkIsWhole` |
| | `FindsAll` | `Spec => []FindsReachable` |
| | `ResultsCorrect` | `Spec => []ResultsJustified` |
| | `UsesCorrect` | `Spec => []UsesFound` |
| | `AnswerIsRight` | `ISpec => []AnswerIsCanonical` |
| | `SnippetIsRight` | `ISpec => []SnippetShowsStart` |
| `DependencyXmlProofs` | `TypeCorrect` | `Spec => []TypeOK` |
| | `GraphClimbs` | `Spec => []TreesClimb` |
| | `NothingLost` | `Spec => []MembersReachable` |
| | `NothingMixed` | `Spec => []MembersDeclared` |
| `SdkProofs` | `TypeCorrect` | `Spec => []TypeOK` |
| | `AnswerIsTrue` | `Spec => []CountIsStored` |
| | `PathIsEarned` | `Spec => []PathMeansComplete` |
| | `SdkIsServed` | `Spec => []SdkServed` |
| | `LowestIsChosen` | `Spec => []EarliestChosen` |
| | `ReaderIsRight` | `Spec => []ReaderAgrees` |
| | `GraphIsOfStore` | `PSpec => []GraphHasStore` |
| | `PackagesAreServed` | `PSpec => []PackagesServed` |

Assumptions, each named in the module that declares the constants:
`RequestsDistinct`, `ConstantTypes`, `NoProjectIsNone`, `RowsDistinct`, `NoGraphIsNone`, `PatternTypes`, `Handles`, `GraphTypes`, `GraphShapes`,
`PlaceAssumption`, `XmlAssumption`, `InputAssumption`, `PaketAssumption`. TLC evaluates them in every run of a module that extends theirs.

*Types of Provider.* `TypeOK` is not inductive: `graph[cur[t]]` and
`todo[n]`'s head only make sense at the lines where a project has been bound and the
list is not empty. `Engaged` says so (who is past `InitBind`, `NotifyStart` or `EvalStart` has a
project; who is at `clean` or `store` has a file left); `TypeOK /\ Engaged`
is preserved by each action, by groups: `InitStepTypes`, `GraphStepTypes`, ..., `OtherStepTypes`.

*Locks.* `LockDiscipline` is inductive over `TypeOK /\ Engaged`. Its two halves need
each other: `Exclusion` (who is past a lock owns it) says that a release releases one's own lock,
`NothingLeftBehind` (who owns or queues is at a line where it may) says that whoever a
release hands the lock to is waiting for it. `Moves` collects what each
operation does to owners and waiters. `NestedReadSafe` follows from `LockDiscipline`
alone: a reader and a queued writer of one project's configuration would both own the project lock.
`LanguageConfigReady` needs an induction of its own over it, because the write and the reads are of
different handlers.

*The only init.* `InitServesDisk` is false of a second init and of one that meets an SDK's rows, so its theorem
assumes `InitialisedOnce`; any faults, crashes, edits and other calls are allowed. The invariant `OnlyInv` has three parts. `OnlyCall`: the language
configuration is set only once the init is past `InitValidate`, and its files are at least as new on the disk as when it was called. `Undisturbed`: until the
init is answered no notification or evaluate gets behind the check for that configuration, because it would own the project lock (`OnlyOne`, from
`LockDiscipline`); so the store has no live row before the walk, the graph is not poisoned, and the walk is not skipped. `Indexing`: each
file that nobody has edited since the call is still to be visited or is in the store and in the graph of the walk; behind the walk it is in the graph of the project and in
the store, which `InitLoad` reads back. The steps of others are put aside by one lemma (`OthersKeep`), the init's own go by phase.

*Freshness.* The five theorems of `ProviderFreshProofs` assume `Reliable`: the faults `db` and `panic` do not happen. Without it they are false, for reasons the code has:
a store that refuses a row leaves the file out of what is published while the notification answers success (`csharp.rs:632`), and a poisoned graph is skipped
(`project.rs:330`). Everything else may happen: inits that replace the project, files that do not build, failed validation, cancellation,
crashes. The invariant `FreshInv` orders the versions of a file: on the disk they are at least as new as in the store (`StoreBound`), there as what a client has been told
(`acked`), and that as what an evaluate was told before its call (`known`). `SnapCurrent` says that what a handler is about to publish is no older
than the store; it holds because whoever may publish owns the project lock and works on the project in place (`ProjectKept`, from `LockDiscipline`),
so nobody else writes sources into the store meanwhile. `GraphCurrent` says the same of the graph in place, and that no graph is too old for an evaluate that is about to answer
from it: a project that was replaced keeps its graph, which is why an evaluate that still holds it sees what was known when it was called. The refinement
`ViewStep` goes through the actions once more: each is an `Edit`, `Acknowledge`, `Call`, `Answer`, `Fail` or a stutter of `FreshReads`.

`GraphNeverRegresses` says more than that: a file that the graph does not show may come to be shown, and then the
version its row had must not be newer. `BehindInv` adds what that needs: the store has live rows only once it has its tables (`StoreReady`), so a walk,
which begins when the store has no source of the project, publishes exactly the rows it stores, and a swap the rows it has read (`SnapTaken`); and the graph in place is not
ahead of a live row (`PlaceBehind`), because a row becomes live with the version on the disk. `NotifyPublishes` needs `ListInv` besides: a
notification has not read what is left of its list (`ListLeft`), and what it has read, and nobody has edited since, is live in the store (`ListStored`).
That is where `NamesOnce` comes in: a file that the list names twice is cleaned twice and stored once (`loader.rs:224`).

`ServedGraphMatchesStore` speaks of moments when no handler is at work. Its invariant, `AgreeInv`, holds at all times: the graph in place
agrees with the store, or somebody who changes the store (`Changing`) is still to put it in place, or has broken off (`BrokenOff`). `WritersGoOn` follows
such a handler through its steps: it goes on, breaks off, or swaps the store it has written into place (`SwapPutsStore`).

*Patterns.* The strengthening of `MatchIsGlob` is `Reached`: the parts before `partIndex` have a cut that takes the
segments before `symbolIndex`, where a star at `partIndex` may already have taken some (`Reach`). It is needed because
"yes" is given at the end of the walk, for choices that its steps have made. `ReachStart`, `ReachPart`, `ReachStar`,
`ReachBehindStar` extend the cut by one step; `GlobAtEnd` and `GlobAtStar` close it when the walk says yes. The other direction, `MatchComplete`, is about a walk that
takes, for the part behind a star, the first segment that fits and never goes back: its invariant `StillAhead` says that, if the name
matches at all, the parts that are left have a cut that takes the segments that are left (`Ahead`). It survives a star because behind the part after it a
forgiving pattern has another star, which takes what the first fitting segment leaves over (`AheadBehindStar`). `PartsOfElements` follows
the loop of `create_search` (`ParseInv`): the parts made so far are those of the elements kept so far (`Listed`), and what is carried from token to
token is the open alternative, if there is one (`Carried`). For
`PrefixAdmitted` the invariant is `Straight`: without a star before the end both indices advance together.

*Query.* The walk's invariant is `Behind(C)`: some set `C` of nodes has been walked, whose children and whose roots are
in `C` or on the stack, `found` is what matches in `C`, and every set that holds the roots and is closed
under children holds `C` and the stack. When the stack is empty `C` is the tree below the roots, as the least
closed set. `FindsAll` relates that to the tree of `FindsReachable`, which is built level by level: `EveryNumber` is induction over a set of numbers, by its
least counterexample, `Iterated` says that a function defined by recursion over the levels exists and obeys its equation, and `BelowIsTree` that the union of the levels is that
least set. Neither theorem assumes that a graph is a tree, nor that it comes from C#.

`ResultsJustified` needs that the name `select_best_fqdn` takes is a
candidate's: `FirstOf` and `FirstTriple` say that a set of handles, or of the triples that order the
candidates, has a first element, by well-foundedness. `UsesFound` asks more: that nothing displaces the use in question. `FqdnOfOwner` gives the recursion of `get_fqdn` a result,
by a smallest node that has none; `Standing` relates a
definition that was found to the namespace and the class its full name has, `MemberElsewhere` says that the walk has found no other definition in the file that takes part, and `FilesGone` that a
file whose turn is over has left its reports. This needs `GraphShapes`: an edge down is reversed by an FQDN edge and there are no others, a member has one owner, a class may stand in several namespaces. For C# files the rules of
`stack-graphs.tsg:101-150` add each `fqdn_edge` beside the edge down that it reverses; for XML files it is what `TreesClimb` says, which `GraphClimbs` proves.

*Incidents.* The answer is a list in an order, and each order is one of texts: `InOrderLists` says that the list of a set in an order has each element
once and sorted, `SortedBy` and `LessIsLex` reduce the three orders of the code to the lexicographic one. What is printed of a line number orders
and tells apart as its digits do: `DigitsDiffer` says that different numbers have different digits. `Kept` is the invariant of
`deduplicate_results`: after the first `k` results the map has one entry for each key among them, the tightest, and of equally tight ones the first; `BestAreKept` carries
it through the fold, `DeduplicatedAreTightest` reads the result off. `Answering` says what each of the three steps has come to; no step of `Query`
disturbs it, because the walk has ended (`AnsweredStays`).

*XML files.* The inductive invariant says that each name in the two maps leads to a node with that symbol (`TypeOK`), that each namespace hangs on
the unit, each type on a namespace and each member on one type only, that the members that have been built can be reached, and that each edge comes from
a declaration: one of a type of that name in that namespace, one of a member in a type of that name. Where the types of a name are all in one namespace (`OneSpace`) the two are one. `HandleMember` bounds what one member's name may give, by cases on its kind. The steps that add nodes (`Namespace`, `Type`, `Member`) share the lemmas about what an
extension of the node list leaves as it was (`...Stays`).

*SDK and packages.* `CountIsStored` needs that each counted file is noted (`Counted`: `count = Cardinality(tags)`), and that no step of the store may be passed over
(`Accounted`, `Settled`). `GraphHasStore` needs that an SDK that was loaded can be found again unless it has no file (`Found`), and that the graph is read back
when the SDK's task has ended, which takes no step any more, and no package's task is left (`ReadLast`).

`SdkIsServed` follows an init that nothing disturbs (`Calm`) through its phases: `OnCourse` says what it has come to in each, from the request over the framework and the
directory that was found or installed to the files in the store. It uses that the framework in use is in the project files and first among them
(`EarliestIsFirst`), and that one that the property speaks of passes the tests for modern ones (`ServedIsModern`). For `LowestIsChosen`,
`VersionOfDigits` says what the code reads out of a moniker with one digit at each place, and `DotsKeepOrder` that the texts then compare as those numbers do.
`ReaderIsRight` is an induction over the events (`ReaderRounds`): `Faithful` says that the reader, wherever it stands, knows whether it is in a property group and has the last text of each of the two
elements it asks for; it survives the step over the event behind an element because that is its text or its end.

`PackagesAreServed` has two halves. `Scanned` is the invariant of the scan of a cache file: after `k` entries the reader has the highest directory
that is allowed so far and the DLLs in it, which in a `Tidy` file is read off their prefixes (`ChosenAreBest`). `Listing` follows the packages: the files of each are in a task, in
the store, or the package is still to be listed, or something has failed and nothing is served. That the restriction is the lowest one is `SmallestIsText`.

Every invariant and action property that a run checks is proved, the freshness of `Provider` under `Reliable` and `InitServesDisk` under
`InitialisedOnce`. Only model-checked: liveness (`EveryRequestAnswered`, `Decides`), which needs fairness and ENABLED, out of the prover's reach.

## 5. What the model shows about the code

1. **Concurrent inits work on one project** (`two_inits`). `init` drops the project lock between
   `csharp.rs:123` and `:125`. Two inits that interleave there both work on the second project; the
   first answers `successful: true` for a project that has no graph.
2. **An existing store always wins** (`stale_cache`). A second `init` serves the old version of an edited
   file; `docs/architecture.md:326-329` says that modified files and a changed location trigger a rebuild.
3. **A poisoned graph is skipped silently** (`poisoned`). A notification that comes between a query that panicked and
   the next `evaluate` answers success without publishing anything.
4. **`*.X` never finds a class of a namespace with two or more segments** (`namespace_skipped`).
   `partial_namespace` lets a leading star stand for one segment, `match_namespace` for any number.
   `rulesets/dotnet-core-migration/03-entity-framework-migration.yaml:79` asks for `*.DbSet`.
5. **One bad XML file loses the files indexed before it** (`sdk_bad_file`). The loader goes on with an empty graph
   (`dependency_resolution.rs:790`), but the earlier files are still in `combined_file_to_tag`, so `get_file` fails for the first of them (`:828-830`) and
   nothing more is stored. The answer is an error, never a wrong number (`CountIsStored`).

Met while modelling, without a run of their own:

- *A partial store counts as whole* (`project.rs:303`): the return of finding 2 again. An `init` of `home/sub` followed by one of `home` leaves the
  rest of `home` out; so does one after a walk that broke off, by a crash (`loader.rs:310`) or at a file that could not be built (`:321`), and one whose SDK loader has
  stored rows before `get_project_graph` looks at the store. `InitServesDisk` fails in each case.
- *A file that is notified twice in one call is lost.* It is cleaned twice and stored once, because the new graph refuses it the second
  time (`loader.rs:224`); the notification answers success, against `NotifyPublishes`.
- *One package that fails keeps the others out of the graph.* `init` ignores the result of `load_to_database` (`csharp.rs:284`, `dependency_resolution.rs:413`, `:503`): what
  was stored is not read back, and the next `init` takes it for a whole store.
- *An alternative without a dot is dropped.* `create_search` does not look for `)` in a token that
  has `(` (`query.rs:984`), so `(a|b)` yields no part, nor do the tokens behind it; `rulesets/dotnet-core-migration/06-advanced-runtime-migration.yaml:302` has
  such a token. `PartPerKept` says what is left.
- *A star gives up at the first segment that fits*: `*.a` does not match `a.a` (`query.rs:1056`).
- *Types of one simple name share a node.* In an XML file with two such types, in different namespaces or nested in different types, the members
  of one stand below the other and get its full name (`dependency_xml_analyzer.rs:182`, `:239`, against the comment at `:115-117`). `MembersDeclared` says so much and no more.
- *`net10.0` is taken for the earliest framework*, because monikers are sorted as texts (`target_framework.rs:411`), *and for an old one*,
  because it begins like `net1` (`csharp.rs:151-160`): no SDK is looked for.
- *An init that fails leaves rows that are not served* (`project.rs:327`). Of two inits that work on one project (finding 1) one may put an empty graph in
  place while the other's walk has stored its first files; when that walk fails, its rows stay in the store and the graph has none of them.
- A notification whose `clean_file` fails answers an error, but the files that it has stored before are not in the graph until the next one (`csharp.rs:611`).
- The comment above `select_best_fqdn` (`query.rs:493-497`) promises a partial match of the imports and, failing that, the
  first candidate. The code takes an exact import or nothing: `Fitting` has no other case.
- A variable named like its type (`Color Color = Red`) and an access `Color.Red` make `get_fqdn` panic
  (`query.rs:98`): the run `query` reaches `PanicInFile` with a variable called like a class.
- The parameters of an indexer (`P:A.B.Item(System.Int32)`) are cut at their dots, because only a method's name is cut at `(`.
- The reader of project files drops the event after a `TargetFramework` element when it is no text: the end of a property group may be lost that way.
- `get_sdk_path` falls back to the place where the script would install (`project.rs:139`) also when the loader failed: a later notification then reads what
  there is of that SDK. An SDK that the detector accepts and in which the loader finds no XML file is taken for loaded, without a file.
- The snippet of an incident of one line behind the first `context_lines` lines ends before that line (`code_snip.rs:79-83`); the expected output of the demo has it so.
- The tasks under way when one package fails may write rows after the `init` has answered (`dependency_resolution.rs:413`).
- A directory such as `net45/de`, nested in the highest one that is allowed, hides that one's own DLLs (`dependency_resolution.rs:145-153`). A line of
  `paket.dependencies` with fewer than four words before `restriction:` is no package (`:618`).

What holds: the two locks are never left behind, nor is any handler past one it does not own; the nested read
cannot deadlock; the `expect` on the language configuration cannot fire; every call is answered; and as long as no
query panics, a client that had its notification answered sees its change from then on. A query that
returns has found all definitions that match below the namespaces it looks at, and reports each plain use of them
that its file's imports make unambiguous, and no reference without such an import.

## 6. Not modelled

- *How the graph of a C# file is built* by tree-sitter and `stack-graphs.tsg`, and its line numbers. `Query` takes any graph of the
  shape that those rules give it (`GraphShapes`); Provider treats a query as one step that reads the graph.
- *Symbol handles* of the stack-graphs library, and with them whether a graph loaded from the store takes the right files for source (`query.rs:855`): `Query` is
  given the files that are taken for source.
- *The full analysis mode*: the decompilation with ILSpy and the loading of decompiled sources, which no `init` reaches.
- *Conversions*: conditions from YAML, results to JSON and protocol buffers, template variables.
- *Server start-up, transports, command line, generated code, logging*: input and output only.
- *Language configuration and `stack-graphs.tsg`*: an immutable table; Provider keeps whether it has been set.

## 7. What is left

1. `SymbolHandles`: how handles depend on the order in which rows are loaded, and what a file's `SourceType`
   node then compares equal to (`query.rs:855`).
2. `Query` composed with `SearchPattern`'s operators in place of the three sets of a search, so that finding 4 is about the answer.
3. Provider's SDK row opened up: `Sdk` and `Packages` shown to implement `SdkOpen` ... `SdkMark` and `InitDeps`, `InitLoad`.
4. Theorems: the refinement of item 3; the hypotheses `Reliable` and `InitialisedOnce`
   weakened to what each property needs (a `panic` without a notification, say, or a second init whose walk did not break off).
