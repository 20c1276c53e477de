------------------------------ MODULE Provider ------------------------------
(***************************************************************************)
(* The gRPC service of src/provider/csharp.rs at the grain of its locks,   *)
(* awaits and SQLite transactions.  Every init, evaluate and               *)
(* notify_file_changes call is a request that runs once, concurrently with *)
(* the others; the SDK loader an init spawns is a task of its own.         *)
(*                                                                         *)
(* An init creates a Project, so a project is named by its init.  A row of *)
(* the SQLite store, and of the graph loaded from it, carries the version  *)
(* of the file that was last examined for it and whether it holds the      *)
(* file's nodes: cleaning a file, or failing to rebuild it, leaves a row   *)
(* that is not live.  The rest of a file's content is abstracted away.     *)
(***************************************************************************)
EXTENDS Naturals, Sequences, FiniteSets, FifoMutex

CONSTANTS
    Inits, Evals, Notifies,  \* the requests of one run
    Sources,                 \* .cs files
    Deps,                    \* XML files of NuGet packages, under a location
    Sdk,                     \* the XML files of the .NET SDK, as one row
    Locations, Under,        \* Under[l]: the Sources and Deps below directory l
    InitLoc,                 \* InitLoc[i]: Config.location of init i
    ProjectFiles,            \* .csproj files
    Changed,                 \* Changed[n]: the .cs and .csproj files notification n lists
    SdkKinds,                \* what SDK detection may find, see InitBind
    SdkInTemp,               \* is the SDK at temp_dir/dotnet-sdks/<tfm>?
    Faults,                  \* the failures that may happen
    MaxVer, MaxCrashes,      \* bounds on edits of one file, and on crashes
    NoProject, NoGraph

Task == Inits \cup Evals \cup Notifies
Row  == Sources \cup Deps \cup {Sdk}

ASSUME RequestsDistinct ==
    /\ Inits \cap Evals = {} /\ Inits \cap Notifies = {} /\ Evals \cap Notifies = {}
    /\ Nobody \notin Task
ASSUME ConstantTypes ==
    /\ Under \in [Locations -> SUBSET (Sources \cup Deps)]
    /\ InitLoc \in [Inits -> Locations]
    /\ Changed \in [Notifies -> Seq(Sources \cup ProjectFiles)]
    /\ SdkKinds \subseteq {"none", "tfm", "sdk"} /\ SdkKinds # {}
    /\ SdkInTemp \in BOOLEAN
    /\ MaxVer \in Nat \ {0} /\ MaxCrashes \in Nat
ASSUME NoProjectIsNone == NoProject \notin Inits
ASSUME RowsDistinct    ==
    /\ Sdk \notin Sources \cup Deps /\ Sources \cap Deps = {}
    /\ ProjectFiles \cap Row = {}

Version == 0..MaxVer
RowVal  == [ver : Version, live : BOOLEAN]
Rows    == [Row -> RowVal]
ASSUME NoGraphIsNone == NoGraph \notin Rows

Content == [ver : 1..MaxVer, st : {"ok", "absent", "broken"}]

VARIABLES
    \* requests
    pc,        \* where each request is
    resp,      \* what it answered
    cur,       \* the project it works on
    todo,      \* files a notification has still to refresh
    files,     \* notification: files in its new StackGraph; walk: files to visit
    snap,      \* rows in the graph it is about to publish, or answered from
    \* CSharpProvider
    config, cfgLock, project, projLock,
    \* Project
    lcSet, lcReaders, lcWriters,   \* source_language_config and its RwLock
    graph, gLock, poisoned,        \* graph and its std Mutex
    sdkPath,   \* get_sdk_path: unset, from the target framework, or explicit
    deps,      \* dependencies: did resolve find any?
    \* the SDK loader task of each init
    sdkPc,
    \* SQLite, and the files on disk
    dbFile, db, disk,
    crashes,
    \* what clients may rely on: the versions that answered notifications have
    \* read and answered evaluates have shown, and for each request the versions
    \* it must reach (an init those on disk when it was called, a notification
    \* those it has read, an evaluate those acknowledged when it was called)
    acked, known

reqVars   == <<pc, resp, cur>>
workVars  == <<todo, files, snap>>
provVars  == <<config, cfgLock, project, projLock>>
lcVars    == <<lcSet, lcReaders, lcWriters>>
graphVars == <<graph, gLock, poisoned>>
pathVars  == <<sdkPath, deps>>
storeVars == <<dbFile, db>>
envVars   == <<disk, crashes>>
ackVars   == <<acked, known>>
vars == <<reqVars, workVars, provVars, lcVars, graphVars, pathVars, sdkPc,
          storeVars, envVars, ackVars>>

InitLabels   == {"config", "project", "unlock", "relock", "bind", "validate",
                 "resolve", "join", "deps", "load"}
NotifyLabels == {"nOpen", "nSchema", "clean", "store"}
EvalLabels   == {"graph", "query"}
GraphLabels  == {"open", "swap", "walkGuard", "walkOpen", "walkSchema", "walk"}
Labels == InitLabels \cup NotifyLabels \cup EvalLabels \cup GraphLabels
             \cup {"idle", "wait", "type", "done"}

RequestTypes ==
    /\ pc \in [Task -> Labels]
    /\ resp \in [Task -> {"none", "ok", "error", "panic", "cancelled", "lost"}]
    /\ cur \in [Task -> Inits \cup {NoProject}]
WorkTypes ==
    /\ todo \in [Notifies -> Seq(Sources \cup ProjectFiles)]
    /\ files \in [Task -> SUBSET Sources]
    /\ snap \in [Task -> Rows]
ProviderTypes ==
    /\ config \in Inits \cup {NoProject} /\ project \in Inits \cup {NoProject}
    /\ cfgLock \in Mutex(Task) /\ projLock \in Mutex(Task)
ConfigTypes ==
    /\ lcSet \in [Inits -> BOOLEAN]
    /\ lcReaders \in [Inits -> SUBSET Task] /\ lcWriters \in [Inits -> SUBSET Task]
GraphTypes ==
    /\ graph \in [Inits -> Rows \cup {NoGraph}]
    /\ gLock \in [Inits -> Task \cup {Nobody}] /\ poisoned \in [Inits -> BOOLEAN]
PathTypes ==
    /\ sdkPath \in [Inits -> {"unset", "tfm", "set"}]
    /\ deps \in [Inits -> {"none", "some"}]
LoaderTypes == sdkPc \in [Inits -> {"none", "open", "schema", "store", "mark", "done"}]
StoreTypes  == dbFile \in {"none", "empty", "ready"} /\ db \in Rows
EnvTypes    == disk \in [Sources -> Content] /\ crashes \in 0..MaxCrashes
AckTypes ==
    /\ acked \in [Sources -> Version]
    /\ known \in [Task -> [Sources -> Version]]
TypeOK ==
    /\ RequestTypes /\ WorkTypes /\ ProviderTypes /\ ConfigTypes /\ GraphTypes
    /\ PathTypes /\ LoaderTypes /\ StoreTypes /\ EnvTypes /\ AckTypes

Blank == [r \in Row |-> [ver |-> 0, live |-> FALSE]]
NoVersions == [f \in Sources |-> 0]

\* The memory of a process that has just started: main.rs makes one provider,
\* CSharpProvider::new and Project::new leave everything empty and unlocked.
Fresh ==
    /\ config = NoProject /\ project = NoProject
    /\ cfgLock = Unlocked /\ projLock = Unlocked
    /\ lcSet = [i \in Inits |-> FALSE]
    /\ lcReaders = [i \in Inits |-> {}] /\ lcWriters = [i \in Inits |-> {}]
    /\ graph = [i \in Inits |-> NoGraph]
    /\ gLock = [i \in Inits |-> Nobody] /\ poisoned = [i \in Inits |-> FALSE]
    /\ sdkPath = [i \in Inits |-> "unset"] /\ deps = [i \in Inits |-> "none"]

Init ==
    /\ pc = [t \in Task |-> "idle"] /\ resp = [t \in Task |-> "none"]
    /\ cur = [t \in Task |-> NoProject]
    /\ todo = Changed /\ files = [t \in Task |-> {}] /\ snap = [t \in Task |-> Blank]
    /\ Fresh
    /\ sdkPc = [i \in Inits |-> "none"]
    /\ dbFile = "none" /\ db = Blank
    /\ disk \in [Sources -> [ver : {1}, st : {"ok", "absent"}]]
    /\ crashes = 0
    /\ acked = NoVersions /\ known = [t \in Task |-> NoVersions]

-----------------------------------------------------------------------------
(* Steps that handlers share *)

Go(t, label) == pc' = [pc EXCEPT ![t] = label] /\ UNCHANGED resp

Reply(t, answer) ==
    /\ pc' = [pc EXCEPT ![t] = "done"]
    /\ resp' = [resp EXCEPT ![t] = answer]

\* Returning drops the project guard and a read guard on the language config.
Finish(t, answer) ==
    /\ Reply(t, answer)
    /\ projLock' = Release(projLock)
    /\ lcReaders' = [p \in Inits |-> lcReaders[p] \ {t}]

May(fault) == fault \in Faults

\* get_sdk_path(): the explicit path, else the one derived from the framework.
SdkVisible(p) == sdkPath[p] = "set" \/ (sdkPath[p] = "tfm" /\ SdkInTemp)

\* load_graphs_for_file_or_directory of the location, then of the SDK path.
Load(p) ==
    [r \in Row |-> IF r \in Under[InitLoc[p]] \/ (r = Sdk /\ SdkVisible(p))
                   THEN db[r] ELSE Blank[r]]

\* "graph.iter_symbols().count() == 0"
NoSymbols(rows) == \A r \in Row : ~rows[r].live

\* SQLiteWriter::open: a new file is created first and given its tables next;
\* one that exists without tables is refused.
CreateFile == dbFile = "none" /\ dbFile' = "empty" /\ UNCHANGED db
CreateTables == dbFile' = "ready" /\ UNCHANGED db
OpenReady  == dbFile = "ready" /\ UNCHANGED storeVars
OpenFails  == (dbFile = "empty" \/ May("db")) /\ UNCHANGED storeVars

-----------------------------------------------------------------------------
(* init *)

InitCall(i) ==
    /\ pc[i] = "idle"
    /\ Go(i, "config") /\ cfgLock' = Acquire(cfgLock, i)
    /\ known' = [known EXCEPT ![i] = [f \in Sources |-> disk[f].ver]]
    /\ UNCHANGED <<cur, workVars, config, project, projLock, lcVars, graphVars,
                   pathVars, sdkPc, storeVars, envVars, acked>>

\* Save the configuration; reject full mode and missing tools.
InitConfig(i) ==
    /\ pc[i] = "config" /\ cfgLock.owner = i
    /\ config' = i
    /\ \/ May("config") /\ Reply(i, "error") /\ cfgLock' = Release(cfgLock)
          /\ UNCHANGED projLock
       \/ Go(i, "project") /\ projLock' = Acquire(projLock, i) /\ UNCHANGED cfgLock
    /\ UNCHANGED <<cur, workVars, project, lcVars, graphVars, pathVars, sdkPc,
                   storeVars, envVars, ackVars>>

\* Mutant of InitReplace: the project guard is not dropped before the second lock.
InitReplaceKeepsGuard(i) ==
    /\ pc[i] = "project" /\ projLock.owner = i
    /\ Go(i, "unlock") /\ project' = i
    /\ UNCHANGED <<cur, workVars, config, cfgLock, projLock, lcVars, graphVars, pathVars,
                   sdkPc, storeVars, envVars, ackVars>>

\* Put the new Project in place and let go of the project lock ...
InitReplace(i) ==
    /\ pc[i] = "project" /\ projLock.owner = i
    /\ Go(i, "unlock") /\ project' = i /\ projLock' = Release(projLock)
    /\ UNCHANGED <<cur, workVars, config, cfgLock, lcVars, graphVars, pathVars,
                   sdkPc, storeVars, envVars, ackVars>>

\* ... then of the config lock ...
InitUnlock(i) ==
    /\ pc[i] = "unlock"
    /\ Go(i, "relock") /\ cfgLock' = Release(cfgLock)
    /\ UNCHANGED <<cur, workVars, config, project, projLock, lcVars, graphVars,
                   pathVars, sdkPc, storeVars, envVars, ackVars>>

\* ... and ask for the project lock again.
InitRelock(i) ==
    /\ pc[i] = "relock"
    /\ Go(i, "bind") /\ projLock' = Acquire(projLock, i)
    /\ UNCHANGED <<cur, workVars, config, cfgLock, project, lcVars, graphVars,
                   pathVars, sdkPc, storeVars, envVars, ackVars>>

\* Work on whatever project is in place now; detect its target framework, start
\* the SDK loader when there is an SDK ("sdk"; "tfm": a framework but no SDK to
\* load), build a language configuration and queue for the write lock on it.
InitBind(i) ==
    /\ pc[i] = "bind" /\ projLock.owner = i
    /\ IF project = NoProject
       THEN Finish(i, "error") /\ UNCHANGED <<cur, lcWriters, sdkPath, sdkPc>>
       ELSE /\ cur' = [cur EXCEPT ![i] = project]
            /\ \E kind \in SdkKinds :
                  /\ sdkPath' = IF kind # "none" /\ sdkPath[project] = "unset"
                                THEN [sdkPath EXCEPT ![project] = "tfm"] ELSE sdkPath
                  /\ sdkPc' = IF kind = "sdk" THEN [sdkPc EXCEPT ![i] = "open"] ELSE sdkPc
            /\ \/ May("validate") /\ Finish(i, "error") /\ UNCHANGED lcWriters
               \/ Go(i, "validate") /\ UNCHANGED <<projLock, lcReaders>>
                  /\ lcWriters' = [lcWriters EXCEPT ![project] = @ \cup {i}]
    /\ UNCHANGED <<workVars, config, cfgLock, project, lcSet, graphVars, deps,
                   storeVars, envVars, ackVars>>

InitValidate(i) ==
    /\ pc[i] = "validate" /\ lcReaders[cur[i]] = {}
    /\ Go(i, "open")
    /\ lcSet' = [lcSet EXCEPT ![cur[i]] = TRUE]
    /\ lcWriters' = [lcWriters EXCEPT ![cur[i]] = @ \ {i}]
    /\ UNCHANGED <<cur, workVars, provVars, lcReaders, graphVars, pathVars, sdkPc,
                   storeVars, envVars, ackVars>>

\* resolve(): paket and its files; the graph is already in place.
InitResolve(i) ==
    /\ pc[i] = "resolve"
    /\ \/ May("resolve") /\ Finish(i, "error") /\ UNCHANGED deps
       \/ \E found \in {"none", "some"} :
             deps' = [deps EXCEPT ![cur[i]] = found]
          /\ Go(i, "join") /\ UNCHANGED <<projLock, lcReaders>>
    /\ UNCHANGED <<cur, workVars, config, cfgLock, project, lcSet, lcWriters, graphVars,
                   sdkPath, sdkPc, storeVars, envVars, ackVars>>

\* Mutant of InitJoin: a loader is awaited that may not have been started.
InitJoinAlways(i) ==
    /\ pc[i] = "join" /\ sdkPc[i] = "done"
    /\ Go(i, "deps")
    /\ UNCHANGED <<cur, workVars, provVars, lcVars, graphVars, pathVars, sdkPc,
                   storeVars, envVars, ackVars>>

\* Await the SDK loader this init spawned; its failure is only logged.
InitJoin(i) ==
    /\ pc[i] = "join" /\ sdkPc[i] \in {"none", "done"}
    /\ Go(i, "deps")
    /\ UNCHANGED <<cur, workVars, provVars, lcVars, graphVars, pathVars, sdkPc,
                   storeVars, envVars, ackVars>>

StoreDeps(rows) == [r \in Row |-> IF r \in rows THEN [ver |-> 1, live |-> TRUE] ELSE db[r]]

\* load_to_database: one task per package stores its rows.  When one fails, or a
\* package has no cache file, others may have stored theirs; init logs the error and
\* answers success.
InitDeps(i) ==
    LET found == IF deps[cur[i]] = "some" THEN Deps \cap Under[InitLoc[cur[i]]] ELSE {}
    IN  /\ pc[i] = "deps"
        /\ \/ Go(i, "load") /\ db' = StoreDeps(found) /\ UNCHANGED <<projLock, lcReaders>>
           \/ /\ deps[cur[i]] = "some"
              /\ \E stored \in SUBSET found : db' = StoreDeps(stored)
              /\ \/ May("deps") /\ Finish(i, "ok")
                 \/ May("cancel") /\ Finish(i, "cancelled")
        /\ UNCHANGED <<cur, workVars, config, cfgLock, project, lcSet, lcWriters, graphVars,
                       pathVars, sdkPc, dbFile, envVars, ackVars>>

\* Read everything back under the graph lock; "expect" panics on a poisoned one.
InitLoad(i) ==
    LET p == cur[i]
    IN  /\ pc[i] = "load" /\ gLock[p] = Nobody
        /\ \/ poisoned[p] /\ Finish(i, "panic") /\ UNCHANGED graph
           \/ ~poisoned[p] /\ May("db") /\ Finish(i, "ok") /\ UNCHANGED graph
           \/ ~poisoned[p] /\ Finish(i, "ok") /\ graph' = [graph EXCEPT ![p] = Load(p)]
        /\ UNCHANGED <<cur, workVars, config, cfgLock, project, lcSet, lcWriters, gLock,
                       poisoned, pathVars, sdkPc, storeVars, envVars, ackVars>>

-----------------------------------------------------------------------------
(* Project::get_project_graph, called by init and by a notification *)

\* Its Ok: an init goes on to resolve, a notification answers success, and what
\* it read is from now on acknowledged.
GraphOk(t) ==
    IF t \in Inits
    THEN /\ Go(t, "resolve") /\ UNCHANGED <<projLock, acked>>
         /\ lcReaders' = [p \in Inits |-> lcReaders[p] \ {t}]
    ELSE /\ Finish(t, "ok")
         /\ acked' = [f \in Sources |-> IF known[t][f] > acked[f] THEN known[t][f]
                                                                 ELSE acked[f]]

GraphErr(t) == Finish(t, "error") /\ UNCHANGED acked

\* An existing store is read, whatever has changed on disk since it was written.
GraphOpen(t) ==
    /\ pc[t] = "open"
    /\ \/ dbFile = "none" /\ Go(t, "walkGuard") /\ UNCHANGED <<snap, projLock, lcReaders, acked>>
       \/ dbFile = "empty" /\ GraphErr(t) /\ UNCHANGED snap
       \/ dbFile = "ready" /\ May("db") /\ GraphErr(t) /\ UNCHANGED snap
       \/ /\ dbFile = "ready"
          /\ snap' = [snap EXCEPT ![t] = Load(cur[t])]
          /\ Go(t, IF NoSymbols(Load(cur[t])) THEN "walkGuard" ELSE "swap")
          /\ UNCHANGED <<projLock, lcReaders, acked>>
    /\ UNCHANGED <<cur, todo, files, config, cfgLock, project, lcSet, lcWriters,
                   graphVars, pathVars, sdkPc, storeVars, envVars, known>>

\* Mutant of GraphSwap: the graph is built once and never replaced.
GraphSwapOnce(t) ==
    /\ pc[t] = "swap" /\ gLock[cur[t]] = Nobody
    /\ GraphOk(t)
    /\ graph' = IF graph[cur[t]] = NoGraph THEN [graph EXCEPT ![cur[t]] = snap[t]] ELSE graph
    /\ UNCHANGED <<cur, workVars, config, cfgLock, project, lcSet, lcWriters, gLock,
                   poisoned, pathVars, sdkPc, storeVars, envVars, known>>

\* Publish the rows, unless the mutex is poisoned: then fall through to the walk.
GraphSwap(t) ==
    /\ pc[t] = "swap" /\ gLock[cur[t]] = Nobody
    /\ \/ /\ ~poisoned[cur[t]] /\ GraphOk(t)
          /\ graph' = [graph EXCEPT ![cur[t]] = snap[t]]
       \/ poisoned[cur[t]] /\ Go(t, "walkGuard") /\ UNCHANGED <<projLock, lcReaders, graph, acked>>
    /\ UNCHANGED <<cur, workVars, config, cfgLock, project, lcSet, lcWriters, gLock,
                   poisoned, pathVars, sdkPc, storeVars, envVars, known>>

\* source_language_config.read().await: behind any writer that waits.
WalkGuard(t) ==
    /\ pc[t] = "walkGuard" /\ lcWriters[cur[t]] = {}
    /\ Go(t, "walkOpen")
    /\ lcReaders' = [lcReaders EXCEPT ![cur[t]] = @ \cup {t}]
    /\ UNCHANGED <<cur, workVars, provVars, lcSet, lcWriters, graphVars, pathVars,
                   sdkPc, storeVars, envVars, ackVars>>

\* Mutant of WalkFrom: every file below the location is taken for C# source.
WalkFromAll(t) ==
    /\ files' = [files EXCEPT ![t] = Under[InitLoc[cur[t]]]]
    /\ snap' = [snap EXCEPT ![t] = Blank]

\* init_stack_graph begins with an empty graph.  The directories are listed as the
\* walk reaches them, so each file below the location may be met, whether it exists by
\* now or not; its row keeps the version of this moment until then.
WalkFrom(t) ==
    LET below == Sources \cap Under[InitLoc[cur[t]]]
    IN  /\ files' = [files EXCEPT ![t] = below]
        /\ snap' = [snap EXCEPT ![t] =
               [r \in Row |-> IF r \in below THEN [ver |-> disk[r].ver, live |-> FALSE]
                              ELSE Blank[r]]]

WalkOpen(t) ==
    /\ pc[t] = "walkOpen"
    /\ \/ CreateFile /\ Go(t, "walkSchema") /\ UNCHANGED <<files, snap, projLock, lcReaders>>
       \/ OpenReady /\ Go(t, "walk") /\ WalkFrom(t) /\ UNCHANGED <<projLock, lcReaders>>
       \/ OpenFails /\ Finish(t, "error") /\ UNCHANGED <<files, snap>>
    /\ UNCHANGED <<cur, todo, config, cfgLock, project, lcSet, lcWriters, graphVars,
                   pathVars, sdkPc, envVars, ackVars>>

WalkSchema(t) ==
    /\ pc[t] = "walkSchema"
    /\ CreateTables /\ Go(t, "walk") /\ WalkFrom(t)
    /\ UNCHANGED <<cur, todo, provVars, lcVars, graphVars, pathVars, sdkPc, envVars, ackVars>>

\* Mutant of WalkFile: a file is built but its row never stored.
WalkFileUnstored(t) ==
    /\ pc[t] = "walk"
    /\ \E f \in files[t] :
          /\ snap' = [snap EXCEPT ![t][f] = [ver |-> disk[f].ver, live |-> disk[f].st = "ok"]]
          /\ files' = [files EXCEPT ![t] = @ \ {f}]
    /\ UNCHANGED <<pc, resp, cur, todo, provVars, lcVars, graphVars, pathVars, sdkPc,
                   storeVars, envVars, ackVars>>

\* Build and store one file, or find that its directory has it not.  A file that
\* cannot be read or built, or that has gone since its directory was listed, ends the
\* walk with an error; the rows stored before it stay.
WalkFile(t) ==
    /\ pc[t] = "walk"
    /\ \E f \in files[t] :
          LET row == [ver |-> disk[f].ver, live |-> disk[f].st = "ok"]
          IN  \/ /\ disk[f].st # "broken"
                 /\ db' = IF row.live THEN [db EXCEPT ![f] = row] ELSE db
                 /\ snap' = [snap EXCEPT ![t][f] = row]
                 /\ files' = [files EXCEPT ![t] = @ \ {f}]
                 /\ UNCHANGED <<pc, resp, projLock, lcReaders>>
              \/ /\ \/ disk[f].st = "broken"
                    \/ disk[f].st = "absent" /\ disk[f].ver # snap[t][f].ver
                    \/ disk[f].st = "ok" /\ May("db")
                 /\ Finish(t, "error") /\ UNCHANGED <<db, snap, files>>
    /\ UNCHANGED <<cur, todo, config, cfgLock, project, lcSet, lcWriters, graphVars,
                   pathVars, sdkPc, dbFile, envVars, ackVars>>

\* Publish the graph of the walk, silently not when the mutex is poisoned.
WalkSwap(t) ==
    /\ pc[t] = "walk" /\ files[t] = {} /\ gLock[cur[t]] = Nobody
    /\ graph' = IF poisoned[cur[t]] THEN graph ELSE [graph EXCEPT ![cur[t]] = snap[t]]
    /\ GraphOk(t)
    /\ UNCHANGED <<cur, workVars, config, cfgLock, project, lcSet, lcWriters, gLock,
                   poisoned, pathVars, sdkPc, storeVars, envVars, known>>

-----------------------------------------------------------------------------
(* notify_file_changes *)

\* A notification with neither .cs nor .csproj files is answered at once.
NotifyCall(n) ==
    /\ pc[n] = "idle"
    /\ IF Changed[n] = <<>> THEN Reply(n, "ok") /\ UNCHANGED projLock
       ELSE Go(n, "wait") /\ projLock' = Acquire(projLock, n)
    /\ UNCHANGED <<cur, workVars, config, cfgLock, project, lcVars, graphVars, pathVars,
                   sdkPc, storeVars, envVars, ackVars>>

\* The project lock is kept until the answer.
NotifyStart(n) ==
    /\ pc[n] = "wait" /\ projLock.owner = n
    /\ \/ project = NoProject /\ Finish(n, "error") /\ UNCHANGED cur
       \/ /\ project # NoProject /\ Go(n, "type")
          /\ cur' = [cur EXCEPT ![n] = project] /\ UNCHANGED <<projLock, lcReaders>>
    /\ UNCHANGED <<workVars, config, cfgLock, project, lcSet, lcWriters, graphVars,
                   pathVars, sdkPc, storeVars, envVars, ackVars>>

\* Mutants of NotifyType: the project lock is released as evaluate does, or the
\* missing source type is ignored.
NotifyTypeUnlocks(n) ==
    /\ pc[n] = "type" /\ lcWriters[cur[n]] = {}
    /\ projLock' = Release(projLock)
    /\ \/ ~lcSet[cur[n]] /\ Reply(n, "error") /\ UNCHANGED lcReaders
       \/ lcSet[cur[n]] /\ Go(n, "nOpen")
          /\ lcReaders' = [lcReaders EXCEPT ![cur[n]] = @ \cup {n}]
    /\ UNCHANGED <<cur, workVars, config, cfgLock, project, lcSet, lcWriters, graphVars,
                   pathVars, sdkPc, storeVars, envVars, ackVars>>
NotifyTypeUnchecked(n) ==
    /\ pc[n] = "type" /\ lcWriters[cur[n]] = {}
    /\ Go(n, "nOpen")
    /\ lcReaders' = [lcReaders EXCEPT ![cur[n]] = @ \cup {n}]
    /\ UNCHANGED <<cur, workVars, provVars, lcSet, lcWriters, graphVars, pathVars, sdkPc,
                   storeVars, envVars, ackVars>>

\* get_source_type, then a read guard on the same lock, kept until the answer.
NotifyType(n) ==
    /\ pc[n] = "type" /\ lcWriters[cur[n]] = {}
    /\ \/ ~lcSet[cur[n]] /\ Finish(n, "error")
       \/ lcSet[cur[n]] /\ Go(n, "nOpen") /\ UNCHANGED projLock
          /\ lcReaders' = [lcReaders EXCEPT ![cur[n]] = @ \cup {n}]
    /\ UNCHANGED <<cur, workVars, config, cfgLock, project, lcSet, lcWriters, graphVars,
                   pathVars, sdkPc, storeVars, envVars, ackVars>>

NotifyOpen(n) ==
    /\ pc[n] = "nOpen"
    /\ \/ CreateFile /\ Go(n, "nSchema") /\ UNCHANGED <<projLock, lcReaders>>
       \/ OpenReady /\ Go(n, "clean") /\ UNCHANGED <<projLock, lcReaders>>
       \/ OpenFails /\ Finish(n, "error")
    /\ UNCHANGED <<cur, workVars, config, cfgLock, project, lcSet, lcWriters, graphVars,
                   pathVars, sdkPc, envVars, ackVars>>

NotifySchema(n) ==
    /\ pc[n] = "nSchema"
    /\ CreateTables /\ Go(n, "clean")
    /\ UNCHANGED <<cur, workVars, provVars, lcVars, graphVars, pathVars, sdkPc, envVars, ackVars>>

\* clean_file: its own transaction.  An error ends the call.
NotifyClean(n) ==
    /\ pc[n] = "clean" /\ Head(todo[n]) \in Sources
    /\ \/ /\ Go(n, "store") /\ UNCHANGED <<projLock, lcReaders>>
          /\ db' = [db EXCEPT ![Head(todo[n])].live = FALSE]
       \/ May("db") /\ Finish(n, "error") /\ UNCHANGED db
    /\ UNCHANGED <<cur, workVars, config, cfgLock, project, lcSet, lcWriters, graphVars,
                   pathVars, sdkPc, dbFile, envVars, ackVars>>

\* clean_file and load_and_store_file of a file that is not C#: the store has no row
\* of it, and none is made.
NotifySkip(n) ==
    /\ pc[n] = "clean" /\ Head(todo[n]) \notin Sources
    /\ \/ /\ todo' = [todo EXCEPT ![n] = Tail(@)]
          /\ Go(n, IF Tail(todo[n]) = <<>> THEN "open" ELSE "clean")
          /\ UNCHANGED <<projLock, lcReaders>>
       \/ May("db") /\ Finish(n, "error") /\ UNCHANGED todo
    /\ UNCHANGED <<cur, files, snap, config, cfgLock, project, lcSet, lcWriters, graphVars,
                   pathVars, sdkPc, storeVars, envVars, ackVars>>

\* Mutant of NotifyStore: the file is built into the new graph but not stored.
NotifyStoreForgets(n) ==
    /\ pc[n] = "store" /\ Head(todo[n]) \in Sources
    /\ files' = [files EXCEPT ![n] = @ \cup {Head(todo[n])}]
    /\ known' = [known EXCEPT ![n][Head(todo[n])] = disk[Head(todo[n])].ver]
    /\ todo' = [todo EXCEPT ![n] = Tail(@)]
    /\ Go(n, IF Tail(todo[n]) = <<>> THEN "open" ELSE "clean")
    /\ UNCHANGED <<cur, snap, provVars, lcVars, graphVars, pathVars, sdkPc, storeVars,
                   envVars, acked>>

\* load_and_store_file of a C# file: one that exists, builds and is not yet in the
\* new graph gets its row back; any other outcome is only logged.  A file that does
\* not build has been added to the new graph before that is known.
NotifyStore(n) ==
    LET f     == Head(todo[n])
        built == disk[f].st = "ok" /\ f \notin files[n]
    IN  /\ pc[n] = "store" /\ f \in Sources
        /\ \/ db' = [db EXCEPT ![f] = [ver |-> disk[f].ver, live |-> built]]
           \/ May("db") /\ UNCHANGED db
        /\ files' = IF disk[f].st = "absent" THEN files ELSE [files EXCEPT ![n] = @ \cup {f}]
        /\ known' = [known EXCEPT ![n][f] = disk[f].ver]
        /\ todo' = [todo EXCEPT ![n] = Tail(@)]
        /\ Go(n, IF Tail(todo[n]) = <<>> THEN "open" ELSE "clean")
        /\ UNCHANGED <<cur, snap, provVars, lcVars, graphVars, pathVars, sdkPc, dbFile,
                       envVars, acked>>

-----------------------------------------------------------------------------
(* evaluate *)

\* An unknown capability or a condition that does not parse is refused at once.
EvalCall(e) ==
    /\ pc[e] = "idle"
    /\ known' = [known EXCEPT ![e] = acked]
    /\ \/ Go(e, "wait") /\ projLock' = Acquire(projLock, e)
       \/ May("condition") /\ Reply(e, "error") /\ UNCHANGED projLock
    /\ UNCHANGED <<cur, workVars, config, cfgLock, project, lcVars, graphVars, pathVars,
                   sdkPc, storeVars, envVars, acked>>

EvalStart(e) ==
    /\ pc[e] = "wait" /\ projLock.owner = e
    /\ \/ project = NoProject /\ Finish(e, "error") /\ UNCHANGED cur
       \/ /\ project # NoProject /\ Go(e, "type")
          /\ cur' = [cur EXCEPT ![e] = project] /\ UNCHANGED <<projLock, lcReaders>>
    /\ UNCHANGED <<workVars, config, cfgLock, project, lcSet, lcWriters, graphVars,
                   pathVars, sdkPc, storeVars, envVars, ackVars>>

\* get_source_type, then the project lock is released before the query.
EvalType(e) ==
    /\ pc[e] = "type" /\ lcWriters[cur[e]] = {}
    /\ IF lcSet[cur[e]] THEN Go(e, "graph") ELSE Reply(e, "error")
    /\ projLock' = Release(projLock)
    /\ UNCHANGED <<cur, workVars, config, cfgLock, project, lcVars, graphVars, pathVars,
                   sdkPc, storeVars, envVars, ackVars>>

\* Lock the graph; a poisoned mutex is taken over and its poison cleared.
EvalLock(e) ==
    /\ pc[e] = "graph" /\ gLock[cur[e]] = Nobody
    /\ Go(e, "query")
    /\ gLock' = [gLock EXCEPT ![cur[e]] = e]
    /\ poisoned' = [poisoned EXCEPT ![cur[e]] = FALSE]
    /\ UNCHANGED <<cur, workVars, provVars, lcVars, graph, pathVars, sdkPc, storeVars,
                   envVars, ackVars>>

\* The versions clients know of once the graph of project p, with the files below
\* its location, has been shown to one of them.
Shown(p) ==
    [f \in Sources |->
        IF f \in Under[InitLoc[p]] /\ graph[p][f].live /\ graph[p][f].ver > acked[f]
        THEN graph[p][f].ver ELSE acked[f]]

\* Answer from the graph, or refuse a pattern that is not a regular expression.
\* A query that panics poisons the mutex it holds.
EvalQuery(e) ==
    LET p == cur[e]
    IN  /\ pc[e] = "query"
        /\ gLock' = [gLock EXCEPT ![p] = Nobody]
        /\ \/ /\ graph[p] = NoGraph \/ May("condition")
              /\ Reply(e, "error") /\ UNCHANGED <<snap, poisoned, acked>>
           \/ /\ graph[p] # NoGraph /\ Reply(e, "ok") /\ UNCHANGED poisoned
              /\ snap' = [snap EXCEPT ![e] = graph[p]] /\ acked' = Shown(p)
           \/ /\ graph[p] # NoGraph /\ May("panic") /\ Reply(e, "panic")
              /\ poisoned' = [poisoned EXCEPT ![p] = TRUE] /\ UNCHANGED <<snap, acked>>
        /\ UNCHANGED <<cur, todo, files, provVars, lcVars, graph, pathVars, sdkPc,
                       storeVars, envVars, known>>

-----------------------------------------------------------------------------
(* The SDK loader that InitBind spawned: it holds no lock of the provider, and
   it goes on when the init that spawned it has returned. *)

SdkGo(i, label) == sdkPc' = [sdkPc EXCEPT ![i] = label]

\* Install the SDK when none was found, look for its XML files, open the store.
\* When all of them are gone that is no error, and nothing is stored.
SdkOpen(i) ==
    /\ sdkPc[i] = "open"
    /\ \/ May("sdk") /\ SdkGo(i, "done") /\ UNCHANGED storeVars
       \/ May("sdk") /\ SdkGo(i, "mark") /\ UNCHANGED storeVars
       \/ CreateFile /\ SdkGo(i, "schema")
       \/ OpenReady /\ SdkGo(i, "store")
       \/ OpenFails /\ SdkGo(i, "done")
    /\ UNCHANGED <<reqVars, workVars, provVars, lcVars, graphVars, pathVars, envVars, ackVars>>

SdkSchema(i) ==
    /\ sdkPc[i] = "schema" /\ CreateTables /\ SdkGo(i, "store")
    /\ UNCHANGED <<reqVars, workVars, provVars, lcVars, graphVars, pathVars, envVars, ackVars>>

SdkStore(i) ==
    /\ sdkPc[i] = "store"
    /\ \/ SdkGo(i, "mark") /\ db' = [db EXCEPT ![Sdk] = [ver |-> 1, live |-> TRUE]]
       \/ May("db") /\ SdkGo(i, "done") /\ UNCHANGED db
    /\ UNCHANGED <<reqVars, workVars, provVars, lcVars, graphVars, pathVars, dbFile, envVars, ackVars>>

\* set_sdk_path, unless the loader failed.
SdkMark(i) ==
    /\ sdkPc[i] = "mark" /\ SdkGo(i, "done")
    /\ sdkPath' = [sdkPath EXCEPT ![cur[i]] = "set"]
    /\ UNCHANGED <<reqVars, workVars, provVars, lcVars, graphVars, deps, storeVars, envVars, ackVars>>

-----------------------------------------------------------------------------
(* The environment *)

\* Somebody edits, deletes or restores a file.
Edit(f) ==
    /\ disk[f].ver < MaxVer
    /\ \E st \in {"ok", "absent"} \cup (Faults \cap {"broken"}) :
          disk' = [disk EXCEPT ![f] = [ver |-> disk[f].ver + 1, st |-> st]]
    /\ UNCHANGED <<reqVars, workVars, provVars, lcVars, graphVars, pathVars, sdkPc,
                   storeVars, crashes, ackVars>>

\* The client gives up, or its deadline passes, while the handler awaits: the
\* handler's future is dropped with its guards and its places in the queues.
\* (The locks of the language configuration never pend: see NestedReadSafe; in the
\* resolve of an init it is the file system that is awaited.)
Cancel(t) ==
    /\ May("cancel")
    /\ \/ pc[t] \in {"config", "project", "bind", "resolve", "wait"}
       \/ pc[t] = "join" /\ sdkPc[t] \notin {"none", "done"}
    /\ Reply(t, "cancelled")
    /\ cfgLock' = Abandon(cfgLock, t) /\ projLock' = Abandon(projLock, t)
    /\ UNCHANGED <<cur, workVars, config, project, lcVars, graphVars, pathVars, sdkPc,
                   storeVars, envVars, ackVars>>

\* The process dies and is started again on the same store.
Crash ==
    /\ crashes < MaxCrashes /\ crashes' = crashes + 1
    /\ pc'   = [t \in Task |-> IF pc[t] = "idle" THEN "idle" ELSE "done"]
    /\ resp' = [t \in Task |-> IF pc[t] \in {"idle", "done"} THEN resp[t] ELSE "lost"]
    /\ config' = NoProject /\ project' = NoProject
    /\ cfgLock' = Unlocked /\ projLock' = Unlocked
    /\ lcSet' = [i \in Inits |-> FALSE]
    /\ lcReaders' = [i \in Inits |-> {}] /\ lcWriters' = [i \in Inits |-> {}]
    /\ graph' = [i \in Inits |-> NoGraph]
    /\ gLock' = [i \in Inits |-> Nobody] /\ poisoned' = [i \in Inits |-> FALSE]
    /\ sdkPath' = [i \in Inits |-> "unset"] /\ deps' = [i \in Inits |-> "none"]
    /\ sdkPc' = [i \in Inits |-> IF sdkPc[i] = "none" THEN "none" ELSE "done"]
    /\ UNCHANGED <<cur, workVars, storeVars, disk, ackVars>>

\* Every request has its answer and no loader runs: the server just listens.
Idle ==
    /\ \A t \in Task : pc[t] = "done"
    /\ \A i \in Inits : sdkPc[i] \in {"none", "done"}
    /\ UNCHANGED vars

-----------------------------------------------------------------------------
GraphStep(t) ==
    \/ GraphOpen(t) \/ GraphSwap(t) \/ WalkGuard(t) \/ WalkOpen(t) \/ WalkSchema(t)
    \/ WalkFile(t) \/ WalkSwap(t)
InitStep(i) ==
    \/ InitConfig(i) \/ InitReplace(i) \/ InitUnlock(i) \/ InitRelock(i) \/ InitBind(i)
    \/ InitValidate(i) \/ InitResolve(i) \/ InitJoin(i) \/ InitDeps(i) \/ InitLoad(i)
    \/ GraphStep(i)
NotifyStep(n) ==
    \/ NotifyStart(n) \/ NotifyType(n) \/ NotifyOpen(n) \/ NotifySchema(n)
    \/ NotifyClean(n) \/ NotifySkip(n) \/ NotifyStore(n) \/ GraphStep(n)
EvalStep(e) == EvalStart(e) \/ EvalType(e) \/ EvalLock(e) \/ EvalQuery(e)
SdkStep(i)  == SdkOpen(i) \/ SdkSchema(i) \/ SdkStore(i) \/ SdkMark(i)

Next ==
    \/ \E i \in Inits : InitCall(i) \/ InitStep(i) \/ SdkStep(i)
    \/ \E n \in Notifies : NotifyCall(n) \/ NotifyStep(n)
    \/ \E e \in Evals : EvalCall(e) \/ EvalStep(e)
    \/ \E t \in Task : Cancel(t)
    \/ \E f \in Sources : Edit(f)
    \/ Crash
    \/ Idle

\* The runtime polls every task that can go on, and the programs an init or a
\* loader runs (paket, dotnet-install) end.
Fairness ==
    /\ \A i \in Inits : WF_vars(InitStep(i)) /\ WF_vars(SdkStep(i))
    /\ \A n \in Notifies : WF_vars(NotifyStep(n))
    /\ \A e \in Evals : WF_vars(EvalStep(e))

Spec     == Init /\ [][Next]_vars
FairSpec == Spec /\ Fairness
=============================================================================
