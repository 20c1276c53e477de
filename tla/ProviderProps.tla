--------------------------- MODULE ProviderProps ---------------------------
(***************************************************************************)
(* What the service of Provider.tla promises.                              *)
(***************************************************************************)
EXTENDS Provider

\* The source files below the location of project p.
Below(p) == Sources \cap Under[InitLoc[p]]

Answers(t, answer) == pc[t] # "done" /\ pc'[t] = "done" /\ resp'[t] = answer

-----------------------------------------------------------------------------
(* Locks *)

\* Labels of a request that owns the project lock, that waits for it, and that
\* keeps a read guard on the language configuration.
Holding == {"validate", "resolve", "join", "deps", "load", "type"}
              \cup NotifyLabels \cup GraphLabels
Waiting == {"project", "bind", "wait"}
Reading == NotifyLabels \cup GraphLabels

\* csharp.rs:101-125, 356-380, 562: at most one handler is past its project lock,
\* at most one init between its config lock and the release of it, one query at
\* the graph of a project; and no early return, cancellation or crash leaves a lock
\* behind: who owns one, or queues for one, is a request that is under way, at a
\* line where the code holds it or awaits it.
Exclusion ==
    \A t \in Task :
        /\ pc[t] \in Holding => projLock.owner = t
        /\ pc[t] \in {"project", "unlock"} => cfgLock.owner = t
        /\ pc[t] = "query" => gLock[cur[t]] = t
NothingLeftBehind ==
    /\ projLock.owner # Nobody => pc[projLock.owner] \in Holding \cup Waiting
    /\ cfgLock.owner # Nobody => pc[cfgLock.owner] \in {"config", "project", "unlock"}
    /\ \A t \in Waiters(projLock) : pc[t] \in Waiting
    /\ \A t \in Waiters(cfgLock) : pc[t] = "config"
    /\ \A p \in Inits : gLock[p] # Nobody => pc[gLock[p]] = "query" /\ cur[gLock[p]] = p
    /\ \A p \in Inits : \A t \in lcReaders[p] : pc[t] \in Reading /\ cur[t] = p
    /\ \A p \in Inits : \A t \in lcWriters[p] : pc[t] = "validate" /\ cur[t] = p
LockDiscipline ==
    /\ Exclusion /\ NothingLeftBehind
    /\ Ordered(projLock) /\ Ordered(cfgLock)

\* A notification takes the language configuration's read lock a second time in
\* get_project_graph (project.rs:317) while it holds it (csharp.rs:584).  tokio
\* puts a new reader behind a waiting writer: an init waiting to write would
\* block both for ever.  No writer ever waits while a reader is inside.
NestedReadSafe ==
    \A t \in Task :
        /\ pc[t] \in Reading => lcWriters[cur[t]] = {}
        /\ pc[t] = "validate" => lcReaders[cur[t]] = {}

\* get_project_graph unwraps the language configuration (project.rs:319): it is
\* there whenever the function runs, however init and notifications interleave.
LanguageConfigReady == \A t \in Task : pc[t] \in Reading => lcSet[cur[t]]

-----------------------------------------------------------------------------
(* Freshness *)

\* csharp.rs:334-489, 561-646: an evaluate that is called after a notification was
\* answered with success sees each notified file at least as new as the notification
\* read it, and each file that an earlier answer showed at least as new as it was
\* there, whatever init, notification or loader ran in between.
ReadYourNotify ==
    \A e \in Evals :
        resp[e] = "ok" => \A f \in Below(cur[e]) : snap[e][f].ver >= known[e][f]

\* The service implements FreshReads: csharp.rs:334-489, 517-654 seen from outside.
Reads == INSTANCE FreshReads WITH
    File   <- Sources,
    Reader <- Evals,
    disk   <- [f \in Sources |-> disk[f].ver],
    status <- [e \in Evals |-> IF pc[e] = "idle" THEN "idle"
                               ELSE IF resp[e] = "none" THEN "called"
                               ELSE IF resp[e] = "ok" THEN "answered" ELSE "failed"],
    floor  <- [e \in Evals |-> known[e]],
    seen   <- [e \in Evals |-> [f \in Sources |->
                  IF resp[e] # "ok" THEN 0
                  ELSE IF f \in Below(cur[e]) THEN snap[e][f].ver ELSE known[e][f]]]

\* Every behaviour of the service, with its locks, its store, the graphs of its
\* projects, its early returns and the calls given up, is one of FreshReads.
ReadsStayFresh == Reads!Spec

\* csharp.rs:609-646: a notification that answers success has put each file of its
\* list that it could read into the served graph, in the version it read or a
\* later one.
NotifyPublishes ==
    [][\A n \in Notifies : Answers(n, "ok") /\ cur[n] # NoProject =>
          \A f \in Below(cur[n]) : known[n][f] > 0 =>
             LET row == graph'[cur[n]][f]
             IN  /\ row.ver >= known[n][f]
                 /\ disk[f] = [ver |-> known[n][f], st |-> "ok"] => row.live]_vars

\* project.rs:307-308, 330-332, dependency_resolution.rs:397: whichever call swaps
\* the graph of a project, no file that it has, or gets, goes back to an older
\* version.
GraphNeverRegresses ==
    [][\A p \in Inits : graph[p] # NoGraph /\ graph'[p] # NoGraph =>
          \A f \in Below(p) : graph[p][f].live \/ graph'[p][f].live =>
              graph'[p][f].ver >= graph[p][f].ver]_vars

\* A call on the project in place that ended with an error after it may have begun to
\* change the store: any notification, an init in the middle of its walk.
BrokenOff(t) ==
    resp[t] = "error" /\ cur[t] = project /\ (t \in Inits => files[t] # {})

\* project.rs:270-311: when no handler is at work and no call has broken off, the
\* graph that evaluate answers from and the store agree on the source files.
ServedAgrees ==
    graph[project] = NoGraph \/
       \A f \in Below(project) :
          /\ graph[project][f].live = db[f].live
          /\ db[f].live => graph[project][f].ver = db[f].ver
ServedGraphMatchesStore ==
    /\ projLock.owner = Nobody /\ project # NoProject
    /\ \A t \in Inits \cup Notifies : ~BrokenOff(t)
    => ServedAgrees

-----------------------------------------------------------------------------
(* What an init that answers success has achieved *)

\* csharp.rs:121, 284: the project the call created has a graph.
InitLoadsItsProject ==
    [][\A i \in Inits : Answers(i, "ok") => graph'[i] # NoGraph]_vars

\* project.rs:270-311, loader.rs:281-325: each source file below the location that is as
\* it was when the call came is in the graph, in that version, whether somebody edited it
\* before or not.  (An init that finds rows in the store takes them for complete, so this
\* holds only of the init that makes the store.)
InitServesDisk ==
    [][\A i \in Inits : Answers(i, "ok") =>
          \A f \in Below(cur[i]) :
             disk[f] = [ver |-> known[i][f], st |-> "ok"] =>
                graph'[cur[i]][f] = [ver |-> known[i][f], live |-> TRUE]]_vars

-----------------------------------------------------------------------------
(* Progress *)

\* Every call that is made is answered (or given up by its client, or lost with the
\* process).  Each request is made at most once, so this says that from some moment
\* on none is under way: csharp.rs:100-296, 334-489, 517-654 all come to an end.
EveryRequestAnswered == <>[](\A t \in Task : pc[t] \in {"idle", "done"})
=============================================================================
