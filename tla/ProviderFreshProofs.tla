------------------------ MODULE ProviderFreshProofs ------------------------
(***************************************************************************)
(* Why the answers of the service are fresh: the invariant about versions  *)
(* behind ReadYourNotify and the refinement of FreshReads; why no graph    *)
(* goes back to an older version of a file; and what a notification that   *)
(* answers success has published.                                          *)
(*                                                                         *)
(* The versions of a file only grow, and grow in this order: a client      *)
(* knows of a version after the store has it, and the store has it after   *)
(* the disk.  Who holds the project lock works on the project in place, so *)
(* the graph it publishes is no older than the store, and the graph of a   *)
(* project that was replaced never changes again.                          *)
(***************************************************************************)
EXTENDS ProviderLockProofs

USE RequestsDistinct, ConstantTypes, NoProjectIsNone, RowsDistinct, NoGraphIsNone

\* Where nothing can be known to be fresh: a store that refuses a row, or a query
\* that panics and leaves the graph's mutex poisoned.
Reliable == "db" \notin Faults /\ "panic" \notin Faults

\* Labels of an init whose project is not in place yet.
Early == {"idle", "config", "project"}

\* Who has a version has it from the store, and the store has it from the disk.
StoreBound ==
    \A f \in Sources :
       /\ db[f].ver <= disk[f].ver /\ acked[f] <= db[f].ver
       /\ \A n \in Notifies : known[n][f] <= db[f].ver
       /\ \A e \in Evals : known[e][f] <= acked[f]
Bounded(rows) ==
    \A f \in Sources : /\ rows[f].ver <= disk[f].ver
                       /\ rows[f].live => rows[f].ver <= db[f].ver
GraphBound == \A p \in Inits : graph[p] # NoGraph => Bounded(graph[p])
SnapBound  == \A t \in Task : Bounded(snap[t])

\* Projects, and graphs, are those of inits that have put theirs in place; who
\* holds the project lock works on the project in place.
ProjectKept ==
    /\ project \in Inits => pc[project] \notin Early
    /\ \A t \in Task : cur[t] \in Inits => pc[cur[t]] \notin Early
    /\ \A p \in Inits : graph[p] # NoGraph => pc[p] \notin Early
    /\ \A t \in Task : pc[t] \in Holding => cur[t] = project

\* The graph of the project in place has what clients know of and what the graphs
\* of other projects show; and no graph is too old for an evaluate that is about to
\* answer from it.
PlaceCurrent ==
    project \in Inits /\ graph[project] # NoGraph =>
       \A f \in Below(project) :
          /\ acked[f] <= graph[project][f].ver
          /\ \A q \in Inits : graph[q] # NoGraph /\ graph[q][f].live =>
                graph[q][f].ver <= graph[project][f].ver
EvalsServed ==
    \A e \in Evals : pc[e] \in {"type", "graph", "query"} /\ graph[cur[e]] # NoGraph =>
       \A f \in Below(cur[e]) : known[e][f] <= graph[cur[e]][f].ver
GraphCurrent == PlaceCurrent /\ EvalsServed

\* What is about to be published is no older than the store.
Ready(t) ==
    \A f \in Below(cur[t]) :
       /\ pc[t] = "swap" => db[f].ver <= snap[t][f].ver
       /\ pc[t] = "walk" /\ f \notin files[t] => db[f].ver <= snap[t][f].ver
SnapCurrent == \A t \in Inits \cup Notifies : Ready(t)

Answered ==
    /\ \A t \in Task : pc[t] = "done" <=> resp[t] # "none"
    /\ \A e \in Evals : resp[e] = "ok" =>
          \A f \in Below(cur[e]) : known[e][f] <= snap[e][f].ver

NeverPoisoned == \A p \in Inits : ~poisoned[p]

FreshInv ==
    /\ StoreBound /\ GraphBound /\ SnapBound /\ ProjectKept
    /\ GraphCurrent /\ SnapCurrent /\ Answered /\ NeverPoisoned

-----------------------------------------------------------------------------
\* Every version is a number.
Numbers ==
    \A f \in Sources :
       /\ disk[f].ver \in Nat /\ db[f].ver \in Nat /\ acked[f] \in Nat
       /\ \A t \in Task : known[t][f] \in Nat /\ snap[t][f].ver \in Nat
       /\ \A p \in Inits : graph[p] # NoGraph => graph[p][f].ver \in Nat

LEMMA VersionsAreNumbers == TypeOK => Numbers
<1> SUFFICES ASSUME TypeOK, NEW f \in Sources
             PROVE  /\ disk[f].ver \in Nat /\ db[f].ver \in Nat /\ acked[f] \in Nat
                    /\ \A t \in Task : known[t][f] \in Nat /\ snap[t][f].ver \in Nat
                    /\ \A p \in Inits : graph[p] # NoGraph => graph[p][f].ver \in Nat
  BY DEF Numbers
<1>0. f \in Row /\ Version \subseteq Nat
  BY DEF Row, Version
<1>1. disk[f].ver \in Nat
  BY VersionsOnDisk DEF TypeOK
<1>2. \A rows \in Rows : rows[f].ver \in Nat
  BY <1>0 DEF Rows, RowVal
<1>3. db[f].ver \in Nat /\ \A t \in Task : snap[t][f].ver \in Nat
  BY <1>2 DEF TypeOK, StoreTypes, WorkTypes
<1>4. \A p \in Inits : graph[p] # NoGraph => graph[p][f].ver \in Nat
  BY <1>2 DEF TypeOK, GraphTypes
<1>5. acked[f] \in Nat
  BY <1>0 DEF TypeOK, AckTypes
<1>6. ASSUME NEW t \in Task  PROVE known[t][f] \in Nat
  <2>1. known[t] \in [Sources -> Version]
    BY DEF TypeOK, AckTypes
  <2> QED  BY <1>0, <2>1
<1> QED  BY <1>1, <1>3, <1>4, <1>5, <1>6

\* The versions of the rows that steps compute, on the source files.
LEMMA RowVersions ==
    ASSUME TypeOK, NEW f \in Sources
    PROVE  /\ Blank[f] = [ver |-> 0, live |-> FALSE]
           /\ \A p : Load(p)[f] = db[f] \/ Load(p)[f] = Blank[f]
           /\ \A p \in Inits : f \in Below(p) => Load(p)[f] = db[f]
           /\ \A rows : rows \subseteq Deps => StoreDeps(rows)[f] = db[f]
<1>1. f \in Row /\ f \notin Deps /\ f # Sdk
  BY DEF Row
<1> QED  BY <1>1 DEF Blank, Load, StoreDeps, Below

-----------------------------------------------------------------------------
(* What steps leave alone *)

\* Nothing but request t moves.
Alone(t) ==
    \A u \in Task \ {t} :
       /\ pc'[u] = pc[u] /\ resp'[u] = resp[u] /\ cur'[u] = cur[u]
       /\ files'[u] = files[u] /\ snap'[u] = snap[u] /\ known'[u] = known[u]

\* No version changes.
Still ==
    /\ UNCHANGED <<db, disk, acked, graph, snap, files>>
    /\ \A t \in Task \ Inits : known'[t] = known[t]

LEMMA StillSteps ==
    ASSUME TypeOK
    PROVE  /\ \A i \in Inits :
                 \/ InitCall(i) \/ InitConfig(i) \/ InitReplace(i) \/ InitUnlock(i)
                 \/ InitRelock(i) \/ InitBind(i) \/ InitValidate(i) \/ InitResolve(i)
                 \/ InitJoin(i) \/ SdkOpen(i) \/ SdkSchema(i) \/ SdkMark(i)
                 => Still
           /\ \A n \in Notifies :
                 NotifyCall(n) \/ NotifyStart(n) \/ NotifyType(n) \/ NotifyOpen(n)
                 \/ NotifySchema(n) \/ NotifySkip(n) => Still
           /\ \A e \in Evals : EvalStart(e) \/ EvalType(e) \/ EvalLock(e) => Still
           /\ \A t \in Task : WalkGuard(t) \/ Cancel(t) => Still
           /\ UNCHANGED vars => Still
<1>0. known \in [Task -> [Sources -> Version]]
  BY DEF TypeOK, AckTypes
<1>1. ASSUME NEW i \in Inits, InitCall(i)  PROVE Still
  BY <1>0, <1>1 DEF InitCall, Still, workVars, graphVars, storeVars, envVars
<1>2. ASSUME NEW i \in Inits,
             InitConfig(i) \/ InitReplace(i) \/ InitUnlock(i) \/ InitRelock(i)
      PROVE  Still
  BY <1>2 DEF InitConfig, InitReplace, InitUnlock, InitRelock, Still, workVars,
              graphVars, storeVars, envVars, ackVars
<1>3. ASSUME NEW i \in Inits,
             InitBind(i) \/ InitValidate(i) \/ InitResolve(i) \/ InitJoin(i)
      PROVE  Still
  BY <1>3 DEF InitBind, InitValidate, InitResolve, InitJoin, Still, workVars,
              graphVars, storeVars, envVars, ackVars
<1>4. ASSUME NEW i \in Inits, SdkOpen(i) \/ SdkSchema(i) \/ SdkMark(i)  PROVE Still
  BY <1>4 DEF SdkOpen, SdkSchema, SdkMark, CreateFile, CreateTables, OpenReady,
              OpenFails, Still, workVars, graphVars, storeVars, envVars, ackVars
<1>5. ASSUME NEW n \in Notifies,
             NotifyCall(n) \/ NotifyStart(n) \/ NotifyType(n) \/ NotifyOpen(n)
             \/ NotifySchema(n) \/ NotifySkip(n)
      PROVE  Still
  BY <1>5 DEF NotifyCall, NotifyStart, NotifyType, NotifyOpen, NotifySchema, NotifySkip,
              CreateFile, CreateTables, OpenReady, OpenFails, Still, workVars, graphVars, storeVars,
              envVars, ackVars
<1>6. ASSUME NEW e \in Evals, EvalStart(e) \/ EvalType(e) \/ EvalLock(e)  PROVE Still
  BY <1>6 DEF EvalStart, EvalType, EvalLock, Still, workVars, graphVars, storeVars,
              envVars, ackVars
<1>7. ASSUME NEW t \in Task, WalkGuard(t) \/ Cancel(t)  PROVE Still
  BY <1>7 DEF WalkGuard, Cancel, Still, workVars, graphVars, storeVars, envVars, ackVars
<1>8. ASSUME UNCHANGED vars  PROVE Still
  BY <1>8 DEF vars, Still, workVars, graphVars, storeVars, envVars, ackVars
<1> QED  BY <1>1, <1>2, <1>3, <1>4, <1>5, <1>6, <1>7, <1>8

\* Where the versions stay, they stay in order.
LEMMA StillBound ==
    ASSUME StoreBound, GraphBound, SnapBound, Still
    PROVE  StoreBound' /\ GraphBound' /\ SnapBound'
<1>1. \A t \in Notifies \cup Evals : known'[t] = known[t]
  BY DEF Still, Task
<1>2. StoreBound'
  BY <1>1 DEF StoreBound, Still
<1>3. GraphBound' /\ SnapBound'
  BY DEF GraphBound, SnapBound, Bounded, Still
<1> QED  BY <1>2, <1>3

-----------------------------------------------------------------------------
(* The order of the versions *)

\* How the store grows: a row keeps its version or takes that of the disk.
StoreGrows ==
    /\ \A f \in Sources : db'[f].ver = db[f].ver \/ db'[f].ver = disk[f].ver
    /\ disk' = disk /\ graph' = graph /\ acked' = acked

LEMMA StoreSteps ==
    ASSUME TypeOK, Engaged
    PROVE  /\ \A i \in Inits : InitDeps(i) \/ SdkStore(i) => StoreGrows
           /\ \A n \in Notifies : NotifyClean(n) \/ NotifyStore(n) => StoreGrows
           /\ \A t \in Task : WalkFile(t) => StoreGrows
<1>0. db \in Rows /\ \A f \in Sources : f \in Row /\ f \notin Deps /\ f # Sdk
  BY DEF TypeOK, StoreTypes, Row
<1>1. ASSUME NEW i \in Inits, InitDeps(i)  PROVE StoreGrows
  <2>1. PICK stored \in SUBSET Deps : db' = StoreDeps(stored)
    BY <1>1 DEF InitDeps
  <2>2. \A f \in Sources : db'[f] = db[f]
    BY <2>1, RowVersions
  <2> QED  BY <1>1, <2>2 DEF InitDeps, StoreGrows, envVars, graphVars, ackVars
<1>2. ASSUME NEW i \in Inits, SdkStore(i)  PROVE StoreGrows
  BY <1>0, <1>2 DEF SdkStore, StoreGrows, envVars, graphVars, ackVars, Rows
<1>3. ASSUME NEW n \in Notifies, NotifyClean(n)  PROVE StoreGrows
  <2>1. PICK g : db' = db \/ db' = [db EXCEPT ![g].live = FALSE]
    BY <1>3 DEF NotifyClean
  <2>2. \A f \in Sources : db'[f].ver = db[f].ver
    BY <1>0, <2>1 DEF Rows, RowVal
  <2> QED  BY <1>3, <2>2 DEF NotifyClean, StoreGrows, envVars, graphVars, ackVars
<1>4. ASSUME NEW n \in Notifies, NotifyStore(n)  PROVE StoreGrows
  <2>1. PICK g, row : /\ row.ver = disk[g].ver
                      /\ db' = db \/ db' = [db EXCEPT ![g] = row]
    BY <1>4 DEF NotifyStore
  <2>2. \A f \in Sources : db'[f].ver = db[f].ver \/ db'[f].ver = disk[f].ver
    BY <1>0, <2>1 DEF Rows
  <2> QED  BY <1>4, <2>2 DEF NotifyStore, StoreGrows, envVars, graphVars
<1>5. ASSUME NEW t \in Task, WalkFile(t)  PROVE StoreGrows
  BY <1>0, <1>5 DEF WalkFile, StoreGrows, envVars, graphVars, ackVars, Rows
<1> QED  BY <1>1, <1>2, <1>3, <1>4, <1>5

LEMMA StoreGrowsBound ==
    ASSUME TypeOK, StoreBound, GraphBound, StoreGrows
    PROVE  /\ \A f \in Sources : /\ db'[f].ver \in Nat
                                 /\ db[f].ver <= db'[f].ver /\ db'[f].ver <= disk[f].ver
           /\ \A rows : Bounded(rows) /\ (\A f \in Sources : rows[f].ver \in Nat) =>
                 \A f \in Sources : /\ rows[f].ver <= disk[f].ver
                                    /\ rows[f].live => rows[f].ver <= db'[f].ver
           /\ GraphBound'
           /\ UNCHANGED snap /\ SnapBound => SnapBound'
           /\ (\A t \in Notifies \cup Evals : known'[t] = known[t]) => StoreBound'
<1>1. Numbers
  BY VersionsAreNumbers
<1>2. \A f \in Sources : /\ db'[f].ver \in Nat
                         /\ db[f].ver <= db'[f].ver /\ db'[f].ver <= disk[f].ver
  BY <1>1 DEF StoreGrows, StoreBound, Numbers
<1>3. ASSUME NEW rows, Bounded(rows), \A f \in Sources : rows[f].ver \in Nat,
             NEW f \in Sources
      PROVE  rows[f].ver <= disk[f].ver /\ (rows[f].live => rows[f].ver <= db'[f].ver)
  BY <1>1, <1>2, <1>3 DEF Bounded, Numbers
<1>4. GraphBound'
  <2> SUFFICES ASSUME NEW p \in Inits, graph[p] # NoGraph, NEW f \in Sources
               PROVE  /\ graph[p][f].ver <= disk[f].ver
                      /\ graph[p][f].live => graph[p][f].ver <= db'[f].ver
    BY DEF GraphBound, Bounded, StoreGrows
  <2> QED  BY <1>1, <1>3 DEF GraphBound, Numbers
<1>5. ASSUME UNCHANGED snap, SnapBound  PROVE SnapBound'
  <2> SUFFICES ASSUME NEW t \in Task, NEW f \in Sources
               PROVE  /\ snap[t][f].ver <= disk[f].ver
                      /\ snap[t][f].live => snap[t][f].ver <= db'[f].ver
    BY <1>5 DEF SnapBound, Bounded, StoreGrows
  <2> QED  BY <1>1, <1>3, <1>5 DEF SnapBound, Numbers
<1>6. ASSUME \A t \in Notifies \cup Evals : known'[t] = known[t]  PROVE StoreBound'
  <2> SUFFICES ASSUME NEW f \in Sources
               PROVE  /\ acked[f] <= db'[f].ver
                      /\ \A n \in Notifies : known[n][f] <= db'[f].ver
                      /\ \A e \in Evals : known[e][f] <= acked[f]
    BY <1>2, <1>6 DEF StoreBound, StoreGrows
  <2>1. /\ acked[f] <= db[f].ver /\ \A n \in Notifies : known[n][f] <= db[f].ver
        /\ \A e \in Evals : known[e][f] <= acked[f]
    BY DEF StoreBound
  <2>2. /\ acked[f] \in Nat /\ db[f].ver \in Nat
        /\ \A n \in Notifies : known[n][f] \in Nat
    BY <1>1 DEF Numbers, Task
  <2>3. db'[f].ver \in Nat /\ db[f].ver <= db'[f].ver
    BY <1>2
  <2> QED  BY <2>1, <2>2, <2>3
<1> QED  BY <1>2, <1>3, <1>4, <1>5, <1>6

\* A row that is built is the file's, as the store has it too.
LEMMA WalkFileBound ==
    ASSUME TypeOK, Engaged, StoreBound, GraphBound, SnapBound,
           NEW t \in Task, WalkFile(t)
    PROVE  StoreBound' /\ GraphBound' /\ SnapBound'
<1>0. StoreGrows /\ known' = known
  BY StoreSteps, VersionsAreNumbers DEF WalkFile, ackVars
<1>1. /\ StoreBound' /\ GraphBound'
      /\ UNCHANGED snap => SnapBound'
      /\ \A f \in Sources : db'[f].ver \in Nat /\ db'[f].ver <= disk[f].ver
  BY <1>0, StoreGrowsBound DEF Task
<1>2. CASE UNCHANGED snap
  BY <1>1, <1>2
<1>3. ASSUME NEW g \in files[t],
             db' = IF disk[g].st = "ok"
                   THEN [db EXCEPT ![g] = [ver |-> disk[g].ver, live |-> TRUE]] ELSE db,
             snap' = [snap EXCEPT ![t][g] = [ver |-> disk[g].ver, live |-> disk[g].st = "ok"]]
      PROVE  SnapBound'
  <2>0. db \in Rows /\ snap \in [Task -> Rows] /\ files[t] \subseteq Sources
    BY DEF TypeOK, StoreTypes, WorkTypes
  <2>1. g \in Sources /\ g \in Row /\ (disk[g].st = "ok" => db'[g].ver = disk[g].ver)
    BY <1>3, <2>0 DEF Row, Rows
  <2>2. \A u \in Task, f \in Sources :
           \/ snap'[u][f] = snap[u][f]
           \/ /\ f = g /\ snap'[u][f].ver = disk[f].ver
              /\ snap'[u][f].live => disk[f].st = "ok"
    <3> TAKE u \in Task, f \in Sources
    <3>1. snap' = [snap EXCEPT ![t] =
                     [snap[t] EXCEPT ![g] = [ver |-> disk[g].ver, live |-> disk[g].st = "ok"]]]
      BY <1>3
    <3>2. CASE u = t
      <4>1. snap'[t] = [snap[t] EXCEPT ![g] = [ver |-> disk[g].ver, live |-> disk[g].st = "ok"]]
        BY <2>0, <3>1
      <4>2. snap[t] \in [Row -> RowVal]
        BY <2>0 DEF Rows
      <4>3. snap'[t][g] = [ver |-> disk[g].ver, live |-> disk[g].st = "ok"]
        BY <2>1, <4>1, <4>2
      <4>4. snap'[t][g].ver = disk[g].ver /\ (snap'[t][g].live => disk[g].st = "ok")
        <5>1. snap'[t][g].ver = disk[g].ver
          BY <4>3
        <5>2. ASSUME disk[g].st # "ok"  PROVE snap'[t][g].live = FALSE
          <6>1. (disk[g].st = "ok") = FALSE
            BY <5>2
          <6>2. snap'[t][g] = [ver |-> disk[g].ver, live |-> FALSE]
            BY <4>3, <6>1, Zenon
          <6> QED  BY <6>2
        <5> QED  BY <5>1, <5>2
      <4> QED  BY <3>2, <4>1, <4>2, <4>4
    <3>3. CASE u # t
      BY <2>0, <3>1, <3>3
    <3> QED  BY <3>2, <3>3
  <2>3. \A u \in Task, f \in Sources :
           /\ snap[u][f].ver <= disk[f].ver
           /\ snap[u][f].live => snap[u][f].ver <= db'[f].ver
    BY <1>0, StoreGrowsBound, VersionsAreNumbers DEF SnapBound, Numbers
  <2>4. disk' = disk /\ \A f \in Sources : disk[f].ver \in Nat
    BY <1>0, VersionsAreNumbers DEF StoreGrows, Numbers
  <2> SUFFICES ASSUME NEW u \in Task, NEW f \in Sources
               PROVE  /\ snap'[u][f].ver <= disk[f].ver
                      /\ snap'[u][f].live => snap'[u][f].ver <= db'[f].ver
    BY <2>4 DEF SnapBound, Bounded
  <2> QED  BY <2>1, <2>2, <2>3, <2>4
<1> QED  BY <1>1, <1>2, <1>3 DEF WalkFile

\* What the disk or the store says, and nothing, are in order.
LEMMA SourcesBounded ==
    ASSUME TypeOK, StoreBound
    PROVE  /\ Bounded(Blank) /\ \A p : Bounded(Load(p))
<1>1. \A f \in Sources : /\ disk[f].ver \in Nat /\ db[f].ver \in Nat
                         /\ db[f].ver <= disk[f].ver
  BY VersionsAreNumbers DEF Numbers, StoreBound
<1>2. \A f \in Sources : Blank[f].ver = 0 /\ Blank[f].live = FALSE
  BY RowVersions
<1>3. Bounded(Blank)
  BY <1>1, <1>2 DEF Bounded
<1>4. ASSUME NEW p  PROVE Bounded(Load(p))
  <2>1. \A f \in Sources : Load(p)[f] = db[f] \/ Load(p)[f] = Blank[f]
    BY RowVersions
  <2> QED  BY <1>1, <1>2, <2>1 DEF Bounded
<1> QED  BY <1>3, <1>4

LEMMA WalkFromBounded ==
    ASSUME TypeOK, StoreBound, NEW t \in Task, WalkFrom(t)
    PROVE  \E rows : Bounded(rows) /\ snap' = [snap EXCEPT ![t] = rows]
<1>1. PICK taken :
         taken = [r \in Row |-> IF r \in Sources \cap Under[InitLoc[cur[t]]]
                                THEN [ver |-> disk[r].ver, live |-> FALSE] ELSE Blank[r]]
  OBVIOUS
<1>2. \A f \in Sources : \/ taken[f] = Blank[f]
                         \/ taken[f].ver = disk[f].ver /\ taken[f].live = FALSE
  BY <1>1 DEF Row
<1>3. Bounded(taken)
  <2>1. \A f \in Sources : /\ disk[f].ver \in Nat /\ db[f].ver \in Nat
                           /\ Blank[f] = [ver |-> 0, live |-> FALSE]
    BY RowVersions, VersionsAreNumbers DEF Numbers
  <2> QED  BY <1>2, <2>1 DEF Bounded
<1>4. snap' = [snap EXCEPT ![t] = taken]
  BY <1>1 DEF WalkFrom
<1> QED  BY <1>3, <1>4

\* One request takes a new graph to publish, or publishes one.
LEMMA TakenBound ==
    ASSUME TypeOK, StoreBound, GraphBound, SnapBound, NEW t \in Task,
           NEW rows, Bounded(rows), UNCHANGED <<db, disk>>
    PROVE  /\ UNCHANGED snap \/ snap' = [snap EXCEPT ![t] = rows] => SnapBound'
           /\ UNCHANGED graph \/ graph' = [graph EXCEPT ![cur[t]] = rows] => GraphBound'
<1>1. Bounded(rows)' /\ (GraphBound' <=> \A p \in Inits : graph'[p] # NoGraph => Bounded(graph'[p]))
                     /\ (SnapBound' <=> \A u \in Task : Bounded(snap'[u]))
  BY DEF Bounded, GraphBound, SnapBound
<1>2. ASSUME UNCHANGED snap \/ snap' = [snap EXCEPT ![t] = rows]  PROVE SnapBound'
  BY <1>1, <1>2 DEF SnapBound, TypeOK, WorkTypes
<1>3. ASSUME UNCHANGED graph \/ graph' = [graph EXCEPT ![cur[t]] = rows]  PROVE GraphBound'
  BY <1>1, <1>3 DEF GraphBound, TypeOK, GraphTypes
<1> QED  BY <1>2, <1>3

LEMMA GraphStepBound ==
    ASSUME TypeOK, Engaged, StoreBound, GraphBound, SnapBound,
           NEW t \in Inits \cup Notifies
    PROVE  GraphStep(t) => StoreBound' /\ GraphBound' /\ SnapBound'
<1>0. t \in Task
  BY DEF Task
<1>1. CASE WalkGuard(t)
  BY <1>0, <1>1, StillSteps, StillBound
<1>2. CASE WalkFile(t)
  BY <1>0, <1>2, WalkFileBound
<1>3. CASE GraphOpen(t) \/ WalkOpen(t) \/ WalkSchema(t)
  <2>1. /\ UNCHANGED <<db, disk, graph, known>>
        /\ \/ UNCHANGED snap \/ snap' = [snap EXCEPT ![t] = Load(cur[t])]
           \/ WalkFrom(t)
    BY <1>3 DEF GraphOpen, WalkOpen, WalkSchema, CreateFile, CreateTables, OpenReady,
                OpenFails, storeVars, envVars, graphVars, ackVars
  <2>2. PICK rows : /\ Bounded(rows)
                    /\ UNCHANGED snap \/ snap' = [snap EXCEPT ![t] = rows]
    BY <1>0, <2>1, SourcesBounded, WalkFromBounded
  <2>3. SnapBound' /\ GraphBound'
    BY <1>0, <2>1, <2>2, TakenBound
  <2>4. UNCHANGED acked
    BY <1>3 DEF GraphOpen, GraphErr, WalkOpen, WalkSchema, ackVars
  <2> QED  BY <2>1, <2>3, <2>4 DEF StoreBound
<1>4. CASE GraphSwap(t) \/ WalkSwap(t)
  <2>1. /\ UNCHANGED <<db, disk, snap, known>>
        /\ UNCHANGED graph \/ graph' = [graph EXCEPT ![cur[t]] = snap[t]]
    BY <1>4 DEF GraphSwap, WalkSwap, storeVars, envVars, workVars
  <2>2. Bounded(snap[t])
    BY <1>0 DEF SnapBound
  <2>3. SnapBound' /\ GraphBound'
    BY <1>0, <2>1, <2>2, TakenBound
  <2>4. \/ UNCHANGED acked
        \/ /\ t \in Notifies
           /\ acked' = [f \in Sources |-> IF known[t][f] > acked[f] THEN known[t][f]
                                                                   ELSE acked[f]]
    BY <1>4 DEF GraphSwap, WalkSwap, GraphOk
  <2>5. \A f \in Sources : acked[f] <= acked'[f] /\ acked'[f] <= db[f].ver
    BY <1>0, <2>4, VersionsAreNumbers DEF StoreBound, Numbers
  <2>6. \A e \in Evals, f \in Sources : known[e][f] <= acked'[f]
    <3> TAKE e \in Evals, f \in Sources
    <3>1. known[e][f] \in Nat /\ acked[f] \in Nat /\ known[e][f] <= acked[f]
      BY VersionsAreNumbers DEF StoreBound, Numbers, Task
    <3>2. acked'[f] \in Nat /\ acked[f] <= acked'[f]
      BY <1>0, <2>4, <2>5, VersionsAreNumbers DEF Numbers
    <3> QED  BY <3>1, <3>2
  <2> QED  BY <2>1, <2>3, <2>5, <2>6 DEF StoreBound
<1> QED  BY <1>1, <1>2, <1>3, <1>4 DEF GraphStep

LEMMA InitStepBound ==
    ASSUME TypeOK, Engaged, StoreBound, GraphBound, SnapBound, NEW i \in Inits
    PROVE  InitCall(i) \/ InitStep(i) \/ SdkStep(i)
              => StoreBound' /\ GraphBound' /\ SnapBound'
<1>0. i \in Task /\ i \in Inits \cup Notifies
  BY DEF Task
<1>1. CASE Still
  BY <1>1, StillBound
<1>2. CASE InitDeps(i) \/ SdkStore(i)
  <2>1. StoreGrows /\ UNCHANGED <<snap, known>>
    BY <1>2, StoreSteps DEF InitDeps, SdkStore, workVars, ackVars
  <2> QED  BY <2>1, StoreGrowsBound
<1>3. CASE InitLoad(i)
  <2>1. /\ UNCHANGED <<db, disk, snap, known, acked>>
        /\ UNCHANGED graph \/ graph' = [graph EXCEPT ![cur[i]] = Load(cur[i])]
    BY <1>3 DEF InitLoad, storeVars, envVars, workVars, ackVars
  <2>2. SnapBound' /\ GraphBound'
    BY <1>0, <2>1, SourcesBounded, TakenBound
  <2> QED  BY <2>1, <2>2 DEF StoreBound
<1>4. CASE GraphStep(i)
  BY <1>0, <1>4, GraphStepBound
<1> QED  BY <1>1, <1>2, <1>3, <1>4, StillSteps DEF InitStep, SdkStep

LEMMA NotifyStepBound ==
    ASSUME Reliable, TypeOK, Engaged, StoreBound, GraphBound, SnapBound, NEW n \in Notifies
    PROVE  NotifyCall(n) \/ NotifyStep(n) => StoreBound' /\ GraphBound' /\ SnapBound'
<1>0. n \in Task /\ n \in Inits \cup Notifies /\ n \notin Evals
  BY DEF Task
<1>1. CASE Still
  BY <1>1, StillBound
<1>2. CASE NotifyClean(n)
  <2>1. StoreGrows /\ UNCHANGED <<snap, known>>
    BY <1>2, StoreSteps DEF NotifyClean, workVars, ackVars
  <2> QED  BY <2>1, StoreGrowsBound
<1>3. CASE NotifyStore(n)
  <2>1. StoreGrows /\ UNCHANGED snap
    BY <1>3, StoreSteps DEF NotifyStore
  <2>2. /\ GraphBound' /\ SnapBound'
        /\ \A f \in Sources : /\ db'[f].ver \in Nat /\ db[f].ver <= db'[f].ver
                              /\ db'[f].ver <= disk[f].ver
    BY <2>1, StoreGrowsBound
  <2>3. Head(todo[n]) \in Sources
    BY <1>3 DEF NotifyStore
  <2>4. /\ known' = [known EXCEPT ![n][Head(todo[n])] = disk[Head(todo[n])].ver]
        /\ \E l : db' = [db EXCEPT ![Head(todo[n])] =
                           [ver |-> disk[Head(todo[n])].ver, live |-> l]]
    BY <1>3 DEF NotifyStore, Reliable, May
  <2>5. db'[Head(todo[n])].ver = disk[Head(todo[n])].ver
    BY <2>3, <2>4 DEF TypeOK, StoreTypes, Rows, Row
  <2>6. ASSUME NEW m \in Notifies, NEW f \in Sources  PROVE known'[m][f] <= db'[f].ver
    <3>1. known[m][f] \in Nat /\ db[f].ver \in Nat /\ known[m][f] <= db[f].ver
      BY VersionsAreNumbers DEF StoreBound, Numbers, Task
    <3>2. disk[f].ver \in Nat
      BY VersionsAreNumbers DEF Numbers
    <3>3. \/ known'[m][f] = known[m][f]
          \/ f = Head(todo[n]) /\ known'[m][f] = disk[f].ver
      BY <2>4, <1>0 DEF TypeOK, AckTypes, Task
    <3> QED  BY <2>2, <2>5, <3>1, <3>2, <3>3
  <2>7. \A e \in Evals : known'[e] = known[e]
    BY <1>0, <2>4 DEF TypeOK, AckTypes, Task
  <2>8. \A f \in Sources : acked[f] <= db'[f].ver
    <3> TAKE f \in Sources
    <3>1. acked[f] \in Nat /\ db[f].ver \in Nat /\ acked[f] <= db[f].ver
      BY VersionsAreNumbers DEF StoreBound, Numbers
    <3> QED  BY <2>2, <3>1
  <2> QED  BY <2>1, <2>2, <2>6, <2>7, <2>8 DEF StoreBound, StoreGrows
<1>4. CASE GraphStep(n)
  BY <1>0, <1>4, GraphStepBound
<1> QED  BY <1>1, <1>2, <1>3, <1>4, StillSteps DEF NotifyStep

LEMMA EvalStepBound ==
    ASSUME TypeOK, Engaged, StoreBound, GraphBound, SnapBound, NEW e \in Evals
    PROVE  EvalCall(e) \/ EvalStep(e) => StoreBound' /\ GraphBound' /\ SnapBound'
<1>0. e \in Task /\ e \notin Notifies
  BY DEF Task
<1>1. CASE Still
  BY <1>1, StillBound
<1>2. CASE EvalCall(e)
  <2>1. UNCHANGED <<db, disk, snap, graph, acked>> /\ known' = [known EXCEPT ![e] = acked]
    BY <1>2 DEF EvalCall, storeVars, envVars, workVars, graphVars
  <2>2. GraphBound' /\ SnapBound'
    BY <2>1 DEF GraphBound, SnapBound, Bounded
  <2>3. \A f \in Sources : acked[f] <= acked[f]
    BY VersionsAreNumbers DEF Numbers
  <2>4. /\ known'[e] = acked
        /\ \A t \in Notifies \cup Evals : t # e => known'[t] = known[t]
    BY <1>0, <2>1 DEF TypeOK, AckTypes, Task
  <2> QED  BY <1>0, <2>1, <2>2, <2>3, <2>4 DEF StoreBound
<1>3. CASE EvalQuery(e)
  <2>1. cur[e] \in Inits
    BY <1>0, <1>3 DEF EvalQuery, Engaged, EvalLabels
  <2>2. /\ UNCHANGED <<db, disk, graph, known>>
        /\ \/ UNCHANGED <<snap, acked>>
           \/ /\ graph[cur[e]] # NoGraph
              /\ snap' = [snap EXCEPT ![e] = graph[cur[e]]]
              /\ acked' = Shown(cur[e])
    BY <1>3 DEF EvalQuery, storeVars, envVars
  <2>3. SnapBound' /\ GraphBound'
    <3>1. CASE UNCHANGED <<snap, acked>>
      BY <2>2, <3>1 DEF SnapBound, GraphBound, Bounded
    <3>2. CASE graph[cur[e]] # NoGraph /\ snap' = [snap EXCEPT ![e] = graph[cur[e]]]
      <4>1. Bounded(graph[cur[e]])
        BY <2>1, <3>2 DEF GraphBound
      <4> QED  BY <1>0, <2>2, <3>2, <4>1, TakenBound
    <3> QED  BY <2>2, <3>1, <3>2
  <2>4. \A f \in Sources : acked[f] <= acked'[f] /\ acked'[f] <= db[f].ver /\ acked'[f] \in Nat
    <3> TAKE f \in Sources
    <3>1. acked[f] \in Nat /\ db[f].ver \in Nat /\ acked[f] <= db[f].ver
      BY VersionsAreNumbers DEF Numbers, StoreBound
    <3>2. graph[cur[e]] # NoGraph =>
             /\ graph[cur[e]][f].ver \in Nat
             /\ graph[cur[e]][f].live => graph[cur[e]][f].ver <= db[f].ver
      BY <2>1, VersionsAreNumbers DEF Numbers, GraphBound, Bounded
    <3> QED  BY <2>2, <3>1, <3>2 DEF Shown
  <2>5. \A d \in Evals, f \in Sources : known[d][f] <= acked'[f]
    <3> TAKE d \in Evals, f \in Sources
    <3>1. known[d][f] \in Nat /\ acked[f] \in Nat /\ known[d][f] <= acked[f]
      BY VersionsAreNumbers DEF StoreBound, Numbers, Task
    <3> QED  BY <2>4, <3>1
  <2> QED  BY <2>2, <2>3, <2>4, <2>5 DEF StoreBound
<1> QED  BY <1>1, <1>2, <1>3, StillSteps DEF EvalStep

LEMMA OtherStepBound ==
    ASSUME TypeOK, Engaged, StoreBound, GraphBound, SnapBound
    PROVE  /\ \A f \in Sources : Edit(f) => StoreBound' /\ GraphBound' /\ SnapBound'
           /\ Crash => StoreBound' /\ GraphBound' /\ SnapBound'
<1>1. ASSUME NEW g \in Sources, Edit(g)  PROVE StoreBound' /\ GraphBound' /\ SnapBound'
  <2>1. UNCHANGED <<db, acked, known, graph, snap>>
    BY <1>1 DEF Edit, storeVars, ackVars, graphVars, workVars
  <2>2. \A f \in Sources : disk'[f].ver = disk[f].ver \/ disk'[f].ver = disk[f].ver + 1
    BY <1>1 DEF Edit, TypeOK, EnvTypes
  <2>3. \A f \in Sources : disk'[f].ver \in Nat /\ disk[f].ver <= disk'[f].ver
    BY <2>2, VersionsAreNumbers DEF Numbers
  <2>4. ASSUME NEW rows, Bounded(rows), \A f \in Sources : rows[f].ver \in Nat
        PROVE  \A f \in Sources : /\ rows[f].ver <= disk'[f].ver
                                  /\ rows[f].live => rows[f].ver <= db[f].ver
    BY <2>3, <2>4, VersionsAreNumbers DEF Bounded, Numbers
  <2>5. GraphBound'
    BY <2>1, <2>4, VersionsAreNumbers DEF GraphBound, Bounded, Numbers
  <2>6. SnapBound'
    BY <2>1, <2>4, VersionsAreNumbers DEF SnapBound, Bounded, Numbers
  <2>7. \A f \in Sources : db[f].ver <= disk'[f].ver
    BY <2>3, VersionsAreNumbers DEF StoreBound, Numbers
  <2> QED  BY <2>1, <2>5, <2>6, <2>7 DEF StoreBound
<1>2. ASSUME Crash  PROVE StoreBound' /\ GraphBound' /\ SnapBound'
  <2>1. UNCHANGED <<db, disk, acked, known, snap>> /\ graph' = [i \in Inits |-> NoGraph]
    BY <1>2 DEF Crash, storeVars, ackVars, workVars
  <2> QED  BY <2>1 DEF StoreBound, GraphBound, SnapBound, Bounded
<1> QED  BY <1>1, <1>2

-----------------------------------------------------------------------------
(* The project in place *)

\* No init falls back behind the step that puts its project in place, and whoever
\* comes to hold the project lock takes the project in place for its own.
Kept ==
    /\ \A i \in Inits : pc[i] \notin Early => pc'[i] \notin Early
    /\ project' = project
    /\ \A u \in Task : cur'[u] = cur[u] \/ cur'[u] = project
    /\ \A u \in Task : pc'[u] \in Holding =>
          (pc[u] \in Holding /\ cur'[u] = cur[u]) \/ cur'[u] = project
    /\ \A q \in Inits : graph'[q] # NoGraph => graph[q] # NoGraph \/ \E u \in Task : cur[u] = q

LEMMA KeptKeeps == ProjectKept /\ Kept => ProjectKept'
<1> SUFFICES ASSUME ProjectKept, Kept  PROVE ProjectKept'
  OBVIOUS
<1>1. (project \in Inits => pc[project] \notin Early)'
  BY DEF ProjectKept, Kept
<1>2. (\A t \in Task : cur[t] \in Inits => pc[cur[t]] \notin Early)'
  BY DEF ProjectKept, Kept
<1>3. (\A q \in Inits : graph[q] # NoGraph => pc[q] \notin Early)'
  BY DEF ProjectKept, Kept
<1>4. (\A t \in Task : pc[t] \in Holding => cur[t] = project)'
  BY DEF ProjectKept, Kept
<1> QED  BY <1>1, <1>2, <1>3, <1>4 DEF ProjectKept

\* What a step of one request does to that.
Moved(t) ==
    /\ pc' = [pc EXCEPT ![t] = pc'[t]]
    /\ pc'[t] \in Early => pc[t] \in Early
    /\ project' = project
    /\ cur' = cur \/ cur' = [cur EXCEPT ![t] = project]
    /\ pc'[t] \in Holding =>
          (pc[t] \in Holding /\ cur' = cur) \/ cur' = [cur EXCEPT ![t] = project]
    /\ \A q \in Inits : q # cur[t] => graph'[q] = graph[q]

LEMMA MovedKeeps == ASSUME TypeOK, NEW t \in Task, Moved(t)  PROVE Kept
<1>0. pc \in [Task -> Labels] /\ cur \in [Task -> Inits \cup {NoProject}]
  BY DEF TypeOK, RequestTypes
<1>1. \A u \in Task : u # t => pc'[u] = pc[u] /\ cur'[u] = cur[u]
  BY <1>0 DEF Moved
<1>2. cur'[t] = cur[t] \/ cur'[t] = project
  BY <1>0 DEF Moved
<1>3. pc'[t] \in Holding => (pc[t] \in Holding /\ cur'[t] = cur[t]) \/ cur'[t] = project
  BY <1>0 DEF Moved
<1>4. \A i \in Inits : pc[i] \notin Early => pc'[i] \notin Early
  BY <1>1 DEF Moved, Task
<1>5. \A q \in Inits : graph'[q] # NoGraph => graph[q] # NoGraph \/ \E u \in Task : cur[u] = q
  BY DEF Moved
<1> QED  BY <1>1, <1>2, <1>3, <1>4, <1>5 DEF Moved, Kept

LEMMA InitStepMoved ==
    ASSUME TypeOK, Engaged, NEW i \in Inits
    PROVE  \/ InitCall(i) \/ InitConfig(i) \/ InitUnlock(i) \/ InitRelock(i)
           \/ InitBind(i) \/ InitValidate(i) \/ InitResolve(i) \/ InitJoin(i)
           \/ InitDeps(i) \/ InitLoad(i)
           => Moved(i)
<1>0. i \in Task /\ pc \in [Task -> Labels] /\ graph \in [Inits -> Rows \cup {NoGraph}]
  BY DEF Task, TypeOK, RequestTypes, GraphTypes
<1>1. ASSUME InitCall(i)  PROVE Moved(i)
  BY <1>0, <1>1, LabelSets
  DEF InitCall, workVars, lcVars, graphVars, pathVars, storeVars, envVars, Go, Moved,
     Early
<1>2. ASSUME InitConfig(i)  PROVE Moved(i)
  BY <1>0, <1>2, LabelSets
  DEF InitConfig, workVars, lcVars, graphVars, pathVars, storeVars, envVars, ackVars,
     Go, Reply, May, Moved, Early
<1>3. ASSUME InitUnlock(i)  PROVE Moved(i)
  BY <1>0, <1>3, LabelSets
  DEF InitUnlock, workVars, lcVars, graphVars, pathVars, storeVars, envVars, ackVars,
     Go, Moved, Early
<1>4. ASSUME InitRelock(i)  PROVE Moved(i)
  BY <1>0, <1>4, LabelSets
  DEF InitRelock, workVars, lcVars, graphVars, pathVars, storeVars, envVars, ackVars,
     Go, Moved, Early
<1>5. ASSUME InitBind(i)  PROVE Moved(i)
  BY <1>0, <1>5, LabelSets
  DEF InitBind, workVars, graphVars, storeVars, envVars, ackVars, Go, Finish, May,
     Reply, Moved, Early
<1>6. ASSUME InitValidate(i)  PROVE Moved(i)
  BY <1>0, <1>6, LabelSets
  DEF InitValidate, workVars, provVars, graphVars, pathVars, storeVars, envVars,
     ackVars, Go, Moved, Early
<1>7. ASSUME InitResolve(i)  PROVE Moved(i)
  BY <1>0, <1>7, LabelSets
  DEF InitResolve, workVars, graphVars, storeVars, envVars, ackVars, Go, Finish, May,
     Reply, Moved, Early
<1>8. ASSUME InitJoin(i)  PROVE Moved(i)
  BY <1>0, <1>8, LabelSets
  DEF InitJoin, workVars, provVars, lcVars, graphVars, pathVars, storeVars, envVars,
     ackVars, Go, Moved, Early
<1>9. ASSUME InitDeps(i)  PROVE Moved(i)
  BY <1>0, <1>9, LabelSets
  DEF InitDeps, workVars, graphVars, pathVars, envVars, ackVars, Go, Finish, May, Reply,
     Moved, Early
<1>10. ASSUME InitLoad(i)  PROVE Moved(i)
  BY <1>0, <1>10, LabelSets
  DEF InitLoad, workVars, pathVars, storeVars, envVars, ackVars, Finish, May, Reply,
     Moved, Early
<1> QED  BY <1>1, <1>2, <1>3, <1>4, <1>5, <1>6, <1>7, <1>8, <1>9, <1>10

LEMMA GraphStepMoved ==
    ASSUME TypeOK, Engaged, NEW t \in Inits \cup Notifies
    PROVE  \/ GraphOpen(t) \/ GraphSwap(t) \/ WalkGuard(t) \/ WalkOpen(t)
           \/ WalkSchema(t) \/ WalkFile(t) \/ WalkSwap(t)
           => Moved(t)
<1>0. t \in Task /\ pc \in [Task -> Labels] /\ graph \in [Inits -> Rows \cup {NoGraph}]
  BY DEF Task, TypeOK, RequestTypes, GraphTypes
<1>1. ASSUME GraphOpen(t)  PROVE Moved(t)
  BY <1>0, <1>1, LabelSets
  DEF GraphOpen, graphVars, pathVars, storeVars, envVars, Go, May, GraphErr, Finish,
     Reply, Moved, Early
<1>2. ASSUME GraphSwap(t)  PROVE Moved(t)
  BY <1>0, <1>2, LabelSets
  DEF GraphSwap, workVars, pathVars, storeVars, envVars, Go, GraphOk, Finish, Reply,
     Moved, Early
<1>3. ASSUME WalkGuard(t)  PROVE Moved(t)
  BY <1>0, <1>3, LabelSets
  DEF WalkGuard, workVars, provVars, graphVars, pathVars, storeVars, envVars, ackVars,
     Go, Moved, Early
<1>4. ASSUME WalkOpen(t)  PROVE Moved(t)
  BY <1>0, <1>4, LabelSets
  DEF WalkOpen, graphVars, pathVars, envVars, ackVars, Go, Finish, CreateFile,
     OpenReady, OpenFails, Reply, Moved, Early
<1>5. ASSUME WalkSchema(t)  PROVE Moved(t)
  BY <1>0, <1>5, LabelSets
  DEF WalkSchema, provVars, lcVars, graphVars, pathVars, envVars, ackVars, Go,
     CreateTables, Moved, Early
<1>6. ASSUME WalkFile(t)  PROVE Moved(t)
  BY <1>0, <1>6, LabelSets
  DEF WalkFile, graphVars, pathVars, envVars, ackVars, Finish, May, Reply, Moved, Early
<1>7. ASSUME WalkSwap(t)  PROVE Moved(t)
  BY <1>0, <1>7, LabelSets
  DEF WalkSwap, workVars, pathVars, storeVars, envVars, GraphOk, Go, Finish, Reply,
     Moved, Early
<1> QED  BY <1>1, <1>2, <1>3, <1>4, <1>5, <1>6, <1>7

LEMMA NotifyStepMoved ==
    ASSUME TypeOK, Engaged, NEW n \in Notifies
    PROVE  \/ NotifyCall(n) \/ NotifyStart(n) \/ NotifyType(n) \/ NotifyOpen(n)
           \/ NotifySchema(n) \/ NotifyClean(n) \/ NotifySkip(n) \/ NotifyStore(n)
           => Moved(n)
<1>0. n \in Task /\ pc \in [Task -> Labels] /\ graph \in [Inits -> Rows \cup {NoGraph}]
  BY DEF Task, TypeOK, RequestTypes, GraphTypes
<1>1. ASSUME NotifyCall(n)  PROVE Moved(n)
  BY <1>0, <1>1, LabelSets
  DEF NotifyCall, workVars, lcVars, graphVars, pathVars, storeVars, envVars, ackVars,
     Go, Reply, Moved, Early
<1>2. ASSUME NotifyStart(n)  PROVE Moved(n)
  BY <1>0, <1>2, LabelSets
  DEF NotifyStart, workVars, graphVars, pathVars, storeVars, envVars, ackVars, Go,
     Finish, Reply, Moved, Early
<1>3. ASSUME NotifyType(n)  PROVE Moved(n)
  BY <1>0, <1>3, LabelSets
  DEF NotifyType, workVars, graphVars, pathVars, storeVars, envVars, ackVars, Go,
     Finish, Reply, Moved, Early
<1>4. ASSUME NotifyOpen(n)  PROVE Moved(n)
  BY <1>0, <1>4, LabelSets
  DEF NotifyOpen, workVars, graphVars, pathVars, envVars, ackVars, Go, Finish,
     CreateFile, OpenReady, OpenFails, Reply, Moved, Early
<1>5. ASSUME NotifySchema(n)  PROVE Moved(n)
  BY <1>0, <1>5, LabelSets
  DEF NotifySchema, workVars, provVars, lcVars, graphVars, pathVars, envVars, ackVars,
     Go, CreateTables, Moved, Early
<1>6. ASSUME NotifyClean(n)  PROVE Moved(n)
  BY <1>0, <1>6, LabelSets
  DEF NotifyClean, workVars, graphVars, pathVars, envVars, ackVars, Go, Finish, May,
     Reply, Moved, Early
<1>7. ASSUME NotifyStore(n)  PROVE Moved(n)
  BY <1>0, <1>7, LabelSets
  DEF NotifyStore, provVars, lcVars, graphVars, pathVars, envVars, Go, May, Moved, Early
<1>8. ASSUME NotifySkip(n)  PROVE Moved(n)
  BY <1>0, <1>8, LabelSets
  DEF NotifySkip, graphVars, pathVars, storeVars, envVars, ackVars, Go, Finish, May,
     Reply, Moved, Early
<1> QED  BY <1>1, <1>2, <1>3, <1>4, <1>5, <1>6, <1>7, <1>8

LEMMA EvalStepMoved ==
    ASSUME TypeOK, Engaged, NEW e \in Evals
    PROVE  \/ EvalCall(e) \/ EvalStart(e) \/ EvalType(e) \/ EvalLock(e)
           \/ EvalQuery(e)
           => Moved(e)
<1>0. e \in Task /\ pc \in [Task -> Labels] /\ graph \in [Inits -> Rows \cup {NoGraph}]
  BY DEF Task, TypeOK, RequestTypes, GraphTypes
<1>1. ASSUME EvalCall(e)  PROVE Moved(e)
  BY <1>0, <1>1, LabelSets
  DEF EvalCall, workVars, lcVars, graphVars, pathVars, storeVars, envVars, Go, Reply,
     May, Moved, Early
<1>2. ASSUME EvalStart(e)  PROVE Moved(e)
  BY <1>0, <1>2, LabelSets
  DEF EvalStart, workVars, graphVars, pathVars, storeVars, envVars, ackVars, Go, Finish,
     Reply, Moved, Early
<1>3. ASSUME EvalType(e)  PROVE Moved(e)
  BY <1>0, <1>3, LabelSets
  DEF EvalType, workVars, lcVars, graphVars, pathVars, storeVars, envVars, ackVars, Go,
     Reply, Moved, Early
<1>4. ASSUME EvalLock(e)  PROVE Moved(e)
  BY <1>0, <1>4, LabelSets
  DEF EvalLock, workVars, provVars, lcVars, pathVars, storeVars, envVars, ackVars, Go,
     Moved, Early
<1>5. ASSUME EvalQuery(e)  PROVE Moved(e)
  BY <1>0, <1>5, LabelSets
  DEF EvalQuery, provVars, lcVars, pathVars, storeVars, envVars, Reply, May, Moved,
     Early
<1> QED  BY <1>1, <1>2, <1>3, <1>4, <1>5

LEMMA CancelMoved ==
    ASSUME TypeOK, Engaged, NEW t \in Task
    PROVE  \/ Cancel(t)
           => Moved(t)
<1>0. t \in Task /\ pc \in [Task -> Labels] /\ graph \in [Inits -> Rows \cup {NoGraph}]
  BY DEF TypeOK, RequestTypes, GraphTypes
<1>1. ASSUME Cancel(t)  PROVE Moved(t)
  BY <1>0, <1>1, LabelSets
  DEF Cancel, workVars, lcVars, graphVars, pathVars, storeVars, envVars, ackVars, Reply,
     May, Moved, Early
<1> QED  BY <1>1

LEMMA ProjectStep ==
    ASSUME TypeOK, Engaged, LockDiscipline, ProjectKept, [Next]_vars
    PROVE  ProjectKept'
<1>1. CASE Kept
  BY <1>1, KeptKeeps
<1>2. ASSUME NEW i \in Inits, InitReplace(i)  PROVE ProjectKept'
  <2>0. i \in Task /\ pc \in [Task -> Labels]
    BY DEF Task, TypeOK, RequestTypes
  <2>1. /\ pc' = [pc EXCEPT ![i] = "unlock"] /\ project' = i
        /\ cur' = cur /\ graph' = graph /\ projLock.owner = i /\ pc[i] = "project"
    BY <1>2 DEF InitReplace, Go, graphVars
  <2>2. \A t \in Task : pc[t] \notin Holding
    BY <2>1, LabelSets DEF LockDiscipline, Exclusion
  <2>3. \A t \in Task : pc'[t] \notin Holding
    BY <2>0, <2>1, <2>2, LabelSets
  <2>4. \A q \in Inits : pc[q] \notin Early \/ q = i => pc'[q] \notin Early
    BY <2>0, <2>1 DEF Early, Task
  <2> QED  BY <2>1, <2>3, <2>4 DEF ProjectKept
<1>3. ASSUME Crash  PROVE ProjectKept'
  <2>1. /\ \A t \in Task : pc'[t] = "done" \/ (pc'[t] = "idle" /\ pc[t] = "idle")
        /\ project' = NoProject /\ cur' = cur
        /\ \A q \in Inits : graph'[q] = NoGraph
    BY <1>3 DEF Crash
  <2>2. \A t \in Task : pc'[t] \notin Holding
    BY <2>1, LabelSets
  <2>3. \A q \in Inits : pc[q] \notin Early => pc'[q] \notin Early
    BY <2>1 DEF Early, Task
  <2> QED  BY <2>1, <2>2, <2>3 DEF ProjectKept
<1>4. ASSUME NEW i \in Inits, SdkStep(i)  PROVE Kept
  BY <1>4 DEF SdkStep, SdkOpen, SdkSchema, SdkStore, SdkMark, Kept, reqVars, provVars, graphVars
<1>5. ASSUME NEW f \in Sources, Edit(f)  PROVE Kept
  BY <1>5 DEF Edit, Kept, reqVars, provVars, graphVars
<1>6. ASSUME UNCHANGED vars  PROVE Kept
  BY <1>6 DEF vars, Kept, reqVars, provVars, graphVars
<1>7. ASSUME NEW t \in Task, Moved(t)  PROVE Kept
  BY <1>7, MovedKeeps
<1>8. ASSUME NEW i \in Inits, InitCall(i) \/ InitStep(i)  PROVE Kept \/ InitReplace(i)
  <2>1. i \in Task /\ i \in Inits \cup Notifies
    BY DEF Task
  <2> QED  BY <1>7, <1>8, <2>1, InitStepMoved, GraphStepMoved DEF InitStep, GraphStep
<1>9. ASSUME NEW n \in Notifies, NotifyCall(n) \/ NotifyStep(n)  PROVE Kept
  <2>1. n \in Task /\ n \in Inits \cup Notifies
    BY DEF Task
  <2> QED  BY <1>7, <1>9, <2>1, NotifyStepMoved, GraphStepMoved DEF NotifyStep, GraphStep
<1>10. ASSUME NEW e \in Evals, EvalCall(e) \/ EvalStep(e)  PROVE Kept
  <2>1. e \in Task
    BY DEF Task
  <2> QED  BY <1>7, <1>10, <2>1, EvalStepMoved DEF EvalStep
<1>11. ASSUME NEW t \in Task, Cancel(t)  PROVE Kept
  BY <1>7, <1>11, CancelMoved
<1> QED
  BY <1>1, <1>2, <1>3, <1>4, <1>5, <1>6, <1>8, <1>9, <1>10, <1>11 DEF Next, Idle

-----------------------------------------------------------------------------
(* Whose step it is *)

\* A step of request t: it changes nothing of another, t is not yet done, and it
\* either goes on or has an answer.  Only a query answers an evaluate with success.
Acts(t) ==
    /\ resp' = [resp EXCEPT ![t] = resp'[t]]
    /\ snap' = [snap EXCEPT ![t] = snap'[t]] /\ files' = [files EXCEPT ![t] = files'[t]]
    /\ known' = [known EXCEPT ![t] = known'[t]]
    /\ pc[t] # "done"
    /\ \/ pc'[t] = "done" /\ resp'[t] # "none"
       \/ pc'[t] # "done" /\ resp'[t] = resp[t]
    /\ t \in Evals /\ resp'[t] = "ok" => resp[t] = "ok" \/ pc[t] = "query"

LEMMA InitStepActs ==
    ASSUME TypeOK, Engaged, NEW i \in Inits
    PROVE  \/ InitCall(i) \/ InitConfig(i) \/ InitReplace(i) \/ InitUnlock(i)
           \/ InitRelock(i) \/ InitBind(i) \/ InitValidate(i) \/ InitResolve(i)
           \/ InitJoin(i) \/ InitDeps(i) \/ InitLoad(i)
           => Acts(i)
<1>0. /\ i \in Task
      /\ pc \in [Task -> Labels] /\ snap \in [Task -> Rows]
      /\ files \in [Task -> SUBSET Sources] /\ known \in [Task -> [Sources -> Version]]
      /\ resp \in [Task -> {"none", "ok", "error", "panic", "cancelled", "lost"}]
  BY DEF Task, TypeOK, RequestTypes, WorkTypes, AckTypes
<1>1. ASSUME InitCall(i)  PROVE Acts(i)
  BY <1>0, <1>1
  DEF InitCall, workVars, lcVars, graphVars, pathVars, storeVars, envVars, Go, Acts
<1>2. ASSUME InitConfig(i)  PROVE Acts(i)
  BY <1>0, <1>2
  DEF InitConfig, workVars, lcVars, graphVars, pathVars, storeVars, envVars, ackVars,
     Go, Reply, May, Acts
<1>3. ASSUME InitReplace(i)  PROVE Acts(i)
  BY <1>0, <1>3
  DEF InitReplace, workVars, lcVars, graphVars, pathVars, storeVars, envVars, ackVars,
     Go, Acts
<1>4. ASSUME InitUnlock(i)  PROVE Acts(i)
  BY <1>0, <1>4
  DEF InitUnlock, workVars, lcVars, graphVars, pathVars, storeVars, envVars, ackVars,
     Go, Acts
<1>5. ASSUME InitRelock(i)  PROVE Acts(i)
  BY <1>0, <1>5
  DEF InitRelock, workVars, lcVars, graphVars, pathVars, storeVars, envVars, ackVars,
     Go, Acts
<1>6. ASSUME InitBind(i)  PROVE Acts(i)
  BY <1>0, <1>6
  DEF InitBind, workVars, graphVars, storeVars, envVars, ackVars, Go, Finish, May,
     Reply, Acts
<1>7. ASSUME InitValidate(i)  PROVE Acts(i)
  BY <1>0, <1>7
  DEF InitValidate, workVars, provVars, graphVars, pathVars, storeVars, envVars,
     ackVars, Go, Acts
<1>8. ASSUME InitResolve(i)  PROVE Acts(i)
  BY <1>0, <1>8
  DEF InitResolve, workVars, graphVars, storeVars, envVars, ackVars, Go, Finish, May,
     Reply, Acts
<1>9. ASSUME InitJoin(i)  PROVE Acts(i)
  BY <1>0, <1>9
  DEF InitJoin, workVars, provVars, lcVars, graphVars, pathVars, storeVars, envVars,
     ackVars, Go, Acts
<1>10. ASSUME InitDeps(i)  PROVE Acts(i)
  BY <1>0, <1>10
  DEF InitDeps, workVars, graphVars, pathVars, envVars, ackVars, Go, Finish, May, Reply,
     Acts
<1>11. ASSUME InitLoad(i)  PROVE Acts(i)
  BY <1>0, <1>11
  DEF InitLoad, workVars, pathVars, storeVars, envVars, ackVars, Finish, May, Reply,
     Acts
<1> QED  BY <1>1, <1>2, <1>3, <1>4, <1>5, <1>6, <1>7, <1>8, <1>9, <1>10, <1>11

LEMMA GraphStepActs ==
    ASSUME TypeOK, Engaged, NEW t \in Inits \cup Notifies
    PROVE  \/ GraphOpen(t) \/ GraphSwap(t) \/ WalkGuard(t) \/ WalkOpen(t)
           \/ WalkSchema(t) \/ WalkFile(t) \/ WalkSwap(t)
           => Acts(t)
<1>0. /\ t \in Task
      /\ pc \in [Task -> Labels] /\ snap \in [Task -> Rows]
      /\ files \in [Task -> SUBSET Sources] /\ known \in [Task -> [Sources -> Version]]
      /\ resp \in [Task -> {"none", "ok", "error", "panic", "cancelled", "lost"}]
  BY DEF Task, TypeOK, RequestTypes, WorkTypes, AckTypes
<1>1. ASSUME GraphOpen(t)  PROVE Acts(t)
  BY <1>0, <1>1
  DEF GraphOpen, graphVars, pathVars, storeVars, envVars, Go, May, GraphErr, Finish,
     Reply, Acts, WalkFrom
<1>2. ASSUME GraphSwap(t)  PROVE Acts(t)
  BY <1>0, <1>2
  DEF GraphSwap, workVars, pathVars, storeVars, envVars, Go, GraphOk, Finish, Reply,
     Acts, WalkFrom
<1>3. ASSUME WalkGuard(t)  PROVE Acts(t)
  BY <1>0, <1>3
  DEF WalkGuard, workVars, provVars, graphVars, pathVars, storeVars, envVars, ackVars,
     Go, Acts, WalkFrom
<1>4. ASSUME WalkOpen(t)  PROVE Acts(t)
  BY <1>0, <1>4
  DEF WalkOpen, graphVars, pathVars, envVars, ackVars, Go, Finish, CreateFile,
     OpenReady, OpenFails, Reply, Acts, WalkFrom
<1>5. ASSUME WalkSchema(t)  PROVE Acts(t)
  BY <1>0, <1>5
  DEF WalkSchema, provVars, lcVars, graphVars, pathVars, envVars, ackVars, Go,
     CreateTables, Acts, WalkFrom
<1>6. ASSUME WalkFile(t)  PROVE Acts(t)
  BY <1>0, <1>6
  DEF WalkFile, graphVars, pathVars, envVars, ackVars, Finish, May, Reply, Acts,
     WalkFrom
<1>7. ASSUME WalkSwap(t)  PROVE Acts(t)
  BY <1>0, <1>7
  DEF WalkSwap, workVars, pathVars, storeVars, envVars, GraphOk, Go, Finish, Reply,
     Acts, WalkFrom
<1> QED  BY <1>1, <1>2, <1>3, <1>4, <1>5, <1>6, <1>7

LEMMA NotifyStepActs ==
    ASSUME TypeOK, Engaged, NEW n \in Notifies
    PROVE  \/ NotifyCall(n) \/ NotifyStart(n) \/ NotifyType(n) \/ NotifyOpen(n)
           \/ NotifySchema(n) \/ NotifyClean(n) \/ NotifySkip(n) \/ NotifyStore(n)
           => Acts(n)
<1>0. /\ n \in Task
      /\ pc \in [Task -> Labels] /\ snap \in [Task -> Rows]
      /\ files \in [Task -> SUBSET Sources] /\ known \in [Task -> [Sources -> Version]]
      /\ resp \in [Task -> {"none", "ok", "error", "panic", "cancelled", "lost"}]
  BY DEF Task, TypeOK, RequestTypes, WorkTypes, AckTypes
<1>1. ASSUME NotifyCall(n)  PROVE Acts(n)
  BY <1>0, <1>1
  DEF NotifyCall, workVars, lcVars, graphVars, pathVars, storeVars, envVars, ackVars,
     Go, Reply, Acts
<1>2. ASSUME NotifyStart(n)  PROVE Acts(n)
  BY <1>0, <1>2
  DEF NotifyStart, workVars, graphVars, pathVars, storeVars, envVars, ackVars, Go,
     Finish, Reply, Acts
<1>3. ASSUME NotifyType(n)  PROVE Acts(n)
  BY <1>0, <1>3
  DEF NotifyType, workVars, graphVars, pathVars, storeVars, envVars, ackVars, Go,
     Finish, Reply, Acts
<1>4. ASSUME NotifyOpen(n)  PROVE Acts(n)
  BY <1>0, <1>4
  DEF NotifyOpen, workVars, graphVars, pathVars, envVars, ackVars, Go, Finish,
     CreateFile, OpenReady, OpenFails, Reply, Acts
<1>5. ASSUME NotifySchema(n)  PROVE Acts(n)
  BY <1>0, <1>5
  DEF NotifySchema, workVars, provVars, lcVars, graphVars, pathVars, envVars, ackVars,
     Go, CreateTables, Acts
<1>6. ASSUME NotifyClean(n)  PROVE Acts(n)
  BY <1>0, <1>6
  DEF NotifyClean, workVars, graphVars, pathVars, envVars, ackVars, Go, Finish, May,
     Reply, Acts
<1>7. ASSUME NotifyStore(n)  PROVE Acts(n)
  BY <1>0, <1>7
  DEF NotifyStore, provVars, lcVars, graphVars, pathVars, envVars, Go, May, Acts
<1>8. ASSUME NotifySkip(n)  PROVE Acts(n)
  BY <1>0, <1>8
  DEF NotifySkip, graphVars, pathVars, storeVars, envVars, ackVars, Go, Finish, May,
     Reply, Acts
<1> QED  BY <1>1, <1>2, <1>3, <1>4, <1>5, <1>6, <1>7, <1>8

LEMMA EvalStepActs ==
    ASSUME TypeOK, Engaged, NEW e \in Evals
    PROVE  \/ EvalCall(e) \/ EvalStart(e) \/ EvalType(e) \/ EvalLock(e)
           \/ EvalQuery(e)
           => Acts(e)
<1>0. /\ e \in Task
      /\ pc \in [Task -> Labels] /\ snap \in [Task -> Rows]
      /\ files \in [Task -> SUBSET Sources] /\ known \in [Task -> [Sources -> Version]]
      /\ resp \in [Task -> {"none", "ok", "error", "panic", "cancelled", "lost"}]
  BY DEF Task, TypeOK, RequestTypes, WorkTypes, AckTypes
<1>1. ASSUME EvalCall(e)  PROVE Acts(e)
  BY <1>0, <1>1
  DEF EvalCall, workVars, lcVars, graphVars, pathVars, storeVars, envVars, Go, Reply,
     May, Acts
<1>2. ASSUME EvalStart(e)  PROVE Acts(e)
  BY <1>0, <1>2
  DEF EvalStart, workVars, graphVars, pathVars, storeVars, envVars, ackVars, Go, Finish,
     Reply, Acts
<1>3. ASSUME EvalType(e)  PROVE Acts(e)
  BY <1>0, <1>3
  DEF EvalType, workVars, lcVars, graphVars, pathVars, storeVars, envVars, ackVars, Go,
     Reply, Acts
<1>4. ASSUME EvalLock(e)  PROVE Acts(e)
  BY <1>0, <1>4
  DEF EvalLock, workVars, provVars, lcVars, pathVars, storeVars, envVars, ackVars, Go,
     Acts
<1>5. ASSUME EvalQuery(e)  PROVE Acts(e)
  BY <1>0, <1>5
  DEF EvalQuery, provVars, lcVars, pathVars, storeVars, envVars, Reply, May, Acts
<1> QED  BY <1>1, <1>2, <1>3, <1>4, <1>5

LEMMA CancelActs ==
    ASSUME TypeOK, Engaged, NEW t \in Task
    PROVE  \/ Cancel(t)
           => Acts(t)
<1>0. /\ t \in Task
      /\ pc \in [Task -> Labels] /\ snap \in [Task -> Rows]
      /\ files \in [Task -> SUBSET Sources] /\ known \in [Task -> [Sources -> Version]]
      /\ resp \in [Task -> {"none", "ok", "error", "panic", "cancelled", "lost"}]
  BY DEF Task, TypeOK, RequestTypes, WorkTypes, AckTypes
<1>1. ASSUME Cancel(t)  PROVE Acts(t)
  BY <1>0, <1>1
  DEF Cancel, workVars, lcVars, graphVars, pathVars, storeVars, envVars, ackVars, Reply,
     May, Acts
<1> QED  BY <1>1

LEMMA OthersStay ==
    ASSUME TypeOK, NEW t \in Task, Acts(t), Moved(t) \/ InitReplace(t)
    PROVE  \A u \in Task \ {t} :
              /\ pc'[u] = pc[u] /\ resp'[u] = resp[u] /\ cur'[u] = cur[u]
              /\ files'[u] = files[u] /\ snap'[u] = snap[u] /\ known'[u] = known[u]
<1>0. /\ pc \in [Task -> Labels] /\ snap \in [Task -> Rows]
      /\ files \in [Task -> SUBSET Sources] /\ known \in [Task -> [Sources -> Version]]
      /\ cur \in [Task -> Inits \cup {NoProject}]
      /\ resp \in [Task -> {"none", "ok", "error", "panic", "cancelled", "lost"}]
  BY DEF TypeOK, RequestTypes, WorkTypes, AckTypes
<1>1. \A u \in Task \ {t} : /\ resp'[u] = resp[u] /\ files'[u] = files[u]
                            /\ snap'[u] = snap[u] /\ known'[u] = known[u]
  BY <1>0 DEF Acts
<1>2. \A u \in Task \ {t} : pc'[u] = pc[u] /\ cur'[u] = cur[u]
  <2>1. CASE Moved(t)
    BY <1>0, <2>1 DEF Moved
  <2>2. CASE InitReplace(t)
    BY <1>0, <2>2 DEF InitReplace, Go
  <2> QED  BY <2>1, <2>2
<1> QED  BY <1>1, <1>2

\* Rows of source files are written to the store by a walk, or by a
\* notification, and both hold the project lock.
SourcesKept == \A f \in Sources : db'[f] = db[f]
Writes(t) == (t \in Notifies /\ (NotifyClean(t) \/ NotifyStore(t))) \/ WalkFile(t)

LEMMA StoreWriters ==
    ASSUME TypeOK, Engaged
    PROVE  /\ \A i \in Inits : InitCall(i) \/ InitStep(i) => SourcesKept \/ Writes(i)
           /\ \A i \in Inits : SdkStep(i) => SourcesKept
           /\ \A n \in Notifies : NotifyCall(n) \/ NotifyStep(n) =>
                 SourcesKept \/ Writes(n)
           /\ \A e \in Evals : EvalCall(e) \/ EvalStep(e) => SourcesKept
           /\ \A t \in Task : Cancel(t) => SourcesKept
<1>0. db \in Rows /\ \A f \in Sources : f \in Row /\ f \notin Deps /\ f # Sdk
  BY DEF TypeOK, StoreTypes, Row
<1>1. Still => SourcesKept
  BY DEF Still, SourcesKept
<1>2. ASSUME NEW i \in Inits, InitDeps(i)  PROVE SourcesKept
  <2>1. PICK stored \in SUBSET Deps : db' = StoreDeps(stored)
    BY <1>2 DEF InitDeps
  <2> QED  BY <2>1, RowVersions DEF SourcesKept
<1>13. ASSUME NEW i \in Inits, InitLoad(i)  PROVE SourcesKept
  BY <1>13 DEF InitLoad, storeVars, SourcesKept
<1>3. ASSUME NEW t \in Inits \cup Notifies, GraphStep(t)  PROVE SourcesKept \/ Writes(t)
  BY <1>3 DEF GraphStep, GraphOpen, GraphSwap, WalkGuard, WalkOpen, WalkSchema, WalkSwap,
              CreateFile, CreateTables, OpenReady, OpenFails, storeVars, SourcesKept, Writes
<1>4. ASSUME NEW i \in Inits, SdkStore(i)  PROVE SourcesKept
  BY <1>0, <1>4 DEF SdkStore, SourcesKept, Rows
<1>7. ASSUME NEW e \in Evals, EvalCall(e) \/ EvalQuery(e)  PROVE SourcesKept
  BY <1>7 DEF EvalCall, EvalQuery, storeVars, SourcesKept
<1>8. \A i \in Inits : InitCall(i) \/ InitStep(i) => SourcesKept \/ Writes(i)
  BY <1>1, <1>2, <1>3, <1>13, StillSteps DEF InitStep
<1>9. \A i \in Inits : SdkStep(i) => SourcesKept
  BY <1>1, <1>4, StillSteps DEF SdkStep
<1>10. \A n \in Notifies : NotifyCall(n) \/ NotifyStep(n) =>
          SourcesKept \/ Writes(n)
  BY <1>1, <1>3, StillSteps DEF NotifyStep, Writes
<1>11. \A e \in Evals : EvalCall(e) \/ EvalStep(e) => SourcesKept
  BY <1>1, <1>7, StillSteps DEF EvalStep
<1>12. \A t \in Task : Cancel(t) => SourcesKept
  BY <1>1, StillSteps
<1> QED  BY <1>8, <1>9, <1>10, <1>11, <1>12

-----------------------------------------------------------------------------
(* What is about to be published *)

\* No other request spoils what one is about to publish: whoever writes the store
\* holds the project lock, and so does the one that publishes.
LEMMA OthersReady ==
    ASSUME TypeOK, LockDiscipline, SnapCurrent, NEW t \in Task,
           Acts(t), Moved(t) \/ InitReplace(t), SourcesKept \/ pc[t] \in Holding
    PROVE  \A u \in (Inits \cup Notifies) \ {t} : Ready(u)'
<1> SUFFICES ASSUME NEW u \in (Inits \cup Notifies) \ {t}  PROVE Ready(u)'
  OBVIOUS
<1>0. u \in Task /\ u # t
  BY DEF Task
<1>1. /\ pc'[u] = pc[u] /\ cur'[u] = cur[u] /\ files'[u] = files[u] /\ snap'[u] = snap[u]
      /\ Ready(u)
  BY <1>0, OthersStay DEF SnapCurrent
<1>2. CASE pc[u] \notin {"swap", "walk"}
  BY <1>1, <1>2 DEF Ready
<1>3. CASE pc[u] \in {"swap", "walk"}
  <2>1. SourcesKept
    BY <1>0, <1>3, LabelSets DEF LockDiscipline, Exclusion
  <2>2. \A f \in Below(cur[u]) : db'[f].ver = db[f].ver
    BY <2>1 DEF SourcesKept, Below
  <2> QED  BY <1>1, <2>2 DEF Ready
<1> QED  BY <1>2, <1>3

LEMMA PublisherReady ==
    ASSUME TypeOK, Engaged, StoreBound, SnapCurrent, NEW t \in Inits \cup Notifies
    PROVE  GraphStep(t) => Ready(t)'
<1>0. t \in Task /\ pc \in [Task -> Labels] /\ snap \in [Task -> Rows]
               /\ files \in [Task -> SUBSET Sources]
  BY DEF Task, TypeOK, RequestTypes, WorkTypes
<1>n. \A f \in Sources : disk[f].ver \in Nat /\ db[f].ver \in Nat /\ db[f].ver <= disk[f].ver
  BY VersionsAreNumbers DEF Numbers, StoreBound
<1>1. CASE pc'[t] \notin {"swap", "walk"}
  BY <1>1 DEF Ready
<1>2. ASSUME GraphOpen(t), pc'[t] = "swap"  PROVE Ready(t)'
  <2>1. snap'[t] = Load(cur[t]) /\ db' = db /\ cur' = cur
    BY <1>0, <1>2 DEF GraphOpen, GraphErr, Go, Finish, Reply, storeVars
  <2>2. cur[t] \in Inits
    BY <1>0, <1>2, LabelSets DEF GraphOpen, Engaged
  <2>3. \A f \in Below(cur[t]) : Load(cur[t])[f] = db[f] /\ db[f].ver <= db[f].ver
    BY <1>n, <2>2, RowVersions DEF Below
  <2> QED  BY <1>2, <2>1, <2>3 DEF Ready
<1>3. ASSUME WalkOpen(t) \/ WalkSchema(t), pc'[t] = "walk"  PROVE Ready(t)'
  <2>1. WalkFrom(t) /\ db' = db /\ cur' = cur
    BY <1>0, <1>3 DEF WalkOpen, WalkSchema, Go, Finish, Reply, CreateFile, CreateTables,
                      OpenReady, storeVars
  <2>2. \A f \in Below(cur[t]) : f \notin files'[t] => snap'[t][f].ver = disk[f].ver
    BY <1>0, <2>1 DEF WalkFrom, Below, Row
  <2>3. \A f \in Below(cur[t]) : f \notin files'[t] => db[f].ver <= snap'[t][f].ver
    BY <1>n, <2>2 DEF Below
  <2> QED  BY <1>3, <2>1, <2>3 DEF Ready
<1>4. ASSUME WalkFile(t), pc'[t] = "walk"  PROVE Ready(t)'
  <2>1. /\ cur' = cur /\ pc[t] = "walk"
        /\ \E g \in files[t] :
              /\ db' = IF disk[g].st = "ok"
                       THEN [db EXCEPT ![g] = [ver |-> disk[g].ver, live |-> TRUE]] ELSE db
              /\ snap' = [snap EXCEPT ![t][g] = [ver |-> disk[g].ver, live |-> disk[g].st = "ok"]]
              /\ files' = [files EXCEPT ![t] = @ \ {g}]
    BY <1>0, <1>4 DEF WalkFile, Finish, Reply
  <2>2. PICK g \in files[t] :
              /\ db' = IF disk[g].st = "ok"
                       THEN [db EXCEPT ![g] = [ver |-> disk[g].ver, live |-> TRUE]] ELSE db
              /\ snap' = [snap EXCEPT ![t][g] = [ver |-> disk[g].ver, live |-> disk[g].st = "ok"]]
              /\ files' = [files EXCEPT ![t] = @ \ {g}]
    BY <2>1
  <2>3. g \in Sources /\ g \in Row /\ db \in Rows
    BY <1>0 DEF Row, TypeOK, StoreTypes
  <2>4. db'[g].ver <= disk[g].ver /\ snap'[t][g].ver = disk[g].ver
    BY <1>0, <1>n, <2>2, <2>3 DEF Rows
  <2>5. \A f \in Sources : f # g => db'[f] = db[f] /\ snap'[t][f] = snap[t][f]
    BY <1>0, <2>2, <2>3 DEF Rows
  <2>6. files'[t] = files[t] \ {g}
    BY <1>0, <2>2
  <2>7. ASSUME NEW f \in Below(cur[t]), f \notin files'[t]
        PROVE  db'[f].ver <= snap'[t][f].ver
    <3>1. CASE f = g
      BY <1>n, <2>3, <2>4, <3>1
    <3>2. CASE f # g
      <4>1. f \in Sources /\ f \notin files[t]
        BY <2>6, <2>7, <3>2 DEF Below
      <4>2. db[f].ver <= snap[t][f].ver
        BY <2>1, <4>1 DEF SnapCurrent, Ready
      <4> QED  BY <2>5, <3>2, <4>1, <4>2
    <3> QED  BY <3>1, <3>2
  <2> QED  BY <1>4, <2>1, <2>7 DEF Ready
<1>5. GraphOpen(t) => pc'[t] # "walk"
  BY <1>0 DEF GraphOpen, GraphErr, Go, Finish, Reply
<1>6. WalkOpen(t) \/ WalkSchema(t) \/ WalkFile(t) => pc'[t] # "swap"
  BY <1>0 DEF WalkOpen, WalkSchema, WalkFile, Go, Finish, Reply
<1>7. GraphSwap(t) \/ WalkGuard(t) \/ WalkSwap(t) => pc'[t] \notin {"swap", "walk"}
  BY <1>0 DEF GraphSwap, WalkGuard, WalkSwap, GraphOk, Go, Finish, Reply
<1> QED  BY <1>1, <1>2, <1>3, <1>4, <1>5, <1>6, <1>7 DEF GraphStep

\* Labels of a request that is about to publish: the graph code takes it there.
Publishing == {"swap", "walkGuard", "walkOpen", "walkSchema", "walk"}

LEMMA NotPublishing ==
    ASSUME TypeOK, Engaged
    PROVE  /\ \A i \in Inits : InitCall(i) \/ InitStep(i) =>
                 pc'[i] \notin Publishing \/ GraphStep(i)
           /\ \A n \in Notifies : NotifyCall(n) \/ NotifyStep(n) =>
                 pc'[n] \notin Publishing \/ GraphStep(n)
           /\ \A t \in Task : Cancel(t) => pc'[t] \notin Publishing
<1>0. pc \in [Task -> Labels] /\ Inits \subseteq Task /\ Notifies \subseteq Task
  BY DEF TypeOK, RequestTypes, Task
<1>2. ASSUME NEW i \in Inits, InitCall(i) \/ InitConfig(i) \/ InitReplace(i) \/ InitUnlock(i)
                              \/ InitRelock(i) \/ InitBind(i)
      PROVE  pc'[i] \notin Publishing
  BY <1>0, <1>2 DEF InitCall, InitConfig, InitReplace, InitUnlock, InitRelock, InitBind, Go,
                    Reply, Finish, Publishing
<1>3. ASSUME NEW i \in Inits, InitValidate(i) \/ InitResolve(i) \/ InitJoin(i)
                              \/ InitDeps(i) \/ InitLoad(i)
      PROVE  pc'[i] \notin Publishing
  BY <1>0, <1>3 DEF InitValidate, InitResolve, InitJoin, InitDeps, InitLoad, Go, Reply,
                    Finish, Publishing
<1>4. ASSUME NEW n \in Notifies, NotifyCall(n) \/ NotifyStart(n) \/ NotifyType(n)
                                 \/ NotifyOpen(n) \/ NotifySchema(n)
      PROVE  pc'[n] \notin Publishing
  BY <1>0, <1>4 DEF NotifyCall, NotifyStart, NotifyType, NotifyOpen, NotifySchema, Go, Reply,
                    Finish, Publishing
<1>5. ASSUME NEW n \in Notifies, NotifyClean(n) \/ NotifySkip(n) \/ NotifyStore(n)
      PROVE  pc'[n] \notin Publishing
  BY <1>0, <1>5 DEF NotifyClean, NotifySkip, NotifyStore, Go, Reply, Finish, Publishing
<1>6. ASSUME NEW t \in Task, Cancel(t)  PROVE pc'[t] \notin Publishing
  BY <1>0, <1>6 DEF Cancel, Reply, Publishing
<1>7. \A i \in Inits : InitCall(i) \/ InitStep(i) => pc'[i] \notin Publishing \/ GraphStep(i)
  BY <1>2, <1>3 DEF InitStep
<1>8. \A n \in Notifies : NotifyCall(n) \/ NotifyStep(n) =>
         pc'[n] \notin Publishing \/ GraphStep(n)
  BY <1>4, <1>5 DEF NotifyStep
<1> QED  BY <1>6, <1>7, <1>8

\* Every step is one of a request, one of an SDK loader, or the environment's.
RequestStep(t) ==
    \/ t \in Inits /\ (InitCall(t) \/ InitStep(t))
    \/ t \in Notifies /\ (NotifyCall(t) \/ NotifyStep(t))
    \/ t \in Evals /\ (EvalCall(t) \/ EvalStep(t))
    \/ Cancel(t)

LEMMA WhoseStep ==
    [Next]_vars => \/ \E t \in Task : RequestStep(t)
                   \/ \E i \in Inits : SdkStep(i)
                   \/ \E f \in Sources : Edit(f)
                   \/ Crash
                   \/ UNCHANGED vars
BY DEF Next, RequestStep, Task, Idle

LEMMA RequestSteps ==
    ASSUME TypeOK, Engaged, NEW t \in Task, RequestStep(t)
    PROVE  /\ Acts(t)
           /\ Moved(t) \/ (t \in Inits /\ InitReplace(t))
           /\ SourcesKept \/ Writes(t)
           /\ Writes(t) => pc[t] \in {"clean", "store", "walk"} \cap Holding
           /\ t \in Inits \cup Notifies => pc'[t] \notin Publishing \/ GraphStep(t)
<1>0. Writes(t) => pc[t] \in {"clean", "store", "walk"} \cap Holding
  BY LabelSets DEF Writes, NotifyClean, NotifyStore, WalkFile
<1>1. CASE t \in Inits /\ (InitCall(t) \/ InitStep(t))
  <2>1. Acts(t)
    BY <1>1, InitStepActs, GraphStepActs DEF InitStep, GraphStep
  <2>2. Moved(t) \/ InitReplace(t)
    BY <1>1, InitStepMoved, GraphStepMoved DEF InitStep, GraphStep
  <2> QED  BY <1>0, <1>1, <2>1, <2>2, StoreWriters, NotPublishing
<1>2. CASE t \in Notifies /\ (NotifyCall(t) \/ NotifyStep(t))
  <2>1. Acts(t)
    BY <1>2, NotifyStepActs, GraphStepActs DEF NotifyStep, GraphStep
  <2>2. Moved(t)
    BY <1>2, NotifyStepMoved, GraphStepMoved DEF NotifyStep, GraphStep
  <2> QED  BY <1>0, <1>2, <2>1, <2>2, StoreWriters, NotPublishing
<1>3. CASE t \in Evals /\ (EvalCall(t) \/ EvalStep(t))
  <2>1. Acts(t) /\ Moved(t)
    BY <1>3, EvalStepActs, EvalStepMoved DEF EvalStep
  <2> QED  BY <1>0, <1>3, <2>1, StoreWriters
<1>4. CASE Cancel(t)
  BY <1>0, <1>4, CancelActs, CancelMoved, StoreWriters, NotPublishing
<1> QED  BY <1>1, <1>2, <1>3, <1>4 DEF RequestStep

\* Requests leave the disk alone.
LEMMA DiskStays == ASSUME NEW t \in Task, RequestStep(t)  PROVE disk' = disk
<1>1. ASSUME NEW i \in Inits,
             InitCall(i) \/ InitConfig(i) \/ InitReplace(i) \/ InitUnlock(i) \/ InitRelock(i)
      PROVE  disk' = disk
  BY <1>1 DEF InitCall, InitConfig, InitReplace, InitUnlock, InitRelock, envVars
<1>2. ASSUME NEW i \in Inits,
             \/ InitBind(i) \/ InitValidate(i) \/ InitResolve(i) \/ InitJoin(i)
             \/ InitDeps(i) \/ InitLoad(i)
      PROVE  disk' = disk
  BY <1>2 DEF InitBind, InitValidate, InitResolve, InitJoin, InitDeps, InitLoad, envVars
<1>3. ASSUME NEW u \in Inits \cup Notifies, GraphStep(u)  PROVE disk' = disk
  BY <1>3 DEF GraphStep, GraphOpen, GraphSwap, WalkGuard, WalkOpen, WalkSchema, WalkFile,
              WalkSwap, envVars
<1>4. ASSUME NEW n \in Notifies,
             \/ NotifyCall(n) \/ NotifyStart(n) \/ NotifyType(n) \/ NotifyOpen(n)
             \/ NotifySchema(n) \/ NotifyClean(n) \/ NotifySkip(n) \/ NotifyStore(n)
      PROVE  disk' = disk
  BY <1>4 DEF NotifyCall, NotifyStart, NotifyType, NotifyOpen, NotifySchema, NotifyClean,
              NotifySkip, NotifyStore, envVars
<1>5. ASSUME NEW e \in Evals, EvalCall(e) \/ EvalStep(e)  PROVE disk' = disk
  BY <1>5 DEF EvalCall, EvalStep, EvalStart, EvalType, EvalLock, EvalQuery, envVars
<1>6. ASSUME Cancel(t)  PROVE disk' = disk
  BY <1>6 DEF Cancel, envVars
<1> QED  BY <1>1, <1>2, <1>3, <1>4, <1>5, <1>6 DEF RequestStep, InitStep, NotifyStep

LEMMA SnapStep ==
    ASSUME TypeOK, Engaged, LockDiscipline, StoreBound, SnapCurrent, [Next]_vars
    PROVE  SnapCurrent'
<1>1. ASSUME NEW t \in Task, RequestStep(t)  PROVE SnapCurrent'
  <2>1. \A u \in (Inits \cup Notifies) \ {t} : Ready(u)'
    BY <1>1, RequestSteps, OthersReady
  <2>2. t \in Inits \cup Notifies => Ready(t)'
    <3>1. pc'[t] \notin Publishing => Ready(t)'
      BY DEF Publishing, Ready
    <3> QED  BY <1>1, <3>1, RequestSteps, PublisherReady
  <2> QED  BY <2>1, <2>2 DEF SnapCurrent
<1>2. ASSUME SourcesKept, UNCHANGED <<pc, cur, snap, files>>  PROVE SnapCurrent'
  <2>1. \A l : \A f \in Below(l) : db'[f].ver = db[f].ver
    BY <1>2 DEF SourcesKept, Below
  <2> QED  BY <1>2, <2>1 DEF SnapCurrent, Ready
<1>3. ASSUME NEW i \in Inits, SdkStep(i)  PROVE SnapCurrent'
  <2>1. UNCHANGED <<pc, cur, snap, files>>
    BY <1>3 DEF SdkStep, SdkOpen, SdkSchema, SdkStore, SdkMark, reqVars, workVars
  <2> QED  BY <1>2, <1>3, <2>1, StoreWriters
<1>4. ASSUME NEW f \in Sources, Edit(f)  PROVE SnapCurrent'
  BY <1>2, <1>4 DEF Edit, reqVars, workVars, storeVars, SourcesKept
<1>5. ASSUME Crash  PROVE SnapCurrent'
  <2>1. \A t \in Inits \cup Notifies : pc'[t] \notin {"swap", "walk"}
    BY <1>5 DEF Crash, Task
  <2> QED  BY <2>1 DEF SnapCurrent, Ready
<1>6. ASSUME UNCHANGED vars  PROVE SnapCurrent'
  BY <1>2, <1>6 DEF vars, reqVars, workVars, storeVars, SourcesKept
<1> QED  BY <1>1, <1>3, <1>4, <1>5, <1>6, WhoseStep

-----------------------------------------------------------------------------
(* The graph that answers *)

\* A request puts a graph in place of its project's that is no older than the store.
Publishes(t) ==
    /\ t \in Inits \cup Notifies /\ pc[t] \in Holding /\ cur[t] \in Inits
    /\ UNCHANGED <<db, disk, project, known>>
    /\ \A f \in Sources : acked[f] <= acked'[f]
    /\ \A f \in Below(cur[t]) : db[f].ver <= graph'[cur[t]][f].ver
    /\ \A q \in Inits : q # cur[t] => graph'[q] = graph[q]

\* An evaluate shows its client a graph.
Shows(e) ==
    /\ e \in Evals /\ pc[e] = "query" /\ pc'[e] = "done" /\ resp'[e] = "ok"
    /\ cur[e] \in Inits /\ graph[cur[e]] # NoGraph
    /\ UNCHANGED <<graph, project, known, cur>>
    /\ acked' = Shown(cur[e]) /\ snap'[e] = graph[cur[e]]

LEMMA GraphChanges ==
    ASSUME Reliable, TypeOK, Engaged, NeverPoisoned, SnapCurrent, StoreBound,
           NEW t \in Task, RequestStep(t)
    PROVE  Publishes(t) \/ Shows(t) \/ UNCHANGED <<graph, acked>>
<1>0. /\ pc \in [Task -> Labels] /\ snap \in [Task -> Rows] /\ cur \in [Task -> Inits \cup {NoProject}]
      /\ resp \in [Task -> {"none", "ok", "error", "panic", "cancelled", "lost"}]
      /\ graph \in [Inits -> Rows \cup {NoGraph}]
  BY DEF TypeOK, RequestTypes, WorkTypes, GraphTypes
<1>1. pc[t] \in {"load", "swap", "walk", "query"} => cur[t] \in Inits
  BY LabelSets DEF Engaged
<1>2. ASSUME GraphSwap(t) \/ WalkSwap(t), t \in Inits \cup Notifies  PROVE Publishes(t)
  <2>1. /\ UNCHANGED <<db, disk, project, known>> /\ pc[t] \in {"swap", "walk"}
        /\ pc[t] = "walk" => files[t] = {}
    BY <1>2 DEF GraphSwap, WalkSwap, storeVars, envVars
  <2>3. \A f \in Below(cur[t]) : db[f].ver <= snap[t][f].ver
    BY <1>2, <2>1 DEF SnapCurrent, Ready
  <2>4. graph' = [graph EXCEPT ![cur[t]] = snap[t]]
    BY <1>1, <1>2, <2>1 DEF GraphSwap, WalkSwap, NeverPoisoned
  <2>5. graph'[cur[t]] = snap[t] /\ \A q \in Inits : q # cur[t] => graph'[q] = graph[q]
    BY <1>0, <1>1, <2>1, <2>4
  <2>6. \A f \in Sources : acked[f] <= acked'[f]
    <3> TAKE f \in Sources
    <3>1. acked[f] \in Nat /\ known[t][f] \in Nat
      BY VersionsAreNumbers DEF Numbers
    <3>2. \/ UNCHANGED acked
          \/ acked'[f] = IF known[t][f] > acked[f] THEN known[t][f] ELSE acked[f]
      BY <1>2 DEF GraphSwap, WalkSwap, GraphOk
    <3> QED  BY <3>1, <3>2
  <2> QED  BY <1>1, <1>2, <2>1, <2>3, <2>5, <2>6, LabelSets DEF Publishes
<1>3. ASSUME t \in Inits, InitLoad(t)  PROVE Publishes(t)
  <2>1. /\ UNCHANGED <<db, disk, project, known>> /\ pc[t] = "load"
        /\ graph' = [graph EXCEPT ![cur[t]] = Load(cur[t])]
    BY <1>1, <1>3 DEF InitLoad, storeVars, envVars, ackVars, NeverPoisoned, Reliable, May
  <2>2. \A f \in Below(cur[t]) : Load(cur[t])[f] = db[f] /\ db[f].ver <= db[f].ver
    BY <1>1, <2>1, RowVersions, VersionsAreNumbers DEF Below, Numbers
  <2>3. /\ graph'[cur[t]] = Load(cur[t])
        /\ \A q \in Inits : q # cur[t] => graph'[q] = graph[q]
    BY <1>0, <1>1, <2>1
  <2>4. acked' = acked /\ \A f \in Sources : acked[f] <= acked[f]
    BY <1>3, VersionsAreNumbers DEF InitLoad, ackVars, Numbers
  <2> QED  BY <1>1, <1>3, <2>1, <2>2, <2>3, <2>4, LabelSets DEF Publishes
<1>4. ASSUME t \in Evals, EvalQuery(t)  PROVE Shows(t) \/ UNCHANGED <<graph, acked>>
  <2>1. /\ UNCHANGED <<graph, project, known, cur>> /\ pc[t] = "query" /\ pc'[t] = "done"
        /\ \/ UNCHANGED acked
           \/ /\ graph[cur[t]] # NoGraph /\ acked' = Shown(cur[t]) /\ resp'[t] = "ok"
              /\ snap' = [snap EXCEPT ![t] = graph[cur[t]]]
    BY <1>0, <1>4 DEF EvalQuery, Reply, provVars
  <2> QED  BY <1>0, <1>1, <1>4, <2>1 DEF Shows
<1>5. ASSUME GraphStep(t)  PROVE GraphSwap(t) \/ WalkSwap(t) \/ UNCHANGED <<graph, acked>>
  BY <1>5 DEF GraphStep, GraphOpen, WalkGuard, WalkOpen, WalkSchema, WalkFile, GraphErr,
              graphVars, ackVars
<1>6. Still => UNCHANGED <<graph, acked>>
  BY DEF Still
<1>7. ASSUME t \in Inits, InitCall(t) \/ InitStep(t)
      PROVE  Publishes(t) \/ UNCHANGED <<graph, acked>>
  <2>1. InitDeps(t) => UNCHANGED <<graph, acked>>
    BY DEF InitDeps, graphVars, ackVars
  <2> QED  BY <1>2, <1>3, <1>5, <1>6, <1>7, <2>1, StillSteps DEF InitStep
<1>8. ASSUME t \in Notifies, NotifyCall(t) \/ NotifyStep(t)
      PROVE  Publishes(t) \/ UNCHANGED <<graph, acked>>
  <2>1. NotifyClean(t) \/ NotifyStore(t) => UNCHANGED <<graph, acked>>
    BY DEF NotifyClean, NotifyStore, graphVars, ackVars
  <2> QED  BY <1>2, <1>5, <1>6, <1>8, <2>1, StillSteps DEF NotifyStep
<1>9. ASSUME t \in Evals, EvalCall(t) \/ EvalStep(t)
      PROVE  Shows(t) \/ UNCHANGED <<graph, acked>>
  <2>1. EvalCall(t) => UNCHANGED <<graph, acked>>
    BY DEF EvalCall, graphVars
  <2> QED  BY <1>4, <1>6, <1>9, <2>1, StillSteps DEF EvalStep
<1>10. Cancel(t) => UNCHANGED <<graph, acked>>
  BY <1>6, StillSteps
<1> QED  BY <1>7, <1>8, <1>9, <1>10 DEF RequestStep

\* A graph that is put in place is as new as the store, which has what clients know
\* of and what any graph shows.
LEMMA PublishedCurrent ==
    ASSUME TypeOK, TypeOK', LockDiscipline, ProjectKept, GraphBound, StoreBound', NEW t \in Task,
           Publishes(t)
    PROVE  /\ PlaceCurrent'
           /\ graph'[cur[t]] # NoGraph =>
                 \A f \in Below(cur[t]) : acked'[f] <= graph'[cur[t]][f].ver
<1>1. cur[t] = project /\ project' = project /\ db' = db /\ cur[t] \in Inits
  BY DEF Publishes, ProjectKept
<1>2. Numbers'
  BY VersionsAreNumbers, PTL
<1>3. ASSUME NEW f \in Below(cur[t]), graph'[cur[t]] # NoGraph
      PROVE  /\ acked'[f] <= graph'[cur[t]][f].ver
             /\ \A q \in Inits : graph'[q] # NoGraph /\ graph'[q][f].live =>
                   graph'[q][f].ver <= graph'[cur[t]][f].ver
  <2>0. f \in Sources
    BY DEF Below
  <2>1. /\ db[f].ver \in Nat /\ acked'[f] \in Nat
        /\ \A q \in Inits : graph'[q] # NoGraph => graph'[q][f].ver \in Nat
    BY <1>1, <1>2, <2>0, VersionsAreNumbers DEF Numbers
  <2>2. db[f].ver <= graph'[cur[t]][f].ver
    BY DEF Publishes
  <2>3. acked'[f] <= db[f].ver
    BY <1>1, <2>0 DEF StoreBound
  <2>4. ASSUME NEW q \in Inits, graph'[q] # NoGraph, graph'[q][f].live
        PROVE  graph'[q][f].ver <= graph'[cur[t]][f].ver
    <3>1. CASE q = cur[t]
      BY <1>3, <2>1, <3>1
    <3>2. CASE q # cur[t]
      <4>1. graph'[q] = graph[q]
        BY <3>2 DEF Publishes
      <4>2. graph'[q][f].ver <= db[f].ver
        BY <2>0, <2>4, <4>1 DEF GraphBound, Bounded
      <4> QED  BY <1>1, <1>3, <2>1, <2>2, <2>4, <4>2
    <3> QED  BY <3>1, <3>2
  <2> QED  BY <1>1, <1>3, <2>1, <2>2, <2>3, <2>4
<1> QED  BY <1>1, <1>3 DEF PlaceCurrent

\* What a client is shown is no newer than the graph of the project in place.
LEMMA ShownCurrent ==
    ASSUME TypeOK, PlaceCurrent, NEW e \in Task, Shows(e)
    PROVE  PlaceCurrent'
<1>1. /\ graph' = graph /\ project' = project /\ cur[e] \in Inits /\ graph[cur[e]] # NoGraph
      /\ acked' = Shown(cur[e])
  BY DEF Shows
<1>2. ASSUME project \in Inits, graph[project] # NoGraph, NEW f \in Below(project)
      PROVE  acked'[f] <= graph[project][f].ver
  <2>1. /\ acked[f] <= graph[project][f].ver
        /\ graph[cur[e]][f].live => graph[cur[e]][f].ver <= graph[project][f].ver
    BY <1>1, <1>2 DEF PlaceCurrent
  <2>2. /\ f \in Sources /\ acked[f] \in Nat
        /\ graph[project][f].ver \in Nat /\ graph[cur[e]][f].ver \in Nat
    BY <1>1, <1>2, VersionsAreNumbers DEF Below, Numbers
  <2> QED  BY <1>1, <2>1, <2>2 DEF Shown
<1> QED  BY <1>1, <1>2 DEF PlaceCurrent

LEMMA PlaceStep ==
    ASSUME Reliable, TypeOK, TypeOK', Engaged, LockDiscipline, FreshInv, StoreBound', [Next]_vars
    PROVE  PlaceCurrent'
<1>0. /\ StoreBound /\ GraphBound /\ ProjectKept /\ PlaceCurrent /\ SnapCurrent
      /\ NeverPoisoned
  BY DEF FreshInv, GraphCurrent
<1>1. UNCHANGED <<graph, acked, project>> => PlaceCurrent'
  BY <1>0 DEF PlaceCurrent
<1>2. ASSUME NEW t \in Task, RequestStep(t)  PROVE PlaceCurrent'
  <2>1. CASE UNCHANGED <<graph, acked>> /\ Moved(t)
    BY <1>1, <2>1 DEF Moved
  <2>2. CASE t \in Inits /\ InitReplace(t)
    <3>1. graph' = graph /\ project' = t /\ pc[t] = "project"
      BY <2>2 DEF InitReplace, graphVars
    <3>2. graph'[project'] = NoGraph
      BY <1>0, <2>2, <3>1 DEF ProjectKept, Early
    <3> QED  BY <3>2 DEF PlaceCurrent
  <2>3. CASE Publishes(t)
    BY <1>0, <2>3, PublishedCurrent
  <2>4. CASE Shows(t)
    BY <1>0, <2>4, ShownCurrent
  <2> QED  BY <1>0, <1>2, <2>1, <2>2, <2>3, <2>4, GraphChanges, RequestSteps
<1>3. ASSUME NEW i \in Inits, SdkStep(i)  PROVE PlaceCurrent'
  BY <1>1, <1>3 DEF SdkStep, SdkOpen, SdkSchema, SdkStore, SdkMark, provVars, graphVars, ackVars
<1>4. ASSUME NEW f \in Sources, Edit(f)  PROVE PlaceCurrent'
  BY <1>1, <1>4 DEF Edit, provVars, graphVars, ackVars
<1>5. ASSUME Crash  PROVE PlaceCurrent'
  BY <1>5 DEF Crash, PlaceCurrent
<1>6. ASSUME UNCHANGED vars  PROVE PlaceCurrent'
  BY <1>1, <1>6 DEF vars, provVars, graphVars, ackVars
<1> QED  BY <1>2, <1>3, <1>4, <1>5, <1>6, WhoseStep

\* An evaluate comes to the graph with the project in place, and stays with it.
LEMMA EvalMoves ==
    ASSUME TypeOK, Engaged, NEW e \in Evals, e \in Task, RequestStep(e)
    PROVE  /\ pc'[e] \in {"type", "graph", "query"} =>
                 /\ graph' = graph /\ known'[e] = known[e]
                 /\ (pc[e] \in {"type", "graph", "query"} /\ cur'[e] = cur[e])
                       \/ cur'[e] = project
           /\ resp'[e] = "ok" /\ resp[e] # "ok" => Shows(e)
<1>0. /\ pc \in [Task -> Labels] /\ cur \in [Task -> Inits \cup {NoProject}]
      /\ snap \in [Task -> Rows]
      /\ resp \in [Task -> {"none", "ok", "error", "panic", "cancelled", "lost"}]
      /\ e \notin Inits /\ e \notin Notifies
  BY DEF TypeOK, RequestTypes, WorkTypes
<1>1. ASSUME EvalCall(e)
      PROVE  pc'[e] \in {"wait", "done"} /\ (resp'[e] # "ok" \/ resp'[e] = resp[e])
  BY <1>0, <1>1 DEF EvalCall, Go, Reply
<1>2. ASSUME EvalStart(e)
      PROVE  /\ graph' = graph /\ known' = known
             /\ pc'[e] = "type" => cur'[e] = project
             /\ pc'[e] \in {"type", "done"} /\ (resp'[e] # "ok" \/ resp'[e] = resp[e])
  BY <1>0, <1>2 DEF EvalStart, Go, Finish, Reply, graphVars, ackVars
<1>3. ASSUME EvalType(e) \/ EvalLock(e)
      PROVE  /\ graph' = graph /\ known' = known /\ cur' = cur
             /\ pc[e] \in {"type", "graph", "query"}
             /\ resp'[e] # "ok" \/ resp'[e] = resp[e]
  BY <1>0, <1>3 DEF EvalType, EvalLock, Go, Reply, graphVars, ackVars
<1>4. ASSUME EvalQuery(e)  PROVE pc'[e] = "done" /\ (resp'[e] = "ok" => Shows(e))
  <2>1. cur[e] \in Inits /\ pc[e] = "query" /\ pc'[e] = "done"
    BY <1>0, <1>4 DEF EvalQuery, Engaged, EvalLabels, Reply
  <2>2. ASSUME resp'[e] = "ok"
        PROVE  /\ graph[cur[e]] # NoGraph /\ acked' = Shown(cur[e])
               /\ snap' = [snap EXCEPT ![e] = graph[cur[e]]]
    BY <1>0, <1>4, <2>2 DEF EvalQuery, Reply
  <2>3. UNCHANGED <<graph, project, known, cur>>
    BY <1>4 DEF EvalQuery, provVars
  <2> QED  BY <1>0, <2>1, <2>2, <2>3 DEF Shows
<1>5. ASSUME Cancel(e)  PROVE pc'[e] = "done" /\ resp'[e] # "ok"
  BY <1>0, <1>5 DEF Cancel, Reply
<1> QED  BY <1>0, <1>1, <1>2, <1>3, <1>4, <1>5 DEF RequestStep, EvalStep

LEMMA ServedStep ==
    ASSUME Reliable, TypeOK, TypeOK', Engaged, LockDiscipline, FreshInv, StoreBound', [Next]_vars
    PROVE  EvalsServed'
<1>0. /\ StoreBound /\ GraphBound /\ ProjectKept /\ PlaceCurrent /\ EvalsServed
      /\ SnapCurrent /\ NeverPoisoned
  BY DEF FreshInv, GraphCurrent
<1>1. UNCHANGED <<graph, known, pc, cur>> => EvalsServed'
  BY <1>0 DEF EvalsServed
<1>2. ASSUME NEW t \in Task, RequestStep(t), NEW e \in Evals,
             pc'[e] \in {"type", "graph", "query"}, graph'[cur'[e]] # NoGraph,
             NEW f \in Below(cur'[e])
      PROVE  known'[e][f] <= graph'[cur'[e]][f].ver
  <2>0. e \in Task /\ f \in Sources
    BY DEF Task, Below
  <2>1. CASE e = t
    <3>1. CASE pc[e] \in {"type", "graph", "query"} /\ cur'[e] = cur[e]
      BY <1>0, <1>2, <2>0, <2>1, <3>1, EvalMoves DEF EvalsServed
    <3>2. CASE cur'[e] = project
      <4>1. graph' = graph /\ known'[e] = known[e]
        BY <1>2, <2>0, <2>1, EvalMoves
      <4>2. project \in Inits
        BY <1>0, <1>2, <2>0, <2>1, <3>2, EvalMoves, TypesStep, LabelSets
        DEF Engaged
      <4>3. acked[f] <= graph[project][f].ver
        BY <1>0, <1>2, <3>2, <4>1, <4>2 DEF PlaceCurrent
      <4>4. known[e][f] <= acked[f]
        BY <1>0, <2>0 DEF StoreBound
      <4>5. known[e][f] \in Nat /\ acked[f] \in Nat /\ graph[project][f].ver \in Nat
        BY <1>2, <2>0, <3>2, <4>1, <4>2, VersionsAreNumbers DEF Numbers
      <4> QED  BY <3>2, <4>1, <4>3, <4>4, <4>5
    <3> QED  BY <1>2, <2>0, <2>1, <3>1, <3>2, EvalMoves
  <2>2. CASE e # t
    <3>1. pc'[e] = pc[e] /\ cur'[e] = cur[e] /\ known'[e] = known[e]
      BY <1>2, <2>0, <2>2, RequestSteps, OthersStay
    <3>2. CASE graph'[cur[e]] = graph[cur[e]]
      BY <1>0, <1>2, <3>1, <3>2 DEF EvalsServed
    <3>3. CASE Publishes(t) /\ cur[e] = cur[t]
      <4>1. acked'[f] <= graph'[cur[t]][f].ver
        BY <1>0, <1>2, <3>1, <3>3, PublishedCurrent
      <4>2. known'[e][f] <= acked'[f]
        BY <2>0 DEF StoreBound
      <4>3. Numbers'
        BY VersionsAreNumbers, PTL
      <4>4. cur[t] \in Inits
        BY <3>3 DEF Publishes
      <4>5. known'[e][f] \in Nat /\ acked'[f] \in Nat /\ graph'[cur[t]][f].ver \in Nat
        BY <1>2, <2>0, <3>1, <3>3, <4>3, <4>4 DEF Numbers
      <4> QED  BY <3>1, <3>3, <4>1, <4>2, <4>5
    <3>4. cur[e] \in Inits
      BY <1>2, <2>0, <3>1, LabelSets DEF Engaged
    <3> QED  BY <1>0, <1>2, <3>2, <3>3, <3>4, GraphChanges DEF Publishes, Shows
  <2> QED  BY <2>1, <2>2
<1>3. ASSUME NEW t \in Task, RequestStep(t)  PROVE EvalsServed'
  BY <1>2, <1>3 DEF EvalsServed
<1>4. ASSUME NEW i \in Inits, SdkStep(i)  PROVE EvalsServed'
  BY <1>1, <1>4 DEF SdkStep, SdkOpen, SdkSchema, SdkStore, SdkMark, reqVars, graphVars, ackVars
<1>5. ASSUME NEW f \in Sources, Edit(f)  PROVE EvalsServed'
  BY <1>1, <1>5 DEF Edit, reqVars, graphVars, ackVars
<1>6. ASSUME Crash  PROVE EvalsServed'
  <2>1. \A e \in Evals : pc'[e] \in {"idle", "done"}
    BY <1>6 DEF Crash, Task
  <2> QED  BY <2>1 DEF EvalsServed
<1>7. ASSUME UNCHANGED vars  PROVE EvalsServed'
  BY <1>1, <1>7 DEF vars, reqVars, graphVars, ackVars
<1> QED  BY <1>3, <1>4, <1>5, <1>6, <1>7, WhoseStep


LEMMA BoundStep ==
    ASSUME Reliable, TypeOK, Engaged, StoreBound, GraphBound, SnapBound, [Next]_vars
    PROVE  StoreBound' /\ GraphBound' /\ SnapBound'
<1>1. CASE Still
  BY <1>1, StillBound
<1>2. ASSUME NEW t \in Task, RequestStep(t)  PROVE StoreBound' /\ GraphBound' /\ SnapBound'
  BY <1>1, <1>2, StillSteps, InitStepBound, NotifyStepBound, EvalStepBound DEF RequestStep
<1>3. ASSUME NEW i \in Inits, SdkStep(i)  PROVE StoreBound' /\ GraphBound' /\ SnapBound'
  BY <1>3, InitStepBound
<1>4. CASE UNCHANGED vars
  BY <1>1, <1>4, StillSteps
<1> QED  BY <1>2, <1>3, <1>4, OtherStepBound, WhoseStep

\* The answer of an evaluate is taken from a graph that is not too old for it.
LEMMA AnsweredStep ==
    ASSUME TypeOK, Engaged, EvalsServed, Answered, [Next]_vars
    PROVE  Answered'
<1>0. /\ pc \in [Task -> Labels] /\ Evals \subseteq Task
      /\ resp \in [Task -> {"none", "ok", "error", "panic", "cancelled", "lost"}]
  BY DEF TypeOK, RequestTypes, Task
<1>1. UNCHANGED <<pc, resp, cur, snap, known>> => Answered'
  BY DEF Answered
<1>2. ASSUME NEW t \in Task, RequestStep(t)  PROVE Answered'
  <2>1. \A u \in Task \ {t} : /\ pc'[u] = pc[u] /\ resp'[u] = resp[u] /\ cur'[u] = cur[u]
                              /\ snap'[u] = snap[u] /\ known'[u] = known[u]
    BY <1>2, RequestSteps, OthersStay
  <2>2. resp[t] = "none" /\ (pc'[t] = "done" <=> resp'[t] # "none")
    BY <1>2, RequestSteps DEF Acts, Answered
  <2>3. ASSUME t \in Evals, resp'[t] = "ok", NEW f \in Below(cur'[t])
        PROVE  known'[t][f] <= snap'[t][f].ver
    <3>1. Shows(t)
      BY <1>2, <2>2, <2>3, EvalMoves
    <3> QED  BY <2>3, <3>1 DEF Shows, EvalsServed
  <2>4. \A u \in Task : pc'[u] = "done" <=> resp'[u] # "none"
    BY <2>1, <2>2 DEF Answered
  <2>5. ASSUME NEW e \in Evals, resp'[e] = "ok", NEW f \in Below(cur'[e])
        PROVE  known'[e][f] <= snap'[e][f].ver
    BY <1>0, <2>1, <2>3, <2>5 DEF Answered
  <2> QED  BY <2>4, <2>5 DEF Answered
<1>3. ASSUME NEW i \in Inits, SdkStep(i)  PROVE Answered'
  BY <1>1, <1>3 DEF SdkStep, SdkOpen, SdkSchema, SdkStore, SdkMark, reqVars, workVars, ackVars
<1>4. ASSUME NEW f \in Sources, Edit(f)  PROVE Answered'
  BY <1>1, <1>4 DEF Edit, reqVars, workVars, ackVars
<1>5. ASSUME Crash  PROVE Answered'
  <2>1. \A t \in Task : /\ pc'[t] = IF pc[t] = "idle" THEN "idle" ELSE "done"
                        /\ resp'[t] = IF pc[t] \in {"idle", "done"} THEN resp[t] ELSE "lost"
    BY <1>5 DEF Crash
  <2>2. UNCHANGED <<cur, snap, known>>
    BY <1>5 DEF Crash, workVars, ackVars
  <2>3. \A t \in Task : pc'[t] = "done" <=> resp'[t] # "none"
    BY <2>1 DEF Answered
  <2>4. \A e \in Evals : resp'[e] = "ok" => resp[e] = "ok"
    BY <1>0, <2>1
  <2> QED  BY <2>2, <2>3, <2>4 DEF Answered
<1>6. CASE UNCHANGED vars
  BY <1>1, <1>6 DEF vars, reqVars, workVars, ackVars
<1> QED  BY <1>2, <1>3, <1>4, <1>5, <1>6, WhoseStep

\* Only a query that panics poisons a graph's mutex.
LEMMA PoisonStep ==
    ASSUME Reliable, TypeOK, NeverPoisoned, [Next]_vars
    PROVE  NeverPoisoned'
<1>0. poisoned \in [Inits -> BOOLEAN]
  BY DEF TypeOK, GraphTypes
<1>1. UNCHANGED poisoned => NeverPoisoned'
  BY DEF NeverPoisoned
<1>2. ASSUME NEW i \in Inits,
             InitCall(i) \/ InitConfig(i) \/ InitReplace(i) \/ InitUnlock(i) \/ InitRelock(i)
      PROVE  UNCHANGED poisoned
  BY <1>2 DEF InitCall, InitConfig, InitReplace, InitUnlock, InitRelock, graphVars
<1>3. ASSUME NEW i \in Inits,
             \/ InitBind(i) \/ InitValidate(i) \/ InitResolve(i) \/ InitJoin(i)
             \/ InitDeps(i) \/ InitLoad(i)
      PROVE  UNCHANGED poisoned
  BY <1>3 DEF InitBind, InitValidate, InitResolve, InitJoin, InitDeps, InitLoad, graphVars
<1>4. ASSUME NEW t \in Inits \cup Notifies, GraphStep(t)  PROVE UNCHANGED poisoned
  BY <1>4 DEF GraphStep, GraphOpen, GraphSwap, WalkGuard, WalkOpen, WalkSchema, WalkFile,
              WalkSwap, graphVars
<1>5. ASSUME NEW n \in Notifies,
             \/ NotifyCall(n) \/ NotifyStart(n) \/ NotifyType(n) \/ NotifyOpen(n)
             \/ NotifySchema(n) \/ NotifyClean(n) \/ NotifySkip(n) \/ NotifyStore(n)
      PROVE  UNCHANGED poisoned
  BY <1>5 DEF NotifyCall, NotifyStart, NotifyType, NotifyOpen, NotifySchema, NotifyClean,
              NotifySkip, NotifyStore, graphVars
<1>6. ASSUME NEW e \in Evals, EvalCall(e) \/ EvalStart(e) \/ EvalType(e)
      PROVE  UNCHANGED poisoned
  BY <1>6 DEF EvalCall, EvalStart, EvalType, graphVars
<1>7. ASSUME NEW e \in Evals, EvalLock(e)  PROVE NeverPoisoned'
  BY <1>0, <1>7 DEF EvalLock, NeverPoisoned
<1>8. ASSUME NEW e \in Evals, EvalQuery(e)  PROVE UNCHANGED poisoned
  BY <1>8 DEF EvalQuery, Reliable, May
<1>9. ASSUME NEW i \in Inits, SdkStep(i)  PROVE UNCHANGED poisoned
  BY <1>9 DEF SdkStep, SdkOpen, SdkSchema, SdkStore, SdkMark, graphVars
<1>10. ASSUME NEW t \in Task, Cancel(t)  PROVE UNCHANGED poisoned
  BY <1>10 DEF Cancel, graphVars
<1>11. ASSUME NEW t \in Task, RequestStep(t)  PROVE NeverPoisoned'
  BY <1>1, <1>2, <1>3, <1>4, <1>5, <1>6, <1>7, <1>8, <1>10, <1>11
  DEF RequestStep, InitStep, NotifyStep, EvalStep
<1>12. ASSUME NEW f \in Sources, Edit(f)  PROVE UNCHANGED poisoned
  BY <1>12 DEF Edit, graphVars
<1>13. ASSUME Crash  PROVE NeverPoisoned'
  BY <1>13 DEF Crash, NeverPoisoned
<1>14. UNCHANGED vars => UNCHANGED poisoned
  BY DEF vars, graphVars
<1> QED  BY <1>1, <1>9, <1>11, <1>12, <1>13, <1>14, WhoseStep

-----------------------------------------------------------------------------
(* The invariant *)

LEMMA InitFresh == Init => FreshInv
<1> SUFFICES ASSUME Init  PROVE FreshInv
  OBVIOUS
<1>0. /\ TypeOK /\ Numbers
      /\ \A t \in Task : pc[t] = "idle" /\ resp[t] = "none" /\ cur[t] = NoProject
  BY InitTypes, VersionsAreNumbers DEF Init
<1>1. \A f \in Sources : /\ Blank[f] = [ver |-> 0, live |-> FALSE]
                         /\ disk[f].ver = 1
  BY <1>0, RowVersions DEF Init
<1>2. StoreBound
  BY <1>1 DEF Init, StoreBound, NoVersions, Task
<1>3. GraphBound /\ SnapBound
  BY <1>1 DEF Init, Fresh, GraphBound, SnapBound, Bounded
<1>4. ProjectKept
  BY <1>0, LabelSets DEF Init, Fresh, ProjectKept
<1>5. GraphCurrent
  BY <1>0 DEF Init, Fresh, GraphCurrent, PlaceCurrent, EvalsServed, Task
<1>6. SnapCurrent
  BY <1>0 DEF SnapCurrent, Ready, Task
<1>7. Answered
  BY <1>0 DEF Answered, Task
<1>8. NeverPoisoned
  BY DEF Init, Fresh, NeverPoisoned
<1> QED  BY <1>2, <1>3, <1>4, <1>5, <1>6, <1>7, <1>8 DEF FreshInv

LEMMA FreshStep ==
    ASSUME Reliable, TypeOK, TypeOK', Engaged, LockDiscipline, FreshInv, [Next]_vars
    PROVE  FreshInv'
<1>1. StoreBound' /\ GraphBound' /\ SnapBound'
  BY BoundStep DEF FreshInv
<1>2. ProjectKept' /\ SnapCurrent' /\ NeverPoisoned'
  BY ProjectStep, SnapStep, PoisonStep DEF FreshInv
<1>3. GraphCurrent'
  BY <1>1, PlaceStep, ServedStep DEF GraphCurrent
<1>4. Answered'
  BY AnsweredStep DEF FreshInv, GraphCurrent
<1> QED  BY <1>1, <1>2, <1>3, <1>4 DEF FreshInv

\* Reliable, the locks and the order of the versions hold together.
LEMMA Freshness ==
    ASSUME Reliable
    PROVE  Spec => [](TypeOK /\ Engaged /\ LockDiscipline /\ FreshInv)
<1>1. Init => TypeOK /\ Engaged /\ LockDiscipline /\ FreshInv
  BY InitTypes, InitEngaged, InitLocks, InitFresh
<1>2. TypeOK /\ Engaged /\ LockDiscipline /\ FreshInv /\ [Next]_vars =>
         (TypeOK /\ Engaged /\ LockDiscipline /\ FreshInv)'
  <2> SUFFICES ASSUME TypeOK, Engaged, LockDiscipline, FreshInv, [Next]_vars
               PROVE  TypeOK' /\ Engaged' /\ LockDiscipline' /\ FreshInv'
    OBVIOUS
  <2>1. TypeOK' /\ Engaged'
    BY TypesStep
  <2> QED  BY <2>1, LocksStep, FreshStep
<1> QED  BY <1>1, <1>2, PTL DEF Spec

\* csharp.rs:334-489, 561-646: unless the store refuses rows or queries panic, an
\* evaluate sees each file at least as new as the notifications and the answers
\* before its call, whatever ran in between.
THEOREM ReadsFollowNotifications ==
    ASSUME Reliable
    PROVE  Spec => []ReadYourNotify
<1>1. TypeOK /\ FreshInv => ReadYourNotify
  <2> SUFFICES ASSUME TypeOK, FreshInv, NEW e \in Evals, resp[e] = "ok",
                      NEW f \in Below(cur[e])
               PROVE  snap[e][f].ver >= known[e][f]
    BY DEF ReadYourNotify
  <2>1. known[e][f] <= snap[e][f].ver
    BY DEF FreshInv, Answered
  <2>2. known[e][f] \in Nat /\ snap[e][f].ver \in Nat
    BY VersionsAreNumbers DEF Numbers, Below, Task
  <2> QED  BY <2>1, <2>2
<1> QED  BY <1>1, Freshness, PTL

-----------------------------------------------------------------------------
(* No graph goes back *)

\* The store has live rows, and is written, only once it has its tables.
StoreReady ==
    /\ dbFile # "ready" => \A f \in Sources : ~db[f].live
    /\ \A t \in Task : pc[t] \in {"clean", "store", "walk"} => dbFile = "ready"

\* What is about to be published is what the store has: a walk begins on a store
\* without sources, and whoever writes to it after that is the walk.
TakenFrom(t) ==
    \A f \in Below(cur[t]) :
       /\ pc[t] = "swap" => snap[t][f] = db[f]
       /\ pc[t] \in {"walkGuard", "walkOpen", "walkSchema"} => ~db[f].live
       /\ pc[t] = "walk" /\ f \in files[t] => ~db[f].live /\ ~snap[t][f].live
       /\ pc[t] = "walk" /\ (db[f].live \/ snap[t][f].live) => snap[t][f] = db[f]
SnapTaken == \A t \in Inits \cup Notifies : TakenFrom(t)

\* The graph in place is not ahead of a row of the store that a swap would publish.
PlaceBehind ==
    project \in Inits /\ graph[project] # NoGraph =>
       \A f \in Below(project) : db[f].live => graph[project][f].ver <= db[f].ver

BehindInv == StoreReady /\ SnapTaken /\ PlaceBehind

\* Tables are never taken away.
LEMMA TablesStay == [Next]_vars /\ dbFile = "ready" => dbFile' = "ready"
<1> SUFFICES ASSUME [Next]_vars, dbFile = "ready"  PROVE dbFile' = "ready"
  OBVIOUS
<1>1. ASSUME NEW i \in Inits, InitCall(i) \/ InitStep(i), ~GraphStep(i)  PROVE dbFile' = dbFile
  BY <1>1 DEF InitStep, InitCall, InitConfig, InitReplace, InitUnlock, InitRelock, InitBind,
              InitValidate, InitResolve, InitJoin, InitDeps, InitLoad, storeVars
<1>2. ASSUME NEW i \in Inits, SdkStep(i)  PROVE dbFile' = "ready"
  BY <1>2 DEF SdkStep, SdkOpen, SdkSchema, SdkStore, SdkMark, CreateFile, CreateTables,
              OpenReady, OpenFails, storeVars
<1>3. ASSUME NEW t \in Task, GraphStep(t)  PROVE dbFile' = "ready"
  BY <1>3 DEF GraphStep, GraphOpen, GraphSwap, WalkGuard, WalkOpen, WalkSchema, WalkFile,
              WalkSwap, CreateFile, CreateTables, OpenReady, OpenFails, storeVars
<1>4. ASSUME NEW n \in Notifies, NotifyCall(n) \/ NotifyStep(n), ~GraphStep(n)
      PROVE  dbFile' = "ready"
  BY <1>4 DEF NotifyStep, NotifyCall, NotifyStart, NotifyType, NotifyOpen, NotifySchema,
              NotifyClean, NotifySkip, NotifyStore, CreateFile, CreateTables, OpenReady,
              OpenFails, storeVars
<1>5. ASSUME NEW e \in Evals, EvalCall(e) \/ EvalStep(e)  PROVE dbFile' = dbFile
  BY <1>5 DEF EvalStep, EvalCall, EvalStart, EvalType, EvalLock, EvalQuery, storeVars
<1>6. ASSUME NEW t \in Task, Cancel(t)  PROVE dbFile' = dbFile
  BY <1>6 DEF Cancel, storeVars
<1>7. /\ \A f \in Sources : Edit(f) => dbFile' = dbFile
      /\ Crash => dbFile' = dbFile
      /\ UNCHANGED vars => dbFile' = dbFile
  BY DEF Edit, Crash, vars, storeVars
<1> QED  BY <1>1, <1>2, <1>3, <1>4, <1>5, <1>6, <1>7, WhoseStep DEF RequestStep, Task

\* Who comes to write to the store has opened it.
LEMMA EntersStore ==
    ASSUME TypeOK, NEW t \in Task, RequestStep(t), dbFile # "ready",
           pc'[t] \in {"clean", "store", "walk"}, pc[t] \notin {"clean", "store", "walk"}
    PROVE  dbFile' = "ready"
<1>0. pc \in [Task -> Labels]
  BY DEF TypeOK, RequestTypes
<1>1. ASSUME InitCall(t) \/ InitStep(t), ~GraphStep(t)  PROVE FALSE
  BY <1>0, <1>1 DEF InitStep, InitCall, InitConfig, InitReplace, InitUnlock, InitRelock,
     InitBind, InitValidate, InitResolve, InitJoin, InitDeps, InitLoad, Go, Reply, Finish
<1>2. ASSUME GraphStep(t)  PROVE dbFile' = "ready"
  <2>1. ASSUME WalkOpen(t) \/ WalkSchema(t)  PROVE dbFile' = "ready"
    BY <1>0, <2>1 DEF WalkOpen, WalkSchema, Go, Reply, Finish, CreateFile, CreateTables,
                      OpenReady, OpenFails, storeVars
  <2>2. ASSUME GraphOpen(t) \/ GraphSwap(t) \/ WalkGuard(t)  PROVE FALSE
    BY <1>0, <2>2 DEF GraphOpen, GraphSwap, WalkGuard, GraphErr, GraphOk, Go, Reply, Finish
  <2>3. ASSUME WalkFile(t) \/ WalkSwap(t)  PROVE FALSE
    BY <2>3 DEF WalkFile, WalkSwap
  <2> QED  BY <1>2, <2>1, <2>2, <2>3 DEF GraphStep
<1>3. ASSUME NotifyCall(t) \/ NotifyStart(t) \/ NotifyType(t)  PROVE FALSE
  BY <1>0, <1>3 DEF NotifyCall, NotifyStart, NotifyType, Go, Reply, Finish
<1>4. ASSUME NotifyOpen(t) \/ NotifySchema(t)  PROVE dbFile' = "ready"
  BY <1>0, <1>4 DEF NotifyOpen, NotifySchema, Go, Reply, Finish, CreateFile, CreateTables,
                    OpenReady, OpenFails, storeVars
<1>5. ASSUME NotifyClean(t) \/ NotifySkip(t) \/ NotifyStore(t)  PROVE FALSE
  BY <1>5 DEF NotifyClean, NotifySkip, NotifyStore
<1>6. ASSUME EvalCall(t) \/ EvalStep(t)  PROVE FALSE
  BY <1>0, <1>6 DEF EvalStep, EvalCall, EvalStart, EvalType, EvalLock, EvalQuery, Go, Reply,
                    Finish
<1>7. ASSUME Cancel(t)  PROVE FALSE
  BY <1>0, <1>7 DEF Cancel, Reply
<1> QED  BY <1>1, <1>2, <1>3, <1>4, <1>5, <1>6, <1>7 DEF RequestStep, NotifyStep

\* No step of a loader, of the disk or of nobody touches the rows of the sources.
LEMMA RowsStay ==
    ASSUME TypeOK, Engaged
    PROVE  /\ \A i \in Inits : SdkStep(i) =>
                 SourcesKept /\ UNCHANGED <<pc, cur, snap, files, graph, project>>
           /\ \A f \in Sources : Edit(f) =>
                 SourcesKept /\ UNCHANGED <<pc, cur, snap, files, graph, project>>
           /\ UNCHANGED vars =>
                 SourcesKept /\ UNCHANGED <<pc, cur, snap, files, graph, project>>
<1>1. ASSUME NEW i \in Inits, SdkStep(i)
      PROVE  SourcesKept /\ UNCHANGED <<pc, cur, snap, files, graph, project>>
  <2>1. UNCHANGED <<pc, cur, snap, files, graph, project>>
    BY <1>1 DEF SdkStep, SdkOpen, SdkSchema, SdkStore, SdkMark, reqVars, workVars, graphVars,
                provVars
  <2> QED  BY <1>1, <2>1, StoreWriters
<1>2. ASSUME NEW f \in Sources, Edit(f)
      PROVE  SourcesKept /\ UNCHANGED <<pc, cur, snap, files, graph, project>>
  BY <1>2 DEF Edit, reqVars, workVars, graphVars, provVars, storeVars, SourcesKept
<1>3. ASSUME UNCHANGED vars
      PROVE  SourcesKept /\ UNCHANGED <<pc, cur, snap, files, graph, project>>
  BY <1>3 DEF vars, reqVars, workVars, graphVars, provVars, storeVars, SourcesKept
<1> QED  BY <1>1, <1>2, <1>3

LEMMA StoreReadyStep ==
    ASSUME TypeOK, Engaged, StoreReady, [Next]_vars
    PROVE  StoreReady'
<1>1. dbFile = "ready" => dbFile' = "ready"
  BY TablesStay
<1>2. ASSUME SourcesKept,
             \A t \in Task : pc'[t] \in {"clean", "store", "walk"} =>
                pc[t] \in {"clean", "store", "walk"} \/ dbFile' = "ready"
      PROVE  StoreReady'
  BY <1>1, <1>2 DEF StoreReady, SourcesKept
<1>3. ASSUME NEW t \in Task, RequestStep(t)  PROVE StoreReady'
  <2>1. \A u \in Task \ {t} : pc'[u] = pc[u]
    BY <1>3, RequestSteps, OthersStay
  <2>2. pc'[t] \in {"clean", "store", "walk"} =>
           pc[t] \in {"clean", "store", "walk"} \/ dbFile' = "ready"
    BY <1>1, <1>3, EntersStore
  <2>3. CASE SourcesKept
    BY <1>2, <2>1, <2>2, <2>3
  <2>4. CASE Writes(t)
    <3>1. dbFile' = "ready"
      BY <1>1, <1>3, <2>4, RequestSteps DEF StoreReady
    <3> QED  BY <3>1 DEF StoreReady
  <2> QED  BY <1>3, <2>3, <2>4, RequestSteps
<1>4. ASSUME Crash  PROVE StoreReady'
  BY <1>4 DEF Crash, StoreReady, storeVars
<1> QED  BY <1>2, <1>3, <1>4, RowsStay, WhoseStep

\* Nobody but the request that publishes writes to the store meanwhile.
LEMMA OthersTaken ==
    ASSUME TypeOK, LockDiscipline, SnapTaken, NEW t \in Task,
           Acts(t), Moved(t) \/ InitReplace(t), SourcesKept \/ pc[t] \in Holding
    PROVE  \A u \in (Inits \cup Notifies) \ {t} : TakenFrom(u)'
<1> SUFFICES ASSUME NEW u \in (Inits \cup Notifies) \ {t}  PROVE TakenFrom(u)'
  OBVIOUS
<1>0. u \in Task /\ u # t
  BY DEF Task
<1>1. /\ pc'[u] = pc[u] /\ cur'[u] = cur[u] /\ files'[u] = files[u] /\ snap'[u] = snap[u]
      /\ TakenFrom(u)
  BY <1>0, OthersStay DEF SnapTaken
<1>2. CASE pc[u] \notin Publishing
  BY <1>1, <1>2 DEF TakenFrom, Publishing
<1>3. CASE pc[u] \in Publishing
  <2>1. SourcesKept
    BY <1>0, <1>3, LabelSets DEF LockDiscipline, Exclusion, Publishing
  <2>2. \A f \in Below(cur[u]) : db'[f] = db[f]
    BY <2>1 DEF SourcesKept, Below
  <2> QED  BY <1>1, <2>2 DEF TakenFrom
<1> QED  BY <1>2, <1>3

\* What a request takes to publish is what the store has, at each step it takes.
LEMMA OpenTakes ==
    ASSUME TypeOK, Engaged, StoreReady, NEW t \in Inits \cup Notifies, GraphOpen(t)
    PROVE  TakenFrom(t)'
<1>0. t \in Task /\ pc \in [Task -> Labels] /\ snap \in [Task -> Rows]
  BY DEF Task, TypeOK, RequestTypes, WorkTypes
<1>1. cur' = cur /\ db' = db /\ pc'[t] \in {"done", "walkGuard", "swap"}
  BY <1>0 DEF GraphOpen, GraphErr, Go, Finish, Reply, storeVars
<1>2. cur[t] \in Inits
  BY <1>0, LabelSets DEF GraphOpen, Engaged
<1>3. \A f \in Below(cur[t]) : f \in Sources /\ f \in Row /\ Load(cur[t])[f] = db[f]
  BY <1>2, RowVersions DEF Below, Row
<1>4. ASSUME pc'[t] = "swap"  PROVE snap'[t] = Load(cur[t])
  BY <1>0, <1>4 DEF GraphOpen, GraphErr, Go, Finish, Reply
<1>5. ASSUME pc'[t] = "walkGuard"  PROVE dbFile = "none" \/ NoSymbols(Load(cur[t]))
  BY <1>0, <1>5 DEF GraphOpen, GraphErr, Go, Finish, Reply
<1>6. ASSUME pc'[t] = "walkGuard", NEW f \in Below(cur[t])  PROVE ~db[f].live
  BY <1>3, <1>5, <1>6 DEF StoreReady, NoSymbols
<1> QED  BY <1>1, <1>3, <1>4, <1>6 DEF TakenFrom

LEMMA WalkFileTakes ==
    ASSUME TypeOK, Engaged, SnapTaken, NEW t \in Inits \cup Notifies, WalkFile(t)
    PROVE  TakenFrom(t)'
<1>0. /\ t \in Task /\ pc \in [Task -> Labels] /\ snap \in [Task -> Rows]
      /\ files \in [Task -> SUBSET Sources] /\ db \in Rows
  BY DEF Task, TypeOK, RequestTypes, WorkTypes, StoreTypes
<1>1. CASE pc'[t] # "walk"
  <2>1. pc'[t] = "done"
    BY <1>0, <1>1 DEF WalkFile, Finish, Reply
  <2> QED  BY <2>1 DEF TakenFrom
<1>2. CASE pc'[t] = "walk"
  <2>1. /\ cur' = cur /\ pc[t] = "walk" /\ TakenFrom(t)
        /\ \E g \in files[t] :
              /\ db' = IF disk[g].st = "ok"
                       THEN [db EXCEPT ![g] = [ver |-> disk[g].ver, live |-> TRUE]] ELSE db
              /\ snap' = [snap EXCEPT ![t][g] = [ver |-> disk[g].ver, live |-> disk[g].st = "ok"]]
              /\ files' = [files EXCEPT ![t] = @ \ {g}]
    BY <1>0, <1>2 DEF WalkFile, Finish, Reply, SnapTaken
  <2>2. PICK g \in files[t] :
              /\ db' = IF disk[g].st = "ok"
                       THEN [db EXCEPT ![g] = [ver |-> disk[g].ver, live |-> TRUE]] ELSE db
              /\ snap' = [snap EXCEPT ![t][g] = [ver |-> disk[g].ver, live |-> disk[g].st = "ok"]]
              /\ files' = [files EXCEPT ![t] = @ \ {g}]
    BY <2>1
  <2>3. g \in Row /\ files'[t] = files[t] \ {g}
    BY <1>0, <2>2 DEF Row
  <2>4. /\ snap'[t][g] = [ver |-> disk[g].ver, live |-> disk[g].st = "ok"]
        /\ IF disk[g].st = "ok" THEN db'[g] = [ver |-> disk[g].ver, live |-> TRUE] ELSE db'[g] = db[g]
    BY <1>0, <2>2, <2>3 DEF Rows
  <2>5. \A f \in Sources : f # g => db'[f] = db[f] /\ snap'[t][f] = snap[t][f]
    BY <1>0, <2>2, <2>3 DEF Rows
  <2>6. ASSUME NEW f \in Below(cur[t])
        PROVE  /\ f \in files'[t] => ~db'[f].live /\ ~snap'[t][f].live
               /\ db'[f].live \/ snap'[t][f].live => snap'[t][f] = db'[f]
    <3>1. CASE f = g
      <4>1. f \notin files'[t] /\ ~db[f].live
        BY <2>1, <2>3, <3>1 DEF TakenFrom
      <4>2. CASE disk[g].st = "ok"
        BY <2>4, <3>1, <4>1, <4>2
      <4>3. CASE disk[g].st # "ok"
        <5>1. (disk[g].st = "ok") = FALSE /\ db'[g] = db[g]
          BY <2>4, <4>3
        <5>2. snap'[t][g] = [ver |-> disk[g].ver, live |-> FALSE]
          BY <2>4, <5>1, Zenon
        <5> QED  BY <3>1, <4>1, <5>1, <5>2
      <4> QED  BY <4>2, <4>3
    <3>2. CASE f # g
      BY <2>1, <2>3, <2>5, <3>2 DEF TakenFrom, Below
    <3> QED  BY <3>1, <3>2
  <2> QED  BY <1>2, <2>1, <2>6 DEF TakenFrom
<1> QED  BY <1>1, <1>2

LEMMA PublisherTakes ==
    ASSUME TypeOK, Engaged, NeverPoisoned, StoreReady, SnapTaken,
           NEW t \in Inits \cup Notifies
    PROVE  GraphStep(t) => TakenFrom(t)'
<1>0. t \in Task /\ pc \in [Task -> Labels] /\ snap \in [Task -> Rows] /\ TakenFrom(t)
  BY DEF Task, TypeOK, RequestTypes, WorkTypes, SnapTaken
<1>1. ASSUME GraphSwap(t) \/ WalkSwap(t)  PROVE TakenFrom(t)'
  <2>1. pc[t] \in GraphLabels /\ cur[t] \in Inits
    BY <1>0, <1>1, LabelSets DEF GraphSwap, WalkSwap, Engaged, GraphLabels
  <2>2. ~poisoned[cur[t]]
    BY <2>1 DEF NeverPoisoned
  <2>3. pc'[t] \in {"resolve", "done"}
    BY <1>0, <1>1, <2>2 DEF GraphSwap, WalkSwap, GraphOk, Go, Finish, Reply
  <2> QED  BY <2>3 DEF TakenFrom
<1>2. ASSUME WalkGuard(t)  PROVE TakenFrom(t)'
  <2>1. pc[t] = "walkGuard" /\ pc'[t] = "walkOpen" /\ db' = db /\ cur' = cur
    BY <1>0, <1>2 DEF WalkGuard, Go, storeVars
  <2> QED  BY <1>0, <2>1 DEF TakenFrom
<1>3. ASSUME WalkOpen(t) \/ WalkSchema(t)  PROVE TakenFrom(t)'
  <2>1. /\ pc[t] \in {"walkOpen", "walkSchema"} /\ db' = db /\ cur' = cur
        /\ pc'[t] \in {"walkSchema", "walk", "done"} /\ (pc'[t] = "walk" => WalkFrom(t))
    BY <1>0, <1>3 DEF WalkOpen, WalkSchema, Go, Finish, Reply, CreateFile, CreateTables,
                      OpenReady, OpenFails, storeVars
  <2>2. \A f \in Sources : f \in Row /\ ~Blank[f].live
    BY RowVersions DEF Row
  <2>3. pc'[t] = "walk" => \A f \in Sources : ~snap'[t][f].live
    BY <1>0, <2>1, <2>2 DEF WalkFrom
  <2>4. \A f \in Below(cur[t]) : f \in Sources /\ ~db[f].live
    BY <1>0, <2>1 DEF TakenFrom, Below
  <2> QED  BY <2>1, <2>3, <2>4 DEF TakenFrom
<1> QED  BY <1>1, <1>2, <1>3, OpenTakes, WalkFileTakes DEF GraphStep

LEMMA TakenStep ==
    ASSUME TypeOK, Engaged, LockDiscipline, NeverPoisoned, StoreReady, SnapTaken, [Next]_vars
    PROVE  SnapTaken'
<1>1. ASSUME NEW t \in Task, RequestStep(t)  PROVE SnapTaken'
  <2>1. \A u \in (Inits \cup Notifies) \ {t} : TakenFrom(u)'
    BY <1>1, RequestSteps, OthersTaken
  <2>2. pc'[t] \notin Publishing => TakenFrom(t)'
    BY DEF Publishing, TakenFrom
  <2>3. t \in Inits \cup Notifies => TakenFrom(t)'
    BY <1>1, <2>2, RequestSteps, PublisherTakes
  <2> QED  BY <2>1, <2>3 DEF SnapTaken
<1>2. ASSUME SourcesKept, UNCHANGED <<pc, cur, snap, files>>  PROVE SnapTaken'
  <2>1. \A l : \A f \in Below(l) : db'[f] = db[f]
    BY <1>2 DEF SourcesKept, Below
  <2> QED  BY <1>2, <2>1 DEF SnapTaken, TakenFrom
<1>3. ASSUME Crash  PROVE SnapTaken'
  <2>1. \A t \in Inits \cup Notifies : pc'[t] \notin Publishing
    BY <1>3 DEF Crash, Task, Publishing
  <2> QED  BY <2>1 DEF SnapTaken, TakenFrom, Publishing
<1> QED  BY <1>1, <1>2, <1>3, RowsStay, WhoseStep

\* A row that becomes live in the store is as new as the file.
FromDisk ==
    /\ UNCHANGED <<graph, project, disk>>
    /\ \A f \in Sources : \/ db'[f] = db[f] \/ ~db'[f].live
                          \/ db'[f].ver = disk[f].ver

LEMMA WritesFromDisk == ASSUME TypeOK, NEW t \in Task, Writes(t)  PROVE FromDisk
<1>0. db \in Rows /\ \A f \in Sources : f \in Row
  BY DEF TypeOK, StoreTypes, Row
<1>1. ASSUME NotifyClean(t)  PROVE FromDisk
  BY <1>0, <1>1 DEF NotifyClean, FromDisk, Rows, RowVal, graphVars, envVars
<1>2. ASSUME NotifyStore(t)  PROVE FromDisk
  <2>1. \E g, l : db' = db \/ db' = [db EXCEPT ![g] = [ver |-> disk[g].ver, live |-> l]]
    BY <1>2 DEF NotifyStore
  <2> QED  BY <1>0, <1>2, <2>1 DEF NotifyStore, FromDisk, Rows, graphVars, envVars, provVars
<1>3. ASSUME WalkFile(t)  PROVE FromDisk
  BY <1>0, <1>3 DEF WalkFile, FromDisk, Rows, graphVars, envVars
<1> QED  BY <1>1, <1>2, <1>3 DEF Writes

\* A request puts a graph in place whose live rows are those of the store.
PutsStore(t) ==
    /\ pc[t] \in Holding /\ cur[t] \in Inits /\ UNCHANGED <<db, project>>
    /\ \A f \in Below(cur[t]) :
          db[f].live \/ graph'[cur[t]][f].live => graph'[cur[t]][f] = db[f]
    /\ \A q \in Inits : q # cur[t] => graph'[q] = graph[q]

LEMMA SwapPutsStore ==
    ASSUME TypeOK, Engaged, NeverPoisoned, SnapTaken, NEW t \in Inits \cup Notifies,
           GraphSwap(t) \/ WalkSwap(t)
    PROVE  PutsStore(t)
<1>0. graph \in [Inits -> Rows \cup {NoGraph}]
  BY DEF TypeOK, GraphTypes
<1>1. pc[t] \in {"swap", "walk"} => cur[t] \in Inits /\ pc[t] \in Holding
  BY LabelSets DEF Engaged, Task
<1>2. /\ UNCHANGED <<db, project>> /\ pc[t] \in {"swap", "walk"} /\ TakenFrom(t)
  BY DEF GraphSwap, WalkSwap, storeVars, SnapTaken
<1>3. graph' = [graph EXCEPT ![cur[t]] = snap[t]]
  BY <1>1, <1>2 DEF GraphSwap, WalkSwap, NeverPoisoned
<1>4. graph'[cur[t]] = snap[t] /\ \A q \in Inits : q # cur[t] => graph'[q] = graph[q]
  BY <1>0, <1>1, <1>2, <1>3
<1>5. \A f \in Below(cur[t]) : db[f].live \/ snap[t][f].live => snap[t][f] = db[f]
  BY <1>2 DEF TakenFrom
<1> QED  BY <1>1, <1>2, <1>4, <1>5 DEF PutsStore

LEMMA GraphFromStore ==
    ASSUME Reliable, TypeOK, Engaged, NeverPoisoned, SnapTaken,
           NEW t \in Task, RequestStep(t)
    PROVE  PutsStore(t) \/ UNCHANGED graph
<1>0. graph \in [Inits -> Rows \cup {NoGraph}]
  BY DEF TypeOK, GraphTypes
<1>1. pc[t] \in {"load", "swap", "walk"} => cur[t] \in Inits /\ pc[t] \in Holding
  BY LabelSets DEF Engaged
<1>2. ASSUME GraphSwap(t) \/ WalkSwap(t), t \in Inits \cup Notifies  PROVE PutsStore(t)
  BY <1>2, SwapPutsStore
<1>3. ASSUME t \in Inits, InitLoad(t)  PROVE PutsStore(t)
  <2>1. /\ UNCHANGED <<db, project>> /\ pc[t] = "load"
        /\ graph' = [graph EXCEPT ![cur[t]] = Load(cur[t])]
    BY <1>1, <1>3 DEF InitLoad, storeVars, NeverPoisoned, Reliable, May
  <2>2. \A f \in Below(cur[t]) : Load(cur[t])[f] = db[f]
    BY <1>1, <2>1, RowVersions DEF Below
  <2>3. /\ graph'[cur[t]] = Load(cur[t])
        /\ \A q \in Inits : q # cur[t] => graph'[q] = graph[q]
    BY <1>0, <1>1, <2>1
  <2> QED  BY <1>1, <2>1, <2>2, <2>3 DEF PutsStore
<1>4. ASSUME GraphStep(t)  PROVE GraphSwap(t) \/ WalkSwap(t) \/ UNCHANGED graph
  BY <1>4 DEF GraphStep, GraphOpen, WalkGuard, WalkOpen, WalkSchema, WalkFile, graphVars
<1>5. Still => UNCHANGED graph
  BY DEF Still
<1>6. InitDeps(t) \/ NotifyClean(t) \/ NotifyStore(t) \/ EvalCall(t) \/ EvalQuery(t)
         => UNCHANGED graph
  BY DEF InitDeps, NotifyClean, NotifyStore, EvalCall, EvalQuery, graphVars
<1>7. t \in Inits /\ (InitCall(t) \/ InitStep(t)) => PutsStore(t) \/ UNCHANGED graph
  BY <1>2, <1>3, <1>4, <1>5, <1>6, StillSteps DEF InitStep
<1>8. t \in Notifies /\ (NotifyCall(t) \/ NotifyStep(t)) => PutsStore(t) \/ UNCHANGED graph
  BY <1>2, <1>4, <1>5, <1>6, StillSteps DEF NotifyStep
<1>9. (t \in Evals /\ (EvalCall(t) \/ EvalStep(t))) \/ Cancel(t) => UNCHANGED graph
  BY <1>5, <1>6, StillSteps DEF EvalStep
<1> QED  BY <1>7, <1>8, <1>9 DEF RequestStep

LEMMA BehindStep ==
    ASSUME Reliable, TypeOK, Engaged, FreshInv, SnapTaken, PlaceBehind, [Next]_vars
    PROVE  PlaceBehind'
<1>0. GraphBound /\ ProjectKept /\ NeverPoisoned /\ Numbers
  BY VersionsAreNumbers DEF FreshInv
<1>1. SourcesKept /\ UNCHANGED <<graph, project>> => PlaceBehind'
  BY DEF PlaceBehind, SourcesKept, Below
<1>2. ASSUME NEW t \in Task, RequestStep(t)  PROVE PlaceBehind'
  <2>1. CASE PutsStore(t)
    <3>1. cur[t] = project /\ project' = project /\ db' = db
      BY <1>0, <2>1 DEF PutsStore, ProjectKept
    <3>2. \A f \in Below(project) : db[f].live => graph'[project][f] = db[f]
      BY <2>1, <3>1 DEF PutsStore
    <3>3. \A f \in Below(project) : db[f].ver <= db[f].ver
      BY <1>0 DEF Below, Numbers
    <3> QED  BY <3>1, <3>2, <3>3 DEF PlaceBehind
  <2>2. CASE t \in Inits /\ InitReplace(t)
    <3>1. graph' = graph /\ project' = t /\ pc[t] = "project"
      BY <2>2 DEF InitReplace, graphVars
    <3>2. graph'[project'] = NoGraph
      BY <1>0, <2>2, <3>1 DEF ProjectKept, Early
    <3> QED  BY <3>2 DEF PlaceBehind
  <2>3. CASE SourcesKept /\ UNCHANGED graph /\ Moved(t)
    BY <1>1, <2>3 DEF Moved
  <2>4. CASE Writes(t)
    <3>1. FromDisk
      BY <2>4, WritesFromDisk
    <3>2. ASSUME project \in Inits, graph[project] # NoGraph, NEW f \in Below(project),
                 db'[f].live
          PROVE  graph[project][f].ver <= db'[f].ver
      <4>1. f \in Sources
        BY DEF Below
      <4>2. CASE db'[f] = db[f]
        BY <3>2, <4>2 DEF PlaceBehind
      <4>3. CASE db'[f].ver = disk[f].ver
        BY <1>0, <3>2, <4>1, <4>3 DEF GraphBound, Bounded
      <4> QED  BY <3>1, <3>2, <4>1, <4>2, <4>3 DEF FromDisk
    <3> QED  BY <3>1, <3>2 DEF PlaceBehind, FromDisk
  <2> QED  BY <1>0, <1>2, <2>1, <2>2, <2>3, <2>4, GraphFromStore, RequestSteps
<1>3. ASSUME Crash  PROVE PlaceBehind'
  BY <1>3 DEF Crash, PlaceBehind
<1> QED  BY <1>1, <1>2, <1>3, RowsStay, WhoseStep

LEMMA BehindInit == Init => BehindInv
<1> SUFFICES ASSUME Init  PROVE BehindInv
  OBVIOUS
<1>1. TypeOK /\ \A t \in Task : pc[t] = "idle"
  BY InitTypes DEF Init
<1>2. StoreReady
  <2>1. \A f \in Sources : db[f] = [ver |-> 0, live |-> FALSE]
    BY <1>1, RowVersions DEF Init
  <2> QED  BY <1>1, <2>1 DEF StoreReady
<1>3. SnapTaken /\ PlaceBehind
  BY <1>1 DEF Init, Fresh, SnapTaken, TakenFrom, PlaceBehind, Task
<1> QED  BY <1>2, <1>3 DEF BehindInv

\* A step that publishes a graph puts the rows of the store in place of older ones.
LEMMA SwapGoesOn ==
    ASSUME Reliable, TypeOK, Engaged, LockDiscipline, FreshInv, BehindInv, [Next]_vars,
           NEW p \in Inits, graph[p] # NoGraph, graph'[p] # NoGraph, NEW f \in Below(p),
           graph[p][f].live \/ graph'[p][f].live
    PROVE  graph'[p][f].ver >= graph[p][f].ver
<1>0. /\ GraphBound /\ ProjectKept /\ NeverPoisoned /\ SnapCurrent /\ StoreBound /\ Numbers
      /\ f \in Sources /\ PlaceBehind /\ SnapTaken
  BY VersionsAreNumbers DEF FreshInv, BehindInv, Below
<1>1. graph[p][f].ver \in Nat /\ db[f].ver \in Nat
  BY <1>0 DEF Numbers
<1>2. graph'[p][f].ver \in Nat
  <2>1. Numbers'
    BY TypesStep, VersionsAreNumbers, PTL
  <2> QED  BY <1>0, <2>1 DEF Numbers
<1>3. CASE graph'[p] = graph[p]
  BY <1>1, <1>3
<1>4. ASSUME NEW t \in Task, RequestStep(t), graph'[p] # graph[p]
      PROVE  graph'[p][f].ver >= graph[p][f].ver
  <2>1. PutsStore(t) /\ cur[t] = p /\ p = project
    <3>1. PutsStore(t)
      BY <1>0, <1>4, GraphFromStore
    <3> QED  BY <1>0, <1>4, <3>1 DEF PutsStore, ProjectKept
  <2>2. CASE graph'[p][f].live
    <3>1. graph'[p][f] = db[f] /\ db[f].live
      BY <2>1, <2>2 DEF PutsStore
    <3>2. graph[p][f].ver <= db[f].ver
      BY <1>0, <2>1, <3>1 DEF PlaceBehind
    <3> QED  BY <1>1, <3>1, <3>2
  <2>3. CASE graph[p][f].live
    <3>1. graph[p][f].ver <= db[f].ver
      BY <1>0, <2>3 DEF GraphBound, Bounded
    <3>2. Publishes(t)
      BY <1>0, <1>4, GraphChanges DEF Shows
    <3>3. db[f].ver <= graph'[p][f].ver
      BY <2>1, <3>2 DEF Publishes
    <3> QED  BY <1>1, <1>2, <3>1, <3>3
  <2> QED  BY <2>2, <2>3
<1>5. Crash => FALSE
  BY DEF Crash
<1> QED  BY <1>3, <1>4, <1>5, RowsStay, WhoseStep

LEMMA BehindInvStep ==
    ASSUME Reliable, TypeOK, Engaged, LockDiscipline, FreshInv, BehindInv, [Next]_vars
    PROVE  BehindInv'
<1>1. StoreReady /\ SnapTaken /\ PlaceBehind /\ NeverPoisoned
  BY DEF BehindInv, FreshInv
<1> QED  BY <1>1, StoreReadyStep, TakenStep, BehindStep DEF BehindInv

\* project.rs:307-308, 330-332, dependency_resolution.rs:397: unless the store
\* refuses rows or queries panic, whichever call swaps the graph of a project, no
\* file that it has, or gets, goes back to an older version.
THEOREM GraphNeverGoesBack ==
    ASSUME Reliable
    PROVE  Spec => GraphNeverRegresses
<1>1. Init => BehindInv
  BY BehindInit
<1>2. TypeOK /\ Engaged /\ LockDiscipline /\ FreshInv /\ BehindInv /\ [Next]_vars => BehindInv'
  BY BehindInvStep
<1>3. TypeOK /\ Engaged /\ LockDiscipline /\ FreshInv /\ BehindInv /\ [Next]_vars =>
         [\A p \in Inits : graph[p] # NoGraph /\ graph'[p] # NoGraph =>
             \A f \in Below(p) : graph[p][f].live \/ graph'[p][f].live =>
                 graph'[p][f].ver >= graph[p][f].ver]_vars
  BY SwapGoesOn
<1> QED  BY <1>1, <1>2, <1>3, Freshness, PTL DEF Spec, GraphNeverRegresses

-----------------------------------------------------------------------------
(* What a notification publishes *)

\* No notification names a file twice.  (One that does cleans the file twice and
\* stores it once: loader.rs refuses a file that the new graph has already.)
NamesOnce ==
    \A n \in Notifies : \A j, k \in 1..Len(Changed[n]) : Changed[n][j] = Changed[n][k] => j = k

\* What a notification has still to refresh it has neither read nor built.
ListLeft(n) ==
    /\ pc[n] \in {"idle", "wait", "type", "nOpen", "nSchema"} =>
          todo[n] = Changed[n] /\ files[n] = {} /\ known[n] = NoVersions
    /\ pc[n] \in {"clean", "store"} =>
          /\ \A j, k \in 1..Len(todo[n]) : todo[n][j] = todo[n][k] => j = k
          /\ \A k \in 1..Len(todo[n]) : todo[n][k] \in Sources =>
                known[n][todo[n][k]] = 0 /\ todo[n][k] \notin files[n]

\* What it has read, and nobody has edited since, the store has.
ListStored(n) ==
    pc[n] \in {"clean", "store"} \cup GraphLabels =>
       \A f \in Sources : known[n][f] > 0 /\ disk[f] = [ver |-> known[n][f], st |-> "ok"]
                             => db[f].live

ListInv == \A n \in Notifies : ListLeft(n) /\ ListStored(n)

\* Only a notification moves on in its list.
LEMMA ListsStay ==
    ASSUME TypeOK, NEW n \in Notifies
    PROVE  /\ \A t \in Task \ {n} : RequestStep(t) => todo'[n] = todo[n]
           /\ RequestStep(n) => NotifyStore(n) \/ NotifySkip(n) \/ todo' = todo
           /\ \A i \in Inits : SdkStep(i) => UNCHANGED <<todo, known, disk>>
           /\ \A f \in Sources : Edit(f) => UNCHANGED <<todo, known>>
           /\ UNCHANGED vars => UNCHANGED <<todo, known, disk>>
<1>1. ASSUME NEW t \in Task, InitCall(t) \/ InitStep(t), ~GraphStep(t)  PROVE todo' = todo
  BY <1>1 DEF InitStep, InitCall, InitConfig, InitReplace, InitUnlock, InitRelock, InitBind,
              InitValidate, InitResolve, InitJoin, InitDeps, InitLoad, workVars
<1>2. ASSUME NEW t \in Task, GraphStep(t)  PROVE todo' = todo
  BY <1>2 DEF GraphStep, GraphOpen, GraphSwap, WalkGuard, WalkOpen, WalkSchema, WalkFile,
              WalkSwap, workVars
<1>3. ASSUME NEW t \in Task, NotifyCall(t) \/ NotifyStep(t), ~GraphStep(t), ~NotifyStore(t),
             ~NotifySkip(t)
      PROVE  todo' = todo
  BY <1>3 DEF NotifyStep, NotifyCall, NotifyStart, NotifyType, NotifyOpen, NotifySchema,
              NotifyClean, workVars
<1>4. ASSUME NEW t \in Task, EvalCall(t) \/ EvalStep(t) \/ Cancel(t)  PROVE todo' = todo
  BY <1>4 DEF EvalStep, EvalCall, EvalStart, EvalType, EvalLock, EvalQuery, Cancel, workVars
<1>5. ASSUME NEW t \in Notifies \ {n}, NotifyStore(t) \/ NotifySkip(t)
      PROVE  todo'[n] = todo[n]
  BY <1>5 DEF NotifyStore, NotifySkip, TypeOK, WorkTypes
<1>6. \A t \in Task : RequestStep(t) =>
         (t \in Notifies /\ (NotifyStore(t) \/ NotifySkip(t))) \/ todo' = todo
  BY <1>1, <1>2, <1>3, <1>4 DEF RequestStep
<1>7. ASSUME NEW i \in Inits, SdkStep(i)  PROVE UNCHANGED <<todo, known, disk>>
  BY <1>7 DEF SdkStep, SdkOpen, SdkSchema, SdkStore, SdkMark, workVars, ackVars, envVars
<1>8. /\ \A f \in Sources : Edit(f) => UNCHANGED <<todo, known>>
      /\ UNCHANGED vars => UNCHANGED <<todo, known, disk>>
  BY DEF Edit, vars, workVars, ackVars, envVars
<1> QED  BY <1>5, <1>6, <1>7, <1>8 DEF Task

\* The list of a notification, through its own steps.
LEMMA StoresHead ==
    ASSUME TypeOK, Engaged, NEW n \in Notifies, ListLeft(n), ListStored(n), Reliable,
           NotifyStore(n)
    PROVE  ListLeft(n)' /\ ListStored(n)'
<1> DEFINE f == Head(todo[n])
<1>0. /\ n \in Task /\ pc \in [Task -> Labels] /\ todo \in [Notifies -> Seq(Sources \cup ProjectFiles)]
      /\ files \in [Task -> SUBSET Sources] /\ known \in [Task -> [Sources -> Version]]
      /\ db \in Rows
  BY DEF Task, TypeOK, RequestTypes, WorkTypes, AckTypes, StoreTypes
<1>1. pc[n] = "store" /\ todo[n] \in Seq(Sources \cup ProjectFiles) /\ todo[n] # <<>>
  BY <1>0 DEF NotifyStore, Engaged, NotifyLabels
<1>2. /\ f \in Sources /\ f \in Row /\ f = todo[n][1] /\ 1 \in 1..Len(todo[n])
      /\ Len(Tail(todo[n])) = Len(todo[n]) - 1
      /\ \A k \in 1..Len(Tail(todo[n])) : k + 1 \in 1..Len(todo[n]) /\ Tail(todo[n])[k] = todo[n][k + 1]
  BY <1>0, <1>1 DEF NotifyStore, Row
<1>3. /\ todo'[n] = Tail(todo[n]) /\ pc'[n] \in {"open", "clean"}
      /\ files'[n] \subseteq files[n] \cup {f} /\ disk' = disk
      /\ known'[n] = [known[n] EXCEPT ![f] = disk[f].ver]
  BY <1>0, <1>1 DEF NotifyStore, Go, envVars
<1>4. known[n][f] = 0 /\ f \notin files[n]
  BY <1>1, <1>2 DEF ListLeft
<1>5. db' = [db EXCEPT ![f] = [ver |-> disk[f].ver, live |-> disk[f].st = "ok"]]
  BY <1>4 DEF NotifyStore, Reliable, May
<1>6. ListLeft(n)'
  <2>1. \A j, k \in 1..Len(todo[n]) : todo[n][j] = todo[n][k] => j = k
    BY <1>1 DEF ListLeft
  <2>2. \A k \in 1..Len(todo[n]) : todo[n][k] \in Sources =>
           known[n][todo[n][k]] = 0 /\ todo[n][k] \notin files[n]
    BY <1>1 DEF ListLeft
  <2>3. ASSUME NEW j \in 1..Len(todo'[n]), NEW k \in 1..Len(todo'[n]),
               todo'[n][j] = todo'[n][k]
        PROVE  j = k
    <3>1. /\ j + 1 \in 1..Len(todo[n]) /\ k + 1 \in 1..Len(todo[n])
          /\ todo[n][j + 1] = todo[n][k + 1]
      BY <1>2, <1>3, <2>3
    <3>2. j + 1 = k + 1
      BY <2>1, <3>1
    <3>3. j \in Int /\ k \in Int
      OBVIOUS
    <3> QED  BY <3>2, <3>3
  <2>4. ASSUME NEW k \in 1..Len(todo'[n]), todo'[n][k] \in Sources
        PROVE  known'[n][todo'[n][k]] = 0 /\ todo'[n][k] \notin files'[n]
    <3>1. todo'[n][k] = todo[n][k + 1] /\ k + 1 \in 1..Len(todo[n]) /\ k + 1 # 1
      BY <1>2, <1>3
    <3>2. todo[n][k + 1] # f /\ todo[n][k + 1] \in Sources
      BY <1>2, <2>1, <2>4, <3>1
    <3> QED  BY <1>0, <1>3, <2>2, <3>1, <3>2
  <2> QED  BY <1>3, <2>3, <2>4 DEF ListLeft
<1>7. ListStored(n)'
  <2> SUFFICES ASSUME NEW g \in Sources, known'[n][g] > 0,
                      disk[g] = [ver |-> known'[n][g], st |-> "ok"]
               PROVE  db'[g].live
    BY <1>3 DEF ListStored
  <2>1. CASE g = f
    <3>1. disk[f].st = "ok"
      BY <2>1
    <3>2. db'[f] = [ver |-> disk[f].ver, live |-> disk[f].st = "ok"]
      BY <1>0, <1>2, <1>5 DEF Rows
    <3>3. db'[f].live = (disk[f].st = "ok")
      BY <3>2
    <3> QED  BY <2>1, <3>1, <3>3
  <2>2. CASE g # f
    <3>1. known'[n][g] = known[n][g] /\ db'[g] = db[g]
      BY <1>0, <1>3, <1>5, <2>2 DEF Rows, Row
    <3> QED  BY <1>1, <3>1 DEF ListStored
  <2> QED  BY <2>1, <2>2
<1> QED  BY <1>6, <1>7

LEMMA CleansHead ==
    ASSUME TypeOK, Engaged, NEW n \in Notifies, ListLeft(n), ListStored(n), NotifyClean(n)
    PROVE  ListLeft(n)' /\ ListStored(n)'
<1> DEFINE f == Head(todo[n])
<1>0. /\ n \in Task /\ pc \in [Task -> Labels] /\ todo \in [Notifies -> Seq(Sources \cup ProjectFiles)]
      /\ db \in Rows
  BY DEF Task, TypeOK, RequestTypes, WorkTypes, StoreTypes
<1>1. /\ pc[n] = "clean" /\ todo[n] # <<>> /\ todo[n] \in Seq(Sources \cup ProjectFiles)
      /\ UNCHANGED <<todo, files, known, disk>>
  BY <1>0 DEF NotifyClean, Engaged, NotifyLabels, workVars, ackVars, envVars
<1>2. f \in Sources /\ f \in Row /\ f = todo[n][1] /\ 1 \in 1..Len(todo[n])
  BY <1>1 DEF NotifyClean, Row
<1>3. known[n][f] = 0
  BY <1>1, <1>2 DEF ListLeft
<1>4. pc'[n] = "done" \/ (pc'[n] = "store" /\ db' = [db EXCEPT ![f].live = FALSE])
  BY <1>0 DEF NotifyClean, Go, Finish, Reply
<1>5. ListLeft(n)'
  BY <1>1, <1>4 DEF ListLeft
<1>6. ListStored(n)'
  <2>1. CASE pc'[n] = "done"
    BY <2>1 DEF ListStored, GraphLabels
  <2>2. CASE db' = [db EXCEPT ![f].live = FALSE]
    <3>1. \A g \in Sources : g # f => db'[g] = db[g]
      BY <1>0, <2>2 DEF Rows, Row
    <3> QED  BY <1>1, <1>3, <3>1 DEF ListStored
  <2> QED  BY <1>4, <2>1, <2>2
<1> QED  BY <1>5, <1>6

LEMMA SkipsHead ==
    ASSUME TypeOK, Engaged, NEW n \in Notifies, ListLeft(n), ListStored(n), NotifySkip(n)
    PROVE  ListLeft(n)' /\ ListStored(n)'
<1>0. /\ n \in Task /\ pc \in [Task -> Labels]
      /\ todo \in [Notifies -> Seq(Sources \cup ProjectFiles)]
  BY DEF Task, TypeOK, RequestTypes, WorkTypes
<1>1. /\ pc[n] = "clean" /\ todo[n] # <<>> /\ todo[n] \in Seq(Sources \cup ProjectFiles)
      /\ UNCHANGED <<files, known, disk, db>>
  BY <1>0 DEF NotifySkip, Engaged, NotifyLabels, ackVars, envVars, storeVars
<1>2. CASE pc'[n] = "done"
  BY <1>2 DEF ListLeft, ListStored, GraphLabels
<1>3. CASE pc'[n] # "done"
  <2>1. todo'[n] = Tail(todo[n]) /\ pc'[n] \in {"open", "clean"}
    BY <1>0, <1>3 DEF NotifySkip, Go, Finish, Reply
  <2>2. /\ Len(Tail(todo[n])) = Len(todo[n]) - 1
        /\ \A k \in 1..Len(Tail(todo[n])) : k + 1 \in 1..Len(todo[n]) /\ Tail(todo[n])[k] = todo[n][k + 1]
    BY <1>1
  <2>3. ASSUME NEW j \in 1..Len(todo'[n]), NEW k \in 1..Len(todo'[n]),
               todo'[n][j] = todo'[n][k]
        PROVE  j = k
    <3>1. /\ j + 1 \in 1..Len(todo[n]) /\ k + 1 \in 1..Len(todo[n])
          /\ todo[n][j + 1] = todo[n][k + 1]
      BY <2>1, <2>2, <2>3
    <3>2. j + 1 = k + 1
      BY <1>1, <3>1 DEF ListLeft
    <3>3. j \in Int /\ k \in Int
      OBVIOUS
    <3> QED  BY <3>2, <3>3
  <2>4. ASSUME NEW k \in 1..Len(todo'[n]), todo'[n][k] \in Sources
        PROVE  known'[n][todo'[n][k]] = 0 /\ todo'[n][k] \notin files'[n]
    <3>1. todo'[n][k] = todo[n][k + 1] /\ k + 1 \in 1..Len(todo[n])
      BY <2>1, <2>2
    <3> QED  BY <1>1, <2>4, <3>1 DEF ListLeft
  <2>5. ListLeft(n)'
    BY <2>1, <2>3, <2>4 DEF ListLeft
  <2> QED  BY <1>1, <2>5 DEF ListStored
<1> QED  BY <1>2, <1>3

LEMMA OwnList ==
    ASSUME Reliable, NamesOnce, TypeOK, Engaged, NEW n \in Notifies, RequestStep(n),
           ListLeft(n), ListStored(n)
    PROVE  ListLeft(n)' /\ ListStored(n)'
<1>0. /\ n \in Task /\ pc \in [Task -> Labels] /\ n \notin Inits /\ n \notin Evals
      /\ files \in [Task -> SUBSET Sources] /\ disk' = disk
  BY DiskStays DEF Task, TypeOK, RequestTypes, WorkTypes
<1>1. ASSUME UNCHANGED <<todo, files, known>>,
             pc[n] \in {"idle", "wait", "type", "nOpen", "nSchema"},
             pc'[n] \in {"wait", "type", "nOpen", "nSchema", "clean", "done"}
      PROVE  ListLeft(n)' /\ ListStored(n)'
  <2>1. todo[n] = Changed[n] /\ files[n] = {} /\ known[n] = NoVersions
    BY <1>1 DEF ListLeft
  <2>2. ListLeft(n)'
    BY <1>1, <2>1 DEF ListLeft, NamesOnce, NoVersions
  <2>3. \A f \in Sources : ~(known'[n][f] > 0)
    BY <1>1, <2>1 DEF NoVersions
  <2> QED  BY <2>2, <2>3 DEF ListStored
<1>2. ASSUME pc'[n] = "done"  PROVE ListLeft(n)' /\ ListStored(n)'
  BY <1>2 DEF ListLeft, ListStored, GraphLabels
<1>3. ASSUME NotifyCall(n) \/ NotifyStart(n) \/ NotifyType(n)
      PROVE  ListLeft(n)' /\ ListStored(n)'
  <2>1. /\ UNCHANGED <<todo, files, known>> /\ pc[n] \in {"idle", "wait", "type"}
        /\ pc'[n] \in {"wait", "type", "nOpen", "done"}
    BY <1>0, <1>3 DEF NotifyCall, NotifyStart, NotifyType, Go, Reply, Finish, workVars, ackVars
  <2> QED  BY <1>1, <2>1
<1>4. ASSUME NotifyOpen(n) \/ NotifySchema(n)  PROVE ListLeft(n)' /\ ListStored(n)'
  <2>1. /\ UNCHANGED <<todo, files, known>> /\ pc[n] \in {"nOpen", "nSchema"}
        /\ pc'[n] \in {"nSchema", "clean", "done"}
    BY <1>0, <1>4 DEF NotifyOpen, NotifySchema, Go, Reply, Finish, workVars, ackVars
  <2> QED  BY <1>1, <2>1
<1>5. ASSUME GraphStep(n)  PROVE ListLeft(n)' /\ ListStored(n)'
  <2>1. pc[n] \in GraphLabels /\ pc'[n] \in GraphLabels \cup {"done"} /\ known' = known
    BY <1>0, <1>5 DEF GraphStep, GraphOpen, GraphSwap, WalkGuard, WalkOpen, WalkSchema,
       WalkFile, WalkSwap, GraphOk, GraphErr, Go, Reply, Finish, GraphLabels, ackVars
  <2>2. \A f \in Sources : db'[f] = db[f] \/ db'[f].live
    <3>1. CASE WalkFile(n)
      BY <1>0, <3>1 DEF WalkFile, TypeOK, StoreTypes, Rows, Row
    <3>2. CASE ~WalkFile(n)
      BY <1>5, <3>2 DEF GraphStep, GraphOpen, GraphSwap, WalkGuard, WalkOpen, WalkSchema,
         WalkSwap, CreateFile, CreateTables, OpenReady, OpenFails, storeVars
    <3> QED  BY <3>1, <3>2
  <2>3. ListLeft(n)'
    BY <2>1 DEF ListLeft, GraphLabels
  <2>4. \A f \in Sources : db[f].live => db'[f].live
    BY <2>2
  <2> QED  BY <1>0, <2>1, <2>3, <2>4 DEF ListStored, GraphLabels
<1>6. ASSUME Cancel(n)  PROVE pc'[n] = "done"
  BY <1>0, <1>6 DEF Cancel, Reply
<1> QED  BY <1>0, <1>2, <1>3, <1>4, <1>5, <1>6, StoresHead, CleansHead, SkipsHead
         DEF RequestStep, NotifyStep

LEMMA OtherLists ==
    ASSUME TypeOK, Engaged, LockDiscipline, NEW n \in Notifies, NEW t \in Task \ {n},
           RequestStep(t), ListLeft(n), ListStored(n)
    PROVE  ListLeft(n)' /\ ListStored(n)'
<1>0. n \in Task /\ n # t
  BY DEF Task
<1>1. /\ pc'[n] = pc[n] /\ files'[n] = files[n] /\ known'[n] = known[n]
      /\ todo'[n] = todo[n] /\ disk' = disk
  BY <1>0, RequestSteps, OthersStay, ListsStay, DiskStays
<1>2. ListLeft(n)'
  BY <1>1 DEF ListLeft
<1>3. CASE pc[n] \notin {"clean", "store"} \cup GraphLabels
  BY <1>1, <1>2, <1>3 DEF ListStored
<1>4. CASE pc[n] \in {"clean", "store"} \cup GraphLabels
  <2>1. pc[n] \in Holding
    BY <1>4, LabelSets DEF GraphLabels
  <2>2. SourcesKept
    BY <1>0, <2>1, RequestSteps DEF LockDiscipline, Exclusion
  <2> QED  BY <1>1, <1>2, <2>2 DEF ListStored, SourcesKept
<1> QED  BY <1>3, <1>4

LEMMA ListStep ==
    ASSUME Reliable, NamesOnce, TypeOK, Engaged, LockDiscipline, StoreBound, ListInv, [Next]_vars
    PROVE  ListInv'
<1> SUFFICES ASSUME NEW n \in Notifies  PROVE ListLeft(n)' /\ ListStored(n)'
  BY DEF ListInv
<1>0. n \in Task /\ ListLeft(n) /\ ListStored(n)
  BY DEF ListInv, Task
<1>1. ASSUME NEW t \in Task, RequestStep(t)  PROVE ListLeft(n)' /\ ListStored(n)'
  BY <1>0, <1>1, OwnList, OtherLists
<1>2. ASSUME SourcesKept, UNCHANGED <<pc, files, todo, known, disk>>
      PROVE  ListLeft(n)' /\ ListStored(n)'
  BY <1>0, <1>2 DEF ListLeft, ListStored, SourcesKept
<1>3. ASSUME NEW g \in Sources, Edit(g)  PROVE ListLeft(n)' /\ ListStored(n)'
  <2>1. SourcesKept /\ UNCHANGED <<pc, files, todo, known>>
    BY <1>3, RowsStay, ListsStay
  <2>2. \A f \in Sources : disk'[f] = disk[f] \/ disk'[f].ver = disk[f].ver + 1
    BY <1>3 DEF Edit, TypeOK, EnvTypes
  <2>3. ASSUME NEW f \in Sources, disk'[f].ver = disk[f].ver + 1
        PROVE  disk'[f].ver # known'[n][f]
    <3>1. known[n][f] <= db[f].ver /\ db[f].ver <= disk[f].ver
      BY DEF StoreBound
    <3>2. known[n][f] \in Nat /\ db[f].ver \in Nat /\ disk[f].ver \in Nat
      BY <1>0, VersionsAreNumbers DEF Numbers
    <3> QED  BY <2>1, <2>3, <3>1, <3>2
  <2>4. ListLeft(n)'
    BY <1>0, <2>1 DEF ListLeft
  <2> QED  BY <1>0, <2>1, <2>2, <2>3, <2>4 DEF ListStored, SourcesKept
<1>4. ASSUME Crash  PROVE ListLeft(n)' /\ ListStored(n)'
  <2>1. /\ UNCHANGED <<todo, files, known>>
        /\ pc'[n] = "done" \/ (pc[n] = "idle" /\ pc'[n] = "idle")
    BY <1>0, <1>4 DEF Crash, workVars, ackVars
  <2> QED  BY <1>0, <2>1 DEF ListLeft, ListStored, GraphLabels
<1> QED  BY <1>1, <1>2, <1>3, <1>4, RowsStay, ListsStay, WhoseStep

LEMMA ListInit == Init => ListInv
<1> SUFFICES ASSUME Init, NEW n \in Notifies  PROVE ListLeft(n) /\ ListStored(n)
  BY DEF ListInv
<1>1. n \in Task
  BY DEF Task
<1>2. pc[n] = "idle" /\ todo[n] = Changed[n] /\ files[n] = {} /\ known[n] = NoVersions
  BY <1>1 DEF Init
<1> QED  BY <1>2 DEF ListLeft, ListStored, GraphLabels

\* A notification that answers success does so as it publishes.
LEMMA SuccessPublishes ==
    ASSUME Reliable, TypeOK, Engaged, NeverPoisoned, SnapCurrent, SnapTaken, StoreBound, ListInv,
           [Next]_vars, NEW n \in Notifies, Answers(n, "ok"),
           NEW f \in Below(cur[n]), known[n][f] > 0
    PROVE  /\ graph'[cur[n]][f].ver >= known[n][f]
           /\ disk[f] = [ver |-> known[n][f], st |-> "ok"] => graph'[cur[n]][f].live
<1>0. /\ n \in Task /\ n \notin Inits /\ n \notin Evals /\ pc \in [Task -> Labels]
      /\ resp \in [Task -> {"none", "ok", "error", "panic", "cancelled", "lost"}]
      /\ graph \in [Inits -> Rows \cup {NoGraph}] /\ snap[n] \in Rows /\ f \in Sources
  BY DEF Task, TypeOK, RequestTypes, WorkTypes, GraphTypes, Below
<1>1. RequestStep(n)
  <2>1. pc[n] # "done" /\ pc'[n] = "done" /\ resp'[n] = "ok"
    BY DEF Answers
  <2>2. ASSUME NEW t \in Task \ {n}, RequestStep(t)  PROVE FALSE
    BY <1>0, <2>1, <2>2, RequestSteps, OthersStay
  <2>3. Crash => FALSE
    BY <1>0, <2>1 DEF Crash
  <2> QED  BY <1>0, <2>1, <2>2, <2>3, RowsStay, WhoseStep
<1>2. GraphSwap(n) \/ WalkSwap(n)
  <2>1. pc'[n] = "done" /\ resp'[n] = "ok"
    BY DEF Answers
  <2>2. ASSUME NotifyCall(n)  PROVE FALSE
    BY <1>0, <2>2 DEF NotifyCall, ListInv, ListLeft, NoVersions
  <2>3. ASSUME NotifyStart(n) \/ NotifyType(n) \/ NotifyOpen(n) \/ NotifySchema(n)
        PROVE  FALSE
    BY <1>0, <2>1, <2>3 DEF NotifyStart, NotifyType, NotifyOpen, NotifySchema, Go, Reply, Finish
  <2>4. ASSUME NotifyClean(n) \/ NotifySkip(n) \/ NotifyStore(n) \/ Cancel(n)  PROVE FALSE
    BY <1>0, <2>1, <2>4 DEF NotifyClean, NotifySkip, NotifyStore, Cancel, Go, Reply, Finish
  <2>5. ASSUME GraphOpen(n) \/ WalkGuard(n) \/ WalkOpen(n) \/ WalkSchema(n) \/ WalkFile(n)
        PROVE  FALSE
    BY <1>0, <2>1, <2>5 DEF GraphOpen, WalkGuard, WalkOpen, WalkSchema, WalkFile, GraphErr, Go,
       Reply, Finish
  <2> QED  BY <1>0, <1>1, <2>2, <2>3, <2>4, <2>5 DEF RequestStep, NotifyStep, GraphStep
<1>3. /\ pc[n] \in {"swap", "walk"} /\ cur[n] \in Inits
      /\ pc[n] = "walk" => files[n] = {}
  BY <1>0, <1>2, LabelSets DEF GraphSwap, WalkSwap, Engaged
<1>4. graph' = [graph EXCEPT ![cur[n]] = snap[n]]
  <2>1. pc'[n] = "done" /\ ~poisoned[cur[n]]
    BY <1>3 DEF Answers, NeverPoisoned
  <2> QED  BY <1>2, <2>1 DEF GraphSwap, WalkSwap
<1>5. graph'[cur[n]] = snap[n]
  BY <1>0, <1>3, <1>4
<1>6. known[n][f] <= db[f].ver /\ db[f].ver <= snap[n][f].ver
  BY <1>0, <1>3 DEF StoreBound, SnapCurrent, Ready
<1>7. known[n][f] \in Nat /\ db[f].ver \in Nat /\ snap[n][f].ver \in Nat
  BY <1>0, VersionsAreNumbers DEF Numbers
<1>8. ASSUME disk[f] = [ver |-> known[n][f], st |-> "ok"]  PROVE snap[n][f].live
  <2>1. db[f].live
    BY <1>0, <1>3, <1>8 DEF ListInv, ListStored, GraphLabels
  <2>2. snap[n][f] = db[f]
    BY <1>3, <2>1 DEF SnapTaken, TakenFrom
  <2> QED  BY <2>1, <2>2
<1> QED  BY <1>5, <1>6, <1>7, <1>8

\* csharp.rs:609-646: unless the store refuses rows or queries panic, a notification
\* that names no file twice, and answers success, has put each of its files into the
\* served graph as it read it, or newer.
THEOREM NotificationsPublish ==
    ASSUME Reliable, NamesOnce
    PROVE  Spec => NotifyPublishes
<1>1. Init => BehindInv /\ ListInv
  BY BehindInit, ListInit
<1>2. TypeOK /\ Engaged /\ LockDiscipline /\ FreshInv /\ BehindInv /\ ListInv /\ [Next]_vars
         => BehindInv' /\ ListInv'
  BY BehindInvStep, ListStep DEF FreshInv
<1>3. TypeOK /\ Engaged /\ FreshInv /\ BehindInv /\ ListInv /\ [Next]_vars =>
         [\A n \in Notifies : Answers(n, "ok") /\ cur[n] # NoProject =>
             \A f \in Below(cur[n]) : known[n][f] > 0 =>
                LET row == graph'[cur[n]][f]
                IN  /\ row.ver >= known[n][f]
                    /\ disk[f] = [ver |-> known[n][f], st |-> "ok"] => row.live]_vars
  BY SuccessPublishes DEF FreshInv, BehindInv
<1> QED  BY <1>1, <1>2, <1>3, Freshness, PTL DEF Spec, NotifyPublishes

-----------------------------------------------------------------------------
(* The service implements FreshReads *)

\* What Reads makes of an evaluate: its status, and the versions of its answer.
StatusOf(e) ==
    IF pc[e] = "idle" THEN "idle"
    ELSE IF resp[e] = "none" THEN "called"
    ELSE IF resp[e] = "ok" THEN "answered" ELSE "failed"
SeenOf(e) ==
    [f \in Sources |-> IF resp[e] # "ok" THEN 0
                       ELSE IF f \in Below(cur[e]) THEN snap[e][f].ver ELSE known[e][f]]

\* An evaluate that does not move looks the same.
SameView(e) == known'[e] = known[e] /\ StatusOf(e)' = StatusOf(e) /\ SeenOf(e)' = SeenOf(e)

LEMMA ViewStays ==
    \A e : pc'[e] = pc[e] /\ resp'[e] = resp[e] /\ cur'[e] = cur[e] /\ snap'[e] = snap[e]
            /\ known'[e] = known[e] => SameView(e)
BY DEF SameView, StatusOf, SeenOf

\* Nothing that clients see has changed.
LEMMA StutterView ==
    ASSUME UNCHANGED <<disk, acked>>, \A e \in Evals : SameView(e)
    PROVE  UNCHANGED Reads!vars
BY DEF SameView, StatusOf, SeenOf, Reads!vars

LEMMA FailView ==
    ASSUME UNCHANGED <<disk, acked>>, NEW lost \in SUBSET Evals,
           \A e \in Evals : /\ known'[e] = known[e] /\ SeenOf(e)' = SeenOf(e)
                            /\ e \in lost => StatusOf(e) = "called" /\ StatusOf(e)' = "failed"
                            /\ e \notin lost => StatusOf(e)' = StatusOf(e)
    PROVE  Reads!Fail
<1>1. lost \in SUBSET {e \in Evals : [d \in Evals |-> StatusOf(d)][e] = "called"}
  OBVIOUS
<1>2. [e \in Evals |-> StatusOf(e)'] =
         [e \in Evals |-> IF e \in lost THEN "failed" ELSE [d \in Evals |-> StatusOf(d)][e]]
  OBVIOUS
<1>3. [e \in Evals |-> known'[e]] = [e \in Evals |-> known[e]]
  OBVIOUS
<1>4. [e \in Evals |-> SeenOf(e)'] = [e \in Evals |-> SeenOf(e)]
  OBVIOUS
<1>5. \E away \in SUBSET {e \in Evals : [d \in Evals |-> StatusOf(d)][e] = "called"} :
         [e \in Evals |-> StatusOf(e)'] =
            [e \in Evals |-> IF e \in away THEN "failed" ELSE [d \in Evals |-> StatusOf(d)][e]]
  BY <1>1, <1>2, Zenon
<1> QED  BY <1>3, <1>4, <1>5, Zenon DEF Reads!Fail, StatusOf, SeenOf

\* An init or a notification: what clients know of may grow, to what is on disk.
LEMMA WriterView ==
    ASSUME Reliable, TypeOK, TypeOK', Engaged, FreshInv, FreshInv', NEW t \in Inits \cup Notifies,
           t \in Task, RequestStep(t)
    PROVE  Reads!Next \/ UNCHANGED Reads!vars
<1>1. disk' = disk /\ \A e \in Evals : SameView(e)
  <2>1. \A e \in Evals : e \in Task \ {t}
    BY RequestsDistinct DEF Task
  <2> QED  BY <2>1, DiskStays, RequestSteps, OthersStay, ViewStays
<1>2. CASE UNCHANGED acked
  BY <1>1, <1>2, StutterView
<1>3. CASE Publishes(t)
  <2>1. \A f \in Sources : acked[f] <= acked'[f]
    BY <1>3 DEF Publishes
  <2>2. \A f \in Sources : /\ acked'[f] <= db'[f].ver /\ db'[f].ver <= disk'[f].ver
    BY DEF FreshInv, StoreBound
  <2>3. Numbers'
    BY VersionsAreNumbers, PTL
  <2>4. \A f \in Sources : acked'[f] \in Nat /\ acked'[f] <= disk[f].ver
    BY <1>1, <2>2, <2>3 DEF Numbers
  <2>5. acked' \in [Sources -> Nat]
    BY <2>4 DEF TypeOK, AckTypes
  <2>6. Reads!Acknowledge
    BY <1>1, <2>1, <2>4, <2>5 DEF Reads!Acknowledge, Reads!Upto, SameView, StatusOf, SeenOf
  <2> QED  BY <2>6 DEF Reads!Next
<1>4. ~Shows(t)
  BY RequestsDistinct DEF Shows
<1> QED  BY <1>2, <1>3, <1>4, GraphChanges DEF FreshInv

\* An evaluate is called: nothing but it changes, and it must reach what is known.
LEMMA CallView ==
    ASSUME TypeOK, Engaged, Answered, NEW e \in Evals, EvalCall(e)
    PROVE  Reads!Call(e)
<1>0. /\ pc \in [Task -> Labels] /\ known \in [Task -> [Sources -> Version]] /\ e \in Task
      /\ resp \in [Task -> {"none", "ok", "error", "panic", "cancelled", "lost"}]
      /\ Evals \subseteq Task
  BY DEF TypeOK, RequestTypes, AckTypes, Task
<1>1. /\ pc[e] = "idle" /\ resp[e] = "none" /\ disk' = disk /\ acked' = acked
      /\ cur' = cur /\ snap' = snap
      /\ known' = [known EXCEPT ![e] = acked]
      /\ \/ pc' = [pc EXCEPT ![e] = "wait"] /\ resp' = resp
         \/ pc' = [pc EXCEPT ![e] = "done"] /\ resp' = [resp EXCEPT ![e] = "error"]
  BY <1>0 DEF EvalCall, Go, Reply, envVars, workVars, Answered
<1>2. StatusOf(e) = "idle" /\ StatusOf(e)' \in {"called", "failed"}
  BY <1>0, <1>1 DEF StatusOf
<1>3. \A d \in Evals \ {e} : SameView(d)
  BY <1>0, <1>1, ViewStays
<1>4. known'[e] = acked /\ SeenOf(e)' = SeenOf(e)
  BY <1>0, <1>1 DEF SeenOf
<1>5. [d \in Evals |-> known'[d]] = [[d \in Evals |-> known[d]] EXCEPT ![e] = acked]
  BY <1>3, <1>4 DEF SameView
<1>6. [d \in Evals |-> SeenOf(d)'] = [d \in Evals |-> SeenOf(d)]
  BY <1>3, <1>4 DEF SameView
<1>7. [d \in Evals |-> StatusOf(d)'] = [[d \in Evals |-> StatusOf(d)] EXCEPT ![e] = StatusOf(e)']
  BY <1>3 DEF SameView
<1>8. [d \in Evals |-> StatusOf(d)][e] = "idle"
  BY <1>2
<1>9. \E s \in {"called", "failed"} :
         [d \in Evals |-> StatusOf(d)'] = [[d \in Evals |-> StatusOf(d)] EXCEPT ![e] = s]
  BY <1>2, <1>7, Zenon
<1> QED  BY <1>1, <1>5, <1>6, <1>8, <1>9, Zenon DEF Reads!Call, StatusOf, SeenOf

\* An evaluate answers: from versions between those it must reach and the disk's.
LEMMA AnswerView ==
    ASSUME Reliable, TypeOK, TypeOK', Engaged, FreshInv, NEW e \in Evals, RequestStep(e), Shows(e),
           resp'[e] = "ok"
    PROVE  Reads!Answer(e)
<1>0. /\ e \in Task /\ Evals \subseteq Task
      /\ StoreBound /\ GraphBound /\ EvalsServed /\ Answered /\ Numbers
  BY VersionsAreNumbers DEF Task, FreshInv, GraphCurrent
<1>1. /\ pc[e] = "query" /\ pc'[e] = "done" /\ cur[e] \in Inits /\ graph[cur[e]] # NoGraph
      /\ cur' = cur /\ known' = known /\ acked' = Shown(cur[e]) /\ snap'[e] = graph[cur[e]]
      /\ disk' = disk
  BY <1>0, DiskStays DEF Shows
<1>2. resp[e] = "none" /\ StatusOf(e) = "called" /\ StatusOf(e)' = "answered"
  BY <1>0, <1>1 DEF StatusOf, Answered
<1>3. \A d \in Evals \ {e} : SameView(d)
  BY <1>0, RequestSteps, OthersStay, ViewStays
<1>4. SeenOf(e)' = [f \in Sources |-> IF f \in Below(cur[e]) THEN graph[cur[e]][f].ver
                                                           ELSE known[e][f]]
  BY <1>1 DEF SeenOf
<1>5. ASSUME NEW f \in Sources
      PROVE  /\ SeenOf(e)'[f] \in Nat /\ known[e][f] <= SeenOf(e)'[f]
             /\ SeenOf(e)'[f] <= disk[f].ver
  <2>1. /\ known[e][f] \in Nat /\ acked[f] \in Nat /\ db[f].ver \in Nat /\ disk[f].ver \in Nat
        /\ known[e][f] <= acked[f] /\ acked[f] <= db[f].ver /\ db[f].ver <= disk[f].ver
    BY <1>0 DEF Numbers, StoreBound
  <2>2. graph[cur[e]][f].ver \in Nat /\ graph[cur[e]][f].ver <= disk[f].ver
    BY <1>0, <1>1 DEF Numbers, GraphBound, Bounded
  <2>3. f \in Below(cur[e]) => known[e][f] <= graph[cur[e]][f].ver
    BY <1>0, <1>1 DEF EvalsServed
  <2> QED  BY <1>4, <2>1, <2>2, <2>3
<1>6. \A d \in Evals : SeenOf(d)' \in [Sources -> Nat]
  <2> TAKE d \in Evals
  <2>1. CASE d = e
    BY <1>4, <1>5, <2>1
  <2>2. CASE d # e
    <3>1. \A f \in Sources : known[d][f] \in Nat /\ snap[d][f].ver \in Nat
      BY <1>0 DEF Numbers
    <3>2. SeenOf(d) \in [Sources -> Nat]
      BY <3>1 DEF SeenOf
    <3> QED  BY <1>3, <2>2, <3>2 DEF SameView
  <2> QED  BY <2>1, <2>2
<1>7. PICK shown : shown = {f \in Below(cur[e]) : graph[cur[e]][f].live}
  OBVIOUS
<1>8. shown \in SUBSET Sources
  BY <1>7 DEF Below
<1>9. acked' = [f \in Sources |->
                  IF f \in shown /\ SeenOf(e)'[f] > acked[f] THEN SeenOf(e)'[f] ELSE acked[f]]
  BY <1>1, <1>4, <1>7 DEF Shown, Below
<1>10. [d \in Evals |-> StatusOf(d)'] = [[d \in Evals |-> StatusOf(d)] EXCEPT ![e] = "answered"]
  BY <1>2, <1>3 DEF SameView
<1>11. [d \in Evals |-> SeenOf(d)'] \in [Evals -> [Sources -> Nat]]
  BY <1>6
<1>12. \A q \in Evals \ {e} : [d \in Evals |-> SeenOf(d)'][q] = [d \in Evals |-> SeenOf(d)][q]
  BY <1>3 DEF SameView
<1>13. \A f \in Sources :
          /\ [d \in Evals |-> known[d]][e][f] <= [d \in Evals |-> SeenOf(d)'][e][f]
          /\ [d \in Evals |-> SeenOf(d)'][e][f] <= [g \in Sources |-> disk[g].ver][f]
  BY <1>5
<1>14. acked' = [f \in Sources |->
                   IF f \in shown /\ [d \in Evals |-> SeenOf(d)'][e][f] > acked[f]
                   THEN [d \in Evals |-> SeenOf(d)'][e][f] ELSE acked[f]]
  <2>1. [d \in Evals |-> SeenOf(d)'][e] = SeenOf(e)'
    OBVIOUS
  <2> QED  BY <1>9, <2>1, Zenon
<1>15. /\ [d \in Evals |-> StatusOf(d)][e] = "called"
       /\ [d \in Evals |-> known'[d]] = [d \in Evals |-> known[d]]
       /\ [f \in Sources |-> disk'[f].ver] = [f \in Sources |-> disk[f].ver]
  BY <1>1, <1>2
<1>16. \E some \in SUBSET Sources :
          acked' = [f \in Sources |->
                   IF f \in some /\ [d \in Evals |-> SeenOf(d)'][e][f] > acked[f]
                   THEN [d \in Evals |-> SeenOf(d)'][e][f] ELSE acked[f]]
  BY <1>8, <1>14, Zenon
<1> QED  BY <1>10, <1>11, <1>12, <1>13, <1>15, <1>16, Zenon
         DEF Reads!Answer, Reads!Versions, Reads!Upto, StatusOf, SeenOf

\* Any other step of an evaluate leaves the versions alone, and may end its call.
LEMMA EvalEnds ==
    ASSUME TypeOK, Engaged, NEW e \in Evals, EvalStep(e) \/ Cancel(e), ~Shows(e)
    PROVE  /\ known' = known /\ acked' = acked /\ pc[e] # "idle" /\ pc'[e] # "idle"
<1>0. e \in Task /\ pc \in [Task -> Labels]
      /\ resp \in [Task -> {"none", "ok", "error", "panic", "cancelled", "lost"}]
      /\ graph \in [Inits -> Rows \cup {NoGraph}] /\ snap \in [Task -> Rows]
  BY DEF Task, TypeOK, RequestTypes, GraphTypes, WorkTypes
<1>1. ASSUME EvalStart(e)  PROVE known' = known /\ acked' = acked /\ pc[e] # "idle" /\ pc'[e] # "idle"
  BY <1>0, <1>1 DEF EvalStart, Go, Finish, Reply, ackVars
<1>2. ASSUME EvalType(e)  PROVE known' = known /\ acked' = acked /\ pc[e] # "idle" /\ pc'[e] # "idle"
  BY <1>0, <1>2 DEF EvalType, Go, Reply, ackVars
<1>3. ASSUME EvalLock(e)  PROVE known' = known /\ acked' = acked /\ pc[e] # "idle" /\ pc'[e] # "idle"
  BY <1>0, <1>3 DEF EvalLock, Go, ackVars
<1>4. ASSUME EvalQuery(e)  PROVE known' = known /\ acked' = acked /\ pc[e] # "idle" /\ pc'[e] # "idle"
  <2>1. cur[e] \in Inits
    BY <1>0, <1>4 DEF EvalQuery, Engaged, EvalLabels
  <2>2. /\ UNCHANGED <<graph, project, known, cur>> /\ pc[e] = "query" /\ pc'[e] = "done"
        /\ \/ UNCHANGED acked
           \/ /\ graph[cur[e]] # NoGraph /\ acked' = Shown(cur[e]) /\ resp'[e] = "ok"
              /\ snap' = [snap EXCEPT ![e] = graph[cur[e]]]
    BY <1>0, <1>4 DEF EvalQuery, Reply, provVars
  <2> QED  BY <1>0, <2>1, <2>2 DEF Shows
<1>5. ASSUME Cancel(e)  PROVE known' = known /\ acked' = acked /\ pc[e] # "idle" /\ pc'[e] # "idle"
  BY <1>0, <1>5 DEF Cancel, Reply, ackVars
<1> QED  BY <1>1, <1>2, <1>3, <1>4, <1>5 DEF EvalStep

LEMMA ReaderView ==
    ASSUME Reliable, TypeOK, TypeOK', Engaged, FreshInv, NEW e \in Evals, RequestStep(e)
    PROVE  Reads!Next
<1>0. /\ e \in Task /\ Evals \subseteq Task /\ Answered
      /\ e \notin Inits /\ e \notin Notifies
  BY DEF Task, FreshInv
<1>1. CASE EvalCall(e)
  BY <1>0, <1>1, CallView DEF Reads!Next
<1>2. CASE resp'[e] = "ok"
  <2>1. resp[e] = "none"
    BY <1>0, RequestSteps DEF Acts, Answered
  <2>2. Shows(e)
    BY <1>0, <1>2, <2>1, EvalMoves
  <2>3. Reads!Answer(e)
    BY <1>0, <1>2, <2>2, AnswerView
  <2> QED  BY <2>3 DEF Reads!Next
<1>3. CASE ~EvalCall(e) /\ resp'[e] # "ok"
  <2>1. resp[e] = "none" /\ pc[e] # "done" /\ (pc'[e] = "done" <=> resp'[e] # "none")
    BY <1>0, RequestSteps DEF Acts, Answered
  <2>2. \A d \in Evals \ {e} : SameView(d)
    BY <1>0, RequestSteps, OthersStay, ViewStays
  <2>3. SeenOf(e)' = SeenOf(e)
    BY <1>3, <2>1 DEF SeenOf
  <2>4. disk' = disk
    BY <1>0, DiskStays
  <2>5. EvalStep(e) \/ Cancel(e)
    BY <1>0, <1>3 DEF RequestStep
  <2>6. ~Shows(e)
    BY <1>3 DEF Shows
  <2>7. known' = known /\ acked' = acked /\ pc[e] # "idle" /\ pc'[e] # "idle"
    BY <2>5, <2>6, EvalEnds
  <2>8. PICK lost : lost = IF pc'[e] = "done" THEN {e} ELSE {}
    OBVIOUS
  <2>9. /\ lost \in SUBSET Evals /\ (e \in lost <=> pc'[e] = "done")
        /\ \A d \in Evals : d # e => d \notin lost
    BY <2>8
  <2>10. /\ StatusOf(e) = "called"
         /\ e \in lost => StatusOf(e)' = "failed"
         /\ e \notin lost => StatusOf(e)' = StatusOf(e)
    BY <1>3, <2>1, <2>7, <2>9 DEF StatusOf
  <2>11. \A d \in Evals : /\ known'[d] = known[d] /\ SeenOf(d)' = SeenOf(d)
                          /\ d \in lost => StatusOf(d) = "called" /\ StatusOf(d)' = "failed"
                          /\ d \notin lost => StatusOf(d)' = StatusOf(d)
    BY <2>2, <2>3, <2>7, <2>9, <2>10 DEF SameView
  <2>12. Reads!Fail
    BY <2>4, <2>7, <2>9, <2>11, FailView
  <2> QED  BY <2>12 DEF Reads!Next
<1> QED  BY <1>1, <1>2, <1>3

\* Every step of the service is one of FreshReads, or nothing to its clients.
LEMMA ViewStep ==
    ASSUME Reliable, TypeOK, TypeOK', Engaged, FreshInv, FreshInv', [Next]_vars
    PROVE  [Reads!Next]_(Reads!vars)
<1>0. /\ pc \in [Task -> Labels] /\ Evals \subseteq Task /\ disk \in [Sources -> Content]
      /\ resp \in [Task -> {"none", "ok", "error", "panic", "cancelled", "lost"}]
      /\ \A f \in Sources : disk[f].ver \in Nat
  BY VersionsAreNumbers DEF TypeOK, RequestTypes, EnvTypes, Task, Numbers
<1>1. UNCHANGED <<disk, acked, pc, resp, cur, snap, known>> => UNCHANGED Reads!vars
  BY DEF Reads!vars
<1>2. ASSUME NEW t \in Task, RequestStep(t)  PROVE Reads!Next \/ UNCHANGED Reads!vars
  BY <1>2, WriterView, ReaderView DEF Task
<1>3. ASSUME NEW i \in Inits, SdkStep(i)  PROVE UNCHANGED Reads!vars
  BY <1>1, <1>3 DEF SdkStep, SdkOpen, SdkSchema, SdkStore, SdkMark, reqVars, workVars,
                    envVars, ackVars
<1>4. ASSUME NEW f \in Sources, Edit(f)  PROVE Reads!Next
  <2>1. /\ UNCHANGED <<acked, pc, resp, cur, snap, known>>
        /\ \E st : disk' = [disk EXCEPT ![f] = [ver |-> disk[f].ver + 1, st |-> st]]
    BY <1>4 DEF Edit, reqVars, workVars, ackVars
  <2>2. [g \in Sources |-> disk'[g].ver] =
           [[g \in Sources |-> disk[g].ver] EXCEPT ![f] = [g \in Sources |-> disk[g].ver][f] + 1]
    <3>1. \A g \in Sources : disk'[g].ver = IF g = f THEN disk[f].ver + 1 ELSE disk[g].ver
      BY <1>0, <2>1
    <3> QED  BY <3>1
  <2>3. Reads!Edit(f)
    BY <2>1, <2>2 DEF Reads!Edit
  <2> QED  BY <2>3 DEF Reads!Next
<1>5. ASSUME Crash  PROVE Reads!Next
  <2>1. /\ UNCHANGED <<disk, acked, known, cur, snap>>
        /\ \A e \in Evals : /\ pc'[e] = IF pc[e] = "idle" THEN "idle" ELSE "done"
                            /\ resp'[e] = IF pc[e] \in {"idle", "done"} THEN resp[e] ELSE "lost"
    BY <1>0, <1>5 DEF Crash, workVars, ackVars
  <2>2. \A e \in Evals : pc[e] = "done" <=> resp[e] # "none"
    BY <1>0 DEF FreshInv, Answered
  <2>3. PICK lost : lost = {e \in Evals : StatusOf(e) = "called"}
    OBVIOUS
  <2>4. ASSUME NEW e \in Evals
        PROVE  /\ known'[e] = known[e] /\ SeenOf(e)' = SeenOf(e)
               /\ e \in lost => StatusOf(e) = "called" /\ StatusOf(e)' = "failed"
               /\ e \notin lost => StatusOf(e)' = StatusOf(e)
    BY <2>1, <2>2, <2>3 DEF StatusOf, SeenOf
  <2>5. lost \in SUBSET Evals
    BY <2>3
  <2>6. UNCHANGED <<disk, acked>>
    BY <2>1
  <2>7. Reads!Fail
    BY <2>4, <2>5, <2>6, FailView
  <2> QED  BY <2>7 DEF Reads!Next
<1>6. CASE UNCHANGED vars
  BY <1>1, <1>6 DEF vars, reqVars, workVars, envVars, ackVars
<1> QED  BY <1>2, <1>3, <1>4, <1>5, <1>6, WhoseStep

\* csharp.rs:334-489, 517-654: seen by its clients, the service is FreshReads: with
\* all its locks, its store, the graphs of its projects and the calls that are given
\* up, unless the store refuses rows or queries panic.
THEOREM AnswersStayFresh ==
    ASSUME Reliable
    PROVE  Spec => ReadsStayFresh
<1>1. Init => Reads!Init
  <2> SUFFICES ASSUME Init  PROVE Reads!Init
    OBVIOUS
  <2>1. \A e \in Evals : /\ pc[e] = "idle" /\ resp[e] = "none"
                         /\ known[e] = [f \in Sources |-> 0]
    BY DEF Init, NoVersions, Task
  <2>2. [f \in Sources |-> disk[f].ver] = [f \in Sources |-> 1]
    BY DEF Init
  <2>3. acked = [f \in Sources |-> 0]
    BY DEF Init, NoVersions
  <2> QED  BY <2>1, <2>2, <2>3 DEF Reads!Init
<1>2. /\ TypeOK /\ Engaged /\ LockDiscipline /\ FreshInv
      /\ (TypeOK /\ Engaged /\ LockDiscipline /\ FreshInv)' /\ [Next]_vars
      => [Reads!Next]_(Reads!vars)
  BY ViewStep
<1> QED  BY <1>1, <1>2, Freshness, PTL DEF Spec, ReadsStayFresh, Reads!Spec

-----------------------------------------------------------------------------
(* The graph in place and the store *)

\* Who is about to change the store, or has changed it and not yet put it in place.
Changing(t) ==
    \/ t \in Notifies /\ pc[t] \in {"clean", "store"} \cup GraphLabels
    \/ t \in Inits /\ pc[t] = "walk"
AgreeInv ==
    project \in Inits /\ (\A t \in Inits \cup Notifies : ~BrokenOff(t) /\ ~Changing(t))
        => ServedAgrees

\* Who changes the store goes on until it has put it in place, or breaks off.
LEMMA WritersGoOn ==
    ASSUME Reliable, TypeOK, Engaged, ProjectKept, NeverPoisoned, SnapTaken,
           NEW t \in Inits \cup Notifies, Writes(t) \/ (Changing(t) /\ RequestStep(t))
    PROVE  PutsStore(t) \/ Changing(t)' \/ BrokenOff(t)'
<1>0. /\ t \in Task /\ t \notin Evals /\ (t \in Notifies => t \notin Inits)
      /\ pc \in [Task -> Labels] /\ DOMAIN resp = Task
  BY DEF TypeOK, RequestTypes, Task
<1>1. pc[t] \in {"clean", "store"} \cup GraphLabels
  BY DEF Changing, Writes, NotifyClean, NotifyStore, WalkFile, GraphLabels
<1>2. cur[t] = project
  BY <1>0, <1>1, LabelSets DEF ProjectKept, GraphLabels
<1>3. Finish(t, "error") /\ UNCHANGED <<cur, project>> /\ (t \in Inits => files'[t] # {})
         => BrokenOff(t)'
  BY <1>0, <1>2 DEF Finish, Reply, BrokenOff
<1>4. \A l : Go(t, l) => pc'[t] = l
  BY <1>0 DEF Go
<1>5. ASSUME WalkFile(t)  PROVE Changing(t)' \/ BrokenOff(t)'
  <2>1. CASE UNCHANGED pc
    BY <1>5, <2>1 DEF WalkFile, Changing, GraphLabels
  <2>2. CASE Finish(t, "error") /\ UNCHANGED files
    BY <1>3, <1>5, <2>2 DEF WalkFile
  <2> QED  BY <1>5, <2>1, <2>2 DEF WalkFile
<1>6. ASSUME t \in Notifies, NotifyClean(t) \/ NotifySkip(t) \/ NotifyStore(t)
      PROVE  Changing(t)'
  BY <1>4, <1>6 DEF NotifyClean, NotifySkip, NotifyStore, Changing, Reliable, May, GraphLabels
<1>7. ASSUME t \in Notifies, GraphOpen(t) \/ WalkGuard(t) \/ WalkOpen(t) \/ WalkSchema(t)
      PROVE  Changing(t)' \/ BrokenOff(t)'
  <2>1. \/ \E l \in GraphLabels : Go(t, l)
        \/ Finish(t, "error") /\ UNCHANGED <<cur, project>>
    BY <1>0, <1>7 DEF GraphOpen, WalkGuard, WalkOpen, WalkSchema, GraphErr, GraphLabels
  <2> QED  BY <1>0, <1>3, <1>4, <1>7, <2>1 DEF Changing
<1>8. GraphSwap(t) \/ WalkSwap(t) => PutsStore(t)
  BY SwapPutsStore
<1>9. ASSUME t \in Inits, pc[t] = "walk", RequestStep(t)  PROVE WalkFile(t) \/ WalkSwap(t)
  BY <1>0, <1>9 DEF RequestStep, InitCall, InitStep, InitConfig, InitReplace, InitUnlock, InitRelock,
     InitBind, InitValidate, InitResolve, InitJoin, InitDeps, InitLoad, GraphStep, GraphOpen,
     GraphSwap, WalkGuard, WalkOpen, WalkSchema, Cancel
<1>10. ASSUME t \in Notifies, RequestStep(t)
       PROVE  GraphStep(t) \/ NotifyClean(t) \/ NotifySkip(t) \/ NotifyStore(t)
  BY <1>0, <1>1, <1>10 DEF RequestStep, NotifyCall, NotifyStep, NotifyStart, NotifyType,
     NotifyOpen, NotifySchema, Cancel, GraphLabels
<1> QED
  BY <1>0, <1>5, <1>6, <1>7, <1>8, <1>9, <1>10 DEF Writes, Changing, GraphStep

LEMMA AgreeStep ==
    ASSUME Reliable, TypeOK, TypeOK', Engaged, LockDiscipline, FreshInv, SnapTaken, AgreeInv, [Next]_vars
    PROVE  AgreeInv'
<1>0. ProjectKept /\ NeverPoisoned /\ Answered
  BY DEF FreshInv
<1>1. ASSUME SourcesKept, UNCHANGED <<pc, resp, cur, files, graph, project>>  PROVE AgreeInv'
  <2>1. \A t \in Inits \cup Notifies : BrokenOff(t)' = BrokenOff(t) /\ Changing(t)' = Changing(t)
    BY <1>1 DEF BrokenOff, Changing
  <2>2. ServedAgrees => ServedAgrees'
    BY <1>1 DEF ServedAgrees, SourcesKept, Below
  <2> QED  BY <1>1, <2>1, <2>2 DEF AgreeInv
<1>2. ASSUME NEW t \in Task, RequestStep(t)  PROVE AgreeInv'
  <2>0. /\ Acts(t) /\ (Moved(t) \/ (t \in Inits /\ InitReplace(t)))
        /\ SourcesKept \/ Writes(t)
    BY <1>2, RequestSteps
  <2>1. CASE PutsStore(t)
    <3>1. cur[t] = project /\ project' = project /\ db' = db
      BY <1>0, <2>1 DEF PutsStore, ProjectKept
    <3>2. \A f \in Below(project) :
             db[f].live \/ graph'[project][f].live => graph'[project][f] = db[f]
      BY <2>1, <3>1 DEF PutsStore
    <3>3. ASSUME NEW f \in Below(project), graph'[project] # NoGraph
          PROVE  /\ graph'[project][f].live = db[f].live
                 /\ db[f].live => graph'[project][f].ver = db[f].ver
      <4>1. db[f].live \in BOOLEAN /\ graph'[project][f].live \in BOOLEAN
        <5>1. f \in Row /\ project \in Inits
          BY <2>1, <3>1 DEF Below, Row, PutsStore
        <5>2. db \in Rows /\ graph' \in [Inits -> Rows \cup {NoGraph}]
          BY DEF TypeOK, StoreTypes, GraphTypes
        <5>3. graph'[project] \in Rows
          BY <3>3, <5>1, <5>2
        <5> QED  BY <5>1, <5>2, <5>3 DEF Rows, RowVal
      <4> QED  BY <3>2, <4>1
    <3> QED  BY <3>1, <3>3 DEF ServedAgrees, AgreeInv
  <2>2. CASE t \in Inits /\ InitReplace(t)
    <3>1. graph' = graph /\ project' = t /\ pc[t] = "project"
      BY <2>2 DEF InitReplace, graphVars
    <3>2. graph'[project'] = NoGraph
      BY <1>0, <2>2, <3>1 DEF ProjectKept, Early
    <3> QED  BY <3>2 DEF AgreeInv, ServedAgrees
  <2>3. CASE Moved(t) /\ UNCHANGED graph /\ ~PutsStore(t)
    <3> SUFFICES ASSUME project' \in Inits,
                        \A u \in Inits \cup Notifies : ~BrokenOff(u)' /\ ~Changing(u)'
                 PROVE  ServedAgrees'
      BY DEF AgreeInv
    <3>1. project' = project
      BY <2>3 DEF Moved
    <3>2. ~Writes(t) /\ SourcesKept
      <4>1. Writes(t) => t \in Inits \cup Notifies
        BY <1>2 DEF Writes, RequestStep, WalkFile, EvalCall, EvalStep, EvalStart, EvalType,
                    EvalLock, EvalQuery, Cancel
      <4> QED  BY <1>0, <2>0, <2>3, <4>1, WritersGoOn
    <3>3. ASSUME NEW u \in Inits \cup Notifies  PROVE ~Changing(u) /\ ~BrokenOff(u)
      <4>0. u \in Task /\ (pc[u] = "done" <=> resp[u] # "none")
        BY <1>0 DEF Answered, Task
      <4>1. u = t => ~Changing(u)
        BY <1>0, <1>2, <2>3, WritersGoOn
      <4>2. u # t => pc'[u] = pc[u] /\ resp'[u] = resp[u] /\ cur'[u] = cur[u] /\ files'[u] = files[u]
        BY <2>0, <4>0, OthersStay
      <4>3. u # t => ~Changing(u) /\ ~BrokenOff(u)
        BY <3>1, <4>2 DEF Changing, BrokenOff
      <4>4. u = t => ~BrokenOff(u)
        BY <2>0, <4>0 DEF BrokenOff, Acts
      <4> QED  BY <4>1, <4>3, <4>4
    <3>4. ServedAgrees
      BY <3>1, <3>3 DEF AgreeInv
    <3> QED  BY <2>3, <3>1, <3>2, <3>4 DEF ServedAgrees, SourcesKept, Below
  <2> QED  BY <1>0, <1>2, <2>0, <2>1, <2>2, <2>3, GraphFromStore
<1>3. ASSUME Crash  PROVE AgreeInv'
  BY <1>3 DEF Crash, AgreeInv
<1>4. \/ \E i \in Inits : SdkStep(i)
      \/ \E f \in Sources : Edit(f)
      \/ UNCHANGED vars
      => UNCHANGED resp
  BY DEF SdkStep, SdkOpen, SdkSchema, SdkStore, SdkMark, Edit, reqVars, vars
<1> QED  BY <1>1, <1>2, <1>3, <1>4, RowsStay, WhoseStep

\* project.rs:270-311: unless the store refuses rows or queries panic, the graph in
\* place and the store agree on the source files whenever no handler is at work and no
\* call on the project has broken off.
THEOREM GraphMatchesStore ==
    ASSUME Reliable
    PROVE  Spec => []ServedGraphMatchesStore
<1>1. Init => BehindInv /\ AgreeInv
  <2>1. Init => AgreeInv
    BY DEF Init, Fresh, AgreeInv
  <2> QED  BY <2>1, BehindInit
<1>2. TypeOK /\ Engaged /\ LockDiscipline /\ FreshInv /\ BehindInv /\ AgreeInv /\ [Next]_vars
         => BehindInv' /\ AgreeInv'
  BY TypesStep, BehindInvStep, AgreeStep DEF BehindInv
<1>3. TypeOK /\ LockDiscipline /\ AgreeInv => ServedGraphMatchesStore
  <2> SUFFICES ASSUME TypeOK, LockDiscipline, AgreeInv, projLock.owner = Nobody,
                      project # NoProject, \A t \in Inits \cup Notifies : ~BrokenOff(t)
               PROVE  ServedAgrees
    BY DEF ServedGraphMatchesStore
  <2>1. project \in Inits
    BY DEF TypeOK, ProviderTypes
  <2>2. \A t \in Task : t # Nobody /\ pc[t] \notin Holding
    BY DEF LockDiscipline, Exclusion
  <2>3. \A t \in Inits \cup Notifies : ~Changing(t)
    BY <2>2, LabelSets DEF Changing, Task, GraphLabels
  <2> QED  BY <2>1, <2>3 DEF AgreeInv
<1> QED  BY <1>1, <1>2, <1>3, Freshness, PTL DEF Spec
=============================================================================
