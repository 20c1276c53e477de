------------------------- MODULE ProviderLockProofs -------------------------
(***************************************************************************)
(* The locks of Provider.tla: the discipline that ProviderProps states is  *)
(* inductive relative to types, and what follows from it: nested reads do  *)
(* not block, the language configuration is there when it is unwrapped,    *)
(* and no other handler disturbs the only init of a provider, which so     *)
(* indexes its sources as they are on disk.                                *)
(***************************************************************************)
EXTENDS ProviderProofs

-----------------------------------------------------------------------------
(* What happens to a lock *)

\* ProviderProofs, said of a lock with a given owner and given waiters.
Moves(m) ==
    /\ \A t \in Task : t # m.owner /\ t \notin Waiters(m) =>
          /\ Ordered(Acquire(m, t))
          /\ Acquire(m, t).owner = IF m.owner = Nobody THEN t ELSE m.owner
          /\ Waiters(Acquire(m, t)) \subseteq Waiters(m) \cup {t}
    /\ \A t \in Task : /\ Ordered(Abandon(m, t))
                       /\ Abandon(m, t).owner # t
                       /\ Waiters(Abandon(m, t)) \subseteq Waiters(m) \ {t}
                       /\ IF m.owner = t THEN Abandon(m, t).owner \in Waiters(m) \cup {Nobody}
                                         ELSE Abandon(m, t).owner = m.owner
    /\ m.owner # Nobody =>
          /\ Ordered(Release(m))
          /\ Release(m).owner \in Waiters(m) \cup {Nobody}
          /\ Release(m).owner # m.owner
          /\ Waiters(Release(m)) \subseteq Waiters(m)
    /\ m.owner \notin Waiters(m)
    /\ m.owner \in Task \cup {Nobody} /\ Waiters(m) \subseteq Task /\ Nobody \notin Task

LEMMA LockMoves == ASSUME NEW m \in Mutex(Task), Ordered(m)  PROVE Moves(m)
<1>1. Nobody \notin Task
  BY RequestsDistinct
<1>2. m.owner \in Task \cup {Nobody} /\ m.queue \in Seq(Task)
  BY DEF Mutex
<1>3. Waiters(m) \subseteq Task
  BY <1>2, LenProperties, ElementOfSeq DEF Waiters
<1>4. \A t \in Task : t # m.owner /\ t \notin Waiters(m) =>
          /\ Ordered(Acquire(m, t))
          /\ Acquire(m, t).owner = IF m.owner = Nobody THEN t ELSE m.owner
          /\ Waiters(Acquire(m, t)) \subseteq Waiters(m) \cup {t}
  BY <1>1, AcquireKeeps
<1>5. \A t \in Task : /\ Ordered(Abandon(m, t))
                      /\ Abandon(m, t).owner # t
                      /\ Waiters(Abandon(m, t)) \subseteq Waiters(m) \ {t}
                      /\ IF m.owner = t THEN Abandon(m, t).owner \in Waiters(m) \cup {Nobody}
                                        ELSE Abandon(m, t).owner = m.owner
  BY <1>1, AbandonKeeps
<1>6. /\ Ordered(Release(m))
      /\ Release(m).owner \in Waiters(m) \cup {Nobody}
      /\ m.owner # Nobody => Release(m).owner # m.owner
      /\ Waiters(Release(m)) \subseteq Waiters(m)
  BY <1>1, ReleaseKeeps
<1> QED  BY <1>1, <1>2, <1>3, <1>4, <1>5, <1>6 DEF Moves, Ordered

LEMMA BothLocksMove == ASSUME TypeOK, LockDiscipline  PROVE Moves(projLock) /\ Moves(cfgLock)
BY LockMoves DEF TypeOK, ProviderTypes, LockDiscipline

\* A handler that holds the project lock and returns drops all it holds.
LEMMA FinishLeavesNothing ==
    ASSUME TypeOK, LockDiscipline, NEW t \in Task, NEW answer, Finish(t, answer),
           pc[t] \in Holding \ {"validate"}, UNCHANGED <<cur, cfgLock, lcWriters, gLock>>
    PROVE  NothingLeftBehind'
<1>1. /\ projLock.owner = t /\ projLock' = Release(projLock)
      /\ lcReaders' = [p \in Inits |-> lcReaders[p] \ {t}]
      /\ pc' = [pc EXCEPT ![t] = "done"]
  BY DEF LockDiscipline, Exclusion, Finish, Reply
<1>2. Moves(projLock) /\ Moves(cfgLock)
  BY BothLocksMove
<1>3. projLock'.owner # Nobody => pc'[projLock'.owner] \in Holding \cup Waiting
  BY <1>1, <1>2, LabelSets
  DEF LockDiscipline, NothingLeftBehind, Moves, TypeOK, RequestTypes
<1>4. \A u \in Waiters(projLock') : pc'[u] \in Waiting
  BY <1>1, <1>2, LabelSets
  DEF LockDiscipline, NothingLeftBehind, Moves, TypeOK, RequestTypes
<1>5. /\ cfgLock.owner # Nobody => pc'[cfgLock.owner] \in {"config", "project", "unlock"}
      /\ \A u \in Waiters(cfgLock) : pc'[u] = "config"
  BY <1>1, <1>2, LabelSets
  DEF LockDiscipline, NothingLeftBehind, Moves, TypeOK, RequestTypes
<1>6. \A p \in Inits : gLock[p] # Nobody => pc'[gLock[p]] = "query" /\ cur[gLock[p]] = p
  BY <1>1, LabelSets
  DEF LockDiscipline, NothingLeftBehind, TypeOK, RequestTypes, GraphTypes
<1>7. /\ \A p \in Inits : \A u \in lcReaders'[p] : pc'[u] \in Reading /\ cur[u] = p
      /\ \A p \in Inits : \A u \in lcWriters[p] : pc'[u] = "validate" /\ cur[u] = p
  BY <1>1, LabelSets
  DEF LockDiscipline, NothingLeftBehind, TypeOK, RequestTypes, ConfigTypes
<1> QED  BY <1>3, <1>4, <1>5, <1>6, <1>7 DEF NothingLeftBehind

\* One that goes on while it holds the lock touches no lock; it may drop its read
\* guard on the language configuration, and does so if it leaves get_project_graph.
LEMMA GoingOnLeavesNothing ==
    ASSUME TypeOK, LockDiscipline, NEW t \in Task, NEW l \in Holding,
           pc[t] \in Holding \ {"validate"}, pc' = [pc EXCEPT ![t] = l],
           UNCHANGED <<cur, cfgLock, projLock, lcWriters, gLock>>,
           \/ UNCHANGED lcReaders /\ (pc[t] \in Reading => l \in Reading)
           \/ lcReaders' = [p \in Inits |-> lcReaders[p] \ {t}]
    PROVE  NothingLeftBehind'
<1>1. /\ projLock'.owner # Nobody => pc'[projLock'.owner] \in Holding \cup Waiting
      /\ \A u \in Waiters(projLock') : pc'[u] \in Waiting
  BY LabelSets, BothLocksMove
  DEF LockDiscipline, Exclusion, NothingLeftBehind, Moves, TypeOK, RequestTypes
<1>2. /\ cfgLock.owner # Nobody => pc'[cfgLock.owner] \in {"config", "project", "unlock"}
      /\ \A u \in Waiters(cfgLock) : pc'[u] = "config"
  BY LabelSets, BothLocksMove
  DEF LockDiscipline, NothingLeftBehind, Moves, TypeOK, RequestTypes
<1>3. \A p \in Inits : gLock[p] # Nobody => pc'[gLock[p]] = "query" /\ cur[gLock[p]] = p
  BY LabelSets DEF LockDiscipline, NothingLeftBehind, TypeOK, RequestTypes, GraphTypes
<1>4. /\ \A p \in Inits : \A u \in lcReaders'[p] : pc'[u] \in Reading /\ cur[u] = p
      /\ \A p \in Inits : \A u \in lcWriters[p] : pc'[u] = "validate" /\ cur[u] = p
  BY LabelSets DEF LockDiscipline, NothingLeftBehind, TypeOK, RequestTypes, ConfigTypes
<1> QED  BY <1>1, <1>2, <1>3, <1>4 DEF NothingLeftBehind

-----------------------------------------------------------------------------
(* Every step keeps the discipline *)

LEMMA InitStepLocks ==
    ASSUME TypeOK, Engaged, LockDiscipline, NEW i \in Inits
    PROVE  /\ InitCall(i) => LockDiscipline'
           /\ InitConfig(i) => LockDiscipline'
           /\ InitReplace(i) => LockDiscipline'
           /\ InitUnlock(i) => LockDiscipline'
           /\ InitRelock(i) => LockDiscipline'
           /\ InitBind(i) => LockDiscipline'
           /\ InitValidate(i) => LockDiscipline'
           /\ InitResolve(i) => LockDiscipline'
           /\ InitJoin(i) => LockDiscipline'
           /\ InitDeps(i) => LockDiscipline'
           /\ InitLoad(i) => LockDiscipline'
           /\ SdkOpen(i) => LockDiscipline'
           /\ SdkSchema(i) => LockDiscipline'
           /\ SdkStore(i) => LockDiscipline'
           /\ SdkMark(i) => LockDiscipline'
<1>0. i \in Task /\ Moves(projLock) /\ Moves(cfgLock)
  BY BothLocksMove DEF Task
<1>1. ASSUME InitCall(i)  PROVE LockDiscipline'
  <2>1. Exclusion'
    BY <1>0, <1>1, LabelSets
    DEF InitCall, LockDiscipline, Exclusion, NothingLeftBehind, TypeOK, RequestTypes,
        ProviderTypes, GraphTypes, Engaged, Moves, lcVars, graphVars, Go
  <2>2. NothingLeftBehind'
    BY <1>0, <1>1, LabelSets
    DEF InitCall, LockDiscipline, Exclusion, NothingLeftBehind, TypeOK, RequestTypes,
        ProviderTypes, ConfigTypes, GraphTypes, Engaged, Moves, lcVars, graphVars, Go
  <2>3. Ordered(projLock)' /\ Ordered(cfgLock)'
    BY <1>0, <1>1, LabelSets
    DEF InitCall, LockDiscipline, Exclusion, NothingLeftBehind, Moves, lcVars,
        graphVars, Go
  <2> QED  BY <2>1, <2>2, <2>3 DEF LockDiscipline
<1>2. ASSUME InitConfig(i)  PROVE LockDiscipline'
  <2>1. Exclusion'
    BY <1>0, <1>2, LabelSets
    DEF InitConfig, LockDiscipline, Exclusion, NothingLeftBehind, TypeOK,
        RequestTypes, ProviderTypes, GraphTypes, Engaged, Moves, lcVars, graphVars,
        Go, Reply
  <2>2. NothingLeftBehind'
    <3>1. /\ UNCHANGED <<cur, lcReaders, lcWriters, gLock>>
          /\ pc[i] = "config" /\ cfgLock.owner = i
      BY <1>2 DEF InitConfig, lcVars, graphVars
    <3>2. CASE pc' = [pc EXCEPT ![i] = "done"] /\ cfgLock' = Release(cfgLock)
               /\ UNCHANGED projLock
      BY <1>0, <3>1, <3>2, LabelSets
      DEF LockDiscipline, NothingLeftBehind, TypeOK, RequestTypes, ConfigTypes, GraphTypes,
          Moves
    <3>3. CASE pc' = [pc EXCEPT ![i] = "project"] /\ projLock' = Acquire(projLock, i)
               /\ UNCHANGED cfgLock
      BY <1>0, <3>1, <3>3, LabelSets
      DEF LockDiscipline, Exclusion, NothingLeftBehind, TypeOK, RequestTypes, ConfigTypes,
          GraphTypes, Moves
    <3> QED  BY <1>2, <3>2, <3>3 DEF InitConfig, Go, Reply
  <2>3. Ordered(projLock)' /\ Ordered(cfgLock)'
    BY <1>0, <1>2, LabelSets
    DEF InitConfig, LockDiscipline, Exclusion, NothingLeftBehind, Moves, lcVars,
        graphVars, Go, Reply
  <2> QED  BY <2>1, <2>2, <2>3 DEF LockDiscipline
<1>3. ASSUME InitReplace(i)  PROVE LockDiscipline'
  <2>1. Exclusion'
    BY <1>0, <1>3, LabelSets
    DEF InitReplace, LockDiscipline, Exclusion, NothingLeftBehind, TypeOK,
        RequestTypes, ProviderTypes, GraphTypes, Engaged, Moves, lcVars, graphVars, Go
  <2>2. NothingLeftBehind'
    BY <1>0, <1>3, LabelSets
    DEF InitReplace, LockDiscipline, Exclusion, NothingLeftBehind, TypeOK,
        RequestTypes, ProviderTypes, ConfigTypes, GraphTypes, Engaged, Moves, lcVars,
        graphVars, Go
  <2>3. Ordered(projLock)' /\ Ordered(cfgLock)'
    BY <1>0, <1>3, LabelSets
    DEF InitReplace, LockDiscipline, Exclusion, NothingLeftBehind, Moves, lcVars,
        graphVars, Go
  <2> QED  BY <2>1, <2>2, <2>3 DEF LockDiscipline
<1>4. ASSUME InitUnlock(i)  PROVE LockDiscipline'
  <2>1. Exclusion'
    BY <1>0, <1>4, LabelSets
    DEF InitUnlock, LockDiscipline, Exclusion, NothingLeftBehind, TypeOK,
        RequestTypes, ProviderTypes, GraphTypes, Engaged, Moves, lcVars, graphVars, Go
  <2>2. NothingLeftBehind'
    BY <1>0, <1>4, LabelSets
    DEF InitUnlock, LockDiscipline, Exclusion, NothingLeftBehind, TypeOK,
        RequestTypes, ProviderTypes, ConfigTypes, GraphTypes, Engaged, Moves, lcVars,
        graphVars, Go
  <2>3. Ordered(projLock)' /\ Ordered(cfgLock)'
    BY <1>0, <1>4, LabelSets
    DEF InitUnlock, LockDiscipline, Exclusion, NothingLeftBehind, Moves, lcVars,
        graphVars, Go
  <2> QED  BY <2>1, <2>2, <2>3 DEF LockDiscipline
<1>5. ASSUME InitRelock(i)  PROVE LockDiscipline'
  <2>1. Exclusion'
    BY <1>0, <1>5, LabelSets
    DEF InitRelock, LockDiscipline, Exclusion, NothingLeftBehind, TypeOK,
        RequestTypes, ProviderTypes, GraphTypes, Engaged, Moves, lcVars, graphVars, Go
  <2>2. NothingLeftBehind'
    BY <1>0, <1>5, LabelSets
    DEF InitRelock, LockDiscipline, Exclusion, NothingLeftBehind, TypeOK,
        RequestTypes, ProviderTypes, ConfigTypes, GraphTypes, Engaged, Moves, lcVars,
        graphVars, Go
  <2>3. Ordered(projLock)' /\ Ordered(cfgLock)'
    BY <1>0, <1>5, LabelSets
    DEF InitRelock, LockDiscipline, Exclusion, NothingLeftBehind, Moves, lcVars,
        graphVars, Go
  <2> QED  BY <2>1, <2>2, <2>3 DEF LockDiscipline
<1>6. ASSUME InitBind(i)  PROVE LockDiscipline'
  <2>1. Exclusion'
    BY <1>0, <1>6, LabelSets
    DEF InitBind, LockDiscipline, Exclusion, NothingLeftBehind, TypeOK, RequestTypes,
        ProviderTypes, GraphTypes, Engaged, Moves, graphVars, Go, Finish, Reply
  <2>2. NothingLeftBehind'
    BY <1>0, <1>6, LabelSets
    DEF InitBind, LockDiscipline, Exclusion, NothingLeftBehind, TypeOK, RequestTypes,
        ProviderTypes, ConfigTypes, GraphTypes, Engaged, Moves, graphVars, Go, Finish,
        Reply
  <2>3. Ordered(projLock)' /\ Ordered(cfgLock)'
    BY <1>0, <1>6, LabelSets
    DEF InitBind, LockDiscipline, Exclusion, NothingLeftBehind, Moves, graphVars, Go,
        Finish, Reply
  <2> QED  BY <2>1, <2>2, <2>3 DEF LockDiscipline
<1>7. ASSUME InitValidate(i)  PROVE LockDiscipline'
  <2>1. Exclusion'
    BY <1>0, <1>7, LabelSets
    DEF InitValidate, LockDiscipline, Exclusion, NothingLeftBehind, TypeOK,
        RequestTypes, ProviderTypes, GraphTypes, Engaged, Moves, provVars, graphVars,
        Go
  <2>2. NothingLeftBehind'
    BY <1>0, <1>7, LabelSets
    DEF InitValidate, LockDiscipline, Exclusion, NothingLeftBehind, TypeOK,
        RequestTypes, ProviderTypes, ConfigTypes, GraphTypes, Engaged, Moves,
        provVars, graphVars, Go
  <2>3. Ordered(projLock)' /\ Ordered(cfgLock)'
    BY <1>0, <1>7, LabelSets
    DEF InitValidate, LockDiscipline, Exclusion, NothingLeftBehind, Moves, provVars,
        graphVars, Go
  <2> QED  BY <2>1, <2>2, <2>3 DEF LockDiscipline
<1>8. ASSUME InitResolve(i)  PROVE LockDiscipline'
  <2>1. Exclusion'
    BY <1>0, <1>8, LabelSets
    DEF InitResolve, LockDiscipline, Exclusion, NothingLeftBehind, TypeOK,
        RequestTypes, ProviderTypes, GraphTypes, Engaged, Moves, graphVars, Go,
        Finish, Reply
  <2>2. NothingLeftBehind'
    <3>1. pc[i] = "resolve" /\ UNCHANGED <<cur, cfgLock, lcWriters, gLock>>
      BY <1>8 DEF InitResolve, graphVars
    <3>2. CASE Finish(i, "error")
      BY <1>0, <3>1, <3>2, FinishLeavesNothing, LabelSets
    <3>3. CASE pc' = [pc EXCEPT ![i] = "join"] /\ UNCHANGED <<projLock, lcReaders>>
      BY <1>0, <3>1, <3>3, GoingOnLeavesNothing, LabelSets
    <3> QED  BY <1>8, <3>2, <3>3 DEF InitResolve, Go
  <2>3. Ordered(projLock)' /\ Ordered(cfgLock)'
    BY <1>0, <1>8, LabelSets
    DEF InitResolve, LockDiscipline, Exclusion, NothingLeftBehind, Moves, graphVars,
        Go, Finish, Reply
  <2> QED  BY <2>1, <2>2, <2>3 DEF LockDiscipline
<1>9. ASSUME InitJoin(i)  PROVE LockDiscipline'
  <2>1. Exclusion'
    BY <1>0, <1>9, LabelSets
    DEF InitJoin, LockDiscipline, Exclusion, NothingLeftBehind, TypeOK, RequestTypes,
        ProviderTypes, GraphTypes, Engaged, Moves, provVars, lcVars, graphVars, Go
  <2>2. NothingLeftBehind'
    BY <1>0, <1>9, LabelSets
    DEF InitJoin, LockDiscipline, Exclusion, NothingLeftBehind, TypeOK, RequestTypes,
        ProviderTypes, ConfigTypes, GraphTypes, Engaged, Moves, provVars, lcVars,
        graphVars, Go
  <2>3. Ordered(projLock)' /\ Ordered(cfgLock)'
    BY <1>0, <1>9, LabelSets
    DEF InitJoin, LockDiscipline, Exclusion, NothingLeftBehind, Moves, provVars,
        lcVars, graphVars, Go
  <2> QED  BY <2>1, <2>2, <2>3 DEF LockDiscipline
<1>10. ASSUME InitDeps(i)  PROVE LockDiscipline'
  <2>1. Exclusion'
    BY <1>0, <1>10, LabelSets
    DEF InitDeps, LockDiscipline, Exclusion, NothingLeftBehind, TypeOK, RequestTypes,
        ProviderTypes, GraphTypes, Engaged, Moves, graphVars, Go, Finish, Reply
  <2>2. NothingLeftBehind'
    <3>1. pc[i] = "deps" /\ UNCHANGED <<cur, cfgLock, lcWriters, gLock>>
      BY <1>10 DEF InitDeps, graphVars
    <3>2. ASSUME NEW a \in {"ok", "cancelled"}, Finish(i, a)  PROVE NothingLeftBehind'
      BY <1>0, <3>1, <3>2, FinishLeavesNothing, LabelSets
    <3>3. CASE pc' = [pc EXCEPT ![i] = "load"] /\ UNCHANGED <<projLock, lcReaders>>
      BY <1>0, <3>1, <3>3, GoingOnLeavesNothing, LabelSets
    <3> QED  BY <1>10, <3>2, <3>3 DEF InitDeps, Go
  <2>3. Ordered(projLock)' /\ Ordered(cfgLock)'
    BY <1>0, <1>10, LabelSets
    DEF InitDeps, LockDiscipline, Exclusion, NothingLeftBehind, Moves, graphVars, Go,
        Finish, Reply
  <2> QED  BY <2>1, <2>2, <2>3 DEF LockDiscipline
<1>11. ASSUME InitLoad(i)  PROVE LockDiscipline'
  <2>1. Exclusion'
    BY <1>0, <1>11, LabelSets
    DEF InitLoad, LockDiscipline, Exclusion, NothingLeftBehind, TypeOK, RequestTypes,
        ProviderTypes, GraphTypes, Engaged, Moves, Finish, Reply
  <2>2. NothingLeftBehind'
    <3>1. pc[i] = "load" /\ UNCHANGED <<cur, cfgLock, lcWriters, gLock>>
      BY <1>11 DEF InitLoad
    <3>2. ASSUME NEW a \in {"ok", "panic"}, Finish(i, a)  PROVE NothingLeftBehind'
      BY <1>0, <3>1, <3>2, FinishLeavesNothing, LabelSets
    <3> QED  BY <1>11, <3>2 DEF InitLoad
  <2>3. Ordered(projLock)' /\ Ordered(cfgLock)'
    BY <1>0, <1>11, LabelSets
    DEF InitLoad, LockDiscipline, Exclusion, NothingLeftBehind, Moves, Finish, Reply
  <2> QED  BY <2>1, <2>2, <2>3 DEF LockDiscipline
<1>12. ASSUME SdkOpen(i)  PROVE LockDiscipline'
  <2>1. Exclusion'
    BY <1>0, <1>12, LabelSets
    DEF SdkOpen, LockDiscipline, Exclusion, NothingLeftBehind, TypeOK, RequestTypes,
        ProviderTypes, GraphTypes, Engaged, Moves, reqVars, provVars, lcVars,
        graphVars
  <2>2. NothingLeftBehind'
    BY <1>0, <1>12, LabelSets
    DEF SdkOpen, LockDiscipline, Exclusion, NothingLeftBehind, TypeOK, RequestTypes,
        ProviderTypes, ConfigTypes, GraphTypes, Engaged, Moves, reqVars, provVars,
        lcVars, graphVars
  <2>3. Ordered(projLock)' /\ Ordered(cfgLock)'
    BY <1>0, <1>12, LabelSets
    DEF SdkOpen, LockDiscipline, Exclusion, NothingLeftBehind, Moves, reqVars,
        provVars, lcVars, graphVars
  <2> QED  BY <2>1, <2>2, <2>3 DEF LockDiscipline
<1>13. ASSUME SdkSchema(i)  PROVE LockDiscipline'
  <2>1. Exclusion'
    BY <1>0, <1>13, LabelSets
    DEF SdkSchema, LockDiscipline, Exclusion, NothingLeftBehind, TypeOK, RequestTypes,
        ProviderTypes, GraphTypes, Engaged, Moves, reqVars, provVars, lcVars,
        graphVars
  <2>2. NothingLeftBehind'
    BY <1>0, <1>13, LabelSets
    DEF SdkSchema, LockDiscipline, Exclusion, NothingLeftBehind, TypeOK, RequestTypes,
        ProviderTypes, ConfigTypes, GraphTypes, Engaged, Moves, reqVars, provVars,
        lcVars, graphVars
  <2>3. Ordered(projLock)' /\ Ordered(cfgLock)'
    BY <1>0, <1>13, LabelSets
    DEF SdkSchema, LockDiscipline, Exclusion, NothingLeftBehind, Moves, reqVars,
        provVars, lcVars, graphVars
  <2> QED  BY <2>1, <2>2, <2>3 DEF LockDiscipline
<1>14. ASSUME SdkStore(i)  PROVE LockDiscipline'
  <2>1. Exclusion'
    BY <1>0, <1>14, LabelSets
    DEF SdkStore, LockDiscipline, Exclusion, NothingLeftBehind, TypeOK, RequestTypes,
        ProviderTypes, GraphTypes, Engaged, Moves, reqVars, provVars, lcVars,
        graphVars
  <2>2. NothingLeftBehind'
    BY <1>0, <1>14, LabelSets
    DEF SdkStore, LockDiscipline, Exclusion, NothingLeftBehind, TypeOK, RequestTypes,
        ProviderTypes, ConfigTypes, GraphTypes, Engaged, Moves, reqVars, provVars,
        lcVars, graphVars
  <2>3. Ordered(projLock)' /\ Ordered(cfgLock)'
    BY <1>0, <1>14, LabelSets
    DEF SdkStore, LockDiscipline, Exclusion, NothingLeftBehind, Moves, reqVars,
        provVars, lcVars, graphVars
  <2> QED  BY <2>1, <2>2, <2>3 DEF LockDiscipline
<1>15. ASSUME SdkMark(i)  PROVE LockDiscipline'
  <2>1. Exclusion'
    BY <1>0, <1>15, LabelSets
    DEF SdkMark, LockDiscipline, Exclusion, NothingLeftBehind, TypeOK, RequestTypes,
        ProviderTypes, GraphTypes, Engaged, Moves, reqVars, provVars, lcVars,
        graphVars
  <2>2. NothingLeftBehind'
    BY <1>0, <1>15, LabelSets
    DEF SdkMark, LockDiscipline, Exclusion, NothingLeftBehind, TypeOK, RequestTypes,
        ProviderTypes, ConfigTypes, GraphTypes, Engaged, Moves, reqVars, provVars,
        lcVars, graphVars
  <2>3. Ordered(projLock)' /\ Ordered(cfgLock)'
    BY <1>0, <1>15, LabelSets
    DEF SdkMark, LockDiscipline, Exclusion, NothingLeftBehind, Moves, reqVars,
        provVars, lcVars, graphVars
  <2> QED  BY <2>1, <2>2, <2>3 DEF LockDiscipline
<1> QED  BY <1>1, <1>2, <1>3, <1>4, <1>5, <1>6, <1>7, <1>8, <1>9, <1>10, <1>11, <1>12,
         <1>13, <1>14, <1>15

LEMMA GraphStepLocks ==
    ASSUME TypeOK, Engaged, LockDiscipline, NEW t \in Inits \cup Notifies
    PROVE  /\ GraphOpen(t) => LockDiscipline'
           /\ GraphSwap(t) => LockDiscipline'
           /\ WalkGuard(t) => LockDiscipline'
           /\ WalkOpen(t) => LockDiscipline'
           /\ WalkSchema(t) => LockDiscipline'
           /\ WalkFile(t) => LockDiscipline'
           /\ WalkSwap(t) => LockDiscipline'
<1>0. t \in Task /\ Moves(projLock) /\ Moves(cfgLock)
  BY BothLocksMove DEF Task
<1>1. ASSUME GraphOpen(t)  PROVE LockDiscipline'
  <2>1. Exclusion'
    BY <1>0, <1>1, LabelSets
    DEF GraphOpen, LockDiscipline, Exclusion, NothingLeftBehind, TypeOK, RequestTypes,
        ProviderTypes, GraphTypes, Engaged, Moves, graphVars, Finish, Go, GraphErr,
        Reply
  <2>2. NothingLeftBehind'
    <3>1. pc[t] = "open" /\ UNCHANGED <<cur, cfgLock, lcWriters, gLock>>
      BY <1>1 DEF GraphOpen, graphVars
    <3>2. CASE Finish(t, "error")
      BY <1>0, <3>1, <3>2, FinishLeavesNothing, LabelSets
    <3>3. CASE ~Finish(t, "error")
      <4>1. \E l \in {"walkGuard", "swap"} :
              pc' = [pc EXCEPT ![t] = l] /\ UNCHANGED <<projLock, lcReaders>>
        BY <1>1, <3>3 DEF GraphOpen, Go, GraphErr
      <4> QED  BY <1>0, <3>1, <4>1, GoingOnLeavesNothing, LabelSets
    <3> QED  BY <3>2, <3>3
  <2>3. Ordered(projLock)' /\ Ordered(cfgLock)'
    BY <1>0, <1>1, LabelSets
    DEF GraphOpen, LockDiscipline, Exclusion, NothingLeftBehind, Moves, graphVars,
        Finish, Go, GraphErr, Reply
  <2> QED  BY <2>1, <2>2, <2>3 DEF LockDiscipline
<1>2. ASSUME GraphSwap(t)  PROVE LockDiscipline'
  <2>1. Exclusion'
    BY <1>0, <1>2, LabelSets
    DEF GraphSwap, LockDiscipline, Exclusion, NothingLeftBehind, TypeOK, RequestTypes,
        ProviderTypes, GraphTypes, Engaged, Moves, Finish, Go, GraphOk, Reply
  <2>2. NothingLeftBehind'
    <3>1. pc[t] = "swap" /\ UNCHANGED <<cur, cfgLock, lcWriters, gLock>>
      BY <1>2 DEF GraphSwap
    <3>2. CASE Finish(t, "ok")
      BY <1>0, <3>1, <3>2, FinishLeavesNothing, LabelSets
    <3>3. CASE /\ pc' = [pc EXCEPT ![t] = "resolve"] /\ UNCHANGED projLock
               /\ lcReaders' = [p \in Inits |-> lcReaders[p] \ {t}]
      BY <1>0, <3>1, <3>3, GoingOnLeavesNothing, LabelSets
    <3>4. CASE pc' = [pc EXCEPT ![t] = "walkGuard"] /\ UNCHANGED <<projLock, lcReaders>>
      BY <1>0, <3>1, <3>4, GoingOnLeavesNothing, LabelSets
    <3> QED  BY <1>2, <3>2, <3>3, <3>4 DEF GraphSwap, GraphOk, Go
  <2>3. Ordered(projLock)' /\ Ordered(cfgLock)'
    BY <1>0, <1>2, LabelSets
    DEF GraphSwap, LockDiscipline, Exclusion, NothingLeftBehind, Moves, Finish, Go,
        GraphOk, Reply
  <2> QED  BY <2>1, <2>2, <2>3 DEF LockDiscipline
<1>3. ASSUME WalkGuard(t)  PROVE LockDiscipline'
  <2>1. Exclusion'
    BY <1>0, <1>3, LabelSets
    DEF WalkGuard, LockDiscipline, Exclusion, NothingLeftBehind, TypeOK, RequestTypes,
        ProviderTypes, GraphTypes, Engaged, Moves, provVars, graphVars, Go
  <2>2. NothingLeftBehind'
    BY <1>0, <1>3, LabelSets
    DEF WalkGuard, LockDiscipline, Exclusion, NothingLeftBehind, TypeOK, RequestTypes,
        ProviderTypes, ConfigTypes, GraphTypes, Engaged, Moves, provVars, graphVars,
        Go
  <2>3. Ordered(projLock)' /\ Ordered(cfgLock)'
    BY <1>0, <1>3, LabelSets
    DEF WalkGuard, LockDiscipline, Exclusion, NothingLeftBehind, Moves, provVars,
        graphVars, Go
  <2> QED  BY <2>1, <2>2, <2>3 DEF LockDiscipline
<1>4. ASSUME WalkOpen(t)  PROVE LockDiscipline'
  <2>1. Exclusion'
    BY <1>0, <1>4, LabelSets
    DEF WalkOpen, LockDiscipline, Exclusion, NothingLeftBehind, TypeOK, RequestTypes,
        ProviderTypes, GraphTypes, Engaged, Moves, graphVars, Go, Finish, Reply
  <2>2. NothingLeftBehind'
    <3>1. pc[t] = "walkOpen" /\ UNCHANGED <<cur, cfgLock, lcWriters, gLock>>
      BY <1>4 DEF WalkOpen, graphVars
    <3>2. CASE Finish(t, "error")
      BY <1>0, <3>1, <3>2, FinishLeavesNothing, LabelSets
    <3>3. CASE ~Finish(t, "error")
      <4>1. \E l \in {"walkSchema", "walk"} :
              pc' = [pc EXCEPT ![t] = l] /\ UNCHANGED <<projLock, lcReaders>>
        BY <1>4, <3>3 DEF WalkOpen, Go
      <4> QED  BY <1>0, <3>1, <4>1, GoingOnLeavesNothing, LabelSets
    <3> QED  BY <3>2, <3>3
  <2>3. Ordered(projLock)' /\ Ordered(cfgLock)'
    BY <1>0, <1>4, LabelSets
    DEF WalkOpen, LockDiscipline, Exclusion, NothingLeftBehind, Moves, graphVars, Go,
        Finish, Reply
  <2> QED  BY <2>1, <2>2, <2>3 DEF LockDiscipline
<1>5. ASSUME WalkSchema(t)  PROVE LockDiscipline'
  <2>1. Exclusion'
    BY <1>0, <1>5, LabelSets
    DEF WalkSchema, LockDiscipline, Exclusion, NothingLeftBehind, TypeOK,
        RequestTypes, ProviderTypes, GraphTypes, Engaged, Moves, provVars, lcVars,
        graphVars, Go
  <2>2. NothingLeftBehind'
    BY <1>0, <1>5, LabelSets
    DEF WalkSchema, LockDiscipline, Exclusion, NothingLeftBehind, TypeOK,
        RequestTypes, ProviderTypes, ConfigTypes, GraphTypes, Engaged, Moves,
        provVars, lcVars, graphVars, Go
  <2>3. Ordered(projLock)' /\ Ordered(cfgLock)'
    BY <1>0, <1>5, LabelSets
    DEF WalkSchema, LockDiscipline, Exclusion, NothingLeftBehind, Moves, provVars,
        lcVars, graphVars, Go
  <2> QED  BY <2>1, <2>2, <2>3 DEF LockDiscipline
<1>6. ASSUME WalkFile(t)  PROVE LockDiscipline'
  <2>1. Exclusion'
    BY <1>0, <1>6, LabelSets
    DEF WalkFile, LockDiscipline, Exclusion, NothingLeftBehind, TypeOK, RequestTypes,
        ProviderTypes, GraphTypes, Engaged, Moves, graphVars, Finish, Reply
  <2>2. NothingLeftBehind'
    <3>1. pc[t] = "walk" /\ UNCHANGED <<cur, cfgLock, lcWriters, gLock>>
      BY <1>6 DEF WalkFile, graphVars
    <3>2. CASE Finish(t, "error")
      BY <1>0, <3>1, <3>2, FinishLeavesNothing, LabelSets
    <3>3. CASE UNCHANGED <<pc, projLock, lcReaders>>
      <4>1. pc' = [pc EXCEPT ![t] = "walk"]
        BY <1>0, <3>1, <3>3 DEF TypeOK, RequestTypes
      <4> QED  BY <1>0, <3>1, <3>3, <4>1, GoingOnLeavesNothing, LabelSets
    <3> QED  BY <1>6, <3>2, <3>3 DEF WalkFile
  <2>3. Ordered(projLock)' /\ Ordered(cfgLock)'
    BY <1>0, <1>6, LabelSets
    DEF WalkFile, LockDiscipline, Exclusion, NothingLeftBehind, Moves, graphVars,
        Finish, Reply
  <2> QED  BY <2>1, <2>2, <2>3 DEF LockDiscipline
<1>7. ASSUME WalkSwap(t)  PROVE LockDiscipline'
  <2>1. Exclusion'
    BY <1>0, <1>7, LabelSets
    DEF WalkSwap, LockDiscipline, Exclusion, NothingLeftBehind, TypeOK, RequestTypes,
        ProviderTypes, GraphTypes, Engaged, Moves, Finish, Go, GraphOk, Reply
  <2>2. NothingLeftBehind'
    <3>1. pc[t] = "walk" /\ UNCHANGED <<cur, cfgLock, lcWriters, gLock>>
      BY <1>7 DEF WalkSwap
    <3>2. CASE Finish(t, "ok")
      BY <1>0, <3>1, <3>2, FinishLeavesNothing, LabelSets
    <3>3. CASE /\ pc' = [pc EXCEPT ![t] = "resolve"] /\ UNCHANGED projLock
               /\ lcReaders' = [p \in Inits |-> lcReaders[p] \ {t}]
      BY <1>0, <3>1, <3>3, GoingOnLeavesNothing, LabelSets
    <3> QED  BY <1>7, <3>2, <3>3 DEF WalkSwap, GraphOk, Go
  <2>3. Ordered(projLock)' /\ Ordered(cfgLock)'
    BY <1>0, <1>7, LabelSets
    DEF WalkSwap, LockDiscipline, Exclusion, NothingLeftBehind, Moves, Finish, Go,
        GraphOk, Reply
  <2> QED  BY <2>1, <2>2, <2>3 DEF LockDiscipline
<1> QED  BY <1>1, <1>2, <1>3, <1>4, <1>5, <1>6, <1>7

LEMMA NotifyStepLocks ==
    ASSUME TypeOK, Engaged, LockDiscipline, NEW n \in Notifies
    PROVE  /\ NotifyCall(n) => LockDiscipline'
           /\ NotifyStart(n) => LockDiscipline'
           /\ NotifyType(n) => LockDiscipline'
           /\ NotifyOpen(n) => LockDiscipline'
           /\ NotifySchema(n) => LockDiscipline'
           /\ NotifyClean(n) => LockDiscipline'
           /\ NotifySkip(n) => LockDiscipline'
           /\ NotifyStore(n) => LockDiscipline'
<1>0. n \in Task /\ Moves(projLock) /\ Moves(cfgLock)
  BY BothLocksMove DEF Task
<1>1. ASSUME NotifyCall(n)  PROVE LockDiscipline'
  <2>1. Exclusion'
    BY <1>0, <1>1, LabelSets
    DEF NotifyCall, LockDiscipline, Exclusion, NothingLeftBehind, TypeOK,
        RequestTypes, ProviderTypes, GraphTypes, Engaged, Moves, lcVars, graphVars,
        Go, Reply
  <2>2. NothingLeftBehind'
    BY <1>0, <1>1, LabelSets
    DEF NotifyCall, LockDiscipline, Exclusion, NothingLeftBehind, TypeOK,
        RequestTypes, ProviderTypes, ConfigTypes, GraphTypes, Engaged, Moves, lcVars,
        graphVars, Go, Reply
  <2>3. Ordered(projLock)' /\ Ordered(cfgLock)'
    BY <1>0, <1>1, LabelSets
    DEF NotifyCall, LockDiscipline, Exclusion, NothingLeftBehind, Moves, lcVars,
        graphVars, Go, Reply
  <2> QED  BY <2>1, <2>2, <2>3 DEF LockDiscipline
<1>2. ASSUME NotifyStart(n)  PROVE LockDiscipline'
  <2>1. Exclusion'
    BY <1>0, <1>2, LabelSets
    DEF NotifyStart, LockDiscipline, Exclusion, NothingLeftBehind, TypeOK,
        RequestTypes, ProviderTypes, GraphTypes, Engaged, Moves, graphVars, Go,
        Finish, Reply
  <2>2. NothingLeftBehind'
    BY <1>0, <1>2, LabelSets
    DEF NotifyStart, LockDiscipline, Exclusion, NothingLeftBehind, TypeOK,
        RequestTypes, ProviderTypes, ConfigTypes, GraphTypes, Engaged, Moves,
        graphVars, Go, Finish, Reply
  <2>3. Ordered(projLock)' /\ Ordered(cfgLock)'
    BY <1>0, <1>2, LabelSets
    DEF NotifyStart, LockDiscipline, Exclusion, NothingLeftBehind, Moves, graphVars,
        Go, Finish, Reply
  <2> QED  BY <2>1, <2>2, <2>3 DEF LockDiscipline
<1>3. ASSUME NotifyType(n)  PROVE LockDiscipline'
  <2>1. Exclusion'
    BY <1>0, <1>3, LabelSets
    DEF NotifyType, LockDiscipline, Exclusion, NothingLeftBehind, TypeOK,
        RequestTypes, ProviderTypes, GraphTypes, Engaged, Moves, graphVars, Go,
        Finish, Reply
  <2>2. NothingLeftBehind'
    <3>1. /\ cur' = cur /\ cfgLock' = cfgLock /\ lcWriters' = lcWriters /\ gLock' = gLock
          /\ pc[n] = "type"
      BY <1>3 DEF NotifyType, graphVars
    <3>2. CASE Finish(n, "error")
      BY <1>0, <3>1, <3>2, LabelSets
      DEF LockDiscipline, Exclusion, NothingLeftBehind, TypeOK, RequestTypes, ConfigTypes,
          GraphTypes, Moves, Finish, Reply
    <3>3. CASE ~Finish(n, "error")
      <4>1. /\ projLock' = projLock /\ lcReaders' = [lcReaders EXCEPT ![cur[n]] = @ \cup {n}]
            /\ pc' = [pc EXCEPT ![n] = "nOpen"]
        BY <1>3, <3>3 DEF NotifyType, Go
      <4> QED  BY <1>0, <3>1, <4>1, LabelSets
        DEF LockDiscipline, Exclusion, NothingLeftBehind, TypeOK, RequestTypes, ConfigTypes,
            GraphTypes, Moves
    <3> QED  BY <3>2, <3>3
  <2>3. Ordered(projLock)' /\ Ordered(cfgLock)'
    BY <1>0, <1>3, LabelSets
    DEF NotifyType, LockDiscipline, Exclusion, NothingLeftBehind, Moves, graphVars,
        Go, Finish, Reply
  <2> QED  BY <2>1, <2>2, <2>3 DEF LockDiscipline
<1>4. ASSUME NotifyOpen(n)  PROVE LockDiscipline'
  <2>1. Exclusion'
    BY <1>0, <1>4, LabelSets
    DEF NotifyOpen, LockDiscipline, Exclusion, NothingLeftBehind, TypeOK,
        RequestTypes, ProviderTypes, GraphTypes, Engaged, Moves, graphVars, Go,
        Finish, Reply
  <2>2. NothingLeftBehind'
    <3>1. pc[n] = "nOpen" /\ UNCHANGED <<cur, cfgLock, lcWriters, gLock>>
      BY <1>4 DEF NotifyOpen, graphVars
    <3>2. CASE Finish(n, "error")
      BY <1>0, <3>1, <3>2, FinishLeavesNothing, LabelSets
    <3>3. CASE ~Finish(n, "error")
      <4>1. \E l \in {"nSchema", "clean"} :
              pc' = [pc EXCEPT ![n] = l] /\ UNCHANGED <<projLock, lcReaders>>
        BY <1>4, <3>3 DEF NotifyOpen, Go
      <4> QED  BY <1>0, <3>1, <4>1, GoingOnLeavesNothing, LabelSets
    <3> QED  BY <3>2, <3>3
  <2>3. Ordered(projLock)' /\ Ordered(cfgLock)'
    BY <1>0, <1>4, LabelSets
    DEF NotifyOpen, LockDiscipline, Exclusion, NothingLeftBehind, Moves, graphVars,
        Go, Finish, Reply
  <2> QED  BY <2>1, <2>2, <2>3 DEF LockDiscipline
<1>5. ASSUME NotifySchema(n)  PROVE LockDiscipline'
  <2>1. Exclusion'
    BY <1>0, <1>5, LabelSets
    DEF NotifySchema, LockDiscipline, Exclusion, NothingLeftBehind, TypeOK,
        RequestTypes, ProviderTypes, GraphTypes, Engaged, Moves, provVars, lcVars,
        graphVars, Go
  <2>2. NothingLeftBehind'
    BY <1>0, <1>5, LabelSets
    DEF NotifySchema, LockDiscipline, Exclusion, NothingLeftBehind, TypeOK,
        RequestTypes, ProviderTypes, ConfigTypes, GraphTypes, Engaged, Moves,
        provVars, lcVars, graphVars, Go
  <2>3. Ordered(projLock)' /\ Ordered(cfgLock)'
    BY <1>0, <1>5, LabelSets
    DEF NotifySchema, LockDiscipline, Exclusion, NothingLeftBehind, Moves, provVars,
        lcVars, graphVars, Go
  <2> QED  BY <2>1, <2>2, <2>3 DEF LockDiscipline
<1>6. ASSUME NotifyClean(n)  PROVE LockDiscipline'
  <2>1. Exclusion'
    BY <1>0, <1>6, LabelSets
    DEF NotifyClean, LockDiscipline, Exclusion, NothingLeftBehind, TypeOK,
        RequestTypes, ProviderTypes, GraphTypes, Engaged, Moves, graphVars, Go,
        Finish, Reply
  <2>2. NothingLeftBehind'
    <3>1. pc[n] = "clean" /\ UNCHANGED <<cur, cfgLock, lcWriters, gLock>>
      BY <1>6 DEF NotifyClean, graphVars
    <3>2. CASE Finish(n, "error")
      BY <1>0, <3>1, <3>2, FinishLeavesNothing, LabelSets
    <3>3. CASE pc' = [pc EXCEPT ![n] = "store"] /\ UNCHANGED <<projLock, lcReaders>>
      BY <1>0, <3>1, <3>3, GoingOnLeavesNothing, LabelSets
    <3> QED  BY <1>6, <3>2, <3>3 DEF NotifyClean, Go
  <2>3. Ordered(projLock)' /\ Ordered(cfgLock)'
    BY <1>0, <1>6, LabelSets
    DEF NotifyClean, LockDiscipline, Exclusion, NothingLeftBehind, Moves, graphVars,
        Go, Finish, Reply
  <2> QED  BY <2>1, <2>2, <2>3 DEF LockDiscipline
<1>7. ASSUME NotifyStore(n)  PROVE LockDiscipline'
  <2>1. Exclusion'
    BY <1>0, <1>7, LabelSets
    DEF NotifyStore, LockDiscipline, Exclusion, NothingLeftBehind, TypeOK,
        RequestTypes, ProviderTypes, GraphTypes, Engaged, Moves, provVars, lcVars,
        graphVars, Go
  <2>2. NothingLeftBehind'
    BY <1>0, <1>7, LabelSets
    DEF NotifyStore, LockDiscipline, Exclusion, NothingLeftBehind, TypeOK,
        RequestTypes, ProviderTypes, ConfigTypes, GraphTypes, Engaged, Moves,
        provVars, lcVars, graphVars, Go
  <2>3. Ordered(projLock)' /\ Ordered(cfgLock)'
    BY <1>0, <1>7, LabelSets
    DEF NotifyStore, LockDiscipline, Exclusion, NothingLeftBehind, Moves, provVars,
        lcVars, graphVars, Go
  <2> QED  BY <2>1, <2>2, <2>3 DEF LockDiscipline
<1>8. ASSUME NotifySkip(n)  PROVE LockDiscipline'
  <2>1. Exclusion'
    <3>1. pc' = [pc EXCEPT ![n] = "open"] \/ pc' = [pc EXCEPT ![n] = "clean"] \/ Finish(n, "error")
      BY <1>8 DEF NotifySkip, Go
    <3>2. pc[n] = "clean" /\ UNCHANGED <<cur, cfgLock, gLock>>
          /\ (Finish(n, "error") \/ UNCHANGED projLock)
      BY <1>8 DEF NotifySkip, graphVars
    <3> QED  BY <1>0, <3>1, <3>2, LabelSets
      DEF LockDiscipline, Exclusion, NothingLeftBehind, TypeOK, RequestTypes, ProviderTypes,
          GraphTypes, Engaged, Moves, Finish, Reply
  <2>2. NothingLeftBehind'
    <3>1. pc[n] = "clean" /\ UNCHANGED <<cur, cfgLock, lcWriters, gLock>>
      BY <1>8 DEF NotifySkip, graphVars
    <3>2. CASE Finish(n, "error")
      BY <1>0, <3>1, <3>2, FinishLeavesNothing, LabelSets
    <3>3. CASE pc' = [pc EXCEPT ![n] = "open"] /\ UNCHANGED <<projLock, lcReaders>>
      BY <1>0, <3>1, <3>3, GoingOnLeavesNothing, LabelSets
    <3>4. CASE pc' = [pc EXCEPT ![n] = "clean"] /\ UNCHANGED <<projLock, lcReaders>>
      BY <1>0, <3>1, <3>4, GoingOnLeavesNothing, LabelSets
    <3> QED  BY <1>8, <3>2, <3>3, <3>4 DEF NotifySkip, Go
  <2>3. Ordered(projLock)' /\ Ordered(cfgLock)'
    BY <1>0, <1>8, LabelSets
    DEF NotifySkip, LockDiscipline, Exclusion, NothingLeftBehind, Moves, graphVars,
        Go, Finish, Reply
  <2> QED  BY <2>1, <2>2, <2>3 DEF LockDiscipline
<1> QED  BY <1>1, <1>2, <1>3, <1>4, <1>5, <1>6, <1>7, <1>8

LEMMA EvalStepLocks ==
    ASSUME TypeOK, Engaged, LockDiscipline, NEW e \in Evals
    PROVE  /\ EvalCall(e) => LockDiscipline'
           /\ EvalStart(e) => LockDiscipline'
           /\ EvalType(e) => LockDiscipline'
           /\ EvalLock(e) => LockDiscipline'
           /\ EvalQuery(e) => LockDiscipline'
<1>0. e \in Task /\ Moves(projLock) /\ Moves(cfgLock)
  BY BothLocksMove DEF Task
<1>1. ASSUME EvalCall(e)  PROVE LockDiscipline'
  <2>1. Exclusion'
    BY <1>0, <1>1, LabelSets
    DEF EvalCall, LockDiscipline, Exclusion, NothingLeftBehind, TypeOK, RequestTypes,
        ProviderTypes, GraphTypes, Engaged, Moves, lcVars, graphVars, Go, Reply
  <2>2. NothingLeftBehind'
    BY <1>0, <1>1, LabelSets
    DEF EvalCall, LockDiscipline, Exclusion, NothingLeftBehind, TypeOK, RequestTypes,
        ProviderTypes, ConfigTypes, GraphTypes, Engaged, Moves, lcVars, graphVars, Go,
        Reply
  <2>3. Ordered(projLock)' /\ Ordered(cfgLock)'
    BY <1>0, <1>1, LabelSets
    DEF EvalCall, LockDiscipline, Exclusion, NothingLeftBehind, Moves, lcVars,
        graphVars, Go, Reply
  <2> QED  BY <2>1, <2>2, <2>3 DEF LockDiscipline
<1>2. ASSUME EvalStart(e)  PROVE LockDiscipline'
  <2>1. Exclusion'
    BY <1>0, <1>2, LabelSets
    DEF EvalStart, LockDiscipline, Exclusion, NothingLeftBehind, TypeOK, RequestTypes,
        ProviderTypes, GraphTypes, Engaged, Moves, graphVars, Go, Finish, Reply
  <2>2. NothingLeftBehind'
    BY <1>0, <1>2, LabelSets
    DEF EvalStart, LockDiscipline, Exclusion, NothingLeftBehind, TypeOK, RequestTypes,
        ProviderTypes, ConfigTypes, GraphTypes, Engaged, Moves, graphVars, Go, Finish,
        Reply
  <2>3. Ordered(projLock)' /\ Ordered(cfgLock)'
    BY <1>0, <1>2, LabelSets
    DEF EvalStart, LockDiscipline, Exclusion, NothingLeftBehind, Moves, graphVars, Go,
        Finish, Reply
  <2> QED  BY <2>1, <2>2, <2>3 DEF LockDiscipline
<1>3. ASSUME EvalType(e)  PROVE LockDiscipline'
  <2>1. Exclusion'
    BY <1>0, <1>3, LabelSets
    DEF EvalType, LockDiscipline, Exclusion, NothingLeftBehind, TypeOK, RequestTypes,
        ProviderTypes, GraphTypes, Engaged, Moves, lcVars, graphVars, Go, Reply
  <2>2. NothingLeftBehind'
    BY <1>0, <1>3, LabelSets
    DEF EvalType, LockDiscipline, Exclusion, NothingLeftBehind, TypeOK, RequestTypes,
        ProviderTypes, ConfigTypes, GraphTypes, Engaged, Moves, lcVars, graphVars, Go,
        Reply
  <2>3. Ordered(projLock)' /\ Ordered(cfgLock)'
    BY <1>0, <1>3, LabelSets
    DEF EvalType, LockDiscipline, Exclusion, NothingLeftBehind, Moves, lcVars,
        graphVars, Go, Reply
  <2> QED  BY <2>1, <2>2, <2>3 DEF LockDiscipline
<1>4. ASSUME EvalLock(e)  PROVE LockDiscipline'
  <2>1. Exclusion'
    BY <1>0, <1>4, LabelSets
    DEF EvalLock, LockDiscipline, Exclusion, NothingLeftBehind, TypeOK, RequestTypes,
        ProviderTypes, GraphTypes, Engaged, Moves, provVars, lcVars, Go
  <2>2. NothingLeftBehind'
    BY <1>0, <1>4, LabelSets
    DEF EvalLock, LockDiscipline, Exclusion, NothingLeftBehind, TypeOK, RequestTypes,
        ProviderTypes, ConfigTypes, GraphTypes, Engaged, Moves, provVars, lcVars, Go
  <2>3. Ordered(projLock)' /\ Ordered(cfgLock)'
    BY <1>0, <1>4, LabelSets
    DEF EvalLock, LockDiscipline, Exclusion, NothingLeftBehind, Moves, provVars,
        lcVars, Go
  <2> QED  BY <2>1, <2>2, <2>3 DEF LockDiscipline
<1>5. ASSUME EvalQuery(e)  PROVE LockDiscipline'
  <2>1. Exclusion'
    BY <1>0, <1>5, LabelSets
    DEF EvalQuery, LockDiscipline, Exclusion, NothingLeftBehind, TypeOK, RequestTypes,
        ProviderTypes, GraphTypes, Engaged, Moves, provVars, lcVars, Reply
  <2>2. NothingLeftBehind'
    BY <1>0, <1>5, LabelSets
    DEF EvalQuery, LockDiscipline, Exclusion, NothingLeftBehind, TypeOK, RequestTypes,
        ProviderTypes, ConfigTypes, GraphTypes, Engaged, Moves, provVars, lcVars,
        Reply
  <2>3. Ordered(projLock)' /\ Ordered(cfgLock)'
    BY <1>0, <1>5, LabelSets
    DEF EvalQuery, LockDiscipline, Exclusion, NothingLeftBehind, Moves, provVars,
        lcVars, Reply
  <2> QED  BY <2>1, <2>2, <2>3 DEF LockDiscipline
<1> QED  BY <1>1, <1>2, <1>3, <1>4, <1>5

LEMMA CancelLocks ==
    ASSUME TypeOK, Engaged, LockDiscipline, NEW t \in Task
    PROVE  /\ Cancel(t) => LockDiscipline'
<1>0. t \in Task /\ Moves(projLock) /\ Moves(cfgLock)
  BY BothLocksMove DEF Task
<1>1. ASSUME Cancel(t)  PROVE LockDiscipline'
  <2>1. Exclusion'
    BY <1>0, <1>1, LabelSets
    DEF Cancel, LockDiscipline, Exclusion, NothingLeftBehind, TypeOK, RequestTypes,
        ProviderTypes, GraphTypes, Engaged, Moves, lcVars, graphVars, Reply
  <2>2. NothingLeftBehind'
    BY <1>0, <1>1, LabelSets
    DEF Cancel, LockDiscipline, Exclusion, NothingLeftBehind, TypeOK, RequestTypes,
        ProviderTypes, ConfigTypes, GraphTypes, Engaged, Moves, lcVars, graphVars,
        Reply
  <2>3. Ordered(projLock)' /\ Ordered(cfgLock)'
    BY <1>0, <1>1, LabelSets
    DEF Cancel, LockDiscipline, Exclusion, NothingLeftBehind, Moves, lcVars,
        graphVars, Reply
  <2> QED  BY <2>1, <2>2, <2>3 DEF LockDiscipline
<1> QED  BY <1>1

LEMMA OtherStepLocks ==
    ASSUME TypeOK, LockDiscipline
    PROVE  /\ \A f \in Sources : Edit(f) => LockDiscipline'
           /\ Crash => LockDiscipline'
           /\ UNCHANGED vars => LockDiscipline'
<1>1. UNCHANGED <<reqVars, provVars, lcVars, graphVars>> => LockDiscipline'
  BY DEF LockDiscipline, Exclusion, NothingLeftBehind, Ordered, Waiters, reqVars, provVars,
         lcVars, graphVars
<1>2. ASSUME Crash  PROVE LockDiscipline'
  <2>1. /\ \A t \in Task : pc'[t] \in {"idle", "done"}
        /\ projLock' = Unlocked /\ cfgLock' = Unlocked
        /\ \A p \in Inits : gLock'[p] = Nobody /\ lcReaders'[p] = {} /\ lcWriters'[p] = {}
    BY <1>2 DEF Crash
  <2>2. Waiters(Unlocked) = {} /\ Ordered(Unlocked) /\ Unlocked.owner = Nobody
    BY EmptySeq, LenProperties DEF Waiters, Ordered, Unlocked
  <2>3. Exclusion'
    BY <2>1, LabelSets DEF Exclusion
  <2>4. NothingLeftBehind'
    BY <2>1, <2>2 DEF NothingLeftBehind
  <2> QED  BY <2>1, <2>2, <2>3, <2>4 DEF LockDiscipline
<1> QED  BY <1>1, <1>2 DEF Edit, vars

LEMMA InitLocks == Init => LockDiscipline
<1> SUFFICES ASSUME Init  PROVE LockDiscipline
  OBVIOUS
<1>1. Waiters(Unlocked) = {} /\ Ordered(Unlocked) /\ Unlocked.owner = Nobody
  BY EmptySeq, LenProperties DEF Waiters, Ordered, Unlocked
<1> QED  BY <1>1, LabelSets DEF Init, Fresh, LockDiscipline, Exclusion, NothingLeftBehind

LEMMA LocksStep ==
    TypeOK /\ Engaged /\ LockDiscipline /\ [Next]_vars => LockDiscipline'
<1> SUFFICES ASSUME TypeOK, Engaged, LockDiscipline, [Next]_vars  PROVE LockDiscipline'
  OBVIOUS
<1>1. ASSUME NEW i \in Inits, InitCall(i) \/ InitStep(i) \/ SdkStep(i)  PROVE LockDiscipline'
  BY <1>1, InitStepLocks, GraphStepLocks DEF InitStep, SdkStep, GraphStep
<1>2. ASSUME NEW n \in Notifies, NotifyCall(n) \/ NotifyStep(n)  PROVE LockDiscipline'
  BY <1>2, NotifyStepLocks, GraphStepLocks DEF NotifyStep, GraphStep
<1>3. ASSUME NEW e \in Evals, EvalCall(e) \/ EvalStep(e)  PROVE LockDiscipline'
  BY <1>3, EvalStepLocks DEF EvalStep
<1>4. ASSUME NEW t \in Task, Cancel(t)  PROVE LockDiscipline'
  BY <1>4, CancelLocks
<1>5. ASSUME NEW f \in Sources, Edit(f)  PROVE LockDiscipline'
  BY <1>5, OtherStepLocks
<1>6. ASSUME Crash \/ Idle \/ UNCHANGED vars  PROVE LockDiscipline'
  BY <1>6, OtherStepLocks DEF Idle
<1> QED  BY <1>1, <1>2, <1>3, <1>4, <1>5, <1>6 DEF Next

-----------------------------------------------------------------------------
(* Theorems *)

\* csharp.rs:101-125, 356-380, 562: in every interleaving of any number of calls,
\* with cancellations, panics and crashes, the locks are held by the handler the
\* code says holds them, and by nobody whose request is over.
THEOREM LocksHeld == Spec => []LockDiscipline
<1>1. Init => TypeOK /\ Engaged /\ LockDiscipline
  BY InitTypes, InitEngaged, InitLocks
<1>2. TypeOK /\ Engaged /\ LockDiscipline /\ [Next]_vars =>
         (TypeOK /\ Engaged /\ LockDiscipline)'
  BY TypesStep, LocksStep
<1> QED  BY <1>1, <1>2, PTL DEF Spec

\* project.rs:317, csharp.rs:584: the read lock that a notification takes twice can
\* not deadlock with an init that waits to write, because both hold the project lock.
THEOREM NestedReadNeverBlocks == Spec => []NestedReadSafe
<1>1. TypeOK /\ Engaged /\ LockDiscipline => NestedReadSafe
  <2> SUFFICES ASSUME TypeOK, Engaged, LockDiscipline, NEW t \in Task
               PROVE  /\ pc[t] \in Reading => lcWriters[cur[t]] = {}
                      /\ pc[t] = "validate" => lcReaders[cur[t]] = {}
    BY DEF NestedReadSafe
  <2>1. pc[t] \in Reading \cup {"validate"} => projLock.owner = t /\ cur[t] \in Inits
    BY LabelSets DEF LockDiscipline, Exclusion, Engaged
  <2>2. ASSUME pc[t] \in Reading, NEW w \in lcWriters[cur[t]]  PROVE FALSE
    <3>1. w \in Task /\ pc[w] = "validate"
      BY <2>1, <2>2, LabelSets DEF LockDiscipline, NothingLeftBehind, TypeOK, ConfigTypes
    <3>2. projLock.owner = w
      BY <3>1, LabelSets DEF LockDiscipline, Exclusion
    <3> QED  BY <2>1, <2>2, <3>1, <3>2, LabelSets
  <2>3. ASSUME pc[t] = "validate", NEW r \in lcReaders[cur[t]]  PROVE FALSE
    <3>1. r \in Task /\ pc[r] \in Reading
      BY <2>1, <2>3, LabelSets DEF LockDiscipline, NothingLeftBehind, TypeOK, ConfigTypes
    <3>2. projLock.owner = r
      BY <3>1, LabelSets DEF LockDiscipline, Exclusion
    <3> QED  BY <2>1, <2>3, <3>1, <3>2, LabelSets
  <2> QED  BY <2>2, <2>3
<1>2. Init => TypeOK /\ Engaged /\ LockDiscipline
  BY InitTypes, InitEngaged, InitLocks
<1>3. TypeOK /\ Engaged /\ LockDiscipline /\ [Next]_vars =>
         (TypeOK /\ Engaged /\ LockDiscipline)'
  BY TypesStep, LocksStep
<1> QED  BY <1>1, <1>2, <1>3, PTL DEF Spec

-----------------------------------------------------------------------------
(* The language configuration is there when the graph code unwraps it *)

LEMMA InitStepReady ==
    ASSUME TypeOK, Engaged, LanguageConfigReady, NEW i \in Inits
    PROVE  /\ InitCall(i) => LanguageConfigReady'
           /\ InitConfig(i) => LanguageConfigReady'
           /\ InitReplace(i) => LanguageConfigReady'
           /\ InitUnlock(i) => LanguageConfigReady'
           /\ InitRelock(i) => LanguageConfigReady'
           /\ InitBind(i) => LanguageConfigReady'
           /\ InitValidate(i) => LanguageConfigReady'
           /\ InitResolve(i) => LanguageConfigReady'
           /\ InitJoin(i) => LanguageConfigReady'
           /\ InitDeps(i) => LanguageConfigReady'
           /\ InitLoad(i) => LanguageConfigReady'
           /\ SdkOpen(i) => LanguageConfigReady'
           /\ SdkSchema(i) => LanguageConfigReady'
           /\ SdkStore(i) => LanguageConfigReady'
           /\ SdkMark(i) => LanguageConfigReady'
<1>0. i \in Task
  BY DEF Task
<1>1. ASSUME InitCall(i)  PROVE LanguageConfigReady'
  BY <1>0, <1>1, LabelSets
  DEF InitCall, LanguageConfigReady, Engaged, TypeOK, RequestTypes, ConfigTypes,
      lcVars, Go
<1>2. ASSUME InitConfig(i)  PROVE LanguageConfigReady'
  BY <1>0, <1>2, LabelSets
  DEF InitConfig, LanguageConfigReady, Engaged, TypeOK, RequestTypes, ConfigTypes,
      lcVars, Go, Reply
<1>3. ASSUME InitReplace(i)  PROVE LanguageConfigReady'
  BY <1>0, <1>3, LabelSets
  DEF InitReplace, LanguageConfigReady, Engaged, TypeOK, RequestTypes, ConfigTypes,
      lcVars, Go
<1>4. ASSUME InitUnlock(i)  PROVE LanguageConfigReady'
  BY <1>0, <1>4, LabelSets
  DEF InitUnlock, LanguageConfigReady, Engaged, TypeOK, RequestTypes, ConfigTypes,
      lcVars, Go
<1>5. ASSUME InitRelock(i)  PROVE LanguageConfigReady'
  BY <1>0, <1>5, LabelSets
  DEF InitRelock, LanguageConfigReady, Engaged, TypeOK, RequestTypes, ConfigTypes,
      lcVars, Go
<1>6. ASSUME InitBind(i)  PROVE LanguageConfigReady'
  BY <1>0, <1>6, LabelSets
  DEF InitBind, LanguageConfigReady, Engaged, TypeOK, RequestTypes, ConfigTypes, Go,
      Finish, Reply
<1>7. ASSUME InitValidate(i)  PROVE LanguageConfigReady'
  BY <1>0, <1>7, LabelSets
  DEF InitValidate, LanguageConfigReady, Engaged, TypeOK, RequestTypes, ConfigTypes,
      Go
<1>8. ASSUME InitResolve(i)  PROVE LanguageConfigReady'
  BY <1>0, <1>8, LabelSets
  DEF InitResolve, LanguageConfigReady, Engaged, TypeOK, RequestTypes, ConfigTypes,
      Go, Finish, Reply
<1>9. ASSUME InitJoin(i)  PROVE LanguageConfigReady'
  BY <1>0, <1>9, LabelSets
  DEF InitJoin, LanguageConfigReady, Engaged, TypeOK, RequestTypes, ConfigTypes,
      lcVars, Go
<1>10. ASSUME InitDeps(i)  PROVE LanguageConfigReady'
  BY <1>0, <1>10, LabelSets
  DEF InitDeps, LanguageConfigReady, Engaged, TypeOK, RequestTypes, ConfigTypes, Go,
      Finish, Reply
<1>11. ASSUME InitLoad(i)  PROVE LanguageConfigReady'
  BY <1>0, <1>11, LabelSets
  DEF InitLoad, LanguageConfigReady, Engaged, TypeOK, RequestTypes, ConfigTypes,
      Finish, Reply
<1>12. ASSUME SdkOpen(i)  PROVE LanguageConfigReady'
  BY <1>0, <1>12, LabelSets
  DEF SdkOpen, LanguageConfigReady, Engaged, TypeOK, RequestTypes, ConfigTypes,
      reqVars, lcVars
<1>13. ASSUME SdkSchema(i)  PROVE LanguageConfigReady'
  BY <1>0, <1>13, LabelSets
  DEF SdkSchema, LanguageConfigReady, Engaged, TypeOK, RequestTypes, ConfigTypes,
      reqVars, lcVars
<1>14. ASSUME SdkStore(i)  PROVE LanguageConfigReady'
  BY <1>0, <1>14, LabelSets
  DEF SdkStore, LanguageConfigReady, Engaged, TypeOK, RequestTypes, ConfigTypes,
      reqVars, lcVars
<1>15. ASSUME SdkMark(i)  PROVE LanguageConfigReady'
  BY <1>0, <1>15, LabelSets
  DEF SdkMark, LanguageConfigReady, Engaged, TypeOK, RequestTypes, ConfigTypes,
      reqVars, lcVars
<1> QED  BY <1>1, <1>2, <1>3, <1>4, <1>5, <1>6, <1>7, <1>8, <1>9, <1>10, <1>11, <1>12,
         <1>13, <1>14, <1>15

LEMMA GraphStepReady ==
    ASSUME TypeOK, Engaged, LanguageConfigReady, NEW t \in Inits \cup Notifies
    PROVE  /\ GraphOpen(t) => LanguageConfigReady'
           /\ GraphSwap(t) => LanguageConfigReady'
           /\ WalkGuard(t) => LanguageConfigReady'
           /\ WalkOpen(t) => LanguageConfigReady'
           /\ WalkSchema(t) => LanguageConfigReady'
           /\ WalkFile(t) => LanguageConfigReady'
           /\ WalkSwap(t) => LanguageConfigReady'
<1>0. t \in Task
  BY DEF Task
<1>1. ASSUME GraphOpen(t)  PROVE LanguageConfigReady'
  BY <1>0, <1>1, LabelSets
  DEF GraphOpen, LanguageConfigReady, Engaged, TypeOK, RequestTypes, ConfigTypes,
      Finish, Go, GraphErr, Reply
<1>2. ASSUME GraphSwap(t)  PROVE LanguageConfigReady'
  BY <1>0, <1>2, LabelSets
  DEF GraphSwap, LanguageConfigReady, Engaged, TypeOK, RequestTypes, ConfigTypes,
      Finish, Go, GraphOk, Reply
<1>3. ASSUME WalkGuard(t)  PROVE LanguageConfigReady'
  BY <1>0, <1>3, LabelSets
  DEF WalkGuard, LanguageConfigReady, Engaged, TypeOK, RequestTypes, ConfigTypes, Go
<1>4. ASSUME WalkOpen(t)  PROVE LanguageConfigReady'
  BY <1>0, <1>4, LabelSets
  DEF WalkOpen, LanguageConfigReady, Engaged, TypeOK, RequestTypes, ConfigTypes, Go,
      Finish, Reply
<1>5. ASSUME WalkSchema(t)  PROVE LanguageConfigReady'
  BY <1>0, <1>5, LabelSets
  DEF WalkSchema, LanguageConfigReady, Engaged, TypeOK, RequestTypes, ConfigTypes,
      lcVars, Go
<1>6. ASSUME WalkFile(t)  PROVE LanguageConfigReady'
  BY <1>0, <1>6, LabelSets
  DEF WalkFile, LanguageConfigReady, Engaged, TypeOK, RequestTypes, ConfigTypes,
      Finish, Reply
<1>7. ASSUME WalkSwap(t)  PROVE LanguageConfigReady'
  BY <1>0, <1>7, LabelSets
  DEF WalkSwap, LanguageConfigReady, Engaged, TypeOK, RequestTypes, ConfigTypes,
      Finish, Go, GraphOk, Reply
<1> QED  BY <1>1, <1>2, <1>3, <1>4, <1>5, <1>6, <1>7

LEMMA NotifyStepReady ==
    ASSUME TypeOK, Engaged, LanguageConfigReady, NEW n \in Notifies
    PROVE  /\ NotifyCall(n) => LanguageConfigReady'
           /\ NotifyStart(n) => LanguageConfigReady'
           /\ NotifyType(n) => LanguageConfigReady'
           /\ NotifyOpen(n) => LanguageConfigReady'
           /\ NotifySchema(n) => LanguageConfigReady'
           /\ NotifyClean(n) => LanguageConfigReady'
           /\ NotifySkip(n) => LanguageConfigReady'
           /\ NotifyStore(n) => LanguageConfigReady'
<1>0. n \in Task
  BY DEF Task
<1>1. ASSUME NotifyCall(n)  PROVE LanguageConfigReady'
  BY <1>0, <1>1, LabelSets
  DEF NotifyCall, LanguageConfigReady, Engaged, TypeOK, RequestTypes, ConfigTypes,
      lcVars, Go, Reply
<1>2. ASSUME NotifyStart(n)  PROVE LanguageConfigReady'
  BY <1>0, <1>2, LabelSets
  DEF NotifyStart, LanguageConfigReady, Engaged, TypeOK, RequestTypes, ConfigTypes,
      Go, Finish, Reply
<1>3. ASSUME NotifyType(n)  PROVE LanguageConfigReady'
  BY <1>0, <1>3, LabelSets
  DEF NotifyType, LanguageConfigReady, Engaged, TypeOK, RequestTypes, ConfigTypes, Go,
      Finish, Reply
<1>4. ASSUME NotifyOpen(n)  PROVE LanguageConfigReady'
  BY <1>0, <1>4, LabelSets
  DEF NotifyOpen, LanguageConfigReady, Engaged, TypeOK, RequestTypes, ConfigTypes, Go,
      Finish, Reply
<1>5. ASSUME NotifySchema(n)  PROVE LanguageConfigReady'
  BY <1>0, <1>5, LabelSets
  DEF NotifySchema, LanguageConfigReady, Engaged, TypeOK, RequestTypes, ConfigTypes,
      lcVars, Go
<1>6. ASSUME NotifyClean(n)  PROVE LanguageConfigReady'
  BY <1>0, <1>6, LabelSets
  DEF NotifyClean, LanguageConfigReady, Engaged, TypeOK, RequestTypes, ConfigTypes,
      Go, Finish, Reply
<1>7. ASSUME NotifyStore(n)  PROVE LanguageConfigReady'
  BY <1>0, <1>7, LabelSets
  DEF NotifyStore, LanguageConfigReady, Engaged, TypeOK, RequestTypes, ConfigTypes,
      lcVars, Go
<1>8. ASSUME NotifySkip(n)  PROVE LanguageConfigReady'
  BY <1>0, <1>8, LabelSets
  DEF NotifySkip, LanguageConfigReady, Engaged, TypeOK, RequestTypes, ConfigTypes,
      Go, Finish, Reply
<1> QED  BY <1>1, <1>2, <1>3, <1>4, <1>5, <1>6, <1>7, <1>8

LEMMA EvalStepReady ==
    ASSUME TypeOK, Engaged, LanguageConfigReady, NEW e \in Evals
    PROVE  /\ EvalCall(e) => LanguageConfigReady'
           /\ EvalStart(e) => LanguageConfigReady'
           /\ EvalType(e) => LanguageConfigReady'
           /\ EvalLock(e) => LanguageConfigReady'
           /\ EvalQuery(e) => LanguageConfigReady'
<1>0. e \in Task
  BY DEF Task
<1>1. ASSUME EvalCall(e)  PROVE LanguageConfigReady'
  BY <1>0, <1>1, LabelSets
  DEF EvalCall, LanguageConfigReady, Engaged, TypeOK, RequestTypes, ConfigTypes,
      lcVars, Go, Reply
<1>2. ASSUME EvalStart(e)  PROVE LanguageConfigReady'
  BY <1>0, <1>2, LabelSets
  DEF EvalStart, LanguageConfigReady, Engaged, TypeOK, RequestTypes, ConfigTypes, Go,
      Finish, Reply
<1>3. ASSUME EvalType(e)  PROVE LanguageConfigReady'
  BY <1>0, <1>3, LabelSets
  DEF EvalType, LanguageConfigReady, Engaged, TypeOK, RequestTypes, ConfigTypes,
      lcVars, Go, Reply
<1>4. ASSUME EvalLock(e)  PROVE LanguageConfigReady'
  BY <1>0, <1>4, LabelSets
  DEF EvalLock, LanguageConfigReady, Engaged, TypeOK, RequestTypes, ConfigTypes,
      lcVars, Go
<1>5. ASSUME EvalQuery(e)  PROVE LanguageConfigReady'
  BY <1>0, <1>5, LabelSets
  DEF EvalQuery, LanguageConfigReady, Engaged, TypeOK, RequestTypes, ConfigTypes,
      lcVars, Reply
<1> QED  BY <1>1, <1>2, <1>3, <1>4, <1>5

LEMMA OtherStepReady ==
    ASSUME TypeOK, LanguageConfigReady
    PROVE  /\ \A t \in Task : Cancel(t) => LanguageConfigReady'
           /\ \A f \in Sources : Edit(f) => LanguageConfigReady'
           /\ Crash => LanguageConfigReady'
           /\ UNCHANGED vars => LanguageConfigReady'
<1>1. UNCHANGED <<reqVars, lcVars>> => LanguageConfigReady'
  BY DEF LanguageConfigReady, reqVars, lcVars
<1>2. ASSUME NEW t \in Task, Cancel(t)  PROVE LanguageConfigReady'
  BY <1>2, LabelSets DEF Cancel, Reply, LanguageConfigReady, TypeOK, RequestTypes, lcVars
<1>3. ASSUME Crash  PROVE LanguageConfigReady'
  BY <1>3, LabelSets DEF Crash, LanguageConfigReady
<1> QED  BY <1>1, <1>2, <1>3 DEF Edit, vars

\* project.rs:319, csharp.rs:588: get_project_graph never unwraps a missing language
\* configuration, whoever calls it and whatever replaced the project meanwhile.
THEOREM UnwrapNeverFails == Spec => []LanguageConfigReady
<1>1. Init => TypeOK /\ Engaged /\ LanguageConfigReady
  BY InitTypes, InitEngaged, LabelSets DEF Init, LanguageConfigReady
<1>2. TypeOK /\ Engaged /\ LanguageConfigReady /\ [Next]_vars => LanguageConfigReady'
  <2> SUFFICES ASSUME TypeOK, Engaged, LanguageConfigReady, [Next]_vars
               PROVE  LanguageConfigReady'
    OBVIOUS
  <2>1. ASSUME NEW i \in Inits, InitCall(i) \/ InitStep(i) \/ SdkStep(i)
        PROVE  LanguageConfigReady'
    BY <2>1, InitStepReady, GraphStepReady DEF InitStep, SdkStep, GraphStep
  <2>2. ASSUME NEW n \in Notifies, NotifyCall(n) \/ NotifyStep(n)
        PROVE  LanguageConfigReady'
    BY <2>2, NotifyStepReady, GraphStepReady DEF NotifyStep, GraphStep
  <2>3. ASSUME NEW e \in Evals, EvalCall(e) \/ EvalStep(e)  PROVE LanguageConfigReady'
    BY <2>3, EvalStepReady DEF EvalStep
  <2>4. ASSUME NEW t \in Task, Cancel(t)  PROVE LanguageConfigReady'
    BY <2>4, OtherStepReady
  <2>5. ASSUME NEW f \in Sources, Edit(f)  PROVE LanguageConfigReady'
    BY <2>5, OtherStepReady
  <2>6. ASSUME Crash \/ Idle \/ UNCHANGED vars  PROVE LanguageConfigReady'
    BY <2>6, OtherStepReady DEF Idle
  <2> QED  BY <2>1, <2>2, <2>3, <2>4, <2>5, <2>6 DEF Next
<1>3. TypeOK /\ Engaged /\ [Next]_vars => (TypeOK /\ Engaged)'
  BY TypesStep
<1> QED  BY <1>1, <1>2, <1>3, PTL DEF Spec

-----------------------------------------------------------------------------
(* What the only init of a provider indexes *)

\* A provider that is initialised once on its store, restarts included, for which no SDK
\* is loaded: what a second init, or one that comes after an SDK's rows, takes for the
\* whole graph need not be (project.rs:270).
InitialisedOnce == (\A i, j \in Inits : i = j) /\ "sdk" \notin SdkKinds

\* Where an init is when it has put its language configuration in place, and when its
\* walk has begun.
Late   == GraphLabels \cup {"resolve", "join", "deps", "load", "done"}
Walked == {"walk", "resolve", "join", "deps", "load"}

\* Nobody has edited the file since the init was called; the row it must have then.
Unedited(i, f) == disk[f] = [ver |-> known[i][f], st |-> "ok"]
AsCalled(i, f) == [ver |-> known[i][f], live |-> TRUE]

OnlyCall(i) ==
    /\ sdkPc[i] = "none"
    /\ lcSet[i] => pc[i] \in Late
    /\ \A f \in Sources : /\ known[i][f] <= disk[f].ver
                          /\ pc[i] # "idle" => known[i][f] >= 1

\* Until it is answered no other handler gets behind the check for a language
\* configuration; so nothing is in the store before its walk, and its graph is not poisoned.
Undisturbed(i) ==
    pc[i] # "done" =>
       /\ \A n \in Notifies : pc[n] \notin Reading
       /\ \A e \in Evals : pc[e] \notin EvalLabels
       /\ ~poisoned[i] /\ pc[i] # "swap"
       /\ pc[i] \notin Walked => NoSymbols(db)

\* Each file is still to be visited, or is in the store and in the graph of the walk; and
\* when the walk is over it is in the graph of the project.
Indexing(i) ==
    /\ pc[i] = "walk" =>
          \A f \in Below(i) : Unedited(i, f) =>
             f \in files[i] \/ (snap[i][f] = AsCalled(i, f) /\ db[f] = AsCalled(i, f))
    /\ pc[i] \in Walked /\ pc[i] # "walk" =>
          /\ graph[i] # NoGraph
          /\ \A f \in Below(i) : Unedited(i, f) =>
                graph[i][f] = AsCalled(i, f) /\ db[f] = AsCalled(i, f)

OnlyInv(i) == OnlyCall(i) /\ Undisturbed(i) /\ Indexing(i)

\* What a step of somebody else does, to an init that is answered and to one that is not.
SameCall(i) ==
    /\ pc'[i] = pc[i] /\ sdkPc'[i] = sdkPc[i] /\ lcSet'[i] = lcSet[i]
    /\ known'[i] = known[i] /\ disk' = disk
SameWork(i) ==
    /\ poisoned'[i] = poisoned[i] /\ db' = db /\ graph'[i] = graph[i]
    /\ snap'[i] = snap[i] /\ files'[i] = files[i]
    /\ \A n \in Notifies : pc'[n] \in Reading => pc[n] \in Reading
    /\ \A e \in Evals : pc'[e] \in EvalLabels => pc[e] \in EvalLabels

LEMMA OthersKeep ==
    ASSUME NEW i \in Inits, OnlyInv(i), SameCall(i), pc[i] = "done" \/ SameWork(i)
    PROVE  OnlyInv(i)'
<1>1. OnlyCall(i)'
  BY DEF OnlyInv, OnlyCall, SameCall
<1>2. CASE pc[i] = "done"
  BY <1>1, <1>2 DEF OnlyInv, Undisturbed, Indexing, SameCall, Walked
<1>3. CASE SameWork(i)
  <2>1. Undisturbed(i)'
    BY <1>3 DEF OnlyInv, Undisturbed, SameCall, SameWork, NoSymbols
  <2>2. Indexing(i)'
    BY <1>3 DEF OnlyInv, Indexing, SameCall, SameWork, Unedited, AsCalled, Below
  <2> QED
    BY <1>1, <2>1, <2>2 DEF OnlyInv
<1> QED
  BY <1>2, <1>3

\* The only init is the one in place.
LEMMA OnlyOne ==
    ASSUME InitialisedOnce, TypeOK, Engaged, LockDiscipline, NEW i \in Inits, OnlyInv(i)
    PROVE  /\ i \in Task /\ \A t \in Task : pc[t] \in Holding => cur[t] = i
           /\ \A t \in Task : t # i /\ pc[t] = "type" /\ lcSet[i] => pc[i] = "done"
<1>1. i \in Task
  BY DEF Task
<1>2. \A t \in Task : pc[t] \in Holding => cur[t] = i
  BY DEF InitialisedOnce, Engaged
<1>3. ASSUME NEW t \in Task, t # i, pc[t] = "type", lcSet[i], pc[i] # "done" PROVE FALSE
  <2>1. pc[i] \in Holding /\ pc[t] \in Holding
    BY <1>3, LabelSets DEF OnlyInv, OnlyCall, Late, GraphLabels
  <2> QED
    BY <1>1, <1>3, <2>1 DEF LockDiscipline, Exclusion
<1> QED
  BY <1>1, <1>2, <1>3

LEMMA NotifyStepAside ==
    ASSUME InitialisedOnce, TypeOK, Engaged, LockDiscipline, NEW i \in Inits, OnlyInv(i),
           NEW n \in Notifies, NotifyCall(n) \/ NotifyStep(n)
    PROVE  OnlyInv(i)'
<1>1. n \in Task /\ i \in Task /\ n # i /\ n \notin Evals /\ i \notin Evals /\ i \notin Notifies
  BY RequestsDistinct DEF Task
<1>2. /\ pc \in [Task -> Labels] /\ known \in [Task -> [Sources -> Version]]
      /\ snap \in [Task -> Rows] /\ files \in [Task -> SUBSET Sources]
      /\ Notifies \subseteq Task /\ Evals \subseteq Task
  BY DEF TypeOK, RequestTypes, WorkTypes, AckTypes, Task
<1>3. cur[n] = i \/ pc[n] \notin Holding
  BY <1>1, OnlyOne
<1>4. CASE NotifyCall(n)
  <2>1. SameCall(i) /\ SameWork(i)
    BY <1>1, <1>2, <1>4, LabelSets
    DEF NotifyCall, Go, Reply, SameCall, SameWork, workVars, lcVars, graphVars, storeVars, envVars, ackVars
  <2> QED
    BY <2>1, OthersKeep
<1>5. CASE NotifyStart(n)
  <2>1. SameCall(i) /\ SameWork(i)
    BY <1>1, <1>2, <1>5, LabelSets
    DEF NotifyStart, Go, Finish, Reply, SameCall, SameWork, workVars, graphVars, storeVars, envVars, ackVars
  <2> QED
    BY <2>1, OthersKeep
<1>6. CASE NotifyType(n)
  <2>1. SameCall(i)
    BY <1>1, <1>2, <1>6, LabelSets
    DEF NotifyType, Go, Finish, Reply, SameCall, workVars, graphVars, storeVars, envVars, ackVars
  <2>2. pc[i] = "done" \/ ~lcSet[cur[n]]
    BY <1>1, <1>3, <1>6, OnlyOne, LabelSets DEF NotifyType
  <2>3. ~lcSet[cur[n]] => SameWork(i)
    BY <1>1, <1>2, <1>6, LabelSets
    DEF NotifyType, Go, Finish, Reply, SameWork, workVars, graphVars, storeVars, envVars, ackVars
  <2> QED
    BY <2>1, <2>2, <2>3, OthersKeep
<1>7. CASE \/ NotifyOpen(n) \/ NotifySchema(n) \/ NotifyClean(n) \/ NotifySkip(n)
           \/ NotifyStore(n) \/ GraphStep(n)
  <2>1. pc[n] \in Reading
    BY <1>7, LabelSets
    DEF NotifyOpen, NotifySchema, NotifyClean, NotifySkip, NotifyStore, GraphStep, GraphOpen,
        GraphSwap, WalkGuard, WalkOpen, WalkSchema, WalkFile, WalkSwap
  <2>2. pc[i] = "done"
    BY <2>1 DEF OnlyInv, Undisturbed
  <2>3. CASE NotifyOpen(n)
    BY <1>1, <1>2, <2>2, <2>3, OthersKeep
    DEF NotifyOpen, Go, Finish, Reply, SameCall, workVars, graphVars, envVars, ackVars
  <2>4. CASE NotifySchema(n)
    BY <1>1, <1>2, <2>2, <2>4, OthersKeep
    DEF NotifySchema, Go, SameCall, lcVars, envVars, ackVars
  <2>5. CASE NotifyClean(n)
    BY <1>1, <1>2, <2>2, <2>5, OthersKeep
    DEF NotifyClean, Go, Finish, Reply, SameCall, envVars, ackVars
  <2>6. CASE NotifyStore(n)
    BY <1>1, <1>2, <2>2, <2>6, OthersKeep
    DEF NotifyStore, Go, SameCall, lcVars, envVars
  <2>7. CASE NotifySkip(n)
    BY <1>1, <1>2, <2>2, <2>7, OthersKeep
    DEF NotifySkip, Go, Finish, Reply, SameCall, graphVars, envVars, ackVars
  <2>8. CASE GraphStep(n)
    <3>1. CASE GraphOpen(n)
      BY <1>1, <1>2, <2>2, <3>1, OthersKeep
      DEF GraphOpen, GraphErr, Go, Finish, Reply, SameCall, envVars
    <3>2. CASE GraphSwap(n)
      BY <1>1, <1>2, <2>2, <3>2, OthersKeep
      DEF GraphSwap, GraphOk, Go, Finish, Reply, SameCall, envVars
    <3>3. CASE WalkGuard(n)
      BY <1>1, <1>2, <2>2, <3>3, OthersKeep
      DEF WalkGuard, Go, SameCall, envVars, ackVars
    <3>4. CASE WalkOpen(n)
      BY <1>1, <1>2, <2>2, <3>4, OthersKeep
      DEF WalkOpen, Go, Finish, Reply, SameCall, envVars, ackVars
    <3>5. CASE WalkSchema(n)
      BY <1>1, <1>2, <2>2, <3>5, OthersKeep
      DEF WalkSchema, Go, SameCall, lcVars, envVars, ackVars
    <3>6. CASE WalkFile(n)
      BY <1>1, <1>2, <2>2, <3>6, OthersKeep
      DEF WalkFile, Finish, Reply, SameCall, envVars, ackVars
    <3>7. CASE WalkSwap(n)
      BY <1>1, <1>2, <2>2, <3>7, OthersKeep
      DEF WalkSwap, GraphOk, Go, Finish, Reply, SameCall, envVars
    <3> QED
      BY <2>8, <3>1, <3>2, <3>3, <3>4, <3>5, <3>6, <3>7 DEF GraphStep
  <2> QED
    BY <1>7, <2>3, <2>4, <2>5, <2>6, <2>7, <2>8
<1> QED
  BY <1>4, <1>5, <1>6, <1>7 DEF NotifyStep

LEMMA EvalStepAside ==
    ASSUME InitialisedOnce, TypeOK, Engaged, LockDiscipline, NEW i \in Inits, OnlyInv(i),
           NEW e \in Evals, EvalCall(e) \/ EvalStep(e)
    PROVE  OnlyInv(i)'
<1>1. e \in Task /\ i \in Task /\ e # i /\ e \notin Notifies /\ i \notin Evals /\ i \notin Notifies
  BY RequestsDistinct DEF Task
<1>2. /\ pc \in [Task -> Labels] /\ known \in [Task -> [Sources -> Version]]
      /\ snap \in [Task -> Rows] /\ files \in [Task -> SUBSET Sources]
      /\ Notifies \subseteq Task /\ Evals \subseteq Task
  BY DEF TypeOK, RequestTypes, WorkTypes, AckTypes, Task
<1>3. cur[e] = i \/ pc[e] \notin Holding
  BY <1>1, OnlyOne
<1>4. CASE EvalCall(e)
  <2>1. SameCall(i) /\ SameWork(i)
    BY <1>1, <1>2, <1>4, LabelSets
    DEF EvalCall, Go, Reply, SameCall, SameWork, workVars, lcVars, graphVars, storeVars, envVars
  <2> QED
    BY <2>1, OthersKeep
<1>5. CASE EvalStart(e)
  <2>1. SameCall(i) /\ SameWork(i)
    BY <1>1, <1>2, <1>5, LabelSets
    DEF EvalStart, Go, Finish, Reply, SameCall, SameWork, workVars, graphVars, storeVars, envVars, ackVars
  <2> QED
    BY <2>1, OthersKeep
<1>6. CASE EvalType(e)
  <2>1. SameCall(i)
    BY <1>1, <1>2, <1>6, LabelSets
    DEF EvalType, Go, Reply, SameCall, workVars, lcVars, graphVars, storeVars, envVars, ackVars
  <2>2. pc[i] = "done" \/ ~lcSet[cur[e]]
    BY <1>1, <1>3, <1>6, OnlyOne, LabelSets DEF EvalType
  <2>3. ~lcSet[cur[e]] => SameWork(i)
    BY <1>1, <1>2, <1>6, LabelSets
    DEF EvalType, Go, Reply, SameWork, workVars, lcVars, graphVars, storeVars, envVars, ackVars
  <2> QED
    BY <2>1, <2>2, <2>3, OthersKeep
<1>7. CASE EvalLock(e) \/ EvalQuery(e)
  <2>1. pc[i] = "done"
    BY <1>7, LabelSets DEF EvalLock, EvalQuery, OnlyInv, Undisturbed
  <2>2. CASE EvalLock(e)
    BY <1>1, <1>2, <2>1, <2>2, OthersKeep
    DEF EvalLock, Go, SameCall, lcVars, envVars, ackVars
  <2>3. CASE EvalQuery(e)
    BY <1>1, <1>2, <2>1, <2>3, OthersKeep
    DEF EvalQuery, Reply, SameCall, lcVars, envVars
  <2> QED
    BY <1>7, <2>2, <2>3
<1> QED
  BY <1>4, <1>5, <1>6, <1>7 DEF EvalStep

LEMMA OtherStepAside ==
    ASSUME InitialisedOnce, TypeOK, NEW i \in Inits, OnlyInv(i)
    PROVE  /\ \A t \in Task : Cancel(t) => OnlyInv(i)'
           /\ \A f \in Sources : Edit(f) => OnlyInv(i)'
           /\ Crash => OnlyInv(i)'
           /\ UNCHANGED vars => OnlyInv(i)'
           /\ ~SdkStep(i)
<1>1. i \in Task /\ Notifies \subseteq Task /\ Evals \subseteq Task
  BY DEF Task
<1>2. /\ pc \in [Task -> Labels] /\ known \in [Task -> [Sources -> Version]]
      /\ disk \in [Sources -> Content]
  BY DEF TypeOK, RequestTypes, AckTypes, EnvTypes
<1>3. ASSUME NEW t \in Task, Cancel(t) PROVE OnlyInv(i)'
  <2>1. pc' = [pc EXCEPT ![t] = "done"]
    BY <1>3 DEF Cancel, Reply
  <2>2. t # i => SameCall(i) /\ SameWork(i)
    BY <1>1, <1>2, <1>3, <2>1, LabelSets
    DEF Cancel, SameCall, SameWork, workVars, lcVars, graphVars, storeVars, envVars, ackVars
  <2>3. CASE t = i
    <3>1. pc'[i] = "done"
      BY <1>1, <1>2, <2>1, <2>3
    <3>2. UNCHANGED <<sdkPc, lcSet, known, disk>> /\ pc[i] # "idle"
      BY <1>3, <2>3 DEF Cancel, lcVars, envVars, ackVars
    <3>3. OnlyCall(i)'
      BY <3>1, <3>2 DEF OnlyInv, OnlyCall, Late
    <3> QED
      BY <3>1, <3>3 DEF OnlyInv, Undisturbed, Indexing, Walked
  <2> QED
    BY <2>2, <2>3, OthersKeep
<1>4. ASSUME NEW f \in Sources, Edit(f) PROVE OnlyInv(i)'
  <2>1. PICK st : disk' = [disk EXCEPT ![f] = [ver |-> disk[f].ver + 1, st |-> st]]
    BY <1>4 DEF Edit
  <2>2. UNCHANGED <<pc, sdkPc, lcSet, known, poisoned, db, graph, snap, files>>
    BY <1>4 DEF Edit, reqVars, workVars, lcVars, graphVars, storeVars, ackVars
  <2>3. \A g \in Sources : known[i][g] \in Nat /\ disk[g].ver \in Nat
    BY <1>1, <1>2 DEF Version, Content
  <2>4. \A g \in Sources : disk'[g].ver >= disk[g].ver /\ (g = f => disk'[g].ver = disk[g].ver + 1)
    BY <1>2, <2>1, <2>3
  <2>5. OnlyCall(i)'
    <3>1. ASSUME NEW g \in Sources PROVE known[i][g] <= disk'[g].ver
      <4>1. known[i][g] <= disk[g].ver
        BY DEF OnlyInv, OnlyCall
      <4>2. known[i][g] \in Nat /\ disk[g].ver \in Nat
        BY <2>3
      <4>3. disk'[g].ver = disk[g].ver \/ disk'[g].ver = disk[g].ver + 1
        BY <1>2, <2>1
      <4> QED
        BY <4>1, <4>2, <4>3
    <3> QED
      BY <2>2, <3>1 DEF OnlyInv, OnlyCall
  <2>6. \A g \in Sources : Unedited(i, g)' => Unedited(i, g)
    <3>1. known[i][f] <= disk[f].ver
      BY DEF OnlyInv, OnlyCall
    <3>2. ~Unedited(i, f)'
      BY <2>2, <2>3, <2>4, <3>1 DEF Unedited
    <3>3. \A g \in Sources : g # f => disk'[g] = disk[g]
      BY <1>2, <2>1
    <3> QED
      BY <2>2, <3>2, <3>3 DEF Unedited
  <2>7. Undisturbed(i)'
    BY <2>2 DEF OnlyInv, Undisturbed, NoSymbols
  <2>8. Indexing(i)'
    BY <2>2, <2>6 DEF OnlyInv, Indexing, AsCalled, Below
  <2> QED
    BY <2>5, <2>7, <2>8 DEF OnlyInv
<1>5. ASSUME Crash PROVE OnlyInv(i)'
  <2>1. /\ \A t \in Task : pc'[t] = IF pc[t] = "idle" THEN "idle" ELSE "done"
        /\ ~lcSet'[i] /\ sdkPc'[i] = "none" /\ ~poisoned'[i]
        /\ UNCHANGED <<known, disk, db>>
    BY <1>5 DEF Crash, OnlyInv, OnlyCall, storeVars, ackVars
  <2>2. OnlyCall(i)'
    BY <1>1, <2>1 DEF OnlyInv, OnlyCall
  <2>3. Undisturbed(i)'
    <3>1. pc'[i] # "done" => pc[i] = "idle" /\ pc'[i] = "idle"
      BY <1>1, <2>1
    <3>2. pc[i] = "idle" => NoSymbols(db)
      BY DEF OnlyInv, Undisturbed, Walked
    <3>3. NoSymbols(db)' = NoSymbols(db)
      BY <2>1 DEF NoSymbols
    <3>4. \A t \in Task : pc'[t] \notin Reading /\ pc'[t] \notin EvalLabels
      BY <2>1, LabelSets
    <3> QED
      BY <1>1, <2>1, <3>1, <3>2, <3>3, <3>4 DEF Undisturbed
  <2>4. Indexing(i)'
    BY <1>1, <2>1 DEF Indexing, Walked
  <2> QED
    BY <2>2, <2>3, <2>4 DEF OnlyInv
<1>6. ASSUME UNCHANGED vars PROVE OnlyInv(i)'
  <2>1. SameCall(i) /\ SameWork(i)
    BY <1>6 DEF SameCall, SameWork, vars, reqVars, workVars, lcVars, graphVars, storeVars, envVars, ackVars
  <2> QED
    BY <2>1, OthersKeep
<1>7. ~SdkStep(i)
  BY DEF OnlyInv, OnlyCall, SdkStep, SdkOpen, SdkSchema, SdkStore, SdkMark
<1> QED
  BY <1>3, <1>4, <1>5, <1>6, <1>7

-----------------------------------------------------------------------------
(* Its own steps *)

\* The init goes on to label, and nobody else moves.
OwnMove(i, label) ==
    /\ pc' = [pc EXCEPT ![i] = label]
    /\ UNCHANGED <<poisoned, known, disk, sdkPc>>

LEMMA OwnMoveKeeps ==
    ASSUME TypeOK, NEW i \in Inits, OnlyInv(i), NEW label, OwnMove(i, label), pc[i] # "idle", pc[i] # "done",
           label # "idle", label # "swap", lcSet'[i] => label \in Late
    PROVE  /\ OnlyCall(i)' /\ pc'[i] = label
           /\ label = "done" => OnlyInv(i)'
           /\ (label \notin Walked => NoSymbols(db)') => Undisturbed(i)'
<1>1. i \in Task /\ Notifies \subseteq Task /\ Evals \subseteq Task /\ i \notin Notifies /\ i \notin Evals
  BY RequestsDistinct DEF Task
<1>2. pc \in [Task -> Labels]
  BY DEF TypeOK, RequestTypes
<1>3. pc'[i] = label /\ \A t \in Task : t # i => pc'[t] = pc[t]
  BY <1>1, <1>2 DEF OwnMove
<1>4. OnlyCall(i)'
  BY <1>3 DEF OnlyInv, OnlyCall, OwnMove
<1>5. label = "done" => OnlyInv(i)'
  BY <1>3, <1>4 DEF OnlyInv, Undisturbed, Indexing, Walked
<1>6. (label \notin Walked => NoSymbols(db)') => Undisturbed(i)'
  BY <1>1, <1>3 DEF OnlyInv, Undisturbed, OwnMove
<1> QED
  BY <1>3, <1>4, <1>5, <1>6

\* Before the walk nothing is stored.
LEMMA BeforeTheWalk ==
    ASSUME TypeOK, NEW i \in Inits, OnlyInv(i), NEW label, OwnMove(i, label), pc[i] # "idle", pc[i] # "done",
           label # "idle", label # "swap", lcSet'[i] => label \in Late,
           pc[i] \notin Walked, label \notin Walked, UNCHANGED db
    PROVE  OnlyInv(i)'
<1>1. NoSymbols(db)' = NoSymbols(db)
  BY DEF NoSymbols
<1>2. NoSymbols(db)
  BY DEF OnlyInv, Undisturbed
<1>3. OnlyCall(i)' /\ Undisturbed(i)' /\ pc'[i] = label
  BY <1>1, <1>2, OwnMoveKeeps
<1>4. Indexing(i)'
  BY <1>3 DEF Indexing, Walked
<1> QED
  BY <1>3, <1>4 DEF OnlyInv

LEMMA OwnEarlyStep ==
    ASSUME InitialisedOnce, TypeOK, Engaged, LockDiscipline, NEW i \in Inits, OnlyInv(i)
    PROVE  /\ InitCall(i) => OnlyInv(i)'
           /\ InitConfig(i) \/ InitReplace(i) \/ InitUnlock(i) \/ InitRelock(i) => OnlyInv(i)'
           /\ InitBind(i) => OnlyInv(i)'
           /\ InitValidate(i) => OnlyInv(i)'
<1>1. i \in Task /\ Notifies \subseteq Task /\ Evals \subseteq Task /\ i \notin Notifies /\ i \notin Evals
  BY RequestsDistinct DEF Task
<1>2. /\ pc \in [Task -> Labels] /\ known \in [Task -> [Sources -> Version]]
      /\ disk \in [Sources -> Content] /\ lcSet \in [Inits -> BOOLEAN]
  BY DEF TypeOK, RequestTypes, AckTypes, EnvTypes, ConfigTypes
<1>3. lcSet[i] => pc[i] \in Late
  BY DEF OnlyInv, OnlyCall
<1>4. ASSUME InitCall(i) PROVE OnlyInv(i)'
  <2>1. /\ pc' = [pc EXCEPT ![i] = "config"] /\ pc[i] = "idle" /\ ~lcSet[i]
        /\ UNCHANGED <<sdkPc, lcSet, disk, poisoned, db>>
    BY <1>3, <1>4
    DEF InitCall, Go, lcVars, envVars, graphVars, storeVars, Late, GraphLabels
  <2>2. known' = [known EXCEPT ![i] = [f \in Sources |-> disk[f].ver]]
    BY <1>4 DEF InitCall
  <2>3. \A f \in Sources : known'[i][f] = disk[f].ver
    BY <1>1, <1>2, <2>2
  <2>4. \A f \in Sources : disk[f].ver \in 1..MaxVer
    BY <1>2 DEF Content
  <2>5. \A f \in Sources : known'[i][f] <= disk[f].ver /\ known'[i][f] >= 1
    BY <2>3, <2>4, ConstantTypes
  <2>6. OnlyCall(i)'
    BY <2>1, <2>5 DEF OnlyInv, OnlyCall
  <2>7. pc'[i] = "config" /\ \A t \in Task : t # i => pc'[t] = pc[t]
    BY <1>1, <1>2, <2>1
  <2>8. NoSymbols(db)
    BY <2>1 DEF OnlyInv, Undisturbed, Walked
  <2>9. Undisturbed(i)'
    BY <1>1, <2>1, <2>7, <2>8 DEF OnlyInv, Undisturbed, NoSymbols
  <2> QED
    BY <2>6, <2>7, <2>9 DEF OnlyInv, Indexing, Walked
<1>5. ASSUME InitConfig(i) PROVE OnlyInv(i)'
  <2>1. ~lcSet'[i] /\ pc[i] = "config" /\ UNCHANGED db
    BY <1>3, <1>5 DEF InitConfig, lcVars, storeVars, Late, GraphLabels
  <2>2. OwnMove(i, "done") \/ OwnMove(i, "project")
    BY <1>5 DEF InitConfig, OwnMove, Go, Reply, graphVars, ackVars, envVars
  <2> QED
    BY <2>1, <2>2, OwnMoveKeeps, BeforeTheWalk DEF Walked
<1>6. ASSUME InitReplace(i) PROVE OnlyInv(i)'
  <2>1. ~lcSet'[i] /\ pc[i] = "project" /\ UNCHANGED db
    BY <1>3, <1>6 DEF InitReplace, lcVars, storeVars, Late, GraphLabels
  <2>2. OwnMove(i, "unlock")
    BY <1>6 DEF InitReplace, OwnMove, Go, graphVars, ackVars, envVars
  <2> QED
    BY <2>1, <2>2, BeforeTheWalk DEF Walked
<1>7. ASSUME InitUnlock(i) PROVE OnlyInv(i)'
  <2>1. ~lcSet'[i] /\ pc[i] = "unlock" /\ UNCHANGED db
    BY <1>3, <1>7 DEF InitUnlock, lcVars, storeVars, Late, GraphLabels
  <2>2. OwnMove(i, "relock")
    BY <1>7 DEF InitUnlock, OwnMove, Go, graphVars, ackVars, envVars
  <2> QED
    BY <2>1, <2>2, BeforeTheWalk DEF Walked
<1>8. ASSUME InitRelock(i) PROVE OnlyInv(i)'
  <2>1. ~lcSet'[i] /\ pc[i] = "relock" /\ UNCHANGED db
    BY <1>3, <1>8 DEF InitRelock, lcVars, storeVars, Late, GraphLabels
  <2>2. OwnMove(i, "bind")
    BY <1>8 DEF InitRelock, OwnMove, Go, graphVars, ackVars, envVars
  <2> QED
    BY <2>1, <2>2, BeforeTheWalk DEF Walked
<1>9. ASSUME InitBind(i) PROVE OnlyInv(i)'
  <2>1. ~lcSet'[i] /\ pc[i] = "bind" /\ UNCHANGED db
    BY <1>3, <1>9 DEF InitBind, storeVars, Late, GraphLabels
  <2>2. UNCHANGED sdkPc
    BY <1>9 DEF InitBind, InitialisedOnce
  <2>3. OwnMove(i, "done") \/ OwnMove(i, "validate")
    BY <1>9, <2>2 DEF InitBind, OwnMove, Go, Finish, Reply, graphVars, ackVars, envVars
  <2> QED
    BY <2>1, <2>3, OwnMoveKeeps, BeforeTheWalk DEF Walked
<1>10. ASSUME InitValidate(i) PROVE OnlyInv(i)'
  <2>1. pc[i] = "validate" /\ UNCHANGED db
    BY <1>10 DEF InitValidate, storeVars
  <2>2. OwnMove(i, "open")
    BY <1>10 DEF InitValidate, OwnMove, Go, graphVars, ackVars, envVars
  <2> QED
    BY <2>1, <2>2, BeforeTheWalk DEF Walked, Late, GraphLabels
<1> QED
  BY <1>4, <1>5, <1>6, <1>7, <1>8, <1>9, <1>10

LEMMA OwnGraphStep ==
    ASSUME InitialisedOnce, TypeOK, Engaged, LockDiscipline, NEW i \in Inits, OnlyInv(i),
           GraphStep(i)
    PROVE  OnlyInv(i)'
<1>1. i \in Task
  BY DEF Task
<1>2. /\ files \in [Task -> SUBSET Sources] /\ snap \in [Task -> Rows] /\ db \in Rows
      /\ graph \in [Inits -> Rows \cup {NoGraph}]
  BY DEF TypeOK, WorkTypes, StoreTypes, GraphTypes
<1>3. pc[i] \in GraphLabels
  BY DEF GraphStep, GraphOpen, GraphSwap, WalkGuard, WalkOpen, WalkSchema, WalkFile, WalkSwap,
         GraphLabels
<1>4. cur[i] = i
  BY <1>1, <1>3, OnlyOne, LabelSets DEF GraphLabels
<1>5. pc[i] # "idle" /\ pc[i] # "done" /\ pc[i] # "swap" /\ ~poisoned[i]
  BY <1>3 DEF GraphLabels, OnlyInv, Undisturbed
<1>6. pc[i] \notin Walked => NoSymbols(db)
  BY <1>5 DEF OnlyInv, Undisturbed
<1>7. Below(i) \subseteq Sources /\ Below(i) \subseteq Row
  BY DEF Below, Row
<1>8. CASE GraphOpen(i)
  <2>1. pc[i] = "open" /\ UNCHANGED db
    BY <1>8 DEF GraphOpen, storeVars
  <2>2. NoSymbols(Load(i))
    BY <1>6, <2>1 DEF Walked, NoSymbols, Load, Blank
  <2>3. OwnMove(i, "walkGuard") \/ OwnMove(i, "done")
    BY <1>4, <1>8, <2>2 DEF GraphOpen, GraphErr, OwnMove, Go, Finish, Reply, graphVars, envVars
  <2> QED
    BY <1>5, <2>1, <2>3, OwnMoveKeeps, BeforeTheWalk DEF Walked, Late, GraphLabels
<1>9. CASE GraphSwap(i)
  BY <1>5, <1>9 DEF GraphSwap
<1>10. CASE WalkGuard(i)
  <2>1. pc[i] = "walkGuard" /\ UNCHANGED db
    BY <1>10 DEF WalkGuard, storeVars
  <2>2. OwnMove(i, "walkOpen")
    BY <1>10 DEF WalkGuard, OwnMove, Go, graphVars, ackVars, envVars
  <2> QED
    BY <2>1, <2>2, BeforeTheWalk DEF Walked, Late, GraphLabels
<1>11. ASSUME WalkFrom(i), OwnMove(i, "walk"), UNCHANGED db PROVE OnlyInv(i)'
  <2>1. OnlyCall(i)' /\ Undisturbed(i)' /\ pc'[i] = "walk"
    BY <1>5, <1>11, OwnMoveKeeps DEF Walked, Late, GraphLabels
  <2>2. files'[i] = Below(i)
    BY <1>1, <1>2, <1>4, <1>11 DEF WalkFrom, Below
  <2>3. \A f \in Below(i) : Unedited(i, f)' => f \in files'[i]
    BY <1>11, <2>2 DEF Unedited, OwnMove
  <2> QED
    BY <2>1, <2>3 DEF OnlyInv, Indexing, Below
<1>12. CASE WalkOpen(i)
  <2>1. pc[i] = "walkOpen" /\ UNCHANGED db
    BY <1>12 DEF WalkOpen, CreateFile, OpenReady, OpenFails, storeVars
  <2>2. \/ OwnMove(i, "walkSchema") \/ OwnMove(i, "done")
        \/ OwnMove(i, "walk") /\ WalkFrom(i)
    BY <1>12 DEF WalkOpen, OwnMove, Go, Finish, Reply, graphVars, envVars, ackVars
  <2> QED
    BY <1>5, <1>11, <2>1, <2>2, OwnMoveKeeps, BeforeTheWalk DEF Walked, Late, GraphLabels
<1>13. CASE WalkSchema(i)
  <2>1. UNCHANGED db /\ OwnMove(i, "walk") /\ WalkFrom(i)
    BY <1>13 DEF WalkSchema, CreateTables, OwnMove, Go, graphVars, envVars, ackVars
  <2> QED
    BY <1>11, <2>1
<1>14. CASE WalkFile(i)
  <2> DEFINE Walking(f) == [ver |-> disk[f].ver, live |-> disk[f].st = "ok"]
  <2>1. pc[i] = "walk" /\ UNCHANGED <<poisoned, known, disk, sdkPc, lcSet, graph>>
    BY <1>14 DEF WalkFile, graphVars, envVars, ackVars
  <2>2. PICK f \in files[i] :
          \/ /\ db' = IF disk[f].st = "ok" THEN [db EXCEPT ![f] = Walking(f)] ELSE db
             /\ snap' = [snap EXCEPT ![i][f] = Walking(f)]
             /\ files' = [files EXCEPT ![i] = @ \ {f}]
             /\ UNCHANGED pc
          \/ Finish(i, "error")
    BY <1>14 DEF WalkFile
  <2>3. CASE Finish(i, "error")
    BY <1>5, <2>1, <2>3, OwnMoveKeeps DEF OwnMove, Finish, Reply, Late
  <2>4. CASE UNCHANGED pc /\ ~Finish(i, "error")
    <3>1. f \in Sources /\ f \in Row /\ f \in DOMAIN db /\ f \in DOMAIN snap[i]
      BY <1>1, <1>2 DEF Rows, Row
    <3>2. (disk[f].st = "ok" => db'[f] = Walking(f)) /\ \A g \in Row : g # f => db'[g] = db[g]
      BY <1>2, <2>2, <2>4, <3>1 DEF Rows
    <3>3. snap'[i][f] = Walking(f) /\ \A g \in Row : g # f => snap'[i][g] = snap[i][g]
      <4>1. snap[i] \in [Row -> RowVal]
        BY <1>1, <1>2 DEF Rows
      <4>2. snap' = [snap EXCEPT ![i] = [snap[i] EXCEPT ![f] = Walking(f)]]
        BY <2>2, <2>4
      <4>3. snap'[i] = [snap[i] EXCEPT ![f] = Walking(f)]
        BY <1>1, <1>2, <4>2
      <4> QED
        BY <3>1, <4>1, <4>3
    <3>4. files'[i] = files[i] \ {f}
      BY <1>1, <1>2, <2>2, <2>4
    <3>5. OnlyCall(i)' /\ Undisturbed(i)'
      BY <2>1, <2>4 DEF OnlyInv, OnlyCall, Undisturbed, Walked
    <3>6. ASSUME NEW g \in Below(i), Unedited(i, g)
          PROVE  g \in files'[i] \/ (snap'[i][g] = AsCalled(i, g) /\ db'[g] = AsCalled(i, g))
      <4>1. CASE g = f
        <5>1. disk[g] = [ver |-> known[i][g], st |-> "ok"]
          BY <3>6 DEF Unedited
        <5>2. disk[f].ver = known[i][g] /\ disk[f].st = "ok"
          BY <4>1, <5>1
        <5> QED
          BY <3>2, <3>3, <4>1, <5>2 DEF AsCalled
      <4>2. CASE g # f
        BY <1>7, <2>1, <3>2, <3>3, <3>4, <3>6, <4>2 DEF OnlyInv, Indexing
      <4> QED
        BY <4>1, <4>2
    <3>7. Indexing(i)'
      BY <2>1, <2>4, <3>6 DEF Indexing, Unedited, AsCalled, Below, Walked
    <3> QED
      BY <3>5, <3>7 DEF OnlyInv
  <2> QED
    BY <2>2, <2>3, <2>4
<1>15. CASE WalkSwap(i)
  <2>1. /\ pc[i] = "walk" /\ files[i] = {} /\ UNCHANGED db
        /\ graph' = [graph EXCEPT ![i] = snap[i]]
    BY <1>4, <1>5, <1>15 DEF WalkSwap, storeVars
  <2>2. OwnMove(i, "resolve")
    BY <1>15 DEF WalkSwap, GraphOk, OwnMove, Go, envVars
  <2>3. OnlyCall(i)' /\ Undisturbed(i)' /\ pc'[i] = "resolve"
    BY <1>5, <2>2, OwnMoveKeeps DEF Walked, Late
  <2>4. graph'[i] = snap[i] /\ snap[i] \in Rows
    BY <1>1, <1>2, <2>1
  <2>5. \A f \in Below(i) : Unedited(i, f) => snap[i][f] = AsCalled(i, f) /\ db[f] = AsCalled(i, f)
    BY <2>1 DEF OnlyInv, Indexing
  <2>6. Indexing(i)'
    BY <2>1, <2>2, <2>3, <2>4, <2>5, NoGraphIsNone DEF Indexing, Unedited, AsCalled, Below, OwnMove
  <2> QED
    BY <2>3, <2>6 DEF OnlyInv
<1> QED
  BY <1>8, <1>9, <1>10, <1>12, <1>13, <1>14, <1>15 DEF GraphStep

LEMMA OwnLateStep ==
    ASSUME InitialisedOnce, TypeOK, Engaged, LockDiscipline, NEW i \in Inits, OnlyInv(i)
    PROVE  /\ InitResolve(i) => OnlyInv(i)'
           /\ InitJoin(i) => OnlyInv(i)'
           /\ InitDeps(i) => OnlyInv(i)'
           /\ InitLoad(i) => OnlyInv(i)'
<1>1. Below(i) \subseteq Sources /\ Below(i) \subseteq Row /\ Below(i) \cap Deps = {}
  BY RowsDistinct DEF Below, Row
<1>2. ASSUME NEW label \in {"join", "deps", "load"}, OwnMove(i, label),
             pc[i] \in {"resolve", "join", "deps"}, UNCHANGED graph,
             \A f \in Sources : db'[f] = db[f]
      PROVE  OnlyInv(i)'
  <2>1. OnlyCall(i)' /\ Undisturbed(i)' /\ pc'[i] = label
    BY <1>2, OwnMoveKeeps DEF Walked, Late
  <2>2. Indexing(i)'
    BY <1>1, <1>2, <2>1 DEF OnlyInv, Indexing, OwnMove, Unedited, AsCalled, Below, Walked
  <2> QED
    BY <2>1, <2>2 DEF OnlyInv
<1>3. ASSUME OwnMove(i, "done"), pc[i] \in {"resolve", "deps", "load"}
      PROVE  OnlyInv(i)'
  BY <1>3, OwnMoveKeeps DEF Late
<1>4. ASSUME InitResolve(i) PROVE OnlyInv(i)'
  <2>1. pc[i] = "resolve" /\ UNCHANGED <<graph, db>>
    BY <1>4 DEF InitResolve, graphVars, storeVars
  <2>2. OwnMove(i, "done") \/ OwnMove(i, "join")
    BY <1>4 DEF InitResolve, OwnMove, Go, Finish, Reply, graphVars, ackVars, envVars
  <2> QED
    BY <1>2, <1>3, <2>1, <2>2
<1>5. ASSUME InitJoin(i) PROVE OnlyInv(i)'
  <2>1. pc[i] = "join" /\ UNCHANGED <<graph, db>>
    BY <1>5 DEF InitJoin, graphVars, storeVars
  <2>2. OwnMove(i, "deps")
    BY <1>5 DEF InitJoin, OwnMove, Go, graphVars, ackVars, envVars
  <2> QED
    BY <1>2, <2>1, <2>2
<1>6. ASSUME InitDeps(i) PROVE OnlyInv(i)'
  <2>1. pc[i] = "deps" /\ UNCHANGED graph
    BY <1>6 DEF InitDeps, graphVars
  <2>2. PICK rows \in SUBSET Deps : db' = StoreDeps(rows)
    BY <1>6 DEF InitDeps
  <2>3. \A f \in Sources : db'[f] = db[f]
    BY <2>2, RowsDistinct DEF StoreDeps, Row
  <2>4. OwnMove(i, "done") \/ OwnMove(i, "load")
    BY <1>6 DEF InitDeps, OwnMove, Go, Finish, Reply, graphVars, ackVars, envVars
  <2> QED
    BY <1>2, <1>3, <2>1, <2>3, <2>4
<1>7. ASSUME InitLoad(i) PROVE OnlyInv(i)'
  <2>1. pc[i] = "load" /\ OwnMove(i, "done")
    BY <1>7 DEF InitLoad, OwnMove, Finish, Reply, graphVars, ackVars, envVars
  <2> QED
    BY <1>3, <2>1
<1> QED
  BY <1>4, <1>5, <1>6, <1>7

LEMMA OnlyInvStep ==
    ASSUME InitialisedOnce, TypeOK, Engaged, LockDiscipline, NEW i \in Inits, OnlyInv(i), [Next]_vars
    PROVE  OnlyInv(i)'
<1>1. ASSUME NEW j \in Inits, InitCall(j) \/ InitStep(j) \/ SdkStep(j) PROVE OnlyInv(i)'
  <2>1. j = i
    BY DEF InitialisedOnce
  <2> QED
    BY <1>1, <2>1, OwnEarlyStep, OwnGraphStep, OwnLateStep, OtherStepAside DEF InitStep
<1>2. ASSUME NEW n \in Notifies, NotifyCall(n) \/ NotifyStep(n) PROVE OnlyInv(i)'
  BY <1>2, NotifyStepAside
<1>3. ASSUME NEW e \in Evals, EvalCall(e) \/ EvalStep(e) PROVE OnlyInv(i)'
  BY <1>3, EvalStepAside
<1>4. ASSUME (\E t \in Task : Cancel(t)) \/ (\E f \in Sources : Edit(f)) \/ Crash \/ Idle
             \/ UNCHANGED vars
      PROVE  OnlyInv(i)'
  BY <1>4, OtherStepAside DEF Idle
<1> QED
  BY <1>1, <1>2, <1>3, <1>4 DEF Next

LEMMA InitOnlyInv == Init => \A i \in Inits : OnlyInv(i)
<1> SUFFICES ASSUME Init, NEW i \in Inits PROVE OnlyInv(i)
  OBVIOUS
<1>1. i \in Task /\ Notifies \subseteq Task /\ Evals \subseteq Task
  BY DEF Task
<1>2. \A t \in Task : pc[t] = "idle"
  BY DEF Init
<1>3. OnlyCall(i)
  <2>1. \A f \in Sources : known[i][f] = 0 /\ disk[f].ver = 1
    BY <1>1 DEF Init, NoVersions
  <2> QED
    BY <1>1, <1>2, <2>1 DEF Init, Fresh, OnlyCall
<1>4. Undisturbed(i)
  <2>1. NoSymbols(db) /\ ~poisoned[i]
    BY DEF Init, Fresh, Blank, NoSymbols
  <2> QED
    BY <1>1, <1>2, <2>1, LabelSets DEF Undisturbed
<1>5. Indexing(i)
  BY <1>1, <1>2 DEF Indexing, Walked
<1> QED
  BY <1>3, <1>4, <1>5 DEF OnlyInv

\* What is in the graph when an init is answered.
LEMMA OnlyAnswer ==
    ASSUME InitialisedOnce, TypeOK, Engaged, LockDiscipline, NEW i \in Inits, OnlyInv(i), [Next]_vars,
           Answers(i, "ok")
    PROVE  /\ cur[i] = i /\ pc[i] # "idle"
           /\ \A f \in Below(i) : Unedited(i, f) => graph'[i][f] = AsCalled(i, f)
<1>1. i \in Task /\ i \notin Notifies /\ i \notin Evals
  BY RequestsDistinct DEF Task
<1>2. pc \in [Task -> Labels] /\ resp \in [Task -> {"none", "ok", "error", "panic", "cancelled", "lost"}]
  BY DEF TypeOK, RequestTypes
<1>3. InitDeps(i) \/ InitLoad(i)
  <2>1. pc[i] # "done" /\ pc'[i] = "done" /\ resp'[i] = "ok"
    BY DEF Answers
  <2>2. Next
    BY <2>1 DEF vars, reqVars
  <2>3. ASSUME NEW j \in Inits, InitCall(j) \/ InitStep(j) \/ SdkStep(j) PROVE InitDeps(i) \/ InitLoad(i)
    <3>1. j = i
      BY DEF InitialisedOnce
    <3>2. ~InitCall(i) /\ ~InitReplace(i) /\ ~InitUnlock(i) /\ ~InitRelock(i) /\ ~InitValidate(i)
          /\ ~InitJoin(i) /\ ~SdkStep(i)
      BY <1>1, <1>2, <2>1, OtherStepAside
      DEF InitCall, InitReplace, InitUnlock, InitRelock, InitValidate, InitJoin, Go
    <3>3. ~InitConfig(i) /\ ~InitBind(i) /\ ~InitResolve(i)
      BY <1>1, <1>2, <2>1 DEF InitConfig, InitBind, InitResolve, Go, Finish, Reply
    <3>4. ~GraphStep(i)
      BY <1>1, <1>2, <2>1
      DEF GraphStep, GraphOpen, GraphSwap, WalkGuard, WalkOpen, WalkSchema, WalkFile, WalkSwap,
          GraphErr, GraphOk, Go, Finish, Reply
    <3> QED
      BY <2>3, <3>1, <3>2, <3>3, <3>4 DEF InitStep
  <2>4. ASSUME NEW n \in Notifies, NotifyCall(n) \/ NotifyStep(n) PROVE FALSE
    <3>1. n \in Task /\ n # i
      BY <1>1 DEF Task
    <3> QED
      BY <1>1, <1>2, <2>1, <2>4, <3>1
      DEF NotifyCall, NotifyStep, NotifyStart, NotifyType, NotifyOpen, NotifySchema, NotifyClean,
          NotifySkip, NotifyStore, GraphStep, GraphOpen, GraphSwap, WalkGuard, WalkOpen, WalkSchema, WalkFile,
          WalkSwap, GraphErr, GraphOk, Go, Finish, Reply
  <2>5. ASSUME NEW e \in Evals, EvalCall(e) \/ EvalStep(e) PROVE FALSE
    <3>1. e \in Task /\ e # i
      BY <1>1 DEF Task
    <3> QED
      BY <1>1, <1>2, <2>1, <2>5, <3>1
      DEF EvalCall, EvalStep, EvalStart, EvalType, EvalLock, EvalQuery, Go, Finish, Reply
  <2>6. ASSUME NEW t \in Task, Cancel(t) PROVE FALSE
    BY <1>1, <1>2, <2>1, <2>6 DEF Cancel, Reply
  <2>7. ASSUME NEW f \in Sources, Edit(f) PROVE FALSE
    BY <2>1, <2>7 DEF Edit, reqVars
  <2>8. ~Crash /\ ~Idle
    BY <1>1, <2>1 DEF Crash, Idle, vars, reqVars
  <2> QED
    BY <2>2, <2>3, <2>4, <2>5, <2>6, <2>7, <2>8 DEF Next
<1>4. pc[i] \in {"deps", "load"}
  BY <1>3 DEF InitDeps, InitLoad
<1>5. cur[i] = i
  BY <1>1, <1>4, OnlyOne, LabelSets
<1>6. Below(i) \subseteq Row /\ Below(i) = Sources \cap Under[InitLoc[i]]
  BY DEF Below, Row
<1>7. \A f \in Below(i) : Unedited(i, f) => graph[i][f] = AsCalled(i, f) /\ db[f] = AsCalled(i, f)
  BY <1>4 DEF OnlyInv, Indexing, Walked
<1>8. graph' = graph \/ graph' = [graph EXCEPT ![i] = Load(i)]
  BY <1>3, <1>5 DEF InitDeps, InitLoad, graphVars
<1>9. \A f \in Below(i) : Load(i)[f] = db[f]
  BY <1>6 DEF Load
<1>10. graph' = graph \/ graph'[i] = Load(i)
  BY <1>8 DEF TypeOK, GraphTypes
<1> QED
  BY <1>4, <1>5, <1>7, <1>9, <1>10

\* project.rs:270-311, loader.rs:281-325: when a provider is initialised once and no SDK is
\* loaded, its answered init has each source file that nobody has touched since the call as
\* it is on disk, whatever fails or is called meanwhile.  (The run stale_cache shows what a
\* second init misses.)
THEOREM OnlyInitServesDisk == ASSUME InitialisedOnce PROVE Spec => InitServesDisk
<1> DEFINE Inv == TypeOK /\ Engaged /\ LockDiscipline /\ \A i \in Inits : OnlyInv(i)
<1>1. Init => Inv
  BY InitTypes, InitEngaged, InitLocks, InitOnlyInv
<1>2. Inv /\ [Next]_vars => Inv'
  BY TypesStep, LocksStep, OnlyInvStep
<1>3. Inv /\ [Next]_vars => (\A i \in Inits : Answers(i, "ok") =>
          \A f \in Below(cur[i]) :
             disk[f] = [ver |-> known[i][f], st |-> "ok"] =>
                graph'[cur[i]][f] = [ver |-> known[i][f], live |-> TRUE])
  BY OnlyAnswer DEF Unedited, AsCalled
<1> QED
  BY <1>1, <1>2, <1>3, PTL DEF Spec, InitServesDisk
=============================================================================
