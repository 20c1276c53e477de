--------------------------- MODULE ProviderProofs ---------------------------
(***************************************************************************)
(* Theorems about Provider.tla, for any set of requests, files, locations  *)
(* and faults, and any bounds.                                             *)
(***************************************************************************)
EXTENDS ProviderProps, SequenceTheorems, TLAPS

-----------------------------------------------------------------------------
\* The locks: what the operators of FifoMutex preserve, whatever the set of tasks.

\* csharp.rs:57-60: whatever is done to a lock, its owner and its waiters are tasks.
THEOREM LockTypes ==
    ASSUME NEW T, Nobody \notin T, NEW m \in Mutex(T), NEW t \in T
    PROVE  Acquire(m, t) \in Mutex(T) /\ Release(m) \in Mutex(T) /\ Abandon(m, t) \in Mutex(T)
<1>1. /\ m = [owner |-> m.owner, queue |-> m.queue]
      /\ m.owner \in T \cup {Nobody} /\ m.queue \in Seq(T)
  BY DEF Mutex
<1>2. Acquire(m, t) \in Mutex(T)
  <2>1. Append(m.queue, t) \in Seq(T)
    BY <1>1, AppendProperties
  <2> QED  BY <1>1, <2>1 DEF Acquire, Mutex
<1>3. Release(m) \in Mutex(T)
  <2>1. CASE m.queue = <<>>
    BY <2>1, EmptySeq DEF Release, Unlocked, Mutex
  <2>2. CASE m.queue # <<>>
    BY <1>1, <2>2, HeadTailProperties DEF Release, Mutex
  <2> QED  BY <2>1, <2>2
<1>4. Abandon(m, t) \in Mutex(T)
  <2>1. CASE m.owner # t /\ \E k \in DOMAIN m.queue : m.queue[k] = t
    <3>1. PICK k \in DOMAIN m.queue :
             Abandon(m, t) = [m EXCEPT !.queue =
                   SubSeq(@, 1, k - 1) \o SubSeq(@, k + 1, Len(@))]
      BY <2>1 DEF Abandon
    <3> DEFINE n == Len(m.queue)
    <3>2. n \in Nat /\ k \in 1 .. n /\ \A j \in 1 .. n : m.queue[j] \in T
      BY <1>1, LenProperties, ElementOfSeq
    <3>3. SubSeq(m.queue, 1, k - 1) \in Seq(T)
      <4>1. 1 \in Int /\ k - 1 \in Int /\ \A j \in 1 .. k - 1 : m.queue[j] \in T
        BY <3>2
      <4> QED  BY <4>1, SubSeqProperties
    <3>4. SubSeq(m.queue, k + 1, n) \in Seq(T)
      <4>1. k + 1 \in Int /\ n \in Int /\ \A j \in k + 1 .. n : m.queue[j] \in T
        BY <3>2
      <4> HIDE DEF n
      <4> QED  BY <4>1, SubSeqProperties
    <3>5. SubSeq(m.queue, 1, k - 1) \o SubSeq(m.queue, k + 1, n) \in Seq(T)
      BY <3>3, <3>4, ConcatProperties
    <3> QED  BY <1>1, <3>1, <3>5 DEF Mutex
  <2>2. CASE m.owner = t
    BY <1>3, <2>2 DEF Abandon
  <2>3. CASE m.owner # t /\ ~ \E k \in DOMAIN m.queue : m.queue[k] = t
    BY <2>3 DEF Abandon
  <2> QED  BY <2>1, <2>2, <2>3
<1> QED  BY <1>2, <1>3, <1>4

\* csharp.rs:101, 120, 125: asking for a lock keeps it well formed; only the one who
\* asks can become its owner or a waiter.
THEOREM AcquireKeeps ==
    ASSUME NEW T, NEW m \in Mutex(T), NEW t \in T, t # Nobody,
           Ordered(m), t # m.owner, t \notin Waiters(m)
    PROVE  /\ Acquire(m, t) \in Mutex(T)
           /\ Ordered(Acquire(m, t))
           /\ Acquire(m, t).owner = IF m.owner = Nobody THEN t ELSE m.owner
           /\ Waiters(Acquire(m, t)) \subseteq Waiters(m) \cup {t}
<1>1. /\ m = [owner |-> m.owner, queue |-> m.queue]
      /\ m.owner \in T \cup {Nobody} /\ m.queue \in Seq(T)
  BY DEF Mutex
<1>2. CASE m.owner = Nobody
  <2>1. m.queue = <<>>
    BY <1>2 DEF Ordered
  <2>2. Acquire(m, t) = [owner |-> t, queue |-> <<>>]
    BY <1>1, <1>2, <2>1 DEF Acquire
  <2>3. <<>> \in Seq(T) /\ \A k \in DOMAIN <<>> : FALSE
    BY EmptySeq, LenProperties
  <2>4. Waiters(Acquire(m, t)) = {}
    BY <2>2, <2>3 DEF Waiters
  <2>5. Acquire(m, t) \in Mutex(T) /\ Ordered(Acquire(m, t)) /\ Acquire(m, t).owner = t
    BY <2>2, <2>3, <2>4 DEF Mutex, Ordered
  <2> QED  BY <1>2, <2>4, <2>5
<1>3. CASE m.owner # Nobody
  <2> DEFINE q == Append(m.queue, t)
  <2>1. Acquire(m, t) = [owner |-> m.owner, queue |-> q]
    BY <1>1, <1>3 DEF Acquire
  <2>2. /\ q \in Seq(T) /\ Len(q) = Len(m.queue) + 1 /\ Len(m.queue) \in Nat
        /\ DOMAIN q = 1 .. Len(q) /\ DOMAIN m.queue = 1 .. Len(m.queue)
        /\ \A k \in DOMAIN m.queue : q[k] = m.queue[k]
        /\ q[Len(q)] = t
    BY <1>1, AppendProperties, LenProperties
  <2>3. \A k \in DOMAIN q : k = Len(q) \/ k \in DOMAIN m.queue
    BY <2>2
  <2>4. Waiters(Acquire(m, t)) \subseteq Waiters(m) \cup {t}
    BY <2>1, <2>2, <2>3 DEF Waiters
  <2>5. ASSUME NEW j \in DOMAIN q, NEW k \in DOMAIN q, q[j] = q[k]  PROVE j = k
    <3>1. \A l \in DOMAIN m.queue : m.queue[l] # t
      BY DEF Waiters
    <3> QED  BY <2>2, <2>3, <2>5, <3>1 DEF Ordered
  <2>6. Acquire(m, t).owner = m.owner /\ Acquire(m, t).queue = q
    BY <2>1
  <2>7. m.owner \notin Waiters(Acquire(m, t))
    BY <2>4 DEF Ordered
  <2> HIDE DEF q
  <2>8. Ordered(Acquire(m, t))
    BY <1>3, <2>5, <2>6, <2>7 DEF Ordered
  <2>9. Acquire(m, t) \in Mutex(T)
    BY <1>1, <2>1, <2>2 DEF Mutex
  <2> QED  BY <1>3, <2>4, <2>6, <2>8, <2>9
<1> QED  BY <1>2, <1>3

\* csharp.rs:122, 123, 380: a released lock goes to one of its waiters, who waits no
\* longer, or to nobody.
THEOREM ReleaseKeeps ==
    ASSUME NEW T, Nobody \notin T, NEW m \in Mutex(T), Ordered(m)
    PROVE  /\ Release(m) \in Mutex(T)
           /\ Ordered(Release(m))
           /\ Release(m).owner \in Waiters(m) \cup {Nobody}
           /\ m.owner # Nobody => Release(m).owner # m.owner
           /\ Waiters(Release(m)) \subseteq Waiters(m)
<1>1. m.owner \in T \cup {Nobody} /\ m.queue \in Seq(T)
  BY DEF Mutex
<1>2. CASE m.queue = <<>>
  <2>1. <<>> \in Seq(T) /\ \A k \in DOMAIN <<>> : FALSE
    BY EmptySeq, LenProperties
  <2>2. Release(m) = [owner |-> Nobody, queue |-> <<>>]
    BY <1>2 DEF Release, Unlocked
  <2>3. Waiters(Release(m)) = {}
    BY <2>1, <2>2 DEF Waiters
  <2>4. Release(m) \in Mutex(T) /\ Ordered(Release(m)) /\ Release(m).owner = Nobody
    BY <2>1, <2>2, <2>3 DEF Mutex, Ordered
  <2> QED  BY <2>3, <2>4
<1>3. CASE m.queue # <<>>
  <2> DEFINE q == Tail(m.queue)
  <2>1. Release(m) = [owner |-> Head(m.queue), queue |-> q]
    BY <1>3 DEF Release
  <2>2. /\ Len(m.queue) \in Nat \ {0} /\ DOMAIN m.queue = 1 .. Len(m.queue)
        /\ q \in Seq(T) /\ Len(q) = Len(m.queue) - 1 /\ DOMAIN q = 1 .. Len(q)
        /\ \A k \in DOMAIN q : q[k] = m.queue[k + 1]
        /\ Head(m.queue) \in T /\ Head(m.queue) = m.queue[1]
    BY <1>1, <1>3, HeadTailProperties, LenProperties, EmptySeq, ElementOfSeq
  <2>3. 1 \in DOMAIN m.queue /\ \A k \in DOMAIN q : k + 1 \in DOMAIN m.queue /\ k + 1 # 1
    BY <2>2
  <2>4. Waiters(Release(m)) \subseteq Waiters(m)
    BY <2>1, <2>2, <2>3 DEF Waiters
  <2>5. Head(m.queue) \in Waiters(m) /\ Head(m.queue) \notin Waiters(Release(m))
    <3>1. \A k \in DOMAIN q : q[k] # m.queue[1]
      BY <2>2, <2>3 DEF Ordered
    <3> QED  BY <2>1, <2>2, <2>3, <3>1 DEF Waiters
  <2>6. ASSUME NEW j \in DOMAIN q, NEW k \in DOMAIN q, q[j] = q[k]  PROVE j = k
    <3>1. m.queue[j + 1] = m.queue[k + 1]
      BY <2>2, <2>6
    <3>2. j + 1 = k + 1
      BY <2>3, <3>1 DEF Ordered
    <3> QED  BY <2>2, <3>2
  <2>7. Release(m).owner = Head(m.queue) /\ Release(m).queue = q
    BY <2>1
  <2>8. Head(m.queue) # m.owner /\ Head(m.queue) # Nobody
    BY <2>2, <2>5 DEF Ordered
  <2>9. Release(m) \in Mutex(T)
    BY <2>1, <2>2 DEF Mutex
  <2> HIDE DEF q
  <2>10. Ordered(Release(m))
    BY <2>5, <2>6, <2>7, <2>8 DEF Ordered
  <2> QED  BY <2>4, <2>5, <2>7, <2>8, <2>9, <2>10
<1> QED  BY <1>2, <1>3

\* A cancelled handler leaves the lock (csharp.rs:101, 120, 125, 356, 562) as if it
\* had never asked for it: it neither owns it nor waits for it.
THEOREM AbandonKeeps ==
    ASSUME NEW T, Nobody \notin T, NEW m \in Mutex(T), NEW t \in T, Ordered(m)
    PROVE  /\ Abandon(m, t) \in Mutex(T)
           /\ Ordered(Abandon(m, t))
           /\ Abandon(m, t).owner # t
           /\ IF m.owner = t THEN Abandon(m, t).owner \in Waiters(m) \cup {Nobody}
                             ELSE Abandon(m, t).owner = m.owner
           /\ Waiters(Abandon(m, t)) \subseteq Waiters(m) \ {t}
<1>1. /\ m = [owner |-> m.owner, queue |-> m.queue]
      /\ m.owner \in T \cup {Nobody} /\ m.queue \in Seq(T)
  BY DEF Mutex
<1>2. CASE m.owner = t
  <2>1. t # Nobody /\ t \notin Waiters(m)
    BY <1>2 DEF Ordered
  <2> QED  BY <1>2, <2>1, ReleaseKeeps DEF Abandon
<1>3. CASE m.owner # t /\ \E k \in DOMAIN m.queue : m.queue[k] = t
  <2>1. PICK k \in DOMAIN m.queue :
            /\ m.queue[k] = t
            /\ Abandon(m, t) = [m EXCEPT !.queue =
                   SubSeq(@, 1, k - 1) \o SubSeq(@, k + 1, Len(@))]
    BY <1>3 DEF Abandon
  <2> DEFINE s == SubSeq(m.queue, 1, k - 1)
             u == SubSeq(m.queue, k + 1, Len(m.queue))
             q == s \o u
             n == Len(m.queue)
             old(j) == IF j < k THEN j ELSE j + 1
  <2>2. n \in Nat /\ k \in 1 .. n /\ DOMAIN m.queue = 1 .. n
        /\ \A j \in 1 .. n : m.queue[j] \in T
    BY <1>1, LenProperties, ElementOfSeq
  <2>3. s \in Seq(T) /\ Len(s) = k - 1 /\ \A j \in 1 .. k - 1 : s[j] = m.queue[j]
    <3>1. \A j \in 1 .. k - 1 : m.queue[j] \in T
      BY <2>2
    <3>2. 1 \in Int /\ k - 1 \in Int
      BY <2>2
    <3> QED  BY <2>2, <3>1, <3>2, SubSeqProperties
  <2>4. u \in Seq(T) /\ Len(u) = n - k /\ \A j \in 1 .. n - k : u[j] = m.queue[j + k]
    <3>1. \A j \in k + 1 .. n : m.queue[j] \in T
      BY <2>2
    <3>2. k + 1 \in Int /\ n \in Int
      BY <2>2
    <3> HIDE DEF n
    <3>3. /\ SubSeq(m.queue, k + 1, n) \in Seq(T)
          /\ Len(SubSeq(m.queue, k + 1, n)) = IF k + 1 <= n THEN n - (k + 1) + 1 ELSE 0
          /\ \A j \in 1 .. n - (k + 1) + 1 :
                SubSeq(m.queue, k + 1, n)[j] = m.queue[(k + 1) + j - 1]
      BY <3>1, <3>2, SubSeqProperties
    <3> USE DEF n
    <3> QED  BY <2>2, <3>3
  <2> HIDE DEF s, u, n
  <2>5. q \in Seq(T) /\ Len(q) = n - 1 /\ DOMAIN q = 1 .. n - 1
    <3>1. q \in Seq(T) /\ Len(q) = Len(s) + Len(u)
      BY <2>3, <2>4, ConcatProperties
    <3>2. Len(s) + Len(u) = n - 1
      BY <2>2, <2>3, <2>4
    <3> HIDE DEF q
    <3> QED  BY <3>1, <3>2, LenProperties
  <2>6. \A j \in 1 .. n - 1 : q[j] = m.queue[old(j)]
    <3>1. \A j \in 1 .. Len(s) + Len(u) :
             q[j] = IF j <= Len(s) THEN s[j] ELSE u[j - Len(s)]
      BY <2>3, <2>4, ConcatProperties
    <3> HIDE DEF q
    <3>2. ASSUME NEW j \in 1 .. n - 1  PROVE q[j] = m.queue[old(j)]
      <4>1. j \in 1 .. Len(s) + Len(u)
        BY <2>2, <2>3, <2>4
      <4>2. CASE j < k
        BY <2>2, <2>3, <3>1, <4>1, <4>2
      <4>3. CASE ~(j < k)
        <5>1. j - Len(s) \in 1 .. n - k /\ (j - Len(s)) + k = j + 1
          BY <2>2, <2>3, <4>3
        <5>2. q[j] = u[j - Len(s)]
          BY <2>2, <2>3, <3>1, <4>1, <4>3
        <5> QED  BY <2>4, <4>3, <5>1, <5>2
      <4> QED  BY <4>2, <4>3
    <3> QED  BY <3>2
  <2>7. \A j \in DOMAIN q : old(j) \in DOMAIN m.queue \ {k}
    BY <2>2, <2>5
  <2>8. \A j, l \in DOMAIN q : old(j) = old(l) => j = l
    BY <2>2, <2>5
  <2>9. Abandon(m, t) = [owner |-> m.owner, queue |-> q]
    BY <1>1, <2>1 DEF s, u, n
  <2> HIDE DEF q, old
  <2>10. Waiters(Abandon(m, t)) \subseteq Waiters(m) \ {t}
    <3>1. \A j \in DOMAIN q : q[j] \in Waiters(m)
      BY <2>5, <2>6, <2>7 DEF Waiters
    <3>2. \A j \in DOMAIN q : q[j] # t
      BY <2>1, <2>2, <2>5, <2>6, <2>7 DEF Ordered
    <3> QED  BY <2>9, <3>1, <3>2 DEF Waiters
  <2>11. \A j, l \in DOMAIN q : q[j] = q[l] => j = l
    BY <2>5, <2>6, <2>7, <2>8 DEF Ordered
  <2>12. m.owner # Nobody
    BY <2>2 DEF Ordered
  <2> QED  BY <1>1, <1>3, <2>5, <2>9, <2>10, <2>11, <2>12 DEF Mutex, Ordered
<1>4. CASE m.owner # t /\ ~ \E k \in DOMAIN m.queue : m.queue[k] = t
  BY <1>4 DEF Abandon, Waiters
<1> QED  BY <1>2, <1>3, <1>4

-----------------------------------------------------------------------------

USE RequestsDistinct, ConstantTypes, NoProjectIsNone, RowsDistinct, NoGraphIsNone

-----------------------------------------------------------------------------
(* Values that steps compute *)

LEMMA LabelsListed ==
    Labels = {"config", "project", "unlock", "relock", "bind", "validate", "resolve",
              "join", "deps", "load", "nOpen", "nSchema", "clean", "store", "graph",
              "query", "open", "swap", "walkGuard", "walkOpen", "walkSchema", "walk",
              "idle", "wait", "type", "done"}
BY DEF Labels, InitLabels, NotifyLabels, EvalLabels, GraphLabels

LEMMA RowUpdates ==
    /\ Blank \in Rows
    /\ \A v \in Version, l \in BOOLEAN : [ver |-> v, live |-> l] \in RowVal
    /\ \A rows \in Rows, v \in RowVal : \A r : [rows EXCEPT ![r] = v] \in Rows
    /\ \A rows \in Rows : \A r : [rows EXCEPT ![r].live = FALSE] \in Rows
    /\ 0 \in Version /\ 1 \in Version
<1>1. \A rows \in Rows, v \in RowVal : \A r : [rows EXCEPT ![r] = v] \in Rows
  BY DEF Rows
<1>2. ASSUME NEW rows \in Rows, NEW r  PROVE [rows EXCEPT ![r].live = FALSE] \in Rows
  <2>1. r \in Row => [rows[r] EXCEPT !.live = FALSE] \in RowVal
    BY DEF Rows, RowVal
  <2> QED  BY <2>1 DEF Rows
<1>3. /\ \A v \in Version, l \in BOOLEAN : [ver |-> v, live |-> l] \in RowVal
      /\ 0 \in Version /\ 1 \in Version
  BY DEF RowVal, Version
<1>4. Blank \in Rows
  BY <1>3 DEF Blank, Rows
<1> QED  BY <1>1, <1>2, <1>3, <1>4

LEMMA LockUpdates ==
    ASSUME ProviderTypes
    PROVE  /\ \A t \in Task : /\ Acquire(cfgLock, t) \in Mutex(Task)
                              /\ Abandon(cfgLock, t) \in Mutex(Task)
                              /\ Release(cfgLock) \in Mutex(Task)
                              /\ Acquire(projLock, t) \in Mutex(Task)
                              /\ Abandon(projLock, t) \in Mutex(Task)
                              /\ Release(projLock) \in Mutex(Task)
BY LockTypes DEF ProviderTypes

LEMMA LoadedRows ==
    ASSUME StoreTypes
    PROVE  (\A p : Load(p) \in Rows) /\ (\A rows : StoreDeps(rows) \in Rows)
<1>1. \A p : Load(p) \in Rows
  BY RowUpdates DEF Load, Rows, StoreTypes
<1>2. \A rows : StoreDeps(rows) \in Rows
  BY DEF StoreDeps, Rows, RowVal, Version, StoreTypes
<1> QED  BY <1>1, <1>2

LEMMA VersionsOnDisk ==
    ASSUME EnvTypes
    PROVE  /\ \A f \in Sources : disk[f].ver \in Version /\ disk[f].ver \in Nat
           /\ [f \in Sources |-> disk[f].ver] \in [Sources -> Version]
BY DEF EnvTypes, Content, Version

-----------------------------------------------------------------------------
(* Type correctness.  Types alone are not inductive: an evaluate reads the graph of
   its project, and a notification takes the head of its list. *)

Engaged ==
    /\ \A t \in Task : pc[t] \in Holding \cup EvalLabels => cur[t] \in Inits
    /\ \A n \in Notifies :
          /\ pc[n] = "idle" => todo[n] = Changed[n]
          /\ pc[n] \in {"wait", "type"} \cup NotifyLabels => todo[n] # <<>>

LEMMA InitTypes == Init => TypeOK
<1> SUFFICES ASSUME Init  PROVE TypeOK
  OBVIOUS
<1>1. Unlocked \in Mutex(Task)
  BY EmptySeq DEF Unlocked, Mutex
<1>2. disk \in [Sources -> Content]
  BY DEF Init, Content
<1>3. RequestTypes /\ WorkTypes
  BY RowUpdates, LabelsListed DEF Init, RequestTypes, WorkTypes
<1>4. ProviderTypes /\ ConfigTypes /\ GraphTypes /\ PathTypes
  BY <1>1 DEF Init, Fresh, ProviderTypes, ConfigTypes, GraphTypes, PathTypes
<1>5. LoaderTypes /\ StoreTypes /\ EnvTypes /\ AckTypes
  BY <1>2, RowUpdates DEF Init, LoaderTypes, StoreTypes, EnvTypes, AckTypes, NoVersions
<1> QED  BY <1>3, <1>4, <1>5 DEF TypeOK

\* What a step leaves alone keeps its type.
LEMMA UnchangedTypes ==
    ASSUME TypeOK
    PROVE  /\ UNCHANGED reqVars => RequestTypes'
           /\ UNCHANGED workVars => WorkTypes'
           /\ UNCHANGED provVars => ProviderTypes'
           /\ UNCHANGED lcVars => ConfigTypes'
           /\ UNCHANGED graphVars => GraphTypes'
           /\ UNCHANGED pathVars => PathTypes'
           /\ UNCHANGED sdkPc => LoaderTypes'
           /\ UNCHANGED storeVars => StoreTypes'
           /\ UNCHANGED envVars => EnvTypes'
           /\ UNCHANGED ackVars => AckTypes'
<1>1. /\ UNCHANGED reqVars => RequestTypes'
      /\ UNCHANGED workVars => WorkTypes'
      /\ UNCHANGED provVars => ProviderTypes'
      /\ UNCHANGED lcVars => ConfigTypes'
  BY DEF TypeOK, reqVars, workVars, provVars, lcVars, RequestTypes, WorkTypes,
         ProviderTypes, ConfigTypes
<1>2. /\ UNCHANGED graphVars => GraphTypes'
      /\ UNCHANGED pathVars => PathTypes'
      /\ UNCHANGED sdkPc => LoaderTypes'
  BY DEF TypeOK, graphVars, pathVars, GraphTypes, PathTypes, LoaderTypes
<1>3. /\ UNCHANGED storeVars => StoreTypes'
      /\ UNCHANGED envVars => EnvTypes'
      /\ UNCHANGED ackVars => AckTypes'
  BY DEF TypeOK, storeVars, envVars, ackVars, StoreTypes, EnvTypes, AckTypes
<1> QED  BY <1>1, <1>2, <1>3

\* What the shared steps of handlers assign.
ControlTypes ==
    /\ pc \in [Task -> Labels]
    /\ resp \in [Task -> {"none", "ok", "error", "panic", "cancelled", "lost"}]
GuardTypes == projLock \in Mutex(Task) /\ lcReaders \in [Inits -> SUBSET Task]
AckedType  == acked \in [Sources -> Version]

LEMMA SharedStepTypes ==
    ASSUME TypeOK, NEW t \in Task
    PROVE  /\ \A label \in Labels : Go(t, label) => ControlTypes'
           /\ \A a \in {"ok", "error", "panic", "cancelled"} :
                 /\ Reply(t, a) => ControlTypes'
                 /\ Finish(t, a) => ControlTypes' /\ GuardTypes'
           /\ UNCHANGED <<projLock, lcReaders>> => GuardTypes'
           /\ UNCHANGED <<pc, resp>> => ControlTypes'
           /\ UNCHANGED acked => AckedType'
<1>1. \A label \in Labels : Go(t, label) => ControlTypes'
  BY DEF TypeOK, RequestTypes, Go, ControlTypes
<1>2. \A a \in {"ok", "error", "panic", "cancelled"} : Reply(t, a) => ControlTypes'
  BY LabelsListed DEF TypeOK, RequestTypes, Reply, ControlTypes
<1>3. \A a : Finish(t, a) => GuardTypes'
  BY LockUpdates DEF TypeOK, ProviderTypes, ConfigTypes, Finish, GuardTypes
<1>4. /\ UNCHANGED <<projLock, lcReaders>> => GuardTypes'
      /\ UNCHANGED <<pc, resp>> => ControlTypes'
      /\ UNCHANGED acked => AckedType'
  BY DEF TypeOK, ProviderTypes, ConfigTypes, RequestTypes, AckTypes, ControlTypes,
         GuardTypes, AckedType
<1> QED  BY <1>1, <1>2, <1>3, <1>4 DEF Finish

LEMMA WalkFromTypes ==
    ASSUME TypeOK, NEW t \in Task
    PROVE  /\ WalkFrom(t) => files' \in [Task -> SUBSET Sources] /\ snap' \in [Task -> Rows]
           /\ UNCHANGED <<files, snap>> =>
                 files' \in [Task -> SUBSET Sources] /\ snap' \in [Task -> Rows]
<1> DEFINE below == Sources \cap Under[InitLoc[cur[t]]]
           rows  == [r \in Row |-> IF r \in below THEN [ver |-> disk[r].ver, live |-> FALSE]
                                   ELSE Blank[r]]
<1>1. below \in SUBSET Sources
  OBVIOUS
<1>2. rows \in Rows
  <2>1. \A r \in below : [ver |-> disk[r].ver, live |-> FALSE] \in RowVal
    <3>1. \A r \in below : disk[r].ver \in Version
      BY VersionsOnDisk DEF TypeOK
    <3> QED  BY <3>1, RowUpdates
  <2>2. \A r \in Row : Blank[r] \in RowVal
    BY RowUpdates DEF Rows
  <2> QED  BY <2>1, <2>2 DEF Rows
<1> HIDE DEF below, rows
<1>3. WalkFrom(t) => files' = [files EXCEPT ![t] = below] /\ snap' = [snap EXCEPT ![t] = rows]
  BY DEF WalkFrom, below, rows
<1>4. files \in [Task -> SUBSET Sources] /\ snap \in [Task -> Rows]
  BY DEF TypeOK, WorkTypes
<1>5. /\ [files EXCEPT ![t] = below] \in [Task -> SUBSET Sources]
      /\ [snap EXCEPT ![t] = rows] \in [Task -> Rows]
  BY <1>1, <1>2, <1>4
<1> QED  BY <1>3, <1>4, <1>5

LEMMA ShownTypes ==
    ASSUME TypeOK, NEW p \in Inits, graph[p] \in Rows
    PROVE  Shown(p) \in [Sources -> Version]
<1>1. \A f \in Sources : graph[p][f].ver \in Version /\ acked[f] \in Version
  BY DEF TypeOK, AckTypes, Rows, RowVal, Row
<1> QED  BY <1>1 DEF Shown

LEMMA GraphEndTypes ==
    ASSUME TypeOK, NEW t \in Inits \cup Notifies
    PROVE  GraphOk(t) \/ GraphErr(t) => ControlTypes' /\ GuardTypes' /\ AckedType'
<1>0. t \in Task
  BY DEF Task
<1>1. CASE GraphErr(t)
  BY <1>0, <1>1, SharedStepTypes DEF GraphErr
<1>2. CASE GraphOk(t) /\ t \in Inits
  <2>1. ControlTypes' /\ AckedType'
    BY <1>0, <1>2, SharedStepTypes, LabelsListed DEF GraphOk
  <2>2. GuardTypes'
    BY <1>2 DEF GraphOk, GuardTypes, TypeOK, ProviderTypes, ConfigTypes
  <2> QED  BY <2>1, <2>2
<1>3. CASE GraphOk(t) /\ t \notin Inits
  <2>1. ControlTypes' /\ GuardTypes'
    BY <1>0, <1>3, SharedStepTypes DEF GraphOk
  <2>2. \A f \in Sources : known[t][f] \in Version /\ acked[f] \in Version
    BY <1>0 DEF TypeOK, AckTypes
  <2>3. acked' = [f \in Sources |-> IF known[t][f] > acked[f] THEN known[t][f]
                                                            ELSE acked[f]]
    BY <1>3 DEF GraphOk
  <2>4. AckedType'
    BY <2>2, <2>3 DEF AckedType
  <2> QED  BY <2>1, <2>4
<1> QED  BY <1>1, <1>2, <1>3

LEMMA InitStepTypes ==
    ASSUME TypeOK, Engaged, NEW i \in Inits
    PROVE  /\ InitCall(i) => TypeOK'
           /\ InitConfig(i) => TypeOK'
           /\ InitReplace(i) => TypeOK'
           /\ InitUnlock(i) => TypeOK'
           /\ InitRelock(i) => TypeOK'
           /\ InitBind(i) => TypeOK'
           /\ InitValidate(i) => TypeOK'
           /\ InitResolve(i) => TypeOK'
           /\ InitJoin(i) => TypeOK'
           /\ InitDeps(i) => TypeOK'
           /\ InitLoad(i) => TypeOK'
           /\ SdkOpen(i) => TypeOK'
           /\ SdkSchema(i) => TypeOK'
           /\ SdkStore(i) => TypeOK'
           /\ SdkMark(i) => TypeOK'
<1>0. i \in Task
  BY DEF Task
<1>1. ASSUME InitCall(i)  PROVE TypeOK'
  <2>1. ControlTypes'
    BY <1>0, <1>1, SharedStepTypes, LabelsListed
    DEF InitCall, lcVars
  <2>2. RequestTypes'
    BY <1>0, <1>1, <2>1
    DEF InitCall, TypeOK, RequestTypes, ControlTypes
  <2>3. ProviderTypes'
    BY <1>0, <1>1, <2>1, LockUpdates
    DEF InitCall, TypeOK, ProviderTypes
  <2>4. AckTypes'
    BY <1>0, <1>1, <2>1, VersionsOnDisk
    DEF InitCall, TypeOK, AckTypes
  <2> QED  BY <1>1, <2>2, <2>3, <2>4, UnchangedTypes
    DEF InitCall, TypeOK
<1>2. ASSUME InitConfig(i)  PROVE TypeOK'
  <2>1. ControlTypes'
    BY <1>0, <1>2, SharedStepTypes, LabelsListed
    DEF InitConfig, lcVars, ackVars
  <2>2. RequestTypes'
    BY <1>0, <1>2, <2>1
    DEF InitConfig, TypeOK, RequestTypes, ControlTypes
  <2>3. ProviderTypes'
    BY <1>0, <1>2, <2>1, LockUpdates
    DEF InitConfig, TypeOK, ProviderTypes
  <2> QED  BY <1>2, <2>2, <2>3, UnchangedTypes
    DEF InitConfig, TypeOK
<1>3. ASSUME InitReplace(i)  PROVE TypeOK'
  <2>1. ControlTypes'
    BY <1>0, <1>3, SharedStepTypes, LabelsListed
    DEF InitReplace, lcVars, ackVars
  <2>2. RequestTypes'
    BY <1>0, <1>3, <2>1
    DEF InitReplace, TypeOK, RequestTypes, ControlTypes
  <2>3. ProviderTypes'
    BY <1>0, <1>3, <2>1, LockUpdates
    DEF InitReplace, TypeOK, ProviderTypes
  <2> QED  BY <1>3, <2>2, <2>3, UnchangedTypes
    DEF InitReplace, TypeOK
<1>4. ASSUME InitUnlock(i)  PROVE TypeOK'
  <2>1. ControlTypes'
    BY <1>0, <1>4, SharedStepTypes, LabelsListed
    DEF InitUnlock, lcVars, ackVars
  <2>2. RequestTypes'
    BY <1>0, <1>4, <2>1
    DEF InitUnlock, TypeOK, RequestTypes, ControlTypes
  <2>3. ProviderTypes'
    BY <1>0, <1>4, <2>1, LockUpdates
    DEF InitUnlock, TypeOK, ProviderTypes
  <2> QED  BY <1>4, <2>2, <2>3, UnchangedTypes
    DEF InitUnlock, TypeOK
<1>5. ASSUME InitRelock(i)  PROVE TypeOK'
  <2>1. ControlTypes'
    BY <1>0, <1>5, SharedStepTypes, LabelsListed
    DEF InitRelock, lcVars, ackVars
  <2>2. RequestTypes'
    BY <1>0, <1>5, <2>1
    DEF InitRelock, TypeOK, RequestTypes, ControlTypes
  <2>3. ProviderTypes'
    BY <1>0, <1>5, <2>1, LockUpdates
    DEF InitRelock, TypeOK, ProviderTypes
  <2> QED  BY <1>5, <2>2, <2>3, UnchangedTypes
    DEF InitRelock, TypeOK
<1>6. ASSUME InitBind(i)  PROVE TypeOK'
  <2>1. ControlTypes' /\ GuardTypes'
    BY <1>0, <1>6, SharedStepTypes, LabelsListed
    DEF InitBind, ackVars
  <2>2. RequestTypes'
    BY <1>0, <1>6, <2>1
    DEF InitBind, TypeOK, ProviderTypes, RequestTypes, ControlTypes
  <2>3. ProviderTypes'
    BY <1>0, <1>6, <2>1, LockUpdates
    DEF InitBind, TypeOK, ProviderTypes, GuardTypes
  <2>4. ConfigTypes'
    BY <1>0, <1>6, <2>1
    DEF InitBind, TypeOK, ConfigTypes, GuardTypes
  <2>5. PathTypes'
    BY <1>0, <1>6, <2>1
    DEF InitBind, TypeOK, PathTypes
  <2>6. LoaderTypes'
    BY <1>0, <1>6, <2>1
    DEF InitBind, TypeOK, LoaderTypes
  <2> QED  BY <1>6, <2>2, <2>3, <2>4, <2>5, <2>6, UnchangedTypes
    DEF InitBind, TypeOK
<1>7. ASSUME InitValidate(i)  PROVE TypeOK'
  <2>1. ControlTypes'
    BY <1>0, <1>7, SharedStepTypes, LabelsListed
    DEF InitValidate, provVars, ackVars
  <2>2. RequestTypes'
    BY <1>0, <1>7, <2>1
    DEF InitValidate, TypeOK, RequestTypes, ControlTypes
  <2>3. ConfigTypes'
    BY <1>0, <1>7, <2>1
    DEF InitValidate, TypeOK, ConfigTypes
  <2> QED  BY <1>7, <2>2, <2>3, UnchangedTypes
    DEF InitValidate, TypeOK
<1>8. ASSUME InitResolve(i)  PROVE TypeOK'
  <2>1. ControlTypes' /\ GuardTypes'
    BY <1>0, <1>8, SharedStepTypes, LabelsListed
    DEF InitResolve, ackVars
  <2>2. RequestTypes'
    BY <1>0, <1>8, <2>1
    DEF InitResolve, TypeOK, RequestTypes, ControlTypes
  <2>3. ProviderTypes'
    BY <1>0, <1>8, <2>1, LockUpdates
    DEF InitResolve, TypeOK, ProviderTypes, GuardTypes
  <2>4. ConfigTypes'
    BY <1>0, <1>8, <2>1
    DEF InitResolve, TypeOK, ConfigTypes, GuardTypes
  <2>5. PathTypes'
    BY <1>0, <1>8, <2>1
    DEF InitResolve, TypeOK, PathTypes
  <2> QED  BY <1>8, <2>2, <2>3, <2>4, <2>5, UnchangedTypes
    DEF InitResolve, TypeOK
<1>9. ASSUME InitJoin(i)  PROVE TypeOK'
  <2>1. ControlTypes'
    BY <1>0, <1>9, SharedStepTypes, LabelsListed
    DEF InitJoin, provVars, lcVars, ackVars
  <2>2. RequestTypes'
    BY <1>0, <1>9, <2>1
    DEF InitJoin, TypeOK, RequestTypes, ControlTypes
  <2> QED  BY <1>9, <2>2, UnchangedTypes
    DEF InitJoin, TypeOK
<1>10. ASSUME InitDeps(i)  PROVE TypeOK'
  <2>1. ControlTypes' /\ GuardTypes'
    BY <1>0, <1>10, SharedStepTypes, LabelsListed
    DEF InitDeps, ackVars
  <2>2. RequestTypes'
    BY <1>0, <1>10, <2>1
    DEF InitDeps, TypeOK, RequestTypes, ControlTypes
  <2>3. ProviderTypes'
    BY <1>0, <1>10, <2>1, LockUpdates
    DEF InitDeps, TypeOK, ProviderTypes, GuardTypes
  <2>4. ConfigTypes'
    BY <1>0, <1>10, <2>1
    DEF InitDeps, TypeOK, ConfigTypes, GuardTypes
  <2>5. StoreTypes'
    BY <1>0, <1>10, <2>1, LoadedRows, RowUpdates, VersionsOnDisk
    DEF InitDeps, TypeOK, StoreTypes
  <2> QED  BY <1>10, <2>2, <2>3, <2>4, <2>5, UnchangedTypes
    DEF InitDeps, TypeOK
<1>11. ASSUME InitLoad(i)  PROVE TypeOK'
  <2>1. ControlTypes' /\ GuardTypes'
    BY <1>0, <1>11, SharedStepTypes, LabelsListed
    DEF InitLoad, ackVars
  <2>2. RequestTypes'
    BY <1>0, <1>11, <2>1
    DEF InitLoad, TypeOK, RequestTypes, ControlTypes
  <2>3. ProviderTypes'
    BY <1>0, <1>11, <2>1, LockUpdates
    DEF InitLoad, TypeOK, ProviderTypes, GuardTypes
  <2>4. ConfigTypes'
    BY <1>0, <1>11, <2>1
    DEF InitLoad, TypeOK, ConfigTypes, GuardTypes
  <2>5. GraphTypes'
    BY <1>0, <1>11, <2>1, LoadedRows, RowUpdates
    DEF InitLoad, TypeOK, GraphTypes
  <2> QED  BY <1>11, <2>2, <2>3, <2>4, <2>5, UnchangedTypes
    DEF InitLoad, TypeOK
<1>12. ASSUME SdkOpen(i)  PROVE TypeOK'
  <2>1. LoaderTypes'
    BY <1>0, <1>12
    DEF SdkOpen, TypeOK, LoaderTypes, CreateFile, OpenReady, OpenFails, SdkGo
  <2>2. StoreTypes'
    BY <1>0, <1>12
    DEF SdkOpen, storeVars, TypeOK, StoreTypes, CreateFile, OpenReady, OpenFails, SdkGo
  <2> QED  BY <1>12, <2>1, <2>2, UnchangedTypes
    DEF SdkOpen, TypeOK, SdkGo
<1>13. ASSUME SdkSchema(i)  PROVE TypeOK'
  <2>1. LoaderTypes'
    BY <1>0, <1>13
    DEF SdkSchema, TypeOK, LoaderTypes, CreateTables, SdkGo
  <2>2. StoreTypes'
    BY <1>0, <1>13, LoadedRows, RowUpdates, VersionsOnDisk
    DEF SdkSchema, TypeOK, StoreTypes, CreateTables, SdkGo
  <2> QED  BY <1>13, <2>1, <2>2, UnchangedTypes
    DEF SdkSchema, TypeOK, SdkGo
<1>14. ASSUME SdkStore(i)  PROVE TypeOK'
  <2>1. LoaderTypes'
    BY <1>0, <1>14
    DEF SdkStore, TypeOK, LoaderTypes, SdkGo
  <2>2. StoreTypes'
    <3>1. [db EXCEPT ![Sdk] = [ver |-> 1, live |-> TRUE]] \in Rows
      <4>1. [ver |-> 1, live |-> TRUE] \in RowVal
        BY RowUpdates
      <4> QED  BY <4>1 DEF TypeOK, StoreTypes, Rows
    <3> QED  BY <1>14, <3>1 DEF SdkStore, TypeOK, StoreTypes
  <2> QED  BY <1>14, <2>1, <2>2, UnchangedTypes
    DEF SdkStore, TypeOK, SdkGo
<1>15. ASSUME SdkMark(i)  PROVE TypeOK'
  <2>1. PathTypes'
    BY <1>0, <1>15
    DEF SdkMark, TypeOK, PathTypes, SdkGo
  <2>2. LoaderTypes'
    BY <1>0, <1>15
    DEF SdkMark, TypeOK, LoaderTypes, SdkGo
  <2> QED  BY <1>15, <2>1, <2>2, UnchangedTypes
    DEF SdkMark, TypeOK, SdkGo
<1> QED  BY <1>1, <1>2, <1>3, <1>4, <1>5, <1>6, <1>7, <1>8, <1>9, <1>10, <1>11, <1>12,
         <1>13, <1>14, <1>15

LEMMA GraphStepTypes ==
    ASSUME TypeOK, NEW t \in Inits \cup Notifies
    PROVE  /\ GraphOpen(t) => TypeOK'
           /\ GraphSwap(t) => TypeOK'
           /\ WalkGuard(t) => TypeOK'
           /\ WalkOpen(t) => TypeOK'
           /\ WalkSchema(t) => TypeOK'
           /\ WalkFile(t) => TypeOK'
           /\ WalkSwap(t) => TypeOK'
<1>0. t \in Task
  BY DEF Task
<1>1. ASSUME GraphOpen(t)  PROVE TypeOK'
  <2>1. ControlTypes' /\ GuardTypes' /\ AckedType'
    BY <1>0, <1>1, SharedStepTypes, GraphEndTypes, LabelsListed
    DEF GraphOpen
  <2>2. RequestTypes'
    BY <1>0, <1>1, <2>1
    DEF GraphOpen, TypeOK, RequestTypes, ControlTypes
  <2>3. WorkTypes'
    <3>1. snap' = snap \/ snap' = [snap EXCEPT ![t] = Load(cur[t])]
      BY <1>1 DEF GraphOpen
    <3>2. Load(cur[t]) \in Rows
      BY LoadedRows DEF TypeOK
    <3>3. snap' \in [Task -> Rows]
      BY <3>1, <3>2 DEF TypeOK, WorkTypes
    <3> QED  BY <1>1, <3>3 DEF GraphOpen, TypeOK, WorkTypes
  <2>4. ProviderTypes'
    BY <1>0, <1>1, <2>1, LockUpdates
    DEF GraphOpen, TypeOK, ProviderTypes, GuardTypes
  <2>5. ConfigTypes'
    BY <1>0, <1>1, <2>1
    DEF GraphOpen, TypeOK, ConfigTypes, GuardTypes
  <2>6. AckTypes'
    BY <1>0, <1>1, <2>1, VersionsOnDisk
    DEF GraphOpen, TypeOK, AckTypes, AckedType
  <2> QED  BY <1>1, <2>2, <2>3, <2>4, <2>5, <2>6, UnchangedTypes
    DEF GraphOpen, TypeOK
<1>2. ASSUME GraphSwap(t)  PROVE TypeOK'
  <2>1. ControlTypes' /\ GuardTypes' /\ AckedType'
    BY <1>0, <1>2, SharedStepTypes, GraphEndTypes, LabelsListed
    DEF GraphSwap
  <2>2. RequestTypes'
    BY <1>0, <1>2, <2>1
    DEF GraphSwap, TypeOK, RequestTypes, ControlTypes
  <2>3. ProviderTypes'
    BY <1>0, <1>2, <2>1, LockUpdates
    DEF GraphSwap, TypeOK, ProviderTypes, GuardTypes
  <2>4. ConfigTypes'
    BY <1>0, <1>2, <2>1
    DEF GraphSwap, TypeOK, ConfigTypes, GuardTypes
  <2>5. GraphTypes'
    <3>1. snap[t] \in Rows
      BY <1>0 DEF TypeOK, WorkTypes
    <3>2. graph' = [graph EXCEPT ![cur[t]] = snap[t]] \/ graph' = graph
      BY <1>2 DEF GraphSwap
    <3> QED  BY <1>2, <3>1, <3>2 DEF GraphSwap, TypeOK, GraphTypes
  <2>6. AckTypes'
    BY <1>0, <1>2, <2>1, VersionsOnDisk
    DEF GraphSwap, TypeOK, AckTypes, AckedType
  <2> QED  BY <1>2, <2>2, <2>3, <2>4, <2>5, <2>6, UnchangedTypes
    DEF GraphSwap, TypeOK
<1>3. ASSUME WalkGuard(t)  PROVE TypeOK'
  <2>1. ControlTypes'
    BY <1>0, <1>3, SharedStepTypes, LabelsListed
    DEF WalkGuard, provVars, ackVars
  <2>2. RequestTypes'
    BY <1>0, <1>3, <2>1
    DEF WalkGuard, TypeOK, RequestTypes, ControlTypes
  <2>3. ConfigTypes'
    BY <1>0, <1>3, <2>1
    DEF WalkGuard, TypeOK, ConfigTypes
  <2> QED  BY <1>3, <2>2, <2>3, UnchangedTypes
    DEF WalkGuard, TypeOK
<1>4. ASSUME WalkOpen(t)  PROVE TypeOK'
  <2>1. ControlTypes' /\ GuardTypes'
    BY <1>0, <1>4, SharedStepTypes, LabelsListed
    DEF WalkOpen, ackVars, CreateFile, OpenReady, OpenFails, WalkFrom
  <2>2. RequestTypes'
    BY <1>0, <1>4, <2>1
    DEF WalkOpen, TypeOK, RequestTypes, ControlTypes, CreateFile, OpenReady,
        OpenFails, WalkFrom
  <2>3. WorkTypes'
    BY <1>0, <1>4, WalkFromTypes
    DEF WalkOpen, TypeOK, WorkTypes
  <2>4. ProviderTypes'
    BY <1>0, <1>4, <2>1, LockUpdates
    DEF WalkOpen, TypeOK, ProviderTypes, GuardTypes, CreateFile, OpenReady, OpenFails,
        WalkFrom
  <2>5. ConfigTypes'
    BY <1>0, <1>4, <2>1
    DEF WalkOpen, TypeOK, ConfigTypes, GuardTypes, CreateFile, OpenReady, OpenFails,
        WalkFrom
  <2>6. StoreTypes'
    BY <1>0, <1>4, <2>1
    DEF WalkOpen, storeVars, TypeOK, StoreTypes, CreateFile, OpenReady, OpenFails, WalkFrom
  <2> QED  BY <1>4, <2>2, <2>3, <2>4, <2>5, <2>6, UnchangedTypes
    DEF WalkOpen, TypeOK
<1>5. ASSUME WalkSchema(t)  PROVE TypeOK'
  <2>1. ControlTypes'
    BY <1>0, <1>5, SharedStepTypes, LabelsListed
    DEF WalkSchema, provVars, lcVars, ackVars, CreateTables, WalkFrom
  <2>2. RequestTypes'
    BY <1>0, <1>5, <2>1
    DEF WalkSchema, TypeOK, RequestTypes, ControlTypes, CreateTables, WalkFrom
  <2>3. WorkTypes'
    BY <1>0, <1>5, WalkFromTypes
    DEF WalkSchema, TypeOK, WorkTypes
  <2>4. StoreTypes'
    BY <1>0, <1>5, <2>1, LoadedRows, RowUpdates, VersionsOnDisk
    DEF WalkSchema, TypeOK, StoreTypes, CreateTables, WalkFrom
  <2> QED  BY <1>5, <2>2, <2>3, <2>4, UnchangedTypes
    DEF WalkSchema, TypeOK
<1>6. ASSUME WalkFile(t)  PROVE TypeOK'
  <2>1. ControlTypes' /\ GuardTypes'
    BY <1>0, <1>6, SharedStepTypes, LabelsListed
    DEF WalkFile, ackVars
  <2>2. RequestTypes'
    BY <1>0, <1>6, <2>1
    DEF WalkFile, TypeOK, RequestTypes, ControlTypes
  <2>3. WorkTypes'
    <3>1. CASE UNCHANGED <<snap, files>>
      BY <1>6, <3>1 DEF WalkFile, TypeOK, WorkTypes
    <3>2. CASE ~UNCHANGED <<snap, files>>
      <4>1. PICK f \in files[t] :
               /\ snap' = [snap EXCEPT ![t][f] = [ver |-> disk[f].ver, live |-> disk[f].st = "ok"]]
               /\ files' = [files EXCEPT ![t] = @ \ {f}]
        BY <1>6, <3>2 DEF WalkFile
      <4>2. [ver |-> disk[f].ver, live |-> disk[f].st = "ok"] \in RowVal
        BY <1>0, VersionsOnDisk, RowUpdates DEF TypeOK, WorkTypes
      <4>3. [snap[t] EXCEPT ![f] = [ver |-> disk[f].ver, live |-> disk[f].st = "ok"]] \in Rows
        <5>1. snap[t] \in Rows
          BY <1>0 DEF TypeOK, WorkTypes
        <5> HIDE DEF RowVal
        <5> QED  BY <4>2, <5>1 DEF Rows
      <4> QED  BY <1>0, <1>6, <4>1, <4>3 DEF WalkFile, TypeOK, WorkTypes
    <3> QED  BY <3>1, <3>2
  <2>4. ProviderTypes'
    BY <1>0, <1>6, <2>1, LockUpdates
    DEF WalkFile, TypeOK, ProviderTypes, GuardTypes
  <2>5. ConfigTypes'
    BY <1>0, <1>6, <2>1
    DEF WalkFile, TypeOK, ConfigTypes, GuardTypes
  <2>6. StoreTypes'
    <3>1. CASE UNCHANGED db
      BY <1>6, <3>1 DEF WalkFile, TypeOK, StoreTypes
    <3>2. CASE ~UNCHANGED db
      <4>1. PICK f \in files[t] : db' = [db EXCEPT ![f] = [ver |-> disk[f].ver, live |-> TRUE]]
        BY <1>6, <3>2 DEF WalkFile
      <4>2. [ver |-> disk[f].ver, live |-> TRUE] \in RowVal
        BY <1>0, VersionsOnDisk, RowUpdates DEF TypeOK, WorkTypes
      <4>3. db' \in Rows
        BY <4>1, <4>2 DEF TypeOK, StoreTypes, Rows
      <4> QED  BY <1>6, <4>3 DEF WalkFile, TypeOK, StoreTypes
    <3> QED  BY <3>1, <3>2
  <2> QED  BY <1>6, <2>2, <2>3, <2>4, <2>5, <2>6, UnchangedTypes
    DEF WalkFile, TypeOK
<1>7. ASSUME WalkSwap(t)  PROVE TypeOK'
  <2>1. ControlTypes' /\ GuardTypes' /\ AckedType'
    BY <1>0, <1>7, GraphEndTypes, LabelsListed
    DEF WalkSwap
  <2>2. RequestTypes'
    BY <1>0, <1>7, <2>1
    DEF WalkSwap, TypeOK, RequestTypes, ControlTypes
  <2>3. ProviderTypes'
    BY <1>0, <1>7, <2>1, LockUpdates
    DEF WalkSwap, TypeOK, ProviderTypes, GuardTypes
  <2>4. ConfigTypes'
    BY <1>0, <1>7, <2>1
    DEF WalkSwap, TypeOK, ConfigTypes, GuardTypes
  <2>5. GraphTypes'
    <3>1. snap[t] \in Rows
      BY <1>0 DEF TypeOK, WorkTypes
    <3>2. graph' = [graph EXCEPT ![cur[t]] = snap[t]] \/ graph' = graph
      BY <1>7 DEF WalkSwap
    <3> QED  BY <1>7, <3>1, <3>2 DEF WalkSwap, TypeOK, GraphTypes
  <2>6. AckTypes'
    BY <1>0, <1>7, <2>1, VersionsOnDisk
    DEF WalkSwap, TypeOK, AckTypes, AckedType
  <2> QED  BY <1>7, <2>2, <2>3, <2>4, <2>5, <2>6, UnchangedTypes
    DEF WalkSwap, TypeOK
<1> QED  BY <1>1, <1>2, <1>3, <1>4, <1>5, <1>6, <1>7

LEMMA NotifyStepTypes ==
    ASSUME TypeOK, Engaged, NEW n \in Notifies
    PROVE  /\ NotifyCall(n) => TypeOK'
           /\ NotifyStart(n) => TypeOK'
           /\ NotifyType(n) => TypeOK'
           /\ NotifyOpen(n) => TypeOK'
           /\ NotifySchema(n) => TypeOK'
           /\ NotifyClean(n) => TypeOK'
           /\ NotifySkip(n) => TypeOK'
           /\ NotifyStore(n) => TypeOK'
<1>0. n \in Task
  BY DEF Task
<1>1. ASSUME NotifyCall(n)  PROVE TypeOK'
  <2>1. ControlTypes'
    BY <1>0, <1>1, SharedStepTypes, LabelsListed
    DEF NotifyCall, lcVars, ackVars
  <2>2. RequestTypes'
    BY <1>0, <1>1, <2>1
    DEF NotifyCall, TypeOK, RequestTypes, ControlTypes
  <2>3. ProviderTypes'
    BY <1>0, <1>1, <2>1, LockUpdates
    DEF NotifyCall, TypeOK, ProviderTypes
  <2> QED  BY <1>1, <2>2, <2>3, UnchangedTypes
    DEF NotifyCall, TypeOK
<1>2. ASSUME NotifyStart(n)  PROVE TypeOK'
  <2>1. ControlTypes' /\ GuardTypes'
    BY <1>0, <1>2, SharedStepTypes, LabelsListed
    DEF NotifyStart, ackVars
  <2>2. RequestTypes'
    BY <1>0, <1>2, <2>1
    DEF NotifyStart, TypeOK, ProviderTypes, RequestTypes, ControlTypes
  <2>3. ProviderTypes'
    BY <1>0, <1>2, <2>1, LockUpdates
    DEF NotifyStart, TypeOK, ProviderTypes, GuardTypes
  <2>4. ConfigTypes'
    BY <1>0, <1>2, <2>1
    DEF NotifyStart, TypeOK, ConfigTypes, GuardTypes
  <2> QED  BY <1>2, <2>2, <2>3, <2>4, UnchangedTypes
    DEF NotifyStart, TypeOK
<1>3. ASSUME NotifyType(n)  PROVE TypeOK'
  <2>1. ControlTypes' /\ GuardTypes'
    <3>1. ControlTypes'
      BY <1>0, <1>3, SharedStepTypes, LabelsListed DEF NotifyType
    <3>2. CASE Finish(n, "error")
      BY <1>0, <3>2, SharedStepTypes
    <3>3. CASE ~Finish(n, "error")
      <4>1. /\ projLock' = projLock
            /\ lcReaders' = [lcReaders EXCEPT ![cur[n]] = @ \cup {n}]
        BY <1>3, <3>3 DEF NotifyType
      <4>2. cur[n] \in Inits
        BY <1>0, <1>3 DEF NotifyType, Engaged, Holding
      <4>3. lcReaders[cur[n]] \cup {n} \in SUBSET Task
        BY <1>0, <4>2 DEF TypeOK, ConfigTypes
      <4>4. lcReaders' \in [Inits -> SUBSET Task]
        BY <4>1, <4>3 DEF TypeOK, ConfigTypes
      <4>5. projLock' \in Mutex(Task)
        BY <4>1 DEF TypeOK, ProviderTypes
      <4> QED  BY <3>1, <4>4, <4>5 DEF GuardTypes
    <3> QED  BY <3>1, <3>2, <3>3
  <2>2. RequestTypes'
    BY <1>0, <1>3, <2>1
    DEF NotifyType, TypeOK, RequestTypes, ControlTypes
  <2>3. ProviderTypes'
    BY <1>0, <1>3, <2>1, LockUpdates
    DEF NotifyType, TypeOK, ProviderTypes, GuardTypes
  <2>4. ConfigTypes'
    BY <1>0, <1>3, <2>1
    DEF NotifyType, TypeOK, ConfigTypes, GuardTypes
  <2> QED  BY <1>3, <2>2, <2>3, <2>4, UnchangedTypes
    DEF NotifyType, TypeOK
<1>4. ASSUME NotifyOpen(n)  PROVE TypeOK'
  <2>1. ControlTypes' /\ GuardTypes'
    BY <1>0, <1>4, SharedStepTypes, LabelsListed
    DEF NotifyOpen, ackVars, CreateFile, OpenReady, OpenFails
  <2>2. RequestTypes'
    BY <1>0, <1>4, <2>1
    DEF NotifyOpen, TypeOK, RequestTypes, ControlTypes, CreateFile, OpenReady,
        OpenFails
  <2>3. ProviderTypes'
    BY <1>0, <1>4, <2>1, LockUpdates
    DEF NotifyOpen, TypeOK, ProviderTypes, GuardTypes, CreateFile, OpenReady,
        OpenFails
  <2>4. ConfigTypes'
    BY <1>0, <1>4, <2>1
    DEF NotifyOpen, TypeOK, ConfigTypes, GuardTypes, CreateFile, OpenReady, OpenFails
  <2>5. StoreTypes'
    BY <1>0, <1>4, <2>1
    DEF NotifyOpen, storeVars, TypeOK, StoreTypes, CreateFile, OpenReady, OpenFails
  <2> QED  BY <1>4, <2>2, <2>3, <2>4, <2>5, UnchangedTypes
    DEF NotifyOpen, TypeOK
<1>5. ASSUME NotifySchema(n)  PROVE TypeOK'
  <2>1. ControlTypes'
    BY <1>0, <1>5, SharedStepTypes, LabelsListed
    DEF NotifySchema, provVars, lcVars, ackVars, CreateTables
  <2>2. RequestTypes'
    BY <1>0, <1>5, <2>1
    DEF NotifySchema, TypeOK, RequestTypes, ControlTypes, CreateTables
  <2>3. StoreTypes'
    BY <1>0, <1>5, <2>1, LoadedRows, RowUpdates, VersionsOnDisk
    DEF NotifySchema, TypeOK, StoreTypes, CreateTables
  <2> QED  BY <1>5, <2>2, <2>3, UnchangedTypes
    DEF NotifySchema, TypeOK
<1>6. ASSUME NotifyClean(n)  PROVE TypeOK'
  <2>1. ControlTypes' /\ GuardTypes'
    BY <1>0, <1>6, SharedStepTypes, LabelsListed
    DEF NotifyClean, ackVars
  <2>2. RequestTypes'
    BY <1>0, <1>6, <2>1
    DEF NotifyClean, TypeOK, RequestTypes, ControlTypes
  <2>3. ProviderTypes'
    BY <1>0, <1>6, <2>1, LockUpdates
    DEF NotifyClean, TypeOK, ProviderTypes, GuardTypes
  <2>4. ConfigTypes'
    BY <1>0, <1>6, <2>1
    DEF NotifyClean, TypeOK, ConfigTypes, GuardTypes
  <2>5. StoreTypes'
    <3>1. \A r : [db EXCEPT ![r].live = FALSE] \in Rows
      BY RowUpdates DEF TypeOK, StoreTypes
    <3>2. dbFile' = dbFile /\ (db' = [db EXCEPT ![Head(todo[n])].live = FALSE] \/ db' = db)
      BY <1>6 DEF NotifyClean
    <3>3. [db EXCEPT ![Head(todo[n])].live = FALSE] \in Rows
      BY <3>1
    <3>4. db \in Rows /\ dbFile \in {"none", "empty", "ready"}
      BY DEF TypeOK, StoreTypes
    <3>5. db' \in Rows /\ dbFile' \in {"none", "empty", "ready"}
      BY <3>2, <3>3, <3>4
    <3> QED  BY <3>5 DEF StoreTypes
  <2>6. UNCHANGED <<workVars, graphVars, pathVars, sdkPc, envVars, ackVars>>
    BY <1>6 DEF NotifyClean
  <2>7. /\ WorkTypes' /\ GraphTypes' /\ PathTypes' /\ LoaderTypes' /\ EnvTypes' /\ AckTypes'
    BY <2>6, UnchangedTypes
  <2> QED  BY <2>2, <2>3, <2>4, <2>5, <2>7 DEF TypeOK
<1>7. ASSUME NotifyStore(n)  PROVE TypeOK'
  <2>1. ControlTypes'
    BY <1>0, <1>7, SharedStepTypes, LabelsListed
    DEF NotifyStore, provVars, lcVars
  <2>2. RequestTypes'
    BY <1>0, <1>7, <2>1
    DEF NotifyStore, TypeOK, RequestTypes, ControlTypes
  <2>3. WorkTypes'
    <3>1. Head(todo[n]) \in Sources /\ Tail(todo[n]) \in Seq(Sources \cup ProjectFiles)
      BY <1>7, HeadTailProperties DEF NotifyStore, Engaged, NotifyLabels, TypeOK, WorkTypes
    <3> QED  BY <1>0, <1>7, <3>1 DEF NotifyStore, TypeOK, WorkTypes
  <2>4. StoreTypes'
    <3> DEFINE f == Head(todo[n])
               built == disk[f].st = "ok" /\ f \notin files[n]
    <3>1. f \in Sources
      BY <1>7, HeadTailProperties DEF NotifyStore, Engaged, NotifyLabels, TypeOK, WorkTypes
    <3>2. [ver |-> disk[f].ver, live |-> built] \in RowVal
      BY <3>1, VersionsOnDisk, RowUpdates DEF TypeOK
    <3>3. db' = [db EXCEPT ![f] = [ver |-> disk[f].ver, live |-> built]] \/ db' = db
      BY <1>7 DEF NotifyStore
    <3> HIDE DEF f, built
    <3>4. db' \in Rows
      BY <3>2, <3>3 DEF TypeOK, StoreTypes, Rows
    <3> QED  BY <1>7, <3>4 DEF NotifyStore, TypeOK, StoreTypes
  <2>5. AckTypes'
    BY <1>0, <1>7, <2>1, VersionsOnDisk
    DEF NotifyStore, TypeOK, AckTypes
  <2>6. UNCHANGED <<provVars, lcVars, graphVars, pathVars, sdkPc, envVars>>
    BY <1>7 DEF NotifyStore
  <2>7. /\ ProviderTypes' /\ ConfigTypes' /\ GraphTypes' /\ PathTypes' /\ LoaderTypes'
        /\ EnvTypes'
    BY <2>6, UnchangedTypes
  <2> QED  BY <2>2, <2>3, <2>4, <2>5, <2>7 DEF TypeOK
<1>8. ASSUME NotifySkip(n)  PROVE TypeOK'
  <2>1. ControlTypes' /\ GuardTypes'
    BY <1>0, <1>8, SharedStepTypes, LabelsListed
    DEF NotifySkip, ackVars
  <2>2. RequestTypes'
    BY <1>0, <1>8, <2>1
    DEF NotifySkip, TypeOK, RequestTypes, ControlTypes
  <2>3. ProviderTypes'
    BY <1>0, <1>8, <2>1, LockUpdates
    DEF NotifySkip, TypeOK, ProviderTypes, GuardTypes
  <2>4. ConfigTypes'
    BY <1>0, <1>8, <2>1
    DEF NotifySkip, TypeOK, ConfigTypes, GuardTypes
  <2>5. WorkTypes'
    <3>1. Tail(todo[n]) \in Seq(Sources \cup ProjectFiles)
      BY <1>8, HeadTailProperties DEF NotifySkip, Engaged, NotifyLabels, TypeOK, WorkTypes
    <3> QED  BY <1>0, <1>8, <3>1 DEF NotifySkip, TypeOK, WorkTypes
  <2>6. UNCHANGED <<graphVars, pathVars, sdkPc, storeVars, envVars, ackVars>>
    BY <1>8 DEF NotifySkip
  <2>7. /\ GraphTypes' /\ PathTypes' /\ LoaderTypes' /\ StoreTypes' /\ EnvTypes' /\ AckTypes'
    BY <2>6, UnchangedTypes
  <2> QED  BY <2>2, <2>3, <2>4, <2>5, <2>7 DEF TypeOK
<1> QED  BY <1>1, <1>2, <1>3, <1>4, <1>5, <1>6, <1>7, <1>8

LEMMA EvalStepTypes ==
    ASSUME TypeOK, Engaged, NEW e \in Evals
    PROVE  /\ EvalCall(e) => TypeOK'
           /\ EvalStart(e) => TypeOK'
           /\ EvalType(e) => TypeOK'
           /\ EvalLock(e) => TypeOK'
           /\ EvalQuery(e) => TypeOK'
<1>0. e \in Task
  BY DEF Task
<1>1. ASSUME EvalCall(e)  PROVE TypeOK'
  <2>1. ControlTypes'
    BY <1>0, <1>1, SharedStepTypes, LabelsListed
    DEF EvalCall, lcVars
  <2>2. RequestTypes'
    BY <1>0, <1>1, <2>1
    DEF EvalCall, TypeOK, RequestTypes, ControlTypes
  <2>3. ProviderTypes'
    BY <1>0, <1>1, <2>1, LockUpdates
    DEF EvalCall, TypeOK, ProviderTypes
  <2>4. AckTypes'
    BY <1>0, <1>1, <2>1, VersionsOnDisk
    DEF EvalCall, TypeOK, AckTypes
  <2> QED  BY <1>1, <2>2, <2>3, <2>4, UnchangedTypes
    DEF EvalCall, TypeOK
<1>2. ASSUME EvalStart(e)  PROVE TypeOK'
  <2>1. ControlTypes' /\ GuardTypes'
    BY <1>0, <1>2, SharedStepTypes, LabelsListed
    DEF EvalStart, ackVars
  <2>2. RequestTypes'
    BY <1>0, <1>2, <2>1
    DEF EvalStart, TypeOK, ProviderTypes, RequestTypes, ControlTypes
  <2>3. ProviderTypes'
    BY <1>0, <1>2, <2>1, LockUpdates
    DEF EvalStart, TypeOK, ProviderTypes, GuardTypes
  <2>4. ConfigTypes'
    BY <1>0, <1>2, <2>1
    DEF EvalStart, TypeOK, ConfigTypes, GuardTypes
  <2> QED  BY <1>2, <2>2, <2>3, <2>4, UnchangedTypes
    DEF EvalStart, TypeOK
<1>3. ASSUME EvalType(e)  PROVE TypeOK'
  <2>1. ControlTypes'
    BY <1>0, <1>3, SharedStepTypes, LabelsListed
    DEF EvalType, lcVars, ackVars
  <2>2. RequestTypes'
    BY <1>0, <1>3, <2>1
    DEF EvalType, TypeOK, RequestTypes, ControlTypes
  <2>3. ProviderTypes'
    BY <1>0, <1>3, <2>1, LockUpdates
    DEF EvalType, TypeOK, ProviderTypes
  <2> QED  BY <1>3, <2>2, <2>3, UnchangedTypes
    DEF EvalType, TypeOK
<1>4. ASSUME EvalLock(e)  PROVE TypeOK'
  <2>1. ControlTypes'
    BY <1>0, <1>4, SharedStepTypes, LabelsListed
    DEF EvalLock, provVars, lcVars, ackVars
  <2>2. RequestTypes'
    BY <1>0, <1>4, <2>1
    DEF EvalLock, TypeOK, RequestTypes, ControlTypes
  <2>3. GraphTypes'
    BY <1>0, <1>4, <2>1, LoadedRows, RowUpdates
    DEF EvalLock, TypeOK, GraphTypes
  <2> QED  BY <1>4, <2>2, <2>3, UnchangedTypes
    DEF EvalLock, TypeOK
<1>5. ASSUME EvalQuery(e)  PROVE TypeOK'
  <2>1. ControlTypes'
    BY <1>0, <1>5, SharedStepTypes, LabelsListed
    DEF EvalQuery, provVars, lcVars, ackVars
  <2>2. RequestTypes'
    BY <1>0, <1>5, <2>1
    DEF EvalQuery, TypeOK, RequestTypes, ControlTypes
  <2>c. cur[e] \in Inits
    BY <1>0, <1>5 DEF EvalQuery, Engaged, EvalLabels
  <2>g. graph[cur[e]] # NoGraph => graph[cur[e]] \in Rows
    BY <2>c DEF TypeOK, GraphTypes
  <2>3. WorkTypes'
    BY <1>0, <1>5, <2>g DEF EvalQuery, TypeOK, WorkTypes
  <2>5. AckTypes'
    <3>1. acked \in [Sources -> Version]
      BY DEF TypeOK, AckTypes
    <3>2. acked' \in [Sources -> Version] /\ known' = known
      BY <1>5, <2>c, <2>g, <3>1, ShownTypes DEF EvalQuery
    <3> QED  BY <3>2 DEF TypeOK, AckTypes
  <2>4. GraphTypes'
    BY <1>0, <1>5, <2>1, LoadedRows, RowUpdates
    DEF EvalQuery, TypeOK, GraphTypes
  <2> QED  BY <1>5, <2>2, <2>3, <2>4, <2>5, UnchangedTypes
    DEF EvalQuery, TypeOK
<1> QED  BY <1>1, <1>2, <1>3, <1>4, <1>5

LEMMA OtherStepTypes ==
    ASSUME TypeOK
    PROVE  /\ \A t \in Task : Cancel(t) => TypeOK'
           /\ \A f \in Sources : Edit(f) => TypeOK'
           /\ Crash => TypeOK'
           /\ UNCHANGED vars => TypeOK'
<1>1. ASSUME NEW t \in Task, Cancel(t)  PROVE TypeOK'
  <2>1. ControlTypes'
    BY <1>1, SharedStepTypes DEF Cancel
  <2>2. RequestTypes'
    BY <1>1, <2>1 DEF Cancel, TypeOK, RequestTypes, ControlTypes
  <2>3. ProviderTypes'
    BY <1>1, LockUpdates DEF Cancel, TypeOK, ProviderTypes
  <2> QED  BY <1>1, <2>2, <2>3, UnchangedTypes DEF Cancel, TypeOK
<1>2. ASSUME NEW f \in Sources, Edit(f)  PROVE TypeOK'
  <2>1. PICK st \in {"ok", "absent", "broken"} :
           disk' = [disk EXCEPT ![f] = [ver |-> disk[f].ver + 1, st |-> st]]
    BY <1>2 DEF Edit
  <2>2. disk[f].ver + 1 \in 1 .. MaxVer
    BY <1>2 DEF Edit, TypeOK, EnvTypes, Content
  <2>3. EnvTypes'
    BY <1>2, <2>1, <2>2 DEF Edit, TypeOK, EnvTypes, Content
  <2> QED  BY <1>2, <2>3, UnchangedTypes DEF Edit, TypeOK
<1>3. ASSUME Crash  PROVE TypeOK'
  <2>1. Unlocked \in Mutex(Task)
    BY EmptySeq DEF Unlocked, Mutex
  <2>2. RequestTypes'
    BY <1>3, LabelsListed DEF Crash, TypeOK, RequestTypes
  <2>3. ProviderTypes' /\ ConfigTypes' /\ GraphTypes' /\ PathTypes'
    BY <1>3, <2>1 DEF Crash, ProviderTypes, ConfigTypes, GraphTypes, PathTypes
  <2>4. LoaderTypes' /\ EnvTypes'
    BY <1>3 DEF Crash, TypeOK, LoaderTypes, EnvTypes
  <2> QED  BY <1>3, <2>2, <2>3, <2>4, UnchangedTypes DEF Crash, TypeOK
<1>4. ASSUME UNCHANGED vars  PROVE TypeOK'
  BY <1>4, UnchangedTypes DEF vars, TypeOK
<1> QED  BY <1>1, <1>2, <1>3, <1>4

LEMMA LabelSets ==
    /\ Holding = {"validate", "resolve", "join", "deps", "load", "type", "nOpen", "nSchema",
                  "clean", "store", "open", "swap", "walkGuard", "walkOpen", "walkSchema",
                  "walk"}
    /\ Waiting = {"project", "bind", "wait"}
    /\ Reading = {"nOpen", "nSchema", "clean", "store", "open", "swap", "walkGuard",
                  "walkOpen", "walkSchema", "walk"}
    /\ EvalLabels = {"graph", "query"}
    /\ NotifyLabels = {"nOpen", "nSchema", "clean", "store"}
BY DEF Holding, Waiting, Reading, EvalLabels, NotifyLabels, GraphLabels

LEMMA InitStepEngaged ==
    ASSUME TypeOK, Engaged, NEW i \in Inits
    PROVE  /\ InitCall(i) => Engaged'
           /\ InitConfig(i) => Engaged'
           /\ InitReplace(i) => Engaged'
           /\ InitUnlock(i) => Engaged'
           /\ InitRelock(i) => Engaged'
           /\ InitBind(i) => Engaged'
           /\ InitValidate(i) => Engaged'
           /\ InitResolve(i) => Engaged'
           /\ InitJoin(i) => Engaged'
           /\ InitDeps(i) => Engaged'
           /\ InitLoad(i) => Engaged'
           /\ SdkOpen(i) => Engaged'
           /\ SdkSchema(i) => Engaged'
           /\ SdkStore(i) => Engaged'
           /\ SdkMark(i) => Engaged'
<1>0. i \in Task
  BY DEF Task
<1>1. ASSUME InitCall(i)  PROVE Engaged'
  BY <1>0, <1>1, LabelSets
  DEF InitCall, Engaged, TypeOK, RequestTypes, WorkTypes, ProviderTypes, Task,
      workVars, Go
<1>2. ASSUME InitConfig(i)  PROVE Engaged'
  BY <1>0, <1>2, LabelSets
  DEF InitConfig, Engaged, TypeOK, RequestTypes, WorkTypes, ProviderTypes, Task,
      workVars, Go, Reply
<1>3. ASSUME InitReplace(i)  PROVE Engaged'
  BY <1>0, <1>3, LabelSets
  DEF InitReplace, Engaged, TypeOK, RequestTypes, WorkTypes, ProviderTypes, Task,
      workVars, Go
<1>4. ASSUME InitUnlock(i)  PROVE Engaged'
  BY <1>0, <1>4, LabelSets
  DEF InitUnlock, Engaged, TypeOK, RequestTypes, WorkTypes, ProviderTypes, Task,
      workVars, Go
<1>5. ASSUME InitRelock(i)  PROVE Engaged'
  BY <1>0, <1>5, LabelSets
  DEF InitRelock, Engaged, TypeOK, RequestTypes, WorkTypes, ProviderTypes, Task,
      workVars, Go
<1>6. ASSUME InitBind(i)  PROVE Engaged'
  <2>1. /\ cur' = cur \/ (cur' = [cur EXCEPT ![i] = project] /\ project \in Inits)
        /\ pc' = [pc EXCEPT ![i] = "done"] \/
              (pc' = [pc EXCEPT ![i] = "validate"] /\ cur' = [cur EXCEPT ![i] = project]
               /\ project \in Inits)
        /\ todo' = todo
    BY <1>0, <1>6 DEF InitBind, TypeOK, ProviderTypes, Go, Reply, Finish, workVars
  <2> QED  BY <1>0, <2>1, LabelSets DEF Engaged, TypeOK, RequestTypes, WorkTypes, Task
<1>7. ASSUME InitValidate(i)  PROVE Engaged'
  BY <1>0, <1>7, LabelSets
  DEF InitValidate, Engaged, TypeOK, RequestTypes, WorkTypes, Task, workVars, Go
<1>8. ASSUME InitResolve(i)  PROVE Engaged'
  BY <1>0, <1>8, LabelSets
  DEF InitResolve, Engaged, TypeOK, RequestTypes, WorkTypes, ProviderTypes, Task,
      workVars, Go, Finish, Reply
<1>9. ASSUME InitJoin(i)  PROVE Engaged'
  BY <1>0, <1>9, LabelSets
  DEF InitJoin, Engaged, TypeOK, RequestTypes, WorkTypes, Task, workVars, Go
<1>10. ASSUME InitDeps(i)  PROVE Engaged'
  BY <1>0, <1>10, LabelSets
  DEF InitDeps, Engaged, TypeOK, RequestTypes, WorkTypes, ProviderTypes, Task,
      workVars, Go, Finish, Reply
<1>11. ASSUME InitLoad(i)  PROVE Engaged'
  BY <1>0, <1>11, LabelSets
  DEF InitLoad, Engaged, TypeOK, RequestTypes, WorkTypes, ProviderTypes, Task,
      workVars, Finish, Reply
<1>12. ASSUME SdkOpen(i)  PROVE Engaged'
  BY <1>0, <1>12, LabelSets
  DEF SdkOpen, Engaged, TypeOK, RequestTypes, WorkTypes, Task, reqVars, workVars
<1>13. ASSUME SdkSchema(i)  PROVE Engaged'
  BY <1>0, <1>13, LabelSets
  DEF SdkSchema, Engaged, TypeOK, RequestTypes, WorkTypes, Task, reqVars, workVars
<1>14. ASSUME SdkStore(i)  PROVE Engaged'
  BY <1>0, <1>14, LabelSets
  DEF SdkStore, Engaged, TypeOK, RequestTypes, WorkTypes, Task, reqVars, workVars
<1>15. ASSUME SdkMark(i)  PROVE Engaged'
  BY <1>0, <1>15, LabelSets
  DEF SdkMark, Engaged, TypeOK, RequestTypes, WorkTypes, Task, reqVars, workVars
<1> QED  BY <1>1, <1>2, <1>3, <1>4, <1>5, <1>6, <1>7, <1>8, <1>9, <1>10, <1>11, <1>12,
         <1>13, <1>14, <1>15

LEMMA GraphStepEngaged ==
    ASSUME TypeOK, Engaged, NEW t \in Inits \cup Notifies
    PROVE  /\ GraphOpen(t) => Engaged'
           /\ GraphSwap(t) => Engaged'
           /\ WalkGuard(t) => Engaged'
           /\ WalkOpen(t) => Engaged'
           /\ WalkSchema(t) => Engaged'
           /\ WalkFile(t) => Engaged'
           /\ WalkSwap(t) => Engaged'
<1>0. t \in Task
  BY DEF Task
<1>1. ASSUME GraphOpen(t)  PROVE Engaged'
  BY <1>0, <1>1, LabelSets
  DEF GraphOpen, Engaged, TypeOK, RequestTypes, WorkTypes, ProviderTypes, Task,
      Finish, Go, GraphErr, Reply
<1>2. ASSUME GraphSwap(t)  PROVE Engaged'
  BY <1>0, <1>2, LabelSets
  DEF GraphSwap, Engaged, TypeOK, RequestTypes, WorkTypes, ProviderTypes, Task,
      workVars, Finish, Go, GraphErr, GraphOk, Reply
<1>3. ASSUME WalkGuard(t)  PROVE Engaged'
  BY <1>0, <1>3, LabelSets
  DEF WalkGuard, Engaged, TypeOK, RequestTypes, WorkTypes, Task, workVars, Go
<1>4. ASSUME WalkOpen(t)  PROVE Engaged'
  BY <1>0, <1>4, LabelSets
  DEF WalkOpen, Engaged, TypeOK, RequestTypes, WorkTypes, ProviderTypes, Task, Go,
      Finish, Reply, WalkFrom
<1>5. ASSUME WalkSchema(t)  PROVE Engaged'
  BY <1>0, <1>5, LabelSets
  DEF WalkSchema, Engaged, TypeOK, RequestTypes, WorkTypes, Task, Go, WalkFrom
<1>6. ASSUME WalkFile(t)  PROVE Engaged'
  BY <1>0, <1>6, LabelSets
  DEF WalkFile, Engaged, TypeOK, RequestTypes, WorkTypes, ProviderTypes, Task, Finish,
      Reply
<1>7. ASSUME WalkSwap(t)  PROVE Engaged'
  BY <1>0, <1>7, LabelSets
  DEF WalkSwap, Engaged, TypeOK, RequestTypes, WorkTypes, ProviderTypes, Task,
      workVars, Finish, Go, GraphErr, GraphOk, Reply
<1> QED  BY <1>1, <1>2, <1>3, <1>4, <1>5, <1>6, <1>7

LEMMA NotifyStepEngaged ==
    ASSUME TypeOK, Engaged, NEW n \in Notifies
    PROVE  /\ NotifyCall(n) => Engaged'
           /\ NotifyStart(n) => Engaged'
           /\ NotifyType(n) => Engaged'
           /\ NotifyOpen(n) => Engaged'
           /\ NotifySchema(n) => Engaged'
           /\ NotifyClean(n) => Engaged'
           /\ NotifySkip(n) => Engaged'
           /\ NotifyStore(n) => Engaged'
<1>0. n \in Task
  BY DEF Task
<1>1. ASSUME NotifyCall(n)  PROVE Engaged'
  BY <1>0, <1>1, LabelSets
  DEF NotifyCall, Engaged, TypeOK, RequestTypes, WorkTypes, ProviderTypes, Task,
      workVars, Go, Reply
<1>2. ASSUME NotifyStart(n)  PROVE Engaged'
  <2>0. project # NoProject => project \in Inits
    BY DEF TypeOK, ProviderTypes
  <2>1. /\ \/ cur' = cur /\ pc' = [pc EXCEPT ![n] = "done"]
           \/ /\ cur' = [cur EXCEPT ![n] = project] /\ project \in Inits
              /\ pc' = [pc EXCEPT ![n] = "type"]
        /\ todo' = todo /\ pc[n] = "wait"
    BY <1>2, <2>0 DEF NotifyStart, Go, Reply, Finish, workVars
  <2>2. CASE cur' = cur /\ pc' = [pc EXCEPT ![n] = "done"]
    BY <1>0, <2>1, <2>2, LabelSets DEF Engaged, TypeOK, RequestTypes, WorkTypes, Task
  <2>3. CASE cur' = [cur EXCEPT ![n] = project] /\ project \in Inits
             /\ pc' = [pc EXCEPT ![n] = "type"]
    BY <1>0, <2>1, <2>3, LabelSets DEF Engaged, TypeOK, RequestTypes, WorkTypes, Task
  <2> QED  BY <2>1, <2>2, <2>3
<1>3. ASSUME NotifyType(n)  PROVE Engaged'
  BY <1>0, <1>3, LabelSets
  DEF NotifyType, Engaged, TypeOK, RequestTypes, WorkTypes, ProviderTypes, Task,
      workVars, Go, Finish, Reply
<1>4. ASSUME NotifyOpen(n)  PROVE Engaged'
  BY <1>0, <1>4, LabelSets
  DEF NotifyOpen, Engaged, TypeOK, RequestTypes, WorkTypes, ProviderTypes, Task,
      workVars, Go, Finish, Reply
<1>5. ASSUME NotifySchema(n)  PROVE Engaged'
  BY <1>0, <1>5, LabelSets
  DEF NotifySchema, Engaged, TypeOK, RequestTypes, WorkTypes, Task, workVars, Go
<1>6. ASSUME NotifyClean(n)  PROVE Engaged'
  BY <1>0, <1>6, LabelSets
  DEF NotifyClean, Engaged, TypeOK, RequestTypes, WorkTypes, ProviderTypes, Task,
      workVars, Go, Finish, Reply
<1>7. ASSUME NotifyStore(n)  PROVE Engaged'
  <2>1. /\ pc' = [pc EXCEPT ![n] = IF Tail(todo[n]) = <<>> THEN "open" ELSE "clean"]
        /\ todo' = [todo EXCEPT ![n] = Tail(@)] /\ cur' = cur /\ pc[n] = "store"
    BY <1>7 DEF NotifyStore, Go
  <2> QED  BY <1>0, <2>1, LabelSets
    DEF Engaged, TypeOK, RequestTypes, WorkTypes, Task
<1>8. ASSUME NotifySkip(n)  PROVE Engaged'
  <2>1. /\ \/ pc' = [pc EXCEPT ![n] = IF Tail(todo[n]) = <<>> THEN "open" ELSE "clean"]
              /\ todo' = [todo EXCEPT ![n] = Tail(@)]
           \/ pc' = [pc EXCEPT ![n] = "done"] /\ todo' = todo
        /\ cur' = cur /\ pc[n] = "clean"
    BY <1>8 DEF NotifySkip, Go, Finish, Reply
  <2>2. CASE /\ pc' = [pc EXCEPT ![n] = IF Tail(todo[n]) = <<>> THEN "open" ELSE "clean"]
             /\ todo' = [todo EXCEPT ![n] = Tail(@)]
    BY <1>0, <2>1, <2>2, LabelSets DEF Engaged, TypeOK, RequestTypes, WorkTypes, Task
  <2>3. CASE pc' = [pc EXCEPT ![n] = "done"] /\ todo' = todo
    BY <1>0, <2>1, <2>3, LabelSets DEF Engaged, TypeOK, RequestTypes, WorkTypes, Task
  <2> QED  BY <2>1, <2>2, <2>3
<1> QED  BY <1>1, <1>2, <1>3, <1>4, <1>5, <1>6, <1>7, <1>8

LEMMA EvalStepEngaged ==
    ASSUME TypeOK, Engaged, NEW e \in Evals
    PROVE  /\ EvalCall(e) => Engaged'
           /\ EvalStart(e) => Engaged'
           /\ EvalType(e) => Engaged'
           /\ EvalLock(e) => Engaged'
           /\ EvalQuery(e) => Engaged'
<1>0. e \in Task
  BY DEF Task
<1>1. ASSUME EvalCall(e)  PROVE Engaged'
  BY <1>0, <1>1, LabelSets
  DEF EvalCall, Engaged, TypeOK, RequestTypes, WorkTypes, ProviderTypes, Task,
      workVars, Go, Reply
<1>2. ASSUME EvalStart(e)  PROVE Engaged'
  BY <1>0, <1>2, LabelSets
  DEF EvalStart, Engaged, TypeOK, RequestTypes, WorkTypes, ProviderTypes, Task,
      workVars, Go, Finish, Reply
<1>3. ASSUME EvalType(e)  PROVE Engaged'
  BY <1>0, <1>3, LabelSets
  DEF EvalType, Engaged, TypeOK, RequestTypes, WorkTypes, ProviderTypes, Task,
      workVars, Go, Reply
<1>4. ASSUME EvalLock(e)  PROVE Engaged'
  BY <1>0, <1>4, LabelSets
  DEF EvalLock, Engaged, TypeOK, RequestTypes, WorkTypes, Task, workVars, Go
<1>5. ASSUME EvalQuery(e)  PROVE Engaged'
  BY <1>0, <1>5, LabelSets
  DEF EvalQuery, Engaged, TypeOK, RequestTypes, WorkTypes, Task, Reply
<1> QED  BY <1>1, <1>2, <1>3, <1>4, <1>5

LEMMA CancelEngaged ==
    ASSUME TypeOK, Engaged, NEW t \in Task
    PROVE  /\ Cancel(t) => Engaged'
<1>0. t \in Task
  BY DEF Task
<1>1. ASSUME Cancel(t)  PROVE Engaged'
  BY <1>0, <1>1, LabelSets
  DEF Cancel, Engaged, TypeOK, RequestTypes, WorkTypes, ProviderTypes, Task, workVars,
      Reply
<1> QED  BY <1>1

LEMMA OtherStepEngaged ==
    ASSUME TypeOK, Engaged
    PROVE  /\ \A f \in Sources : Edit(f) => Engaged'
           /\ Crash => Engaged'
           /\ UNCHANGED vars => Engaged'
<1>1. ASSUME NEW f \in Sources, Edit(f)  PROVE Engaged'
  BY <1>1 DEF Edit, Engaged, reqVars, workVars
<1>2. ASSUME Crash  PROVE Engaged'
  <2>1. /\ \A t \in Task : pc'[t] = "done" \/ (pc'[t] = "idle" /\ pc[t] = "idle")
        /\ todo' = todo
    BY <1>2 DEF Crash, workVars
  <2> QED  BY <2>1, LabelSets DEF Engaged, Task
<1>3. ASSUME UNCHANGED vars  PROVE Engaged'
  BY <1>3 DEF vars, Engaged, reqVars, workVars
<1> QED  BY <1>1, <1>2, <1>3

LEMMA InitEngaged == Init => Engaged
BY LabelSets DEF Init, Engaged, Task

LEMMA TypesStep == TypeOK /\ Engaged /\ [Next]_vars => TypeOK' /\ Engaged'
<1> SUFFICES ASSUME TypeOK, Engaged, [Next]_vars  PROVE TypeOK' /\ Engaged'
  OBVIOUS
<1>1. ASSUME NEW i \in Inits, InitCall(i) \/ InitStep(i) \/ SdkStep(i)
      PROVE  TypeOK' /\ Engaged'
  BY <1>1, InitStepTypes, InitStepEngaged, GraphStepTypes, GraphStepEngaged
  DEF InitStep, SdkStep, GraphStep
<1>2. ASSUME NEW n \in Notifies, NotifyCall(n) \/ NotifyStep(n)
      PROVE  TypeOK' /\ Engaged'
  BY <1>2, NotifyStepTypes, NotifyStepEngaged, GraphStepTypes, GraphStepEngaged
  DEF NotifyStep, GraphStep
<1>3. ASSUME NEW e \in Evals, EvalCall(e) \/ EvalStep(e)
      PROVE  TypeOK' /\ Engaged'
  BY <1>3, EvalStepTypes, EvalStepEngaged DEF EvalStep
<1>4. ASSUME NEW t \in Task, Cancel(t)  PROVE TypeOK' /\ Engaged'
  BY <1>4, OtherStepTypes, CancelEngaged
<1>5. ASSUME NEW f \in Sources, Edit(f)  PROVE TypeOK' /\ Engaged'
  BY <1>5, OtherStepTypes, OtherStepEngaged
<1>6. ASSUME Crash \/ Idle \/ UNCHANGED vars  PROVE TypeOK' /\ Engaged'
  BY <1>6, OtherStepTypes, OtherStepEngaged DEF Idle
<1> QED  BY <1>1, <1>2, <1>3, <1>4, <1>5, <1>6 DEF Next

\* csharp.rs:55-62, project.rs:54-67: every variable of the service keeps its type in
\* every interleaving of calls, cancellations, crashes and loaders.
THEOREM TypeCorrect == Spec => []TypeOK
<1>1. Init => TypeOK /\ Engaged
  BY InitTypes, InitEngaged
<1>2. TypeOK /\ Engaged /\ [Next]_vars => (TypeOK /\ Engaged)'
  BY TypesStep
<1> QED  BY <1>1, <1>2, PTL DEF Spec
=============================================================================
