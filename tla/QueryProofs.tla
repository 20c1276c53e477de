---------------------------- MODULE QueryProofs ----------------------------
(***************************************************************************)
(* Theorems about Query.tla, for every graph and every pattern: the walk   *)
(* finds what it should, and a reference is reported for a reason; and     *)
(* about Incidents.tla: what is answered does not depend on the order in   *)
(* which it was found.                                                     *)
(***************************************************************************)
EXTENDS Incidents, NumberProofs

-----------------------------------------------------------------------------
(* Lemmas about order *)

\* A set of nodes has a first one.
LEMMA FirstOf ==
    ASSUME NEW S \in SUBSET Node, S # {}
    PROVE  First(S) \in S /\ \A m \in S : First(S) <= m
<1>1. PICK n \in S : \A m \in S : n <= m
  BY Handles, LeastOf, S \in SUBSET Nat
<1>2. QED
  BY <1>1 DEF First

\* So has a set of triples, which Before orders by their components.
LEMMA FirstTriple ==
    ASSUME NEW S \in SUBSET Candidate, S # {}
    PROVE  \E c \in S : \A d \in S : Before(c, d)
<1> DEFINE first  == {c[1] : c \in S}
           a      == First(first)
           second == {c[2] : c \in {e \in S : e[1] = a}}
           b      == First(second)
           third  == {c[3] : c \in {e \in S : e[1] = a /\ e[2] = b}}
           z      == First(third)
<1>1. a \in first /\ \A m \in first : a <= m
  <2>1. first \in SUBSET Node /\ first # {}
    BY DEF Candidate
  <2> HIDE DEF first
  <2>2. QED
    BY <2>1, FirstOf
<1> HIDE DEF a
<1>2. b \in second /\ \A m \in second : b <= m
  <2>1. second \in SUBSET Node /\ second # {}
    BY <1>1 DEF Candidate
  <2> HIDE DEF second
  <2>2. QED
    BY <2>1, FirstOf
<1> HIDE DEF b
<1>3. z \in third /\ \A m \in third : z <= m
  <2>1. third \in SUBSET Node /\ third # {}
    BY <1>2 DEF Candidate
  <2> HIDE DEF third
  <2>2. QED
    BY <2>1, FirstOf
<1> HIDE DEF z
<1>4. PICK c \in S : c[1] = a /\ c[2] = b /\ c[3] = z
  BY <1>3
<1>5. ASSUME NEW d \in S
      PROVE  Before(c, d)
  <2>1. d[1] \in Nat /\ d[2] \in Nat /\ d[3] \in Nat /\ a \in Nat /\ b \in Nat /\ z \in Nat
    BY <1>4, Handles DEF Candidate
  <2>2. a <= d[1] /\ (d[1] = a => b <= d[2]) /\ (d[1] = a /\ d[2] = b => z <= d[3])
    BY <1>1, <1>2, <1>3
  <2>3. QED
    BY <2>1, <2>2, <1>4 DEF Before
<1>6. QED
  BY <1>5

\* A sorted list has the elements of its set.
LEMMA OrdersOf ==
    ASSUME NEW S \in SUBSET Node, NEW q \in Orders(S)
    PROVE  q \in Seq(Node) /\ {q[j] : j \in 1..Len(q)} = S
<1>1. Cardinality(S) \in Nat
  BY Handles, FS_Subset, FS_CardinalityType
<1>2. q \in [1..Cardinality(S) -> S] /\ \A n \in S : \E j \in 1..Cardinality(S) : q[j] = n
  BY DEF Orders
<1>3. QED
  BY <1>1, <1>2

\* What a list holds.
Elements(s) == {s[j] : j \in 1..Len(s)}

\* What a concatenation holds.
LEMMA Joined ==
    ASSUME NEW s \in Seq(Node), NEW t \in Seq(Node)
    PROVE  s \o t \in Seq(Node) /\ Elements(s \o t) = Elements(s) \cup Elements(t)
<1>1. s \o t \in Seq(Node) /\ Len(s \o t) = Len(s) + Len(t)
  OBVIOUS
<1>2. \A j \in 1..Len(s) : (s \o t)[j] = s[j]
  OBVIOUS
<1>3. \A j \in 1..Len(t) : (s \o t)[Len(s) + j] = t[j] /\ Len(s) + j \in 1..Len(s) + Len(t)
  OBVIOUS
<1>4. \A j \in 1..Len(s) + Len(t) :
         j \in 1..Len(s) \/ (j - Len(s) \in 1..Len(t) /\ (s \o t)[j] = t[j - Len(s)])
  OBVIOUS
<1>5. Elements(s) \subseteq Elements(s \o t)
  <2>1. \A j \in 1..Len(s) : j \in 1..Len(s \o t)
    BY <1>1
  <2>2. QED
    BY <1>2, <2>1 DEF Elements
<1>6. Elements(t) \subseteq Elements(s \o t)
  BY <1>1, <1>3 DEF Elements
<1>7. Elements(s \o t) \subseteq Elements(s) \cup Elements(t)
  BY <1>1, <1>2, <1>4 DEF Elements
<1>8. QED
  BY <1>1, <1>5, <1>6, <1>7

\* The first element and the others.
LEMMA HeadAndTail ==
    ASSUME NEW s \in Seq(Node), s # <<>>
    PROVE  Elements(s) = {Head(s)} \cup Elements(Tail(s))
<1>1. Len(s) \in Nat /\ Len(s) > 0 /\ Len(Tail(s)) = Len(s) - 1 /\ Head(s) = s[1]
  OBVIOUS
<1>2. \A j \in 1..Len(s) - 1 : Tail(s)[j] = s[j + 1]
  OBVIOUS
<1>3. \A j \in 1..Len(s) : j = 1 \/ (j - 1 \in 1..Len(s) - 1 /\ s[j] = Tail(s)[j - 1])
  BY <1>1, <1>2
<1>4. QED
  BY <1>1, <1>2, <1>3 DEF Elements

\* No step changes the call, nor what is defined by it.
LEMMA SameGraph ==
    ASSUME UNCHANGED input
    PROVE  /\ FqdnOf' = FqdnOf
           /\ \A n \in Node : Children(n)' = Children(n) /\ Matching(n)' = Matching(n)
<1>1. FqdnOf' = FqdnOf
  BY DEF input, FqdnOf, Named, Owners
<1>2. \A n : Children(n)' = Children(n)
  BY DEF input, Children
<1>3. \A n : Matching(n)' = Matching(n)
  BY <1>1, <1>2 DEF input, Matching, Wanted
<1>4. QED
  BY <1>1, <1>2, <1>3

-----------------------------------------------------------------------------
(* Types *)

\* Each variable keeps its type, and a call that has ended has an answer.
THEOREM TypeCorrect == Spec => []TypeOK
<1>1. Init => TypeOK
  BY GraphTypes DEF Init, TypeOK
<1>2. TypeOK /\ [Next]_vars => TypeOK'
  <2> SUFFICES ASSUME TypeOK, [Next]_vars
               PROVE  TypeOK'
    OBVIOUS
  <2> USE DEF TypeOK, input
  <2>1. CASE StartingNodes
    <3> DEFINE spaces == {n \in OfKind("namespace") : graph.symbol[n] \in search.spaces}
    <3>1. spaces \in SUBSET Node
      BY DEF OfKind
    <3>2. stack' \in Orders(spaces) /\ roots' = spaces
      BY <2>1 DEF StartingNodes
    <3>3. stack' \in Seq(Node)
      BY <3>1, <3>2, OrdersOf
    <3>4. files' \in SUBSET File
      <4>1. graph.file \in [Node -> File]
        BY DEF Graph
      <4>2. QED
        BY <4>1, <2>1 DEF StartingNodes, OfKind
    <3> QED
      BY <2>1, <3>1, <3>2, <3>3, <3>4 DEF StartingNodes
  <2>2. CASE Traverse
    <3>1. Head(stack) \in Node /\ Tail(stack) \in Seq(Node)
      BY <2>2 DEF Traverse
    <3>2. Children(Head(stack)) \in SUBSET Node /\ Matching(Head(stack)) \in SUBSET Node
      BY <3>1 DEF Children, Matching
    <3>3. PICK calls \in Orders(Children(Head(stack))) : stack' = calls \o Tail(stack)
      BY <2>2 DEF Traverse
    <3>4. calls \in Seq(Node)
      BY <3>2, OrdersOf
    <3>5. stack' \in Seq(Node)
      BY <3>1, <3>3, <3>4, Joined
    <3> QED
      BY <2>2, <3>2, <3>5 DEF Traverse
  <2>3. CASE NothingFound
    BY <2>3 DEF NothingFound
  <2>4. CASE SomethingFound
    BY <2>4 DEF SomethingFound
  <2>5. CASE SkipFile
    BY <2>5 DEF SkipFile
  <2>6. CASE SearchFile
    <3>1. results' \in SUBSET Node
      BY <2>6 DEF SearchFile, InFile
    <3> QED
      BY <2>6, <3>1 DEF SearchFile
  <2>7. CASE PanicInFile
    BY <2>7 DEF PanicInFile
  <2>8. CASE Finish
    BY <2>8 DEF Finish
  <2>9. CASE UNCHANGED vars
    BY <2>9 DEF vars
  <2> QED
    BY <2>1, <2>2, <2>3, <2>4, <2>5, <2>6, <2>7, <2>8, <2>9 DEF Next
<1>3. QED
  BY <1>1, <1>2, PTL DEF Spec

-----------------------------------------------------------------------------
(* The walk *)

\* With each node, its children.
Closed(C) == \A n \in C : Children(n) \subseteq C

FitsSearch == {n \in OfKind("namespace") : graph.symbol[n] \in search.spaces}

\* The nodes behind the walk are a set C whose children are in C or still to come,
\* which nothing but the roots and their descendants is in.
Behind(C) ==
    /\ roots \subseteq C \cup Elements(stack)
    /\ \A n \in C : Children(n) \subseteq C \cup Elements(stack)
    /\ found = UNION {Matching(n) : n \in C}
    /\ \A D \in SUBSET Node :
          roots \subseteq D /\ Closed(D) => C \cup Elements(stack) \subseteq D

Walk ==
    /\ pc = "start" => found = {}
    /\ pc # "start" => roots = FitsSearch /\ \E C \in SUBSET Node : Behind(C)
    /\ pc \in {"files", "done"} => stack = <<>>

\* C is the tree below the fitting namespaces: closed under children, and the least
\* such set.
Tree(C) ==
    /\ FitsSearch \subseteq C /\ Closed(C)
    /\ \A D \in SUBSET Node : FitsSearch \subseteq D /\ Closed(D) => C \subseteq D

\* Once the walk is over, what it has found are the definitions that match in the
\* whole tree below the fitting namespaces, and nothing else, on any graph
\* (class_query.rs:80-132, namespace_query.rs:146-182).
WalkIsWhole ==
    pc \in {"files", "done"} =>
        \E C \in SUBSET Node : Tree(C) /\ found = UNION {Matching(n) : n \in C}

\* Before the call starts nothing is found.
LEMMA WalkInit == Init => Walk
BY DEF Init, Walk

\* StartingNodes puts the roots on the stack, and has nothing behind it.
LEMMA WalkStarts ==
    ASSUME TypeOK, Walk, StartingNodes
    PROVE  Walk'
<1>1. FitsSearch' = FitsSearch /\ FitsSearch \in SUBSET Node
  BY DEF StartingNodes, input, FitsSearch, OfKind
<1>2. roots' = FitsSearch /\ stack' \in Orders(FitsSearch) /\ found' = {} /\ pc' = "traverse"
  BY DEF StartingNodes, FitsSearch, Walk
<1>3. Elements(stack)' = FitsSearch
  BY <1>1, <1>2, OrdersOf DEF Elements
<1>4. Behind({})'
  BY <1>2, <1>3 DEF Behind
<1>5. QED
  BY <1>1, <1>2, <1>4 DEF Walk

\* Traverse moves a node behind the walk and its children onto the stack.
LEMMA WalkGoesOn ==
    ASSUME TypeOK, Walk, Traverse
    PROVE  Walk'
<1>1. UNCHANGED input /\ roots' = roots /\ pc = "traverse" /\ pc' = "traverse"
  BY DEF Traverse
<1>2. stack \in Seq(Node) /\ stack # <<>>
  BY DEF Traverse, TypeOK
<1>3. PICK n \in Node, others \in Seq(Node) : n = Head(stack) /\ others = Tail(stack)
  <2>1. Head(stack) \in Node /\ Tail(stack) \in Seq(Node)
    BY <1>2
  <2> QED
    BY <2>1, Zenon
<1> DEFINE rest == Elements(others)
<1>4. Elements(stack) = {n} \cup rest
  BY <1>2, <1>3, HeadAndTail
<1>5. found' = found \cup Matching(n) /\ \E calls \in Orders(Children(n)) : stack' = calls \o others
  BY <1>3 DEF Traverse
<1> HIDE DEF rest
<1>6. Elements(stack)' = Children(n) \cup rest
  <2>1. Children(n) \in SUBSET Node
    BY DEF Children
  <2>2. PICK calls \in Orders(Children(n)) : stack' = calls \o others
    BY <1>5
  <2>3. calls \in Seq(Node) /\ Elements(calls) = Children(n)
    BY <2>1, OrdersOf DEF Elements
  <2>4. Elements(stack') = Elements(calls) \cup rest
    BY <1>3, <2>2, <2>3, Joined DEF rest
  <2>5. QED
    BY <2>3, <2>4 DEF Elements
<1>7. PICK C \in SUBSET Node : Behind(C)
  BY <1>1 DEF Walk
<1>8. \A m \in Node : Children(m)' = Children(m) /\ Matching(m)' = Matching(m)
  BY <1>1, SameGraph
<1>9. Behind(C \cup {n})'
  <2>1. roots' \subseteq (C \cup {n}) \cup Elements(stack)'
    BY <1>1, <1>4, <1>6, <1>7 DEF Behind
  <2>2. \A m \in C \cup {n} : Children(m)' \subseteq (C \cup {n}) \cup Elements(stack)'
    BY <1>4, <1>6, <1>7, <1>8 DEF Behind
  <2>3. found' = UNION {Matching(m)' : m \in C \cup {n}}
    <3>1. found' = (UNION {Matching(m) : m \in C}) \cup Matching(n)
      BY <1>5, <1>7 DEF Behind
    <3>2. UNION {Matching(m) : m \in C} = UNION {Matching(m)' : m \in C}
      BY <1>8
    <3>3. QED
      BY <3>1, <3>2, <1>8
  <2>4. ASSUME NEW D \in SUBSET Node, roots' \subseteq D, Closed(D)'
        PROVE  (C \cup {n}) \cup Elements(stack)' \subseteq D
    <3>1. Closed(D)
      BY <1>8, <2>4 DEF Closed
    <3>2. C \cup Elements(stack) \subseteq D
      BY <1>1, <1>7, <2>4, <3>1 DEF Behind
    <3>3. n \in D /\ rest \subseteq D /\ Children(n) \subseteq D
      BY <1>4, <3>1, <3>2 DEF Closed
    <3>4. QED
      BY <1>6, <3>2, <3>3
  <2>5. QED
    BY <2>1, <2>2, <2>3, <2>4 DEF Behind
<1>10. FitsSearch' = FitsSearch
  BY <1>1 DEF input, FitsSearch, OfKind
<1>11. QED
  BY <1>1, <1>9, <1>10 DEF Walk

\* No other step changes what the invariant is about, but where the call is.
LEMMA WalkStays ==
    ASSUME Walk, UNCHANGED <<input, roots, stack, found>>,
           pc' = pc \/ (pc = "traverse" /\ stack = <<>>) \/ (pc = "files" /\ pc' # "start"),
           pc # "start" => pc' # "start", pc = "start" => pc' = "start"
    PROVE  Walk'
<1>1. \A m \in Node : Children(m)' = Children(m) /\ Matching(m)' = Matching(m)
  BY SameGraph
<1>2. FitsSearch' = FitsSearch /\ Elements(stack)' = Elements(stack)
  BY DEF input, FitsSearch, OfKind, Elements
<1>3. ASSUME NEW C \in SUBSET Node, Behind(C)
      PROVE  Behind(C)'
  <2>1. UNION {Matching(m) : m \in C} = UNION {Matching(m)' : m \in C}
    BY <1>1
  <2>2. \A D \in SUBSET Node : Closed(D)' <=> Closed(D)
    BY <1>1 DEF Closed
  <2>3. \A m \in C : Children(m)' = Children(m)
    BY <1>1
  <2>4. QED
    BY <1>2, <1>3, <2>1, <2>2, <2>3 DEF Behind
<1>4. QED
  BY <1>2, <1>3 DEF Walk

\* Each step keeps the invariant.
LEMMA WalkKept == Spec => []Walk
<1>1. TypeOK /\ Walk /\ [Next]_vars => Walk'
  <2> SUFFICES ASSUME TypeOK, Walk, [Next]_vars
               PROVE  Walk'
    OBVIOUS
  <2>1. CASE StartingNodes
    BY <2>1, WalkStarts
  <2>2. CASE Traverse
    BY <2>2, WalkGoesOn
  <2>3. CASE NothingFound \/ SomethingFound \/ SkipFile \/ SearchFile \/ PanicInFile \/ Finish
    BY <2>3, WalkStays DEF NothingFound, SomethingFound, SkipFile, SearchFile, PanicInFile, Finish, input
  <2>4. CASE UNCHANGED vars
    BY <2>4, WalkStays DEF vars, input
  <2> QED
    BY <2>1, <2>2, <2>3, <2>4 DEF Next
<1>2. QED
  BY <1>1, TypeCorrect, WalkInit, PTL DEF Spec

\* Whatever the graph and the pattern, the walk is whole (class_query.rs:80-132).
THEOREM WalkCorrect == Spec => []WalkIsWhole
<1>1. Walk => WalkIsWhole
  <2> SUFFICES ASSUME Walk, pc \in {"files", "done"}
               PROVE  \E C \in SUBSET Node : Tree(C) /\ found = UNION {Matching(n) : n \in C}
    BY DEF WalkIsWhole
  <2>1. Elements(stack) = {} /\ roots = FitsSearch
    BY DEF Walk, Elements
  <2>2. PICK C \in SUBSET Node : Behind(C)
    BY DEF Walk
  <2>3. Tree(C) /\ found = UNION {Matching(n) : n \in C}
    BY <2>1, <2>2 DEF Behind, Tree, Closed
  <2> QED
    BY <2>3
<1>2. QED
  BY <1>1, WalkKept, PTL

-----------------------------------------------------------------------------
(* The tree *)

\* Below is the least set that holds the roots and is closed under children: level by
\* level nothing else comes in, and a level that is not closed has a node more than
\* the one above, of which there are only as many as nodes.
LEMMA BelowIsTree ==
    ASSUME roots \in SUBSET Node
    PROVE  /\ roots \subseteq Below /\ Below \subseteq Node /\ Closed(Below)
           /\ \A D \in SUBSET Node : roots \subseteq D /\ Closed(D) => Below \subseteq D
<1> DEFINE next(S) == S \cup UNION {Children(n) : n \in S}
           body(l) == [k \in Nat |-> IF k = 0 THEN roots ELSE next(l[k - 1])]
           level == CHOOSE l : l = body(l)
<1>1. Below = level[Cardinality(Node)]
  BY DEF Below
<1>2. \A S \in SUBSET Node : next(S) \in SUBSET Node /\ S \subseteq next(S)
  BY DEF Children
<1>3. \E l : l = body(l)
  <2> DEFINE g == [S \in SUBSET Node |-> next(S)]
  <2>1. g \in [SUBSET Node -> SUBSET Node]
    BY <1>2
  <2>2. PICK f \in [Nat -> SUBSET Node] : f[0] = roots /\ \A k \in Nat : f[k + 1] = g[f[k]]
    <3> DEFINE V == SUBSET Node
    <3>1. g \in [V -> V] /\ roots \in V
      BY <2>1
    <3> HIDE DEF g, V
    <3>2. \E f \in [Nat -> V] : f[0] = roots /\ \A k \in Nat : f[k + 1] = g[f[k]]
      BY <3>1, Iterated
    <3>3. QED
      BY <3>2 DEF V
  <2>3. ASSUME NEW k \in Nat PROVE f[k] = IF k = 0 THEN roots ELSE next(f[k - 1])
    <3>1. CASE k = 0
      BY <2>2, <3>1
    <3>2. CASE k # 0
      <4>1. k - 1 \in Nat /\ (k - 1) + 1 = k
        BY <3>2
      <4>2. f[k] = g[f[k - 1]] /\ f[k - 1] \in SUBSET Node
        BY <2>2, <4>1
      <4>3. QED
        BY <3>2, <4>2
    <3>3. QED
      BY <3>1, <3>2
  <2> HIDE DEF next
  <2>4. f = body(f)
    BY <2>2, <2>3
  <2>5. QED
    BY <2>4
<1>4. level = body(level)
  <2> HIDE DEF body
  <2> QED
    BY <1>3
<1> HIDE DEF level, next
<1>5. level[0] = roots /\ \A k \in Nat : level[k + 1] = next(level[k])
  <2>1. level[0] = roots
    BY <1>4
  <2>2. ASSUME NEW k \in Nat PROVE level[k + 1] = next(level[k])
    <3>1. k + 1 \in Nat /\ k + 1 # 0 /\ (k + 1) - 1 = k
      OBVIOUS
    <3>2. level[k + 1] = body(level)[k + 1]
      BY <1>4
    <3>3. QED
      BY <3>1, <3>2
  <2>3. QED
    BY <2>1, <2>2
<1> HIDE DEF body
<1>6. \A k \in Nat : roots \subseteq level[k] /\ level[k] \in SUBSET Node
  <2> DEFINE S == {k \in Nat : roots \subseteq level[k] /\ level[k] \in SUBSET Node}
  <2>1. 0 \in S
    BY <1>5
  <2>2. \A k \in S : k + 1 \in S
    BY <1>2, <1>5
  <2> HIDE DEF S
  <2>3. S = Nat
    BY <2>1, <2>2, EveryNumber DEF S
  <2>4. QED
    BY <2>3 DEF S
<1>7. \A D \in SUBSET Node : roots \subseteq D /\ Closed(D) => \A k \in Nat : level[k] \subseteq D
  <2> SUFFICES ASSUME NEW D \in SUBSET Node, roots \subseteq D, Closed(D)
               PROVE  \A k \in Nat : level[k] \subseteq D
    OBVIOUS
  <2> DEFINE S == {k \in Nat : level[k] \subseteq D}
  <2>1. 0 \in S
    BY <1>5
  <2>2. \A k \in S : k + 1 \in S
    BY <1>5 DEF next, Closed
  <2> HIDE DEF S
  <2>3. S = Nat
    BY <2>1, <2>2, EveryNumber DEF S
  <2>4. QED
    BY <2>3 DEF S
<1>8. \A k \in Nat : Closed(level[k]) \/ k <= Cardinality(level[k])
  <2> DEFINE S == {k \in Nat : Closed(level[k]) \/ k <= Cardinality(level[k])}
  <2>0. \A k \in Nat : IsFiniteSet(level[k]) /\ Cardinality(level[k]) \in Nat
    BY <1>6, Handles, FS_Subset, FS_CardinalityType
  <2>1. 0 \in S
    BY <2>0
  <2>2. ASSUME NEW k \in S PROVE k + 1 \in S
    <3>1. k \in Nat /\ k + 1 \in Nat /\ level[k + 1] = next(level[k]) /\ level[k] \subseteq level[k + 1]
      BY <1>2, <1>5, <1>6
    <3>2. CASE Closed(level[k])
      <4>1. level[k + 1] = level[k]
        BY <3>1, <3>2 DEF next, Closed
      <4>2. QED
        BY <3>1, <3>2, <4>1
    <3>3. CASE ~Closed(level[k])
      <4>1. level[k + 1] # level[k]
        BY <3>1, <3>3 DEF next, Closed
      <4>2. Cardinality(level[k]) < Cardinality(level[k + 1])
        <5>1. Cardinality(level[k]) <= Cardinality(level[k + 1])
          BY <2>0, <3>1, FS_Subset
        <5>2. Cardinality(level[k]) # Cardinality(level[k + 1])
          BY <2>0, <3>1, <4>1, FS_Subset
        <5>3. QED
          BY <2>0, <3>1, <5>1, <5>2
      <4>3. k <= Cardinality(level[k])
        BY <3>3
      <4>4. k + 1 <= Cardinality(level[k + 1])
        BY <2>0, <3>1, <4>2, <4>3
      <4>5. QED
        BY <3>1, <4>4
    <3>4. QED
      BY <3>2, <3>3
  <2> HIDE DEF S
  <2>3. S = Nat
    BY <2>1, <2>2, EveryNumber DEF S
  <2>4. QED
    BY <2>3 DEF S
<1>9. Cardinality(Node) \in Nat
  BY Handles, FS_CardinalityType
<1>10. Closed(Below)
  <2>1. Below \in SUBSET Node
    BY <1>1, <1>6, <1>9
  <2>2. Closed(Below) \/ Cardinality(Node) <= Cardinality(Below)
    BY <1>1, <1>8, <1>9
  <2>3. ASSUME Cardinality(Node) <= Cardinality(Below) PROVE Below = Node
    <3>1. Cardinality(Below) <= Cardinality(Node) /\ Cardinality(Below) \in Nat
      BY <2>1, Handles, FS_Subset, FS_CardinalityType
    <3>2. Cardinality(Below) = Cardinality(Node)
      BY <1>9, <2>3, <3>1
    <3>3. QED
      BY <2>1, <3>2, Handles, FS_Subset
  <2>4. Closed(Node)
    BY DEF Closed, Children
  <2>5. QED
    BY <2>2, <2>3, <2>4
<1>11. QED
  BY <1>1, <1>6, <1>7, <1>9, <1>10

\* When the walk is over, what is behind it is the tree.
LEMMA FoundIsMatched ==
    ASSUME TypeOK, Walk, pc \in {"files", "done"}
    PROVE  found = Matched /\ roots = FitsSearch
<1>1. Elements(stack) = {} /\ roots = FitsSearch /\ roots \in SUBSET Node
  <2>1. stack = <<>> /\ roots = FitsSearch
    BY DEF Walk
  <2>2. Elements(<<>>) = {}
    BY DEF Elements
  <2>3. roots \in SUBSET Node
    BY DEF TypeOK
  <2>4. QED
    BY <2>1, <2>2, <2>3
<1>2. PICK C \in SUBSET Node : Behind(C)
  BY DEF Walk
<1>3. roots \subseteq C /\ Closed(C) /\ found = UNION {Matching(n) : n \in C}
  BY <1>1, <1>2 DEF Behind, Closed
<1>4. Below \subseteq C
  BY <1>1, <1>3, BelowIsTree
<1>5. C \subseteq Below
  BY <1>1, <1>2, BelowIsTree DEF Behind
<1>6. QED
  BY <1>1, <1>3, <1>4, <1>5 DEF Matched

\* When the walk is over it has found exactly the matching definitions below the
\* fitting namespaces, however deep, on any graph (class_query.rs:79-131,
\* namespace_query.rs:140-173).
THEOREM FindsAll == Spec => []FindsReachable
<1>1. TypeOK /\ Walk => FindsReachable
  BY FoundIsMatched DEF TypeOK, FindsReachable
<1>2. QED
  BY <1>1, WalkKept, TypeCorrect, PTL DEF Spec

-----------------------------------------------------------------------------
(* Full names *)

Naming == Fqdn \cup {NoFqdn}

\* What get_fqdn returns for n, given what it returns for the owner.
Base(n, up) == IF Owners(n) = {} THEN Unnamed ELSE up[First(Owners(n))]

\* A name is none of the missing ones.
LEMMA FqdnIsThere == \A f \in Fqdn : f # NoFqdn
<1> SUFFICES ASSUME NEW f \in Fqdn, f = NoFqdn PROVE FALSE
  OBVIOUS
<1>1. "missing" \in DOMAIN NoFqdn
  BY DEF NoFqdn
<1>2. "missing" \notin DOMAIN f
  BY DEF Fqdn
<1>3. QED
  BY <1>1, <1>2

\* One call of get_fqdn: what it adds to the name of the owner.
LEMMA NamedType ==
    ASSUME graph \in Graph, NEW n \in Node, NEW base \in Naming
    PROVE  /\ Named(n, base) \in Naming
           /\ graph.kind[n] \in {"namespace", "class", "method", "field"} => Named(n, base) \in Fqdn
           /\ graph.kind[n] \notin {"namespace", "class", "method", "field"} =>
                 Named(n, base) \in {NoFqdn, Unnamed}
<1>1. graph.symbol[n] \in Symbol
  BY DEF Graph
<1>2. Unnamed \in Fqdn
  BY DEF Unnamed, Fqdn, Symbol
<1>3. CASE base = NoFqdn
  BY <1>2, <1>3 DEF Named, Naming
<1>4. CASE base # NoFqdn
  <2>1. base \in Fqdn
    BY <1>4 DEF Naming
  <2>2. /\ [base EXCEPT !.namespace = @ \o graph.symbol[n]] \in Fqdn
        /\ [base EXCEPT !.class = @ \o graph.symbol[n]] \in Fqdn
        /\ [base EXCEPT !.method = @ \o graph.symbol[n]] \in Fqdn
        /\ [base EXCEPT !.field = @ \o graph.symbol[n]] \in Fqdn
    <3>1. \A s \in Symbol : s \o graph.symbol[n] \in Symbol
      BY <1>1 DEF Symbol
    <3>2. base.namespace \in Symbol /\ base.class \in Symbol /\ base.method \in Symbol /\ base.field \in Symbol
      BY <2>1 DEF Fqdn
    <3>3. \A s \in Symbol :
             /\ [base EXCEPT !.namespace = s] \in Fqdn /\ [base EXCEPT !.class = s] \in Fqdn
             /\ [base EXCEPT !.method = s] \in Fqdn /\ [base EXCEPT !.field = s] \in Fqdn
      BY <2>1 DEF Fqdn
    <3>4. QED
      BY <3>1, <3>2, <3>3
  <2>3. graph.kind[n] \in {"namespace", "class", "method", "field"} => Named(n, base) \in Fqdn
    BY <1>4, <2>2 DEF Named
  <2>4. graph.kind[n] \notin {"namespace", "class", "method", "field"} => Named(n, base) = NoFqdn
    BY <1>4 DEF Named
  <2>5. QED
    BY <2>3, <2>4 DEF Naming
<1>5. QED
  BY <1>3, <1>4

\* get_fqdn has a result on each node: one call after the other, the result for a node
\* stays the same once that for its owner does, and nothing encloses itself.
LEMMA FqdnOfOwner ==
    ASSUME graph \in Graph, Shaped(graph)
    PROVE  FqdnOf \in [Node -> Naming] /\ \A n \in Node : FqdnOf[n] = Named(n, Base(n, FqdnOf))
<1> DEFINE body(up) == [n \in Node |-> Named(n, Base(n, up))]
           V == [Node -> Naming]
<1>1. \A n \in Node : Owners(n) # {} =>
         /\ First(Owners(n)) \in Node /\ <<n, First(Owners(n))>> \in graph.owner
         /\ First(Owners(n)) \in Owners(n)
  <2> SUFFICES ASSUME NEW n \in Node, Owners(n) # {}
               PROVE  First(Owners(n)) \in Owners(n)
    BY DEF Owners
  <2>1. Owners(n) \in SUBSET Node
    BY DEF Owners
  <2>2. QED
    BY <2>1, FirstOf
<1>2. \A S \in SUBSET Node :
         (\A n \in S : Owners(n) # {} /\ First(Owners(n)) \in S) => S = {}
  <2> SUFFICES ASSUME NEW S \in SUBSET Node, \A n \in S : Owners(n) # {} /\ First(Owners(n)) \in S
               PROVE  S = {}
    OBVIOUS
  <2>1. \A n \in S : \E m \in S : <<n, m>> \in graph.owner
    BY <1>1
  <2>2. S \in SUBSET {e[1] : e \in graph.owner}
    <3>1. \A n \in S : \E e \in graph.owner : n = e[1]
      BY <2>1
    <3>2. QED
      BY <3>1
  <2>3. QED
    BY <2>1, <2>2 DEF Shaped
<1>3. \A up \in V : body(up) \in V
  <2> SUFFICES ASSUME NEW up \in V, NEW n \in Node
               PROVE  Named(n, Base(n, up)) \in Naming
    OBVIOUS
  <2>1. Base(n, up) \in Naming
    <3>1. Unnamed \in Naming
      BY DEF Unnamed, Naming, Fqdn, Symbol
    <3>2. QED
      BY <1>1, <3>1 DEF Base
  <2>2. QED
    BY <2>1, NamedType
<1>4. \E up \in V : up = body(up)
  <2> DEFINE g == [up \in V |-> body(up)]
             none == [n \in Node |-> NoFqdn]
  <2>1. g \in [V -> V] /\ none \in V
    <3>1. none \in V
      BY DEF Naming
    <3> HIDE DEF V, body
    <3>2. g \in [V -> V]
      BY <1>3
    <3>3. QED
      BY <3>1, <3>2
  <2>2. PICK f \in [Nat -> V] : f[0] = none /\ \A k \in Nat : f[k + 1] = g[f[k]]
    <3> HIDE DEF g, none, V
    <3> QED
      BY <2>1, Iterated
  <2> DEFINE Stable(n, k) == \A l \in Nat : k <= l => f[l][n] = f[k][n]
             S == {n \in Node : \A k \in Nat : ~Stable(n, k)}
  <2>3. \A k \in Nat : f[k + 1] = body(f[k]) /\ f[k] \in V
    <3> HIDE DEF V, body
    <3> QED
      BY <2>2
  <2>4. \A k \in Nat, n \in Node : f[k + 1][n] = Named(n, Base(n, f[k]))
    BY <2>3
  <2>5. \A n \in Node, l \in Nat : l >= 1 => f[l][n] = Named(n, Base(n, f[l - 1]))
    <3> SUFFICES ASSUME NEW n \in Node, NEW l \in Nat, l >= 1
                 PROVE  f[l][n] = Named(n, Base(n, f[l - 1]))
      OBVIOUS
    <3>1. l - 1 \in Nat /\ (l - 1) + 1 = l
      OBVIOUS
    <3>2. QED
      BY <2>4, <3>1
  <2>6. ASSUME NEW n \in Node, Owners(n) = {} PROVE Stable(n, 1)
    <3>1. \A l \in Nat : l >= 1 => f[l][n] = Named(n, Unnamed)
      BY <2>5, <2>6 DEF Base
    <3>2. QED
      BY <3>1
  <2>7. ASSUME NEW n \in Node, Owners(n) # {}, NEW k \in Nat, Stable(First(Owners(n)), k)
        PROVE  Stable(n, k + 1)
    <3>1. \A l \in Nat : l >= k + 1 => f[l][n] = Named(n, f[k][First(Owners(n))])
      <4> SUFFICES ASSUME NEW l \in Nat, l >= k + 1
                   PROVE  f[l][n] = Named(n, f[k][First(Owners(n))])
        OBVIOUS
      <4>1. l >= 1 /\ l - 1 \in Nat /\ k <= l - 1
        OBVIOUS
      <4>2. f[l][n] = Named(n, f[l - 1][First(Owners(n))])
        BY <2>5, <2>7, <4>1 DEF Base
      <4>3. f[l - 1][First(Owners(n))] = f[k][First(Owners(n))]
        BY <2>7, <4>1
      <4>4. QED
        BY <4>2, <4>3
    <3>2. k + 1 \in Nat /\ k + 1 >= k + 1
      OBVIOUS
    <3>3. QED
      BY <3>1, <3>2
  <2> HIDE DEF Stable
  <2>8. S = {}
    <3>1. \A n \in S : Owners(n) # {} /\ First(Owners(n)) \in S
      <4> SUFFICES ASSUME NEW n \in S
                   PROVE  Owners(n) # {} /\ First(Owners(n)) \in S
        OBVIOUS
      <4>1. Owners(n) # {}
        BY <2>6
      <4>2. First(Owners(n)) \in Node
        BY <1>1, <4>1
      <4>3. ASSUME NEW k \in Nat, Stable(First(Owners(n)), k) PROVE FALSE
        BY <2>7, <4>1, <4>3, k + 1 \in Nat
      <4>4. QED
        BY <4>1, <4>2, <4>3
    <3>2. S \in SUBSET Node
      OBVIOUS
    <3> HIDE DEF S
    <3>3. QED
      BY <1>2, <3>1, <3>2
  <2> DEFINE at(n) == CHOOSE k \in Nat : Stable(n, k)
             up == [n \in Node |-> f[at(n)][n]]
  <2>9. \A n \in Node : at(n) \in Nat /\ Stable(n, at(n))
    BY <2>8
  <2> HIDE DEF at, S
  <2>10. \A n \in Node, l \in Nat : at(n) <= l => f[l][n] = up[n]
    BY <2>9 DEF Stable
  <2>11. up \in V
    BY <2>3, <2>9
  <2>12. ASSUME NEW n \in Node PROVE up[n] = Named(n, Base(n, up))
    <3>1. CASE Owners(n) = {}
      <4>1. at(n) + 1 \in Nat /\ at(n) <= at(n) + 1
        BY <2>9
      <4>2. up[n] = f[at(n) + 1][n]
        BY <2>10, <4>1
      <4>3. QED
        BY <2>4, <2>9, <3>1, <4>2 DEF Base
    <3>2. CASE Owners(n) # {}
      <4>1. PICK o \in Node : o = First(Owners(n))
        BY <1>1, <3>2
      <4>2. at(n) \in Nat /\ at(o) \in Nat
        BY <2>9
      <4>3. PICK l \in Nat : at(n) <= l + 1 /\ at(o) <= l
        <5>1. at(n) + at(o) \in Nat /\ at(n) <= (at(n) + at(o)) + 1 /\ at(o) <= at(n) + at(o)
          BY <4>2
        <5>2. QED
          BY <5>1
      <4>4. up[n] = f[l + 1][n] /\ up[o] = f[l][o]
        BY <2>10, <4>3
      <4> HIDE DEF up
      <4>5. QED
        BY <2>4, <3>2, <4>1, <4>4 DEF Base
    <3>3. QED
      BY <3>1, <3>2
  <2> HIDE DEF up
  <2>13. up = body(up)
    BY <2>11, <2>12
  <2>14. QED
    BY <2>11, <2>13
<1>5. FqdnOf = CHOOSE up : up = body(up)
  BY DEF FqdnOf, Base
<1>6. FqdnOf = body(FqdnOf)
  <2> HIDE DEF body, V
  <2> QED
    BY <1>4, <1>5
<1>7. \A n \in Node : FqdnOf[n] = Named(n, Base(n, FqdnOf))
  BY <1>6
<1>8. {n \in Node : FqdnOf[n] \notin Naming} = {}
  <2> DEFINE S == {n \in Node : FqdnOf[n] \notin Naming}
  <2>1. \A n \in S : Owners(n) # {} /\ First(Owners(n)) \in S
    <3> SUFFICES ASSUME NEW n \in S
                 PROVE  Owners(n) # {} /\ First(Owners(n)) \in S
      OBVIOUS
    <3>1. Base(n, FqdnOf) \notin Naming
      BY <1>7, NamedType
    <3>2. Unnamed \in Naming
      BY DEF Unnamed, Naming, Fqdn, Symbol
    <3>3. Owners(n) # {} /\ FqdnOf[First(Owners(n))] \notin Naming
      BY <3>1, <3>2 DEF Base
    <3>4. QED
      BY <1>1, <3>3
  <2>2. S \in SUBSET Node
    OBVIOUS
  <2> HIDE DEF S
  <2>3. S = {}
    BY <1>2, <2>1, <2>2
  <2>4. QED
    BY <2>3 DEF S
<1>9. FqdnOf \in V
  <2>1. \A n \in Node : FqdnOf[n] \in Naming
    BY <1>8
  <2>2. FqdnOf = [n \in Node |-> Named(n, Base(n, FqdnOf))]
    BY <1>6
  <2>3. QED
    BY <2>1, <2>2
<1>10. QED
  BY <1>7, <1>9

-----------------------------------------------------------------------------
(* References *)

\* The name that a candidate stands for is y, or x itself if x is not a class.
Stands(m, x, y) ==
    graph.symbol[m] = <<y>> \/ (graph.symbol[m] = <<x>> /\ graph.kind[m] \in {"method", "field"})

LEMMA CandidateStands ==
    ASSUME NEW f, NEW x, NEW y, NEW c \in Candidates(f, x, y)
    PROVE  c \in Candidate /\ Stands(c[3], x, y)
<1> DEFINE defs == {d \in Searchable(f) \cap Definitions : graph.symbol[d] = <<x>>}
           ofKind(kinds) == {d \in defs : graph.kind[d] \in kinds}
<1>1. \A kinds : ofKind(kinds) \subseteq Node
  BY DEF Definitions
<1>2. CASE c \in {<<d, d, First(Members(d, y))>> : d \in {e \in ofKind({"class"}) : Members(e, y) # {}}}
  <2>1. PICK d \in Node : c = <<d, d, First(Members(d, y))>> /\ Members(d, y) # {}
    BY <1>1, <1>2
  <2>2. Members(d, y) \in SUBSET Node
    BY DEF Members, Edges, Children, Owners
  <2>3. First(Members(d, y)) \in Members(d, y)
    BY <2>1, <2>2, FirstOf
  <2>4. QED
    BY <2>1, <2>2, <2>3 DEF Members, Candidate, Stands
<1>3. CASE c \in {<<d, d, d>> : d \in ofKind({"method", "field"})}
  <2>1. PICK d \in ofKind({"method", "field"}) : c = <<d, d, d>>
    BY <1>3
  <2>2. d \in Node /\ graph.symbol[d] = <<x>> /\ graph.kind[d] \in {"method", "field"}
    BY <1>1
  <2>3. QED
    BY <2>1, <2>2 DEF Candidate, Stands
<1>4. CASE c \in UNION {VarCandidates(d, f, y) : d \in ofKind({"var"})}
  <2>1. PICK d \in Node : c \in VarCandidates(d, f, y)
    BY <1>1, <1>4
  <2>2. Searchable(f) \subseteq Node
    BY DEF Searchable, InFile, Definitions
  <2>3. QED
    BY <2>1, <2>2 DEF VarCandidates, Candidate, Stands
<1>5. QED
  BY <1>2, <1>3, <1>4 DEF Candidates

\* What is resolved is the full name of one that stands for it, in a namespace that
\* the file imports.
LEMMA ResolvedTo ==
    ASSUME NEW n \in Node, Resolved(n) # NoFqdn
    PROVE  \E m \in Node :
              /\ Resolved(n) = FqdnOf[m] /\ FqdnOf[m] # NoFqdn
              /\ FqdnOf[m].namespace \in Imports(graph.file[n])
              /\ Stands(m, graph.symbol[n][1], graph.symbol[n][2])
<1> DEFINE fit == Fitting(graph.file[n], CandidatesOf(n))
<1>1. Resolved(n) = Selected(graph.file[n], CandidatesOf(n))
  BY DEF Resolved
<1>2. fit # {} /\ Resolved(n) = FqdnOf[(CHOOSE c \in fit : \A d \in fit : Before(c, d))[3]]
  BY <1>1 DEF Selected
<1>3. \A c \in fit : /\ c \in Candidate /\ Stands(c[3], graph.symbol[n][1], graph.symbol[n][2])
                     /\ FqdnOf[c[3]] # NoFqdn
                     /\ FqdnOf[c[3]].namespace \in Imports(graph.file[n])
  BY CandidateStands DEF Fitting, CandidatesOf
<1> HIDE DEF fit
<1>4. \E c \in fit : \A d \in fit : Before(c, d)
  <2>1. fit \in SUBSET Candidate
    BY <1>3
  <2>2. QED
    BY <1>2, <2>1, FirstTriple
<1>5. PICK c \in fit : Resolved(n) = FqdnOf[c[3]]
  BY <1>2, <1>4
<1>6. c[3] \in Node
  BY <1>3, <1>5 DEF Candidate
<1>7. QED
  BY <1>3, <1>5, <1>6

\* A reference is reported for a reason.
LEMMA ReportedFor ==
    ASSUME NEW n \in Node, graph.kind[n] = "ref", Reported(n)
    PROVE  \E m \in Node :
              /\ FqdnOf[m] # NoFqdn /\ Asked(FqdnOf[m])
              /\ FqdnOf[m].namespace \in Imports(graph.file[n])
              /\ Stands(m, graph.symbol[n][1], graph.symbol[n][2])
<1>1. Resolved(n) # NoFqdn /\ MatchFqdn(Resolved(n))
  BY DEF Reported
<1>2. PICK m \in Node :
         /\ Resolved(n) = FqdnOf[m] /\ FqdnOf[m] # NoFqdn
         /\ FqdnOf[m].namespace \in Imports(graph.file[n])
         /\ Stands(m, graph.symbol[n][1], graph.symbol[n][2])
  BY <1>1, ResolvedTo
<1>3. Asked(FqdnOf[m])
  BY <1>1, <1>2 DEF MatchFqdn, Names, Asked
<1>4. QED
  BY <1>2, <1>3

\* Nothing is reported before the walk is over.
Justified ==
    /\ pc \in {"start", "traverse"} => results = {}
    /\ ResultsJustified

\* A step that adds no result, and no definition once there are results.
LEMMA JustifiedStays ==
    ASSUME Justified, UNCHANGED <<input, results>>,
           results # {} => UNCHANGED found,
           pc' \in {"start", "traverse"} => pc \in {"start", "traverse"}
    PROVE  Justified'
<1>1. FqdnOf' = FqdnOf
  BY SameGraph DEF input
<1>2. \A f : Imports(f)' = Imports(f)
  BY DEF input, Imports, InFile, OfKind
<1>3. CASE results = {}
  BY <1>3 DEF Justified, ResultsJustified
<1>4. CASE results # {}
  <2>1. \A f : Asked(f)' <=> Asked(f)
    BY <1>1, <1>4 DEF Asked, ClassPart
  <2>2. QED
    BY <1>1, <1>2, <2>1 DEF Justified, ResultsJustified, input
<1>5. QED
  BY <1>3, <1>4

\* A reference is reported only for a definition in a namespace that its file
\* imports, one that matches or is a member of a class that does, and that bears
\* the reference's name (query.rs:338-402, 498-710).
THEOREM ResultsCorrect == Spec => []ResultsJustified
<1>1. Init => Justified
  BY DEF Init, Justified, ResultsJustified
<1>2. Justified /\ TypeOK /\ [Next]_vars => Justified'
  <2> SUFFICES ASSUME Justified, TypeOK, [Next]_vars
               PROVE  Justified'
    OBVIOUS
  <2>1. CASE SearchFile
    <3> DEFINE new == {n \in InFile(First(files)) : Reported(n)}
    <3>1. UNCHANGED <<input, found, pc>> /\ results' = results \cup new /\ pc = "files"
      BY <2>1 DEF SearchFile
    <3>2. FqdnOf' = FqdnOf
      BY <3>1, SameGraph
    <3>3. \A f : Imports(f)' = Imports(f)
      BY <3>1 DEF input, Imports, InFile, OfKind
    <3>4. \A f : Asked(f)' <=> Asked(f)
      BY <3>1, <3>2 DEF Asked, ClassPart
    <3>5. new \subseteq Node /\ graph' = graph
      BY <3>1 DEF InFile, input
    <3>6. \A n \in new : graph.kind[n] = "ref" =>
             \E m \in Node :
                /\ FqdnOf[m] # NoFqdn /\ Asked(FqdnOf[m])
                /\ FqdnOf[m].namespace \in Imports(graph.file[n])
                /\ Stands(m, graph.symbol[n][1], graph.symbol[n][2])
      BY <3>5, ReportedFor
    <3> HIDE DEF new
    <3>7. ResultsJustified'
      BY <3>1, <3>2, <3>3, <3>4, <3>5, <3>6 DEF Justified, ResultsJustified, Stands
    <3> QED
      BY <3>1, <3>7 DEF Justified
  <2>2. CASE Traverse
    BY <2>2, JustifiedStays DEF Traverse, Justified
  <2>3. CASE StartingNodes \/ NothingFound \/ SomethingFound \/ SkipFile \/ PanicInFile \/ Finish
    BY <2>3, JustifiedStays DEF StartingNodes, NothingFound, SomethingFound, SkipFile, PanicInFile, Finish
  <2>4. CASE UNCHANGED vars
    BY <2>4, JustifiedStays DEF vars
  <2> QED
    BY <2>1, <2>2, <2>3, <2>4 DEF Next
<1>3. Justified => ResultsJustified
  BY DEF Justified
<1>4. QED
  BY <1>1, <1>2, <1>3, TypeCorrect, PTL DEF Spec
-----------------------------------------------------------------------------
(* Uses *)

\* The owner that a declaration takes its name from.
NamedBy(y, x) ==
    /\ x \in Node /\ y \in Node /\ graph.kind[y] \in {"class", "method", "field"}
    /\ Owners(y) # {} /\ x = First(Owners(y))

\* What is declared in a class, and each member, has no other owner.
LEMMA OneOwner ==
    ASSUME graph \in Graph, Shaped(graph), NEW x \in Node, NEW y \in Children(x),
           graph.kind[y] \in {"class", "method", "field"}
    PROVE  /\ y \in Node /\ x \in Owners(y)
           /\ graph.kind[x] = "class" \/ graph.kind[y] # "class" => NamedBy(y, x)
<1>1. y \in Node /\ <<x, y>> \in graph.child
  BY DEF Children
<1>2. <<y, x>> \in graph.owner
  BY <1>1 DEF Shaped
<1>3. ASSUME graph.kind[x] = "class" \/ graph.kind[y] # "class" PROVE Owners(y) = {x}
  <2>1. graph.kind[x] = "class" \/ graph.kind[y] \in {"method", "field"}
    BY <1>3
  <2>2. \A m \in Node : <<y, m>> \in graph.owner => m = x
    BY <1>1, <2>1 DEF Shaped
  <2>3. QED
    BY <1>2, <2>2 DEF Owners
<1>4. First({x}) = x
  BY {x} \in SUBSET Node, FirstOf
<1>5. QED
  BY <1>1, <1>2, <1>3, <1>4 DEF Owners, NamedBy

\* It encloses the declaration.
LEMMA NamedByParent ==
    ASSUME graph \in Graph, Shaped(graph), NEW x, NEW y, NamedBy(y, x)
    PROVE  <<x, y>> \in graph.child /\ <<y, x>> \in graph.owner
<1>1. Owners(y) \in SUBSET Node /\ x \in Node /\ y \in Node
  BY DEF Owners, NamedBy
<1>2. x \in Owners(y)
  BY <1>1, FirstOf DEF NamedBy
<1>3. <<y, x>> \in graph.owner
  BY <1>2 DEF Owners
<1>4. <<<<y, x>>[2], <<y, x>>[1]>> \in graph.child
  BY <1>3 DEF Shaped
<1>5. QED
  BY <1>3, <1>4

\* The two names.
LEMMA NamedInOwner ==
    ASSUME graph \in Graph, Shaped(graph), NEW x, NEW y, NamedBy(y, x)
    PROVE  /\ graph.kind[x] \in {"namespace", "class"} /\ FqdnOf[x] \in Fqdn /\ FqdnOf[y] \in Fqdn
           /\ FqdnOf[y] = Named(y, FqdnOf[x])
<1>1. /\ x \in Node /\ y \in Node /\ <<x, y>> \in graph.child
      /\ graph.kind[y] \in {"class", "method", "field"}
  BY NamedByParent DEF NamedBy
<1>2. graph.kind[x] \in Parents(graph.kind[y])
  BY <1>1 DEF Shaped
<1>3. graph.kind[x] \in {"namespace", "class"}
  BY <1>1, <1>2 DEF Parents
<1>4. Owners(y) # {} /\ First(Owners(y)) = x
  BY DEF NamedBy
<1>6. /\ FqdnOf[x] = Named(x, Base(x, FqdnOf)) /\ FqdnOf[y] = Named(y, FqdnOf[x])
      /\ FqdnOf[x] \in Naming /\ Base(x, FqdnOf) \in Naming
  <2>1. \A n \in Node : FqdnOf[n] = Named(n, Base(n, FqdnOf)) /\ FqdnOf[n] \in Naming
    BY FqdnOfOwner
  <2>2. Base(y, FqdnOf) = FqdnOf[x]
    BY <1>4 DEF Base
  <2>3. Base(x, FqdnOf) \in Naming
    <3>1. CASE Owners(x) = {}
      BY <3>1 DEF Base, Unnamed, Naming, Fqdn, Symbol
    <3>2. CASE Owners(x) # {}
      <4>1. Owners(x) \in SUBSET Node
        BY DEF Owners
      <4>2. First(Owners(x)) \in Node
        BY <3>2, <4>1, FirstOf
      <4>3. QED
        BY <2>1, <3>2, <4>2 DEF Base
    <3>3. QED
      BY <3>1, <3>2
  <2>4. QED
    BY <1>1, <2>1, <2>2, <2>3
<1>7. FqdnOf[x] \in Fqdn /\ FqdnOf[y] \in Fqdn
  <2>1. FqdnOf[x] \in Fqdn
    BY <1>1, <1>3, <1>6, NamedType
  <2>2. FqdnOf[y] \in Fqdn
    BY <1>1, <1>6, NamedType
  <2>3. QED
    BY <2>1, <2>2
<1>8. QED
  BY <1>3, <1>6, <1>7

\* So it stands in the same namespace, and what it adds to the name is its own symbol.
LEMMA AddedToOwner ==
    ASSUME graph \in Graph, Shaped(graph), NEW x, NEW y, NamedBy(y, x)
    PROVE  /\ FqdnOf[y].namespace = FqdnOf[x].namespace
           /\ graph.kind[y] = "class" =>
                 FqdnOf[y] = [FqdnOf[x] EXCEPT !.class = @ \o graph.symbol[y]]
           /\ graph.kind[y] = "method" =>
                 FqdnOf[y] = [FqdnOf[x] EXCEPT !.method = @ \o graph.symbol[y]]
           /\ graph.kind[y] = "field" =>
                 FqdnOf[y] = [FqdnOf[x] EXCEPT !.field = @ \o graph.symbol[y]]
<1>1. FqdnOf[x] \in Fqdn /\ FqdnOf[x] # NoFqdn /\ FqdnOf[y] = Named(y, FqdnOf[x])
  BY NamedInOwner, FqdnIsThere
<1> graph.kind[y] \in {"class", "method", "field"}
  BY DEF NamedBy
<1>2. /\ graph.kind[y] = "class" =>
            FqdnOf[y] = [FqdnOf[x] EXCEPT !.class = @ \o graph.symbol[y]]
      /\ graph.kind[y] = "method" =>
            FqdnOf[y] = [FqdnOf[x] EXCEPT !.method = @ \o graph.symbol[y]]
      /\ graph.kind[y] = "field" =>
            FqdnOf[y] = [FqdnOf[x] EXCEPT !.field = @ \o graph.symbol[y]]
  BY <1>1 DEF Named
<1>3. \A f \in Fqdn : \A s :
          /\ [f EXCEPT !.class = s].namespace = f.namespace
          /\ [f EXCEPT !.method = s].namespace = f.namespace
          /\ [f EXCEPT !.field = s].namespace = f.namespace
  BY DEF Fqdn
<1>4. FqdnOf[y].namespace = FqdnOf[x].namespace
  <2>1. CASE graph.kind[y] = "class"
    <3>1. PICK name : FqdnOf[y] = [FqdnOf[x] EXCEPT !.class = name]
      BY <1>2, <2>1
    <3>2. QED
      BY <1>1, <1>3, <3>1
  <2>2. CASE graph.kind[y] = "method"
    <3>1. PICK name : FqdnOf[y] = [FqdnOf[x] EXCEPT !.method = name]
      BY <1>2, <2>2
    <3>2. QED
      BY <1>1, <1>3, <3>1
  <2>3. CASE graph.kind[y] = "field"
    <3>1. PICK name : FqdnOf[y] = [FqdnOf[x] EXCEPT !.field = name]
      BY <1>2, <2>3
    <3>2. QED
      BY <1>1, <1>3, <3>1
  <2>4. QED
    BY <2>1, <2>2, <2>3
<1>5. QED
  BY <1>2, <1>4

\* A namespace has no owner, so its name is its symbol.
LEMMA NamespaceName ==
    ASSUME graph \in Graph, Shaped(graph), NEW r \in Node, graph.kind[r] = "namespace"
    PROVE  FqdnOf[r].class = <<>> /\ FqdnOf[r].method = <<>> /\ FqdnOf[r].field = <<>>
<1>1. Owners(r) = {}
  <2> SUFFICES ASSUME NEW m \in Node, <<r, m>> \in graph.owner PROVE FALSE
    BY DEF Owners
  <2>1. graph.kind[<<r, m>>[1]] # "namespace"
    BY DEF Shaped
  <2>2. QED
    BY <2>1
<1>2. FqdnOf[r] = Named(r, Unnamed)
  BY <1>1, FqdnOfOwner DEF Base
<1>3. Unnamed # NoFqdn
  <2>1. Unnamed \in Fqdn
    BY DEF Unnamed, Fqdn, Symbol
  <2>2. QED
    BY <2>1, FqdnIsThere
<1>4. FqdnOf[r] = [Unnamed EXCEPT !.namespace = @ \o graph.symbol[r]]
  BY <1>2, <1>3 DEF Named
<1>5. QED
  BY <1>4 DEF Unnamed

\* What stands below a fitting namespace: it is in a file that declares one, and the
\* name of a class has no member.
Standing(x) ==
    /\ graph.kind[x] # "unit"
    /\ graph.kind[x] \in {"namespace", "class"} =>
          FqdnOf[x].method = <<>> /\ FqdnOf[x].field = <<>>
    /\ graph.kind[x] = "class" => FqdnOf[x].class # <<>>
    /\ \E r \in roots : graph.file[r] = graph.file[x]

LEMMA BelowStands ==
    ASSUME graph \in Graph, Shaped(graph), roots = FitsSearch, NEW x \in Below
    PROVE  Standing(x)
<1> DEFINE D == {n \in Node : Standing(n)}
<1>1. ASSUME NEW r \in roots PROVE Standing(r)
  <2>1. r \in Node /\ graph.kind[r] = "namespace"
    BY DEF FitsSearch, OfKind
  <2>2. QED
    BY <2>1, NamespaceName DEF Standing
<1>2. ASSUME NEW n \in D, NEW y \in Children(n) PROVE y \in D
  <2>1. y \in Node /\ <<n, y>> \in graph.child /\ n \in Node /\ Standing(n)
    BY DEF Children
  <2>2. graph.file[n] = graph.file[y] /\ graph.kind[n] \in Parents(graph.kind[y])
    BY <2>1 DEF Shaped
  <2>3. \E r \in roots : graph.file[r] = graph.file[y]
    BY <2>1, <2>2 DEF Standing
  <2>4. graph.kind[y] \notin {"unit", "namespace"}
    BY <2>1, <2>2 DEF Parents, Standing
  <2>5. CASE graph.kind[y] \notin {"class", "method", "field"}
    BY <2>1, <2>3, <2>4, <2>5 DEF Standing
  <2>6. CASE graph.kind[y] \in {"class", "method", "field"}
    <3>1. ASSUME graph.kind[y] = "class"
          PROVE  FqdnOf[y].method = <<>> /\ FqdnOf[y].field = <<>> /\ FqdnOf[y].class # <<>>
      <4>1. PICK o \in Node : NamedBy(y, o) /\ FqdnOf[o].method = <<>> /\ FqdnOf[o].field = <<>>
        <5>1. CASE graph.kind[n] = "class"
          BY <2>1, <2>6, <5>1, OneOwner DEF Standing
        <5>2. CASE graph.kind[n] # "class"
          <6>1. n \in Owners(y) /\ Owners(y) \in SUBSET Node
            BY <2>1, <2>6, OneOwner DEF Owners
          <6>2. PICK o \in Node : o = First(Owners(y)) /\ o \in Owners(y)
            BY <6>1, FirstOf
          <6>3. NamedBy(y, o)
            BY <2>1, <2>6, <6>1, <6>2 DEF NamedBy
          <6>4. graph.kind[o] \in {"namespace", "class"} /\ <<o, y>> \in graph.child
            BY <6>3, NamedInOwner, NamedByParent
          <6>5. graph.kind[o] # "class"
            <7>1. <<y, n>> \in graph.owner
              BY <6>1 DEF Owners
            <7>2. graph.kind[o] = "class" => n = o
              BY <2>1, <6>4, <7>1 DEF Shaped
            <7>3. QED
              BY <5>2, <7>2
          <6>6. QED
            BY <6>3, <6>4, <6>5, NamespaceName
        <5>3. QED
          BY <5>1, <5>2
      <4>2. FqdnOf[o] \in Fqdn /\ FqdnOf[y] = [FqdnOf[o] EXCEPT !.class = @ \o graph.symbol[y]]
        BY <3>1, <4>1, NamedInOwner, AddedToOwner
      <4>3. FqdnOf[o].class \in Seq(Name) /\ graph.symbol[y] \in Seq(Name) /\ graph.symbol[y] # <<>>
        BY <2>1, <4>2 DEF Fqdn, Symbol, Graph
      <4>4. FqdnOf[o].class \o graph.symbol[y] # <<>>
        BY <4>3
      <4>5. \A f \in Fqdn : \A s :
            /\ [f EXCEPT !.class = s].method = f.method
            /\ [f EXCEPT !.class = s].field = f.field
            /\ [f EXCEPT !.class = s].class = s
        BY DEF Fqdn
      <4>6. QED
        BY <4>1, <4>2, <4>4, <4>5
    <3>2. QED
      BY <2>1, <2>3, <2>4, <2>6, <3>1 DEF Standing
  <2>7. QED
    BY <2>5, <2>6
<1>3. roots \in SUBSET Node
  BY DEF FitsSearch, OfKind
<1>4. roots \subseteq D /\ Closed(D) /\ D \in SUBSET Node
  BY <1>1, <1>2, <1>3 DEF Closed
<1> HIDE DEF D
<1>5. Below \subseteq D
  BY <1>3, <1>4, BelowIsTree
<1>6. QED
  BY <1>5 DEF D

\* What a candidate resolves to is never in an imported namespace, if x is a class of
\* another one.
LEMMA MemberElsewhere ==
    ASSUME graph \in Graph, Shaped(graph), NEW f, NEW c \in Node, graph.kind[c] = "class",
           Spaces(c) \cap Imports(f) = {}, NEW e \in Edges(c)
    PROVE  FqdnOf[e] = NoFqdn \/ FqdnOf[e].namespace \notin Imports(f)
<1>1. e \in Node /\ (<<c, e>> \in graph.child \/ <<c, e>> \in graph.owner)
  BY DEF Edges, Children, Owners
<1>2. CASE <<c, e>> \in graph.owner
  BY <1>1, <1>2 DEF Owners, Spaces
<1>3. CASE <<c, e>> \in graph.child
  <2>1. e \in Children(c) /\ graph.kind[c] \in Parents(graph.kind[e])
    BY <1>1, <1>3 DEF Children, Shaped
  <2>2. Unnamed.namespace \notin Imports(f)
    BY DEF Unnamed, Imports, InFile, OfKind, Graph
  <2>3. CASE graph.kind[e] \in {"class", "method", "field"}
    <3>1. NamedBy(e, c)
      BY <2>1, <2>3, OneOwner
    <3>2. FqdnOf[e].namespace = FqdnOf[c].namespace
      BY <3>1, AddedToOwner
    <3>3. CASE Owners(c) = {}
      <4>1. FqdnOf[c] = Named(c, Unnamed)
        BY <3>3, FqdnOfOwner DEF Base
      <4>2. Unnamed # NoFqdn
        <5>1. Unnamed \in Fqdn
          BY DEF Unnamed, Fqdn, Symbol
        <5>2. QED
          BY <5>1, FqdnIsThere
      <4>3. FqdnOf[c] = [Unnamed EXCEPT !.class = @ \o graph.symbol[c]]
        BY <4>1, <4>2 DEF Named
      <4>4. FqdnOf[c].namespace = Unnamed.namespace
        BY <4>3 DEF Unnamed
      <4>5. QED
        BY <2>2, <3>2, <4>4
    <3>4. CASE Owners(c) # {}
      <4>1. Owners(c) \in SUBSET Node
        BY DEF Owners
      <4>2. PICK o \in Node : o = First(Owners(c)) /\ o \in Owners(c)
        BY <3>4, <4>1, FirstOf
      <4>3. NamedBy(c, o)
        BY <3>4, <4>2 DEF NamedBy
      <4>4. FqdnOf[c].namespace = FqdnOf[o].namespace
        BY <4>3, AddedToOwner
      <4>5. FqdnOf[o].namespace \in Spaces(c)
        BY <4>2 DEF Spaces
      <4>6. QED
        BY <3>2, <4>4, <4>5
    <3>5. QED
      BY <3>3, <3>4
  <2>4. CASE graph.kind[e] \notin {"class", "method", "field"}
    <3>1. graph.kind[e] # "namespace"
      BY <2>1 DEF Parents
    <3>2. FqdnOf[e] \in {NoFqdn, Unnamed}
      <4>1. FqdnOf[e] = Named(e, Base(e, FqdnOf))
        BY <1>1, FqdnOfOwner
      <4>2. QED
        BY <2>4, <3>1, <4>1 DEF Named
    <3>3. QED
      BY <2>2, <3>2
  <2>5. QED
    BY <2>3, <2>4
<1>4. QED
  BY <1>1, <1>2, <1>3

\* "x" and "y" make "x.y".
LEMMA Dotted ==
    ASSUME NEW s \in Seq(Name), NEW t \in Seq(Name)
    PROVE  Len(s) = 1 /\ Len(t) = 1 => Len(s \o t) = 2 /\ (s \o t)[1] = s[1] /\ (s \o t)[2] = t[1]
<1>1. Len(s \o t) = Len(s) + Len(t) /\ \A j \in 1..Len(s) : (s \o t)[j] = s[j]
  OBVIOUS
<1>2. \A j \in 1..Len(t) : (s \o t)[Len(s) + j] = t[j]
  OBVIOUS
<1>3. Len(s) = 1 /\ Len(t) = 1 =>
         1 \in 1..Len(s) /\ 1 \in 1..Len(t) /\ Len(s) + 1 = 2 /\ Len(s) + Len(t) = 2
  OBVIOUS
<1>4. QED
  BY <1>1, <1>2, <1>3

\* The name of a class is the class part of the names of its members.
LEMMA ClassPartOf ==
    ASSUME NEW f \in Fqdn, f.class # <<>>, f.method = <<>>, f.field = <<>>, NEW s
    PROVE  ClassPart([f EXCEPT !.method = s]) = f /\ ClassPart([f EXCEPT !.field = s]) = f
<1> DEFINE g == [f EXCEPT !.method = s]
           h == [f EXCEPT !.field = s]
<1>1. g.class # <<>> /\ h.class # <<>>
  BY DEF Fqdn
<1>2. [g EXCEPT !.method = <<>>, !.field = <<>>] = f
  BY DEF Fqdn
<1>3. [h EXCEPT !.method = <<>>, !.field = <<>>] = f
  BY DEF Fqdn
<1> HIDE DEF g, h
<1>4. ClassPart(g) = f /\ ClassPart(h) = f
  BY <1>1, <1>2, <1>3 DEF ClassPart
<1>5. QED
  BY <1>4 DEF g, h

\* The use of a member of a class that matches is reported when its file is searched:
\* the class is the only one of its name there that can be meant.
LEMMA UseReported ==
    ASSUME TypeOK, Shaped(graph), found = Matched, roots = FitsSearch,
           NEW n \in Node, NEW d \in Node, NEW m \in Node,
           Means(n, d, m), {d, m} \cap Matched # {}
    PROVE  Reported(n)
<1>1. graph \in Graph /\ roots \in SUBSET Node
  BY DEF TypeOK
<1>2. PICK x, y \in Name : /\ graph.symbol[d] = <<x>> /\ graph.symbol[m] = <<y>>
                            /\ Len(graph.symbol[n]) = 2
                            /\ graph.symbol[n][1] = x /\ graph.symbol[n][2] = y
  <2>1. graph.symbol[d] \in Seq(Name) /\ graph.symbol[m] \in Seq(Name)
    BY <1>1 DEF Graph, Symbol
  <2>2. Len(graph.symbol[d]) = 1 /\ Len(graph.symbol[m]) = 1
        /\ graph.symbol[n] = graph.symbol[d] \o graph.symbol[m]
    BY DEF Means
  <2>3. PICK x \in Name : graph.symbol[d] = <<x>>
    <3>1. graph.symbol[d][1] \in Name /\ graph.symbol[d] = <<graph.symbol[d][1]>>
      BY <2>1, <2>2
    <3>2. QED
      BY <3>1
  <2>4. PICK y \in Name : graph.symbol[m] = <<y>>
    <3>1. graph.symbol[m][1] \in Name /\ graph.symbol[m] = <<graph.symbol[m][1]>>
      BY <2>1, <2>2
    <3>2. QED
      BY <3>1
  <2>5. \A s, t \in Seq(Name) : Len(s) = 1 /\ Len(t) = 1 =>
           Len(s \o t) = 2 /\ (s \o t)[1] = s[1] /\ (s \o t)[2] = t[1]
    BY Dotted
  <2>6. Len(graph.symbol[n]) = 2 /\ graph.symbol[n][1] = x /\ graph.symbol[n][2] = y
    <3>1. <<x>>[1] = x /\ <<y>>[1] = y
      OBVIOUS
    <3>2. QED
      BY <2>1, <2>2, <2>3, <2>4, <2>5, <3>1
  <2>7. QED
    BY <2>3, <2>4, <2>6
<1>3. /\ graph.kind[d] = "class" /\ graph.kind[m] \in {"method", "field"} /\ m \in Children(d)
      /\ graph.kind[n] = "ref" /\ FqdnOf[m].namespace \in Imports(graph.file[n])
  BY DEF Means
<1>4. /\ FqdnOf[d] \in Fqdn /\ FqdnOf[m] \in Fqdn /\ FqdnOf[m] # NoFqdn
      /\ NamedBy(m, d)
  <2>1. NamedBy(m, d)
    BY <1>1, <1>3, OneOwner
  <2>2. QED
    BY <1>1, <2>1, NamedInOwner, FqdnIsThere
<1>5. Below \subseteq Node /\ Closed(Below)
  BY <1>1, BelowIsTree
<1>6. ASSUME d \in Matched PROVE d \in Below
  <2>1. PICK b \in Below : d \in Matching(b)
    BY <1>6 DEF Matched
  <2>2. d \in Children(b)
    BY <1>3, <2>1 DEF Matching
  <2>3. QED
    BY <1>5, <2>2 DEF Closed
<1>7. m \in Below
  <2>1. CASE d \in Matched
    BY <1>3, <1>5, <1>6, <2>1 DEF Closed
  <2>2. CASE m \in Matched
    <3>1. PICK b \in Below : m \in Matching(b)
      BY <2>2 DEF Matched
    <3>2. m \in Children(b)
      BY <1>3, <3>1 DEF Matching
    <3>3. QED
      BY <1>5, <3>2 DEF Closed
  <2>3. QED
    BY <2>1, <2>2
<1>8. \E r \in roots : graph.file[r] = graph.file[m]
  <2>1. Standing(m)
    BY <1>1, <1>7, BelowStands
  <2>2. QED
    BY <1>3, <2>1 DEF Standing
<1> DEFINE f == graph.file[n]
           fit == Fitting(f, CandidatesOf(n))
<1>9. d \in Searchable(f) \cap Definitions
  <2>1. <<d, m>> \in graph.child
    BY <1>3 DEF Children
  <2>2. graph.file[d] = graph.file[m]
    BY <2>1 DEF Shaped
  <2>3. QED
    BY <1>3, <1>8, <2>2 DEF Searchable, Definitions
<1>10. m \in Members(d, y) /\ First(Members(d, y)) = m
  <2>1. m \in Members(d, y)
    BY <1>2, <1>3 DEF Members, Edges, Children
  <2>2. \A e \in Members(d, y) : e = m
    BY <1>2 DEF Members, Means
  <2>3. Members(d, y) \in SUBSET Node
    BY DEF Members, Edges, Children, Owners
  <2>4. First(Members(d, y)) \in Members(d, y)
    BY <2>1, <2>3, FirstOf
  <2>5. QED
    BY <2>1, <2>2, <2>4
<1>11. CandidatesOf(n) = Candidates(f, x, y)
  BY <1>2 DEF CandidatesOf
<1>12. <<d, d, m>> \in fit
  <2>1. <<d, d, First(Members(d, y))>> \in Candidates(f, x, y)
    BY <1>2, <1>3, <1>9, <1>10 DEF Candidates
  <2>2. <<d, d, m>>[3] = m
    OBVIOUS
  <2>3. QED
    BY <1>3, <1>4, <1>10, <1>11, <2>1, <2>2 DEF Fitting
<1>13. ASSUME NEW c \in fit PROVE c[3] = m /\ c \in Candidate
  <2>1. /\ c \in Candidates(f, x, y) /\ FqdnOf[c[3]] # NoFqdn
        /\ FqdnOf[c[3]].namespace \in Imports(f)
    BY <1>11 DEF Fitting
  <2>2. c \in Candidate
    BY <2>1, CandidateStands
  <2> DEFINE defs == {e \in Searchable(f) \cap Definitions : graph.symbol[e] = <<x>>}
             ofKind(kinds) == {e \in defs : graph.kind[e] \in kinds}
  <2>3. \A e \in defs : e # d =>
          /\ graph.kind[e] \notin {"method", "field", "var"}
          /\ graph.kind[e] = "class" => Spaces(e) \cap Imports(f) = {}
    BY <1>2 DEF Means
  <2>4. \A e \in defs : e \in Node /\ graph.kind[e] \notin {"method", "field", "var"}
    BY <1>3, <2>3 DEF Definitions
  <2> HIDE DEF defs
  <2>5. ofKind({"method", "field"}) = {} /\ ofKind({"var"}) = {} /\ ofKind({"class"}) \subseteq defs
    BY <2>4
  <2>6. c \in {<<e, e, First(Members(e, y))>> : e \in {k \in ofKind({"class"}) : Members(k, y) # {}}}
    <3>1. c \in {<<e, e, First(Members(e, y))>> : e \in {k \in ofKind({"class"}) : Members(k, y) # {}}}
             \cup {<<e, e, e>> : e \in ofKind({"method", "field"})}
             \cup UNION {VarCandidates(e, f, y) : e \in ofKind({"var"})}
      BY <2>1 DEF Candidates, defs
    <3> HIDE DEF ofKind
    <3>2. QED
      BY <2>5, <3>1
  <2>7. PICK e \in defs : /\ c = <<e, e, First(Members(e, y))>> /\ Members(e, y) # {}
                          /\ graph.kind[e] = "class"
    BY <2>5, <2>6
  <2>8. e = d
    <3>1. First(Members(e, y)) \in Edges(e)
      <4>1. Members(e, y) \in SUBSET Node
        BY DEF Members, Edges, Children, Owners
      <4>2. First(Members(e, y)) \in Members(e, y)
        BY <2>7, <4>1, FirstOf
      <4>3. QED
        BY <4>2 DEF Members
    <3>2. c[3] = First(Members(e, y))
      BY <2>7
    <3>3. QED
      BY <1>1, <2>1, <2>3, <2>4, <2>7, <3>1, <3>2, MemberElsewhere
  <2>9. QED
    BY <1>10, <2>2, <2>7, <2>8
<1>14. Resolved(n) = FqdnOf[m]
  <2> HIDE DEF fit
  <2>1. \E c \in fit : \A b \in fit : Before(c, b)
    <3>1. fit \in SUBSET Candidate /\ fit # {}
      BY <1>12, <1>13
    <3>2. QED
      BY <3>1, FirstTriple
  <2>2. (CHOOSE c \in fit : \A b \in fit : Before(c, b)) \in fit
    BY <2>1
  <2>3. (CHOOSE c \in fit : \A b \in fit : Before(c, b))[3] = m
    BY <1>13, <2>2
  <2>4. Resolved(n) = FqdnOf[(CHOOSE c \in fit : \A b \in fit : Before(c, b))[3]]
    BY <1>2, <1>12 DEF Resolved, Selected, fit
  <2>5. QED
    BY <2>3, <2>4
<1>15. MatchFqdn(FqdnOf[m])
  <2>1. CASE m \in Matched
    BY <1>3, <2>1 DEF MatchFqdn, Names, OfKind
  <2>2. CASE d \in Matched
    <3>1. Standing(d)
      BY <1>1, <1>6, <2>2, BelowStands
    <3>2. FqdnOf[d].method = <<>> /\ FqdnOf[d].field = <<>> /\ FqdnOf[d].class # <<>>
      BY <1>3, <3>1 DEF Standing
    <3>3. FqdnOf[m] = [FqdnOf[d] EXCEPT !.method = @ \o graph.symbol[m]]
            \/ FqdnOf[m] = [FqdnOf[d] EXCEPT !.field = @ \o graph.symbol[m]]
      BY <1>1, <1>3, <1>4, AddedToOwner
    <3>5. ClassPart(FqdnOf[m]) = FqdnOf[d]
      <4> DEFINE s == FqdnOf[d].method \o graph.symbol[m]
                 t == FqdnOf[d].field \o graph.symbol[m]
      <4>1. FqdnOf[m] = [FqdnOf[d] EXCEPT !.method = s] \/ FqdnOf[m] = [FqdnOf[d] EXCEPT !.field = t]
        BY <3>3
      <4> HIDE DEF s, t
      <4>2. ClassPart([FqdnOf[d] EXCEPT !.method = s]) = FqdnOf[d]
        BY <1>4, <3>2, ClassPartOf
      <4>3. ClassPart([FqdnOf[d] EXCEPT !.field = t]) = FqdnOf[d]
        BY <1>4, <3>2, ClassPartOf
      <4>4. QED
        BY <4>1, <4>2, <4>3
    <3>6. FqdnOf[d] \in Names("class")
      BY <1>3, <2>2 DEF Names, OfKind
    <3>7. QED
      BY <3>5, <3>6 DEF MatchFqdn
  <2>3. QED
    BY <2>1, <2>2
<1>16. QED
  BY <1>3, <1>4, <1>8, <1>14, <1>15 DEF Reported

\* Once the walk is over, what is to be reported is settled.
LEMMA SameReports ==
    ASSUME UNCHANGED <<input, roots, found>>
    PROVE  /\ \A n : Reported(n)' <=> Reported(n)
           /\ \A f : (Searched(f)' <=> Searched(f)) /\ InFile(f)' = InFile(f)
<1>1. graph' = graph /\ FqdnOf' = FqdnOf /\ sourceOnly' = sourceOnly
  BY SameGraph DEF input
<1>2. /\ \A f : Imports(f)' = Imports(f) /\ Searchable(f)' = Searchable(f) /\ InFile(f)' = InFile(f)
      /\ \A n : Edges(n)' = Edges(n) /\ Definitions' = Definitions
  BY <1>1 DEF Imports, Searchable, InFile, OfKind, Edges, Children, Owners, Definitions
<1>3. \A d, f, y : VarCandidates(d, f, y)' = VarCandidates(d, f, y) /\ Members(d, y)' = Members(d, y)
  <2>1. \A d : TypeRefs(d)' = TypeRefs(d)
    BY <1>1, <1>2 DEF TypeRefs
  <2>2. QED
    BY <1>1, <1>2, <2>1 DEF VarCandidates, Members
<1>4. \A f, x, y : Candidates(f, x, y)' = Candidates(f, x, y)
  BY <1>1, <1>2, <1>3 DEF Candidates
<1>5. \A f, cands : Selected(f, cands)' = Selected(f, cands)
  <2>1. \A f, cands : Fitting(f, cands)' = Fitting(f, cands)
    BY <1>1, <1>2 DEF Fitting
  <2>2. ASSUME NEW f, NEW cands PROVE Selected(f, cands)' = Selected(f, cands)
    <3> DEFINE fit == Fitting(f, cands)
               best == CHOOSE c \in fit : \A d \in fit : Before(c, d)
    <3>1. fit' = fit
      BY <2>1
    <3>2. best' = best
      BY <3>1 DEF Before
    <3>3. Selected(f, cands) = IF fit = {} THEN NoFqdn ELSE FqdnOf[best[3]]
      BY DEF Selected
    <3>4. Selected(f, cands)' = IF fit' = {} THEN NoFqdn ELSE FqdnOf'[best'[3]]
      BY DEF Selected, NoFqdn
    <3> HIDE DEF fit, best
    <3>5. QED
      BY <1>1, <3>1, <3>2, <3>3, <3>4
  <2>3. QED
    BY <2>2
<1>6. \A n : Resolved(n)' = Resolved(n)
  <2>1. \A n : CandidatesOf(n)' = CandidatesOf(n)
    BY <1>1, <1>4 DEF CandidatesOf
  <2>2. QED
    BY <1>1, <1>5, <2>1 DEF Resolved
<1>7. \A k : Names(k)' = Names(k)
  BY <1>1 DEF Names, OfKind
<1>8. \A g, y : (MatchFqdn(g)' <=> MatchFqdn(g)) /\ (MatchSymbol(y)' <=> MatchSymbol(y))
  BY <1>7 DEF MatchFqdn, MatchSymbol, ClassMatches, MethodMatches, FieldMatches, ClassPart
<1>9. \A n : Reported(n)' <=> Reported(n)
  BY <1>1, <1>6, <1>8 DEF Reported
<1>10. \A f : Searched(f)' <=> Searched(f)
  BY <1>1, <1>2 DEF Searched, OfKind
<1>11. QED
  BY <1>2, <1>9, <1>10

\* The files of get_starting_nodes, and what becomes of each of them.
FirstFiles ==
    {graph.file[n] : n \in {k \in OfKind("namespace") \cup OfKind("import") :
                               graph.symbol[k] \in search.spaces}}
Handled(f) == ~Searched(f) \/ \A n \in InFile(f) : Reported(n) => n \in results
FilesGone ==
    /\ graph \in Graphs
    /\ pc = "traverse" => FirstFiles \subseteq files
    /\ pc \in {"files", "done"} => \A f \in FirstFiles : f \in files \/ Handled(f)
    /\ answer = "ok" => files = {}
    /\ answer = "not found" => found = {}

\* A step that takes no file, or one that has been handled.
LEMMA FilesStay ==
    ASSUME FilesGone, UNCHANGED <<input, roots, found>>, results \subseteq results',
           pc \in {"traverse", "files", "done"}, pc' \in {"traverse", "files", "done"},
           pc' = "traverse" => pc = "traverse" /\ files' = files,
           \A f \in files : f \in files' \/ Handled(f)',
           answer' = "ok" => files' = {}, answer' = "not found" => found = {}
    PROVE  FilesGone'
<1>1. FirstFiles' = FirstFiles /\ graph' = graph
  BY DEF input, FirstFiles, OfKind
<1>2. \A f : Handled(f) => Handled(f)'
  BY SameReports DEF Handled
<1>3. \A f \in FirstFiles : f \in files \/ Handled(f)
  BY DEF FilesGone
<1>4. \A f \in FirstFiles : f \in files' \/ Handled(f)'
  BY <1>2, <1>3
<1>5. QED
  BY <1>1, <1>4 DEF FilesGone

\* Whatever the graph and the pattern, each use x.y of a member of a class that
\* matches is reported, when its file imports the namespace of x and x means nothing
\* else there (query.rs:752-860).
THEOREM UsesCorrect == Spec => []UsesFound
<1>1. Init => FilesGone
  BY DEF Init, FilesGone
<1>2. FilesGone /\ TypeOK /\ [Next]_vars => FilesGone'
  <2> SUFFICES ASSUME FilesGone, TypeOK, [Next]_vars
               PROVE  FilesGone'
    OBVIOUS
  <2>1. CASE StartingNodes
    <3>1. graph' = graph /\ search' = search /\ pc' = "traverse" /\ answer' = answer /\ found' = found
      BY <2>1 DEF StartingNodes, input
    <3>2. files' = FirstFiles
      BY <2>1 DEF StartingNodes, FirstFiles
    <3>3. FirstFiles' = FirstFiles
      BY <3>1 DEF FirstFiles, OfKind
    <3>4. answer = "none"
      BY <2>1 DEF TypeOK, StartingNodes
    <3>5. QED
      BY <3>1, <3>2, <3>3, <3>4 DEF FilesGone
  <2>2. CASE Traverse
    <3>1. UNCHANGED <<input, files, pc, answer>> /\ pc = "traverse" /\ answer = "none"
      BY <2>2 DEF Traverse, TypeOK
    <3>2. FirstFiles' = FirstFiles /\ graph' = graph
      BY <3>1 DEF input, FirstFiles, OfKind
    <3>3. QED
      BY <3>1, <3>2 DEF FilesGone
  <2>3. CASE NothingFound \/ SomethingFound \/ PanicInFile \/ Finish
    <3>1. UNCHANGED <<input, roots, found, files, results>> /\ pc \in {"traverse", "files"}
      BY <2>3 DEF NothingFound, SomethingFound, PanicInFile, Finish
    <3>2. /\ pc' \in {"files", "done"} /\ (answer' = "ok" => files' = {})
          /\ (answer' = "not found" => found = {})
      BY <2>3 DEF NothingFound, SomethingFound, PanicInFile, Finish, TypeOK
    <3>3. QED
      BY <3>1, <3>2, FilesStay
  <2>4. CASE SkipFile
    <3>1. /\ UNCHANGED <<input, roots, found, results, pc>> /\ pc = "files" /\ answer' = "none"
          /\ files' = files \ {First(files)} /\ ~Searched(First(files))
      BY <2>4 DEF SkipFile, TypeOK
    <3>2. \A f : f = First(files) => Handled(f)'
      BY <3>1, SameReports DEF Handled
    <3>3. QED
      BY <3>1, <3>2, FilesStay
  <2>5. CASE SearchFile
    <3>1. /\ UNCHANGED <<input, roots, found, pc>> /\ pc = "files" /\ answer' = "none"
          /\ files' = files \ {First(files)}
          /\ results' = results \cup {n \in InFile(First(files)) : Reported(n)}
      BY <2>5 DEF SearchFile, TypeOK
    <3>2. \A f : f = First(files) => Handled(f)'
      BY <3>1, SameReports DEF Handled
    <3>3. QED
      BY <3>1, <3>2, FilesStay
  <2>6. CASE UNCHANGED vars
    <3>1. CASE pc = "start"
      BY <2>6, <3>1 DEF vars, input, FilesGone
    <3>2. CASE pc # "start"
      <4>1. UNCHANGED <<input, roots, found, files, results, pc, answer>>
        BY <2>6 DEF vars
      <4>2. pc \in {"traverse", "files", "done"}
        BY <3>2 DEF TypeOK
      <4>3. QED
        BY <4>1, <4>2, FilesStay DEF FilesGone
    <3>3. QED
      BY <3>1, <3>2
  <2>7. QED
    BY <2>1, <2>2, <2>3, <2>4, <2>5, <2>6 DEF Next
<1>3. TypeOK /\ Walk /\ FilesGone => UsesFound
  <2> SUFFICES ASSUME TypeOK, Walk, FilesGone, pc = "done", answer # "panic",
                      NEW n \in Node, NEW d \in Node, NEW m \in Node,
                      Means(n, d, m), FqdnOf[m].namespace \in search.spaces,
                      {d, m} \cap Matched # {}, Searched(graph.file[n])
               PROVE  n \in results
    BY DEF UsesFound
  <2>1. found = Matched /\ roots = FitsSearch
    BY FoundIsMatched
  <2>2. answer = "ok" /\ files = {}
    BY <2>1 DEF TypeOK, FilesGone
  <2>3. Shaped(graph)
    BY GraphShapes DEF FilesGone
  <2>4. Reported(n)
    BY <2>1, <2>3, UseReported
  <2>5. FqdnOf[m].namespace \in Imports(graph.file[n])
    BY DEF Means
  <2>6. graph.file[n] \in FirstFiles
    <3>1. PICK i \in InFile(graph.file[n]) \cap OfKind("import") : graph.symbol[i] = FqdnOf[m].namespace
      BY <2>5 DEF Imports
    <3>2. graph.file[i] = graph.file[n] /\ i \in OfKind("import") /\ graph.symbol[i] \in search.spaces
      BY <3>1 DEF InFile
    <3>3. QED
      BY <3>2 DEF FirstFiles
  <2>7. Handled(graph.file[n])
    BY <2>2, <2>6 DEF FilesGone
  <2>8. QED
    BY <2>4, <2>7 DEF Handled, InFile
<1>4. QED
  BY <1>1, <1>2, <1>3, TypeCorrect, WalkKept, PTL DEF Spec


-----------------------------------------------------------------------------
(* Lists in order *)

\* Of a finite set in order, InOrder lists every member at its place.
LEMMA InOrderLists ==
    ASSUME NEW S, IsFiniteSet(S), NEW before, Ordering(S, before)
    PROVE  /\ Cardinality(S) \in Nat
           /\ InOrder(S, before) \in [1..Cardinality(S) -> S]
           /\ \A n \in S : \E i \in 1..Cardinality(S) : InOrder(S, before)[i] = n
           /\ \A i, j \in 1..Cardinality(S) :
                 i < j => InOrder(S, before)[i] \in before[InOrder(S, before)[j]]
<1> DEFINE q == InOrder(S, before)
<1>1. PICK size \in Nat : size = Cardinality(S)
  BY Ranked
<1>2. /\ \A a \in S : Cardinality(before[a]) \in 0..size - 1
      /\ \A a, b \in S : b \in before[a] => Cardinality(before[b]) < Cardinality(before[a])
      /\ \A a, b \in S : Cardinality(before[a]) = Cardinality(before[b]) => a = b
      /\ \A i \in 0..size - 1 : \E a \in S : Cardinality(before[a]) = i
  BY <1>1, Ranked
<1>3. q = [i \in 1..size |-> CHOOSE n \in S : Cardinality(before[n]) = i - 1]
  BY <1>1 DEF InOrder
<1>4. ASSUME NEW i \in 1..size PROVE q[i] \in S /\ Cardinality(before[q[i]]) = i - 1
  <2>1. i - 1 \in 0..size - 1
    BY <1>1
  <2>2. \E n \in S : Cardinality(before[n]) = i - 1
    BY <1>2, <2>1
  <2>3. q[i] = CHOOSE n \in S : Cardinality(before[n]) = i - 1
    BY <1>3
  <2> HIDE DEF q
  <2> QED
    BY <2>2, <2>3
<1> HIDE DEF q
<1>5. q \in [1..size -> S]
  BY <1>3, <1>4
<1>6. ASSUME NEW n \in S PROVE \E i \in 1..size : q[i] = n
  <2>1. PICK k \in 0..size - 1 : Cardinality(before[n]) = k
    BY <1>2
  <2>2. k + 1 \in 1..size /\ (k + 1) - 1 = k
    BY <1>1
  <2>3. q[k + 1] \in S /\ Cardinality(before[q[k + 1]]) = k
    BY <1>4, <2>2
  <2> QED
    BY <1>2, <2>1, <2>2, <2>3
<1>7. ASSUME NEW i \in 1..size, NEW j \in 1..size, i < j PROVE q[i] \in before[q[j]]
  <2>1. /\ q[i] \in S /\ q[j] \in S
        /\ Cardinality(before[q[i]]) = i - 1 /\ Cardinality(before[q[j]]) = j - 1
    BY <1>4
  <2>2. q[i] # q[j] /\ ~(j - 1 < i - 1) /\ i - 1 # j - 1
    BY <1>7, <2>1
  <2>3. q[j] \notin before[q[i]]
    BY <1>2, <2>1, <2>2
  <2> QED
    BY <2>1, <2>2, <2>3 DEF Ordering
<1> QED
  BY <1>1, <1>5, <1>6, <1>7 DEF q

-----------------------------------------------------------------------------
(* Numbers as they are printed *)

\* A number is its last digit and the number before that.
LEMMA Tens ==
    ASSUME NEW k \in Nat
    PROVE  /\ k \div 10 \in Nat /\ k % 10 \in 0..9 /\ k = 10 * (k \div 10) + (k % 10)
           /\ k >= 10 => k \div 10 < k /\ k \div 10 >= 1
<1>1. k \div 10 \in Nat /\ k % 10 \in 0..9
  OBVIOUS
<1>2. k = 10 * (k \div 10) + (k % 10)
  OBVIOUS
<1> QED
  BY <1>1, <1>2

\* The digits of a number are those of the number without the last, and the last.
LEMMA DigitsOf ==
    \A k \in Nat : /\ Digits(k) \in Seq(Nat) /\ Digits(k) # <<>>
                   /\ Digits(k) = IF k < 10 THEN <<k>> ELSE Append(Digits(k \div 10), k % 10)
<1> DEFINE body(d) == [k \in Nat |-> IF k < 10 THEN <<k>> ELSE Append(d[k \div 10], k % 10)]
           d == CHOOSE l : l = body(l)
           V == {s \in Seq(Nat) : s # <<>>}
           Maps == [Nat -> V]
<1>0. /\ \A k \in Nat : <<k>> \in V
      /\ \A s \in V, k \in Nat : Append(s, k) \in V
  <2>1. ASSUME NEW k \in Nat PROVE <<k>> \in Seq(Nat) /\ <<k>> # <<>>
    OBVIOUS
  <2>2. ASSUME NEW s \in Seq(Nat), NEW k \in Nat PROVE Append(s, k) \in Seq(Nat) /\ Append(s, k) # <<>>
    <3>1. Append(s, k) \in Seq(Nat) /\ Len(Append(s, k)) = Len(s) + 1 /\ Len(s) \in Nat
      OBVIOUS
    <3>2. Len(Append(s, k)) # 0
      BY <3>1
    <3> QED
      BY <3>1, <3>2
  <2> QED
    BY <2>1, <2>2
<1> HIDE DEF V
<1>1. \A k \in Nat : Digits(k) = d[k]
  BY DEF Digits
<1>2. ASSUME NEW e \in Maps PROVE body(e) \in Maps
  <2>1. ASSUME NEW k \in Nat PROVE body(e)[k] \in V
    <3>1. k \div 10 \in Nat /\ k % 10 \in Nat
      BY Tens
    <3>2. e[k \div 10] \in V
      BY <3>1
    <3>3. Append(e[k \div 10], k % 10) \in V
      BY <1>0, <3>1, <3>2
    <3>4. <<k>> \in V
      BY <1>0
    <3> QED
      BY <3>3, <3>4
  <2> QED
    BY <2>1
<1>3. \E l \in Maps : l = body(l)
  <2>1. PICK base : base = [k \in Nat |-> <<k>>]
    OBVIOUS
  <2>2. base \in Maps
    BY <1>0, <2>1
  <2>3. PICK g : g = [e \in Maps |-> body(e)]
    OBVIOUS
  <2> HIDE DEF Maps
  <2>4. g \in [Maps -> Maps]
    BY <1>2, <2>3
  <2>5. PICK f \in [Nat -> Maps] : f[0] = base /\ \A j \in Nat : f[j + 1] = g[f[j]]
    BY <2>2, <2>4, Iterated
  <2>6. \A j \in Nat : f[j] \in Maps /\ f[j + 1] = body(f[j])
    BY <2>3, <2>5
  <2> DEFINE S == {j \in Nat : \A k \in 0..j : f[j + 1][k] = f[j][k]}
  <2>7. \A j \in Nat : \A k \in Nat :
           f[j + 1][k] = IF k < 10 THEN <<k>> ELSE Append(f[j][k \div 10], k % 10)
    BY <2>6
  <2>8. S = Nat
    <3>1. 0 \in S
      <4>1. f[0 + 1][0] = <<0>> /\ f[0][0] = <<0>>
        BY <2>1, <2>5, <2>7
      <4> QED
        BY <4>1
    <3>2. ASSUME NEW j \in S PROVE j + 1 \in S
      <4>1. j \in Nat /\ j + 1 \in Nat
        OBVIOUS
      <4>2. ASSUME NEW k \in 0..(j + 1) PROVE f[(j + 1) + 1][k] = f[j + 1][k]
        <5>1. k \in Nat
          BY <4>1
        <5>2. k >= 10 => k \div 10 \in 0..j
          BY <4>1, <5>1, Tens
        <5>3. k >= 10 => f[j + 1][k \div 10] = f[j][k \div 10]
          BY <3>2, <5>2
        <5>4. k < 10 \/ k >= 10
          BY <5>1
        <5>5. f[(j + 1) + 1][k] = IF k < 10 THEN <<k>> ELSE Append(f[j + 1][k \div 10], k % 10)
          BY <2>7, <4>1, <5>1
        <5>6. f[j + 1][k] = IF k < 10 THEN <<k>> ELSE Append(f[j][k \div 10], k % 10)
          BY <2>7, <4>1, <5>1
        <5> QED
          BY <5>3, <5>4, <5>5, <5>6
      <4> QED
        BY <4>1, <4>2
    <3>3. S \in SUBSET Nat
      OBVIOUS
    <3> HIDE DEF S
    <3> QED
      BY <3>1, <3>2, <3>3, EveryNumber
  <2>9. \A j \in Nat : \A k \in 0..j : f[j + 1][k] = f[j][k]
    BY <2>8
  <2> HIDE DEF S
  <2>10. ASSUME NEW k \in Nat, NEW j \in Nat, k <= j PROVE f[j][k] = f[k][k]
    <3> DEFINE T == {i \in Nat : f[k + i][k] = f[k][k]}
    <3>1. 0 \in T
      BY k + 0 = k
    <3>2. ASSUME NEW i \in T PROVE i + 1 \in T
      <4>1. i \in Nat /\ k + i \in Nat /\ k \in 0..(k + i) /\ k + (i + 1) = (k + i) + 1 /\ i + 1 \in Nat
        OBVIOUS
      <4>2. f[(k + i) + 1][k] = f[k + i][k]
        BY <2>9, <4>1
      <4> QED
        BY <3>2, <4>1, <4>2
    <3>3. T \in SUBSET Nat
      OBVIOUS
    <3>4. T = Nat
      <4> HIDE DEF T
      <4> QED
        BY <3>1, <3>2, <3>3, EveryNumber
    <3>5. j - k \in Nat /\ k + (j - k) = j
      BY <2>10
    <3>6. j - k \in T
      BY <3>4, <3>5
    <3> QED
      BY <3>5, <3>6
  <2>11. PICK l : l = [k \in Nat |-> f[k][k]]
    OBVIOUS
  <2>12. l \in Maps
    BY <2>6, <2>11 DEF Maps
  <2>13. ASSUME NEW k \in Nat PROVE l[k] = IF k < 10 THEN <<k>> ELSE Append(l[k \div 10], k % 10)
    <3>1. CASE k < 10
      <4>1. k = 0 \/ (k - 1 \in Nat /\ (k - 1) + 1 = k)
        OBVIOUS
      <4>2. f[0][0] = <<0>>
        BY <2>1, <2>5
      <4>3. k - 1 \in Nat => f[(k - 1) + 1][k] = <<k>>
        BY <2>7, <3>1
      <4> QED
        BY <2>11, <3>1, <4>1, <4>2, <4>3
    <3>2. CASE ~(k < 10)
      <4>1. k - 1 \in Nat /\ (k - 1) + 1 = k
        BY <3>2
      <4>2. k \div 10 \in Nat /\ k \div 10 <= k - 1
        BY <3>2, Tens
      <4>3. f[k][k] = Append(f[k - 1][k \div 10], k % 10)
        BY <2>7, <3>2, <4>1
      <4>4. f[k - 1][k \div 10] = f[k \div 10][k \div 10]
        BY <2>10, <4>1, <4>2
      <4> QED
        BY <2>11, <3>2, <4>2, <4>3, <4>4
    <3> QED
      BY <3>1, <3>2
  <2>14. l = [k \in Nat |-> IF k < 10 THEN <<k>> ELSE Append(l[k \div 10], k % 10)]
    BY <2>11, <2>13
  <2> QED
    BY <2>12, <2>14
<1>4. d = body(d)
  <2> HIDE DEF body
  <2> QED
    BY <1>3
<1>5. \A k \in Nat : d[k] = IF k < 10 THEN <<k>> ELSE Append(d[k \div 10], k % 10)
  <2> HIDE DEF d
  <2> QED
    BY <1>4
<1> HIDE DEF d
<1> DEFINE S == {j \in Nat : \A k \in 0..j : d[k] \in V}
<1>6. S = Nat
  <2>1. 0 \in S
    <3>1. d[0] = <<0>>
      <4>1. 0 \in Nat /\ 0 < 10
        OBVIOUS
      <4> QED
        BY <1>5, <4>1
    <3>2. d[0] \in V
      BY <1>0, <3>1
    <3> QED
      BY <3>2
  <2>2. ASSUME NEW j \in S PROVE j + 1 \in S
    <3>1. d[j + 1] \in V
      <4>0. j + 1 \in Nat
        OBVIOUS
      <4>1. CASE j + 1 < 10
        <5>1. d[j + 1] = <<j + 1>>
          BY <1>5, <4>0, <4>1
        <5> QED
          BY <1>0, <4>0, <5>1
      <4>2. CASE ~(j + 1 < 10)
        <5>1. (j + 1) \div 10 \in 0..j /\ (j + 1) % 10 \in Nat
          BY <4>2, Tens
        <5>2. d[(j + 1) \div 10] \in V
          BY <2>2, <5>1
        <5>3. d[j + 1] = Append(d[(j + 1) \div 10], (j + 1) % 10)
          BY <1>5, <4>0, <4>2
        <5> QED
          BY <1>0, <5>1, <5>2, <5>3
      <4> QED
        BY <4>1, <4>2
    <3>2. 0..(j + 1) = 0..j \cup {j + 1}
      OBVIOUS
    <3> QED
      BY <2>2, <3>1, <3>2
  <2>3. S \in SUBSET Nat
    OBVIOUS
  <2> HIDE DEF S
  <2> QED
    BY <2>1, <2>2, <2>3, EveryNumber
<1>7. \A k \in Nat : d[k] \in V
  <2>1. ASSUME NEW k \in Nat PROVE d[k] \in V
    <3>1. k \in S /\ k \in 0..k
      BY <1>6
    <3> QED
      BY <3>1
  <2> QED
    BY <2>1
<1> HIDE DEF S
<1>8. ASSUME NEW k \in Nat
      PROVE  /\ Digits(k) \in Seq(Nat) /\ Digits(k) # <<>>
             /\ Digits(k) = IF k < 10 THEN <<k>> ELSE Append(Digits(k \div 10), k % 10)
  <2>1. k \div 10 \in Nat
    BY Tens
  <2>2. Digits(k) = d[k] /\ Digits(k \div 10) = d[k \div 10]
    BY <1>1, <2>1
  <2>3. d[k] \in V
    BY <1>7
  <2> QED
    BY <1>5, <2>2, <2>3 DEF V
<1> QED
  BY <1>8

\* Different numbers have different digits.
LEMMA DigitsDiffer ==
    \A a, b \in Nat : Digits(a) = Digits(b) => a = b
<1> DEFINE S == {n \in Nat : \A a \in 0..n : \A b \in Nat : Digits(a) = Digits(b) => a = b}
<1>1. ASSUME NEW a \in Nat, NEW b \in Nat, Digits(a) = Digits(b),
             a >= 10 => \A c \in Nat : Digits(a \div 10) = Digits(c) => a \div 10 = c
      PROVE  a = b
  <2>1. /\ Digits(a) = IF a < 10 THEN <<a>> ELSE Append(Digits(a \div 10), a % 10)
        /\ Digits(b) = IF b < 10 THEN <<b>> ELSE Append(Digits(b \div 10), b % 10)
    BY DigitsOf
  <2>2. /\ a \div 10 \in Nat /\ a % 10 \in Nat /\ a = 10 * (a \div 10) + (a % 10)
        /\ b \div 10 \in Nat /\ b % 10 \in Nat /\ b = 10 * (b \div 10) + (b % 10)
    BY Tens
  <2>3. /\ Digits(a \div 10) \in Seq(Nat) /\ Digits(a \div 10) # <<>>
        /\ Digits(b \div 10) \in Seq(Nat) /\ Digits(b \div 10) # <<>>
    BY <2>2, DigitsOf
  <2> DEFINE x == Digits(a \div 10)
             y == Digits(b \div 10)
  <2> HIDE DEF x, y
  <2>4. /\ Len(Append(x, a % 10)) # 1 /\ Len(Append(y, b % 10)) # 1
        /\ Append(x, a % 10) = Append(y, b % 10) => x = y /\ a % 10 = b % 10
    <3>1. x \in Seq(Nat) /\ y \in Seq(Nat) /\ x # <<>> /\ y # <<>>
      BY <2>3 DEF x, y
    <3>2. Len(x) # 0 /\ Len(y) # 0 /\ Len(x) \in Nat /\ Len(y) \in Nat
      BY <3>1
    <3>3. Len(Append(x, a % 10)) = Len(x) + 1 /\ Len(Append(y, b % 10)) = Len(y) + 1
      BY <3>1
    <3>4. ASSUME Append(x, a % 10) = Append(y, b % 10) PROVE x = y /\ a % 10 = b % 10
      <4>1. Len(x) = Len(y)
        BY <3>2, <3>3, <3>4
      <4>2. a % 10 = b % 10
        BY <2>2, <3>1, <3>4, <4>1
      <4>3. ASSUME NEW i \in 1..Len(x) PROVE x[i] = y[i]
        <5>1. Append(x, a % 10)[i] = x[i]
          BY <2>2, <3>1
        <5>2. Append(y, b % 10)[i] = y[i]
          BY <2>2, <3>1, <4>1
        <5> QED
          BY <3>4, <5>1, <5>2
      <4>4. x = [i \in 1..Len(x) |-> x[i]] /\ y = [i \in 1..Len(y) |-> y[i]]
        BY <3>1
      <4>5. x = y
        BY <4>1, <4>3, <4>4
      <4> QED
        BY <4>2, <4>5
    <3> QED
      BY <3>2, <3>3, <3>4
  <2>5. CASE a < 10 /\ b < 10
    <3>1. <<a>> = <<b>>
      BY <1>1, <2>1, <2>5
    <3>2. <<a>>[1] = a /\ <<b>>[1] = b
      OBVIOUS
    <3> QED
      BY <3>1, <3>2
  <2>6. CASE ~(a < 10) /\ ~(b < 10)
    <3>1. x = y /\ a % 10 = b % 10
      BY <1>1, <2>1, <2>4, <2>6 DEF x, y
    <3>2. a \div 10 = b \div 10
      BY <1>1, <2>2, <2>6, <3>1 DEF x, y
    <3> QED
      BY <2>2, <3>1, <3>2
  <2>7. CASE ~(a < 10 <=> b < 10)
    <3>1. Len(<<a>>) = 1 /\ Len(<<b>>) = 1
      OBVIOUS
    <3> QED
      BY <1>1, <2>1, <2>4, <2>7, <3>1 DEF x, y
  <2> QED
    BY <2>5, <2>6, <2>7
<1>2. 0 \in S
  BY <1>1
<1>3. ASSUME NEW n \in S PROVE n + 1 \in S
  <2>1. n \in Nat /\ 0..(n + 1) = 0..n \cup {n + 1} /\ n + 1 \in Nat
    OBVIOUS
  <2>2. n + 1 >= 10 => (n + 1) \div 10 \in 0..n
    BY <2>1, Tens
  <2>3. \A b \in Nat : Digits(n + 1) = Digits(b) => n + 1 = b
    <3>1. n + 1 >= 10 => \A c \in Nat : Digits((n + 1) \div 10) = Digits(c) => (n + 1) \div 10 = c
      BY <1>3, <2>2
    <3> QED
      BY <1>1, <2>1, <3>1
  <2> QED
    BY <1>3, <2>1, <2>3
<1>4. S \in SUBSET Nat
  OBVIOUS
<1>5. S = Nat
  <2> HIDE DEF S
  <2> QED
    BY <1>2, <1>3, <1>4, EveryNumber
<1>6. ASSUME NEW a \in Nat, NEW b \in Nat, Digits(a) = Digits(b) PROVE a = b
  <2>1. a \in S /\ a \in 0..a
    BY <1>5
  <2> QED
    BY <1>6, <2>1
<1> QED
  BY <1>6

-----------------------------------------------------------------------------
(* Orders *)

\* Less is the order of lists that NumberProofs.tla is about.
LEMMA LessIsLex == \A a, b : Less(a, b) <=> Lex(a, b)
BY DEF Less, Lex

\* Numbers with keys are in order by their keys, and by themselves where these are equal.
LEMMA SortedBy ==
    ASSUME NEW S \in SUBSET Nat, NEW key, \A n \in S : key[n] \in Seq(Int), NEW before,
           before = [n \in S |-> {m \in S : Less(key[m], key[n]) \/ (key[m] = key[n] /\ m < n)}]
    PROVE  Ordering(S, before)
<1> DEFINE lower(m, n) == Lex(key[m], key[n]) \/ (key[m] = key[n] /\ m < n)
<1>1. \A m, n \in S : m \in before[n] <=> lower(m, n)
  BY LessIsLex
<1>2. before \in [S -> SUBSET S]
  OBVIOUS
<1>3. ASSUME NEW n \in S PROVE ~lower(n, n)
  <2>1. ~Lex(key[n], key[n])
    BY LexIrreflexive
  <2>2. n \in Nat
    OBVIOUS
  <2> QED
    BY <2>1, <2>2
<1>4. ASSUME NEW k \in S, NEW m \in S, NEW n \in S, lower(k, m), lower(m, n) PROVE lower(k, n)
  <2>1. Lex(key[k], key[m]) /\ Lex(key[m], key[n]) => Lex(key[k], key[n])
    BY LexTransitive
  <2>2. k < m /\ m < n => k < n
    OBVIOUS
  <2> QED
    BY <1>4, <2>1, <2>2
<1>5. ASSUME NEW m \in S, NEW n \in S, m # n PROVE lower(m, n) \/ lower(n, m)
  <2>1. key[m] # key[n] => Lex(key[m], key[n]) \/ Lex(key[n], key[m])
    BY LexTotal
  <2>2. m < n \/ n < m
    BY <1>5
  <2> QED
    BY <2>1, <2>2
<1> HIDE DEF lower
<1> QED
  BY <1>1, <1>2, <1>3, <1>4, <1>5 DEF Ordering

\* Of different keys the second does not matter.
LEMMA SortedByKey ==
    ASSUME NEW S \in SUBSET Nat, NEW key, \A n \in S : key[n] \in Seq(Int), NEW before,
           \A m, n \in S : key[m] = key[n] => m = n,
           before = [n \in S |-> {m \in S : Less(key[m], key[n])}]
    PROVE  Ordering(S, before)
<1>1. ASSUME NEW n \in S, NEW m \in S
      PROVE  Less(key[m], key[n]) \/ (key[m] = key[n] /\ m < n) <=> Less(key[m], key[n])
  <2>1. m \in Nat /\ ~(m < m)
    OBVIOUS
  <2> QED
    BY <2>1
<1>2. \A n \in S : {m \in S : Less(key[m], key[n])} =
                       {m \in S : Less(key[m], key[n]) \/ (key[m] = key[n] /\ m < n)}
  BY <1>1
<1>3. before = [n \in S |-> {m \in S : Less(key[m], key[n]) \/ (key[m] = key[n] /\ m < n)}]
  BY <1>2
<1> QED
  BY <1>3, SortedBy

-----------------------------------------------------------------------------
(* The results in their order *)

\* The results have their places.
Placed == TypeOK /\ uri \in Uris /\ place \in Places

\* A node has a URI and a place in the text, with numbers for lines and characters.
LEMMA PlacesOfResults ==
    ASSUME Placed, NEW n \in Node
    PROVE  /\ uri[graph.file[n]] \in 1..Len(Letters) /\ uri[graph.file[n]] \in Nat
           /\ place[n] \in Place
           /\ place[n].line \in Nat /\ place[n].last \in Nat /\ place[n].from \in Nat
           /\ place[n].to \in Nat /\ place[n].text \in Nat /\ place[n].line <= place[n].last
           /\ place[n].last - place[n].line \in Nat
<1>1. graph.file[n] \in File
  BY DEF Placed, TypeOK, Graph
<1>2. uri \in [File -> 1..Len(Letters)] /\ place \in [Node -> Place] /\ place[n].line <= place[n].last
  BY PlaceAssumption DEF Placed
<1>3. uri[graph.file[n]] \in 1..Len(Letters) /\ place[n] \in Place
  BY <1>1, <1>2
<1>4. /\ place[n].line \in Nat /\ place[n].last \in Nat /\ place[n].from \in Nat
      /\ place[n].to \in Nat /\ place[n].text \in Nat
  BY <1>3 DEF Place
<1> QED
  BY <1>2, <1>3, <1>4

\* How the results are sorted, and that they are.
OrderOf(n) == Order(uri[graph.file[n]], place[n])
Earlier(n) == {m \in results : Less(OrderOf(m), OrderOf(n)) \/ (OrderOf(m) = OrderOf(n) /\ m < n)}
SortedByOrder == sorted = InOrder(results, [n \in results |-> Earlier(n)])

\* The list has every result, and of those that differ only in their text the first in
\* its order comes first.
LEMMA SortedResults ==
    ASSUME Placed, SortedByOrder
    PROVE  /\ sorted \in Seq(Node) /\ Len(sorted) \in Nat
           /\ \A i \in 1..Len(sorted) : sorted[i] \in results
           /\ \A n \in results : \E i \in 1..Len(sorted) : sorted[i] = n
           /\ \A i, j \in 1..Len(sorted) :
                 /\ i <= j /\ Key(sorted[i]) = Key(sorted[j])
                 /\ Tightness(sorted[i]) = Tightness(sorted[j])
                 => place[sorted[i]].text <= place[sorted[j]].text
<1>1. results \in SUBSET Node /\ results \in SUBSET Nat /\ IsFiniteSet(results)
  BY Handles, FS_Subset DEF Placed, TypeOK
<1> DEFINE before == [n \in results |-> Earlier(n)]
           key == [n \in results |-> OrderOf(n)]
<1>2. ASSUME NEW n \in results PROVE OrderOf(n) \in Seq(Int)
  <2>1. n \in Node
    BY <1>1
  <2>2. /\ uri[graph.file[n]] \in Int /\ place[n].line \in Int /\ place[n].last \in Int
        /\ place[n].from \in Int /\ place[n].to \in Int /\ place[n].text \in Int
    BY <2>1, PlacesOfResults
  <2> QED
    BY <2>2 DEF OrderOf, Order
<1>3. Ordering(results, before)
  <2>1. \A n \in results : key[n] \in Seq(Int)
    BY <1>2
  <2>2. before = [n \in results |-> {m \in results : Less(key[m], key[n]) \/ (key[m] = key[n] /\ m < n)}]
    BY DEF Earlier
  <2> HIDE DEF before, key
  <2> QED
    BY <1>1, <2>1, <2>2, SortedBy
<1>4. sorted = InOrder(results, before)
  BY DEF SortedByOrder
<1>5. \A m, n \in results : m \in before[n] =>
          Less(OrderOf(m), OrderOf(n)) \/ (OrderOf(m) = OrderOf(n) /\ m < n)
  BY DEF Earlier
<1> HIDE DEF before, key
<1>6. /\ Cardinality(results) \in Nat
      /\ sorted \in [1..Cardinality(results) -> results]
      /\ \A n \in results : \E i \in 1..Cardinality(results) : sorted[i] = n
      /\ \A i, j \in 1..Cardinality(results) : i < j => sorted[i] \in before[sorted[j]]
  BY <1>1, <1>3, <1>4, InOrderLists
<1>7. sorted \in Seq(Node) /\ Len(sorted) = Cardinality(results)
  <2>1. PICK size \in Nat : size = Cardinality(results)
    BY <1>6
  <2>2. sorted \in [1..size -> Node]
    BY <1>1, <1>6, <2>1
  <2>3. sorted \in Seq(Node) /\ Len(sorted) = size
    BY <2>2
  <2> QED
    BY <2>1, <2>3
<1>8. ASSUME NEW i \in 1..Len(sorted), NEW j \in 1..Len(sorted), i <= j,
             Key(sorted[i]) = Key(sorted[j]), Tightness(sorted[i]) = Tightness(sorted[j])
      PROVE  place[sorted[i]].text <= place[sorted[j]].text
  <2>1. PICK m \in results : m = sorted[i]
    BY <1>6, <1>7
  <2>2. PICK n \in results : n = sorted[j]
    BY <1>6, <1>7
  <2>3. m \in Node /\ n \in Node
    BY <1>1
  <2>4. /\ uri[graph.file[m]] \in Nat /\ place[m].line \in Nat /\ place[m].last \in Nat
        /\ place[m].from \in Nat /\ place[m].to \in Nat /\ place[m].text \in Nat
        /\ uri[graph.file[n]] \in Nat /\ place[n].line \in Nat /\ place[n].last \in Nat
        /\ place[n].from \in Nat /\ place[n].to \in Nat /\ place[n].text \in Nat
    BY <2>3, PlacesOfResults
  <2>5. uri[graph.file[m]] = uri[graph.file[n]] /\ place[m].line = place[n].line
    BY <1>8, <2>1, <2>2 DEF Key
  <2>6. /\ place[m].last - place[m].line = place[n].last - place[n].line
        /\ place[m].from = place[n].from /\ place[m].to = place[n].to
    BY <1>8, <2>1, <2>2 DEF Tightness
  <2>7. place[m].last = place[n].last
    <3>1. \A a, b, c, d \in Nat : a - b = c - d /\ b = d => a = c
      OBVIOUS
    <3>2. /\ place[m].last \in Nat /\ place[m].line \in Nat
          /\ place[n].last \in Nat /\ place[n].line \in Nat
      BY <2>4
    <3> QED
      BY <2>5, <2>6, <3>1, <3>2, Zenon
  <2>8. ASSUME i < j, place[n].text < place[m].text PROVE FALSE
    <3> DEFINE a == OrderOf(m)
               b == OrderOf(n)
    <3>1. /\ DOMAIN a = 1..7 /\ DOMAIN b = 1..7 /\ a[7] = place[m].text /\ b[7] = place[n].text
          /\ \A k \in 1..6 : a[k] = b[k]
      BY <2>5, <2>6, <2>7 DEF OrderOf, Order
    <3>2. m \in before[n]
      BY <1>6, <1>7, <2>1, <2>2, <2>8
    <3>3. Less(a, b) \/ a = b
      BY <1>5, <3>2
    <3> HIDE DEF a, b
    <3>4. a # b
      BY <2>4, <2>8, <3>1
    <3>5. PICK k \in DOMAIN b : k \notin DOMAIN a \/ a[k] < b[k]
      BY <3>3, <3>4 DEF Less
    <3>6. k \in 1..6 \/ k = 7
      BY <3>1
    <3>7. a[7] < b[7] \/ \E l \in 1..6 : a[l] < b[l]
      BY <3>1, <3>5, <3>6
    <3>8. ~(a[7] < b[7])
      <4>1. a[7] \in Nat /\ b[7] \in Nat /\ b[7] < a[7]
        BY <2>4, <2>8, <3>1
      <4> QED
        BY <4>1
    <3>9. ASSUME NEW l \in 1..6, a[l] < b[l] PROVE FALSE
      <4>1. b \in Seq(Int) /\ l \in DOMAIN b
        BY <1>2, <3>1 DEF b
      <4>2. b[l] \in Int
        BY <4>1
      <4> QED
        BY <3>1, <3>9, <4>2
    <3> QED
      BY <3>7, <3>8, <3>9
  <2>9. i = j \/ i < j
    BY <1>8
  <2>10. i = j => m = n
    BY <2>1, <2>2
  <2>11. ~(place[n].text < place[m].text)
    BY <2>4, <2>8, <2>9, <2>10
  <2> QED
    BY <2>1, <2>2, <2>4, <2>11
<1> QED
  BY <1>6, <1>7, <1>8

-----------------------------------------------------------------------------
(* The map of the best results *)

\* The place of m is tighter than the one of n.
Tighter(m, n) == Less(Tightness(m), Tightness(n))

\* That is an order.
LEMMA TighterInOrder ==
    ASSUME Placed, NEW k \in Node, NEW m \in Node, NEW n \in Node
    PROVE  /\ ~Tighter(n, n)
           /\ Tighter(k, m) /\ Tighter(m, n) => Tighter(k, n)
           /\ Tightness(m) # Tightness(n) => Tighter(m, n) \/ Tighter(n, m)
<1>1. ASSUME NEW x \in Node PROVE Tightness(x) \in Seq(Int)
  <2>1. /\ place[x].last - place[x].line \in Int
        /\ place[x].from \in Int /\ place[x].to \in Int
    BY PlacesOfResults
  <2> QED
    BY <2>1 DEF Tightness
<1>2. Tightness(k) \in Seq(Int) /\ Tightness(m) \in Seq(Int) /\ Tightness(n) \in Seq(Int)
  BY <1>1
<1>3. \A x, y : Tighter(x, y) <=> Lex(Tightness(x), Tightness(y))
  BY LessIsLex DEF Tighter
<1> QED
  BY <1>2, <1>3, LexIrreflexive, LexTransitive, LexTotal

\* After k results the map has one for each key there was, and it is the tightest, and
\* of equally tight ones the first.
Best(i, j) ==
    /\ Key(sorted[j]) = Key(sorted[i])
    /\ Tighter(sorted[j], sorted[i]) \/ (Tightness(sorted[j]) = Tightness(sorted[i]) /\ j <= i)
Kept(k, best) ==
    /\ \A n \in best : \E j \in 1..k : n = sorted[j]
    /\ \A m, n \in best : Key(m) = Key(n) => m = n
    /\ \A i \in 1..k : \E j \in 1..k : sorted[j] \in best /\ Best(i, j)

\* The next result keeps that.
LEMMA EnterKeeps ==
    ASSUME Placed, sorted \in Seq(Node), NEW k \in Nat, k + 1 \in 1..Len(sorted),
           NEW best \in SUBSET Node, Kept(k, best)
    PROVE  Kept(k + 1, Enter(best, sorted[k + 1]))
<1> DEFINE n == sorted[k + 1]
           same == {m \in best : Key(m) = Key(n)}
           next == Enter(best, n)
<1>1. n \in Node /\ Len(sorted) \in Nat
  OBVIOUS
<1>2. \A i \in 1..k : sorted[i] \in Node /\ i \in Nat /\ i <= k + 1 /\ i \in 1..(k + 1)
  OBVIOUS
<1>3. k + 1 \in 1..(k + 1) /\ k + 1 <= k + 1 /\ \A i \in 1..(k + 1) : i \in 1..k \/ i = k + 1
  OBVIOUS
<1>4. Best(k + 1, k + 1)
  BY <1>3 DEF Best
<1>5. /\ \A m \in best : \E j \in 1..k : m = sorted[j]
      /\ \A l, m \in best : Key(l) = Key(m) => l = m
      /\ \A i \in 1..k : \E j \in 1..k : sorted[j] \in best /\ Best(i, j)
  BY DEF Kept
<1>6. next = IF same = {} THEN best \cup {n}
             ELSE IF \E m \in same : Better(n, m) THEN (best \ same) \cup {n} ELSE best
  BY DEF Enter
<1> HIDE DEF next
<1>7. CASE same = {}
  <2>1. next = best \cup {n}
    BY <1>6, <1>7
  <2>2. \A m \in next : \E j \in 1..(k + 1) : m = sorted[j]
    BY <1>2, <1>3, <1>5, <2>1
  <2>3. \A l, m \in next : Key(l) = Key(m) => l = m
    BY <1>5, <1>7, <2>1
  <2>4. ASSUME NEW i \in 1..(k + 1) PROVE \E j \in 1..(k + 1) : sorted[j] \in next /\ Best(i, j)
    BY <1>2, <1>3, <1>4, <1>5, <2>1
  <2> QED
    BY <2>2, <2>3, <2>4 DEF Kept, next
<1>8. CASE \E m \in same : Better(n, m)
  <2>1. next = (best \ same) \cup {n}
    BY <1>6, <1>8
  <2>2. \A m \in next : \E j \in 1..(k + 1) : m = sorted[j]
    BY <1>2, <1>3, <1>5, <2>1
  <2>3. \A l, m \in next : Key(l) = Key(m) => l = m
    BY <1>5, <2>1
  <2>4. PICK m \in same : Tighter(n, m)
    BY <1>8 DEF Better, Tighter
  <2>5. ASSUME NEW i \in 1..k PROVE \E j \in 1..(k + 1) : sorted[j] \in next /\ Best(i, j)
    <3>1. PICK j \in 1..k : sorted[j] \in best /\ Best(i, j)
      BY <1>5
    <3>2. CASE sorted[j] \in same
      <4>1. sorted[j] = m
        BY <1>5, <3>2
      <4>2. Key(sorted[i]) = Key(n)
        BY <3>1, <3>2 DEF Best
      <4>3. Tighter(m, sorted[i]) \/ Tightness(m) = Tightness(sorted[i])
        BY <3>1, <4>1 DEF Best
      <4>4. m \in Node /\ sorted[i] \in Node
        BY <1>2
      <4>5. Tighter(n, sorted[i])
        <5>1. CASE Tighter(m, sorted[i])
          BY <1>1, <2>4, <4>4, <5>1, TighterInOrder
        <5>2. CASE Tightness(m) = Tightness(sorted[i])
          BY <2>4, <5>2 DEF Tighter
        <5> QED
          BY <4>3, <5>1, <5>2
      <4>6. Best(i, k + 1)
        BY <4>2, <4>5 DEF Best
      <4> QED
        BY <1>3, <2>1, <4>6
    <3>3. CASE sorted[j] \notin same
      BY <1>2, <2>1, <3>1, <3>3
    <3> QED
      BY <3>2, <3>3
  <2>6. ASSUME NEW i \in 1..(k + 1) PROVE \E j \in 1..(k + 1) : sorted[j] \in next /\ Best(i, j)
    BY <1>3, <1>4, <2>1, <2>5
  <2> QED
    BY <2>2, <2>3, <2>6 DEF Kept, next
<1>9. CASE same # {} /\ ~\E m \in same : Better(n, m)
  <2>1. next = best
    BY <1>6, <1>9
  <2>2. \A m \in next : \E j \in 1..(k + 1) : m = sorted[j]
    BY <1>2, <1>5, <2>1
  <2>3. PICK m \in same : ~Tighter(n, m)
    BY <1>9 DEF Better, Tighter
  <2>4. PICK j \in 1..k : m = sorted[j]
    BY <1>5
  <2>5. Tighter(m, n) \/ Tightness(m) = Tightness(n)
    BY <1>1, <2>3, TighterInOrder
  <2>6. Best(k + 1, j)
    BY <1>2, <2>4, <2>5 DEF Best
  <2>7. ASSUME NEW i \in 1..(k + 1) PROVE \E l \in 1..(k + 1) : sorted[l] \in next /\ Best(i, l)
    BY <1>2, <1>3, <1>5, <2>1, <2>4, <2>6
  <2> QED
    BY <1>5, <2>1, <2>2, <2>7 DEF Kept, next
<1> QED
  BY <1>7, <1>8, <1>9

\* So it is so after the last.
LEMMA BestAreKept ==
    ASSUME Placed, sorted \in Seq(Node)
    PROVE  Kept(Len(sorted), Deduplicated) /\ Deduplicated \in SUBSET Node
<1> DEFINE body(b) == [i \in 0..Len(sorted) |-> IF i = 0 THEN {} ELSE Enter(b[i - 1], sorted[i])]
           best == CHOOSE b : b = body(b)
           V == SUBSET Node
<1>1. PICK n \in Nat : n = Len(sorted)
  OBVIOUS
<1>2. Deduplicated = best[n]
  BY <1>1 DEF Deduplicated
<1>3. \A i \in 1..n : sorted[i] \in Node
  BY <1>1
<1>4. \E b : b = body(b) /\ \A k \in 0..n : b[k] \in V
  <2> DEFINE g == [k \in Nat |-> [B \in V |-> IF k \in 1..n THEN Enter(B, sorted[k]) ELSE B]]
  <2>1. \A k \in 1..n, B \in V : Enter(B, sorted[k]) \in V
    BY <1>3 DEF Enter
  <2>2. g \in Steps(V)
    BY <2>1 DEF Steps
  <2>3. \A k \in 1..n, B \in V : g[k][B] = Enter(B, sorted[k])
    OBVIOUS
  <2>4. {} \in V
    OBVIOUS
  <2> HIDE DEF g, V
  <2>5. PICK l : /\ l = [i \in 0..n |-> l[i]] /\ l[0] = {}
                 /\ \A k \in 0..n : l[k] \in V
                 /\ \A k \in 1..n : l[k] = g[k][l[k - 1]]
    BY <2>2, <2>4, SteppedTo
  <2>6. ASSUME NEW i \in 0..n PROVE l[i] = IF i = 0 THEN {} ELSE Enter(l[i - 1], sorted[i])
    <3>1. i # 0 => i \in 1..n /\ i - 1 \in 0..n
      BY <1>1
    <3> QED
      BY <2>3, <2>5, <3>1
  <2>7. l = [i \in 0..n |-> IF i = 0 THEN {} ELSE Enter(l[i - 1], sorted[i])]
    BY <2>5, <2>6
  <2>8. l = body(l)
    BY <1>1, <2>7
  <2> HIDE DEF body
  <2> QED
    BY <2>5, <2>8
<1>5. best = body(best)
  <2> HIDE DEF body
  <2> QED
    BY <1>4
<1> HIDE DEF best
<1>6. \A i \in 0..n : best[i] = IF i = 0 THEN {} ELSE Enter(best[i - 1], sorted[i])
  BY <1>1, <1>5
<1> DEFINE S == {k \in Nat : k <= n => best[k] \in SUBSET Node /\ Kept(k, best[k])}
<1>7. 0 \in S
  <2>1. best[0] = {}
    BY <1>1, <1>6
  <2>2. \A i \in 1..0 : FALSE
    OBVIOUS
  <2>3. Kept(0, {})
    BY <2>2 DEF Kept
  <2> QED
    BY <2>1, <2>3
<1>8. ASSUME NEW k \in S PROVE k + 1 \in S
  <2>1. SUFFICES ASSUME k + 1 <= n PROVE best[k + 1] \in SUBSET Node /\ Kept(k + 1, best[k + 1])
    OBVIOUS
  <2>2. k \in Nat /\ k <= n /\ k + 1 \in 1..n /\ k + 1 # 0 /\ (k + 1) - 1 = k /\ k + 1 \in 0..n
    BY <1>1, <2>1
  <2>3. best[k + 1] = Enter(best[k], sorted[k + 1])
    BY <1>6, <2>2
  <2>4. best[k] \in SUBSET Node /\ Kept(k, best[k])
    BY <1>8, <2>2
  <2>5. sorted[k + 1] \in Node
    BY <1>3, <2>2
  <2>6. best[k + 1] \in SUBSET Node
    BY <2>3, <2>4, <2>5 DEF Enter
  <2>7. Kept(k + 1, best[k + 1])
    BY <1>1, <2>2, <2>3, <2>4, EnterKeeps
  <2> QED
    BY <2>6, <2>7
<1>9. S \in SUBSET Nat
  OBVIOUS
<1>10. S = Nat
  <2> HIDE DEF S
  <2> QED
    BY <1>7, <1>8, <1>9, EveryNumber
<1>11. n \in S /\ n <= n
  BY <1>10
<1> QED
  BY <1>1, <1>2, <1>11

\* A result is tightest on its line, with the first text of those.
Tightest(n) ==
    \A m \in results : Key(m) = Key(n) =>
        Less(Tightness(n), Tightness(m))
            \/ (Tightness(n) = Tightness(m) /\ place[n].text <= place[m].text)

\* The map has such a result for each line, and no other.
LEMMA DeduplicatedAreTightest ==
    ASSUME Placed, SortedByOrder
    PROVE  /\ Deduplicated \in SUBSET results
           /\ \A m, n \in Deduplicated : Key(m) = Key(n) => m = n
           /\ \A n \in Deduplicated : Tightest(n)
           /\ \A n \in results : Tightest(n) => \E m \in Deduplicated : Shown(m) = Shown(n)
<1>1. /\ sorted \in Seq(Node) /\ Len(sorted) \in Nat
      /\ \A i \in 1..Len(sorted) : sorted[i] \in results
      /\ \A n \in results : \E i \in 1..Len(sorted) : sorted[i] = n
      /\ \A i, j \in 1..Len(sorted) :
            /\ i <= j /\ Key(sorted[i]) = Key(sorted[j])
            /\ Tightness(sorted[i]) = Tightness(sorted[j])
            => place[sorted[i]].text <= place[sorted[j]].text
  BY SortedResults
<1>2. Kept(Len(sorted), Deduplicated)
  BY <1>1, BestAreKept
<1>3. /\ \A n \in Deduplicated : \E j \in 1..Len(sorted) : n = sorted[j]
      /\ \A m, n \in Deduplicated : Key(m) = Key(n) => m = n
      /\ \A i \in 1..Len(sorted) : \E j \in 1..Len(sorted) : sorted[j] \in Deduplicated /\ Best(i, j)
  BY <1>2 DEF Kept
<1>4. results \in SUBSET Node
  BY DEF Placed, TypeOK
<1>5. Deduplicated \in SUBSET results
  BY <1>1, <1>3
<1>6. ASSUME NEW m \in results
      PROVE  \E b \in Deduplicated :
                 /\ Key(b) = Key(m)
                 /\ Tighter(b, m) \/ (Tightness(b) = Tightness(m) /\ place[b].text <= place[m].text)
  <2>1. PICK i \in 1..Len(sorted) : sorted[i] = m
    BY <1>1
  <2>2. PICK j \in 1..Len(sorted) : sorted[j] \in Deduplicated /\ Best(i, j)
    BY <1>3
  <2> QED
    BY <1>1, <2>1, <2>2 DEF Best
<1>7. ASSUME NEW n \in Deduplicated PROVE Tightest(n)
  <2>1. ASSUME NEW m \in results, Key(m) = Key(n)
        PROVE  Tighter(n, m) \/ (Tightness(n) = Tightness(m) /\ place[n].text <= place[m].text)
    BY <1>3, <1>6, <2>1
  <2> QED
    BY <2>1 DEF Tightest, Tighter
<1>8. ASSUME NEW n \in results, Tightest(n) PROVE \E m \in Deduplicated : Shown(m) = Shown(n)
  <2>1. PICK b \in Deduplicated :
            /\ Key(b) = Key(n)
            /\ Tighter(b, n) \/ (Tightness(b) = Tightness(n) /\ place[b].text <= place[n].text)
    BY <1>6
  <2>2. b \in results /\ b \in Node /\ n \in Node
    BY <1>4, <1>5
  <2>3. Tighter(n, b) \/ (Tightness(n) = Tightness(b) /\ place[n].text <= place[b].text)
    BY <1>8, <2>1, <2>2 DEF Tightest, Tighter
  <2>4. ~(Tighter(n, b) /\ Tighter(b, n))
    BY <2>2, TighterInOrder
  <2>5. Tightness(b) = Tightness(n)
    BY <2>1, <2>3, <2>4
  <2>6. ~Tighter(n, b) /\ ~Tighter(b, n)
    <3>1. ~Tighter(n, n)
      BY <2>2, TighterInOrder
    <3> QED
      BY <2>5, <3>1 DEF Tighter
  <2>7. place[b].text <= place[n].text /\ place[n].text <= place[b].text
    BY <2>1, <2>3, <2>6
  <2>8. place[b].text \in Nat /\ place[n].text \in Nat
    BY <2>2, PlacesOfResults
  <2>9. place[b].text = place[n].text
    BY <2>7, <2>8
  <2> QED
    BY <2>1, <2>5, <2>9 DEF Shown
<1> QED
  BY <1>3, <1>5, <1>7, <1>8

-----------------------------------------------------------------------------
(* The answer *)

\* How the results of the map are sorted.
IsAnswer ==
    incidents = InOrder(Deduplicated,
        [n \in Deduplicated |-> {m \in Deduplicated : Less(SortKey(m), SortKey(n))}])

\* A text and a number, with a hyphen between them, are one text that tells them both:
\* the digits have no hyphen.
LEMMA LastHyphen ==
    ASSUME NEW u \in Seq(Int), NEW v \in Seq(Int), NEW x \in Seq(Nat), NEW y \in Seq(Nat),
           u \o <<Hyphen>> \o x = v \o <<Hyphen>> \o y
    PROVE  u = v /\ x = y
<1>0. x \in Seq(Int) /\ y \in Seq(Int) /\ Hyphen \in Int
  BY DEF Hyphen
<1> DEFINE s == u \o <<Hyphen>> \o x
           t == v \o <<Hyphen>> \o y
<1>1. /\ Len(u) \in Nat /\ Len(v) \in Nat /\ Len(x) \in Nat /\ Len(y) \in Nat
      /\ Len(s) = Len(u) + 1 + Len(x) /\ Len(t) = Len(v) + 1 + Len(y)
  BY <1>0
<1>2. /\ \A i \in 1..Len(u) : s[i] = u[i]
      /\ s[Len(u) + 1] = Hyphen
      /\ \A i \in 1..Len(x) : s[Len(u) + 1 + i] = x[i]
  BY <1>0
<1>3. /\ \A i \in 1..Len(v) : t[i] = v[i]
      /\ t[Len(v) + 1] = Hyphen
      /\ \A i \in 1..Len(y) : t[Len(v) + 1 + i] = y[i]
  BY <1>0
<1>4. s = t
  OBVIOUS
<1> HIDE DEF s, t
<1>5. Len(u) = Len(v)
  <2>1. ASSUME Len(u) < Len(v) PROVE FALSE
    <3>1. Len(v) - Len(u) \in 1..Len(x) /\ Len(u) + 1 + (Len(v) - Len(u)) = Len(v) + 1
      BY <1>1, <1>4, <2>1
    <3>2. x[Len(v) - Len(u)] = Hyphen
      BY <1>2, <1>3, <1>4, <3>1
    <3>3. x[Len(v) - Len(u)] \in Nat
      BY <3>1
    <3> QED  BY <3>2, <3>3 DEF Hyphen
  <2>2. ASSUME Len(v) < Len(u) PROVE FALSE
    <3>1. Len(u) - Len(v) \in 1..Len(y) /\ Len(v) + 1 + (Len(u) - Len(v)) = Len(u) + 1
      BY <1>1, <1>4, <2>2
    <3>2. y[Len(u) - Len(v)] = Hyphen
      BY <1>2, <1>3, <1>4, <3>1
    <3>3. y[Len(u) - Len(v)] \in Nat
      BY <3>1
    <3> QED  BY <3>2, <3>3 DEF Hyphen
  <2> QED
    BY <1>1, <2>1, <2>2
<1>6. Len(x) = Len(y)
  BY <1>1, <1>4, <1>5
<1>7. u = v
  <2>1. \A i \in 1..Len(u) : u[i] = v[i]
    BY <1>2, <1>3, <1>4, <1>5
  <2>2. u = [i \in 1..Len(u) |-> u[i]] /\ v = [i \in 1..Len(v) |-> v[i]]
    OBVIOUS
  <2> QED
    BY <1>5, <2>1, <2>2
<1>8. x = y
  <2>1. \A i \in 1..Len(x) : x[i] = y[i]
    BY <1>2, <1>3, <1>4, <1>5, <1>6
  <2>2. x = [i \in 1..Len(x) |-> x[i]] /\ y = [i \in 1..Len(y) |-> y[i]]
    OBVIOUS
  <2> QED
    BY <1>6, <2>1, <2>2
<1> QED
  BY <1>7, <1>8

\* Lines with the same text in the sort are the same.
LEMMA SortKeysDiffer ==
    ASSUME Placed, NEW m \in Node, NEW n \in Node
    PROVE  SortKey(n) \in Seq(Int) /\ (SortKey(m) = SortKey(n) => Key(m) = Key(n))
<1> DEFINE x == Digits(place[m].line)
           y == Digits(place[n].line)
           u == uri[graph.file[m]]
           v == uri[graph.file[n]]
<1>1. /\ u \in 1..Len(Letters) /\ place[m].line \in Nat
      /\ v \in 1..Len(Letters) /\ place[n].line \in Nat
  BY PlacesOfResults
<1>2. x \in Seq(Nat) /\ y \in Seq(Nat)
  BY <1>1, DigitsOf
<1>3. x = y => place[m].line = place[n].line
  BY <1>1, DigitsDiffer
<1>4. SortKey(m) = Letters[u] \o <<Hyphen>> \o x /\ SortKey(n) = Letters[v] \o <<Hyphen>> \o y
  BY DEF SortKey
<1>5. Key(m) = <<u, place[m].line>> /\ Key(n) = <<v, place[n].line>>
  BY DEF Key
<1> HIDE DEF x, y, u, v
<1>6. Letters[u] \in Seq(Int) /\ Letters[v] \in Seq(Int)
  BY <1>1, PlaceAssumption
<1>7. SortKey(n) \in Seq(Int)
  <2>1. y \in Seq(Int) /\ <<Hyphen>> \in Seq(Int)
    BY <1>2 DEF Hyphen
  <2> QED
    BY <1>4, <1>6, <2>1
<1>8. ASSUME SortKey(m) = SortKey(n) PROVE Key(m) = Key(n)
  <2>1. Letters[u] = Letters[v] /\ x = y
    BY <1>2, <1>4, <1>6, <1>8, LastHyphen
  <2>2. u = v
    <3>1. u < v \/ v < u => Less(Letters[u], Letters[u])
      BY <1>1, <2>1, PlaceAssumption
    <3>2. ~Less(Letters[u], Letters[u])
      BY <1>6, LessIsLex, LexIrreflexive
    <3> QED
      BY <1>1, <3>1, <3>2
  <2> QED
    BY <1>3, <1>5, <2>1, <2>2
<1> QED
  BY <1>7, <1>8

\* So the answer has every result of the map, in the order of the sort.
LEMMA AnswerLists ==
    ASSUME Placed, SortedByOrder, IsAnswer
    PROVE  /\ DOMAIN incidents \in SUBSET Nat
           /\ \A i \in DOMAIN incidents : incidents[i] \in Deduplicated
           /\ \A n \in Deduplicated : \E i \in DOMAIN incidents : incidents[i] = n
           /\ \A i, j \in DOMAIN incidents :
                 i < j => Less(SortKey(incidents[i]), SortKey(incidents[j]))
<1>1. /\ Deduplicated \in SUBSET results
      /\ \A m, n \in Deduplicated : Key(m) = Key(n) => m = n
  BY DeduplicatedAreTightest
<1>2. results \in SUBSET Node
  BY DEF Placed, TypeOK
<1> DEFINE D == Deduplicated
           key == [n \in D |-> SortKey(n)]
           before == [n \in D |-> {m \in D : Less(SortKey(m), SortKey(n))}]
<1>3. D \in SUBSET Nat /\ IsFiniteSet(D) /\ D \in SUBSET Node
  BY <1>1, <1>2, Handles, FS_Subset
<1>4. Ordering(D, before)
  <2>1. \A n \in D : key[n] \in Seq(Int)
    BY <1>3, SortKeysDiffer
  <2>2. \A m, n \in D : key[m] = key[n] => m = n
    BY <1>1, <1>3, SortKeysDiffer
  <2>3. before = [n \in D |-> {m \in D : Less(key[m], key[n])}]
    OBVIOUS
  <2> HIDE DEF D, key, before
  <2> QED
    BY <1>3, <2>1, <2>2, <2>3, SortedByKey
<1>5. incidents = InOrder(D, before)
  BY DEF IsAnswer
<1>6. \A m, n \in D : m \in before[n] => Less(SortKey(m), SortKey(n))
  OBVIOUS
<1> HIDE DEF D, key, before
<1>7. /\ Cardinality(D) \in Nat
      /\ incidents \in [1..Cardinality(D) -> D]
      /\ \A n \in D : \E i \in 1..Cardinality(D) : incidents[i] = n
      /\ \A i, j \in 1..Cardinality(D) : i < j => incidents[i] \in before[incidents[j]]
  BY <1>3, <1>4, <1>5, InOrderLists
<1>8. DOMAIN incidents = 1..Cardinality(D)
  BY <1>7
<1>9. DOMAIN incidents \in SUBSET Nat
  BY <1>8
<1>10. \A i \in DOMAIN incidents : incidents[i] \in D
  BY <1>7, <1>8
<1>11. \A n \in D : \E i \in DOMAIN incidents : incidents[i] = n
  BY <1>7, <1>8
<1>12. \A i, j \in DOMAIN incidents : i < j => Less(SortKey(incidents[i]), SortKey(incidents[j]))
  BY <1>6, <1>7, <1>8, <1>10
<1> QED
  BY <1>9, <1>10, <1>11, <1>12 DEF D

-----------------------------------------------------------------------------
(* The steps of the answer *)

\* What each step has come to.
Answering ==
    /\ step \in {"query", "sorted", "answered"}
    /\ step # "query" => answer = "ok" /\ uri \in Uris /\ place \in Places /\ SortedByOrder
    /\ step = "answered" => IsAnswer
    /\ request # {} => step = "answered"
    /\ \A n \in request :
          /\ \E i \in DOMAIN incidents : n = incidents[i]
          /\ snip = {l \in 0..(FileLines - 1) :
                        /\ Skipped(place[n].line) <= l
                        /\ l < Skipped(place[n].line) + ((place[n].last - place[n].line) + ContextLines)}

\* A query with an answer takes no further step.
LEMMA AnsweredStays == TypeOK /\ answer = "ok" => ~Next
BY DEF TypeOK, Next, StartingNodes, Traverse, NothingFound, SomethingFound, SkipFile, SearchFile,
       PanicInFile, Finish

\* What the answer is made of changes with the results and their places only.
LEMMA SameAnswer ==
    ASSUME UNCHANGED <<graph, results, uri, place, sorted>>
    PROVE  /\ Deduplicated' = Deduplicated /\ \A n : SortKey(n)' = SortKey(n)
           /\ SortedByOrder => SortedByOrder'
           /\ incidents' = incidents /\ IsAnswer => IsAnswer'
<1>1. Deduplicated' = Deduplicated
  BY DEF Deduplicated, Enter, Key, Better, Tightness
<1>2. \A n : SortKey(n)' = SortKey(n)
  BY DEF SortKey
<1>3. SortedByOrder => SortedByOrder'
  BY DEF SortedByOrder, Earlier, OrderOf
<1>4. incidents' = incidents /\ IsAnswer => IsAnswer'
  BY <1>1, <1>2 DEF IsAnswer
<1> QED
  BY <1>1, <1>2, <1>3, <1>4

\* Before the query, and after each step, that is so.
LEMMA AnsweringInit == IInit => Answering
BY DEF IInit, Answering

LEMMA AnsweringStays ==
    ASSUME TypeOK, Answering, [INext]_<<vars, iVars>> PROVE Answering'
<1> USE DEF Answering
<1>1. CASE Next /\ UNCHANGED iVars
  <2>1. step = "query" /\ request = {}
    BY <1>1, AnsweredStays
  <2> QED
    BY <1>1, <2>1 DEF iVars
<1>2. CASE Sort
  <2>1. /\ step = "query" /\ step' = "sorted" /\ answer = "ok" /\ request = {}
        /\ UNCHANGED <<vars, incidents, request, snip>>
    BY <1>2 DEF Sort
  <2>2. /\ uri' \in Uris /\ place' \in Places
        /\ sorted' = InOrder(results, [n \in results |->
              {m \in results : Less(Order(uri'[graph.file[m]], place'[m]), Order(uri'[graph.file[n]], place'[n]))
                               \/ (Order(uri'[graph.file[m]], place'[m]) = Order(uri'[graph.file[n]], place'[n])
                                      /\ m < n)}])
    BY <1>2 DEF Sort
  <2>3. graph' = graph /\ results' = results /\ answer' = answer /\ request' = request
    BY <2>1 DEF vars, input
  <2>4. SortedByOrder'
    BY <2>2, <2>3 DEF SortedByOrder, Earlier, OrderOf
  <2> QED
    BY <2>1, <2>2, <2>3, <2>4
<1>3. CASE Respond
  <2>1. /\ step = "sorted" /\ step' = "answered" /\ request = {}
        /\ UNCHANGED <<vars, uri, place, sorted, request, snip>>
    BY <1>3 DEF Respond
  <2>2. incidents' = InOrder(Deduplicated,
            [n \in Deduplicated |-> {m \in Deduplicated : Less(SortKey(m), SortKey(n))}])
    BY <1>3 DEF Respond
  <2>3. graph' = graph /\ results' = results /\ answer' = answer
    BY <2>1 DEF vars, input
  <2>4. /\ Deduplicated' = Deduplicated /\ \A n : SortKey(n)' = SortKey(n)
        /\ SortedByOrder => SortedByOrder'
    BY <2>1, <2>3, SameAnswer
  <2>5. IsAnswer'
    BY <2>2, <2>4 DEF IsAnswer
  <2> QED
    BY <2>1, <2>3, <2>4, <2>5
<1>4. CASE GetCodeSnip
  <2>1. /\ step = "answered" /\ request = {}
        /\ UNCHANGED <<vars, uri, place, step, sorted, incidents>>
    BY <1>4 DEF GetCodeSnip
  <2>2. PICK i \in DOMAIN incidents :
            /\ request' = {incidents[i]}
            /\ snip' = {l \in 0..(FileLines - 1) :
                  /\ Skipped(place[incidents[i]].line) <= l
                  /\ l < Skipped(place[incidents[i]].line)
                            + ((place[incidents[i]].last - place[incidents[i]].line) + ContextLines)}
    BY <1>4 DEF GetCodeSnip
  <2>3. SortedByOrder' /\ IsAnswer'
    BY <2>1, SameAnswer DEF vars, input
  <2> QED
    BY <2>1, <2>2, <2>3 DEF vars
<1>5. CASE UNCHANGED <<vars, iVars>>
  <2>1. (SortedByOrder => SortedByOrder') /\ (IsAnswer => IsAnswer')
    BY <1>5, SameAnswer DEF vars, iVars, input
  <2> QED
    BY <1>5, <2>1 DEF vars, iVars
<1> QED
  BY <1>1, <1>2, <1>3, <1>4, <1>5 DEF INext

LEMMA AnsweringKept == ISpec => [](TypeOK /\ Answering)
<1>1. IInit => Init
  BY DEF IInit
<1>2. [INext]_<<vars, iVars>> => [Next]_vars
  BY DEF INext, Sort, Respond, GetCodeSnip
<1>3. ISpec => Spec
  BY <1>1, <1>2, PTL DEF ISpec, Spec
<1> QED
  BY <1>3, TypeCorrect, AnsweringInit, AnsweringStays, PTL DEF ISpec

\* csharp.rs:656-705: whatever was found, and in whichever order, the answer is the same:
\* one incident for each line, the tightest, in the order of the texts.
THEOREM AnswerIsRight == ISpec => []AnswerIsCanonical
<1>1. ASSUME TypeOK, Answering PROVE AnswerIsCanonical
  <2>1. SUFFICES ASSUME step = "answered" PROVE AnswerIsCanonical
    BY DEF AnswerIsCanonical
  <2>2. Placed /\ SortedByOrder /\ IsAnswer
    BY <1>1, <2>1 DEF Answering, Placed
  <2> DEFINE list == [i \in DOMAIN incidents |-> Shown(incidents[i])]
             shown == {Shown(n) : n \in {n \in results : Tightest(n)}}
             key(s) == Letters[s[1][1]] \o <<Hyphen>> \o Digits(s[1][2])
  <2>3. /\ DOMAIN incidents \in SUBSET Nat
        /\ \A i \in DOMAIN incidents : incidents[i] \in Deduplicated
        /\ \A n \in Deduplicated : \E i \in DOMAIN incidents : incidents[i] = n
        /\ \A i, j \in DOMAIN incidents :
              i < j => Less(SortKey(incidents[i]), SortKey(incidents[j]))
    BY <2>2, AnswerLists
  <2>4. /\ Deduplicated \in SUBSET results
        /\ \A n \in Deduplicated : Tightest(n)
        /\ \A n \in results : Tightest(n) => \E m \in Deduplicated : Shown(m) = Shown(n)
    BY <2>2, DeduplicatedAreTightest
  <2>5. Range(list) = shown
    <3>1. \A i \in DOMAIN incidents : Shown(incidents[i]) \in shown
      BY <2>3, <2>4
    <3>2. \A n \in results : Tightest(n) => \E i \in DOMAIN incidents : Shown(incidents[i]) = Shown(n)
      BY <2>3, <2>4
    <3> QED
      BY <3>1, <3>2 DEF Range
  <2>6. ASSUME NEW i \in DOMAIN list, NEW j \in DOMAIN list, i < j PROVE Less(key(list[i]), key(list[j]))
    <3>1. \A n : key(Shown(n)) = SortKey(n)
      BY DEF Shown, Key, SortKey
    <3> QED
      BY <2>3, <2>6, <3>1
  <2> QED
    BY <2>5, <2>6 DEF AnswerIsCanonical, Tightest
<1> QED
  BY <1>1, AnsweringKept, PTL

\* code_snip.rs:79-83: the snippet shows the lines before its incident, and its first
\* line unless it is also the last one and not among the first of the file.
THEOREM SnippetIsRight == ISpec => []SnippetShowsStart
<1>1. ASSUME TypeOK, Answering PROVE SnippetShowsStart
  <2>1. SUFFICES ASSUME NEW n \in request
                 PROVE  LET p == place[n]
                        IN  /\ p.last < FileLines /\ (p.line < p.last \/ p.line < ContextLines) => p.line \in snip
                            /\ \A l \in 0..(p.line - 1) :
                                  l >= p.line - ContextLines /\ l < FileLines => l \in snip
                            /\ \A l \in snip : l < p.last \/ l < ContextLines + (p.last - p.line)
    BY DEF SnippetShowsStart
  <2>2. Placed /\ SortedByOrder /\ IsAnswer
    BY <1>1, <2>1 DEF Answering, Placed
  <2>3. n \in Node
    <3>1. n \in Deduplicated
      BY <1>1, <2>1, <2>2, AnswerLists DEF Answering
    <3> QED
      BY <2>2, <3>1, DeduplicatedAreTightest DEF Placed, TypeOK
  <2> DEFINE line == place[n].line
             last == place[n].last
             skip == Skipped(line)
  <2>4. snip = {l \in 0..(FileLines - 1) : skip <= l /\ l < skip + ((last - line) + ContextLines)}
    BY <1>1, <2>1 DEF Answering
  <2>5. line \in Nat /\ last \in Nat /\ line <= last
    BY <2>2, <2>3, PlacesOfResults
  <2>6. ContextLines \in Nat /\ FileLines \in Nat
    BY PlaceAssumption
  <2>7. skip = IF line >= ContextLines THEN line - ContextLines ELSE 0
    BY DEF Skipped
  <2> HIDE DEF line, last, skip
  <2>8. last < FileLines /\ (line < last \/ line < ContextLines) => line \in snip
    BY <2>4, <2>5, <2>6, <2>7
  <2>9. ASSUME NEW l \in 0..(line - 1), l >= line - ContextLines, l < FileLines PROVE l \in snip
    BY <2>4, <2>5, <2>6, <2>7, <2>9
  <2>10. ASSUME NEW l \in snip PROVE l < last \/ l < ContextLines + (last - line)
    BY <2>4, <2>5, <2>6, <2>7, <2>10
  <2> QED
    BY <2>8, <2>9, <2>10 DEF line, last
<1> QED
  BY <1>1, AnsweringKept, PTL
=============================================================================
