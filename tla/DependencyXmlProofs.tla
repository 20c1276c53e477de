------------------------ MODULE DependencyXmlProofs ------------------------
(***************************************************************************)
(* Theorems about DependencyXml.tla, for every documentation file: the     *)
(* graph built from it is well-formed, every declared member is reachable  *)
(* through a type of its type's name, and what stands below a type was     *)
(* declared in a type of that name: in that very type, when the file has   *)
(* no other of the name.                                                   *)
(***************************************************************************)
EXTENDS DependencyXml, FiniteSetTheorems, WellFoundedInduction, TLAPS

-----------------------------------------------------------------------------
(* What handle_member returns *)

\* A set of positions has a first one.
LEMMA FirstPosition ==
    ASSUME NEW n \in Nat, NEW S \in SUBSET (1..n), S # {}
    PROVE  \E i \in S : \A j \in S : i <= j
<1> DEFINE upTo(i) == {j \in S : j <= i}
           T == {upTo(i) : i \in S}
<1>1. IsFiniteSet(S)
  <2>1. IsFiniteSet(1..n)
    BY FS_Interval
  <2> QED
    BY <2>1, FS_Subset
<1>2. T \subseteq FiniteSubsetsOf(S) /\ T # {}
  <2>1. \A i \in S : upTo(i) \in SUBSET S /\ IsFiniteSet(upTo(i))
    BY <1>1, FS_Subset
  <2> QED
    BY <2>1 DEF FiniteSubsetsOf
<1>3. \E A \in T : \A B \in T : ~(<<B, A>> \in StrictSubsetOrdering(S))
  <2> HIDE DEF T
  <2> QED
    BY <1>2, WFMin, FS_StrictSubsetOrderingWellFounded, Zenon
<1>4. PICK i \in S : \A j \in S : ~(<<upTo(j), upTo(i)>> \in StrictSubsetOrdering(S))
  BY <1>3
<1>5. ASSUME NEW j \in S, ~(i <= j)
      PROVE  FALSE
  <2>0. \A k \in S : k \in Nat
    OBVIOUS
  <2>1. j < i /\ \A k \in S : k \in Int
    BY <1>5, <2>0
  <2>2. i <= i /\ ~(i <= j) /\ \A k \in S : k <= j => k <= i
    BY <2>0, <2>1
  <2>3. upTo(j) \subseteq upTo(i) /\ i \in upTo(i) /\ i \notin upTo(j)
    BY <2>2, Zenon
  <2>4. <<upTo(j), upTo(i)>> \in StrictSubsetOrdering(S)
    BY <2>3 DEF StrictSubsetOrdering
  <2> QED
    BY <2>4, <1>4
<1> QED
  BY <1>5

LEMMA LastAndFront ==
    ASSUME NEW s \in Symbol, s # <<>>
    PROVE  /\ Last(s) \in Part
           /\ Front(s) \in Symbol
           /\ Len(Front(s)) = Len(s) - 1
<1>1. Len(s) \in Nat /\ s \in [1..Len(s) -> Part] /\ Len(s) # 0
  BY DEF Symbol
<1>2. Last(s) \in Part
  BY <1>1 DEF Last
<1>3. Front(s) \in Symbol /\ Len(Front(s)) = Len(s) - 1
  BY <1>1 DEF Symbol, Front
<1> QED
  BY <1>2, <1>3

LEMMA CutName ==
    ASSUME NEW name \in Symbol
    PROVE  /\ UpToParen(name) \in Symbol
           /\ name # <<>> => UpToParen(name) # <<>>
<1> DEFINE open == {i \in DOMAIN name : name[i] \in DOMAIN BeforeParen}
<1>1. CASE open = {}
  BY <1>1 DEF UpToParen
<1>2. CASE open # {}
  <2> DEFINE i == CHOOSE i \in open : \A j \in open : i <= j
  <2>1. Len(name) \in Nat /\ DOMAIN name = 1..Len(name)
    BY DEF Symbol
  <2>2. i \in open
    <3>1. \E k \in open : \A j \in open : k <= j
      BY <1>2, <2>1, FirstPosition
    <3> QED
      BY <3>1
  <2>3. i \in 1..Len(name) /\ BeforeParen[name[i]] \in Part
    BY <2>1, <2>2, XmlAssumption
  <2> HIDE DEF i
  <2>4. SubSeq(name, 1, i - 1) \in Symbol
    BY <2>1, <2>3 DEF Symbol
  <2>5. UpToParen(name) = Append(SubSeq(name, 1, i - 1), BeforeParen[name[i]])
    BY <1>2 DEF UpToParen, i
  <2> QED
    BY <2>3, <2>4, <2>5 DEF Symbol
<1> QED
  BY <1>1, <1>2

LEMMA CutNamespace ==
    ASSUME NEW name \in Symbol
    PROVE  UpToHash(name) \in Symbol
<1>1. PICK D \in SUBSET Part : BeforeHash \in [D -> Part]
  BY XmlAssumption
<1>2. Len(name) \in Nat /\ name \in [1..Len(name) -> Part]
  BY DEF Symbol
<1>3. \A i \in 1..Len(name) :
        (IF name[i] \in DOMAIN BeforeHash THEN BeforeHash[name[i]] ELSE name[i]) \in Part
  BY <1>1, <1>2
<1>4. UpToHash(name) \in [1..Len(name) -> Part]
  BY <1>2, <1>3 DEF UpToHash
<1> QED
  BY <1>2, <1>4 DEF Symbol

\* What inter_node_info holds of one member.
Shaped(info) ==
    /\ info \in Seq(NodeInfo)
    /\ Len(info) = 1 => info[1].type = "namespace"
    /\ Len(info) = 2 => info[1].type = "class" /\ info[2].type = "namespace"
    /\ Len(info) = 3 =>
         info[1].type \in {"field", "method"} /\ info[2].type = "class"
           /\ info[3].type = "namespace"

LEMMA ShapeOf ==
    ASSUME NEW info, Shaped(info)
    PROVE  /\ Len(info) = 1 => info[1] \in NodeInfo /\ info[1].type = "namespace"
           /\ Len(info) = 2 =>
                /\ info[1] \in NodeInfo /\ info[1].type = "class"
                /\ info[2] \in NodeInfo /\ info[2].type = "namespace"
           /\ Len(info) = 3 =>
                /\ info[1] \in NodeInfo /\ info[1].type \in {"field", "method"}
                /\ info[2] \in NodeInfo /\ info[2].type = "class"
                /\ info[3] \in NodeInfo /\ info[3].type = "namespace"
<1>1. \A i \in 1..Len(info) : info[i] \in NodeInfo
  BY DEF Shaped
<1>2. /\ Len(info) = 1 => 1 \in 1..Len(info)
      /\ Len(info) = 2 => 1 \in 1..Len(info) /\ 2 \in 1..Len(info)
      /\ Len(info) = 3 => 1 \in 1..Len(info) /\ 2 \in 1..Len(info) /\ 3 \in 1..Len(info)
  BY DEF Shaped
<1> QED
  BY <1>1, <1>2 DEF Shaped

LEMMA MemberShaped ==
    ASSUME NEW member \in Symbol, NEW outer \in Symbol, NEW type \in {"field", "method"}
    PROVE  Shaped(MemberNodes(member, outer, type))
<1>1. CASE outer = <<>>
  BY <1>1 DEF MemberNodes, Shaped
<1>2. CASE outer # <<>>
  <2>1. <<Last(outer)>> \in Symbol /\ Front(outer) \in Symbol
    BY <1>2, LastAndFront DEF Symbol
  <2>2. /\ Info(member, type) \in NodeInfo
        /\ Info(<<Last(outer)>>, "class") \in NodeInfo
        /\ Info(Front(outer), "namespace") \in NodeInfo
    BY <2>1 DEF Info, NodeInfo, NodeType
  <2>3. /\ Info(member, type).type = type
        /\ Info(<<Last(outer)>>, "class").type = "class"
        /\ Info(Front(outer), "namespace").type = "namespace"
    BY DEF Info
  <2> QED
    BY <1>2, <2>2, <2>3 DEF MemberNodes, Shaped
<1> QED
  BY <1>1, <1>2

LEMMA HandleMember ==
    ASSUME NEW kind \in Kinds, NEW name \in Symbol
    PROVE  Shaped(handle_member(kind, name))
<1>1. Shaped(<<>>)
  BY DEF Shaped
<1>2. Shaped(<<Info(name, "namespace")>>)
  BY DEF Shaped, Info, NodeInfo, NodeType
<1>3. Shaped(TypeNodes(name))
  <2>1. CASE name = <<>>
    BY <2>1, <1>1 DEF TypeNodes
  <2>2. CASE name # <<>>
    <3>1. <<Last(name)>> \in Symbol /\ UpToHash(Front(name)) \in Symbol
      BY <2>2, LastAndFront, CutNamespace DEF Symbol
    <3>2. /\ Info(<<Last(name)>>, "class") \in NodeInfo
          /\ Info(UpToHash(Front(name)), "namespace") \in NodeInfo
      BY <3>1 DEF Info, NodeInfo, NodeType
    <3>3. /\ Info(<<Last(name)>>, "class").type = "class"
          /\ Info(UpToHash(Front(name)), "namespace").type = "namespace"
      BY DEF Info
    <3> QED
      BY <2>2, <3>2, <3>3 DEF TypeNodes, Shaped
  <2> QED
    BY <2>1, <2>2
<1>4. Shaped(FieldNodes(name))
  <2>1. CASE name # <<>>
    <3>1. <<Last(name)>> \in Symbol /\ Front(name) \in Symbol
      BY <2>1, LastAndFront DEF Symbol
    <3> QED
      BY <2>1, <3>1, MemberShaped DEF FieldNodes
  <2> QED
    BY <2>1, <1>1 DEF FieldNodes
<1>5. Shaped(MethodNodes(name))
  <2> DEFINE cut == UpToParen(name)
  <2>1. CASE name # <<>>
    <3>1. cut \in Symbol /\ cut # <<>>
      BY <2>1, CutName
    <3> HIDE DEF cut
    <3>2. <<Last(cut)>> \in Symbol /\ Front(cut) \in Symbol
      BY <3>1, LastAndFront DEF Symbol
    <3>3. Front(cut) # <<>> => <<Last(Front(cut))>> \in Symbol
      BY <3>2, LastAndFront DEF Symbol
    <3> QED
      BY <2>1, <3>2, <3>3, MemberShaped DEF MethodNodes, cut
  <2> QED
    BY <2>1, <1>1 DEF MethodNodes
<1> QED
  BY <1>1, <1>2, <1>3, <1>4, <1>5 DEF handle_member, Kinds

-----------------------------------------------------------------------------
(* The inductive invariant *)

\* Nothing is built before the whole file has been read; then the unit comes first.
UnitFirst ==
    IF phase \in {"read", "failed"}
    THEN nodes = <<>> /\ edges = {} /\ next = 1
         /\ DOMAIN nsNode = {} /\ DOMAIN typeNode = {}
    ELSE Len(nodes) >= 1 /\ nodes[1].type = "comp_unit"

InfosShaped ==
    /\ next <= Len(infos) + 1
    /\ \A j \in 1..Len(infos) : Shaped(infos[j])

\* The unit leads to every namespace.
SpacesHung == \A s \in DOMAIN nsNode : <<1, nsNode[s], 0>> \in edges

\* A type hangs below the namespaces it was declared in,
TypesHung ==
    \A n, c \in 1..Len(nodes) : <<n, c, 0>> \in edges /\ nodes[c].type = "class" =>
        \E j \in Built : NamesType(j) /\ ClassOf(j) = nodes[c] /\ SpaceOf(j) = nodes[n]

\* and in one of them at least,
TypesFound ==
    \A s \in DOMAIN typeNode :
        \E j \in Built :
            /\ NamesType(j) /\ ClassOf(j).symbol = s
            /\ SpaceOf(j).symbol \in DOMAIN nsNode
            /\ <<nsNode[SpaceOf(j).symbol], typeNode[s], 0>> \in edges

\* and what hangs below a type was declared as a member of a type of its name.
MembersHung ==
    \A c, m \in 1..Len(nodes) : <<c, m, 0>> \in edges /\ nodes[c].type = "class" =>
        \E j \in Built : /\ Len(infos[j]) = 3
                         /\ infos[j][1] = nodes[m] /\ infos[j][2] = nodes[c]

\* A member that has been built hangs below the node of its type's name.
MembersTied ==
    \A j \in Built : Len(infos[j]) = 3 =>
        /\ infos[j][2].symbol \in DOMAIN typeNode
        /\ \E m \in 1..Len(nodes) :
              nodes[m] = infos[j][1] /\ <<typeNode[infos[j][2].symbol], m, 0>> \in edges

Inv ==
    /\ TypeOK /\ UnitFirst /\ InfosShaped /\ SpacesHung /\ TypesHung /\ TypesFound
    /\ MembersHung /\ TreesClimb /\ MembersTied

-----------------------------------------------------------------------------
(* Making nodes *)

\* `after` is `before` and perhaps one more node.
Extends(before, after, at, info) ==
    /\ after \in Seq(NodeInfo)
    /\ Len(before) <= Len(after)
    /\ \A k \in 1..Len(before) : after[k] = before[k]
    /\ at \in 2..Len(after)
    /\ after[at] = info
    /\ \A k \in 1..Len(after) : k \in 1..Len(before) \/ k = at

Files(before, after, key, at) ==
    /\ DOMAIN after = DOMAIN before \cup {key}
    /\ \A k \in DOMAIN before : after[k] = before[k]
    /\ after[key] = at

LEMMA OneMore ==
    ASSUME NEW before \in Seq(NodeInfo), Len(before) >= 1, NEW info \in NodeInfo
    PROVE  Extends(before, Append(before, info), Len(before) + 1, info)
BY DEF Extends

LEMMA Filing ==
    ASSUME NEW map, NEW key, NEW at, key \in DOMAIN map => map[key] = at
    PROVE  Files(map, With(map, key, at), key, at)
BY DEF Files, With

LEMMA SameInfo ==
    ASSUME NEW info \in NodeInfo, NEW type, info.type = type
    PROVE  Info(info.symbol, type) = info
BY DEF NodeInfo, Info

LEMMA SpaceAdded ==
    ASSUME TypeOK, SpacesHung, Len(nodes) >= 1, nodes[1].type = "comp_unit",
           NEW info \in NodeInfo, info.type = "namespace"
    PROVE  LET ns == NamespaceNode(info) IN
           /\ Extends(nodes, ns.nodes, ns.at, info)
           /\ ns.edges = edges \cup {<<1, ns.at, 0>>}
           /\ Files(nsNode, ns.map, info.symbol, ns.at)
<1>1. CASE info.symbol \in DOMAIN nsNode
  <2> DEFINE n == nsNode[info.symbol]
  <2>1. n \in 1..Len(nodes) /\ nodes[n] = info
    BY <1>1, SameInfo DEF TypeOK
  <2>2. n # 1
    BY <2>1
  <2>3. Extends(nodes, nodes, n, info)
    BY <2>1, <2>2 DEF Extends, TypeOK
  <2>4. edges = edges \cup {<<1, n, 0>>}
    BY <1>1 DEF SpacesHung
  <2>5. Files(nsNode, nsNode, info.symbol, n)
    BY <1>1 DEF Files
  <2> QED
    BY <1>1, <2>3, <2>4, <2>5 DEF NamespaceNode
<1>2. CASE info.symbol \notin DOMAIN nsNode
  <2>1. nodes \in Seq(NodeInfo)
    BY DEF TypeOK
  <2> QED
    BY <1>2, <2>1, OneMore, Filing DEF NamespaceNode
<1> QED
  BY <1>1, <1>2

LEMMA TypeAdded ==
    ASSUME TypeOK, Len(nodes) >= 1, nodes[1].type = "comp_unit",
           NEW known, NEW at, NEW space, Extends(nodes, known, at, space),
           NEW info \in NodeInfo, info.type = "class"
    PROVE  LET type == TypeNode(info, known) IN
           /\ Extends(known, type.nodes, type.at, info)
           /\ Files(typeNode, type.map, info.symbol, type.at)
<1>1. CASE info.symbol \in DOMAIN typeNode
  <2> DEFINE c == typeNode[info.symbol]
  <2>1. c \in 1..Len(nodes) /\ nodes[c] = info
    BY <1>1, SameInfo DEF TypeOK
  <2>2. c # 1 /\ c \in 1..Len(known) /\ known[c] = info
    BY <2>1 DEF Extends, TypeOK
  <2>3. Extends(known, known, c, info)
    BY <2>2 DEF Extends
  <2>4. Files(typeNode, typeNode, info.symbol, c)
    BY <1>1 DEF Files
  <2> QED
    BY <1>1, <2>3, <2>4 DEF TypeNode
<1>2. CASE info.symbol \notin DOMAIN typeNode
  <2>1. known \in Seq(NodeInfo) /\ Len(known) >= 1
    BY DEF Extends, TypeOK
  <2> QED
    BY <1>2, <2>1, OneMore, Filing DEF TypeNode
<1> QED
  BY <1>1, <1>2

-----------------------------------------------------------------------------
(* What a step of the build adds to the graph *)

\* The graph grows: old nodes stay, and the new ones are among `new`.
Grows(new) ==
    /\ nodes' \in Seq(NodeInfo)
    /\ Len(nodes) <= Len(nodes')
    /\ \A k \in 1..Len(nodes) : nodes'[k] = nodes[k]
    /\ \A k \in 1..Len(nodes') : k \in 1..Len(nodes) \/ k \in new
    /\ new \subseteq 2..Len(nodes')

\* One extension after another.
LEMMA ExtendsTwice ==
    ASSUME NEW a \in Seq(NodeInfo), Len(a) >= 1,
           NEW b, NEW i, NEW x, Extends(a, b, i, x),
           NEW c, NEW j, NEW y, Extends(b, c, j, y)
    PROVE  /\ Len(a) <= Len(c) /\ Len(b) <= Len(c) /\ c \in Seq(NodeInfo)
           /\ \A k \in 1..Len(a) : c[k] = a[k]
           /\ \A k \in 1..Len(c) : k \in 1..Len(a) \/ k \in {i, j}
           /\ i \in 2..Len(c) /\ j \in 2..Len(c) /\ c[i] = x /\ c[j] = y
<1>1. Len(a) \in Nat /\ Len(b) \in Nat /\ Len(c) \in Nat
  BY DEF Extends
<1>2. \A k \in 1..Len(a) : k \in 1..Len(b)
  BY <1>1 DEF Extends
<1>3. \A k \in 1..Len(a) : c[k] = a[k]
  BY <1>2 DEF Extends
<1>4. \A k \in 1..Len(c) : k \in 1..Len(a) \/ k \in {i, j}
  BY DEF Extends
<1>5. i \in 2..Len(c) /\ j \in 2..Len(c) /\ c[i] = x /\ c[j] = y
  BY <1>1 DEF Extends
<1> QED
  BY <1>1, <1>3, <1>4, <1>5 DEF Extends

LEMMA BuildReady ==
    ASSUME Inv, phase = "build", next <= Len(infos)
    PROVE  /\ Len(nodes) \in Nat /\ Len(nodes) >= 1 /\ nodes[1].type = "comp_unit"
           /\ DOMAIN nodes = 1..Len(nodes) /\ nodes \in Seq(NodeInfo)
           /\ next \in 1..Len(infos) /\ Shaped(infos[next])
           /\ Len(infos) \in Nat /\ DOMAIN infos = 1..Len(infos)
BY DEF Inv, TypeOK, UnitFirst, InfosShaped

LEMMA NamespaceStep ==
    ASSUME Inv, BuildNamespace
    PROVE  \E n \in 2..Len(nodes') :
             /\ Grows({n}) /\ nodes'[n] = infos[next][1]
             /\ edges' = edges \cup {<<1, n, 0>>}
             /\ Files(nsNode, nsNode', infos[next][1].symbol, n)
<1>1. /\ phase = "build" /\ next <= Len(infos) /\ Len(infos[next]) = 1
      /\ nodes' = NamespaceNode(infos[next][1]).nodes
      /\ edges' = NamespaceNode(infos[next][1]).edges
      /\ nsNode' = NamespaceNode(infos[next][1]).map
  BY DEF BuildNamespace
<1>2. infos[next][1] \in NodeInfo /\ infos[next][1].type = "namespace"
  BY <1>1, BuildReady, ShapeOf
<1> DEFINE n == NamespaceNode(infos[next][1]).at
<1>3. /\ Extends(nodes, nodes', n, infos[next][1])
      /\ edges' = edges \cup {<<1, n, 0>>}
      /\ Files(nsNode, nsNode', infos[next][1].symbol, n)
  BY <1>1, <1>2, BuildReady, SpaceAdded DEF Inv
<1> HIDE DEF n
<1>4. n \in 2..Len(nodes') /\ Grows({n}) /\ nodes'[n] = infos[next][1]
  BY <1>1, <1>3, BuildReady DEF Extends, Grows
<1> QED
  BY <1>3, <1>4

LEMMA TypeStep ==
    ASSUME Inv, BuildType
    PROVE  \E n, c \in 2..Len(nodes') :
             /\ Grows({n, c})
             /\ nodes'[n] = infos[next][2] /\ nodes'[c] = infos[next][1]
             /\ edges' = edges \cup {<<1, n, 0>>, <<n, c, 0>>, <<c, n, 10>>}
             /\ Files(nsNode, nsNode', infos[next][2].symbol, n)
             /\ Files(typeNode, typeNode', infos[next][1].symbol, c)
<1> DEFINE ns == NamespaceNode(infos[next][2])
           type == TypeNode(infos[next][1], ns.nodes)
           n == ns.at
           c == type.at
<1>1. /\ phase = "build" /\ next <= Len(infos) /\ Len(infos[next]) = 2
      /\ nodes' = type.nodes
      /\ edges' = ns.edges \cup Both(n, c)
      /\ nsNode' = ns.map /\ typeNode' = type.map
  BY DEF BuildType
<1>2. /\ infos[next][2] \in NodeInfo /\ infos[next][2].type = "namespace"
      /\ infos[next][1] \in NodeInfo /\ infos[next][1].type = "class"
  BY <1>1, BuildReady, ShapeOf
<1>3. /\ Extends(nodes, ns.nodes, n, infos[next][2])
      /\ ns.edges = edges \cup {<<1, n, 0>>}
      /\ Files(nsNode, nsNode', infos[next][2].symbol, n)
  BY <1>1, <1>2, BuildReady, SpaceAdded DEF Inv
<1>4. /\ Extends(ns.nodes, nodes', c, infos[next][1])
      /\ Files(typeNode, typeNode', infos[next][1].symbol, c)
  <2> HIDE DEF ns
  <2> QED
    BY <1>1, <1>2, <1>3, BuildReady, TypeAdded DEF Inv
<1> HIDE DEF ns, type, n, c
<1>5. edges' = edges \cup {<<1, n, 0>>, <<n, c, 0>>, <<c, n, 10>>}
  BY <1>1, <1>3 DEF Both
<1>6. /\ n \in 2..Len(nodes') /\ c \in 2..Len(nodes')
      /\ nodes'[n] = infos[next][2] /\ nodes'[c] = infos[next][1]
  BY <1>1, <1>3, <1>4, BuildReady, ExtendsTwice
<1>7. Grows({n, c})
  BY <1>1, <1>3, <1>4, BuildReady, ExtendsTwice DEF Grows
<1> QED
  BY <1>3, <1>4, <1>5, <1>6, <1>7

LEMMA MemberStep ==
    ASSUME Inv, BuildMember
    PROVE  \E n, c, m \in 2..Len(nodes') :
             /\ Grows({n, c, m}) /\ m \notin 1..Len(nodes) /\ m \notin {n, c}
             /\ nodes'[n] = infos[next][3] /\ nodes'[c] = infos[next][2]
             /\ nodes'[m] = infos[next][1]
             /\ edges' = edges \cup {<<1, n, 0>>, <<c, m, 0>>, <<m, c, 10>>}
                  \cup (IF infos[next][2].symbol \in DOMAIN typeNode THEN {}
                        ELSE {<<n, c, 0>>, <<c, n, 10>>})
             /\ Files(nsNode, nsNode', infos[next][3].symbol, n)
             /\ Files(typeNode, typeNode', infos[next][2].symbol, c)
<1> DEFINE ns == NamespaceNode(infos[next][3])
           type == TypeNode(infos[next][2], ns.nodes)
           n == ns.at
           c == type.at
           m == Len(type.nodes) + 1
           tie == IF infos[next][2].symbol \in DOMAIN typeNode THEN {} ELSE Both(n, c)
<1>1. /\ phase = "build" /\ next <= Len(infos) /\ Len(infos[next]) = 3
      /\ nodes' = Append(type.nodes, infos[next][1])
      /\ edges' = ns.edges \cup tie \cup Both(c, m)
      /\ nsNode' = ns.map /\ typeNode' = type.map
  BY DEF BuildMember
<1>2. /\ infos[next][3] \in NodeInfo /\ infos[next][3].type = "namespace"
      /\ infos[next][2] \in NodeInfo /\ infos[next][2].type = "class"
      /\ infos[next][1] \in NodeInfo
  BY <1>1, BuildReady, ShapeOf
<1>3. /\ Extends(nodes, ns.nodes, n, infos[next][3])
      /\ ns.edges = edges \cup {<<1, n, 0>>}
      /\ Files(nsNode, nsNode', infos[next][3].symbol, n)
  BY <1>1, <1>2, BuildReady, SpaceAdded DEF Inv
<1>4. /\ Extends(ns.nodes, type.nodes, c, infos[next][2])
      /\ Files(typeNode, typeNode', infos[next][2].symbol, c)
  <2> HIDE DEF ns
  <2> QED
    BY <1>1, <1>2, <1>3, BuildReady, TypeAdded DEF Inv
<1>5. edges' = edges \cup {<<1, n, 0>>, <<c, m, 0>>, <<m, c, 10>>}
                  \cup (IF infos[next][2].symbol \in DOMAIN typeNode THEN {}
                        ELSE {<<n, c, 0>>, <<c, n, 10>>})
  <2> HIDE DEF ns, type, n, c, m
  <2> QED
    BY <1>1, <1>3 DEF Both
<1>6. Extends(type.nodes, nodes', m, infos[next][1])
  <2>1. type.nodes \in Seq(NodeInfo) /\ Len(type.nodes) >= 1
    <3> HIDE DEF ns, type
    <3> QED
      BY <1>3, <1>4, BuildReady DEF Extends
  <2> HIDE DEF ns, type
  <2> QED
    BY <1>1, <1>2, <2>1, OneMore
<1>7. m = Len(type.nodes) + 1
  OBVIOUS
<1> HIDE DEF ns, type, n, c, m
<1>8. /\ Len(nodes) <= Len(type.nodes) /\ Len(type.nodes) \in Nat
      /\ \A k \in 1..Len(nodes) : type.nodes[k] = nodes[k]
      /\ \A k \in 1..Len(type.nodes) : k \in 1..Len(nodes) \/ k \in {n, c}
      /\ n \in 2..Len(type.nodes) /\ c \in 2..Len(type.nodes)
      /\ type.nodes[n] = infos[next][3] /\ type.nodes[c] = infos[next][2]
  <2>1. type.nodes \in Seq(NodeInfo)
    BY <1>4 DEF Extends
  <2> QED
    BY <2>1, <1>1, <1>3, <1>4, BuildReady, ExtendsTwice
<1>9. /\ n \in 2..Len(nodes') /\ c \in 2..Len(nodes') /\ m \in 2..Len(nodes')
      /\ m \notin 1..Len(nodes) /\ m \notin {n, c}
  BY <1>1, <1>6, <1>7, <1>8, BuildReady DEF Extends
<1>10. /\ nodes'[n] = infos[next][3] /\ nodes'[c] = infos[next][2]
       /\ nodes'[m] = infos[next][1]
  BY <1>6, <1>7, <1>8 DEF Extends
<1>11. \A k \in 1..Len(nodes) : nodes'[k] = nodes[k]
  BY <1>1, <1>6, <1>8, BuildReady DEF Extends
<1>12. \A k \in 1..Len(nodes') : k \in 1..Len(nodes) \/ k \in {n, c, m}
  BY <1>6, <1>8 DEF Extends
<1>13. Grows({n, c, m})
  BY <1>1, <1>6, <1>8, <1>9, <1>11, <1>12, BuildReady DEF Extends, Grows
<1> QED
  BY <1>3, <1>4, <1>5, <1>9, <1>10, <1>13

-----------------------------------------------------------------------------
(* The steps that read *)

\* While the graph is empty nothing but the shape of infos is at stake.
Unbuilt ==
    /\ nodes = <<>> /\ edges = {} /\ next = 1 /\ DOMAIN nsNode = {} /\ DOMAIN typeNode = {}
    /\ phase \in {"read", "failed"} /\ read \in Nat /\ infos \in Seq(Seq(NodeInfo))
    /\ \A j \in 1..Len(infos) : Shaped(infos[j])

LEMMA EmptyGraph == Unbuilt => Inv
<1> SUFFICES ASSUME Unbuilt PROVE Inv
  OBVIOUS
<1> USE DEF Unbuilt
<1>1. Len(nodes) = 0 /\ DOMAIN nodes = {} /\ Len(infos) \in Nat /\ Built = {}
  BY DEF Built
<1>2. TypeOK
  BY <1>1 DEF TypeOK
<1>3. UnitFirst /\ InfosShaped /\ SpacesHung /\ TypesHung /\ TypesFound /\ MembersHung
  BY <1>1 DEF UnitFirst, InfosShaped, SpacesHung, TypesHung, TypesFound, MembersHung
<1>4. TreesClimb /\ MembersTied
  BY <1>1 DEF TreesClimb, MembersTied
<1> QED
  BY <1>2, <1>3, <1>4 DEF Inv

LEMMA Initially == Init => Inv
<1>1. Init => Unbuilt
  BY DEF Init, Unbuilt, EmptyMap
<1> QED
  BY <1>1, EmptyGraph

LEMMA Read ==
    ASSUME Inv, NEW e \in Events, ReadEvent(e)
    PROVE  Inv'
<1>1. /\ nodes = <<>> /\ edges = {} /\ next = 1 /\ DOMAIN nsNode = {} /\ DOMAIN typeNode = {}
      /\ phase = "read" /\ read \in Nat /\ infos \in Seq(Seq(NodeInfo))
      /\ \A j \in 1..Len(infos) : Shaped(infos[j])
  BY DEF Inv, TypeOK, UnitFirst, InfosShaped, ReadEvent
<1>2. /\ UNCHANGED <<phase, next, nodes, edges, nsNode, typeNode>> /\ read' \in Nat
      /\ infos' = IF e.event = "member"
                  THEN Append(infos, handle_member(e.kind, e.name)) ELSE infos
  BY <1>1 DEF ReadEvent
<1>3. infos' \in Seq(Seq(NodeInfo)) /\ \A j \in 1..Len(infos') : Shaped(infos'[j])
  <2>1. CASE e.event = "member"
    <3>1. e.kind \in Kinds /\ e.name \in Symbol
      BY <2>1, XmlAssumption DEF Event, Element, Symbol
    <3> DEFINE info == handle_member(e.kind, e.name)
    <3>2. Shaped(info)
      BY <3>1, HandleMember
    <3>3. infos' = Append(infos, info)
      BY <2>1, <1>2
    <3> HIDE DEF info
    <3>4. info \in Seq(NodeInfo)
      BY <3>2 DEF Shaped
    <3>5. Len(infos') = Len(infos) + 1 /\ Len(infos) \in Nat
          /\ \A j \in 1..Len(infos) : infos'[j] = infos[j]
      BY <1>1, <3>3, <3>4
    <3>6. infos'[Len(infos) + 1] = info
      BY <1>1, <3>3, <3>4
    <3> QED
      BY <1>1, <3>2, <3>3, <3>4, <3>5, <3>6
  <2> QED
    BY <2>1, <1>1, <1>2
<1>4. /\ nodes' = <<>> /\ edges' = {} /\ next' = 1 /\ DOMAIN nsNode' = {}
      /\ DOMAIN typeNode' = {} /\ phase' = "read"
  BY <1>1, <1>2
<1> QED
  <2>1. Unbuilt'
    BY <1>2, <1>3, <1>4 DEF Unbuilt
  <2> QED
    BY <2>1, EmptyGraph, PTL

LEMMA Refused ==
    ASSUME Inv, NEW e \in Events, ReadError(e)
    PROVE  Inv'
<1>1. /\ nodes = <<>> /\ edges = {} /\ next = 1 /\ DOMAIN nsNode = {} /\ DOMAIN typeNode = {}
      /\ read \in Nat /\ infos \in Seq(Seq(NodeInfo))
      /\ \A j \in 1..Len(infos) : Shaped(infos[j])
  BY DEF Inv, TypeOK, UnitFirst, InfosShaped, ReadError
<1>2. phase' = "failed" /\ UNCHANGED <<read, infos, next, nodes, edges, nsNode, typeNode>>
  BY DEF ReadError
<1>3. /\ nodes' = <<>> /\ edges' = {} /\ next' = 1 /\ DOMAIN nsNode' = {}
      /\ DOMAIN typeNode' = {} /\ phase' = "failed" /\ read' \in Nat
      /\ infos' \in Seq(Seq(NodeInfo)) /\ \A j \in 1..Len(infos') : Shaped(infos'[j])
  BY <1>1, <1>2
<1> QED
  <2>1. Unbuilt'
    BY <1>3 DEF Unbuilt
  <2> QED
    BY <2>1, EmptyGraph, PTL

LEMMA UnitMade ==
    ASSUME Inv, ReadEof
    PROVE  Inv'
<1>1. /\ edges = {} /\ next = 1 /\ DOMAIN nsNode = {} /\ DOMAIN typeNode = {}
      /\ read \in Nat /\ infos \in Seq(Seq(NodeInfo)) /\ Len(infos) \in Nat
      /\ \A j \in 1..Len(infos) : Shaped(infos[j])
  BY DEF Inv, TypeOK, UnitFirst, InfosShaped, ReadEof
<1>2. /\ phase' = "build" /\ nodes' = <<Info(FileName, "comp_unit")>>
      /\ UNCHANGED <<read, infos, next, edges, nsNode, typeNode>>
  BY DEF ReadEof
<1>3. /\ nodes' \in Seq(NodeInfo) /\ Len(nodes') = 1 /\ DOMAIN nodes' = {1}
      /\ nodes'[1].type = "comp_unit"
  BY <1>2, XmlAssumption DEF Info, NodeInfo, NodeType, Symbol
<1>4. Built' = {}
  BY <1>1, <1>2 DEF Built
<1>5. TypeOK'
  BY <1>1, <1>2, <1>3 DEF TypeOK
<1>6. (UnitFirst /\ InfosShaped /\ SpacesHung /\ TypesHung /\ TypesFound /\ MembersHung)'
  BY <1>1, <1>2, <1>3 DEF UnitFirst, InfosShaped, SpacesHung, TypesHung, TypesFound, MembersHung
<1>7. TreesClimb' /\ MembersTied'
  BY <1>1, <1>2, <1>3, <1>4 DEF TreesClimb, MembersTied
<1> QED
  BY <1>5, <1>6, <1>7 DEF Inv

-----------------------------------------------------------------------------
(* The steps that build. What a step must show of the edges it adds, so that *)
(* each part of the invariant carries over.                                  *)

\* A step of the build: the graph grows, and the member built is the next one.
Builds(new) ==
    /\ Inv /\ phase = "build" /\ next <= Len(infos)
    /\ Grows(new) /\ edges \subseteq edges' /\ infos' = infos /\ next' = next + 1

LEMMA OldEdges ==
    ASSUME Inv, NEW x, NEW y, NEW p, <<x, y, p>> \in edges
    PROVE  x \in 1..Len(nodes) /\ y \in 1..Len(nodes) /\ p \in {0, 10}
BY DEF Inv, TypeOK

LEMMA BuildsOn ==
    ASSUME NEW new, Builds(new)
    PROVE  /\ Built' = Built \cup {next} /\ Built \subseteq 1..Len(infos)
           /\ next \in 1..Len(infos) /\ Len(nodes') \in Nat
           /\ DOMAIN nodes' = 1..Len(nodes') /\ 1..Len(nodes) \subseteq 1..Len(nodes')
           /\ nodes'[1] = nodes[1] /\ nodes[1].type = "comp_unit"
<1>1. Inv /\ phase = "build" /\ next <= Len(infos) /\ next' = next + 1 /\ Grows(new)
  BY DEF Builds
<1>2. next \in Nat /\ next # 0 /\ Len(infos) \in Nat /\ Len(nodes) \in Nat /\ Len(nodes) >= 1
      /\ nodes[1].type = "comp_unit"
  BY <1>1, BuildReady
<1> QED
  BY <1>1, <1>2 DEF Built, Grows

LEMMA UnitStays ==
    ASSUME NEW new, Builds(new), phase' = phase
    PROVE  UnitFirst' /\ InfosShaped'
<1>1. Inv /\ phase = "build" /\ next <= Len(infos) /\ next' = next + 1 /\ Grows(new)
      /\ infos' = infos
  BY DEF Builds
<1>2. Len(nodes) \in Nat /\ Len(nodes) >= 1 /\ next \in Nat /\ Len(infos) \in Nat
  BY <1>1, BuildReady
<1>3. Len(nodes') >= 1 /\ nodes'[1].type = "comp_unit"
  BY <1>1, <1>2, BuildsOn DEF Grows
<1> QED
  BY <1>1, <1>2, <1>3 DEF UnitFirst, Inv, InfosShaped

\* A namespace filed by the step is hung under the unit.
LEMMA SpacesStay ==
    ASSUME Inv, NEW key, NEW n, Files(nsNode, nsNode', key, n), <<1, n, 0>> \in edges',
           edges \subseteq edges'
    PROVE  SpacesHung'
BY DEF Inv, SpacesHung, Files

LEMMA TypesStay ==
    ASSUME NEW new, Builds(new),
           \A x, y \in 1..Len(nodes') :
             <<x, y, 0>> \in edges' /\ <<x, y, 0>> \notin edges /\ nodes'[y].type = "class" =>
               NamesType(next) /\ ClassOf(next) = nodes'[y] /\ SpaceOf(next) = nodes'[x]
    PROVE  TypesHung'
<1> SUFFICES ASSUME NEW x \in 1..Len(nodes'), NEW y \in 1..Len(nodes'),
                    <<x, y, 0>> \in edges', nodes'[y].type = "class"
             PROVE  \E j \in Built' : /\ Len(infos'[j]) \in {2, 3}
                                      /\ infos'[j][Len(infos'[j]) - 1] = nodes'[y]
                                      /\ infos'[j][Len(infos'[j])] = nodes'[x]
  BY DEF TypesHung, NamesType, ClassOf, SpaceOf
<1>1. infos' = infos /\ Inv /\ Grows(new) /\ Built' = Built \cup {next}
  BY BuildsOn DEF Builds
<1>2. CASE <<x, y, 0>> \in edges
  <2>1. /\ x \in 1..Len(nodes) /\ y \in 1..Len(nodes)
        /\ nodes'[x] = nodes[x] /\ nodes'[y] = nodes[y]
    BY <1>1, <1>2, OldEdges DEF Grows
  <2> QED
    BY <1>1, <1>2, <2>1 DEF Inv, TypesHung, NamesType, ClassOf, SpaceOf
<1>3. CASE <<x, y, 0>> \notin edges
  BY <1>1, <1>3 DEF NamesType, ClassOf, SpaceOf
<1> QED
  BY <1>2, <1>3

LEMMA MembersStay ==
    ASSUME NEW new, Builds(new),
           \A x, y \in 1..Len(nodes') :
             <<x, y, 0>> \in edges' /\ <<x, y, 0>> \notin edges /\ nodes'[x].type = "class" =>
               Len(infos[next]) = 3 /\ infos[next][1] = nodes'[y] /\ infos[next][2] = nodes'[x]
    PROVE  MembersHung'
<1> SUFFICES ASSUME NEW x \in 1..Len(nodes'), NEW y \in 1..Len(nodes'),
                    <<x, y, 0>> \in edges', nodes'[x].type = "class"
             PROVE  \E j \in Built' : /\ Len(infos'[j]) = 3
                                      /\ infos'[j][1] = nodes'[y]
                                      /\ infos'[j][2] = nodes'[x]
  BY DEF MembersHung
<1>1. infos' = infos /\ Inv /\ Grows(new) /\ Built' = Built \cup {next}
  BY BuildsOn DEF Builds
<1>2. CASE <<x, y, 0>> \in edges
  <2>1. /\ x \in 1..Len(nodes) /\ y \in 1..Len(nodes)
        /\ nodes'[x] = nodes[x] /\ nodes'[y] = nodes[y]
    BY <1>1, <1>2, OldEdges DEF Grows
  <2> QED
    BY <1>1, <1>2, <2>1 DEF Inv, MembersHung
<1>3. CASE <<x, y, 0>> \notin edges
  BY <1>1, <1>3
<1> QED
  BY <1>2, <1>3

LEMMA TreesStay ==
    ASSUME NEW new, Builds(new),
           \A x, y \in 1..Len(nodes') : <<y, x, 10>> \in edges' \ edges =>
              x # 1 /\ <<x, y, 0>> \in edges',
           \A x, y \in 1..Len(nodes') : x # 1 /\ <<x, y, 0>> \in edges' \ edges =>
              <<y, x, 10>> \in edges',
           \A y \in new : \E x \in 1..Len(nodes') : <<x, y, 0>> \in edges',
           \A x, y \in 1..Len(nodes') : <<x, y, 0>> \in edges' \ edges =>
              /\ <<nodes'[x].type, nodes'[y].type>> \in Encloses
              /\ nodes'[x].type = "class" =>
                    /\ y \notin 1..Len(nodes)
                    /\ \A z \in 1..Len(nodes') : <<z, y, 0>> \in edges' => z = x
    PROVE  TreesClimb'
<1>1. Inv /\ Grows(new) /\ edges \subseteq edges' /\ DOMAIN nodes' = 1..Len(nodes')
      /\ DOMAIN nodes = 1..Len(nodes) /\ 1..Len(nodes) \subseteq 1..Len(nodes')
  BY BuildsOn, BuildReady DEF Builds
<1>2. ASSUME NEW x \in 1..Len(nodes'), NEW y \in 1..Len(nodes')
      PROVE  (<<y, x, 10>> \in edges') <=> (x # 1 /\ <<x, y, 0>> \in edges')
  <2>1. CASE <<y, x, 10>> \in edges
    <3>1. x \in 1..Len(nodes) /\ y \in 1..Len(nodes)
      BY <1>1, <2>1, OldEdges
    <3> QED
      BY <1>1, <2>1, <3>1 DEF Inv, TreesClimb
  <2>2. CASE <<x, y, 0>> \in edges /\ <<y, x, 10>> \notin edges
    <3>1. x \in 1..Len(nodes) /\ y \in 1..Len(nodes)
      BY <1>1, <2>2, OldEdges
    <3>2. x = 1
      BY <1>1, <2>2, <3>1 DEF Inv, TreesClimb
    <3> QED
      BY <2>2, <3>2
  <2>3. CASE <<x, y, 0>> \notin edges /\ <<y, x, 10>> \notin edges
    BY <2>3
  <2> QED
    BY <2>1, <2>2, <2>3
<1>3. ASSUME NEW y \in 1..Len(nodes'), y # 1
      PROVE  \E x \in 1..Len(nodes') : <<x, y, 0>> \in edges'
  <2>1. CASE y \in 1..Len(nodes)
    <3>1. \E x \in 1..Len(nodes) : <<x, y, 0>> \in edges
      BY <1>1, <1>3, <2>1 DEF Inv, TreesClimb
    <3> QED
      BY <1>1, <3>1
  <2>2. CASE y \in new
    BY <2>2
  <2> QED
    BY <1>1, <2>1, <2>2 DEF Grows
<1>4. ASSUME NEW x \in 1..Len(nodes'), NEW y \in 1..Len(nodes'), <<x, y, 0>> \in edges'
      PROVE  /\ <<nodes'[x].type, nodes'[y].type>> \in Encloses
             /\ nodes'[x].type = "class" =>
                   \A z \in 1..Len(nodes') : <<z, y, 0>> \in edges' => z = x
  <2>1. CASE <<x, y, 0>> \notin edges
    BY <1>4, <2>1
  <2>2. CASE <<x, y, 0>> \in edges
    <3>1. /\ x \in 1..Len(nodes) /\ y \in 1..Len(nodes)
          /\ nodes'[x] = nodes[x] /\ nodes'[y] = nodes[y]
      BY <1>1, <2>2, OldEdges DEF Grows
    <3>2. /\ <<nodes[x].type, nodes[y].type>> \in Encloses
          /\ nodes[x].type = "class" =>
                \A z \in 1..Len(nodes) : <<z, y, 0>> \in edges => z = x
      BY <1>1, <2>2, <3>1 DEF Inv, TreesClimb
    <3>3. ASSUME nodes'[x].type = "class", NEW z \in 1..Len(nodes'), <<z, y, 0>> \in edges'
          PROVE  z = x
      <4>1. CASE <<z, y, 0>> \in edges
        <5>1. z \in 1..Len(nodes)
          BY <1>1, <4>1, OldEdges
        <5> QED
          BY <3>1, <3>2, <3>3, <4>1, <5>1
      <4>2. CASE <<z, y, 0>> \notin edges
        <5>1. <<nodes'[z].type, nodes'[y].type>> \in Encloses
              /\ (nodes'[z].type = "class" => y \notin 1..Len(nodes))
          BY <3>3, <4>2
        <5>2. nodes'[y].type \in {"field", "method"}
          BY <3>1, <3>2, <3>3 DEF Encloses
        <5>3. nodes'[z].type = "class"
          BY <5>1, <5>2 DEF Encloses
        <5> QED
          BY <3>1, <5>1, <5>3
      <4> QED
        BY <4>1, <4>2
    <3> QED
      BY <3>1, <3>2, <3>3
  <2> QED
    BY <2>1, <2>2
<1> QED
  BY <1>1, <1>2, <1>3, <1>4 DEF TreesClimb

\* The chain of every member built before is still there.
LEMMA TiedStays ==
    ASSUME NEW new, Builds(new),
           \A s \in DOMAIN typeNode : s \in DOMAIN typeNode' /\ typeNode'[s] = typeNode[s],
           Len(infos[next]) = 3 =>
             /\ infos[next][2].symbol \in DOMAIN typeNode'
             /\ \E m \in 1..Len(nodes') :
                   /\ nodes'[m] = infos[next][1]
                   /\ <<typeNode'[infos[next][2].symbol], m, 0>> \in edges'
    PROVE  MembersTied'
<1>1. infos' = infos /\ Inv /\ Grows(new) /\ Built' = Built \cup {next} /\ edges \subseteq edges'
      /\ 1..Len(nodes) \subseteq 1..Len(nodes')
  BY BuildsOn DEF Builds
<1> SUFFICES ASSUME NEW j \in Built', Len(infos[j]) = 3
             PROVE  /\ infos[j][2].symbol \in DOMAIN typeNode'
                    /\ \E m \in 1..Len(nodes') :
                          /\ nodes'[m] = infos[j][1]
                          /\ <<typeNode'[infos[j][2].symbol], m, 0>> \in edges'
  BY <1>1 DEF MembersTied
<1>2. CASE j \in Built
  <2>1. /\ infos[j][2].symbol \in DOMAIN typeNode
        /\ \E m \in 1..Len(nodes) :
              nodes[m] = infos[j][1] /\ <<typeNode[infos[j][2].symbol], m, 0>> \in edges
    BY <1>1, <1>2 DEF Inv, MembersTied
  <2>2. PICK m \in 1..Len(nodes) :
           nodes[m] = infos[j][1] /\ <<typeNode[infos[j][2].symbol], m, 0>> \in edges
    BY <2>1
  <2>3. m \in 1..Len(nodes') /\ nodes'[m] = nodes[m]
    BY <1>1 DEF Grows
  <2> QED
    BY <1>1, <2>1, <2>2, <2>3
<1> QED
  BY <1>1, <1>2

-----------------------------------------------------------------------------
(* The steps that build, one by one *)

\* What the maps and the edges have to do with the nodes after a step.
LEMMA NodesTyped ==
    ASSUME NEW new, Builds(new), phase' = phase, read' = read,
           edges' \subseteq (1..Len(nodes')) \X (1..Len(nodes')) \X {0, 10},
           \A s \in DOMAIN nsNode' :
             nsNode'[s] \in 1..Len(nodes') /\ nodes'[nsNode'[s]] = Info(s, "namespace"),
           \A s \in DOMAIN typeNode' :
             typeNode'[s] \in 1..Len(nodes') /\ nodes'[typeNode'[s]] = Info(s, "class")
    PROVE  TypeOK'
<1>1. /\ infos' = infos /\ next' = next + 1 /\ TypeOK /\ nodes' \in Seq(NodeInfo)
      /\ DOMAIN nodes' = 1..Len(nodes')
  BY BuildsOn DEF Builds, Inv, Grows
<1> QED
  BY <1>1 DEF TypeOK

LEMMA FiledSpaces ==
    ASSUME NEW new, Builds(new), NEW n \in 1..Len(nodes'), NEW info \in NodeInfo,
           info.type = "namespace", nodes'[n] = info, Files(nsNode, nsNode', info.symbol, n)
    PROVE  \A s \in DOMAIN nsNode' :
             nsNode'[s] \in 1..Len(nodes') /\ nodes'[nsNode'[s]] = Info(s, "namespace")
<1>1. Info(info.symbol, "namespace") = info
  BY SameInfo
<1>2. \A s \in DOMAIN nsNode :
        nsNode[s] \in 1..Len(nodes') /\ nodes'[nsNode[s]] = Info(s, "namespace")
  <2>1. /\ nodes \in Seq(NodeInfo) /\ DOMAIN nodes = 1..Len(nodes)
        /\ 1..Len(nodes) \subseteq 1..Len(nodes')
        /\ \A k \in 1..Len(nodes) : nodes'[k] = nodes[k]
    BY BuildsOn DEF Builds, Inv, TypeOK, Grows
  <2>2. \A s \in DOMAIN nsNode :
          nsNode[s] \in DOMAIN nodes /\ nodes[nsNode[s]] = Info(s, "namespace")
    BY DEF Builds, Inv, TypeOK
  <2> QED
    BY <2>1, <2>2
<1> QED
  BY <1>1, <1>2 DEF Files

LEMMA FiledTypes ==
    ASSUME NEW new, Builds(new), NEW c \in 1..Len(nodes'), NEW info \in NodeInfo,
           info.type = "class", nodes'[c] = info, Files(typeNode, typeNode', info.symbol, c)
    PROVE  \A s \in DOMAIN typeNode' :
             typeNode'[s] \in 1..Len(nodes') /\ nodes'[typeNode'[s]] = Info(s, "class")
<1>1. Info(info.symbol, "class") = info
  BY SameInfo
<1>2. \A s \in DOMAIN typeNode :
        typeNode[s] \in 1..Len(nodes') /\ nodes'[typeNode[s]] = Info(s, "class")
  <2>1. /\ nodes \in Seq(NodeInfo) /\ DOMAIN nodes = 1..Len(nodes)
        /\ 1..Len(nodes) \subseteq 1..Len(nodes')
        /\ \A k \in 1..Len(nodes) : nodes'[k] = nodes[k]
    BY BuildsOn DEF Builds, Inv, TypeOK, Grows
  <2>2. \A s \in DOMAIN typeNode :
          typeNode[s] \in DOMAIN nodes /\ nodes[typeNode[s]] = Info(s, "class")
    BY DEF Builds, Inv, TypeOK
  <2> QED
    BY <2>1, <2>2
<1> QED
  BY <1>1, <1>2 DEF Files

\* A type is found by way of the member that filed it, or of the new one.
LEMMA FoundStays ==
    ASSUME NEW new, Builds(new),
           \A k \in DOMAIN nsNode : k \in DOMAIN nsNode' /\ nsNode'[k] = nsNode[k],
           \A s \in DOMAIN typeNode' :
             \/ s \in DOMAIN typeNode /\ typeNode'[s] = typeNode[s]
             \/ /\ NamesType(next) /\ ClassOf(next).symbol = s
                /\ SpaceOf(next).symbol \in DOMAIN nsNode'
                /\ <<nsNode'[SpaceOf(next).symbol], typeNode'[s], 0>> \in edges'
    PROVE  TypesFound'
<1>1. Inv /\ infos' = infos /\ Built' = Built \cup {next} /\ edges \subseteq edges'
  BY BuildsOn DEF Builds
<1>0. SUFFICES \A s \in DOMAIN typeNode' :
        \E j \in Built' :
            /\ Len(infos'[j]) \in {2, 3} /\ infos'[j][Len(infos'[j]) - 1].symbol = s
            /\ infos'[j][Len(infos'[j])].symbol \in DOMAIN nsNode'
            /\ <<nsNode'[infos'[j][Len(infos'[j])].symbol], typeNode'[s], 0>> \in edges'
  BY DEF TypesFound, NamesType, ClassOf, SpaceOf
<1> SUFFICES ASSUME NEW s \in DOMAIN typeNode'
             PROVE  \E j \in Built' :
                      /\ NamesType(j) /\ ClassOf(j).symbol = s
                      /\ SpaceOf(j).symbol \in DOMAIN nsNode'
                      /\ <<nsNode'[SpaceOf(j).symbol], typeNode'[s], 0>> \in edges'
  BY <1>1 DEF NamesType, ClassOf, SpaceOf
<1>2. CASE s \in DOMAIN typeNode /\ typeNode'[s] = typeNode[s]
  <2>1. PICK j \in Built : /\ NamesType(j) /\ ClassOf(j).symbol = s
                           /\ SpaceOf(j).symbol \in DOMAIN nsNode
                           /\ <<nsNode[SpaceOf(j).symbol], typeNode[s], 0>> \in edges
    BY <1>1, <1>2 DEF Inv, TypesFound
  <2>2. nsNode'[SpaceOf(j).symbol] = nsNode[SpaceOf(j).symbol]
        /\ SpaceOf(j).symbol \in DOMAIN nsNode'
    BY <2>1
  <2> QED
    BY <1>1, <1>2, <2>1, <2>2
<1> QED
  BY <1>1, <1>2

LEMMA Namespace ==
    ASSUME Inv, BuildNamespace
    PROVE  Inv'
<1>1. PICK n \in 2..Len(nodes') :
        /\ Grows({n}) /\ nodes'[n] = infos[next][1]
        /\ edges' = edges \cup {<<1, n, 0>>}
        /\ Files(nsNode, nsNode', infos[next][1].symbol, n)
  BY NamespaceStep
<1>2. /\ phase = "build" /\ next <= Len(infos) /\ Len(infos[next]) = 1
      /\ next' = next + 1 /\ UNCHANGED <<phase, read, infos, typeNode>>
  BY DEF BuildNamespace
<1>3. infos[next][1] \in NodeInfo /\ infos[next][1].type = "namespace"
  BY <1>2, BuildReady, ShapeOf
<1>4. Builds({n})
  BY <1>1, <1>2 DEF Builds
<1>5. /\ Len(nodes') \in Nat /\ n \in 1..Len(nodes') /\ 1 \in 1..Len(nodes')
      /\ 1..Len(nodes) \subseteq 1..Len(nodes') /\ nodes'[1].type = "comp_unit"
      /\ nodes'[n].type = "namespace"
  BY <1>1, <1>3, <1>4, BuildsOn
<1>6. TypeOK'
  <2>1. edges' \subseteq (1..Len(nodes')) \X (1..Len(nodes')) \X {0, 10}
    <3>1. edges \subseteq (1..Len(nodes)) \X (1..Len(nodes)) \X {0, 10}
      BY <1>2, BuildReady DEF Inv, TypeOK
    <3> QED
      BY <3>1, <1>1, <1>5
  <2>2. \A s \in DOMAIN typeNode' :
          typeNode'[s] \in 1..Len(nodes') /\ nodes'[typeNode'[s]] = Info(s, "class")
    BY <1>1, <1>2, <1>5, BuildReady DEF Inv, TypeOK, Grows
  <2> QED
    BY <1>1, <1>2, <1>3, <1>4, <1>5, <2>1, <2>2, FiledSpaces, NodesTyped
<1>7. UnitFirst' /\ InfosShaped'
  BY <1>2, <1>4, UnitStays
<1>8. SpacesHung'
  BY <1>1, SpacesStay
<1>9. TypesHung'
  BY <1>1, <1>4, <1>5, TypesStay
<1>10. TypesFound'
  <2>1. Built' = Built \cup {next} /\ edges \subseteq edges' /\ infos' = infos
        /\ typeNode' = typeNode
    BY <1>1, <1>2, <1>4, BuildsOn
  <2>2. \A k \in DOMAIN nsNode : k \in DOMAIN nsNode' /\ nsNode'[k] = nsNode[k]
    BY <1>1 DEF Files
  <2> QED
    BY <1>4, <2>1, <2>2, FoundStays
<1>11. MembersHung'
  BY <1>1, <1>4, <1>5, MembersStay
<1>12. TreesClimb'
  <2>1. \A x, y \in 1..Len(nodes') : <<x, y, 0>> \in edges' \ edges => x = 1 /\ y = n
    BY <1>1
  <2>2. \A x, y \in 1..Len(nodes') : <<x, y, 0>> \in edges' \ edges =>
          /\ <<nodes'[x].type, nodes'[y].type>> \in Encloses /\ nodes'[x].type # "class"
    BY <1>5, <2>1 DEF Encloses
  <2> QED
    BY <1>1, <1>4, <1>5, <2>2, TreesStay
<1>13. MembersTied'
  BY <1>2, <1>4, TiedStays
<1> QED
  BY <1>6, <1>7, <1>8, <1>9, <1>10, <1>11, <1>12, <1>13 DEF Inv

LEMMA Type ==
    ASSUME Inv, BuildType
    PROVE  Inv'
<1>1. PICK n, c \in 2..Len(nodes') :
        /\ Grows({n, c})
        /\ nodes'[n] = infos[next][2] /\ nodes'[c] = infos[next][1]
        /\ edges' = edges \cup {<<1, n, 0>>, <<n, c, 0>>, <<c, n, 10>>}
        /\ Files(nsNode, nsNode', infos[next][2].symbol, n)
        /\ Files(typeNode, typeNode', infos[next][1].symbol, c)
  BY TypeStep
<1>2. /\ phase = "build" /\ next <= Len(infos) /\ Len(infos[next]) = 2
      /\ next' = next + 1 /\ UNCHANGED <<phase, read, infos>>
  BY DEF BuildType
<1>3. /\ infos[next][2] \in NodeInfo /\ infos[next][2].type = "namespace"
      /\ infos[next][1] \in NodeInfo /\ infos[next][1].type = "class"
      /\ NamesType(next) /\ ClassOf(next) = infos[next][1] /\ SpaceOf(next) = infos[next][2]
  BY <1>2, BuildReady, ShapeOf DEF NamesType, ClassOf, SpaceOf
<1>4. Builds({n, c})
  BY <1>1, <1>2 DEF Builds
<1>5. /\ Len(nodes') \in Nat /\ n \in 1..Len(nodes') /\ 1 \in 1..Len(nodes')
      /\ c \in 1..Len(nodes') /\ n # 1 /\ c # 1 /\ n # c
      /\ 1..Len(nodes) \subseteq 1..Len(nodes') /\ nodes'[1].type = "comp_unit"
      /\ nodes'[n].type = "namespace" /\ nodes'[c].type = "class"
  BY <1>1, <1>3, <1>4, BuildsOn
<1>6. TypeOK'
  <2>1. edges' \subseteq (1..Len(nodes')) \X (1..Len(nodes')) \X {0, 10}
    <3>1. edges \subseteq (1..Len(nodes)) \X (1..Len(nodes)) \X {0, 10}
      BY <1>2, BuildReady DEF Inv, TypeOK
    <3> QED
      BY <3>1, <1>1, <1>5
  <2>2. \A s \in DOMAIN nsNode' :
          nsNode'[s] \in 1..Len(nodes') /\ nodes'[nsNode'[s]] = Info(s, "namespace")
    BY <1>1, <1>3, <1>4, <1>5, FiledSpaces
  <2>3. \A s \in DOMAIN typeNode' :
          typeNode'[s] \in 1..Len(nodes') /\ nodes'[typeNode'[s]] = Info(s, "class")
    BY <1>1, <1>3, <1>4, <1>5, FiledTypes
  <2> QED
    BY <1>2, <1>4, <2>1, <2>2, <2>3, NodesTyped
<1>7. UnitFirst' /\ InfosShaped'
  BY <1>2, <1>4, UnitStays
<1>8. SpacesHung'
  BY <1>1, SpacesStay
<1>9. TypesHung'
  <2>1. \A x, y \in 1..Len(nodes') :
          <<x, y, 0>> \in edges' /\ <<x, y, 0>> \notin edges /\ nodes'[y].type = "class" =>
            x = n /\ y = c
    BY <1>1, <1>5
  <2> QED
    BY <1>1, <1>3, <1>4, <2>1, TypesStay
<1>10. TypesFound'
  BY <1>1, <1>3, <1>4, FoundStays DEF Files
<1>11. MembersHung'
  <2>1. \A x, y \in 1..Len(nodes') :
          <<x, y, 0>> \in edges' /\ <<x, y, 0>> \notin edges => nodes'[x].type # "class"
    BY <1>1, <1>5
  <2> QED
    BY <1>4, <2>1, MembersStay
<1>12. TreesClimb'
  <2>1. \A x, y \in 1..Len(nodes') : <<x, y, 0>> \in edges' \ edges =>
          (x = 1 /\ y = n) \/ (x = n /\ y = c)
    BY <1>1
  <2>2. \A x, y \in 1..Len(nodes') : <<x, y, 0>> \in edges' \ edges =>
          /\ <<nodes'[x].type, nodes'[y].type>> \in Encloses /\ nodes'[x].type # "class"
    BY <1>5, <2>1 DEF Encloses
  <2>3. \A y \in {n, c} : \E x \in 1..Len(nodes') : <<x, y, 0>> \in edges'
    BY <1>1, <1>5
  <2>4. /\ \A x, y \in 1..Len(nodes') : <<y, x, 10>> \in edges' \ edges =>
              x # 1 /\ <<x, y, 0>> \in edges'
        /\ \A x, y \in 1..Len(nodes') : x # 1 /\ <<x, y, 0>> \in edges' \ edges =>
              <<y, x, 10>> \in edges'
    BY <1>1, <1>5
  <2> QED
    BY <1>4, <2>2, <2>3, <2>4, TreesStay
<1>13. MembersTied'
  <2>1. \A s \in DOMAIN typeNode : s \in DOMAIN typeNode' /\ typeNode'[s] = typeNode[s]
    BY <1>1 DEF Files
  <2> QED
    BY <1>2, <1>4, <2>1, TiedStays
<1> QED
  BY <1>6, <1>7, <1>8, <1>9, <1>10, <1>11, <1>12, <1>13 DEF Inv

LEMMA Member ==
    ASSUME Inv, BuildMember
    PROVE  Inv'
<1>1. PICK n, c, m \in 2..Len(nodes') :
        /\ Grows({n, c, m}) /\ m \notin 1..Len(nodes) /\ m \notin {n, c}
        /\ nodes'[n] = infos[next][3] /\ nodes'[c] = infos[next][2]
        /\ nodes'[m] = infos[next][1]
        /\ edges' = edges \cup {<<1, n, 0>>, <<c, m, 0>>, <<m, c, 10>>}
             \cup (IF infos[next][2].symbol \in DOMAIN typeNode THEN {}
                   ELSE {<<n, c, 0>>, <<c, n, 10>>})
        /\ Files(nsNode, nsNode', infos[next][3].symbol, n)
        /\ Files(typeNode, typeNode', infos[next][2].symbol, c)
  BY MemberStep
<1>2. /\ phase = "build" /\ next <= Len(infos) /\ Len(infos[next]) = 3
      /\ next' = next + 1 /\ UNCHANGED <<phase, read, infos>>
  BY DEF BuildMember
<1>3. /\ infos[next][3] \in NodeInfo /\ infos[next][3].type = "namespace"
      /\ infos[next][2] \in NodeInfo /\ infos[next][2].type = "class"
      /\ infos[next][1] \in NodeInfo /\ infos[next][1].type \in {"field", "method"}
      /\ NamesType(next) /\ ClassOf(next) = infos[next][2] /\ SpaceOf(next) = infos[next][3]
  BY <1>2, BuildReady, ShapeOf DEF NamesType, ClassOf, SpaceOf
<1> DEFINE known == infos[next][2].symbol \in DOMAIN typeNode
<1>4. Builds({n, c, m})
  BY <1>1, <1>2 DEF Builds
<1>5. /\ Len(nodes') \in Nat /\ n \in 1..Len(nodes') /\ 1 \in 1..Len(nodes')
      /\ c \in 1..Len(nodes') /\ m \in 1..Len(nodes')
      /\ n # 1 /\ c # 1 /\ m # 1 /\ n # c /\ m # n /\ m # c
      /\ 1..Len(nodes) \subseteq 1..Len(nodes') /\ nodes'[1].type = "comp_unit"
      /\ nodes'[n].type = "namespace" /\ nodes'[c].type = "class"
      /\ nodes'[m].type \in {"field", "method"}
  BY <1>1, <1>3, <1>4, BuildsOn
<1>6. /\ \A x, y, p : <<x, y, p>> \in edges' \ edges =>
           <<x, y, p>> \in {<<1, n, 0>>, <<c, m, 0>>, <<m, c, 10>>, <<n, c, 0>>, <<c, n, 10>>}
      /\ {<<1, n, 0>>, <<c, m, 0>>, <<m, c, 10>>} \subseteq edges'
      /\ ~known => {<<n, c, 0>>, <<c, n, 10>>} \subseteq edges'
      /\ <<n, c, 0>> \in edges' \ edges \/ <<c, n, 10>> \in edges' \ edges => ~known
  BY <1>1, <1>5
<1>7. TypeOK'
  <2>1. edges' \subseteq (1..Len(nodes')) \X (1..Len(nodes')) \X {0, 10}
    <3>1. edges \subseteq (1..Len(nodes)) \X (1..Len(nodes)) \X {0, 10}
      BY <1>2, BuildReady DEF Inv, TypeOK
    <3> QED
      BY <3>1, <1>1, <1>5
  <2>2. \A s \in DOMAIN nsNode' :
          nsNode'[s] \in 1..Len(nodes') /\ nodes'[nsNode'[s]] = Info(s, "namespace")
    BY <1>1, <1>3, <1>4, <1>5, FiledSpaces
  <2>3. \A s \in DOMAIN typeNode' :
          typeNode'[s] \in 1..Len(nodes') /\ nodes'[typeNode'[s]] = Info(s, "class")
    BY <1>1, <1>3, <1>4, <1>5, FiledTypes
  <2> QED
    BY <1>2, <1>4, <2>1, <2>2, <2>3, NodesTyped
<1>8. UnitFirst' /\ InfosShaped'
  BY <1>2, <1>4, UnitStays
<1>9. SpacesHung'
  BY <1>1, SpacesStay
<1>10. TypesHung'
  <2>1. \A x, y \in 1..Len(nodes') :
          <<x, y, 0>> \in edges' /\ <<x, y, 0>> \notin edges /\ nodes'[y].type = "class" =>
            x = n /\ y = c
    BY <1>5, <1>6
  <2> QED
    BY <1>1, <1>3, <1>4, <2>1, TypesStay
<1>11. TypesFound'
  BY <1>1, <1>3, <1>4, <1>6, FoundStays DEF Files
<1>12. MembersHung'
  <2>1. \A x, y \in 1..Len(nodes') :
          <<x, y, 0>> \in edges' /\ <<x, y, 0>> \notin edges /\ nodes'[x].type = "class" =>
            x = c /\ y = m
    BY <1>5, <1>6
  <2> QED
    BY <1>1, <1>2, <1>4, <2>1, MembersStay
<1>13. TreesClimb'
  <2>1. ASSUME NEW x \in 1..Len(nodes'), NEW y \in 1..Len(nodes'), <<y, x, 10>> \in edges' \ edges
        PROVE  x # 1 /\ <<x, y, 0>> \in edges'
    <3>1. <<y, x, 10>> \in {<<m, c, 10>>, <<c, n, 10>>}
      BY <1>6, <2>1
    <3>2. CASE <<y, x, 10>> = <<m, c, 10>>
      BY <1>5, <1>6, <3>2
    <3>3. CASE <<y, x, 10>> = <<c, n, 10>>
      <4>1. y = c /\ x = n
        BY <3>3
      <4> QED
        BY <1>5, <1>6, <2>1, <4>1
    <3> QED
      BY <3>1, <3>2, <3>3
  <2>2. ASSUME NEW x \in 1..Len(nodes'), NEW y \in 1..Len(nodes'), x # 1,
               <<x, y, 0>> \in edges' \ edges
        PROVE  <<y, x, 10>> \in edges'
    <3>1. <<x, y, 0>> \in {<<c, m, 0>>, <<n, c, 0>>}
      BY <1>6, <2>2
    <3>2. CASE <<x, y, 0>> = <<c, m, 0>>
      BY <1>6, <3>2
    <3>3. CASE <<x, y, 0>> = <<n, c, 0>>
      <4>1. x = n /\ y = c
        BY <3>3
      <4> QED
        BY <1>6, <2>2, <4>1
    <3> QED
      BY <3>1, <3>2, <3>3
  <2>3. \E x \in 1..Len(nodes') : <<x, c, 0>> \in edges'
    <3>1. CASE known
      <4>1. c \in 1..Len(nodes) /\ edges \subseteq edges' /\ DOMAIN nodes = 1..Len(nodes)
        BY <1>1, <1>2, <3>1, BuildReady DEF Files, Inv, TypeOK
      <4>2. \E x \in 1..Len(nodes) : <<x, c, 0>> \in edges
        BY <1>5, <4>1 DEF Inv, TreesClimb
      <4> QED
        BY <1>5, <4>1, <4>2
    <3>2. CASE ~known
      BY <1>5, <1>6, <3>2
    <3> QED
      BY <3>1, <3>2
  <2>4. \A x, y \in 1..Len(nodes') : <<x, y, 0>> \in edges' \ edges =>
          (x = 1 /\ y = n) \/ (x = c /\ y = m) \/ (x = n /\ y = c)
    BY <1>6
  <2>5. \A z \in 1..Len(nodes') : <<z, m, 0>> \in edges' => z = c
    <3>1. \A z : <<z, m, 0>> \notin edges
      BY <1>1, <1>4, OldEdges DEF Builds
    <3> QED
      BY <1>5, <2>4, <3>1
  <2>6. \A x, y \in 1..Len(nodes') : <<x, y, 0>> \in edges' \ edges =>
          /\ <<nodes'[x].type, nodes'[y].type>> \in Encloses
          /\ nodes'[x].type = "class" =>
                /\ y \notin 1..Len(nodes)
                /\ \A z \in 1..Len(nodes') : <<z, y, 0>> \in edges' => z = x
    BY <1>1, <1>5, <2>4, <2>5 DEF Encloses
  <2>7. \A y \in {n, c, m} : \E x \in 1..Len(nodes') : <<x, y, 0>> \in edges'
    BY <1>5, <1>6, <2>3
  <2> QED
    BY <1>4, <2>1, <2>2, <2>6, <2>7, TreesStay
<1>14. MembersTied'
  <2>1. \A s \in DOMAIN typeNode : s \in DOMAIN typeNode' /\ typeNode'[s] = typeNode[s]
    BY <1>1 DEF Files
  <2>2. /\ infos[next][2].symbol \in DOMAIN typeNode'
        /\ typeNode'[infos[next][2].symbol] = c
    BY <1>1 DEF Files
  <2> QED
    BY <1>1, <1>4, <1>5, <1>6, <2>1, <2>2, TiedStays
<1> QED
  BY <1>7, <1>8, <1>9, <1>10, <1>11, <1>12, <1>13, <1>14 DEF Inv

\* A step that leaves the graph alone, and builds no member.
LEMMA GraphStays ==
    ASSUME Inv, UNCHANGED <<infos, nodes, edges, nsNode, typeNode, read>>,
           phase \in {"build", "done"}, phase' \in {"build", "done"},
           \/ next' = next
           \/ next' = next + 1 /\ next <= Len(infos) /\ Len(infos[next]) # 3
    PROVE  Inv'
<1>1. /\ next \in Nat \ {0} /\ next' \in Nat \ {0} /\ Len(infos) \in Nat
      /\ next' <= Len(infos) + 1 /\ Built \subseteq Built'
      /\ \A j \in Built' : j \in Built \/ Len(infos[j]) # 3
  <2>1. /\ next \in Nat \ {0} /\ next' \in Nat \ {0} /\ Len(infos) \in Nat
        /\ next' <= Len(infos) + 1
    BY DEF Inv, TypeOK, InfosShaped
  <2>2. CASE next' = next
    BY <2>1, <2>2 DEF Built
  <2>3. CASE next' = next + 1 /\ Len(infos[next]) # 3
    <3>1. Built' = Built \cup {next}
      BY <2>1, <2>3 DEF Built
    <3> QED
      BY <2>1, <2>3, <3>1
  <2> QED
    BY <2>2, <2>3
<1>2. TypeOK'
  BY <1>1 DEF Inv, TypeOK
<1>3. UnitFirst' /\ InfosShaped' /\ SpacesHung'
  BY <1>1 DEF Inv, UnitFirst, InfosShaped, SpacesHung
<1>4. TypesHung'
  BY <1>1 DEF Inv, TypesHung, NamesType, ClassOf, SpaceOf
<1>5. TypesFound'
  BY <1>1 DEF Inv, TypesFound, NamesType, ClassOf, SpaceOf
<1>6. MembersHung' /\ TreesClimb'
  <2>1. MembersHung'
    BY <1>1 DEF Inv, MembersHung
  <2>2. TreesClimb'
    BY DEF Inv, TreesClimb
  <2> QED
    BY <2>1, <2>2
<1>7. MembersTied'
  BY <1>1 DEF Inv, MembersTied
<1> QED
  BY <1>2, <1>3, <1>4, <1>5, <1>6, <1>7 DEF Inv

LEMMA Stutter ==
    ASSUME Inv, UNCHANGED vars
    PROVE  Inv'
<1>2. UNCHANGED <<phase, read, infos, next, nodes, edges, nsNode, typeNode>>
  BY DEF vars
<1>3. TypeOK' /\ UnitFirst' /\ InfosShaped' /\ SpacesHung'
  <2>1. TypeOK'
    BY <1>2 DEF Inv, TypeOK
  <2>2. UnitFirst' /\ SpacesHung'
    BY <1>2 DEF Inv, UnitFirst, SpacesHung
  <2>3. InfosShaped'
    BY <1>2 DEF Inv, InfosShaped
  <2> QED
    BY <2>1, <2>2, <2>3
<1>4. TypesHung' /\ TypesFound' /\ MembersHung'
  <2>1. TypesHung'
    BY <1>2 DEF Inv, TypesHung, NamesType, ClassOf, SpaceOf, Built
  <2>2. TypesFound'
    BY <1>2 DEF Inv, TypesFound, NamesType, ClassOf, SpaceOf, Built
  <2>3. MembersHung'
    BY <1>2 DEF Inv, MembersHung, Built
  <2> QED
    BY <2>1, <2>2, <2>3
<1>5. TreesClimb'
  BY <1>2 DEF Inv, TreesClimb
<1>6. MembersTied'
  BY <1>2 DEF Inv, MembersTied, Built
<1> QED
  BY <1>3, <1>4, <1>5, <1>6 DEF Inv

-----------------------------------------------------------------------------
(* Theorems *)

\* What the inductive invariant says of a graph under construction holds always.
THEOREM Inductive == Spec => []Inv
<1>1. Inv /\ [Next]_vars => Inv'
  <2> SUFFICES ASSUME Inv, [Next]_vars PROVE Inv'
    OBVIOUS
  <2>1. CASE \E e \in Events : ReadEvent(e) \/ ReadError(e)
    BY <2>1, Read, Refused
  <2>2. CASE ReadEof
    BY <2>2, UnitMade
  <2>3. CASE BuildNamespace
    BY <2>3, Namespace
  <2>4. CASE BuildType
    BY <2>4, Type
  <2>5. CASE BuildMember
    BY <2>5, Member
  <2>6. CASE SkipMember
    BY <2>6, GraphStays DEF SkipMember
  <2>7. CASE Finish
    BY <2>7, GraphStays DEF Finish
  <2>8. CASE UNCHANGED vars
    BY <2>8, Stutter
  <2> QED
    BY <2>1, <2>2, <2>3, <2>4, <2>5, <2>6, <2>7, <2>8 DEF Next
<1> QED
  BY <1>1, Initially, PTL DEF Spec

\* build_stack_graph_into: the edges join nodes of the file, and each map leads to a
\* node of its kind under the symbol it is filed by.
THEOREM TypeCorrect == Spec => []TypeOK
<1>1. Inv => TypeOK
  BY DEF Inv
<1> QED
  BY <1>1, Inductive, PTL

\* Every edge of precedence 10 is one of precedence 0 reversed, those that leave
\* the compilation unit have no way back, no other node is without a parent, and a
\* member has one.
THEOREM GraphClimbs == Spec => []TreesClimb
<1>1. Inv => TreesClimb
  BY DEF Inv
<1> QED
  BY <1>1, Inductive, PTL

\* The entries of a type and of a member are what their shape says.
LEMMA ClassNamed ==
    ASSUME Inv, NEW j \in Built, NamesType(j)
    PROVE  /\ j \in DOMAIN infos
           /\ ClassOf(j) \in NodeInfo /\ ClassOf(j).type = "class"
           /\ SpaceOf(j) \in NodeInfo /\ SpaceOf(j).type = "namespace"
<1>1. j \in DOMAIN infos /\ Shaped(infos[j]) /\ Len(infos[j]) \in {2, 3}
  <2>1. Len(infos) \in Nat /\ DOMAIN infos = 1..Len(infos) /\ next \in Nat \ {0}
        /\ next <= Len(infos) + 1 /\ \A k \in 1..Len(infos) : Shaped(infos[k])
    BY DEF Inv, TypeOK, InfosShaped
  <2>2. j \in 1..Len(infos)
    BY <2>1 DEF Built
  <2> QED
    BY <2>1, <2>2 DEF NamesType
<1>2. Len(infos[j]) = 2 => ClassOf(j) = infos[j][1] /\ SpaceOf(j) = infos[j][2]
  BY DEF ClassOf, SpaceOf
<1>3. Len(infos[j]) = 3 => ClassOf(j) = infos[j][2] /\ SpaceOf(j) = infos[j][3]
  BY DEF ClassOf, SpaceOf
<1> QED
  BY <1>1, <1>2, <1>3, ShapeOf

\* Of every documentation file, each member that has been built is reachable through a
\* type of its type's name, and through its own namespace when no other namespace of
\* the file has a type of that name (dependency_xml_analyzer.rs:204-280).
THEOREM NothingLost == Spec => []MembersReachable
<1>1. Inv => MembersReachable
  <2> SUFFICES ASSUME Inv, NEW j \in Built, Len(infos[j]) = 3
               PROVE  \E n, c, m \in DOMAIN nodes :
                        /\ Chain(n, c, m) /\ NamesMember(j, c, m)
                        /\ OneSpace(nodes[c]) => infos[j][3] = nodes[n]
    BY DEF MembersReachable
  <2>0. /\ NamesType(j) /\ ClassOf(j) = infos[j][2] /\ SpaceOf(j) = infos[j][3]
        /\ DOMAIN nodes = 1..Len(nodes)
    BY DEF NamesType, ClassOf, SpaceOf, Inv, TypeOK
  <2> DEFINE s == infos[j][2].symbol
             c == typeNode[s]
  <2>1. s \in DOMAIN typeNode
        /\ \E m \in 1..Len(nodes) : nodes[m] = infos[j][1] /\ <<c, m, 0>> \in edges
    BY DEF Inv, MembersTied
  <2>2. PICK m \in 1..Len(nodes) : nodes[m] = infos[j][1] /\ <<c, m, 0>> \in edges
    BY <2>1
  <2>3. PICK i \in Built :
           /\ NamesType(i) /\ ClassOf(i).symbol = s /\ SpaceOf(i).symbol \in DOMAIN nsNode
           /\ <<nsNode[SpaceOf(i).symbol], c, 0>> \in edges
    BY <2>1 DEF Inv, TypesFound
  <2> DEFINE n == nsNode[SpaceOf(i).symbol]
  <2>4. infos[j][2] \in NodeInfo /\ infos[j][2].type = "class"
    BY <2>0, ClassNamed
  <2>5. c \in DOMAIN nodes /\ nodes[c] = infos[j][2]
    BY <2>1, <2>4, SameInfo DEF Inv, TypeOK
  <2>6. /\ ClassOf(i) \in NodeInfo /\ ClassOf(i).type = "class"
        /\ SpaceOf(i) \in NodeInfo /\ SpaceOf(i).type = "namespace"
    BY <2>3, ClassNamed
  <2>7. n \in DOMAIN nodes /\ nodes[n] = SpaceOf(i) /\ <<1, n, 0>> \in edges
    BY <2>3, <2>6, SameInfo DEF Inv, TypeOK, SpacesHung
  <2>8. Chain(n, c, m) /\ NamesMember(j, c, m)
    BY <2>2, <2>3, <2>4, <2>5, <2>6, <2>7 DEF Chain, NamesMember
  <2>9. ClassOf(i) = infos[j][2]
    BY <2>3, <2>4, <2>6, SameInfo
  <2>10. OneSpace(nodes[c]) => infos[j][3] = nodes[n]
    <3>1. i \in DOMAIN infos /\ j \in DOMAIN infos
      BY <2>0, <2>3, ClassNamed
    <3> QED
      BY <2>0, <2>3, <2>5, <2>7, <2>9, <3>1 DEF OneSpace
  <2> HIDE DEF n, c
  <2> QED
    BY <2>0, <2>2, <2>5, <2>7, <2>8, <2>10
<1> QED
  BY <1>1, Inductive, PTL

\* Of every documentation file, what the graph has below a type of a namespace was
\* declared: the type in that namespace and the member in a type of that name; and
\* both by one entry when the file has the type's name in one namespace only
\* (dependency_xml_analyzer.rs:155-280).
THEOREM NothingMixed == Spec => []MembersDeclared
<1>1. Inv => MembersDeclared
  <2> SUFFICES ASSUME Inv,
                      NEW n \in DOMAIN nodes, NEW c \in DOMAIN nodes, NEW m \in DOMAIN nodes,
                      Chain(n, c, m)
               PROVE  /\ \E i \in Built :
                            NamesType(i) /\ ClassOf(i) = nodes[c] /\ SpaceOf(i) = nodes[n]
                      /\ \E j \in Built : NamesMember(j, c, m)
                      /\ OneSpace(nodes[c]) => \E j \in Built : Declares(j, n, c, m)
    BY DEF MembersDeclared
  <2>1. /\ n \in 1..Len(nodes) /\ c \in 1..Len(nodes) /\ m \in 1..Len(nodes)
        /\ <<n, c, 0>> \in edges /\ <<c, m, 0>> \in edges /\ nodes[c].type = "class"
    BY DEF Chain, Inv, TypeOK
  <2>2. PICK i \in Built : NamesType(i) /\ ClassOf(i) = nodes[c] /\ SpaceOf(i) = nodes[n]
    BY <2>1 DEF Inv, TypesHung
  <2>3. PICK j \in Built : NamesMember(j, c, m)
    BY <2>1 DEF Inv, MembersHung, NamesMember
  <2>4. NamesType(j) /\ ClassOf(j) = infos[j][2] /\ SpaceOf(j) = infos[j][3]
        /\ Len(infos[j]) = 3 /\ infos[j][1] = nodes[m] /\ infos[j][2] = nodes[c]
    BY <2>3 DEF NamesMember, NamesType, ClassOf, SpaceOf
  <2>5. i \in DOMAIN infos /\ j \in DOMAIN infos
    BY <2>2, <2>4, ClassNamed
  <2>6. OneSpace(nodes[c]) => SpaceOf(i) = SpaceOf(j)
    BY <2>2, <2>4, <2>5 DEF OneSpace
  <2> QED
    BY <2>2, <2>3, <2>4, <2>6 DEF Declares
<1> QED
  BY <1>1, Inductive, PTL
=============================================================================
