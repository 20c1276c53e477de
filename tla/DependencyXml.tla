--------------------------- MODULE DependencyXml ---------------------------
(***************************************************************************)
(* The analyser of XML documentation files                                 *)
(* (src/c_sharp_graph/dependency_xml_analyzer.rs): it reads the <member>   *)
(* elements of a file, splits each member's name into the symbols of the   *)
(* declarations it names, and when the whole file has been read it builds  *)
(* the file's part of the stack graph, one member at a time, with a map    *)
(* from namespace to node and one from type name to node.                  *)
(*                                                                         *)
(* A dotted name is the sequence of its parts, and a symbol too: a         *)
(* namespace is a sequence of parts, a type and a member have one part.    *)
(* The texts inside a part that the code looks for are constants:          *)
(*   BeforeParen  a part that contains "("  |->  the text before it        *)
(*   BeforeHash   a part that contains "#"  |->  the text before it        *)
(*   CtorParts    the parts that contain "#ctor"                           *)
(***************************************************************************)
EXTENDS Integers, Sequences

CONSTANTS Part, Events, MaxEvents, BeforeParen, BeforeHash, CtorParts, FileName

Kinds == {"N", "T", "F", "P", "M", "E"}

Element == [event : {"member"}, kind : Kinds, name : Seq(Part)]
\* "nameless": a member with no name attribute, or whose name is not "k:name".
Event == Element \cup [event : {"nameless", "other", "error"}]

ASSUME XmlAssumption ==
  /\ Events \subseteq Event
  /\ MaxEvents \in Nat
  /\ \E D \in SUBSET Part : BeforeParen \in [D -> Part]
  /\ \E D \in SUBSET Part : BeforeHash \in [D -> Part]
  /\ CtorParts \subseteq Part
  /\ FileName \in Seq(Part)

Symbol == Seq(Part)
NodeType == {"comp_unit", "namespace", "class", "field", "method"}
NodeInfo == [symbol : Symbol, type : NodeType]

----------------------------------------------------------------------------
(* handle_member: what a member's name declares, innermost first.          *)

Last(s) == s[Len(s)]
Front(s) == SubSeq(s, 1, Len(s) - 1)

Info(symbol, type) == [symbol |-> symbol, type |-> type]

\* The name up to its first "(": the parameters of a method are dropped.
UpToParen(name) ==
  LET open == {i \in DOMAIN name : name[i] \in DOMAIN BeforeParen}
  IN  IF open = {} THEN name
      ELSE LET i == CHOOSE i \in open : \A j \in open : i <= j
           IN  Append(SubSeq(name, 1, i - 1), BeforeParen[name[i]])

\* A type's namespace, each part of it cut at its first "#".
UpToHash(name) ==
  [i \in DOMAIN name |->
     IF name[i] \in DOMAIN BeforeHash THEN BeforeHash[name[i]] ELSE name[i]]

TypeNodes(name) ==
  IF name = <<>> THEN <<>>
  ELSE << Info(<<Last(name)>>, "class"), Info(UpToHash(Front(name)), "namespace") >>

\* member name, type name, namespace, where `outer` is what is left of the
\* name once the member's own part is taken off; nothing when no type is left.
MemberNodes(member, outer, type) ==
  IF outer = <<>> THEN <<>>
  ELSE << Info(member, type), Info(<<Last(outer)>>, "class"),
          Info(Front(outer), "namespace") >>

FieldNodes(name) ==
  IF name = <<>> THEN <<>>
  ELSE MemberNodes(<<Last(name)>>, Front(name), "field")

\* A constructor is a method with the name of its type.
MethodNodes(name) ==
  LET cut == UpToParen(name) IN
  IF name = <<>> THEN <<>>
  ELSE IF Last(cut) \in CtorParts /\ Front(cut) # <<>>
       THEN MemberNodes(<<Last(Front(cut))>>, Front(cut), "method")
       ELSE MemberNodes(<<Last(cut)>>, Front(cut), "method")

handle_member(kind, name) ==
  CASE kind = "N" -> << Info(name, "namespace") >>
    [] kind = "T" -> TypeNodes(name)
    [] kind \in {"F", "P"} -> FieldNodes(name)
    [] kind = "M" -> MethodNodes(name)
    [] OTHER -> <<>>

----------------------------------------------------------------------------
VARIABLES
  phase,   \* "read", "build", "done", or "failed" once the reader has erred
  read,    \* how many events of the file have been read (bounded by MaxEvents)
  infos,   \* inter_node_info
  next,    \* the index in infos of the member to build
  nodes,   \* the file's nodes in the order of their creation
  edges,   \* the file's edges: <<source, sink, precedence>>
  nsNode,  \* namespace_node_map
  typeNode \* type_node_map

vars == <<phase, read, infos, next, nodes, edges, nsNode, typeNode>>
graph == <<nodes, edges, nsNode, typeNode>>

EmptyMap == [s \in {} |-> 0]

Init ==
  /\ phase = "read"
  /\ read = 0
  /\ infos = <<>>
  /\ next = 1
  /\ nodes = <<>>
  /\ edges = {}
  /\ nsNode = EmptyMap
  /\ typeNode = EmptyMap

ReadEvent(e) ==
  /\ phase = "read" /\ read < MaxEvents
  /\ e.event # "error"
  /\ read' = read + 1
  /\ infos' = IF e.event = "member"
              THEN Append(infos, handle_member(e.kind, e.name)) ELSE infos
  /\ UNCHANGED <<phase, next, nodes, edges, nsNode, typeNode>>

\* The reader errs: the file is refused before any node is made.
ReadError(e) ==
  /\ phase = "read" /\ read < MaxEvents
  /\ e.event = "error"
  /\ phase' = "failed"
  /\ UNCHANGED <<read, infos, next, nodes, edges, nsNode, typeNode>>

\* The end of the file: the compilation unit is created.
ReadEof ==
  /\ phase = "read"
  /\ phase' = "build"
  /\ nodes' = << Info(FileName, "comp_unit") >>
  /\ UNCHANGED <<read, infos, next, edges, nsNode, typeNode>>

----------------------------------------------------------------------------
(* The graph. Node 1 is the compilation unit.                              *)

\* Mutant of Both: the way back is forgotten.
BothDown(n, m) == { <<n, m, 0>> }

Both(n, m) == { <<n, m, 0>>, <<m, n, 10>> }
With(map, key, value) ==
  [k \in DOMAIN map \cup {key} |-> IF k = key THEN value ELSE map[k]]

\* Mutant of NamespaceNode: the new node's number is counted before it is made.
NamespaceNodeBefore(info) ==
  IF info.symbol \in DOMAIN nsNode
  THEN [at |-> nsNode[info.symbol], nodes |-> nodes, edges |-> edges, map |-> nsNode]
  ELSE LET n == Len(nodes)
       IN  [at |-> n, nodes |-> Append(nodes, info),
            edges |-> edges \cup { <<1, n, 0>> }, map |-> With(nsNode, info.symbol, n)]

\* The namespace's node: known, or the next one, hung under the unit.
NamespaceNode(info) ==
  IF info.symbol \in DOMAIN nsNode
  THEN [at |-> nsNode[info.symbol], nodes |-> nodes, edges |-> edges, map |-> nsNode]
  ELSE LET n == Len(nodes) + 1
       IN  [at |-> n, nodes |-> Append(nodes, info),
            edges |-> edges \cup { <<1, n, 0>> }, map |-> With(nsNode, info.symbol, n)]

BuildNamespace ==
  /\ phase = "build" /\ next <= Len(infos)
  /\ Len(infos[next]) = 1
  /\ LET ns == NamespaceNode(infos[next][1]) IN
       /\ nodes' = ns.nodes
       /\ edges' = ns.edges
       /\ nsNode' = ns.map
  /\ next' = next + 1
  /\ UNCHANGED <<phase, read, infos, typeNode>>

\* Mutant of TypeNode: every type of a file shares the first type's node.
TypeNodeFirst(info, known) ==
  IF DOMAIN typeNode # {}
  THEN [at |-> typeNode[CHOOSE s \in DOMAIN typeNode : TRUE], nodes |-> known,
        map |-> typeNode]
  ELSE LET n == Len(known) + 1
       IN  [at |-> n, nodes |-> Append(known, info), map |-> With(typeNode, info.symbol, n)]

\* The type's node, looked up by its own name alone, or the one after `known`.
TypeNode(info, known) ==
  IF info.symbol \in DOMAIN typeNode
  THEN [at |-> typeNode[info.symbol], nodes |-> known, map |-> typeNode]
  ELSE LET n == Len(known) + 1
       IN  [at |-> n, nodes |-> Append(known, info), map |-> With(typeNode, info.symbol, n)]

\* A type is tied to the namespace whether or not it was there.
BuildType ==
  /\ phase = "build" /\ next <= Len(infos)
  /\ Len(infos[next]) = 2
  /\ LET ns == NamespaceNode(infos[next][2])
         type == TypeNode(infos[next][1], ns.nodes)
     IN  /\ nodes' = type.nodes
         /\ edges' = ns.edges \cup Both(ns.at, type.at)
         /\ nsNode' = ns.map
         /\ typeNode' = type.map
  /\ next' = next + 1
  /\ UNCHANGED <<phase, read, infos>>

\* Mutant of BuildMember: a new type is filed, and never tied to its namespace.
BuildMemberLoose ==
  /\ phase = "build" /\ next <= Len(infos)
  /\ Len(infos[next]) = 3
  /\ LET ns == NamespaceNode(infos[next][3])
         type == TypeNode(infos[next][2], ns.nodes)
     IN  /\ nodes' = Append(type.nodes, infos[next][1])
         /\ edges' = ns.edges \cup Both(type.at, Len(type.nodes) + 1)
         /\ nsNode' = ns.map
         /\ typeNode' = type.map
  /\ next' = next + 1
  /\ UNCHANGED <<phase, read, infos>>

\* A member always gets a node; its type is tied to the namespace only when it
\* is new.
BuildMember ==
  /\ phase = "build" /\ next <= Len(infos)
  /\ Len(infos[next]) = 3
  /\ LET ns == NamespaceNode(infos[next][3])
         type == TypeNode(infos[next][2], ns.nodes)
         tie == IF infos[next][2].symbol \in DOMAIN typeNode THEN {}
                ELSE Both(ns.at, type.at)
     IN  /\ nodes' = Append(type.nodes, infos[next][1])
         /\ edges' = ns.edges \cup tie \cup Both(type.at, Len(type.nodes) + 1)
         /\ nsNode' = ns.map
         /\ typeNode' = type.map
  /\ next' = next + 1
  /\ UNCHANGED <<phase, read, infos>>

\* A member that handle_member made nothing of is passed over.
SkipMember ==
  /\ phase = "build" /\ next <= Len(infos)
  /\ Len(infos[next]) \notin 1..3
  /\ next' = next + 1
  /\ UNCHANGED <<phase, read, infos, nodes, edges, nsNode, typeNode>>

Finish ==
  /\ phase = "build" /\ next > Len(infos)
  /\ phase' = "done"
  /\ UNCHANGED <<read, infos, next, nodes, edges, nsNode, typeNode>>

Next ==
  \/ \E e \in Events : ReadEvent(e) \/ ReadError(e)
  \/ ReadEof
  \/ BuildNamespace \/ BuildType \/ BuildMember \/ SkipMember
  \/ Finish

Spec == Init /\ [][Next]_vars

----------------------------------------------------------------------------
(* Properties.                                                             *)

\* Types: infos holds handle_member's results, the edges join nodes of the
\* file, and each map leads to a node of its kind with the symbol it is filed under.
TypeOK ==
  /\ phase \in {"read", "build", "done", "failed"}
  /\ read \in Nat
  /\ infos \in Seq(Seq(NodeInfo))
  /\ next \in Nat \ {0}
  /\ nodes \in Seq(NodeInfo)
  /\ edges \subseteq (DOMAIN nodes) \X (DOMAIN nodes) \X {0, 10}
  /\ \A s \in DOMAIN nsNode :
        nsNode[s] \in DOMAIN nodes /\ nodes[nsNode[s]] = Info(s, "namespace")
  /\ \A s \in DOMAIN typeNode :
        typeNode[s] \in DOMAIN nodes /\ nodes[typeNode[s]] = Info(s, "class")

\* The declarations a search can read off the graph: a member below a type
\* below a namespace below the compilation unit.
Chain(n, c, m) ==
  /\ <<1, n, 0>> \in edges /\ nodes[n].type = "namespace"
  /\ <<n, c, 0>> \in edges /\ nodes[c].type = "class"
  /\ <<c, m, 0>> \in edges

\* The member named by entry j of infos is m of type c of namespace n.
Declares(j, n, c, m) ==
  /\ Len(infos[j]) = 3
  /\ infos[j][1] = nodes[m]
  /\ infos[j][2] = nodes[c]
  /\ infos[j][3] = nodes[n]

Built == 1..(next - 1)

\* Entry j names a type, alone or with a member; its class and its namespace.
NamesType(j) == Len(infos[j]) \in {2, 3}
ClassOf(j) == infos[j][Len(infos[j]) - 1]
SpaceOf(j) == infos[j][Len(infos[j])]

NamesMember(j, c, m) == Len(infos[j]) = 3 /\ infos[j][1] = nodes[m] /\ infos[j][2] = nodes[c]

\* The types of the file with this simple name are all in one namespace.
OneSpace(class) ==
  \A i, j \in DOMAIN infos :
    NamesType(i) /\ NamesType(j) /\ ClassOf(i) = class /\ ClassOf(j) = class =>
      SpaceOf(i) = SpaceOf(j)

\* dependency_xml_analyzer.rs:155-280, which looks for the nodes of namespaces and
\* types by their symbol, a type's being its simple name.  For every file: a type that
\* the graph puts in a namespace was declared there, and a member below it was declared
\* in a type of its name; it was declared in that very type when the file has no other
\* of the name.
MembersDeclared ==
  \A n, c, m \in DOMAIN nodes : Chain(n, c, m) =>
    /\ \E i \in Built : NamesType(i) /\ ClassOf(i) = nodes[c] /\ SpaceOf(i) = nodes[n]
    /\ \E j \in Built : NamesMember(j, c, m)
    /\ OneSpace(nodes[c]) => \E j \in Built : Declares(j, n, c, m)

\* dependency_xml_analyzer.rs:204-280, class_query.rs:88-143: every declared member
\* that has been built can be reached from the compilation unit by the edges that the
\* walk of the queries follows, through a type of its type's name; and through its own
\* namespace when the file has no other type of the name.
MembersReachable ==
  \A j \in Built : Len(infos[j]) = 3 =>
    \E n, c, m \in DOMAIN nodes :
      /\ Chain(n, c, m) /\ NamesMember(j, c, m)
      /\ OneSpace(nodes[c]) => infos[j][3] = nodes[n]

\* Which kind of node hangs directly below which.
Encloses == { <<"comp_unit", "namespace">>, <<"namespace", "class">>,
              <<"class", "field">>, <<"class", "method">> }

\* dependency_xml_analyzer.rs:146-280, query.rs:66-165: get_fqdn climbs from a node to
\* its full name by the edges of precedence 10, which are the edges that the walk
\* descends reversed, except those that leave the compilation unit; every node but the
\* unit hangs on another, of the kind that encloses it, and a member on one type only.
\* So the graphs of the XML analyser are what Query.tla calls Shaped.
TreesClimb ==
  /\ \A x, y \in DOMAIN nodes :
        (<<y, x, 10>> \in edges) <=> (x # 1 /\ <<x, y, 0>> \in edges)
  /\ \A y \in DOMAIN nodes : y # 1 => \E x \in DOMAIN nodes : <<x, y, 0>> \in edges
  /\ \A x, y \in DOMAIN nodes : <<x, y, 0>> \in edges =>
        /\ <<nodes[x].type, nodes[y].type>> \in Encloses
        /\ nodes[x].type = "class" => \A z \in DOMAIN nodes : <<z, y, 0>> \in edges => z = x
=============================================================================
