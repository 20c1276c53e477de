------------------------------- MODULE Query -------------------------------
(***************************************************************************)
(* One evaluate on the stack graph: Querier::query of                      *)
(* src/c_sharp_graph/query.rs with the matchers of class_query.rs,         *)
(* method_query.rs, field_query.rs and namespace_query.rs.                 *)
(*                                                                         *)
(* A query finds the namespaces whose declaration fits the pattern, walks  *)
(* the tree below them for the definitions that match it, and then goes    *)
(* over the nodes of each file that declares or imports such a namespace:  *)
(* a definition is compared by its symbol, a reference "x.y" is first      *)
(* resolved to the full name of the y of the class, or variable, x.        *)
(*                                                                         *)
(* Nodes and files are their handles, numbers: the code goes by their      *)
(* order.  A symbol is the sequence of its dotted segments.  A search is   *)
(* what its three tests say yes to (SearchPattern.tla models the tests).   *)
(***************************************************************************)
EXTENDS Naturals, Sequences, FiniteSets

CONSTANTS
    Node, File, Name,
    Graphs,      \* stack graphs
    Searches     \* compiled patterns

Symbol == Seq(Name)
\* "other": a definition of another syntax type, an argument or a generic name
Typed  == {"unit", "import", "namespace", "class", "method", "field", "var", "other"}
\* "ref": a reference; "plain": neither that nor a definition; both without a syntax type
Kind   == Typed \cup {"ref", "plain"}
Graph  == [file  : [Node -> File],
           kind  : [Node -> Kind],
           symbol: [Node -> Symbol \ {<<>>}],
           child : SUBSET (Node \X Node),   \* edges of precedence 0
           owner : SUBSET (Node \X Node),   \* FQDN edges, precedence 10
           source: SUBSET File]             \* the SourceType node has an edge to the unit
Search == [full   : SUBSET Symbol,   \* match_namespace
           own    : SUBSET Symbol,   \* match_symbol
           spaces : SUBSET Symbol]   \* partial_namespace
Locations == {"all", "class", "method", "field"}

\* What hangs on what, in the graphs of sources and of XML files alike: a declaration
\* on the one that encloses it, and each but a namespace leads back to that one, which
\* is in the same file; nothing encloses itself.  A member, and a class in a class, has
\* one owner.  A class may hang below several namespaces: those of the types of an XML
\* file that share a simple name (DependencyXml.tla).
Parents(k) ==
    CASE k = "unit"      -> {}
      [] k = "namespace" -> {"unit"}
      [] k = "class"     -> {"namespace", "class"}
      [] k \in {"method", "field"} -> {"class"}
      [] OTHER -> Kind
Shaped(g) ==
    /\ \A e \in g.child :
          /\ g.file[e[1]] = g.file[e[2]] /\ g.kind[e[1]] \in Parents(g.kind[e[2]])
          /\ g.kind[e[2]] \in {"class", "method", "field"} => <<e[2], e[1]>> \in g.owner
          /\ g.kind[e[1]] = "class" \/ g.kind[e[2]] \in {"method", "field"} =>
                \A m \in Node : <<e[2], m>> \in g.owner => m = e[1]
    /\ \A e \in g.owner : <<e[2], e[1]>> \in g.child /\ g.kind[e[1]] # "namespace"
    /\ \A S \in SUBSET {e[1] : e \in g.owner} :
          (\A n \in S : \E m \in S : <<n, m>> \in g.owner) => S = {}

ASSUME Handles == Node \subseteq Nat /\ IsFiniteSet(Node) /\ File \subseteq Nat
ASSUME GraphTypes      == Graphs \subseteq Graph /\ Searches \subseteq Search
ASSUME GraphShapes     == \A g \in Graphs : Shaped(g)

\* An Option<String> of the code is <<>> when it is None.
Fqdn    == [namespace : Symbol, class : Symbol, method : Symbol, field : Symbol]
Unnamed == [namespace |-> <<>>, class |-> <<>>, method |-> <<>>, field |-> <<>>]
NoFqdn  == [missing |-> TRUE]

VARIABLES
    graph, search, location, sourceOnly,  \* the call
    pc,
    roots,        \* definition_root_nodes
    stack,        \* calls of traverse_node that are still to be made
    found,        \* definitions that match
    files,        \* referenced files still to be searched
    results,      \* nodes that are reported
    answer

input == <<graph, search, location, sourceOnly>>
vars  == <<input, pc, roots, stack, found, files, results, answer>>

Init ==
    /\ graph \in Graphs /\ search \in Searches
    /\ location \in Locations /\ sourceOnly \in BOOLEAN
    /\ pc = "start"
    /\ roots = {} /\ stack = <<>> /\ found = {} /\ files = {} /\ results = {}
    /\ answer = "none"

-----------------------------------------------------------------------------
(* The graph *)

First(S) == CHOOSE n \in S : \A m \in S : n <= m

\* sort(): handles in ascending order.
Orders(S) ==
    {q \in [1..Cardinality(S) -> S] :
        /\ \A n \in S : \E j \in 1..Cardinality(S) : q[j] = n
        /\ \A j, k \in 1..Cardinality(S) : j < k => q[j] < q[k]}

Children(n) == {m \in Node : <<n, m>> \in graph.child}
Owners(n)   == {m \in Node : <<n, m>> \in graph.owner}
Edges(n)    == Children(n) \cup Owners(n)
InFile(f)   == {n \in Node : graph.file[n] = f}
OfKind(k)   == {n \in Node : graph.kind[n] = k}

\* get_fqdn: a name is put together on the way back from the outermost owner.
Named(n, base) ==
    LET own == graph.symbol[n]
    IN  IF base = NoFqdn THEN Unnamed
        ELSE CASE graph.kind[n] = "namespace" -> [base EXCEPT !.namespace = @ \o own]
               [] graph.kind[n] = "class"     -> [base EXCEPT !.class = @ \o own]
               [] graph.kind[n] = "method"    -> [base EXCEPT !.method = @ \o own]
               [] graph.kind[n] = "field"     -> [base EXCEPT !.field = @ \o own]
               [] OTHER -> NoFqdn
FqdnOf ==
    LET up[n \in Node] ==
            Named(n, IF Owners(n) = {} THEN Unnamed ELSE up[First(Owners(n))])
    IN  up

\* get_full_symbol, of a name that has a namespace
FullSymbol(f) == f.namespace \o f.class \o f.method \o f.field

TypeOK ==
    /\ graph \in Graph /\ search \in Search
    /\ location \in Locations /\ sourceOnly \in BOOLEAN
    /\ pc \in {"start", "traverse", "files", "done"}
    /\ roots \in SUBSET Node /\ stack \in Seq(Node)
    /\ found \in SUBSET Node
    /\ files \in SUBSET File /\ results \in SUBSET Node
    /\ answer \in {"none", "ok", "not found", "panic"} /\ (answer = "none" <=> pc # "done")

-----------------------------------------------------------------------------
(* Where to look *)

\* Mutant of StartingNodes: a file that only imports the namespace is forgotten.
StartingNodesDeclared ==
    /\ pc = "start" /\ pc' = "traverse"
    /\ LET spaces == {n \in OfKind("namespace") : graph.symbol[n] \in search.spaces}
       IN  roots' = spaces /\ stack' \in Orders(spaces)
           /\ files' = {graph.file[n] : n \in spaces}
    /\ UNCHANGED <<input, found, results, answer>>

\* get_starting_nodes
StartingNodes ==
    /\ pc = "start" /\ pc' = "traverse"
    /\ LET spaces  == {n \in OfKind("namespace") : graph.symbol[n] \in search.spaces}
           imports == {n \in OfKind("import") : graph.symbol[n] \in search.spaces}
       IN  /\ roots' = spaces /\ stack' \in Orders(spaces)
           /\ files' = {graph.file[n] : n \in spaces \cup imports}
    /\ UNCHANGED <<input, found, results, answer>>

-----------------------------------------------------------------------------
(* What to look for *)

\* The matcher of each location; "all" runs the three others and its own over the
\* same tree, which is one pass here.
Wanted == IF location = "all" THEN {"class", "method", "field"} ELSE {location}

\* What a call of traverse_node on n finds: definitions among the children of n,
\* and for "all" the namespace n itself.
Matching(n) ==
    {m \in Children(n) : /\ graph.kind[m] \in Wanted /\ graph.symbol[m] \in search.own
                         /\ FqdnOf[m] # NoFqdn /\ FullSymbol(FqdnOf[m]) \in search.full}
      \cup {m \in {n} : /\ location = "all" /\ graph.kind[m] = "namespace"
                        /\ FqdnOf[m] # NoFqdn /\ FqdnOf[m].namespace \in search.full}

\* Mutant of Traverse: the walk stops at a node whose own symbol does not match.
TraverseMatching ==
    /\ pc = "traverse" /\ stack # <<>>
    /\ LET n == Head(stack)
       IN  /\ found' = found \cup Matching(n)
           /\ \E calls \in Orders({m \in Children(n) : graph.symbol[m] \in search.own}) :
                 stack' = calls \o Tail(stack)
    /\ UNCHANGED <<input, pc, roots, files, results, answer>>

\* One call of traverse_node: its loop over the edges, then a call for each child.
Traverse ==
    /\ pc = "traverse" /\ stack # <<>>
    /\ LET n == Head(stack)
       IN  /\ found' = found \cup Matching(n)
           /\ \E calls \in Orders(Children(n)) : stack' = calls \o Tail(stack)
    /\ UNCHANGED <<input, pc, roots, files, results, answer>>

\* Mutant of NothingFound: the error is dropped.
NothingFoundDropped ==
    /\ pc = "traverse" /\ stack = <<>> /\ found = {}
    /\ pc' = "done"
    /\ UNCHANGED <<input, roots, stack, found, files, results, answer>>

\* No definition matches: the NotFoundError of the matcher's constructor.
NothingFound ==
    /\ pc = "traverse" /\ stack = <<>> /\ found = {}
    /\ pc' = "done" /\ answer' = "not found"
    /\ UNCHANGED <<input, roots, stack, found, files, results>>

SomethingFound ==
    /\ pc = "traverse" /\ stack = <<>> /\ found # {}
    /\ pc' = "files"
    /\ UNCHANGED <<input, roots, stack, found, files, results, answer>>

\* The keys of the three maps, and the namespaces.
Names(kind) == {FqdnOf[m] : m \in found \cap OfKind(kind)}

\* match_symbol of the matchers
ClassMatches(symbol)  == \E f \in Names("class")  : f.class = symbol
MethodMatches(symbol) == \E f \in Names("method") :
                            Len(symbol) = 2 /\ f.class = <<symbol[1]>> /\ f.method = <<symbol[2]>>
FieldMatches(symbol)  == \E f \in Names("field")  :
                            Len(symbol) = 2 /\ f.class = <<symbol[1]>> /\ f.field = <<symbol[2]>>
MatchSymbol(symbol) ==
    \/ ClassMatches(symbol) \/ MethodMatches(symbol) \/ FieldMatches(symbol)
    \/ \E f \in Names("namespace") : f.namespace = symbol

\* match_fqdn: a method or field also matches when its class does.
ClassPart(f) ==
    IF f.class # <<>> THEN [f EXCEPT !.method = <<>>, !.field = <<>>] ELSE f
MatchFqdn(f) == ClassPart(f) \in Names("class") \/ f \in Names("method") \cup Names("field")

-----------------------------------------------------------------------------
(* What a reference "x.y" names *)

\* The definitions of each file that declares a fitting namespace, and all nodes
\* of the file itself.
Definitions   == {n \in Node : graph.kind[n] \notin {"ref", "plain"}}
Searchable(f) == InFile(f) \cup {n \in Definitions : \E r \in roots : graph.file[r] = graph.file[n]}

Imports(f) == {graph.symbol[n] : n \in InFile(f) \cap OfKind("import")}

\* A candidate is a definition of x, the node at which y was looked up, and the
\* node whose full name x.y then has.
Candidate == Node \X Node \X Node

\* get_local_var_type_fqdn: y of whatever is called as the type of variable d is,
\* the first reference among its edges.
TypeRefs(d) == {m \in Edges(d) : graph.kind[m] = "ref"}
VarCandidates(d, f, y) ==
    {c \in {d} \X Searchable(f) \X Node :
        /\ graph.file[d] = f /\ TypeRefs(d) # {}
        /\ graph.symbol[c[2]] = graph.symbol[First(TypeRefs(d))]
        /\ c[3] \in Edges(c[2]) /\ graph.symbol[c[3]] = <<y>>}

\* A class has one y; a property or a method x stands for itself.
Members(d, y) == {m \in Edges(d) : graph.symbol[m] = <<y>>}
Candidates(f, x, y) ==
    LET defs  == {d \in Searchable(f) \cap Definitions : graph.symbol[d] = <<x>>}
        ofKind(kinds) == {d \in defs : graph.kind[d] \in kinds}
    IN  {<<d, d, First(Members(d, y))>> : d \in {c \in ofKind({"class"}) : Members(c, y) # {}}}
          \cup {<<d, d, d>> : d \in ofKind({"method", "field"})}
          \cup UNION {VarCandidates(d, f, y) : d \in ofKind({"var"})}

Before(b, c) ==
    \/ b[1] < c[1]
    \/ b[1] = c[1] /\ b[2] < c[2]
    \/ b[1] = c[1] /\ b[2] = c[2] /\ b[3] <= c[3]

\* Mutant of Fitting: the imports of the file do not matter.
FittingAny(f, cands) == {c \in cands : FqdnOf[c[3]] # NoFqdn}

\* select_best_fqdn: the first whose namespace the file imports.
Fitting(f, cands) ==
    {c \in cands : FqdnOf[c[3]] # NoFqdn /\ FqdnOf[c[3]].namespace \in Imports(f)}
Selected(f, cands) ==
    LET fit == Fitting(f, cands)
    IN  IF fit = {} THEN NoFqdn
        ELSE FqdnOf[(CHOOSE c \in fit : \A d \in fit : Before(c, d))[3]]

\* get_type_with_symbol
CandidatesOf(n) == Candidates(graph.file[n], graph.symbol[n][1], graph.symbol[n][2])
Resolved(n) == IF Len(graph.symbol[n]) # 2 THEN NoFqdn
               ELSE Selected(graph.file[n], CandidatesOf(n))

-----------------------------------------------------------------------------
(* Searching the files *)

\* search_nodes
Reported(n) ==
    IF graph.kind[n] = "ref" THEN Resolved(n) # NoFqdn /\ MatchFqdn(Resolved(n))
                             ELSE MatchSymbol(graph.symbol[n])

\* get_fqdn expects a syntax type.
Panics(n) ==
    /\ graph.kind[n] = "ref" /\ Len(graph.symbol[n]) = 2
    /\ \E c \in CandidatesOf(n) : graph.kind[c[3]] \notin Typed

\* A file without a compilation unit is skipped, and, when only the sources are
\* analysed, one that the SourceType node has no edge to.
Searched(f) ==
    /\ InFile(f) \cap OfKind("unit") # {}
    /\ sourceOnly => f \in graph.source

\* The files are gone through in the order of their handles.
SkipFile ==
    /\ pc = "files" /\ files # {} /\ ~Searched(First(files))
    /\ files' = files \ {First(files)}
    /\ UNCHANGED <<input, pc, roots, stack, found, results, answer>>

SearchFile ==
    /\ pc = "files" /\ files # {} /\ Searched(First(files))
    /\ \A n \in InFile(First(files)) : ~Panics(n)
    /\ files' = files \ {First(files)}
    /\ results' = results \cup {n \in InFile(First(files)) : Reported(n)}
    /\ UNCHANGED <<input, pc, roots, stack, found, answer>>

\* The panic ends the handler, with the graph's mutex poisoned.
PanicInFile ==
    /\ pc = "files" /\ files # {} /\ Searched(First(files))
    /\ \E n \in InFile(First(files)) : Panics(n)
    /\ pc' = "done" /\ answer' = "panic"
    /\ UNCHANGED <<input, roots, stack, found, files, results>>

Finish ==
    /\ pc = "files" /\ files = {}
    /\ pc' = "done" /\ answer' = "ok"
    /\ UNCHANGED <<input, roots, stack, found, files, results>>

-----------------------------------------------------------------------------
Next ==
    \/ StartingNodes \/ Traverse \/ NothingFound \/ SomethingFound
    \/ SkipFile \/ SearchFile \/ PanicInFile \/ Finish

Spec == Init /\ [][Next]_vars

-----------------------------------------------------------------------------
(* Properties *)

\* The nodes of the tree below the roots.
Below ==
    LET level[k \in Nat] ==
            IF k = 0 THEN roots
            ELSE LET above == level[k - 1] IN above \cup UNION {Children(n) : n \in above}
    IN  level[Cardinality(Node)]

Matched == UNION {Matching(n) : n \in Below}

\* class_query.rs:79-131, namespace_query.rs:140-173: when the walk is over, what it
\* has found are exactly the definitions below a fitting namespace that match,
\* however deep, and below definitions that do not match.
FindsReachable ==
    pc = "files" \/ answer = "not found" => found = Matched

\* A full name that was found to match, or the class of which was.
Asked(f) == \E k \in found : FqdnOf[k] \in {f, ClassPart(f)}

\* query.rs:550-730: a reference x.y is reported only for a definition in a namespace
\* that its file imports, one that matches the pattern or is a member of a class
\* that does, and that is called y (or is itself the property or method x).
ResultsJustified ==
    \A n \in results : graph.kind[n] = "ref" =>
        \E m \in Node :
            /\ FqdnOf[m] # NoFqdn /\ Asked(FqdnOf[m])
            /\ FqdnOf[m].namespace \in Imports(graph.file[n])
            /\ \/ graph.symbol[m] = <<graph.symbol[n][2]>>
               \/ graph.symbol[m] = <<graph.symbol[n][1]>> /\ graph.kind[m] \in {"method", "field"}

\* The namespaces that a class stands in.
Spaces(c) == {FqdnOf[o].namespace : o \in Owners(c)}

\* query.rs:752-860: and each use x.y of a member y of a class x that matches is
\* reported, when the file imports the namespace of x and x means nothing else
\* there; whether the class stands in the sources or in a package, and whatever
\* other namespaces have a class x.  The namespace is that of the member's full name,
\* which for a class of several namespaces is the first of them, and has to be one in
\* which the pattern looks.
Means(n, d, m) ==
    /\ graph.kind[n] = "ref" /\ graph.symbol[n] = graph.symbol[d] \o graph.symbol[m]
    /\ graph.kind[d] = "class" /\ Len(graph.symbol[d]) = 1
    /\ m \in Children(d) /\ graph.kind[m] \in {"method", "field"} /\ Len(graph.symbol[m]) = 1
    /\ FqdnOf[m].namespace \in Imports(graph.file[n])
    /\ \A c \in Definitions : graph.symbol[c] = graph.symbol[d] /\ c # d =>
           /\ graph.kind[c] \notin {"method", "field", "var"}
           /\ graph.kind[c] = "class" => Spaces(c) \cap Imports(graph.file[n]) = {}
    /\ \A e \in Edges(d) : graph.symbol[e] = graph.symbol[m] => e = m
UsesFound ==
    pc = "done" /\ answer # "panic" =>
        \A n, d, m \in Node :
            /\ Means(n, d, m) /\ FqdnOf[m].namespace \in search.spaces
            /\ {d, m} \cap Matched # {} /\ Searched(graph.file[n])
            => n \in results
=============================================================================
