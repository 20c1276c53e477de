------------------------------ MODULE MCQuery ------------------------------
(***************************************************************************)
(* Graphs and patterns for TLC.  Two libraries with a class each, and a    *)
(* source file with an import, a class, a variable and a reference: which  *)
(* names they share, which namespaces they are in and in which order the   *)
(* files were loaded varies.  The class of the second library may hang     *)
(* below a second namespace, as two types of one name in an XML file do;   *)
(* else its member holds a node that is no declaration.  The statements    *)
(* between the class and the reference are left out.                       *)
(***************************************************************************)
EXTENDS Incidents

CONSTANTS lib1, lib2, app,      \* names of the files
          nsN, nsK, nsOwn,      \* namespaces nsN, nsN.nsK and nsOwn
          clsC, clsD, clsP,     \* classes
          memY, varV            \* a member, a variable

Nodes == 1..17
Files == {1, 5, 9, 10, 13}   \* a file's handle is that of its first node here
Segments == {nsN, nsK, nsOwn, clsC, clsD, clsP, memY, varV, lib1, lib2, app}

\* Children, in the order of their handles in a file; the file begins at "at".
Library(at) == {<<at, at + 1>>, <<at + 1, at + 2>>, <<at + 2, at + 3>>}
More(at, kind) ==
    IF kind = "namespace" THEN {<<at, at + 4>>, <<at + 4, at + 2>>} ELSE {<<at + 3, at + 4>>}
\* unit, import, namespace, class, variable, its type, its value, the reference
Program(at) == {<<at, at + 1>>, <<at, at + 2>>, <<at + 2, at + 3>>, <<at + 3, at + 4>>,
                <<at + 3, at + 7>>, <<at + 4, at + 5>>, <<at + 4, at + 6>>}
Owner(at) == {<<at + 2, at + 1>>, <<at + 3, at + 2>>}

LibraryKinds(member) == <<"unit", "namespace", "class", member>>
ProgramKinds == <<"unit", "import", "namespace", "class", "var", "ref", "ref", "ref">>

Joined(programFirst, program, libraries) ==
    IF programFirst THEN program \o libraries ELSE libraries \o program

StackGraph(programFirst, ns2, class2, more, import, ns3, var, type, accessor) ==
    LET at1 == IF programFirst THEN 9 ELSE 1
        at2 == at1 + 4
        at3 == IF programFirst THEN 1 ELSE 10
        member == IF class2 = clsC THEN "method" ELSE "field"
        another == IF more # "namespace" THEN <<class2>>
                   ELSE IF ns2 = <<nsN>> THEN <<nsN, nsK>> ELSE <<nsN>>
    IN  [file   |-> [h \in Nodes |-> IF h \in at3..at3 + 7 THEN at3
                                     ELSE IF h \in at1..at1 + 3 THEN at1 ELSE at2],
         kind   |-> Joined(programFirst, ProgramKinds,
                           LibraryKinds("method") \o LibraryKinds(member) \o <<more>>),
         symbol |-> Joined(programFirst,
                           <<<<app>>, import, ns3, <<clsP>>, <<var>>, <<type>>, <<memY>>, <<accessor, memY>>>>,
                           <<<<lib1>>, <<nsN>>, <<clsC>>, <<memY>>,
                             <<lib2>>, ns2, <<class2>>, <<memY>>, another>>),
         child  |-> Library(at1) \cup Library(at2) \cup More(at2, more) \cup Program(at3),
         owner  |-> Owner(at1) \cup Owner(at2) \cup {<<at3 + 3, at3 + 2>>}
                    \cup (IF more = "namespace" THEN {<<at2 + 2, at2 + 4>>} ELSE {}),
         source |-> {at2, at3}]

Namespaces == {<<nsN>>, <<nsN, nsK>>, <<nsOwn>>}
\* The type of the variable matters only to a reference that goes through it.
AllGraphs ==
    {StackGraph(first, ns2, second[1], second[2], import, ns3, var, at[1], at[2]) :
        first \in BOOLEAN, ns2 \in {<<nsN>>, <<nsN, nsK>>},
        second \in {<<clsC, "namespace">>, <<clsC, "plain">>, <<clsD, "namespace">>, <<clsD, "other">>},
        import \in {<<nsN>>, <<nsN, nsK>>}, ns3 \in {<<nsN>>, <<nsOwn>>},
        var \in {varV, clsC},
        at \in {<<clsC, clsC>>, <<clsC, clsD>>, <<clsC, varV>>, <<clsD, varV>>}}

Singles == {<<s>> : s \in Segments}
Fulls   == {ns \o rest : ns \in Namespaces, 
                        rest \in {<<>>} \cup Singles \cup {<<s, memY>> : s \in {clsC, clsD, clsP}}}
Pattern(full, last, spaces) == [full |-> full, own |-> last, spaces |-> spaces]
AllSearches ==
    {Pattern(Fulls, Singles \cup Namespaces, Namespaces),        \* *
     Pattern({f \in Fulls : Len(f) > 1 /\ f[1] = nsN /\ f[2] = nsK},
             Singles \cup Namespaces, {<<nsN>>, <<nsN, nsK>>}),   \* nsN.nsK.*
     Pattern({<<nsN, clsC>>}, {<<clsC>>}, {<<nsN>>}),             \* nsN.clsC
     Pattern({<<nsN, clsC, memY>>}, {<<memY>>}, {<<nsN>>})}       \* nsN.clsC.memY

\* Incidents: two orders of the files' names, of which some begin with "name-1" for
\* another name, and three ways in which the nodes of a file share lines: none, all
\* with the same text, all with nested spans.
MCLetters == << <<20>>, <<20, Hyphen, 1>>, <<20, Hyphen, 1, 20>>, <<20, Hyphen, 3>>, <<21>> >>
MCUris == {[f \in Files |-> Cardinality({g \in Files : g <= f})],
           [f \in Files |-> Cardinality({g \in Files : g >= f})]}
At(line, last, from, to, text) ==
    [line |-> line, last |-> last, from |-> from, to |-> to, text |-> text]
MCPlaces == {[n \in Nodes |-> At(n, n, 0, n, 0)],
             [n \in Nodes |-> At(9 + (n % 2), 9 + (n % 2), 4, 5, n % 3)],
             [n \in Nodes |-> At(2, 19 - n, n, 3, 0)]}
=============================================================================
