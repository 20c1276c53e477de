------------------------- MODULE MCDependencyXml -------------------------
(***************************************************************************)
(* DependencyXml on files of up to four events that name two namespaces    *)
(* with a type of the same simple name, a nested type, a constructor, an   *)
(* indexer with a parameter, an explicit interface, and the names that     *)
(* have too few parts.                                                     *)
(***************************************************************************)
EXTENDS DependencyXml

MCPart == {"A", "B", "C", "D", "f", "#ctor", "I#C", "I", "f(A", "C(A", "C)", "file"}
MCBeforeParen == [p \in {"f(A", "C(A"} |-> IF p = "f(A" THEN "f" ELSE "C"]
MCBeforeHash == [p \in {"#ctor", "I#C"} |-> IF p = "#ctor" THEN "C" ELSE "I"]
MCCtorParts == {"#ctor"}
MCFileName == <<"file">>

Member(kind, name) == [event |-> "member", kind |-> kind, name |-> name]

\* "#ctor" alone in a type's namespace would be cut to the empty text, which no
\* documentation file has: BeforeHash gives it a value only to be total.
MCEvents ==
  { Member("N", <<"A">>), Member("T", <<"A", "C">>), Member("T", <<"B", "C">>),
    Member("T", <<"A", "C", "D">>), Member("T", <<"I#C", "D">>),
    Member("F", <<"A", "C", "f">>), Member("P", <<"A", "C", "f(A", "C)">>),
    Member("M", <<"A", "C", "f(A", "C)">>), Member("M", <<"B", "C", "#ctor">>),
    Member("M", <<"A", "C", "D", "f">>), Member("M", <<"#ctor">>), Member("M", <<"C", "f">>),
    Member("E", <<"A", "C", "f">>),
    [event |-> "nameless"], [event |-> "other"], [event |-> "error"] }
==========================================================================
