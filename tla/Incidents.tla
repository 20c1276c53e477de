----------------------------- MODULE Incidents -----------------------------
(***************************************************************************)
(* What evaluate makes of the results of a query, and the snippet that the *)
(* client then asks for: the order of ResultNode (results.rs), the sort at *)
(* the end of Querier::query, deduplicate_results and the sort of evaluate *)
(* (csharp.rs), and get_code_snip (code_snip.rs).                          *)
(*                                                                         *)
(* A result is the node it reports; its URI is that of the node's file, and *)
(* its place is what the node's source_info says.  Nothing before the       *)
(* answer depends on the two, so they are chosen when they are first read. *)
(***************************************************************************)
EXTENDS Query, Integers, SequencesExt

CONSTANTS
    Letters,        \* the texts of the URIs, in their order
    Uris,           \* the URIs of the files, by their numbers: functions on File
    Places,         \* the positions of the nodes
    ContextLines,   \* --context_lines
    FileLines       \* lines of each file

Place == [line : Nat, last : Nat,    \* first and last line, from 0
          from : Nat, to : Nat,      \* characters in them
          text : Nat]                \* rank of (syntax_type, symbol)

\* A character is a number such that the numbers compare as the characters do; a
\* digit is its value.
Hyphen == -1

\* The first difference of two sequences of numbers decides.
Less(a, b) ==
    \E i \in DOMAIN b : /\ \A j \in 1..(i - 1) : j \in DOMAIN a /\ a[j] = b[j]
                        /\ i \notin DOMAIN a \/ a[i] < b[i]

ASSUME PlaceAssumption ==
    /\ Letters \in Seq(Seq(Int))
    /\ \A t, u \in 1..Len(Letters) : t < u => Less(Letters[t], Letters[u])
    /\ Uris \subseteq [File -> 1..Len(Letters)]
    /\ \A p \in Places : p \in [Node -> Place] /\ \A n \in Node : p[n].line <= p[n].last
    /\ ContextLines \in Nat /\ FileLines \in Nat

VARIABLES
    uri, place,
    step,        \* of the answer
    sorted,      \* the results in their order
    incidents,   \* the answer
    request,     \* the incident whose snippet is asked for, at most one
    snip         \* its lines, by the number printed before them

iVars == <<uri, place, step, sorted, incidents, request, snip>>

IInit ==
    /\ Init
    /\ uri = <<>> /\ place = <<>> /\ step = "query"
    /\ sorted = <<>> /\ incidents = <<>> /\ request = {} /\ snip = {}

-----------------------------------------------------------------------------
\* The members of S in their order: before[n] are those that come before n, and no two
\* are equal.
InOrder(S, before) ==
    [i \in 1..Cardinality(S) |-> CHOOSE n \in S : Cardinality(before[n]) = i - 1]

\* ResultNode::cmp
Order(u, p) == <<u, p.line, p.line, p.from, p.last, p.to, p.text>>

\* results.sort() is stable: equal results stay in the order in which the files,
\* and the nodes in them, were gone through.
Sort ==
    /\ step = "query" /\ answer = "ok"
    /\ step' = "sorted"
    /\ \E u \in Uris, p \in Places :
        LET order(n) == Order(u[graph.file[n]], p[n])
            before(n) == {m \in results : Less(order(m), order(n)) \/ (order(m) = order(n) /\ m < n)}
        IN  /\ uri' = u /\ place' = p
            /\ sorted' = InOrder(results, [n \in results |-> before(n)])
    /\ UNCHANGED <<vars, incidents, request, snip>>

-----------------------------------------------------------------------------
\* The key of the map, and what two results with the same key are compared by.
Key(n) == <<uri[graph.file[n]], place[n].line>>
Tightness(n) == <<place[n].last - place[n].line, place[n].from, place[n].to>>

\* Mutant of Better: the first one stays.
BetterNever(n, current) == FALSE

Better(n, current) == Less(Tightness(n), Tightness(current))

\* best_by_location, as the set of its values, once it has seen n too, and after the loop.
Enter(best, n) ==
    LET same == {m \in best : Key(m) = Key(n)}
    IN  IF same = {} THEN best \cup {n}
        ELSE IF \E m \in same : Better(n, m) THEN (best \ same) \cup {n} ELSE best
Deduplicated ==
    LET best[i \in 0..Len(sorted)] == IF i = 0 THEN {} ELSE Enter(best[i - 1], sorted[i])
    IN  best[Len(sorted)]

\* The number as it is printed.
Digits(line) ==
    LET d[k \in Nat] == IF k < 10 THEN <<k>> ELSE Append(d[k \div 10], k % 10)
    IN  d[line]

\* format!("{}-{:?}", file_uri, line_number)
SortKey(n) == Letters[uri[graph.file[n]]] \o <<Hyphen>> \o Digits(place[n].line)

Respond ==
    /\ step = "sorted"
    /\ step' = "answered"
    /\ LET best == Deduplicated
           before(n) == {m \in best : Less(SortKey(m), SortKey(n))}
       IN  incidents' = InOrder(best, [n \in best |-> before(n)])
    /\ UNCHANGED <<vars, uri, place, sorted, request, snip>>

-----------------------------------------------------------------------------
\* Mutant of Skipped: a line too many.
SkippedOneMore(line) == IF line >= ContextLines THEN line - ContextLines + 1 ELSE 0

Skipped(line) == IF line >= ContextLines THEN line - ContextLines ELSE 0

\* get_code_snip, for the location of an incident
GetCodeSnip ==
    /\ step = "answered" /\ request = {}
    /\ \E i \in DOMAIN incidents :
        LET p == place[incidents[i]]
            skip == Skipped(p.line)
            take == (p.last - p.line) + ContextLines
        IN  /\ request' = {incidents[i]}
            /\ snip' = {l \in 0..(FileLines - 1) : skip <= l /\ l < skip + take}
    /\ UNCHANGED <<vars, uri, place, step, sorted, incidents>>

INext == (Next /\ UNCHANGED iVars) \/ Sort \/ Respond \/ GetCodeSnip

ISpec == IInit /\ [][INext]_<<vars, iVars>>

-----------------------------------------------------------------------------
(* Properties *)

\* What a client sees of a result.
Shown(n) == <<Key(n), Tightness(n), place[n].text>>

\* csharp.rs:656-705: the answer depends only on the results and not on the order in
\* which the files were loaded: one incident for each line that has one, with the
\* tightest place, and of these the first text; and they stand in the order of the
\* texts "uri-line", whichever way these mix the lines of files and of one file.
AnswerIsCanonical ==
    step = "answered" =>
        LET tightest(n) == \A m \in results : Key(m) = Key(n) =>
                Less(Tightness(n), Tightness(m))
                    \/ (Tightness(n) = Tightness(m) /\ place[n].text <= place[m].text)
            shown == {Shown(n) : n \in {n \in results : tightest(n)}}
            list == [i \in DOMAIN incidents |-> Shown(incidents[i])]
            key(s) == Letters[s[1][1]] \o <<Hyphen>> \o Digits(s[1][2])
        IN  /\ Range(list) = shown
            /\ \A i, j \in DOMAIN list : i < j => Less(key(list[i]), key(list[j]))

\* code_snip.rs:79-83: the snippet ends with the line before the last one of its
\* incident, so it shows the incident's first line when the incident has a second
\* one, or lies in the first lines of the file; of the lines before, it shows as many
\* as asked for; and its lines have no gap.
SnippetShowsStart ==
    \A n \in request :
        LET p == place[n]
        IN  /\ p.last < FileLines /\ (p.line < p.last \/ p.line < ContextLines) => p.line \in snip
            /\ \A l \in 0..(p.line - 1) : l >= p.line - ContextLines /\ l < FileLines => l \in snip
            /\ \A l \in snip : l < p.last \/ l < ContextLines + (p.last - p.line)
=============================================================================
