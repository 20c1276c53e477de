--------------------------- MODULE SearchPattern ---------------------------
(***************************************************************************)
(* How a query decides whether a dotted name matches the pattern of a      *)
(* condition: Search::create_search of src/c_sharp_graph/query.rs cuts the *)
(* pattern at its dots into parts, and Search::match_namespace walks the   *)
(* parts and the segments of the name together.  Both are loops, modelled  *)
(* with one action per branch; every behaviour is one call of the two.     *)
(*                                                                         *)
(* A segment is a member of Names.  What the pattern has between two dots  *)
(* is a token: "*"; a name, or a wildcard that stands for several ("Log*"); *)
(* a whole alternative "(a|b)"; or, when the dots of a longer alternative  *)
(* cut it up, as in "*.(a|b.c)", the token that opens it and the one that  *)
(* closes it.  A token carries the segments it stands for on its own.      *)
(***************************************************************************)
EXTENDS Naturals, Sequences

CONSTANTS
    Names,      \* segments
    Queries,    \* patterns, cut at their dots
    Symbols     \* the dotted names they are tried on

Kind  == {"star", "name", "group", "open", "close"}
Token == [kind : Kind, names : SUBSET Names]
Part  == [star : BOOLEAN, names : SUBSET Names]

ASSUME PatternTypes == Queries \subseteq Seq(Token) /\ Symbols \subseteq Seq(Names)

VARIABLES
    query, symbol,            \* the arguments
    next,                     \* create_search: token to be read,
    inRegex, building, parts, \*   its loop variables and its result
    partIndex, symbolIndex,   \* match_namespace: its loop variables
    answer

input == <<query, symbol>>
parse == <<next, inRegex, building, parts>>
walk  == <<partIndex, symbolIndex>>
vars  == <<input, parse, walk, answer>>

Answers == {"none", "yes", "no", "error"}

TypeOK ==
    /\ query \in Seq(Token) /\ symbol \in Seq(Names)
    /\ next \in 1..Len(query) + 1
    /\ inRegex \in BOOLEAN /\ building \in SUBSET Names /\ parts \in Seq(Part)
    /\ partIndex \in 1..Len(parts) + 1 /\ symbolIndex \in 1..Len(symbol) + 1
    /\ answer \in Answers

Init ==
    /\ query \in Queries /\ symbol \in Symbols
    /\ next = 1 /\ inRegex = FALSE /\ building = {} /\ parts = <<>>
    /\ partIndex = 1 /\ symbolIndex = 1
    /\ answer = "none"

\* SearchPart::matches
Matches(part, segment) == part.star \/ segment \in part.names

Answer(a) == answer' = a /\ UNCHANGED <<input, parse, walk>>

-----------------------------------------------------------------------------
(* create_search *)

Reading(kinds) ==
    /\ answer = "none" /\ next <= Len(query)
    /\ query[next].kind \in kinds

\* A token with "(" starts to collect an alternative, whatever follows in it.
OpenGroup ==
    /\ Reading({"open", "group"})
    /\ inRegex' = TRUE /\ building' = query[next].names
    /\ next' = next + 1
    /\ UNCHANGED <<input, parts, walk, answer>>

\* Token k is read behind an alternative that already has its ")".
Behind(k) ==
    \E o \in 1..k - 1 : /\ query[o].kind = "group"
                        /\ \A l \in o..k - 1 : query[l].kind \notin {"open", "close"}

\* While one is collected, a token without ")" is only glued to it: it is the
\* middle of a dotted name, which no single segment matches.
GlueToken ==
    /\ Reading({"star", "name"}) /\ inRegex
    /\ next' = next + 1
    /\ UNCHANGED <<input, inRegex, building, parts, walk, answer>>

\* Mutant of CloseGroup: what came before the closing token is forgotten.
CloseGroupAlone ==
    /\ Reading({"close"}) /\ inRegex /\ ~Behind(next)
    /\ parts' = Append(parts, [star |-> FALSE, names |-> query[next].names])
    /\ inRegex' = FALSE /\ next' = next + 1
    /\ UNCHANGED <<input, building, walk, answer>>

CloseGroup ==
    /\ Reading({"close"}) /\ inRegex /\ ~Behind(next)
    /\ parts' = Append(parts, [star |-> FALSE, names |-> building \cup query[next].names])
    /\ inRegex' = FALSE /\ next' = next + 1
    /\ UNCHANGED <<input, building, walk, answer>>

PlainToken ==
    /\ Reading({"star", "name"}) /\ ~inRegex
    /\ LET token == query[next]
       IN  parts' = Append(parts, [star |-> token.kind = "star", names |-> token.names])
    /\ next' = next + 1
    /\ UNCHANGED <<input, inRegex, building, walk, answer>>

\* A ")" that nothing opened does not compile as a regular expression.
StrayClose == Reading({"close"}) /\ (inRegex => Behind(next)) /\ Answer("error")

-----------------------------------------------------------------------------
(* match_namespace *)

Parsed     == next > Len(query)
HasSegment == symbolIndex <= Len(symbol)
HasPart    == partIndex <= Len(parts)
Walking    == Parsed /\ answer = "none"

\* Mutant of StarSkips: the part behind the star is left to be matched again.
StarSkipsOne ==
    /\ Walking /\ HasSegment /\ HasPart
    /\ parts[partIndex].star /\ partIndex < Len(parts)
    /\ symbolIndex' = symbolIndex + 1
    /\ partIndex' = IF Matches(parts[partIndex + 1], symbol[symbolIndex])
                    THEN partIndex + 1 ELSE partIndex
    /\ UNCHANGED <<input, parse, answer>>

\* Mutant of StarSkips: a segment that the next part does not match is kept.
StarStays ==
    /\ Walking /\ HasSegment /\ HasPart
    /\ parts[partIndex].star /\ partIndex < Len(parts)
    /\ IF Matches(parts[partIndex + 1], symbol[symbolIndex])
       THEN partIndex' = partIndex + 2 /\ symbolIndex' = symbolIndex + 1
       ELSE UNCHANGED walk
    /\ UNCHANGED <<input, parse, answer>>

\* A star takes segments up to the first that the next part matches, which is
\* then taken by that part.
StarSkips ==
    /\ Walking /\ HasSegment /\ HasPart
    /\ parts[partIndex].star /\ partIndex < Len(parts)
    /\ symbolIndex' = symbolIndex + 1
    /\ partIndex' = IF Matches(parts[partIndex + 1], symbol[symbolIndex])
                    THEN partIndex + 2 ELSE partIndex
    /\ UNCHANGED <<input, parse, answer>>

\* Mutant of StarEnds: it goes on as if there were a part behind the star.
StarEndsGoesOn ==
    /\ Walking /\ HasSegment /\ HasPart
    /\ parts[partIndex].star /\ partIndex = Len(parts)
    /\ partIndex' = partIndex + 2 /\ symbolIndex' = symbolIndex + 1
    /\ UNCHANGED <<input, parse, answer>>

StarEnds ==
    /\ Walking /\ HasSegment /\ HasPart
    /\ parts[partIndex].star /\ partIndex = Len(parts)
    /\ Answer("yes")

PartTakes ==
    /\ Walking /\ HasSegment /\ HasPart
    /\ ~parts[partIndex].star /\ symbol[symbolIndex] \in parts[partIndex].names
    /\ partIndex' = partIndex + 1 /\ symbolIndex' = symbolIndex + 1
    /\ UNCHANGED <<input, parse, answer>>

PartFails ==
    /\ Walking /\ HasSegment /\ HasPart
    /\ ~parts[partIndex].star /\ symbol[symbolIndex] \notin parts[partIndex].names
    /\ Answer("no")

\* Mutant of SegmentsLeft: a name that goes on behind the pattern matches.
SegmentsLeftMatch == Walking /\ HasSegment /\ ~HasPart /\ Answer("yes")

\* Segments are left: they match when the pattern ends in a star.
SegmentsLeft ==
    /\ Walking /\ HasSegment /\ ~HasPart
    /\ Answer(IF parts # <<>> /\ parts[Len(parts)].star THEN "yes" ELSE "no")

\* Parts are left: nothing but stars may be.
PartsLeft ==
    /\ Walking /\ ~HasSegment /\ HasPart
    /\ Answer(IF \A j \in partIndex..Len(parts) : parts[j].star THEN "yes" ELSE "no")

BothEnd == Walking /\ ~HasSegment /\ ~HasPart /\ Answer("yes")

-----------------------------------------------------------------------------
(* The two cheaper tests made before match_namespace *)

\* Mutant of PartialNamespace: one segment more is compared than there are parts.
PartialNamespaceWhole(namespace) ==
    /\ Len(namespace) <= Len(parts)
    /\ \A j \in 1..Len(namespace) : Matches(parts[j], namespace[j])

\* partial_namespace: the files and namespaces a query looks at.
PartialNamespace(namespace) ==
    \A j \in 1..Len(namespace) : j <= Len(parts) => Matches(parts[j], namespace[j])

\* Mutant of MatchSymbol: the first part is compared.
MatchSymbolFirst(segment) == parts # <<>> /\ Matches(parts[1], segment)

\* match_symbol: the classes, methods and fields it then looks at.
MatchSymbol(segment) == parts # <<>> /\ Matches(parts[Len(parts)], segment)

-----------------------------------------------------------------------------
Next ==
    \/ OpenGroup \/ GlueToken \/ CloseGroup \/ PlainToken \/ StrayClose
    \/ StarSkips \/ StarEnds \/ PartTakes \/ PartFails
    \/ SegmentsLeft \/ PartsLeft \/ BothEnd

\* A loop goes on until it returns.
Spec == Init /\ [][Next]_vars /\ WF_vars(Next)

-----------------------------------------------------------------------------
(* Properties *)

\* The meaning of a pattern: its parts in order take the whole name, a star any
\* number of segments, every other part one that it matches.  cut[j] is the
\* segment where part j begins.
Cuts(ps, name) == [1..Len(ps) + 1 -> 1..Len(name) + 1]
Splits(ps, name, cut) ==
    /\ cut[1] = 1 /\ cut[Len(ps) + 1] = Len(name) + 1
    /\ \A j \in 1..Len(ps) :
          IF ps[j].star THEN cut[j] <= cut[j + 1]
          ELSE /\ cut[j + 1] = cut[j] + 1
               /\ name[cut[j]] \in ps[j].names
Glob(ps, name) == \E cut \in Cuts(ps, name) : Splits(ps, name, cut)

\* query.rs:1047-1112: whatever the walk accepts, the pattern means.
MatchIsGlob == answer = "yes" => Glob(parts, symbol)

\* query.rs:1056-1075: the walk never goes back to an earlier choice, and still
\* finds every name that the pattern means when a star follows each part that
\* stands behind a star, as in "System.*.Manager.*".
Forgiving ==
    \A j \in 1..Len(parts) - 1 :
        parts[j].star => ~parts[j + 1].star /\ j + 2 <= Len(parts) /\ parts[j + 2].star
GlobIsMatched == answer = "no" /\ Forgiving => ~Glob(parts, symbol)

\* class_query.rs:97-112: a definition is tried by its own name before its full
\* name is matched; that never loses one whose full name matches.
SymbolAgrees ==
    answer = "yes" /\ symbol # <<>> => MatchSymbol(symbol[Len(symbol)])

\* query.rs:312-324: nor does the choice of namespaces by partial_namespace, as
\* long as a star only ends the pattern ...
StarEndsPattern == \A j \in 1..Len(parts) - 1 : ~parts[j].star
Prefix(n) == SubSeq(symbol, 1, n)
PrefixAdmitted ==
    answer = "yes" /\ StarEndsPattern =>
        \A n \in 1..Len(symbol) : PartialNamespace(Prefix(n))

\* ... and in general: a definition whose full name matches lies in a namespace
\* that the query looks at.
NamespaceAdmitted ==
    answer = "yes" => \A n \in 1..Len(symbol) - 1 : PartialNamespace(Prefix(n))

\* query.rs:982-1026: each element of the pattern is one part, in order, and the
\* part stands for all that the element does.  An element ends with a token that is
\* not inside an alternative and does not open one, or with the token that closes one.
Inside(k) ==
    \E o \in 1..k - 1 : /\ query[o].kind = "open"
                        /\ \A c \in o..k - 1 : query[c].kind # "close"
Elements == {k \in 1..Len(query) : query[k].kind # "open" /\
                                      (Inside(k) => query[k].kind = "close")}
Opening(k) == {o \in 1..k - 1 : query[o].kind = "open" /\
                                   \A l \in o + 1..k - 1 : query[l].kind # "open"}
Meaning(k) == query[k].names \cup
                 (IF query[k].kind = "close" THEN UNION {query[o].names : o \in Opening(k)}
                                             ELSE {})
PartsAre(elements) ==
    \E order \in [elements -> 1..Len(parts)] :
        /\ \A j \in 1..Len(parts) : \E k \in elements : order[k] = j
        /\ \A k, l \in elements : k < l => order[k] < order[l]
        /\ \A k \in elements : parts[order[k]].names = Meaning(k)

\* query.rs:984-1006: what the code keeps of any pattern.  The parts are those of the
\* elements, but for the alternatives that open and close within one token and the
\* elements that follow them, up to the next alternative that a dot cuts up; nothing
\* else is lost, and no alternative is taken over into a later one.
Kept == {k \in Elements : query[k].kind # "group" /\ ~Behind(k)}
PartPerKept == Parsed /\ answer # "error" => PartsAre(Kept)

\* query.rs:1051: the loop ends.
Decides == <>(answer # "none")
=============================================================================
