------------------------ MODULE SearchPatternProofs ------------------------
(***************************************************************************)
(* Theorems about SearchPattern.tla, for any set of names, patterns and    *)
(* dotted names.  The strengthening is Reached: the parts that the walk    *)
(* has left behind split the segments that it has consumed.                *)
(***************************************************************************)
EXTENDS SearchPattern, NumberProofs

\* The first p - 1 parts split the first s - 1 segments; when part p is a star it
\* may already have taken some of them.
Reach(ps, name, p, s) ==
    \E cut \in [1..p -> 1..s] :
        /\ cut[1] = 1
        /\ \A j \in 1..p - 1 :
              IF ps[j].star THEN cut[j] <= cut[j + 1]
              ELSE cut[j + 1] = cut[j] + 1 /\ name[cut[j]] \in ps[j].names
        /\ cut[p] = s \/ (p <= Len(ps) /\ ps[p].star)

-----------------------------------------------------------------------------
(* Lemmas about splits *)

\* Nothing is consumed at the start.
LEMMA ReachStart ==
    ASSUME NEW ps \in Seq(Part), NEW name \in Seq(Names)
    PROVE  Reach(ps, name, 1, 1)
<1> DEFINE cut == [j \in 1..1 |-> 1]
<1>1. cut \in [1..1 -> 1..1] /\ cut[1] = 1
  OBVIOUS
<1>2. \A j \in 1..1 - 1 : FALSE
  OBVIOUS
<1> HIDE DEF cut
<1>3. QED
  BY <1>1, <1>2 DEF Reach

\* A part that is not a star takes the segment that it matches.
LEMMA ReachPart ==
    ASSUME NEW ps \in Seq(Part), NEW name \in Seq(Names),
           NEW p \in 1..Len(ps), NEW s \in 1..Len(name),
           Reach(ps, name, p, s), ~ps[p].star, name[s] \in ps[p].names
    PROVE  Reach(ps, name, p + 1, s + 1)
<1>1. PICK cut \in [1..p -> 1..s] :
        /\ cut[1] = 1 /\ cut[p] = s
        /\ \A j \in 1..p - 1 :
              IF ps[j].star THEN cut[j] <= cut[j + 1]
              ELSE cut[j + 1] = cut[j] + 1 /\ name[cut[j]] \in ps[j].names
  BY DEF Reach
<1> DEFINE new == [j \in 1..p + 1 |-> IF j <= p THEN cut[j] ELSE s + 1]
<1>2. new \in [1..p + 1 -> 1..s + 1]
  BY <1>1
<1>3. new[1] = 1 /\ new[p + 1] = s + 1
  BY <1>1
<1>4. ASSUME NEW j \in 1..(p + 1) - 1
      PROVE  IF ps[j].star THEN new[j] <= new[j + 1]
             ELSE new[j + 1] = new[j] + 1 /\ name[new[j]] \in ps[j].names
  <2>1. CASE j = p
    BY <1>1, <2>1
  <2>2. CASE j < p
    BY <1>1, <2>2
  <2>3. QED
    BY <2>1, <2>2
<1>5. QED
  BY <1>2, <1>3, <1>4 DEF Reach

\* A star takes one more segment.
LEMMA ReachStar ==
    ASSUME NEW ps \in Seq(Part), NEW name \in Seq(Names),
           NEW p \in 1..Len(ps), NEW s \in 1..Len(name),
           Reach(ps, name, p, s), ps[p].star
    PROVE  Reach(ps, name, p, s + 1)
<1>1. PICK cut \in [1..p -> 1..s] :
        /\ cut[1] = 1
        /\ \A j \in 1..p - 1 :
              IF ps[j].star THEN cut[j] <= cut[j + 1]
              ELSE cut[j + 1] = cut[j] + 1 /\ name[cut[j]] \in ps[j].names
  BY DEF Reach
<1>2. cut \in [1..p -> 1..s + 1]
  BY <1>1
<1>3. p <= Len(ps) /\ ps[p].star
  OBVIOUS
<1> HIDE DEF Part
<1>4. QED
  BY <1>1, <1>2, <1>3 DEF Reach

\* A star ends before the segment that the part behind it takes.
LEMMA ReachBehindStar ==
    ASSUME NEW ps \in Seq(Part), NEW name \in Seq(Names),
           NEW p \in 1..Len(ps) - 1, NEW s \in 1..Len(name),
           Reach(ps, name, p, s), ps[p].star, Matches(ps[p + 1], name[s])
    PROVE  Reach(ps, name, p + 2, s + 1)
<1>1. PICK cut \in [1..p -> 1..s] :
        /\ cut[1] = 1
        /\ \A j \in 1..p - 1 :
              IF ps[j].star THEN cut[j] <= cut[j + 1]
              ELSE cut[j + 1] = cut[j] + 1 /\ name[cut[j]] \in ps[j].names
  BY DEF Reach
<1> DEFINE new == [j \in 1..p + 2 |-> IF j <= p THEN cut[j]
                                      ELSE IF j = p + 1 THEN s ELSE s + 1]
<1>2. new \in [1..p + 2 -> 1..s + 1]
  BY <1>1
<1>3. new[1] = 1 /\ new[p + 2] = s + 1
  BY <1>1
<1>4. ASSUME NEW j \in 1..(p + 2) - 1
      PROVE  IF ps[j].star THEN new[j] <= new[j + 1]
             ELSE new[j + 1] = new[j] + 1 /\ name[new[j]] \in ps[j].names
  <2>1. CASE j = p + 1
    BY <1>1, <2>1 DEF Matches
  <2>2. CASE j = p
    BY <1>1, <2>2
  <2>3. CASE j < p
    BY <1>1, <2>3
  <2>4. QED
    BY <2>1, <2>2, <2>3
<1>5. QED
  BY <1>2, <1>3, <1>4 DEF Reach

\* When no segment is left and only stars are, the pattern means the name.
LEMMA GlobAtEnd ==
    ASSUME NEW ps \in Seq(Part), NEW name \in Seq(Names),
           NEW p \in 1..Len(ps) + 1, Reach(ps, name, p, Len(name) + 1),
           \A j \in p..Len(ps) : ps[j].star
    PROVE  Glob(ps, name)
<1> DEFINE n == Len(name) + 1
<1>1. PICK cut \in [1..p -> 1..n] :
        /\ cut[1] = 1
        /\ \A j \in 1..p - 1 :
              IF ps[j].star THEN cut[j] <= cut[j + 1]
              ELSE cut[j + 1] = cut[j] + 1 /\ name[cut[j]] \in ps[j].names
        /\ cut[p] = n \/ (p <= Len(ps) /\ ps[p].star)
  BY DEF Reach
<1> DEFINE new == [j \in 1..Len(ps) + 1 |-> IF j <= p THEN cut[j] ELSE n]
<1>2. new \in Cuts(ps, name)
  BY <1>1 DEF Cuts
<1>3. new[1] = 1 /\ new[Len(ps) + 1] = Len(name) + 1
  BY <1>1
<1>4. ASSUME NEW j \in 1..Len(ps)
      PROVE  IF ps[j].star THEN new[j] <= new[j + 1]
             ELSE /\ new[j + 1] = new[j] + 1
                  /\ name[new[j]] \in ps[j].names
  <2>1. CASE j < p
    <3>1. j \in 1..p - 1 /\ new[j] = cut[j] /\ new[j + 1] = cut[j + 1]
      BY <2>1
    <3>2. QED
      BY <1>1, <3>1
  <2>2. CASE j >= p
    <3>1. ps[j].star /\ new[j + 1] = n
      BY <2>2
    <3>2. new[j] <= n
      BY <1>2 DEF Cuts
    <3>3. QED
      BY <3>1, <3>2
  <2>3. QED
    BY <2>1, <2>2
<1>5. Splits(ps, name, new)
  BY <1>3, <1>4 DEF Splits
<1>6. QED
  BY <1>2, <1>5 DEF Glob

\* A star at the end of the pattern takes all the segments that are left.
LEMMA GlobAtStar ==
    ASSUME NEW ps \in Seq(Part), NEW name \in Seq(Names), ps # <<>>,
           ps[Len(ps)].star, NEW p \in {Len(ps), Len(ps) + 1},
           NEW s \in 1..Len(name) + 1, Reach(ps, name, p, s)
    PROVE  Glob(ps, name)
<1> DEFINE n == Len(name) + 1
           m == Len(ps)
<1>0. m \in Nat \ {0} /\ m >= 1
  OBVIOUS
<1>1. PICK cut \in [1..p -> 1..s] :
        /\ cut[1] = 1
        /\ \A j \in 1..p - 1 :
              IF ps[j].star THEN cut[j] <= cut[j + 1]
              ELSE cut[j + 1] = cut[j] + 1 /\ name[cut[j]] \in ps[j].names
  BY DEF Reach
<1> DEFINE new == [j \in 1..m + 1 |-> IF j <= m THEN cut[j] ELSE n]
<1>2. new \in Cuts(ps, name)
  BY <1>0, <1>1 DEF Cuts
<1>3. new[1] = 1 /\ new[m + 1] = n
  BY <1>0, <1>1
<1>4. ASSUME NEW j \in 1..m
      PROVE  IF ps[j].star THEN new[j] <= new[j + 1]
             ELSE /\ new[j + 1] = new[j] + 1
                  /\ name[new[j]] \in ps[j].names
  <2>1. CASE j < m
    BY <1>0, <1>1, <2>1
  <2>2. CASE j = m
    <3>1. new[j] <= n /\ new[j + 1] = n
      BY <1>0, <1>2, <2>2 DEF Cuts
    <3>2. QED
      BY <2>2, <3>1
  <2>3. QED
    BY <2>1, <2>2
<1>5. Splits(ps, name, new)
  BY <1>3, <1>4 DEF Splits
<1>6. QED
  BY <1>2, <1>5 DEF Glob

-----------------------------------------------------------------------------
(* Type correctness *)

\* The loops start inside their ranges.
LEMMA TypeCorrectInit == Init => TypeOK
<1> SUFFICES ASSUME Init PROVE TypeOK
  OBVIOUS
<1>1. query \in Seq(Token) /\ symbol \in Seq(Names)
  BY PatternTypes DEF Init
<1>2. 1 \in 1..Len(query) + 1 /\ 1 \in 1..Len(symbol) + 1
  BY <1>1
<1>3. parts \in Seq(Part) /\ 1 \in 1..Len(parts) + 1
  BY DEF Init
<1>4. QED
  BY <1>1, <1>2, <1>3 DEF Init, TypeOK, Answers

\* The loop variables stay within the pattern and the name.
THEOREM TypeCorrect == Spec => []TypeOK
<1>1. Init => TypeOK
  BY TypeCorrectInit
<1>2. TypeOK /\ [Next]_vars => TypeOK'
  <2> SUFFICES ASSUME TypeOK, [Next]_vars PROVE TypeOK'
    OBVIOUS
  <2> USE DEF TypeOK, Answers
  <2>1. CASE OpenGroup
    <3>1. next \in 1..Len(query) /\ query[next] \in Token
      BY <2>1 DEF OpenGroup, Reading
    <3>2. building' \in SUBSET Names /\ next' \in 1..Len(query) + 1
      BY <2>1, <3>1 DEF OpenGroup, Token
    <3>3. QED
      BY <2>1, <3>2 DEF OpenGroup, input, walk
  <2>2. CASE GlueToken
    BY <2>2 DEF GlueToken, Reading, input, walk
  <2>3. CASE CloseGroup
    <3>1. next \in 1..Len(query) /\ query[next] \in Token
      BY <2>3 DEF CloseGroup, Reading
    <3>2. [star |-> FALSE, names |-> building \cup query[next].names] \in Part
      BY <3>1 DEF Token, Part
    <3>3. parts' \in Seq(Part) /\ Len(parts') = Len(parts) + 1
      BY <2>3, <3>2 DEF CloseGroup
    <3>4. partIndex' \in 1..Len(parts') + 1
      BY <2>3, <3>3 DEF CloseGroup, walk
    <3>5. next' \in 1..Len(query) + 1
      BY <2>3, <3>1 DEF CloseGroup
    <3>6. QED
      BY <2>3, <3>3, <3>4, <3>5 DEF CloseGroup, input, walk
  <2>4. CASE PlainToken
    <3>1. next \in 1..Len(query) /\ query[next] \in Token
      BY <2>4 DEF PlainToken, Reading
    <3>2. [star |-> query[next].kind = "star", names |-> query[next].names] \in Part
      BY <3>1 DEF Token, Part
    <3>3. parts' \in Seq(Part) /\ Len(parts') = Len(parts) + 1
      BY <2>4, <3>2 DEF PlainToken
    <3>4. partIndex' \in 1..Len(parts') + 1
      BY <2>4, <3>3 DEF PlainToken, walk
    <3>5. QED
      BY <2>4, <3>1, <3>3, <3>4 DEF PlainToken, input, walk
  <2>5. CASE StrayClose
    BY <2>5 DEF StrayClose, Answer, input, parse, walk
  <2>6. CASE StarSkips
    BY <2>6 DEF StarSkips, HasSegment, input, parse
  <2>7. CASE PartTakes
    BY <2>7 DEF PartTakes, HasSegment, HasPart, input, parse
  <2>8. CASE StarEnds \/ PartFails \/ SegmentsLeft \/ PartsLeft \/ BothEnd
    BY <2>8 DEF StarEnds, PartFails, SegmentsLeft, PartsLeft, BothEnd, Answer,
                input, parse, walk
  <2>9. CASE UNCHANGED vars
    BY <2>9 DEF vars, input, parse, walk
  <2>10. QED
    BY <2>1, <2>2, <2>3, <2>4, <2>5, <2>6, <2>7, <2>8, <2>9 DEF Next
<1>3. QED
  BY <1>1, <1>2, PTL DEF Spec

-----------------------------------------------------------------------------
(* Soundness of the walk *)

Reached == answer = "none" => Reach(parts, symbol, partIndex, symbolIndex)
AtStart == ~Parsed => partIndex = 1 /\ symbolIndex = 1
WalkInv == TypeOK /\ AtStart /\ Reached /\ MatchIsGlob

\* While a token of the pattern is being read, the walk has not begun.
LEMMA NotYetParsed == ASSUME TypeOK, next <= Len(query)  PROVE ~Parsed
BY DEF TypeOK, Parsed

\* Reading the pattern leaves the walk at its start.
LEMMA ParseKeepsWalkInv ==
    ASSUME WalkInv, TypeOK',
           OpenGroup \/ GlueToken \/ CloseGroup \/ PlainToken
    PROVE  WalkInv'
<1>0. ~Parsed
  BY NotYetParsed DEF WalkInv, OpenGroup, GlueToken, CloseGroup, PlainToken, Reading
<1>1. partIndex = 1 /\ symbolIndex = 1
  BY <1>0 DEF WalkInv, AtStart
<1>2. partIndex' = 1 /\ symbolIndex' = 1 /\ answer' = "none"
  BY <1>1 DEF OpenGroup, GlueToken, CloseGroup, PlainToken, Reading, walk
<1>3. parts' \in Seq(Part) /\ symbol' \in Seq(Names)
  BY DEF TypeOK
<1>4. Reach(parts', symbol', 1, 1)
  BY <1>3, ReachStart
<1>5. QED
  BY <1>2, <1>4 DEF WalkInv, AtStart, Reached, MatchIsGlob

\* A step of the walk that does not answer extends the split.
LEMMA WalkKeepsReached ==
    ASSUME TypeOK, Reached, StarSkips \/ PartTakes
    PROVE  Reached'
<1>1. /\ partIndex \in 1..Len(parts) /\ symbolIndex \in 1..Len(symbol)
      /\ parts \in Seq(Part) /\ symbol \in Seq(Names)
      /\ UNCHANGED <<parts, symbol, answer>>
      /\ Reach(parts, symbol, partIndex, symbolIndex)
  BY DEF TypeOK, Reached, StarSkips, PartTakes, Walking, HasPart, HasSegment, input, parse
<1>2. CASE PartTakes
  <2>1. Reach(parts, symbol, partIndex + 1, symbolIndex + 1)
    BY <1>1, <1>2, ReachPart DEF PartTakes
  <2>2. QED
    BY <1>1, <1>2, <2>1 DEF PartTakes, Reached
<1>3. CASE StarSkips /\ Matches(parts[partIndex + 1], symbol[symbolIndex])
  <2>1. partIndex \in 1..Len(parts) - 1 /\ parts[partIndex].star
    BY <1>1, <1>3 DEF StarSkips
  <2>2. Reach(parts, symbol, partIndex + 2, symbolIndex + 1)
    BY <1>1, <1>3, <2>1, ReachBehindStar
  <2>3. QED
    BY <1>1, <1>3, <2>2 DEF StarSkips, Reached
<1>4. CASE StarSkips /\ ~Matches(parts[partIndex + 1], symbol[symbolIndex])
  <2>1. Reach(parts, symbol, partIndex, symbolIndex + 1)
    BY <1>1, <1>4, ReachStar DEF StarSkips
  <2>2. QED
    BY <1>1, <1>4, <2>1 DEF StarSkips, Reached
<1>5. QED
  BY <1>2, <1>3, <1>4

\* Each way to answer "yes" completes the split.
LEMMA YesIsGlob ==
    ASSUME TypeOK, Reached, answer' = "yes",
           StarEnds \/ SegmentsLeft \/ PartsLeft \/ BothEnd
    PROVE  Glob(parts, symbol)
<1>1. /\ parts \in Seq(Part) /\ symbol \in Seq(Names)
      /\ partIndex \in 1..Len(parts) + 1 /\ symbolIndex \in 1..Len(symbol) + 1
      /\ Reach(parts, symbol, partIndex, symbolIndex)
  BY DEF TypeOK, Reached, StarEnds, SegmentsLeft, PartsLeft, BothEnd, Walking
<1>2. CASE StarEnds
  <2>1. parts # <<>> /\ parts[Len(parts)].star /\ partIndex = Len(parts)
    BY <1>1, <1>2 DEF StarEnds
  <2>2. QED
    BY <1>1, <2>1, GlobAtStar
<1>3. CASE SegmentsLeft
  <2>1. parts # <<>> /\ parts[Len(parts)].star /\ partIndex = Len(parts) + 1
    BY <1>1, <1>3 DEF SegmentsLeft, HasPart, Answer
  <2>2. QED
    BY <1>1, <2>1, GlobAtStar
<1>4. CASE PartsLeft \/ BothEnd
  <2>1. symbolIndex = Len(symbol) + 1
    BY <1>1, <1>4 DEF PartsLeft, BothEnd, HasSegment
  <2>2. \A j \in partIndex..Len(parts) : parts[j].star
    BY <1>1, <1>4 DEF PartsLeft, BothEnd, HasPart, Answer
  <2>3. QED
    BY <1>1, <2>1, <2>2, GlobAtEnd
<1>5. QED
  BY <1>2, <1>3, <1>4

LEMMA WalkInvHolds == Spec => []WalkInv
<1>1. Init => WalkInv
  <2> SUFFICES ASSUME Init PROVE WalkInv
    OBVIOUS
  <2>1. TypeOK
    BY TypeCorrectInit
  <2>2. Reach(parts, symbol, 1, 1)
    BY <2>1, ReachStart DEF TypeOK
  <2>3. QED
    BY <2>1, <2>2 DEF Init, WalkInv, AtStart, Reached, MatchIsGlob
<1>2. WalkInv /\ TypeOK' /\ [Next]_vars => WalkInv'
  <2> SUFFICES ASSUME WalkInv, TypeOK', [Next]_vars PROVE WalkInv'
    OBVIOUS
  <2>1. CASE OpenGroup \/ GlueToken \/ CloseGroup \/ PlainToken
    BY <2>1, ParseKeepsWalkInv
  <2>2. CASE StrayClose
    BY <2>2 DEF WalkInv, AtStart, Reached, MatchIsGlob, StrayClose, Answer, Parsed,
                Reading, input, parse, walk
  <2>3. CASE StarSkips \/ PartTakes
    <3>1. Reached'
      BY <2>3, WalkKeepsReached DEF WalkInv
    <3>2. Parsed' /\ answer' = "none"
      BY <2>3 DEF StarSkips, PartTakes, Walking, Parsed, input, parse
    <3>3. QED
      BY <3>1, <3>2 DEF WalkInv, AtStart, MatchIsGlob
  <2>4. CASE StarEnds \/ PartFails \/ SegmentsLeft \/ PartsLeft \/ BothEnd
    <3>1. Parsed' /\ answer' # "none" /\ UNCHANGED <<parts, symbol>>
      BY <2>4 DEF StarEnds, PartFails, SegmentsLeft, PartsLeft, BothEnd, Answer, Walking,
                  Parsed, input, parse
    <3>2. answer' = "yes" => Glob(parts, symbol)
      BY <2>4, YesIsGlob DEF WalkInv, PartFails, Answer
    <3>3. QED
      BY <3>1, <3>2 DEF WalkInv, AtStart, Reached, MatchIsGlob
  <2>5. CASE UNCHANGED vars
    BY <2>5 DEF WalkInv, AtStart, Reached, MatchIsGlob, Parsed, vars, input, parse, walk
  <2>6. QED
    BY <2>1, <2>2, <2>3, <2>4, <2>5 DEF Next
<1>3. QED
  BY <1>1, <1>2, TypeCorrect, PTL DEF Spec

\* Whatever match_namespace accepts, the pattern means.
THEOREM MatchSound == Spec => []MatchIsGlob
<1>1. WalkInv => MatchIsGlob
  BY DEF WalkInv
<1>2. QED
  BY <1>1, WalkInvHolds, PTL

\* The last part of a pattern matches the last segment of a name that it means:
\* trying a definition by its own name first (match_symbol) loses nothing.
THEOREM OwnNameFirst == Spec => []SymbolAgrees
<1>1. WalkInv => SymbolAgrees
  <2> SUFFICES ASSUME WalkInv, answer = "yes", symbol # <<>>
               PROVE  MatchSymbol(symbol[Len(symbol)])
    BY DEF SymbolAgrees
  <2> DEFINE m == Len(parts)
             n == Len(symbol)
  <2>1. parts \in Seq(Part) /\ symbol \in Seq(Names) /\ n \in Nat /\ n >= 1
    BY DEF WalkInv, TypeOK
  <2>2. PICK cut \in Cuts(parts, symbol) : Splits(parts, symbol, cut)
    BY DEF WalkInv, MatchIsGlob, Glob
  <2>3. m \in Nat /\ m >= 1
    <3>1. cut[1] = 1 /\ cut[m + 1] = n + 1 /\ m \in Nat
      BY <2>1, <2>2 DEF Splits
    <3>2. m # 0
      BY <2>1, <3>1
    <3>3. QED
      BY <3>1, <3>2
  <2>4. IF parts[m].star THEN TRUE
        ELSE cut[m + 1] = cut[m] + 1 /\ symbol[cut[m]] \in parts[m].names
    BY <2>2, <2>3 DEF Splits
  <2>5. cut[m + 1] = n + 1 /\ cut[m] \in 1..n + 1
    BY <2>2, <2>3 DEF Splits, Cuts
  <2>6. Matches(parts[m], symbol[n])
    BY <2>1, <2>4, <2>5 DEF Matches
  <2>7. QED
    BY <2>1, <2>3, <2>6 DEF MatchSymbol
<1>2. QED
  BY <1>1, WalkInvHolds, PTL

-----------------------------------------------------------------------------
(* Patterns with a star at the end only *)

\* Without an earlier star the walk takes part j with segment j.
Straight ==
    answer = "none" /\ StarEndsPattern =>
        /\ partIndex = symbolIndex
        /\ \A j \in 1..partIndex - 1 : Matches(parts[j], symbol[j])
StraightInv == TypeOK /\ AtStart /\ Straight /\ PrefixAdmitted

\* What has matched segment by segment passes partial_namespace.
LEMMA MatchedIsAdmitted ==
    ASSUME TypeOK,
           \A j \in 1..Len(symbol) : j <= Len(parts) => Matches(parts[j], symbol[j])
    PROVE  \A n \in 1..Len(symbol) : PartialNamespace(Prefix(n))
<1> SUFFICES ASSUME NEW n \in 1..Len(symbol), NEW j \in 1..Len(Prefix(n)), j <= Len(parts)
             PROVE  Matches(parts[j], Prefix(n)[j])
  BY DEF PartialNamespace
<1>1. symbol \in Seq(Names) /\ Len(Prefix(n)) = n
  BY DEF TypeOK, Prefix
<1>2. j \in 1..Len(symbol) /\ Prefix(n)[j] = symbol[j]
  BY <1>1 DEF Prefix
<1>3. QED
  BY <1>2

\* A step of the walk that does not answer takes one segment with one part.
LEMMA WalkKeepsStraight ==
    ASSUME TypeOK, Straight, StarSkips \/ PartTakes
    PROVE  Straight'
<1> SUFFICES ASSUME StarEndsPattern
             PROVE  /\ partIndex' = symbolIndex'
                    /\ \A j \in 1..partIndex' - 1 : Matches(parts[j], symbol[j])
  BY DEF Straight, StarEndsPattern, Matches, StarSkips, PartTakes, input, parse
<1>1. PartTakes /\ answer = "none"
  BY DEF StarSkips, PartTakes, Walking, HasPart, StarEndsPattern, TypeOK
<1>2. partIndex = symbolIndex /\ partIndex \in Nat
  BY <1>1 DEF Straight, TypeOK
<1>3. \A j \in 1..partIndex - 1 : Matches(parts[j], symbol[j])
  BY <1>1 DEF Straight
<1>4. Matches(parts[partIndex], symbol[partIndex])
  BY <1>1, <1>2 DEF PartTakes, Matches
<1>5. partIndex' = partIndex + 1 /\ symbolIndex' = symbolIndex + 1
  BY <1>1 DEF PartTakes
<1>6. QED
  BY <1>2, <1>3, <1>4, <1>5

\* When the answer is "yes", every segment that has a part matches it.
LEMMA YesIsAdmitted ==
    ASSUME TypeOK, Straight, answer' = "yes",
           StarEnds \/ SegmentsLeft \/ PartsLeft \/ BothEnd
    PROVE  PrefixAdmitted'
<1> SUFFICES ASSUME StarEndsPattern
             PROVE  \A n \in 1..Len(symbol) : PartialNamespace(Prefix(n))
  BY DEF PrefixAdmitted, StarEndsPattern, PartialNamespace, Prefix, Matches, StarEnds,
         SegmentsLeft, PartsLeft, BothEnd, Answer, input, parse, walk
<1>1. /\ partIndex = symbolIndex /\ partIndex \in 1..Len(parts) + 1
      /\ symbolIndex \in 1..Len(symbol) + 1
      /\ parts \in Seq(Part) /\ symbol \in Seq(Names)
      /\ \A j \in 1..partIndex - 1 : Matches(parts[j], symbol[j])
  BY DEF TypeOK, Straight, StarEnds, SegmentsLeft, PartsLeft, BothEnd, Walking
<1>2. ASSUME NEW j \in 1..Len(symbol), j <= Len(parts)
      PROVE  Matches(parts[j], symbol[j])
  <2>1. CASE StarEnds
    BY <1>1, <1>2, <2>1 DEF StarEnds, Matches
  <2>2. CASE SegmentsLeft
    BY <1>1, <1>2, <2>2 DEF SegmentsLeft, HasPart
  <2>3. CASE PartsLeft \/ BothEnd
    BY <1>1, <1>2, <2>3 DEF PartsLeft, BothEnd, HasSegment
  <2>4. QED
    BY <2>1, <2>2, <2>3
<1>3. QED
  BY <1>2, MatchedIsAdmitted

\* A pattern whose only star is its last part never loses a definition to the
\* choice of namespaces made before match_namespace.
THEOREM PrefixPatternsLoseNothing == Spec => []PrefixAdmitted
<1>1. Init => StraightInv
  BY TypeCorrectInit DEF Init, StraightInv, AtStart, Straight, PrefixAdmitted
<1>2. StraightInv /\ TypeOK' /\ [Next]_vars => StraightInv'
  <2> SUFFICES ASSUME StraightInv, TypeOK', [Next]_vars PROVE StraightInv'
    OBVIOUS
  <2>1. CASE OpenGroup \/ GlueToken \/ CloseGroup \/ PlainToken
    <3>0. ~Parsed
      BY <2>1, NotYetParsed DEF StraightInv, OpenGroup, GlueToken, CloseGroup, PlainToken,
                                Reading
    <3>1. partIndex = 1 /\ symbolIndex = 1
      BY <3>0 DEF StraightInv, AtStart
    <3>2. partIndex' = 1 /\ symbolIndex' = 1 /\ answer' = "none"
      BY <2>1, <3>1 DEF OpenGroup, GlueToken, CloseGroup, PlainToken, Reading, walk
    <3>3. QED
      BY <3>2 DEF StraightInv, AtStart, Straight, PrefixAdmitted
  <2>2. CASE StrayClose \/ PartFails
    BY <2>2 DEF StraightInv, AtStart, Straight, PrefixAdmitted, StrayClose, PartFails,
                Answer, Parsed, Reading, Walking, input, parse, walk
  <2>3. CASE StarSkips \/ PartTakes
    <3>1. Straight'
      BY <2>3, WalkKeepsStraight DEF StraightInv
    <3>2. Parsed' /\ answer' = "none"
      BY <2>3 DEF StarSkips, PartTakes, Walking, Parsed, input, parse
    <3>3. QED
      BY <3>1, <3>2 DEF StraightInv, AtStart, PrefixAdmitted
  <2>4. CASE StarEnds \/ SegmentsLeft \/ PartsLeft \/ BothEnd
    <3>1. Parsed' /\ answer' # "none"
      BY <2>4 DEF StarEnds, SegmentsLeft, PartsLeft, BothEnd, Answer, Walking, Parsed,
                  input, parse
    <3>2. answer' = "yes" => PrefixAdmitted'
      BY <2>4, YesIsAdmitted DEF StraightInv
    <3>3. QED
      BY <3>1, <3>2 DEF StraightInv, AtStart, Straight, PrefixAdmitted
  <2>5. CASE UNCHANGED vars
    BY <2>5 DEF StraightInv, AtStart, Straight, PrefixAdmitted, StarEndsPattern,
                PartialNamespace, Prefix, Matches, Parsed, vars, input, parse, walk
  <2>6. QED
    BY <2>1, <2>2, <2>3, <2>4, <2>5 DEF Next
<1>3. StraightInv => PrefixAdmitted
  BY DEF StraightInv
<1>4. QED
  BY <1>1, <1>2, <1>3, TypeCorrect, PTL DEF Spec

-----------------------------------------------------------------------------
(* Completeness of the walk *)

\* The parts from p on split the segments from s on.
Splitting(ps, name, p, s, cut) ==
    /\ cut \in [p..Len(ps) + 1 -> 1..Len(name) + 1]
    /\ cut[p] = s /\ cut[Len(ps) + 1] = Len(name) + 1
    /\ \A j \in p..Len(ps) :
          IF ps[j].star THEN cut[j] <= cut[j + 1]
          ELSE cut[j + 1] = cut[j] + 1 /\ name[cut[j]] \in ps[j].names
Ahead(ps, name, p, s) == \E cut : Splitting(ps, name, p, s, cut)

\* Later parts begin at later segments.
LEMMA CutsClimb ==
    ASSUME NEW ps \in Seq(Part), NEW name \in Seq(Names),
           NEW p \in 1..Len(ps) + 1, NEW s \in 1..Len(name) + 1,
           NEW cut, Splitting(ps, name, p, s, cut), NEW q \in p..Len(ps) + 1
    PROVE  s <= cut[q]
<1> DEFINE low == {j \in p..Len(ps) + 1 : cut[j] < s}
<1>1. SUFFICES ASSUME low # {} PROVE FALSE
  <2>1. cut[q] \in Nat /\ s \in Nat
    BY DEF Splitting
  <2>2. q \notin low
    BY <1>1
  <2>3. QED
    BY <2>1, <2>2
<1>2. low \in SUBSET Nat
  OBVIOUS
<1>3. PICK k \in low : \A j \in low : k <= j
  BY <1>1, <1>2, LeastOf
<1>4. k \in p..Len(ps) + 1 /\ cut[k] < s /\ k # p
  BY <1>3 DEF Splitting
<1>5. k - 1 \in p..Len(ps) /\ k - 1 \notin low /\ (k - 1) + 1 = k
  BY <1>3, <1>4
<1>6. cut[k - 1] \in Nat /\ cut[k] \in Nat /\ ~(cut[k - 1] < s)
  <2>1. k - 1 \in p..Len(ps) + 1
    BY <1>5
  <2>2. cut[k - 1] \in Nat /\ cut[k] \in Nat
    <3>1. cut \in [p..Len(ps) + 1 -> 1..Len(name) + 1]
      BY DEF Splitting
    <3>2. cut[k - 1] \in 1..Len(name) + 1 /\ cut[k] \in 1..Len(name) + 1
      BY <1>4, <2>1, <3>1
    <3>3. QED
      BY <3>2
  <2>3. QED
    BY <1>5, <2>1, <2>2
<1>7. cut[k - 1] <= cut[k]
  <2>1. IF ps[k - 1].star THEN cut[k - 1] <= cut[(k - 1) + 1]
        ELSE cut[(k - 1) + 1] = cut[k - 1] + 1 /\ name[cut[k - 1]] \in ps[k - 1].names
    BY <1>5 DEF Splitting
  <2>2. QED
    BY <1>5, <1>6, <2>1
<1>8. QED
  BY <1>4, <1>6, <1>7

\* A pattern that means the name splits it from the start.
LEMMA AheadStart ==
    ASSUME NEW ps \in Seq(Part), NEW name \in Seq(Names), Glob(ps, name)
    PROVE  Ahead(ps, name, 1, 1)
BY DEF Glob, Cuts, Splits, Ahead, Splitting

\* The part that takes a segment leaves the others to split the rest.
LEMMA AheadPart ==
    ASSUME NEW ps \in Seq(Part), NEW name \in Seq(Names),
           NEW p \in 1..Len(ps), NEW s \in 1..Len(name),
           Ahead(ps, name, p, s), ~ps[p].star
    PROVE  name[s] \in ps[p].names /\ Ahead(ps, name, p + 1, s + 1)
<1>1. PICK cut : Splitting(ps, name, p, s, cut)
  BY DEF Ahead
<1>2. cut[p + 1] = s + 1 /\ name[s] \in ps[p].names
  BY <1>1 DEF Splitting
<1> DEFINE new == [j \in p + 1..Len(ps) + 1 |-> cut[j]]
<1>3. Splitting(ps, name, p + 1, s + 1, new)
  <2>1. new \in [p + 1..Len(ps) + 1 -> 1..Len(name) + 1]
    BY <1>1 DEF Splitting
  <2>2. new[p + 1] = s + 1 /\ new[Len(ps) + 1] = Len(name) + 1
    BY <1>1, <1>2 DEF Splitting
  <2>3. \A j \in p + 1..Len(ps) :
           j \in p..Len(ps) /\ new[j] = cut[j] /\ new[j + 1] = cut[j + 1]
    OBVIOUS
  <2> HIDE DEF new
  <2>4. QED
    BY <1>1, <2>1, <2>2, <2>3 DEF Splitting
<1>4. QED
  BY <1>2, <1>3 DEF Ahead

\* A star may take the segment that the part behind it, no star, does not match.
LEMMA AheadStar ==
    ASSUME NEW ps \in Seq(Part), NEW name \in Seq(Names),
           NEW p \in 1..Len(ps) - 1, NEW s \in 1..Len(name),
           Ahead(ps, name, p, s), ps[p].star, ~ps[p + 1].star, name[s] \notin ps[p + 1].names
    PROVE  Ahead(ps, name, p, s + 1)
<1>1. PICK cut : Splitting(ps, name, p, s, cut)
  BY DEF Ahead
<1>2. cut[p + 1] \in Nat /\ s + 1 <= cut[p + 1]
  <2>1. cut[p + 1] \in Nat /\ s <= cut[p + 1] /\ name[cut[p + 1]] \in ps[p + 1].names
    BY <1>1 DEF Splitting
  <2>2. cut[p + 1] # s
    BY <2>1
  <2>3. QED
    BY <2>1, <2>2
<1> DEFINE new == [j \in p..Len(ps) + 1 |-> IF j = p THEN s + 1 ELSE cut[j]]
<1>3. Splitting(ps, name, p, s + 1, new)
  <2>1. new \in [p..Len(ps) + 1 -> 1..Len(name) + 1]
    BY <1>1 DEF Splitting
  <2>2. new[p] = s + 1 /\ new[Len(ps) + 1] = Len(name) + 1
    BY <1>1 DEF Splitting
  <2>3. \A j \in p + 1..Len(ps) :
           j \in p..Len(ps) /\ new[j] = cut[j] /\ new[j + 1] = cut[j + 1]
    OBVIOUS
  <2>4. new[p] <= new[p + 1]
    BY <1>2
  <2> HIDE DEF new
  <2>5. \A j \in p..Len(ps) : j = p \/ j \in p + 1..Len(ps)
    OBVIOUS
  <2>6. \A j \in p + 1..Len(ps) :
           IF ps[j].star THEN new[j] <= new[j + 1]
           ELSE new[j + 1] = new[j] + 1 /\ name[new[j]] \in ps[j].names
    BY <1>1, <2>3 DEF Splitting
  <2>7. QED
    BY <2>1, <2>2, <2>4, <2>5, <2>6 DEF Splitting
<1>4. QED
  BY <1>3 DEF Ahead

\* When a star follows the part behind a star, that part may take the first segment
\* that it matches: what it would have skipped goes to the second star.
LEMMA AheadBehindStar ==
    ASSUME NEW ps \in Seq(Part), NEW name \in Seq(Names),
           NEW p \in 1..Len(ps) - 2, NEW s \in 1..Len(name),
           Ahead(ps, name, p, s), ps[p].star, ~ps[p + 1].star, ps[p + 2].star
    PROVE  Ahead(ps, name, p + 2, s + 1)
<1>1. PICK cut : Splitting(ps, name, p, s, cut)
  BY DEF Ahead
<1>2. /\ p + 1 \in p..Len(ps) /\ p + 2 \in p..Len(ps) /\ p + 3 \in p..Len(ps) + 1
      /\ (p + 1) + 1 = p + 2 /\ (p + 2) + 1 = p + 3
  OBVIOUS
<1>3. cut[p + 3] \in Nat /\ s + 1 <= cut[p + 3]
  <2>1. cut[p + 1] \in Nat /\ cut[p + 2] \in Nat /\ cut[p + 3] \in Nat
    <3>1. cut \in [p..Len(ps) + 1 -> 1..Len(name) + 1]
      BY <1>1 DEF Splitting
    <3>2. p + 1 \in p..Len(ps) + 1 /\ p + 2 \in p..Len(ps) + 1
      BY <1>2
    <3>3. /\ cut[p + 1] \in 1..Len(name) + 1 /\ cut[p + 2] \in 1..Len(name) + 1
          /\ cut[p + 3] \in 1..Len(name) + 1
      BY <1>2, <3>1, <3>2
    <3>4. QED
      BY <3>3
  <2>2. p \in p..Len(ps) /\ cut[p] = s
    BY <1>1 DEF Splitting
  <2>3. s <= cut[p + 1]
    BY <1>1, <2>2 DEF Splitting
  <2>4. cut[p + 2] = cut[p + 1] + 1
    BY <1>1, <1>2 DEF Splitting
  <2>5. cut[p + 2] <= cut[p + 3]
    BY <1>1, <1>2 DEF Splitting
  <2>6. QED
    BY <2>1, <2>3, <2>4, <2>5
<1> DEFINE new == [j \in p + 2..Len(ps) + 1 |-> IF j = p + 2 THEN s + 1 ELSE cut[j]]
<1>4. Splitting(ps, name, p + 2, s + 1, new)
  <2>1. new \in [p + 2..Len(ps) + 1 -> 1..Len(name) + 1]
    BY <1>1 DEF Splitting
  <2>2. new[p + 2] = s + 1 /\ new[Len(ps) + 1] = Len(name) + 1
    BY <1>1 DEF Splitting
  <2>3. \A j \in p + 3..Len(ps) :
           j \in p..Len(ps) /\ new[j] = cut[j] /\ new[j + 1] = cut[j + 1]
    OBVIOUS
  <2>4. new[p + 2] <= new[(p + 2) + 1]
    BY <1>3
  <2> HIDE DEF new
  <2>5. \A j \in p + 2..Len(ps) : j = p + 2 \/ j \in p + 3..Len(ps)
    OBVIOUS
  <2>6. \A j \in p + 3..Len(ps) :
           IF ps[j].star THEN new[j] <= new[j + 1]
           ELSE new[j + 1] = new[j] + 1 /\ name[new[j]] \in ps[j].names
    BY <1>1, <2>3 DEF Splitting
  <2>7. QED
    BY <2>1, <2>2, <2>4, <2>5, <2>6 DEF Splitting
<1>5. QED
  BY <1>4 DEF Ahead

\* As long as the walk has not answered, a forgiving pattern that means the name
\* still means what is left of it.
StillAhead ==
    answer = "none" /\ Forgiving /\ Glob(parts, symbol) =>
        Ahead(parts, symbol, partIndex, symbolIndex)
CompleteInv == TypeOK /\ AtStart /\ StillAhead /\ GlobIsMatched

\* A step of the walk that does not answer leaves what the pattern still means.
LEMMA WalkKeepsAhead ==
    ASSUME TypeOK, StillAhead, StarSkips \/ PartTakes
    PROVE  StillAhead'
<1> SUFFICES ASSUME Forgiving, Glob(parts, symbol)
             PROVE  Ahead(parts, symbol, partIndex', symbolIndex')
  <2>1. parts' = parts /\ symbol' = symbol
    BY DEF StarSkips, PartTakes, input, parse
  <2>2. (Forgiving' <=> Forgiving) /\ (Glob(parts, symbol)' <=> Glob(parts, symbol))
    BY <2>1 DEF Forgiving, Glob, Cuts, Splits
  <2>3. Ahead(parts, symbol, partIndex, symbolIndex)'
            <=> Ahead(parts, symbol, partIndex', symbolIndex')
    BY <2>1 DEF Ahead, Splitting
  <2>4. QED
    BY <2>2, <2>3 DEF StillAhead
<1>1. /\ partIndex \in 1..Len(parts) /\ symbolIndex \in 1..Len(symbol)
      /\ parts \in Seq(Part) /\ symbol \in Seq(Names)
      /\ Ahead(parts, symbol, partIndex, symbolIndex)
  BY DEF TypeOK, StillAhead, StarSkips, PartTakes, Walking, HasPart, HasSegment
<1>2. CASE PartTakes
  <2>1. Ahead(parts, symbol, partIndex + 1, symbolIndex + 1)
    BY <1>1, <1>2, AheadPart DEF PartTakes
  <2>2. QED
    BY <1>2, <2>1 DEF PartTakes
<1>3. CASE StarSkips
  <2>1. partIndex \in 1..Len(parts) - 1 /\ parts[partIndex].star
    BY <1>1, <1>3 DEF StarSkips
  <2>2. /\ ~parts[partIndex + 1].star /\ parts[partIndex + 2].star
        /\ partIndex \in 1..Len(parts) - 2
    BY <1>1, <2>1 DEF Forgiving
  <2>3. CASE Matches(parts[partIndex + 1], symbol[symbolIndex])
    <3>1. Ahead(parts, symbol, partIndex + 2, symbolIndex + 1)
      BY <1>1, <2>1, <2>2, AheadBehindStar
    <3>2. QED
      BY <1>3, <2>3, <3>1 DEF StarSkips
  <2>4. CASE ~Matches(parts[partIndex + 1], symbol[symbolIndex])
    <3>1. Ahead(parts, symbol, partIndex, symbolIndex + 1)
      BY <1>1, <2>1, <2>2, <2>4, AheadStar DEF Matches
    <3>2. QED
      BY <1>3, <2>4, <3>1 DEF StarSkips
  <2>5. QED
    BY <2>3, <2>4
<1>4. QED
  BY <1>2, <1>3

\* Each way to answer "no" finds that the rest cannot be split.
LEMMA NoIsNoGlob ==
    ASSUME TypeOK, StillAhead, answer' = "no", Forgiving,
           PartFails \/ SegmentsLeft \/ PartsLeft
    PROVE  ~Glob(parts, symbol)
<1> SUFFICES ASSUME Glob(parts, symbol) PROVE FALSE
  OBVIOUS
<1>1. /\ parts \in Seq(Part) /\ symbol \in Seq(Names)
      /\ partIndex \in 1..Len(parts) + 1 /\ symbolIndex \in 1..Len(symbol) + 1
      /\ Ahead(parts, symbol, partIndex, symbolIndex)
  BY DEF TypeOK, StillAhead, PartFails, SegmentsLeft, PartsLeft, Walking
<1>2. CASE PartFails
  <2>1. partIndex \in 1..Len(parts) /\ symbolIndex \in 1..Len(symbol)
    BY <1>1, <1>2 DEF PartFails, HasPart, HasSegment
  <2>2. QED
    BY <1>1, <1>2, <2>1, AheadPart DEF PartFails
<1>3. CASE SegmentsLeft
  <2>1. partIndex = Len(parts) + 1 /\ symbolIndex <= Len(symbol)
    BY <1>1, <1>3 DEF SegmentsLeft, HasPart, HasSegment
  <2>2. QED
    BY <1>1, <2>1 DEF Ahead, Splitting
<1>4. CASE PartsLeft
  <2>1. PICK j \in partIndex..Len(parts) : ~parts[j].star
    BY <1>4 DEF PartsLeft, Answer
  <2>2. symbolIndex = Len(symbol) + 1
    BY <1>1, <1>4 DEF PartsLeft, HasSegment
  <2>3. PICK cut : Splitting(parts, symbol, partIndex, symbolIndex, cut)
    BY <1>1 DEF Ahead
  <2>4. j \in partIndex..Len(parts) + 1 /\ j + 1 \in partIndex..Len(parts) + 1
    BY <1>1
  <2>5. symbolIndex <= cut[j]
    BY <1>1, <2>3, <2>4, CutsClimb
  <2>a. cut[j] \in 1..Len(symbol) + 1 /\ cut[j + 1] \in 1..Len(symbol) + 1
    BY <2>3, <2>4 DEF Splitting
  <2>b. cut[j + 1] = cut[j] + 1
    BY <2>1, <2>3 DEF Splitting
  <2>6. cut[j] \in Nat /\ cut[j + 1] = cut[j] + 1 /\ cut[j + 1] <= Len(symbol) + 1
    BY <2>a, <2>b
  <2>7. QED
    BY <1>1, <2>2, <2>5, <2>6
<1>5. QED
  BY <1>2, <1>3, <1>4

\* match_namespace, which never goes back to an earlier choice, finds every name that
\* a pattern means in which a star follows each part that stands behind a star
\* (query.rs:1047-1112).
THEOREM MatchComplete == Spec => []GlobIsMatched
<1>1. Init => CompleteInv
  <2> SUFFICES ASSUME Init PROVE CompleteInv
    OBVIOUS
  <2>1. TypeOK
    BY TypeCorrectInit
  <2>2. Glob(parts, symbol) => Ahead(parts, symbol, 1, 1)
    BY <2>1, AheadStart DEF TypeOK
  <2>3. QED
    BY <2>1, <2>2 DEF Init, CompleteInv, AtStart, StillAhead, GlobIsMatched
<1>2. CompleteInv /\ TypeOK' /\ [Next]_vars => CompleteInv'
  <2> SUFFICES ASSUME CompleteInv, TypeOK', [Next]_vars PROVE CompleteInv'
    OBVIOUS
  <2>1. CASE OpenGroup \/ GlueToken \/ CloseGroup \/ PlainToken
    <3>0. ~Parsed
      BY <2>1, NotYetParsed DEF CompleteInv, OpenGroup, GlueToken, CloseGroup, PlainToken,
                                Reading
    <3>1. partIndex = 1 /\ symbolIndex = 1
      BY <3>0 DEF CompleteInv, AtStart
    <3>2. partIndex' = 1 /\ symbolIndex' = 1 /\ answer' = "none"
      BY <2>1, <3>1 DEF OpenGroup, GlueToken, CloseGroup, PlainToken, Reading, walk
    <3>3. parts' \in Seq(Part) /\ symbol' \in Seq(Names)
      BY DEF TypeOK
    <3>4. Glob(parts', symbol') => Ahead(parts', symbol', 1, 1)
      BY <3>3, AheadStart
    <3>5. Glob(parts, symbol)' <=> Glob(parts', symbol')
      BY DEF Glob, Cuts, Splits
    <3>6. Ahead(parts, symbol, partIndex, symbolIndex)'
              <=> Ahead(parts', symbol', partIndex', symbolIndex')
      BY DEF Ahead, Splitting
    <3>7. QED
      BY <3>2, <3>4, <3>5, <3>6 DEF CompleteInv, AtStart, StillAhead, GlobIsMatched
  <2>2. CASE StarSkips \/ PartTakes
    <3>1. StillAhead'
      BY <2>2, WalkKeepsAhead DEF CompleteInv
    <3>2. Parsed' /\ answer' = "none"
      BY <2>2 DEF StarSkips, PartTakes, Walking, Parsed, input, parse
    <3>3. QED
      BY <3>1, <3>2 DEF CompleteInv, AtStart, GlobIsMatched
  <2>3. CASE StrayClose \/ StarEnds \/ BothEnd
    BY <2>3 DEF CompleteInv, AtStart, StillAhead, GlobIsMatched, StrayClose, StarEnds, BothEnd,
                Answer, Parsed, Reading, Walking, input, parse, walk
  <2>4. CASE PartFails \/ SegmentsLeft \/ PartsLeft
    <3>1. Parsed' /\ answer' # "none" /\ UNCHANGED <<parts, symbol>>
      BY <2>4 DEF PartFails, SegmentsLeft, PartsLeft, Answer, Walking, Parsed, input, parse
    <3>2. Forgiving' <=> Forgiving
      BY <3>1 DEF Forgiving
    <3>3. answer' = "no" /\ Forgiving => ~Glob(parts, symbol)
      BY <2>4, NoIsNoGlob DEF CompleteInv
    <3>4. QED
      BY <3>1, <3>2, <3>3 DEF CompleteInv, AtStart, StillAhead, GlobIsMatched, Glob, Cuts, Splits
  <2>5. CASE UNCHANGED vars
    BY <2>5 DEF CompleteInv, AtStart, StillAhead, GlobIsMatched, Forgiving, Parsed,
                vars, input, parse, walk
  <2>6. QED
    BY <2>1, <2>2, <2>3, <2>4, <2>5 DEF Next
<1>3. CompleteInv => GlobIsMatched
  BY DEF CompleteInv
<1>4. QED
  BY <1>1, <1>2, <1>3, TypeCorrect, PTL DEF Spec

-----------------------------------------------------------------------------
(* The parts of a pattern *)

\* Those of the kept elements that have been read are the parts, in order.
ReadKept == {k \in Kept : k < next}
Listed ==
    \E order \in [ReadKept -> 1..Len(parts)] :
        /\ \A j \in 1..Len(parts) : \E k \in ReadKept : order[k] = j
        /\ \A k, l \in ReadKept : k < l => order[k] < order[l]
        /\ \A k \in ReadKept : parts[order[k]].names = Meaning(k)

\* What create_search carries from one token to the next.
Carried ==
    /\ inRegex <=> Inside(next) \/ Behind(next)
    /\ inRegex /\ ~Behind(next) => \E o \in Opening(next) : building = query[o].names

ParseInv == answer # "error" => Listed /\ Carried

\* A token that ends no kept element changes no part.
LEMMA PassedOver ==
    ASSUME TypeOK, Listed, next <= Len(query), next \notin Kept,
           UNCHANGED <<query, parts>>, next' = next + 1
    PROVE  Listed'
<1>1. Kept' = Kept
  BY DEF Kept, Elements, Inside, Behind
<1>2. \A k \in Kept : k \in Nat /\ k # next
  BY DEF Kept, Elements
<1>3. ReadKept' = ReadKept
  BY <1>1, <1>2 DEF ReadKept, TypeOK
<1>4. \A k : Meaning(k)' = Meaning(k)
  BY DEF Meaning, Opening
<1>5. QED
  BY <1>3, <1>4 DEF Listed

\* A token that ends a kept element adds the part that stands for it.
LEMMA PartAdded ==
    ASSUME TypeOK, Listed, next <= Len(query), next \in Kept,
           UNCHANGED query, next' = next + 1,
           NEW part \in Part, part.names = Meaning(next), parts' = Append(parts, part)
    PROVE  Listed'
<1> DEFINE m == Len(parts)
<1>1. Kept' = Kept /\ \A k : Meaning(k)' = Meaning(k)
  BY DEF Kept, Elements, Inside, Behind, Meaning, Opening
<1>2. next \in Nat /\ m \in Nat /\ parts \in Seq(Part)
  BY DEF TypeOK
<1>3. ReadKept' = ReadKept \cup {next} /\ next \notin ReadKept
  <2>1. \A k \in Kept : k \in Nat
    BY DEF Kept, Elements
  <2>2. \A k \in Kept : k < next + 1 <=> k < next \/ k = next
    BY <1>2, <2>1
  <2>3. ~(next < next)
    BY <1>2
  <2>4. ReadKept' = {k \in Kept : k < next + 1}
    BY <1>1 DEF ReadKept
  <2>5. QED
    BY <2>2, <2>3, <2>4 DEF ReadKept
<1>4. /\ Len(parts') = m + 1 /\ parts'[m + 1] = part
      /\ \A j \in 1..m : parts'[j] = parts[j]
  BY <1>2
<1>5. PICK order \in [ReadKept -> 1..m] :
        /\ \A j \in 1..m : \E k \in ReadKept : order[k] = j
        /\ \A k, l \in ReadKept : k < l => order[k] < order[l]
        /\ \A k \in ReadKept : parts[order[k]].names = Meaning(k)
  BY DEF Listed
<1> DEFINE new == [k \in ReadKept' |-> IF k = next THEN m + 1 ELSE order[k]]
<1>6. new[next] = m + 1 /\ \A k \in ReadKept : new[k] = order[k] /\ order[k] \in 1..m
  BY <1>3, <1>5
<1>7. new \in [ReadKept' -> 1..m + 1]
  BY <1>2, <1>3, <1>5
<1> HIDE DEF new
<1>8. \A j \in 1..m + 1 : \E k \in ReadKept' : new[k] = j
  <2>1. \A j \in 1..m + 1 : j = m + 1 \/ j \in 1..m
    BY <1>2
  <2>2. QED
    BY <1>3, <1>5, <1>6, <2>1
<1>9. ASSUME NEW k \in ReadKept', NEW l \in ReadKept', k < l
      PROVE  new[k] < new[l]
  <2>1. k \in ReadKept
    <3>1. \A e \in ReadKept : e < next /\ e \in Nat
      BY DEF ReadKept, Kept, Elements
    <3>2. QED
      BY <1>2, <1>3, <1>9, <3>1
  <2>2. QED
    BY <1>2, <1>3, <1>5, <1>6, <1>9, <2>1
<1>10. ASSUME NEW k \in ReadKept' PROVE parts'[new[k]].names = Meaning(k)'
  BY <1>1, <1>3, <1>4, <1>5, <1>6, <1>10
<1>11. QED
  BY <1>4, <1>7, <1>8, <1>9, <1>10 DEF Listed

\* Of the tokens before k that open an alternative one is the last.
LEMMA OneOpening ==
    ASSUME NEW k \in Nat, NEW o \in Opening(k), NEW u \in Opening(k)
    PROVE  o = u
<1>1. o \in Nat /\ u \in Nat /\ (o < u => u \in o + 1..k - 1) /\ (u < o => o \in u + 1..k - 1)
  BY DEF Opening
<1>2. QED
  BY <1>1 DEF Opening

\* The token that is read next is inside an alternative when the one just read opens
\* one, or is inside one and does not close it.
LEMMA InsideNext ==
    ASSUME NEW k \in 1..Len(query)
    PROVE  Inside(k + 1) <=> /\ query[k].kind # "close"
                             /\ query[k].kind = "open" \/ Inside(k)
<1>1. ASSUME Inside(k + 1)
      PROVE  query[k].kind # "close" /\ (query[k].kind = "open" \/ Inside(k))
  <2>1. PICK o \in 1..(k + 1) - 1 :
           query[o].kind = "open" /\ \A c \in o..(k + 1) - 1 : query[c].kind # "close"
    BY <1>1 DEF Inside
  <2>2. k \in o..(k + 1) - 1 /\ \A c \in o..k - 1 : c \in o..(k + 1) - 1
    OBVIOUS
  <2>3. o = k \/ o \in 1..k - 1
    OBVIOUS
  <2>4. QED
    BY <2>1, <2>2, <2>3 DEF Inside
<1>2. ASSUME query[k].kind # "close", query[k].kind = "open" \/ Inside(k)
      PROVE  Inside(k + 1)
  <2>1. CASE query[k].kind = "open"
    <3>1. k \in 1..(k + 1) - 1 /\ \A c \in k..(k + 1) - 1 : c = k
      OBVIOUS
    <3>2. QED
      BY <1>2, <2>1, <3>1 DEF Inside
  <2>2. CASE Inside(k)
    <3>1. PICK o \in 1..k - 1 :
             query[o].kind = "open" /\ \A c \in o..k - 1 : query[c].kind # "close"
      BY <2>2 DEF Inside
    <3>2. o \in 1..(k + 1) - 1 /\ \A c \in o..(k + 1) - 1 : c = k \/ c \in o..k - 1
      OBVIOUS
    <3>3. QED
      BY <1>2, <3>1, <3>2 DEF Inside
  <2>3. QED
    BY <1>2, <2>1, <2>2
<1>3. QED
  BY <1>1, <1>2

\* The token that is read next is behind a complete alternative when the one just read
\* is one, or is behind one and neither opens nor closes another.
LEMMA BehindNext ==
    ASSUME NEW k \in 1..Len(query)
    PROVE  Behind(k + 1) <=> \/ query[k].kind = "group"
                             \/ Behind(k) /\ query[k].kind \notin {"open", "close"}
<1>1. ASSUME Behind(k + 1)
      PROVE  query[k].kind = "group" \/ (Behind(k) /\ query[k].kind \notin {"open", "close"})
  <2>1. PICK o \in 1..(k + 1) - 1 :
           /\ query[o].kind = "group"
           /\ \A l \in o..(k + 1) - 1 : query[l].kind \notin {"open", "close"}
    BY <1>1 DEF Behind
  <2>2. k \in o..(k + 1) - 1 /\ \A l \in o..k - 1 : l \in o..(k + 1) - 1
    OBVIOUS
  <2>3. o = k \/ o \in 1..k - 1
    OBVIOUS
  <2>4. QED
    BY <2>1, <2>2, <2>3 DEF Behind
<1>2. ASSUME query[k].kind = "group" PROVE Behind(k + 1)
  <2>1. k \in 1..(k + 1) - 1 /\ \A l \in k..(k + 1) - 1 : l = k
    OBVIOUS
  <2>2. QED
    BY <1>2, <2>1 DEF Behind
<1>3. ASSUME Behind(k), query[k].kind \notin {"open", "close"} PROVE Behind(k + 1)
  <2>1. PICK o \in 1..k - 1 :
           /\ query[o].kind = "group"
           /\ \A l \in o..k - 1 : query[l].kind \notin {"open", "close"}
    BY <1>3 DEF Behind
  <2>2. o \in 1..(k + 1) - 1 /\ \A l \in o..(k + 1) - 1 : l = k \/ l \in o..k - 1
    OBVIOUS
  <2>3. QED
    BY <1>3, <2>1, <2>2 DEF Behind
<1>4. QED
  BY <1>1, <1>2, <1>3

\* Each token that create_search reads keeps the kept elements and the parts in step.
LEMMA ReadingKeepsParts ==
    ASSUME TypeOK, ParseInv, OpenGroup \/ GlueToken \/ CloseGroup \/ PlainToken
    PROVE  ParseInv'
<1> DEFINE k == next
<1>1. /\ k \in 1..Len(query) /\ query \in Seq(Token) /\ query[k] \in Token
      /\ query' = query /\ next' = k + 1 /\ answer = "none" /\ answer' = answer
  <2>1. next <= Len(query) /\ query \in Seq(Token) /\ next \in 1..Len(query) + 1
    BY DEF TypeOK, OpenGroup, GlueToken, CloseGroup, PlainToken, Reading
  <2>2. QED
    BY <2>1 DEF OpenGroup, GlueToken, CloseGroup, PlainToken, Reading, input
<1>2. Listed /\ Carried
  BY <1>1 DEF ParseInv
<1>4. /\ Inside(next)' <=> Inside(k + 1)
      /\ Behind(next)' <=> Behind(k + 1)
      /\ Opening(next)' = Opening(k + 1)
  BY <1>1 DEF Inside, Behind, Opening
<1>5. k <= Len(query) /\ k \in Nat
  BY <1>1
<1>6. CASE OpenGroup
  <2>1. /\ query[k].kind \in {"open", "group"} /\ inRegex' = TRUE
        /\ building' = query[k].names /\ parts' = parts
    BY <1>6 DEF OpenGroup, Reading
  <2>2. k \notin Kept
    BY <2>1 DEF Kept, Elements
  <2>3. Listed'
    BY <1>1, <1>2, <1>5, <2>1, <2>2, PassedOver
  <2>4. CASE query[k].kind = "open"
    <3>1. k \in Opening(k + 1)
      BY <1>1, <2>4 DEF Opening
    <3>2. Inside(k + 1)
      BY <1>1, <2>4, InsideNext
    <3>3. Carried'
      BY <1>1, <1>4, <2>1, <3>1, <3>2 DEF Carried
    <3>4. QED
      BY <2>3, <3>3 DEF ParseInv
  <2>5. CASE query[k].kind = "group"
    <3>1. Behind(k + 1)
      BY <1>1, <2>5, BehindNext
    <3>2. Carried'
      BY <1>1, <1>4, <2>1, <3>1 DEF Carried
    <3>3. QED
      BY <2>3, <3>2 DEF ParseInv
  <2>6. QED
    BY <2>1, <2>4, <2>5
<1>7. CASE GlueToken
  <2>1. query[k].kind \in {"star", "name"} /\ inRegex /\ UNCHANGED <<inRegex, building, parts>>
    BY <1>7 DEF GlueToken, Reading
  <2>2. Inside(k) \/ Behind(k)
    BY <1>2, <2>1 DEF Carried
  <2>3. k \notin Kept
    BY <2>1, <2>2 DEF Kept, Elements
  <2>4. Listed'
    BY <1>1, <1>2, <1>5, <2>1, <2>3, PassedOver
  <2>5. (Inside(k) => Inside(k + 1)) /\ (Behind(k + 1) <=> Behind(k))
    BY <1>1, <2>1, InsideNext, BehindNext
  <2>6. ASSUME ~Behind(k) PROVE \E o \in Opening(k + 1) : building = query[o].names
    <3>1. PICK o \in Opening(k) : building = query[o].names
      BY <1>2, <2>1, <2>6 DEF Carried
    <3>2. o \in 1..(k + 1) - 1 /\ \A l \in o + 1..(k + 1) - 1 : l = k \/ l \in o + 1..k - 1
      BY <1>1, <3>1 DEF Opening
    <3>3. o \in Opening(k + 1)
      BY <2>1, <3>1, <3>2 DEF Opening
    <3>4. QED
      BY <3>1, <3>3
  <2>7. Carried'
    BY <1>1, <1>4, <2>1, <2>2, <2>5, <2>6 DEF Carried
  <2>8. QED
    BY <2>4, <2>7 DEF ParseInv
<1>8. CASE CloseGroup
  <2> DEFINE part == [star |-> FALSE, names |-> building \cup query[k].names]
  <2>1. /\ query[k].kind = "close" /\ inRegex /\ ~Behind(k)
        /\ inRegex' = FALSE /\ parts' = Append(parts, part)
    BY <1>8 DEF CloseGroup, Reading
  <2>2. k \in Kept
    BY <1>1, <2>1 DEF Kept, Elements
  <2>3. PICK o \in Opening(k) : building = query[o].names
    BY <1>2, <2>1 DEF Carried
  <2>4. UNION {query[u].names : u \in Opening(k)} = building
    BY <1>5, <2>3, OneOpening
  <2>5. part \in Part /\ part.names = Meaning(k)
    BY <1>1, <2>1, <2>4 DEF Meaning, Part, Token, TypeOK
  <2> HIDE DEF part
  <2>6. Listed'
    BY <1>1, <1>2, <1>5, <2>1, <2>2, <2>5, PartAdded
  <2>7. ~Inside(k + 1) /\ ~Behind(k + 1)
    BY <1>1, <2>1, InsideNext, BehindNext
  <2>8. Carried'
    BY <1>1, <1>4, <2>1, <2>7 DEF Carried
  <2>9. QED
    BY <2>6, <2>8 DEF ParseInv
<1>9. CASE PlainToken
  <2> DEFINE part == [star |-> query[k].kind = "star", names |-> query[k].names]
  <2>1. /\ query[k].kind \in {"star", "name"} /\ ~inRegex /\ inRegex' = inRegex
        /\ parts' = Append(parts, part)
    BY <1>9 DEF PlainToken, Reading
  <2>2. ~Inside(k) /\ ~Behind(k)
    BY <1>2, <2>1 DEF Carried
  <2>3. k \in Kept
    BY <1>1, <2>1, <2>2 DEF Kept, Elements
  <2>4. part \in Part /\ part.names = Meaning(k)
    BY <1>1, <2>1 DEF Meaning, Part, Token
  <2> HIDE DEF part
  <2>5. Listed'
    BY <1>1, <1>2, <1>5, <2>1, <2>3, <2>4, PartAdded
  <2>6. ~Inside(k + 1) /\ ~Behind(k + 1)
    BY <1>1, <2>1, <2>2, InsideNext, BehindNext
  <2>7. Carried'
    BY <1>1, <1>4, <2>1, <2>6 DEF Carried
  <2>8. QED
    BY <2>5, <2>7 DEF ParseInv
<1>10. QED
  BY <1>6, <1>7, <1>8, <1>9

\* create_search makes the parts of every pattern, however long, the elements that the
\* code keeps, in order and with all that each stands for: what is lost are the
\* alternatives within one token and what is glued to them (query.rs:982-1026).
THEOREM PartsOfElements == Spec => []PartPerKept
<1>1. Init => ParseInv
  <2> SUFFICES ASSUME Init PROVE ParseInv
    OBVIOUS
  <2>2. next = 1 /\ parts = <<>> /\ inRegex = FALSE
    BY DEF Init
  <2>3. ReadKept = {}
    BY <2>2 DEF ReadKept, Kept, Elements
  <2>4. Listed
    <3> DEFINE order == [k \in ReadKept |-> 1]
    <3>1. order \in [ReadKept -> 1..Len(parts)]
      BY <2>3
    <3>2. \A j \in 1..Len(parts) : FALSE
      BY <2>2
    <3> HIDE DEF order
    <3>3. QED
      BY <2>3, <3>1, <3>2 DEF Listed
  <2>5. ~Inside(1) /\ ~Behind(1)
    BY DEF Inside, Behind
  <2>6. Carried
    BY <2>2, <2>5 DEF Carried
  <2>7. QED
    BY <2>4, <2>6 DEF ParseInv
<1>2. ParseInv /\ TypeOK /\ [Next]_vars => ParseInv'
  <2> SUFFICES ASSUME ParseInv, TypeOK, [Next]_vars PROVE ParseInv'
    OBVIOUS
  <2>1. CASE OpenGroup \/ GlueToken \/ CloseGroup \/ PlainToken
    BY <2>1, ReadingKeepsParts
  <2>2. ASSUME UNCHANGED <<query, next, inRegex, building, parts>>, answer = "error" => answer' = "error"
        PROVE  ParseInv'
    <3>1. Carried' <=> Carried
      BY <2>2 DEF Carried, Inside, Behind, Opening
    <3>2. ReadKept' = ReadKept /\ \A k : Meaning(k)' = Meaning(k)
      BY <2>2 DEF ReadKept, Kept, Elements, Inside, Behind, Meaning, Opening
    <3>3. Listed' <=> Listed
      BY <2>2, <3>2 DEF Listed
    <3>4. QED
      BY <2>2, <3>1, <3>3 DEF ParseInv
  <2>3. CASE \/ StrayClose \/ StarSkips \/ StarEnds \/ PartTakes \/ PartFails
             \/ SegmentsLeft \/ PartsLeft \/ BothEnd
    BY <2>2, <2>3 DEF StrayClose, StarSkips, StarEnds, PartTakes, PartFails, SegmentsLeft,
                      PartsLeft, BothEnd, Reading, Walking, Answer, input, parse
  <2>4. CASE UNCHANGED vars
    BY <2>2, <2>4 DEF vars, input, parse
  <2>5. QED
    BY <2>1, <2>3, <2>4 DEF Next
<1>3. ParseInv /\ TypeOK => PartPerKept
  <2> SUFFICES ASSUME ParseInv, TypeOK, Parsed, answer # "error"
               PROVE  PartsAre(Kept)
    BY DEF PartPerKept
  <2>1. ReadKept = Kept
    BY DEF ReadKept, Kept, Elements, Parsed, TypeOK
  <2>2. QED
    BY <2>1 DEF ParseInv, Listed, PartsAre
<1>4. QED
  BY <1>1, <1>2, <1>3, TypeCorrect, PTL DEF Spec
=============================================================================
