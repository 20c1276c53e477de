----------------------------- MODULE SdkProofs -----------------------------
(***************************************************************************)
(* What module Sdk promises for every set of files and inputs: its types,  *)
(* that the loader's answer is the number of files it stored, that the     *)
(* path of an SDK is remembered only when its readable files are stored,   *)
(* that an undisturbed init of a served framework stores its SDK, which    *)
(* moniker the sorting picks and what the reader takes from a project      *)
(* file; and, with module Packages, that the graph read back is the        *)
(* store's and has the right files of each package.                        *)
(***************************************************************************)
EXTENDS Packages, NumberProofs

-----------------------------------------------------------------------------
(* Texts *)

\* A text is a list of numbers.
Text == Seq(Token)

LEMMA TokensAreNumbers == Token \subseteq Int /\ Text \subseteq Seq(Int)
<1>1. Token \subseteq Int
  BY DEF Token, Dot, CoreApp, Standard, Digit
<1>2. ASSUME NEW t \in Seq(Token) PROVE t \in Seq(Int)
  <2>1. Len(t) \in Nat /\ t = [i \in 1..Len(t) |-> t[i]] /\ \A i \in 1..Len(t) : t[i] \in Int
    BY <1>1
  <2> QED
    BY <2>1
<1> QED
  BY <1>1, <1>2 DEF Text

\* String's order is that of the first difference.
LEMMA BeforeIsLex ==
    ASSUME NEW a \in Seq(Int), NEW b \in Seq(Int)
    PROVE  Before(a, b) <=> Lex(a, b)
<1>1. /\ DOMAIN a = 1..Len(a) /\ DOMAIN b = 1..Len(b) /\ Len(a) \in Nat /\ Len(b) \in Nat
  OBVIOUS
<1>2. ASSUME NEW i \in DOMAIN b
      PROVE  (i <= Len(a) + 1 /\ (i = Len(a) + 1 \/ a[i] < b[i]) /\ \A j \in 1..(i - 1) : a[j] = b[j])
             <=> ((\A j \in 1..(i - 1) : j \in DOMAIN a /\ a[j] = b[j]) /\ (i \notin DOMAIN a \/ a[i] < b[i]))
  <2>1. i \in Nat /\ 1 <= i
    BY <1>1
  <2>2. i <= Len(a) + 1 <=> \A j \in 1..(i - 1) : j \in DOMAIN a
    <3>1. ASSUME i <= Len(a) + 1, NEW j \in 1..(i - 1) PROVE j \in DOMAIN a
      BY <1>1, <2>1, <3>1
    <3>2. ASSUME \A j \in 1..(i - 1) : j \in DOMAIN a PROVE i <= Len(a) + 1
      <4>1. CASE i = 1
        BY <1>1, <4>1
      <4>2. CASE i # 1
        <5>1. i - 1 \in 1..(i - 1)
          BY <2>1, <4>2
        <5>2. i - 1 \in 1..Len(a)
          BY <1>1, <3>2, <5>1
        <5> QED
          BY <1>1, <2>1, <5>2
      <4> QED
        BY <4>1, <4>2
    <3> QED
      BY <3>1, <3>2
  <2>3. i <= Len(a) + 1 => (i = Len(a) + 1 <=> i \notin DOMAIN a)
    BY <1>1, <2>1
  <2> QED
    BY <2>2, <2>3
<1>3. QED
  BY <1>2 DEF Before, Lex

\* A finite set of texts has a first one in String's order.
LEMMA FirstText ==
    ASSUME NEW S \in SUBSET Seq(Int), IsFiniteSet(S), S # {}
    PROVE  \E a \in S : \A b \in S : a = b \/ Before(a, b)
<1> DEFINE below == [a \in S |-> {b \in S : Lex(b, a)}]
<1>1. \A a \in S : a \in Seq(Int)
  OBVIOUS
<1>2. Ordering(S, below)
  <2>1. below \in [S -> SUBSET S]
    OBVIOUS
  <2>2. \A a \in S : a \notin below[a]
    BY <1>1, LexIrreflexive
  <2>3. ASSUME NEW a \in S, NEW b \in S, b \in below[a], NEW c \in below[b]
        PROVE  c \in below[a]
    <3>1. c \in S /\ Lex(c, b) /\ Lex(b, a)
      BY <2>3
    <3>2. Lex(c, a)
      BY <1>1, <3>1, LexTransitive
    <3> QED
      BY <3>1, <3>2
  <2>4. \A a, b \in S : a = b \/ a \in below[b] \/ b \in below[a]
    BY <1>1, LexTotal
  <2> HIDE DEF below
  <2> QED
    BY <2>1, <2>2, <2>3, <2>4 DEF Ordering
<1>3. PICK a \in S : \A b \in S : a = b \/ a \in below[b]
  <2> HIDE DEF below
  <2> QED
    BY <1>2, FirstIn
<1>4. \A b \in S : a = b \/ Before(a, b)
  BY <1>1, <1>3, BeforeIsLex
<1> QED
  BY <1>4

\* What is picked of a sequence is a sequence of what stands at the places.
LEMMA PickedFrom ==
    ASSUME NEW S, NEW seq \in Seq(S), NEW places
    PROVE  /\ Picked(seq, places) \in Seq(S)
           /\ \A j \in DOMAIN Picked(seq, places) :
                 \E i \in places \cap DOMAIN seq : Picked(seq, places)[j] = seq[i]
<1> DEFINE body(l) == [i \in 0..Len(seq) |->
                          IF i = 0 THEN <<>>
                          ELSE IF i \in places THEN Append(l[i - 1], seq[i]) ELSE l[i - 1]]
           kept == CHOOSE l : l = body(l)
           V == {s \in Seq(S) : \A j \in DOMAIN s : \E i \in places \cap DOMAIN seq : s[j] = seq[i]}
           pass(k, s) == IF k \in places THEN Append(s, seq[k]) ELSE s
<1>1. Picked(seq, places) = kept[Len(seq)]
  BY DEF Picked
<1>2. PICK n \in Nat : n = Len(seq)
  OBVIOUS
<1>3. <<>> \in V
  OBVIOUS
<1>4. ASSUME NEW k \in 1..n, NEW s \in V PROVE pass(k, s) \in V
  <2>1. k \in DOMAIN seq /\ seq[k] \in S
    BY <1>2
  <2>2. CASE k \in places
    <3>1. s \in Seq(S) /\ Append(s, seq[k]) \in Seq(S)
      BY <2>1
    <3>2. \A j \in DOMAIN Append(s, seq[k]) :
             (j \in DOMAIN s /\ Append(s, seq[k])[j] = s[j]) \/ Append(s, seq[k])[j] = seq[k]
      BY <2>1, <3>1
    <3>3. \A j \in DOMAIN Append(s, seq[k]) :
             \E i \in places \cap DOMAIN seq : Append(s, seq[k])[j] = seq[i]
      BY <2>1, <2>2, <3>2
    <3> QED
      BY <2>2, <3>1, <3>3
  <2> QED
    BY <2>2
<1> HIDE DEF V
<1>5. \E l : l = body(l)
  <2>1. PICK g : g = [k \in Nat |-> [s \in V |-> IF k \in 1..n THEN pass(k, s) ELSE s]]
    OBVIOUS
  <2>2. g \in Steps(V)
    BY <1>4, <2>1 DEF Steps
  <2>3. PICK l : /\ l = [i \in 0..n |-> l[i]] /\ l[0] = <<>>
                 /\ \A k \in 0..n : l[k] \in V
                 /\ \A k \in 1..n : l[k] = g[k][l[k - 1]]
    BY <1>3, <2>2, SteppedTo
  <2>4. ASSUME NEW k \in 1..n PROVE l[k] = pass(k, l[k - 1])
    <3>1. k \in Nat /\ k - 1 \in 0..n
      OBVIOUS
    <3>2. l[k - 1] \in V /\ l[k] = g[k][l[k - 1]]
      BY <2>3, <3>1
    <3> QED
      BY <2>1, <3>1, <3>2
  <2>5. l = body(l)
    BY <1>2, <2>3, <2>4
  <2> QED
    BY <2>5
<1>6. kept = body(kept)
  <2> HIDE DEF body
  <2> QED
    BY <1>5
<1>7. \A k \in 0..n : kept[k] = IF k = 0 THEN <<>> ELSE pass(k, kept[k - 1])
  <2> HIDE DEF kept
  <2> QED
    BY <1>2, <1>6
<1> HIDE DEF kept
<1>8. kept[0] = <<>> /\ \A k \in 1..n : kept[k] = pass(k, kept[k - 1])
  BY <1>7
<1>9. \A k \in 0..n : kept[k] \in V
  <2> HIDE DEF pass
  <2>1. \A k \in 1..n : kept[k - 1] \in V => kept[k] \in V
    BY <1>4, <1>8
  <2> QED
    BY <1>3, <1>8, <2>1, StaysIn
<1>10. kept[n] \in V
  BY <1>9
<1> QED
  BY <1>1, <1>2, <1>10 DEF V

\* What is left of a text has none of what was taken out.
LEMMA WithoutIt ==
    ASSUME NEW text \in Text, NEW token
    PROVE  /\ Without(text, token) \in Text
           /\ \A i \in DOMAIN Without(text, token) : Without(text, token)[i] # token
<1> DEFINE places == {i \in DOMAIN text : text[i] # token}
<1>1. Without(text, token) = Picked(text, places)
  BY DEF Without
<1>2. text \in Seq(Token)
  BY DEF Text
<1> HIDE DEF places
<1>3. /\ Picked(text, places) \in Seq(Token)
      /\ \A j \in DOMAIN Picked(text, places) :
            \E i \in places \cap DOMAIN text : Picked(text, places)[j] = text[i]
  BY <1>2, PickedFrom
<1> QED
  BY <1>1, <1>3 DEF places, Text

\* One digit spells itself.
LEMMA NumberOfDigit ==
    ASSUME NEW digits \in Seq(Int), Len(digits) = 1
    PROVE  Number(digits) = digits[1]
<1> DEFINE body(l) == [i \in 0..Len(digits) |-> IF i = 0 THEN 0 ELSE 10 * l[i - 1] + digits[i]]
           n == CHOOSE l : l = body(l)
<1>1. Number(digits) = n[1]
  BY DEF Number
<1>2. \E l : l = body(l)
  <2> DEFINE l == [i \in 0..1 |-> IF i = 0 THEN 0 ELSE digits[1]]
  <2>1. digits[1] \in Int
    OBVIOUS
  <2>2. l = body(l)
    BY <2>1
  <2> QED
    BY <2>2
<1>3. n = body(n)
  <2> HIDE DEF body
  <2> QED
    BY <1>2
<1>4. \A i \in 0..1 : n[i] = IF i = 0 THEN 0 ELSE 10 * n[i - 1] + digits[i]
  <2> HIDE DEF n
  <2> QED
    BY <1>3
<1> HIDE DEF n
<1>5. n[0] = 0 /\ n[1] = 10 * n[0] + digits[1]
  BY <1>4
<1>6. digits[1] \in Int
  OBVIOUS
<1> QED
  BY <1>1, <1>5, <1>6

Word(text) == IF HasWord(text) THEN 1 ELSE 0

\* Halves.
LEMMA Halves ==
    /\ \A m \in Nat : (2 * m) % 2 = 0 /\ (2 * m) \div 2 = m /\ (2 * m + 1) % 2 = 1 /\ (2 * m + 1) \div 2 = m
    /\ \A x \in Nat : \E m \in Nat : x = 2 * m \/ x = 2 * m + 1
<1>1. ASSUME NEW m \in Nat
      PROVE  (2 * m) % 2 = 0 /\ (2 * m) \div 2 = m /\ (2 * m + 1) % 2 = 1 /\ (2 * m + 1) \div 2 = m
  OBVIOUS
<1>2. ASSUME NEW x \in Nat PROVE \E m \in Nat : x = 2 * m \/ x = 2 * m + 1
  <2>1. x \div 2 \in Nat /\ (x = 2 * (x \div 2) \/ x = 2 * (x \div 2) + 1)
    OBVIOUS
  <2> QED
    BY <2>1
<1> QED
  BY <1>1, <1>2

\* A version with dots between numbers of one digit has these digits.
LEMMA VersionOfDigits ==
    ASSUME NEW text \in Text, HasDot(text), OneDigit(text)
    PROVE  /\ Version(text) \in Seq(Int)
           /\ Len(text) = Word(text) + 2 * Len(Version(text)) - 1
           /\ \A k \in 1..Len(Version(text)) : Version(text)[k] = text[Word(text) + 2 * k - 1]
<1> DEFINE add(s, t) == IF t = Dot THEN Append(s, 0) ELSE [s EXCEPT ![Len(s)] = 10 * @ + t]
           pass(i, s) == IF text[i] \notin Digit \cup {Dot} THEN s ELSE add(s, text[i])
           body(l) == [i \in 0..Len(text) |->
                          IF i = 0 THEN <<0>>
                          ELSE IF text[i] \notin Digit \cup {Dot} THEN l[i - 1]
                          ELSE add(l[i - 1], text[i])]
           v == CHOOSE l : l = body(l)
           V == {s \in Seq(Int) : Len(s) > 0}
<1>1. Version(text) = v[Len(text)]
  BY DEF Version
<1>2. PICK n \in Nat : n = Len(text)
  BY DEF Text
<1>3. \A i \in 1..n : text[i] \in Token /\ text[i] \in Int
  BY <1>2, TokensAreNumbers DEF Text
<1>4. <<0>> \in V
  OBVIOUS
<1>5. ASSUME NEW s \in V, NEW t \in Int
      PROVE  add(s, t) \in V
  <2>1. s \in Seq(Int) /\ Len(s) \in Nat /\ Len(s) > 0
    OBVIOUS
  <2>2. CASE t = Dot
    BY <2>1, <2>2
  <2>3. CASE t # Dot
    <3>1. s[Len(s)] \in Int
      BY <2>1
    <3>2. 10 * s[Len(s)] + t \in Int
      BY <3>1
    <3>3. [s EXCEPT ![Len(s)] = 10 * s[Len(s)] + t] \in Seq(Int)
      BY <2>1, <3>2
    <3>4. Len([s EXCEPT ![Len(s)] = 10 * s[Len(s)] + t]) = Len(s)
      BY <2>1, <3>2, <3>3
    <3> QED
      BY <2>1, <2>3, <3>3, <3>4
  <2> QED
    BY <2>2, <2>3
<1>6. ASSUME NEW s \in V, NEW i \in 1..n PROVE pass(i, s) \in V
  <2> HIDE DEF V, add
  <2> QED
    BY <1>3, <1>5
<1> HIDE DEF V
<1>7. \E l : l = body(l)
  <2>1. PICK g : g = [k \in Nat |-> [s \in V |-> IF k \in 1..n THEN pass(k, s) ELSE s]]
    OBVIOUS
  <2>2. g \in Steps(V)
    <3> HIDE DEF pass
    <3> QED
      BY <1>6, <2>1 DEF Steps
  <2>3. PICK l : /\ l = [i \in 0..n |-> l[i]] /\ l[0] = <<0>>
                 /\ \A k \in 0..n : l[k] \in V
                 /\ \A k \in 1..n : l[k] = g[k][l[k - 1]]
    BY <1>4, <2>2, SteppedTo
  <2>4. ASSUME NEW k \in 1..n PROVE l[k] = pass(k, l[k - 1])
    <3> HIDE DEF pass
    <3>1. k \in Nat /\ k - 1 \in 0..n
      OBVIOUS
    <3>2. l[k - 1] \in V /\ l[k] = g[k][l[k - 1]]
      BY <2>3, <3>1
    <3> QED
      BY <2>1, <3>1, <3>2
  <2>5. l = body(l)
    <3> HIDE DEF add
    <3> QED
      BY <1>2, <2>3, <2>4
  <2> QED
    BY <2>5
<1>8. v = body(v)
  <2> HIDE DEF body
  <2> QED
    BY <1>7
<1>9. v[0] = <<0>> /\ \A i \in 1..n : v[i] = pass(i, v[i - 1])
  <2>1. \A i \in 0..n : v[i] = IF i = 0 THEN <<0>> ELSE pass(i, v[i - 1])
    <3> HIDE DEF v, add
    <3> QED
      BY <1>2, <1>8
  <2> HIDE DEF v, pass
  <2> QED
    BY <2>1
<1> HIDE DEF v
<1> DEFINE w == Word(text)
           Known(i) == /\ v[i] \in V
                       /\ Len(v[i]) = IF i <= w THEN 1 ELSE (i - w) \div 2 + 1
                       /\ \A k \in 1..Len(v[i]) : v[i][k] = IF w + 2 * k - 1 <= i THEN text[w + 2 * k - 1] ELSE 0
           S == {i \in Nat : i <= n => Known(i)}
<1>10. w \in {0, 1}
  BY DEF Word
<1>11. \A i \in (w + 1)..n : IF (i - w) % 2 = 0 THEN text[i] = Dot /\ i < n ELSE text[i] \in Digit
  BY <1>2 DEF OneDigit, Word
<1>12. w = 1 => text[1] \notin Digit \cup {Dot}
  BY DEF Word, HasWord, StartsWith, Digit, Dot, CoreApp, Standard
<1> HIDE DEF w
<1>13. S = Nat
  <2>1. 0 \in S
    <3>1. v[0] = <<0>> /\ Len(<<0>>) = 1 /\ <<0>>[1] = 0
      BY <1>9
    <3>2. \A k \in 1..1 : k = 1 /\ ~(w + 2 * k - 1 <= 0)
      BY <1>10
    <3>3. Known(0)
      BY <1>4, <1>10, <3>1, <3>2
    <3> QED
      BY <3>3
  <2>2. ASSUME NEW i \in S, i + 1 <= n PROVE Known(i + 1)
    <3>1. i \in Nat /\ i + 1 \in 1..n /\ (i + 1) - 1 = i /\ Known(i)
      BY <1>2, <2>2
    <3>2. v[i + 1] = pass(i + 1, v[i])
      BY <1>9, <3>1
    <3> DEFINE a == v[i]
               c == v[i + 1]
    <3>3. /\ a \in Seq(Int) /\ Len(a) \in Nat /\ Len(a) > 0
          /\ Len(a) = IF i <= w THEN 1 ELSE (i - w) \div 2 + 1
          /\ \A k \in 1..Len(a) : a[k] = IF w + 2 * k - 1 <= i THEN text[w + 2 * k - 1] ELSE 0
          /\ c \in V
      BY <1>6, <3>1, <3>2 DEF V
    <3>4. CASE i + 1 <= w
      <4>1. i = 0 /\ w = 1
        BY <1>10, <3>1, <3>4
      <4>2. c = a
        BY <1>12, <3>2, <4>1
      <4>3. Len(a) = 1 /\ \A k \in 1..1 : k = 1 /\ ~(w + 2 * k - 1 <= i) /\ ~(w + 2 * k - 1 <= i + 1)
        BY <3>3, <4>1
      <4> HIDE DEF a, c
      <4>4. \A k \in 1..Len(a) : a[k] = 0
        BY <3>3, <4>3
      <4>5. \A k \in 1..Len(c) : c[k] = IF w + 2 * k - 1 <= i + 1 THEN text[w + 2 * k - 1] ELSE 0
        BY <4>2, <4>3, <4>4
      <4>6. Len(c) = 1
        BY <4>2, <4>3
      <4> QED
        BY <3>3, <3>4, <4>5, <4>6 DEF c
    <3>5. CASE ~(i + 1 <= w)
      <4>1. PICK m \in Nat : i - w = 2 * m \/ i - w = 2 * m + 1
        <5>1. i - w \in Nat
          BY <1>10, <3>1, <3>5
        <5> QED
          BY <5>1, Halves
      <4>2. i + 1 \in (w + 1)..n
        BY <1>10, <3>1, <3>5
      <4>3. CASE i - w = 2 * m
        <5>1. ((i + 1) - w) % 2 = 1 /\ ((i + 1) - w) \div 2 = m /\ (i - w) \div 2 = m
          <6>1. (i + 1) - w = 2 * m + 1
            BY <1>10, <3>1, <4>3
          <6> QED
            BY <4>3, <6>1, Halves
        <5>2. Len(a) = m + 1
          <6>1. i <= w => m = 0
            BY <1>10, <3>1, <4>3
          <6> HIDE DEF a
          <6> QED
            BY <3>3, <5>1, <6>1
        <5>3. text[i + 1] \in Digit /\ text[i + 1] \in Int /\ text[i + 1] # Dot
          BY <1>11, <4>2, <5>1 DEF Digit, Dot
        <5>4. c = [a EXCEPT ![Len(a)] = 10 * a[Len(a)] + text[i + 1]]
          BY <3>2, <5>3
        <5>5. w + 2 * (m + 1) - 1 = i + 1
          <6>1. i \in Nat /\ w \in Nat
            BY <1>10, <3>1
          <6> QED
            BY <4>3, <6>1
        <5> HIDE DEF a, c
        <5>6. a[m + 1] = 0
          BY <1>10, <3>1, <3>3, <5>2, <5>5
        <5>7. DOMAIN a = 1..m + 1
          BY <3>3, <5>2
        <5>8. c[m + 1] = text[i + 1]
          BY <5>2, <5>3, <5>4, <5>6, <5>7
        <5>9. c \in Seq(Int)
          BY <3>3 DEF V
        <5>10. Len(c) = m + 1
          BY <3>3, <5>4, <5>7, <5>9
        <5>11. ASSUME NEW k \in 1..m + 1
               PROVE  c[k] = IF w + 2 * k - 1 <= i + 1 THEN text[w + 2 * k - 1] ELSE 0
          <6>1. w + 2 * k - 1 <= i + 1
            BY <1>10, <5>5
          <6>2. CASE k = m + 1
            BY <5>5, <5>8, <6>1, <6>2
          <6>3. CASE k # m + 1
            <7> k \in 1..m /\ i \in Nat /\ w \in Nat
              BY <1>10, <3>1, <6>3
            <7>1. k \in 1..Len(a) /\ w + 2 * k - 1 <= i
              <8>1. w + 2 * k - 1 <= w + 2 * m
                OBVIOUS
              <8> QED
                BY <4>3, <5>2, <8>1
            <7>2. c[k] = a[k]
              BY <5>2, <5>4, <5>7, <6>3
            <7> QED
              BY <3>3, <6>1, <7>1, <7>2
          <6> QED
            BY <6>2, <6>3
        <5>12. Len(c) = IF i + 1 <= w THEN 1 ELSE ((i + 1) - w) \div 2 + 1
          BY <3>5, <5>1, <5>10
        <5> QED
          BY <3>3, <5>10, <5>11, <5>12 DEF c
      <4>4. CASE i - w = 2 * m + 1
        <5>1. ((i + 1) - w) % 2 = 0 /\ ((i + 1) - w) \div 2 = m + 1 /\ (i - w) \div 2 = m
          <6> i \in Nat /\ w \in Nat
            BY <1>10, <3>1
          <6>1. (i + 1) - w = 2 * (m + 1) /\ m + 1 \in Nat
            BY <4>4
          <6> QED
            BY <4>4, <6>1, Halves
        <5>2. Len(a) = m + 1
          <6>1. ~(i <= w)
            BY <1>10, <3>1, <4>4
          <6> HIDE DEF a
          <6> QED
            BY <3>3, <5>1, <6>1
        <5>3. text[i + 1] = Dot
          BY <1>11, <4>2, <5>1
        <5>4. c = Append(a, 0)
          BY <3>2, <5>3
        <5> HIDE DEF a, c
        <5>5. Len(c) = m + 2 /\ c[m + 2] = 0 /\ \A k \in 1..m + 1 : c[k] = a[k]
          BY <3>3, <5>2, <5>4
        <5>6. ASSUME NEW k \in 1..m + 2
              PROVE  c[k] = IF w + 2 * k - 1 <= i + 1 THEN text[w + 2 * k - 1] ELSE 0
          <6>1. CASE k = m + 2
            <7>1. ~(w + 2 * k - 1 <= i + 1)
              BY <1>10, <3>1, <4>4, <6>1
            <7> QED
              BY <5>5, <6>1, <7>1
          <6>2. CASE k # m + 2
            <7>1. k \in 1..Len(a) /\ w + 2 * k - 1 <= i /\ w + 2 * k - 1 <= i + 1
              <8>1. k \in Nat /\ k <= m + 1 /\ 1 <= k /\ i = w + 2 * m + 1
                BY <1>10, <3>1, <4>4, <6>2
              <8> QED
                BY <1>10, <5>2, <8>1
            <7> QED
              BY <3>3, <5>2, <5>5, <7>1
          <6> QED
            BY <6>1, <6>2
        <5>7. Len(c) = IF i + 1 <= w THEN 1 ELSE ((i + 1) - w) \div 2 + 1
          BY <3>5, <5>1, <5>5
        <5> QED
          BY <3>3, <5>5, <5>6, <5>7 DEF c
      <4> QED
        BY <4>1, <4>3, <4>4
    <3> QED
      BY <3>4, <3>5
  <2>3. \A i \in S : i + 1 \in S
    BY <2>2
  <2>4. S \in SUBSET Nat
    OBVIOUS
  <2> HIDE DEF S
  <2> QED
    BY <2>1, <2>3, <2>4, EveryNumber
<1>14. Known(n)
  BY <1>13
<1>15. PICK d \in 1..n : text[d] = Dot
  BY <1>2 DEF HasDot, Text
<1>16. n > w
  <2>1. d # w
    BY <1>10, <1>12, <1>15
  <2> QED
    BY <1>2, <1>10, <1>15, <2>1
<1>17. PICK m \in Nat : n - w = 2 * m \/ n - w = 2 * m + 1
  <2>1. n - w \in Nat
    BY <1>10, <1>16
  <2> QED
    BY <2>1, Halves
<1>18. n - w = 2 * m + 1 /\ (n - w) \div 2 = m
  <2>1. n \in (w + 1)..n
    BY <1>10, <1>16
  <2>2. (n - w) % 2 # 0
    BY <1>11, <2>1
  <2> QED
    BY <1>17, <2>2, Halves
<1>19. Len(v[n]) = m + 1 /\ n = w + 2 * (m + 1) - 1
  BY <1>10, <1>14, <1>16, <1>18
<1>20. \A k \in 1..m + 1 : w + 2 * k - 1 <= n
  BY <1>10, <1>19
<1>21. v[n] \in V /\ \A k \in 1..m + 1 : v[n][k] = text[w + 2 * k - 1]
  BY <1>14, <1>19, <1>20
<1> QED
  BY <1>1, <1>2, <1>19, <1>21 DEF V, w

-----------------------------------------------------------------------------
(* Project files *)

AtMostOne(S) == \A x, y \in S : x = y

\* What the reader may know.
ReaderState == {s \in [at : Nat \ {0}, group : BOOLEAN, framework : SUBSET RawMoniker,
                       version : SUBSET RawMoniker, failed : BOOLEAN] :
                  AtMostOne(s.framework) /\ AtMostOne(s.version)}

\* Every round keeps that.
LEMMA RoundTypes ==
    ASSUME NEW file \in Seq(XmlEvent), NEW s \in ReaderState
    PROVE  Round(file, s) \in ReaderState
<1> DEFINE e == file[s.at]
           next == s.at + 1
           begins(name) == e.tag \in {"open", "empty"} /\ e.name = name
           value(old) == IF next \in DOMAIN file /\ file[next].tag = "text" THEN {file[next].value} ELSE old
           State == [at : Nat \ {0}, group : BOOLEAN, framework : SUBSET RawMoniker,
                     version : SUBSET RawMoniker, failed : BOOLEAN]
<1>1. s \in State /\ AtMostOne(s.framework) /\ AtMostOne(s.version)
  BY DEF ReaderState
<1>2. Len(file) \in Nat /\ Len(file) + 1 \in Nat \ {0} /\ next \in Nat \ {0} /\ s.at + 2 \in Nat \ {0}
  BY <1>1
<1>3. ASSUME NEW old \in SUBSET RawMoniker, AtMostOne(old)
      PROVE  value(old) \in SUBSET RawMoniker /\ AtMostOne(value(old))
  <2>1. \A i \in DOMAIN file : file[i] \in XmlEvent
    OBVIOUS
  <2>2. \A i \in DOMAIN file : file[i].value \in RawMoniker
    BY <2>1 DEF XmlEvent
  <2> QED
    BY <1>3, <2>2 DEF AtMostOne
<1> HIDE DEF value
<1>4. value(s.framework) \in SUBSET RawMoniker /\ AtMostOne(value(s.framework))
  BY <1>1, <1>3
<1>5. value(s.version) \in SUBSET RawMoniker /\ AtMostOne(value(s.version))
  BY <1>1, <1>3
<1>6. \/ Round(file, s) = s
      \/ Round(file, s) = [s EXCEPT !.at = Len(file) + 1, !.failed = TRUE]
      \/ Round(file, s) = [s EXCEPT !.at = next, !.group = TRUE]
      \/ Round(file, s) = [s EXCEPT !.at = s.at + 2, !.framework = value(s.framework)]
      \/ Round(file, s) = [s EXCEPT !.at = s.at + 2, !.version = value(s.version)]
      \/ Round(file, s) = [s EXCEPT !.at = next, !.group = FALSE]
      \/ Round(file, s) = [s EXCEPT !.at = next]
  BY <1>1 DEF Round, value
<1> QED
  BY <1>1, <1>2, <1>4, <1>5, <1>6 DEF ReaderState

\* The reader goes through the rounds one by one.
LEMMA ReaderRounds ==
    ASSUME NEW file \in Seq(XmlEvent)
    PROVE  \E f : /\ f[0] = ReaderStart /\ f[Len(file)] = Reader(file)
                  /\ \A k \in 0..Len(file) : f[k] \in ReaderState
                  /\ \A k \in 1..Len(file) : f[k] = Round(file, f[k - 1])
<1> DEFINE body(l) == [i \in 0..Len(file) |-> IF i = 0 THEN ReaderStart ELSE Round(file, l[i - 1])]
           after == CHOOSE l : l = body(l)
<1>1. Reader(file) = after[Len(file)] /\ Len(file) \in Nat
  BY DEF Reader
<1>2. PICK n \in Nat : n = Len(file)
  BY <1>1
<1>3. ReaderStart \in ReaderState
  BY DEF ReaderStart, ReaderState, AtMostOne
<1>4. \E l : l = body(l)
  <2>1. PICK g : g = [k \in Nat |-> [s \in ReaderState |-> Round(file, s)]]
    OBVIOUS
  <2>2. g \in Steps(ReaderState)
    BY <2>1, RoundTypes DEF Steps
  <2>3. PICK l : /\ l = [i \in 0..n |-> l[i]] /\ l[0] = ReaderStart
                 /\ \A k \in 0..n : l[k] \in ReaderState
                 /\ \A k \in 1..n : l[k] = g[k][l[k - 1]]
    BY <1>3, <2>2, SteppedTo
  <2>4. ASSUME NEW i \in 1..n PROVE l[i] = Round(file, l[i - 1])
    <3>1. i \in Nat /\ i - 1 \in 0..n
      OBVIOUS
    <3>2. l[i - 1] \in ReaderState /\ l[i] = g[i][l[i - 1]] /\ g[i] = [s \in ReaderState |-> Round(file, s)]
      BY <2>1, <2>3, <3>1
    <3> QED
      BY <3>2
  <2>5. l = body(l)
    BY <1>2, <2>3, <2>4
  <2> QED
    BY <2>5
<1>5. after = body(after)
  <2> HIDE DEF body
  <2> QED
    BY <1>4
<1>6. \A i \in 0..n : after[i] = IF i = 0 THEN ReaderStart ELSE Round(file, after[i - 1])
  <2> HIDE DEF after
  <2> QED
    BY <1>2, <1>5
<1> HIDE DEF after
<1>7. after[0] = ReaderStart /\ \A k \in 1..n : after[k] = Round(file, after[k - 1])
  BY <1>6
<1>8. \A k \in 0..n : after[k] \in ReaderState
  <2>1. \A k \in 1..n : after[k - 1] \in ReaderState => after[k] \in ReaderState
    BY <1>7, RoundTypes
  <2> QED
    BY <1>3, <1>7, <2>1, StaysIn
<1> QED
  BY <1>1, <1>2, <1>7, <1>8

\* The file begins or ends an element at p.
Opens(file, p, name) == file[p].tag = "open" /\ file[p].name = name
Closes(file, p, name) == file[p].tag = "close" /\ file[p].name = name

\* After p events the file stands in a property group.
InGroup(file, p) ==
    \E j \in 1..p : /\ Opens(file, j, "PropertyGroup")
                    /\ \A k \in j..p : ~Closes(file, k, "PropertyGroup")

\* Among the first p events, the texts of elements of that name in a property group,
\* and the last of them.
TextsOf(file, p, name) ==
    {i \in 2..p : file[i].tag = "text" /\ Opens(file, i - 1, name) /\ InGroup(file, i - 2)}
LastOf(file, p, name) ==
    {file[i].value : i \in {i \in TextsOf(file, p, name) : \A j \in TextsOf(file, p, name) : j <= i}}

Asked == {"TargetFramework", "TargetFrameworkVersion"}

\* What the reader knows is what the events it has read say, and no element that it has
\* opened is left to be looked into.
Faithful(file, s) ==
    /\ s.at \in 1..(Len(file) + 1)
    /\ s.group <=> InGroup(file, s.at - 1)
    /\ s.framework = LastOf(file, s.at - 1, "TargetFramework")
    /\ s.version = LastOf(file, s.at - 1, "TargetFrameworkVersion")
    /\ ~s.failed
    /\ \A name \in Asked : s.at > 1 /\ Opens(file, s.at - 1, name) => ~InGroup(file, s.at - 2)

\* An event that neither opens nor closes a group leaves the file in the group it is in.
LEMMA GroupStays ==
    ASSUME NEW file, NEW p \in Nat \ {0},
           ~Opens(file, p, "PropertyGroup"), ~Closes(file, p, "PropertyGroup")
    PROVE  InGroup(file, p) <=> InGroup(file, p - 1)
<1>1. ASSUME InGroup(file, p) PROVE InGroup(file, p - 1)
  <2>1. PICK j \in 1..p : /\ Opens(file, j, "PropertyGroup")
                          /\ \A k \in j..p : ~Closes(file, k, "PropertyGroup")
    BY <1>1 DEF InGroup
  <2>2. j \in 1..(p - 1) /\ \A k \in j..(p - 1) : k \in j..p
    BY <2>1
  <2> QED
    BY <2>1, <2>2 DEF InGroup
<1>2. ASSUME InGroup(file, p - 1) PROVE InGroup(file, p)
  <2>1. PICK j \in 1..(p - 1) : /\ Opens(file, j, "PropertyGroup")
                                /\ \A k \in j..(p - 1) : ~Closes(file, k, "PropertyGroup")
    BY <1>2 DEF InGroup
  <2>2. j \in 1..p /\ \A k \in j..p : k \in j..(p - 1) \/ k = p
    OBVIOUS
  <2> QED
    BY <2>1, <2>2 DEF InGroup
<1> QED
  BY <1>1, <1>2

\* An event that opens a group begins one, and one that closes a group ends it.
LEMMA GroupChanges ==
    ASSUME NEW file, NEW p \in Nat \ {0}
    PROVE  /\ Opens(file, p, "PropertyGroup") => InGroup(file, p)
           /\ Closes(file, p, "PropertyGroup") => ~InGroup(file, p)
<1>1. ASSUME Opens(file, p, "PropertyGroup") PROVE InGroup(file, p)
  <2>1. p \in 1..p /\ \A k \in p..p : k = p
    OBVIOUS
  <2>2. ~Closes(file, p, "PropertyGroup")
    BY <1>1 DEF Opens, Closes
  <2> QED
    BY <1>1, <2>1, <2>2 DEF InGroup
<1>2. ASSUME Closes(file, p, "PropertyGroup") PROVE ~InGroup(file, p)
  <2>1. \A j \in 1..p : p \in j..p
    OBVIOUS
  <2> QED
    BY <1>2, <2>1 DEF InGroup
<1> QED
  BY <1>1, <1>2

\* An event that is no text of such an element changes none of the last texts, and one
\* that is becomes the last.
LEMMA LastChanges ==
    ASSUME NEW file, NEW p \in Nat \ {0}, NEW name
    PROVE  /\ ~(file[p].tag = "text" /\ p > 1 /\ Opens(file, p - 1, name) /\ InGroup(file, p - 2)) =>
                 LastOf(file, p, name) = LastOf(file, p - 1, name)
           /\ (file[p].tag = "text" /\ p > 1 /\ Opens(file, p - 1, name) /\ InGroup(file, p - 2)) =>
                 LastOf(file, p, name) = {file[p].value}
<1>1. 2..p \subseteq 2..(p - 1) \cup {p} /\ 2..(p - 1) \subseteq 2..p /\ (p \in 2..p <=> p > 1)
  OBVIOUS
<1>2. ASSUME ~(file[p].tag = "text" /\ p > 1 /\ Opens(file, p - 1, name) /\ InGroup(file, p - 2))
      PROVE  LastOf(file, p, name) = LastOf(file, p - 1, name)
  <2>1. TextsOf(file, p, name) = TextsOf(file, p - 1, name)
    BY <1>1, <1>2 DEF TextsOf
  <2> QED
    BY <2>1 DEF LastOf
<1>3. ASSUME file[p].tag = "text", p > 1, Opens(file, p - 1, name), InGroup(file, p - 2)
      PROVE  LastOf(file, p, name) = {file[p].value}
  <2>1. p \in TextsOf(file, p, name)
    BY <1>1, <1>3 DEF TextsOf
  <2>2. \A i \in TextsOf(file, p, name) : i \in Nat /\ i <= p
    BY DEF TextsOf
  <2>3. {i \in TextsOf(file, p, name) : \A j \in TextsOf(file, p, name) : j <= i} = {p}
    BY <2>1, <2>2
  <2> QED
    BY <2>3 DEF LastOf
<1> QED
  BY <1>2, <1>3

\* A reader that is faithful to a plain file remains so.
LEMMA FaithfulRound ==
    ASSUME NEW file \in Seq(XmlEvent), Plain(file), NEW s \in ReaderState, Faithful(file, s)
    PROVE  /\ Faithful(file, Round(file, s))
           /\ s.at = Len(file) + 1 => Round(file, s).at = Len(file) + 1
           /\ s.at <= Len(file) => Round(file, s).at > s.at
<1> DEFINE e == file[s.at]
           t == Round(file, s)
           LF(p) == LastOf(file, p, "TargetFramework")
           LV(p) == LastOf(file, p, "TargetFrameworkVersion")
<1>1. /\ s.at \in Nat \ {0} /\ Len(file) \in Nat /\ s.at <= Len(file) + 1
      /\ s = [at |-> s.at, group |-> s.group, framework |-> s.framework,
              version |-> s.version, failed |-> s.failed]
      /\ s.group \in BOOLEAN /\ (s.at + 1) - 1 = s.at /\ (s.at + 1) - 2 = s.at - 1
      /\ (s.at + 2) - 1 = s.at + 1 /\ (s.at + 2) - 2 = s.at /\ s.at + 1 > 1 /\ s.at + 2 > 1
  BY DEF Faithful, ReaderState
<1>2. CASE s.at > Len(file)
  <2>1. t = s
    BY <1>2 DEF Round
  <2> QED
    BY <1>1, <1>2, <2>1
<1>3. CASE s.at <= Len(file)
  <2>1. /\ s.at \in DOMAIN file /\ s.at + 1 \in 1..(Len(file) + 1)
        /\ ~(s.at > Len(file)) /\ s.at + 1 > s.at /\ s.at + 2 > s.at
    BY <1>1, <1>3
  <2>2. e.tag \notin {"empty", "error"}
    BY <2>1 DEF Plain
  <2>3. CASE Opens(file, s.at, "PropertyGroup")
    <3>1. t = [s EXCEPT !.at = s.at + 1, !.group = TRUE]
      BY <2>1, <2>2, <2>3 DEF Round, Opens
    <3>2. t = [at |-> s.at + 1, group |-> TRUE, framework |-> s.framework,
               version |-> s.version, failed |-> s.failed]
      BY <1>1, <3>1
    <3>3. InGroup(file, s.at)
      BY <1>1, <2>3, GroupChanges
    <3>4. LF(s.at) = LF(s.at - 1) /\ LV(s.at) = LV(s.at - 1)
      BY <1>1, <2>3, LastChanges DEF Opens
    <3>5. \A name \in Asked : ~Opens(file, s.at, name)
      BY <2>3 DEF Opens, Asked
    <3> HIDE DEF t, e
    <3>6. /\ t.at = s.at + 1 /\ t.group = TRUE /\ t.failed = s.failed
          /\ t.framework = LF(s.at) /\ t.version = LV(s.at)
      BY <3>2, <3>4 DEF Faithful
    <3>7. t.at - 1 = s.at /\ t.at - 2 = s.at - 1 /\ t.at \in 1..(Len(file) + 1) /\ t.at > s.at
      BY <1>1, <2>1, <3>6
    <3>8. Faithful(file, t)
      BY <3>3, <3>5, <3>6, <3>7 DEF Faithful
    <3> QED
      BY <1>1, <1>3, <3>7, <3>8 DEF t
  <2>4. CASE Closes(file, s.at, "PropertyGroup")
    <3>1. t = [s EXCEPT !.at = s.at + 1, !.group = FALSE]
      BY <2>1, <2>2, <2>4 DEF Round, Closes
    <3>2. t = [at |-> s.at + 1, group |-> FALSE, framework |-> s.framework,
               version |-> s.version, failed |-> s.failed]
      BY <1>1, <3>1
    <3>3. ~InGroup(file, s.at)
      BY <1>1, <2>4, GroupChanges
    <3>4. LF(s.at) = LF(s.at - 1) /\ LV(s.at) = LV(s.at - 1)
      BY <1>1, <2>4, LastChanges DEF Closes
    <3>5. \A name \in Asked : ~Opens(file, s.at, name)
      BY <2>4 DEF Opens, Closes
    <3> HIDE DEF t, e
    <3>6. /\ t.at = s.at + 1 /\ t.group = FALSE /\ t.failed = s.failed
          /\ t.framework = LF(s.at) /\ t.version = LV(s.at)
      BY <3>2, <3>4 DEF Faithful
    <3>7. t.at - 1 = s.at /\ t.at - 2 = s.at - 1 /\ t.at \in 1..(Len(file) + 1) /\ t.at > s.at
      BY <1>1, <2>1, <3>6
    <3>8. Faithful(file, t)
      BY <3>3, <3>5, <3>6, <3>7 DEF Faithful
    <3> QED
      BY <1>1, <1>3, <3>7, <3>8 DEF t
  <2>5. CASE s.group /\ \E name \in Asked : Opens(file, s.at, name)
    <3> DEFINE next == s.at + 1
               says == file[next].tag = "text"
    <3>1. PICK name \in Asked : Opens(file, s.at, name)
      BY <2>5
    <3>2. name # "PropertyGroup" /\ e.tag = "open" /\ e.name = name
      BY <3>1 DEF Asked, Opens
    <3>3. next \in DOMAIN file /\ (says \/ Closes(file, next, name)) /\ s.at + 2 \in 1..(Len(file) + 1)
      <4>1. s.at < Len(file)
        BY <2>1, <3>2 DEF Plain
      <4>2. file[next].tag = "text" \/ (file[next].tag = "close" /\ file[next].name = e.name)
        BY <2>1, <3>2 DEF Plain
      <4> QED
        BY <1>1, <3>2, <4>1, <4>2 DEF Closes
    <3>4. InGroup(file, s.at - 1)
      BY <2>5 DEF Faithful
    <3>5. InGroup(file, next)
      <4>1. InGroup(file, s.at)
        BY <1>1, <3>2, <3>4, GroupStays DEF Opens, Closes
      <4>2. ~Opens(file, next, "PropertyGroup") /\ ~Closes(file, next, "PropertyGroup")
        BY <3>2, <3>3 DEF Opens, Closes
      <4> QED
        BY <1>1, <4>1, <4>2, GroupStays
    <3>6. LF(s.at) = LF(s.at - 1) /\ LV(s.at) = LV(s.at - 1)
      BY <1>1, <3>2, LastChanges
    <3>7. \A other \in Asked :
             LastOf(file, next, other) = IF other = name /\ says THEN {file[next].value}
                                         ELSE LastOf(file, s.at, other)
      <4>1. next \in Nat \ {0} /\ next > 1 /\ next - 1 = s.at /\ next - 2 = s.at - 1
        BY <1>1
      <4>2. \A other \in Asked : Opens(file, s.at, other) <=> other = name
        BY <3>1 DEF Opens
      <4> HIDE DEF next
      <4> QED
        BY <3>4, <4>1, <4>2, LastChanges
    <3>8. \A other \in Asked : ~Opens(file, next, other)
      BY <3>3 DEF Opens, Closes
    <3>9. t = IF name = "TargetFramework"
              THEN [s EXCEPT !.at = s.at + 2, !.framework = IF says THEN {file[next].value} ELSE s.framework]
              ELSE [s EXCEPT !.at = s.at + 2, !.version = IF says THEN {file[next].value} ELSE s.version]
      <4>1. CASE name = "TargetFramework"
        BY <2>1, <2>2, <2>5, <3>2, <3>3, <4>1 DEF Round
      <4>2. CASE name = "TargetFrameworkVersion"
        BY <2>1, <2>2, <2>5, <3>2, <3>3, <4>2 DEF Round
      <4> QED
        BY <4>1, <4>2 DEF Asked
    <3> HIDE DEF t, e, next, says
    <3>10. /\ t.at = s.at + 2 /\ t.group = s.group /\ t.failed = s.failed
           /\ t.framework = (IF name = "TargetFramework" /\ says THEN {file[next].value} ELSE s.framework)
           /\ t.version = (IF name = "TargetFrameworkVersion" /\ says THEN {file[next].value}
                           ELSE s.version)
      <4>1. CASE name = "TargetFramework"
        <5>1. t = [s EXCEPT !.at = s.at + 2, !.framework = IF says THEN {file[next].value} ELSE s.framework]
          BY <3>9, <4>1
        <5> QED
          BY <1>1, <4>1, <5>1
      <4>2. CASE name = "TargetFrameworkVersion"
        <5>1. t = [s EXCEPT !.at = s.at + 2, !.version = IF says THEN {file[next].value} ELSE s.version]
          BY <3>9, <4>2
        <5> QED
          BY <1>1, <4>2, <5>1
      <4> QED
        BY <4>1, <4>2 DEF Asked
    <3>11. t.framework = LF(next) /\ t.version = LV(next)
      BY <3>6, <3>7, <3>10 DEF Faithful, Asked
    <3>12. t.at - 1 = next /\ t.at \in 1..(Len(file) + 1) /\ t.at > s.at
      BY <1>1, <2>1, <3>3, <3>10 DEF next
    <3>13. Faithful(file, t)
      BY <2>5, <3>5, <3>8, <3>10, <3>11, <3>12 DEF Faithful
    <3> QED
      BY <1>1, <1>3, <3>12, <3>13 DEF t
  <2>6. CASE /\ ~Opens(file, s.at, "PropertyGroup") /\ ~Closes(file, s.at, "PropertyGroup")
             /\ ~(s.group /\ \E name \in Asked : Opens(file, s.at, name))
    <3>1. t = [s EXCEPT !.at = s.at + 1]
      BY <2>1, <2>2, <2>6 DEF Round, Opens, Closes, Asked
    <3>2. t = [at |-> s.at + 1, group |-> s.group, framework |-> s.framework,
               version |-> s.version, failed |-> s.failed]
      BY <1>1, <3>1
    <3>3. InGroup(file, s.at) <=> InGroup(file, s.at - 1)
      BY <1>1, <2>6, GroupStays
    <3>4. LF(s.at) = LF(s.at - 1) /\ LV(s.at) = LV(s.at - 1)
      <4>1. \A name \in Asked : s.at > 1 /\ Opens(file, s.at - 1, name) => ~InGroup(file, s.at - 2)
        BY DEF Faithful
      <4> QED
        BY <1>1, <4>1, LastChanges DEF Asked
    <3>5. \A name \in Asked : Opens(file, s.at, name) => ~InGroup(file, s.at - 1)
      BY <2>6 DEF Faithful
    <3> HIDE DEF t, e
    <3>6. /\ t.at = s.at + 1 /\ t.group = s.group /\ t.failed = s.failed
          /\ t.framework = LF(s.at) /\ t.version = LV(s.at)
      BY <3>2, <3>4 DEF Faithful
    <3>7. t.at - 1 = s.at /\ t.at - 2 = s.at - 1 /\ t.at \in 1..(Len(file) + 1) /\ t.at > s.at
      BY <1>1, <2>1, <3>6
    <3>8. Faithful(file, t)
      BY <3>3, <3>5, <3>6, <3>7 DEF Faithful
    <3> QED
      BY <1>1, <1>3, <3>7, <3>8 DEF t
  <2> QED
    BY <2>3, <2>4, <2>5, <2>6
<1> QED
  BY <1>1, <1>2, <1>3

\* The reader takes from a plain file what its elements say.
LEMMA ReaderIsFaithful ==
    ASSUME NEW file \in Seq(XmlEvent), Plain(file)
    PROVE  Chosen(file) = Declared(file)
<1>1. PICK f : /\ f[0] = ReaderStart /\ f[Len(file)] = Reader(file)
               /\ \A k \in 0..Len(file) : f[k] \in ReaderState
               /\ \A k \in 1..Len(file) : f[k] = Round(file, f[k - 1])
  BY ReaderRounds
<1>2. PICK n \in Nat : n = Len(file)
  OBVIOUS
<1> DEFINE good(k) == Faithful(file, f[k]) /\ (f[k].at > k \/ f[k].at = n + 1)
<1>3. good(0)
  <2>1. ~InGroup(file, 0) /\ \A name : TextsOf(file, 0, name) = {}
    BY DEF InGroup, TextsOf
  <2>2. \A name : LastOf(file, 0, name) = {}
    BY <2>1 DEF LastOf
  <2> QED
    BY <1>1, <1>2, <2>1, <2>2 DEF Faithful, ReaderStart
<1>4. \A k \in 1..n : good(k - 1) => good(k)
  <2>1. SUFFICES ASSUME NEW k \in 1..n, good(k - 1) PROVE good(k)
    OBVIOUS
  <2>2. k - 1 \in 0..n /\ k \in 0..n /\ k \in Nat
    OBVIOUS
  <2>3. f[k - 1] \in ReaderState /\ f[k] \in ReaderState /\ f[k] = Round(file, f[k - 1])
    BY <1>1, <1>2, <2>2
  <2>4. f[k - 1].at \in 1..(n + 1) /\ f[k].at \in Nat
    BY <1>2, <2>1, <2>3 DEF Faithful, ReaderState
  <2>5. /\ Faithful(file, f[k])
        /\ f[k - 1].at = n + 1 => f[k].at = n + 1
        /\ f[k - 1].at <= n => f[k].at > f[k - 1].at
    BY <1>2, <2>1, <2>3, FaithfulRound
  <2> QED
    BY <2>1, <2>2, <2>4, <2>5
<1>5. good(n)
  <2> DEFINE r == [k \in 0..n |-> good(k)]
  <2>1. r[0] \in {TRUE} /\ \A k \in 1..n : r[k - 1] \in {TRUE} => r[k] \in {TRUE}
    <3>1. 0 \in 0..n /\ \A k \in 1..n : k \in 0..n /\ k - 1 \in 0..n
      OBVIOUS
    <3> HIDE DEF good
    <3> QED
      BY <1>3, <1>4, <3>1
  <2> HIDE DEF r
  <2>2. \A k \in 0..n : r[k] \in {TRUE}
    BY <2>1, StaysIn
  <2>3. n \in 0..n
    OBVIOUS
  <2> HIDE DEF good
  <2> QED
    BY <2>2, <2>3 DEF r
<1>6. PICK end : end = Reader(file)
  OBVIOUS
<1>7. Faithful(file, end) /\ end.at = n + 1
  <2>1. Faithful(file, end) /\ (end.at > n \/ end.at = n + 1)
    BY <1>1, <1>2, <1>5, <1>6
  <2>2. end.at \in 1..(n + 1)
    BY <1>2, <2>1 DEF Faithful
  <2> QED
    BY <2>1, <2>2
<1>8. ASSUME NEW name \in Asked PROVE LastOf(file, n, name) = LastIn(file, name)
  <2> DEFINE inGroup(i) == \E j \in 1..(i - 1) :
                 /\ file[j].tag = "open" /\ file[j].name = "PropertyGroup"
                 /\ \A k \in j..i : ~(file[k].tag = "close" /\ file[k].name = "PropertyGroup")
             at == {i \in 2..Len(file) : /\ file[i].tag = "text"
                                         /\ file[i - 1].tag = "open" /\ file[i - 1].name = name
                                         /\ inGroup(i)}
  <2>1. ASSUME NEW i \in 2..n, file[i].tag = "text", Opens(file, i - 1, name)
        PROVE  InGroup(file, i - 2) <=> inGroup(i)
    <3>1. ~Closes(file, i, "PropertyGroup") /\ ~Closes(file, i - 1, "PropertyGroup")
            /\ ~Opens(file, i, "PropertyGroup") /\ ~Opens(file, i - 1, "PropertyGroup")
      BY <2>1 DEF Closes, Opens, Asked
    <3>2. i \in Nat \ {0} /\ i - 1 \in Nat \ {0} /\ (i - 1) - 1 = i - 2
      OBVIOUS
    <3>3. InGroup(file, i) <=> InGroup(file, i - 2)
      BY <3>1, <3>2, GroupStays
    <3>4. InGroup(file, i) <=> inGroup(i)
      <4>1. 1..i = 1..(i - 1) \cup {i}
        BY <3>2
      <4> QED
        BY <3>1, <4>1 DEF InGroup, Opens, Closes
    <3> QED
      BY <3>3, <3>4
  <2>2. TextsOf(file, n, name) = at
    <3> HIDE DEF inGroup
    <3> QED
      BY <1>2, <2>1 DEF TextsOf, Opens
  <2> QED
    BY <2>2 DEF LastOf, LastIn
<1>9. end.framework = LastIn(file, "TargetFramework")
        /\ end.version = LastIn(file, "TargetFrameworkVersion") /\ ~end.failed
  <2>1. end.at - 1 = n
    BY <1>7
  <2> QED
    BY <1>7, <1>8, <2>1 DEF Faithful, Asked
<1> QED
  BY <1>6, <1>9 DEF Chosen, Declared

-----------------------------------------------------------------------------
(* Monikers *)

\* A project file gives one moniker at most.
LEMMA ChosenOne ==
    ASSUME NEW file \in Seq(XmlEvent)
    PROVE  Chosen(file) \in SUBSET RawMoniker /\ AtMostOne(Chosen(file))
<1>1. Reader(file) \in ReaderState
  <2>1. PICK f : f[Len(file)] = Reader(file) /\ \A k \in 0..Len(file) : f[k] \in ReaderState
    BY ReaderRounds
  <2>2. Len(file) \in 0..Len(file)
    OBVIOUS
  <2> QED
    BY <2>1, <2>2
<1> DEFINE end == Reader(file)
<1>2. /\ end.framework \in SUBSET RawMoniker /\ AtMostOne(end.framework)
      /\ end.version \in SUBSET RawMoniker /\ AtMostOne(end.version)
  BY <1>1 DEF ReaderState
<1>3. AtMostOne({})
  BY DEF AtMostOne
<1> QED
  BY <1>2, <1>3 DEF Chosen

\* A moniker has one standard form at most, which is a text.
LEMMA NormalizeOne ==
    ASSUME NEW raw \in RawMoniker
    PROVE  normalize(raw) \in SUBSET Text /\ AtMostOne(normalize(raw))
<1>1. raw.text \in Text /\ raw.form \in {"v", "net", "other"}
  BY DEF RawMoniker, Text
<1>2. Without(raw.text, Dot) \in Text
  BY <1>1, WithoutIt
<1> QED
  BY <1>1, <1>2 DEF normalize, AtMostOne

LEMMA FrameworkOne ==
    ASSUME NEW file \in Seq(XmlEvent)
    PROVE  from_csproj(file) \in SUBSET Text /\ AtMostOne(from_csproj(file)) /\ IsFiniteSet(from_csproj(file))
<1>1. \A raw \in Chosen(file) : normalize(raw) \in SUBSET Text /\ AtMostOne(normalize(raw))
  BY ChosenOne, NormalizeOne
<1>2. from_csproj(file) \in SUBSET Text
  BY <1>1 DEF from_csproj
<1>3. AtMostOne(from_csproj(file))
  <2>1. SUFFICES ASSUME NEW x \in from_csproj(file), NEW y \in from_csproj(file) PROVE x = y
    BY DEF AtMostOne
  <2>2. PICK r \in Chosen(file) : x \in normalize(r)
    BY DEF from_csproj
  <2>3. PICK q \in Chosen(file) : y \in normalize(q)
    BY DEF from_csproj
  <2>4. r = q
    BY ChosenOne DEF AtMostOne
  <2> QED
    BY <1>1, <2>2, <2>3, <2>4 DEF AtMostOne
<1>4. CASE from_csproj(file) = {}
  BY <1>2, <1>3, <1>4, FS_EmptySet
<1>5. CASE from_csproj(file) # {}
  <2>1. PICK x : x \in from_csproj(file)
    BY <1>5
  <2>2. from_csproj(file) = {x}
    BY <1>3, <2>1 DEF AtMostOne
  <2> QED
    BY <1>2, <1>3, <2>2, FS_Singleton
<1> QED
  BY <1>4, <1>5

\* The frameworks of a directory are finitely many texts.
LEMMA FrameworksFinite ==
    ASSUME NEW projects \in SUBSET Seq(XmlEvent), IsFiniteSet(projects)
    PROVE  Frameworks(projects) \in SUBSET Text /\ IsFiniteSet(Frameworks(projects))
<1> DEFINE T == {from_csproj(p) : p \in projects}
           f == [p \in projects |-> from_csproj(p)]
<1>1. \A p \in projects : from_csproj(p) \in SUBSET Text /\ IsFiniteSet(from_csproj(p))
  BY FrameworkOne
<1>2. Frameworks(projects) = UNION T
  BY DEF Frameworks
<1>3. f \in Surjection(projects, T)
  BY DEF Surjection
<1>4. IsFiniteSet(T)
  <2> HIDE DEF f, T
  <2> QED
    BY <1>3, FS_Surjection
<1>5. \A t \in T : IsFiniteSet(t) /\ t \in SUBSET Text
  BY <1>1
<1>6. IsFiniteSet(UNION T) /\ UNION T \in SUBSET Text
  <2> HIDE DEF T
  <2>1. IsFiniteSet(UNION T)
    BY <1>4, <1>5, FS_UNION
  <2> QED
    BY <1>5, <2>1
<1> QED
  BY <1>2, <1>6

\* The earliest of them is one of them, and no other comes before it.
LEMMA EarliestIsFirst ==
    ASSUME NEW projects \in SUBSET Seq(XmlEvent), IsFiniteSet(projects), Frameworks(projects) # {}
    PROVE  /\ Earliest(projects) \in Frameworks(projects)
           /\ Earliest(projects) \in Text
           /\ \A b \in Frameworks(projects) : Earliest(projects) = b \/ Before(Earliest(projects), b)
<1> DEFINE F == Frameworks(projects)
<1>1. F \in SUBSET Text /\ IsFiniteSet(F)
  BY FrameworksFinite
<1>2. \E a \in F : \A b \in F : a = b \/ Before(a, b)
  <2>1. F \in SUBSET Seq(Int) /\ IsFiniteSet(F) /\ F # {}
    BY <1>1, TokensAreNumbers
  <2> HIDE DEF F
  <2> QED
    BY <2>1, FirstText
<1>3. Earliest(projects) \in F /\ \A b \in F : Earliest(projects) = b \/ Before(Earliest(projects), b)
  BY <1>2 DEF Earliest
<1> QED
  BY <1>1, <1>3

\* A served moniker is taken for a modern one, and the script can be asked for it.
LEMMA ServedIsModern ==
    ASSUME NEW raw \in RawMoniker, NEW t \in normalize(raw), Served(t)
    PROVE  is_modern_dotnet(t) /\ to_channel(t) # {}
<1>1. t \in Text
  BY NormalizeOne
<1>2. CASE StartsWith(t, CoreApp) \/ StartsWith(t, Standard)
  BY <1>2 DEF is_modern_dotnet, to_channel
<1>3. CASE ~StartsWith(t, CoreApp) /\ ~StartsWith(t, Standard)
  <2>1. HasDot(t) /\ OneDigit(t)
    BY <1>3 DEF Served
  <2>2. to_channel(t) # {}
    BY <1>3, <2>1 DEF to_channel
  <2>3. MajorIn(t, Nat \ 0..4)
    <3>1. raw.form = "net"
      <4>1. raw.text \in Text /\ raw.form \in {"v", "net", "other"}
        BY DEF RawMoniker, Text
      <4>2. raw.form = "v" => t = Without(raw.text, Dot)
        BY DEF normalize
      <4>3. ~HasDot(Without(raw.text, Dot))
        BY <4>1, WithoutIt DEF HasDot
      <4>4. raw.form # "other"
        BY DEF normalize
      <4> QED
        BY <2>1, <4>1, <4>2, <4>3, <4>4
    <3>2. is_valid_base_tfm(t)
      BY <3>1 DEF normalize
    <3> QED
      BY <1>3, <2>1, <3>2 DEF is_valid_base_tfm
  <2>4. \A i \in 1..Len(t) : IF i % 2 = 0 THEN t[i] = Dot ELSE t[i] \in Digit
    <3>1. \A i \in (0 + 1)..Len(t) :
             IF HasDot(t) /\ (i - 0) % 2 = 0 THEN t[i] = Dot /\ i < Len(t) ELSE t[i] \in Digit
      BY <1>3, <2>1 DEF OneDigit, HasWord
    <3> QED
      BY <2>1, <3>1
  <2>5. Len(t) \in Nat /\ DOMAIN t = 1..Len(t) /\ \A d \in Digit : d # Dot
    BY <1>1 DEF Text, Digit, Dot
  <2>6. PICK i \in 1..Len(t) : t[i] = Dot
    BY <2>1, <2>5 DEF HasDot
  <2>7. i # 1
    BY <2>4, <2>5, <2>6
  <2>8. 2 \in 1..Len(t) /\ 1 \in 1..Len(t)
    BY <2>5, <2>6, <2>7
  <2>9. t[1] \in Digit /\ t[2] = Dot
    BY <2>4, <2>8
  <2>10. FirstAt(t, Dot) = 2
    <3>1. 2 \in DOMAIN t /\ t[2] = Dot /\ \A j \in 1..(2 - 1) : t[j] # Dot
      BY <2>5, <2>8, <2>9
    <3>2. ASSUME NEW k \in DOMAIN t, t[k] = Dot, \A j \in 1..(k - 1) : t[j] # Dot
          PROVE  k = 2
      <4>1. k # 1
        BY <2>5, <2>9, <3>2
      <4>2. CASE k > 2
        <5>1. 2 \in 1..(k - 1)
          BY <2>5, <4>2
        <5> QED
          BY <2>9, <3>2, <5>1
      <4> QED
        BY <2>5, <4>1, <4>2
    <3>3. \A k \in DOMAIN t : (t[k] = Dot /\ \A j \in 1..(k - 1) : t[j] # Dot) <=> k = 2
      BY <3>1, <3>2
    <3> QED
      BY <3>1, <3>3 DEF FirstAt
  <2> DEFINE major == SubSeq(t, 1, 1)
  <2>11. major \in Seq(Int) /\ Len(major) = 1 /\ major[1] = t[1]
    BY <1>1, <2>8, <2>9, TokensAreNumbers DEF Digit, Text
  <2>12. Number(major) \in Nat \ 0..4
    <3>1. FirstAt(t, Dot) - 1 = 1
      BY <2>10
    <3> QED
      BY <2>3, <3>1 DEF MajorIn
  <2>13. t[1] \in Nat \ 0..4
    <3> HIDE DEF major
    <3> QED
      BY <2>11, <2>12, NumberOfDigit
  <2>14. is_modern_dotnet(t)
    BY <2>13 DEF is_modern_dotnet, StartsWith
  <2> QED
    BY <2>2, <2>14
<1> QED
  BY <1>2, <1>3

-----------------------------------------------------------------------------
(* The loader *)

\* The files that the loader is to store.
Due == Wanted \ (input.gone \cup input.broken)

\* The loader has not begun.
Untouched ==
    phase \in {"tools", "detect", "find", "install", "files"} =>
        todo = {} /\ graph = {} /\ tags = {} /\ db = {} /\ ~path

\* Every file is counted once, when it is noted.
Counted ==
    /\ count = Cardinality(tags)
    /\ todo \cap tags = {}
    /\ phase = "index" => db = {}

\* No file is lost between the directory and the store.
Accounted ==
    /\ phase \in {"index", "open", "store", "mark"} => Due \subseteq todo \cup tags
    /\ phase \in {"open", "store", "mark"} => todo = {}
    /\ phase = "mark" => tags \subseteq db

\* The end of the task: its answer, and the path.
Settled ==
    /\ outcome = "loaded" => phase = "done" /\ tags \subseteq db
    /\ path => phase = "done" /\ Due \subseteq db

IInv == input \in Inputs /\ TypeOK /\ Untouched /\ Counted /\ Accounted /\ Settled

-----------------------------------------------------------------------------
\* The SDKs among which find_sdk chooses are directories of the input.
LEMMA FoundIsRefDir ==
    ASSUME NEW in \in Inputs, NEW configured, configured \subseteq {in.configured},
           NEW t, NEW sdk \in find_sdk(in, configured, t)
    PROVE  sdk \subseteq RefDir
<1>1. sdk = in.configured \/ \E i \in DOMAIN in.system : sdk = in.system[i]
    <2>1. sdk \in configured \/ \E i \in DOMAIN in.system : sdk = in.system[i]
        BY DEF find_sdk
    <2>2. QED BY <2>1
<1>2. in.configured \subseteq RefDir /\ \A i \in DOMAIN in.system : in.system[i] \subseteq RefDir
    BY InputAssumption
<1>3. QED BY <1>1, <1>2

\* The XML files of an SDK are files.
LEMMA WantedAreFiles == TypeOK => Wanted \subseteq File
<1>1. ASSUME TypeOK, NEW f \in Wanted PROVE f \in File
    <2>1. root \subseteq RefDir BY <1>1 DEF TypeOK
    <2>2. PICK d \in root : f \in d.files
        BY <1>1 DEF Wanted, find_sdk_xml_files
    <2>3. QED BY <2>1, <2>2 DEF RefDir
<1>2. QED BY <1>1

\* No file is in the loader's sets before a file is looked for.
LEMMA Initial == Init => IInv
<1>1. SUFFICES ASSUME Init PROVE IInv OBVIOUS
<1>2. Cardinality({}) = 0 BY FS_EmptySet
<1>3. TypeOK BY <1>1, <1>2 DEF Init, TypeOK, Phases
<1>4. QED
    BY <1>1, <1>2, <1>3 DEF Init, IInv, Untouched, Counted, Accounted, Settled

\* Each step keeps the types and what is known of the loader's sets.
LEMMA Inductive == IInv /\ [Next]_vars => IInv'
<1>0. SUFFICES ASSUME IInv, [Next]_vars PROVE IInv' OBVIOUS
<1>a. input \in Inputs /\ TypeOK /\ Untouched /\ Counted /\ Accounted /\ Settled
    BY <1>0 DEF IInv
<1>w. Wanted \subseteq File BY <1>a, WantedAreFiles
<1>f. IsFiniteSet(tags)
    BY <1>a, InputAssumption, FS_Subset DEF TypeOK
<1>1. CASE GetTools
    <2>1. input' \in Inputs BY <1>a, <1>1 DEF GetTools
    <2>2. InstallScript(input) \in BOOLEAN BY DEF InstallScript
    <2>3. ConfiguredRoot(input) \subseteq {input.configured} BY DEF ConfiguredRoot
    <2>4. TypeOK' BY <1>a, <1>1, <2>2, <2>3 DEF GetTools, TypeOK, Phases, Stop, work
    <2>5. Untouched' /\ Counted' /\ Settled'
        BY <1>a, <1>1 DEF GetTools, Untouched, Counted, Settled, Stop, work
    <2>6. Accounted' BY <1>a, <1>1 DEF GetTools, Accounted, Stop, work
    <2>7. QED BY <2>1, <2>4, <2>5, <2>6 DEF IInv
<1>2. CASE Detect
    <2>1. input' \in Inputs BY <1>a, <1>2 DEF Detect
    <2>4. TypeOK' BY <1>a, <1>2 DEF Detect, TypeOK, Phases, Stop, work
    <2>5. Untouched' /\ Counted' /\ Settled'
        BY <1>a, <1>2 DEF Detect, Untouched, Counted, Settled, Stop, work
    <2>6. Accounted' BY <1>a, <1>2 DEF Detect, Accounted, Stop, work
    <2>7. QED BY <2>1, <2>4, <2>5, <2>6 DEF IInv
<1>3. CASE FindSdk
    <2>1. input' \in Inputs BY <1>a, <1>3 DEF FindSdk
    <2>2. tools.root \subseteq {input.configured} BY <1>a DEF TypeOK
    <2>3. root' \subseteq RefDir
        BY <1>a, <1>3, <2>2, FoundIsRefDir DEF FindSdk, TypeOK
    <2>4. TypeOK' BY <1>a, <1>3, <2>3 DEF FindSdk, TypeOK, Phases, Stop, work
    <2>5. Untouched' /\ Counted' /\ Settled'
        BY <1>a, <1>3 DEF FindSdk, Untouched, Counted, Settled, Stop, work
    <2>6. Accounted' BY <1>a, <1>3 DEF FindSdk, Accounted, Stop, work
    <2>7. QED BY <2>1, <2>4, <2>5, <2>6 DEF IInv
<1>4. CASE Install
    <2>1. input' \in Inputs BY <1>a, <1>4 DEF Install
    <2>2. input.installed \subseteq RefDir BY <1>a, InputAssumption
    <2>4. TypeOK' BY <1>a, <1>4, <2>2 DEF Install, TypeOK, Phases, Stop, work
    <2>5. Untouched' /\ Counted' /\ Settled'
        BY <1>a, <1>4 DEF Install, Untouched, Counted, Settled, Stop, work
    <2>6. Accounted' BY <1>a, <1>4 DEF Install, Accounted, Stop, work
    <2>7. QED BY <2>1, <2>4, <2>5, <2>6 DEF IInv
<1>5. CASE FindFiles
    <2>1. input' \in Inputs BY <1>a, <1>5 DEF FindFiles
    <2>2. Wanted' = Wanted BY <1>a, <1>5 DEF FindFiles, Wanted
    <2>3. tags = {} /\ db = {} /\ ~path BY <1>a, <1>5 DEF FindFiles, Untouched
    <2>4. TypeOK' BY <1>a, <1>5, <1>w DEF FindFiles, TypeOK, Phases, Stop
    <2>5. Untouched' /\ Counted' BY <1>a, <1>5, <2>3 DEF FindFiles, Untouched, Counted, Stop
    <2>6. Accounted'
        BY <1>a, <1>5, <2>2, <2>3 DEF FindFiles, Accounted, Due, Stop
    <2>7. Settled' BY <1>a, <1>5, <2>3 DEF FindFiles, Settled, Stop
    <2>8. QED BY <2>1, <2>4, <2>5, <2>6, <2>7 DEF IInv
<1>6. ASSUME NEW f \in File, IndexFile(f) PROVE IInv'
    <2>1. input' \in Inputs /\ Due' = Due BY <1>a, <1>6 DEF IndexFile, Wanted, Due
    <2>2. f \notin tags /\ db = {} BY <1>a, <1>6 DEF IndexFile, Counted
    <2>3. Cardinality(tags \cup {f}) = Cardinality(tags) + 1 BY <1>f, <2>2, FS_AddElement
    <2>4. TypeOK' BY <1>a, <1>6, <2>2 DEF IndexFile, TypeOK, Phases
    <2>5. Untouched' /\ Settled' BY <1>a, <1>6, <2>1 DEF IndexFile, Untouched, Settled
    <2>6. Counted' BY <1>a, <1>6, <2>2, <2>3 DEF IndexFile, Counted
    <2>7. Accounted' BY <1>a, <1>6, <2>1 DEF IndexFile, Accounted
    <2>8. QED BY <2>1, <2>4, <2>5, <2>6, <2>7 DEF IInv
<1>7. ASSUME NEW f \in File, IndexFails(f) PROVE IInv'
    <2>1. input' \in Inputs /\ Due' = Due BY <1>a, <1>7 DEF IndexFails, Wanted, Due
    <2>2. f \in input.broken /\ f \notin Due /\ db = {}
        BY <1>a, <1>7 DEF IndexFails, Counted, Due
    <2>4. TypeOK' BY <1>a, <1>7, <2>2 DEF IndexFails, TypeOK, Phases
    <2>5. Untouched' /\ Settled' BY <1>a, <1>7, <2>1 DEF IndexFails, Untouched, Settled
    <2>6. Counted' BY <1>a, <1>7, <2>2 DEF IndexFails, Counted
    <2>7. Accounted' BY <1>a, <1>7, <2>1, <2>2 DEF IndexFails, Accounted
    <2>8. QED BY <2>1, <2>4, <2>5, <2>6, <2>7 DEF IInv
<1>8. CASE Indexed
    <2>1. input' \in Inputs /\ Due' = Due BY <1>a, <1>8 DEF Indexed, Wanted, Due
    <2>4. TypeOK' BY <1>a, <1>8 DEF Indexed, TypeOK, Phases, Stop, work
    <2>5. Untouched' /\ Counted' BY <1>a, <1>8 DEF Indexed, Untouched, Counted, Stop, work
    <2>6. Accounted' BY <1>a, <1>8, <2>1 DEF Indexed, Accounted, Stop, work
    <2>7. Settled' BY <1>a, <1>8, <2>1 DEF Indexed, Settled, Stop, work
    <2>8. QED BY <2>1, <2>4, <2>5, <2>6, <2>7 DEF IInv
<1>9. CASE OpenStore
    <2>1. input' \in Inputs /\ Due' = Due BY <1>a, <1>9 DEF OpenStore, Wanted, Due
    <2>4. TypeOK' BY <1>a, <1>9 DEF OpenStore, TypeOK, Phases, Stop, work
    <2>5. Untouched' /\ Counted' BY <1>a, <1>9 DEF OpenStore, Untouched, Counted, Stop, work
    <2>6. Accounted' BY <1>a, <1>9, <2>1 DEF OpenStore, Accounted, Stop, work
    <2>7. Settled' BY <1>a, <1>9, <2>1 DEF OpenStore, Settled, Stop, work
    <2>8. QED BY <2>1, <2>4, <2>5, <2>6, <2>7 DEF IInv
<1>10. ASSUME NEW f \in File, StoreFile(f) PROVE IInv'
    <2>1. input' \in Inputs /\ Due' = Due BY <1>a, <1>10 DEF StoreFile, Wanted, Due
    <2>4. TypeOK' BY <1>a, <1>10 DEF StoreFile, TypeOK, Phases, work
    <2>5. Untouched' /\ Counted' BY <1>a, <1>10 DEF StoreFile, Untouched, Counted, work
    <2>6. Accounted' BY <1>a, <1>10, <2>1 DEF StoreFile, Accounted, work
    <2>7. Settled' BY <1>a, <1>10, <2>1 DEF StoreFile, Settled, work
    <2>8. QED BY <2>1, <2>4, <2>5, <2>6, <2>7 DEF IInv
<1>11. ASSUME NEW f \in File, StoreMissing(f) \/ StoreFails(f) PROVE IInv'
    <2> USE DEF StoreMissing, StoreFails
    <2>1. input' \in Inputs /\ Due' = Due BY <1>a, <1>11 DEF Wanted, Due
    <2>4. TypeOK' BY <1>a, <1>11 DEF TypeOK, Phases, Stop, work
    <2>5. Untouched' /\ Counted' BY <1>a, <1>11 DEF Untouched, Counted, Stop, work
    <2>6. Accounted' BY <1>a, <1>11, <2>1 DEF Accounted, Stop, work
    <2>7. Settled' BY <1>a, <1>11, <2>1 DEF Settled, Stop, work
    <2>8. QED BY <2>1, <2>4, <2>5, <2>6, <2>7 DEF IInv
<1>12. CASE Stored
    <2>1. input' \in Inputs /\ Due' = Due BY <1>a, <1>12 DEF Stored, Wanted, Due
    <2>4. TypeOK' BY <1>a, <1>12 DEF Stored, TypeOK, Phases, work
    <2>5. Untouched' /\ Counted' BY <1>a, <1>12 DEF Stored, Untouched, Counted, work
    <2>6. Accounted' BY <1>a, <1>12, <2>1 DEF Stored, Accounted, work
    <2>7. Settled' BY <1>a, <1>12, <2>1 DEF Stored, Settled, work
    <2>8. QED BY <2>1, <2>4, <2>5, <2>6, <2>7 DEF IInv
<1>13. CASE Mark
    <2>1. input' \in Inputs /\ Due' = Due BY <1>a, <1>13 DEF Mark, Wanted, Due
    <2>2. Due \subseteq db /\ tags \subseteq db BY <1>a, <1>13 DEF Mark, Accounted
    <2>4. TypeOK' BY <1>a, <1>13 DEF Mark, TypeOK, Phases, Stop, work
    <2>5. Untouched' /\ Counted' BY <1>a, <1>13 DEF Mark, Untouched, Counted, Stop, work
    <2>6. Accounted' BY <1>a, <1>13, <2>1 DEF Mark, Accounted, Stop, work
    <2>7. Settled' BY <1>a, <1>13, <2>1, <2>2 DEF Mark, Settled, Stop, work
    <2>8. QED BY <2>1, <2>4, <2>5, <2>6, <2>7 DEF IInv
<1>14. CASE UNCHANGED vars
    <2>1. Wanted' = Wanted BY <1>a, <1>14 DEF Wanted, vars
    <2>2. QED
        BY <1>a, <1>14, <2>1
        DEF vars, work, IInv, TypeOK, Untouched, Counted, Accounted, Settled, Due
<1>15. QED
    BY <1>0, <1>1, <1>2, <1>3, <1>4, <1>5, <1>6, <1>7, <1>8, <1>9, <1>10, <1>11, <1>12,
       <1>13, <1>14
    DEF Next

\* What the lemmas say together.
THEOREM Always == Spec => []IInv
BY Initial, Inductive, PTL DEF Spec

\* Type correctness of the SDK task (init, load_sdk_xml_files_to_database): what is
\* stored was in the graph when it was stored.
THEOREM TypeCorrect == Spec => []TypeOK
<1>1. IInv => TypeOK BY DEF IInv
<1>2. QED BY Always, <1>1, PTL

\* load_sdk_xml_files_to_database answers Ok(n) only when n files are in the store.
THEOREM AnswerIsTrue == Spec => []CountIsStored
<1>1. IInv => CountIsStored
    <2>1. SUFFICES ASSUME IInv, outcome = "loaded" PROVE count = Cardinality(db)
        BY DEF CountIsStored
    <2>2. db = tags BY <2>1 DEF IInv, TypeOK, Settled
    <2>3. QED BY <2>1, <2>2 DEF IInv, Counted
<1>2. QED BY Always, <1>1, PTL

\* set_sdk_path is called only when every file of the SDK that was there and could be
\* indexed is in the store.
THEOREM PathIsEarned == Spec => []PathMeansComplete
<1>1. IInv => PathMeansComplete
    BY DEF IInv, Settled, PathMeansComplete, Due
<1>2. QED BY Always, <1>1, PTL

-----------------------------------------------------------------------------
(* The SDK of a calm init *)

\* An init that nothing disturbs, of a directory with a framework that is served.
Calm ==
    /\ Undisturbed
    /\ Frameworks(input.projects) # {} /\ Served(Earliest(input.projects))

Moniker == Earliest(input.projects)
Sought == find_sdk(input, ConfiguredRoot(input), Moniker)

\* What such an init has come to in each phase.
OnCourse ==
    /\ phase # "tools" => tools = [script |-> TRUE, root |-> ConfiguredRoot(input)]
    /\ phase \notin {"tools", "detect"} => tfm = {Moniker}
    /\ phase = "install" => Sought = {}
    /\ phase \in {"files", "index", "open", "store", "mark", "done"} =>
          \/ root \in Sought
          \/ Sought = {} /\ root = input.installed
    /\ phase \in {"index", "open", "store", "mark"} => todo \cup tags = Wanted /\ graph = tags
    /\ phase \in {"index", "open"} => Wanted # {}
    /\ phase = "done" => db = Wanted

CalmInv == Calm => OnCourse

\* The moniker of a calm init.
LEMMA MonikerServed ==
    ASSUME input \in Inputs, Calm
    PROVE  is_modern_dotnet(Moniker) /\ to_channel(Moniker) # {}
<1>1. input.projects \in SUBSET Seq(XmlEvent) /\ IsFiniteSet(input.projects)
  BY InputAssumption
<1>2. Moniker \in Frameworks(input.projects)
  BY <1>1, EarliestIsFirst DEF Calm, Moniker
<1>3. PICK file \in input.projects : Moniker \in from_csproj(file)
  BY <1>2 DEF Frameworks
<1>4. PICK raw \in Chosen(file) : Moniker \in normalize(raw)
  BY <1>3 DEF from_csproj
<1>5. raw \in RawMoniker
  BY <1>1, <1>3, <1>4, ChosenOne
<1> QED
  BY <1>4, <1>5, ServedIsModern DEF Calm, Moniker

\* Nothing that depends on the input changes with the rest.
LEMMA InputStays ==
    ASSUME [Next]_vars
    PROVE  input' = input /\ Calm' = Calm /\ Sought' = Sought /\ Moniker' = Moniker
<1>1. input' = input
  BY DEF Next, vars, GetTools, Detect, FindSdk, Install, FindFiles, IndexFile, IndexFails, Indexed,
         OpenStore, StoreFile, StoreMissing, StoreFails, Stored, Mark
<1> QED
  BY <1>1 DEF Calm, Undisturbed, Sought, Moniker

LEMMA CalmStart == Init => CalmInv
BY DEF Init, CalmInv, OnCourse

\* Each step of a calm init keeps it on course.
LEMMA CourseStep ==
    ASSUME IInv, IInv', Calm, OnCourse, Next
    PROVE  OnCourse'
<1>1. /\ input' = input /\ Calm' /\ Sought' = Sought /\ Moniker' = Moniker
      /\ input \in Inputs /\ TypeOK /\ Untouched /\ Counted /\ Accounted
  BY InputStays DEF IInv
<1>2. Undisturbed
  BY DEF Calm
<1>3. Due = Wanted
  BY <1>2 DEF Due, Undisturbed
<1>4. ASSUME root' = root, tfm' = tfm PROVE Wanted' = Wanted
  BY <1>4 DEF Wanted
<1>5. tfm = {Moniker} => (CHOOSE t \in tfm : TRUE) = Moniker
  OBVIOUS
<1>6. CASE GetTools
  <2>1. Usable(input, input.ilspy, "ilspy") /\ Usable(input, input.paket, "paket")
    BY <1>2 DEF Usable, Undisturbed
  <2>2. InstallScript(input) = TRUE
    BY <1>2 DEF InstallScript, Undisturbed
  <2>3. phase' = "detect" /\ tools' = [script |-> TRUE, root |-> ConfiguredRoot(input)]
    BY <1>6, <2>1, <2>2 DEF GetTools
  <2> QED
    BY <1>1, <2>3 DEF OnCourse
<1>7. CASE Detect
  <2>1. Frameworks(input.projects) # {} /\ is_modern_dotnet(Moniker)
    BY <1>1, MonikerServed DEF Calm
  <2>2. phase = "detect" /\ phase' = "find" /\ tfm' = {Moniker} /\ tools' = tools
    BY <1>7, <2>1 DEF Detect, Moniker
  <2> QED
    BY <1>1, <2>2 DEF OnCourse
<1>8. CASE FindSdk
  <2>1. phase = "find" /\ tools = [script |-> TRUE, root |-> ConfiguredRoot(input)] /\ tfm = {Moniker}
    BY <1>8 DEF FindSdk, OnCourse
  <2>2. tools' = tools /\ tfm' = tfm
    BY <1>8 DEF FindSdk
  <2>3. find_sdk(input, tools.root, CHOOSE t \in tfm : TRUE) = Sought
    BY <1>5, <2>1 DEF Sought
  <2>4. IF Sought # {} THEN root' \in Sought /\ phase' = "files" ELSE phase' = "install"
    BY <1>8, <2>1, <2>3 DEF FindSdk
  <2> QED
    BY <1>1, <2>1, <2>2, <2>4 DEF OnCourse
<1>9. CASE Install
  <2>1. phase = "install" /\ tools = [script |-> TRUE, root |-> ConfiguredRoot(input)] /\ tfm = {Moniker}
        /\ Sought = {}
    BY <1>9 DEF Install, OnCourse
  <2>2. tools' = tools /\ tfm' = tfm
    BY <1>9 DEF Install
  <2>3. to_channel(Moniker) # {} /\ ~input.scriptFails
    BY <1>1, <1>2, MonikerServed DEF Undisturbed
  <2>4. root' = input.installed /\ phase' = "files"
    BY <1>5, <1>9, <2>1, <2>3 DEF Install
  <2> QED
    BY <1>1, <2>1, <2>2, <2>4 DEF OnCourse
<1>10. CASE FindFiles
  <2>1. phase = "files" /\ tools' = tools /\ tfm' = tfm /\ root' = root
        /\ graph' = graph /\ tags' = tags /\ db' = db
    BY <1>10 DEF FindFiles
  <2>2. graph = {} /\ tags = {} /\ db = {} /\ Wanted' = Wanted
    BY <1>1, <1>4, <2>1 DEF Untouched
  <2>3. todo' = Wanted
    BY <1>2, <1>10 DEF FindFiles, Undisturbed
  <2>4. IF Wanted = {} THEN phase' = "done" ELSE phase' = "index"
    BY <1>10, <2>3 DEF FindFiles, Stop
  <2> QED
    BY <1>1, <2>1, <2>2, <2>3, <2>4 DEF OnCourse
<1>11. ASSUME NEW f \in File, IndexFile(f) PROVE OnCourse'
  <2>1. phase = "index" /\ phase' = "index" /\ tools' = tools /\ tfm' = tfm /\ root' = root /\ db' = db
    BY <1>11 DEF IndexFile
  <2>2. f \in todo /\ todo' = todo \ {f} /\ graph' = graph \cup {f} /\ tags' = tags \cup {f}
    BY <1>11 DEF IndexFile
  <2>3. Wanted' = Wanted /\ todo \cup tags = Wanted /\ graph = tags /\ Wanted # {}
    BY <1>4, <2>1 DEF OnCourse
  <2>4. todo' \cup tags' = Wanted /\ graph' = tags'
    BY <2>2, <2>3
  <2> QED
    BY <1>1, <2>1, <2>3, <2>4 DEF OnCourse
<1>12. ASSUME NEW f \in File, IndexFails(f) PROVE FALSE
  BY <1>2, <1>12 DEF IndexFails, Undisturbed
<1>13. CASE Indexed
  <2>1. phase = "index" /\ todo = {} /\ tools' = tools /\ tfm' = tfm /\ root' = root /\ UNCHANGED work
    BY <1>13 DEF Indexed
  <2>2. Wanted' = Wanted /\ todo \cup tags = Wanted /\ graph = tags /\ Wanted # {}
    BY <1>4, <2>1 DEF OnCourse
  <2>3. count # 0
    <3>1. tags # {} /\ count = Cardinality(tags) /\ IsFiniteSet(tags)
      BY <1>1, <2>1, <2>2, InputAssumption, FS_Subset DEF Counted, TypeOK
    <3> QED
      BY <3>1, FS_EmptySet
  <2>4. phase' = "open"
    BY <1>13, <2>3 DEF Indexed
  <2> QED
    BY <1>1, <2>1, <2>2, <2>4 DEF OnCourse, work
<1>14. CASE OpenStore
  <2>1. phase = "open" /\ phase' = "store" /\ tools' = tools /\ tfm' = tfm /\ root' = root /\ UNCHANGED work
    BY <1>2, <1>14 DEF OpenStore, Undisturbed
  <2>2. Wanted' = Wanted /\ todo \cup tags = Wanted /\ graph = tags
    BY <1>4, <2>1 DEF OnCourse
  <2> QED
    BY <1>1, <2>1, <2>2 DEF OnCourse, work
<1>15. ASSUME NEW f \in File, StoreFile(f) PROVE OnCourse'
  <2>1. phase = "store" /\ phase' = "store" /\ tools' = tools /\ tfm' = tfm /\ root' = root /\ UNCHANGED work
    BY <1>15 DEF StoreFile
  <2>2. Wanted' = Wanted /\ todo \cup tags = Wanted /\ graph = tags
    BY <1>4, <2>1 DEF OnCourse
  <2> QED
    BY <1>1, <2>1, <2>2 DEF OnCourse, work
<1>16. ASSUME NEW f \in File, StoreMissing(f) \/ StoreFails(f) PROVE FALSE
  <2>1. CASE StoreMissing(f)
    BY <2>1 DEF StoreMissing, OnCourse
  <2>2. CASE StoreFails(f)
    BY <1>2, <2>2 DEF StoreFails, Undisturbed
  <2> QED
    BY <1>16, <2>1, <2>2
<1>17. CASE Stored
  <2>1. phase = "store" /\ phase' = "mark" /\ tools' = tools /\ tfm' = tfm /\ root' = root /\ UNCHANGED work
    BY <1>17 DEF Stored
  <2>2. Wanted' = Wanted /\ todo \cup tags = Wanted /\ graph = tags
    BY <1>4, <2>1 DEF OnCourse
  <2> QED
    BY <1>1, <2>1, <2>2 DEF OnCourse, work
<1>18. CASE Mark
  <2>1. phase = "mark" /\ phase' = "done" /\ tools' = tools /\ tfm' = tfm /\ root' = root /\ db' = db
    BY <1>18 DEF Mark, Stop
  <2>2. Wanted' = Wanted /\ todo \cup tags = Wanted /\ graph = tags
    BY <1>4, <2>1 DEF OnCourse
  <2>3. todo = {} /\ tags \subseteq db /\ db \subseteq graph
    BY <1>1, <2>1 DEF Accounted, TypeOK
  <2>4. db' = Wanted'
    BY <2>1, <2>2, <2>3
  <2> QED
    BY <1>1, <2>1, <2>4 DEF OnCourse
<1> QED
  BY <1>6, <1>7, <1>8, <1>9, <1>10, <1>11, <1>12, <1>13, <1>14, <1>15, <1>16, <1>17, <1>18 DEF Next

\* The places of a calm init that have an SDK for its framework are those find_sdk
\* chooses from: it finds one of them, or there is none.
LEMMA SoughtAmongPlaces ==
    ASSUME input \in Inputs
    PROVE  LET places == ConfiguredRoot(input) \cup {input.system[i] : i \in DOMAIN input.system}
               some == {sdk \in places : \E d \in sdk : d.pack = "core" /\ d.tfm = Moniker}
           IN  Sought \subseteq some /\ (Sought = {} => some = {})
<1> DEFINE places == ConfiguredRoot(input) \cup {input.system[i] : i \in DOMAIN input.system}
           some == {sdk \in places : \E d \in sdk : d.pack = "core" /\ d.tfm = Moniker}
           fits == {i \in DOMAIN input.system : validate_sdk_for_tfm(input.system[i], Moniker)}
           first == {i \in fits : \A j \in fits : i <= j}
           named == {sdk \in ConfiguredRoot(input) : validate_sdk_for_tfm(sdk, Moniker)}
<1>1. Sought = IF named # {} THEN named ELSE {input.system[i] : i \in first}
  BY DEF Sought, find_sdk
<1>2. some = named \cup {input.system[i] : i \in fits}
  BY DEF validate_sdk_for_tfm
<1>3. fits # {} => first # {}
  <2>1. fits \in SUBSET Nat
    BY InputAssumption
  <2> HIDE DEF fits
  <2>2. fits # {} => \E i \in fits : \A j \in fits : i <= j
    BY <2>1, LeastOf
  <2> QED
    BY <2>2
<1> QED
  BY <1>1, <1>2, <1>3

\* For every machine, request and directory, an init that nothing disturbs has stored
\* the XML files of one SDK for the framework, its ASP.NET pack included: of a place
\* that has such an SDK, or what the script installs when no place has.
THEOREM SdkIsServed == Spec => []SdkServed
<1>1. ASSUME IInv, CalmInv PROVE SdkServed
  <2>1. SUFFICES ASSUME phase = "done", Calm PROVE SdkServed
    BY DEF SdkServed, Calm
  <2>2. OnCourse /\ input \in Inputs /\ TypeOK
    BY <1>1, <2>1 DEF CalmInv, IInv
  <2> DEFINE all(sdk) == UNION {d.files : d \in {d \in sdk : d.tfm = Moniker /\ d.pack # "other"}}
             places == ConfiguredRoot(input) \cup {input.system[i] : i \in DOMAIN input.system}
             some == {sdk \in places : \E d \in sdk : d.pack = "core" /\ d.tfm = Moniker}
  <2>3. db = all(root)
    <3>1. db = find_sdk_xml_files(root, Moniker)
      <4>1. db = Wanted /\ tfm = {Moniker}
        BY <2>1, <2>2 DEF OnCourse
      <4> QED
        BY <4>1 DEF Wanted
    <3>2. \A d \in root : d.pack \in {"core", "asp", "other"}
      BY <2>2 DEF TypeOK, RefDir
    <3> QED
      BY <3>1, <3>2 DEF find_sdk_xml_files
  <2>4. root \in Sought \/ (Sought = {} /\ root = input.installed)
    BY <2>1, <2>2 DEF OnCourse
  <2>5. Sought \subseteq some /\ (Sought = {} => some = {})
    BY <2>2, SoughtAmongPlaces
  <2> HIDE DEF all, some
  <2>6. IF some # {} THEN \E sdk \in some : db = all(sdk) ELSE db = all(input.installed)
    BY <2>3, <2>4, <2>5
  <2> QED
    BY <2>6 DEF SdkServed, all, some, Moniker
<1>2. Init => IInv /\ CalmInv
  BY Initial, CalmStart
<1>3. IInv /\ CalmInv /\ [Next]_vars => IInv' /\ CalmInv'
  <2>1. SUFFICES ASSUME IInv, CalmInv, [Next]_vars PROVE IInv' /\ CalmInv'
    OBVIOUS
  <2>2. IInv'
    BY <2>1, Inductive
  <2>3. CASE Next
    <3>1. Calm' = Calm
      BY <2>1, InputStays
    <3> QED
      BY <2>1, <2>2, <2>3, <3>1, CourseStep DEF CalmInv
  <2>4. CASE UNCHANGED vars
    BY <2>1, <2>2, <2>4 DEF vars, CalmInv, Calm, Undisturbed, OnCourse, Sought, Moniker, Wanted
  <2> QED
    BY <2>1, <2>2, <2>3, <2>4
<1>4. QED
  BY <1>1, <1>2, <1>3, PTL DEF Spec

-----------------------------------------------------------------------------
(* The earliest moniker *)

\* One text comes before another when they first differ at n.
LEMMA FirstDifference ==
    ASSUME NEW a, NEW b, NEW n \in DOMAIN b, n <= Len(a) + 1,
           \A k \in 1..(n - 1) : a[k] = b[k], n = Len(a) + 1 \/ a[n] < b[n]
    PROVE  Before(a, b)
BY DEF Before

\* Of two versions of a family, with dots between numbers of one digit, the one whose
\* text comes first has the lower numbers.
LEMMA DotsKeepOrder ==
    ASSUME NEW t \in Text, NEW u \in Text, HasDot(t), HasDot(u), OneDigit(t), OneDigit(u),
           Family(t) = Family(u), Before(t, u)
    PROVE  Before(Version(t), Version(u))
<1> DEFINE w == Word(t)
           a == Version(t)
           b == Version(u)
<1>1. w \in {0, 1} /\ w = Word(u) /\ (w = 1 => t[1] = u[1])
  BY DEF Word, Family, HasWord, StartsWith, Dot, CoreApp, Standard
<1>2. /\ a \in Seq(Int) /\ Len(t) = w + 2 * Len(a) - 1
      /\ \A k \in 1..Len(a) : a[k] = t[w + 2 * k - 1]
  BY VersionOfDigits
<1>3. /\ b \in Seq(Int) /\ Len(u) = w + 2 * Len(b) - 1
      /\ \A k \in 1..Len(b) : b[k] = u[w + 2 * k - 1]
  BY <1>1, VersionOfDigits
<1>4. PICK i \in DOMAIN u : /\ i <= Len(t) + 1
                            /\ \A j \in 1..(i - 1) : t[j] = u[j]
                            /\ i = Len(t) + 1 \/ t[i] < u[i]
  BY DEF Before
<1>5. t \in Seq(Int) /\ u \in Seq(Int)
  BY TokensAreNumbers
<1>6. \A j \in (w + 1)..Len(t) : (j - w) % 2 = 0 => t[j] = Dot
  BY DEF OneDigit, Word
<1>7. \A j \in (w + 1)..Len(u) : (j - w) % 2 = 0 => u[j] = Dot /\ j < Len(u)
  BY <1>1 DEF OneDigit, Word
<1> HIDE DEF w, a, b
<1>8. /\ Len(a) \in Nat /\ Len(b) \in Nat /\ Len(t) \in Nat /\ Len(u) \in Nat
      /\ i \in Nat /\ 1 <= i /\ i <= Len(u)
  BY <1>2, <1>3, <1>5
<1>9. i > w
  <2>1. CASE i = Len(t) + 1
    <3>1. t # <<>>
      BY DEF HasDot
    <3> QED
      BY <1>1, <1>5, <1>8, <2>1, <3>1
  <2>2. CASE i # Len(t) + 1
    <3>1. t[i] < u[i] /\ i \in 1..Len(t)
      BY <1>4, <1>8, <2>2
    <3>2. t[i] \in Int /\ u[i] \in Int
      BY <1>5, <1>8, <3>1
    <3> QED
      BY <1>1, <1>8, <3>1, <3>2
  <2> QED
    BY <2>1, <2>2
<1>10. PICK m \in Nat : i - w = 2 * m \/ i - w = 2 * m + 1
  <2>1. i - w \in Nat
    BY <1>1, <1>8, <1>9
  <2> QED
    BY <2>1, Halves
<1>11. \A k \in 1..m : w + 2 * k - 1 \in 1..(i - 1)
  BY <1>1, <1>8, <1>10
<1>12. CASE i - w = 2 * m
  <2>1. (i - w) % 2 = 0 /\ i \in (w + 1)..Len(u)
    BY <1>1, <1>8, <1>9, <1>12, Halves
  <2>2. u[i] = Dot /\ i < Len(u)
    BY <1>7, <2>1
  <2>3. i = Len(t) + 1
    <3>1. SUFFICES ASSUME i # Len(t) + 1 PROVE FALSE
      OBVIOUS
    <3>2. i \in (w + 1)..Len(t)
      BY <1>1, <1>4, <1>8, <1>9, <3>1
    <3>3. t[i] = Dot /\ t[i] < u[i]
      BY <1>4, <1>6, <2>1, <3>1, <3>2
    <3> QED
      BY <2>2, <3>3 DEF Dot
  <2>4. Len(a) = m
    BY <1>1, <1>2, <1>8, <1>12, <2>3
  <2>5. m + 1 \in 1..Len(b)
    <3>1. w + 2 * m < w + 2 * Len(b) - 1
      BY <1>1, <1>3, <1>8, <1>12, <2>2
    <3> QED
      BY <1>1, <1>8, <3>1
  <2>6. \A k \in 1..m : a[k] = b[k]
    <3>1. ASSUME NEW k \in 1..m PROVE a[k] = b[k]
      <4>1. k \in 1..Len(a) /\ k \in 1..Len(b)
        BY <1>8, <2>4, <2>5
      <4>2. t[w + 2 * k - 1] = u[w + 2 * k - 1]
        BY <1>4, <1>11
      <4> QED
        BY <1>2, <1>3, <4>1, <4>2
    <3> QED
      BY <3>1
  <2>7. DOMAIN b = 1..Len(b) /\ (m + 1) - 1 = m /\ m + 1 <= Len(a) + 1 /\ m + 1 = Len(a) + 1
    BY <1>3, <2>4
  <2>8. Before(a, b)
    BY <2>5, <2>6, <2>7, FirstDifference
  <2> QED
    BY <2>8 DEF a, b
<1>13. CASE i - w = 2 * m + 1
  <2>1. i # Len(t) + 1
    <3>1. SUFFICES ASSUME i = Len(t) + 1 PROVE FALSE
      OBVIOUS
    <3>2. 2 * m + 1 = 2 * Len(a)
      BY <1>1, <1>2, <1>8, <1>13, <3>1
    <3> QED
      BY <1>8, <3>2
  <2>2. i <= Len(t) /\ t[i] < u[i]
    BY <1>4, <1>8, <2>1
  <2>3. m + 1 \in 1..Len(a) /\ m + 1 \in 1..Len(b) /\ i = w + 2 * (m + 1) - 1
    BY <1>1, <1>2, <1>3, <1>8, <1>13, <2>2
  <2>4. a[m + 1] < b[m + 1]
    BY <1>2, <1>3, <2>2, <2>3
  <2>5. \A k \in 1..m : a[k] = b[k]
    <3>1. ASSUME NEW k \in 1..m PROVE a[k] = b[k]
      <4>1. k \in 1..Len(a) /\ k \in 1..Len(b)
        BY <1>8, <2>3
      <4>2. t[w + 2 * k - 1] = u[w + 2 * k - 1]
        BY <1>4, <1>11
      <4> QED
        BY <1>2, <1>3, <4>1, <4>2
    <3> QED
      BY <3>1
  <2>6. DOMAIN b = 1..Len(b) /\ (m + 1) - 1 = m /\ m + 1 <= Len(a) + 1
    BY <1>3, <1>8, <2>3
  <2>7. Before(a, b)
    BY <2>3, <2>4, <2>5, <2>6, FirstDifference
  <2> QED
    BY <2>7 DEF a, b
<1> QED
  BY <1>10, <1>12, <1>13

\* The framework in use is the earliest of the directory.
Detected == \A t \in tfm : Frameworks(input.projects) # {} /\ t = Moniker

LEMMA DetectedStep == Detected /\ [Next]_vars => Detected'
<1>1. SUFFICES ASSUME Detected, [Next]_vars PROVE Detected'
  OBVIOUS
<1>2. input' = input /\ Moniker' = Moniker
  BY <1>1, InputStays
<1>3. CASE Detect
  <2>1. tfm' = tfm \/ (Frameworks(input.projects) # {} /\ tfm' = {Moniker})
    BY <1>3 DEF Detect, Moniker
  <2> QED
    BY <1>1, <1>2, <2>1 DEF Detected
<1>4. CASE ~Detect
  <2>1. tfm' = tfm
    BY <1>1, <1>4
    DEF Next, vars, GetTools, FindSdk, Install, FindFiles, IndexFile, IndexFails, Indexed,
        OpenStore, StoreFile, StoreMissing, StoreFails, Stored, Mark
  <2> QED
    BY <1>1, <1>2, <2>1 DEF Detected
<1> QED
  BY <1>3, <1>4

\* Although monikers are sorted as texts, the one in use is the lowest of its family by
\* its numbers, as long as these have one digit, whatever projects the directory has.
THEOREM LowestIsChosen == Spec => []EarliestChosen
<1>1. ASSUME IInv, Detected PROVE EarliestChosen
  <2>1. SUFFICES ASSUME NEW t \in tfm, NEW u \in Frameworks(input.projects),
                        Family(u) = Family(t), OneDigit(t), OneDigit(u)
                 PROVE  Version(t) = Version(u) \/ Before(Version(t), Version(u))
    BY DEF EarliestChosen
  <2>2. input.projects \in SUBSET Seq(XmlEvent) /\ IsFiniteSet(input.projects)
    BY <1>1, InputAssumption DEF IInv
  <2>3. t = Moniker /\ Frameworks(input.projects) # {}
    BY <1>1 DEF Detected
  <2>4. t \in Text /\ u \in Text /\ (t = u \/ Before(t, u))
    BY <2>2, <2>3, EarliestIsFirst, FrameworksFinite DEF Moniker
  <2>5. CASE HasDot(t)
    <3>1. HasDot(u)
      BY <2>1, <2>5 DEF Family, HasWord, StartsWith, Dot, CoreApp, Standard
    <3> QED
      BY <2>1, <2>4, <2>5, <3>1, DotsKeepOrder
  <2>6. CASE ~HasDot(t)
    <3>1. ~HasDot(u)
      BY <2>1, <2>6 DEF Family, HasWord, StartsWith, Dot, CoreApp, Standard
    <3> QED
      BY <2>4, <2>6, <3>1 DEF Version
  <2> QED
    BY <2>5, <2>6
<1>2. Init => Detected
  BY DEF Init, Detected
<1>3. QED
  BY <1>1, <1>2, Initial, Inductive, DetectedStep, PTL DEF Spec

-----------------------------------------------------------------------------
(* Project files of an input *)

\* What init takes from a plain project file is what its elements say.
THEOREM ReaderIsRight == Spec => []ReaderAgrees
<1>1. IInv => ReaderAgrees
  <2>1. SUFFICES ASSUME input \in Inputs, NEW file \in input.projects, Plain(file)
                 PROVE  Chosen(file) = Declared(file)
    BY DEF IInv, ReaderAgrees
  <2>2. file \in Seq(XmlEvent)
    BY <2>1, InputAssumption
  <2> QED
    BY <2>1, <2>2, ReaderIsFaithful
<1> QED
  BY <1>1, Always, PTL

-----------------------------------------------------------------------------
(* Packages *)

\* An SDK that was loaded can be found again, unless it has no files.
Found == outcome = "loaded" => path \/ db = {}

\* The graph is read back when nothing of this init is under way any more.
ReadLast ==
    /\ stage \in {"list", "unserved", "served"} => phase = "done"
    /\ stage = "served" => tasks = {}

PInv == IInv /\ Found /\ ReadLast /\ GraphHasStore

\* A task that has ended takes no step.
LEMMA DoneStays == phase = "done" => ~Next
BY DEF Next, GetTools, Detect, FindSdk, Install, FindFiles, IndexFile, IndexFails, Indexed,
       OpenStore, StoreFile, StoreMissing, StoreFails, Stored, Mark

\* Only FindFiles and Mark say that an SDK is loaded.
LEMMA FoundStep == IInv /\ Found /\ Next => Found'
<1>0. SUFFICES ASSUME IInv, Found, Next PROVE Found' OBVIOUS
<1>a. Untouched /\ Settled BY <1>0 DEF IInv
<1>1. CASE FindFiles
    BY <1>a, <1>1 DEF FindFiles, Untouched, Settled, Found, Stop
<1>2. CASE Mark
    BY <1>2 DEF Mark, Found, Stop
<1>3. CASE phase # "done" /\ outcome' # "loaded"
    BY <1>3 DEF Found
<1>4. phase # "done" BY <1>0, DoneStays
<1>5. outcome # "loaded" BY <1>a, <1>4 DEF Settled
<1>6. FindFiles \/ Mark \/ outcome' # "loaded"
    BY <1>0, <1>5
    DEF Next, GetTools, Detect, FindSdk, Install, IndexFile, IndexFails, Indexed,
        OpenStore, StoreFile, StoreMissing, StoreFails, Stored, Stop
<1>7. QED BY <1>1, <1>2, <1>3, <1>4, <1>6

\* Each step keeps what is known of the graph that is read back.
LEMMA PInductive == PInv /\ [PNext]_<<vars, pVars>> => PInv'
<1>0. SUFFICES ASSUME PInv, [PNext]_<<vars, pVars>> PROVE PInv' OBVIOUS
<1>a. IInv /\ Found /\ ReadLast /\ GraphHasStore BY <1>0 DEF PInv
<1>1. CASE Next /\ UNCHANGED pVars
    <2>1. IInv' /\ Found' BY <1>a, <1>1, Inductive, FoundStep
    <2>2. phase # "done" BY <1>1, DoneStays
    <2>3. stage \notin {"list", "unserved", "served"} BY <1>a, <2>2 DEF ReadLast
    <2>4. stage' = stage BY <1>1 DEF pVars
    <2>5. ReadLast' /\ GraphHasStore' BY <2>3, <2>4 DEF ReadLast, GraphHasStore
    <2>6. QED BY <2>1, <2>5 DEF PInv
<1>2. ASSUME UNCHANGED vars PROVE IInv' /\ Found'
    <2>1. IInv' BY <1>a, <1>2, Inductive
    <2>2. QED BY <1>a, <1>2, <2>1 DEF Found, vars
<1>3. CASE Resolve
    <2>1. UNCHANGED vars BY <1>3 DEF Resolve
    <2>2. stage' \in {"failed", "await"} BY <1>3 DEF Resolve
    <2>3. QED BY <1>2, <2>1, <2>2 DEF PInv, ReadLast, GraphHasStore
<1>4. CASE Join
    <2>1. UNCHANGED vars /\ phase = "done" /\ stage' = "list" BY <1>4 DEF Join
    <2>2. phase' = phase BY <2>1 DEF vars
    <2>3. QED BY <1>2, <2>1, <2>2 DEF PInv, ReadLast, GraphHasStore
<1>5. CASE ListPackage
    <2>1. UNCHANGED vars /\ stage = "list" /\ stage' \in {"list", "unserved"}
        BY <1>5 DEF ListPackage
    <2>2. phase' = phase BY <2>1 DEF vars
    <2>3. QED BY <1>a, <1>2, <2>1, <2>2 DEF PInv, ReadLast, GraphHasStore
<1>6. CASE LoadGraph
    <2>1. UNCHANGED vars /\ stage = "list" /\ tasks = {} /\ tasks' = tasks /\ rows' = rows
        BY <1>6 DEF LoadGraph
    <2>2. phase' = phase /\ db' = db /\ outcome' = outcome BY <2>1 DEF vars
    <2>3. ReadLast' BY <1>a, <2>1, <2>2 DEF ReadLast
    <2>4. stage' = "served" =>
              served' = [packages |-> rows, sdk |-> IF SdkVisible THEN db ELSE {}]
        BY <1>6 DEF LoadGraph
    <2>5. outcome = "loaded" => (IF SdkVisible THEN db ELSE {}) = db
        BY <1>a DEF Found, SdkVisible
    <2>6. GraphHasStore' BY <2>1, <2>2, <2>4, <2>5 DEF GraphHasStore
    <2>7. QED BY <1>2, <2>1, <2>3, <2>6 DEF PInv
<1>7. ASSUME NEW f, StoreRow(f) \/ TaskFails(f) PROVE PInv'
    <2>1. UNCHANGED vars /\ stage' = stage /\ f \in tasks
        BY <1>7 DEF StoreRow, TaskFails
    <2>2. stage # "served" BY <1>a, <2>1 DEF ReadLast
    <2>3. phase' = phase BY <2>1 DEF vars
    <2>4. ReadLast' /\ GraphHasStore' BY <1>a, <2>1, <2>2, <2>3 DEF ReadLast, GraphHasStore
    <2>5. QED BY <1>2, <2>1, <2>4 DEF PInv
<1>8. CASE UNCHANGED <<vars, pVars>>
    <2>1. UNCHANGED vars /\ UNCHANGED pVars BY <1>8
    <2>2. phase' = phase /\ db' = db /\ outcome' = outcome BY <2>1 DEF vars
    <2>3. stage' = stage /\ tasks' = tasks /\ rows' = rows /\ served' = served
        BY <2>1 DEF pVars
    <2>4. ReadLast' /\ GraphHasStore'
        BY <1>a, <2>2, <2>3 DEF ReadLast, GraphHasStore
    <2>5. QED BY <1>2, <2>1, <2>4 DEF PInv
<1>9. QED BY <1>0, <1>1, <1>3, <1>4, <1>5, <1>6, <1>7, <1>8 DEF PNext

\* Nothing has been read back yet.
LEMMA PInitial == PInit => PInv
<1>1. SUFFICES ASSUME PInit PROVE PInv OBVIOUS
<1>2. IInv BY <1>1, Initial DEF PInit
<1>3. outcome = "none" /\ stage = "resolve" BY <1>1 DEF PInit, Init
<1>4. QED BY <1>2, <1>3 DEF PInv, Found, ReadLast, GraphHasStore

\* load_to_database reads the store after all that its init writes: what a package's
\* task or the SDK's loader has stored is in the graph that queries see.
THEOREM GraphIsOfStore == PSpec => []GraphHasStore
<1>1. PInv => GraphHasStore BY DEF PInv
<1>2. QED BY PInitial, PInductive, <1>1, PTL DEF PSpec

-----------------------------------------------------------------------------
(* The DLLs of a package *)

\* String's order is a strict total order.
LEMMA BeforeOrders ==
    ASSUME NEW a \in Seq(Int), NEW b \in Seq(Int)
    PROVE  /\ ~Before(a, a) /\ (a = b \/ Before(a, b) \/ Before(b, a))
           /\ \A c \in Seq(Int) : Before(a, b) /\ Before(b, c) => Before(a, c)
<1>1. ~Lex(a, a) /\ (a = b \/ Lex(a, b) \/ Lex(b, a))
  BY LexIrreflexive, LexTotal
<1>2. \A c \in Seq(Int) : Lex(a, b) /\ Lex(b, c) => Lex(a, c)
  BY LexTransitive
<1> QED
  BY <1>1, <1>2, BeforeIsLex

\* A prefix has the first numbers of the text.
LEMMA PrefixIs ==
    ASSUME NEW a \in Seq(Int), NEW t \in Seq(Int)
    PROVE  IsPrefix(a, t) <=> Len(a) <= Len(t) /\ \A i \in 1..Len(a) : a[i] = t[i]
<1>1. ASSUME Len(a) <= Len(t)
      PROVE  SubSeq(a, 1, Len(a)) = SubSeq(t, 1, Len(a)) <=> \A i \in 1..Len(a) : a[i] = t[i]
  <2>1. /\ Len(SubSeq(a, 1, Len(a))) = Len(a) /\ Len(SubSeq(t, 1, Len(a))) = Len(a)
        /\ SubSeq(a, 1, Len(a)) \in Seq(Int) /\ SubSeq(t, 1, Len(a)) \in Seq(Int)
        /\ \A i \in 1..Len(a) : SubSeq(a, 1, Len(a))[i] = a[i] /\ SubSeq(t, 1, Len(a))[i] = t[i]
    BY <1>1
  <2> QED
    BY <2>1
<1> QED
  BY <1>1 DEF IsPrefix

\* Of two prefixes of a text, one is a prefix of the other.
LEMMA PrefixesMeet ==
    ASSUME NEW a \in Seq(Int), NEW b \in Seq(Int), NEW t \in Seq(Int),
           IsPrefix(a, t), IsPrefix(b, t)
    PROVE  IsPrefix(a, b) \/ IsPrefix(b, a)
<1>1. Len(a) \in Nat /\ Len(b) \in Nat
  OBVIOUS
<1>2. /\ \A i \in 1..Len(a) : a[i] = t[i]
      /\ \A i \in 1..Len(b) : b[i] = t[i]
  BY PrefixIs
<1>3. CASE Len(a) <= Len(b)
  BY <1>1, <1>2, <1>3, PrefixIs
<1>4. CASE Len(b) <= Len(a)
  BY <1>1, <1>2, <1>4, PrefixIs
<1> QED
  BY <1>1, <1>3, <1>4

\* The directory of a DLL is a prefix of its path.
LEMMA DirIsPrefix ==
    ASSUME NEW t \in Seq(Int)
    PROVE  DirOf(t) \in Seq(Int) /\ IsPrefix(DirOf(t), t)
<1>1. CASE Len(t) >= 2
  <2>1. PICK m \in Nat : m = Len(t) - 2 /\ m <= Len(t)
    <3>1. Len(t) \in Nat
      OBVIOUS
    <3>2. PICK n \in Nat : n = Len(t)
      BY <3>1
    <3>3. n - 2 \in Nat /\ n - 2 <= n
      BY <1>1, <3>2
    <3> QED
      BY <3>2, <3>3
  <2>2. /\ SubSeq(t, 1, m) \in Seq(Int) /\ Len(SubSeq(t, 1, m)) = m
        /\ \A i \in 1..m : SubSeq(t, 1, m)[i] = t[i]
    BY <2>1
  <2>3. IsPrefix(SubSeq(t, 1, m), t)
    BY <2>1, <2>2, PrefixIs
  <2> QED
    BY <2>1, <2>2, <2>3 DEF DirOf
<1>2. CASE ~(Len(t) >= 2)
  <2>1. DirOf(t) = <<>>
    BY <1>2 DEF DirOf
  <2>2. <<>> \in Seq(Int) /\ Len(<<>>) = 0 /\ 1..0 = {} /\ 0 <= Len(t)
    OBVIOUS
  <2> QED
    BY <2>1, <2>2, PrefixIs
<1> QED
  BY <1>1, <1>2

\* The directories of the first k entries that are not too high.
LowUpTo(entries, highest, k) ==
    {entries[i].path : i \in {i \in 1..k : entries[i].tag = "dir" /\ ~Before(highest, entries[i].path)}}

\* After k entries: the highest of the directories so far, and the DLLs in it.
Scanned(entries, highest, k, s) ==
    /\ \A d \in s.dir : s.dir = {d} /\ d \in LowUpTo(entries, highest, k)
    /\ \A d \in LowUpTo(entries, highest, k) : \E m \in s.dir : d = m \/ Before(d, m)
    /\ s.dlls = {entries[i].path : i \in {i \in 1..k : entries[i].tag = "dll" /\ DirOf(entries[i].path) \in s.dir}}

ScanState == [dir : SUBSET Chars, dlls : SUBSET Chars]

\* In a tidy list, the DLLs whose paths begin with a directory's path are those in it, and
\* they are listed behind it.
LEMMA TidyDirs ==
    ASSUME NEW entries \in Seq(Entry), Tidy(entries),
           NEW a \in 1..Len(entries), entries[a].tag = "dir",
           NEW i \in 1..Len(entries), entries[i].tag = "dll"
    PROVE  /\ IsPrefix(entries[a].path, entries[i].path) <=> DirOf(entries[i].path) = entries[a].path
           /\ IsPrefix(entries[a].path, entries[i].path) => a < i
<1>1. DOMAIN entries = 1..Len(entries) /\ entries[a] \in Entry /\ entries[i] \in Entry
  OBVIOUS
<1>2. PICK j \in 1..Len(entries) : j < i /\ entries[j].tag = "dir" /\ entries[j].path = DirOf(entries[i].path)
  BY <1>1 DEF Tidy
<1>3. entries[a].path \in Seq(Int) /\ entries[i].path \in Seq(Int) /\ entries[j].path \in Seq(Int)
  <2>1. entries[j] \in Entry
    OBVIOUS
  <2> QED
    BY <1>1, <2>1 DEF Entry, Chars
<1>4. IsPrefix(entries[j].path, entries[i].path)
  BY <1>2, <1>3, DirIsPrefix
<1>5. ASSUME IsPrefix(entries[a].path, entries[i].path) PROVE a = j
  <2>1. IsPrefix(entries[a].path, entries[j].path) \/ IsPrefix(entries[j].path, entries[a].path)
    BY <1>3, <1>4, <1>5, PrefixesMeet
  <2> QED
    BY <1>1, <1>2, <2>1 DEF Tidy
<1> QED
  BY <1>2, <1>4, <1>5

\* Every entry keeps that.
LEMMA ScanStep ==
    ASSUME NEW entries \in Seq(Entry), Tidy(entries), NEW highest \in Chars,
           NEW k \in 1..Len(entries), NEW s \in ScanState,
           Scanned(entries, highest, k - 1, s)
    PROVE  /\ Scan(s, entries[k], highest) \in ScanState
           /\ Scanned(entries, highest, k, Scan(s, entries[k], highest))
<1> DEFINE e == entries[k]
           new == Scan(s, e, highest)
           Low(n) == LowUpTo(entries, highest, n)
           dlls(n, D) == {entries[i].path : i \in {i \in 1..n : entries[i].tag = "dll"
                                                                 /\ DirOf(entries[i].path) \in D}}
<1>1. /\ \A i \in 1..Len(entries) : entries[i] \in Entry
      /\ e \in Entry /\ e.path \in Seq(Int) /\ e.tag \in {"dir", "dll"}
      /\ k - 1 \in Nat /\ 1..k = 1..(k - 1) \cup {k}
      /\ \A i \in 1..k : i \in 1..Len(entries)
  <2>1. \A i \in 1..Len(entries) : entries[i] \in Entry
    OBVIOUS
  <2> QED
    BY <2>1 DEF Entry, Chars
<1>2. /\ \A d \in s.dir : s.dir = {d} /\ d \in Low(k - 1)
      /\ \A d \in Low(k - 1) : \E m \in s.dir : d = m \/ Before(d, m)
      /\ s.dlls = dlls(k - 1, s.dir)
      /\ s = [dir |-> s.dir, dlls |-> s.dlls] /\ s.dir \in SUBSET Chars /\ s.dlls \in SUBSET Chars
  BY DEF Scanned, ScanState
<1>3. Low(k) = Low(k - 1) \cup (IF e.tag = "dir" /\ ~Before(highest, e.path) THEN {e.path} ELSE {})
  BY <1>1 DEF LowUpTo
<1>4. \A D : dlls(k, D) = dlls(k - 1, D) \cup (IF e.tag = "dll" /\ DirOf(e.path) \in D THEN {e.path} ELSE {})
  BY <1>1
<1>5. \A d \in Low(k - 1) : d \in Seq(Int)
  BY <1>1 DEF LowUpTo, Entry, Chars
<1> HIDE DEF Low, dlls
<1>6. ASSUME NEW t \in ScanState,
             \A d \in t.dir : t.dir = {d} /\ d \in Low(k),
             \A d \in Low(k) : \E m \in t.dir : d = m \/ Before(d, m),
             t.dlls = dlls(k, t.dir), new = t
      PROVE  new \in ScanState /\ Scanned(entries, highest, k, new)
  BY <1>6 DEF Scanned, Low, dlls
<1>7. CASE e.tag = "dir" /\ ~Before(highest, e.path) /\ \A d \in s.dir : Before(d, e.path)
  <2>1. new = [dir |-> {e.path}, dlls |-> {}]
    BY <1>7 DEF Scan
  <2>2. Low(k) = Low(k - 1) \cup {e.path}
    BY <1>3, <1>7
  <2>3. ASSUME NEW d \in Low(k - 1) PROVE Before(d, e.path)
    <3>1. PICK m \in s.dir : d = m \/ Before(d, m)
      BY <1>2
    <3>2. m \in Low(k - 1) /\ Before(m, e.path)
      BY <1>2, <1>7
    <3> QED
      BY <1>1, <1>5, <3>1, <3>2, BeforeOrders
  <2>4. dlls(k, {e.path}) = {}
    <3>1. ASSUME NEW i \in 1..(k - 1), entries[i].tag = "dll", DirOf(entries[i].path) = e.path
          PROVE  FALSE
      <4>1. i \in 1..Len(entries) /\ ~(k < i)
        BY <1>1
      <4>2. IsPrefix(e.path, entries[i].path) /\ k < i
        BY <1>7, <3>1, <4>1, TidyDirs
      <4> QED
        BY <4>1, <4>2
    <3>2. dlls(k - 1, {e.path}) = {}
      BY <3>1 DEF dlls
    <3> QED
      BY <1>4, <1>7, <3>2
  <2>5. PICK t : t = [dir |-> {e.path}, dlls |-> {}]
    OBVIOUS
  <2>6. t \in ScanState /\ t.dir = {e.path} /\ t.dlls = {}
    BY <1>1, <2>5 DEF ScanState, Chars
  <2> HIDE DEF new
  <2>7. new \in ScanState /\ Scanned(entries, highest, k, new)
    BY <1>6, <2>1, <2>2, <2>3, <2>4, <2>5, <2>6
  <2> QED
    BY <2>7 DEF new
<1>8. CASE e.tag = "dir" /\ ~(~Before(highest, e.path) /\ \A d \in s.dir : Before(d, e.path))
  <2>1. new = s
    BY <1>8 DEF Scan
  <2>2. \A d \in Low(k) : \E m \in s.dir : d = m \/ Before(d, m)
    <3>1. CASE Before(highest, e.path)
      BY <1>2, <1>3, <3>1
    <3>2. CASE \E d \in s.dir : ~Before(d, e.path)
      <4>1. PICK d \in s.dir : ~Before(d, e.path)
        BY <3>2
      <4>2. d \in Seq(Int)
        BY <1>2, <1>5
      <4>3. e.path = d \/ Before(e.path, d)
        BY <1>1, <4>1, <4>2, BeforeOrders
      <4> QED
        BY <1>2, <1>3, <4>3
    <3> QED
      BY <1>8, <3>1, <3>2
  <2>3. dlls(k, s.dir) = s.dlls
    BY <1>2, <1>4, <1>8
  <2>4. \A d \in s.dir : s.dir = {d} /\ d \in Low(k)
    BY <1>2, <1>3
  <2> HIDE DEF new
  <2>7. new \in ScanState /\ Scanned(entries, highest, k, new)
    BY <1>6, <2>1, <2>2, <2>3, <2>4
  <2> QED
    BY <2>7 DEF new
<1>9. CASE e.tag = "dll"
  <2>1. Low(k) = Low(k - 1)
    BY <1>3, <1>9
  <2>2. (\E d \in s.dir : IsPrefix(d, e.path)) <=> DirOf(e.path) \in s.dir
    <3>1. ASSUME NEW d \in s.dir PROVE IsPrefix(d, e.path) <=> DirOf(e.path) = d
      <4>1. PICK a \in 1..(k - 1) : entries[a].tag = "dir" /\ d = entries[a].path
        BY <1>2 DEF Low, LowUpTo
      <4>2. a \in 1..Len(entries)
        BY <1>1
      <4> QED
        BY <1>9, <4>1, <4>2, TidyDirs
    <3> QED
      BY <3>1
  <2>3. new = [dir |-> s.dir, dlls |-> IF DirOf(e.path) \in s.dir THEN s.dlls \cup {e.path} ELSE s.dlls]
    <3>1. new = IF DirOf(e.path) \in s.dir THEN [s EXCEPT !.dlls = s.dlls \cup {e.path}] ELSE s
      BY <1>9, <2>2 DEF Scan
    <3> QED
      BY <1>2, <3>1
  <2>4. PICK t : t = [dir |-> s.dir, dlls |-> IF DirOf(e.path) \in s.dir THEN s.dlls \cup {e.path} ELSE s.dlls]
    OBVIOUS
  <2>5. t \in ScanState /\ t.dir = s.dir /\ t.dlls = dlls(k, s.dir)
    <3>1. t.dir = s.dir /\ t.dlls = IF DirOf(e.path) \in s.dir THEN s.dlls \cup {e.path} ELSE s.dlls
      BY <2>4
    <3> QED
      <4>1. t.dir \in SUBSET Chars /\ t.dlls \in SUBSET Chars
        BY <1>1, <1>2, <3>1 DEF Chars
      <4>2. t.dlls = dlls(k, s.dir)
        <5>1. dlls(k, s.dir) = dlls(k - 1, s.dir) \cup (IF DirOf(e.path) \in s.dir THEN {e.path} ELSE {})
          BY <1>4, <1>9
        <5>2. CASE DirOf(e.path) \in s.dir
          BY <1>2, <3>1, <5>1, <5>2
        <5>3. CASE DirOf(e.path) \notin s.dir
          BY <1>2, <3>1, <5>1, <5>3
        <5> QED
          BY <5>2, <5>3
      <4> QED
        BY <2>4, <3>1, <4>1, <4>2 DEF ScanState
  <2> HIDE DEF new
  <2>7. new \in ScanState /\ Scanned(entries, highest, k, new)
    BY <1>2, <1>6, <2>1, <2>3, <2>4, <2>5
  <2> QED
    BY <2>7 DEF new
<1> QED
  BY <1>1, <1>7, <1>8, <1>9

\* What the scan knows is a directory and DLLs.
LEMMA ScanTypes ==
    ASSUME NEW s \in ScanState, NEW e \in Entry, NEW highest
    PROVE  Scan(s, e, highest) \in ScanState
<1>1. e.path \in Chars /\ s.dlls \in SUBSET Chars /\ s.dir \in SUBSET Chars
  BY DEF Entry, ScanState
<1>2. \/ Scan(s, e, highest) = s
      \/ Scan(s, e, highest) = [dir |-> {e.path}, dlls |-> {}]
      \/ Scan(s, e, highest) = [s EXCEPT !.dlls = s.dlls \cup {e.path}]
  BY DEF Scan
<1> QED
  BY <1>1, <1>2 DEF ScanState

\* The scan goes through the entries one by one.
LEMMA ScanRounds ==
    ASSUME NEW entries \in Seq(Entry), NEW highest
    PROVE  \E f : /\ f[0] = [dir |-> {}, dlls |-> {}]
                  /\ f[Len(entries)].dlls = ChosenDlls(entries, highest)
                  /\ \A k \in 0..Len(entries) : f[k] \in ScanState
                  /\ \A k \in 1..Len(entries) : f[k] = Scan(f[k - 1], entries[k], highest)
<1> DEFINE start == [dir |-> {}, dlls |-> {}]
           body(l) == [i \in 0..Len(entries) |->
                          IF i = 0 THEN start ELSE Scan(l[i - 1], entries[i], highest)]
           seen == CHOOSE l : l = body(l)
<1>1. ChosenDlls(entries, highest) = seen[Len(entries)].dlls
  BY DEF ChosenDlls
<1>2. PICK n \in Nat : n = Len(entries)
  OBVIOUS
<1>3. start \in ScanState
  BY DEF ScanState
<1>4. \A k \in 1..n : \A s \in ScanState : Scan(s, entries[k], highest) \in ScanState
  <2>1. \A k \in 1..n : entries[k] \in Entry
    BY <1>2
  <2> QED
    BY <2>1, ScanTypes
<1> HIDE DEF start
<1>5. \E l : l = body(l)
  <2>1. PICK g : g = [k \in Nat |-> [s \in ScanState |->
                                        IF k \in 1..n THEN Scan(s, entries[k], highest) ELSE s]]
    OBVIOUS
  <2>2. g \in Steps(ScanState)
    BY <1>4, <2>1 DEF Steps
  <2>3. PICK l : /\ l = [i \in 0..n |-> l[i]] /\ l[0] = start
                 /\ \A k \in 0..n : l[k] \in ScanState
                 /\ \A k \in 1..n : l[k] = g[k][l[k - 1]]
    BY <1>3, <2>2, SteppedTo
  <2>4. ASSUME NEW k \in 1..n PROVE l[k] = Scan(l[k - 1], entries[k], highest)
    <3>1. k \in Nat /\ k - 1 \in 0..n
      OBVIOUS
    <3>2. l[k - 1] \in ScanState /\ l[k] = g[k][l[k - 1]]
      BY <2>3, <3>1
    <3> QED
      BY <2>1, <3>1, <3>2
  <2>5. l = body(l)
    BY <1>2, <2>3, <2>4
  <2> QED
    BY <2>5
<1>6. seen = body(seen)
  <2> HIDE DEF body
  <2> QED
    BY <1>5
<1>7. \A k \in 0..n : seen[k] = IF k = 0 THEN start ELSE Scan(seen[k - 1], entries[k], highest)
  <2> HIDE DEF seen
  <2> QED
    BY <1>2, <1>6
<1> HIDE DEF seen
<1>8. seen[0] = start /\ \A k \in 1..n : seen[k] = Scan(seen[k - 1], entries[k], highest)
  BY <1>7
<1>9. \A k \in 0..n : seen[k] \in ScanState
  <2>1. \A k \in 1..n : seen[k - 1] \in ScanState => seen[k] \in ScanState
    BY <1>4, <1>8
  <2> QED
    BY <1>3, <1>8, <2>1, StaysIn
<1> QED
  BY <1>1, <1>2, <1>8, <1>9 DEF start

\* From a tidy list the DLLs of the highest directory that is not too high are chosen.
LEMMA ChosenAreBest ==
    ASSUME NEW entries \in Seq(Entry), Tidy(entries), NEW highest \in Chars
    PROVE  ChosenDlls(entries, highest) = Best(entries, highest)
<1>1. PICK f : /\ f[0] = [dir |-> {}, dlls |-> {}]
               /\ f[Len(entries)].dlls = ChosenDlls(entries, highest)
               /\ \A k \in 0..Len(entries) : f[k] \in ScanState
               /\ \A k \in 1..Len(entries) : f[k] = Scan(f[k - 1], entries[k], highest)
  BY ScanRounds
<1>2. PICK n \in Nat : n = Len(entries)
  OBVIOUS
<1> DEFINE good(k) == Scanned(entries, highest, k, f[k])
<1>3. good(0)
  <2>1. LowUpTo(entries, highest, 0) = {}
    BY DEF LowUpTo
  <2> QED
    BY <1>1, <2>1 DEF Scanned
<1>4. \A k \in 1..n : good(k - 1) => good(k)
  <2>1. \A k \in 1..n : k - 1 \in 0..n /\ k \in 1..Len(entries)
    BY <1>2
  <2> QED
    BY <1>1, <1>2, <2>1, ScanStep
<1>5. good(n)
  <2> DEFINE r == [k \in 0..n |-> good(k)]
  <2>1. r[0] \in {TRUE} /\ \A k \in 1..n : r[k - 1] \in {TRUE} => r[k] \in {TRUE}
    <3>1. 0 \in 0..n /\ \A k \in 1..n : k \in 0..n /\ k - 1 \in 0..n
      OBVIOUS
    <3> HIDE DEF good
    <3> QED
      BY <1>3, <1>4, <3>1
  <2> HIDE DEF r
  <2>2. \A k \in 0..n : r[k] \in {TRUE}
    BY <2>1, StaysIn
  <2>3. n \in 0..n
    OBVIOUS
  <2> HIDE DEF good
  <2> QED
    BY <2>2, <2>3 DEF r
<1>6. PICK s : s = f[n]
  OBVIOUS
<1>7. Scanned(entries, highest, n, s) /\ s.dlls = ChosenDlls(entries, highest)
  BY <1>1, <1>2, <1>5, <1>6
<1> DEFINE low == LowUpTo(entries, highest, n)
           best == {d \in low : \A c \in low : ~Before(d, c)}
<1>8. \A d \in low : d \in Seq(Int)
  <2>1. \A i \in 1..n : entries[i] \in Entry
    BY <1>2
  <2> QED
    BY <2>1 DEF LowUpTo, Entry, Chars
<1>9. s.dir = best
  <2>1. /\ \A d \in s.dir : s.dir = {d} /\ d \in low
        /\ \A d \in low : \E m \in s.dir : d = m \/ Before(d, m)
    BY <1>7 DEF Scanned
  <2> HIDE DEF low
  <2>2. ASSUME NEW d \in s.dir, NEW c \in low PROVE ~Before(d, c)
    <3>1. c = d \/ Before(c, d)
      BY <2>1
    <3>2. c \in Seq(Int) /\ d \in Seq(Int)
      BY <1>8, <2>1
    <3> QED
      BY <3>1, <3>2, BeforeOrders
  <2>3. ASSUME NEW d \in low, \A c \in low : ~Before(d, c) PROVE d \in s.dir
    <3>1. PICK m \in s.dir : d = m \/ Before(d, m)
      BY <2>1
    <3> QED
      BY <2>1, <2>3, <3>1
  <2> QED
    BY <2>1, <2>2, <2>3
<1>10. DOMAIN entries = 1..n
  BY <1>2
<1>11. ChosenDlls(entries, highest) =
          {entries[i].path : i \in {i \in 1..n : entries[i].tag = "dll" /\ DirOf(entries[i].path) \in best}}
  BY <1>7, <1>9 DEF Scanned
<1>12. low = {d \in {entries[i].path : i \in {i \in DOMAIN entries : entries[i].tag = "dir"}} :
                 ~Before(highest, d)}
  BY <1>10 DEF LowUpTo
<1> HIDE DEF low
<1>13. Best(entries, highest) =
          {f_ \in {entries[i].path : i \in {i \in DOMAIN entries : entries[i].tag = "dll"}} :
              DirOf(f_) \in low /\ \A d \in low : ~Before(DirOf(f_), d)}
  BY <1>12 DEF Best
<1> QED
  BY <1>10, <1>11, <1>13

-----------------------------------------------------------------------------
(* The packages that are served *)

\* The packages to be listed.
Named(i) == Dependencies(paket)[i].name
FilesOf(name) == XmlFiles(paket, name, restriction)

\* The files of a package: in a task, in the store, or to be looked for.
Listing ==
    /\ paket \in PaketOf(input) /\ restriction \in Chars /\ pending \in Seq(Name)
    /\ stage \in {"resolve", "await", "failed"} => tasks = {} /\ rows = {}
    /\ \A f \in tasks \cup rows : f \in FilesOf(f[1])
    /\ stage \in {"await", "list", "served"} =>
          \A i \in DOMAIN Dependencies(paket) :
              \/ \E k \in DOMAIN pending : pending[k] = Named(i)
              \/ failed /\ stage # "served"
              \/ FilesOf(Named(i)) \subseteq tasks \cup rows
    /\ stage = "served" => pending = <<>>

\* The packages of a paket.dependencies are lines of it.
LEMMA DependenciesAreLines ==
    ASSUME input \in Inputs, paket \in PaketOf(input)
    PROVE  /\ Dependencies(paket) \in Seq(Line)
           /\ \A i \in DOMAIN Dependencies(paket) :
                 \A a, b \in Dependencies(paket)[i].framework : a = b
<1>1. /\ paket.lines \in Seq(Line)
      /\ \A i \in DOMAIN paket.lines : \A a, b \in paket.lines[i].framework : a = b
  BY PaketAssumption
<1> DEFINE places == {i \in DOMAIN paket.lines : paket.lines[i].tag = "package"}
<1>2. Dependencies(paket) = Picked(paket.lines, places)
  BY DEF Dependencies
<1> HIDE DEF places
<1>3. /\ Picked(paket.lines, places) \in Seq(Line)
      /\ \A j \in DOMAIN Picked(paket.lines, places) :
            \E i \in places \cap DOMAIN paket.lines : Picked(paket.lines, places)[j] = paket.lines[i]
  BY <1>1, PickedFrom
<1> QED
  BY <1>1, <1>2, <1>3

\* The lowest framework of the lines is a text.
LEMMA SmallestIsText ==
    ASSUME NEW lines \in Seq(Line),
           \A i \in DOMAIN lines : \A a, b \in lines[i].framework : a = b
    PROVE  Smallest(lines) \in Chars
<1> DEFINE named == UNION {lines[i].framework : i \in DOMAIN lines}
<1>1. DOMAIN lines = 1..Len(lines) /\ Len(lines) \in Nat
  OBVIOUS
<1>2. \A i \in DOMAIN lines : lines[i].framework \in SUBSET Seq(Int)
  <2>1. \A i \in DOMAIN lines : lines[i] \in Line
    OBVIOUS
  <2> QED
    BY <2>1 DEF Line, Chars
<1>3. IsFiniteSet(named)
  <2> DEFINE one == [i \in DOMAIN lines |-> CHOOSE a \in lines[i].framework : TRUE]
  <2>1. IsFiniteSet(DOMAIN lines)
    BY <1>1, FS_Interval
  <2>2. IsFiniteSet({one[i] : i \in DOMAIN lines})
    <3> DEFINE T == {one[i] : i \in DOMAIN lines}
    <3>1. one \in Surjection(DOMAIN lines, T)
      BY DEF Surjection
    <3> HIDE DEF one, T
    <3>2. IsFiniteSet(T)
      BY <2>1, <3>1, FS_Surjection
    <3> QED
      BY <3>2 DEF T
  <2>3. named \subseteq {one[i] : i \in DOMAIN lines}
    OBVIOUS
  <2> HIDE DEF one, named
  <2> QED
    BY <2>2, <2>3, FS_Subset
<1>4. named \in SUBSET Seq(Int)
  BY <1>2
<1>5. named # {} => \E a \in named : \A b \in named : a = b \/ Before(a, b)
  <2> HIDE DEF named
  <2> QED
    BY <1>3, <1>4, FirstText
<1>6. Highest \in Chars
  BY DEF Highest, Chars
<1>7. Smallest(lines) = IF named = {} THEN Highest
                        ELSE CHOOSE a \in named : \A b \in named : a = b \/ Before(a, b)
  BY DEF Smallest
<1> HIDE DEF named
<1> QED
  BY <1>4, <1>5, <1>6, <1>7 DEF Chars

LEMMA ListingStart == PInit => Listing
<1>1. Highest \in Chars
  BY DEF Highest, Chars
<1> QED
  BY <1>1 DEF PInit, Listing

\* No step loses a file or takes one that is not a package's.
LEMMA ListingStep ==
    ASSUME PInv, Listing, [PNext]_<<vars, pVars>>
    PROVE  Listing'
<1>1. input \in Inputs /\ (stage = "served" => tasks = {})
  BY DEF PInv, IInv, ReadLast
<1>2. \A name : FilesOf(name) = {<<name, d>> : d \in ChosenDlls(paket.cache[name], restriction)} \ paket.absent
  BY DEF FilesOf, XmlFiles
<1>3. CASE input' = input /\ UNCHANGED pVars
  BY <1>3 DEF Listing, pVars, Named, FilesOf
<1>4. CASE Resolve
  <2>1. /\ UNCHANGED <<vars, paket, tasks, failed, rows>> /\ stage = "resolve" /\ input' = input
    BY <1>4 DEF Resolve, vars
  <2>2. CASE stage' = "failed" /\ UNCHANGED <<restriction, pending>>
    BY <2>1, <2>2 DEF Listing, FilesOf
  <2>3. CASE /\ stage' = "await" /\ restriction' = Smallest(Dependencies(paket))
             /\ pending' = [i \in DOMAIN Dependencies(paket) |-> Dependencies(paket)[i].name]
    <3>1. /\ Dependencies(paket) \in Seq(Line)
          /\ \A i \in DOMAIN Dependencies(paket) :
                 \A a, b \in Dependencies(paket)[i].framework : a = b
      BY <1>1, DependenciesAreLines DEF Listing
    <3>2. restriction' \in Chars
      BY <2>3, <3>1, SmallestIsText
    <3>3. pending' \in Seq(Name)
      <4>1. \A i \in DOMAIN Dependencies(paket) : Dependencies(paket)[i].name \in Name
        <5>1. \A i \in DOMAIN Dependencies(paket) : Dependencies(paket)[i] \in Line
          BY <3>1
        <5> QED
          BY <5>1 DEF Line
      <4>2. DOMAIN Dependencies(paket) = 1..Len(Dependencies(paket)) /\ Len(Dependencies(paket)) \in Nat
        BY <3>1
      <4> QED
        BY <2>3, <4>1, <4>2
    <3>4. \A i \in DOMAIN Dependencies(paket) : \E k \in DOMAIN pending' : pending'[k] = Dependencies(paket)[i].name
      BY <2>3
    <3>5. tasks' = {} /\ rows' = {} /\ paket' = paket /\ Dependencies(paket)' = Dependencies(paket)
      BY <2>1 DEF Listing
    <3> QED
      BY <2>1, <2>3, <3>2, <3>3, <3>4, <3>5 DEF Listing, Named
  <2> QED
    BY <1>4, <2>2, <2>3 DEF Resolve
<1>5. CASE Join
  <2>1. /\ UNCHANGED <<input, paket, restriction, pending, tasks, failed, rows>>
        /\ stage = "await" /\ stage' = "list"
    BY <1>5 DEF Join, vars
  <2> QED
    BY <2>1 DEF Listing, Named, FilesOf
<1>6. CASE ListPackage
  <2>1. /\ UNCHANGED <<input, paket, restriction, failed, rows>> /\ stage = "list" /\ pending # <<>>
    BY <1>6 DEF ListPackage, vars
  <2>2. CASE tasks' \in SUBSET tasks /\ stage' = "unserved" /\ UNCHANGED pending
    BY <2>1, <2>2 DEF Listing, FilesOf
  <2>3. CASE /\ tasks' = tasks \cup FilesOf(Head(pending))
             /\ pending' = Tail(pending) /\ stage' = stage
    <3>1. /\ pending' \in Seq(Name)
          /\ \A k \in DOMAIN pending : k = 1 \/ (k - 1 \in DOMAIN pending' /\ pending'[k - 1] = pending[k])
          /\ Head(pending) = pending[1]
      BY <2>1, <2>3 DEF Listing
    <3>2. \A f \in FilesOf(Head(pending)) : f \in FilesOf(f[1])
      BY <1>2
    <3>3. \A name : FilesOf(name)' = FilesOf(name)
      BY <2>1 DEF FilesOf
    <3>4. \A i : Named(i)' = Named(i)
      BY <2>1 DEF Named
    <3>5. \A f \in tasks' \cup rows' : f \in FilesOf(f[1])
      BY <2>1, <2>3, <3>2 DEF Listing
    <3>6. ASSUME NEW i \in DOMAIN Dependencies(paket)
          PROVE  \/ \E k \in DOMAIN pending' : pending'[k] = Named(i)
                 \/ failed
                 \/ FilesOf(Named(i)) \subseteq tasks' \cup rows'
      <4>1. CASE \E k \in DOMAIN pending : pending[k] = Named(i)
        BY <2>3, <3>1, <4>1
      <4>2. CASE failed \/ FilesOf(Named(i)) \subseteq tasks \cup rows
        BY <2>1, <2>3, <4>2
      <4> QED
        BY <2>1, <4>1, <4>2 DEF Listing
    <3>7. Dependencies(paket)' = Dependencies(paket) /\ stage' = "list" /\ failed' = failed
      BY <2>1, <2>3
    <3> QED
      BY <2>1, <3>1, <3>3, <3>4, <3>5, <3>6, <3>7 DEF Listing
  <2> QED
    BY <1>6, <2>2, <2>3 DEF ListPackage, FilesOf
<1>7. CASE LoadGraph
  <2>1. /\ UNCHANGED <<input, paket, restriction, pending, tasks, failed, rows>>
        /\ stage = "list" /\ pending = <<>> /\ stage' \in {"served", "unserved"}
        /\ stage' = "served" => ~failed
    BY <1>7 DEF LoadGraph, vars
  <2> QED
    BY <2>1 DEF Listing, Named, FilesOf
<1>8. ASSUME NEW f, StoreRow(f) \/ TaskFails(f) PROVE Listing'
  <2>1. /\ UNCHANGED <<input, paket, stage, restriction, pending>> /\ f \in tasks
        /\ tasks' = tasks \ {f}
        /\ (rows' = rows \cup {f} /\ failed' = failed) \/ (rows' = rows /\ failed' = TRUE)
    BY <1>8 DEF StoreRow, TaskFails, vars
  <2>2. stage # "served" /\ stage \notin {"resolve", "await", "failed"}
    BY <1>1, <2>1 DEF Listing
  <2>3. \A name : FilesOf(name)' = FilesOf(name)
    BY <2>1 DEF FilesOf
  <2>4. \A i : Named(i)' = Named(i)
    BY <2>1 DEF Named
  <2>5. tasks' \cup rows' \subseteq tasks \cup rows /\ (failed' \/ tasks' \cup rows' = tasks \cup rows)
    BY <2>1
  <2>6. Dependencies(paket)' = Dependencies(paket)
    BY <2>1
  <2>7. failed => failed'
    BY <2>1
  <2> QED
    BY <2>1, <2>2, <2>3, <2>4, <2>5, <2>6, <2>7 DEF Listing
<1>9. CASE Next /\ UNCHANGED pVars
  <2>1. input' = input
    BY <1>9, InputStays
  <2> QED
    BY <1>3, <1>9, <2>1
<1> QED
  BY <1>3, <1>4, <1>5, <1>6, <1>7, <1>8, <1>9 DEF PNext, vars, pVars

\* A graph that was read back has, of each package, the files of the best directory.
THEOREM PackagesAreServed == PSpec => []PackagesServed
<1>1. ASSUME PInv, Listing PROVE PackagesServed
  <2>1. SUFFICES ASSUME stage = "served", NEW i \in DOMAIN Dependencies(paket),
                        Tidy(paket.cache[Named(i)])
                 PROVE  {f \in served.packages : f[1] = Named(i)} =
                           {<<Named(i), d>> : d \in Best(paket.cache[Named(i)], restriction)} \ paket.absent
    BY DEF PackagesServed, Named
  <2>2. input \in Inputs /\ tasks = {} /\ served.packages = rows
    BY <1>1, <2>1 DEF PInv, IInv, ReadLast, GraphHasStore
  <2>3. paket.cache[Named(i)] \in Seq(Entry)
    <3>1. Dependencies(paket)[i] \in Line
      BY <1>1, <2>2, DependenciesAreLines DEF Listing
    <3>2. Named(i) \in Name
      BY <3>1 DEF Named, Line
    <3> QED
      BY <1>1, <2>2, <3>2, PaketAssumption DEF Listing
  <2>4. FilesOf(Named(i)) =
           {<<Named(i), d>> : d \in Best(paket.cache[Named(i)], restriction)} \ paket.absent
    <3>1. restriction \in Chars
      BY <1>1 DEF Listing
    <3> QED
      BY <2>1, <2>3, <3>1, ChosenAreBest DEF FilesOf, XmlFiles
  <2>5. FilesOf(Named(i)) \subseteq rows
    <3>1. ~\E k \in DOMAIN pending : pending[k] = Named(i)
      BY <1>1, <2>1 DEF Listing
    <3> QED
      BY <1>1, <2>1, <2>2, <3>1 DEF Listing
  <2>6. \A f \in rows : f[1] = Named(i) => f \in FilesOf(Named(i))
    BY <1>1 DEF Listing
  <2>7. \A f \in FilesOf(Named(i)) : f[1] = Named(i)
    BY DEF FilesOf, XmlFiles
  <2> QED
    BY <2>2, <2>4, <2>5, <2>6, <2>7
<1> QED
  BY <1>1, PInitial, PInductive, ListingStart, ListingStep, PTL DEF PSpec
=============================================================================
