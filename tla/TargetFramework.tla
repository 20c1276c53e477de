-------------------------- MODULE TargetFramework --------------------------
(***************************************************************************)
(* Target framework monikers (src/provider/target_framework.rs): how one   *)
(* is read from a project file, brought to its standard form, compared and *)
(* turned into the version that the install script is asked for.           *)
(*                                                                         *)
(* A moniker is written here by what follows "net": a sequence of decimal  *)
(* digits, the dot, and the words "coreapp" and "standard", each standing  *)
(* for one number such that the numbers compare as the characters do.      *)
(***************************************************************************)
EXTENDS Integers, Sequences

Dot == -2
Digit == 0..9
CoreApp == 10
Standard == 11
Token == {Dot, CoreApp, Standard} \cup Digit

\* The text of a project file: "v4.7.2" has form "v", "net8.0-android" is the
\* text of net8.0 with a platform, and form "other" is any text that begins with
\* neither.
RawMoniker == [form : {"v", "net", "other"}, text : Seq(Token), platform : BOOLEAN]

-----------------------------------------------------------------------------
(* Texts *)

\* What a sequence has at the places of a set, in its order.
Picked(seq, places) ==
    LET kept[i \in 0..Len(seq)] ==
            IF i = 0 THEN <<>>
            ELSE IF i \in places THEN Append(kept[i - 1], seq[i]) ELSE kept[i - 1]
    IN  kept[Len(seq)]

StartsWith(text, token) == text # <<>> /\ text[1] = token
HasDot(text) == \E i \in DOMAIN text : text[i] = Dot
Without(text, token) == Picked(text, {i \in DOMAIN text : text[i] # token})
FirstAt(text, token) ==
    CHOOSE i \in DOMAIN text : text[i] = token /\ \A j \in 1..(i - 1) : text[j] # token

\* String's order: the first difference decides, and a prefix comes first.
Before(a, b) ==
    \E i \in DOMAIN b :
        /\ i <= Len(a) + 1
        /\ \A j \in 1..(i - 1) : a[j] = b[j]
        /\ i = Len(a) + 1 \/ a[i] < b[i]

\* The number that a row of digits spells.
Number(digits) ==
    LET n[i \in 0..Len(digits)] == IF i = 0 THEN 0 ELSE 10 * n[i - 1] + digits[i]
    IN  n[Len(digits)]

\* What parse::<u32>() takes: the largest such number has ten digits.
LargestU32 == <<4, 2, 9, 4, 9, 6, 7, 2, 9, 5>>
IsU32(digits) ==
    LET before == Len(digits) - Len(LargestU32)
    IN  /\ digits # <<>>
        /\ \A i \in DOMAIN digits : digits[i] \in Digit
        /\ before >= 0 => /\ \A i \in 1..before : digits[i] = 0
                          /\ ~Before(LargestU32, SubSeq(digits, before + 1, Len(digits)))

\* The number before the first dot lies in `range`; there must be one.
MajorIn(text, range) ==
    /\ HasDot(text)
    /\ LET major == SubSeq(text, 1, FirstAt(text, Dot) - 1)
       IN  IsU32(major) /\ Number(major) \in range

-----------------------------------------------------------------------------
(* Monikers *)

is_valid_base_tfm(text) ==
    IF StartsWith(text, Standard) THEN MajorIn(Tail(text), 1..2)
    ELSE IF StartsWith(text, CoreApp) THEN MajorIn(Tail(text), 1..3)
    ELSE IF HasDot(text) THEN MajorIn(text, Nat \ 0..4)
    ELSE Len(text) \in 2..3 /\ \A i \in DOMAIN text : text[i] \in Digit

\* The standard form, or nothing when the moniker is refused. An old version is
\* not validated.
normalize(raw) ==
    CASE raw.form = "v" -> {Without(raw.text, Dot)}
      [] raw.form = "net" -> IF is_valid_base_tfm(raw.text) THEN {raw.text} ELSE {}
      [] OTHER -> {}

\* The version the install script is asked for, or nothing.
to_channel(text) ==
    IF StartsWith(text, CoreApp) \/ StartsWith(text, Standard) THEN {Tail(text)}
    ELSE IF HasDot(text) THEN {text}
    ELSE IF Len(text) = 2 THEN {<<text[1], Dot, text[2]>>}
    ELSE IF Len(text) = 3 THEN {<<text[1], Dot, text[2], Dot, text[3]>>}
    ELSE {}

\* The test by which init takes a moniker for one that the script can install.
is_modern_dotnet(text) ==
    StartsWith(text, CoreApp) \/ StartsWith(text, Standard)
        \/ \A d \in {1, 2, 3, 4} : ~StartsWith(text, d)

-----------------------------------------------------------------------------
(* Project files: the events of the XML reader. An element without content has *)
(* one event, "empty", and no "close". "error" ends a file.                   *)

Tag == {"open", "empty", "close", "text", "other", "error"}
Element == {"PropertyGroup", "TargetFramework", "TargetFrameworkVersion", "none"}
XmlEvent == [tag : Tag, name : Element, value : RawMoniker]

\* What the reader knows before the event numbered `at`.
ReaderStart == [at |-> 1, group |-> FALSE, framework |-> {}, version |-> {}, failed |-> FALSE]

\* One round of its loop; a round that reads a framework reads the event after it too,
\* whatever that is.
Round(file, s) ==
    LET e == file[s.at]
        begins(name) == e.tag \in {"open", "empty"} /\ e.name = name
        next == s.at + 1
        value(old) == IF next \in DOMAIN file /\ file[next].tag = "text" THEN {file[next].value} ELSE old
    IN  IF s.at > Len(file) THEN s
        ELSE CASE e.tag = "error" -> [s EXCEPT !.at = Len(file) + 1, !.failed = TRUE]
               [] begins("PropertyGroup") -> [s EXCEPT !.at = next, !.group = TRUE]
               [] begins("TargetFramework") /\ s.group ->
                     [s EXCEPT !.at = @ + 2, !.framework = value(@)]
               [] begins("TargetFrameworkVersion") /\ s.group ->
                     [s EXCEPT !.at = @ + 2, !.version = value(@)]
               [] e.tag = "close" /\ e.name = "PropertyGroup" ->
                     [s EXCEPT !.at = next, !.group = FALSE]
               [] OTHER -> [s EXCEPT !.at = next]

Reader(file) ==
    LET after[n \in 0..Len(file)] == IF n = 0 THEN ReaderStart ELSE Round(file, after[n - 1])
    IN  after[Len(file)]

\* Mutant of Chosen: the version is preferred.
ChosenVersionFirst(file) ==
    LET end == Reader(file)
    IN  IF end.failed THEN {} ELSE IF end.version # {} THEN end.version ELSE end.framework

\* The moniker of a project file: TargetFramework before TargetFrameworkVersion.
Chosen(file) ==
    LET end == Reader(file)
    IN  IF end.failed THEN {} ELSE IF end.framework # {} THEN end.framework ELSE end.version

from_csproj(file) == UNION {normalize(raw) : raw \in Chosen(file)}

-----------------------------------------------------------------------------
(* All the projects of a directory *)

Frameworks(projects) == UNION {from_csproj(p) : p \in projects}

\* Mutant of Earliest: the list is not sorted.
EarliestUnsorted(projects) == CHOOSE a \in Frameworks(projects) : TRUE

\* A project file that cannot be read is passed over; the first of the sorted
\* monikers is taken.
Earliest(projects) ==
    CHOOSE a \in Frameworks(projects) : \A b \in Frameworks(projects) : a = b \/ Before(a, b)

-----------------------------------------------------------------------------
(* References for the properties *)

\* The numbers of a version: those between the dots, or the digits of net472.
Version(text) ==
    LET add(v, t) == IF t = Dot THEN Append(v, 0)
                     ELSE [v EXCEPT ![Len(v)] = 10 * @ + t]
        v[i \in 0..Len(text)] ==
            IF i = 0 THEN <<0>>
            ELSE IF text[i] \notin Digit \cup {Dot} THEN v[i - 1]
            ELSE add(v[i - 1], text[i])
    IN  IF HasDot(text) THEN v[Len(text)] ELSE text

\* netXYZ, netcoreappX.Y, netstandardX.Y and netX.Y are four families.
HasWord(text) == StartsWith(text, CoreApp) \/ StartsWith(text, Standard)
Family(text) == IF ~HasDot(text) THEN 0 ELSE IF HasWord(text) THEN text[1] ELSE Dot

\* A version whose numbers have one digit, with or without dots between them.
OneDigit(text) ==
    LET word == IF HasWord(text) THEN 1 ELSE 0
    IN  \A i \in (word + 1)..Len(text) :
            IF HasDot(text) /\ (i - word) % 2 = 0 THEN text[i] = Dot /\ i < Len(text)
            ELSE text[i] \in Digit

\* A file without empty elements, comments in an element, or errors.
Plain(file) ==
    \A i \in DOMAIN file :
        /\ file[i].tag \notin {"empty", "error"}
        /\ file[i].tag = "open" /\ file[i].name # "PropertyGroup" =>
              /\ i < Len(file)
              /\ \/ file[i + 1].tag = "text"
                 \/ file[i + 1].tag = "close" /\ file[i + 1].name = file[i].name

\* The last text of an element of that name that stands in a property group.
LastIn(file, name) ==
    LET inGroup(i) == \E j \in 1..(i - 1) :
            /\ file[j].tag = "open" /\ file[j].name = "PropertyGroup"
            /\ \A k \in j..i : ~(file[k].tag = "close" /\ file[k].name = "PropertyGroup")
        at == {i \in 2..Len(file) : /\ file[i].tag = "text"
                                    /\ file[i - 1].tag = "open" /\ file[i - 1].name = name
                                    /\ inGroup(i)}
    IN  {file[i].value : i \in {i \in at : \A j \in at : j <= i}}

Declared(file) ==
    IF LastIn(file, "TargetFramework") # {} THEN LastIn(file, "TargetFramework")
    ELSE LastIn(file, "TargetFrameworkVersion")
=============================================================================
