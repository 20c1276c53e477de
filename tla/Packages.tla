------------------------------ MODULE Packages ------------------------------
(***************************************************************************)
(* The packages of one init (dependency_resolution.rs): what paket has on  *)
(* disk is read (resolve), and once the SDK's task of module Sdk has ended *)
(* (csharp.rs) the packages' XML files are stored, each by a task of its   *)
(* own, and the graph is read back (load_to_database).  init's own steps   *)
(* in between, its locks and its other failures are in module Provider.    *)
(*                                                                         *)
(* A text is a sequence of numbers, one for each character, that compare   *)
(* as the characters do: the path of an entry below /lib/, after "net".    *)
(***************************************************************************)
EXTENDS Sdk, SequencesExt

CONSTANTS
    Name,        \* packages
    PaketOf(_)   \* what paket may have on disk, for an input of Sdk

Slash == -1
Chars == Seq(Int)

\* An entry of paket-installmodel.cache: a directory below /lib, or a DLL in one.
Entry == [tag : {"dir", "dll"}, path : Chars]

\* A line of paket.dependencies with a restriction; "short" has fewer than four words
\* before it, and `framework` is the last word behind it, if there is one.
Line == [tag : {"package", "short"}, name : Name, framework : SUBSET Chars]

ASSUME PaketAssumption ==
    \A in \in Inputs : \A p \in PaketOf(in) :
        /\ p.converted \in BOOLEAN      \* paket.dependencies is there, or paket makes it
        /\ p.references \in BOOLEAN     \* the reference assemblies are found
        /\ p.lines \in Seq(Line)
        /\ \A i \in DOMAIN p.lines : \A a, b \in p.lines[i].framework : a = b
        /\ p.cached \subseteq Name      \* packages with a cache file
        /\ \A n \in Name : p.cache[n] \in Seq(Entry)
        \* XML files, by the DLL they belong to, that are not there or cannot be indexed
        /\ p.absent \cup p.bad \subseteq Name \X Chars

VARIABLES
    paket,        \* chosen once
    stage,        \* what init does next
    restriction,  \* highest_restriction of the packages
    pending,      \* packages whose files have not been looked for
    tasks,        \* the JoinSet: files still to be stored, <<package, path>>
    failed,       \* has one of its tasks failed?
    rows,         \* files of packages with a row in the store
    served        \* files in the graph that queries see

pVars == <<paket, stage, restriction, pending, tasks, failed, rows, served>>

-----------------------------------------------------------------------------
(* paket's files *)

\* "zzzzzzzzzzzzzzz"
Highest == <<99>>

Dependencies(p) == Picked(p.lines, {i \in DOMAIN p.lines : p.lines[i].tag = "package"})

Smallest(lines) ==
    LET named == UNION {lines[i].framework : i \in DOMAIN lines}
    IN  IF named = {} THEN Highest
        ELSE CHOOSE a \in named : \A b \in named : a = b \/ Before(a, b)

\* Mutant of Scan: the last directory that is not too high is taken.
ScanLast(s, e, highest) ==
    IF e.tag = "dir" /\ ~Before(highest, e.path) THEN [dir |-> {e.path}, dlls |-> {}]
    ELSE IF e.tag = "dll" /\ (\E d \in s.dir : IsPrefix(d, e.path))
         THEN [s EXCEPT !.dlls = @ \cup {e.path}]
         ELSE s

\* read_packet_cache_file: a higher directory that is not too high begins anew, and
\* what begins with the directory's path belongs to it.
Scan(s, e, highest) ==
    IF e.tag = "dir" /\ ~Before(highest, e.path) /\ \A d \in s.dir : Before(d, e.path)
    THEN [dir |-> {e.path}, dlls |-> {}]
    ELSE IF e.tag = "dll" /\ (\E d \in s.dir : IsPrefix(d, e.path))
         THEN [s EXCEPT !.dlls = @ \cup {e.path}]
         ELSE s

ChosenDlls(entries, highest) ==
    LET seen[i \in 0..Len(entries)] ==
            IF i = 0 THEN [dir |-> {}, dlls |-> {}] ELSE Scan(seen[i - 1], entries[i], highest)
    IN  seen[Len(entries)].dlls

\* get_xml_files, and of these the ones that exist
XmlFiles(p, name, highest) == {<<name, d>> : d \in ChosenDlls(p.cache[name], highest)} \ p.absent

-----------------------------------------------------------------------------
PInit ==
    /\ Init /\ paket \in PaketOf(input)
    /\ stage = "resolve" /\ restriction = Highest /\ pending = <<>>
    /\ tasks = {} /\ failed = FALSE /\ rows = {}
    /\ served = [packages |-> {}, sdk |-> {}]

\* resolve, after the SDK's task has been spawned, and while it runs.
Resolve ==
    /\ stage = "resolve" /\ phase \notin {"tools", "detect", "find"} /\ outcome # "refused"
    /\ LET lines == Dependencies(paket)
       IN  IF ~paket.converted \/ (lines # <<>> /\ ~paket.references)
           THEN stage' = "failed" /\ UNCHANGED <<restriction, pending>>
           ELSE /\ stage' = "await"
                /\ restriction' = Smallest(lines)
                /\ pending' = [i \in DOMAIN lines |-> lines[i].name]
    /\ UNCHANGED <<vars, paket, tasks, failed, rows, served>>

\* Mutant of Join: the SDK's task is not awaited.
JoinAtOnce ==
    /\ stage = "await"
    /\ stage' = "list"
    /\ UNCHANGED <<vars, paket, restriction, pending, tasks, failed, rows, served>>

\* init awaits the SDK's task, if there is one, whatever it answers.
Join ==
    /\ stage = "await" /\ phase = "done"
    /\ stage' = "list"
    /\ UNCHANGED <<vars, paket, restriction, pending, tasks, failed, rows, served>>

\* load_to_database_source_only. The first package without a cache file ends it; the
\* tasks are dropped, except that those under way run to their end.
ListPackage ==
    /\ stage = "list" /\ pending # <<>>
    /\ IF Head(pending) \in paket.cached
       THEN /\ tasks' = tasks \cup XmlFiles(paket, Head(pending), restriction)
            /\ pending' = Tail(pending) /\ UNCHANGED stage
       ELSE /\ tasks' \in SUBSET tasks
            /\ stage' = "unserved" /\ UNCHANGED pending
    /\ UNCHANGED <<vars, paket, restriction, failed, rows, served>>

StoreRow(f) ==
    /\ f \in tasks \ paket.bad
    /\ tasks' = tasks \ {f}
    /\ rows' = rows \cup {f}
    /\ UNCHANGED <<vars, paket, stage, restriction, pending, failed, served>>

TaskFails(f) ==
    /\ f \in tasks \cap paket.bad
    /\ tasks' = tasks \ {f}
    /\ failed' = TRUE
    /\ UNCHANGED <<vars, paket, stage, restriction, pending, rows, served>>

\* get_sdk_path: the path that was set, or the place where the script installs.
SdkVisible == path \/ \E t \in tfm : root # {} /\ find_sdk(input, tools.root, t) = {}

\* load_to_database once all tasks have ended: init answers success either way.
LoadGraph ==
    /\ stage = "list" /\ pending = <<>> /\ tasks = {}
    /\ IF failed THEN stage' = "unserved" /\ UNCHANGED served
       ELSE /\ stage' = "served"
            /\ served' = [packages |-> rows, sdk |-> IF SdkVisible THEN db ELSE {}]
    /\ UNCHANGED <<vars, paket, restriction, pending, tasks, failed, rows>>

PNext ==
    \/ Next /\ UNCHANGED pVars
    \/ Resolve \/ Join \/ ListPackage \/ LoadGraph
    \/ \E n \in Name : \E d \in ChosenDlls(paket.cache[n], restriction) :
            StoreRow(<<n, d>>) \/ TaskFails(<<n, d>>)

PSpec == PInit /\ [][PNext]_<<vars, pVars>>

-----------------------------------------------------------------------------
(* Properties *)

\* Directories without another below them or with the same beginning, and DLLs listed
\* after their directory.
DirOf(path_) == SubSeq(path_, 1, Len(path_) - 2)
Tidy(entries) ==
    LET dirs == {i \in DOMAIN entries : entries[i].tag = "dir"}
    IN  /\ \A i, j \in dirs : i # j => ~IsPrefix(entries[i].path, entries[j].path)
        /\ \A i \in DOMAIN entries \ dirs :
              \E j \in dirs : j < i /\ entries[j].path = DirOf(entries[i].path)

\* The DLLs in the highest directory that the restriction allows.
Best(entries, highest) ==
    LET at(tag) == {entries[i].path : i \in {i \in DOMAIN entries : entries[i].tag = tag}}
        low == {d \in at("dir") : ~Before(highest, d)}
    IN  {f \in at("dll") : DirOf(f) \in low /\ \A d \in low : ~Before(DirOf(f), d)}

\* dependency_resolution.rs:126-171, 401-508: an init that has read its graph back
\* serves, of every package that restricts itself to a framework, the XML files of the
\* highest directory that the lowest of the frameworks allows, and no other,
\* whatever the order of the directories in the package's cache file.
PackagesServed ==
    stage = "served" =>
        \A i \in DOMAIN Dependencies(paket) :
            LET name == Dependencies(paket)[i].name
                files == {<<name, d>> : d \in Best(paket.cache[name], restriction)}
            IN  Tidy(paket.cache[name]) =>
                    {f \in served.packages : f[1] = name} = files \ paket.absent

\* csharp.rs:267-284, dependency_resolution.rs:335-399: the graph is read back after
\* all that this init writes: when it answers with a new graph, nothing is in the
\* store of its packages, or of an SDK that was loaded, that the graph has not.
GraphHasStore ==
    stage = "served" => served.packages = rows /\ (outcome = "loaded" => served.sdk = db)
=============================================================================
