-------------------------------- MODULE Sdk --------------------------------
(***************************************************************************)
(* The SDK side of one init: the tools of the request (project.rs), the    *)
(* target framework of the directory (target_framework.rs), the search for *)
(* an installed SDK (sdk_detection.rs, csharp.rs) and the task that stores *)
(* the SDK's XML files as source-less types (dependency_resolution.rs).    *)
(*                                                                         *)
(* Module Provider has this task as one row of the store and its path as   *)
(* one flag; here the files are told apart and the locks are left out.     *)
(***************************************************************************)
EXTENDS TargetFramework, FiniteSets

CONSTANTS
    File,      \* XML files of SDKs
    Inputs     \* the directories, requests and machines to begin with

Setting == {"absent", "there", "missing", "wrong"}   \* "wrong" is no string

\* ref/<tfm> below one version of a reference pack, with its XML files.
RefDir == [pack : {"core", "asp", "other"}, tfm : Seq(Token), files : SUBSET File]

\* `path` has what is found without being named: the commands on the PATH and the
\* script at its usual place. A root that does not exist, or has no packs, is {}.
\* `gone` files vanish before the loader looks, `broken` ones cannot be read or are
\* refused by the analyser.
ASSUME InputAssumption ==
    /\ IsFiniteSet(File)
    /\ \A in \in Inputs :
        /\ in.given \in BOOLEAN
        /\ {in.ilspy, in.paket, in.install, in.root} \subseteq Setting
        /\ in.path \subseteq {"ilspy", "paket", "dotnet-install.sh"}
        /\ IsFiniteSet(in.projects) /\ in.projects \subseteq Seq(XmlEvent)
        /\ in.configured \subseteq RefDir /\ in.installed \subseteq RefDir
        /\ in.system \in Seq(SUBSET RefDir)
        /\ in.gone \subseteq File /\ in.broken \subseteq File
        /\ in.scriptFails \in BOOLEAN /\ in.storeFails \subseteq {"open", "write"}

VARIABLES
    input,     \* chosen once
    phase,     \* what init, then its detached task, does next
    tools,     \* Tools: the script and the SDK that the request names
    tfm,       \* Project::target_framework, with at most one element
    root,      \* the SDK in use, as a set of RefDir
    todo,      \* files still to be indexed
    graph,     \* files in the graph under construction
    tags,      \* combined_file_to_tag
    count,     \* success_count
    db,        \* files with a row in the store
    path,      \* Project::sdk_path: is it set?
    outcome    \* of the task: Ok(count), an error, or not started

vars == <<input, phase, tools, tfm, root, todo, graph, tags, count, db, path, outcome>>
work == <<todo, graph, tags, count>>

Phases == {"tools", "detect", "find", "install", "files", "index", "open", "store", "mark", "done"}

-----------------------------------------------------------------------------
(* The request *)

\* A tool named by the request must exist; one not named must be on the PATH.
Usable(in, setting, command) ==
    IF in.given /\ setting # "absent" THEN setting = "there" ELSE command \in in.path

\* The script and the SDK are optional: a bad setting leaves them out.
InstallScript(in) ==
    \/ in.given /\ in.install = "there"
    \/ (in.given => in.install = "absent") /\ "dotnet-install.sh" \in in.path

ConfiguredRoot(in) == IF in.given /\ in.root = "there" THEN {in.configured} ELSE {}

-----------------------------------------------------------------------------
(* SDKs *)

\* An SDK serves a framework when its core pack has the framework's directory.
validate_sdk_for_tfm(sdk, t) == \E d \in sdk : d.pack = "core" /\ d.tfm = t

\* The configured SDK first, then the usual places in their order.
find_sdk(in, configured, t) ==
    LET fits == {i \in DOMAIN in.system : validate_sdk_for_tfm(in.system[i], t)}
        first == {i \in fits : \A j \in fits : i <= j}
        named == {sdk \in configured : validate_sdk_for_tfm(sdk, t)}
    IN  IF named # {} THEN named ELSE {in.system[i] : i \in first}

\* Mutant of find_sdk_xml_files: the loop ends after the first pack.
XmlFilesOfCore(sdk, t) == UNION {d.files : d \in {d \in sdk : d.pack = "core" /\ d.tfm = t}}

find_sdk_xml_files(sdk, t) ==
    UNION {d.files : d \in {d \in sdk : d.pack \in {"core", "asp"} /\ d.tfm = t}}

-----------------------------------------------------------------------------
Init ==
    /\ input \in Inputs
    /\ phase = "tools"
    /\ tools = [script |-> FALSE, root |-> {}]
    /\ tfm = {} /\ root = {}
    /\ todo = {} /\ graph = {} /\ tags = {} /\ count = 0
    /\ db = {} /\ path = FALSE /\ outcome = "none"

Stop(result) == phase' = "done" /\ outcome' = result

\* get_tools
GetTools ==
    /\ phase = "tools"
    /\ IF Usable(input, input.ilspy, "ilspy") /\ Usable(input, input.paket, "paket")
       THEN /\ tools' = [script |-> InstallScript(input), root |-> ConfiguredRoot(input)]
            /\ phase' = "detect" /\ UNCHANGED outcome
       ELSE Stop("refused") /\ UNCHANGED tools
    /\ UNCHANGED <<input, tfm, root, work, db, path>>

\* get_earliest_from_directory, set_target_framework and the test of init. Without
\* a framework, or with an old one, init goes on without an SDK.
Detect ==
    /\ phase = "detect"
    /\ IF Frameworks(input.projects) = {} THEN Stop("skipped") /\ UNCHANGED tfm
       ELSE LET t == Earliest(input.projects)
            IN  /\ tfm' = {t}
                /\ IF is_modern_dotnet(t) THEN phase' = "find" /\ UNCHANGED outcome
                   ELSE Stop("skipped")
    /\ UNCHANGED <<input, tools, root, work, db, path>>

\* find_sdk, and the choice between the loader, the script and nothing.
FindSdk ==
    /\ phase = "find"
    /\ LET t == CHOOSE t \in tfm : TRUE
           found == find_sdk(input, tools.root, t)
       IN  IF found # {} THEN root' \in found /\ phase' = "files" /\ UNCHANGED outcome
           ELSE /\ UNCHANGED root
                /\ IF tools.script THEN phase' = "install" /\ UNCHANGED outcome
                   ELSE Stop("skipped")
    /\ UNCHANGED <<input, tools, tfm, work, db, path>>

\* install_sdk
Install ==
    /\ phase = "install"
    /\ LET t == CHOOSE t \in tfm : TRUE
       IN  IF to_channel(t) = {} \/ input.scriptFails THEN Stop("error") /\ UNCHANGED root
           ELSE root' = input.installed /\ phase' = "files" /\ UNCHANGED outcome
    /\ UNCHANGED <<input, tools, tfm, work, db, path>>

-----------------------------------------------------------------------------
(* load_sdk_from_path, load_sdk_xml_files_to_database *)

Wanted == LET t == CHOOSE t \in tfm : TRUE IN find_sdk_xml_files(root, t)

\* No file at all leaves the path unset; files that are all gone do not.
FindFiles ==
    /\ phase = "files"
    /\ todo' = Wanted \ input.gone
    /\ IF Wanted = {} THEN Stop("loaded")
       ELSE phase' = (IF todo' = {} THEN "mark" ELSE "index") /\ UNCHANGED outcome
    /\ UNCHANGED <<input, tools, tfm, root, graph, tags, count, db, path>>

IndexFile(f) ==
    /\ phase = "index" /\ f \in todo \ input.broken
    /\ todo' = todo \ {f}
    /\ graph' = graph \cup {f} /\ tags' = tags \cup {f}
    /\ count' = count + 1
    /\ UNCHANGED <<input, phase, tools, tfm, root, db, path, outcome>>

\* Mutant of IndexFails: the file is counted.
IndexFailsCounted(f) ==
    /\ phase = "index" /\ f \in todo \cap input.broken
    /\ todo' = todo \ {f}
    /\ graph' = {}
    /\ count' = count + 1
    /\ UNCHANGED <<input, phase, tools, tfm, root, tags, db, path, outcome>>

\* A failure takes the graph with it: a new one is begun. What was noted about the
\* files in the old one stays.
IndexFails(f) ==
    /\ phase = "index" /\ f \in todo \cap input.broken
    /\ todo' = todo \ {f}
    /\ graph' = {}
    /\ UNCHANGED <<input, phase, tools, tfm, root, tags, count, db, path, outcome>>

Indexed ==
    /\ phase = "index" /\ todo = {}
    /\ IF count = 0 THEN Stop("error") ELSE phase' = "open" /\ UNCHANGED outcome
    /\ UNCHANGED <<input, tools, tfm, root, work, db, path>>

OpenStore ==
    /\ phase = "open"
    /\ IF "open" \in input.storeFails THEN Stop("error")
       ELSE phase' = "store" /\ UNCHANGED outcome
    /\ UNCHANGED <<input, tools, tfm, root, work, db, path>>

\* The entries of the map are stored in any order.
StoreFile(f) ==
    /\ phase = "store" /\ f \in (tags \ db) \cap graph
    /\ db' = db \cup {f}
    /\ UNCHANGED <<input, phase, tools, tfm, root, work, path, outcome>>

\* Mutant of StoreMissing: the entry is passed over.
StoreSkips(f) ==
    /\ phase = "store" /\ f \in (tags \ db) \ graph
    /\ tags' = tags \ {f}
    /\ UNCHANGED <<input, phase, tools, tfm, root, todo, graph, count, db, path, outcome>>

\* Mutant of StoreMissing: a row without paths is written.
StoreEmpty(f) ==
    /\ phase = "store" /\ f \in (tags \ db) \ graph
    /\ db' = db \cup {f}
    /\ UNCHANGED <<input, phase, tools, tfm, root, work, path, outcome>>

\* get_file finds no such file in the graph.
StoreMissing(f) ==
    /\ phase = "store" /\ f \in (tags \ db) \ graph
    /\ Stop("error")
    /\ UNCHANGED <<input, tools, tfm, root, work, db, path>>

\* The stitcher or the store gives up.
StoreFails(f) ==
    /\ phase = "store" /\ f \in tags \ db /\ "write" \in input.storeFails
    /\ Stop("error")
    /\ UNCHANGED <<input, tools, tfm, root, work, db, path>>

Stored ==
    /\ phase = "store" /\ tags \subseteq db
    /\ phase' = "mark"
    /\ UNCHANGED <<input, tools, tfm, root, work, db, path, outcome>>

\* set_sdk_path
Mark ==
    /\ phase = "mark"
    /\ path' = TRUE
    /\ Stop("loaded")
    /\ UNCHANGED <<input, tools, tfm, root, work, db>>

-----------------------------------------------------------------------------
Next ==
    \/ GetTools \/ Detect \/ FindSdk \/ Install \/ FindFiles
    \/ \E f \in File : \/ IndexFile(f) \/ IndexFails(f)
                       \/ StoreFile(f) \/ StoreMissing(f) \/ StoreFails(f)
    \/ Indexed \/ OpenStore \/ Stored \/ Mark

Spec == Init /\ [][Next]_vars

-----------------------------------------------------------------------------
(* Properties *)

\* The values of the variables, and how those of the loader depend on each other:
\* what is in the graph was noted, and what is stored was in the graph.
TypeOK ==
    /\ phase \in Phases
    /\ tools.script \in BOOLEAN /\ tools.root \subseteq {input.configured}
    /\ (\A t \in tfm, u \in tfm : t = u) /\ root \subseteq RefDir
    /\ todo \subseteq File /\ graph \subseteq tags /\ tags \subseteq File
    /\ count \in Nat /\ db \subseteq graph
    /\ path \in BOOLEAN /\ outcome \in {"none", "refused", "skipped", "error", "loaded"}

\* The loader answers Ok(n) ("Returns the count of successfully loaded files",
\* dependency_resolution.rs:715) only when n files are in the store, whatever
\* failed between counting and storing them.
CountIsStored == outcome = "loaded" => count = Cardinality(db)

\* The path of an SDK is remembered, and notifications read it back, only when
\* every file of it that could be indexed is in the store.
PathMeansComplete == path => Wanted \ (input.gone \cup input.broken) \subseteq db

\* The whole SDK is served where nothing fails: a request that names its tools or
\* has them on the PATH, a framework that is not an old one, a machine with an SDK for
\* it or with the script, files that are all there.
Undisturbed ==
    /\ input.gone = {} /\ input.broken = {} /\ input.storeFails = {} /\ ~input.scriptFails
    /\ input.ilspy \in {"absent", "there"} /\ input.paket \in {"absent", "there"}
    /\ {"ilspy", "paket", "dotnet-install.sh"} \subseteq input.path
    /\ input.install = "absent"

\* A version of .NET or .NET Core that the documentation of the module lists and
\* whose numbers have one digit.
Served(t) ==
    \/ StartsWith(t, CoreApp) \/ StartsWith(t, Standard)
    \/ HasDot(t) /\ OneDigit(t)

\* All the directories of an SDK for the framework that is used, on a machine where
\* the configured SDK, one of the usual places or the script can provide it.
SdkServed ==
    phase = "done" /\ Undisturbed /\ Frameworks(input.projects) # {}
                   /\ Served(Earliest(input.projects)) =>
        LET t == Earliest(input.projects)
            all(sdk) == UNION {d.files : d \in {d \in sdk : d.tfm = t /\ d.pack # "other"}}
            places == ConfiguredRoot(input) \cup {input.system[i] : i \in DOMAIN input.system}
            some == {sdk \in places : \E d \in sdk : d.pack = "core" /\ d.tfm = t}
        IN  IF some # {} THEN \E sdk \in some : db = all(sdk)
            ELSE db = all(input.installed)

\* The moniker in use is the earliest of its family among those of the projects,
\* by its numbers and not by its text, as long as numbers before a dot have one digit.
EarliestChosen ==
    \A t \in tfm : \A u \in Frameworks(input.projects) :
        Family(u) = Family(t) /\ OneDigit(t) /\ OneDigit(u) =>
            Version(t) = Version(u) \/ Before(Version(t), Version(u))

\* The reader takes from a project file without empty elements and comments what
\* the last TargetFramework of a property group says, or else the last
\* TargetFrameworkVersion of one: reading on after the element loses nothing.
ReaderAgrees ==
    \A file \in input.projects : Plain(file) => Chosen(file) = Declared(file)

\* "Continue with the rest of the files" (dependency_resolution.rs:787): a file
\* that cannot be indexed costs only itself.
BadFileOnlyLosesItself ==
    phase = "done" /\ outcome \in {"loaded", "error"} /\ root # {} /\ input.storeFails = {} =>
        Wanted \ (input.gone \cup input.broken) \subseteq db
=============================================================================
