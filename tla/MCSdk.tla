------------------------------- MODULE MCSdk -------------------------------
(***************************************************************************)
(* Sdk and Packages on four families of inputs: every project file of up   *)
(* to four items, every pair of frameworks, every request, and every way   *)
(* in which the three files of an SDK may disturb the loader; and packages *)
(* with every cache file of up to four entries, and with what may be       *)
(* missing of two packages while an SDK is being loaded.                   *)
(***************************************************************************)
EXTENDS Packages

CONSTANTS f1, f2, f3, pa, pb

MCFile == {f1, f2, f3}
MCName == {pa, pb}

Raw(form, text, platform) == [form |-> form, text |-> text, platform |-> platform]
Net(text) == Raw("net", text, FALSE)
Net6 == Net(<<6, Dot, 0>>)
Net8 == Net(<<8, Dot, 0>>)
V48 == Raw("v", <<4, Dot, 8>>, FALSE)

(* Project files *)

Event(tag, name, value) == [tag |-> tag, name |-> name, value |-> value]
Markup(tag, name) == Event(tag, name, Raw("other", <<>>, FALSE))
Text(value) == Event("text", "none", value)
Says(name, value) == <<Markup("open", name), Text(value), Markup("close", name)>>

Items == {
    <<Markup("open", "PropertyGroup")>>, <<Markup("close", "PropertyGroup")>>,
    <<Markup("empty", "PropertyGroup")>>, <<Markup("other", "none")>>, <<Markup("error", "none")>>,
    Says("TargetFramework", Net6), Says("TargetFramework", Net8),
    Says("TargetFrameworkVersion", V48),
    <<Markup("open", "TargetFramework"), Markup("close", "TargetFramework")>>,
    <<Markup("empty", "TargetFramework")>>,
    <<Markup("open", "TargetFramework"), Markup("other", "none"), Text(Net6),
      Markup("close", "TargetFramework")>> }

\* No group is closed that was not opened, and nothing follows an error.
WellFormed(file) ==
    \A n \in DOMAIN file :
        LET seen(tag) == Cardinality({i \in 1..n : /\ file[i].tag = tag
                                                   /\ file[i].name = "PropertyGroup"})
        IN  seen("close") <= seen("open") /\ (file[n].tag = "error" => n = Len(file))

Csprojs == {file \in {FlattenSeq(s) : s \in SeqOf(Items, 4)} : WellFormed(file)}

Simple(raw) == <<Markup("open", "PropertyGroup")>>
               \o Says(IF raw.form = "v" THEN "TargetFrameworkVersion" ELSE "TargetFramework", raw)
               \o <<Markup("close", "PropertyGroup")>>

Monikers == { Net6, Raw("net", <<8, Dot, 0>>, TRUE), Net(<<1, 0, Dot, 0>>), V48,
              Net(<<4, 7, 2>>), Net(<<3, Dot, 5>>), Net(<<CoreApp, 3, Dot, 1>>),
              Net(<<CoreApp, 2, Dot, 1>>), Net(<<Standard, 2, Dot, 0>>), Raw("v", <<5>>, FALSE),
              Net(<<5, 0>>), Raw("other", <<6>>, FALSE) }

(* SDKs *)

Ref(pack, text, files) == [pack |-> pack, tfm |-> text, files |-> files]
Sdk8 == {Ref("core", Net8.text, {f1, f2}), Ref("asp", Net8.text, {f3}),
         Ref("other", Net8.text, {f1})}
Sdk6 == {Ref("core", Net6.text, {f1}), Ref("asp", Net6.text, {f2}), Ref("asp", Net8.text, {f3})}
Bare == {Ref("core", Net8.text, {})}

Quiet == [given |-> FALSE, ilspy |-> "absent", paket |-> "absent", install |-> "absent",
          root |-> "absent", path |-> {"ilspy", "paket", "dotnet-install.sh"},
          projects |-> {Simple(Net8)}, configured |-> {}, system |-> <<>>, installed |-> Sdk8,
          gone |-> {}, broken |-> {}, scriptFails |-> FALSE, storeFails |-> {}]

(* Inputs *)

Reading == {[Quiet EXCEPT !.projects = {file}, !.system = <<Sdk6>>] : file \in Csprojs}

Pairs == {[Quiet EXCEPT !.projects = {Simple(a), Simple(b)},
                        !.given = TRUE, !.root = r, !.configured = Sdk6,
                        !.system = s, !.installed = Sdk6 \cup Sdk8] :
             a \in Monikers, b \in Monikers, r \in {"absent", "there"},
             s \in {<<>>, <<Sdk6, Sdk8>>, <<Bare, Sdk6 \cup Sdk8>>}}

Requests == {[Quiet EXCEPT !.given = g, !.ilspy = i, !.paket = p, !.install = d, !.root = r,
                           !.path = on, !.configured = Sdk8] :
                g \in BOOLEAN, i \in {"absent", "there", "wrong"},
                p \in {"absent", "there", "missing"}, d \in Setting, r \in Setting,
                on \in SUBSET Quiet.path}

Disturbed == {[Quiet EXCEPT !.gone = g, !.broken = b, !.scriptFails = sf, !.storeFails = st,
                            !.system = s] :
                g \in SUBSET MCFile, b \in SUBSET MCFile, sf \in BOOLEAN,
                st \in SUBSET {"open", "write"}, s \in {<<>>, <<Sdk8>>, <<{}, Bare>>}}

NoSdk == [Quiet EXCEPT !.projects = {}]
WithSdk == [Quiet EXCEPT !.system = <<Sdk8>>]

MCInputs == Reading \cup Pairs \cup Requests \cup Disturbed \cup {NoSdk, WithSdk}

(* Packages *)

Dir(text) == [tag |-> "dir", path |-> text]
Dll(text) == [tag |-> "dll", path |-> text \o <<Slash, 1>>]

\* net403 begins like net40, and net45/de lies in net45.
Folders == {<<4, 0>>, <<4, 0, 3>>, <<4, 5>>, <<4, 5, Slash, 20>>}
Entries == {Dir(t) : t \in Folders} \cup {Dll(t) : t \in Folders}
CacheFiles == {c \in SeqOf(Entries, 4) : \A i, j \in DOMAIN c : i # j => c[i] # c[j]}
Usual == <<Dir(<<4, 0>>), Dll(<<4, 0>>), Dir(<<4, 5>>), Dll(<<4, 5>>), Dir(<<4, 6>>), Dll(<<4, 6>>)>>

Restricted(name, framework) == [tag |-> "package", name |-> name, framework |-> framework]
\* "net45)" is the last word of "|| (>= net40) (>= net45)".
Restrictions == {{}, {<<4, 0>>}, {<<4, 5>>}, {<<4, 5, -3>>}, {<<4, 8>>}}

NoPaket == [converted |-> FALSE, references |-> FALSE, lines |-> <<>>, cached |-> {},
            cache |-> [n \in MCName |-> <<>>], absent |-> {}, bad |-> {}]

OneCache ==
    {[NoPaket EXCEPT !.converted = TRUE, !.references = TRUE, !.cached = {pa},
                     !.lines = <<Restricted(pa, f)>>, !.cache = [n \in MCName |-> c]] :
        f \in Restrictions, c \in CacheFiles \cup {Usual, Reverse(Usual)}}

At(name, text) == <<name, text \o <<Slash, 1>>>>
TwoPackages ==
    {[NoPaket EXCEPT !.converted = c, !.references = r, !.cached = known,
                     !.lines = <<Restricted(pa, f), l>>, !.cache = [n \in MCName |-> Usual],
                     !.absent = gone, !.bad = bad] :
        c \in BOOLEAN, r \in BOOLEAN, known \in SUBSET MCName,
        f \in {{<<4, 5>>}, {<<4, 8>>}},
        l \in {Restricted(pb, {<<4, 5>>}), Restricted(pb, {<<4, 6>>}),
               [tag |-> "short", name |-> pb, framework |-> {<<4, 0>>}]},
        gone \in {{}, {At(pa, <<4, 5>>)}}, bad \in SUBSET {At(pa, <<4, 6>>), At(pb, <<4, 5>>)}}

MCPaketOf(in) ==
    IF in = NoSdk THEN OneCache \cup {[NoPaket EXCEPT !.converted = TRUE]}
    ELSE IF in = WithSdk THEN TwoPackages
    ELSE {NoPaket}
=============================================================================
