------------------------------- MODULE MCInputs -------------------------------
(* How inputs become layers, for TLC: which part moves is chosen at the      *)
(* beginning, the others keep one of their initial values.                   *)
EXTENDS Assembly, Discovery, Flattening, PagedLoad

VARIABLE part

------------------------------------------------------------------------------
\* Sites: a configuration directory, the environment and the options of New.
Dir(files) == [state |-> "present", files |-> files]
Absent == [state |-> "absent", files |-> <<>>]
Broken == [state |-> "error", files |-> <<>>]
OneFile == Dir(<<"merge">>)
MergeAndPatch == Dir(<<"merge", "patch">>)
OddFiles == Dir(<<"hidden", "unknown", "merge", "irregular">>)
FullBand == Dir(<<"merge", "merge", "unknown", "merge">>)
Dirs == {Absent, Broken, OneFile, MergeAndPatch, OddFiles, FullBand}
NoMeta == [bad |-> FALSE, match |-> <<>>]
Overlay(n, d) == [name |-> n, hidden |-> FALSE, meta |-> NoMeta, dir |-> d]
Matching(n, e) == [Overlay(n, MergeAndPatch) EXCEPT !.meta.match = e]
Axis(d, p, e, h) == [dir |-> d, priority |-> p, env |-> e, fromHostname |-> h]
HostAxis == Axis("hosts", 1, "unset", TRUE)
ExtraKeys == {"regions", "hosts"} \X {"h", "e"}
BaseDirs == {"base", "alt"}
EnvNames == {"APP_PROFILE", "X", "Y"}
OtherLayer(c, p) == [class |-> c, dir |-> <<>>, file |-> 0, prio |-> p]
PlainSite ==
  [strict |-> FALSE, match |-> <<>>, host |-> "h", axes |-> <<>>, others |-> <<>>,
   profile |-> [names |-> {"a"}, env |-> "", default |-> ""],
   env |-> [v \in EnvNames |-> {}],
   meta |-> [bad |-> FALSE, strict |-> FALSE, baseDir |-> "", profileEnv |-> "", default |-> ""],
   bases |-> [d \in BaseDirs |-> OneFile], listing |-> "present",
   overlays |-> <<Overlay("a", OneFile), Overlay("b", OneFile)>>,
   extra |-> [k \in ExtraKeys |-> OneFile]]

FileSites ==
  {[PlainSite EXCEPT !.strict = strict,
      !.bases = [d \in BaseDirs |-> IF d = "base" THEN base ELSE MergeAndPatch],
      !.meta.baseDir = moved,
      !.overlays = <<Overlay("a", overlay), Overlay("b", OneFile)>>,
      !.axes = <<HostAxis, Axis("regions", 1, "unset", FALSE)>>,
      !.extra = [k \in ExtraKeys |-> extra]] :
    strict \in BOOLEAN, base \in Dirs \ {MergeAndPatch}, moved \in {"", "alt"},
    overlay \in Dirs, extra \in Dirs \ {Broken, OneFile}}

\* Every expression of up to four tokens, and a few longer ones.
Tokens == {"a", "b", "&", "|", "!", "(", ")"}
Exprs ==
  UNION {[1 .. n -> Tokens] : n \in 0 .. 4}
    \cup {<<"a", "|", "b", "&", "a">>, <<"(", "a", "|", "b", ")", "&", "!", "b">>,
          <<"!", "(", "a", "&", "b", ")">>, <<"a", "&", "!", "b", "|", "b">>}
ExprSites ==
  {[PlainSite EXCEPT !.profile.names = {"b"},
      !.overlays = <<Matching("a", e), Overlay("b", OneFile)>>] : e \in Exprs}

\* Several overlays, hidden or with broken metadata, and the global filter.
SomeExprs == {<<>>, <<"a">>, <<"!", "a">>, <<"a", "|", "b">>, <<"a", "&">>}
OverlaySites ==
  {[PlainSite EXCEPT !.axes = axes, !.extra = [k \in ExtraKeys |-> MergeAndPatch],
      !.profile.names = names, !.match = filter, !.listing = listing,
      !.overlays = <<[Matching("a", e) EXCEPT !.hidden = odd], Matching("b", <<"a">>),
                     [Matching("c", e) EXCEPT !.meta.bad = odd]>>] :
    axes \in {<<>>, <<HostAxis>>}, names \in {{}, {"a"}, {"a", "b", "c"}},
    filter \in SomeExprs, listing \in {"present", "absent", "error"},
    e \in SomeExprs, odd \in BOOLEAN}

AxisLists ==
  {<<>>, <<Axis("regions", 2, "e", FALSE), HostAxis>>,
   <<Axis("regions", 1, "", TRUE), Axis("hosts", 1, "h", TRUE)>>,
   <<Axis("regions", 1, "..", TRUE), Axis("hosts", 1, "e", TRUE)>>}
    \cup {<<Axis("regions", p, e, r), Axis("hosts", 1, f, q), Axis("zones", 2, "", FALSE)>> :
            p \in 1 .. 2, e, f \in {"unset", "", "e"}, r, q \in BOOLEAN}
AxisSites ==
  {[PlainSite EXCEPT !.host = h, !.axes = axes,
      !.extra = [k \in ExtraKeys |-> IF k[1] = "hosts" THEN d ELSE MergeAndPatch]] :
    h \in {"h", "", "fails", ".."}, d \in {OneFile, FullBand, Absent}, axes \in AxisLists}

\* Where the active profiles come from.
ProfileSites ==
  {[PlainSite EXCEPT !.profile = [names |-> names, env |-> e, default |-> d],
      !.meta.profileEnv = me, !.meta.default = md, !.meta.bad = bad, !.env[v] = {"b"}] :
    names \in {{}, {"a"}}, e, me \in {"", "X"}, d, md \in {"", "a", "b"},
    v \in EnvNames, bad \in BOOLEAN}

\* Generator, provider and override layers of any priorities next to the files.
Priorities == {<<0, 0>>, <<5, -5>>, <<-5, 99>>}
OtherLayers ==
  {[c \in 1 .. 3 |-> <<>>]}
    \cup {[c \in 1 .. 3 |-> [i \in 1 .. 2 |-> OtherLayer(c, p[c][i])]] : p \in [1 .. 3 -> Priorities]}
LayerSites ==
  {[PlainSite EXCEPT !.bases = [d \in BaseDirs |-> base], !.listing = "absent",
      !.others = FlattenSeq(o)] : base \in {Absent, MergeAndPatch}, o \in OtherLayers}

TheSites == FileSites \cup ExprSites \cup OverlaySites \cup AxisSites \cup ProfileSites \cup LayerSites

------------------------------------------------------------------------------
\* Sources of flat entries. A key is its place in lexical order.
FlatEntry(k, p, v) == [key |-> k, path |-> p, value |-> v]
PathOfKey ==
  <<<<"a">>, <<"a", "b">>, <<"a", "b", "c">>, <<"a", "b">>, <<"a", "c">>, <<"b">>, <<>>>>
EntryOf(k, v) == FlatEntry(k, PathOfKey[k], Str(v))
UpTo(n, S) == UNION {[1 .. m -> S] : m \in 0 .. n}
Distinct(s) == \A i, j \in DOMAIN s : i # j => s[i].key # s[j].key
NoSource == [kind |-> "labels", entries |-> <<>>, at |-> <<>>, mode |-> "plain"]

LabelSources ==
  {[NoSource EXCEPT !.entries = s, !.mode = "coerce"] :
    s \in UpTo(3, {EntryOf(k, v) : k \in 1 .. 7, v \in {"8", "x"}})}
EnvSources ==
  {[NoSource EXCEPT !.kind = "env", !.entries = s, !.mode = m, !.at = at] :
    s \in UpTo(2, {EntryOf(k, "8") : k \in 1 .. 7}), m \in {"plain", "coerce"},
    at \in {<<>>, <<"r", "s">>}}

VaultEntries ==
  {EntryOf(k, "x") : k \in {1, 2, 3, 5, 6}}
    \cup {FlatEntry(1, <<"a">>, MapOf("b" :> Str("m") @@ "d" :> Str("n")))}
VaultSources ==
  {[NoSource EXCEPT !.kind = "vault", !.entries = s] :
    s \in {t \in UpTo(4, VaultEntries) : Distinct(t)}}

ConsulEntry(k, p, place, bad) ==
  [key |-> k, path |-> p, value |-> Str("x"), place |-> place, bad |-> bad]
ConsulEntries ==
  {ConsulEntry(1, <<"a">>, "below", FALSE), ConsulEntry(2, <<"a", "b">>, "below", FALSE),
   ConsulEntry(3, <<"le">>, "sibling", FALSE), ConsulEntry(4, <<"z">>, "folder", FALSE),
   ConsulEntry(5, <<"a", "c">>, "below", TRUE), ConsulEntry(6, <<"le">>, "sibling", TRUE),
   ConsulEntry(7, <<>>, "prefix", FALSE)}
ConsulSources ==
  {[NoSource EXCEPT !.kind = "consul", !.entries = s, !.mode = m] :
    s \in {t \in UpTo(3, ConsulEntries) : Distinct(t)}, m \in {"blob", "tree"}}

DotFile(s) == [bad |-> FALSE, entries |-> s]
DotFiles ==
  {DotFile(s) : s \in UpTo(2, {EntryOf(k, "x") : k \in 1 .. 4})}
    \cup {[bad |-> TRUE, entries |-> <<>>]}
DotenvSources ==
  {[kind |-> "dotenv", entries |-> <<>>, at |-> at, mode |-> "plain",
    files |-> <<f, DotFile(<<EntryOf(2, "y")>>)>>, process |-> p] :
    at \in {<<>>, <<"r">>}, f \in DotFiles,
    p \in {<<>>, <<EntryOf(2, "")>>, <<EntryOf(1, "p"), EntryOf(4, "q")>>}}

MetaEntry(k, v) ==
  [key |-> k, name |-> <<"a", "a.b", "a.b.c", "a/b", "a/c">>[k], path |-> PathOfKey[k],
   value |-> Str(v)]
MetaEntries == {MetaEntry(k, "x") : k \in {1, 2, 4, 5}} \cup {MetaEntry(2, "y")}
MetaFile(state) == [state |-> state, entries |-> <<>>]
MetaFiles ==
  {[MetaFile("present") EXCEPT !.entries = s] : s \in UpTo(3, MetaEntries)}
    \cup {MetaFile("absent"), MetaFile("bad")}
DownwardSources ==
  {[kind |-> "downward", entries |-> <<>>, at |-> at, mode |-> m, mustExist |-> must,
    buckets |-> ("labels" :> b) @@
      (IF both THEN "annotations" :> MetaFile("absent") ELSE NoKids)] :
    at \in {<<>>, <<"k8s", "metadata">>}, m \in {"raw", "expanded"},
    must, both \in BOOLEAN, b \in MetaFiles}

RoutingEntries ==
  {FlatEntry(1, <<"d[0]">>, Str("8")), FlatEntry(2, <<"d[1]", "m">>, Str("x")),
   FlatEntry(3, <<"d[1]", "rule">>, Str("8,x")), FlatEntry(4, <<"d">>, Str("8,x")),
   FlatEntry(5, <<"h", "d[1]">>, Str("true")), FlatEntry(6, <<"h", "d[2]">>, Str("x")),
   FlatEntry(7, <<"on">>, Str("true")), FlatEntry(8, <<"on">>, Str("x")),
   FlatEntry(9, <<"d[0]", "d[0]">>, Str("x"))}
RoutingSources ==
  {[kind |-> "routing", entries |-> s, at |-> <<>>, mode |-> m, gate |-> <<"on">>] :
    s \in UpTo(3, RoutingEntries), m \in {"raw", "typed"}}

TheSources ==
  LabelSources \cup EnvSources \cup VaultSources \cup ConsulSources \cup DotenvSources
    \cup DownwardSources \cup RoutingSources

------------------------------------------------------------------------------
\* Services that answer in pages.
Item(k, p, valid) == [key |-> k, path |-> p, value |-> Str("v"), size |-> 1, valid |-> valid]
ItemA == Item(1, <<"a">>, TRUE)
ItemAB == Item(2, <<"a", "b">>, TRUE)
ItemAC == Item(3, <<"a", "c">>, TRUE)
Items == {ItemA, ItemAB, ItemAC, Item(4, <<"b">>, FALSE), Item(5, <<"b", "">>, TRUE)}
Page(items, after) == [items |-> items, next |-> after]
ParameterStores ==
  {[kind |-> "ssm", limit |-> 3,
    pages |-> "" :> Page(s1, n1) @@ "t" :> Page(s2, n2) @@ "u" :> Page(s3, n3)] :
    s1 \in UpTo(2, Items), s2 \in {<<>>, <<ItemAC>>, <<ItemA>>, <<ItemAB>>},
    s3 \in {<<>>, <<ItemAB>>}, n1 \in {"", "t"}, n2, n3 \in {"", "t", "u"}}
AppConfigurations ==
  {[kind |-> "azure", limit |-> 2, pages |-> "" :> Page(s1, "t") @@ "t" :> Page(s2, "")] :
    s1 \in UpTo(2, Items), s2 \in UpTo(1, Items)}
TheServices == ParameterStores \cup AppConfigurations

------------------------------------------------------------------------------
vars == <<part, assemblyVars, scanVars, flatVars, pageVars>>

Init ==
  /\ part \in {"assembly", "discovery", "flattening", "pages"}
  /\ AssemblyInit /\ (part # "assembly" => userCode = 0)
  /\ IF part = "discovery" THEN ScanInit
     ELSE site = [match |-> <<>>, overlays |-> <<>>] /\ found = NotScanned
  /\ IF part = "flattening" THEN FlatInit ELSE source = NoSource /\ loaded = NotFound
  /\ IF part = "pages" THEN PageInit
     ELSE /\ service = [kind |-> "azure", pages |-> NoKids, limit |-> 0]
          /\ token = "" /\ tokens = {} /\ values = NoKids /\ total = 0 /\ calls = 0
          /\ answer = PagesFailed

Next ==
  /\ UNCHANGED part
  /\ \/ part = "assembly" /\ AssemblyNext /\ UNCHANGED <<scanVars, flatVars, pageVars>>
     \/ part = "discovery" /\ Discover /\ UNCHANGED <<assemblyVars, flatVars, pageVars>>
     \/ part = "flattening" /\ FlatNext /\ UNCHANGED <<assemblyVars, scanVars, pageVars>>
     \/ part = "pages" /\ PageNext /\ UNCHANGED <<assemblyVars, scanVars, flatVars>>
     \/ part # "assembly" /\ UNCHANGED vars

Spec == Init /\ [][Next]_vars

\* Flat entries become the tree that their keys describe, whatever order and however many
\* pages they come in, or the load fails as a whole.
EntriesBecomeTrees ==
  /\ LaterEntryWins /\ DeeperKeyWins /\ OnlyPrefixCounts /\ ProcessEnvWins
  /\ MetadataOrderFree /\ RoutingKeepsLabels
  /\ AllPagesOrNothing /\ RequestsBounded
=============================================================================
