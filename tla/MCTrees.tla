------------------------------- MODULE MCTrees -------------------------------
(* What happens to the merged tree, for TLC: which part moves is chosen at   *)
(* the beginning, the others keep one of their initial values.               *)
EXTENDS Documents, Rewrites, TypedHooks, Redaction, Features

VARIABLE part
------------------------------------------------------------------------------
\* Documents: layers that agree, conflict and carry lists of named entries; patches.
One == Num("1")
Two == Num("2")
Text == Str("s")
Named(n, v) == MapOf("n" :> Str(n) @@ "v" :> v)
OneNamed == ListOf(<<Named("p", One)>>)
TwoNamed == ListOf(<<Named("q", One), Named("p", Two)>>)
HalfNamed == ListOf(<<One, Named("p", Text)>>)
TheLayers ==
  {MapOf("a" :> MapOf("x" :> One)), MapOf("a" :> MapOf("y" :> Text) @@ "b" :> OneNamed),
   MapOf("a" :> Two), MapOf("a" :> MapOf("x" :> Text @@ "y" :> One)),
   MapOf("b" :> OneNamed), MapOf("b" :> TwoNamed), MapOf("b" :> HalfNamed),
   MapOf("a" :> EmptyMap @@ "b" :> Text), MapOf("a" :> Null),
   MapOf("a" :> OneNamed @@ "b" :> MapOf("x" :> One)), MapOf("a" :> Scalar("time", "t"))}

PatchOp(o, p, f, v) == [op |-> o, path |-> p, from |-> f, value |-> v, bad |-> {}]
Froms == {<<>>, <<"a">>, <<"a", "x">>, <<"b">>, <<"b", "0">>, <<"b", "1">>, <<"b", "-">>}
Pointers == Froms \cup {<<"a", "z">>, <<"b", "2">>, <<"b", "01">>, <<"b", "0", "v">>}
PatchOps ==
  {PatchOp(o, p, <<>>, v) : o \in {"add", "replace", "test"}, p \in Pointers,
                            v \in {Num("1.0"), MapOf("x" :> Two)}}
    \cup {PatchOp("remove", p, <<>>, Null) : p \in Pointers}
    \cup {PatchOp(o, p, f, Null) : o \in {"move", "copy"}, p \in Pointers, f \in Froms}
    \cup {[PatchOp("add", <<"a">>, <<>>, One) EXCEPT !.bad = {x}] : x \in {"path", "value"}}
TheOps ==
  {<<>>} \cup {<<o>> : o \in PatchOps}
    \cup {<<PatchOp("remove", <<"a">>, <<>>, Null), o>> :
            o \in {x \in PatchOps : x.op \in {"move", "copy"}}}

MergeOptions(strict, append, keys) == [strict |-> strict, append |-> append, keys |-> keys]
TheOpts ==
  {MergeOptions(FALSE, FALSE, NoKids), MergeOptions(TRUE, FALSE, NoKids),
   MergeOptions(FALSE, FALSE, <<"b">> :> "n"), MergeOptions(FALSE, TRUE, NoKids)}

------------------------------------------------------------------------------
\* Rewrites: aliases on every small tree, chains of migrations, references and variables.
AliasValues ==
  {Str("x"), One, MapOf("b" :> Str("y")), MapOf("b" :> Str("y") @@ "c" :> Str("z"))}
AliasTrees == {MapOf(f) : f \in UNION {[K -> AliasValues] : K \in SUBSET {"a", "b", "c"}}}
Mappings ==
  {<<"a">> :> <<"b">>, <<"a">> :> <<"b", "c">>, <<"a">> :> <<"a", "b">>,
   <<"a">> :> <<"c">> @@ <<"b">> :> <<"d">>, <<"a">> :> <<"c">> @@ <<"b">> :> <<"c">>,
   <<"a">> :> <<"b">> @@ <<"b">> :> <<"c">>,
   <<"a", "b">> :> <<"a", "c">> @@ <<"b">> :> <<"a">>}
DeleteAndCapture ==
  <<[kind |-> "delete", paths |-> <<<<"b">>, <<"a", "b">>, <<"q", "r">>>>],
    [kind |-> "capture", paths |-> <<<<"a">>, <<"b">>>>]>>
Job(tree, steps, a, vault) ==
  [tree |-> tree, steps |-> steps, env |-> [A |-> a, B |-> "v"], vault |-> vault]
AliasJobs ==
  {Job(t, <<[kind |-> "alias", mapping |-> m]>> \o s, "", NoKids) :
    t \in AliasTrees, m \in Mappings, s \in {<<>>, DeleteAndCapture}}

Migration(f, t, fails, wipes) ==
  [from |-> f, to |-> t, key |-> ToString(f), fails |-> fails, wipes |-> wipes]
Migrations == {Migration(f, t, x, w) : f \in 0 .. 2, t \in 1 .. 3, x, w \in BOOLEAN}
Descending(c) == \A i, j \in DOMAIN c : i < j => c[i].from > c[j].from
Chains == {c \in UNION {[1 .. n -> Migrations] : n \in 0 .. 2} : NewChainOK(c) /\ Descending(c)}
Versions == {Num("0"), Str("1"), Num("2"), Num("3"), Str("x"), EmptyMap}
VersionedTrees ==
  {EmptyMap, MapOf("_meta" :> Str("x"))}
    \cup {MapOf("_meta" :> MapOf("schemaVersion" :> v)) : v \in Versions}
MigrationJobs ==
  {Job(t, <<[kind |-> "migrate", target |-> g, migrations |-> c]>>, "", NoKids) :
    t \in VersionedTrees, g \in {1, 2}, c \in Chains}

Strings == {"lit", "${A}", "${A:-d}", "${A:?}", "ref", "${B}"}
StringTrees ==
  {MapOf("k" :> Str(x) @@ "l" :> ListOf(<<Str(y), One, MapOf("m" :> Str(z))>>)) :
    x, y, z \in Strings}
SecretJobs ==
  {Job(t, s, a, v) : t \in StringTrees, s \in {<<>>, <<[kind |-> "subst"]>>},
    a \in {"", "v", "${B}", "ref"},
    v \in {NoKids, "ref" :> "plain", "ref" :> "", "ref" :> "${B}"}}
TheJobs == AliasJobs \cup MigrationJobs \cup SecretJobs

------------------------------------------------------------------------------
\* Programs: a root type with nodes, a list and a map, to vary one question at a time.
TheNumbers == "0" :> 0 @@ "5" :> 5 @@ "9" :> 9
LowerOf == "A" :> "a" @@ "AA" :> "aa" @@ "B" :> "b" @@ "C" :> "c" @@ "N" :> "n" @@ "L" :> "l" @@ "M" :> "m"
             @@ "X" :> "x"
TheFolds == LowerOf @@ [k \in Range(LowerOf) \cup {"zz"} |-> k]
Shape(sh, fs, e, h) == [shape |-> sh, fields |-> fs, elem |-> e, hook |-> h]
GoField(go, t, ptr) ==
  [name |-> go, lower |-> LowerOf[go], json |-> LowerOf[go], yaml |-> LowerOf[go], type |-> t, ptr |-> ptr,
   default |-> "", required |-> FALSE, min |-> <<>>, max |-> <<>>, oneof |-> {}]
FieldX == GoField("X", "num", FALSE)
TypeSet(elem, a, b, c, x, n) ==
  [text |-> Shape("leaf", <<>>, "", "none"), num |-> Shape("leaf", <<>>, "", "number"),
   ip |-> Shape("leaf", <<>>, "", "text"), re |-> Shape("struct", <<>>, "", "text"),
   url |-> Shape("struct", <<>>, "", "value"),
   list |-> Shape("list", <<>>, elem, "none"), names |-> Shape("list", <<>>, "text", "none"),
   byName |-> Shape("map", <<>>, "node", "none"), inner |-> Shape("struct", <<x>>, "", "none"),
   node |-> Shape("struct", <<a, b, c>>, "", "none"),
   root |-> Shape("struct", <<n, GoField("L", "list", FALSE), GoField("M", "byName", FALSE)>>, "", "none")]
Program(ts, inputs, bridge, unknown) ==
  [types |-> ts, root |-> "root", inputs |-> inputs, bridge |-> bridge, unknown |-> unknown]

\* Which parts of a plan reach a hook: fields, elements, pointers and a node in itself.
FieldsA ==
  {GoField("A", t, FALSE) : t \in {"text", "num", "ip", "url"}} \cup {GoField("A", t, TRUE) : t \in {"num", "url", "re"}}
FieldsB == {GoField("B", "node", TRUE)} \cup {GoField("B", t, FALSE) : t \in {"byName", "names", "inner"}}
FieldC == GoField("C", "num", FALSE)
FieldN == GoField("N", "node", FALSE)
NodeTrees ==
  {EmptyMap, MapOf("a" :> Str("5")), MapOf("a" :> Num("5") @@ "c" :> Str("0")), MapOf("a" :> Str("bad"))}
ValueB(b, n) ==
  CASE b.type = "node" -> n
    [] b.type = "byName" -> MapOf("k" :> n)
    [] b.type = "names" -> ListOf(<<Str("bad")>>)
    [] OTHER -> MapOf("x" :> Str("9"))
ListL(elem, n, n2) == ListOf(IF elem = "node" THEN <<n, n2>> ELSE <<Str("5"), Str("9")>>)
PlanInputs(elem, b) ==
  {EmptyMap, MapOf("n" :> Null)}
    \cup UNION {{MapOf("n" :> Put(n, "b", ValueB(b, n2))), MapOf("l" :> ListL(elem, n, n2)),
                 MapOf("m" :> MapOf("q" :> n @@ "r" :> Put(n2, "b", ValueB(b, n))))} : n, n2 \in NodeTrees}
PlanPrograms ==
  {Program(TypeSet(elem, a, b, FieldC, FieldX, FieldN), PlanInputs(elem, b), bridge, "ignore") :
    elem \in {"url", "node"}, a \in FieldsA, b \in FieldsB, bridge \in {"json", "yaml"}}

\* Which key a field is read from: tags for both bridges or for one, spellings, unknown keys.
TaggedA ==
  {[GoField("A", t, ptr) EXCEPT !.json = tag[1], !.yaml = tag[2]] :
    t \in {"text", "num", "url"}, ptr \in BOOLEAN, tag \in {<<"a", "a">>, <<"", "aa">>, <<"a", "">>}}
KeyTrees ==
  {MapOf([k \in ks |-> IF k = "a" THEN v ELSE w]) : v, w \in {Str("5"), Str("bad"), Num("9")},
    ks \in {{}, {"a"}, {"A"}, {"aa"}, {"zz"}, {"a", "A"}, {"a", "aa"}, {"a", "zz"}}}
KeyInputs ==
  {MapOf("n" :> t) : t \in KeyTrees}
    \cup {MapOf("l" :> ListOf(<<t>>)) : t \in {MapOf("A" :> Num("9")), MapOf("zz" :> Null)}}
KeyPrograms ==
  {Program(TypeSet("node", a, GoField("B", "inner", FALSE), FieldC, FieldX, FieldN), KeyInputs, bridge, unknown) :
    a \in TaggedA, bridge \in {"json", "yaml"}, unknown \in {"ignore", "warn", "error"}}

\* What the metadata of a field asks, two and three structs deep, behind values and pointers.
Ruled(f, d, r) == {[f EXCEPT !.default = d, !.required = r], [f EXCEPT !.default = d, !.required = r, !.min = <<5>>],
                   [f EXCEPT !.default = d, !.max = <<5>>], [f EXCEPT !.default = d, !.oneof = {"0", "5"}]}
RuledFields(go) ==
  UNION {Ruled(GoField(go, t, ptr), d, r) : t \in {"num", "text"}, ptr, r \in BOOLEAN, d \in {"", "5", "x"}}
FieldsN == {[FieldN EXCEPT !.ptr = p, !.required = r] : p, r \in BOOLEAN}
RuleValues == {Str("0"), Str("5"), Str("9"), Num("5"), Null}
RuleInputs(k) ==
  {EmptyMap, MapOf("n" :> Null), MapOf("n" :> EmptyMap)}
    \cup {MapOf("n" :> IF k = "c" THEN MapOf("c" :> v) ELSE MapOf("b" :> MapOf("x" :> v))) : v \in RuleValues}
RuleTypes(k) ==
  {TypeSet("url", GoField("A", "text", FALSE), GoField("B", "inner", ptr), IF k = "c" THEN f ELSE FieldC,
           IF k = "x" THEN f ELSE FieldX, n) :
    n \in FieldsN, ptr \in IF k = "c" THEN {FALSE} ELSE BOOLEAN, f \in RuledFields(IF k = "c" THEN "C" ELSE "X")}
RulePrograms ==
  UNION {{Program(ts, RuleInputs(k), "json", "ignore") : ts \in RuleTypes(k)} : k \in {"c", "x"}}

ThePrograms == PlanPrograms \cup KeyPrograms \cup RulePrograms

------------------------------------------------------------------------------
\* Types with secret fields, inline structs and opaque values, and their trees.
Token == Field("token", TRUE, LeafType)
Name == Field("name", FALSE, LeafType)
Cred == StructOf({Token, Name})
Inline(name, marked, child) == [Field(name, marked, child) EXCEPT !.flatten = TRUE]
Sealed == [StructOf({Token}) EXCEPT !.opaque = TRUE]
TheTypes == {StructOf({Token, Field("items", FALSE, ElemsOf("slice", Cred))}),
   ElemsOf("map", Cred), ElemsOf("map", StructOf({Name})),
   StructOf({Inline("emb", TRUE, StructOf({Name})), Field("items", FALSE, LeafType)}),
   StructOf({Field("items", FALSE, Sealed), Name}), Sealed,
   StructOf({Inline("rest", FALSE, ElemsOf("map", StructOf({Token}))), Name})}
RECURSIVE TheTrees(_)
TheTrees(t) ==
  CASE t.kind = "leaf" -> {Str("1"), Str("2")}
    [] t.kind = "slice" -> {ListOf(<<>>)} \cup {ListOf(<<Str("1"), x>>) : x \in TheTrees(t.elem[1])}
    [] t.kind = "map" ->
         {MapOf(f) : f \in UNION {[K -> TheTrees(t.elem[1])] : K \in SUBSET {"a", "e.f"}}}
    [] OTHER ->
         LET fs == JSONFields(t)
             names == {f.name : f \in fs}
             all == UNION {TheTrees(f.child) : f \in fs}
             typed(h) == \A k \in DOMAIN h : h[k] \in TheTrees((CHOOSE f \in fs : f.name = k).child)
         IN {MapOf(g) : g \in {h \in UNION {[K -> all] : K \in {names, names \ {"name"}}} : typed(h)}}
\* The same tree with a field in another spelling, which the decoder accepts.
RECURSIVE Renamed(_)
Renamed(t) ==
  [t EXCEPT
     !.kids = [k \in {IF j = "token" THEN "TOKEN" ELSE j : j \in Keys(t)} |-> Renamed(t.kids[Fold(k)])],
     !.items = [i \in DOMAIN t.items |-> Renamed(t.items[i])]]
TheInputs(t) ==
  LET typed == {MapOf(t2.kids) : t2 \in TheTrees(t)}
  IN typed \cup {Renamed(x) : x \in typed}
       \cup {MapOf("emb" :> MapOf("name" :> Str("1"))),
             MapOf("e.f" :> MapOf("token" :> Str("1"))),
             MapOf("rest" :> MapOf("e.f" :> MapOf("TOKEN" :> Str("1")))),
             MapOf("items" :> MapOf("a" :> Str("1")))}
ThePats ==
  {{}, {<<"*", "name">>}, {<<"**", "token">>, <<"items">>},
   {<<"items", "*", "name">>, <<"a">>}, {<<"rest", "**">>}}

------------------------------------------------------------------------------
\* Features: rules with targets and rollouts, and who asks.
NoAttrs == [k \in {} |-> ""]
TheContexts ==
  {[user |-> u] : u \in {"u1", ""}} \cup {[user |-> "u1", plan |-> p] : p \in {"pro", ""}}
    \cup {NoAttrs}
Targets == {NoAttrs, [plan |-> "pro"], [plan |-> ""], [user |-> "u1", plan |-> "pro"]}
Rollouts == {[percent |-> p, hashKey |-> k] : p \in {-1, 0, 2, 4}, k \in {"user", ""}}
UpToTwo(S) == UNION {[1 .. n -> S] : n \in 0 .. 2}
TheRules ==
  {[targets |-> [i \in DOMAIN t |-> [when |-> t[i]]], rollouts |-> r] :
    t \in UpToTwo(Targets), r \in UpToTwo(Rollouts)}

------------------------------------------------------------------------------
vars == <<part, docVars, rewriteVars, hookVars, viewVars, featureVars>>

Init ==
  /\ part \in {"documents", "rewrites", "hooks", "views", "features"}
  /\ DocInit /\ (level # "full" => Plain) /\ (part # "documents" => Plain /\ level = "off")
  /\ IF part = "rewrites" THEN RewriteInit
     ELSE /\ job = NoKids /\ rewritten = EmptyMap /\ given = EmptyMap /\ at = 0
          /\ captured = NoKids /\ resolvedAt = {} /\ log = <<>> /\ outcome = "idle"
  /\ IF part = "hooks" THEN HookInit
     ELSE /\ program = NoKids /\ live = {} /\ assigns = {} /\ hookTree = EmptyMap
          /\ target = Zero /\ phase = "idle"
  /\ IF part = "views" THEN ViewInit
     ELSE shape = NoKids /\ trees = NoKids /\ history = NoKids /\ shown = NoView
  /\ IF part = "features" THEN FeatureInit
     ELSE rule = NoKids /\ context = NoKids /\ bucketOf = NoKids /\ decided = <<"none", 0>>

\* One patch, early and with plain options, is enough to see what patches do.
Bounded == (staged' # <<>> /\ Last(staged').patch) =>
             Plain /\ level # "off" /\ ~(\E i \in DOMAIN staged : staged[i].patch) /\ Len(staged) <= 1

Next ==
  /\ UNCHANGED part
  /\ \/ part = "documents" /\ DocNext /\ Bounded /\ UNCHANGED <<rewriteVars, hookVars, viewVars, featureVars>>
     \/ part = "rewrites" /\ RewriteNext /\ UNCHANGED <<docVars, hookVars, viewVars, featureVars>>
     \/ part = "hooks" /\ HookNext /\ UNCHANGED <<docVars, rewriteVars, viewVars, featureVars>>
     \/ part = "views" /\ Show /\ UNCHANGED <<docVars, rewriteVars, hookVars, featureVars>>
     \/ part = "features" /\ FeatureNext /\ UNCHANGED <<docVars, rewriteVars, hookVars, viewVars>>

Spec == Init /\ [][Next]_vars
=============================================================================
