------------------------------- MODULE Documents -------------------------------
(***************************************************************************)
(* The merge stage of a reload, layer by layer: each staged layer is       *)
(* merged into the document or patches it, and the index records which     *)
(* paths it wrote.                                                         *)
(***************************************************************************)
EXTENDS Provenance

CONSTANTS Layers,       \* the maps that providers and files contribute
          Ops,          \* the patches: sequences of operations
          MergeOpts,    \* the options of the merge
          MaxLayers     \* bound on the layers of one reload

VARIABLES
  merged,     \* pipeline.merged, Error once a layer was refused
  origins,    \* pipeline.origins
  staged,     \* the layers so far: [patch, tree, ops]
  before,     \* the document the last layer was applied to
  opt,        \* mergeOpt
  level       \* opts.Provenance

docVars == <<merged, origins, staged, before, opt, level>>

DocInit ==
  /\ merged = EmptyMap /\ before = EmptyMap /\ origins = NewIndex /\ staged = <<>>
  /\ opt \in MergeOpts /\ level \in {"off", "top", "full"}

Stage(layer, next, index) ==
  /\ merged # Error /\ Len(staged) < MaxLayers
  /\ staged' = Append(staged, layer) /\ before' = merged /\ merged' = next
  /\ origins' = IF next = Error THEN origins ELSE index
  /\ UNCHANGED <<opt, level>>

MergeLayer(t) ==
  Stage([patch |-> FALSE, tree |-> t, ops |-> <<>>], Deep(merged, t, opt),
        RecordTree(origins, level, t, Len(staged) + 1))

PatchLayer(ops) ==
  Stage([patch |-> TRUE, tree |-> EmptyMap, ops |-> ops], ApplyPatch(merged, ops),
        RecordPatch(origins, level, ops, Len(staged) + 1))

DocNext == (\E t \in Layers : MergeLayer(t)) \/ (\E ops \in Ops : PatchLayer(ops))

------------------------------------------------------------------------------
(* A document as the set of its locations: what is at each path, with a     *)
(* list's positions as segments.                                            *)

ItemOf == [i \in 0 .. 5 |-> <<"0", "1", "2", "3", "4", "5">>[i + 1]]

RECURSIVE Locations(_)
Locations(t) ==
  {[path |-> <<>>, kind |-> t.kind, leaf |-> t.leaf]}
    \cup UNION {{[l EXCEPT !.path = <<k>> \o @] : l \in Locations(t.kids[k])} : k \in Keys(t)}
    \cup UNION {{[l EXCEPT !.path = <<ItemOf[i - 1]>> \o @] : l \in Locations(t.items[i])}
                : i \in DOMAIN t.items}

MapPaths(t) == {l.path : l \in {m \in Locations(t) : Get(t, m.path) # NotFound}}

LayerTrees == [i \in DOMAIN staged |-> staged[i].tree]
OnlyMerges == \A i \in DOMAIN staged : ~staged[i].patch
Plain == ~opt.strict /\ ~opt.append /\ opt.keys = NoKids

\* The layers whose node at p is not covered by a later layer.
Visible(p) ==
  {i \in DOMAIN staged :
     /\ Get(staged[i].tree, p) # NotFound
     /\ \A j \in i + 1 .. Len(staged) : \A n \in 1 .. Len(p) :
          LET over == Get(staged[j].tree, SubSeq(p, 1, n)) IN over = NotFound \/ IsMap(over)}

\* Merging the layers one by one leaves at every path what the last layer that
\* says anything there put, unless a later layer replaced a parent: a map that is
\* replaced by a scalar does not come back (confmap.Deep).
LastWriterWins ==
  merged # Error /\ Plain /\ OnlyMerges =>
    \A p \in UNION {MapPaths(t) : t \in Range(LayerTrees) \cup {merged}} :
      LET at == Get(merged, p)
          by == Visible(p)
      IN  IF by = {} THEN at = NotFound
          ELSE LET w == Get(staged[Max(by)].tree, p)
               IN  at.kind = w.kind /\ (IsMap(at) \/ at = w)

\* Strict merging refuses exactly the layers that change the kind of a value, and
\* changes nothing else about the result.
StrictRefusesKindChange ==
  staged # <<>> /\ OnlyMerges /\ opt.strict /\ opt.keys = NoKids =>
    LET t == Last(staged).tree
        conflict == \E p \in MapPaths(before) \cap MapPaths(t) :
                      ~SameKind(Get(before, p), Get(t, p))
    IN  merged = IF conflict THEN Error ELSE Deep(before, t, [opt EXCEPT !.strict = FALSE])

\* A list whose entries are told apart by a field, as the map from field to entry.
ByKey(list, field) ==
  MapOf([k \in {StringKey(list[i], field) : i \in DOMAIN list} |->
           list[CHOOSE i \in DOMAIN list : StringKey(list[i], field) = k]])
WellKeyed(list, field) ==
  IsInjective([i \in DOMAIN list |-> StringKey(list[i], field)])
    /\ \A i \in DOMAIN list : StringKey(list[i], field) # ""
Reshaped(t) ==
  LET Shape(p, u) == IF Get(u, p).kind = "list" THEN Set(u, p, ByKey(Get(u, p).items, opt.keys[p]))
                     ELSE u
  IN  FoldSet(Shape, t, DOMAIN opt.keys)
AllWellKeyed(t) ==
  \A p \in DOMAIN opt.keys : Get(t, p).kind = "list" => WellKeyed(Get(t, p).items, opt.keys[p])
Names(t, p) == [i \in DOMAIN Get(t, p).items |-> StringKey(Get(t, p).items[i], opt.keys[p])]

\* Merging lists by key is merging maps: each entry is merged with the one of the
\* same key, none is doubled or lost, and entries keep their places
\* (strategicMergeList).
KeyedListsMergeAsMaps ==
  staged # <<>> /\ OnlyMerges /\ merged # Error /\ opt.keys # NoKids =>
    LET t == Last(staged).tree
    IN  /\ AllWellKeyed(before) /\ AllWellKeyed(t)
        /\ \A p \in DOMAIN opt.keys : {Get(before, p).kind, Get(t, p).kind} # {"list", "map"}
        =>
          /\ AllWellKeyed(merged)
          /\ Reshaped(merged) = Deep(Reshaped(before), Reshaped(t), [opt EXCEPT !.keys = NoKids])
          /\ \A p \in DOMAIN opt.keys :
               Get(before, p).kind = "list" /\ Get(t, p).kind \in {"list", "missing"} =>
                 IsPrefix(Names(before, p), Names(merged, p))

------------------------------------------------------------------------------
(* RFC 6902 on the locations of a document; {} where the RFC demands an     *)
(* error.                                                                   *)

Under(L, p) == {l \in L : IsPrefix(p, l.path)}
ValueAt(L, p) == {[l EXCEPT !.path = SubSeq(@, Len(p) + 1, Len(@))] : l \in Under(L, p)}
Graft(p, V) == {[l EXCEPT !.path = p \o @] : l \in V}
KindAt(L, p) == LET at == {l.kind : l \in {m \in L : m.path = p}}
                IN  IF at = {} THEN "missing" ELSE CHOOSE k \in at : TRUE
Size(L, p) == Cardinality({l \in L : Len(l.path) = Len(p) + 1 /\ IsPrefix(p, l.path)})
Place(tok) == CHOOSE i \in 0 .. 5 : ItemOf[i] = tok

\* The items of the list at p from position i on, moved by d.
Shift(L, p, i, d) ==
  LET moves(l) == Len(l.path) > Len(p) /\ IsPrefix(p, l.path) /\ Place(l.path[Len(p) + 1]) >= i
  IN  {IF moves(l) THEN [l EXCEPT !.path[Len(p) + 1] = ItemOf[Place(@) + d]] ELSE l : l \in L}

RFCRemove(L, p) ==
  IF p = <<>> \/ KindAt(L, p) = "missing" THEN {}
  ELSE IF KindAt(L, Front(p)) = "list" THEN Shift(L \ Under(L, p), Front(p), Place(Last(p)), -1)
  ELSE L \ Under(L, p)

RFCAdd(L, p, V) ==
  IF p = <<>> THEN V
  ELSE LET n == Size(L, Front(p))
           q == IF Last(p) = "-" THEN Append(Front(p), ItemOf[n]) ELSE p
       IN  CASE KindAt(L, Front(p)) = "map" -> (L \ Under(L, p)) \cup Graft(p, V)
             [] KindAt(L, Front(p)) = "list" ->
                  IF Last(q) \in {ItemOf[i] : i \in 0 .. n}
                  THEN Shift(L, Front(p), Place(Last(q)), 1) \cup Graft(q, V) ELSE {}
             [] OTHER -> {}

SameNumber(V) == {[l EXCEPT !.leaf = IF l.kind = "number" THEN ToNumber(@) ELSE @] : l \in V}

RFCOp(L, op) ==
  LET V == Locations(op.value)
      there == KindAt(L, op.path) # "missing"
      known == KindAt(L, op.from) # "missing"
  IN  CASE op.op = "add" -> RFCAdd(L, op.path, V)
        [] op.op = "remove" -> RFCRemove(L, op.path)
        [] op.op = "replace" -> IF there THEN (L \ Under(L, op.path)) \cup Graft(op.path, V) ELSE {}
        [] op.op = "test" -> IF there /\ SameNumber(ValueAt(L, op.path)) = SameNumber(V) THEN L ELSE {}
        [] op.op = "copy" -> IF known THEN RFCAdd(L, op.path, ValueAt(L, op.from)) ELSE {}
        [] op.op = "move" -> IF ~known THEN {}
                             ELSE IF op.from = op.path THEN L
                             ELSE IF IsPrefix(op.from, op.path) THEN {}
                             ELSE LET M == RFCRemove(L, op.from)
                                  IN  RFCAdd(M, op.path, ValueAt(L, op.from))
        [] OTHER -> {}

\* A patch does what RFC 6902 says location by location: nothing but the named
\* places changes, list items shift, an operation that cannot apply refuses the
\* patch as a whole (ApplyPatch).
PatchFollowsRFC ==
  staged # <<>> /\ Last(staged).patch =>
    LET Step(L, op) == IF L = {} \/ op.bad # {} THEN {} ELSE RFCOp(L, op)
        L == FoldLeft(Step, Locations(before), Last(staged).ops)
    IN  IF L # {} /\ KindAt(L, <<>>) = "map" THEN merged # Error /\ Locations(merged) = L
        ELSE merged = Error

------------------------------------------------------------------------------
Leaves(t) == {p \in MapPaths(t) : ~IsMap(Get(t, p))}
LastSource(p) == LET c == Explain(origins, Dotted(p)) IN IF c = <<>> THEN 0 ELSE Last(c).src

\* Explain names the layer a value came from: the last origin of every leaf is the
\* last layer that says anything there and was not covered (RecordTree after Deep).
LastOriginWrote ==
  merged # Error /\ level = "full" /\ Plain /\ OnlyMerges =>
    \A p \in Leaves(merged) : LastSource(p) = Max(Visible(p))

\* What PatchPaths does not report: the root, an item appended with "-", and the
\* list a move takes an item from.
Unreported(op) ==
  \/ op.path = <<>> \/ "-" \in Range(op.path)
  \/ op.op = "move" /\ \E j \in DOMAIN op.from : IsAllDigits(op.from[j])

\* Whatever a layer changes is attributed to it, at the leaf or above (RecordTree,
\* PatchPaths), but for the operations in Unreported.
ChangesAttributed ==
  merged # Error /\ level = "full" /\ staged # <<>> =>
    \/ \E i \in DOMAIN Last(staged).ops : Unreported(Last(staged).ops[i])
    \/ \A p \in Leaves(merged) :
         Get(merged, p) # Get(before, p) =>
           \E n \in 1 .. Len(p) : LastSource(SubSeq(p, 1, n)) = Len(staged)

\* Merging agrees with its reference in every mode, patching with RFC 6902, and the index
\* of origins with what was merged (runMerge).
DocumentsFollowReference ==
  /\ LastWriterWins /\ StrictRefusesKindChange /\ KeyedListsMergeAsMaps
  /\ PatchFollowsRFC
  /\ LastOriginWrote /\ ChangesAttributed
=============================================================================
