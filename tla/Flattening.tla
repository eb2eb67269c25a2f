------------------------------ MODULE Flattening ------------------------------
(***************************************************************************)
(* How providers turn flat keys into a tree: vault, consul, environment    *)
(* variables, .env files, Downward API files and (routing) labels.         *)
(* An entry is [key, path, value]: keys are told apart by their place in   *)
(* lexical order, and path is what splitting or replacing the key gives.   *)
(* A source is                                                             *)
(*   [kind, entries, ok, process, env, mode, at]                           *)
(* with entries in the order they are delivered; a .env source has a       *)
(* sequence of files instead.                                              *)
(***************************************************************************)
EXTENDS ConfTree, TLC

CONSTANTS Sources,
          MaxRoutingIndex

VARIABLES source,
          loaded       \* the tree that Load returned, Error, NotFound before

flatVars == <<source, loaded>>

\* Mistake: a value is kept where a deeper key needs a branch.
SetAllKeeping(t, entries) ==
  FoldLeft(LAMBDA u, e : IF \E n \in 1 .. Len(e.path) - 1 : ~IsMap(Get(u, SubSeq(e.path, 1, n))) /\ Get(u, SubSeq(e.path, 1, n)) # NotFound
                         THEN u ELSE Set(u, e.path, e.value), t, entries)

\* One Set after the other; an entry whose key leaves nothing is skipped.
SetAll(t, entries) == FoldLeft(LAMBDA u, e : Set(u, e.path, e.value), t, entries)

ByKey(entries) == SortSeq(entries, LAMBDA a, b : a.key < b.key)

GraftAt(t, root) == IF t = Error \/ root = <<>> THEN t ELSE Set(EmptyMap, root, t)

\* Coerce and the routing rewrite, on the values that are not plain text.
Coerce(v) == CASE v.leaf = "8" -> Num("8") [] v.leaf = "true" -> Scalar("bool", "true") [] OTHER -> v
MaybeCoerce(entries, on) == [i \in DOMAIN entries |-> [entries[i] EXCEPT !.value = IF on THEN Coerce(@) ELSE @]]

------------------------------------------------------------------------------
\* Mistake: keys are taken by name alone.
ExpandByName(s) == SetAll(EmptyMap, SortSeq(s.entries, LAMBDA a, b : a.key > b.key))

\* vault: shallow keys first, so that the deeper ones win.
Expand(s) ==
  SetAll(EmptyMap, SortSeq(s.entries, LAMBDA a, b :
           Len(a.path) < Len(b.path) \/ (Len(a.path) = Len(b.path) /\ a.key < b.key)))

\* Mistake: a key that merely begins like the prefix is taken for one below it.
PrefixContainsSibling(e) == e.place \in {"prefix", "below", "folder", "sibling"}

\* consul: place is where a key is, the prefix itself, below it, a folder, or a sibling.
PrefixContains(e) == e.place # "sibling"
DecodeBlob(used) ==
  CASE used = <<>> -> EmptyMap
    [] OTHER -> IF Head(used).bad THEN Error ELSE MapOf("doc" :> Head(used).value)
DecodeTree(used) == IF \E i \in DOMAIN used : used[i].bad THEN Error ELSE SetAll(EmptyMap, used)
ConsulDecode(s) ==
  IF s.mode = "blob"
  THEN DecodeBlob(SelectSeq(s.entries, LAMBDA e : PrefixContains(e) /\ e.place # "folder" /\ e.value.leaf # ""))
  ELSE DecodeTree(SelectSeq(s.entries, LAMBDA e : PrefixContains(e) /\ e.place # "folder" /\ e.path # <<>>))

EnvLoadMap(s) == GraftAt(SetAll(EmptyMap, MaybeCoerce(s.entries, s.mode = "coerce")), s.at)

\* Mistake: an empty variable of the process does not suppress the file's.
DotEnvLoadMapEmpty(s) ==
  LET lines == FlattenSeq([i \in DOMAIN s.files |-> s.files[i].entries])
      free(e) == ~\E p \in Range(s.process) : p.key = e.key /\ p.value.leaf # ""
  IN  IF \E i \in DOMAIN s.files : s.files[i].bad THEN Error
      ELSE GraftAt(SetAll(EmptyMap, MaybeCoerce(SelectSeq(lines, free), s.mode = "coerce")), s.at)

\* .env: files in order; a key that the process has, even empty, is left to it.
DotEnvLoadMap(s) ==
  LET lines == FlattenSeq([i \in DOMAIN s.files |-> s.files[i].entries])
      free(e) == ~\E p \in Range(s.process) : p.key = e.key
  IN  IF \E i \in DOMAIN s.files : s.files[i].bad THEN Error
      ELSE GraftAt(SetAll(EmptyMap, MaybeCoerce(SelectSeq(lines, free), s.mode = "coerce")), s.at)

\* Mistake: the keys are expanded in the order they are found.
LoadBucketUnsorted(f, mode, mustExist) ==
  LET last == SelectSeq([i \in DOMAIN f.entries |-> [e |-> f.entries[i],
                           over |-> \E j \in i + 1 .. Len(f.entries) : f.entries[j].key = f.entries[i].key]],
                        LAMBDA x : ~x.over)
      pairs == [i \in DOMAIN last |-> last[i].e]
  IN  CASE f.state = "absent" -> IF mustExist THEN Error ELSE NotFound
        [] f.state = "bad" -> Error
        [] OTHER -> IF mode = "raw"
                    THEN MapOf([k \in {pairs[i].name : i \in DOMAIN pairs} |->
                                  (CHOOSE e \in Range(pairs) : e.name = k).value])
                    ELSE SetAll(EmptyMap, pairs)

\* The Downward API files: a malformed line fails the load, the last of a key counts.
LoadBucket(f, mode, mustExist) ==
  LET last == SelectSeq([i \in DOMAIN f.entries |-> [e |-> f.entries[i],
                           over |-> \E j \in i + 1 .. Len(f.entries) : f.entries[j].key = f.entries[i].key]],
                        LAMBDA x : ~x.over)
      pairs == [i \in DOMAIN last |-> last[i].e]
  IN  CASE f.state = "absent" -> IF mustExist THEN Error ELSE NotFound
        [] f.state = "bad" -> Error
        [] OTHER -> IF mode = "raw"
                    THEN MapOf([k \in {pairs[i].name : i \in DOMAIN pairs} |->
                                  (CHOOSE e \in Range(pairs) : e.name = k).value])
                    ELSE SetAll(EmptyMap, ByKey(pairs))

DownwardLoadMap(s) ==
  LET tree == [k \in {"labels", "annotations"} |->
                 IF k \in DOMAIN s.buckets THEN LoadBucket(s.buckets[k], s.mode, s.mustExist) ELSE NotFound]
  IN  IF Error \in Range(tree) THEN Error
      ELSE GraftAt(MapOf([k \in {j \in DOMAIN tree : tree[j] # NotFound} |-> tree[k]]), s.at)

ExpandLabels(s) == SetAll(EmptyMap, MaybeCoerce(s.entries, s.mode = "coerce"))

------------------------------------------------------------------------------
\* The segments of the form base[i].
Indexed == "d[0]" :> [base |-> "d", index |-> 0] @@ "d[1]" :> [base |-> "d", index |-> 1]
             @@ "d[2]" :> [base |-> "d", index |-> 2]

RoutingTruthy(v) == v.leaf \in {"true"}
GateBlocks(s) ==
  LET gates == SelectSeq(s.entries, LAMBDA e : e.path = s.gate)
  IN  gates # <<>> /\ ~RoutingTruthy(Last(gates).value)

\* A rule stays as it is written; a list is split and its items are coerced.
RewriteLeaf(v, path, mode) ==
  IF mode = "raw" \/ (Len(path) > 1 /\ Last(path) = "rule") THEN v
  ELSE IF v.leaf = "8,x" THEN ListOf(<<Num("8"), Str("x")>>) ELSE Coerce(v)

\* Mistake: the list is as long as its entries are many.
PromoteShort(t) ==
  LET bases == {Indexed[k].base : k \in Keys(t) \cap DOMAIN Indexed} \ Keys(t)
      moved == {k \in Keys(t) \cap DOMAIN Indexed : Indexed[k].base \in bases}
      list(b) == LET ks == {k \in moved : Indexed[k].base = b}
                 IN  ListOf([i \in 1 .. Cardinality(ks) |->
                               IF \E k \in ks : Indexed[k].index + 1 = i
                               THEN t.kids[CHOOSE k \in ks : Indexed[k].index + 1 = i] ELSE Null])
  IN  MapOf([b \in bases |-> list(b)] @@ [k \in Keys(t) \ moved |-> t.kids[k]])

\* Indexed siblings become a list, unless the name they share is taken.
Promote(t) ==
  LET bases == {Indexed[k].base : k \in Keys(t) \cap DOMAIN Indexed} \ Keys(t)
      moved == {k \in Keys(t) \cap DOMAIN Indexed : Indexed[k].base \in bases}
      list(b) == LET ks == {k \in moved : Indexed[k].base = b}
                 IN  ListOf([i \in 1 .. 1 + Max({Indexed[k].index : k \in ks}) |->
                               IF \E k \in ks : Indexed[k].index + 1 = i
                               THEN t.kids[CHOOSE k \in ks : Indexed[k].index + 1 = i] ELSE Null])
  IN  MapOf([b \in bases |-> list(b)] @@ [k \in Keys(t) \ moved |-> t.kids[k]])

TooLarge(t) == \E k \in Keys(t) \cap DOMAIN Indexed : Indexed[k].index > MaxRoutingIndex

RECURSIVE TransformRouting(_, _, _)
TransformRouting(t, path, mode) ==
  LET below == [k \in Keys(t) |-> IF IsMap(t.kids[k]) THEN TransformRouting(t.kids[k], Append(path, k), mode)
                                  ELSE RewriteLeaf(t.kids[k], Append(path, k), mode)]
  IN  IF Error \in Range(below) \/ TooLarge(t) THEN Error ELSE Promote(MapOf(below))

LoadRouting(s) ==
  IF GateBlocks(s) THEN EmptyMap ELSE TransformRouting(SetAll(EmptyMap, s.entries), <<>>, s.mode)

------------------------------------------------------------------------------
FlatInit == source \in Sources /\ loaded = NotFound

Load(kind, t) ==
  /\ source.kind = kind /\ loaded = NotFound /\ loaded' = t /\ UNCHANGED source

LoadVault == Load("vault", Expand(source))
LoadConsul == Load("consul", ConsulDecode(source))
LoadEnv == Load("env", EnvLoadMap(source))
LoadDotEnv == Load("dotenv", DotEnvLoadMap(source))
LoadDownward == Load("downward", DownwardLoadMap(source))
LoadLabels == Load("labels", ExpandLabels(source))
LoadRoutingLabels == Load("routing", LoadRouting(source))

FlatNext == LoadVault \/ LoadConsul \/ LoadEnv \/ LoadDotEnv \/ LoadDownward \/ LoadLabels \/ LoadRoutingLabels

------------------------------------------------------------------------------
IsLoaded == loaded \notin {NotFound, Error}

\* The leaves of a tree of maps, by path.
RECURSIVE LeavesBelow(_, _)
LeavesBelow(p, t) ==
  IF IsMap(t) THEN UNION {LeavesBelow(Append(p, k), t.kids[k]) : k \in Keys(t)}
  ELSE {[path |-> p, value |-> t]}

Related(p, q) == IsPrefix(p, q) \/ IsPrefix(q, p)

\* What a sequence of entries leaves when each replaces what it is at odds with.
Survivors(entries) ==
  UNION {{l \in LeavesBelow(entries[i].path, entries[i].value) :
            \A j \in i + 1 .. Len(entries) : entries[j].path = <<>> \/ ~Related(entries[j].path, l.path)}
         : i \in {j \in DOMAIN entries : entries[j].path # <<>>}}

\* The leaves of a load are those of the entries that no later entry is at odds with,
\* at, above or below: nothing else is lost or left over (confmap.Set).
LaterEntryWins ==
  IsLoaded /\ source.kind \in {"labels", "env"} =>
    LeavesBelow(<<>>, loaded) =
      {[path |-> source.at \o l.path, value |-> IF source.mode = "coerce" THEN Coerce(l.value) ELSE l.value]
       : l \in Survivors(source.entries)}

\* Keys that are stored in a map come in no order: vault's result is a function of
\* the stored keys, and the deeper of two keys at odds wins (expand).
DeeperKeyWins ==
  IsLoaded /\ source.kind = "vault" =>
    LeavesBelow(<<>>, loaded) =
      UNION {{l \in LeavesBelow(e.path, e.value) :
                ~\E d \in Range(source.entries) : Len(d.path) > Len(e.path) /\ Related(d.path, l.path)}
             : e \in Range(source.entries)}

\* Only the keys below the prefix count, a name that merely begins like it does not,
\* and one broken value fails the load instead of being left out (decode, contains).
OnlyPrefixCounts ==
  source.kind = "consul" /\ loaded # NotFound /\ source.mode = "tree" =>
    LET below == SelectSeq(source.entries, LAMBDA e : e.place = "below")
    IN  IF \E i \in DOMAIN below : below[i].bad THEN loaded = Error
        ELSE loaded # Error /\ LeavesBelow(<<>>, loaded) = Survivors(below)

\* With a .env layer below the environment's layer, every variable of the process has
\* its value, and a key that the process has contributes nothing from a file.
ProcessEnvWins ==
  IsLoaded /\ source.kind = "dotenv" /\ source.at = <<>> =>
    LET env == SetAll(EmptyMap, source.process)
        both == Deep(loaded, env, [strict |-> FALSE, append |-> FALSE, keys |-> NoKids])
    IN  /\ \A l \in LeavesBelow(<<>>, env) : Get(both, l.path) = l.value
        /\ \A l \in LeavesBelow(<<>>, loaded) :
             \E i \in DOMAIN source.files : \E e \in Range(source.files[i].entries) :
               e.path = l.path /\ ~\E p \in Range(source.process) : p.key = e.key

\* Expanded metadata does not depend on the order of the lines of different keys, and
\* raw metadata keeps every key (loadBucket).
MetadataOrderFree ==
  IsLoaded /\ source.kind = "downward" =>
    \A k \in DOMAIN source.buckets :
      LET f == source.buckets[k]
          t == Get(loaded, source.at \o <<k>>)
      IN  CASE f.state = "absent" -> t = NotFound
            [] f.state # "absent" /\ source.mode = "raw" -> Keys(t) = {e.name : e \in Range(f.entries)}
            [] OTHER -> {l.path : l \in LeavesBelow(<<>>, t)} =
                          {e.path : e \in {d \in Range(f.entries) :
                             ~\E c \in Range(f.entries) : Related(c.path, d.path) /\ c.key > d.key}}

\* Where a label's value is to be found: an index after a name that nothing else has.
RECURSIVE Follow(_, _)
Follow(t, p) ==
  IF p = <<>> THEN t
  ELSE LET k == Head(p)
           ix == Indexed[k]
       IN  IF IsMap(t) /\ k \in Keys(t) THEN Follow(t.kids[k], Tail(p))
           ELSE IF /\ k \in DOMAIN Indexed /\ IsMap(t) /\ ix.base \in Keys(t)
                   /\ t.kids[ix.base].kind = "list" /\ ix.index < Len(t.kids[ix.base].items)
                THEN Follow(t.kids[ix.base].items[ix.index + 1], Tail(p))
           ELSE NotFound

\* Every routing label that is not at odds with a later one is found at its place, in a
\* list if its key is indexed, and an index beyond the bound fails the load, unless the
\* gate closes the whole set (loadRouting).
RoutingKeepsLabels ==
  source.kind = "routing" /\ loaded # NotFound =>
    LET labels == Survivors(source.entries)
        blocked == GateBlocks(source)
        large == \E l \in labels : \E i \in DOMAIN l.path :
                   l.path[i] \in DOMAIN Indexed /\ Indexed[l.path[i]].index > MaxRoutingIndex
    IN  IF blocked THEN loaded = EmptyMap
        ELSE IF large THEN loaded = Error
        ELSE \A l \in labels : Follow(loaded, l.path) = RewriteLeaf(l.value, l.path, source.mode)
=============================================================================
