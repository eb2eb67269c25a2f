------------------------------- MODULE ConfTree -------------------------------
(***************************************************************************)
(* confmap: JSON-shaped trees, access by path and deep merge.  A node has  *)
(* a kind; leaf, kids and items hold what a scalar, a map and a list hold. *)
(* A path is the sequence of its segments, where the code joins them with  *)
(* dots.  A nil map merges as an empty one and is patched as null.         *)
(***************************************************************************)
EXTENDS Integers, FiniteSets, SequencesExt

NoKids == [k \in {} |-> {}]
Scalar(kind, x) == [kind |-> kind, leaf |-> x, kids |-> NoKids, items |-> <<>>]
Str(x) == Scalar("string", x)
Num(x) == Scalar("number", x)
Null == Scalar("null", "")
MapOf(f) == [kind |-> "map", leaf |-> "", kids |-> f, items |-> <<>>]
ListOf(s) == [kind |-> "list", leaf |-> "", kids |-> NoKids, items |-> s]
EmptyMap == MapOf(NoKids)

\* What a lookup or an operation that fails returns in place of a node.
NotFound == Scalar("missing", "")
Error == Scalar("error", "")

IsMap(t) == t.kind = "map"
Keys(t) == DOMAIN t.kids
Put(t, k, v) == MapOf((k :> v) @@ t.kids)
Drop(t, k) == MapOf([j \in Keys(t) \ {k} |-> t.kids[j]])

------------------------------------------------------------------------------
RECURSIVE Walk(_, _)
Walk(t, parts) ==
  IF parts = <<>> THEN t
  ELSE IF IsMap(t) /\ Head(parts) \in Keys(t) THEN Walk(t.kids[Head(parts)], Tail(parts))
  ELSE NotFound

Get(root, parts) == IF parts = <<>> THEN NotFound ELSE Walk(root, parts)

\* Whatever is not a map on the way gives way to a fresh one.
Branch(t, k) == IF k \in Keys(t) /\ IsMap(t.kids[k]) THEN t.kids[k] ELSE EmptyMap

RECURSIVE Set(_, _, _)
Set(t, parts, v) ==
  CASE parts = <<>> -> t
    [] Len(parts) = 1 -> Put(t, parts[1], v)
    [] OTHER -> Put(t, Head(parts), Set(Branch(t, Head(parts)), Tail(parts), v))

RECURSIVE Delete(_, _)
Delete(t, parts) ==
  CASE parts = <<>> -> t
    [] Len(parts) = 1 -> Drop(t, parts[1])
    [] OTHER -> IF Head(parts) \in Keys(t) /\ IsMap(t.kids[Head(parts)])
                THEN Put(t, Head(parts), Delete(t.kids[Head(parts)], Tail(parts)))
                ELSE t

------------------------------------------------------------------------------
\* Merge options: strict, append (AppendSlices), keys (MergeKeys: path to field).

\* A Stringer or a time is not a number, and matches no kind, not even its own.
SameKind(a, b) == a.kind = b.kind /\ a.kind # "time"

StringKey(e, field) ==
  IF IsMap(e) /\ field \in Keys(e) /\ e.kids[field].kind = "string" THEN e.kids[field].leaf ELSE ""

\* Mistake: a key that is already in the list is not looked up.
IndexOfKeyNone(list, field, k) == 0

\* The entry that stands for a key: the last one that carries it.
IndexOfKey(list, field, k) == Max({0} \cup {i \in DOMAIN list : StringKey(list[i], field) = k})

RECURSIVE DeepAt(_, _, _, _), StrategicMergeList(_, _, _, _, _)
\* Mistake: a value of another kind does not replace the one that is there.
MergeValueKeeping(path, dv, sv, opt) ==
  IF opt.strict /\ ~SameKind(dv, sv) THEN Error
  ELSE IF IsMap(dv) THEN IF IsMap(sv) THEN DeepAt(dv, sv, path, opt) ELSE dv
  ELSE sv

\* Mistake: strict merging looks at the kinds of the top level only.
MergeValueShallow(path, dv, sv, opt) ==
  IF opt.strict /\ Len(path) = 1 /\ ~SameKind(dv, sv) THEN Error
  ELSE IF dv.kind # sv.kind THEN sv
  ELSE IF IsMap(dv) THEN DeepAt(dv, sv, path, opt)
  ELSE sv

MergeValue(path, dv, sv, opt) ==
  IF opt.strict /\ ~SameKind(dv, sv) THEN Error
  ELSE IF dv.kind # sv.kind THEN sv
  ELSE IF IsMap(dv) THEN DeepAt(dv, sv, path, opt)
  ELSE IF dv.kind = "list" /\ path \in DOMAIN opt.keys /\ opt.keys[path] # ""
       THEN StrategicMergeList(path, dv.items, sv.items, opt.keys[path], opt)
  ELSE IF dv.kind = "list" /\ opt.append THEN ListOf(dv.items \o sv.items)
  ELSE sv

DeepAt(dst, src, prefix, opt) ==
  LET merged == [k \in Keys(dst) \cap Keys(src) |->
                   MergeValue(Append(prefix, k), dst.kids[k], src.kids[k], opt)]
  IN  IF Error \in Range(merged) THEN Error ELSE MapOf(merged @@ dst.kids @@ src.kids)

\* One entry of b at a time: merged into the entry of a with its key, or appended.
StrategicMergeList(path, a, b, field, opt) ==
  IF b = <<>> THEN ListOf(a)
  ELSE LET k == StringKey(b[1], field)
           i == IF k = "" THEN 0 ELSE IndexOfKey(a, field, k)
           e == IF i = 0 THEN b[1] ELSE DeepAt(a[i], b[1], Append(path, "[]"), opt)
       IN  IF e = Error THEN Error
           ELSE StrategicMergeList(path, IF i = 0 THEN Append(a, e) ELSE [a EXCEPT ![i] = e],
                                   Tail(b), field, opt)

Deep(dst, src, opt) == DeepAt(dst, src, <<>>, opt)
=============================================================================
