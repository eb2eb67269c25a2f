------------------------------ MODULE Provenance ------------------------------
(***************************************************************************)
(* internal/provenance: which layers wrote each path.  An index maps a     *)
(* dotted path to the chain of its origins, oldest first; an origin is     *)
(* [src, value], with NotFound where no value is retained.                 *)
(***************************************************************************)
EXTENDS JSONPatch

\* A key may hold dots of its own; joined paths do not tell them apart.
DottedKey == "e.f"
Segments(k) == IF k = DottedKey THEN <<"e", "f">> ELSE <<k>>
Dotted(path) == FlattenSeq([i \in DOMAIN path |-> Segments(path[i])])

NewIndex == [p \in {} |-> <<>>]

Chain(index, p) == IF p \in DOMAIN index THEN index[p] ELSE <<>>

\* Mistake: the newest writer is put in front.
RecordValueFirst(index, level, p, src, value) ==
  IF level = "off" \/ (level = "top" /\ Len(p) > 1) THEN index
  ELSE (p :> <<[src |-> src, value |-> value]>> \o Chain(index, p)) @@ index

RecordValue(index, level, p, src, value) ==
  IF level = "off" \/ (level = "top" /\ Len(p) > 1) THEN index
  ELSE (p :> Append(Chain(index, p), [src |-> src, value |-> value])) @@ index

Record(index, level, p, src) == RecordValue(index, level, p, src, NotFound)

\* What recordTree visits: every leaf, or only the top of the tree.
RECURSIVE TreePaths(_, _, _)
TreePaths(prefix, t, level) ==
  UNION {IF IsMap(t.kids[k]) /\ level = "full" THEN TreePaths(Append(prefix, k), t.kids[k], level)
         ELSE {Append(prefix, k)} : k \in Keys(t)}

RecordTree(index, level, t, src) ==
  LET Add(p, ix) == RecordValue(ix, level, Dotted(p), src,
                                IF level = "full" THEN Get(t, p) ELSE NotFound)
  IN  IF level = "off" THEN index ELSE FoldSet(Add, index, TreePaths(<<>>, t, level))

RecordPatch(index, level, ops, src) ==
  LET Add(ix, p) == IF p = <<>> THEN ix ELSE Record(ix, level, Dotted(p), src)
  IN  IF level = "off" THEN index ELSE FoldLeft(Add, index, PatchPaths(ops))

Explain(index, p) == Chain(index, p)
=============================================================================
