------------------------------- MODULE Redaction -------------------------------
(***************************************************************************)
(* internal/secret, State.Map, State.Explain and State.Diff: what the      *)
(* diagnostic views of a snapshot show.  A type is                         *)
(*   [kind, opaque, fields, elem]                                          *)
(* and a field of a struct                                                 *)
(*   [name, aliases, marked, flatten, child]                               *)
(* with aliases the names its input may use, flatten an embedded or inline *)
(* field.  A type that encodes itself is opaque.                           *)
(***************************************************************************)
EXTENDS Provenance

CONSTANTS Types,         \* the types a manager decodes to
          SecretPaths,   \* the sets of patterns of WithSecretPaths
          TreesOf(_),    \* the trees a snapshot of a type encodes to
          InputsOf(_)    \* the trees a layer for a type contributes

VARIABLES
  shape,    \* the type and the patterns: [type, pats]
  trees,    \* two snapshots: [old, new]
  history,    \* the origins of a layer: [tree, entries]
  shown     \* the views: [map, diff, explain], NoView before they are asked for

viewVars == <<shape, trees, history, shown>>

Mask == Str("***")
Fold(k) == IF k = "TOKEN" THEN "token" ELSE k        \* strings.EqualFold

LeafType == [kind |-> "leaf", opaque |-> FALSE, fields |-> {}, elem |-> <<>>]
StructOf(fs) == [LeafType EXCEPT !.kind = "struct", !.fields = fs]
ElemsOf(kind, t) == [LeafType EXCEPT !.kind = kind, !.elem = <<t>>]
Field(name, marked, child) ==
  [name |-> name, aliases |-> {name}, marked |-> marked, flatten |-> FALSE, child |-> child]

------------------------------------------------------------------------------
RECURSIVE HasSecrets(_), JSONFields(_), ProvenanceFields(_, _)
HasSecrets(t) == \/ \E f \in t.fields : f.marked \/ HasSecrets(f.child)
                 \/ t.elem # <<>> /\ HasSecrets(t.elem[1])

\* Mistake: a field that is embedded does not inherit the mark.
JSONFieldsOwn(t) == UNION {IF f.flatten /\ f.child.kind = "struct" THEN JSONFields(f.child) ELSE {f} : f \in t.fields}

\* The fields as the JSON encoder names them: an embedded struct gives its own.
JSONFields(t) ==
  UNION {IF f.flatten /\ f.child.kind = "struct"
         THEN {[g EXCEPT !.marked = @ \/ f.marked] : g \in JSONFields(f.child)}
         ELSE {f} : f \in t.fields}

\* The fields as a source may name them: the parent of embedded ones as well.
ProvenanceFields(t, marked) ==
  UNION {LET g == [f EXCEPT !.marked = @ \/ marked]
         IN  {[g EXCEPT !.flatten = FALSE]}
               \cup (IF f.flatten /\ f.child.kind = "struct" THEN ProvenanceFields(f.child, g.marked) ELSE {})
               \cup (IF f.flatten /\ f.child.kind = "map" THEN {[g EXCEPT !.aliases = {}]} ELSE {})
         : f \in t.fields}

RECURSIVE Redact(_, _)
Redact(t, node) ==
  IF node = Null \/ ~HasSecrets(t) THEN node
  ELSE IF t.opaque THEN Mask
  ELSE LET MarkedNames == {f.name : f \in {g \in JSONFields(t) : g.marked}}
           Child(k) == CHOOSE f \in JSONFields(t) : f.name = k
       IN  CASE t.kind = "struct" /\ IsMap(node) ->
                  MapOf([k \in Keys(node) |->
                           IF k \in MarkedNames THEN Mask
                           ELSE IF \E f \in JSONFields(t) : f.name = k
                                THEN Redact(Child(k).child, node.kids[k]) ELSE node.kids[k]])
             [] t.kind = "map" /\ IsMap(node) ->
                  MapOf([k \in Keys(node) |-> Redact(t.elem[1], node.kids[k])])
             [] t.kind = "slice" /\ node.kind = "list" ->
                  ListOf([i \in DOMAIN node.items |-> Redact(t.elem[1], node.items[i])])
             [] OTHER -> node

\* A dotted path against the type: a map's key may stand for several segments.
RECURSIVE PathHasSecrets(_, _)
PathHasSecrets(t, p) ==
  /\ HasSecrets(t)
  /\ \/ p = <<>> \/ t.opaque
     \/ /\ t.kind = "struct" /\ p # <<>>
        /\ \E f \in ProvenanceFields(t, FALSE) :
             \/ f.aliases = {} /\ (f.marked \/ PathHasSecrets(f.child, p))
             \/ Fold(p[1]) \in f.aliases /\ (f.marked \/ PathHasSecrets(f.child, Tail(p)))
     \/ t.kind = "map" /\ \E n \in DOMAIN p : PathHasSecrets(t.elem[1], SubSeq(p, n + 1, Len(p)))
     \/ t.kind = "slice" /\ p # <<>> /\ PathHasSecrets(t.elem[1], Tail(p))

------------------------------------------------------------------------------
RECURSIVE MatchSegments(_, _)
MatchSegments(pat, path) ==
  IF pat = <<>> THEN path = <<>>
  ELSE IF Head(pat) = "**"
       THEN \E i \in 0 .. Len(path) : MatchSegments(Tail(pat), SubSeq(path, i + 1, Len(path)))
  ELSE /\ path # <<>> /\ Head(pat) \in {"*", Head(path)}
       /\ MatchSegments(Tail(pat), Tail(path))

\* Mistake: the index is matched with the patterns of the tree.
ConservativeNot(pat) == pat

\* Index paths do not tell dots in keys from separators: a star there takes more.
Conservative(pat) == FlattenSeq([i \in DOMAIN pat |-> IF pat[i] = "*" THEN <<"*", "**">> ELSE <<pat[i]>>])

Matched(pats, p) == \E pat \in pats : MatchSegments(pat, p)
ItemKey(i) == <<"0", "1", "2">>[i]

RECURSIVE RedactPatterns(_, _, _)
RedactPatterns(node, path, pats) ==
  LET Visit(k, v) == IF Matched(pats, Append(path, k)) THEN Mask
                     ELSE RedactPatterns(v, Append(path, k), pats)
  IN  CASE IsMap(node) -> MapOf([k \in Keys(node) |-> Visit(k, node.kids[k])])
        [] node.kind = "list" -> ListOf([i \in DOMAIN node.items |-> Visit(ItemKey(i), node.items[i])])
        [] OTHER -> node

PatternsMatch(pats, p, value) ==
  LET conservative == {Conservative(pat) : pat \in pats}
  IN  \/ \E n \in DOMAIN p : Matched(conservative, SubSeq(p, 1, n))
      \/ RedactPatterns(value, p, conservative) # value

\* The tree of a snapshot with what its type and the patterns mark masked.
Apply(t, pats, tree) ==
  LET view == Redact(t, tree)
  IN  RedactPatterns(IF IsMap(view) THEN view ELSE MapOf("$redacted" :> view), <<>>, pats)

\* Explain with the values of secret paths masked.
ExplainShown(t, pats, ix, p) ==
  LET Masked(o) == IF o.value \notin {NotFound, Null} /\ (PathHasSecrets(t, p) \/ PatternsMatch(pats, p, o.value))
                 THEN [o EXCEPT !.value = Mask] ELSE o
  IN  [i \in DOMAIN Chain(ix, p) |-> Masked(Chain(ix, p)[i])]

------------------------------------------------------------------------------
\* The differing paths, found on plaintext.
RECURSIVE DiffMaps(_, _, _)
DiffMaps(prefix, a, b) ==
  UNION {LET p == Append(prefix, k)
             va == Get(a, <<k>>)
             vb == Get(b, <<k>>)
         IN  IF IsMap(va) /\ IsMap(vb) THEN DiffMaps(p, va, vb)
             ELSE IF va = vb THEN {}
             ELSE {[path |-> p, change |-> IF vb = NotFound THEN "removed"
                                           ELSE IF va = NotFound THEN "added" ELSE "modified"]}
         : k \in Keys(a) \cup Keys(b)}

\* Mistake: the views are compared.
DiagnosticDiffMasked(t, pats, a, b) ==
  LET va == Apply(t, pats, a)
      vb == Apply(t, pats, b)
  IN  {[path |-> e.path, change |-> e.change, old |-> Get(va, e.path), new |-> Get(vb, e.path)]
       : e \in DiffMaps(<<>>, va, vb)}

\* Each entry with the values of the masked views.
DiagnosticDiff(t, pats, a, b) ==
  {[path |-> e.path, change |-> e.change, old |-> Get(Apply(t, pats, a), e.path),
    new |-> Get(Apply(t, pats, b), e.path)] : e \in DiffMaps(<<>>, a, b)}

------------------------------------------------------------------------------
NoView == [map |-> NotFound, diff |-> {}, explain |-> NewIndex]

ViewInit ==
  /\ \E t \in Types, pats \in SecretPaths :
       /\ shape = [type |-> t, pats |-> pats]
       /\ \/ /\ \E a, b \in TreesOf(t) : trees = [old |-> a, new |-> b]
             /\ history = [tree |-> EmptyMap, entries |-> NewIndex]
          \/ /\ trees = [old |-> EmptyMap, new |-> EmptyMap]
             /\ \E i \in InputsOf(t) :
                  history = [tree |-> i, entries |-> RecordTree(NewIndex, "full", i, 1)]
  /\ shown = NoView

Show ==
  /\ shown = NoView
  /\ shown' = [map |-> Apply(shape.type, shape.pats, trees.new),
               diff |-> DiagnosticDiff(shape.type, shape.pats, trees.old, trees.new),
               explain |-> [p \in DOMAIN history.entries |->
                              ExplainShown(shape.type, shape.pats, history.entries, p)]]
  /\ UNCHANGED <<shape, trees, history>>

------------------------------------------------------------------------------
\* The leaves of a tree with the places of list items as segments.
RECURSIVE LeafSet(_, _)
LeafSet(p, t) ==
  CASE IsMap(t) -> UNION {LeafSet(Append(p, k), t.kids[k]) : k \in Keys(t)}
    [] t.kind = "list" -> UNION {LeafSet(Append(p, ItemKey(i)), t.items[i]) : i \in DOMAIN t.items}
    [] OTHER -> {[path |-> p, leaf |-> t.leaf]}

\* A pattern with every "**" written as so many stars.
RECURSIVE Expansions(_, _)
Expansions(pat, n) ==
  IF pat = <<>> THEN {<<>>}
  ELSE LET first == IF Head(pat) = "**" THEN {[j \in 1 .. i |-> "*"] : i \in 0 .. n} ELSE {<<Head(pat)>>}
       IN  {f \o r : f \in first, r \in Expansions(Tail(pat), n)}

Covers(pats, p) ==
  \E pat \in pats : \E e \in Expansions(pat, Len(p)) : \E n \in 1 .. Len(p) :
    Len(e) = n /\ \A i \in 1 .. n : e[i] \in {"*", p[i]}

\* The type marks what is at p, or something above it, as secret.
RECURSIVE Marks(_, _)
Marks(t, p) ==
  \/ t.opaque /\ HasSecrets(t)
  \/ /\ p # <<>>
     /\ \/ t.elem # <<>> /\ Marks(t.elem[1], Tail(p))
        \/ \E f \in t.fields :
             \/ Fold(p[1]) = f.name /\ (f.marked \/ Marks(f.child, Tail(p)))
             \/ f.flatten /\ f.child.kind = "struct" /\ Marks(f.child, p)
             \/ f.flatten /\ f.marked /\ \E g \in f.child.fields : Fold(p[1]) = g.name

IsSecret(p) == Marks(shape.type, p) \/ Covers(shape.pats, p)

\* The masked view shows a leaf exactly when neither the type nor a pattern marks
\* it or anything above it (Plan.Apply): nothing leaks and nothing else is hidden.
ViewMasksSecrets ==
  shown # NoView =>
    \A l \in LeafSet(<<>>, trees.new) :
      (l \in LeafSet(<<>>, shown.map)) <=> ~IsSecret(l.path)

\* The index path a leaf of a layer is retained under: lists are kept whole.
Retained(p) == CHOOSE n \in DOMAIN p : Get(history.tree, SubSeq(p, 1, n)).kind \notin {"map", "missing"}

\* Explain never shows what the view would mask: a value that a layer once gave is
\* masked whenever its place, or a place in the list it is part of, is secret; dots
\* in keys and other spellings of a name do not reveal it.
HistoryMasksSecrets ==
  shown # NoView =>
    \A l \in LeafSet(<<>>, history.tree) :
      IsSecret(l.path) =>
        \A o \in Range(shown.explain[Dotted(SubSeq(l.path, 1, Retained(l.path)))]) : o.value = Mask

Differs(p) == Get(trees.old, p) # Get(trees.new, p)
                /\ ~(IsMap(Get(trees.old, p)) /\ IsMap(Get(trees.new, p)))

RECURSIVE NodePaths(_, _)
NodePaths(p, t) == UNION {{Append(p, k)} \cup NodePaths(Append(p, k), t.kids[k]) : k \in Keys(t)}

\* A diff names every place where two snapshots part, secrets included, once and at
\* the highest level, and shows no plaintext of a secret (diagnosticDiff).
DiffIsExact ==
  shown # NoView =>
    /\ {e.path : e \in shown.diff} =
         {p \in NodePaths(<<>>, trees.old) \cup NodePaths(<<>>, trees.new) :
            Differs(p) /\ \A n \in 1 .. Len(p) - 1 : ~Differs(SubSeq(p, 1, n))}
    /\ \A e \in shown.diff : \A l \in LeafSet(e.path, e.old) \cup LeafSet(e.path, e.new) :
         IsSecret(l.path) => l.leaf \in {Mask.leaf, NotFound.leaf}

\* No view of a snapshot shows a secret: not the map, the history that Explain reads or
\* the diff.  The map hides nothing else, and the diff names every place that changed
\* (State.Map, Explain, Diff).
SecretsMasked == ViewMasksSecrets /\ HistoryMasksSecrets /\ DiffIsExact
=============================================================================
