------------------------------ MODULE TypedHooks ------------------------------
(***************************************************************************)
(* From the rewritten tree to a checked value: typed hooks, decoding,      *)
(* defaults and field checks.  A type is                                   *)
(*   [shape, fields, elem, hook]                                           *)
(* by name, so that a type may hold itself.  The hook converts text to a   *)
(* "number", to a "value" of a struct that has no wire form, or only       *)
(* checks the "text", which the decoder parses itself.  A field is         *)
(*   [name, lower, json, yaml, type, ptr, default,                         *)
(*    required, min, max, oneof],                                          *)
(* with its tags, "" for none, and with its fc metadata; min and max hold  *)
(* at most one number.  Elements are not pointers, and no struct is        *)
(* embedded.  A decoded leaf that is Go's zero value is Zero, so is a nil. *)
(***************************************************************************)
EXTENDS ConfTree, TLC

CONSTANTS Programs,     \* [types, root, bridge, unknown, inputs]
          Numbers,      \* the texts that parse -> the number each stands for
          Folded        \* key -> its lower-case spelling; a key has at most one other

VARIABLES program,
          live,         \* shapes from which a hook can be reached
          assigns,      \* shapes from which a direct hook can be reached
          hookTree, target, phase

hookVars == <<program, live, assigns, hookTree, target, phase>>

Type(t) == program.types[t]
FieldsOf(t) == Range(Type(t).fields)
FieldOf(t, n) == CHOOSE f \in FieldsOf(t) : f.name = n
Hooked(t) == Type(t).hook # "none"
IsStruct(t) == Type(t).shape = "struct"
Numeric(t) == Type(t).hook = "number"

\* A nil, or the zero value of a leaf; the zero value of a struct has zeros for its fields.
Zero == Scalar("zero", "")
RECURSIVE ZeroOf(_, _)
ZeroOf(t, ptr) ==
  IF ptr \/ ~IsStruct(t) THEN Zero
  ELSE MapOf([n \in {f.name : f \in FieldsOf(t)} |-> ZeroOf(FieldOf(t, n).type, FieldOf(t, n).ptr)])
IsZero(f, v) == v = ZeroOf(f.type, f.ptr)

\* A leaf that holds a parsed text; a pointer to a zero is not zero.
Leaf(t, ptr, text) ==
  IF ~ptr /\ (IF Numeric(t) THEN Numbers[text] = 0 ELSE text = "") THEN Zero
  ELSE Scalar(IF Hooked(t) THEN "typed" ELSE "string", text)

RECURSIVE Faulty(_)
Faulty(v) == v = Error \/ \E w \in Range(v.kids) \cup Range(v.items) : Faulty(w)

------------------------------------------------------------------------------
(* The plan.                                                               *)

\* Mistake: elements do not count.
PartsFields(t) == {f.type : f \in FieldsOf(t)}

\* The types that a shape's own plan refers to.
Parts(t) == {f.type : f \in FieldsOf(t)} \cup ({Type(t).elem} \ {""})

\* A struct has no scalar wire form.
Direct(t) == Hooked(t) /\ IsStruct(t)
IsLive(t) == Hooked(t) \/ t \in live
Assigning(t) == IF Hooked(t) THEN Direct(t) ELSE t \in assigns

\* Mistake: a field is only looked for under its tags.
InputAliasesTagged(f) == SelectSeq(<<f.json, f.yaml>>, LAMBDA k : k # "")

\* The keys a hook looks for, in this order, and the first of them that a map has.
InputAliases(f) == SelectSeq(<<f.json, f.yaml, f.lower, f.name>>, LAMBDA k : k # "")
PickAlias(v, f) ==
  LET found == {i \in DOMAIN InputAliases(f) : InputAliases(f)[i] \in Keys(v)}
  IN  IF found = {} THEN "" ELSE InputAliases(f)[Min(found)]

\* What a hook makes of a value: text that does not parse is an error, other values pass.
Convert(t, v) ==
  CASE v.kind # "string" -> v
    [] v.kind = "string" /\ v.leaf \notin DOMAIN Numbers -> Error
    [] OTHER -> Scalar(CASE Type(t).hook = "number" -> "number"
                         [] Type(t).hook = "value" -> "assigned"
                         [] OTHER -> "string", v.leaf)

\* Fields and elements from which no hook can be reached were dropped from the plan.
RECURSIVE ApplyPlan(_, _)
ApplyPlan(t, v) ==
  LET elem == Type(t).elem # "" /\ IsLive(Type(t).elem)
      at(k) == {f \in FieldsOf(t) : IsLive(f.type) /\ PickAlias(v, f) = k}
  IN  CASE Hooked(t) -> Convert(t, v)
        [] ~Hooked(t) /\ elem ->
             [v EXCEPT !.kids = [k \in Keys(v) |-> ApplyPlan(Type(t).elem, v.kids[k])],
                       !.items = [i \in DOMAIN v.items |-> ApplyPlan(Type(t).elem, v.items[i])]]
        [] OTHER ->
             [v EXCEPT !.kids = [k \in Keys(v) |->
                IF at(k) = {} THEN v.kids[k] ELSE ApplyPlan((CHOOSE f \in at(k) : TRUE).type, v.kids[k])]]

------------------------------------------------------------------------------
(* The decode bridge, encoding/json or yaml.                               *)

\* The keys of a map that the decoder takes for a field: json its tag or its Go name in any
\* spelling, yaml its tag or its lower-case name.  Of two spellings json decodes both, the
\* lower-case one last.
DecoderKeys(v, f) ==
  IF program.bridge = "json"
    THEN {k \in Keys(v) : Folded[k] = Folded[IF f.json = "" THEN f.name ELSE f.json]}
    ELSE {k \in Keys(v) : k = IF f.yaml = "" THEN f.lower ELSE f.yaml}
LastOf(ks) == CHOOSE k \in ks : Folded[k] = k \/ Cardinality(ks) = 1

\* The kinds that the decoder takes for a type; yaml reads a number as text as well.
Accepts(t, v) ==
  CASE Type(t).shape \in {"map", "list"} -> v.kind = Type(t).shape
    [] IsStruct(t) /\ ~Hooked(t) -> IsMap(v)
    [] Numeric(t) -> v.kind = "number"
    [] Type(t).hook = "value" -> FALSE
    [] OTHER -> /\ v.kind = "string" \/ (v.kind = "number" /\ program.bridge = "yaml")
                /\ Hooked(t) => v.leaf \in DOMAIN Numbers

\* parsing is a decoder that would parse the texts of hooked types by itself.  A value for
\* Assign is encoded as null.
RECURSIVE Decoded(_, _, _, _)
Decoded(t, ptr, v, parsing) ==
  LET field(f) == LET ks == DecoderKeys(v, f) IN
        CASE ks = {} -> ZeroOf(f.type, f.ptr)
          [] \E k \in ks : Faulty(Decoded(f.type, f.ptr, v.kids[k], parsing)) -> Error
          [] OTHER -> Decoded(f.type, f.ptr, v.kids[LastOf(ks)], parsing)
  IN CASE v.kind \in {"null", "assigned"} -> ZeroOf(t, ptr)
       [] Hooked(t) /\ v.kind = "string" /\ parsing -> IF v.leaf \in DOMAIN Numbers THEN Leaf(t, ptr, v.leaf) ELSE Error
       [] OTHER ->
            IF ~Accepts(t, v) THEN Error
            ELSE IF Hooked(t) \/ Type(t).shape = "leaf" THEN Leaf(t, ptr, v.leaf)
            ELSE IF IsStruct(t) THEN MapOf([n \in {f.name : f \in FieldsOf(t)} |-> field(FieldOf(t, n))])
            ELSE [v EXCEPT !.kids = [k \in Keys(v) |-> Decoded(Type(t).elem, FALSE, v.kids[k], parsing)],
                           !.items = [i \in DOMAIN v.items |-> Decoded(Type(t).elem, FALSE, v.items[i], parsing)]]

\* A key of a struct that the decoder does not know.
RECURSIVE UnknownKey(_, _)
UnknownKey(t, v) ==
  IF Hooked(t) THEN FALSE
  ELSE IF IsStruct(t)
    THEN \/ \E k \in Keys(v) : \A f \in FieldsOf(t) : k \notin DecoderKeys(v, f)
         \/ \E f \in FieldsOf(t) : \E k \in DecoderKeys(v, f) : UnknownKey(f.type, v.kids[k])
    ELSE \E w \in Range(v.kids) \cup Range(v.items) : UnknownKey(Type(t).elem, w)

------------------------------------------------------------------------------
(* After decoding.                                                         *)

\* Assign walks the tree, by the hooks' keys, and the decoded value together; a nil pointer
\* on the way is allocated, a nil map or list is not.
RECURSIVE Assign(_, _, _)
Assign(t, raw, dst) ==
  LET to == IF IsStruct(t) /\ dst = Zero THEN ZeroOf(t, FALSE) ELSE dst
      field(f, v) == LET k == PickAlias(raw, f) IN IF k = "" THEN v ELSE Assign(f.type, raw.kids[k], v)
  IN  IF ~Assigning(t) \/ raw.kind = "null" THEN dst
      ELSE IF Hooked(t) THEN IF raw.kind = "assigned" THEN Leaf(t, TRUE, raw.leaf) ELSE dst
      ELSE IF IsStruct(t) THEN [to EXCEPT !.kids = [n \in Keys(to) |-> field(FieldOf(t, n), to.kids[n])]]
      ELSE [to EXCEPT
              !.kids = [k \in Keys(to) |-> IF k \in Keys(raw) THEN Assign(Type(t).elem, raw.kids[k], to.kids[k])
                                                             ELSE to.kids[k]],
              !.items = [i \in DOMAIN to.items |-> IF i \in DOMAIN raw.items
                                                     THEN Assign(Type(t).elem, raw.items[i], to.items[i])
                                                     ELSE to.items[i]]]

\* Mistake: a struct that was not configured is not entered.
WalkedPresent(t, seen, dst) == IsStruct(t) /\ t \notin seen /\ IsMap(dst) /\ dst # ZeroOf(t, FALSE)

\* Defaults and checks go through struct fields, a nil pointer apart, and not into a type
\* that is inside itself: seen is the stack of Walk.
Walked(t, seen, dst) == IsStruct(t) /\ t \notin seen /\ IsMap(dst)

\* Only strings and numbers take a default, and a number has to parse.
TakesDefault(f) ==
  /\ ~f.ptr /\ Type(f.type).shape = "leaf"
  /\ IF Numeric(f.type) THEN f.default \in DOMAIN Numbers ELSE ~Hooked(f.type)
Default(f, v) ==
  CASE f.default = "" \/ ~IsZero(f, v) -> v
    [] f.default # "" /\ IsZero(f, v) /\ TakesDefault(f) -> Leaf(f.type, FALSE, f.default)
    [] OTHER -> Error

RECURSIVE ApplyStructDefaults(_, _, _)
ApplyStructDefaults(t, seen, dst) ==
  IF ~Walked(t, seen, dst) THEN dst
  ELSE [dst EXCEPT !.kids = [n \in Keys(dst) |->
          ApplyStructDefaults(FieldOf(t, n).type, seen \cup {t}, Default(FieldOf(t, n), dst.kids[n]))]]

\* What isNumeric reads and what Sprint shows.
NumberAt(v) == IF v = Zero THEN 0 ELSE Numbers[v.leaf]
TextAt(f, v) == IF v = Zero THEN IF Numeric(f.type) THEN "0" ELSE "" ELSE v.leaf

\* Mistake: the maximum itself is refused.
ViolatesAtMax(f, v) ==
  \/ f.required /\ IsZero(f, v)
  \/ ~(f.ptr /\ v = Zero)
       /\ \/ Numeric(f.type) /\ \E m \in Range(f.min) : NumberAt(v) < m
          \/ Numeric(f.type) /\ \E m \in Range(f.max) : NumberAt(v) >= m
          \/ f.oneof # {} /\ TextAt(f, v) \notin f.oneof

\* A field is empty though required, out of its range, or none of its values.  A nil
\* pointer has neither a range nor values; an absent field that is not a pointer has.
Violates(f, v) ==
  \/ f.required /\ IsZero(f, v)
  \/ ~(f.ptr /\ v = Zero)
       /\ \/ Numeric(f.type) /\ \E m \in Range(f.min) : NumberAt(v) < m
          \/ Numeric(f.type) /\ \E m \in Range(f.max) : NumberAt(v) > m
          \/ f.oneof # {} /\ TextAt(f, v) \notin f.oneof

\* Mistake: only the fields of the root are checked.
CheckFieldMetaFlat(t, seen, dst) == \E f \in FieldsOf(t) : Violates(f, dst.kids[f.name])

RECURSIVE CheckFieldMeta(_, _, _)
CheckFieldMeta(t, seen, dst) ==
  /\ Walked(t, seen, dst)
  /\ \E f \in FieldsOf(t) : \/ Violates(f, dst.kids[f.name])
                           \/ CheckFieldMeta(f.type, seen \cup {t}, dst.kids[f.name])

------------------------------------------------------------------------------
HookInit ==
  /\ \E p \in Programs : \E i \in p.inputs :
       program = [types |-> p.types, root |-> p.root, bridge |-> p.bridge, unknown |-> p.unknown, input |-> i]
  /\ live = {} /\ assigns = {}
  /\ hookTree = program.input /\ target = Zero /\ phase = "plan"

Shapes == {t \in DOMAIN program.types : ~Hooked(t)}
Gains(t) == (t \notin live /\ \E u \in Parts(t) : IsLive(u)) \/ (t \notin assigns /\ \E u \in Parts(t) : Assigning(u))

\* One shape of one round of propagate; the rounds end when no shape gains.
Propagate ==
  /\ phase = "plan"
  /\ \E t \in {s \in Shapes : Gains(s)} :
       /\ live' = IF \E u \in Parts(t) : IsLive(u) THEN live \cup {t} ELSE live
       /\ assigns' = IF \E u \in Parts(t) : Assigning(u) THEN assigns \cup {t} ELSE assigns
  /\ UNCHANGED <<program, hookTree, target, phase>>

Planned ==
  /\ phase = "plan" /\ ~(\E t \in Shapes : Gains(t)) /\ phase' = "hooks"
  /\ UNCHANGED <<program, live, assigns, hookTree, target>>

\* A plan without a live root is empty.
RunTypedHooks ==
  /\ phase = "hooks"
  /\ hookTree' = IF IsLive(program.root) THEN ApplyPlan(program.root, hookTree) ELSE hookTree
  /\ phase' = IF Faulty(hookTree') THEN "failed" ELSE "decode"
  /\ UNCHANGED <<program, live, assigns, target>>

\* Mistake: strict decoding is given up in every mode.
RefusedLoose(tree) == FALSE

\* An unknown key fails the decode when the mode says so; UnknownWarn decodes again.
Refused(tree) == program.unknown = "error" /\ UnknownKey(program.root, tree)

\* The target is dropped when a step fails.
RunDecode ==
  /\ phase = "decode"
  /\ LET decoded == Decoded(program.root, FALSE, hookTree, FALSE)
         filled == ApplyStructDefaults(program.root, {}, Assign(program.root, hookTree, decoded))
     IN  IF Refused(hookTree) \/ Faulty(decoded) \/ Faulty(filled)
           THEN phase' = "failed" /\ UNCHANGED target
           ELSE phase' = "check" /\ target' = filled
  /\ UNCHANGED <<program, live, assigns, hookTree>>

RunFieldMetaCheck ==
  /\ phase = "check"
  /\ phase' = IF CheckFieldMeta(program.root, {}, target) THEN "failed" ELSE "done"
  /\ UNCHANGED <<program, live, assigns, hookTree, target>>

HookNext == Propagate \/ Planned \/ RunTypedHooks \/ RunDecode \/ RunFieldMetaCheck

------------------------------------------------------------------------------
\* Every field of a hooked or nested type is given by one of its names at most, which the
\* decoder takes for it, and by no other spelling.
RECURSIVE Spelled(_, _)
Spelled(t, v) ==
  IF Hooked(t) \/ Type(t).shape = "leaf" THEN TRUE
  ELSE IF IsStruct(t)
    THEN \A f \in {g \in FieldsOf(t) : Hooked(g.type) \/ Type(g.type).shape # "leaf"} :
           LET ks == {f.json, f.yaml, f.lower, f.name} \cap Keys(v)
           IN  /\ Cardinality(ks) <= 1 /\ DecoderKeys(v, f) = ks
               /\ \A k \in ks : Spelled(f.type, v.kids[k])
    ELSE \A w \in Range(v.kids) \cup Range(v.items) : Spelled(Type(t).elem, w)

\* What the input means with no plan, no aliases and no assignment: a decoder that parses
\* the texts of hooked types where they stand.
Meant == Decoded(program.root, FALSE, program.input, TRUE)

\* The fields that metadata is about, as paths of fields from the root, three deep; a field
\* whose type is one that it is in is not entered.
Enters(p) ==
  /\ IsStruct(Last(p).type) /\ ~Hooked(Last(p).type)
  /\ Last(p).type \notin {program.root} \cup {p[i].type : i \in 1 .. Len(p) - 1}
BelowPaths(ps) == UNION {{Append(p, f) : f \in FieldsOf(Last(p).type)} : p \in {q \in ps : Enters(q)}}
FieldPaths ==
  LET one == {<<f>> : f \in FieldsOf(program.root)}
      two == BelowPaths(one)
  IN  one \cup two \cup BelowPaths(two)
At(v, p) == Get(v, [i \in DOMAIN p |-> p[i].name])

\* The value of a field when its zero has given way to its default.
Filled(p) ==
  LET f == Last(p)
      v == At(Meant, p)
  IN  IF f.default # "" /\ IsZero(f, v) THEN Leaf(f.type, FALSE, f.default) ELSE v

Unfillable ==
  \E p \in FieldPaths : Last(p).default # "" /\ ~TakesDefault(Last(p)) /\ IsZero(Last(p), At(Meant, p))

\* Decoding came to an end, or the reload failed before.
Built == phase \in {"check", "done"} \/ (phase = "failed" /\ target # Zero)
Lost == phase = "failed" /\ target = Zero
Strict == program.unknown = "error" /\ UnknownKey(program.root, program.input)

\* Dropping the parts of a plan that reach no hook loses no conversion, however types nest in
\* maps, lists and themselves: where each field is given under one name that the decoder
\* knows, the decoded value is the one meant, with its defaults, and the reload fails before the checks only for text
\* that does not parse, a kind or a key that the decoder refuses, or a default that its field
\* does not take (BuildTypedHookPlan, Apply, Assign, runDecode, ApplyStructDefaults).
HooksReachEveryLeaf ==
  (Built \/ Lost) /\ Spelled(program.root, program.input) =>
    /\ Built => /\ ~Faulty(Meant) /\ ~Strict /\ ~Unfillable
                /\ \A p \in FieldPaths : IF Enters(p) THEN At(target, p).kind = At(Meant, p).kind
                                                      ELSE At(target, p) = Filled(p)
    /\ Lost => Faulty(Meant) \/ Strict \/ Unfillable

\* A struct is unset when all that it holds is, after defaults.
Unset(p) ==
  \A q \in {r \in FieldPaths : IsPrefix(p, r) /\ (Enters(r) => Last(r).ptr)} :
    Filled(q) = NotFound \/ IsZero(Last(q), Filled(q))

\* What the metadata of a field asks of its value.
Obeys(p) ==
  LET f == Last(p)
      v == Filled(p)
  IN  /\ f.required => ~Unset(p)
      /\ ~(f.ptr /\ v = Zero) =>
           /\ Numeric(f.type) => /\ \A m \in Range(f.min) : m <= NumberAt(v)
                                /\ \A m \in Range(f.max) : NumberAt(v) <= m
           /\ f.oneof = {} \/ TextAt(f, v) \in f.oneof

\* A reload is refused by its field metadata if and only if a field of the value that is
\* meant breaks it after defaults, in a struct that was not configured as well as in one
\* that was, and in none behind a nil pointer (ApplyStructDefaults before CheckFieldMeta).
FieldRulesHold ==
  Built /\ phase # "check" /\ Spelled(program.root, program.input) =>
    (phase = "done" <=> \A p \in FieldPaths : At(Meant, p) # NotFound => Obeys(p))

\* Hooks, decoding, defaults and checks together give the value the type means.
DecodedAsMeant == HooksReachEveryLeaf /\ FieldRulesHold
=============================================================================
