------------------------------- MODULE JSONPatch -------------------------------
(***************************************************************************)
(* confmap/patch.go: RFC 6902 patches.  An operation is                    *)
(*   [op, path, from, value, bad]                                          *)
(* with pointers as sequences of decoded tokens; bad holds the members     *)
(* that are missing or malformed.  Tokens that are array indexes are the   *)
(* keys of IndexOf, and one with a leading zero is LeadingZero.            *)
(***************************************************************************)
EXTENDS ConfTree

IndexOf == "0" :> 0 @@ "1" :> 1 @@ "2" :> 2
LeadingZero == "01"
IsAllDigits(tok) == tok \in DOMAIN IndexOf \cup {LeadingZero}

\* Mistake: an element can be read and removed one past the end.
ArrayIndexOff(tok, n, forAdd) ==
  IF tok = "-" /\ forAdd THEN n
  ELSE IF tok \notin DOMAIN IndexOf THEN -1
  ELSE IF IndexOf[tok] < n \/ (IndexOf[tok] = n /\ ~forAdd) THEN IndexOf[tok] ELSE -1

\* The index a token names in a list of n items, or -1.
ArrayIndex(tok, n, forAdd) ==
  IF tok = "-" /\ forAdd THEN n
  ELSE IF tok \notin DOMAIN IndexOf THEN -1
  ELSE IF IndexOf[tok] < n \/ (IndexOf[tok] = n /\ forAdd) THEN IndexOf[tok] ELSE -1

RECURSIVE GetAt(_, _)
GetAt(node, path) ==
  IF path = <<>> THEN node
  ELSE LET i == ArrayIndex(path[1], Len(node.items), FALSE)
       IN  CASE IsMap(node) /\ path[1] \in Keys(node) -> GetAt(node.kids[path[1]], Tail(path))
             [] node.kind = "list" /\ i >= 0 -> GetAt(node.items[i + 1], Tail(path))
             [] OTHER -> Error

\* The edits of a container: Adding(v) stores v, Removing takes the member out.
Adding(v) == [add |-> TRUE, value |-> v]
Removing == [add |-> FALSE, value |-> Null]

AddTo(value, c, tok) ==
  LET i == ArrayIndex(tok, Len(c.items), TRUE)
  IN  CASE IsMap(c) -> Put(c, tok, value)
        [] c.kind = "list" /\ i >= 0 -> ListOf(InsertAt(c.items, i + 1, value))
        [] OTHER -> Error

RemoveFrom(c, tok) ==
  LET i == ArrayIndex(tok, Len(c.items), FALSE)
  IN  CASE IsMap(c) /\ tok \in Keys(c) -> Drop(c, tok)
        [] c.kind = "list" /\ i >= 0 -> ListOf(RemoveAt(c.items, i + 1))
        [] OTHER -> Error

StoreBack(node, tok, v) ==
  IF IsMap(node) THEN Put(node, tok, v)
  ELSE ListOf(ReplaceAt(node.items, 1 + ArrayIndex(tok, Len(node.items), FALSE), v))

RECURSIVE EditAt(_, _, _)
EditAt(node, path, edit) ==
  CASE path = <<>> -> edit.value
    [] path # <<>> /\ node.kind = "null" -> Error
    [] Len(path) = 1 /\ node.kind # "null" ->
         IF edit.add THEN AddTo(edit.value, node, path[1]) ELSE RemoveFrom(node, path[1])
    [] OTHER -> LET child == GetAt(node, <<path[1]>>)
                    updated == EditAt(child, Tail(path), edit)
                IN  IF child = Error \/ updated = Error THEN Error
                    ELSE StoreBack(node, path[1], updated)

\* One edit after another on what the first one leaves.
ThenEdit(root, path, edit) == IF root = Error THEN Error ELSE EditAt(root, path, edit)

\* Numbers are compared by value, whatever they look like.
ToNumber(x) == IF x = "1.0" THEN "1" ELSE x

RECURSIVE PatchEqual(_, _)
PatchEqual(a, b) ==
  /\ a.kind = b.kind
  /\ CASE a.kind = "number" -> ToNumber(a.leaf) = ToNumber(b.leaf)
       [] a.kind = "map" -> /\ Keys(a) = Keys(b)
                            /\ \A k \in Keys(a) : PatchEqual(a.kids[k], b.kids[k])
       [] a.kind = "list" -> /\ Len(a.items) = Len(b.items)
                             /\ \A i \in DOMAIN a.items : PatchEqual(a.items[i], b.items[i])
       [] OTHER -> a.leaf = b.leaf

\* Mistake: the destination is edited before the source is removed.
MoveOpAddFirst(root, from, path) ==
  LET value == GetAt(root, from)
  IN  IF value = Error THEN Error
      ELSE IF from = path THEN root
      ELSE IF IsPrefix(from, path) THEN Error
      ELSE ThenEdit(EditAt(root, path, Adding(value)), from, Removing)

MoveOp(root, from, path) ==
  LET value == GetAt(root, from)
  IN  IF value = Error THEN Error
      ELSE IF from = path THEN root
      ELSE IF IsPrefix(from, path) THEN Error
      ELSE ThenEdit(EditAt(root, from, Removing), path, Adding(value))

Needs(name) == {"op", "path"} \cup (CASE name \in {"add", "replace", "test"} -> {"value"}
                                      [] name \in {"move", "copy"} -> {"from"}
                                      [] OTHER -> {})

ApplyOp(root, op) ==
  IF op.bad \cap Needs(op.op) # {} THEN Error
  ELSE CASE op.op = "add" -> EditAt(root, op.path, Adding(op.value))
         [] op.op = "remove" -> IF op.path = <<>> THEN Error ELSE EditAt(root, op.path, Removing)
         [] op.op = "replace" ->
              ThenEdit(EditAt(root, op.path, Removing), op.path, Adding(op.value))
         [] op.op = "test" -> LET cur == GetAt(root, op.path)
                              IN  IF cur # Error /\ PatchEqual(cur, op.value) THEN root ELSE Error
         [] op.op = "copy" -> LET v == GetAt(root, op.from)
                              IN  IF v = Error THEN Error ELSE EditAt(root, op.path, Adding(v))
         [] op.op = "move" -> MoveOp(root, op.from, op.path)
         [] OTHER -> Error

\* The operations run on a copy: when one fails there is no document.
ApplyPatch(doc, ops) ==
  LET Step(root, op) == IF root = Error THEN Error ELSE ApplyOp(root, op)
      root == FoldLeft(Step, doc, ops)
  IN  IF IsMap(root) THEN root ELSE Error

\* Mistake: the place in a list stays in the path.
PointerToDottedRaw(ptr) == ptr

\* The path the index keys a patch by: a list is attributed as a whole.
RECURSIVE PointerToDotted(_)
PointerToDotted(ptr) ==
  IF ptr = <<>> \/ IsAllDigits(Head(ptr)) THEN <<>>
  ELSE <<Head(ptr)>> \o PointerToDotted(Tail(ptr))

PatchPaths(ops) == [i \in DOMAIN ops |-> PointerToDotted(ops[i].path)]
=============================================================================
