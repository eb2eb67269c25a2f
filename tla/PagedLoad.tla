------------------------------ MODULE PagedLoad ------------------------------
(***************************************************************************)
(* Loads that collect pages: Parameter Store and Azure App Configuration.  *)
(* A service is [kind, pages, limit]: pages maps a pagination token to     *)
(* [items, next], first "" and a next of "" at the end.  An item is        *)
(*   [key, path, value, size, valid]                                       *)
(* where keys are numbered in lexical order and path is the split key,     *)
(* with "" for a segment that may not be.                                  *)
(***************************************************************************)
EXTENDS ConfTree, TLC

CONSTANTS Services

VARIABLES service,
          token,      \* of the page to ask for
          tokens,     \* the ones that were handed out
          values,     \* what the pages held so far, by key
          total,
          calls,      \* requests made
          answer      \* [phase, map, revision]

pageVars == <<service, token, tokens, values, total, calls, answer>>

PagesFailed == [phase |-> "failed", map |-> Error, revision |-> <<>>]
Sum(items) == FoldLeft(LAMBDA n, i : n + i.size, 0, items)

\* Mistake: a leaf gives way to the branch that a longer key needs.
RECURSIVE InsertOver(_, _, _)
InsertOver(t, keys, v) ==
  CASE keys[1] = "" -> Error
    [] keys[1] # "" /\ Len(keys) = 1 -> IF keys[1] \in Keys(t) THEN Error ELSE Put(t, keys[1], v)
    [] OTHER -> LET below == InsertOver(Branch(t, keys[1]), Tail(keys), v)
                IN  IF below = Error THEN Error ELSE Put(t, keys[1], below)

\* A key that is both a leaf and a branch is an error, whichever comes first.
RECURSIVE Insert(_, _, _)
Insert(t, keys, v) ==
  CASE keys[1] = "" -> Error
    [] keys[1] # "" /\ Len(keys) = 1 -> IF keys[1] \in Keys(t) THEN Error ELSE Put(t, keys[1], v)
    [] OTHER -> IF keys[1] \in Keys(t) /\ ~IsMap(t.kids[keys[1]]) THEN Error
                ELSE LET below == Insert(Branch(t, keys[1]), Tail(keys), v)
                     IN  IF below = Error THEN Error ELSE Put(t, keys[1], below)

\* A page is taken whole, or one item of it ends the load.
PageFails(items) ==
  \/ \E i \in DOMAIN items : ~items[i].valid \/ items[i].key \in DOMAIN values
  \/ \E i, j \in DOMAIN items : i # j /\ items[i].key = items[j].key
  \/ total + Sum(items) > service.limit

\* Mistake: a token that comes again is followed.
RepeatedNever(next) == FALSE

\* Only Parameter Store's loop keeps the tokens it was given.
Repeated(next) == service.kind = "ssm" /\ next \in tokens

------------------------------------------------------------------------------
PageInit ==
  /\ service \in Services /\ token = "" /\ tokens = {} /\ values = [k \in {} |-> {}]
  /\ total = 0 /\ calls = 0 /\ answer = [phase |-> "paging", map |-> EmptyMap, revision |-> <<>>]

GetPage ==
  /\ answer.phase = "paging"
  /\ calls' = calls + 1
  /\ LET page == service.pages[token]
     IN  IF PageFails(page.items)
         THEN answer' = PagesFailed /\ UNCHANGED <<token, tokens, values, total>>
         ELSE /\ values' = [k \in {i.key : i \in Range(page.items)} |->
                              CHOOSE i \in Range(page.items) : i.key = k] @@ values
              /\ total' = total + Sum(page.items)
              /\ IF page.next = "" THEN answer' = [answer EXCEPT !.phase = "build"] /\ UNCHANGED <<token, tokens>>
                 ELSE IF Repeated(page.next) THEN answer' = PagesFailed /\ UNCHANGED <<token, tokens>>
                 ELSE token' = page.next /\ tokens' = tokens \cup {page.next} /\ UNCHANGED answer
  /\ UNCHANGED service

\* The request fails, or the context ends before it.
PageError ==
  /\ answer.phase = "paging" /\ answer' = PagesFailed
  /\ UNCHANGED <<service, token, tokens, values, total, calls>>

\* Keys in order: the tree, and the revision that is hashed over them.
Build ==
  /\ answer.phase = "build"
  /\ LET keys == SetToSortSeq(DOMAIN values, LAMBDA a, b : a < b)
         grow(t, k) == IF t = Error THEN t ELSE Insert(t, values[k].path, values[k].value)
         map == FoldLeft(grow, EmptyMap, keys)
     IN  answer' = IF map = Error THEN PagesFailed
                   ELSE [phase |-> "loaded", map |-> map, revision |-> [i \in DOMAIN keys |-> values[keys[i]]]]
  /\ UNCHANGED <<service, token, tokens, values, total, calls>>

PageNext == GetPage \/ PageError \/ Build

------------------------------------------------------------------------------
\* The pages that following the tokens from the first one reaches.
PagesOf(s) ==
  LET reach[n \in 0 .. Cardinality(DOMAIN s.pages)] ==
        IF n = 0 THEN {""} ELSE reach[n - 1] \cup {s.pages[t].next : t \in reach[n - 1]}
  IN  reach[Cardinality(DOMAIN s.pages)]

ItemsOf(s) == UNION {Range(s.pages[t].items) : t \in PagesOf(s)}

RECURSIVE LeafPaths(_, _)
LeafPaths(p, t) ==
  IF IsMap(t) THEN UNION {LeafPaths(Append(p, k), t.kids[k]) : k \in Keys(t)} ELSE {[path |-> p, value |-> t]}

\* A load that succeeds holds every item of every page and nothing else, none hidden by
\* another, and its revision depends on the items alone, not on how they were paged; it
\* stays within the limit (Load, insert).
AllPagesOrNothing ==
  answer.phase = "loaded" =>
    LET items == ItemsOf(service)
    IN  /\ LeafPaths(<<>>, answer.map) = {[path |-> i.path, value |-> i.value] : i \in items}
        /\ \A i, j \in items : i # j => i.path # j.path
        /\ answer.revision = SetToSortSeq(items, LAMBDA a, b : a.key < b.key)
        /\ Sum(answer.revision) <= service.limit

\* No token is followed twice, so a service whose tokens run in a circle is asked no more
\* often than it has pages (the tokens of Load).
RequestsBounded == calls <= Cardinality(DOMAIN service.pages)
=============================================================================
