------------------------------ MODULE ProfileExpr ------------------------------
(***************************************************************************)
(* internal/scan/profile_expr.go.  An expression is the sequence of its    *)
(* tokens; an evaluator is the set of active profile sets it accepts.  A   *)
(* parse is [pos, fn] with pos past what was read, or ParseError.          *)
(***************************************************************************)
EXTENDS Integers, SequencesExt

CONSTANT ProfileNames     \* the identifiers of expressions and profiles

ActiveSets == SUBSET ProfileNames
Has(name) == {s \in ActiveSets : name \in s}

ParseError == [pos |-> 0, fn |-> {}]
Peek(src, pos) == IF pos <= Len(src) THEN src[pos] ELSE "end"

\* An operand and what the loop over further operands makes of the rest.
Join(op, left, rest) ==
  IF rest = ParseError THEN ParseError
  ELSE [rest EXCEPT !.fn = IF op = "|" THEN left.fn \cup @ ELSE left.fn \cap @]
Closed(src, inner) ==
  IF inner # ParseError /\ Peek(src, inner.pos) = ")" THEN [inner EXCEPT !.pos = @ + 1] ELSE ParseError
Negated(inner) == IF inner = ParseError THEN ParseError ELSE [inner EXCEPT !.fn = ActiveSets \ @]

\* The recursive descent: parse[level, pos] is what the method for the level returns
\* at pos; the levels "|" and "&" are the loops over further operands.
Parser(src) ==
  LET parse[level \in {"or", "and", "not", "atom", "|", "&"}, pos \in 1 .. Len(src) + 1] ==
        LET Then(op, left) == IF left = ParseError THEN ParseError ELSE Join(op, left, parse[op, left.pos])
            Sub(op) == IF op = "|" THEN "and" ELSE "not"
            c == Peek(src, pos)
        IN  CASE level = "or" -> Then("|", parse["and", pos])
              [] level = "and" -> Then("&", parse["not", pos])
              [] level \in {"|", "&"} ->
                   IF c = level THEN Then(level, parse[Sub(level), pos + 1])
                   ELSE [pos |-> pos, fn |-> IF level = "|" THEN {} ELSE ActiveSets]
              [] level = "not" ->
                   IF c = "!" THEN Negated(parse["not", pos + 1]) ELSE parse["atom", pos]
              [] OTHER ->
                   IF c = "(" THEN Closed(src, parse["or", pos + 1])
                   ELSE IF c \in ProfileNames THEN [pos |-> pos + 1, fn |-> Has(c)]
                   ELSE ParseError
  IN  parse["or", 1]

\* Mistake: what is left over after an expression is ignored.
CompileTrailing(expr) == IF expr = <<>> THEN [pos |-> 1, fn |-> ActiveSets] ELSE Parser(expr)

Complete(v, expr) == IF v.pos = Len(expr) + 1 THEN v ELSE ParseError

\* The evaluator of an expression: none accepts everything, trailing input is refused.
Compile(expr) ==
  IF expr = <<>> THEN [pos |-> 1, fn |-> ActiveSets] ELSE Complete(Parser(expr), expr)

Verdict(v, active) ==
  IF v = ParseError THEN "error" ELSE IF active \in v.fn THEN "yes" ELSE "no"
Eval(expr, active) == Verdict(Compile(expr), active)

------------------------------------------------------------------------------
\* The grammar, an or of ands of nots of atoms: what the tokens i .. j of an
\* expression may mean as each of them.
ExprMeaning(s) ==
  LET as[level \in {"or", "and", "not", "atom"}, i \in 1 .. Len(s) + 1, j \in 0 .. Len(s)] ==
        CASE level = "or" ->
               as["and", i, j] \cup UNION {{l \cup r : l \in as["or", i, k - 1], r \in as["and", k + 1, j]}
                                           : k \in {m \in i .. j : s[m] = "|"}}
          [] level = "and" ->
               as["not", i, j] \cup UNION {{l \cap r : l \in as["and", i, k - 1], r \in as["not", k + 1, j]}
                                           : k \in {m \in i .. j : s[m] = "&"}}
          [] level = "not" ->
               as["atom", i, j] \cup (IF i < j /\ s[i] = "!" THEN {ActiveSets \ f : f \in as["not", i + 1, j]} ELSE {})
          [] OTHER ->
               IF i = j /\ s[i] \in ProfileNames THEN {Has(s[i])}
               ELSE IF i + 1 < j /\ s[i] = "(" /\ s[j] = ")" THEN as["or", i + 1, j - 1] ELSE {}
  IN  IF s = <<>> THEN {ActiveSets} ELSE as["or", 1, Len(s)]
=============================================================================
