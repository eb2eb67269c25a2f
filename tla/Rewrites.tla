------------------------------- MODULE Rewrites -------------------------------
(***************************************************************************)
(* The transform and secret stages: the registered transforms rewrite the  *)
(* merged tree one after the other, then references to secrets are         *)
(* resolved.  A text is told apart by what it is to the two walks: a       *)
(* variable's placeholder, a reference, or plain.  A job is                *)
(*   [tree, steps, env, vault]                                             *)
(* where vault maps a reference to its plain text, "" if resolving fails.  *)
(* A migration is [from, to, key, fails, wipes]: it writes key, and may    *)
(* replace the _meta it finds.                                             *)
(***************************************************************************)
EXTENDS ConfTree, TLC

CONSTANTS Jobs

VARIABLES job,
          rewritten,  \* pipelineState.merged
          given,      \* the tree that the last step was given
          at,         \* steps that have run
          captured,   \* RawCapture.values
          resolvedAt,    \* paths recorded as secret
          log,        \* versions the chain of the last step went through
          outcome

rewriteVars == <<job, rewritten, given, at, captured, resolvedAt, log, outcome>>

Placeholders ==
  "${A}" :> [name |-> "A", op |-> "", body |-> ""] @@ "${B}" :> [name |-> "B", op |-> "", body |-> ""]
  @@ "${A:-d}" :> [name |-> "A", op |-> "-", body |-> "d"] @@ "${A:?}" :> [name |-> "A", op |-> "?", body |-> ""]

------------------------------------------------------------------------------
\* The leaves of a tree, by path.
RECURSIVE LeavesAt(_, _)
LeavesAt(p, t) ==
  CASE IsMap(t) -> UNION {LeavesAt(Append(p, k), t.kids[k]) : k \in Keys(t)}
    [] t.kind = "list" -> UNION {LeavesAt(Append(p, ToString(i - 1)), t.items[i]) : i \in DOMAIN t.items}
    [] OTHER -> {[path |-> p, value |-> t]}

RECURSIVE WalkStrings(_, _)
WalkStrings(t, f) ==
  CASE IsMap(t) -> MapOf([k \in Keys(t) |-> WalkStrings(t.kids[k], f)])
    [] t.kind = "list" -> ListOf([i \in DOMAIN t.items |-> WalkStrings(t.items[i], f)])
    [] t.kind = "string" -> IF t.leaf \in DOMAIN f THEN Str(f[t.leaf]) ELSE t
    [] OTHER -> t

Texts(t) == {l.value.leaf : l \in {m \in LeavesAt(<<>>, t) : m.value.kind = "string"}}

\* Mistake: what a variable holds is expanded as well.
SubstDeep(env) ==
  [x \in DOMAIN Placeholders |->
     LET p == Placeholders[x]
         v == env[p.name]
     IN  IF p.op = "-" /\ v = "" THEN p.body
         ELSE IF v \in DOMAIN Placeholders THEN env[Placeholders[v].name] ELSE v]

\* What each placeholder becomes.
Subst(env) ==
  [x \in DOMAIN Placeholders |->
     LET p == Placeholders[x]
     IN  IF p.op = "-" /\ env[p.name] = "" THEN p.body ELSE env[p.name]]

EnvSubst(t, env) ==
  IF \E x \in Texts(t) \cap DOMAIN Placeholders : Placeholders[x].op = "?" /\ env[Placeholders[x].name] = ""
  THEN Error ELSE WalkStrings(t, Subst(env))

------------------------------------------------------------------------------
\* Mistake: the old key's value replaces the new one's.
AliasOverwrite(t, from, to) ==
  IF Get(t, from) = NotFound THEN t ELSE Delete(Set(t, to, Get(t, from)), from)

Alias(t, from, to) ==
  IF Get(t, from) = NotFound THEN t
  ELSE Delete(IF Get(t, to) = NotFound THEN Set(t, to, Get(t, from)) ELSE t, from)

\* A Go map has no order.
Aliases(t, mapping, order) == FoldLeft(LAMBDA u, from : Alias(u, from, mapping[from]), t, order)

DeletePaths(t, paths) == FoldLeft(Delete, t, paths)

Capture(t, paths) == [p \in {q \in paths : Get(t, q) # NotFound} |-> Get(t, p)]

------------------------------------------------------------------------------
Digits == "0" :> 0 @@ "1" :> 1 @@ "2" :> 2 @@ "3" :> 3

CurrentVersion(t) ==
  LET v == Get(t, <<"_meta", "schemaVersion">>)
  IN  IF v.kind \in {"number", "string"} /\ v.leaf \in DOMAIN Digits THEN Digits[v.leaf] ELSE 0

SetVersion(t, v) == Put(t, "_meta", Put(Branch(t, "_meta"), "schemaVersion", Num(ToString(v))))

\* The chain is refused when it is built.
NewChainOK(migrations) ==
  /\ \A m \in Range(migrations) : m.from < m.to
  /\ \A i, j \in DOMAIN migrations : i # j => migrations[i].from # migrations[j].from

ApplyMigration(m, t) == Put(IF m.wipes THEN Put(t, "_meta", EmptyMap) ELSE t, m.key, Str("migrated"))

\* Mistake: the version that was reached is not written.
MigrateUnmarked(s, t) ==
  LET byFrom(v) == SelectSeq(s.migrations, LAMBDA m : m.from = v)
      run[cur \in 0 .. 3] ==
        IF cur >= s.target THEN [versions |-> <<cur>>, apply |-> <<>>, ok |-> TRUE]
        ELSE IF byFrom(cur) = <<>> \/ byFrom(cur)[1].fails THEN [versions |-> <<cur>>, apply |-> <<>>, ok |-> FALSE]
        ELSE LET r == run[byFrom(cur)[1].to] IN
             [versions |-> <<cur>> \o r.versions, apply |-> byFrom(cur) \o r.apply, ok |-> r.ok]
      r == run[CurrentVersion(t)]
  IN  [versions |-> r.versions,
       tree |-> IF ~r.ok THEN Error ELSE FoldLeft(LAMBDA u, m : ApplyMigration(m, u), t, r.apply)]

\* Migrations up to the target; the version is written once they have all been applied.
Migrate(s, t) ==
  LET byFrom(v) == SelectSeq(s.migrations, LAMBDA m : m.from = v)
      run[cur \in 0 .. 3] ==
        IF cur >= s.target THEN [versions |-> <<cur>>, apply |-> <<>>, ok |-> TRUE]
        ELSE IF byFrom(cur) = <<>> \/ byFrom(cur)[1].fails THEN [versions |-> <<cur>>, apply |-> <<>>, ok |-> FALSE]
        ELSE LET r == run[byFrom(cur)[1].to] IN
             [versions |-> <<cur>> \o r.versions, apply |-> byFrom(cur) \o r.apply, ok |-> r.ok]
      r == run[CurrentVersion(t)]
  IN  [versions |-> r.versions,
       tree |-> IF ~r.ok THEN Error
                ELSE IF r.apply = <<>> THEN t
                ELSE SetVersion(FoldLeft(LAMBDA u, m : ApplyMigration(m, u), t, r.apply), Last(r.versions))]

------------------------------------------------------------------------------
RewriteInit ==
  /\ job \in Jobs /\ rewritten = job.tree /\ given = job.tree /\ at = 0
  /\ captured = NoKids /\ resolvedAt = {} /\ log = <<>> /\ outcome = "running"

\* One transform returns its tree, or an error that ends the reload.
Transformed(t) ==
  /\ at' = at + 1 /\ given' = rewritten
  /\ IF t = Error THEN outcome' = "failed" /\ UNCHANGED rewritten ELSE rewritten' = t /\ UNCHANGED outcome
  /\ UNCHANGED <<job, resolvedAt>>

NextIs(kind) == outcome = "running" /\ at < Len(job.steps) /\ job.steps[at + 1].kind = kind

RunAliases ==
  /\ NextIs("alias")
  /\ LET mapping == job.steps[at + 1].mapping
     IN  \E order \in SetToSeqs(DOMAIN mapping) : Transformed(Aliases(rewritten, mapping, order))
  /\ UNCHANGED <<captured, log>>

RunDeletePaths ==
  NextIs("delete") /\ Transformed(DeletePaths(rewritten, job.steps[at + 1].paths)) /\ UNCHANGED <<captured, log>>

RunCapture ==
  /\ NextIs("capture") /\ Transformed(rewritten)
  /\ captured' = Capture(rewritten, Range(job.steps[at + 1].paths)) /\ UNCHANGED log

RunEnvSubst == NextIs("subst") /\ Transformed(EnvSubst(rewritten, job.env)) /\ UNCHANGED <<captured, log>>

RunMigrations ==
  /\ NextIs("migrate")
  /\ LET s == job.steps[at + 1]
         r == Migrate(s, rewritten)
     IN  NewChainOK(s.migrations) /\ Transformed(r.tree) /\ log' = r.versions
  /\ UNCHANGED captured

\* The secret stage: every reference is resolved, or the first that cannot be ends the reload.
SecretResolve ==
  /\ outcome = "running" /\ at = Len(job.steps)
  /\ IF \E x \in Texts(rewritten) \cap DOMAIN job.vault : job.vault[x] = ""
     THEN outcome' = "failed" /\ UNCHANGED <<rewritten, resolvedAt>>
     ELSE /\ outcome' = "done" /\ rewritten' = WalkStrings(rewritten, job.vault)
          /\ resolvedAt' = {l.path : l \in {m \in LeavesAt(<<>>, rewritten) :
                                           m.value.kind = "string" /\ m.value.leaf \in DOMAIN job.vault}}
  /\ given' = rewritten /\ UNCHANGED <<job, at, captured, log>>

RewriteNext ==
  RunAliases \/ RunDeletePaths \/ RunCapture \/ RunEnvSubst \/ RunMigrations \/ SecretResolve

------------------------------------------------------------------------------
LastIs(kind) == outcome = "running" /\ at > 0 /\ job.steps[at].kind = kind

Apart(p, q) == ~IsPrefix(p, q) /\ ~IsPrefix(q, p)

\* Aliases that have nothing to do with one another move each old value to its new place,
\* whatever order the map is walked in: the new place's own value wins, the old place is
\* gone, and nothing beside them changes (Aliases).
AliasesMoveValues ==
  LastIs("alias") =>
    LET mapping == job.steps[at].mapping
        named == DOMAIN mapping \cup Range(mapping)
        alone(f) == /\ Apart(f, mapping[f])
                    /\ \A g \in DOMAIN mapping \ {f} :
                         \A p \in {f, mapping[f]}, q \in {g, mapping[g]} : Apart(p, q)
    IN  /\ \A f \in DOMAIN mapping : alone(f) =>
             /\ Get(rewritten, f) = NotFound
             /\ Get(rewritten, mapping[f]) =
                  (IF Get(given, mapping[f]) # NotFound THEN Get(given, mapping[f]) ELSE Get(given, f))
        /\ \A l \in LeavesAt(<<>>, given) :
             (\A p \in named : Apart(p, l.path)) => Get(rewritten, l.path) = l.value

\* A chain that ends goes from the tree's version through each migration's own version to
\* the target or beyond, leaves that version in the tree whatever a migration does to
\* _meta, and has nothing left to do on the tree it returns (Chain.Run).
MigrationsReachTarget ==
  LastIs("migrate") =>
    LET s == job.steps[at]
    IN  /\ log[1] = CurrentVersion(given) /\ Last(log) >= s.target
        /\ \A i \in 1 .. Len(log) - 1 :
             \E m \in Range(s.migrations) : m.from = log[i] /\ m.to = log[i + 1] /\ Get(rewritten, <<m.key>>) = Str("migrated")
        /\ Len(log) > 1 => CurrentVersion(rewritten) = Last(log)
        /\ Migrate(s, rewritten).tree = rewritten

\* Each text is expanded once and resolved once, in that order and wherever it stands: what
\* a variable holds is not expanded, a variable may hold a reference, what a reference
\* stands for is neither expanded nor resolved, and exactly the resolved places are
\* recorded as secret (EnvSubst given runSecretResolve).
RewrittenOnce ==
  outcome = "done" /\ Range(job.steps) \subseteq {[kind |-> "subst"]} =>
    LET expand(x) == IF job.steps = <<>> \/ x \notin DOMAIN Placeholders THEN x
                     ELSE IF Placeholders[x].op = "-" /\ job.env[Placeholders[x].name] = "" THEN Placeholders[x].body
                     ELSE job.env[Placeholders[x].name]
        resolve(x) == IF x \in DOMAIN job.vault THEN job.vault[x] ELSE x
    IN  Len(job.steps) <= 1 =>
          /\ LeavesAt(<<>>, rewritten) =
               {[path |-> l.path, value |-> IF l.value.kind = "string" THEN Str(resolve(expand(l.value.leaf)))
                                            ELSE l.value] : l \in LeavesAt(<<>>, job.tree)}
          /\ resolvedAt = {l.path : l \in {m \in LeavesAt(<<>>, job.tree) :
                                  m.value.kind = "string" /\ expand(m.value.leaf) \in DOMAIN job.vault}}

\* The rewriting stages do what they are registered for, once and in their order.
RewritesAreExact == AliasesMoveValues /\ MigrationsReachTarget /\ RewrittenOnce
=============================================================================
