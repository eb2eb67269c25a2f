------------------------------- MODULE Features -------------------------------
(***************************************************************************)
(* Feature rules: the first target that matches, then the first rollout    *)
(* whose bucket holds the anchor, then the default.  Buckets replaces the  *)
(* hash of an anchor modulo 100; a rule's values are told apart by place.  *)
(***************************************************************************)
EXTENDS Integers, FiniteSets, Sequences

CONSTANTS Rules,      \* [targets, rollouts], with when, percent and hashKey
          Contexts,
          Anchors,
          Buckets     \* 100 in the code

\* A key or an attribute that is not set.
Blank == ""

\* Anchors holds every attribute that a rollout hashes: the hash is of any string.
ASSUME FeatureAssumption ==
  /\ Buckets \in Nat \ {0} /\ Blank \notin Anchors
  /\ \A r \in Rules :
       r \in [targets : {r.targets}, rollouts : Seq([percent : Int, hashKey : STRING])]
  /\ \A r \in Rules, c \in Contexts : \A i \in DOMAIN r.rollouts :
       r.rollouts[i].hashKey \in DOMAIN c => c[r.rollouts[i].hashKey] \in Anchors \cup {Blank}

VARIABLES rule, context, bucketOf, decided

featureVars == <<rule, context, bucketOf, decided>>

Matches(want, have) ==
  DOMAIN want # {} /\ \A k \in DOMAIN want : k \in DOMAIN have /\ have[k] = want[k]

\* Mistake: the bucket at the percentage is let in.
InBucketLoose(anchor, percent) ==
  CASE percent <= 0 -> FALSE
    [] percent >= Buckets -> TRUE
    [] OTHER -> bucketOf[anchor] <= percent

InBucket(anchor, percent) ==
  CASE percent <= 0 -> FALSE
    [] percent >= Buckets -> TRUE
    [] OTHER -> bucketOf[anchor] < percent

LetIn(ro, have) ==
  /\ ro.hashKey # Blank /\ ro.hashKey \in DOMAIN have /\ have[ro.hashKey] # Blank
  /\ InBucket(have[ro.hashKey], ro.percent)

First(S) == CHOOSE i \in S : \A j \in S : i <= j

Evaluate(r, have) ==
  LET matching == {i \in DOMAIN r.targets : Matches(r.targets[i].when, have)}
      open == {i \in DOMAIN r.rollouts : LetIn(r.rollouts[i], have)}
  IN  CASE matching # {} -> <<"target", First(matching)>>
        [] matching = {} /\ open # {} -> <<"rollout", First(open)>>
        [] OTHER -> <<"default", 0>>

\* Nothing is decided yet; there is no rule.
Undecided == <<"none", 0>>
Missing == <<"missing", 0>>

FeatureInit ==
  /\ rule \in Rules /\ context \in Contexts
  /\ bucketOf \in [Anchors -> 0 .. Buckets - 1] /\ decided = Undecided

\* Eval, for a key that the rules have.
Decide ==
  /\ decided = Undecided /\ decided' = Evaluate(rule, context)
  /\ UNCHANGED <<rule, context, bucketOf>>

\* Eval, for a key that they lack or when there are none: the caller's default.
DecideMissing ==
  /\ decided = Undecided /\ decided' = Missing
  /\ UNCHANGED <<rule, context, bucketOf>>

FeatureNext == Decide \/ DecideMissing

------------------------------------------------------------------------------
\* When no target matches, rollouts on one key part the buckets into intervals: each gets
\* those below its percentage that no earlier one has, none at 0 and all at the top; and
\* raising one percentage only moves requests into that rollout (Evaluate, inBucket).
RolloutShare ==
  decided \notin {Undecided, Missing} =>
    /\ \A i \in DOMAIN rule.rollouts :
         Evaluate([rule EXCEPT !.rollouts[i].percent = @ + 1], context) \in {decided, <<"rollout", i>>}
    /\ LET key == rule.rollouts[1].hashKey
           bucket == bucketOf[context[key]]
           percent == [i \in DOMAIN rule.rollouts |-> rule.rollouts[i].percent]
       IN  (/\ decided[1] # "target" /\ rule.rollouts # <<>>
            /\ \A i \in DOMAIN rule.rollouts : rule.rollouts[i].hashKey = key
            /\ key # Blank /\ key \in DOMAIN context /\ context[key] \in DOMAIN bucketOf) =>
              \A i \in DOMAIN percent :
                decided = <<"rollout", i>> <=> (bucket < percent[i] /\ \A j \in 1 .. i - 1 : bucket >= percent[j])
=============================================================================
