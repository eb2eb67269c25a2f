---------------------------- MODULE FeaturesProofs ----------------------------
(***************************************************************************)
(* Proofs about Features, for all rules and contexts, any number of        *)
(* buckets and every way a hash may spread the anchors over them.          *)
(***************************************************************************)
EXTENDS Features, WellFoundedInduction, TLAPS

\* Features on its own.
FeatureSpec == FeatureInit /\ [][FeatureNext]_featureVars

-----------------------------------------------------------------------------
(* The first of several.                                                   *)

\* A set of positive numbers that is not empty has a first element.
LEMMA FirstIs ==
  ASSUME NEW S, S \subseteq Nat, S # {}
  PROVE  First(S) \in S /\ \A j \in S : First(S) <= j
<1>1. PICK x \in S : \A y \in S : ~(<<y, x>> \in OpToRel(<, Nat))
  BY NatLessThanWellFounded, WFMin
<1>2. \A y \in S : ~(y < x)
  <2> SUFFICES ASSUME NEW y \in S, y < x PROVE FALSE
    OBVIOUS
  <2>1. <<y, x>> \in Nat \X Nat /\ <<y, x>>[1] = y /\ <<y, x>>[2] = x
    BY <1>1
  <2>2. <<y, x>> \in OpToRel(<, Nat)
    BY <2>1 DEF OpToRel
  <2> QED
    BY <1>1, <2>2
<1>3. x \in S /\ \A j \in S : x <= j
  BY <1>2
<1> QED
  BY <1>3 DEF First

\* It is the only one of its kind.
LEMMA FirstUnique ==
  ASSUME NEW S, S \subseteq Nat, NEW i \in S, \A j \in S : i <= j
  PROVE  First(S) = i
<1> DEFINE f == First(S)
<1>1. f \in S /\ f <= i
  BY FirstIs
<1>2. f \in Nat /\ i \in Nat /\ i <= f
  BY <1>1
<1> HIDE DEF f
<1>3. f = i
  BY <1>1, <1>2
<1> QED
  BY <1>3 DEF f

\* One more element comes first or changes nothing.
LEMMA FirstGrows ==
  ASSUME NEW S, S \subseteq Nat, NEW i \in Nat, S # {}
  PROVE  First(S \cup {i}) \in {First(S), i}
<1> DEFINE f == First(S)
<1>1. f \in S /\ \A j \in S : f <= j
  BY FirstIs
<1> HIDE DEF f
<1>2. CASE f <= i
  <2>1. f \in S \cup {i} /\ \A j \in S \cup {i} : f <= j
    BY <1>1, <1>2
  <2>2. First(S \cup {i}) = f
    BY <2>1, FirstUnique
  <2> QED
    BY <2>2 DEF f
<1>3. CASE i < f
  <2>1. \A j \in S \cup {i} : i <= j
    BY <1>1, <1>3
  <2>2. First(S \cup {i}) = i
    BY <2>1, FirstUnique
  <2> QED
    BY <2>2
<1> QED
  BY <1>1, <1>2, <1>3

-----------------------------------------------------------------------------
(* Buckets.                                                                *)

RolloutTypes == [percent : Int, hashKey : STRING]

BucketsTyped == bucketOf \in [Anchors -> 0 .. Buckets - 1]

LEMMA Numbers ==
  /\ Buckets \in Nat /\ Buckets > 0 /\ Blank \notin Anchors
  /\ BucketsTyped => \A a \in Anchors : bucketOf[a] \in Nat /\ bucketOf[a] < Buckets
<1>1. Buckets \in Nat \ {0} /\ Blank \notin Anchors
  BY FeatureAssumption, Zenon
<1>2. ASSUME BucketsTyped, NEW a \in Anchors
      PROVE  bucketOf[a] \in Nat /\ bucketOf[a] < Buckets
  <2>1. bucketOf[a] \in 0 .. Buckets - 1
    BY <1>2 DEF BucketsTyped
  <2> QED
    BY <1>1, <2>1
<1> QED
  BY <1>1, <1>2

\* The two ends are no exceptions: a bucket is let in when it is below the percentage.
LEMMA InBucketIs ==
  ASSUME BucketsTyped, NEW a \in Anchors, NEW p \in Int
  PROVE  InBucket(a, p) <=> bucketOf[a] < p
<1> DEFINE b == bucketOf[a]
<1>1. b \in Nat /\ b < Buckets /\ Buckets \in Nat
  BY Numbers
<1>2. /\ p <= 0 => ~InBucket(a, p)
      /\ ~(p <= 0) /\ p >= Buckets => InBucket(a, p)
      /\ ~(p <= 0) /\ ~(p >= Buckets) => (InBucket(a, p) <=> b < p)
  <2>1. CASE p <= 0
    <3>1. ~(p >= Buckets)
      BY <2>1, Numbers
    <3> QED
      BY <2>1, <3>1 DEF InBucket
  <2>2. CASE ~(p <= 0) /\ p >= Buckets
    BY <2>2 DEF InBucket
  <2>3. CASE ~(p <= 0) /\ ~(p >= Buckets)
    BY <2>3 DEF InBucket
  <2> QED
    BY <2>1, <2>2, <2>3
<1> HIDE DEF b
<1>3. InBucket(a, p) <=> b < p
  BY <1>1, <1>2
<1> QED
  BY <1>3 DEF b

\* What a rollout needs to be open to a context.
Reaches(ro, have) ==
  ro.hashKey # Blank /\ ro.hashKey \in DOMAIN have /\ have[ro.hashKey] # Blank

LEMMA LetInIs ==
  ASSUME BucketsTyped, NEW ro \in RolloutTypes, NEW have,
         ro.hashKey \in DOMAIN have => have[ro.hashKey] \in Anchors \cup {Blank}
  PROVE  LetIn(ro, have) <=> Reaches(ro, have) /\ bucketOf[have[ro.hashKey]] < ro.percent
<1>1. CASE Reaches(ro, have)
  <2>1. have[ro.hashKey] \in Anchors /\ ro.percent \in Int
    BY <1>1 DEF Reaches, RolloutTypes
  <2>2. InBucket(have[ro.hashKey], ro.percent) <=> bucketOf[have[ro.hashKey]] < ro.percent
    BY <2>1, InBucketIs
  <2> QED
    BY <1>1, <2>2 DEF LetIn, Reaches
<1>2. CASE ~Reaches(ro, have)
  BY <1>2 DEF LetIn, Reaches
<1> QED
  BY <1>1, <1>2

\* A higher percentage lets nobody out.
LEMMA LetInGrows ==
  ASSUME BucketsTyped, NEW ro \in RolloutTypes, NEW have,
         ro.hashKey \in DOMAIN have => have[ro.hashKey] \in Anchors \cup {Blank},
         LetIn(ro, have)
  PROVE  LetIn([ro EXCEPT !.percent = @ + 1], have)
<1> DEFINE up == [ro EXCEPT !.percent = @ + 1]
<1>1. up \in RolloutTypes /\ up.hashKey = ro.hashKey /\ up.percent = ro.percent + 1
      /\ ro.percent \in Int
  BY DEF RolloutTypes
<1>2. Reaches(ro, have) /\ bucketOf[have[ro.hashKey]] < ro.percent
  BY LetInIs
<1>3. bucketOf[have[ro.hashKey]] \in Nat
  <2>1. have[ro.hashKey] \in Anchors
    BY <1>2 DEF Reaches
  <2> QED
    BY <2>1, Numbers
<1> HIDE DEF up
<1>4. Reaches(up, have) /\ bucketOf[have[up.hashKey]] < up.percent
  <2> DEFINE b == bucketOf[have[ro.hashKey]]
             p == ro.percent
  <2>1. b \in Nat /\ p \in Int /\ b < p /\ up.percent = p + 1
    BY <1>1, <1>2, <1>3
  <2>2. bucketOf[have[up.hashKey]] = b /\ Reaches(up, have)
    BY <1>1, <1>2 DEF Reaches
  <2> HIDE DEF b, p
  <2>3. b < p + 1
    BY <2>1
  <2> QED
    BY <2>1, <2>2, <2>3
<1>5. LetIn(up, have)
  BY <1>1, <1>4, LetInIs
<1> QED
  BY <1>5 DEF up

-----------------------------------------------------------------------------
(* Evaluation.                                                             *)

Matching(r, have) == {i \in DOMAIN r.targets : Matches(r.targets[i].when, have)}
Open(r, have) == {i \in DOMAIN r.rollouts : LetIn(r.rollouts[i], have)}

LEMMA EvaluateIs ==
  ASSUME NEW r, NEW have
  PROVE  /\ Matching(r, have) # {} => Evaluate(r, have) = <<"target", First(Matching(r, have))>>
         /\ Matching(r, have) = {} /\ Open(r, have) # {} =>
              Evaluate(r, have) = <<"rollout", First(Open(r, have))>>
         /\ Matching(r, have) = {} /\ Open(r, have) = {} => Evaluate(r, have) = <<"default", 0>>
BY DEF Evaluate, Matching, Open

\* The rules and contexts there are.
LEMMA RuleTypes ==
  ASSUME NEW r \in Rules, NEW have \in Contexts
  PROVE  /\ r \in [targets : {r.targets}, rollouts : Seq(RolloutTypes)]
         /\ r.rollouts \in Seq(RolloutTypes) /\ DOMAIN r.rollouts = 1 .. Len(r.rollouts)
         /\ \A i \in DOMAIN r.rollouts : r.rollouts[i] \in RolloutTypes
         /\ \A i \in DOMAIN r.rollouts :
              r.rollouts[i].hashKey \in DOMAIN have =>
                have[r.rollouts[i].hashKey] \in Anchors \cup {Blank}
<1>1. r \in [targets : {r.targets}, rollouts : Seq(RolloutTypes)]
  BY FeatureAssumption DEF RolloutTypes
<1>2. r.rollouts \in Seq(RolloutTypes)
  BY <1>1
<1> QED
  BY <1>1, <1>2, FeatureAssumption

\* The rule after one percentage was raised: the same targets, and one rollout changed.
LEMMA RaisedRule ==
  ASSUME NEW r \in Rules, NEW have \in Contexts, NEW i \in DOMAIN r.rollouts
  PROVE  LET up == [r EXCEPT !.rollouts[i].percent = @ + 1]
         IN  /\ up.targets = r.targets /\ DOMAIN up.rollouts = DOMAIN r.rollouts
             /\ \A j \in DOMAIN r.rollouts \ {i} : up.rollouts[j] = r.rollouts[j]
             /\ up.rollouts[i] = [r.rollouts[i] EXCEPT !.percent = @ + 1]
<1>1. /\ r \in [targets : {r.targets}, rollouts : Seq(RolloutTypes)]
      /\ r.rollouts \in Seq(RolloutTypes) /\ DOMAIN r.rollouts = 1 .. Len(r.rollouts)
  BY RuleTypes
<1> QED
  BY <1>1

\* Raising the percentage of rollout i opens at most that one more.
LEMMA RaisedOpens ==
  ASSUME BucketsTyped, NEW r \in Rules, NEW have \in Contexts, NEW i \in DOMAIN r.rollouts,
         NEW up, up = [r EXCEPT !.rollouts[i].percent = @ + 1]
  PROVE  /\ Matching(up, have) = Matching(r, have)
         /\ Open(up, have) = Open(r, have) \/ Open(up, have) = Open(r, have) \cup {i}
<1>1. /\ up.targets = r.targets /\ DOMAIN up.rollouts = DOMAIN r.rollouts
      /\ \A j \in DOMAIN r.rollouts \ {i} : up.rollouts[j] = r.rollouts[j]
      /\ up.rollouts[i] = [r.rollouts[i] EXCEPT !.percent = @ + 1]
  BY RaisedRule
<1>2. LetIn(r.rollouts[i], have) => LetIn(up.rollouts[i], have)
  BY <1>1, RuleTypes, LetInGrows
<1>3. Matching(up, have) = Matching(r, have)
  BY <1>1 DEF Matching
<1>4. \A j \in DOMAIN r.rollouts \ {i} : j \in Open(up, have) <=> j \in Open(r, have)
  BY <1>1 DEF Open
<1>5. i \in Open(r, have) => i \in Open(up, have)
  BY <1>1, <1>2 DEF Open
<1>6. Open(r, have) \subseteq DOMAIN r.rollouts /\ Open(up, have) \subseteq DOMAIN r.rollouts
  BY <1>1 DEF Open
<1> QED
  BY <1>3, <1>4, <1>5, <1>6

\* So only requests that come into it get another answer.
LEMMA RaisedMoves ==
  ASSUME BucketsTyped, NEW r \in Rules, NEW have \in Contexts, NEW i \in DOMAIN r.rollouts
  PROVE  Evaluate([r EXCEPT !.rollouts[i].percent = @ + 1], have)
           \in {Evaluate(r, have), <<"rollout", i>>}
<1> DEFINE up == [r EXCEPT !.rollouts[i].percent = @ + 1]
<1>1. /\ Matching(up, have) = Matching(r, have)
      /\ Open(up, have) = Open(r, have) \/ Open(up, have) = Open(r, have) \cup {i}
  BY RaisedOpens
<1> HIDE DEF up
<1>2. Open(r, have) \subseteq Nat /\ i \in Nat
  BY RuleTypes DEF Open
<1>3. CASE Matching(r, have) # {}
  BY <1>1, <1>3, EvaluateIs DEF up
<1>4. CASE Matching(r, have) = {} /\ Open(up, have) = Open(r, have)
  BY <1>1, <1>4, EvaluateIs DEF up
<1>5. CASE Matching(r, have) = {} /\ Open(up, have) = Open(r, have) \cup {i}
  <2>1. Evaluate(up, have) = <<"rollout", First(Open(up, have))>>
    BY <1>1, <1>5, EvaluateIs
  <2>2. CASE Open(r, have) = {}
    <3>1. \A j \in {i} : i <= j
      BY <1>2
    <3>2. First({i}) = i
      BY <1>2, <3>1, FirstUnique
    <3>3. Open(up, have) = {i}
      BY <1>5, <2>2
    <3> QED
      BY <2>1, <3>2, <3>3 DEF up
  <2>3. CASE Open(r, have) # {}
    <3>1. First(Open(up, have)) \in {First(Open(r, have)), i}
      BY <1>2, <1>5, <2>3, FirstGrows
    <3>2. Evaluate(r, have) = <<"rollout", First(Open(r, have))>>
      BY <1>5, <2>3, EvaluateIs
    <3> QED
      BY <2>1, <3>1, <3>2 DEF up
  <2> QED
    BY <2>2, <2>3
<1> QED
  BY <1>1, <1>3, <1>4, <1>5

\* Rollouts on one key part the buckets: each has those below its percentage and at or
\* above every earlier one.
LEMMA Intervals ==
  ASSUME BucketsTyped, NEW r \in Rules, NEW have \in Contexts, NEW key,
         Matching(r, have) = {}, key # Blank, key \in DOMAIN have, have[key] \in Anchors,
         \A j \in DOMAIN r.rollouts : r.rollouts[j].hashKey = key,
         NEW i \in DOMAIN r.rollouts
  PROVE  Evaluate(r, have) = <<"rollout", i>>
           <=> /\ bucketOf[have[key]] < r.rollouts[i].percent
               /\ \A j \in 1 .. i - 1 : bucketOf[have[key]] >= r.rollouts[j].percent
<1> DEFINE b == bucketOf[have[key]]
<1>1. b \in Nat
  BY Numbers
<1>2. /\ DOMAIN r.rollouts = 1 .. Len(r.rollouts) /\ Len(r.rollouts) \in Nat
      /\ \A j \in DOMAIN r.rollouts : r.rollouts[j].percent \in Int
  <2>1. /\ r.rollouts \in Seq(RolloutTypes) /\ DOMAIN r.rollouts = 1 .. Len(r.rollouts)
        /\ \A j \in DOMAIN r.rollouts : r.rollouts[j] \in RolloutTypes
    BY RuleTypes
  <2> QED
    BY <2>1 DEF RolloutTypes
<1>3. \A j \in DOMAIN r.rollouts : j \in Open(r, have) <=> b < r.rollouts[j].percent
  <2> SUFFICES ASSUME NEW j \in DOMAIN r.rollouts
               PROVE  LetIn(r.rollouts[j], have) <=> b < r.rollouts[j].percent
    BY DEF Open
  <2>1. r.rollouts[j] \in RolloutTypes /\ r.rollouts[j].hashKey = key
    BY RuleTypes
  <2>2. Reaches(r.rollouts[j], have)
    BY <2>1, Numbers DEF Reaches
  <2>3. LetIn(r.rollouts[j], have)
          <=> Reaches(r.rollouts[j], have) /\ bucketOf[have[key]] < r.rollouts[j].percent
    BY <2>1, LetInIs
  <2> QED
    BY <2>2, <2>3
<1>4. Open(r, have) \subseteq DOMAIN r.rollouts /\ Open(r, have) \subseteq Nat /\ i \in Nat
  BY <1>2 DEF Open
<1> HIDE DEF b
<1>5. ASSUME Evaluate(r, have) = <<"rollout", i>>
      PROVE  b < r.rollouts[i].percent /\ \A j \in 1 .. i - 1 : b >= r.rollouts[j].percent
  <2>1. Open(r, have) # {} /\ Evaluate(r, have) = <<"rollout", First(Open(r, have))>>
    <3>1. CASE Open(r, have) = {}
      BY <1>5, <3>1, EvaluateIs
    <3>2. CASE Open(r, have) # {}
      BY <3>2, EvaluateIs
    <3> QED
      BY <3>1, <3>2
  <2>2. First(Open(r, have)) = i
    BY <1>5, <2>1
  <2>3. i \in Open(r, have) /\ \A j \in Open(r, have) : i <= j
    BY <1>4, <2>1, <2>2, FirstIs
  <2>4. \A j \in 1 .. i - 1 : j \in DOMAIN r.rollouts /\ j \notin Open(r, have)
    BY <1>2, <2>3
  <2> QED
    BY <1>1, <1>2, <1>3, <2>3, <2>4
<1>6. ASSUME b < r.rollouts[i].percent, \A j \in 1 .. i - 1 : b >= r.rollouts[j].percent
      PROVE  Evaluate(r, have) = <<"rollout", i>>
  <2>1. i \in Open(r, have)
    BY <1>3, <1>6
  <2>2. \A j \in Open(r, have) : i <= j
    <3> SUFFICES ASSUME NEW j \in Open(r, have), j < i PROVE FALSE
      BY <1>4
    <3>1. j \in 1 .. i - 1 /\ j \in DOMAIN r.rollouts
      BY <1>2, <1>4
    <3> QED
      BY <1>1, <1>2, <1>3, <1>6, <3>1
  <2>3. First(Open(r, have)) = i
    BY <1>4, <2>1, <2>2, FirstUnique
  <2> QED
    BY <2>1, <2>3, EvaluateIs
<1> QED
  BY <1>5, <1>6 DEF b

-----------------------------------------------------------------------------
(* The theorem.                                                            *)

Inv ==
  /\ rule \in Rules /\ context \in Contexts /\ BucketsTyped
  /\ decided \in {Undecided, Missing} \/ decided = Evaluate(rule, context)

LEMMA InvInit == FeatureInit => Inv
BY DEF FeatureInit, Inv, BucketsTyped

LEMMA InvNext == Inv /\ [FeatureNext]_featureVars => Inv'
<1> SUFFICES ASSUME Inv, [FeatureNext]_featureVars PROVE Inv'
  OBVIOUS
<1>1. rule' = rule /\ context' = context /\ bucketOf' = bucketOf
      /\ (decided' \in {decided, Missing} \/ decided' = Evaluate(rule, context))
  BY DEF FeatureNext, Decide, DecideMissing, featureVars
<1>2. Evaluate(rule, context)' = Evaluate(rule, context)
  BY <1>1 DEF Evaluate, LetIn, InBucket
<1> QED
  BY <1>1, <1>2 DEF Inv, BucketsTyped

LEMMA InvImplies == Inv => RolloutShare
<1> SUFFICES ASSUME Inv, decided \notin {Undecided, Missing} PROVE RolloutShare
  BY DEF RolloutShare
<1>1. rule \in Rules /\ context \in Contexts /\ BucketsTyped /\ decided = Evaluate(rule, context)
  BY DEF Inv
<1>2. \A i \in DOMAIN rule.rollouts :
        Evaluate([rule EXCEPT !.rollouts[i].percent = @ + 1], context)
          \in {decided, <<"rollout", i>>}
  BY <1>1, RaisedMoves
<1> DEFINE key == rule.rollouts[1].hashKey
           bucket == bucketOf[context[key]]
           percent == [i \in DOMAIN rule.rollouts |-> rule.rollouts[i].percent]
<1>3. ASSUME decided[1] # "target", rule.rollouts # <<>>,
             \A i \in DOMAIN rule.rollouts : rule.rollouts[i].hashKey = key,
             key # Blank, key \in DOMAIN context, context[key] \in DOMAIN bucketOf,
             NEW i \in DOMAIN percent
      PROVE  decided = <<"rollout", i>>
               <=> (bucket < percent[i] /\ \A j \in 1 .. i - 1 : bucket >= percent[j])
  <2>1. Matching(rule, context) = {}
    BY <1>1, <1>3, EvaluateIs
  <2>2. context[key] \in Anchors /\ i \in DOMAIN rule.rollouts
    BY <1>1, <1>3 DEF BucketsTyped
  <2> HIDE DEF key
  <2>3. decided = <<"rollout", i>>
          <=> /\ bucketOf[context[key]] < rule.rollouts[i].percent
              /\ \A j \in 1 .. i - 1 : bucketOf[context[key]] >= rule.rollouts[j].percent
    BY <1>1, <1>3, <2>1, <2>2, Intervals
  <2>4. \A j \in 1 .. i - 1 : j \in DOMAIN rule.rollouts
    BY <1>1, <2>2, RuleTypes
  <2> QED
    BY <2>2, <2>3, <2>4
<1> QED
  BY <1>2, <1>3 DEF RolloutShare

\* For all rules, contexts and spreads of the hash: rollouts on one key part the buckets
\* into intervals, and raising one percentage only moves requests into that rollout.
THEOREM RolloutsShareBuckets == FeatureSpec => []RolloutShare
<1>1. FeatureSpec => []Inv
  BY InvInit, InvNext, PTL DEF FeatureSpec
<1> QED
  BY <1>1, InvImplies, PTL
=============================================================================
