---------------------------- MODULE SnapshotStore ----------------------------
(***************************************************************************)
(* Publication of snapshots (commit.go, history.go, subscribe.go): the     *)
(* atomic state pointer, the history ring, rollback and the subscribers.   *)
(* The writer is one goroutine (module ReloadQueue); readers, subscribers  *)
(* and rollback callers run concurrently with every step of a publication. *)
(***************************************************************************)
EXTENDS Integers, Sequences

CONSTANTS Values,      \* configuration values
          HistoryCap,  \* WithHistory, 0 when disabled
          NSubs,       \* subscribers, numbered by subscriberSeq
          Rollbacks,   \* calls of History.Rollback
          MaxGen       \* bound on the generations

ASSUME StoreAssumption == /\ HistoryCap \in Nat /\ NSubs \in Nat
                          /\ MaxGen \in Nat \ {0}

Subs == 1 .. NSubs

VARIABLES
  gen,      \* the generation counter
  log,      \* generation -> value of the immutable State created with it
  state,    \* the generation the state pointer points to
  prev,     \* the writer's local: the generation being replaced
  wpc,      \* where the writer stands in publishSnapshot
  items,    \* ring.items: 0 .. HistoryCap - 1 -> generation, 0 is nil
  head, size,
  subs,     \* m.subscribers: the registered subscribers
  subpc,    \* Subs -> "new", "registered", "reading", "canceled", "panicked"
  view,     \* Subs -> the last value the subscriber knows, "none" at first
  left,     \* Subs -> the generation that was live when it canceled
  round,    \* the subscribers still to call for this publication
  rbpc,     \* Rollbacks -> where History.Rollback stands
  target    \* Rollbacks -> the generation it names

ringVars == <<items, head, size>>
subVars == <<subs, subpc, view, left>>
rbVars == <<rbpc, target>>
vars == <<gen, log, state, prev, wpc, ringVars, subVars, round, rbVars>>

-----------------------------------------------------------------------------
(* The ring.                                                               *)

\* Mistake: a push into a full ring leaves the head where it is.
PushForgettingHead(g) ==
  IF HistoryCap = 0 THEN UNCHANGED ringVars
  ELSE /\ items' = [items EXCEPT ![(head + size) % HistoryCap] = g]
       /\ size' = IF size < HistoryCap THEN size + 1 ELSE size
       /\ UNCHANGED head

\* Mistake: the bound lets the size grow past the capacity.
PushOffByOne(g) ==
  IF HistoryCap = 0 THEN UNCHANGED ringVars
  ELSE /\ items' = [items EXCEPT ![(head + size) % HistoryCap] = g]
       /\ IF size <= HistoryCap
            THEN size' = size + 1 /\ UNCHANGED head
            ELSE head' = (head + 1) % HistoryCap /\ UNCHANGED size

\* Push at the tail; a full ring loses its oldest element.  A disabled history
\* is a nil ring.
Push(g) ==
  IF HistoryCap = 0 THEN UNCHANGED ringVars
  ELSE /\ items' = [items EXCEPT ![(head + size) % HistoryCap] = g]
       /\ IF size < HistoryCap
            THEN size' = size + 1 /\ UNCHANGED head
            ELSE head' = (head + 1) % HistoryCap /\ UNCHANGED size

\* ring.Snapshot: the live items, oldest first.
RingList == [i \in 1 .. size |-> items[(head + i - 1) % HistoryCap]]

\* ring.Find looks a generation up.
Found(g) == \E i \in 1 .. size : RingList[i] = g

-----------------------------------------------------------------------------

\* New has published the first generation.
Init ==
  /\ gen = 1 /\ state = 1 /\ prev = 0 /\ wpc = "idle"
  /\ \E v \in Values : log = <<v>>
  /\ items = [i \in 0 .. HistoryCap - 1 |-> 0] /\ head = 0 /\ size = 0
  /\ subs = {} /\ subpc = [s \in Subs |-> "new"]
  /\ view = [s \in Subs |-> "none"] /\ left = [s \in Subs |-> 0]
  /\ round = {}
  /\ rbpc = [r \in Rollbacks |-> "idle"] /\ target = [r \in Rollbacks |-> 0]

(* The writer.                                                             *)

\* The writer stamps the next generation on a State with value v.
Stamp(v) ==
  /\ prev' = state
  /\ gen' = gen + 1
  /\ log' = Append(log, v)
  /\ wpc' = "store"

\* commit: an equal hash publishes nothing.
Commit(v) ==
  /\ wpc = "idle" /\ gen < MaxGen
  /\ v # log[state]
  /\ Stamp(v)
  /\ UNCHANGED <<state, ringVars, subVars, round, rbVars>>

\* applyRollback: the target's value again, whatever is retained by now.
ApplyRollback(r) ==
  /\ wpc = "idle" /\ gen < MaxGen
  /\ rbpc[r] = "queued"
  /\ Stamp(log[target[r]])
  /\ rbpc' = [rbpc EXCEPT ![r] = "applied"]
  /\ UNCHANGED <<state, ringVars, subVars, round, target>>

\* publishSnapshot swaps the pointer first.
StoreState ==
  /\ wpc = "store" /\ wpc' = "push"
  /\ state' = gen
  /\ UNCHANGED <<gen, log, prev, ringVars, subVars, round, rbVars>>

\* Mistake: the subscribers are told before the history is written.
PushPrevLate ==
  /\ wpc = "push" /\ wpc' = "copy"
  /\ UNCHANGED <<gen, log, state, prev, ringVars, subVars, round, rbVars>>

\* Mistake: the new snapshot is retained instead of the replaced one.
PushPrevNext ==
  /\ wpc = "push" /\ wpc' = "copy"
  /\ Push(gen)
  /\ UNCHANGED <<gen, log, state, prev, subVars, round, rbVars>>

\* Then it retains the replaced snapshot, under historyMu.
PushPrev ==
  /\ wpc = "push" /\ wpc' = "copy"
  /\ Push(prev)
  /\ UNCHANGED <<gen, log, state, prev, subVars, round, rbVars>>

\* Mistake: everybody who ever subscribed is in the round.
CopySubscribersStale ==
  /\ wpc = "copy" /\ wpc' = "notify"
  /\ round' = {s \in Subs : subpc[s] # "new"}
  /\ UNCHANGED <<gen, log, state, prev, ringVars, subVars, rbVars>>

\* notifySubscribers copies the subscribers under the lock.
CopySubscribers ==
  /\ wpc = "copy" /\ wpc' = "notify"
  /\ round' = subs
  /\ UNCHANGED <<gen, log, state, prev, ringVars, subVars, rbVars>>

\* Mistake: without recover, the panic of one subscriber ends the round.
NextSubscriberUnrecovered(s, panicked) ==
  round' = IF panicked THEN {} ELSE round \ {s}

\* The round goes on after a subscriber returned or panicked.
NextSubscriber(s, panicked) == round' = round \ {s}

\* A subscriber returns.  Its callback is skipped when the extracted values are
\* equal.
Deliver(s) ==
  /\ view' = IF log[prev] = log[gen] THEN view
                                     ELSE [view EXCEPT ![s] = log[gen]]
  /\ NextSubscriber(s, FALSE)
  /\ UNCHANGED subpc

\* A subscriber panics, which is recovered.
Recover(s) ==
  /\ subpc' = [subpc EXCEPT ![s] = IF @ = "canceled" THEN @ ELSE "panicked"]
  /\ NextSubscriber(s, TRUE)
  /\ UNCHANGED view

\* They are called without the lock, in the order of their ids.
CallSubscriber ==
  /\ wpc = "notify"
  /\ \E s \in round : /\ \A t \in round : s <= t
                      /\ Deliver(s) \/ Recover(s)
  /\ UNCHANGED <<gen, log, state, prev, wpc, ringVars, subs, left, rbVars>>

EndNotify ==
  /\ wpc = "notify" /\ round = {} /\ wpc' = "idle"
  /\ UNCHANGED <<gen, log, state, prev, ringVars, subVars, round, rbVars>>

-----------------------------------------------------------------------------
(* Concurrent callers.                                                     *)

Subscribe(s) ==
  /\ subpc[s] = "new"
  /\ subs' = subs \cup {s}
  /\ subpc' = [subpc EXCEPT ![s] = "registered"]
  /\ UNCHANGED <<gen, log, state, prev, wpc, ringVars, view, left, round, rbVars>>

\* "Read mgr.Get() to initialize application state", after subscribing.
ReadInitial(s) ==
  /\ subpc[s] = "registered"
  /\ view' = [view EXCEPT ![s] = log[state]]
  /\ subpc' = [subpc EXCEPT ![s] = "reading"]
  /\ UNCHANGED <<gen, log, state, prev, wpc, ringVars, subs, left, round, rbVars>>

CancelSubscription(s) ==
  /\ s \in subs
  /\ subs' = subs \ {s}
  /\ subpc' = [subpc EXCEPT ![s] = "canceled"]
  /\ left' = [left EXCEPT ![s] = state]
  /\ UNCHANGED <<gen, log, state, prev, wpc, ringVars, view, round, rbVars>>

\* The caller picks its target from History.List.
ListHistory(r) ==
  /\ rbpc[r] = "idle"
  /\ \E i \in 1 .. size : target' = [target EXCEPT ![r] = RingList[i]]
  /\ rbpc' = [rbpc EXCEPT ![r] = "listed"]
  /\ UNCHANGED <<gen, log, state, prev, wpc, ringVars, subVars, round>>

\* Rollback looks it up again and queues, or refuses.
RequestRollback(r) ==
  /\ rbpc[r] = "listed"
  /\ rbpc' = [rbpc EXCEPT ![r] = IF Found(target[r]) THEN "queued"
                                                     ELSE "refused"]
  /\ UNCHANGED <<gen, log, state, prev, wpc, ringVars, subVars, round, target>>

-----------------------------------------------------------------------------

Publishing == \/ StoreState \/ PushPrev \/ CopySubscribers \/ CallSubscriber
              \/ EndNotify

\* The bound is reached and everybody is done.
Finished ==
  /\ gen = MaxGen /\ wpc = "idle"
  /\ UNCHANGED vars

Next ==
  \/ \E v \in Values : Commit(v)
  \/ \E r \in Rollbacks : ListHistory(r) \/ RequestRollback(r) \/ ApplyRollback(r)
  \/ \E s \in Subs : Subscribe(s) \/ ReadInitial(s) \/ CancelSubscription(s)
  \/ Publishing \/ Finished

Spec == Init /\ [][Next]_vars

\* The writer finishes the publication it has begun.
FairSpec == Spec /\ WF_vars(Publishing)

-----------------------------------------------------------------------------
(* What the code promises.                                                 *)

TypeWriter ==
  /\ gen \in Nat \ {0} /\ log \in Seq(Values) /\ Len(log) = gen
  /\ state \in 1 .. gen /\ prev \in 0 .. gen
  /\ wpc \in {"idle", "store", "push", "copy", "notify"}

TypeRing ==
  /\ items \in [0 .. HistoryCap - 1 -> Nat]
  /\ head \in Nat /\ size \in 0 .. HistoryCap
  /\ HistoryCap > 0 => head < HistoryCap

TypeSubs ==
  /\ subs \subseteq Subs /\ left \in [Subs -> Nat]
  /\ subpc \in [Subs -> {"new", "registered", "reading", "canceled", "panicked"}]
  /\ view \in [Subs -> Values \cup {"none"}]
  /\ round \subseteq Subs

TypeRollbacks ==
  /\ rbpc \in [Rollbacks -> {"idle", "listed", "queued", "refused", "applied"}]
  /\ target \in [Rollbacks -> 0 .. gen]

\* Every variable has its type; the indices stay inside the ring.
TypeOK == TypeWriter /\ TypeRing /\ TypeSubs /\ TypeRollbacks

\* The newest generation the ring has, or is about to have, seen.
Top == CASE wpc = "store" -> gen - 2
         [] wpc = "push"  -> gen - 2
         [] OTHER         -> gen - 1

\* The ring holds exactly the HistoryCap generations that precede the live one,
\* oldest first and without a hole, however often it has wrapped around.
RetainedWindow ==
  /\ size = IF Top < HistoryCap THEN Top ELSE HistoryCap
  /\ \A i \in 1 .. size : RingList[i] = Top - size + i

\* While subscribers are called with (prev, next), the state pointer already
\* shows next and prev is the newest snapshot the history lists.
CallbackContext ==
  wpc \in {"copy", "notify"} =>
    /\ state = gen /\ prev = gen - 1
    /\ HistoryCap > 0 => size > 0 /\ RingList[size] = prev

\* An application that subscribes, then reads Get and then follows the callbacks
\* misses nothing: between publications it knows the live value, whatever other
\* subscribers do.
NoMissedUpdate ==
  wpc = "idle" => \A s \in subs : subpc[s] = "reading" => view[s] = log[state]

\* A subscriber that canceled is called only for a publication that was visible
\* before it canceled.
CanceledQuiet ==
  wpc = "notify" => \A s \in round : subpc[s] = "canceled" => left[s] = gen

\* Whoever follows the callbacks learns the live value in the end: a follower
\* that is behind catches up unless it cancels or panics itself, also when the
\* subscriber called before it in the round panics and when others join, cancel
\* or roll back meanwhile.
FollowersLearn ==
  \A s \in Subs : (subpc[s] = "reading" /\ view[s] # log[state])
                    ~> (subpc[s] # "reading" \/ view[s] = log[state])

\* The ring, the counter and the pointer implement the append-only log with a
\* sliding window.  A generation joins the log when the pointer is swapped.
Abstract == INSTANCE VersionedStore
              WITH log <- SubSeq(log, 1, state), retained <- RingList

Refines == Abstract!VSSpec
=============================================================================
