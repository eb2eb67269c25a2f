------------------------- MODULE SnapshotStoreProofs -------------------------
(***************************************************************************)
(* Proofs about SnapshotStore, for any capacity of the history and any     *)
(* numbers of subscribers, rollbacks and generations.                      *)
(***************************************************************************)
EXTENDS SnapshotStore, TLAPS

\* Where the writer stands fixes the relation of counter, pointer and prev.
Place ==
  /\ wpc = "store" => state = gen - 1
  /\ wpc # "store" => state = gen
  /\ wpc # "idle"  => prev = gen - 1 /\ gen > 1

\* Every rollback that has listed the history names a generation that exists.
TargetsExist == \A r \in Rollbacks : rbpc[r] # "idle" => target[r] \in 1 .. gen

Inv == TypeOK /\ Place /\ TargetsExist /\ RetainedWindow

-----------------------------------------------------------------------------
(* The ring.                                                               *)

\* The place of an index that has passed the end of the ring at most once.
Wrapped(k) == IF k < HistoryCap THEN k ELSE k - HistoryCap

\* The remainder of an index that has passed the end of the ring at most once.
LEMMA Wrap ==
  ASSUME NEW c \in Nat \ {0}, NEW k \in 0 .. 2 * c - 1
  PROVE  k % c = IF k < c THEN k ELSE k - c
  OBVIOUS

\* What the ring lists, without the remainder.
LEMMA RingListed ==
  ASSUME TypeRing, HistoryCap \in Nat
  PROVE  \A i \in 1 .. size : RingList[i] = items[Wrapped(head + i - 1)]
<1> SUFFICES ASSUME NEW i \in 1 .. size
             PROVE  RingList[i] = items[Wrapped(head + i - 1)]
  OBVIOUS
<1>1. HistoryCap \in Nat \ {0} /\ head + i - 1 \in 0 .. 2 * HistoryCap - 1
  BY DEF TypeRing
<1>2. (head + i - 1) % HistoryCap = Wrapped(head + i - 1)
  <2> DEFINE k == head + i - 1
  <2> HIDE DEF k
  <2>1. k % HistoryCap = IF k < HistoryCap THEN k ELSE k - HistoryCap
    BY <1>1, Wrap DEF k
  <2> QED  BY <2>1 DEF Wrapped, k
<1> QED
  BY <1>2 DEF RingList

\* Push keeps the ring well formed; the list grows at its end and, once the
\* ring is full, loses its first element.
LEMMA PushLists ==
  ASSUME TypeRing, HistoryCap \in Nat \ {0}, NEW g \in Nat, Push(g)
  PROVE  /\ TypeRing'
         /\ size' = IF size < HistoryCap THEN size + 1 ELSE size
         /\ RingList'[size'] = g
         /\ \A i \in 1 .. size' - 1 :
              RingList'[i] = RingList[IF size < HistoryCap THEN i ELSE i + 1]
<1> USE DEF Wrapped
<1>0. /\ HistoryCap \in Nat /\ head \in 0 .. HistoryCap - 1
      /\ size \in 0 .. HistoryCap /\ items \in [0 .. HistoryCap - 1 -> Nat]
  BY DEF TypeRing
<1>1. (head + size) % HistoryCap = Wrapped(head + size)
  <2>1. head + size \in 0 .. 2 * HistoryCap - 1
    BY <1>0
  <2> QED  BY <2>1, Wrap
<1>2. (head + 1) % HistoryCap = Wrapped(head + 1)
  <2>1. head + 1 \in 0 .. 2 * HistoryCap - 1
    BY <1>0
  <2> QED  BY <2>1, Wrap
<1>3. items' = [items EXCEPT ![Wrapped(head + size)] = g]
  BY <1>1 DEF Push
<1>4. \A i \in 1 .. size : RingList[i] = items[Wrapped(head + i - 1)]
  <2> HIDE DEF Wrapped
  <2> QED  BY <1>0, RingListed
<1>5. CASE size < HistoryCap
  <2>1. size' = size + 1 /\ head' = head
    BY <1>5 DEF Push
  <2>2. TypeRing'
    BY <1>0, <1>3, <1>5, <2>1 DEF TypeRing
  <2>3. \A i \in 1 .. size' : RingList'[i] = items'[Wrapped(head + i - 1)]
    <3> SUFFICES ASSUME NEW i \in 1 .. size'
                 PROVE  RingList'[i] = items'[Wrapped(head + i - 1)]
      OBVIOUS
    <3>1. head + i - 1 \in 0 .. 2 * HistoryCap - 1
      BY <1>0, <2>1, <1>5
    <3>2. (head + i - 1) % HistoryCap = Wrapped(head + i - 1)
      BY <3>1, Wrap
    <3> QED  BY <3>2, <2>1 DEF RingList
  <2>4. Wrapped(head + size) \in 0 .. HistoryCap - 1
    BY <1>0, <1>5
  <2>5. RingList'[size'] = g
    BY <2>1, <2>3, <2>4, <1>3, <1>0
  <2>6. ASSUME NEW i \in 1 .. size' - 1 PROVE RingList'[i] = RingList[i]
    <3>1. Wrapped(head + i - 1) # Wrapped(head + size)
      BY <1>0, <1>5, <2>1
    <3>2. Wrapped(head + i - 1) \in 0 .. HistoryCap - 1
      BY <1>0, <1>5, <2>1
    <3> HIDE DEF Wrapped
    <3> QED  BY <3>1, <3>2, <2>1, <2>3, <1>3, <1>4, <1>0
  <2> QED
    BY <1>5, <2>1, <2>2, <2>5, <2>6
<1>6. CASE ~(size < HistoryCap)
  <2>1. size' = size /\ head' = Wrapped(head + 1) /\ size = HistoryCap
    BY <1>0, <1>2, <1>6 DEF Push
  <2>2. TypeRing'
    BY <1>0, <1>3, <2>1 DEF TypeRing
  <2>3. \A i \in 1 .. size' : RingList'[i] = items'[Wrapped(head + i)]
    <3> SUFFICES ASSUME NEW i \in 1 .. size'
                 PROVE  RingList'[i] = items'[Wrapped(head + i)]
      OBVIOUS
    <3>1. head' + i - 1 \in 0 .. 2 * HistoryCap - 1
      BY <1>0, <2>1
    <3>2. (head' + i - 1) % HistoryCap = Wrapped(head' + i - 1)
      BY <3>1, Wrap
    <3>3. Wrapped(head' + i - 1) = Wrapped(head + i)
      BY <1>0, <2>1
    <3> QED  BY <3>2, <3>3 DEF RingList
  <2>4. Wrapped(head + size) = head
    BY <1>0, <2>1
  <2>5. RingList'[size'] = g
    BY <2>1, <2>3, <2>4, <1>3, <1>0
  <2>6. ASSUME NEW i \in 1 .. size' - 1 PROVE RingList'[i] = RingList[i + 1]
    <3>1. Wrapped(head + i) # head /\ Wrapped(head + i) \in 0 .. HistoryCap - 1
      BY <1>0, <2>1
    <3>2. RingList[i + 1] = items[Wrapped(head + i)]
      <4>1. i + 1 \in 1 .. size /\ head + (i + 1) - 1 = head + i
        BY <1>0, <2>1
      <4> HIDE DEF Wrapped
      <4> QED  BY <4>1, <1>4
    <3> HIDE DEF Wrapped
    <3> QED  BY <3>1, <3>2, <2>1, <2>3, <2>4, <1>3, <1>0
  <2> QED
    BY <1>6, <2>1, <2>2, <2>5, <2>6
<1> QED
  BY <1>5, <1>6

-----------------------------------------------------------------------------
(* The invariant.                                                          *)

\* A step that leaves the writer's position, the counter and the ring alone
\* leaves the window and the position's facts alone.
LEMMA WriterFrame ==
  ASSUME UNCHANGED <<gen, state, prev, wpc, ringVars>>
  PROVE  /\ Place => Place'
         /\ RetainedWindow => RetainedWindow'
         /\ TypeRing => TypeRing'
         /\ RingList' = RingList
  BY DEF Place, RetainedWindow, TypeRing, RingList, Top, ringVars

\* The ring lists generations that exist.
LEMMA ListedExist ==
  ASSUME Inv PROVE \A i \in 1 .. size : RingList[i] \in 1 .. gen
<1>1. size \in Nat /\ gen \in Nat
  BY DEF Inv, TypeOK, TypeRing, TypeWriter
<1>2. Top \in Int /\ size <= Top /\ Top < gen
  <2>1. wpc \in {"idle", "store", "push", "copy", "notify"} /\ HistoryCap \in Nat
        /\ gen > 0 /\ (wpc # "idle" => gen > 1)
    BY StoreAssumption DEF Inv, Place, TypeOK, TypeWriter
  <2>2. Top \in Int /\ Top >= 0 /\ Top < gen
    BY <1>1, <2>1 DEF Top
  <2> QED  BY <2>1, <2>2 DEF Inv, RetainedWindow
<1>3. \A i \in 1 .. size : RingList[i] = Top - size + i
  BY DEF Inv, RetainedWindow
<1> HIDE DEF Top
<1> QED
  BY <1>1, <1>2, <1>3

\* Stamp extends the log by the next generation.
LEMMA StampKeeps ==
  ASSUME Inv, NEW v \in Values, wpc = "idle", Stamp(v),
         UNCHANGED <<state, ringVars>>
  PROVE  TypeWriter' /\ TypeRing' /\ Place' /\ RetainedWindow' /\ gen' = gen + 1
<1> USE DEF Inv, Stamp
<1>1. TypeWriter'  BY DEF TypeOK, TypeWriter
<1>2. TypeRing'  BY DEF TypeOK, TypeRing, ringVars
<1>3. Place'  BY DEF Place, TypeOK, TypeWriter
<1>4. RetainedWindow'
  <2>1. Top' = Top
    BY DEF Top, TypeOK, TypeWriter
  <2>2. RingList' = RingList /\ size' = size
    BY DEF RingList, ringVars
  <2> HIDE DEF Top
  <2> QED  BY <2>1, <2>2 DEF RetainedWindow
<1> QED  BY <1>1, <1>2, <1>3, <1>4

\* Inv is an inductive invariant.
LEMMA InvStep == Inv /\ [Next]_vars => Inv'
<1> SUFFICES ASSUME Inv, [Next]_vars PROVE Inv'
  OBVIOUS
<1>0. /\ TypeWriter /\ TypeRing /\ TypeSubs /\ TypeRollbacks
      /\ Place /\ TargetsExist /\ RetainedWindow
  BY DEF Inv, TypeOK
<1> USE DEF subVars, rbVars
<1>1. ASSUME NEW v \in Values, Commit(v) PROVE Inv'
  <2> USE <1>1 DEF Commit
  <2>1. TypeWriter' /\ TypeRing' /\ Place' /\ RetainedWindow' /\ gen' = gen + 1
    BY StampKeeps
  <2>2. TypeSubs'  BY <1>0 DEF TypeSubs
  <2>3. TypeRollbacks'  BY <1>0, <2>1 DEF TypeRollbacks, TypeWriter
  <2>4. TargetsExist'  BY <1>0, <2>1 DEF TargetsExist, TypeWriter
  <2> QED  BY <2>1, <2>2, <2>3, <2>4 DEF Inv, TypeOK
<1>2. ASSUME NEW r \in Rollbacks, ApplyRollback(r) PROVE Inv'
  <2> USE <1>2 DEF ApplyRollback
  <2>0. log[target[r]] \in Values
    BY <1>0 DEF TargetsExist, TypeWriter
  <2>1. TypeWriter' /\ TypeRing' /\ Place' /\ RetainedWindow' /\ gen' = gen + 1
    BY <2>0, StampKeeps
  <2>2. TypeSubs'  BY <1>0 DEF TypeSubs
  <2>3. TypeRollbacks'  BY <1>0, <2>1 DEF TypeRollbacks, TypeWriter
  <2>4. TargetsExist'  BY <1>0, <2>1 DEF TargetsExist, TypeWriter, TypeRollbacks
  <2> QED  BY <2>1, <2>2, <2>3, <2>4 DEF Inv, TypeOK
<1>3. CASE StoreState
  <2> USE <1>3 DEF StoreState
  <2>1. TypeWriter'  BY <1>0 DEF TypeWriter
  <2>2. TypeRing'  BY <1>0 DEF TypeRing, ringVars
  <2>3. TypeSubs'  BY <1>0 DEF TypeSubs
  <2>4. TypeRollbacks'  BY <1>0 DEF TypeRollbacks
  <2>5. Place'  BY <1>0 DEF Place
  <2>6. TargetsExist'  BY <1>0 DEF TargetsExist
  <2>7. RetainedWindow'
    <3>1. Top' = Top  BY DEF Top
    <3>2. RingList' = RingList /\ size' = size  BY DEF RingList, ringVars
    <3> QED  BY <1>0, <3>1, <3>2 DEF RetainedWindow
  <2> QED  BY <2>1, <2>2, <2>3, <2>4, <2>5, <2>6, <2>7 DEF Inv, TypeOK
<1>4. CASE PushPrev
  <2> USE <1>4 DEF PushPrev
  <2>1. TypeWriter'  BY <1>0 DEF TypeWriter
  <2>2. TypeSubs'  BY <1>0 DEF TypeSubs
  <2>3. TypeRollbacks'  BY <1>0 DEF TypeRollbacks
  <2>4. Place'  BY <1>0 DEF Place
  <2>5. TargetsExist'  BY <1>0 DEF TargetsExist
  <2>6. Top = gen - 2 /\ Top' = gen - 1 /\ prev = gen - 1 /\ gen \in Nat /\ gen > 1
    BY <1>0 DEF Top, Place, TypeWriter
  <2>7. CASE HistoryCap = 0
    <3>1. UNCHANGED ringVars  BY <2>7 DEF Push
    <3>2. TypeRing'  BY <1>0, <3>1 DEF TypeRing, ringVars
    <3>3. size = 0 /\ size' = 0  BY <1>0, <3>1, <2>7 DEF TypeRing, ringVars
    <3>4. RetainedWindow'  BY <3>3, <2>6, <2>7 DEF RetainedWindow
    <3> QED  BY <2>1, <2>2, <2>3, <2>4, <2>5, <3>2, <3>4 DEF Inv, TypeOK
  <2>8. CASE HistoryCap # 0
    <3>0. HistoryCap \in Nat \ {0} /\ prev \in Nat
      BY <2>8, <2>6, StoreAssumption
    <3>1. /\ TypeRing'
          /\ size' = IF size < HistoryCap THEN size + 1 ELSE size
          /\ RingList'[size'] = prev
          /\ \A i \in 1 .. size' - 1 :
               RingList'[i] = RingList[IF size < HistoryCap THEN i ELSE i + 1]
      BY <1>0, <3>0, PushLists
    <3>2. /\ size = IF gen - 2 < HistoryCap THEN gen - 2 ELSE HistoryCap
          /\ \A i \in 1 .. size : RingList[i] = gen - 2 - size + i
      BY <1>0, <2>6 DEF RetainedWindow
    <3>3. size' = IF gen - 1 < HistoryCap THEN gen - 1 ELSE HistoryCap
      BY <3>0, <3>1, <3>2, <2>6
    <3>4. ASSUME NEW i \in 1 .. size' PROVE RingList'[i] = gen - 1 - size' + i
      <4>1. CASE i = size'
        BY <4>1, <3>1, <2>6, <3>0, <3>3
      <4>2. CASE i # size' /\ size < HistoryCap
        <5>1. i \in 1 .. size /\ i \in 1 .. size' - 1 /\ size' = size + 1
          BY <4>2, <3>1, <3>0, <3>2, <2>6
        <5>2. RingList'[i] = RingList[i]
          BY <5>1, <4>2, <3>1
        <5>3. RingList[i] = gen - 2 - size + i
          BY <5>1, <3>2
        <5> QED  BY <5>1, <5>2, <5>3, <2>6, <3>2, <3>0
      <4>3. CASE i # size' /\ ~(size < HistoryCap)
        <5>1. i + 1 \in 1 .. size /\ i \in 1 .. size' - 1 /\ size' = size
          BY <4>3, <3>1, <3>0, <3>2, <2>6
        <5>2. RingList'[i] = RingList[i + 1]
          BY <5>1, <4>3, <3>1
        <5>3. RingList[i + 1] = gen - 2 - size + (i + 1)
          BY <5>1, <3>2
        <5> QED  BY <5>1, <5>2, <5>3, <2>6, <3>2, <3>0
      <4> QED  BY <4>1, <4>2, <4>3
    <3>5. RetainedWindow'  BY <3>3, <3>4, <2>6 DEF RetainedWindow
    <3> QED  BY <2>1, <2>2, <2>3, <2>4, <2>5, <3>1, <3>5 DEF Inv, TypeOK
  <2> QED  BY <2>7, <2>8
<1>5. ASSUME CopySubscribers \/ CallSubscriber \/ EndNotify PROVE Inv'
  <2>1. UNCHANGED <<gen, log, state, prev, ringVars, rbVars>>
    BY <1>5 DEF CopySubscribers, CallSubscriber, EndNotify
  <2>2. wpc \in {"copy", "notify"} /\ wpc' \in {"notify", "idle"}
    BY <1>5 DEF CopySubscribers, CallSubscriber, EndNotify
  <2>3. TypeWriter'  BY <1>0, <2>1, <2>2 DEF TypeWriter
  <2>4. TypeRing'  BY <1>0, <2>1 DEF TypeRing, ringVars
  <2>5. TypeRollbacks'  BY <1>0, <2>1 DEF TypeRollbacks
  <2>6. TargetsExist'  BY <1>0, <2>1 DEF TargetsExist
  <2>7. Place'  BY <1>0, <2>1, <2>2 DEF Place
  <2>8. RetainedWindow'
    <3>1. Top' = Top  BY <2>1, <2>2 DEF Top
    <3>2. RingList' = RingList /\ size' = size  BY <2>1 DEF RingList, ringVars
    <3> QED  BY <1>0, <3>1, <3>2 DEF RetainedWindow
  <2>9. TypeSubs'
    <3>1. CASE CopySubscribers  BY <1>0, <3>1 DEF CopySubscribers, TypeSubs
    <3>2. CASE CallSubscriber
      <4>1. PICK s \in round : Deliver(s) \/ Recover(s)
        BY <3>2 DEF CallSubscriber
      <4>2. UNCHANGED <<subs, left>>
        BY <3>2 DEF CallSubscriber
      <4>3. CASE Deliver(s)
        <5>1. log[gen] \in Values /\ s \in Subs
          BY <1>0 DEF TypeWriter, TypeSubs
        <5> QED
          BY <1>0, <4>2, <4>3, <5>1 DEF Deliver, NextSubscriber, TypeSubs
      <4>4. CASE Recover(s)
        BY <1>0, <4>2, <4>4 DEF Recover, NextSubscriber, TypeSubs
      <4> QED  BY <4>1, <4>3, <4>4
    <3>3. CASE EndNotify  BY <1>0, <3>3 DEF EndNotify, TypeSubs
    <3> QED  BY <1>5, <3>1, <3>2, <3>3
  <2> QED  BY <2>3, <2>4, <2>5, <2>6, <2>7, <2>8, <2>9 DEF Inv, TypeOK
<1>6. ASSUME NEW s \in Subs, Subscribe(s) \/ ReadInitial(s) \/ CancelSubscription(s)
      PROVE  Inv'
  <2>1. UNCHANGED <<gen, log, state, prev, wpc, ringVars, rbVars>>
    BY <1>6 DEF Subscribe, ReadInitial, CancelSubscription
  <2>2. Place' /\ RetainedWindow' /\ TypeRing'
    BY <1>0, <2>1, WriterFrame
  <2>3. TypeWriter' /\ TypeRollbacks' /\ TargetsExist'
    BY <1>0, <2>1 DEF TypeWriter, TypeRollbacks, TargetsExist
  <2>4. log[state] \in Values /\ state \in Nat
    BY <1>0 DEF TypeWriter
  <2>5. TypeSubs'
    <3>1. CASE Subscribe(s)  BY <1>0, <3>1 DEF Subscribe, TypeSubs
    <3>2. CASE ReadInitial(s)  BY <1>0, <2>4, <3>2 DEF ReadInitial, TypeSubs
    <3>3. CASE CancelSubscription(s)
      BY <1>0, <2>4, <3>3 DEF CancelSubscription, TypeSubs
    <3> QED  BY <1>6, <3>1, <3>2, <3>3
  <2> QED  BY <2>2, <2>3, <2>5 DEF Inv, TypeOK
<1>7. ASSUME NEW r \in Rollbacks, ListHistory(r) \/ RequestRollback(r) PROVE Inv'
  <2>1. UNCHANGED <<gen, log, state, prev, wpc, ringVars, subVars, round>>
    BY <1>7 DEF ListHistory, RequestRollback
  <2>2. Place' /\ RetainedWindow' /\ TypeRing'
    BY <1>0, <2>1, WriterFrame
  <2>3. TypeWriter' /\ TypeSubs'
    BY <1>0, <2>1 DEF TypeWriter, TypeSubs
  <2>4. TypeRollbacks' /\ TargetsExist'
    <3>1. CASE ListHistory(r)
      <4>1. PICK i \in 1 .. size : target' = [target EXCEPT ![r] = RingList[i]]
        BY <3>1 DEF ListHistory
      <4>2. RingList[i] \in 1 .. gen
        BY ListedExist
      <4>3. rbpc' = [rbpc EXCEPT ![r] = "listed"] /\ gen' = gen
        BY <3>1 DEF ListHistory
      <4>4. gen \in Nat
        BY <1>0 DEF TypeWriter
      <4> QED  BY <1>0, <4>1, <4>2, <4>3, <4>4 DEF TypeRollbacks, TargetsExist
    <3>2. CASE RequestRollback(r)
      BY <1>0, <3>2 DEF RequestRollback, TypeRollbacks, TargetsExist
    <3> QED  BY <1>7, <3>1, <3>2
  <2> QED  BY <2>2, <2>3, <2>4 DEF Inv, TypeOK
<1>8. CASE UNCHANGED vars
  <2>1. UNCHANGED <<gen, state, prev, wpc, ringVars>>
    BY <1>8 DEF vars
  <2>2. Place' /\ RetainedWindow' /\ TypeRing'
    BY <1>0, <2>1, WriterFrame
  <2>3. TypeWriter' /\ TypeSubs' /\ TypeRollbacks' /\ TargetsExist'
    BY <1>0, <1>8 DEF vars, TypeWriter, TypeSubs, TypeRollbacks, TargetsExist
  <2> QED  BY <2>2, <2>3 DEF Inv, TypeOK
<1> QED
  BY <1>1, <1>2, <1>3, <1>4, <1>5, <1>6, <1>7, <1>8
  DEF Next, Publishing, Finished

\* Every reachable state satisfies Inv.
LEMMA InvAlways == Spec => []Inv
<1>1. Init => Inv
  <2> SUFFICES ASSUME Init PROVE Inv
    OBVIOUS
  <2> USE StoreAssumption DEF Init
  <2>1. TypeWriter  BY DEF TypeWriter
  <2>2. TypeRing  BY DEF TypeRing
  <2>3. TypeSubs  BY DEF TypeSubs
  <2>4. TypeRollbacks  BY DEF TypeRollbacks
  <2>5. Place /\ TargetsExist  BY DEF Place, TargetsExist
  <2>6. RetainedWindow
    <3>1. Top = 0  BY DEF Top
    <3> QED  BY <3>1 DEF RetainedWindow
  <2> QED  BY <2>1, <2>2, <2>3, <2>4, <2>5, <2>6 DEF Inv, TypeOK
<1> QED
  BY <1>1, InvStep, PTL DEF Spec

\* Every reachable state is well typed: the ring's indices stay in range and a
\* rollback's target exists.
THEOREM StoreTyped == Spec => []TypeOK
  BY InvAlways, PTL DEF Inv

\* The history holds exactly the generations before the live one, oldest first,
\* for every capacity and however often the ring has wrapped around.
THEOREM HistoryIsWindow == Spec => []RetainedWindow
  BY InvAlways, PTL DEF Inv

\* Callbacks run after the swap and after the replaced snapshot was retained.
THEOREM CallbacksInContext == Spec => []CallbackContext
<1>1. Inv => CallbackContext
  <2> SUFFICES ASSUME Inv, wpc \in {"copy", "notify"}
               PROVE  /\ state = gen /\ prev = gen - 1
                      /\ HistoryCap > 0 => size > 0 /\ RingList[size] = prev
    BY DEF CallbackContext
  <2>1. state = gen /\ prev = gen - 1 /\ gen > 1 /\ gen \in Nat
    BY DEF Inv, Place, TypeOK, TypeWriter
  <2>2. Top = gen - 1
    BY DEF Top
  <2>3. /\ size = IF gen - 1 < HistoryCap THEN gen - 1 ELSE HistoryCap
        /\ \A i \in 1 .. size : RingList[i] = gen - 1 - size + i
    BY <2>2 DEF Inv, RetainedWindow
  <2>4. ASSUME HistoryCap > 0 PROVE size > 0 /\ RingList[size] = prev
    <3>1. size \in Nat /\ size > 0
      BY <2>1, <2>3, <2>4, StoreAssumption
    <3>2. RingList[size] = gen - 1 - size + size
      BY <3>1, <2>3
    <3> QED  BY <2>1, <3>1, <3>2
  <2> QED  BY <2>1, <2>4
<1> QED
  BY <1>1, InvAlways, PTL

-----------------------------------------------------------------------------
(* Subscribers.                                                            *)

\* A subscriber that canceled is not registered, and one that is still to be
\* called canceled after the swap.
Quiet ==
  /\ \A s \in subs : subpc[s] # "canceled"
  /\ CanceledQuiet

\* What a subscriber that follows the callbacks may know at each point of a
\* publication: the live value, or the replaced one while it is still to be
\* called.
Known(s) ==
  \/ view[s] = log[state]
  \/ /\ wpc \in {"push", "copy"} \/ (wpc = "notify" /\ s \in round)
     /\ view[s] = log[prev]

AllKnown == \A s \in subs : subpc[s] = "reading" => Known(s)

\* Quiet is preserved by every step.
LEMMA QuietStep == Inv /\ Quiet /\ [Next]_vars => Quiet'
<1> SUFFICES ASSUME Inv, Quiet, [Next]_vars PROVE Quiet'
  OBVIOUS
<1>0. TypeSubs /\ Place
  BY DEF Inv, TypeOK
<1> USE DEF Quiet, CanceledQuiet, subVars
<1>1. ASSUME NEW v \in Values, Commit(v) PROVE Quiet'
  BY <1>1 DEF Commit, Stamp
<1>2. ASSUME NEW r \in Rollbacks,
             ListHistory(r) \/ RequestRollback(r) \/ ApplyRollback(r)
      PROVE  Quiet'
  BY <1>2 DEF ListHistory, RequestRollback, ApplyRollback, Stamp
<1>3. ASSUME StoreState \/ PushPrev \/ CopySubscribers \/ EndNotify PROVE Quiet'
  BY <1>3 DEF StoreState, PushPrev, CopySubscribers, EndNotify
<1>4. CASE CallSubscriber
  <2>1. PICK s \in round : Deliver(s) \/ Recover(s)
    BY <1>4 DEF CallSubscriber
  <2>2. UNCHANGED <<gen, subs, left, wpc>> /\ wpc = "notify"
    BY <1>4 DEF CallSubscriber
  <2>3. \A t \in Subs : subpc'[t] = "canceled" <=> subpc[t] = "canceled"
    BY <1>0, <2>1 DEF Deliver, Recover, TypeSubs
  <2>4. round' \subseteq round
    BY <2>1 DEF Deliver, Recover, NextSubscriber
  <2> QED  BY <1>0, <2>2, <2>3, <2>4 DEF TypeSubs
<1>5. ASSUME NEW s \in Subs, Subscribe(s) PROVE Quiet'
  BY <1>0, <1>5 DEF Subscribe, TypeSubs
<1>6. ASSUME NEW s \in Subs, ReadInitial(s) PROVE Quiet'
  BY <1>0, <1>6 DEF ReadInitial, TypeSubs
<1>7. ASSUME NEW s \in Subs, CancelSubscription(s) PROVE Quiet'
  BY <1>0, <1>7 DEF CancelSubscription, TypeSubs, Place
<1>8. CASE UNCHANGED vars
  BY <1>8 DEF vars
<1> QED
  BY <1>1, <1>2, <1>3, <1>4, <1>5, <1>6, <1>7, <1>8
  DEF Next, Publishing, Finished

\* A subscriber that canceled hears of no later publication.
THEOREM CancelQuiets == Spec => []CanceledQuiet
<1>1. Init => Quiet
  BY DEF Init, Quiet, CanceledQuiet
<1> QED
  BY <1>1, InvAlways, QuietStep, PTL DEF Spec, Quiet

\* AllKnown is preserved by every step.
LEMMA KnownStep == Inv /\ AllKnown /\ [Next]_vars => AllKnown'
<1> SUFFICES ASSUME Inv, AllKnown, [Next]_vars,
                    NEW t \in subs', subpc'[t] = "reading"
             PROVE  Known(t)'
  BY DEF AllKnown
<1>0. TypeSubs /\ TypeWriter /\ Place
  BY DEF Inv, TypeOK
<1>1. ASSUME UNCHANGED subVars PROVE Known(t)
  BY <1>1 DEF AllKnown, subVars
<1> USE DEF subVars
<1>2. ASSUME NEW v \in Values, wpc = "idle", Stamp(v),
             UNCHANGED <<state, subVars, round>>
      PROVE  Known(t)'
  <2>1. view[t] = log[state]
    BY <1>1, <1>2 DEF Known
  <2>2. log'[state] = log[state]
    BY <1>0, <1>2 DEF Stamp, TypeWriter
  <2> QED  BY <1>2, <2>1, <2>2 DEF Known
<1>3. ASSUME NEW v \in Values, Commit(v) PROVE Known(t)'
  BY <1>2, <1>3 DEF Commit
<1>4. ASSUME NEW r \in Rollbacks, ApplyRollback(r) PROVE Known(t)'
  <2>1. log[target[r]] \in Values
    BY <1>4 DEF Inv, TargetsExist, TypeOK, TypeWriter, ApplyRollback
  <2> QED  BY <1>2, <1>4, <2>1 DEF ApplyRollback
<1>5. ASSUME NEW r \in Rollbacks, ListHistory(r) \/ RequestRollback(r)
      PROVE  Known(t)'
  BY <1>1, <1>5 DEF ListHistory, RequestRollback, Known
<1>6. CASE StoreState
  BY <1>0, <1>1, <1>6 DEF StoreState, Known, Place
<1>7. CASE PushPrev
  BY <1>1, <1>7 DEF PushPrev, Known
<1>8. CASE CopySubscribers
  BY <1>1, <1>8 DEF CopySubscribers, Known
<1>9. CASE EndNotify
  BY <1>1, <1>9 DEF EndNotify, Known
<1>10. CASE CallSubscriber
  <2>1. PICK s \in round : Deliver(s) \/ Recover(s)
    BY <1>10 DEF CallSubscriber
  <2>2. UNCHANGED <<gen, log, state, prev, wpc, subs, left>> /\ wpc = "notify"
    BY <1>10 DEF CallSubscriber
  <2>3. state = gen /\ t \in Subs /\ s \in Subs
    BY <1>0, <2>2 DEF Place, TypeSubs
  <2>4. CASE Deliver(s)
    <3>1. Known(t)
      BY <2>2, <2>4 DEF Deliver, AllKnown
    <3>2. CASE t = s
      BY <1>0, <2>2, <2>3, <2>4, <3>1, <3>2 DEF Deliver, Known, TypeSubs
    <3>3. CASE t # s
      BY <1>0, <2>2, <2>3, <2>4, <3>1, <3>3
      DEF Deliver, NextSubscriber, Known, TypeSubs
    <3> QED  BY <3>2, <3>3
  <2>5. CASE Recover(s)
    <3>1. t # s /\ subpc[t] = "reading"
      BY <1>0, <2>3, <2>5 DEF Recover, TypeSubs
    <3>2. Known(t)
      BY <2>2, <3>1 DEF AllKnown
    <3> QED  BY <2>2, <2>5, <3>1, <3>2 DEF Recover, NextSubscriber, Known
  <2> QED  BY <2>1, <2>4, <2>5
<1>11. ASSUME NEW s \in Subs, Subscribe(s) PROVE Known(t)'
  BY <1>0, <1>11 DEF Subscribe, AllKnown, Known, TypeSubs
<1>12. ASSUME NEW s \in Subs, ReadInitial(s) PROVE Known(t)'
  <2>1. UNCHANGED <<log, state, prev, wpc, round, subs>>
    BY <1>12 DEF ReadInitial
  <2>2. CASE t = s
    BY <1>0, <1>12, <2>1, <2>2 DEF ReadInitial, Known, TypeSubs
  <2>3. CASE t # s
    BY <1>0, <1>12, <2>1, <2>3 DEF ReadInitial, AllKnown, Known, TypeSubs
  <2> QED  BY <2>2, <2>3
<1>13. ASSUME NEW s \in Subs, CancelSubscription(s) PROVE Known(t)'
  BY <1>0, <1>13 DEF CancelSubscription, AllKnown, Known, TypeSubs
<1>14. CASE UNCHANGED vars
  BY <1>1, <1>14 DEF vars, Known
<1> QED
  BY <1>3, <1>4, <1>5, <1>6, <1>7, <1>8, <1>9, <1>10, <1>11, <1>12, <1>13, <1>14
  DEF Next, Publishing, Finished

\* Subscribing, then reading Get, then following the callbacks misses no
\* publication.
THEOREM FollowersUpToDate == Spec => []NoMissedUpdate
<1>1. Init => AllKnown
  BY DEF Init, AllKnown
<1>2. AllKnown => NoMissedUpdate
  BY DEF AllKnown, Known, NoMissedUpdate
<1> QED
  BY <1>1, <1>2, InvAlways, KnownStep, PTL DEF Spec

-----------------------------------------------------------------------------
(* Refinement.                                                             *)

\* The window as the abstract specification states it.
LEMMA WindowEnds ==
  ASSUME Inv, wpc = "store"
  PROVE  Abstract!EndsBelow(state)
<1>1. Len(RingList) = size
  BY DEF RingList, Inv, TypeOK, TypeRing
<1>2. Top = gen - 2 /\ state = gen - 1 /\ gen \in Nat /\ size \in Nat
  BY DEF Top, Inv, Place, TypeOK, TypeWriter, TypeRing
<1>3. \A i \in 1 .. size : RingList[i] = gen - 2 - size + i
  BY <1>2 DEF Inv, RetainedWindow
<1> QED
  BY <1>1, <1>2, <1>3 DEF Abstract!EndsBelow

\* Every step of SnapshotStore is a step of VersionedStore or leaves its log and
\* its window alone.
LEMMA StepRefines == Inv /\ Inv' /\ [Next]_vars => [Abstract!VSNext]_(Abstract!vsVars)
<1> SUFFICES ASSUME Inv, Inv', [Next]_vars
             PROVE  [Abstract!VSNext]_(Abstract!vsVars)
  OBVIOUS
<1>0. TypeWriter /\ TypeRing /\ Place
  BY DEF Inv, TypeOK
<1>1. ASSUME UNCHANGED <<state, ringVars>>,
             log' = log \/ \E v \in Values : log' = Append(log, v)
      PROVE  UNCHANGED Abstract!vsVars
  <2>1. RingList' = RingList
    BY <1>1 DEF RingList, ringVars
  <2>2. SubSeq(log, 1, state)' = SubSeq(log, 1, state)
    BY <1>0, <1>1 DEF TypeWriter
  <2> QED  BY <2>1, <2>2 DEF Abstract!vsVars
<1>2. ASSUME NEW v \in Values, Commit(v) PROVE UNCHANGED Abstract!vsVars
  BY <1>1, <1>2 DEF Commit, Stamp
<1>3. ASSUME NEW r \in Rollbacks, ApplyRollback(r) PROVE UNCHANGED Abstract!vsVars
  <2>1. log[target[r]] \in Values
    BY <1>3 DEF Inv, TargetsExist, TypeOK, TypeWriter, ApplyRollback
  <2> QED  BY <1>1, <1>3, <2>1 DEF ApplyRollback, Stamp
<1>4. CASE StoreState
  <2>1. RingList' = RingList
    BY <1>4 DEF StoreState, RingList, ringVars
  <2>2. state = gen - 1 /\ state' = gen /\ log' = log /\ wpc = "store"
        /\ gen \in Nat /\ gen > 1 /\ log \in Seq(Values) /\ Len(log) = gen
    BY <1>0, <1>4 DEF StoreState, Place, TypeWriter
  <2>3. Abstract!EndsBelow(Abstract!Live)
    <3>1. Abstract!Live = state
      BY <2>2 DEF Abstract!Live
    <3> QED  BY <2>2, <3>1, WindowEnds
  <2>4. log[gen] \in Values
    BY <2>2
  <2>5. SubSeq(log, 1, gen) = Append(SubSeq(log, 1, gen - 1), log[gen])
    BY <2>2
  <2> QED
    BY <2>1, <2>2, <2>3, <2>4, <2>5 DEF Abstract!VSNext, Abstract!PublishValue
<1>5. CASE PushPrev
  <2>1. state' = state /\ log' = log /\ state = gen /\ prev = gen - 1
        /\ gen > 1 /\ gen \in Nat /\ log \in Seq(Values) /\ Len(log) = gen
        /\ Push(prev) /\ HistoryCap \in Nat
    BY <1>0, <1>5, StoreAssumption DEF PushPrev, Place, TypeWriter
  <2>2. CASE HistoryCap = 0
    <3>1. UNCHANGED ringVars
      BY <2>1, <2>2 DEF Push
    <3> QED  BY <1>1, <2>1, <3>1
  <2>3. CASE HistoryCap # 0
    <3>1. /\ size' = IF size < HistoryCap THEN size + 1 ELSE size
          /\ RingList'[size'] = prev
          /\ \A i \in 1 .. size' - 1 :
               RingList'[i] = RingList[IF size < HistoryCap THEN i ELSE i + 1]
      BY <1>0, <2>1, <2>3, PushLists
    <3>2. /\ RingList \in Seq(Nat) /\ Len(RingList) = size
          /\ RingList' \in Seq(Nat) /\ Len(RingList') = size'
          /\ size \in Nat /\ size' \in Nat /\ size <= HistoryCap
      <4>1. ASSUME Inv
            PROVE  /\ RingList \in Seq(Nat) /\ Len(RingList) = size
                   /\ size \in Nat /\ size <= HistoryCap
        <5>1. size \in 0 .. HistoryCap /\ gen \in Nat
          BY <4>1 DEF Inv, TypeOK, TypeRing, TypeWriter
        <5>2. \A i \in 1 .. size : RingList[i] \in Nat
          BY <4>1, <5>1, ListedExist
        <5> QED  BY <2>1, <5>1, <5>2 DEF RingList
      <4>2. /\ RingList' \in Seq(Nat) /\ Len(RingList') = size'
            /\ size' \in Nat
        <5>1. size' \in 0 .. HistoryCap
          BY DEF Inv, TypeOK, TypeRing
        <5>2. \A i \in 1 .. size' : RingList'[i] \in Nat
          BY <2>1, <3>1, <4>1, <5>1
        <5> QED  BY <2>1, <5>1, <5>2 DEF RingList
      <4> QED  BY <4>1, <4>2
    <3> HIDE DEF RingList
    <3>3. RingList' = IF Len(RingList) < HistoryCap
                        THEN Append(RingList, prev)
                        ELSE Append(Tail(RingList), prev)
      <4>1. CASE size < HistoryCap
        <5>1. Append(RingList, prev) \in Seq(Nat)
              /\ Len(Append(RingList, prev)) = size'
          BY <2>1, <3>1, <3>2, <4>1
        <5>2. \A i \in 1 .. size' : RingList'[i] = Append(RingList, prev)[i]
          BY <2>1, <3>1, <3>2, <4>1
        <5> QED  BY <3>2, <4>1, <5>1, <5>2
      <4>2. CASE ~(size < HistoryCap)
        <5>1. Append(Tail(RingList), prev) \in Seq(Nat)
              /\ Len(Append(Tail(RingList), prev)) = size'
          BY <2>1, <2>3, <3>1, <3>2, <4>2
        <5>2. \A i \in 1 .. size' : RingList'[i] = Append(Tail(RingList), prev)[i]
          BY <2>1, <2>3, <3>1, <3>2, <4>2
        <5> QED  BY <3>2, <4>2, <5>1, <5>2
      <4> QED  BY <4>1, <4>2
    <3>4. Abstract!Live = gen
      BY <2>1 DEF Abstract!Live
    <3>5. SubSeq(log, 1, state)' = SubSeq(log, 1, state)
      BY <2>1
    <3>6. Abstract!Retire
      BY <2>1, <2>3, <3>3, <3>4, <3>5 DEF Abstract!Retire
    <3> QED  BY <3>6 DEF Abstract!VSNext
  <2> QED  BY <2>2, <2>3
<1>6. ASSUME CopySubscribers \/ CallSubscriber \/ EndNotify
      PROVE  UNCHANGED Abstract!vsVars
  BY <1>1, <1>6 DEF CopySubscribers, CallSubscriber, EndNotify
<1>7. ASSUME NEW s \in Subs,
             Subscribe(s) \/ ReadInitial(s) \/ CancelSubscription(s)
      PROVE  UNCHANGED Abstract!vsVars
  BY <1>1, <1>7 DEF Subscribe, ReadInitial, CancelSubscription
<1>8. ASSUME NEW r \in Rollbacks, ListHistory(r) \/ RequestRollback(r)
      PROVE  UNCHANGED Abstract!vsVars
  BY <1>1, <1>8 DEF ListHistory, RequestRollback
<1>9. CASE UNCHANGED vars
  BY <1>1, <1>9 DEF vars
<1> QED
  BY <1>2, <1>3, <1>4, <1>5, <1>6, <1>7, <1>8, <1>9
  DEF Next, Publishing, Finished

\* The pointer, the counter and the ring implement the append-only log with its
\* sliding window.
THEOREM StoreRefines == Spec => Refines
<1>1. Init => Abstract!VSInit
  <2> SUFFICES ASSUME Init PROVE Abstract!VSInit
    OBVIOUS
  <2>1. PICK v \in Values : log = <<v>>
    BY DEF Init
  <2>2. SubSeq(log, 1, state) = <<v>>
    <3>1. log \in Seq(Values) /\ Len(log) = 1 /\ state = 1
      BY <2>1 DEF Init
    <3>2. SubSeq(log, 1, 1) = log
      BY <3>1
    <3> QED  BY <2>1, <3>1, <3>2
  <2>3. RingList = <<>>
    BY DEF Init, RingList
  <2> QED  BY <2>2, <2>3 DEF Abstract!VSInit
<1> QED
  BY <1>1, InvAlways, StepRefines, PTL DEF Spec, Refines, Abstract!VSSpec
=============================================================================
