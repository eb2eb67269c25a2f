-------------------------- MODULE ReloadQueueProofs --------------------------
(***************************************************************************)
(* Proofs about ReloadQueue, for any set of calls, any number of           *)
(* providers and any capacity.                                             *)
(***************************************************************************)
EXTENDS ReloadQueue, TLAPS

-----------------------------------------------------------------------------
(* Type correctness.                                                       *)

\* What the history retains are snapshots.
LEMMA RetainTyped ==
  ASSUME NEW S, history \in Seq(S), NEW v \in S PROVE Retain(v) \in Seq(S)
<1>1. HistoryCap \in Nat
  BY BoundAssumption
<1>2. CASE Len(history) < HistoryCap
  BY <1>2 DEF Retain
<1>3. CASE HistoryCap = 0
  BY <1>1, <1>3 DEF Retain
<1>4. CASE ~(Len(history) < HistoryCap) /\ HistoryCap # 0
  <2>1. history # <<>>
    BY <1>1, <1>4
  <2>2. Tail(history) \in Seq(S)
    BY <2>1
  <2> QED
    BY <1>4, <2>2 DEF Retain
<1> QED
  BY <1>2, <1>3, <1>4

\* A request taken from the head of the queue leaves a shorter queue.
LEMMA TakeTyped ==
  ASSUME TypeQueue, reloadCh # <<>>
  PROVE  /\ Head(reloadCh) \in Calls \cup {Event}
         /\ Tail(reloadCh) \in Seq(Calls \cup {Event})
         /\ Len(Tail(reloadCh)) = Len(reloadCh) - 1
         /\ \A i \in 1 .. Len(Tail(reloadCh)) : Tail(reloadCh)[i] = reloadCh[i + 1]
         /\ Head(reloadCh) = reloadCh[1] /\ Len(reloadCh) > 0
  BY DEF TypeQueue

\* Every reachable state is well typed and no channel exceeds its capacity.
THEOREM TypeCorrect == Spec => []TypeOK
<1> USE CallsAssumption, KindsAssumption, CapAssumption, BoundAssumption
    DEF AllKinds, Providers, Vectors, Returned, Answers, GiveUps
<1>1. Init => TypeOK
  <2> USE DEF Init
  <2>1. Init => TypeCalls  BY DEF TypeCalls
  <2>2. Init => TypeQueue  BY DEF TypeQueue
  <2>3. Init => TypeProviders  BY DEF TypeProviders
  <2>4. Init => TypeWriter  BY DEF TypeWriter
  <2>5. Init => TypeErrors  BY DEF TypeErrors
  <2>6. Init => TypeGhosts  BY DEF TypeGhosts
  <2> QED  BY <2>1, <2>2, <2>3, <2>4, <2>5, <2>6 DEF TypeOK
<1>2. TypeOK /\ [Next]_vars => TypeOK'
  <2> SUFFICES ASSUME TypeOK, [Next]_vars PROVE TypeOK'
    OBVIOUS
  <2>0. TypeCalls /\ TypeQueue /\ TypeProviders /\ TypeWriter /\ TypeErrors
        /\ TypeGhosts
    BY DEF TypeOK
  <2> USE <2>0 DEF Closed, Paused, HasRoom, callVars, pauseVars, provVars,
                   runVars, snapVars, errVars
  <2>1. ASSUME NEW c \in Calls, Caller(c) PROVE TypeOK'
    <3>1. CASE Submit(c)
      <4> USE <3>1 DEF Submit
      <4>1. TypeCalls'
        <5>1. PICK k \in Kinds :
                /\ kind' = [kind EXCEPT ![c] = k]
                /\ IF k = "rollback"
                     THEN \E i \in 1 .. Len(history) :
                            asked' = [asked EXCEPT ![c] = history[i]]
                     ELSE asked' = [asked EXCEPT ![c] = source]
          OBVIOUS
        <5>2. \A i \in 1 .. Len(history) : history[i] \in [Providers -> Nat]
          BY DEF TypeWriter
        <5>3. PICK v \in [Providers -> Nat] : asked' = [asked EXCEPT ![c] = v]
          BY <5>1, <5>2 DEF TypeProviders
        <5>4. asked' \in [Calls -> [Providers -> Nat]]
          BY <5>3 DEF TypeCalls
        <5> QED  BY <5>1, <5>4 DEF TypeCalls
      <4>2. TypeQueue'  BY DEF TypeQueue
      <4>3. TypeProviders'  BY DEF TypeProviders
      <4>4. TypeWriter'  BY DEF TypeWriter
      <4>5. TypeErrors'  BY DEF TypeErrors
      <4>6. TypeGhosts'  BY DEF TypeGhosts
      <4> QED  BY <4>1, <4>2, <4>3, <4>4, <4>5, <4>6 DEF TypeOK
    <3>2. CASE Enqueue(c)
      <4> USE <3>2 DEF Enqueue
      <4>1. TypeCalls'  BY DEF TypeCalls
      <4>2. TypeQueue'  BY DEF TypeQueue
      <4>3. TypeProviders'  BY DEF TypeProviders
      <4>4. TypeWriter'  BY DEF TypeWriter
      <4>5. TypeErrors'  BY DEF TypeErrors
      <4>6. TypeGhosts'  BY DEF TypeGhosts
      <4> QED  BY <4>1, <4>2, <4>3, <4>4, <4>5, <4>6 DEF TypeOK
    <3>3. CASE Receive(c)
      <4> USE <3>3 DEF Receive
      <4>1. TypeCalls'  BY DEF TypeCalls
      <4>2. TypeQueue'  BY DEF TypeQueue
      <4>3. TypeProviders'  BY DEF TypeProviders
      <4>4. TypeWriter'  BY DEF TypeWriter
      <4>5. TypeErrors'  BY DEF TypeErrors
      <4>6. TypeGhosts'  BY DEF TypeGhosts
      <4> QED  BY <4>1, <4>2, <4>3, <4>4, <4>5, <4>6 DEF TypeOK
    <3>4. CASE GiveUp(c)
      <4> USE <3>4 DEF GiveUp
      <4>1. TypeCalls'  BY DEF TypeCalls
      <4>2. TypeQueue'  BY DEF TypeQueue
      <4>3. TypeProviders'  BY DEF TypeProviders
      <4>4. TypeWriter'  BY DEF TypeWriter
      <4>5. TypeErrors'  BY DEF TypeErrors
      <4>6. TypeGhosts'  BY DEF TypeGhosts
      <4> QED  BY <4>1, <4>2, <4>3, <4>4, <4>5, <4>6 DEF TypeOK
    <3>5. CASE Cancel(c)
      <4> USE <3>5 DEF Cancel
      <4>1. TypeCalls'  BY DEF TypeCalls
      <4>2. TypeQueue'  BY DEF TypeQueue
      <4>3. TypeProviders'  BY DEF TypeProviders
      <4>4. TypeWriter'  BY DEF TypeWriter
      <4>5. TypeErrors'  BY DEF TypeErrors
      <4>6. TypeGhosts'  BY DEF TypeGhosts
      <4> QED  BY <4>1, <4>2, <4>3, <4>4, <4>5, <4>6 DEF TypeOK
    <3> QED  BY <2>1, <3>1, <3>2, <3>3, <3>4, <3>5 DEF Caller
  <2>2. ASSUME NEW p \in Providers, Change(p) \/ Consumer(p) PROVE TypeOK'
    <3>1. CASE Change(p)
      <4> USE <3>1 DEF Change
      <4>1. TypeCalls'  BY DEF TypeCalls
      <4>2. TypeQueue'  BY DEF TypeQueue
      <4>3. TypeProviders'  BY DEF TypeProviders
      <4>4. TypeWriter'  BY DEF TypeWriter
      <4>5. TypeErrors'  BY DEF TypeErrors
      <4>6. TypeGhosts'  BY DEF TypeGhosts
      <4> QED  BY <4>1, <4>2, <4>3, <4>4, <4>5, <4>6 DEF TypeOK
    <3>2. CASE ConsumerReceive(p)
      <4> USE <3>2 DEF ConsumerReceive
      <4>1. TypeCalls'  BY DEF TypeCalls
      <4>2. TypeQueue'  BY DEF TypeQueue
      <4>3. TypeProviders'  BY DEF TypeProviders
      <4>4. TypeWriter'  BY DEF TypeWriter
      <4>5. TypeErrors'  BY DEF TypeErrors
      <4>6. TypeGhosts'  BY DEF TypeGhosts
      <4> QED  BY <4>1, <4>2, <4>3, <4>4, <4>5, <4>6 DEF TypeOK
    <3>3. CASE ConsumerCheck(p)
      <4> USE <3>3 DEF ConsumerCheck
      <4>1. TypeCalls'  BY DEF TypeCalls
      <4>2. TypeQueue'  BY DEF TypeQueue
      <4>3. TypeProviders'  BY DEF TypeProviders
      <4>4. TypeWriter'  BY DEF TypeWriter
      <4>5. TypeErrors'  BY DEF TypeErrors
      <4>6. TypeGhosts'  BY DEF TypeGhosts
      <4> QED  BY <4>1, <4>2, <4>3, <4>4, <4>5, <4>6 DEF TypeOK
    <3>4. CASE ConsumerOffer(p)
      <4> USE <3>4 DEF ConsumerOffer
      <4>1. TypeCalls'  BY DEF TypeCalls
      <4>2. TypeQueue'  BY DEF TypeQueue
      <4>3. TypeProviders'  BY DEF TypeProviders
      <4>4. TypeWriter'  BY DEF TypeWriter
      <4>5. TypeErrors'  BY DEF TypeErrors
      <4>6. TypeGhosts'  BY DEF TypeGhosts
      <4> QED  BY <4>1, <4>2, <4>3, <4>4, <4>5, <4>6 DEF TypeOK
    <3>5. CASE ConsumerToken(p)
      <4> USE <3>5 DEF ConsumerToken
      <4>1. TypeCalls'  BY DEF TypeCalls
      <4>2. TypeQueue'  BY DEF TypeQueue
      <4>3. TypeProviders'  BY DEF TypeProviders
      <4>4. TypeWriter'  BY DEF TypeWriter
      <4>5. TypeErrors'  BY DEF TypeErrors
      <4>6. TypeGhosts'  BY DEF TypeGhosts
      <4> QED  BY <4>1, <4>2, <4>3, <4>4, <4>5, <4>6 DEF TypeOK
    <3>6. CASE ConsumerExit(p)
      <4> USE <3>6 DEF ConsumerExit
      <4>1. TypeCalls'  BY DEF TypeCalls
      <4>2. TypeQueue'  BY DEF TypeQueue
      <4>3. TypeProviders'  BY DEF TypeProviders
      <4>4. TypeWriter'  BY DEF TypeWriter
      <4>5. TypeErrors'  BY DEF TypeErrors
      <4>6. TypeGhosts'  BY DEF TypeGhosts
      <4> QED  BY <4>1, <4>2, <4>3, <4>4, <4>5, <4>6 DEF TypeOK
    <3> QED  BY <2>2, <3>1, <3>2, <3>3, <3>4, <3>5, <3>6 DEF Consumer
  <2>3. CASE Writer
    <3>1. CASE WriterLoop
      <4> USE <3>1 DEF WriterLoop, LoopTop, LoopPrefer, LoopBlock, LoopAfter,
              LoopGoto, TakeRequest, TakeToken
      <4>1. TypeCalls'  BY DEF TypeCalls
      <4>2. TypeQueue'
        <5>1. \/ reloadCh # <<>> /\ reloadCh' = Tail(reloadCh) /\ tokens' = tokens
              \/ reloadCh' = reloadCh /\ tokens' \in {tokens, 0}
          OBVIOUS
        <5>2. UNCHANGED <<pausing, pauses, shutdown>>
          OBVIOUS
        <5> HIDE <3>1
        <5> QED  BY <5>1, <5>2, TakeTyped DEF TypeQueue
      <4>3. TypeProviders'  BY DEF TypeProviders
      <4>4. TypeWriter'  BY TakeTyped DEF TypeWriter
      <4>5. TypeErrors'  BY DEF TypeErrors
      <4>6. TypeGhosts'  BY DEF TypeGhosts
      <4> QED  BY <4>1, <4>2, <4>3, <4>4, <4>5, <4>6 DEF TypeOK
    <3>2. CASE RunOverflowResync
      <4> USE <3>2 DEF RunOverflowResync
      <4>1. TypeCalls'  BY DEF TypeCalls
      <4>2. TypeQueue'  BY DEF TypeQueue
      <4>3. TypeProviders'  BY DEF TypeProviders
      <4>4. TypeWriter'  BY DEF TypeWriter
      <4>5. TypeErrors'  BY DEF TypeErrors
      <4>6. TypeGhosts'  BY DEF TypeGhosts
      <4> QED  BY <4>1, <4>2, <4>3, <4>4, <4>5, <4>6 DEF TypeOK
    <3>3. CASE Admit
      <4> USE <3>3 DEF Admit, EndFailed, Retain, Work
      <4>1. TypeCalls'  BY DEF TypeCalls
      <4>2. TypeQueue'  BY DEF TypeQueue
      <4>3. TypeProviders'  BY DEF TypeProviders
      <4>4. TypeWriter'
        <5>1. Retain(published) \in Seq([Providers -> Nat])
          BY RetainTyped DEF TypeWriter
        <5>2. cur # Event => asked[cur] \in [Providers -> Nat]
          BY DEF TypeWriter, TypeCalls
        <5>3. published' \in [Providers -> Nat] /\ history' \in Seq([Providers -> Nat])
          BY <5>1, <5>2 DEF TypeWriter
        <5> HIDE DEF Retain
        <5> QED  BY <5>3 DEF TypeWriter
      <4>5. TypeErrors'  BY DEF TypeErrors
      <4>6. TypeGhosts'  BY DEF TypeGhosts
      <4> QED  BY <4>1, <4>2, <4>3, <4>4, <4>5, <4>6 DEF TypeOK
    <3>4. CASE LoadProvider
      <4> USE <3>4 DEF LoadProvider
      <4>1. TypeCalls'  BY DEF TypeCalls
      <4>2. TypeQueue'  BY DEF TypeQueue
      <4>3. TypeProviders'  BY DEF TypeProviders
      <4>4. TypeWriter'  BY DEF TypeWriter, TypeCalls, TypeQueue, TypeProviders
      <4>5. TypeErrors'  BY DEF TypeErrors
      <4>6. TypeGhosts'  BY DEF TypeGhosts
      <4> QED  BY <4>1, <4>2, <4>3, <4>4, <4>5, <4>6 DEF TypeOK
    <3>5. CASE RunFails
      <4> USE <3>5 DEF RunFails, EndFailed
      <4>1. TypeCalls'  BY DEF TypeCalls
      <4>2. TypeQueue'  BY DEF TypeQueue
      <4>3. TypeProviders'  BY DEF TypeProviders
      <4>4. TypeWriter'  BY DEF TypeWriter
      <4>5. TypeErrors'  BY DEF TypeErrors
      <4>6. TypeGhosts'  BY DEF TypeGhosts
      <4> QED  BY <4>1, <4>2, <4>3, <4>4, <4>5, <4>6 DEF TypeOK
    <3>6. CASE RunCanceled
      <4> USE <3>6 DEF RunCanceled, EndFailed
      <4>1. TypeCalls'  BY DEF TypeCalls
      <4>2. TypeQueue'  BY DEF TypeQueue
      <4>3. TypeProviders'  BY DEF TypeProviders
      <4>4. TypeWriter'  BY DEF TypeWriter
      <4>5. TypeErrors'  BY DEF TypeErrors
      <4>6. TypeGhosts'  BY DEF TypeGhosts
      <4> QED  BY <4>1, <4>2, <4>3, <4>4, <4>5, <4>6 DEF TypeOK
    <3>7. CASE PassPipeline
      <4> USE <3>7 DEF PassPipeline, EndOk, Work
      <4>1. TypeCalls'  BY DEF TypeCalls
      <4>2. TypeQueue'  BY DEF TypeQueue
      <4>3. TypeProviders'  BY DEF TypeProviders
      <4>4. TypeWriter'  BY DEF TypeWriter
      <4>5. TypeErrors'  BY DEF TypeErrors
      <4>6. TypeGhosts'  BY DEF TypeGhosts
      <4> QED  BY <4>1, <4>2, <4>3, <4>4, <4>5, <4>6 DEF TypeOK
    <3>8. CASE Publish
      <4> USE <3>8 DEF Publish, Retain
      <4>1. TypeCalls'  BY DEF TypeCalls
      <4>2. TypeQueue'  BY DEF TypeQueue
      <4>3. TypeProviders'  BY DEF TypeProviders
      <4>4. TypeWriter'
        <5>1. Retain(published) \in Seq([Providers -> Nat])
          BY RetainTyped DEF TypeWriter
        <5>2. history' \in Seq([Providers -> Nat])
          BY <5>1 DEF TypeWriter
        <5> QED  BY <5>2 DEF TypeWriter
      <4>5. TypeErrors'  BY DEF TypeErrors
      <4>6. TypeGhosts'  BY DEF TypeGhosts
      <4> QED  BY <4>1, <4>2, <4>3, <4>4, <4>5, <4>6 DEF TypeOK
    <3>9. CASE SendError
      <4> USE <3>9 DEF SendError
      <4>1. TypeCalls'  BY DEF TypeCalls
      <4>2. TypeQueue'  BY DEF TypeQueue
      <4>3. TypeProviders'  BY DEF TypeProviders
      <4>4. TypeWriter'  BY DEF AfterError, TypeWriter
      <4>5. TypeErrors'  BY DEF TypeErrors
      <4>6. TypeGhosts'  BY DEF TypeGhosts
      <4> QED  BY <4>1, <4>2, <4>3, <4>4, <4>5, <4>6 DEF TypeOK
    <3>10. CASE EvictError
      <4> USE <3>10 DEF EvictError
      <4>1. TypeCalls'  BY DEF TypeCalls
      <4>2. TypeQueue'  BY DEF TypeQueue
      <4>3. TypeProviders'  BY DEF TypeProviders
      <4>4. TypeWriter'  BY DEF TypeWriter
      <4>5. TypeErrors'  BY DEF TypeErrors
      <4>6. TypeGhosts'  BY DEF TypeGhosts
      <4> QED  BY <4>1, <4>2, <4>3, <4>4, <4>5, <4>6 DEF TypeOK
    <3>11. CASE Reply
      <4> USE <3>11 DEF Reply, Answer
      <4>1. TypeCalls'  BY DEF TypeCalls, TypeWriter
      <4>2. TypeQueue'  BY DEF TypeQueue
      <4>3. TypeProviders'  BY DEF TypeProviders
      <4>4. TypeWriter'  BY DEF TypeWriter
      <4>5. TypeErrors'  BY DEF TypeErrors
      <4>6. TypeGhosts'  BY DEF TypeGhosts
      <4> QED  BY <4>1, <4>2, <4>3, <4>4, <4>5, <4>6 DEF TypeOK
    <3>12. CASE RejectPending
      <4> USE <3>12 DEF RejectPending, Answer
      <4>1. TypeCalls'  BY DEF TypeCalls
      <4>2. TypeQueue'  BY DEF TypeQueue
      <4>3. TypeProviders'  BY DEF TypeProviders
      <4>4. TypeWriter'  BY DEF TypeWriter
      <4>5. TypeErrors'  BY DEF TypeErrors
      <4>6. TypeGhosts'  BY DEF TypeGhosts
      <4> QED  BY <4>1, <4>2, <4>3, <4>4, <4>5, <4>6 DEF TypeOK
    <3>13. CASE SubscriberPanics
      <4> USE <3>13 DEF SubscriberPanics
      <4>1. TypeCalls'  BY DEF TypeCalls
      <4>2. TypeQueue'  BY DEF TypeQueue
      <4>3. TypeProviders'  BY DEF TypeProviders
      <4>4. TypeWriter'  BY DEF TypeWriter
      <4>5. TypeErrors'  BY DEF TypeErrors
      <4>6. TypeGhosts'  BY DEF TypeGhosts
      <4> QED  BY <4>1, <4>2, <4>3, <4>4, <4>5, <4>6 DEF TypeOK
    <3>14. CASE Notified
      <4> USE <3>14 DEF Notified
      <4>1. TypeCalls'  BY DEF TypeCalls
      <4>2. TypeQueue'  BY DEF TypeQueue
      <4>3. TypeProviders'  BY DEF TypeProviders
      <4>4. TypeWriter'  BY DEF TypeWriter
      <4>5. TypeErrors'  BY DEF TypeErrors
      <4>6. TypeGhosts'  BY DEF TypeGhosts
      <4> QED  BY <4>1, <4>2, <4>3, <4>4, <4>5, <4>6 DEF TypeOK
    <3> QED  BY <2>3, <3>1, <3>2, <3>3, <3>4, <3>5, <3>6, <3>7, <3>8, <3>9,
             <3>10, <3>11, <3>12, <3>13, <3>14
             DEF Writer
  <2>4. CASE Pause
    <3> USE <2>4 DEF Pause
    <3>1. TypeCalls'  BY DEF TypeCalls
    <3>2. TypeQueue'  BY DEF TypeQueue
    <3>3. TypeProviders'  BY DEF TypeProviders
    <3>4. TypeWriter'  BY DEF TypeWriter
    <3>5. TypeErrors'  BY DEF TypeErrors
    <3>6. TypeGhosts'  BY DEF TypeGhosts
    <3> QED  BY <3>1, <3>2, <3>3, <3>4, <3>5, <3>6 DEF TypeOK
  <2>5. CASE PauseDrain
    <3> USE <2>5 DEF PauseDrain
    <3>1. TypeCalls'  BY DEF TypeCalls
    <3>2. TypeQueue'  BY DEF TypeQueue
    <3>3. TypeProviders'  BY DEF TypeProviders
    <3>4. TypeWriter'  BY DEF TypeWriter
    <3>5. TypeErrors'  BY DEF TypeErrors
    <3>6. TypeGhosts'  BY DEF TypeGhosts
    <3> QED  BY <3>1, <3>2, <3>3, <3>4, <3>5, <3>6 DEF TypeOK
  <2>6. CASE Resume
    <3> USE <2>6 DEF Resume
    <3>1. TypeCalls'  BY DEF TypeCalls
    <3>2. TypeQueue'  BY DEF TypeQueue
    <3>3. TypeProviders'  BY DEF TypeProviders
    <3>4. TypeWriter'  BY DEF TypeWriter
    <3>5. TypeErrors'  BY DEF TypeErrors
    <3>6. TypeGhosts'  BY DEF TypeGhosts
    <3> QED  BY <3>1, <3>2, <3>3, <3>4, <3>5, <3>6 DEF TypeOK
  <2>7. CASE Close
    <3> USE <2>7 DEF Close
    <3>1. TypeCalls'  BY DEF TypeCalls
    <3>2. TypeQueue'  BY DEF TypeQueue
    <3>3. TypeProviders'  BY DEF TypeProviders
    <3>4. TypeWriter'  BY DEF TypeWriter
    <3>5. TypeErrors'  BY DEF TypeErrors
    <3>6. TypeGhosts'  BY DEF TypeGhosts
    <3> QED  BY <3>1, <3>2, <3>3, <3>4, <3>5, <3>6 DEF TypeOK
  <2>8. CASE FinishClose
    <3> USE <2>8 DEF FinishClose
    <3>1. TypeCalls'  BY DEF TypeCalls
    <3>2. TypeQueue'  BY DEF TypeQueue
    <3>3. TypeProviders'  BY DEF TypeProviders
    <3>4. TypeWriter'  BY DEF TypeWriter
    <3>5. TypeErrors'  BY DEF TypeErrors
    <3>6. TypeGhosts'  BY DEF TypeGhosts
    <3> QED  BY <3>1, <3>2, <3>3, <3>4, <3>5, <3>6 DEF TypeOK
  <2>9. CASE ReadError
    <3> USE <2>9 DEF ReadError
    <3>1. TypeCalls'  BY DEF TypeCalls
    <3>2. TypeQueue'  BY DEF TypeQueue
    <3>3. TypeProviders'  BY DEF TypeProviders
    <3>4. TypeWriter'  BY DEF TypeWriter
    <3>5. TypeErrors'  BY DEF TypeErrors
    <3>6. TypeGhosts'  BY DEF TypeGhosts
    <3> QED  BY <3>1, <3>2, <3>3, <3>4, <3>5, <3>6 DEF TypeOK
  <2>10. CASE UNCHANGED vars
    <3> USE <2>10 DEF vars
    <3>1. TypeCalls'  BY DEF TypeCalls
    <3>2. TypeQueue'  BY DEF TypeQueue
    <3>3. TypeProviders'  BY DEF TypeProviders
    <3>4. TypeWriter'  BY DEF TypeWriter
    <3>5. TypeErrors'  BY DEF TypeErrors
    <3>6. TypeGhosts'  BY DEF TypeGhosts
    <3> QED  BY <3>1, <3>2, <3>3, <3>4, <3>5, <3>6 DEF TypeOK
  <2> QED
    BY <2>1, <2>2, <2>3, <2>4, <2>5, <2>6, <2>7, <2>8, <2>9, <2>10
    DEF Next, Terminated
<1> QED
  BY <1>1, <1>2, PTL DEF Spec

-----------------------------------------------------------------------------
(* What the steps of each actor leave alone.                               *)

\* What a step of a caller leaves alone.
LEMMA CallerFrame ==
  ASSUME NEW c \in Calls, Caller(c)
  PROVE  UNCHANGED <<tokens, pauseVars, shutdown, provVars, wpc, runVars,
                     snapVars, errVars, missed, bypass>>
  BY DEF Caller, Submit, Enqueue, Receive, GiveUp, Cancel

\* What a step of a provider or of its consumer leaves alone.
LEMMA ProviderFrame ==
  ASSUME NEW p \in Providers, Change(p) \/ Consumer(p)
  PROVE  UNCHANGED <<callVars, doneCh, pauseVars, shutdown, wpc, runVars,
                     snapVars, errVars, bypass>>
  BY DEF Change, Consumer, ConsumerReceive, ConsumerCheck, ConsumerOffer,
         ConsumerToken, ConsumerExit

\* What Pause, Resume, Shutdown and the reader of Errors() leave alone.
LEMMA ControlFrame ==
  ASSUME Pause \/ PauseDrain \/ Resume \/ Close \/ FinishClose \/ ReadError
  PROVE  UNCHANGED <<callVars, doneCh, reloadCh, provVars, wpc, runVars,
                     snapVars, errSeq>>
  BY DEF Pause, PauseDrain, Resume, Close, FinishClose, ReadError, errVars

-----------------------------------------------------------------------------
(* errorsCh.                                                               *)

\* Taking the oldest error leaves the newest ones.
LEMMA NewestTail ==
  ASSUME NEW es \in Seq(Nat), NEW n \in Int, Newest(es, n), es # <<>>
  PROVE  Newest(Tail(es), n)
  BY DEF Newest

\* Sending the next error keeps the newest ones without a hole.
LEMMA NewestAppend ==
  ASSUME NEW es \in Seq(Nat), NEW n \in Int, Newest(es, n - 1)
  PROVE  Newest(Append(es, n), n)
  BY DEF Newest

\* errorsCh always holds the newest errors in order: eviction never takes
\* anything but the oldest and no error is skipped.
THEOREM ErrorsInOrder == Spec => []ErrorsNewest
<1>1. Init => ErrorsNewest
  BY DEF Init, ErrorsNewest, Newest, Sent
<1>2. TypeOK /\ ErrorsNewest /\ [Next]_vars => ErrorsNewest'
  <2> SUFFICES ASSUME TypeOK, ErrorsNewest, [Next]_vars PROVE ErrorsNewest'
    OBVIOUS
  <2>0. TypeErrors /\ TypeWriter
    BY DEF TypeOK
  <2> USE <2>0 DEF errVars, ErrorsNewest, TypeErrors
  <2>1. CASE UNCHANGED <<errs, errSeq, wpc>>
    BY <2>1 DEF Newest, Sent
  <2>2. CASE ReadError
    <3>1. Sent' = Sent /\ Sent \in Int
      BY <2>2 DEF ReadError, Sent
    <3> QED
      BY <2>2, <3>1, NewestTail DEF ReadError
  <2>3. CASE Writer
    <3>1. CASE WriterLoop \/ RunOverflowResync \/ LoadProvider \/ Publish
      <4>1. Sent' = Sent /\ errs' = errs
        BY <3>1 DEF WriterLoop, LoopTop, LoopPrefer, LoopBlock, LoopAfter,
           LoopGoto, TakeRequest, TakeToken, RunOverflowResync, LoadProvider,
           Publish, Sent
      <4> QED
        BY <4>1
    <3>2. CASE PassPipeline \/ Notified \/ Reply \/ RejectPending
      <4>1. Sent' = Sent /\ errs' = errs
        BY <3>2 DEF PassPipeline, EndOk, Notified, Reply, RejectPending, Sent,
           TypeWriter
      <4> QED
        BY <4>1
    <3>3. CASE Admit \/ RunFails \/ RunCanceled \/ SubscriberPanics
      <4>1. Sent' = Sent /\ errs' = errs
        BY <3>3 DEF Admit, RunFails, RunCanceled, SubscriberPanics, EndFailed, Sent
      <4> QED
        BY <4>1
    <3>4. CASE SendError
      <4>1. CASE Len(errs) < ErrCap
        <5>1. Sent = errSeq - 1 /\ Sent' = errSeq /\ errs' = Append(errs, errSeq)
          BY <3>4, <4>1 DEF SendError, AfterError, Sent
        <5> QED
          BY <5>1, NewestAppend
      <4>2. CASE ~(Len(errs) < ErrCap)
        <5>1. Sent' = Sent /\ errs' = errs
          BY <3>4, <4>2 DEF SendError, Sent
        <5> QED
          BY <5>1
      <4> QED
        BY <4>1, <4>2
    <3>5. CASE EvictError
      <4>1. Sent' = Sent /\ Sent \in Int
        BY <3>5 DEF EvictError, Sent
      <4> QED
        BY <3>5, <4>1, NewestTail DEF EvictError
    <3> QED
      BY <2>3, <3>1, <3>2, <3>3, <3>4, <3>5 DEF Writer
  <2> QED
    BY <2>1, <2>2, <2>3, CallerFrame, ProviderFrame
    DEF Next, Terminated, vars, Pause, PauseDrain, Resume, Close, FinishClose
<1> QED
  BY <1>1, <1>2, TypeCorrect, PTL DEF Spec

-----------------------------------------------------------------------------
(* Starvation, of a request and of the overflow token.                     *)

\* The writer serves a request.
Serving ==
  wpc \in {"admit", "load", "publish", "notify", "errSend", "errEvict", "reply"}

\* Why one resync is the most that overtakes a waiting request: it is followed
\* by the preferring select, which finds the request.
BypassInv ==
  /\ bypass.request <= 1
  /\ bypass.request = 1 => /\ wpc \in {"reject", "exited"} \/ reloadCh # <<>>
                           /\ wpc \notin {"block", "after"}
                           /\ Serving => next = "top"

\* While a request waits, at most one overflow resync overtakes it.
THEOREM NoStarvation == Spec => []AtMostOneBypass
<1>1. Init => BypassInv
  BY DEF Init, BypassInv
<1>2. TypeOK /\ BypassInv /\ [Next]_vars => BypassInv'
  <2> SUFFICES ASSUME TypeOK, BypassInv, [Next]_vars PROVE BypassInv'
    OBVIOUS
  <2>0. TypeQueue /\ TypeWriter /\ bypass \in [request : Nat, token : Nat]
    BY DEF TypeOK, TypeGhosts
  <2> USE <2>0 DEF BypassInv, Serving
  <2>1. CASE UNCHANGED <<bypass.request, wpc, reloadCh, next>>
    BY <2>1
  <2>2. ASSUME NEW r, reloadCh' = Append(reloadCh, r),
               UNCHANGED <<bypass, wpc, next>>
        PROVE  BypassInv'
    <3>1. reloadCh' # <<>>
      BY <2>2 DEF TypeQueue
    <3> QED
      BY <2>2, <3>1
  <2>3. ASSUME NEW c \in Calls, Caller(c) PROVE BypassInv'
    BY <2>1, <2>2, <2>3 DEF Caller, Submit, Enqueue, Receive, GiveUp, Cancel,
       runVars
  <2>4. ASSUME NEW p \in Providers, Change(p) \/ Consumer(p) PROVE BypassInv'
    BY <2>1, <2>2, <2>4 DEF Change, Consumer, ConsumerReceive, ConsumerCheck,
       ConsumerOffer, ConsumerToken, ConsumerExit, runVars
  <2>5. CASE WriterLoop
    BY <2>5 DEF WriterLoop, LoopTop, LoopPrefer, LoopBlock, LoopAfter, LoopGoto,
       TakeRequest, TakeToken
  <2>6. CASE RunOverflowResync
    BY <2>6 DEF RunOverflowResync
  <2>7. CASE Admit \/ RunFails \/ RunCanceled \/ PassPipeline \/ Publish
    BY <2>7 DEF Admit, RunFails, RunCanceled, PassPipeline, Publish, EndFailed,
       EndOk
  <2>8. CASE LoadProvider \/ SubscriberPanics \/ Notified \/ SendError \/ EvictError
    BY <2>8 DEF LoadProvider, SubscriberPanics, Notified, SendError, AfterError,
       EvictError, runVars
  <2>9. CASE Reply
    BY <2>9 DEF Reply, TypeWriter
  <2>10. CASE RejectPending
    BY <2>10 DEF RejectPending, runVars
  <2>11. CASE Pause \/ PauseDrain \/ Resume \/ Close \/ FinishClose \/ ReadError
    <3>1. bypass'.request = bypass.request
      BY <2>11 DEF Pause, PauseDrain, Resume, Close, FinishClose, ReadError
    <3> QED
      BY <2>1, <2>11, <3>1, ControlFrame DEF runVars
  <2> QED
    BY <2>1, <2>3, <2>4, <2>5, <2>6, <2>7, <2>8, <2>9, <2>10, <2>11
    DEF Next, Terminated, vars, Writer, runVars
<1>3. BypassInv => AtMostOneBypass
  BY DEF BypassInv, AtMostOneBypass
<1> QED
  BY <1>1, <1>2, <1>3, TypeCorrect, PTL DEF Spec

\* Why one request is the most that overtakes a token: it is followed by the
\* select on overflowResyncCh, which finds the token.
TokenInv ==
  /\ bypass.token <= 1
  /\ bypass.token = 1 => tokens = 1 /\ (wpc = "after" \/ (Serving /\ next = "after"))

\* While a token stands for a dropped change, at most one request is started
\* before the writer takes the token.
THEOREM ResyncNotStarved == Spec => []ResyncServedNext
<1>1. Init => TokenInv
  BY DEF Init, TokenInv
<1>2. TypeOK /\ TokenInv /\ [Next]_vars => TokenInv'
  <2> SUFFICES ASSUME TypeOK, TokenInv, [Next]_vars PROVE TokenInv'
    OBVIOUS
  <2>0. TypeQueue /\ TypeWriter /\ bypass \in [request : Nat, token : Nat]
    BY DEF TypeOK, TypeGhosts
  <2> USE <2>0 DEF TokenInv, Serving
  <2>1. ASSUME UNCHANGED <<bypass, wpc, next>>, tokens = 1 => tokens' = 1
        PROVE  TokenInv'
    BY <2>1
  <2>2. ASSUME NEW c \in Calls, Caller(c) PROVE TokenInv'
    BY <2>1, <2>2, CallerFrame DEF runVars
  <2>3. ASSUME NEW p \in Providers, Change(p) \/ Consumer(p) PROVE TokenInv'
    <3>1. tokens = 1 => tokens' = 1
      BY <2>3 DEF Change, Consumer, ConsumerReceive, ConsumerCheck,
         ConsumerOffer, ConsumerToken, ConsumerExit
    <3> QED
      BY <2>1, <2>3, <3>1, ProviderFrame DEF runVars
  <2>4. CASE Pause \/ Resume \/ Close \/ FinishClose \/ ReadError
    BY <2>1, <2>4 DEF Pause, Resume, Close, FinishClose, ReadError, runVars
  <2>5. CASE PauseDrain
    BY <2>5 DEF PauseDrain
  <2>6. CASE WriterLoop
    <3> USE DEF TypeQueue
    <3>1. CASE TakeRequest
      BY <2>6, <3>1 DEF WriterLoop, LoopTop, LoopPrefer, LoopBlock, LoopAfter,
         LoopGoto, TakeRequest, TakeToken
    <3>2. CASE TakeToken
      BY <3>2 DEF TakeToken
    <3>3. CASE UNCHANGED <<cur, next, reloadCh, tokens, bypass>>
      BY <2>6, <3>3 DEF WriterLoop, LoopTop, LoopPrefer, LoopBlock, LoopAfter,
         LoopGoto, TakeRequest, TakeToken
    <3> QED
      BY <2>6, <3>1, <3>2, <3>3 DEF WriterLoop, LoopTop, LoopPrefer, LoopBlock,
         LoopAfter, LoopGoto
  <2>7. CASE RunOverflowResync
    BY <2>7 DEF RunOverflowResync
  <2>8. CASE Admit \/ RunFails \/ RunCanceled \/ PassPipeline \/ Publish
    BY <2>8 DEF Admit, RunFails, RunCanceled, PassPipeline, Publish, EndFailed,
       EndOk
  <2>9. CASE LoadProvider \/ SubscriberPanics \/ Notified \/ SendError \/ EvictError
    BY <2>9 DEF LoadProvider, SubscriberPanics, Notified, SendError, AfterError,
       EvictError, runVars
  <2>10. CASE Reply
    BY <2>10 DEF Reply, TypeWriter
  <2>11. CASE RejectPending
    BY <2>11 DEF RejectPending, runVars
  <2> QED
    BY <2>1, <2>2, <2>3, <2>4, <2>5, <2>6, <2>7, <2>8, <2>9, <2>10, <2>11
    DEF Next, Terminated, vars, Writer, runVars
<1>3. TokenInv => ResyncServedNext
  BY DEF TokenInv, ResyncServedNext
<1> QED
  BY <1>1, <1>2, <1>3, TypeCorrect, PTL DEF Spec

-----------------------------------------------------------------------------
(* Answers.                                                                *)

\* The call is past the send of its request.
Submitted(c) == pc[c] \notin {"idle", "sending"}

\* Only a call that sent its request gets an answer.
AnswerAfterSend == \A c \in Calls : doneCh[c] # "none" => Submitted(c)

\* A queued call was sent, has no answer yet and is queued once.
QueuedOnce ==
  /\ \A i \in 1 .. Len(reloadCh) : reloadCh[i] \in Calls =>
       Submitted(reloadCh[i]) /\ doneCh[reloadCh[i]] = "none"
  /\ \A i, j \in 1 .. Len(reloadCh) :
       reloadCh[i] \in Calls /\ reloadCh[i] = reloadCh[j] => i = j

\* The call being served was sent, has no answer yet and is queued no more.
ServedOnce ==
  Serving /\ cur \in Calls =>
    /\ Submitted(cur) /\ doneCh[cur] = "none"
    /\ \A i \in 1 .. Len(reloadCh) : reloadCh[i] # cur

AnswerInv == AnswerAfterSend /\ QueuedOnce /\ ServedOnce

\* These three hold together in every reachable state.
LEMMA AnswerInvariant == Spec => []AnswerInv
<1> USE CallsAssumption
<1>1. Init => AnswerInv
  BY DEF Init, AnswerInv, AnswerAfterSend, QueuedOnce, ServedOnce, Serving
<1>2. TypeOK /\ AnswerInv /\ [Next]_vars => AnswerInv'
  <2> SUFFICES ASSUME TypeOK, AnswerInv, [Next]_vars PROVE AnswerInv'
    OBVIOUS
  <2>0. /\ TypeCalls /\ TypeQueue /\ TypeWriter
        /\ AnswerAfterSend /\ QueuedOnce /\ ServedOnce
    BY DEF TypeOK, AnswerInv
  <2> USE <2>0
  <2>1. CASE UNCHANGED <<pc, doneCh, reloadCh, wpc, cur>>
    BY <2>1 DEF AnswerInv, AnswerAfterSend, QueuedOnce, ServedOnce, Submitted,
       Serving
  <2>2. ASSUME NEW c \in Calls, Caller(c) PROVE AnswerInv'
    <3> USE DEF runVars
    <3>1. CASE Submit(c) \/ GiveUp(c) \/ Cancel(c)
      <4>1. /\ \A d \in Calls : Submitted(d) => Submitted(d)'
            /\ UNCHANGED <<doneCh, reloadCh, wpc, cur>>
        BY <3>1 DEF Submit, GiveUp, Cancel, Submitted, TypeCalls, Closed
      <4> QED
        BY <4>1 DEF AnswerInv, AnswerAfterSend, QueuedOnce, ServedOnce, Serving
    <3>2. CASE Enqueue(c)
      <4>1. ~Submitted(c) /\ Submitted(c)' /\ doneCh[c] = "none"
        BY <3>2 DEF Enqueue, Submitted, TypeCalls, AnswerAfterSend
      <4>2. /\ \A d \in Calls : Submitted(d) => Submitted(d)'
            /\ UNCHANGED <<doneCh, wpc, cur>>
        BY <3>2 DEF Enqueue, Submitted, TypeCalls
      <4>3. /\ Len(reloadCh') = Len(reloadCh) + 1
            /\ \A i \in 1 .. Len(reloadCh) : reloadCh'[i] = reloadCh[i]
            /\ reloadCh'[Len(reloadCh) + 1] = c /\ Len(reloadCh) \in Nat
        BY <3>2 DEF Enqueue, TypeQueue
      <4>4. \A i \in 1 .. Len(reloadCh) : reloadCh[i] # c
        BY <4>1 DEF QueuedOnce
      <4>5. AnswerAfterSend'
        BY <4>2 DEF AnswerAfterSend
      <4>6. QueuedOnce'
        BY <4>1, <4>2, <4>3, <4>4 DEF QueuedOnce
      <4>7. ServedOnce'
        BY <4>1, <4>2, <4>3 DEF ServedOnce, Serving
      <4> QED
        BY <4>5, <4>6, <4>7 DEF AnswerInv
    <3>3. CASE Receive(c)
      <4>1. /\ \A d \in Calls : Submitted(d) => Submitted(d)'
            /\ \A d \in Calls : doneCh'[d] = "none" \/ doneCh'[d] = doneCh[d]
            /\ UNCHANGED <<reloadCh, wpc, cur>>
        BY <3>3 DEF Receive, Submitted, TypeCalls, Answers, Returned
      <4> QED
        BY <4>1 DEF AnswerInv, AnswerAfterSend, QueuedOnce, ServedOnce, Serving
    <3> QED
      BY <2>2, <3>1, <3>2, <3>3 DEF Caller
  <2>3. ASSUME NEW p \in Providers, Change(p) \/ Consumer(p) PROVE AnswerInv'
    <3>1. UNCHANGED <<pc, doneCh, wpc, cur>>
      BY <2>3, ProviderFrame DEF callVars, runVars
    <3>2. CASE UNCHANGED reloadCh
      BY <2>1, <3>1, <3>2
    <3>3. CASE reloadCh' = Append(reloadCh, Event)
      <4>1. /\ Len(reloadCh') = Len(reloadCh) + 1
            /\ \A i \in 1 .. Len(reloadCh) : reloadCh'[i] = reloadCh[i]
            /\ reloadCh'[Len(reloadCh) + 1] \notin Calls /\ Len(reloadCh) \in Nat
        BY <3>3 DEF TypeQueue
      <4>2. AnswerAfterSend'
        BY <3>1 DEF AnswerAfterSend, Submitted
      <4>3. QueuedOnce'
        BY <3>1, <4>1 DEF QueuedOnce, Submitted
      <4>4. ServedOnce'
        BY <3>1, <4>1 DEF ServedOnce, Submitted, Serving
      <4> QED
        BY <4>2, <4>3, <4>4 DEF AnswerInv
    <3> QED
      BY <2>3, <3>2, <3>3 DEF Change, Consumer, ConsumerReceive, ConsumerCheck,
         ConsumerOffer, ConsumerToken, ConsumerExit
  <2>4. CASE WriterLoop
    <3>1. UNCHANGED <<pc, doneCh>>
      BY <2>4 DEF WriterLoop, callVars
    <3>2. CASE UNCHANGED reloadCh
      <4>1. ~Serving'
        BY <2>4, <3>2, TakeTyped DEF WriterLoop, LoopTop, LoopPrefer, LoopBlock,
           LoopAfter, LoopGoto, TakeRequest, TakeToken, Serving
      <4> QED
        BY <3>1, <3>2, <4>1
        DEF AnswerInv, AnswerAfterSend, QueuedOnce, ServedOnce, Submitted
    <3>3. CASE TakeRequest
      <4>1. /\ Len(reloadCh') = Len(reloadCh) - 1 /\ Len(reloadCh) \in Nat
            /\ \A i \in 1 .. Len(reloadCh') : reloadCh'[i] = reloadCh[i + 1]
            /\ cur' = reloadCh[1] /\ Len(reloadCh) > 0
        BY <3>3, TakeTyped DEF TakeRequest, TypeQueue
      <4>2. QueuedOnce'
        BY <3>1, <4>1 DEF QueuedOnce, Submitted
      <4>3. ServedOnce'
        BY <3>1, <4>1 DEF QueuedOnce, ServedOnce, Submitted
      <4> QED
        BY <3>1, <4>2, <4>3 DEF AnswerInv, AnswerAfterSend, Submitted
    <3> QED
      BY <2>4, <3>2, <3>3 DEF WriterLoop, LoopTop, LoopPrefer, LoopBlock,
         LoopAfter, LoopGoto, TakeToken
  <2>5. CASE RunOverflowResync
    <3>1. UNCHANGED <<pc, doneCh, reloadCh>> /\ (Serving' => cur' = Event)
      BY <2>5 DEF RunOverflowResync, callVars, Serving
    <3> QED
      BY <3>1
      DEF AnswerInv, AnswerAfterSend, QueuedOnce, ServedOnce, Submitted
  <2>6. CASE Admit \/ LoadProvider \/ RunFails \/ RunCanceled \/ PassPipeline
             \/ Publish \/ SubscriberPanics \/ Notified \/ SendError
             \/ EvictError
    <3>1. UNCHANGED <<pc, doneCh, reloadCh, cur>> /\ Serving
      BY <2>6 DEF Admit, LoadProvider, RunFails, RunCanceled, PassPipeline,
         Publish, SubscriberPanics, Notified, SendError, EvictError, callVars,
         runVars, Serving
    <3> QED
      BY <3>1
      DEF AnswerInv, AnswerAfterSend, QueuedOnce, ServedOnce, Submitted
  <2>7. CASE Reply
    <3>1. UNCHANGED <<pc, reloadCh>> /\ Serving /\ ~Serving'
      BY <2>7 DEF Reply, callVars, Serving, TypeWriter
    <3>2. \/ doneCh' = doneCh
          \/ cur \in Calls /\ doneCh' = [doneCh EXCEPT ![cur] = err]
      BY <2>7 DEF Reply, Answer
    <3>3. AnswerAfterSend'
      BY <3>1, <3>2 DEF AnswerAfterSend, ServedOnce, Submitted, TypeCalls
    <3>4. QueuedOnce'
      BY <3>1, <3>2 DEF QueuedOnce, ServedOnce, Submitted, TypeCalls
    <3> QED
      BY <3>1, <3>3, <3>4 DEF AnswerInv, ServedOnce
  <2>8. CASE RejectPending
    <3>1. UNCHANGED pc /\ ~Serving'
      BY <2>8 DEF RejectPending, callVars, Serving
    <3>2. CASE reloadCh = <<>>
      <4>1. UNCHANGED <<doneCh, reloadCh>>
        BY <2>8, <3>2 DEF RejectPending
      <4> QED
        BY <3>1, <4>1
        DEF AnswerInv, AnswerAfterSend, QueuedOnce, ServedOnce, Submitted
    <3>3. CASE reloadCh # <<>>
      <4>1. /\ Len(reloadCh') = Len(reloadCh) - 1 /\ Len(reloadCh) \in Nat
            /\ \A i \in 1 .. Len(reloadCh') : reloadCh'[i] = reloadCh[i + 1]
            /\ Head(reloadCh) = reloadCh[1] /\ Len(reloadCh) > 0
        BY <2>8, <3>3, TakeTyped DEF RejectPending, TypeQueue
      <4>2. \/ doneCh' = doneCh
            \/ /\ reloadCh[1] \in Calls
               /\ doneCh' = [doneCh EXCEPT ![reloadCh[1]] = "closed"]
        BY <2>8, <3>3, <4>1 DEF RejectPending, Answer
      <4>3. AnswerAfterSend'
        <5>1. reloadCh[1] \in Calls => Submitted(reloadCh[1])
          BY <4>1 DEF QueuedOnce
        <5> QED
          BY <3>1, <4>2, <5>1 DEF AnswerAfterSend, Submitted, TypeCalls
      <4>4. QueuedOnce'
        <5>1. \A i \in 1 .. Len(reloadCh') : i + 1 \in 1 .. Len(reloadCh)
          BY <4>1
        <5>2. \A i \in 1 .. Len(reloadCh') : reloadCh'[i] \in Calls =>
                reloadCh'[i] # reloadCh[1] /\ doneCh[reloadCh'[i]] = "none"
          BY <4>1, <5>1 DEF QueuedOnce
        <5>3. \A i \in 1 .. Len(reloadCh') : reloadCh'[i] \in Calls =>
                doneCh'[reloadCh'[i]] = "none"
          BY <4>2, <5>2 DEF TypeCalls
        <5>4. \A i \in 1 .. Len(reloadCh') : reloadCh'[i] \in Calls =>
                pc'[reloadCh'[i]] \notin {"idle", "sending"}
          BY <3>1, <4>1, <5>1 DEF QueuedOnce, Submitted
        <5>5. ASSUME NEW i \in 1 .. Len(reloadCh'), NEW j \in 1 .. Len(reloadCh'),
                     reloadCh'[i] \in Calls, reloadCh'[i] = reloadCh'[j]
              PROVE  i = j
          <6>1. reloadCh[i + 1] \in Calls /\ reloadCh[i + 1] = reloadCh[j + 1]
            BY <4>1, <5>5
          <6>2. i + 1 = j + 1
            BY <5>1, <6>1 DEF QueuedOnce
          <6> QED
            BY <4>1, <6>2
        <5> QED
          BY <5>3, <5>4, <5>5 DEF QueuedOnce, Submitted
      <4> QED
        BY <3>1, <4>3, <4>4 DEF AnswerInv, ServedOnce
    <3> QED
      BY <3>2, <3>3
  <2> QED
    BY <2>1, <2>2, <2>3, <2>4, <2>5, <2>6, <2>7, <2>8, ControlFrame
    DEF Next, Terminated, vars, Writer, callVars, runVars
<1> QED
  BY <1>1, <1>2, TypeCorrect, PTL DEF Spec

\* The writer never waits for a caller: each call is answered at most once, into
\* an empty buffer.
THEOREM AnswersFit == Spec => []ReplyNeverBlocks
<1>1. TypeOK /\ AnswerInv => ReplyNeverBlocks
  BY CallsAssumption DEF TypeOK, TypeQueue, TypeWriter, AnswerInv, QueuedOnce,
     ServedOnce, Serving, ReplyNeverBlocks
<1> QED
  BY <1>1, AnswerInvariant, TypeCorrect, PTL

-----------------------------------------------------------------------------
(* Versions.                                                               *)

\* What the writer's position says.
Stages ==
  /\ wpc \in {"reject", "exited"} => Closed
  /\ wpc = "load" => Work(cur) \in {"reload", "plan"}
  /\ wpc = "publish" => Work(cur) = "reload" /\ toLoad = NProviders + 1

\* The position of the writer says what it serves, in every reachable state.
LEMMA StagesInvariant == Spec => []Stages
<1>1. Init => Stages
  BY DEF Init, Stages
<1>2. TypeOK /\ AnswerInv /\ Stages /\ [Next]_vars => Stages'
  <2> SUFFICES ASSUME TypeOK, AnswerInv, Stages, [Next]_vars PROVE Stages'
    OBVIOUS
  <2>0. TypeCalls /\ TypeWriter /\ ServedOnce
    BY DEF TypeOK, AnswerInv
  <2> USE <2>0, BoundAssumption DEF Stages, Work, Closed
  <2>1. CASE UNCHANGED <<kind, shutdown, wpc, cur, toLoad>>
    BY <2>1
  <2>2. ASSUME NEW c \in Calls, Caller(c) PROVE Stages'
    <3>1. UNCHANGED <<shutdown, wpc, cur, toLoad>>
      BY <2>2, CallerFrame DEF runVars
    <3>2. CASE UNCHANGED kind
      BY <2>1, <3>1, <3>2
    <3>3. CASE Submit(c)
      <4>1. wpc \in {"load", "publish"} /\ cur # Event => kind'[cur] = kind[cur]
        BY <3>3 DEF Submit, ServedOnce, Serving, Submitted, TypeCalls, TypeWriter
      <4> QED
        BY <3>1, <4>1
    <3> QED
      BY <2>2, <3>2, <3>3 DEF Caller, Enqueue, Receive, GiveUp, Cancel
  <2>3. CASE Close \/ FinishClose
    BY <2>3, ControlFrame DEF Close, FinishClose, callVars, runVars
  <2>4. CASE WriterLoop
    BY <2>4 DEF WriterLoop, LoopTop, LoopPrefer, LoopBlock, LoopAfter, LoopGoto,
       TakeRequest, TakeToken
  <2>5. CASE RunOverflowResync
    BY <2>5 DEF RunOverflowResync
  <2>6. CASE Admit
    BY <2>6 DEF Admit, EndFailed, callVars
  <2>7. CASE RunFails \/ RunCanceled \/ Publish
    BY <2>7 DEF RunFails, RunCanceled, Publish, EndFailed
  <2>8. CASE LoadProvider
    BY <2>8 DEF LoadProvider, callVars
  <2>9. CASE PassPipeline
    BY <2>9 DEF PassPipeline, EndOk, callVars, TypeWriter
  <2>10. CASE SubscriberPanics \/ Notified \/ SendError \/ EvictError
    BY <2>10 DEF SubscriberPanics, Notified, SendError, AfterError, EvictError,
       runVars
  <2>11. CASE Reply
    BY <2>11 DEF Reply, TypeWriter
  <2>12. CASE RejectPending
    BY <2>12 DEF RejectPending
  <2> QED
    BY <2>1, <2>2, <2>3, <2>4, <2>5, <2>6, <2>7, <2>8, <2>9, <2>10, <2>11,
       <2>12, ProviderFrame
    DEF Next, Terminated, vars, Writer, Pause, PauseDrain, Resume, ReadError,
        callVars, runVars
<1> QED
  BY <1>1, <1>2, TypeCorrect, AnswerInvariant, PTL DEF Spec

\* Snapshot v is not ahead of the providers.
Past(v) == \A p \in Providers : v[p] <= source[p]

\* Everything the manager remembers was read from the providers, and what this
\* run has loaded so far is at least as new as the published snapshot and as
\* what its caller asked for.
PastInv ==
  /\ Past(published)
  /\ \A c \in Calls : Past(asked[c])
  /\ \A i \in 1 .. Len(history) : Past(history[i])

LoadedInv ==
  wpc \in {"load", "publish"} =>
    \A p \in Providers : p < toLoad =>
      /\ published[p] <= loaded[p] /\ loaded[p] <= source[p]
      /\ cur # Event => asked[cur][p] <= loaded[p]

VersionInv == PastInv /\ LoadedInv

\* The history after a publication holds nothing but the replaced snapshot and
\* what it held before.
LEMMA RetainElements ==
  ASSUME NEW S, history \in Seq(S), NEW v \in S
  PROVE  \A i \in 1 .. Len(Retain(v)) :
           Retain(v)[i] = v \/ \E j \in 1 .. Len(history) :
                                 Retain(v)[i] = history[j]
<1>1. CASE Len(history) < HistoryCap
  BY <1>1 DEF Retain
<1>2. CASE HistoryCap = 0
  BY <1>2 DEF Retain
<1>3. CASE ~(Len(history) < HistoryCap) /\ HistoryCap # 0
  <2> DEFINE t == Tail(history)
  <2>1. history # <<>> /\ Retain(v) = Append(t, v)
    BY <1>3, BoundAssumption DEF Retain
  <2>2. /\ t \in Seq(S) /\ Len(t) = Len(history) - 1
        /\ \A i \in 1 .. Len(t) : t[i] = history[i + 1]
    BY <2>1
  <2>3. \A i \in 1 .. Len(t) : i + 1 \in 1 .. Len(history)
    BY <2>2
  <2> HIDE DEF t
  <2>4. \A i \in 1 .. Len(t) + 1 :
          Append(t, v)[i] = v \/ (i \in 1 .. Len(t) /\ Append(t, v)[i] = t[i])
    BY <2>2
  <2>5. Len(Append(t, v)) = Len(t) + 1
    BY <2>2
  <2> QED
    BY <2>1, <2>2, <2>3, <2>4, <2>5
<1> QED
  BY <1>1, <1>2, <1>3

\* No snapshot, asked, loaded or retained, is ahead of the sources, and what the
\* writer loaded is not behind what it replaces.
LEMMA VersionInvariant == Spec => []VersionInv
<1> USE BoundAssumption DEF Providers, Vectors
<1>1. Init => VersionInv
  BY DEF Init, VersionInv, PastInv, LoadedInv, Past
<1>2. TypeOK /\ AnswerInv /\ Stages /\ VersionInv /\ [Next]_vars => VersionInv'
  <2> SUFFICES ASSUME TypeOK, AnswerInv, Stages, VersionInv, [Next]_vars
               PROVE  VersionInv'
    OBVIOUS
  <2>0. /\ TypeCalls /\ TypeWriter /\ TypeProviders /\ ServedOnce
        /\ PastInv /\ LoadedInv
    BY DEF TypeOK, AnswerInv, VersionInv
  <2> USE <2>0
  <2>1. CASE UNCHANGED <<asked, source, wpc, cur, toLoad, loaded, published,
                         history>>
    BY <2>1 DEF VersionInv, PastInv, LoadedInv, Past
  <2>2. ASSUME NEW c \in Calls, Caller(c) PROVE VersionInv'
    <3>1. UNCHANGED <<source, wpc, cur, toLoad, loaded, published, history>>
      BY <2>2, CallerFrame DEF provVars, runVars, snapVars
    <3>2. CASE UNCHANGED asked
      BY <2>1, <3>1, <3>2
    <3>3. CASE Submit(c)
      <4>1. PICK v : asked' = [asked EXCEPT ![c] = v] /\ Past(v)
        <5>1. Past(source)
          BY DEF Past, TypeProviders
        <5> QED
          BY <3>3, <5>1 DEF Submit, PastInv
      <4>2. PastInv'
        BY <3>1, <4>1 DEF PastInv, Past, TypeCalls
      <4>3. wpc \in {"load", "publish"} /\ cur # Event => asked'[cur] = asked[cur]
        BY <3>3, <4>1 DEF Submit, ServedOnce, Serving, Submitted, TypeCalls,
           TypeWriter
      <4>4. LoadedInv'
        BY <3>1, <4>3 DEF LoadedInv
      <4> QED
        BY <4>2, <4>4 DEF VersionInv
    <3> QED
      BY <2>2, <3>2, <3>3 DEF Caller, Enqueue, Receive, GiveUp, Cancel
  <2>3. ASSUME NEW p \in Providers, Change(p) \/ Consumer(p) PROVE VersionInv'
    <3>1. UNCHANGED <<asked, wpc, cur, toLoad, loaded, published, history>>
      BY <2>3, ProviderFrame DEF callVars, runVars, snapVars
    <3>2. \A q \in Providers : source[q] <= source'[q] /\ source'[q] \in Nat
      BY <2>3 DEF Change, Consumer, ConsumerReceive, ConsumerCheck,
         ConsumerOffer, ConsumerToken, ConsumerExit, TypeProviders
    <3>3. \A v \in Vectors : Past(v) => Past(v)'
      BY <3>2 DEF Past, TypeProviders
    <3>4. PastInv'
      <4>1. published \in Vectors /\ \A c \in Calls : asked[c] \in Vectors
        BY DEF TypeWriter, TypeCalls
      <4>2. \A i \in 1 .. Len(history) : history[i] \in Vectors
        <5>1. history \in Seq(Vectors)
          BY DEF TypeWriter
        <5> QED
          BY ONLY <5>1
      <4> QED
        BY <3>1, <3>3, <4>1, <4>2 DEF PastInv
    <3>5. LoadedInv'
      <4>1. loaded \in Vectors /\ source \in Vectors
        BY DEF TypeWriter, TypeProviders
      <4>2. \A q \in Providers : loaded[q] <= source[q] => loaded[q] <= source'[q]
        BY <3>2, <4>1
      <4> QED
        BY <3>1, <4>2 DEF LoadedInv
    <3> QED
      BY <3>4, <3>5 DEF VersionInv
  <2>4. CASE WriterLoop \/ RunOverflowResync
    <3>1. UNCHANGED <<asked, source, published, history>>
          /\ wpc' \notin {"load", "publish"}
      BY <2>4 DEF WriterLoop, LoopTop, LoopPrefer, LoopBlock, LoopAfter,
         LoopGoto, TakeRequest, TakeToken, RunOverflowResync, callVars,
         provVars, snapVars
    <3> QED
      BY <3>1 DEF VersionInv, PastInv, LoadedInv, Past
  <2>5. CASE \/ SubscriberPanics \/ Notified \/ SendError \/ EvictError \/ Reply
             \/ RejectPending
    <3>1. UNCHANGED <<asked, source, published, history>>
          /\ wpc' \notin {"load", "publish"}
      BY <2>5 DEF SubscriberPanics, Notified, SendError, AfterError, EvictError,
         Reply, RejectPending, callVars, provVars, snapVars, TypeWriter
    <3> QED
      BY <3>1 DEF VersionInv, PastInv, LoadedInv, Past
  <2>6. CASE RunFails \/ RunCanceled
    <3>1. UNCHANGED <<asked, source, published, history>>
          /\ wpc' \notin {"load", "publish"}
      BY <2>6 DEF RunFails, RunCanceled, EndFailed, callVars, provVars, snapVars
    <3> QED
      BY <3>1 DEF VersionInv, PastInv, LoadedInv, Past
  <2>7. ASSUME NEW v \in Vectors, Past(v), published' = v,
               history' = history \/ history' = Retain(published),
               UNCHANGED <<asked, source>>, wpc' \in {"notify", "reply"}
        PROVE  VersionInv'
    <3>1. \A i \in 1 .. Len(history') :
             history'[i] = published \/ \E j \in 1 .. Len(history) :
                                          history'[i] = history[j]
      <4>1. history \in Seq(Vectors) /\ published \in Vectors
        BY DEF TypeWriter
      <4>2. CASE history' = history
        BY <4>2
      <4>3. CASE history' = Retain(published)
        <5> HIDE DEF Vectors
        <5> QED  BY <4>1, <4>3, RetainElements
      <4> QED
        BY <2>7, <4>2, <4>3
    <3> QED
      BY <2>7, <3>1 DEF VersionInv, PastInv, LoadedInv, Past
  <2>8. CASE Admit
    <3>1. CASE wpc' = "load"
      BY <2>8, <3>1 DEF Admit, EndFailed, callVars, provVars, snapVars,
         VersionInv, PastInv, LoadedInv, Past
    <3>2. CASE wpc' = "errSend"
      BY <2>8, <3>2 DEF Admit, EndFailed, callVars, provVars, snapVars,
         VersionInv, PastInv, LoadedInv, Past
    <3>3. CASE wpc' = "notify"
      <4>1. cur \in Calls /\ asked[cur] \in Vectors /\ published' = asked[cur]
        BY <2>8, <3>3 DEF Admit, EndFailed, TypeCalls, TypeWriter, Work
      <4>2. Past(asked[cur])
        BY <4>1 DEF PastInv
      <4>3. history' = Retain(published) /\ UNCHANGED <<asked, source>>
        BY <2>8, <3>3 DEF Admit, EndFailed, callVars, provVars
      <4> QED
        BY <2>7, <3>3, <4>1, <4>2, <4>3
    <3> QED
      BY <2>8, <3>1, <3>2, <3>3 DEF Admit, EndFailed
  <2>9. CASE LoadProvider
    <3>1. UNCHANGED <<asked, source, published, history, cur, wpc>>
      BY <2>9 DEF LoadProvider, callVars, provVars, snapVars
    <3>2. PastInv'
      BY <3>1 DEF PastInv, Past
    <3>3. /\ wpc = "load" /\ toLoad \in Providers /\ toLoad' = toLoad + 1
          /\ loaded'[toLoad] = source[toLoad]
          /\ \A p \in Providers : p # toLoad => loaded'[p] = loaded[p]
      BY <2>9 DEF LoadProvider, TypeWriter
    <3>4. \A p \in Providers : p < toLoad' => p = toLoad \/ p < toLoad
      BY <3>3 DEF TypeWriter
    <3>5. /\ published[toLoad] <= source[toLoad]
          /\ cur # Event => asked[cur][toLoad] <= source[toLoad]
          /\ source[toLoad] <= source[toLoad]
      BY <3>3 DEF PastInv, Past, TypeWriter, TypeProviders
    <3>6. LoadedInv'
      BY <3>1, <3>3, <3>4, <3>5 DEF LoadedInv
    <3> QED
      BY <3>2, <3>6 DEF VersionInv
  <2>10. CASE PassPipeline
    <3>1. UNCHANGED <<asked, source, published, history, cur, loaded, toLoad>>
          /\ wpc = "load"
      BY <2>10 DEF PassPipeline, callVars, provVars, snapVars
    <3> QED
      BY <3>1 DEF VersionInv, PastInv, LoadedInv, Past
  <2>11. CASE Publish
    <3>1. toLoad = NProviders + 1 /\ wpc = "publish"
      BY <2>11 DEF Publish, Stages
    <3>2. Past(loaded)
      BY <3>1 DEF LoadedInv, Past
    <3>3. /\ loaded \in Vectors /\ published' = loaded
          /\ wpc' \in {"notify", "reply"}
          /\ history' = history \/ history' = Retain(published)
          /\ UNCHANGED <<asked, source>>
      BY <2>11 DEF Publish, callVars, provVars, TypeWriter
    <3> QED
      BY <2>7, <3>2, <3>3
  <2> QED
    BY <2>1, <2>2, <2>3, <2>4, <2>5, <2>6, <2>8, <2>9, <2>10, <2>11,
       ControlFrame
    DEF Next, Terminated, vars, Writer, callVars, provVars, runVars, snapVars
<1> QED
  BY <1>1, <1>2, TypeCorrect, AnswerInvariant, StagesInvariant, PTL DEF Spec

\* Only a rollback replaces a published version by an older one: reloads, whoever
\* asked for them and however they interleave with changes, never go back.
THEOREM NeverBack == Spec => NoRegression
<1>1. TypeOK /\ Stages /\ VersionInv /\ [Next]_vars =>
        [(\E p \in Providers : published'[p] < published[p])
           => Work(cur) = "rollback"]_vars
  <2> SUFFICES ASSUME TypeOK, Stages, VersionInv, Next,
                      NEW p \in Providers, published'[p] < published[p]
               PROVE  Work(cur) = "rollback"
    BY DEF vars, snapVars
  <2>0. TypeWriter /\ LoadedInv /\ published[p] \in Nat
    BY DEF TypeOK, VersionInv, TypeWriter, Vectors
  <2>1. published' # published
    BY <2>0
  <2>2. Admit \/ Publish
    BY <2>1, CallerFrame, ProviderFrame, ControlFrame
    DEF Next, Terminated, vars, Writer, WriterLoop, RunOverflowResync,
        LoadProvider, RunFails, RunCanceled, PassPipeline, SubscriberPanics,
        Notified, SendError, EvictError, Reply, RejectPending, snapVars
  <2>3. CASE Admit
    BY <2>1, <2>3 DEF Admit, EndFailed, snapVars
  <2>4. CASE Publish
    <3>1. published[p] <= loaded[p] /\ loaded[p] \in Nat
      BY <2>0, <2>4, BoundAssumption
      DEF Publish, Stages, LoadedInv, Providers, TypeWriter, Vectors
    <3>2. published'[p] = loaded[p]
      BY <2>4 DEF Publish
    <3> QED
      BY <2>0, <3>1, <3>2
  <2> QED
    BY <2>2, <2>3, <2>4
<1> QED
  BY <1>1, TypeCorrect, StagesInvariant, VersionInvariant, PTL
  DEF Spec, NoRegression

-----------------------------------------------------------------------------
(* No change is lost.                                                      *)

\* A change of provider p that is not published yet is still on its way: its
\* event, a queued request, the token or a run that has yet to read p stands
\* for it, or it was given up on.
Queued(r) == \E i \in 1 .. Len(reloadCh) : reloadCh[i] = r

Reading(p) == /\ wpc \in {"load", "publish"} /\ Work(cur) = "reload"
              /\ cur = Event \/ owed # {}
              /\ toLoad <= p \/ loaded[p] = source[p]

Tracked(p) ==
  \/ Closed \/ missed # {} \/ published[p] = source[p]
  \/ p \in events \/ cpc[p] \in {"check", "offer", "token"}
  \/ Queued(Event) \/ tokens = 1 \/ wpc = "resync"
  \/ wpc = "admit" /\ cur = Event
  \/ Reading(p)

TrackedInv == \A p \in Providers : Tracked(p)

\* A send on reloadCh keeps the requests that were queued and adds its own.
LEMMA QueuedAppend ==
  ASSUME TypeQueue, NEW r, NEW q, reloadCh' = Append(reloadCh, q),
         Queued(r) \/ r = q
  PROVE  Queued(r)'
<1>1. /\ Len(reloadCh') = Len(reloadCh) + 1 /\ Len(reloadCh) \in Nat
      /\ \A i \in 1 .. Len(reloadCh) : reloadCh'[i] = reloadCh[i]
      /\ reloadCh'[Len(reloadCh) + 1] = q
  BY DEF TypeQueue
<1> QED
  BY <1>1 DEF Queued

\* A receive from reloadCh takes the head only.
LEMMA QueuedTail ==
  ASSUME TypeQueue, reloadCh # <<>>, NEW r, reloadCh' = Tail(reloadCh),
         Queued(r), Head(reloadCh) # r
  PROVE  Queued(r)'
<1>1. PICK i \in 1 .. Len(reloadCh) : reloadCh[i] = r
  BY DEF Queued
<1>2. i # 1 /\ Len(reloadCh) \in Nat
  BY <1>1, TakeTyped DEF TypeQueue
<1>3. i - 1 \in 1 .. Len(reloadCh') /\ reloadCh'[i - 1] = r
  BY <1>1, <1>2, TakeTyped
<1> QED
  BY <1>3 DEF Queued

\* Every change not yet published is on its way, or was given up on.
LEMMA TrackedInvariant == Spec => []TrackedInv
<1>1. Init => TrackedInv
  BY DEF Init, TrackedInv, Tracked
<1>2. TypeOK /\ AnswerInv /\ Stages /\ VersionInv /\ TrackedInv /\ [Next]_vars
        => TrackedInv'
  <2> SUFFICES ASSUME TypeOK, AnswerInv, Stages, VersionInv, [Next]_vars,
                      NEW p \in Providers, Tracked(p)
               PROVE  Tracked(p)'
    BY DEF TrackedInv
  <2>0. /\ TypeCalls /\ TypeQueue /\ TypeProviders /\ TypeWriter /\ TypeGhosts
        /\ ServedOnce /\ PastInv /\ LoadedInv
    BY DEF TypeOK, AnswerInv, VersionInv
  <2>00. NProviders \in Nat /\ p \in 1 .. NProviders
    BY BoundAssumption DEF Providers
  <2> USE <2>0, <2>00, CallsAssumption
  <2>1. ASSUME UNCHANGED <<kind, shutdown, missed, provVars, reloadCh, tokens,
                           wpc, runVars, published>>
        PROVE  Tracked(p)'
    BY <2>1 DEF Tracked, Reading, Queued, Closed, Work, provVars, runVars
  <2>2. ASSUME NEW c \in Calls, Caller(c) PROVE Tracked(p)'
    <3>1. /\ UNCHANGED <<shutdown, missed, source, events, cpc, tokens, wpc, cur,
                         owed, toLoad, loaded, published>>
          /\ Queued(Event) => Queued(Event)'
      <4>1. reloadCh' = reloadCh \/ reloadCh' = Append(reloadCh, c)
        BY <2>2 DEF Caller, Submit, Enqueue, Receive, GiveUp, Cancel
      <4>2. Queued(Event) => Queued(Event)'
        BY <4>1, QueuedAppend DEF Queued
      <4> QED
        BY <2>2, <4>2, CallerFrame DEF provVars, runVars, snapVars
    <3>2. Reading(p) => Work(cur)' = Work(cur)
      <4>1. Reading(p) /\ cur # Event => Submitted(cur) /\ cur \in Calls
        BY DEF Reading, ServedOnce, Serving, TypeWriter
      <4>2. cur \in Calls /\ Submitted(cur) => kind'[cur] = kind[cur]
        BY <2>2 DEF Caller, Submit, Enqueue, Receive, GiveUp, Cancel, Submitted,
           TypeCalls
      <4> QED
        BY <3>1, <4>1, <4>2 DEF Work
    <3> QED
      BY <3>1, <3>2 DEF Tracked, Reading, Closed
  <2>3. ASSUME NEW q \in Providers, Change(q) PROVE Tracked(p)'
    BY <2>3 DEF Change, Tracked, Reading, Queued, Closed, Work, callVars,
       runVars, snapVars, TypeProviders, Vectors
  <2>4. ASSUME NEW q \in Providers, Consumer(q) PROVE Tracked(p)'
    <3>1. UNCHANGED <<kind, shutdown, source, wpc, cur, owed, toLoad, loaded,
                      published>>
      BY <2>4, ProviderFrame DEF Consumer, ConsumerReceive, ConsumerCheck,
         ConsumerOffer, ConsumerToken, ConsumerExit, callVars, runVars, snapVars
    <3>2. (Queued(Event) => Queued(Event)') /\ (tokens = 1 => tokens' = 1)
      BY <2>4, QueuedAppend DEF Consumer, ConsumerReceive, ConsumerCheck,
         ConsumerOffer, ConsumerToken, ConsumerExit, Queued
    <3>3. missed # {} => missed' # {}
      BY <2>4 DEF Consumer, ConsumerReceive, ConsumerCheck, ConsumerOffer,
         ConsumerToken, ConsumerExit
    <3>4. q # p => UNCHANGED cpc[p] /\ (p \in events => p \in events')
      BY <2>4 DEF Consumer, ConsumerReceive, ConsumerCheck, ConsumerOffer,
         ConsumerToken, ConsumerExit, TypeProviders
    <3>5. ASSUME q = p, p \in events \/ cpc[p] \in {"check", "offer", "token"}
          PROVE  Tracked(p)'
      <4>1. CASE ConsumerReceive(p)
        BY <4>1 DEF ConsumerReceive, Tracked, TypeProviders
      <4>2. CASE ConsumerCheck(p)
        BY <4>2 DEF ConsumerCheck, Tracked, TypeProviders, Paused
      <4>3. CASE ConsumerOffer(p)
        BY <4>3, QueuedAppend DEF ConsumerOffer, Tracked, TypeProviders
      <4>4. CASE ConsumerToken(p)
        BY <4>4 DEF ConsumerToken, Tracked
      <4>5. CASE ConsumerExit(p)
        BY <4>5 DEF ConsumerExit, Tracked, Closed
      <4> QED
        BY <2>4, <3>5, <4>1, <4>2, <4>3, <4>4, <4>5 DEF Consumer
    <3> QED
      BY <3>1, <3>2, <3>3, <3>4, <3>5 DEF Tracked, Reading, Closed, Work
  <2>5. CASE Pause \/ PauseDrain \/ Resume \/ Close \/ FinishClose \/ ReadError
    <3>1. UNCHANGED <<kind, reloadCh, provVars, wpc, runVars, published>>
      BY <2>5, ControlFrame DEF callVars, snapVars
    <3>2. /\ Closed => Closed'
          /\ missed # {} => missed' # {}
          /\ tokens = 1 => tokens' = 1 \/ missed' # {}
      BY <2>5 DEF Pause, PauseDrain, Resume, Close, FinishClose, ReadError, Closed
    <3> QED
      BY <3>1, <3>2 DEF Tracked, Reading, Queued, Work, provVars, runVars
  <2>6. CASE WriterLoop
    <3> USE DEF callVars, provVars, snapVars
    <3>1. CASE TakeRequest
      <4>1. Queued(Event) => Queued(Event)' \/ (wpc' = "admit" /\ cur' = Event)
        BY <3>1, QueuedTail DEF TakeRequest
      <4>2. wpc \notin {"resync", "admit", "load", "publish"} /\ tokens' = tokens
        BY <2>6, <3>1 DEF WriterLoop, LoopTop, LoopPrefer, LoopBlock, LoopAfter,
           TakeRequest
      <4> QED
        BY <2>6, <4>1, <4>2 DEF WriterLoop, Tracked, Reading, Closed
    <3>2. CASE TakeToken
      BY <3>2 DEF TakeToken, Tracked
    <3>3. CASE UNCHANGED <<cur, next, reloadCh, tokens>>
      <4>1. wpc \notin {"resync", "admit", "load", "publish"}
        BY <2>6 DEF WriterLoop, LoopTop, LoopPrefer, LoopBlock, LoopAfter
      <4> QED
        BY <2>6, <3>3, <4>1 DEF WriterLoop, Tracked, Reading, Queued, Closed
    <3> QED
      BY <2>6, <3>1, <3>2, <3>3 DEF WriterLoop, LoopTop, LoopPrefer, LoopBlock,
         LoopAfter, LoopGoto
  <2>7. CASE RunOverflowResync
    <3>1. missed' # {} \/ (wpc' = "admit" /\ cur' = Event)
      BY <2>7 DEF RunOverflowResync
    <3> QED
      BY <3>1 DEF Tracked
  <2>8. ASSUME wpc \in {"admit", "load"}, \E e \in Returned : EndFailed(e),
               UNCHANGED <<shutdown, provVars, reloadCh, tokens, published, cur>>
        PROVE  Tracked(p)'
    <3>1. (cur = Event \/ owed # {} \/ missed # {}) => missed' # {}
      BY <2>8 DEF EndFailed
    <3> QED
      BY <2>8, <3>1 DEF Tracked, Reading, Queued, Closed, provVars
  <2>9. CASE Admit
    <3> USE DEF callVars, provVars, snapVars
    <3>1. CASE wpc' = "errSend"
      BY <2>8, <2>9, <3>1 DEF Admit, EndFailed, Returned
    <3>2. CASE wpc' = "notify"
      BY <2>9, <3>2 DEF Admit, EndFailed, Tracked
    <3>3. CASE wpc' = "load"
      <4>1. /\ UNCHANGED <<kind, shutdown, source, events, cpc, reloadCh, tokens,
                           published, cur>>
            /\ wpc = "admit" /\ toLoad' = 1
        BY <2>9, <3>3 DEF Admit, EndFailed
      <4>2. CASE Work(cur) = "reload"
        <5>1. owed' = missed
          BY <2>9, <3>3, <4>2 DEF Admit, EndFailed
        <5> QED
          BY <3>3, <4>1, <4>2, <5>1 DEF Tracked, Reading, Queued, Closed, Work
      <4>3. CASE Work(cur) # "reload"
        <5>1. missed' = missed /\ cur # Event
          BY <2>9, <3>3, <4>3 DEF Admit, EndFailed, Work
        <5> QED
          BY <3>3, <4>1, <5>1 DEF Tracked, Reading, Queued, Closed
      <4> QED
        BY <4>2, <4>3
    <3> QED
      BY <2>9, <3>1, <3>2, <3>3 DEF Admit, EndFailed
  <2>10. CASE RunFails \/ RunCanceled
    BY <2>8, <2>10 DEF RunFails, RunCanceled, Returned, snapVars
  <2>11. CASE LoadProvider
    <3>1. /\ UNCHANGED <<kind, shutdown, source, events, cpc, reloadCh, tokens,
                         published, cur, missed, owed, wpc>>
          /\ wpc = "load" /\ toLoad' = toLoad + 1 /\ toLoad \in Nat
          /\ loaded' = [loaded EXCEPT ![toLoad] = source[toLoad]]
      BY <2>11 DEF LoadProvider, callVars, provVars, snapVars, TypeWriter
    <3>2. Reading(p) => toLoad + 1 <= p \/ loaded'[p] = source[p]
      BY <3>1 DEF Reading, TypeWriter, Vectors, Providers
    <3> QED
      BY <3>1, <3>2 DEF Tracked, Reading, Queued, Closed, Work
  <2>12. CASE PassPipeline
    <3>1. /\ UNCHANGED <<kind, shutdown, source, events, cpc, reloadCh, tokens,
                         published, cur, missed, toLoad, loaded>>
          /\ wpc = "load"
          /\ Work(cur) = "reload" => wpc' = "publish" /\ owed' = owed
      BY <2>12 DEF PassPipeline, callVars, provVars, snapVars, errVars
    <3> QED
      BY <3>1 DEF Tracked, Reading, Queued, Closed, Work
  <2>13. CASE Publish
    <3>1. /\ UNCHANGED <<shutdown, source, events, cpc, reloadCh, tokens, missed>>
          /\ wpc = "publish" /\ published' = loaded /\ toLoad = NProviders + 1
      BY <2>13 DEF Publish, provVars, Stages
    <3>2. /\ published[p] <= loaded[p] /\ loaded[p] <= source[p]
          /\ published[p] \in Nat /\ loaded[p] \in Nat /\ source[p] \in Nat
      BY <3>1 DEF LoadedInv, TypeWriter, TypeProviders, Vectors, Providers
    <3>3. published[p] = source[p] \/ Reading(p) => loaded[p] = source[p]
      BY <3>1, <3>2 DEF Reading
    <3> QED
      BY <3>1, <3>3 DEF Tracked, Queued, Closed
  <2>14. CASE SubscriberPanics \/ Notified \/ SendError \/ EvictError \/ Reply
    <3>1. /\ UNCHANGED <<shutdown, source, events, cpc, reloadCh, tokens, missed,
                         published>>
          /\ wpc \notin {"resync", "admit", "load", "publish"}
      BY <2>14 DEF SubscriberPanics, Notified, SendError, EvictError, Reply, provVars,
         snapVars
    <3> QED
      BY <3>1 DEF Tracked, Reading, Queued, Closed
  <2>15. CASE RejectPending
    BY <2>15 DEF RejectPending, Stages, Tracked, Closed
  <2> QED
    BY <2>1, <2>2, <2>3, <2>4, <2>5, <2>6, <2>7, <2>9, <2>10, <2>11, <2>12,
       <2>13, <2>14, <2>15
    DEF Next, Terminated, vars, Writer, callVars, snapVars
<1> QED
  BY <1>1, <1>2, TypeCorrect, AnswerInvariant, StagesInvariant,
     VersionInvariant, PTL DEF Spec

\* When the manager is quiet and gave nothing up, every change is published.
THEOREM NoLostChange == Spec => []QuiescentFresh
<1>1. TypeOK /\ TrackedInv => QuiescentFresh
  <2> SUFFICES ASSUME TypeOK, TrackedInv, Quiet, missed = {}
               PROVE  published = source
    BY DEF QuiescentFresh
  <2>1. published \in [Providers -> Nat] /\ source \in [Providers -> Nat]
    BY DEF TypeOK, TypeWriter, TypeProviders, Vectors
  <2>2. Len(reloadCh) = 0
    BY DEF Quiet
  <2>3. \A p \in Providers : published[p] = source[p]
    BY <2>2 DEF TrackedInv, Tracked, Reading, Queued, Quiet
  <2> QED
    BY <2>1, <2>3
<1> QED
  BY <1>1, TrackedInvariant, TypeCorrect, PTL

-----------------------------------------------------------------------------
(* A Reload that returned nil is visible.                                  *)

NoRollback == \A d \in Calls : kind[d] # "rollback"

\* The outcome of the run is settled.
Settled == wpc \in {"notify", "errSend", "errEvict", "reply"}

\* The call was told, or is about to be told, that it succeeded.
ToldOk(c) == \/ pc[c] = "ok" \/ doneCh[c] = "ok"
             \/ Settled /\ cur = c /\ err = "ok"

VisibleInv ==
  /\ \A c \in Calls : pc[c] = "idle" => kind[c] = "reload"
  /\ NoRollback => \A c \in Calls : kind[c] = "reload" /\ ToldOk(c) =>
       \A p \in Providers : asked[c][p] <= published[p]

\* Until somebody asks for a rollback, the published snapshot is at least as new
\* as what every successful Reload asked for.
THEOREM ReloadVisible == Spec => []ReadYourWrites
<1>1. Init => VisibleInv
  BY DEF Init, VisibleInv, ToldOk
<1>2. TypeOK /\ AnswerInv /\ Stages /\ VersionInv /\ VisibleInv /\ [Next]_vars
        => VisibleInv'
  <2> SUFFICES ASSUME TypeOK, AnswerInv, Stages, VersionInv, VisibleInv,
                      [Next]_vars
               PROVE  VisibleInv'
    OBVIOUS
  <2>0. /\ TypeCalls /\ TypeProviders /\ TypeWriter /\ AnswerAfterSend
        /\ QueuedOnce /\ ServedOnce /\ LoadedInv
    BY DEF TypeOK, AnswerInv, VersionInv
  <2> USE <2>0, CallsAssumption, BoundAssumption
  <2>1. ASSUME UNCHANGED <<pc, kind, asked, published>>,
               \A c \in Calls : ToldOk(c)' => ToldOk(c)
        PROVE  VisibleInv'
    BY <2>1 DEF VisibleInv, NoRollback
  <2>2. ASSUME UNCHANGED <<callVars, doneCh, published, wpc, cur, err>>
        PROVE  VisibleInv'
    BY <2>1, <2>2 DEF ToldOk, Settled, callVars
  <2>3. ASSUME NEW c \in Calls, Caller(c) PROVE VisibleInv'
    <3>1. UNCHANGED <<published, wpc, cur, err>>
      BY <2>3, CallerFrame DEF runVars, snapVars
    <3>2. CASE Submit(c)
      <4>1. /\ pc[c] = "idle" /\ pc'[c] \in {"sending", "closed"}
            /\ doneCh[c] = "none" /\ doneCh' = doneCh /\ ~(Settled /\ cur = c)
        BY <3>2 DEF Submit, TypeCalls, AnswerAfterSend, ServedOnce, Serving,
           Settled, Submitted
      <4>2. \A d \in Calls :
              d # c => pc'[d] = pc[d] /\ kind'[d] = kind[d] /\ asked'[d] = asked[d]
        BY <3>2 DEF Submit, TypeCalls
      <4>3. ~ToldOk(c)'
        BY <3>1, <4>1 DEF ToldOk, Settled
      <4>4. \A d \in Calls : d # c /\ ToldOk(d)' => ToldOk(d)
        BY <3>1, <4>1, <4>2 DEF ToldOk, Settled
      <4>5. NoRollback' => NoRollback
        BY <4>1, <4>2 DEF NoRollback, VisibleInv
      <4> QED
        BY <3>1, <4>1, <4>2, <4>3, <4>4, <4>5 DEF VisibleInv
    <3>3. CASE Enqueue(c) \/ Receive(c) \/ GiveUp(c) \/ Cancel(c)
      <4>1. UNCHANGED <<kind, asked>>
        BY <3>3 DEF Enqueue, Receive, GiveUp, Cancel
      <4>2. \A d \in Calls : /\ pc'[d] = "idle" => pc[d] = "idle"
                             /\ ToldOk(d)' => ToldOk(d)
        <5>1. CASE Enqueue(c) \/ GiveUp(c) \/ Cancel(c)
          BY <3>1, <5>1 DEF Enqueue, GiveUp, Cancel, ToldOk, Settled, TypeCalls
        <5>2. CASE Receive(c)
          <6>1. /\ doneCh[c] \in Returned /\ pc'[c] = doneCh[c]
                /\ doneCh'[c] = "none"
            BY <5>2 DEF Receive, TypeCalls, Answers
          <6>2. \A d \in Calls : d # c => pc'[d] = pc[d] /\ doneCh'[d] = doneCh[d]
            BY <5>2 DEF Receive, TypeCalls
          <6> QED
            BY <3>1, <6>1, <6>2 DEF ToldOk, Settled, Returned
        <5> QED
          BY <3>3, <5>1, <5>2
      <4>3. \A d \in Calls : pc'[d] = "idle" => kind'[d] = "reload"
        BY <4>1, <4>2 DEF VisibleInv
      <4>4. ASSUME NoRollback', NEW d \in Calls, kind'[d] = "reload", ToldOk(d)',
                   NEW p \in Providers
            PROVE  asked'[d][p] <= published'[p]
        <5>1. NoRollback /\ kind[d] = "reload" /\ ToldOk(d)
          BY <4>1, <4>2, <4>4 DEF NoRollback
        <5> QED
          BY <3>1, <4>1, <5>1 DEF VisibleInv
      <4> QED
        BY <4>3, <4>4 DEF VisibleInv
    <3> QED
      BY <2>3, <3>2, <3>3 DEF Caller
  <2>4. CASE WriterLoop \/ RunOverflowResync \/ LoadProvider
    <3>1. UNCHANGED <<callVars, doneCh, published>> /\ ~Settled'
      BY <2>4 DEF WriterLoop, LoopTop, LoopPrefer, LoopBlock, LoopAfter,
         LoopGoto, TakeRequest, TakeToken, RunOverflowResync, LoadProvider,
         Settled, snapVars
    <3> QED
      BY <2>1, <3>1 DEF ToldOk, callVars
  <2>5. CASE RunFails \/ RunCanceled
    <3>1. UNCHANGED <<callVars, doneCh, published>> /\ err' # "ok"
      BY <2>5 DEF RunFails, RunCanceled, EndFailed, snapVars
    <3> QED
      BY <2>1, <3>1 DEF ToldOk, callVars
  <2>6. CASE Admit
    <3>1. CASE wpc' = "notify"
      <4>1. cur \in Calls /\ kind[cur] = "rollback" /\ UNCHANGED <<pc, kind>>
        BY <2>6, <3>1 DEF Admit, EndFailed, Work, callVars, TypeWriter
      <4> QED
        BY <4>1 DEF VisibleInv, NoRollback
    <3>2. CASE wpc' # "notify"
      <4>1. UNCHANGED <<callVars, doneCh, published>> /\ (wpc' = "load" \/ err' # "ok")
        BY <2>6, <3>2 DEF Admit, EndFailed, snapVars
      <4> QED
        BY <2>1, <4>1 DEF ToldOk, Settled, callVars
    <3> QED
      BY <3>1, <3>2
  <2>7. CASE PassPipeline
    <3>1. UNCHANGED <<callVars, doneCh, published, cur>>
      BY <2>7 DEF PassPipeline, snapVars
    <3>2. Settled' => kind[cur] # "reload" \/ cur = Event
      BY <2>7 DEF PassPipeline, EndOk, Settled, Work
    <3>3. \A c \in Calls : kind[c] = "reload" /\ ToldOk(c)' => ToldOk(c)
      BY <3>1, <3>2 DEF ToldOk, callVars
    <3> QED
      BY <3>1, <3>3 DEF VisibleInv, NoRollback, callVars
  <2>8. CASE Publish
    <3>1. UNCHANGED <<pc, kind, asked, doneCh, cur>> /\ published' = loaded
          /\ wpc = "publish" /\ toLoad = NProviders + 1
      BY <2>8 DEF Publish, callVars, Stages
    <3>2. \A p \in Providers :
            /\ published[p] <= loaded[p] /\ (cur # Event => asked[cur][p] <= loaded[p])
            /\ published[p] \in Nat /\ loaded[p] \in Nat
      BY <3>1 DEF LoadedInv, Providers, TypeWriter, Vectors
    <3>3. \A c \in Calls, p \in Providers : asked[c][p] \in Nat
      BY DEF TypeCalls, Vectors
    <3>4. \A c \in Calls : ToldOk(c)' => ToldOk(c) \/ c = cur
      BY <3>1 DEF ToldOk
    <3> QED
      BY <3>1, <3>2, <3>3, <3>4 DEF VisibleInv, NoRollback
  <2>9. CASE SubscriberPanics \/ Notified \/ SendError \/ EvictError
    <3>1. UNCHANGED <<callVars, doneCh, published, cur, err>> /\ Settled
      BY <2>9 DEF SubscriberPanics, Notified, SendError, EvictError, Settled, runVars,
         snapVars
    <3> QED
      BY <2>1, <3>1 DEF ToldOk, callVars
  <2>10. CASE Reply
    <3>1. UNCHANGED <<callVars, published>> /\ Settled /\ ~Settled'
      BY <2>10 DEF Reply, Settled, snapVars, TypeWriter
    <3>2. \A c \in Calls : doneCh'[c] = doneCh[c] \/ (c = cur /\ doneCh'[c] = err)
      BY <2>10 DEF Reply, Answer, TypeCalls
    <3> QED
      BY <2>1, <3>1, <3>2 DEF ToldOk, callVars
  <2>11. CASE RejectPending
    <3>1. UNCHANGED <<callVars, published>> /\ ~Settled'
      BY <2>11 DEF RejectPending, Settled, snapVars
    <3>2. \A c \in Calls : doneCh'[c] = doneCh[c] \/ doneCh'[c] = "closed"
      BY <2>11 DEF RejectPending, Answer, TypeCalls
    <3> QED
      BY <2>1, <3>1, <3>2 DEF ToldOk, callVars
  <2> QED
    BY <2>2, <2>3, <2>4, <2>5, <2>6, <2>7, <2>8, <2>9, <2>10, <2>11,
       ProviderFrame, ControlFrame
    DEF Next, Terminated, vars, Writer, runVars, snapVars
<1>3. VisibleInv => ReadYourWrites
  BY DEF VisibleInv, NoRollback, ToldOk, ReadYourWrites
<1> QED
  BY <1>1, <1>2, <1>3, TypeCorrect, AnswerInvariant, StagesInvariant,
     VersionInvariant, PTL DEF Spec
=============================================================================
