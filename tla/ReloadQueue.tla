----------------------------- MODULE ReloadQueue -----------------------------
(***************************************************************************)
(* The single writer of a fastconf Manager and everything that hands it    *)
(* work (reload_queue.go, reload.go, plan.go, provider_watch.go,           *)
(* file_watch.go, manager.go).                                             *)
(*                                                                         *)
(* API calls (Reload, Plan, History.Rollback) put a request on the bounded *)
(* channel reloadCh and wait for an answer on a channel of their own.      *)
(* Provider watch events put a request nobody waits for; when reloadCh is  *)
(* full they leave one overflow token instead.  The writer goroutine       *)
(* (reloadLoop) serves requests and tokens one at a time, publishes a      *)
(* snapshot or an error, and answers.  Shutdown may come at any moment.    *)
(*                                                                         *)
(* A provider's content is abstracted to a version that only grows, a      *)
(* snapshot to the vector of the versions it was built from.               *)
(***************************************************************************)
EXTENDS Integers, Sequences

CONSTANTS Calls,       \* API calls, each made at most once
          Event,       \* a request without doneCh: a provider event or a resync
          Kinds,       \* the kinds of API call that are made
          NProviders,  \* number of watched providers, in load order
          QueueCap,    \* reloadChanCap
          ErrCap,      \* errorsChanCap
          HistoryCap,  \* capacity of the history ring, 0 when it is disabled
          MaxVersion,  \* bound on the changes of one provider
          MaxPauses,   \* bound on the calls of Pause
          MaxFails     \* bound on failing loads, stages and subscribers

AllKinds == {"reload", "badOption", "plan", "rollback"}

ASSUME CallsAssumption == Event \notin Calls
ASSUME KindsAssumption == Kinds \subseteq AllKinds
ASSUME CapAssumption == QueueCap \in Nat \ {0} /\ ErrCap \in Nat \ {0}
ASSUME BoundAssumption == /\ NProviders \in Nat /\ MaxVersion \in Nat
                          /\ MaxPauses \in Nat  /\ MaxFails \in Nat
                          /\ HistoryCap \in Nat

Providers == 1 .. NProviders
Vectors == [Providers -> Nat]
Returned == {"ok", "failed", "canceled", "closed"}
Answers == {"none"} \cup Returned
GiveUps == {"pause", "failure", "rollback"}

VARIABLES
  pc,         \* Calls -> where submitAndWait stands, or what it returned
  kind,       \* Calls -> the kind of the call
  asked,      \* Calls -> versions current at the call; Rollback: of its target
  canceled,   \* the calls whose context is canceled
  doneCh,     \* Calls -> content of the answer channel (capacity 1)
  reloadCh,   \* the request channel
  tokens,     \* number of tokens in overflowResyncCh (capacity 1)
  pausing,    \* eventsPaused: "no"; "storing" until Pause has drained; "yes"
  shutdown,   \* "no", "draining" (lifetime canceled), "errorsClosed", "done"
  source,     \* Providers -> the provider's current version
  events,     \* the providers whose watch channel holds an event
  cpc,        \* Providers -> where consumeProviderEvents stands
  wpc,        \* where the writer stands
  cur,        \* the request being served
  next,       \* where reloadLoop continues after it
  toLoad,     \* the next provider assemble loads
  loaded,     \* versions loaded so far by this run
  err,        \* the error of this run
  published,  \* the versions of the published snapshot
  history,    \* the snapshots published before it, at most HistoryCap
  errs,       \* errorsCh: the numbers of the errors it holds
  errSeq,     \* how many errors were published
  pauses, fails,
  missed,     \* ghost: why changes were given up on since the last reload
  owed,       \* ghost: missed as it was when the current reload started
  bypass      \* ghost: resyncs started while the head of reloadCh waited, and
              \*   requests started while a token waited

callVars == <<pc, kind, asked, canceled>>
pauseVars == <<pausing, pauses>>
provVars == <<source, events, cpc>>
runVars == <<cur, next, toLoad, loaded, err, fails, owed>>
snapVars == <<published, history>>
errVars == <<errs, errSeq>>
vars == <<callVars, doneCh, reloadCh, tokens, pauseVars, shutdown, provVars,
          wpc, runVars, snapVars, errVars, missed, bypass>>

Closed == shutdown # "no"
Paused == pausing # "no"

\* Mistake: the channel is made one longer than its bound.
HasRoomOneMore == Len(reloadCh) <= QueueCap

\* A send on reloadCh does not block.
HasRoom == Len(reloadCh) < QueueCap

\* The history after the snapshot v is replaced (SnapshotStore has the ring).
Retain(v) == IF Len(history) < HistoryCap
               THEN Append(history, v)
               ELSE IF HistoryCap = 0 THEN history ELSE Append(Tail(history), v)

\* What the writer does for a request: an event and a resync are reloads.
Work(r) == IF r = Event THEN "reload" ELSE kind[r]

Init ==
  /\ pc = [c \in Calls |-> "idle"] /\ kind = [c \in Calls |-> "reload"]
  /\ asked = [c \in Calls |-> [p \in Providers |-> 0]]
  /\ canceled = {} /\ doneCh = [c \in Calls |-> "none"]
  /\ reloadCh = <<>> /\ tokens = 0 /\ pausing = "no" /\ pauses = 0
  /\ shutdown = "no"
  /\ source = [p \in Providers |-> 0] /\ events = {}
  /\ cpc = [p \in Providers |-> "recv"]
  /\ wpc = "top" /\ cur = Event /\ next = "top" /\ toLoad = 1
  /\ loaded = [p \in Providers |-> 0] /\ err = "ok" /\ fails = 0
  /\ published = [p \in Providers |-> 0] /\ history = <<>>
  /\ errs = <<>> /\ errSeq = 0
  /\ missed = {} /\ owed = {} /\ bypass = [request |-> 0, token |-> 0]

-----------------------------------------------------------------------------
(* The callers: submitAndWait.                                             *)

\* A call starts; a closed manager refuses it at once.  Rollback names a
\* snapshot it found in the history.
Submit(c) ==
  /\ pc[c] = "idle"
  /\ \E k \in Kinds :
       /\ kind' = [kind EXCEPT ![c] = k]
       /\ IF k = "rollback"
            THEN \E i \in 1 .. Len(history) :
                   asked' = [asked EXCEPT ![c] = history[i]]
            ELSE asked' = [asked EXCEPT ![c] = source]
  /\ pc' = [pc EXCEPT ![c] = IF Closed THEN "closed" ELSE "sending"]
  /\ UNCHANGED <<canceled, doneCh, reloadCh, tokens, pauseVars, shutdown,
                 provVars, wpc, runVars, snapVars, errVars, missed, bypass>>

\* Mistake: a Reload runs on the caller's goroutine and publishes what it saw.
EnqueueInline(c) ==
  /\ pc[c] = "sending"
  /\ published' = asked[c]
  /\ pc' = [pc EXCEPT ![c] = "ok"]
  /\ UNCHANGED <<kind, asked, canceled, doneCh, reloadCh, tokens, pauseVars,
                 shutdown, provVars, wpc, runVars, history, errVars, missed,
                 bypass>>

Enqueue(c) ==
  /\ pc[c] = "sending" /\ HasRoom
  /\ reloadCh' = Append(reloadCh, c)
  /\ pc' = [pc EXCEPT ![c] = "waiting"]
  /\ UNCHANGED <<kind, asked, canceled, doneCh, tokens, pauseVars, shutdown,
                 provVars, wpc, runVars, snapVars, errVars, missed, bypass>>

Receive(c) ==
  /\ pc[c] = "waiting" /\ doneCh[c] # "none"
  /\ pc' = [pc EXCEPT ![c] = doneCh[c]]
  /\ doneCh' = [doneCh EXCEPT ![c] = "none"]
  /\ UNCHANGED <<kind, asked, canceled, reloadCh, tokens, pauseVars, shutdown,
                 provVars, wpc, runVars, snapVars, errVars, missed, bypass>>

\* Mistake: a caller that leaves answers its own request.
GiveUpAnswering(c) ==
  /\ pc[c] = "waiting" /\ c \in canceled
  /\ pc' = [pc EXCEPT ![c] = "canceled"]
  /\ doneCh' = [doneCh EXCEPT ![c] = "canceled"]
  /\ UNCHANGED <<kind, asked, canceled, reloadCh, tokens, pauseVars, shutdown,
                 provVars, wpc, runVars, snapVars, errVars, missed, bypass>>

\* Mistake: once the request is sent, the wait does not watch the lifetime.
GiveUpDeaf(c) ==
  /\ pc[c] \in {"sending", "waiting"}
  /\ \/ Closed /\ pc[c] = "sending" /\ pc' = [pc EXCEPT ![c] = "closed"]
     \/ c \in canceled /\ pc' = [pc EXCEPT ![c] = "canceled"]
  /\ UNCHANGED <<kind, asked, canceled, doneCh, reloadCh, tokens, pauseVars,
                 shutdown, provVars, wpc, runVars, snapVars, errVars, missed,
                 bypass>>

\* The caller leaves on shutdown or on its own context; a request it sent
\* stays where it is.
GiveUp(c) ==
  /\ pc[c] \in {"sending", "waiting"}
  /\ \/ Closed /\ pc' = [pc EXCEPT ![c] = "closed"]
     \/ c \in canceled /\ pc' = [pc EXCEPT ![c] = "canceled"]
  /\ UNCHANGED <<kind, asked, canceled, doneCh, reloadCh, tokens, pauseVars,
                 shutdown, provVars, wpc, runVars, snapVars, errVars, missed,
                 bypass>>

\* Rollback runs under context.Background and cannot be canceled.
Cancel(c) ==
  /\ pc[c] \in {"sending", "waiting"} /\ kind[c] # "rollback"
  /\ c \notin canceled
  /\ canceled' = canceled \cup {c}
  /\ UNCHANGED <<pc, kind, asked, doneCh, reloadCh, tokens, pauseVars, shutdown,
                 provVars, wpc, runVars, snapVars, errVars, missed, bypass>>

-----------------------------------------------------------------------------
(* The providers and consumeProviderEvents, one goroutine per provider.    *)

\* External: the provider's content changes and its watch reports it.
Change(p) ==
  /\ source[p] < MaxVersion
  /\ source' = [source EXCEPT ![p] = @ + 1]
  /\ events' = events \cup {p}
  /\ UNCHANGED <<callVars, doneCh, reloadCh, tokens, pauseVars, shutdown, cpc,
                 wpc, runVars, snapVars, errVars, missed, bypass>>

ConsumerReceive(p) ==
  /\ cpc[p] = "recv" /\ p \in events
  /\ events' = events \ {p}
  /\ cpc' = [cpc EXCEPT ![p] = "check"]
  /\ UNCHANGED <<callVars, doneCh, reloadCh, tokens, pauseVars, shutdown,
                 source, wpc, runVars, snapVars, errVars, missed, bypass>>

\* A paused manager ignores the event.
ConsumerCheck(p) ==
  /\ cpc[p] = "check"
  /\ cpc' = [cpc EXCEPT ![p] = IF Paused THEN "recv" ELSE "offer"]
  /\ missed' = IF Paused THEN missed \cup {"pause"} ELSE missed
  /\ UNCHANGED <<callVars, doneCh, reloadCh, tokens, pauseVars, shutdown,
                 source, events, wpc, runVars, snapVars, errVars, bypass>>

\* The non-blocking send of the request.
ConsumerOffer(p) ==
  /\ cpc[p] = "offer"
  /\ IF HasRoom
       THEN /\ reloadCh' = Append(reloadCh, Event)
            /\ cpc' = [cpc EXCEPT ![p] = "recv"]
       ELSE /\ reloadCh' = reloadCh
            /\ cpc' = [cpc EXCEPT ![p] = "token"]
  /\ UNCHANGED <<callVars, doneCh, tokens, pauseVars, shutdown, source, events,
                 wpc, runVars, snapVars, errVars, missed, bypass>>

\* Mistake: the event is dropped and no token is left.
ConsumerTokenForgotten(p) ==
  /\ cpc[p] = "token"
  /\ cpc' = [cpc EXCEPT ![p] = "recv"]
  /\ UNCHANGED <<callVars, doneCh, reloadCh, tokens, pauseVars, shutdown,
                 source, events, wpc, runVars, snapVars, errVars, missed,
                 bypass>>

\* The non-blocking send of the token that stands for the dropped request.
ConsumerToken(p) ==
  /\ cpc[p] = "token"
  /\ tokens' = 1
  /\ cpc' = [cpc EXCEPT ![p] = "recv"]
  /\ UNCHANGED <<callVars, doneCh, reloadCh, pauseVars, shutdown, source,
                 events, wpc, runVars, snapVars, errVars, missed, bypass>>

ConsumerExit(p) ==
  /\ cpc[p] = "recv" /\ Closed
  /\ cpc' = [cpc EXCEPT ![p] = "exited"]
  /\ UNCHANGED <<callVars, doneCh, reloadCh, tokens, pauseVars, shutdown,
                 source, events, wpc, runVars, snapVars, errVars, missed,
                 bypass>>

-----------------------------------------------------------------------------
(* Pause, which is two steps, Resume, Shutdown and the reader of Errors(). *)

Pause ==
  /\ pausing # "storing" /\ pauses < MaxPauses
  /\ pausing' = "storing" /\ pauses' = pauses + 1
  /\ UNCHANGED <<callVars, doneCh, reloadCh, tokens, shutdown, provVars, wpc,
                 runVars, snapVars, errVars, missed, bypass>>

PauseDrain ==
  /\ pausing = "storing" /\ pausing' = "yes"
  /\ tokens' = 0
  /\ missed' = IF tokens = 1 THEN missed \cup {"pause"} ELSE missed
  /\ bypass' = [bypass EXCEPT !.token = 0]
  /\ UNCHANGED <<callVars, doneCh, reloadCh, pauses, shutdown, provVars,
                 wpc, runVars, snapVars, errVars>>

Resume ==
  /\ pausing = "yes" /\ pausing' = "no"
  /\ UNCHANGED <<callVars, doneCh, reloadCh, tokens, pauses, shutdown,
                 provVars, wpc, runVars, snapVars, errVars, missed, bypass>>

\* Shutdown cancels the manager's lifetime.
Close ==
  /\ shutdown = "no" /\ shutdown' = "draining"
  /\ UNCHANGED <<callVars, doneCh, reloadCh, tokens, pauseVars, provVars, wpc,
                 runVars, snapVars, errVars, missed, bypass>>

\* finishClose waits for every background goroutine, closes errorsCh and then
\* closeDone.
FinishClose ==
  /\ \/ /\ shutdown = "draining"
        /\ wpc = "exited" /\ \A p \in Providers : cpc[p] = "exited"
        /\ shutdown' = "errorsClosed"
     \/ shutdown = "errorsClosed" /\ shutdown' = "done"
  /\ UNCHANGED <<callVars, doneCh, reloadCh, tokens, pauseVars, provVars, wpc,
                 runVars, snapVars, errVars, missed, bypass>>

ReadError ==
  /\ errs # <<>> /\ errs' = Tail(errs)
  /\ UNCHANGED <<callVars, doneCh, reloadCh, tokens, pauseVars, shutdown,
                 provVars, wpc, runVars, snapVars, errSeq, missed, bypass>>

-----------------------------------------------------------------------------
(* The writer: reloadLoop.                                                 *)

\* The writer receives the request at the head of reloadCh.
TakeRequest ==
  /\ reloadCh # <<>>
  /\ cur' = Head(reloadCh) /\ reloadCh' = Tail(reloadCh)
  /\ next' = "after" /\ wpc' = "admit"
  /\ bypass' = [request |-> 0,
                token |-> IF tokens = 1 THEN bypass.token + 1 ELSE 0]
  /\ UNCHANGED tokens

\* The writer takes the overflow token before it loads anything.
TakeToken ==
  /\ tokens = 1 /\ tokens' = 0
  /\ wpc' = "resync"
  /\ bypass' = [request |-> IF reloadCh = <<>> THEN bypass.request
                                               ELSE bypass.request + 1,
                token |-> 0]
  /\ UNCHANGED <<cur, next, reloadCh>>

LoopGoto(w) == wpc' = w /\ UNCHANGED <<cur, next, reloadCh, tokens, bypass>>

\* Mistake: the loop blocks at once, without the preferring select.
LoopTopUnfair == wpc = "top" /\ LoopGoto(IF Closed THEN "reject" ELSE "block")

\* Shutdown is looked at first.
LoopTop == wpc = "top" /\ LoopGoto(IF Closed THEN "reject" ELSE "prefer")

\* An ordinary request is preferred when one is ready.
LoopPrefer ==
  /\ wpc = "prefer"
  /\ TakeRequest \/ (reloadCh = <<>> /\ LoopGoto("block"))

\* Mistake: the blocking select does not watch the lifetime.
LoopBlockDeaf == wpc = "block" /\ (TakeRequest \/ TakeToken)

\* Otherwise the writer blocks on all three channels.
LoopBlock ==
  /\ wpc = "block"
  /\ (Closed /\ LoopGoto("reject")) \/ TakeRequest \/ TakeToken

\* Mistake: the loop goes round without the select on the token.
LoopAfterForgetting == wpc = "after" /\ LoopGoto("top")

\* After an ordinary request one pending token is served.
LoopAfter ==
  /\ wpc = "after"
  /\ TakeToken \/ (tokens = 0 /\ LoopGoto("top"))

WriterLoop ==
  /\ LoopTop \/ LoopPrefer \/ LoopBlock \/ LoopAfter
  /\ UNCHANGED <<callVars, doneCh, pauseVars, shutdown, provVars, toLoad,
                 loaded, err, fails, owed, snapVars, errVars, missed>>

\* Mistake: the resync is skipped when an ordinary request is queued anyway.
RunOverflowResyncLazy ==
  /\ wpc = "resync"
  /\ IF Paused \/ Closed \/ reloadCh # <<>>
       THEN wpc' = "top" /\ UNCHANGED <<cur, next, missed>>
       ELSE wpc' = "admit" /\ cur' = Event /\ next' = "top" /\ missed' = missed
  /\ UNCHANGED <<callVars, doneCh, reloadCh, tokens, pauseVars, shutdown,
                 provVars, toLoad, loaded, err, fails, owed, snapVars, errVars,
                 bypass>>

\* runOverflowResync gives the token up when paused or closed.
RunOverflowResync ==
  /\ wpc = "resync"
  /\ IF Paused \/ Closed
       THEN /\ wpc' = "top" /\ missed' = missed \cup {"pause"}
            /\ UNCHANGED <<cur, next>>
       ELSE wpc' = "admit" /\ cur' = Event /\ next' = "top" /\ missed' = missed
  /\ UNCHANGED <<callVars, doneCh, reloadCh, tokens, pauseVars, shutdown,
                 provVars, toLoad, loaded, err, fails, owed, snapVars, errVars,
                 bypass>>

\* The run ends with an error, which goes to Errors() before the answer.  The
\* change it was to publish is given up on when nobody is told.
EndFailed(e) ==
  /\ err' = e /\ wpc' = "errSend" /\ errSeq' = errSeq + 1
  /\ missed' = missed \cup owed \cup (IF cur = Event THEN {"failure"} ELSE {})
  /\ owed' = {}

EndOk == err' = "ok" /\ wpc' = "reply" /\ owed' = {}

\* runReloadRequest: dead requests are skipped, then req.run or reload.
Admit ==
  /\ wpc = "admit"
  /\ \/ /\ Closed \/ cur \in canceled
        /\ EndFailed("canceled")
        /\ UNCHANGED <<toLoad, snapVars>>
     \/ /\ ~Closed /\ cur \notin canceled
        /\ Work(cur) = "badOption"
        /\ EndFailed("failed")
        /\ UNCHANGED <<toLoad, snapVars>>
     \/ /\ ~Closed /\ cur \notin canceled
        /\ Work(cur) = "rollback"
        /\ published' = asked[cur] /\ history' = Retain(published)
        /\ missed' = missed \cup {"rollback"}
        /\ wpc' = "notify" /\ err' = "ok" /\ owed' = {}
        /\ UNCHANGED <<toLoad, errSeq>>
     \/ /\ ~Closed /\ cur \notin canceled
        /\ Work(cur) \in {"reload", "plan"}
        /\ wpc' = "load" /\ toLoad' = 1
        /\ IF Work(cur) = "reload" THEN owed' = missed /\ missed' = {}
                                   ELSE UNCHANGED <<owed, missed>>
        /\ UNCHANGED <<err, snapVars, errSeq>>
  /\ UNCHANGED <<callVars, doneCh, reloadCh, tokens, pauseVars, shutdown,
                 provVars, cur, next, loaded, fails, errs, bypass>>

\* Mistake: the last published layer of a provider is reused.
LoadProviderCached ==
  /\ wpc = "load" /\ toLoad <= NProviders
  /\ loaded' = [loaded EXCEPT ![toLoad] = published[toLoad]]
  /\ toLoad' = toLoad + 1
  /\ UNCHANGED <<callVars, doneCh, reloadCh, tokens, pauseVars, shutdown,
                 provVars, wpc, cur, next, err, fails, owed, snapVars, errVars,
                 missed, bypass>>

\* assembleProviderLayers calls Load on one provider after the other.
LoadProvider ==
  /\ wpc = "load" /\ toLoad <= NProviders
  /\ loaded' = [loaded EXCEPT ![toLoad] = source[toLoad]]
  /\ toLoad' = toLoad + 1
  /\ UNCHANGED <<callVars, doneCh, reloadCh, tokens, pauseVars, shutdown,
                 provVars, wpc, cur, next, err, fails, owed, snapVars, errVars,
                 missed, bypass>>

\* A Load, a stage, the decoder, a validator or a policy fails.
RunFails ==
  /\ wpc = "load" /\ fails < MaxFails
  /\ fails' = fails + 1
  /\ EndFailed("failed")
  /\ UNCHANGED <<callVars, doneCh, reloadCh, tokens, pauseVars, shutdown,
                 provVars, cur, next, toLoad, loaded, snapVars, errs, bypass>>

\* The pipeline sees that the caller's context or the lifetime is canceled.
RunCanceled ==
  /\ wpc = "load" /\ (Closed \/ cur \in canceled)
  /\ EndFailed("canceled")
  /\ UNCHANGED <<callVars, doneCh, reloadCh, tokens, pauseVars, shutdown,
                 provVars, cur, next, toLoad, loaded, fails, snapVars, errs,
                 bypass>>

\* The last look at the context before publication.  context.AfterFunc tells
\* the pipeline of a shutdown only after a while.
PassPipeline ==
  /\ wpc = "load" /\ toLoad > NProviders /\ cur \notin canceled
  /\ IF Work(cur) = "reload" THEN wpc' = "publish" /\ UNCHANGED <<err, owed>>
                             ELSE EndOk  \* a plan publishes nothing
  /\ UNCHANGED <<callVars, doneCh, reloadCh, tokens, pauseVars, shutdown,
                 provVars, cur, next, toLoad, loaded, fails, snapVars, errVars,
                 missed, bypass>>

\* commit publishes a changed value; an equal one is skipped.
Publish ==
  /\ wpc = "publish" /\ err' = "ok" /\ owed' = {}
  /\ published' = loaded
  /\ IF loaded = published
       THEN wpc' = "reply" /\ UNCHANGED history
       ELSE wpc' = "notify" /\ history' = Retain(published)
  /\ UNCHANGED <<callVars, doneCh, reloadCh, tokens, pauseVars, shutdown,
                 provVars, cur, next, toLoad, loaded, fails, errVars, missed,
                 bypass>>

\* notifySubscribers (module SnapshotStore): a callback that panics is reported
\* on Errors() and the round goes on.
SubscriberPanics ==
  /\ wpc = "notify" /\ fails < MaxFails
  /\ fails' = fails + 1
  /\ wpc' = "errSend" /\ errSeq' = errSeq + 1
  /\ UNCHANGED <<callVars, doneCh, reloadCh, tokens, pauseVars, shutdown,
                 provVars, cur, next, toLoad, loaded, err, owed, snapVars, errs,
                 missed, bypass>>

Notified ==
  /\ wpc = "notify" /\ wpc' = "reply"
  /\ UNCHANGED <<callVars, doneCh, reloadCh, tokens, pauseVars, shutdown,
                 provVars, runVars, snapVars, errVars, missed, bypass>>

AfterError == IF err = "ok" THEN "notify" ELSE "reply"

\* Mistake: a full errorsCh drops the new error.
SendErrorDropping ==
  /\ wpc = "errSend" /\ wpc' = AfterError
  /\ errs' = IF Len(errs) < ErrCap THEN Append(errs, errSeq) ELSE errs
  /\ UNCHANGED <<callVars, doneCh, reloadCh, tokens, pauseVars, shutdown,
                 provVars, runVars, snapVars, errSeq, missed, bypass>>

\* publishReloadError: send, or evict the oldest and try again.
SendError ==
  /\ wpc = "errSend"
  /\ IF Len(errs) < ErrCap
       THEN errs' = Append(errs, errSeq) /\ wpc' = AfterError
       ELSE errs' = errs /\ wpc' = "errEvict"
  /\ UNCHANGED <<callVars, doneCh, reloadCh, tokens, pauseVars, shutdown,
                 provVars, runVars, snapVars, errSeq, missed, bypass>>

\* Mistake: the slot is made at the end of the queue.
EvictErrorNewest ==
  /\ wpc = "errEvict" /\ wpc' = "errSend"
  /\ errs' = IF errs = <<>> THEN errs ELSE SubSeq(errs, 1, Len(errs) - 1)
  /\ UNCHANGED <<callVars, doneCh, reloadCh, tokens, pauseVars, shutdown,
                 provVars, runVars, snapVars, errSeq, missed, bypass>>

EvictError ==
  /\ wpc = "errEvict" /\ wpc' = "errSend"
  /\ errs' = IF errs = <<>> THEN errs ELSE Tail(errs)
  /\ UNCHANGED <<callVars, doneCh, reloadCh, tokens, pauseVars, shutdown,
                 provVars, runVars, snapVars, errSeq, missed, bypass>>

\* The answer to a waiting call; the send blocks if the channel is full.
Answer(r, a) ==
  \/ r = Event /\ UNCHANGED doneCh
  \/ /\ r \in Calls /\ doneCh[r] = "none"
     /\ doneCh' = [doneCh EXCEPT ![r] = a]

Reply ==
  /\ wpc = "reply" /\ Answer(cur, err)
  /\ wpc' = next
  \* the run's locals are gone
  /\ cur' = Event /\ toLoad' = 1 /\ err' = "ok"
  /\ loaded' = [p \in Providers |-> 0]
  /\ UNCHANGED <<callVars, reloadCh, tokens, pauseVars, shutdown, provVars,
                 next, fails, owed, snapVars, errVars, missed, bypass>>

\* rejectPendingReloads answers what is queued, then the writer returns.
RejectPending ==
  /\ wpc = "reject"
  /\ \/ /\ reloadCh # <<>> /\ Answer(Head(reloadCh), "closed")
        /\ reloadCh' = Tail(reloadCh) /\ wpc' = wpc
     \/ reloadCh = <<>> /\ wpc' = "exited" /\ UNCHANGED <<doneCh, reloadCh>>
  /\ UNCHANGED <<callVars, tokens, pauseVars, shutdown, provVars, runVars,
                 snapVars, errVars, missed, bypass>>

-----------------------------------------------------------------------------

Caller(c) == Submit(c) \/ Enqueue(c) \/ Receive(c) \/ GiveUp(c) \/ Cancel(c)

Consumer(p) == \/ ConsumerReceive(p) \/ ConsumerCheck(p) \/ ConsumerOffer(p)
               \/ ConsumerToken(p) \/ ConsumerExit(p)

Writer == \/ WriterLoop \/ RunOverflowResync \/ Admit \/ LoadProvider
          \/ RunFails \/ RunCanceled \/ PassPipeline \/ Publish
          \/ SubscriberPanics \/ Notified \/ SendError \/ EvictError \/ Reply \/ RejectPending

\* The manager is closed and every call has returned.
Terminated ==
  /\ shutdown = "done" /\ \A c \in Calls : pc[c] \in Returned
  /\ UNCHANGED vars

Next == \/ \E c \in Calls : Caller(c)
        \/ \E p \in Providers : Change(p) \/ Consumer(p)
        \/ Pause \/ PauseDrain \/ Resume \/ Close \/ FinishClose \/ ReadError
        \/ Writer \/ Terminated

Spec == Init /\ [][Next]_vars

\* Goroutines keep running, callers keep selecting; nobody has to call, pause,
\* cancel, close, read errors or change a source.
Fairness ==
  /\ \A c \in Calls : WF_vars(Enqueue(c) \/ Receive(c) \/ GiveUp(c))
  /\ \A p \in Providers : WF_vars(Consumer(p))
  /\ WF_vars(PauseDrain) /\ WF_vars(FinishClose) /\ WF_vars(Writer)

FairSpec == Spec /\ Fairness

-----------------------------------------------------------------------------
(* What the code promises.                                                 *)

TypeCalls ==
  /\ pc \in [Calls -> {"idle", "sending", "waiting"} \cup Returned]
  /\ kind \in [Calls -> AllKinds] /\ asked \in [Calls -> Vectors]
  /\ canceled \subseteq Calls /\ doneCh \in [Calls -> Answers]

TypeQueue ==
  /\ reloadCh \in Seq(Calls \cup {Event}) /\ Len(reloadCh) <= QueueCap
  /\ tokens \in 0 .. 1
  /\ pausing \in {"no", "storing", "yes"} /\ pauses \in Nat
  /\ shutdown \in {"no", "draining", "errorsClosed", "done"}

TypeProviders ==
  /\ source \in Vectors /\ events \subseteq Providers
  /\ cpc \in [Providers -> {"recv", "check", "offer", "token", "exited"}]

TypeWriter ==
  /\ wpc \in {"top", "prefer", "block", "after", "resync", "admit", "load",
             "publish", "notify", "errSend", "errEvict", "reply", "reject",
             "exited"}
  /\ cur \in Calls \cup {Event} /\ next \in {"top", "after"}
  /\ toLoad \in 1 .. NProviders + 1 /\ loaded \in Vectors /\ err \in Returned
  /\ published \in Vectors /\ history \in Seq(Vectors) /\ fails \in Nat

TypeErrors == errs \in Seq(Nat) /\ Len(errs) <= ErrCap /\ errSeq \in Nat

TypeGhosts == /\ missed \subseteq GiveUps /\ owed \subseteq GiveUps
              /\ bypass \in [request : Nat, token : Nat]

\* Every variable has its type; the queue, the answer channels and errorsCh
\* stay within their capacities.
TypeOK == /\ TypeCalls /\ TypeQueue /\ TypeProviders
          /\ TypeWriter /\ TypeErrors /\ TypeGhosts

Quiet == /\ ~Closed /\ reloadCh = <<>> /\ tokens = 0
         /\ wpc \in {"top", "prefer", "block", "after"}
         /\ events = {} /\ \A p \in Providers : cpc[p] = "recv"

\* No change is lost between the watch channels, the queue, the overflow token
\* and the writer: when all of them are idle and nothing was given up on (an
\* event ignored by Pause, a failed run, a rollback), the published snapshot
\* has every provider's current version (spec.md: "stable valid sources
\* converge").
QuiescentFresh == Quiet /\ missed = {} => published = source

\* A Reload that returned nil is visible: until somebody asks for a rollback,
\* the published snapshot has at least the versions that were current when the
\* Reload was called, whatever ran before, meanwhile and since.
ReadYourWrites ==
  (\A d \in Calls : kind[d] # "rollback") =>
    \A c \in Calls : pc[c] = "ok" /\ kind[c] = "reload" =>
      \A p \in Providers : asked[c][p] <= published[p]

\* The writer never blocks on an answer channel: whenever it is about to answer
\* a call (Reply, or RejectPending for any queued call), the buffered doneCh of
\* that call is empty, even if the caller left long ago.
ReplyNeverBlocks ==
  /\ wpc \in {"admit", "load", "publish", "notify", "errSend", "errEvict", "reply"}
       /\ cur # Event => doneCh[cur] = "none"
  /\ \A i \in 1 .. Len(reloadCh) :
       reloadCh[i] # Event => doneCh[reloadCh[i]] = "none"

\* "At most one compensating reload runs between ordinary requests, avoiding
\* starvation": while a request waits, at most one overflow resync overtakes it.
AtMostOneBypass == bypass.request <= 1

\* The other way round, a stream of requests does not starve the token: while
\* it stands for a dropped change, reloadLoop starts at most one request before
\* it takes the token, although reloadCh is preferred and never runs empty.
ResyncServedNext == bypass.token <= 1

Newest(es, n) == \A i \in 1 .. Len(es) : es[i] = n - Len(es) + i

Sent == IF wpc \in {"errSend", "errEvict"} THEN errSeq - 1 ELSE errSeq

\* errorsCh holds the newest errors in order without a hole: only the oldest
\* are evicted, whatever its reader takes between a failed send and the
\* eviction.
ErrorsNewest == Newest(errs, Sent)

\* "No two reload pipelines ever interleave": only a rollback ever replaces a
\* published version by an older one.
NoRegression ==
  [][(\E p \in Providers : published'[p] < published[p])
       => Work(cur) = "rollback"]_vars

\* Every call returns, whatever the state of the queue and even if the writer
\* is gone by the time the request is sent ("Close never strands callers").
CallsReturn ==
  \A c \in Calls : pc[c] \in {"sending", "waiting"} ~> pc[c] \in Returned

\* A Shutdown completes: every goroutine exits and closeDone is closed.
CloseCompletes == Closed ~> shutdown = "done"

\* Sources that stop changing are eventually published, provided that nothing
\* fails, nobody pauses and the manager stays open.
Converges == <>[](Closed \/ missed # {} \/ published = source)

\* Everybody who waits for the writer returns: the callers, and Shutdown.
EveryoneReturns == CallsReturn /\ CloseCompletes
=============================================================================
