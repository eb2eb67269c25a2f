------------------------------ MODULE Observers ------------------------------
(***************************************************************************)
(* What becomes of the manager's events: observe.Multi hands each one to   *)
(* an AsyncObserver (observe/observe.go) and to the event bus of fastconfd *)
(* (cmd/fastconfd/event_bus.go), whose clients stream them.  Emitter 1 is  *)
(* the writer, which commits; emitter 2 reports provider errors.  A client *)
(* that is told of a commit reads the configuration.                       *)
(***************************************************************************)
EXTENDS Integers, Sequences

CONSTANTS Clients,      \* the clients of /events
          QueueCap,     \* queueCap of Async
          ClientCap,    \* capacity of a client's channel; 8 in the code
          MaxEvents     \* bound on the events emitted

ASSUME ObserverAssumption ==
  QueueCap \in Nat \ {0} /\ ClientCap \in Nat \ {0} /\ MaxEvents \in Nat

Emitters == {1, 2}

VARIABLES
  emitted,             \* the events so far; their numbers
  gen,                 \* the number of the last commit
  emitter,             \* each emitter: [pc, ev]
  queue, qclosed,      \* a.ch and whether it is closed
  closing,             \* Close: "open", "wait" (for done), "closed"
  target,              \* the run goroutine: the event it delivers, 0 none, -1 ended
  accepted, delivered, \* the events sent to a.ch and those the target has seen
  dropped,             \* a.dropped
  client               \* each client: [on, chan, seen]

observerVars == <<emitted, gen, emitter, queue, qclosed, closing, target,
                  accepted, delivered, dropped, client>>

Silent == [pc |-> "idle", ev |-> 0]
Away == [on |-> 0, chan |-> 0, seen |-> 0]

ObserverInit ==
  /\ emitted = 0 /\ gen = 0 /\ emitter = [e \in Emitters |-> Silent]
  /\ queue = <<>> /\ qclosed = 0 /\ closing = "open" /\ target = 0
  /\ accepted = <<>> /\ delivered = <<>> /\ dropped = 0
  /\ client = [c \in Clients |-> Away]

-----------------------------------------------------------------------------
(* AsyncObserver.                                                          *)

\* An event happens, for emitter 1 a commit.
Happen(e) ==
  /\ emitter[e].pc = "idle" /\ emitted < MaxEvents /\ emitted' = emitted + 1
  /\ emitter' = [emitter EXCEPT ![e] = [pc |-> "observe", ev |-> emitted + 1]]
  /\ gen' = IF e = 1 THEN emitted + 1 ELSE gen
  /\ UNCHANGED <<queue, qclosed, closing, target, accepted, delivered, dropped, client>>

After(e) == IF e = 1 THEN [emitter[e] EXCEPT !.pc = "publish"] ELSE Silent

\* Observe takes the lock shared and looks at closed.
ObserveLock(e) ==
  /\ emitter[e].pc = "observe"
  /\ IF closing = "open"
       THEN emitter' = [emitter EXCEPT ![e].pc = "send"] /\ UNCHANGED dropped
       ELSE emitter' = [emitter EXCEPT ![e] = After(e)] /\ dropped' = dropped + 1
  /\ UNCHANGED <<emitted, gen, queue, qclosed, closing, target, accepted, delivered, client>>

\* The send that does not wait, and the unlock.
ObserveSend(e) ==
  /\ emitter[e].pc = "send" /\ emitter' = [emitter EXCEPT ![e] = After(e)]
  /\ IF Len(queue) < QueueCap
       THEN /\ queue' = Append(queue, emitter[e].ev)
            /\ accepted' = Append(accepted, emitter[e].ev) /\ UNCHANGED dropped
       ELSE dropped' = dropped + 1 /\ UNCHANGED <<queue, accepted>>
  /\ UNCHANGED <<emitted, gen, qclosed, closing, target, delivered, client>>

\* Mistake: Close does not wait for the observers inside.
CloseUnlocked ==
  /\ closing = "open" /\ closing' = "wait" /\ qclosed' = 1
  /\ UNCHANGED <<emitted, gen, emitter, queue, target, accepted, delivered, dropped, client>>

\* Close takes the lock alone and closes the channel.
CloseObserver ==
  /\ closing = "open" /\ \A e \in Emitters : emitter[e].pc # "send"
  /\ closing' = "wait" /\ qclosed' = 1
  /\ UNCHANGED <<emitted, gen, emitter, queue, target, accepted, delivered, dropped, client>>

\* Mistake: Close returns at once.
CloseReturnsAtOnce ==
  /\ closing = "wait" /\ closing' = "closed"
  /\ UNCHANGED <<emitted, gen, emitter, queue, qclosed, target, accepted, delivered, dropped, client>>

CloseReturns ==
  /\ closing = "wait" /\ target = -1 /\ closing' = "closed"
  /\ UNCHANGED <<emitted, gen, emitter, queue, qclosed, target, accepted, delivered, dropped, client>>

\* run: take an event; end once the channel is closed and empty.
RunTakes ==
  /\ target = 0
  /\ \/ queue # <<>> /\ target' = Head(queue) /\ queue' = Tail(queue)
     \/ queue = <<>> /\ qclosed = 1 /\ target' = -1 /\ UNCHANGED queue
  /\ UNCHANGED <<emitted, gen, emitter, qclosed, closing, accepted, delivered, dropped, client>>

TargetObserves ==
  /\ target > 0 /\ delivered' = Append(delivered, target) /\ target' = 0
  /\ UNCHANGED <<emitted, gen, emitter, queue, qclosed, closing, accepted, dropped, client>>

-----------------------------------------------------------------------------
(* The event bus.                                                          *)

\* Mistake: a client that is behind ends the round.
PublishStopping ==
  /\ emitter[1].pc = "publish" /\ emitter' = [emitter EXCEPT ![1] = Silent]
  /\ client' = [c \in Clients |->
                  IF client[c].on = 1 /\ ~(\E d \in Clients : client[d].chan = ClientCap)
                    THEN [client[c] EXCEPT !.chan = @ + 1] ELSE client[c]]
  /\ UNCHANGED <<emitted, gen, queue, qclosed, closing, target, accepted, delivered, dropped>>

\* A commit is sent to every subscriber that has room.
Publish ==
  /\ emitter[1].pc = "publish" /\ emitter' = [emitter EXCEPT ![1] = Silent]
  /\ client' = [c \in Clients |->
                  IF client[c].on = 1 /\ client[c].chan < ClientCap
                    THEN [client[c] EXCEPT !.chan = @ + 1] ELSE client[c]]
  /\ UNCHANGED <<emitted, gen, queue, qclosed, closing, target, accepted, delivered, dropped>>

\* The handshake is done after subscribe, and the client reads.
SubscribeClient(c) ==
  /\ client[c].on = 0 /\ client' = [client EXCEPT ![c] = [on |-> 1, chan |-> 0, seen |-> gen]]
  /\ UNCHANGED <<emitted, gen, emitter, queue, qclosed, closing, target, accepted, delivered, dropped>>

StreamToClient(c) ==
  /\ client[c].on = 1 /\ client[c].chan > 0
  /\ client' = [client EXCEPT ![c].chan = @ - 1, ![c].seen = gen]
  /\ UNCHANGED <<emitted, gen, emitter, queue, qclosed, closing, target, accepted, delivered, dropped>>

UnsubscribeClient(c) ==
  /\ client[c].on = 1 /\ client' = [client EXCEPT ![c] = Away]
  /\ UNCHANGED <<emitted, gen, emitter, queue, qclosed, closing, target, accepted, delivered, dropped>>

ObserverNext ==
  \/ \E e \in Emitters : Happen(e) \/ ObserveLock(e) \/ ObserveSend(e)
  \/ CloseObserver \/ CloseReturns \/ RunTakes \/ TargetObserves \/ Publish
  \/ \E c \in Clients : SubscribeClient(c) \/ StreamToClient(c) \/ UnsubscribeClient(c)

-----------------------------------------------------------------------------

\* Nothing is sent to the closed channel: that would panic the emitter.
NoSendClosed == qclosed = 1 => \A e \in Emitters : emitter[e].pc # "send"

\* Every event is delivered in the order it was accepted or counted as dropped;
\* when Close has returned nothing accepted is outstanding.
ObserverAccounts ==
  /\ delivered = SubSeq(accepted, 1, Len(delivered))
  /\ closing = "closed" => delivered = accepted
  /\ (\A e \in Emitters : emitter[e].pc \notin {"observe", "send"}) =>
       Len(accepted) + dropped = emitted

\* A client whose event was dropped still learns of the commit: it has an older
\* event to handle, and reads the newer configuration then.
ClientsTold ==
  \A c \in Clients :
    client[c].on = 1 => \/ client[c].seen = gen \/ client[c].chan > 0
                        \/ emitter[1].pc \in {"observe", "send", "publish"}

\* Events are delivered, counted as dropped or covered by an older one: nothing is sent
\* after the close, and no client is left with an old configuration.
EventsAccounted == NoSendClosed /\ ObserverAccounts /\ ClientsTold
=============================================================================
