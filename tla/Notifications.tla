---------------------------- MODULE Notifications ----------------------------
(***************************************************************************)
(* The consumers of change notifications: integrations/notify sns,         *)
(* azservicebus and pubsub, which refresh before they settle a message,    *)
(* and providers/s3/s3events, which turns messages into watch events.  The *)
(* refresh loads the object of module ObjectLoads.  Message n announces    *)
(* version n of the object; message 0 does not match or cannot be parsed.  *)
(* sns and azservicebus handle one message at a time, as handler 1, while  *)
(* loader 2 is the application's own; pubsub's callbacks overlap; for      *)
(* s3events loader 2 is the manager that consumes the events.              *)
(***************************************************************************)
EXTENDS ObjectLoads

CONSTANTS EventCap,   \* capacity of the channel of s3events; 16 in the code
          MaxDups     \* bound on duplicate deliveries and on ended runs

ASSUME NotifyAssumption == EventCap \in Nat \ {0} /\ MaxDups \in Nat

VARIABLES
  nkind,     \* "sns", "azservicebus", "pubsub" or "s3events"
  noise,     \* message 0: "other" or "malformed"
  msgs,      \* each message: "none", "queued", "flight" (delivered, not settled), "gone"
  handler,   \* each handler: [pc, msg]
  events,    \* events of s3events that the manager has not consumed
  dups       \* duplicates and ended runs so far

notifyVars == <<nkind, noise, msgs, handler, events, dups>>
deliveryVars == <<objVars, notifyVars>>

Messages == 0 .. MaxObj
Free == [pc |-> "idle", msg |-> 0]
Handlers == IF nkind = "pubsub" THEN Loaders ELSE {1}

\* Which consumer is told of the changes of which object.
NotifyInit ==
  /\ ObjInit
  /\ \E pair \in {<<"sns", "s3">>, <<"sns", "appconfig">>, <<"s3events", "s3">>,
                 <<"azservicebus", "azblob">>, <<"pubsub", "gcs">>} :
       nkind = pair[1] /\ okind = pair[2]
  /\ noise \in {"other", "malformed"}
  /\ msgs = [m \in Messages |-> IF m = 0 THEN "queued" ELSE "none"]
  /\ handler = [h \in Loaders |-> Free] /\ events = 0 /\ dups = 0

\* The object changes and the service queues a message.
Announce ==
  /\ \E decodable \in BOOLEAN : ObjChanges(decodable)
  /\ msgs' = [msgs EXCEPT ![over + 1] = "queued"]
  /\ UNCHANGED <<nkind, noise, handler, events, dups>>

\* The service delivers a message once more.
Duplicate(m) ==
  /\ msgs[m] = "flight" /\ dups < MaxDups /\ dups' = dups + 1
  /\ msgs' = [msgs EXCEPT ![m] = "queued"]
  /\ UNCHANGED <<objVars, nkind, noise, handler, events>>

Held(m) == \E h \in Handlers : handler[h].pc # "idle" /\ handler[h].msg = m

\* A message nobody works on becomes visible again.
Redeliver(m) ==
  /\ msgs[m] = "flight" /\ ~Held(m)
  /\ msgs' = [msgs EXCEPT ![m] = "queued"]
  /\ UNCHANGED <<objVars, nkind, noise, handler, events, dups>>

Deliver(h, m) ==
  /\ handler[h].pc = "idle" /\ msgs[m] = "queued"
  /\ msgs' = [msgs EXCEPT ![m] = "flight"]
  /\ handler' = [handler EXCEPT ![h] = [pc |-> "match", msg |-> m]]
  /\ UNCHANGED <<objVars, nkind, noise, events, dups>>

RunReceives(h, m) == nkind # "s3events" /\ Deliver(h, m)
PollReceives(h, m) == nkind = "s3events" /\ Deliver(h, m)
ReceiveMessage(h, m) == RunReceives(h, m) \/ PollReceives(h, m)

Goto(h, pc) == handler' = [handler EXCEPT ![h].pc = pc]
Leave(h) == handler' = [handler EXCEPT ![h] = Free]

-----------------------------------------------------------------------------
(* sns, azservicebus, pubsub.                                              *)

\* An unrelated message is settled; one that cannot be parsed is reported.
MatchNoise(h) ==
  /\ nkind # "s3events" /\ handler[h].pc = "match" /\ handler[h].msg = 0
  /\ Goto(h, IF noise = "other" THEN "settle" ELSE "refuse")
  /\ UNCHANGED <<objVars, nkind, noise, msgs, events, dups>>

\* Mistake: the message is settled while the refresh has only begun.
StartRefreshEarly(h) ==
  /\ nkind # "s3events" /\ handler[h].pc = "match" /\ handler[h].msg # 0
  /\ ObjBegin(h) /\ Goto(h, "settle")
  /\ UNCHANGED <<nkind, noise, msgs, events, dups>>

StartRefresh(h) ==
  /\ nkind # "s3events" /\ handler[h].pc = "match" /\ handler[h].msg # 0
  /\ ObjBegin(h) /\ Goto(h, "refresh")
  /\ UNCHANGED <<nkind, noise, msgs, events, dups>>

\* The refresh has returned; a deadline that passed meanwhile makes it a failure.
EndRefresh(h) ==
  /\ handler[h].pc = "refresh" /\ oload[h].pc = "idle"
  /\ \/ oload[h].out # 0 /\ Goto(h, "settle") /\ UNCHANGED ofails
     \/ oload[h].out = 0 /\ Goto(h, "refuse") /\ UNCHANGED ofails
     \/ ObjRequestFails /\ Goto(h, "refuse")
  /\ UNCHANGED <<okind, over, obad, gate, cache, oload, app, loaded>>
  /\ UNCHANGED <<nkind, noise, msgs, events, dups>>

\* DeleteMessageBatch, CompleteMessage or Ack; a failure is reported at most.
Settles(h) ==
  /\ handler[h].pc = "settle" /\ Leave(h)
  /\ \/ msgs' = [msgs EXCEPT ![handler[h].msg] = "gone"] /\ UNCHANGED ofails
     \/ ObjRequestFails /\ UNCHANGED msgs
  /\ UNCHANGED <<okind, over, obad, gate, cache, oload, app, loaded>>
  /\ UNCHANGED <<nkind, noise, events, dups>>

\* Mistake: a message whose refresh failed is dropped.
RefuseDropping(h) ==
  /\ handler[h].pc = "refuse" /\ Leave(h)
  /\ msgs' = [msgs EXCEPT ![handler[h].msg] = "gone"]
  /\ UNCHANGED <<objVars, nkind, noise, events, dups>>

Settle(h) == nkind # "s3events" /\ Settles(h)

\* sns leaves the message to its visibility timeout; azservicebus abandons it and
\* pubsub refuses it, which makes it visible at once.
Refuse(h) ==
  /\ handler[h].pc = "refuse" /\ Leave(h)
  /\ msgs' = IF nkind = "sns" THEN msgs ELSE [msgs EXCEPT ![handler[h].msg] = "queued"]
  /\ UNCHANGED <<objVars, nkind, noise, events, dups>>

\* Run ends, on a receive error or with its context, and is called again: the
\* message in hand stays unsettled.
RunEnds(h) ==
  /\ handler[h].pc # "idle" /\ oload[h].pc = "idle" /\ dups < MaxDups
  /\ dups' = dups + 1 /\ Leave(h)
  /\ UNCHANGED <<objVars, nkind, noise, msgs, events>>

-----------------------------------------------------------------------------
(* s3events: poll forwards events and deletes the messages afterwards.     *)

\* What does not match is left in the queue.
SkipNoise(h) ==
  /\ nkind = "s3events" /\ handler[h].pc = "match" /\ handler[h].msg = 0 /\ Leave(h)
  /\ UNCHANGED <<objVars, nkind, noise, msgs, events, dups>>

\* The send waits for room in the channel.
Emit(h) ==
  /\ nkind = "s3events" /\ handler[h].pc = "match" /\ handler[h].msg # 0
  /\ events < EventCap /\ events' = events + 1
  /\ Goto(h, "settle")
  /\ UNCHANGED <<objVars, nkind, noise, msgs, dups>>

\* A failed deletion is not even reported.
Ack(h) == nkind = "s3events" /\ Settles(h)

\* The manager consumes an event: a load.
ConsumeEvent ==
  /\ nkind = "s3events" /\ events > 0 /\ events' = events - 1 /\ ObjBegin(2)
  /\ UNCHANGED <<nkind, noise, msgs, handler, dups>>

\* The application loads on its own, appconfig periodically.
LoadUnasked ==
  /\ nkind # "s3events" /\ handler[2].pc = "idle" /\ ObjBegin(2) /\ UNCHANGED notifyVars

-----------------------------------------------------------------------------

Handles(h) == \/ \E m \in Messages : ReceiveMessage(h, m)
              \/ MatchNoise(h) \/ StartRefresh(h) \/ EndRefresh(h) \/ Settle(h)
              \/ Refuse(h) \/ SkipNoise(h) \/ Emit(h) \/ Ack(h)
LoadRuns(l) == LoadSteps(l) /\ UNCHANGED notifyVars

NotifyNext ==
  \/ Announce \/ LoadUnasked \/ ConsumeEvent
  \/ AppPollDue /\ UNCHANGED notifyVars
  \/ \E m \in Messages : Duplicate(m) \/ Redeliver(m)
  \/ \E h \in Handlers : Handles(h) \/ RunEnds(h)
  \/ \E l \in Loaders : LoadRuns(l) \/ (ObjGivesUp(l) /\ UNCHANGED notifyVars)

\* The service redelivers, polls fall due, Run is supervised and appconfig is
\* reloaded periodically; a message is not overtaken for ever by another.
NotifyFairness ==
  /\ \A m \in Messages : WF_deliveryVars(Redeliver(m))
  /\ \A m \in Messages : SF_deliveryVars(\E h \in Handlers : ReceiveMessage(h, m))
  /\ \A h \in Loaders :
       WF_deliveryVars(h \in Handlers /\ Handles(h)) /\ WF_deliveryVars(LoadRuns(h))
  /\ WF_deliveryVars(ConsumeEvent) /\ WF_deliveryVars(AppPollDue /\ UNCHANGED notifyVars)
  /\ WF_deliveryVars(okind = "appconfig" /\ LoadUnasked)

-----------------------------------------------------------------------------

\* Every variable has its type, the channel of s3events its capacity, and the gate
\* is held by a caller that is inside Load.
NotifyTypeOK ==
  /\ over \in 1 .. MaxObj /\ obad \subseteq 2 .. MaxObj /\ loaded \in 0 .. MaxObj
  /\ ofails \in 0 .. MaxObjFails /\ dups \in 0 .. MaxDups /\ events \in 0 .. EventCap
  /\ cache \in [doc : 0 .. MaxObj, rev : 0 .. MaxObj]
  /\ gate # 0 => oload[gate].pc \in {"ask", "sent", "read", "got"}
  /\ \A l \in Loaders : oload[l].pc \in {"idle", "wait", "ask", "sent", "read", "got"}
  /\ \A h \in Loaders : handler[h].pc \in {"idle", "match", "refresh", "settle", "refuse"}

\* A message that is gone has done its work: its version, or a later one, has been
\* loaded, or for s3events an event still asks for it or the load after the event
\* failed.  appconfig may answer from its cache: a notification cannot force an
\* early poll.
SettledIsLoaded ==
  \A v \in 2 .. MaxObj :
    msgs[v] = "gone" =>
      \/ loaded >= v \/ okind = "appconfig"
      \/ nkind = "s3events" /\ (events > 0 \/ oload[2].pc # "idle" \/ oload[2].out = 0)

\* A version that stays and decodes is loaded in the end, through failed refreshes
\* and deletions, ended runs and redeliveries.
AnnouncedLoaded ==
  <>[](\/ over \in obad \/ loaded = over \/ over = 1
       \/ nkind = "s3events" /\ oload[2].out = 0)

\* Overlapping loads of one object stay coherent: content and revision belong together,
\* no one-time token is sent twice, and where a gate serializes loads that ask for a
\* version (azblob and gcs) nothing older than the call is returned.
LoadsCoherent == NotifyTypeOK /\ RevisionPaired /\ LoadFresh /\ TokenOnce
=============================================================================
