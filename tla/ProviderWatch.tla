----------------------------- MODULE ProviderWatch -----------------------------
(***************************************************************************)
(* The manager's side of a provider (provider_watch.go): the loop that     *)
(* subscribes, consumes events, remembers revisions and subscribes again,  *)
(* and the writer's calls of Load.  The modules StreamProvider,            *)
(* ConsulProvider, HTTPProvider and VaultProvider add the provider's side. *)
(* The queue between the two is module ReloadQueue's; here it is a bit.    *)
(* The manager is not paused.                                              *)
(***************************************************************************)
EXTENDS Integers, Sequences

CONSTANTS Cap,         \* the channel's capacity: 1, or 4 for vault and 16 for a stream
          MaxVer,      \* bound on the versions of the remote document
          MaxFails     \* bound on failing requests and lost connections

ASSUME RemoteAssumption == Cap \in Nat \ {0} /\ MaxVer \in Nat \ {0} /\ MaxFails \in Nat

VARIABLES
  kind,      \* which provider
  ver, bad,  \* the remote document: its version, the versions not decodable
  srv,       \* what else the server keeps, by kind
  fails,     \* the failures so far
  ctx,       \* 1 when the manager's lifetime has ended
  wpc,       \* runProviderWatcher: "off", "watch", "sleep", "consume", "done"
  revision,  \* the provider's entry in the revisionTable, 0 for ""
  ch, sub,   \* the subscription's channel; 1 while its sender has not closed it
  want,      \* 1 when a reload is requested
  lpc, resp, \* the writer in Load: where it stands, the server's answer
  since,     \* the remote version when this Load began, 0 outside
  served,    \* the version the last successful Load returned, -1 before
  prov       \* the provider's own state, by kind

sourceVars == <<ver, bad, srv>>
watchVars == <<wpc, revision, ch, sub>>
loadVars == <<want, lpc, resp, since, served>>
remoteVars == <<kind, sourceVars, fails, ctx, watchVars, loadVars, prov>>

NoAnswer == [doc |-> 0, tag |-> 0, same |-> 0]

\* New loads once before it starts the watchers.
RemoteInit ==
  /\ bad = {} /\ fails = 0 /\ ctx = 0
  /\ wpc = "off" /\ revision = 0 /\ ch = <<>> /\ sub = 0
  /\ want = 1 /\ lpc = "idle" /\ resp = NoAnswer /\ since = 0 /\ served = -1

Upto(n, m) == IF n >= m THEN n ELSE m

-----------------------------------------------------------------------------
(* The remote document.                                                    *)

\* Somebody replaces it, perhaps by something the decoder rejects.
SourceChanges(decodable) ==
  /\ ver < MaxVer /\ ver' = ver + 1
  /\ bad' = IF decodable THEN bad ELSE bad \cup {ver + 1}

\* A request fails.
RequestFails == fails < MaxFails /\ fails' = fails + 1

-----------------------------------------------------------------------------
(* Loads.                                                                  *)

\* The writer begins the reload that was asked for.
BeginLoad ==
  /\ want = 1 /\ lpc = "idle" /\ ctx = 0
  /\ want' = 0 /\ lpc' = "load" /\ since' = ver
  /\ UNCHANGED <<kind, sourceVars, fails, ctx, watchVars, resp, served, prov>>

\* The application asks for a reload, or calls New again after it failed.
AskReload ==
  /\ want = 0 /\ ctx = 0 /\ want' = 1
  /\ UNCHANGED <<kind, sourceVars, fails, ctx, watchVars, lpc, resp, since, served, prov>>

LoadReturns(doc) == lpc' = "idle" /\ served' = doc /\ resp' = NoAnswer /\ since' = 0
LoadErrs == lpc' = "idle" /\ resp' = NoAnswer /\ since' = 0 /\ UNCHANGED served
Answered(answer) == lpc' = "got" /\ resp' = answer /\ UNCHANGED <<since, served>>

\* What a step of Load leaves alone.
DuringLoad == UNCHANGED <<kind, sourceVars, ctx, watchVars, want>>

-----------------------------------------------------------------------------
(* runProviderWatcher and consumeProviderEvents.                           *)

DuringWatch == UNCHANGED <<kind, sourceVars, ctx, lpc, resp, since, served>>

StartWatcher ==
  /\ wpc = "off" /\ served # -1 /\ ctx = 0 /\ wpc' = "watch"
  /\ UNCHANGED <<fails, revision, ch, sub, want, prov>> /\ DuringWatch

\* Watch returns an error: back off and try again.
WatchErrs ==
  /\ wpc = "watch" /\ ctx = 0 /\ RequestFails /\ wpc' = "sleep"
  /\ UNCHANGED <<revision, ch, sub, want, prov>> /\ DuringWatch

\* Watch returns no channel: the provider opts out.
WatchOptsOut ==
  /\ wpc = "watch" /\ ctx = 0 /\ wpc' = "done"
  /\ UNCHANGED <<fails, revision, ch, sub, want, prov>> /\ DuringWatch

\* Watch returns a channel; the provider now is in state p.
WatchOpens(p) ==
  /\ wpc = "watch" /\ ctx = 0
  /\ wpc' = "consume" /\ ch' = <<>> /\ sub' = 1 /\ prov' = p
  /\ UNCHANGED <<fails, revision, want>> /\ DuringWatch

Wake ==
  /\ wpc = "sleep" /\ ctx = 0 /\ wpc' = "watch"
  /\ UNCHANGED <<fails, revision, ch, sub, want, prov>> /\ DuringWatch

\* The revision is remembered unless it is empty.
RememberRevision(ev) == IF ev.rev = 0 THEN revision ELSE ev.rev

\* Mistake: an event with a gap is only reported.
ReceiveGapReported ==
  /\ wpc = "consume" /\ ch # <<>>
  /\ revision' = RememberRevision(Head(ch))
  /\ ch' = Tail(ch) /\ want' = IF Head(ch).gap = 1 THEN want ELSE 1
  /\ UNCHANGED <<fails, wpc, sub, prov>> /\ DuringWatch

\* An event is consumed: a gap is reported, and a reload requested in any case.
Receive ==
  /\ wpc = "consume" /\ ch # <<>>
  /\ revision' = RememberRevision(Head(ch))
  /\ ch' = Tail(ch) /\ want' = 1
  /\ UNCHANGED <<fails, wpc, sub, prov>> /\ DuringWatch

\* The channel is closed and drained: subscribe again after a pause.
ChannelCloses ==
  /\ wpc = "consume" /\ ch = <<>> /\ sub = 0 /\ ctx = 0 /\ wpc' = "sleep"
  /\ UNCHANGED <<fails, revision, ch, sub, want, prov>> /\ DuringWatch

\* Mistake: the pause does not look at the context.
WatcherExitsAwake ==
  /\ ctx = 1 /\ wpc \notin {"off", "done", "sleep"} /\ wpc' = "done"
  /\ UNCHANGED <<fails, revision, ch, sub, want, prov>> /\ DuringWatch

\* The loop sees the end of the manager's lifetime.
WatcherExits ==
  /\ ctx = 1 /\ wpc \notin {"off", "done"} /\ wpc' = "done"
  /\ UNCHANGED <<fails, revision, ch, sub, want, prov>> /\ DuringWatch

LifetimeEnds ==
  /\ ctx = 0 /\ served # -1 /\ ctx' = 1
  /\ UNCHANGED <<kind, sourceVars, fails, watchVars, loadVars, prov>>

\* Mistake: the sender does not look whether there is room.
OfferAlways(ev) == ch' = Append(ch, ev)

\* A provider's goroutine offers an event; a full channel drops it.
Offer(ev) == ch' = IF Len(ch) < Cap THEN Append(ch, ev) ELSE ch

Event(rev, gap) == [rev |-> rev, gap |-> gap]

\* What a step of the provider's goroutine leaves alone.
DuringPoll == UNCHANGED <<kind, sourceVars, ctx, wpc, revision, loadVars>>

WatcherSteps == StartWatcher \/ Wake \/ Receive \/ ChannelCloses \/ WatcherExits
RemoteNext == BeginLoad \/ WatcherSteps \/ AskReload \/ LifetimeEnds

-----------------------------------------------------------------------------

\* Every variable of the manager's side has its type, and no subscription's
\* channel is longer than the capacity the provider made it with.
RemoteTypeOK ==
  /\ ver \in 0 .. MaxVer /\ bad \subseteq 1 .. MaxVer
  /\ fails \in 0 .. MaxFails /\ ctx \in 0 .. 1 /\ sub \in 0 .. 1 /\ want \in 0 .. 1
  /\ wpc \in {"off", "watch", "sleep", "consume", "done"}
  /\ revision \in Nat /\ ch \in Seq([rev : Nat, gap : 0 .. 1]) /\ Len(ch) <= Cap
  /\ lpc \in {"idle", "load", "got", "read"}
  /\ resp \in [doc : Nat, tag : Nat, same : 0 .. 1]
  /\ since \in 0 .. MaxVer /\ served \in -1 .. MaxVer

\* At the end of the manager's lifetime the loop ends and the provider closes
\* its channel ("closed on cancellation").
WatchersStop == ctx = 1 ~> wpc \in {"off", "done"} /\ sub = 0
=============================================================================
