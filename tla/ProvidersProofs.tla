--------------------------- MODULE ProvidersProofs ---------------------------
(***************************************************************************)
(* Proofs about the watching providers of MCProviders and the manager's    *)
(* side of them, for every channel capacity and any number of versions of  *)
(* the document, failures and tokens.                                      *)
(***************************************************************************)
EXTENDS MCProviders, TLAPS

-----------------------------------------------------------------------------
(* The inductive invariant.                                                *)

EventTypes == [rev : Nat, gap : 0 .. 1]

SourceTyped ==
  /\ ver \in 0 .. MaxVer /\ bad \subseteq 1 .. MaxVer
  /\ fails \in 0 .. MaxFails /\ ctx \in 0 .. 1
WatchTyped ==
  /\ wpc \in {"off", "watch", "sleep", "consume", "done"}
  /\ revision \in Nat /\ ch \in Seq(EventTypes) /\ Len(ch) <= Cap /\ sub \in 0 .. 1

\* An answer holds a version there is, and no Load began in the future.
Answers == [doc : 0 .. MaxVer, tag : Nat, same : 0 .. 1]
LoadTyped ==
  /\ want \in 0 .. 1 /\ lpc \in {"idle", "load", "got", "read"} /\ resp \in Answers
  /\ since \in 0 .. MaxVer /\ since <= ver /\ served \in -1 .. MaxVer

StreamStates == [latest : 0 .. MaxVer, pos : Nat, due : 0 .. MaxVer, gap : 0 .. 1, lost : Nat]
HTTPServers == [tags : 0 .. 1, tag : Nat \ {0}]
HTTPStates == [interval : 0 .. 1, etag : Nat, body : 0 .. MaxVer,
               pc : {"off", "tick", "asked", "judge"}, asked : Nat,
               saw : 0 .. MaxVer, sawTag : Nat]

VaultServers == [leased : 0 .. 1, valid : Nat, issued : Nat]
VaultStates == [token : Nat, ttl : 0 .. 1, version : Nat, notified : Nat, saw : Nat,
                pc : {"off", "tick", "mark", "send"}, renew : {"off", "wait"}]

\* What the properties need of the server's and the provider's own state.
KindTyped ==
  /\ kind = "stream" => prov \in StreamStates
  /\ kind = "consul" => srv \in Nat
  /\ kind = "http" => srv \in HTTPServers /\ prov \in HTTPStates
  /\ kind = "vault" => srv \in VaultServers /\ prov \in VaultStates

Typed == SourceTyped /\ WatchTyped /\ LoadTyped /\ KindTyped

\* Between two subscriptions of a stream nothing is left in the channel.
Drained == kind = "stream" /\ wpc \in {"off", "watch", "sleep"} => ch = <<>> /\ sub = 0

\* The marked event of a cold start is the first of its subscription, and what the cold
\* start skipped is later than all that the loop remembers.
Marked ==
  kind = "stream" =>
    /\ prov.gap = 1 => ch = <<>>
    /\ prov.lost # 0 => prov.gap = 1 /\ revision # 0 /\ revision < prov.lost

\* The accepted ETag is one the server sent, with the accepted body; if it is still the
\* server's, the body is the document.
Accepted ==
  kind = "http" =>
    /\ ver # 0 /\ prov.body <= ver
    /\ prov.etag # 0 => srv.tags = 1 /\ prov.body # 0 /\ prov.etag <= srv.tag
    /\ prov.etag # 0 /\ prov.etag = srv.tag => prov.body = ver

\* The same of the ETag and the body that are on the way to Load.
Arriving ==
  kind = "http" /\ lpc = "got" /\ resp.same = 0 =>
    /\ resp.doc # 0 /\ resp.doc <= ver
    /\ resp.tag # 0 => srv.tags = 1 /\ resp.tag <= srv.tag
    /\ resp.tag # 0 /\ resp.tag = srv.tag => resp.doc = ver

\* A vault subscription stays open until the end of the lifetime, and before it nothing is
\* suppressed.
Unsuppressed ==
  kind = "vault" =>
    /\ wpc \in {"off", "watch", "sleep"} => prov.pc = "off" /\ prov.notified = 0
    /\ wpc = "consume" /\ ctx = 0 => sub = 1

Inv == /\ Typed /\ Drained /\ Marked /\ HeldIsSignalled
       /\ Unsuppressed /\ SuppressedIsSignalled
       /\ Accepted /\ Arriving /\ NotModifiedIsExact

-----------------------------------------------------------------------------
(* Lemmas.                                                                 *)

\* Constants of the sets the types are made of.
LEMMA Flags == 0 \in 0 .. 1 /\ 1 \in 0 .. 1 /\ 0 \in 0 .. MaxVer /\ -1 \in -1 .. MaxVer
BY RemoteAssumption

\* An event is dropped on a full channel only: afterwards the channel is not empty, and
\* no longer than before or than its capacity.
LEMMA Offered ==
  ASSUME ch \in Seq(EventTypes), Len(ch) <= Cap, NEW rev \in Nat, NEW gap \in 0 .. 1,
         Offer(Event(rev, gap))
  PROVE  ch' \in Seq(EventTypes) /\ Len(ch') <= Cap /\ ch' # <<>>
<1>1. Event(rev, gap) \in EventTypes
  BY DEF Event, EventTypes
<1>2. CASE Len(ch) < Cap
  <2>1. ch' = Append(ch, Event(rev, gap))
    BY <1>2 DEF Offer
  <2>2. ch' \in Seq(EventTypes) /\ Len(ch') = Len(ch) + 1
    BY <1>1, <2>1
  <2> QED
    BY <1>2, <2>2, RemoteAssumption
<1>3. CASE ~(Len(ch) < Cap)
  <2>1. ch' = ch
    BY <1>3 DEF Offer
  <2>2. Len(ch) # 0
    BY <1>3, RemoteAssumption
  <2> QED
    BY <2>1, <2>2
<1> QED
  BY <1>2, <1>3

\* An event that is taken leaves the rest, and a revision.
LEMMA Taken ==
  ASSUME ch \in Seq(EventTypes), Len(ch) <= Cap, ch # <<>>, revision \in Nat
  PROVE  /\ Tail(ch) \in Seq(EventTypes) /\ Len(Tail(ch)) <= Cap
         /\ RememberRevision(Head(ch)) \in Nat
<1>1. Head(ch) \in EventTypes /\ Tail(ch) \in Seq(EventTypes) /\ Len(Tail(ch)) = Len(ch) - 1
  OBVIOUS
<1>2. Head(ch).rev \in Nat
  BY <1>1 DEF EventTypes
<1> QED
  BY <1>1, <1>2, RemoteAssumption DEF RememberRevision

\* The answers that hold a document.
LEMMA AnswerTypes ==
  /\ NoAnswer \in Answers /\ NoAnswer.doc = 0
  /\ \A d \in 0 .. MaxVer, t \in Nat, s \in 0 .. 1 :
       [doc |-> d, tag |-> t, same |-> s] \in Answers
  /\ \A d \in 0 .. MaxVer : [NoAnswer EXCEPT !.doc = d] \in Answers
  /\ \A d \in 0 .. MaxVer, t \in Nat : [NoAnswer EXCEPT !.doc = d, !.tag = t] \in Answers
BY Flags DEF NoAnswer, Answers

\* The manager's steps.  They leave the document, the server and the provider's state
\* alone, and touch a subscription only to take an event from it or after it was drained.
Managing == RemoteNext \/ WatchErrs \/ WatchOptsOut

LEMMA ManagingFrame ==
  ASSUME Typed, Managing
  PROVE  /\ kind' = kind /\ ver' = ver /\ bad' = bad /\ srv' = srv /\ prov' = prov
         /\ resp' = resp /\ served' = served /\ sub' = sub
         /\ SourceTyped' /\ WatchTyped' /\ LoadTyped'
<1>0. RequestFails => fails' \in 0 .. MaxFails
  BY RemoteAssumption DEF RequestFails, Typed, SourceTyped
<1>1. CASE BeginLoad
  BY <1>1, Flags DEF BeginLoad, sourceVars, watchVars, Typed, SourceTyped, WatchTyped, LoadTyped
<1>2. CASE AskReload
  BY <1>2, Flags DEF AskReload, sourceVars, watchVars, Typed, SourceTyped, WatchTyped, LoadTyped
<1>3. CASE LifetimeEnds
  BY <1>3, Flags DEF LifetimeEnds, sourceVars, watchVars, loadVars, Typed, SourceTyped, WatchTyped,
     LoadTyped
<1>4. CASE StartWatcher
  BY <1>4 DEF StartWatcher, DuringWatch, sourceVars, Typed, SourceTyped, WatchTyped, LoadTyped
<1>5. CASE Wake
  BY <1>5 DEF Wake, DuringWatch, sourceVars, Typed, SourceTyped, WatchTyped, LoadTyped
<1>6. CASE Receive
  BY <1>6, Taken, Flags DEF Receive, DuringWatch, sourceVars, Typed, SourceTyped, WatchTyped, LoadTyped
<1>7. CASE ChannelCloses
  BY <1>7 DEF ChannelCloses, DuringWatch, sourceVars, Typed, SourceTyped, WatchTyped, LoadTyped
<1>8. CASE WatcherExits
  BY <1>8 DEF WatcherExits, DuringWatch, sourceVars, Typed, SourceTyped, WatchTyped, LoadTyped
<1>9. CASE WatchErrs
  BY <1>0, <1>9 DEF WatchErrs, DuringWatch, sourceVars, Typed, SourceTyped, WatchTyped, LoadTyped
<1>10. CASE WatchOptsOut
  BY <1>10 DEF WatchOptsOut, DuringWatch, sourceVars, Typed, SourceTyped, WatchTyped, LoadTyped
<1> QED
  BY <1>1, <1>2, <1>3, <1>4, <1>5, <1>6, <1>7, <1>8, <1>9, <1>10
     DEF Managing, RemoteNext, WatcherSteps

LEMMA ManagingKeeps ==
  ASSUME Inv, Managing
  PROVE  Inv'
<1> USE DEF Inv
<1>1. /\ kind' = kind /\ ver' = ver /\ bad' = bad /\ srv' = srv /\ prov' = prov
      /\ resp' = resp /\ served' = served /\ sub' = sub
      /\ SourceTyped' /\ WatchTyped' /\ LoadTyped'
  BY ManagingFrame
<1>2. Typed'
  BY <1>1 DEF Typed, KindTyped
<1>3. \/ ch' = ch /\ revision' = revision
         /\ ((lpc' = lpc /\ since' = since) \/ lpc' = "load")
         /\ (want' = want \/ want' = 1 \/ lpc' = "load")
         /\ (ctx' = ctx \/ ctx' = 1)
         /\ (\/ wpc' = wpc \/ wpc' = "done"
             \/ wpc \in {"off", "watch", "sleep"} /\ wpc' \in {"watch", "sleep"}
             \/ ch = <<>> /\ sub = 0 /\ wpc = "consume" /\ ctx = 0 /\ wpc' = "sleep")
      \/ /\ wpc = "consume" /\ wpc' = wpc /\ ch # <<>> /\ want' = 1
         /\ lpc' = lpc /\ since' = since /\ ctx' = ctx
  BY DEF Managing, RemoteNext, WatcherSteps, BeginLoad, AskReload, LifetimeEnds, StartWatcher, Wake,
     Receive, ChannelCloses, WatcherExits, WatchErrs, WatchOptsOut, DuringWatch, sourceVars,
     watchVars, loadVars
<1>4. Drained'
  BY <1>1, <1>3 DEF Drained
<1>5. Marked'
  <2> SUFFICES ASSUME kind = "stream" PROVE Marked'
    BY <1>1 DEF Marked
  <2>1. prov \in StreamStates
    BY DEF Typed, KindTyped
  <2>2. CASE ch' = ch /\ revision' = revision
    BY <1>1, <2>2 DEF Marked
  <2>3. CASE ch # <<>>
    BY <1>1, <2>1, <2>3 DEF Marked
  <2> QED
    BY <1>3, <2>2, <2>3
<1>6. HeldIsSignalled'
  BY <1>1, <1>3 DEF HeldIsSignalled
<1>7. Accepted' /\ Arriving' /\ NotModifiedIsExact'
  BY <1>1, <1>3 DEF Accepted, Arriving, NotModifiedIsExact
<1>8. ctx' = 0 => ctx = 0
  BY <1>3, <1>1 DEF Typed, SourceTyped
<1>9. Unsuppressed'
  BY <1>1, <1>3, <1>8 DEF Unsuppressed
<1>10. SuppressedIsSignalled'
  BY <1>1, <1>3, <1>8 DEF SuppressedIsSignalled
<1> QED
  BY <1>2, <1>4, <1>5, <1>6, <1>7, <1>9, <1>10

-----------------------------------------------------------------------------
(* Streams.                                                                *)

\* A subscription opens with the channel empty on both sides.
LEMMA Opened ==
  ASSUME Typed, NEW p, WatchOpens(p)
  PROVE  /\ kind' = kind /\ ver' = ver /\ srv' = srv /\ prov' = p /\ served' = served
         /\ lpc' = lpc /\ resp' = resp /\ since' = since /\ want' = want /\ ctx' = ctx
         /\ revision' = revision /\ wpc = "watch" /\ wpc' = "consume" /\ ch' = <<>>
         /\ SourceTyped' /\ WatchTyped' /\ LoadTyped'
<1>1. ch' = <<>> /\ ch' \in Seq(EventTypes) /\ Len(ch') <= Cap
  BY RemoteAssumption DEF WatchOpens
<1> QED
  BY <1>1, Flags DEF WatchOpens, DuringWatch, sourceVars, Typed, SourceTyped, WatchTyped, LoadTyped

LEMMA StreamOpensKeeps ==
  ASSUME Inv, kind = "stream", StreamOpens
  PROVE  Inv'
<1> USE DEF Inv
<1>0. prov \in StreamStates /\ revision \in Nat /\ ver \in Nat
  BY RemoteAssumption DEF Typed, KindTyped, WatchTyped, SourceTyped
<1>1. PICK p : /\ WatchOpens(p) /\ p \in StreamStates /\ p.latest = prov.latest /\ p.due = prov.due
               /\ p.lost # 0 => p.gap = 1 /\ revision # 0 /\ revision < p.lost
  <2>1. CASE StreamSubscribe
    <3> DEFINE p == [prov EXCEPT !.pos = ver, !.gap = 0]
    <3>1. p \in StreamStates /\ p.latest = prov.latest /\ p.due = prov.due /\ p.lost = prov.lost
      BY <1>0, Flags DEF StreamStates
    <3>2. prov.lost = 0
      BY <2>1 DEF StreamSubscribe, Marked
    <3>3. WatchOpens(p)
      BY <2>1 DEF StreamSubscribe
    <3> QED
      BY <3>1, <3>2, <3>3
  <2>2. CASE StreamResume
    <3> DEFINE p == [prov EXCEPT !.pos = revision, !.gap = 0, !.lost = 0]
    <3>1. p \in StreamStates /\ p.latest = prov.latest /\ p.due = prov.due /\ p.lost = 0
      BY <1>0, Flags DEF StreamStates
    <3>2. WatchOpens(p)
      BY <2>2 DEF StreamResume
    <3> QED
      BY <3>1, <3>2
  <2>3. CASE StreamCold
    <3> DEFINE lost == IF ver > revision THEN ver ELSE 0
               p == [prov EXCEPT !.pos = ver, !.gap = 1, !.lost = lost]
    <3>1. lost \in Nat /\ (lost # 0 => revision < lost)
      BY <1>0
    <3>2. WatchOpens(p) /\ revision # 0
      BY <2>3 DEF StreamCold
    <3> HIDE DEF lost
    <3>3. p \in StreamStates /\ p.latest = prov.latest /\ p.due = prov.due /\ p.lost = lost /\ p.gap = 1
      BY <1>0, <3>1, Flags DEF StreamStates
    <3> QED
      BY <3>1, <3>2, <3>3
  <2> QED
    BY <2>1, <2>2, <2>3 DEF StreamOpens
<1>2. /\ kind' = kind /\ ver' = ver /\ prov' = p /\ served' = served
      /\ lpc' = lpc /\ want' = want /\ ctx' = ctx /\ revision' = revision
      /\ wpc = "watch" /\ wpc' = "consume" /\ ch' = <<>>
      /\ SourceTyped' /\ WatchTyped' /\ LoadTyped'
  BY <1>1, Opened
<1>3. Typed' /\ Drained' /\ Marked'
  BY <1>1, <1>2 DEF Typed, KindTyped, Drained, Marked
<1>4. ch = <<>>
  BY <1>2 DEF Drained
<1>5. HeldIsSignalled'
  BY <1>1, <1>2, <1>4 DEF HeldIsSignalled
<1>6. Accepted' /\ Arriving' /\ NotModifiedIsExact' /\ Unsuppressed' /\ SuppressedIsSignalled'
  BY <1>2 DEF Accepted, Arriving, NotModifiedIsExact, Unsuppressed, SuppressedIsSignalled
<1> QED
  BY <1>3, <1>5, <1>6

\* What a step of the handler leaves alone.
LEMMA HandlerFrame ==
  ASSUME Inv, kind = "stream", StreamStore \/ StreamOffer
  PROVE  /\ kind' = kind /\ ver' = ver /\ bad' = bad /\ ctx' = ctx /\ wpc' = wpc
         /\ revision' = revision /\ want' = want /\ lpc' = lpc /\ resp' = resp
         /\ since' = since /\ served' = served /\ fails' = fails /\ sub' = sub
         /\ SourceTyped' /\ LoadTyped' /\ sub = 1 /\ Drained'
         /\ Accepted' /\ Arriving' /\ NotModifiedIsExact' /\ Unsuppressed'
         /\ SuppressedIsSignalled'
<1>1. /\ kind' = kind /\ ver' = ver /\ bad' = bad /\ ctx' = ctx /\ wpc' = wpc
      /\ revision' = revision /\ want' = want /\ lpc' = lpc /\ resp' = resp
      /\ since' = since /\ served' = served /\ fails' = fails /\ sub' = sub /\ sub = 1
  BY DEF StreamStore, StreamOffer, DuringPoll, sourceVars, loadVars
<1>2. SourceTyped' /\ LoadTyped' /\ Drained'
  BY <1>1 DEF Inv, Typed, SourceTyped, LoadTyped, Drained
<1> QED
  BY <1>1, <1>2 DEF Accepted, Arriving, NotModifiedIsExact, Unsuppressed, SuppressedIsSignalled

\* A stored document has its announcement ahead of it; the mark of a cold start waits.
LEMMA StreamStoreKeeps ==
  ASSUME Inv, kind = "stream", StreamStore
  PROVE  Inv'
<1> USE DEF Inv
<1> DEFINE n == prov.pos + 1
<1>0. prov \in StreamStates /\ ver \in 0 .. MaxVer
  BY DEF Typed, KindTyped, SourceTyped
<1>1. prov.pos < ver /\ ch' = ch
  BY DEF StreamStore
<1>2. n \in 0 .. MaxVer /\ n \in Nat /\ n # 0
  BY <1>0, <1>1, RemoteAssumption DEF StreamStates
<1>3. \/ prov' = [prov EXCEPT !.pos = n]
      \/ prov' = [prov EXCEPT !.latest = n, !.pos = n, !.due = n]
  BY <1>0 DEF StreamStore, LatestStore, StreamStates
<1> HIDE DEF n
<1>4. /\ prov' \in StreamStates /\ prov'.gap = prov.gap /\ prov'.lost = prov.lost
      /\ (prov'.due # 0 \/ (prov'.latest = prov.latest /\ prov'.due = prov.due))
  BY <1>0, <1>2, <1>3 DEF StreamStates
<1>5. Typed' /\ Marked'
  BY <1>1, <1>4, HandlerFrame DEF Typed, KindTyped, WatchTyped, Marked
<1>6. HeldIsSignalled'
  BY <1>1, <1>4, HandlerFrame DEF HeldIsSignalled
<1> QED
  BY <1>5, <1>6, HandlerFrame

\* An offered event is in the channel, or the channel is full; the mark goes with the
\* first one, which finds the channel empty.
LEMMA StreamOfferKeeps ==
  ASSUME Inv, kind = "stream", StreamOffer
  PROVE  Inv'
<1> USE DEF Inv
<1> DEFINE lost == IF prov.gap = 1 /\ Len(ch) < Cap THEN 0 ELSE prov.lost
<1>0. /\ prov \in StreamStates /\ ch \in Seq(EventTypes) /\ Len(ch) <= Cap
  BY DEF Typed, KindTyped, WatchTyped
<1>1. prov.due \in Nat /\ prov.gap \in 0 .. 1
  BY <1>0, RemoteAssumption DEF StreamStates
<1>2. /\ Offer(Event(prov.due, prov.gap))
      /\ prov' = [prov EXCEPT !.due = 0, !.gap = 0, !.lost = lost]
  BY <1>0 DEF StreamOffer, StreamStates
<1>3. ch' \in Seq(EventTypes) /\ Len(ch') <= Cap /\ ch' # <<>>
  BY <1>0, <1>1, <1>2, Offered
<1>4. lost = 0
  <2>1. CASE prov.lost = 0
    BY <2>1
  <2>2. CASE prov.lost # 0
    <3>1. prov.gap = 1 /\ ch = <<>>
      BY <2>2 DEF Marked
    <3> QED
      BY <3>1, RemoteAssumption
  <2> QED
    BY <2>1, <2>2
<1> HIDE DEF lost
<1>5. prov' \in StreamStates /\ prov'.gap = 0 /\ prov'.lost = 0
  BY <1>0, <1>2, <1>4, Flags, RemoteAssumption DEF StreamStates
<1>6. Typed' /\ Marked'
  BY <1>3, <1>5, HandlerFrame DEF Typed, KindTyped, WatchTyped, Marked
<1>7. HeldIsSignalled'
  BY <1>3 DEF HeldIsSignalled
<1> QED
  BY <1>6, <1>7, HandlerFrame

LEMMA StreamRestKeeps ==
  ASSUME Inv, kind = "stream", StreamChanges \/ StreamLoad \/ StreamLost \/ StreamEnds
  PROVE  Inv'
<1> USE DEF Inv
<1>1. kind' = kind /\ prov' = prov /\ ch' = ch /\ revision' = revision /\ wpc' = wpc
      /\ ctx' = ctx /\ (sub' = sub \/ sub' = 0)
  BY DEF StreamChanges, StreamLoad, StreamLost, StreamEnds, DuringPoll, DuringLoad, watchVars,
     sourceVars
<1>2. prov \in StreamStates /\ prov.latest \in -1 .. MaxVer
  BY RemoteAssumption DEF Typed, KindTyped, StreamStates
<1>3. SourceTyped' /\ LoadTyped'
  <2>1. CASE StreamChanges
    BY <2>1, RemoteAssumption DEF StreamChanges, SourceChanges, loadVars, Typed, SourceTyped, LoadTyped
  <2>2. CASE StreamLoad
    <3>1. /\ ver' = ver /\ bad' = bad /\ fails' = fails /\ ctx' = ctx /\ want' = want
          /\ lpc' = "idle" /\ served' = prov.latest /\ resp' = NoAnswer /\ since' = 0
      BY <2>2 DEF StreamLoad, LoadReturns, LatestSnapshot, DuringLoad, sourceVars
    <3>2. SourceTyped'
      BY <3>1 DEF Typed, SourceTyped
    <3>3. resp' \in Answers /\ served' \in -1 .. MaxVer
      BY <1>2, <3>1, AnswerTypes
    <3> QED
      BY <3>1, <3>2, <3>3, RemoteAssumption DEF Typed, SourceTyped, LoadTyped
  <2>3. CASE StreamLost
    BY <2>3, RemoteAssumption DEF StreamLost, RequestFails, DuringPoll, sourceVars, loadVars,
       Typed, SourceTyped, LoadTyped
  <2>4. CASE StreamEnds
    BY <2>4 DEF StreamEnds, DuringPoll, sourceVars, loadVars, Typed, SourceTyped, LoadTyped
  <2> QED
    BY <2>1, <2>2, <2>3, <2>4
<1>4. Typed'
  BY <1>1, <1>2, <1>3, Flags DEF Typed, WatchTyped, KindTyped
<1>5. Drained' /\ Marked'
  BY <1>1 DEF Drained, Marked
<1>6. HeldIsSignalled'
  BY <1>1 DEF HeldIsSignalled, StreamChanges, StreamLoad, LoadReturns, LatestSnapshot, StreamLost,
     StreamEnds, DuringPoll, loadVars
<1>7. Accepted' /\ Arriving' /\ NotModifiedIsExact' /\ Unsuppressed' /\ SuppressedIsSignalled'
  BY <1>1 DEF Accepted, Arriving, NotModifiedIsExact, Unsuppressed, SuppressedIsSignalled
<1> QED
  BY <1>4, <1>5, <1>6, <1>7

LEMMA StreamKeeps ==
  ASSUME Inv, kind = "stream", StreamNext
  PROVE  Inv'
BY ManagingKeeps, StreamOpensKeeps, StreamStoreKeeps, StreamOfferKeeps, StreamRestKeeps
   DEF StreamNext, StreamDeliver, StreamOpens, Managing

-----------------------------------------------------------------------------
(* Steps of Load and of a provider's goroutine, whatever the kind.         *)

RequestMade == RequestFails \/ UNCHANGED fails

LEMMA FailsTyped ==
  ASSUME Typed, RequestMade
  PROVE  fails' \in 0 .. MaxFails
BY RemoteAssumption DEF RequestMade, RequestFails, Typed, SourceTyped

\* A Load returns a version there is, or an error.
LEMMA Returned ==
  ASSUME Typed, RequestMade, LoadKeeps, NEW d \in 0 .. MaxVer, LoadReturns(d) \/ LoadErrs
  PROVE  /\ SourceTyped' /\ WatchTyped' /\ LoadTyped' /\ lpc' = "idle"
         /\ kind' = kind /\ ver' = ver
<1>1. /\ kind' = kind /\ ver' = ver /\ bad' = bad /\ ctx' = ctx /\ wpc' = wpc
      /\ revision' = revision /\ ch' = ch /\ sub' = sub /\ want' = want
      /\ lpc' = "idle" /\ (served' = d \/ served' = served) /\ resp' = NoAnswer /\ since' = 0
  BY DEF LoadKeeps, watchVars, LoadReturns, LoadErrs
<1>2. SourceTyped' /\ WatchTyped'
  BY <1>1, FailsTyped DEF Typed, SourceTyped, WatchTyped
<1>3. resp' \in Answers
  BY <1>1, AnswerTypes
<1>4. d \in -1 .. MaxVer
  BY RemoteAssumption
<1> QED
  BY <1>1, <1>2, <1>3, <1>4, RemoteAssumption DEF Typed, SourceTyped, LoadTyped

\* A request is answered.
LEMMA Served ==
  ASSUME Typed, RequestMade, LoadKeeps, NEW a \in Answers, NEW l \in {"got", "read"},
         lpc' = l, resp' = a, UNCHANGED <<since, served>>
  PROVE  /\ SourceTyped' /\ WatchTyped' /\ LoadTyped' /\ kind' = kind /\ ver' = ver
         /\ since' = since
<1>1. /\ kind' = kind /\ ver' = ver /\ bad' = bad /\ ctx' = ctx /\ wpc' = wpc
      /\ revision' = revision /\ ch' = ch /\ sub' = sub /\ want' = want
  BY DEF LoadKeeps, watchVars
<1>2. SourceTyped' /\ WatchTyped'
  BY <1>1, FailsTyped DEF Typed, SourceTyped, WatchTyped
<1> QED
  BY <1>1, <1>2 DEF Typed, LoadTyped

\* The provider's goroutine polls, signals or closes its channel.
PollKeeps == UNCHANGED <<kind, ver, bad, ctx, wpc, revision, loadVars>>

LEMMA PollTyped ==
  ASSUME Typed, RequestMade, PollKeeps, sub' = sub \/ sub' = 0,
         ch' = ch \/ \E rev \in Nat : Offer(Event(rev, 0))
  PROVE  /\ SourceTyped' /\ WatchTyped' /\ LoadTyped' /\ kind' = kind /\ ver' = ver
         /\ lpc' = lpc /\ resp' = resp /\ since' = since
<1>1. /\ kind' = kind /\ ver' = ver /\ bad' = bad /\ ctx' = ctx /\ wpc' = wpc
      /\ revision' = revision /\ want' = want /\ lpc' = lpc /\ resp' = resp
      /\ since' = since /\ served' = served
  BY DEF PollKeeps, loadVars
<1>2. ch' \in Seq(EventTypes) /\ Len(ch') <= Cap
  <2>1. ch \in Seq(EventTypes) /\ Len(ch) <= Cap
    BY DEF Typed, WatchTyped
  <2>2. CASE ch' = ch
    BY <2>1, <2>2
  <2>3. ASSUME NEW rev \in Nat, Offer(Event(rev, 0))
        PROVE  ch' \in Seq(EventTypes) /\ Len(ch') <= Cap
    BY <2>1, <2>3, Offered, Flags
  <2> QED
    BY <2>2, <2>3
<1>3. sub' \in 0 .. 1
  BY Flags DEF Typed, WatchTyped
<1> QED
  BY <1>1, <1>2, <1>3, FailsTyped DEF Typed, SourceTyped, WatchTyped, LoadTyped

\* The document changes.
LEMMA Replaced ==
  ASSUME Typed, NEW decodable \in BOOLEAN, SourceChanges(decodable),
         UNCHANGED <<kind, fails, ctx, watchVars, loadVars>>
  PROVE  SourceTyped' /\ WatchTyped' /\ LoadTyped' /\ kind' = kind /\ ver' = ver + 1
<1>1. SourceTyped' /\ ver' = ver + 1
  BY RemoteAssumption DEF Typed, SourceTyped, SourceChanges
<1> QED
  BY <1>1 DEF Typed, SourceTyped, WatchTyped, LoadTyped, watchVars, loadVars

\* Of a consul provider only the types matter.
LEMMA ConsulSuffices ==
  ASSUME kind = "consul", kind' = kind, Typed'
  PROVE  Inv'
BY DEF Inv, Drained, Marked, HeldIsSignalled, Accepted, Arriving, NotModifiedIsExact,
   Unsuppressed, SuppressedIsSignalled

-----------------------------------------------------------------------------
(* Consul.                                                                 *)

LEMMA ConsulKeeps ==
  ASSUME Inv, kind = "consul", ConsulNext
  PROVE  Inv'
<1>0. /\ Typed /\ srv \in Nat /\ ver \in 0 .. MaxVer /\ resp \in Answers
      /\ resp.doc \in 0 .. MaxVer
  BY DEF Inv, Typed, KindTyped, SourceTyped, LoadTyped, Answers
<1> SUFFICES ASSUME ~Managing
             PROVE  kind' = kind /\ Typed'
  BY ManagingKeeps, ConsulSuffices
<1> SUFFICES kind' = kind /\ SourceTyped' /\ WatchTyped' /\ LoadTyped' /\ srv' \in Nat
  BY DEF Typed, KindTyped
<1>1. CASE ConsulChanges
  <2>1. PICK decodable \in BOOLEAN : SourceChanges(decodable)
    BY <1>1 DEF ConsulChanges
  <2>2. srv' \in Nat
    BY <1>0, <1>1 DEF ConsulChanges
  <2> QED
    BY <1>0, <1>1, <2>1, <2>2, Replaced DEF ConsulChanges
<1>2. CASE ConsulRestarts
  <2>1. RequestMade /\ PollKeeps /\ sub' = sub /\ ch' = ch /\ srv' \in Nat
    BY <1>2 DEF ConsulRestarts, RequestMade, PollKeeps, watchVars
  <2> QED
    BY <1>0, <2>1, PollTyped
<1>3. CASE ConsulFetch
  <2>1. LoadKeeps /\ RequestMade /\ srv' = srv
    BY <1>3 DEF ConsulFetch, DuringLoad, LoadKeeps, sourceVars, RequestMade
  <2>2. CASE LoadErrs
    BY <1>0, <2>1, <2>2, Returned
  <2>3. ASSUME NEW a, Answered(a), a = [NoAnswer EXCEPT !.doc = ver, !.tag = srv]
                                   \/ a = [NoAnswer EXCEPT !.doc = ver]
        PROVE  SourceTyped' /\ WatchTyped' /\ LoadTyped' /\ kind' = kind
    <3>1. a \in Answers
      BY <1>0, <2>3, AnswerTypes
    <3> QED
      BY <1>0, <2>1, <2>3, <3>1, Served DEF Answered
  <2> QED
    BY <1>0, <1>3, <2>1, <2>2, <2>3, Returned DEF ConsulFetch
<1>4. CASE ConsulDecode
  <2>1. LoadKeeps /\ RequestMade /\ srv' = srv
    BY <1>4 DEF ConsulDecode, DuringLoad, LoadKeeps, sourceVars, RequestMade
  <2>2. LoadErrs \/ LoadReturns(resp.doc)
    BY <1>4 DEF ConsulDecode
  <2> QED
    BY <1>0, <2>1, <2>2, Returned
<1>5. CASE ConsulWatch
  BY <1>0, <1>5, Opened DEF ConsulWatch
<1>6. CASE ConsulTop \/ ConsulAsk \/ ConsulJudge \/ ConsulEnds
  <2>1. PollKeeps /\ RequestMade /\ srv' = srv /\ (sub' = sub \/ sub' = 0)
    BY <1>6 DEF ConsulTop, ConsulAsk, ConsulJudge, ConsulEnds, DuringPoll, PollKeeps, sourceVars,
       RequestMade
  <2>2. ch' = ch \/ \E rev \in Nat : Offer(Event(rev, 0))
    BY <1>6 DEF ConsulTop, ConsulAsk, ConsulJudge, ConsulEnds
  <2> QED
    BY <1>0, <2>1, <2>2, PollTyped
<1> QED
  BY <1>1, <1>2, <1>3, <1>4, <1>5, <1>6 DEF ConsulNext, Managing

-----------------------------------------------------------------------------
(* Vault.                                                                  *)

\* Only the vault property matters.
LEMMA VaultSuffices ==
  ASSUME kind = "vault", kind' = kind, SourceTyped', WatchTyped', LoadTyped',
         srv' \in VaultServers, prov' \in VaultStates, Unsuppressed', SuppressedIsSignalled'
  PROVE  Inv'
BY DEF Inv, Typed, KindTyped, Drained, Marked, HeldIsSignalled, Accepted, Arriving,
   NotModifiedIsExact

\* A login.
LEMMA LoginTyped ==
  ASSUME srv \in VaultServers, Login
  PROVE  srv' \in VaultServers
<1>1. srv.issued + 1 \in Nat
  BY DEF VaultServers
<1> QED
  BY <1>1 DEF Login, VaultServers

\* The fields a step of the provider changes.
LEMMA Suppressing ==
  ASSUME NEW o \in VaultStates, NEW n \in Nat
  PROVE  /\ [o EXCEPT !.notified = n] \in VaultStates
         /\ [o EXCEPT !.notified = n].notified = n /\ [o EXCEPT !.notified = n].pc = o.pc
         /\ [o EXCEPT !.notified = n].saw = o.saw
BY DEF VaultStates

LEMMA WithToken ==
  ASSUME NEW o \in VaultStates, NEW n \in Nat
  PROVE  /\ [o EXCEPT !.token = n] \in VaultStates
         /\ [o EXCEPT !.token = n].notified = o.notified /\ [o EXCEPT !.token = n].pc = o.pc
BY DEF VaultStates

LEMMA WithTtl ==
  ASSUME NEW o \in VaultStates, NEW n \in 0 .. 1
  PROVE  /\ [o EXCEPT !.ttl = n] \in VaultStates
         /\ [o EXCEPT !.ttl = n].notified = o.notified /\ [o EXCEPT !.ttl = n].pc = o.pc
BY DEF VaultStates

LEMMA WithVersion ==
  ASSUME NEW o \in VaultStates, NEW n \in Nat
  PROVE  /\ [o EXCEPT !.version = n] \in VaultStates
         /\ [o EXCEPT !.version = n].notified = o.notified /\ [o EXCEPT !.version = n].pc = o.pc
BY DEF VaultStates

LEMMA WithSaw ==
  ASSUME NEW o \in VaultStates, NEW n \in Nat, NEW c \in {"off", "tick", "mark", "send"}
  PROVE  /\ [o EXCEPT !.saw = n, !.pc = c] \in VaultStates
         /\ [o EXCEPT !.saw = n, !.pc = c].notified = o.notified
         /\ [o EXCEPT !.saw = n, !.pc = c].pc = c
BY DEF VaultStates

LEMMA WithMark ==
  ASSUME NEW o \in VaultStates, NEW n \in Nat, NEW c \in {"off", "tick", "mark", "send"}
  PROVE  /\ [o EXCEPT !.notified = n, !.pc = c] \in VaultStates
         /\ [o EXCEPT !.notified = n, !.pc = c].pc = c
BY DEF VaultStates

LEMMA WithRenewal ==
  ASSUME NEW o \in VaultStates, NEW r \in {"off", "wait"}
  PROVE  /\ [o EXCEPT !.renew = r] \in VaultStates
         /\ [o EXCEPT !.renew = r].notified = o.notified /\ [o EXCEPT !.renew = r].pc = o.pc
BY DEF VaultStates

LEMMA VaultLoadsKeep ==
  ASSUME Inv, kind = "vault", VaultLoads
  PROVE  Inv'
<1>0. /\ Typed /\ ver \in 0 .. MaxVer /\ resp \in Answers /\ resp.doc \in 0 .. MaxVer
      /\ srv \in VaultServers /\ prov \in VaultStates /\ resp.doc \in Nat
      /\ srv.issued + 1 \in Nat /\ srv.leased \in 0 .. 1
  BY RemoteAssumption DEF Inv, Typed, KindTyped, SourceTyped, LoadTyped, Answers, VaultServers
<1>1. LoadKeeps /\ RequestMade
  BY DEF VaultLoads, VaultBegin, VaultRead, VaultAccept, DuringLoad, LoadKeeps, sourceVars, RequestMade
<1>2. SourceTyped' /\ WatchTyped' /\ LoadTyped' /\ kind' = kind
  <2>1. CASE VaultBegin
    <3>1. Answered(NoAnswer) \/ LoadErrs
      BY <2>1 DEF VaultBegin
    <3> QED
      BY <1>0, <1>1, <3>1, Returned, Served, AnswerTypes DEF Answered
  <2>2. CASE VaultRead
    <3>1. CASE LoadErrs
      BY <1>0, <1>1, <3>1, Returned
    <3>2. CASE /\ lpc' = "read" /\ resp' = [NoAnswer EXCEPT !.doc = ver]
               /\ UNCHANGED <<since, served>>
      <4>1. resp' \in Answers
        BY <1>0, <3>2, AnswerTypes
      <4> QED
        BY <1>0, <1>1, <3>2, <4>1, Served
    <3> QED
      BY <2>2, <3>1, <3>2 DEF VaultRead
  <2>3. CASE VaultAccept
    BY <1>0, <1>1, <2>3, Returned DEF VaultAccept
  <2> QED
    BY <2>1, <2>2, <2>3 DEF VaultLoads
<1>3. /\ wpc' = wpc /\ ch' = ch /\ sub' = sub /\ want' = want /\ ctx' = ctx
  BY <1>1 DEF LoadKeeps, watchVars
<1>4. /\ srv' \in VaultServers /\ prov' \in VaultStates /\ prov'.pc = prov.pc
      /\ prov'.notified = 0 \/ (prov'.notified = prov.notified /\ lpc # "load")
  <2>1. CASE VaultBegin
    <3> DEFINE o == [prov EXCEPT !.notified = 0]
    <3>1. o \in VaultStates /\ o.notified = 0 /\ o.pc = prov.pc
      BY <1>0, Suppressing
    <3>2. CASE prov' = o /\ srv' = srv
      BY <1>0, <3>1, <3>2
    <3>3. CASE Login /\ prov' = [o EXCEPT !.token = srv.issued + 1, !.ttl = srv.leased]
      <4> DEFINE q == [o EXCEPT !.token = srv.issued + 1]
      <4> HIDE DEF o
      <4>1. q \in VaultStates /\ q.notified = 0 /\ q.pc = prov.pc
        BY <1>0, <3>1, WithToken
      <4>2. prov' = [q EXCEPT !.ttl = srv.leased]
        BY <3>3
      <4> HIDE DEF q
      <4>3. prov' \in VaultStates /\ prov'.notified = 0 /\ prov'.pc = prov.pc
        BY <1>0, <4>1, <4>2, WithTtl
      <4> QED
        BY <1>0, <3>3, <4>3, LoginTyped
    <3> QED
      BY <2>1, <3>2, <3>3 DEF VaultBegin
  <2>2. CASE VaultRead
    BY <1>0, <2>2 DEF VaultRead, DuringLoad, sourceVars
  <2>3. CASE VaultAccept
    <3>1. prov' = [prov EXCEPT !.version = resp.doc] /\ lpc = "read" /\ srv' = srv
      BY <2>3 DEF VaultAccept, DuringLoad, sourceVars
    <3> QED
      BY <1>0, <3>1, WithVersion
  <2> QED
    BY <2>1, <2>2, <2>3 DEF VaultLoads
<1>5. Unsuppressed' /\ SuppressedIsSignalled'
  BY <1>2, <1>3, <1>4 DEF Inv, Unsuppressed, SuppressedIsSignalled
<1> QED
  BY <1>2, <1>4, <1>5, VaultSuffices

LEMMA VaultPollsKeep ==
  ASSUME Inv, kind = "vault", VaultPolls \/ VaultRenews
  PROVE  Inv'
<1>0. /\ Typed /\ ver \in Nat /\ srv \in VaultServers /\ prov \in VaultStates
      /\ prov.notified \in Nat /\ prov.saw \in Nat /\ srv.issued + 1 \in Nat
      /\ ch \in Seq(EventTypes) /\ Len(ch) <= Cap
  BY RemoteAssumption DEF Inv, Typed, KindTyped, SourceTyped, WatchTyped, VaultServers, VaultStates
<1>1. PollKeeps /\ RequestMade /\ (sub' = sub \/ (sub' = 0 /\ ctx = 1))
  BY DEF VaultPolls, VaultRenews, VaultTick, VaultMark, VaultSend, VaultRenew, VaultLoopEnds,
     VaultRenewEnds, VaultEnds, DuringPoll, PollKeeps, sourceVars, RequestMade
<1>2. ch' = ch \/ \E rev \in Nat : Offer(Event(rev, 0))
  BY DEF VaultPolls, VaultRenews, VaultTick, VaultMark, VaultSend, VaultRenew, VaultLoopEnds,
     VaultRenewEnds, VaultEnds
<1>3. ch' = ch \/ ch' # <<>>
  BY <1>0, <1>2, Offered, Flags
<1>4. SourceTyped' /\ WatchTyped' /\ LoadTyped' /\ kind' = kind
  BY <1>0, <1>1, <1>2, PollTyped
<1>5. wpc' = wpc /\ ctx' = ctx /\ want' = want /\ lpc' = lpc
  BY <1>1 DEF PollKeeps, loadVars
<1>6. srv' \in VaultServers
  <2>1. srv' = srv \/ Login
    BY DEF VaultPolls, VaultRenews, VaultTick, VaultMark, VaultSend, VaultRenew, VaultLoopEnds,
       VaultRenewEnds, VaultEnds, DuringPoll, sourceVars
  <2> QED
    BY <1>0, <2>1, LoginTyped
<1>7. /\ prov' \in VaultStates
      /\ \/ ctx = 1 /\ prov'.notified = prov.notified /\ prov'.pc \in {prov.pc, "off"}
         \/ prov'.notified = prov.notified /\ prov'.pc = prov.pc
         \/ prov'.notified = prov.notified /\ prov.pc \in {"tick", "mark"}
         \/ prov.pc = "mark" /\ prov'.pc = "send"
         \/ prov.pc = "send" /\ ch' # <<>>
  <2>1. CASE VaultTick
    <3>1. \/ prov' = prov
          \/ prov' = [prov EXCEPT !.saw = ver, !.pc = "mark"]
      BY <2>1 DEF VaultTick
    <3>2. prov.pc = "tick"
      BY <2>1 DEF VaultTick
    <3>3. CASE prov' = [prov EXCEPT !.saw = ver, !.pc = "mark"]
      <4>1. prov' \in VaultStates /\ prov'.notified = prov.notified
        BY <1>0, <3>3 DEF VaultStates
      <4> QED
        BY <3>2, <4>1
    <3> QED
      BY <1>0, <3>1, <3>3
  <2>2. CASE VaultMark
    <3>1. \/ prov' = [prov EXCEPT !.saw = 0, !.pc = "tick"]
          \/ prov' = [prov EXCEPT !.notified = prov.saw, !.pc = "send"]
      BY <2>2 DEF VaultMark
    <3>2. prov.pc = "mark"
      BY <2>2 DEF VaultMark
    <3>3. CASE prov' = [prov EXCEPT !.saw = 0, !.pc = "tick"]
      <4>1. prov' \in VaultStates /\ prov'.notified = prov.notified
        BY <1>0, <3>3 DEF VaultStates
      <4> QED
        BY <3>2, <4>1
    <3>4. CASE prov' = [prov EXCEPT !.notified = prov.saw, !.pc = "send"]
      BY <1>0, <3>2, <3>4, WithMark
    <3> QED
      BY <3>1, <3>3, <3>4
  <2>3. CASE VaultSend
    <3> DEFINE n == IF Len(ch) >= Cap /\ prov.notified = prov.saw THEN 0 ELSE prov.notified
               o == [prov EXCEPT !.saw = 0, !.pc = "tick"]
    <3>1. n \in Nat
      BY <1>0
    <3>2. prov' = [o EXCEPT !.notified = n] /\ prov.pc = "send" /\ Offer(Event(0, 0))
      BY <1>0, <2>3 DEF VaultSend, VaultStates
    <3>3. o \in VaultStates
      BY <1>0, WithSaw
    <3> HIDE DEF n, o
    <3>4. prov' \in VaultStates
      BY <3>1, <3>2, <3>3, Suppressing
    <3>5. ch' # <<>>
      BY <1>0, <3>2, Offered, Flags
    <3> QED
      BY <3>2, <3>4, <3>5
  <2>4. CASE VaultRenew
    <3>1. prov' = prov \/ prov' = [prov EXCEPT !.token = srv.issued + 1]
      BY <2>4 DEF VaultRenew
    <3> QED
      BY <1>0, <3>1, WithToken
  <2>5. CASE VaultLoopEnds
    <3>1. prov' = [prov EXCEPT !.saw = 0, !.pc = "off"] /\ ctx = 1
      BY <2>5 DEF VaultLoopEnds
    <3>2. prov' \in VaultStates /\ prov'.notified = prov.notified /\ prov'.pc = "off"
      BY <1>0, <3>1 DEF VaultStates
    <3> QED
      BY <3>1, <3>2
  <2>6. CASE VaultRenewEnds
    <3>1. prov' = [prov EXCEPT !.renew = "off"]
      BY <2>6 DEF VaultRenewEnds
    <3> QED
      BY <1>0, <3>1, WithRenewal
  <2>7. CASE VaultEnds
    BY <1>0, <2>7 DEF VaultEnds
  <2> QED
    BY <2>1, <2>2, <2>3, <2>4, <2>5, <2>6, <2>7 DEF VaultPolls, VaultRenews
<1>8. Unsuppressed'
  BY <1>1, <1>4, <1>5, <1>7 DEF Inv, Unsuppressed
<1>9. SuppressedIsSignalled'
  BY <1>3, <1>4, <1>5, <1>7 DEF Inv, SuppressedIsSignalled
<1> QED
  BY <1>4, <1>6, <1>7, <1>8, <1>9, VaultSuffices

LEMMA VaultRestKeeps ==
  ASSUME Inv, kind = "vault", VaultChanges \/ VaultExpires \/ VaultWatch
  PROVE  Inv'
<1>0. Typed /\ srv \in VaultServers /\ prov \in VaultStates
  BY DEF Inv, Typed, KindTyped
<1>1. CASE VaultChanges
  <2>1. SourceTyped' /\ WatchTyped' /\ LoadTyped' /\ kind' = kind
    BY <1>0, <1>1, Replaced DEF VaultChanges
  <2>2. /\ srv' = srv /\ prov' = prov /\ wpc' = wpc /\ ch' = ch /\ sub' = sub /\ want' = want
        /\ lpc' = lpc /\ ctx' = ctx
    BY <1>1 DEF VaultChanges, watchVars, loadVars
  <2>3. Unsuppressed' /\ SuppressedIsSignalled'
    BY <2>1, <2>2 DEF Inv, Unsuppressed, SuppressedIsSignalled
  <2> QED
    BY <1>0, <2>1, <2>2, <2>3, VaultSuffices
<1>2. CASE VaultExpires
  <2>1. RequestMade /\ PollKeeps /\ sub' = sub /\ ch' = ch
    BY <1>2 DEF VaultExpires, RequestMade, PollKeeps, watchVars
  <2>2. SourceTyped' /\ WatchTyped' /\ LoadTyped' /\ kind' = kind
    BY <1>0, <2>1, PollTyped
  <2>3. prov' = prov /\ wpc' = wpc /\ want' = want /\ lpc' = lpc /\ ctx' = ctx
    BY <1>2 DEF VaultExpires, watchVars, loadVars
  <2>4. srv' \in VaultServers
    BY <1>0, <1>2 DEF VaultExpires, VaultServers
  <2>5. Unsuppressed' /\ SuppressedIsSignalled'
    BY <2>1, <2>2, <2>3 DEF Inv, Unsuppressed, SuppressedIsSignalled
  <2> QED
    BY <1>0, <2>2, <2>3, <2>4, <2>5, VaultSuffices
<1>3. CASE VaultWatch
  <2> DEFINE r == IF prov.ttl = 0 THEN "off" ELSE "wait"
             o == [prov EXCEPT !.pc = "tick"]
             p == [o EXCEPT !.renew = r]
  <2>1. o \in VaultStates /\ o.notified = prov.notified
    BY <1>0 DEF VaultStates
  <2>2. WatchOpens(p)
    BY <1>3 DEF VaultWatch
  <2>3. r \in {"off", "wait"}
    OBVIOUS
  <2> HIDE DEF o, r
  <2>4. p \in VaultStates /\ p.notified = prov.notified
    BY <2>1, <2>3, WithRenewal
  <2> HIDE DEF p
  <2>5. /\ kind' = kind /\ srv' = srv /\ prov' = p /\ wpc = "watch" /\ wpc' = "consume"
        /\ SourceTyped' /\ WatchTyped' /\ LoadTyped' /\ sub' = 1
    BY <1>0, <2>2, Opened DEF WatchOpens
  <2>6. prov'.notified = 0
    BY <2>4, <2>5 DEF Inv, Unsuppressed
  <2>7. Unsuppressed' /\ SuppressedIsSignalled'
    BY <2>5, <2>6 DEF Unsuppressed, SuppressedIsSignalled
  <2> QED
    BY <1>0, <2>4, <2>5, <2>7, VaultSuffices
<1> QED
  BY <1>1, <1>2, <1>3

LEMMA VaultKeeps ==
  ASSUME Inv, kind = "vault", VaultNext
  PROVE  Inv'
BY ManagingKeeps, VaultLoadsKeep, VaultPollsKeep, VaultRestKeeps
   DEF VaultNext, VaultLoads, VaultPolls, VaultRenews, Managing

-----------------------------------------------------------------------------
(* HTTP.                                                                   *)

\* A server that sends no ETags answers with none, any other with the current one.
LEMMA ETags ==
  ASSUME srv \in HTTPServers
  PROVE  ETag \in Nat /\ (srv.tags = 0 => ETag = 0) /\ (srv.tags = 1 => ETag = srv.tag)
<1>1. srv.tags \in 0 .. 1 /\ srv.tag \in Nat \ {0}
  BY DEF HTTPServers
<1>2. CASE srv.tags = 0
  BY <1>1, <1>2 DEF ETag
<1>3. CASE srv.tags = 1
  BY <1>1, <1>3 DEF ETag
<1> QED
  BY <1>1, <1>2, <1>3

\* The answer to a request that sends an ETag.
LEMMA AnswerCases ==
  ASSUME NEW e
  PROVE  \/ /\ e # 0 /\ e = ETag
            /\ HTTPAnswer(e) = [doc |-> 0, tag |-> ETag, same |-> 1]
         \/ HTTPAnswer(e) = [doc |-> ver, tag |-> ETag, same |-> 0]
BY DEF HTTPAnswer

\* The fields of the provider's state.
LEMMA HTTPFields ==
  ASSUME NEW o \in HTTPStates
  PROVE  /\ o.etag \in Nat /\ o.body \in 0 .. MaxVer /\ o.asked \in Nat
         /\ o.saw \in 0 .. MaxVer /\ o.sawTag \in Nat
BY DEF HTTPStates

\* The provider's goroutine leaves what Load accepted alone.
Polling(o, r) == r \in HTTPStates /\ r.etag = o.etag /\ r.body = o.body

LEMMA PollingAt ==
  ASSUME NEW o \in HTTPStates, NEW c \in {"off", "tick", "asked", "judge"}
  PROVE  Polling(o, [o EXCEPT !.pc = c])
BY DEF HTTPStates, Polling

LEMMA PollingAsked ==
  ASSUME NEW o \in HTTPStates, NEW e \in Nat
  PROVE  Polling(o, [o EXCEPT !.asked = e, !.pc = "asked"])
BY DEF HTTPStates, Polling

LEMMA PollingSaw ==
  ASSUME NEW o \in HTTPStates, NEW d \in 0 .. MaxVer, NEW t \in Nat,
         NEW c \in {"off", "tick", "asked", "judge"}
  PROVE  Polling(o, [o EXCEPT !.asked = 0, !.saw = d, !.sawTag = t, !.pc = c])
BY DEF HTTPStates, Polling

LEMMA AcceptingTag ==
  ASSUME NEW o \in HTTPStates, NEW t \in Nat
  PROVE  /\ [o EXCEPT !.etag = t] \in HTTPStates
         /\ [o EXCEPT !.etag = t].etag = t /\ [o EXCEPT !.etag = t].body = o.body
BY DEF HTTPStates

\* Only the http properties matter.
LEMMA HTTPSuffices ==
  ASSUME kind = "http", kind' = kind, SourceTyped', WatchTyped', LoadTyped',
         srv' \in HTTPServers, prov' \in HTTPStates, Accepted', Arriving', NotModifiedIsExact'
  PROVE  Inv'
BY DEF Inv, Typed, KindTyped, Drained, Marked, HeldIsSignalled, Unsuppressed,
   SuppressedIsSignalled

\* The provider's goroutine: nothing of what Load uses has changed.
LEMMA HTTPPollsKeep ==
  ASSUME Inv, kind = "http", HTTPTick \/ HTTPProbe \/ HTTPJudge \/ HTTPEnds
  PROVE  Inv'
<1>0. Typed /\ srv \in HTTPServers /\ prov \in HTTPStates /\ ver \in 0 .. MaxVer
  BY DEF Inv, Typed, KindTyped, SourceTyped
<1>1. PollKeeps /\ RequestMade /\ srv' = srv /\ (sub' = sub \/ sub' = 0)
  BY DEF HTTPTick, HTTPProbe, HTTPJudge, HTTPEnds, DuringPoll, PollKeeps, sourceVars, RequestMade
<1>2. ch' = ch \/ \E rev \in Nat : Offer(Event(rev, 0))
  BY <1>0, HTTPFields DEF HTTPTick, HTTPProbe, HTTPJudge, HTTPEnds
<1>3. Polling(prov, prov')
  <2>0. Polling(prov, ProbeEnds)
    BY <1>0, Flags, PollingSaw DEF ProbeEnds
  <2>1. CASE HTTPTick
    BY <1>0, <2>1, HTTPFields, PollingAsked DEF HTTPTick
  <2>2. CASE prov' = ProbeEnds
    BY <2>0, <2>2
  <2>3. CASE HTTPProbe /\ prov' # ProbeEnds
    <3> DEFINE a == HTTPAnswer(prov.asked)
    <3>1. /\ a.same = 0
          /\ prov' = [prov EXCEPT !.asked = 0, !.saw = a.doc, !.sawTag = a.tag, !.pc = "judge"]
      BY <2>3 DEF HTTPProbe
    <3>2. a = [doc |-> ver, tag |-> ETag, same |-> 0]
      BY <3>1, AnswerCases
    <3>3. a.doc \in 0 .. MaxVer /\ a.tag \in Nat
      BY <1>0, <3>2, ETags
    <3> HIDE DEF a
    <3> QED
      BY <1>0, <3>1, <3>3, PollingSaw
  <2>4. CASE HTTPEnds
    <3>1. prov' = [ProbeEnds EXCEPT !.pc = "off"] /\ ProbeEnds \in HTTPStates
      BY <2>0, <2>4 DEF HTTPEnds, Polling
    <3>2. Polling(ProbeEnds, prov')
      BY <3>1, PollingAt
    <3> QED
      BY <2>0, <3>2 DEF Polling
  <2> QED
    BY <2>1, <2>2, <2>3, <2>4 DEF HTTPJudge
<1>4. /\ SourceTyped' /\ WatchTyped' /\ LoadTyped' /\ kind' = kind /\ ver' = ver
      /\ lpc' = lpc /\ resp' = resp /\ since' = since
  BY <1>0, <1>1, <1>2, PollTyped
<1>5. Accepted' /\ Arriving' /\ NotModifiedIsExact'
  BY <1>1, <1>3, <1>4 DEF Inv, Polling, Accepted, Arriving, NotModifiedIsExact
<1> QED
  BY <1>0, <1>1, <1>3, <1>4, <1>5, HTTPSuffices DEF Polling

\* A new ETag is later than all that were sent.
LEMMA HTTPChangesKeeps ==
  ASSUME Inv, kind = "http", HTTPChanges
  PROVE  Inv'
<1>0. /\ Typed /\ srv \in HTTPServers /\ prov \in HTTPStates /\ ver \in 0 .. MaxVer
      /\ resp \in Answers
  BY DEF Inv, Typed, KindTyped, SourceTyped, LoadTyped
<1>1. /\ prov' = prov /\ kind' = kind /\ lpc' = lpc /\ resp' = resp /\ since' = since
      /\ fails' = fails
  BY DEF HTTPChanges, loadVars
<1>2. srv' \in HTTPServers /\ srv'.tags = srv.tags /\ srv'.tag = srv.tag + 1
  <2>1. srv' = [srv EXCEPT !.tag = @ + 1]
    BY DEF HTTPChanges
  <2>2. srv.tag + 1 \in Nat \ {0}
    BY <1>0 DEF HTTPServers
  <2> QED
    BY <1>0, <2>1, <2>2 DEF HTTPServers
<1>3. /\ SourceTyped' /\ WatchTyped' /\ LoadTyped' /\ (ver' = ver \/ ver' = ver + 1)
  <2>1. CASE \E decodable \in BOOLEAN : SourceChanges(decodable)
    BY <1>0, <2>1, Replaced DEF HTTPChanges
  <2>2. CASE ver' = ver /\ bad' = bad
    BY <1>0, <2>2, PollTyped DEF HTTPChanges, watchVars, PollKeeps, RequestMade
  <2> QED
    BY <2>1, <2>2 DEF HTTPChanges
<1>4. prov.etag \in Nat /\ prov.body \in 0 .. MaxVer /\ srv.tag \in Nat
  BY <1>0 DEF HTTPStates, HTTPServers
<1>5. Accepted'
  BY <1>0, <1>1, <1>2, <1>3, <1>4 DEF Inv, Accepted
<1>6. Arriving'
  BY <1>0, <1>1, <1>2, <1>3, <1>4 DEF Inv, Arriving, Answers
<1>7. NotModifiedIsExact'
  BY <1>1 DEF Inv, NotModifiedIsExact
<1> QED
  BY <1>0, <1>1, <1>2, <1>3, <1>5, <1>6, <1>7, HTTPSuffices

\* A 304 answers the ETag of the document; any other answer is the document.
LEMMA HTTPFetchKeeps ==
  ASSUME Inv, kind = "http", HTTPFetch
  PROVE  Inv'
<1>0. /\ Typed /\ srv \in HTTPServers /\ prov \in HTTPStates /\ ver \in 0 .. MaxVer
      /\ since \in 0 .. MaxVer /\ since <= ver
  BY DEF Inv, Typed, KindTyped, SourceTyped, LoadTyped
<1>1. LoadKeeps /\ RequestMade /\ srv' = srv /\ prov' = prov
  BY DEF HTTPFetch, DuringLoad, LoadKeeps, sourceVars, RequestMade
<1>2. ETag \in Nat /\ (srv.tags = 0 => ETag = 0) /\ (srv.tags = 1 => ETag = srv.tag)
      /\ srv.tags \in 0 .. 1
  BY <1>0, ETags DEF HTTPServers
<1>3. CASE LoadErrs
  <2>1. /\ SourceTyped' /\ WatchTyped' /\ LoadTyped' /\ lpc' = "idle"
        /\ kind' = kind /\ ver' = ver
    BY <1>0, <1>1, <1>3, Flags, Returned
  <2>2. Accepted' /\ Arriving' /\ NotModifiedIsExact'
    BY <1>1, <2>1 DEF Inv, Accepted, Arriving, NotModifiedIsExact
  <2> QED
    BY <1>0, <1>1, <2>1, <2>2, HTTPSuffices
<1>4. CASE Answered(HTTPAnswer(prov.etag))
  <2> DEFINE a == HTTPAnswer(prov.etag)
  <2>1. \/ /\ prov.etag # 0 /\ prov.etag = ETag
           /\ a = [doc |-> 0, tag |-> ETag, same |-> 1]
        \/ a = [doc |-> ver, tag |-> ETag, same |-> 0]
    BY AnswerCases
  <2>2. a \in Answers
    <3>1. /\ [doc |-> 0, tag |-> ETag, same |-> 1] \in Answers
          /\ [doc |-> ver, tag |-> ETag, same |-> 0] \in Answers
      BY <1>0, <1>2, Flags DEF Answers
    <3> QED
      BY <2>1, <3>1
  <2>3. lpc' = "got" /\ resp' = a /\ UNCHANGED <<since, served>>
    BY <1>4 DEF Answered
  <2>4. /\ SourceTyped' /\ WatchTyped' /\ LoadTyped' /\ kind' = kind /\ ver' = ver
        /\ since' = since
    BY <1>0, <1>1, <2>2, <2>3, Served
  <2>5. Accepted'
    BY <1>1, <2>4 DEF Inv, Accepted
  <2>6. a.same = 0 => a.doc = ver /\ a.tag = ETag
    BY <2>1
  <2>7. a.same = 1 => prov.etag # 0 /\ prov.etag = ETag
    BY <2>1
  <2> HIDE DEF a
  <2>8. Arriving'
    BY <1>0, <1>1, <1>2, <2>3, <2>4, <2>6 DEF Inv, Arriving, Accepted, HTTPServers
  <2>9. NotModifiedIsExact'
    BY <1>0, <1>1, <1>2, <2>3, <2>4, <2>7 DEF Inv, Accepted, NotModifiedIsExact
  <2> QED
    BY <1>0, <1>1, <2>4, <2>5, <2>8, <2>9, HTTPSuffices
<1> QED
  BY <1>3, <1>4 DEF HTTPFetch

\* ETag and body are accepted together, and only a body that decodes.
LEMMA HTTPAcceptKeeps ==
  ASSUME Inv, kind = "http", HTTPAccept
  PROVE  Inv'
<1>0. /\ Typed /\ srv \in HTTPServers /\ prov \in HTTPStates /\ ver \in 0 .. MaxVer
      /\ resp \in Answers /\ resp.doc \in 0 .. MaxVer /\ resp.tag \in Nat
      /\ prov.body \in 0 .. MaxVer
  BY DEF Inv, Typed, KindTyped, SourceTyped, LoadTyped, HTTPStates, Answers
<1>1. LoadKeeps /\ RequestMade /\ srv' = srv /\ lpc = "got"
  BY DEF HTTPAccept, DuringLoad, LoadKeeps, sourceVars, RequestMade
<1>2. /\ SourceTyped' /\ WatchTyped' /\ LoadTyped' /\ lpc' = "idle"
      /\ kind' = kind /\ ver' = ver
  <2>1. LoadErrs \/ LoadReturns(prov.body) \/ LoadReturns(resp.doc)
    BY DEF HTTPAccept
  <2> QED
    BY <1>0, <1>1, <2>1, Returned
<1>3. Arriving' /\ NotModifiedIsExact'
  BY <1>2 DEF Arriving, NotModifiedIsExact
<1>4. prov' \in HTTPStates /\ Accepted'
  <2>1. CASE prov' = prov
    BY <1>0, <1>1, <1>2, <2>1 DEF Inv, Accepted
  <2>2. CASE /\ resp.same = 0 /\ prov' \in HTTPStates
             /\ prov'.etag = resp.tag /\ prov'.body = resp.doc
    BY <1>1, <1>2, <2>2 DEF Inv, Accepted, Arriving
  <2>3. CASE resp.same = 0 /\ resp.doc = prov.body /\ prov' = [prov EXCEPT !.etag = resp.tag]
    <3>1. prov' \in HTTPStates /\ prov'.etag = resp.tag /\ prov'.body = prov.body
      BY <1>0, <2>3, AcceptingTag
    <3> QED
      BY <2>2, <2>3, <3>1
  <2>4. CASE resp.same = 0 /\ prov' = [prov EXCEPT !.etag = resp.tag, !.body = resp.doc]
    <3>1. prov' \in HTTPStates /\ prov'.etag = resp.tag /\ prov'.body = resp.doc
      <4> DEFINE t == resp.tag
                 d == resp.doc
      <4>1. prov' = [prov EXCEPT !.etag = t, !.body = d] /\ t \in Nat /\ d \in 0 .. MaxVer
        BY <1>0, <2>4
      <4> HIDE DEF t, d
      <4>2. prov' \in HTTPStates /\ prov'.etag = t /\ prov'.body = d
        BY <1>0, <4>1 DEF HTTPStates
      <4> QED
        BY <4>2 DEF t, d
    <3> QED
      BY <2>2, <2>4, <3>1
  <2> QED
    BY <2>1, <2>3, <2>4 DEF HTTPAccept
<1> QED
  BY <1>0, <1>1, <1>2, <1>3, <1>4, HTTPSuffices

LEMMA HTTPWatchKeeps ==
  ASSUME Inv, kind = "http", HTTPWatch
  PROVE  Inv'
<1>0. Typed /\ srv \in HTTPServers /\ prov \in HTTPStates
  BY DEF Inv, Typed, KindTyped
<1> DEFINE p == [prov EXCEPT !.pc = "tick"]
<1>1. p \in HTTPStates /\ p.etag = prov.etag /\ p.body = prov.body
  BY <1>0, PollingAt DEF Polling
<1>2. WatchOpens(p)
  BY DEF HTTPWatch
<1> HIDE DEF p
<1>3. /\ kind' = kind /\ ver' = ver /\ srv' = srv /\ prov' = p
      /\ lpc' = lpc /\ resp' = resp /\ since' = since
      /\ SourceTyped' /\ WatchTyped' /\ LoadTyped'
  BY <1>0, <1>2, Opened
<1>4. Accepted' /\ Arriving' /\ NotModifiedIsExact'
  BY <1>1, <1>3 DEF Inv, Accepted, Arriving, NotModifiedIsExact
<1> QED
  BY <1>0, <1>1, <1>3, <1>4, HTTPSuffices

LEMMA HTTPKeeps ==
  ASSUME Inv, kind = "http", HTTPNext
  PROVE  Inv'
BY ManagingKeeps, HTTPPollsKeep, HTTPChangesKeeps, HTTPFetchKeeps, HTTPAcceptKeeps, HTTPWatchKeeps
   DEF HTTPNext, HTTPNoWatch, Managing

-----------------------------------------------------------------------------
(* The theorem.                                                            *)

LEMMA InvInit == Init => Inv
<1> SUFFICES ASSUME Init PROVE Inv
  OBVIOUS
<1>1. ver \in 0 .. 1 /\ bad = {} /\ fails = 0 /\ ctx = 0 /\ wpc = "off" /\ revision = 0
      /\ ch = <<>> /\ sub = 0 /\ want = 1 /\ lpc = "idle" /\ resp = NoAnswer
      /\ since = 0 /\ served = -1
  BY DEF Init, RemoteInit, StreamInit, ConsulInit, HTTPInit, VaultInit
<1>2. SourceTyped /\ WatchTyped
  BY <1>1, RemoteAssumption DEF SourceTyped, WatchTyped
<1>3. LoadTyped
  <2>1. resp \in Answers
    BY <1>1, AnswerTypes
  <2> QED
    BY <1>1, <2>1, RemoteAssumption DEF LoadTyped
<1>4. KindTyped
  <2>1. CASE kind = "stream"
    BY <2>1, Flags DEF Init, StreamInit, KindTyped, StreamStates
  <2>2. CASE kind = "consul"
    BY <2>2 DEF Init, ConsulInit, KindTyped
  <2>3. CASE kind = "http"
    BY <2>3, Flags DEF Init, HTTPInit, KindTyped, HTTPServers, HTTPStates
  <2>4. CASE kind = "vault"
    BY <2>4, Flags DEF Init, VaultInit, KindTyped, VaultServers, VaultStates
  <2> QED
    BY <2>1, <2>2, <2>3, <2>4 DEF Init
<1>5. Drained /\ HeldIsSignalled /\ Arriving /\ NotModifiedIsExact
  BY <1>1 DEF Drained, HeldIsSignalled, Arriving, NotModifiedIsExact
<1>6. Marked
  BY DEF Init, StreamInit, Marked
<1>7. Accepted
  BY DEF Init, HTTPInit, Accepted
<1>8. Unsuppressed /\ SuppressedIsSignalled
  BY <1>1 DEF Init, VaultInit, Unsuppressed, SuppressedIsSignalled
<1> QED
  BY <1>2, <1>3, <1>4, <1>5, <1>6, <1>7, <1>8 DEF Inv, Typed

LEMMA InvNext == Inv /\ [Next]_remoteVars => Inv'
<1> SUFFICES ASSUME Inv, [Next]_remoteVars PROVE Inv'
  OBVIOUS
<1>1. CASE UNCHANGED remoteVars
  BY <1>1 DEF remoteVars, sourceVars, watchVars, loadVars, Inv, Typed, SourceTyped, WatchTyped,
     LoadTyped, KindTyped, Drained, Marked, HeldIsSignalled, Accepted, Arriving, NotModifiedIsExact,
     Unsuppressed, SuppressedIsSignalled
<1>2. CASE Next
  BY <1>2, StreamKeeps, ConsulKeeps, HTTPKeeps, VaultKeeps DEF Next
<1> QED
  BY <1>1, <1>2

\* The inductive invariant gives the property.
LEMMA InvImplies == Inv => SignalsExact
<1> SUFFICES ASSUME Inv PROVE SignalsExact
  OBVIOUS
<1>1. RemoteTypeOK
  <2>1. resp \in [doc : Nat, tag : Nat, same : 0 .. 1]
    BY RemoteAssumption DEF Inv, Typed, LoadTyped, Answers
  <2> QED
    BY <2>1 DEF Inv, Typed, SourceTyped, WatchTyped, LoadTyped, EventTypes, RemoteTypeOK
<1>2. GapsReported
  BY DEF Inv, Marked, GapsReported
<1> QED
  BY <1>1, <1>2 DEF Inv, SignalsExact

\* For every provider, capacity, and number of versions, failures and tokens: skipped
\* revisions are told of by a gap before a later one is remembered, a held document that is
\* not loaded has a reload or an event coming although events are dropped on a full channel,
\* a suppressed version has a signal or a Load coming, and a 304 stands for a body at least as new as the Load.
THEOREM SignalsAreExact == Spec => []SignalsExact
<1>1. Spec => []Inv
  BY InvInit, InvNext, PTL DEF Spec
<1> QED
  BY <1>1, InvImplies, PTL
=============================================================================
