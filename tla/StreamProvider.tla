---------------------------- MODULE StreamProvider ----------------------------
(***************************************************************************)
(* A provider that is pushed its documents (examples/nats with             *)
(* providerutil.Latest), the shape contracts.Watcher describes: it resumes *)
(* strictly after the revision it is given, or starts cold and marks the   *)
(* first event.  prov is [latest, pos, due, gap, lost]: the document held,  *)
(* the revision delivered last, the revision the handler has stored and    *)
(* not yet announced (0 when it is not at work), whether the next event is *)
(* marked, and the highest revision a cold start skipped and no event has  *)
(* told of.                                                                *)
(***************************************************************************)
EXTENDS ProviderWatch

\* Nothing has been published yet.
StreamInit ==
  /\ ver = 0 /\ srv = 0
  /\ prov = [latest |-> 0, pos |-> 0, due |-> 0, gap |-> 0, lost |-> 0]

StreamChanges ==
  /\ \E decodable \in BOOLEAN : SourceChanges(decodable)
  /\ UNCHANGED <<kind, srv, fails, ctx, watchVars, loadVars, prov>>

\* providerutil.Latest: the document held, empty before the first.
LatestSnapshot == prov.latest
LatestStore(p, doc) == [p EXCEPT !.latest = doc]

StreamLoad ==
  /\ lpc = "load" /\ LoadReturns(LatestSnapshot)
  /\ UNCHANGED <<fails, prov>> /\ DuringLoad

\* The first subscription sees only what comes after it.
StreamSubscribe ==
  /\ revision = 0
  /\ WatchOpens([prov EXCEPT !.pos = ver, !.gap = 0])

StreamResume ==
  /\ revision # 0
  /\ WatchOpens([prov EXCEPT !.pos = revision, !.gap = 0, !.lost = 0])

\* Mistake: the cold start is not marked.
StreamColdUnmarked ==
  /\ revision # 0
  /\ WatchOpens([prov EXCEPT !.pos = ver, !.gap = 0,
                             !.lost = IF ver > revision THEN ver ELSE 0])

\* The connection cannot resume.
StreamCold ==
  /\ revision # 0
  /\ WatchOpens([prov EXCEPT !.pos = ver, !.gap = 1,
                             !.lost = IF ver > revision THEN ver ELSE 0])

\* The handler has the next message: one that does not decode is skipped, another
\* is stored, where a Load finds it from now on.
StreamStore ==
  /\ sub = 1 /\ ctx = 0 /\ prov.due = 0 /\ prov.pos < ver
  /\ LET n == prov.pos + 1 IN
       prov' = IF n \in bad THEN [prov EXCEPT !.pos = n]
                            ELSE [LatestStore(prov, n) EXCEPT !.pos = n, !.due = n]
  /\ UNCHANGED <<fails, ch, sub>> /\ DuringPoll

\* Then it offers the event, which takes the mark along.
StreamOffer ==
  /\ sub = 1 /\ prov.due # 0
  /\ Offer(Event(prov.due, prov.gap))
  /\ prov' = [prov EXCEPT !.due = 0, !.gap = 0,
                          !.lost = IF prov.gap = 1 /\ Len(ch) < Cap THEN 0 ELSE @]
  /\ UNCHANGED <<fails, sub>> /\ DuringPoll

StreamDeliver == StreamStore \/ StreamOffer

\* The connection is lost and the provider closes its channel, as contracts.Watcher
\* allows; examples/nats leaves reconnecting to its connection.
StreamLost ==
  /\ sub = 1 /\ ctx = 0 /\ prov.due = 0 /\ RequestFails /\ sub' = 0
  /\ UNCHANGED <<ch, prov>> /\ DuringPoll

\* The channel is closed at the end of the lifetime; Unsubscribe has waited for the
\* handler ("stops delivery synchronously").
StreamEnds ==
  /\ sub = 1 /\ ctx = 1 /\ prov.due = 0 /\ sub' = 0
  /\ UNCHANGED <<fails, ch, prov>> /\ DuringPoll

StreamNext == \/ RemoteNext \/ WatchErrs \/ StreamChanges \/ StreamLoad
              \/ StreamSubscribe \/ StreamResume \/ StreamCold
              \/ StreamDeliver \/ StreamLost \/ StreamEnds

StreamOpens == StreamSubscribe \/ StreamResume \/ StreamCold

-----------------------------------------------------------------------------

\* Revisions that a cold subscription skipped are told of by a gap before the
\* loop remembers a later revision ("Resume strictly after it or mark the first
\* cold event Gap").
GapsReported == kind = "stream" => prov.lost = 0 \/ revision < prov.lost

\* A document the provider holds is loaded or will be, once the handler has offered
\* its event: the event that was dropped on a full channel is not missed.
HeldIsSignalled ==
  kind = "stream" /\ served # -1 /\ ctx = 0 =>
    prov.latest = served \/ prov.due # 0 \/ want = 1 \/ lpc # "idle" \/ ch # <<>>
=============================================================================
