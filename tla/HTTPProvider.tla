----------------------------- MODULE HTTPProvider -----------------------------
(***************************************************************************)
(* providers/http: Load fetches conditionally and accepts a body that      *)
(* decodes; the watch loop probes without accepting and signals while the  *)
(* response differs from what Load accepted.  srv is [tags, tag]: whether  *)
(* the server sends ETags, and the current one.  prov is [interval, etag,  *)
(* body, pc, asked, saw, sawTag]: the poll interval (0 disables Watch),    *)
(* the accepted ETag and body (0 before; a body stands for its hash), and  *)
(* the probe's request and response.                                       *)
(***************************************************************************)
EXTENDS ProviderWatch

ETag == srv.tags * srv.tag

HTTPInit ==
  /\ ver = 1
  /\ \E tags \in 0 .. 1 : srv = [tags |-> tags, tag |-> 1]
  /\ \E interval \in 0 .. 1 :
       prov = [interval |-> interval, etag |-> 0, body |-> 0, pc |-> "off",
               asked |-> 0, saw |-> 0, sawTag |-> 0]

\* The document changes, or only its ETag does.
HTTPChanges ==
  /\ srv.tag < MaxVer /\ srv' = [srv EXCEPT !.tag = @ + 1]
  /\ \/ \E decodable \in BOOLEAN : SourceChanges(decodable)
     \/ srv.tags = 1 /\ UNCHANGED <<ver, bad>>
  /\ UNCHANGED <<kind, fails, ctx, watchVars, loadVars, prov>>

\* The server's answer to a request with If-None-Match: etag.
HTTPAnswer(etag) ==
  IF etag # 0 /\ etag = ETag THEN [doc |-> 0, tag |-> ETag, same |-> 1]
                             ELSE [doc |-> ver, tag |-> ETag, same |-> 0]

HTTPFetch ==
  /\ lpc = "load"
  /\ \/ Answered(HTTPAnswer(prov.etag)) /\ UNCHANGED fails
     \/ RequestFails /\ LoadErrs
  /\ UNCHANGED prov /\ DuringLoad

\* Mistake: the ETag is accepted before the body has been decoded.
HTTPAcceptEarly ==
  /\ lpc = "got"
  /\ \/ /\ resp.same = 1 /\ prov.body # 0
        /\ LoadReturns(prov.body) /\ UNCHANGED prov
     \/ /\ resp.same = 0 /\ resp.doc \notin bad
        /\ LoadReturns(resp.doc)
        /\ prov' = [prov EXCEPT !.etag = resp.tag, !.body = resp.doc]
     \/ /\ resp.same = 0 /\ resp.doc \in bad
        /\ LoadErrs /\ prov' = [prov EXCEPT !.etag = resp.tag]
  /\ UNCHANGED fails /\ DuringLoad

\* Not modified: the accepted body.  The same body: only the ETag is new.  Else
\* all is accepted, if the body decodes.
HTTPAccept ==
  /\ lpc = "got"
  /\ \/ /\ resp.same = 1
        /\ IF prov.body = 0 THEN LoadErrs ELSE LoadReturns(prov.body)
        /\ UNCHANGED prov
     \/ /\ resp.same = 0 /\ resp.doc = prov.body
        /\ LoadReturns(prov.body)
        /\ prov' = [prov EXCEPT !.etag = resp.tag]
     \/ /\ resp.same = 0 /\ resp.doc # prov.body /\ resp.doc \notin bad
        /\ LoadReturns(resp.doc)
        /\ prov' = [prov EXCEPT !.etag = resp.tag, !.body = resp.doc]
     \/ /\ resp.same = 0 /\ resp.doc \in bad
        /\ LoadErrs /\ UNCHANGED prov
  /\ UNCHANGED fails /\ DuringLoad

HTTPWatch == prov.interval > 0 /\ WatchOpens([prov EXCEPT !.pc = "tick"])
HTTPNoWatch == prov.interval = 0 /\ WatchOptsOut

ProbeEnds == [prov EXCEPT !.asked = 0, !.saw = 0, !.sawTag = 0, !.pc = "tick"]

\* poll: a tick sends the probe with the accepted ETag.
HTTPTick ==
  /\ prov.pc = "tick" /\ ctx = 0
  /\ prov' = [prov EXCEPT !.asked = prov.etag, !.pc = "asked"]
  /\ UNCHANGED <<fails, ch, sub>> /\ DuringPoll

\* The answer; not modified and errors end the probe.
HTTPProbe ==
  /\ prov.pc = "asked" /\ ctx = 0
  /\ LET a == HTTPAnswer(prov.asked) IN
     \/ /\ a.same = 0 /\ UNCHANGED fails
        /\ prov' = [prov EXCEPT !.asked = 0, !.saw = a.doc, !.sawTag = a.tag, !.pc = "judge"]
     \/ a.same = 1 /\ UNCHANGED fails /\ prov' = ProbeEnds
     \/ RequestFails /\ prov' = ProbeEnds
  /\ UNCHANGED <<ch, sub>> /\ DuringPoll

\* Signal unless body and ETag are the accepted ones by now.
HTTPJudge ==
  /\ prov.pc = "judge" /\ ctx = 0
  /\ prov' = ProbeEnds
  /\ IF prov.saw = prov.body /\ prov.sawTag = prov.etag
       THEN UNCHANGED ch ELSE Offer(Event(prov.sawTag, 0))
  /\ UNCHANGED <<fails, sub>> /\ DuringPoll

HTTPEnds ==
  /\ sub = 1 /\ ctx = 1 /\ sub' = 0 /\ prov' = [ProbeEnds EXCEPT !.pc = "off"]
  /\ UNCHANGED <<fails, ch>> /\ DuringPoll

HTTPNext == \/ RemoteNext \/ HTTPChanges \/ HTTPFetch \/ HTTPAccept \/ HTTPWatch
            \/ HTTPNoWatch \/ HTTPTick \/ HTTPProbe \/ HTTPJudge \/ HTTPEnds

HTTPLoads == HTTPFetch \/ HTTPAccept
HTTPPolls == HTTPTick \/ HTTPProbe \/ HTTPJudge \/ HTTPEnds
HTTPOpens == HTTPWatch \/ HTTPNoWatch

-----------------------------------------------------------------------------

\* The accepted ETag belongs to the accepted body: a 304 stands for the document
\* that Load would return for it.
NotModifiedIsExact ==
  kind = "http" /\ lpc = "got" /\ resp.same = 1 => prov.body # 0 /\ prov.body >= since
=============================================================================
