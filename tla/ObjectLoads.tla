----------------------------- MODULE ObjectLoads -----------------------------
(***************************************************************************)
(* The providers that load one remote object without watching it: s3,      *)
(* azblob, gcs and appconfig, with two callers of Load (two managers may   *)
(* share a provider).  The last three serialize Load by a gate that a      *)
(* waiting caller can give up.  Versions of the object are numbered; an    *)
(* ETag, a generation or a content hash is the number of its version.      *)
(***************************************************************************)
EXTENDS Integers

CONSTANTS MaxObj,        \* bound on the versions of the object
          MaxObjFails    \* bound on failing requests and given up waits

ASSUME ObjectAssumption == MaxObj \in Nat \ {0} /\ MaxObjFails \in Nat

Loaders == {1, 2}

VARIABLES
  okind,         \* "s3", "azblob", "gcs" or "appconfig"
  over, obad,    \* the version stored, the versions that do not decode
  ofails,        \* the failures so far
  gate,          \* who is inside Load, 0 for nobody
  cache,         \* the accepted document and its revision, 0 before the first
  oload,         \* the callers: see IdleLoad
  app,           \* appconfig's session: see NoSession
  loaded         \* the highest version a Load has returned

objVars == <<okind, over, obad, ofails, gate, cache, oload, app, loaded>>

\* A caller: where it stands, the condition it sent, the answer (doc 0 with a
\* revision: not modified), the version stored when it was called, and 1 if the
\* last Load returned a document.
IdleLoad == [pc |-> "idle", cond |-> 0, doc |-> 0, rev |-> 0, since |-> 0, out |-> 0]

\* The token held (0 none, 1 fresh, 2 already sent), whether one was sent twice,
\* what the session has delivered (0 nothing), the last content delivered in any
\* session, whether a poll is due, and whether the last error stands.
NoSession == [token |-> 0, twice |-> 0, session |-> 0, seen |-> 0, due |-> 1, err |-> 0]

\* A new provider has accepted nothing and nobody is inside Load.
EmptyCache == [doc |-> 0, rev |-> 0]
OpenGate == 0

ObjInit ==
  /\ over = 1 /\ obad = {} /\ ofails = 0 /\ gate = OpenGate /\ loaded = 0
  /\ cache = EmptyCache
  /\ oload = [l \in Loaders |-> IdleLoad] /\ app = NoSession

Gated == okind # "s3"
ObjRequestFails == ofails < MaxObjFails /\ ofails' = ofails + 1

\* The object is replaced, perhaps by something that does not decode.
ObjChanges(decodable) ==
  /\ over < MaxObj /\ over' = over + 1
  /\ obad' = IF decodable THEN obad ELSE obad \cup {over + 1}
  /\ UNCHANGED <<okind, ofails, gate, cache, oload, app, loaded>>

ObjBegin(l) ==
  /\ oload[l].pc = "idle"
  /\ oload' = [oload EXCEPT ![l] = [IdleLoad EXCEPT
                 !.pc = IF Gated THEN "wait" ELSE "ask", !.since = over]]
  /\ UNCHANGED <<okind, over, obad, ofails, gate, cache, app, loaded>>

\* Mistake: the gate is taken without being held.
ObjEnterFreely(l) ==
  /\ oload[l].pc = "wait" /\ gate = OpenGate
  /\ oload' = [oload EXCEPT ![l].pc = "ask"]
  /\ UNCHANGED <<okind, over, obad, ofails, gate, cache, app, loaded>>

ObjEnter(l) ==
  /\ oload[l].pc = "wait" /\ gate = OpenGate
  /\ gate' = l /\ oload' = [oload EXCEPT ![l].pc = "ask"]
  /\ UNCHANGED <<okind, over, obad, ofails, cache, app, loaded>>

\* Mistake: an error leaves the gate shut.
ObjReturnsHolding(l, doc) ==
  /\ oload' = [oload EXCEPT ![l] = [IdleLoad EXCEPT !.out = IF doc = 0 THEN 0 ELSE 1]]
  /\ gate' = IF gate = l /\ doc # 0 THEN OpenGate ELSE gate
  /\ loaded' = IF doc > loaded THEN doc ELSE loaded

\* Load returns doc, 0 for an error, and opens the gate.
ObjReturns(l, doc) ==
  /\ oload' = [oload EXCEPT ![l] =
                 [IdleLoad EXCEPT !.out = IF doc = 0 THEN 0 ELSE 1]]
  /\ gate' = IF gate = l THEN OpenGate ELSE gate
  /\ loaded' = IF doc > loaded THEN doc ELSE loaded

\* The caller's context ends while it waits for the gate.
ObjGivesUp(l) ==
  /\ oload[l].pc = "wait" /\ ObjRequestFails /\ ObjReturns(l, 0)
  /\ UNCHANGED <<okind, over, obad, cache, app>>

-----------------------------------------------------------------------------
(* s3 and azblob: a conditional get.                                       *)

\* The request carries the accepted ETag.
CondAsk(l) ==
  /\ okind \in {"s3", "azblob"} /\ oload[l].pc = "ask"
  /\ oload' = [oload EXCEPT ![l].cond = cache.rev, ![l].pc = "sent"]
  /\ UNCHANGED <<okind, over, obad, ofails, gate, cache, app, loaded>>

CondAnswer(l) ==
  /\ okind \in {"s3", "azblob"} /\ oload[l].pc = "sent"
  /\ \/ /\ oload' = [oload EXCEPT ![l].pc = "got", ![l].cond = 0,
                       ![l].doc = IF oload[l].cond = over THEN 0 ELSE over,
                       ![l].rev = over]
        /\ UNCHANGED <<ofails, gate, loaded>>
     \/ ObjRequestFails /\ ObjReturns(l, 0)
  /\ UNCHANGED <<okind, over, obad, cache, app>>

\* Not modified: what is accepted by now.  Otherwise the body, if it decodes.
CondAccept(l) ==
  /\ okind \in {"s3", "azblob"} /\ oload[l].pc = "got"
  /\ \/ /\ oload[l].doc = 0 /\ ObjReturns(l, cache.doc) /\ UNCHANGED cache
     \/ /\ oload[l].doc # 0 /\ oload[l].doc \notin obad
        /\ cache' = [doc |-> oload[l].doc, rev |-> oload[l].rev]
        /\ ObjReturns(l, oload[l].doc)
     \/ /\ oload[l].doc \in obad /\ ObjReturns(l, 0) /\ UNCHANGED cache
  /\ UNCHANGED <<okind, over, obad, ofails, app>>

-----------------------------------------------------------------------------
(* gcs: the generation first, then a read pinned to it.                    *)

GCSAttrs(l) ==
  /\ okind = "gcs" /\ oload[l].pc = "ask"
  /\ \/ cache.rev = over /\ ObjReturns(l, cache.doc) /\ UNCHANGED ofails
     \/ /\ cache.rev # over
        /\ oload' = [oload EXCEPT ![l].pc = "read", ![l].rev = over]
        /\ UNCHANGED <<ofails, gate, loaded>>
     \/ ObjRequestFails /\ ObjReturns(l, 0)
  /\ UNCHANGED <<okind, over, obad, cache, app>>

\* Mistake: the read is not pinned to the generation.
GCSReadLatest(l) ==
  /\ okind = "gcs" /\ oload[l].pc = "read"
  /\ IF over \in obad
       THEN ObjReturns(l, 0) /\ UNCHANGED cache
       ELSE /\ cache' = [doc |-> over, rev |-> oload[l].rev]
            /\ ObjReturns(l, over)
  /\ UNCHANGED <<okind, over, obad, ofails, app>>

\* A generation that was replaced is gone, unless the bucket keeps versions.
GCSRead(l) ==
  /\ okind = "gcs" /\ oload[l].pc = "read"
  /\ LET gen == oload[l].rev IN
     \/ /\ gen \notin obad
        /\ cache' = [doc |-> gen, rev |-> gen] /\ ObjReturns(l, gen)
        /\ UNCHANGED ofails
     \/ gen \in obad /\ ObjReturns(l, 0) /\ UNCHANGED <<cache, ofails>>
     \/ gen # over /\ ObjReturns(l, 0) /\ UNCHANGED <<cache, ofails>>
     \/ ObjRequestFails /\ ObjReturns(l, 0) /\ UNCHANGED cache
  /\ UNCHANGED <<okind, over, obad, app>>

-----------------------------------------------------------------------------
(* appconfig: a session of one-use tokens and a minimum poll interval.     *)

AppPollDue ==
  /\ okind = "appconfig" /\ app.due = 0 /\ app' = [app EXCEPT !.due = 1]
  /\ UNCHANGED <<okind, over, obad, ofails, gate, cache, oload, loaded>>

\* Mistake: the accepted document stands in for an error.
AppSnapshotForgiving(l, s, c) == ObjReturns(l, c.doc)

\* snapshot: the last error stands, or the accepted document if there is one.
AppSnapshot(l, s, c) ==
  IF s.err = 1 THEN ObjReturns(l, 0) ELSE ObjReturns(l, c.doc)

\* Before the next poll the service is not called.
AppEarly(l) ==
  /\ okind = "appconfig" /\ oload[l].pc = "ask" /\ app.due = 0
  /\ AppSnapshot(l, app, cache)
  /\ UNCHANGED <<okind, over, obad, ofails, cache, app>>

AppStart(l) ==
  /\ okind = "appconfig" /\ oload[l].pc = "ask" /\ app.due = 1 /\ app.token = 0
  /\ \/ /\ app' = [app EXCEPT !.token = 1, !.session = 0]
        /\ UNCHANGED <<ofails, gate, oload, loaded>>
     \/ /\ ObjRequestFails /\ app' = [app EXCEPT !.due = 0, !.err = 1]
        /\ ObjReturns(l, 0)
  /\ UNCHANGED <<okind, over, obad, cache>>

\* Mistake: the token is kept until the answer brings the next.
AppSendKeeping(l) ==
  /\ okind = "appconfig" /\ oload[l].pc = "ask" /\ app.due = 1 /\ app.token # 0
  /\ app' = [app EXCEPT !.token = 2, !.twice = IF app.token = 2 THEN 1 ELSE @]
  /\ oload' = [oload EXCEPT ![l].pc = "sent"]
  /\ UNCHANGED <<okind, over, obad, ofails, gate, cache, loaded>>

\* The token is forgotten before it is sent.
AppSend(l) ==
  /\ okind = "appconfig" /\ oload[l].pc = "ask" /\ app.due = 1 /\ app.token # 0
  /\ app' = [app EXCEPT !.token = 0, !.twice = IF app.token = 2 THEN 1 ELSE @]
  /\ oload' = [oload EXCEPT ![l].pc = "sent"]
  /\ UNCHANGED <<okind, over, obad, ofails, gate, cache, loaded>>

\* The answer: nothing new in this session, a document, one that does not decode,
\* or no answer.
AppAnswer(l) ==
  /\ okind = "appconfig" /\ oload[l].pc = "sent"
  /\ LET s == [app EXCEPT !.token = 1, !.due = 0] IN
     \/ /\ app.session = over /\ app' = s /\ AppSnapshot(l, s, cache)
        /\ UNCHANGED <<cache, ofails>>
     \/ /\ app.session # over /\ over \notin obad
        /\ app' = [s EXCEPT !.session = over, !.seen = over, !.err = 0]
        /\ cache' = [doc |-> over, rev |-> over] /\ ObjReturns(l, over)
        /\ UNCHANGED ofails
     \/ /\ app.session # over /\ over \in obad
        /\ app' = [s EXCEPT !.session = over, !.seen = over, !.err = 1]
        /\ ObjReturns(l, 0) /\ UNCHANGED <<cache, ofails>>
     \/ /\ ObjRequestFails /\ app' = [app EXCEPT !.due = 0, !.err = 1]
        /\ ObjReturns(l, 0) /\ UNCHANGED cache
  /\ UNCHANGED <<okind, over, obad>>

-----------------------------------------------------------------------------

LoadSteps(l) ==
  \/ ObjEnter(l) \/ CondAsk(l) \/ CondAnswer(l) \/ CondAccept(l)
  \/ GCSAttrs(l) \/ GCSRead(l)
  \/ AppEarly(l) \/ AppStart(l) \/ AppSend(l) \/ AppAnswer(l)

\* A document and the revision it is accepted and returned with belong together,
\* whoever else loads and replaces the object at the same time.
RevisionPaired ==
  /\ cache.doc = cache.rev
  /\ \A l \in Loaders : oload[l].pc = "got" => oload[l].doc \in {0, oload[l].rev}

\* With the gate a Load returns nothing older than what was stored when it was
\* called: a not-modified answer is not answered from a cache that went back.
LoadFresh ==
  \A l \in Loaders :
    /\ okind = "azblob" /\ oload[l].pc = "got" =>
         IF oload[l].doc = 0 THEN cache.doc >= oload[l].since
                             ELSE oload[l].doc >= oload[l].since
    /\ okind = "gcs" /\ oload[l].pc = "read" => oload[l].rev >= oload[l].since

\* No token of appconfig is sent twice, after failed requests too ("Never replay a
\* token after an uncertain network outcome").
TokenOnce == app.twice = 0

\* appconfig returns the last content it was sent or an error: content that does
\* not decode stays an error while the service has nothing newer.
RejectedStays ==
  [][okind = "appconfig" =>
       \A l \in Loaders : oload[l].pc # "idle" /\ oload'[l].out = 1 =>
         cache'.doc = app'.seen]_objVars
=============================================================================
