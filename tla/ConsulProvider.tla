---------------------------- MODULE ConsulProvider ----------------------------
(***************************************************************************)
(* providers/consul: Load reads the subtree and accepts its index; the     *)
(* watch loop asks for what is newer than a cursor and signals until Load  *)
(* has accepted the index it saw.  srv is the server's index, which a      *)
(* restart sets back.  prov is [index, cursor, loaded, pc, newIdx]: the    *)
(* accepted index and the watch loop's variables.                          *)
(***************************************************************************)
EXTENDS ProviderWatch

ConsulInit ==
  /\ ver = 1 /\ srv = 1
  /\ prov = [index |-> 0, cursor |-> 0, loaded |-> 0, pc |-> "off", newIdx |-> 0]

\* A key changes, or the server restarts with a young index.
ConsulChanges ==
  /\ \E decodable \in BOOLEAN : SourceChanges(decodable)
  /\ srv' = srv + 1
  /\ UNCHANGED <<kind, fails, ctx, watchVars, loadVars, prov>>

ConsulRestarts ==
  /\ srv > 1 /\ RequestFails /\ srv' = 1
  /\ UNCHANGED <<kind, ver, bad, ctx, watchVars, loadVars, prov>>

\* fetch(ctx, 0): the whole subtree and its index, 0 if that cannot be read.
ConsulFetch ==
  /\ lpc = "load"
  /\ \/ Answered([NoAnswer EXCEPT !.doc = ver, !.tag = srv]) /\ UNCHANGED fails
     \/ RequestFails /\ Answered([NoAnswer EXCEPT !.doc = ver])
     \/ RequestFails /\ LoadErrs
  /\ UNCHANGED prov /\ DuringLoad

\* loadMap: the index is accepted once the pairs have been decoded.
ConsulDecode ==
  /\ lpc = "got"
  /\ IF resp.doc \in bad
       THEN LoadErrs /\ UNCHANGED prov
       ELSE LoadReturns(resp.doc) /\ prov' = [prov EXCEPT !.index = resp.tag]
  /\ UNCHANGED fails /\ DuringLoad

ConsulWatch ==
  WatchOpens([prov EXCEPT !.cursor = 0, !.loaded = 0, !.pc = "top"])

\* Only a new successful Load may advance a cursor that was reset.
Cursor ==
  IF prov.index # prov.loaded
    THEN [prov EXCEPT !.cursor = Upto(@, prov.index), !.loaded = prov.index, !.pc = "ask"]
    ELSE [prov EXCEPT !.pc = "ask"]

ConsulTop ==
  /\ prov.pc = "top" /\ ctx = 0 /\ prov' = Cursor
  /\ UNCHANGED <<fails, ch, sub>> /\ DuringPoll

\* The blocking query answers, with a newer index or after its wait; or it fails
\* and is repeated after a pause.
ConsulAsk ==
  /\ prov.pc = "ask" /\ ctx = 0
  /\ \/ prov' = [prov EXCEPT !.newIdx = srv, !.pc = "judge"] /\ UNCHANGED fails
     \/ RequestFails /\ prov' = [prov EXCEPT !.newIdx = 0, !.pc = "judge"]
     \/ RequestFails /\ prov' = [prov EXCEPT !.newIdx = 0, !.pc = "top"]
  /\ UNCHANGED <<ch, sub>> /\ DuringPoll

\* An index below the cursor, or none, resets it; the accepted one is old news; any other
\* is signalled, again if need be, unless the channel is full.
ConsulJudge ==
  /\ prov.pc = "judge" /\ ctx = 0
  /\ \/ /\ prov.newIdx = 0 \/ prov.newIdx < prov.cursor
        /\ prov' = [prov EXCEPT !.cursor = 1, !.newIdx = 0, !.pc = "top"] /\ UNCHANGED ch
     \/ /\ prov.newIdx # 0 /\ prov.newIdx = prov.cursor /\ prov.newIdx = prov.index
        /\ prov' = [prov EXCEPT !.newIdx = 0, !.pc = "top"] /\ UNCHANGED ch
     \/ /\ prov.newIdx # 0 /\ prov.newIdx >= prov.cursor
        /\ prov.cursor # prov.newIdx \/ prov.newIdx # prov.index
        /\ prov' = [prov EXCEPT !.cursor = prov.newIdx, !.newIdx = 0, !.pc = "top"]
        /\ Offer(Event(0, 0))
  /\ UNCHANGED <<fails, sub>> /\ DuringPoll

ConsulEnds ==
  /\ sub = 1 /\ ctx = 1 /\ sub' = 0 /\ prov' = [prov EXCEPT !.newIdx = 0, !.pc = "off"]
  /\ UNCHANGED <<fails, ch>> /\ DuringPoll

ConsulNext == \/ RemoteNext \/ ConsulChanges \/ ConsulRestarts \/ ConsulFetch
              \/ ConsulDecode \/ ConsulWatch \/ ConsulTop \/ ConsulAsk \/ ConsulJudge
              \/ ConsulEnds

ConsulLoads == ConsulFetch \/ ConsulDecode
ConsulPolls == ConsulTop \/ ConsulAsk \/ ConsulJudge \/ ConsulEnds
=============================================================================
