----------------------------- MODULE VaultProvider -----------------------------
(***************************************************************************)
(* providers/vault: Load logs in if it has no token, reads the secret and  *)
(* accepts its version; the watch loop polls the version and signals each  *)
(* new one once until a Load begins; the renewal loop replaces the token   *)
(* of a lease and signals that.  srv is [leased, valid]: whether tokens    *)
(* expire, and the newest token the server has issued and still accepts    *)
(* (0 when it has expired).  prov is [token, ttl, version, notified, pc,   *)
(* saw, renew]; tokens are numbered as issued, 0 is the empty one, and     *)
(* renew is the renewal loop's state.  Every version can be expanded;      *)
(* polling is on.                                                          *)
(***************************************************************************)
EXTENDS ProviderWatch

CONSTANT MaxTokens   \* bound on logins

VaultInit ==
  /\ ver = 1
  /\ \E leased \in 0 .. 1 : srv = [leased |-> leased, valid |-> 0, issued |-> 0]
  /\ prov = [token |-> 0, ttl |-> 0, version |-> 0, notified |-> 0, pc |-> "off",
             saw |-> 0, renew |-> "off"]

VaultChanges ==
  /\ SourceChanges(TRUE)
  /\ UNCHANGED <<kind, srv, fails, ctx, watchVars, loadVars, prov>>

\* The lease of the token ends, not before New has succeeded: a provider without
\* a renewal loop keeps its expired token.
VaultExpires ==
  /\ served # -1 /\ srv.leased = 1 /\ srv.valid # 0 /\ srv.issued < MaxTokens
  /\ srv' = [srv EXCEPT !.valid = 0]
  /\ UNCHANGED <<kind, ver, bad, fails, ctx, watchVars, loadVars, prov>>

Login == srv' = [srv EXCEPT !.issued = @ + 1, !.valid = srv.issued + 1]
Authorized == prov.token # 0 /\ prov.token = srv.valid

LoadKeeps == UNCHANGED <<kind, ver, bad, ctx, watchVars, want>>

\* Mistake: a Load leaves the duplicate suppression alone.
VaultBeginForgetting ==
  /\ lpc = "load"
  /\ \/ /\ prov.token # 0 /\ Answered(NoAnswer) /\ UNCHANGED <<srv, fails, prov>>
     \/ /\ prov.token = 0 /\ Login /\ Answered(NoAnswer)
        /\ prov' = [prov EXCEPT !.token = srv.issued + 1, !.ttl = srv.leased]
        /\ UNCHANGED fails
     \/ /\ prov.token = 0 /\ RequestFails /\ LoadErrs /\ UNCHANGED <<srv, prov>>
  /\ LoadKeeps

\* loadMap clears the suppression of duplicates, then makes sure of a token.
VaultBegin ==
  /\ lpc = "load"
  /\ \/ /\ prov.token # 0 /\ Answered(NoAnswer) /\ UNCHANGED <<srv, fails>>
        /\ prov' = [prov EXCEPT !.notified = 0]
     \/ /\ prov.token = 0 /\ Login /\ Answered(NoAnswer)
        /\ prov' = [prov EXCEPT !.notified = 0, !.token = srv.issued + 1,
                                !.ttl = srv.leased]
        /\ UNCHANGED fails
     \/ /\ prov.token = 0 /\ RequestFails /\ LoadErrs /\ UNCHANGED srv
        /\ prov' = [prov EXCEPT !.notified = 0]
  /\ LoadKeeps

\* readData: an expired token is refused.
VaultRead ==
  /\ lpc = "got"
  /\ \/ /\ Authorized /\ lpc' = "read" /\ resp' = [NoAnswer EXCEPT !.doc = ver]
        /\ UNCHANGED <<since, served, fails>>
     \/ ~Authorized /\ LoadErrs /\ UNCHANGED fails
     \/ RequestFails /\ LoadErrs
  /\ UNCHANGED prov /\ DuringLoad

VaultAccept ==
  /\ lpc = "read" /\ LoadReturns(resp.doc)
  /\ prov' = [prov EXCEPT !.version = resp.doc]
  /\ UNCHANGED fails /\ DuringLoad

\* Watch starts both loops; the renewal loop ends at once for a token without a
\* lease.  The token is there: New has loaded.
VaultWatch ==
  WatchOpens([prov EXCEPT !.pc = "tick", !.renew = IF prov.ttl = 0 THEN "off" ELSE "wait"])

\* watchLoop: a tick reads the version from the metadata.
VaultTick ==
  /\ prov.pc = "tick" /\ ctx = 0
  /\ \/ /\ Authorized /\ prov' = [prov EXCEPT !.saw = ver, !.pc = "mark"]
        /\ UNCHANGED fails
     \/ Authorized /\ RequestFails /\ UNCHANGED prov
  /\ UNCHANGED <<ch, sub>> /\ DuringPoll

\* A version that was accepted or is already signalled is skipped.
VaultMark ==
  /\ prov.pc = "mark" /\ ctx = 0
  /\ prov' = IF prov.saw \in {prov.version, prov.notified}
               THEN [prov EXCEPT !.saw = 0, !.pc = "tick"]
               ELSE [prov EXCEPT !.notified = prov.saw, !.pc = "send"]
  /\ UNCHANGED <<fails, ch, sub>> /\ DuringPoll

\* On a full channel the mark is taken back, unless a Load has done so.
VaultSend ==
  /\ prov.pc = "send" /\ ctx = 0
  /\ prov' = [prov EXCEPT !.saw = 0, !.pc = "tick",
                !.notified = IF Len(ch) >= Cap /\ @ = prov.saw THEN 0 ELSE @]
  /\ Offer(Event(0, 0))
  /\ UNCHANGED <<fails, sub>> /\ DuringPoll

\* renewLoop: log in ahead of the lease's end and announce it; try again soon
\* after a failure.
VaultRenew ==
  /\ prov.renew = "wait" /\ ctx = 0 /\ srv.issued < MaxTokens
  /\ \/ /\ Login /\ prov' = [prov EXCEPT !.token = srv.issued + 1]
        /\ Offer(Event(0, 0)) /\ UNCHANGED fails
     \/ RequestFails /\ UNCHANGED <<srv, prov, ch>>
  /\ UNCHANGED <<kind, ver, bad, ctx, wpc, revision, sub, loadVars>>

\* The channel is closed after both loops have ended.
VaultLoopEnds ==
  /\ sub = 1 /\ ctx = 1 /\ prov.pc # "off" /\ prov' = [prov EXCEPT !.saw = 0, !.pc = "off"]
  /\ UNCHANGED <<fails, ch, sub>> /\ DuringPoll
VaultRenewEnds ==
  /\ sub = 1 /\ ctx = 1 /\ prov.renew # "off" /\ prov' = [prov EXCEPT !.renew = "off"]
  /\ UNCHANGED <<fails, ch, sub>> /\ DuringPoll
VaultEnds ==
  /\ sub = 1 /\ ctx = 1 /\ prov.pc = "off" /\ prov.renew = "off" /\ sub' = 0
  /\ UNCHANGED <<fails, ch, prov>> /\ DuringPoll

VaultNext == \/ RemoteNext \/ VaultChanges \/ VaultExpires \/ VaultBegin \/ VaultRead
             \/ VaultAccept \/ VaultWatch \/ VaultTick \/ VaultMark \/ VaultSend
             \/ VaultRenew \/ VaultLoopEnds \/ VaultRenewEnds \/ VaultEnds

VaultLoads == VaultBegin \/ VaultRead \/ VaultAccept
VaultPolls == VaultTick \/ VaultMark \/ VaultSend \/ VaultLoopEnds \/ VaultEnds
VaultRenews == VaultRenew \/ VaultRenewEnds

-----------------------------------------------------------------------------

\* Signals for a version are suppressed only while the one that was sent, or another, is
\* on its way to a Load, which ends the suppression: no failed Load leaves it behind.
SuppressedIsSignalled ==
  kind = "vault" /\ prov.notified # 0 /\ ctx = 0 =>
    prov.pc = "send" \/ ch # <<>> \/ want = 1 \/ lpc = "load"
=============================================================================
