----------------------------- MODULE MCProviders -----------------------------
(* Small instances of the watching providers for TLC: the kind is chosen    *)
(* at the beginning.                                                        *)
EXTENDS StreamProvider, ConsulProvider, HTTPProvider, VaultProvider

Init ==
  /\ RemoteInit
  /\ \/ kind = "stream" /\ StreamInit
     \/ kind = "consul" /\ ConsulInit
     \/ kind = "http" /\ HTTPInit
     \/ kind = "vault" /\ VaultInit

Next ==
  \/ kind = "stream" /\ StreamNext
  \/ kind = "consul" /\ ConsulNext
  \/ kind = "http" /\ HTTPNext
  \/ kind = "vault" /\ VaultNext

Spec == Init /\ [][Next]_remoteVars

Opens ==
  \/ kind = "stream" /\ StreamOpens
  \/ kind = "consul" /\ ConsulWatch
  \/ kind = "http" /\ HTTPOpens
  \/ kind = "vault" /\ VaultWatch
Loads ==
  \/ kind = "stream" /\ StreamLoad
  \/ kind = "consul" /\ ConsulLoads
  \/ kind = "http" /\ HTTPLoads
  \/ kind = "vault" /\ VaultLoads
Polls ==
  \/ kind = "stream" /\ (StreamDeliver \/ StreamEnds)
  \/ kind = "consul" /\ ConsulPolls
  \/ kind = "http" /\ HTTPPolls
  \/ kind = "vault" /\ VaultPolls

\* Every goroutine runs: the writer, the subscription loop, the provider's polls
\* and its renewal.  The application calls New again until it succeeds.
FairSpec ==
  /\ Spec /\ WF_remoteVars(BeginLoad) /\ WF_remoteVars(Loads)
  /\ WF_remoteVars(WatcherSteps) /\ WF_remoteVars(Opens) /\ WF_remoteVars(Polls)
  /\ WF_remoteVars(kind = "vault" /\ VaultRenews)
  /\ WF_remoteVars(served = -1 /\ AskReload)

\* What a provider has accepted is what the server has: consul compares indexes,
\* a stream what it was pushed.
UpToDate ==
  CASE kind = "stream" -> served = prov.latest
    [] kind = "consul" -> prov.index = srv
    [] kind = "http" -> served = ver \/ prov.interval = 0
    [] OTHER -> served = ver

\* A remote document that stops changing and decodes is eventually loaded, after
\* failed loads, lost signals, expired tokens, restarts and lost connections, by
\* the provider's own signals.
ChangesLoaded == <>[](ctx = 1 \/ ver \in bad \/ UpToDate)

\* Whatever a provider knows and the manager has not loaded is announced: skipped
\* revisions by a gap, a held document by an event, a version whose signals are suppressed
\* by one that was sent, and a 304 stands for the body that was accepted with its ETag.
SignalsExact ==
  /\ RemoteTypeOK /\ GapsReported /\ HeldIsSignalled /\ SuppressedIsSignalled
  /\ NotModifiedIsExact
=============================================================================
