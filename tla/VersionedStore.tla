---------------------------- MODULE VersionedStore ----------------------------
(***************************************************************************)
(* What a Manager promises about snapshots, without saying how: an         *)
(* append-only log of published values, numbered by generation, and the    *)
(* window of the most recent replaced generations that may be listed and   *)
(* rolled back to.                                                         *)
(***************************************************************************)
EXTENDS Integers, Sequences

CONSTANTS Values,      \* configuration values
          HistoryCap   \* how many replaced generations are retained

VARIABLES log,         \* log[g] is the value published as generation g
          retained     \* the retained generations, oldest first

vsVars == <<log, retained>>

Live == Len(log)

\* The retained generations end right below generation g.
EndsBelow(g) == \A i \in 1 .. Len(retained) :
                  retained[i] = g - 1 - Len(retained) + i

VSInit == (\E v \in Values : log = <<v>>) /\ retained = <<>>

\* A new value, or an older one again, becomes the next generation.
PublishValue ==
  /\ EndsBelow(Live)
  /\ \E v \in Values : log' = Append(log, v)
  /\ UNCHANGED retained

\* The generation it replaced joins the window; the oldest one leaves if the
\* window is full.
Retire ==
  /\ Live > 1 /\ HistoryCap > 0
  /\ retained' = IF Len(retained) < HistoryCap
                   THEN Append(retained, Live - 1)
                   ELSE Append(Tail(retained), Live - 1)
  /\ UNCHANGED log

VSNext == PublishValue \/ Retire

VSSpec == VSInit /\ [][VSNext]_vsVars
=============================================================================
