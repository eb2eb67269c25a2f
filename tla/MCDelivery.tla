------------------------------ MODULE MCDelivery ------------------------------
(* The parts at the manager's edge for TLC: which one moves is chosen at the *)
(* beginning.                                                                *)
EXTENDS Notifications, WatchPaths, Observers

VARIABLE part

vars == <<part, deliveryVars, pathVars, observerVars>>

Init == /\ NotifyInit /\ PathInit /\ ObserverInit
        /\ part \in {"notifications", "paths", "observers"}
        /\ part # "paths" => ino[Depth] # 0
        /\ part # "notifications" => nkind = "sns" /\ okind = "s3" /\ noise = "other"

Next ==
  /\ UNCHANGED part
  /\ \/ part = "notifications" /\ NotifyNext /\ UNCHANGED <<pathVars, observerVars>>
     \/ part = "paths" /\ PathNext /\ UNCHANGED <<deliveryVars, observerVars>>
     \/ part = "observers" /\ ObserverNext /\ UNCHANGED <<deliveryVars, pathVars>>

Spec == Init /\ [][Next]_vars

FairSpec == Spec /\ (part = "notifications" => NotifyFairness)
=============================================================================
