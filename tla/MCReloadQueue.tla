---------------------------- MODULE MCReloadQueue ----------------------------
(* Small instances of ReloadQueue for TLC.                                 *)
EXTENDS ReloadQueue, TLC

\* The API calls are interchangeable.
CallSymmetry == Permutations(Calls)
=============================================================================
