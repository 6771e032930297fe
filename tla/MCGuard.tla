------------------------------ MODULE MCGuard -------------------------------
(***************************************************************************)
(* Guard on a small instance: two rooms under a cap of one, two handler    *)
(* goroutines and the reaper, both backends.  Two rooms and one slot are   *)
(* what the cap needs to be at stake; two handlers and the reaper are what *)
(* a stale list needs.                                                     *)
(***************************************************************************)
EXTENDS Guard

BothBackends == {"docker", "k8s"}
=============================================================================
