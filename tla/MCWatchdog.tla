----------------------------- MODULE MCWatchdog -----------------------------
(***************************************************************************)
(* Watchdog with limits scaled down to one tick each.  In ticks of five    *)
(* seconds the code's are StallAfter 3, NoVideoAfter 4, KickCooldown 12,   *)
(* and an agent's back-off of at most 16 seconds and dial of at most 15    *)
(* make MaxAway 7: WatchdogAssumption holds of both with nothing to spare. *)
(***************************************************************************)
EXTENDS Watchdog
=============================================================================
