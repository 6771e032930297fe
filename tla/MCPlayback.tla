----------------------------- MODULE MCPlayback -----------------------------
(***************************************************************************)
(* Two configurations, a budget of two restarts in a window of three       *)
(* ticks, and a stream whose time can fall back by more than the watch     *)
(* forgives.  Seven troubles exhaust the configurations and the budget     *)
(* and leave some for the stream.                                          *)
(***************************************************************************)
EXTENDS Playback
=============================================================================
