------------------------------ MODULE MCFanout ------------------------------
(***************************************************************************)
(* Two connections, of which one may replace the other and come back, and  *)
(* one viewer: Publish, Admit and ResetStream treat every viewer by        *)
(* itself.  The queue holds three chunks of its 128: what Admit may put in *)
(* it, and enough to run full.                                             *)
(***************************************************************************)
EXTENDS RoomFanout
=============================================================================
