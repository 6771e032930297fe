------------------------------ MODULE MCClient ------------------------------
(***************************************************************************)
(* A page with its two sockets.  A tick is the first back-off.  Three      *)
(* viewers per user are enough for what a cut leaves to crowd a page out.  *)
(***************************************************************************)
EXTENDS ClientLink

CONSTANTS media, ctl

TwoSockets == {media, ctl}
=============================================================================
