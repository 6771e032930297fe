------------------------------ MODULE MCPaint -------------------------------
(***************************************************************************)
(* PaintWatch with the shortest window its assumption allows, two bad      *)
(* samples and two failed checks to the end, and a channel of one sample.  *)
(***************************************************************************)
EXTENDS PaintWatch
=============================================================================
