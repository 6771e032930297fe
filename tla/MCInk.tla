------------------------------- MODULE MCInk --------------------------------
(***************************************************************************)
(* Two users who draw, of whom one is watched: a viewer's queue and screen *)
(* depend on nobody else's.  Two strokes of one or two batches reach every *)
(* cap, and a queue of one message is full while a repair overtakes it;    *)
(* for longer queues there is the theorem QuietViewersAgree.               *)
(***************************************************************************)
EXTENDS InkBoard
=============================================================================
