------------------------------ MODULE MCRooms -------------------------------
(***************************************************************************)
(* One room and one viewer.  Rooms meet only at the cap, which "faulty"    *)
(* lets other rooms fill, and in the queue of the housekeeping loop; the   *)
(* gateway asks of a room's viewers only whether there are any.            *)
(***************************************************************************)
EXTENDS RoomLifecycle

CONSTANTS r1, v1

OneRoom == {r1}
OneViewer == {v1}
HomeOfOne == [v \in OneViewer |-> r1]
=============================================================================
