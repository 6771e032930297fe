---------------------------- MODULE MCRoomsReuse ----------------------------
(* The instance of MCRooms, for RoomReuse. *)
EXTENDS RoomReuse, MCRooms
=============================================================================
