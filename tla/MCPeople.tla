------------------------------ MODULE MCPeople ------------------------------
(***************************************************************************)
(* RoomPeople with two users: one with a media and a control socket, one   *)
(* with a control socket; two colours, and queues of one list.             *)
(***************************************************************************)
EXTENDS RoomPeople
CONSTANTS ann, bob, am, ac, bc
MCUser == {ann, bob}
MCMedia == {am}
MCCtl == {ac, bc}
MCUserOf == [s \in {am, ac, bc} |-> IF s = bc THEN bob ELSE ann]
=============================================================================
