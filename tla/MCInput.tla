------------------------------ MODULE MCInput -------------------------------
(***************************************************************************)
(* ViewerInput with two users, one of them with two control sockets.  A    *)
(* message costs two units and one accrues in a tick, a bucket holds one   *)
(* and a half, and an account runs long enough for two bursts and more.    *)
(***************************************************************************)
EXTENDS ViewerInput
CONSTANTS ann, bob, a1, a2, b1
MCUser == {ann, bob}
MCSocket == {a1, a2, b1}
MCUserOf == [s \in MCSocket |-> IF s = b1 THEN bob ELSE ann]
=============================================================================
