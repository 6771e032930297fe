----------------------------- MODULE Supervisor -----------------------------
(***************************************************************************)
(* What the room guard promises the gateway, said over the containers      *)
(* alone: at most Cap rooms have a container, a container is new when it   *)
(* appears, and it runs only after it was created or when a stopped one is *)
(* started again.  Guard implements this module; RoomLifecycle is built on *)
(* its actions, so a gateway behaviour never asks more of a guard than     *)
(* Guard is shown to give.                                                 *)
(***************************************************************************)
EXTENDS Naturals, FiniteSets

CONSTANTS Room,  \* the room ids
          Cap    \* ROOM_CAP, the most rooms at once

VARIABLE box     \* box[r]: what has become of the container of room r

BoxState == {"absent", "created", "live", "exited"}

Present == {r \in Room : box[r] # "absent"}

TypeOK == box \in [Room -> BoxState]

Init == box = [r \in Room |-> "absent"]

\* A container that was not there is created, if the cap leaves room for it.
Create(r) ==
    /\ box[r] = "absent"
    /\ Cardinality(Present) < Cap
    /\ box' = [box EXCEPT ![r] = "created"]

\* A container that was created, or has stopped, runs.
Run(r) ==
    /\ box[r] \in {"created", "exited"}
    /\ box' = [box EXCEPT ![r] = "live"]

\* A container stops, by itself or because it is being deleted.
Exit(r) ==
    /\ box[r] \in {"created", "live"}
    /\ box' = [box EXCEPT ![r] = "exited"]

\* A container is gone.
Remove(r) ==
    /\ box[r] # "absent"
    /\ box' = [box EXCEPT ![r] = "absent"]

Next == \E r \in Room : Create(r) \/ Run(r) \/ Exit(r) \/ Remove(r)

Spec == Init /\ [][Next]_box
=============================================================================
