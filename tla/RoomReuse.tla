----------------------------- MODULE RoomReuse ------------------------------
(***************************************************************************)
(* RoomLifecycle with a memory of what each container has been through.    *)
(* The memory is a history variable, the gateway keeps none.               *)
(***************************************************************************)
EXTENDS RoomLifecycle

\* past[r]: nobody has watched the container of r yet, somebody has, or it was
\* watched and its room destroyed afterwards.
VARIABLE past

Past == {"fresh", "watched", "spent"}

PastOf(r) ==
    IF box'[r] = "absent" THEN "fresh"
    ELSE IF victim = r /\ victim' = NoRoom /\ past[r] = "watched" THEN "spent"
    ELSE IF past[r] = "fresh" /\ box[r] = "live" /\ Watchers(r) # {} THEN "watched"
    ELSE past[r]

ReuseInit == Init /\ past = [r \in Room |-> "fresh"]

ReuseNext == Next /\ past' = [r \in Room |-> PastOf(r)]

ReuseSpec == ReuseInit /\ [][ReuseNext]_<<vars, past>>

\* README "Rooms are destroyed when they empty and at the lifetime ceiling,
\* never reused, so one room's logins do not reach the next": nobody enters a
\* managed room whose running container was watched before its room was
\* destroyed.
NeverReused ==
    [][\A v \in Viewer : Admit(v) /\ IsManaged(home[v]) /\ box[home[v]] = "live"
                             => past[home[v]] # "spent"]_<<vars, past>>
=============================================================================
