----------------------------- MODULE RoomProofs -----------------------------
(***************************************************************************)
(* RoomLifecycle for any rooms, viewers and cap: whatever sign-ins, the    *)
(* housekeeping loop, lost answers and restarts do in between, the gateway *)
(* never manages a room it could not reap, and forgets no record of a      *)
(* container that is there.                                                *)
(***************************************************************************)
EXTENDS RoomLifecycle, TLAPS

\* While the loop is between the halves of destroyRoom there is a victim, and
\* at no other time: so a room taken out of the registry is not overlooked
\* when the next one is.
VictimKnown == victim # NoRoom <=> loop \in {"forgetEnded", "forgetIdle"}

\* A viewer with a call under way holds no Room yet.
AskersWait == \A v \in Viewer : call[v] # "none" => stage[v] = "asking"

Inv == TypeOK /\ VictimKnown /\ AskersWait /\ ManagedRoomIsReapable

\* The gateway starts without rooms.
LEMMA InitInv == Init => Inv
  BY RoomLifecycleAssumption
  DEF Init, Inv, TypeOK, VictimKnown, AskersWait, ManagedRoomIsReapable, Adopting, IsManaged,
      Guard!Init, Guard!BoxState, Age, Caller, NothingSeen

\* A caller's room is a room.
LEMMA RoomOfType == \A c \in Caller : RoomOf(c) \in Room
  BY RoomLifecycleAssumption DEF Caller, RoomOf

\* The guard's actions keep the type of box.
LEMMA BoxType ==
    ASSUME box \in [Room -> Guard!BoxState], NEW r \in Room,
           Guard!Create(r) \/ Guard!Run(r) \/ Guard!Exit(r) \/ Guard!Remove(r)
    PROVE  box' \in [Room -> Guard!BoxState]
  BY DEF Guard!Create, Guard!Run, Guard!Exit, Guard!Remove, Guard!BoxState

\* A step of an Ensure call.
LEMMA CallKeepsInv ==
    ASSUME Inv, NEW c \in Caller, CallStep(c)
    PROVE  Inv'
<1> DEFINE r == RoomOf(c)
<1>1. r \in Room  BY RoomOfType
<1>2. CASE UNCHANGED <<gatewayVars, viewerVars, removals, loopVars, faulty>>
           /\ \E s \in {"ok", "made", "full", "failed"} : call' = [call EXCEPT ![c] = s]
           /\ call[c] \notin {"managed", "none"}
           /\ box' \in [Room -> Guard!BoxState] /\ age' \in [Room -> Age]
  BY <1>2 DEF Inv, TypeOK, VictimKnown, AskersWait, ManagedRoomIsReapable, Adopting,
              IsManaged, Caller, gatewayVars, viewerVars, loopVars
<1>3. ASSUME EnsureFinds(c) \/ EnsureCreates(c) \/ EnsureStarts(c)
             \/ EnsureRefuses(c) \/ EnsureFails(c)
      PROVE  /\ UNCHANGED <<gatewayVars, viewerVars, removals, loopVars, faulty>>
             /\ \E s \in {"ok", "made", "full", "failed"} : call' = [call EXCEPT ![c] = s]
             /\ call[c] \notin {"managed", "none"}
             /\ box' \in [Room -> Guard!BoxState] /\ age' \in [Room -> Age]
  <2>1. box \in [Room -> Guard!BoxState] /\ age \in [Room -> Age]
    BY DEF Inv, TypeOK
  <2>2. CASE EnsureFinds(c)  BY <2>1, <2>2 DEF EnsureFinds, CallTo, guardVars
  <2>3. CASE EnsureCreates(c)
    <3>1. box' \in [Room -> Guard!BoxState]
      BY <1>1, <2>1, <2>3, BoxType DEF EnsureCreates
    <3> QED  BY <1>1, <2>1, <2>3, <3>1 DEF EnsureCreates, CallTo, Age
  <2>4. CASE EnsureStarts(c)
    <3>1. box' \in [Room -> Guard!BoxState]
      BY <1>1, <2>1, <2>4, BoxType DEF EnsureStarts
    <3> QED  BY <2>1, <2>4, <3>1 DEF EnsureStarts, CallTo
  <2>5. CASE EnsureRefuses(c)  BY <2>1, <2>5 DEF EnsureRefuses, CallTo, guardVars
  <2>6. CASE EnsureFails(c)
    <3>1. box' \in [Room -> Guard!BoxState]
      BY <1>1, <2>1, <2>6, BoxType DEF EnsureFails
    <3> QED  BY <2>1, <2>6, <3>1 DEF EnsureFails, CallTo
  <2> QED  BY <1>3, <2>2, <2>3, <2>4, <2>5, <2>6
<1>4. CASE Record(c)
  <2> USE <1>1, <1>4 DEF Record, CallTo, Inv, guardVars, viewerVars, loopVars
  <2>1. TypeOK'  BY DEF TypeOK
  <2>2. VictimKnown' /\ AskersWait'  BY DEF VictimKnown, AskersWait, TypeOK
  <2>3. ManagedRoomIsReapable'
    <3> SUFFICES ASSUME NEW q \in Room, IsManaged(q)'
                 PROVE  \/ q \in registry' \/ victim' = q \/ Adopting(q)'
                        \/ \E d \in Caller : call'[d] = "managed" /\ RoomOf(d) = q
      BY DEF ManagedRoomIsReapable, Adopting
    <3>1. CASE q = r  BY <3>1 DEF TypeOK
    <3>2. CASE q # r
      <4>1. IsManaged(q)  BY <3>2 DEF TypeOK, IsManaged
      <4> QED  BY <4>1 DEF TypeOK, ManagedRoomIsReapable, Adopting
    <3> QED  BY <3>1, <3>2
  <2> QED  BY <2>1, <2>2, <2>3
<1>5. CASE Register(c)
  <2> USE <1>1, <1>5 DEF Register, GetOrCreate, CallTo, StageTo, Inv, guardVars, loopVars
  <2>1. c \in Viewer => object[c] = "none"
    BY DEF TypeOK, AskersWait
  <2>2. TypeOK'  BY <2>1 DEF TypeOK
  <2>3. VictimKnown' /\ AskersWait'  BY DEF VictimKnown, AskersWait, TypeOK, Caller
  <2>4. ManagedRoomIsReapable'
    BY DEF TypeOK, ManagedRoomIsReapable, Adopting, IsManaged
  <2> QED  BY <2>2, <2>3, <2>4
<1>6. CASE GiveUp(c)
  <2> USE <1>1, <1>6 DEF GiveUp, CallTo, StageTo, Inv, guardVars, gatewayVars, loopVars
  <2>1. TypeOK'  BY DEF TypeOK, AskersWait
  <2>2. VictimKnown' /\ AskersWait'  BY DEF VictimKnown, AskersWait, TypeOK, Caller
  <2>3. ManagedRoomIsReapable'
    BY DEF TypeOK, ManagedRoomIsReapable, Adopting, IsManaged
  <2> QED  BY <2>1, <2>2, <2>3
<1> QED  BY <1>2, <1>3, <1>4, <1>5, <1>6 DEF CallStep

\* A viewer signs in, connects or leaves.
LEMMA ViewerKeepsInv ==
    ASSUME Inv, NEW v \in Viewer,
           SignIn(v) \/ Connect(v) \/ Lookup(v) \/ Admit(v) \/ Leave(v)
    PROVE  Inv'
<1> USE RoomLifecycleAssumption
    DEF Inv, TypeOK, VictimKnown, AskersWait, ManagedRoomIsReapable, Adopting, IsManaged,
        Caller,
        guardVars, gatewayVars, loopVars, CallTo, StageTo
<1>1. CASE SignIn(v)  BY <1>1 DEF SignIn
<1>2. CASE Connect(v)  BY <1>2 DEF Connect
<1>3. CASE Lookup(v)  BY <1>3 DEF Lookup, GetOrCreate
<1>4. CASE Admit(v)  BY <1>4 DEF Admit
<1>5. CASE Leave(v)  BY <1>5 DEF Leave
<1> QED  BY <1>1, <1>2, <1>3, <1>4, <1>5

\* A step of the housekeeping loop.
LEMMA LoopKeepsInv ==
    ASSUME Inv, LoopStep
    PROVE  Inv'
<1> USE RoomLifecycleAssumption
    DEF Inv, TypeOK, VictimKnown, AskersWait, ManagedRoomIsReapable, Adopting, Caller,
        guardVars, gatewayVars, viewerVars
<1>1. CASE Tick \/ ListRooms \/ ListFails \/ LoopRests
  BY <1>1 DEF Tick, ListRooms, ListFails, LoopRests, IsManaged
<1>2. CASE FindExpired  BY <1>2 DEF FindExpired, Expired, IsManaged
<1>3. CASE FindIdle  BY <1>3 DEF FindIdle, IdleRooms, IsManaged
<1>4. CASE ApplyList
  <2>1. TypeOK'
    BY <1>4 DEF ApplyList, Dead, Adopted, Vanished, NothingSeen, Guard!BoxState
  <2>2. ManagedRoomIsReapable'
    BY <1>4 DEF ApplyList, Adopted, IsManaged
  <2> QED  BY <1>4, <2>1, <2>2 DEF ApplyList
<1>5. CASE RegisterAdopted
  <2>1. TypeOK'  BY <1>5 DEF RegisterAdopted, NothingSeen, Guard!BoxState
  <2>2. ManagedRoomIsReapable'  BY <1>5 DEF RegisterAdopted, IsManaged
  <2> QED  BY <1>5, <2>1, <2>2 DEF RegisterAdopted
<1>6. ASSUME NEW r \in Room, ReviveDead(r)  PROVE Inv'
  BY <1>6 DEF ReviveDead, CallTo, IsManaged
<1>7. ASSUME NEW r \in Room, EndExpired(r)  PROVE Inv'
  <2>1. VictimKnown' /\ AskersWait'
    BY <1>7 DEF EndExpired, Unregister, Watchers
  <2>2. TypeOK'  BY <1>7 DEF EndExpired, Unregister, Watchers
  <2>3. ManagedRoomIsReapable'  BY <1>7 DEF EndExpired, Unregister, IsManaged
  <2> QED  BY <2>1, <2>2, <2>3
<1>8. ASSUME NEW r \in Room, ReapIdle(r)  PROVE Inv'
  <2>1. TypeOK'  BY <1>8 DEF ReapIdle, Unregister
  <2>2. ManagedRoomIsReapable'  BY <1>8 DEF ReapIdle, Unregister, IsManaged
  <2> QED  BY <1>8, <2>1, <2>2 DEF ReapIdle, Unregister
<1>9. CASE ForgetVictim
  <2>1. TypeOK'  BY <1>9 DEF ForgetVictim
  <2>2. ManagedRoomIsReapable'  BY <1>9 DEF ForgetVictim, IsManaged
  <2> QED  BY <1>9, <2>1, <2>2 DEF ForgetVictim
<1> QED  BY <1>1, <1>2, <1>3, <1>4, <1>5, <1>6, <1>7, <1>8, <1>9 DEF LoopStep

\* A step of the guard's removals, of a container or of time.
LEMMA RoomKeepsInv ==
    ASSUME Inv, NEW r \in Room,
           \/ RemoveArrives(r) \/ RemoveFails(r) \/ ContainerExits(r)
           \/ ContainerVanishes(r) \/ Grows(r) \/ BecomesIdle(r)
    PROVE  Inv'
<1> USE RoomLifecycleAssumption
    DEF Inv, VictimKnown, AskersWait, ManagedRoomIsReapable, Adopting, IsManaged, Caller,
        guardVars, gatewayVars, viewerVars, loopVars
<1>1. CASE RemoveArrives(r) \/ ContainerExits(r) \/ ContainerVanishes(r)
  <2>1. box' \in [Room -> Guard!BoxState]
    BY <1>1, BoxType DEF TypeOK, RemoveArrives, ContainerExits, ContainerVanishes
  <2>2. TypeOK'
    BY <1>1, <2>1 DEF TypeOK, RemoveArrives, ContainerExits, ContainerVanishes
  <2> QED  BY <1>1, <2>2 DEF RemoveArrives, ContainerExits, ContainerVanishes
<1>2. CASE RemoveFails(r)  BY <1>2 DEF RemoveFails, TypeOK
<1>3. CASE Grows(r)  BY <1>3 DEF Grows, Older, TypeOK, Age
<1>4. CASE BecomesIdle(r)  BY <1>4 DEF BecomesIdle, TypeOK
<1> QED  BY <1>1, <1>2, <1>3, <1>4

\* The inductive invariant holds in every reachable state.
THEOREM Invariance == Spec => []Inv
<1>1. Inv /\ [Next]_vars => Inv'
  <2> SUFFICES ASSUME Inv, [Next]_vars  PROVE Inv'
    OBVIOUS
  <2>1. CASE Restart
    BY <2>1, RoomLifecycleAssumption
    DEF Restart, Inv, TypeOK, VictimKnown, AskersWait, ManagedRoomIsReapable, Adopting,
        IsManaged, Caller, NothingSeen, Guard!BoxState, guardVars
  <2>2. CASE UNCHANGED vars
    BY <2>2 DEF Inv, TypeOK, VictimKnown, AskersWait, ManagedRoomIsReapable, Adopting, IsManaged,
                vars, guardVars, gatewayVars, viewerVars, loopVars
  <2> QED
    BY <2>1, <2>2, CallKeepsInv, ViewerKeepsInv, LoopKeepsInv, RoomKeepsInv DEF Next
<1> QED  BY InitInv, <1>1, PTL DEF Spec

\* Every variable of the gateway's room handling keeps its type.
THEOREM RoomTypes == Spec => []TypeOK
  BY Invariance, PTL DEF Inv

\* Every room the gateway manages can be reaped, for any number of rooms and
\* viewers.
THEOREM ManagedRoomsAreReapable == Spec => []ManagedRoomIsReapable
  BY Invariance, PTL DEF Inv

-----------------------------------------------------------------------------
(* The list that syncManaged applies may be older than a container, but then *)
(* the container is younger than the grace, and so is any record of it.      *)

\* A container that is not in the list being applied was made since.
UnlistedIsNew ==
    \A r \in Room : loop = "apply" /\ seen[r] = "absent" /\ box[r] # "absent" => age[r] = "new"

\* A step of an Ensure call: only a create brings a container, and a new one.
LEMMA CallKeepsUnlisted ==
    ASSUME Inv, UnlistedIsNew, NEW c \in Caller, CallStep(c)
    PROVE  UnlistedIsNew'
<1>0. RoomOf(c) \in Room  BY RoomOfType
<1> USE <1>0 DEF UnlistedIsNew, guardVars, gatewayVars, viewerVars, loopVars
<1>1. box \in [Room -> Guard!BoxState] /\ age \in [Room -> Age]
  BY DEF Inv, TypeOK
<1>2. CASE EnsureCreates(c)  BY <1>1, <1>2 DEF EnsureCreates, Guard!Create
<1>3. CASE EnsureStarts(c)  BY <1>1, <1>3 DEF EnsureStarts, Guard!Run
<1>4. CASE EnsureFails(c)  BY <1>1, <1>4 DEF EnsureFails, Guard!Remove
<1>5. CASE EnsureFinds(c) \/ EnsureRefuses(c) \/ Record(c) \/ Register(c) \/ GiveUp(c)
  BY <1>5 DEF EnsureFinds, EnsureRefuses, Record, Register, GiveUp
<1> QED  BY <1>2, <1>3, <1>4, <1>5 DEF CallStep

\* A step of a viewer, of the housekeeping loop, of a container or of time.
LEMMA OthersKeepUnlisted ==
    ASSUME Inv, UnlistedIsNew,
           \/ \E v \in Viewer : SignIn(v) \/ Connect(v) \/ Lookup(v) \/ Admit(v) \/ Leave(v)
           \/ LoopStep
           \/ \E r \in Room : \/ RemoveArrives(r) \/ RemoveFails(r) \/ ContainerExits(r)
                              \/ ContainerVanishes(r) \/ Grows(r) \/ BecomesIdle(r)
           \/ Restart
           \/ UNCHANGED vars
    PROVE  UnlistedIsNew'
<1> USE DEF UnlistedIsNew, vars, guardVars, gatewayVars, viewerVars, loopVars
<1>1. box \in [Room -> Guard!BoxState] /\ age \in [Room -> Age]
  BY DEF Inv, TypeOK
<1>2. ASSUME NEW v \in Viewer, SignIn(v) \/ Connect(v) \/ Lookup(v) \/ Admit(v) \/ Leave(v)
      PROVE  UnlistedIsNew'
  BY <1>2 DEF SignIn, Connect, Lookup, Admit, Leave
<1>3. CASE LoopStep
  <2>1. CASE ListRooms  BY <2>1 DEF ListRooms
  <2> QED
    BY <1>3, <2>1
    DEF LoopStep, Tick, ListFails, ApplyList, RegisterAdopted, ReviveDead, FindExpired,
        FindIdle, EndExpired, ReapIdle, Unregister, ForgetVictim, LoopRests
<1>4. ASSUME NEW r \in Room,
             \/ RemoveArrives(r) \/ RemoveFails(r) \/ ContainerExits(r)
             \/ ContainerVanishes(r) \/ Grows(r) \/ BecomesIdle(r)
      PROVE  UnlistedIsNew'
  <2>1. CASE RemoveArrives(r) \/ ContainerVanishes(r)
    BY <1>1, <2>1 DEF RemoveArrives, ContainerVanishes, Guard!Remove
  <2>2. CASE ContainerExits(r)
    BY <1>1, <2>2 DEF ContainerExits, Guard!Exit
  <2>3. CASE Grows(r)
    BY <1>1, <2>3 DEF Grows, Older, Age
  <2> QED  BY <1>4, <2>1, <2>2, <2>3 DEF RemoveFails, BecomesIdle
<1>5. CASE Restart  BY <1>5 DEF Restart
<1>6. CASE UNCHANGED vars  BY <1>6
<1> QED  BY <1>2, <1>3, <1>4, <1>5, <1>6

\* adoptGrace, for any rooms and viewers: whatever sign-ins, lost answers,
\* revivals, removals and restarts fall between the list and its use,
\* syncManaged forgets no record of a container that is there.
THEOREM NewRoomsOutliveOldLists == Spec => OldListSparesNewRooms
<1>1. Init => UnlistedIsNew
  BY DEF Init, UnlistedIsNew
<1>2. Inv /\ UnlistedIsNew /\ [Next]_vars => UnlistedIsNew'
  BY CallKeepsUnlisted, OthersKeepUnlisted DEF Next
<1>3. UnlistedIsNew /\ [Next]_vars
      => [ApplyList => \A r \in Vanished : box[r] # "absent" => managed[r] # age[r]]_vars
  BY DEF UnlistedIsNew, ApplyList, Vanished
<1> QED  BY Invariance, <1>1, <1>2, <1>3, PTL DEF Spec, OldListSparesNewRooms
=============================================================================
