---------------------------- MODULE RoomLifecycle ---------------------------
(***************************************************************************)
(* How the gateway starts, adopts, revives, ends and destroys rooms when   *)
(* it has a guard (internal/gateway/rooms.go and the housekeeping loop and *)
(* sign-in of gateway.go, with the registry of internal/room).  What the   *)
(* gateway knows (managed, registry) and what exists (box) are changed by  *)
(* different goroutines, by HTTP calls that take up to 60 seconds, and by  *)
(* a housekeeping loop that works from what it listed earlier.             *)
(*                                                                         *)
(* The containers move as module Supervisor says.  A viewer here is one    *)
(* socket; home[v] is the room of its session.  Several Room objects may   *)
(* live under one id: the one in the registry ("current") and those that   *)
(* somebody still holds ("orphan").                                        *)
(***************************************************************************)
EXTENDS Naturals, FiniteSets

CONSTANTS Room, Viewer,
          home,         \* the room each viewer signs in to
          Cap,          \* ROOM_CAP of the guard
          MaxRemovals,  \* bound: Remove calls in flight for one room
          NoRoom

ASSUME RoomLifecycleAssumption ==
    /\ IsFiniteSet(Room) /\ Cap \in Nat \ {0}
    /\ home \in [Viewer -> Room]
    /\ Room \cap Viewer = {} /\ NoRoom \notin Room
    /\ MaxRemovals \in Nat \ {0}

VARIABLES
    box,       \* the containers, as in Supervisor
    age,       \* age[r]: class of the container's Created
    managed,   \* g.managed[r]: class of the time recorded, "none" if absent
    registry,  \* the ids in g.rooms
    idle,      \* ids whose current Room has been empty for over RoomIdle
    stage,     \* stage[v]: how far viewer v has come
    object,    \* object[v]: the Room object v's handler holds
    call,      \* call[c]: the Ensure call of viewer or reviveRoom goroutine c
    removals,  \* removals[r]: Remove calls of destroyRoom still in flight
    loop,      \* where the housekeeping loop is
    queue,     \* rooms the loop has still to deal with in this phase
    victim,    \* the room destroyRoom has unregistered but not yet forgotten
    seen,      \* what the loop's List answered; then, of it, what it adopts
    faulty     \* may guard calls fail or be refused for the sake of rooms
               \* outside Room, and containers vanish?  Never changes

guardVars == <<box, age>>
gatewayVars == <<managed, registry, idle>>
viewerVars == <<stage, object>>
loopVars == <<loop, queue, victim, seen>>
vars == <<guardVars, gatewayVars, viewerVars, call, removals, loopVars, faulty>>

Guard == INSTANCE Supervisor

\* Ages: up to adoptGrace, up to RoomCeiling, beyond.
Age == {"new", "grown", "old"}
Older(a) == CASE a = "new" -> "grown" [] a = "grown" -> "old" [] OTHER -> a

\* One reviveRoom goroutine per room at a time stands for all of them.
Caller == Viewer \cup Room
RoomOf(c) == IF c \in Room THEN c ELSE home[c]

TypeOK ==
    /\ box \in [Room -> Guard!BoxState]
    /\ age \in [Room -> Age]
    /\ managed \in [Room -> Age \cup {"none"}]
    /\ idle \subseteq registry /\ registry \subseteq Room
    /\ stage \in [Viewer -> {"away", "asking", "signed", "checked", "got", "in"}]
    /\ object \in [Viewer -> {"none", "current", "orphan"}]
    /\ \A v \in Viewer : object[v] # "none" <=> stage[v] \in {"got", "in"}
    /\ \A v \in Viewer : object[v] = "current" => home[v] \in registry
    /\ call \in [Caller -> {"none", "asked", "made", "ok", "full", "failed", "managed"}]
    /\ removals \in [Room -> 0 .. MaxRemovals]
    /\ loop \in {"boot", "rest", "list", "apply", "adopt", "revive", "end", "reap",
                 "forgetEnded", "forgetIdle"}
    /\ queue \subseteq Room
    /\ victim \in Room \cup {NoRoom}
    /\ seen \in [Room -> Guard!BoxState]
    /\ faulty \in BOOLEAN

NothingSeen == [r \in Room |-> "absent"]

Init ==
    /\ Guard!Init
    /\ age = [r \in Room |-> "new"]
    /\ managed = [r \in Room |-> "none"]
    /\ registry = {} /\ idle = {}
    /\ stage = [v \in Viewer |-> "away"]
    /\ object = [v \in Viewer |-> "none"]
    /\ call = [c \in Caller |-> "none"]
    /\ removals = [r \in Room |-> 0]
    /\ loop = "boot" /\ queue = {} /\ victim = NoRoom /\ seen = NothingSeen
    /\ faulty \in BOOLEAN

-----------------------------------------------------------------------------
(* Helpers *)

IsManaged(r) == managed[r] # "none"

\* Viewers of the Room the registry has under r; ViewerCount counts them.
Watchers(r) == {v \in Viewer : home[v] = r /\ object[v] = "current" /\ stage[v] = "in"}

CallTo(c, s) == call' = [call EXCEPT ![c] = s]
StageTo(v, s) == stage' = [stage EXCEPT ![v] = s]

GetOrCreateIfIdle(r) == registry' = registry \cup ({r} \cap idle)
GetOrCreate(r) == registry' = registry \cup {r}

\* Server.mu of the guard: nobody else's request runs between the create and
\* the start of one Ensure.
GuardFree == \A c \in Caller : call[c] # "made"

-----------------------------------------------------------------------------
(* Signing in: token and ensureRoom *)

\* ensureRoom finds the room managed and the session is issued, or it calls
\* the guard.
SignIn(v) ==
    /\ stage[v] \in {"away", "signed"} /\ call[v] = "none"
    /\ IF IsManaged(home[v])
       THEN StageTo(v, "signed") /\ UNCHANGED call
       ELSE StageTo(v, "asking") /\ CallTo(v, "asked")
    /\ UNCHANGED <<guardVars, gatewayVars, object, removals, loopVars, faulty>>

\* The guard finds the room running.
EnsureFinds(c) ==
    /\ call[c] = "asked" /\ GuardFree
    /\ box[RoomOf(c)] = "live"
    /\ CallTo(c, "ok")
    /\ UNCHANGED <<guardVars, gatewayVars, viewerVars, removals, loopVars, faulty>>

EnsureCreates(c) ==
    /\ call[c] = "asked" /\ GuardFree
    /\ Guard!Create(RoomOf(c))
    /\ age' = [age EXCEPT ![RoomOf(c)] = "new"]
    /\ CallTo(c, "made")
    /\ UNCHANGED <<gatewayVars, viewerVars, removals, loopVars, faulty>>

\* The container just made is started, or a stopped one is revived.  A pending
\* pod counts as running from here: syncManaged and Ensure leave both alone.
EnsureStarts(c) ==
    /\ call[c] = "made" \/ (call[c] = "asked" /\ GuardFree)
    /\ Guard!Run(RoomOf(c))
    /\ CallTo(c, "ok")
    /\ UNCHANGED <<age, gatewayVars, viewerVars, removals, loopVars, faulty>>

\* The cap is reached, by rooms of Room or by others.
EnsureRefuses(c) ==
    /\ call[c] = "asked" /\ GuardFree
    /\ box[RoomOf(c)] = "absent"
    /\ faulty \/ Cardinality(Guard!Present) >= Cap
    /\ CallTo(c, "full")
    /\ UNCHANGED <<guardVars, gatewayVars, viewerVars, removals, loopVars, faulty>>

\* A viewer gives up its request, or the guard fails or is late.
MayFail(c) == faulty \/ c \in Viewer

\* The call fails before the create, after it (cleaned up or not) or after the
\* start: an answer that is lost leaves a room that runs.  A container made and
\* then gone fails the start.
EnsureFails(c) ==
    /\ \/ MayFail(c) /\ call[c] \in {"asked", "made", "ok"} /\ UNCHANGED box
       \/ MayFail(c) /\ call[c] = "made" /\ Guard!Remove(RoomOf(c))
       \/ call[c] = "made" /\ box[RoomOf(c)] = "absent" /\ UNCHANGED box
    /\ CallTo(c, "failed")
    /\ UNCHANGED <<age, gatewayVars, viewerVars, removals, loopVars, faulty>>

\* ensureRoom records the room with the guard's Created ...
Record(c) ==
    /\ call[c] = "ok"
    /\ managed' = [managed EXCEPT ![RoomOf(c)] = age[RoomOf(c)]]
    /\ CallTo(c, "managed")
    /\ UNCHANGED <<guardVars, registry, idle, viewerVars, removals, loopVars, faulty>>

\* ... registers it after unlocking, and token issues the session.
Register(c) ==
    /\ call[c] = "managed"
    /\ GetOrCreate(RoomOf(c))
    /\ CallTo(c, "none")
    /\ IF c \in Viewer THEN StageTo(c, "signed") ELSE UNCHANGED stage
    /\ UNCHANGED <<guardVars, managed, idle, object, removals, loopVars, faulty>>

\* 503 or 502 for a viewer; reviveRoom logs it and tells the viewers.
GiveUp(c) ==
    /\ call[c] \in {"full", "failed"}
    /\ CallTo(c, "none")
    /\ IF c \in Viewer THEN StageTo(c, "away") ELSE UNCHANGED stage
    /\ UNCHANGED <<guardVars, gatewayVars, object, removals, loopVars, faulty>>

-----------------------------------------------------------------------------
(* Connecting: acceptViewer, then viewerMedia or viewerCtl *)

\* A session for a room that is not managed is answered 410 Gone and the
\* client signs in again.
Connect(v) ==
    /\ stage[v] = "signed" /\ call[v] = "none"
    /\ StageTo(v, IF IsManaged(home[v]) THEN "checked" ELSE "away")
    /\ UNCHANGED <<guardVars, gatewayVars, object, call, removals, loopVars, faulty>>

\* After the websocket upgrade.
Lookup(v) ==
    /\ stage[v] = "checked"
    /\ GetOrCreate(home[v])
    /\ StageTo(v, "got")
    /\ object' = [object EXCEPT ![v] = "current"]
    /\ UNCHANGED <<guardVars, managed, idle, call, removals, loopVars, faulty>>

Admit(v) ==
    /\ stage[v] = "got"
    /\ StageTo(v, "in")
    /\ idle' = IF object[v] = "current" THEN idle \ {home[v]} ELSE idle
    /\ UNCHANGED <<guardVars, managed, registry, object, call, removals, loopVars, faulty>>

\* The socket closes; the session lives on.
Leave(v) ==
    /\ stage[v] = "in"
    /\ StageTo(v, "signed")
    /\ object' = [object EXCEPT ![v] = "none"]
    /\ UNCHANGED <<guardVars, gatewayVars, call, removals, loopVars, faulty>>

-----------------------------------------------------------------------------
(* Housekeeping: reapIdleRooms calls syncManaged, endExpiredRooms and, for    *)
(* each idle room, destroyRoom                                               *)

Tick ==
    /\ loop \in {"boot", "rest"}
    /\ loop' = "list"
    /\ UNCHANGED <<guardVars, gatewayVars, viewerVars, call, removals, queue,
                   victim, seen, faulty>>

ListRooms ==
    /\ loop = "list"
    /\ loop' = "apply"
    /\ seen' = box
    /\ UNCHANGED <<guardVars, gatewayVars, viewerVars, call, removals, queue,
                   victim, faulty>>

\* syncManaged returns early.
ListFails ==
    /\ loop = "list" /\ faulty
    /\ loop' = "revive"
    /\ UNCHANGED <<guardVars, gatewayVars, viewerVars, call, removals, queue,
                   victim, seen, faulty>>

\* What comparing the list with g.managed finds, under g.mu.
Dead == {r \in Room : seen[r] = "exited" /\ IsManaged(r)}

AdoptedIfRegistered ==
    {r \in registry : seen[r] \in {"live", "created"} /\ ~ IsManaged(r)}
Adopted == {r \in Room : seen[r] \in {"live", "created"} /\ ~ IsManaged(r)}

VanishedWithoutGrace == {r \in Room : seen[r] = "absent" /\ IsManaged(r)}
Vanished == {r \in Room : seen[r] = "absent" /\ managed[r] \in {"grown", "old"}}

ApplyList ==
    /\ loop = "apply"
    /\ managed' = [r \in Room |->
                      IF r \in Dead \cup Vanished THEN "none"
                      ELSE IF r \in Adopted THEN age[r] ELSE managed[r]]
    /\ seen' = [r \in Room |-> IF r \in Adopted THEN seen[r] ELSE "absent"]
    /\ queue' = Dead
    /\ loop' = "adopt"
    /\ UNCHANGED <<guardVars, registry, idle, viewerVars, call, removals, victim,
                   faulty>>

\* What syncManaged has adopted and is still to register.
Adopting(r) == loop = "adopt" /\ seen[r] # "absent"

\* After g.mu is unlocked.
RegisterAdopted ==
    /\ loop = "adopt"
    /\ registry' = registry \cup {r \in Room : Adopting(r)}
    /\ seen' = NothingSeen
    /\ loop' = "revive"
    /\ UNCHANGED <<guardVars, managed, idle, viewerVars, call, removals, queue,
                   victim, faulty>>

MayReviveEmpty(r) == r \in registry /\ Watchers(r) = {}
MayRevive(r) == r \in registry /\ Watchers(r) # {}

\* A dead room with viewers gets a reviveRoom goroutine, which calls the guard
\* unless the room is managed again by then.  Bound: the loop waits for an
\* earlier goroutine of the same room.
ReviveDead(r) ==
    /\ loop = "revive" /\ r \in queue
    /\ queue' = queue \ {r}
    /\ IF MayRevive(r) /\ ~ IsManaged(r)
       THEN call[r] = "none" /\ CallTo(r, "asked")
       ELSE UNCHANGED call
    /\ UNCHANGED <<guardVars, gatewayVars, viewerVars, removals, loop, victim,
                   seen, faulty>>

ExpiredAndIdle == {r \in idle : managed[r] = "old"}
Expired == {r \in Room : managed[r] = "old"}

FindExpired ==
    /\ loop = "revive" /\ queue = {}
    /\ queue' = Expired
    /\ loop' = "end"
    /\ UNCHANGED <<guardVars, gatewayVars, viewerVars, call, removals, victim,
                   seen, faulty>>

IdleUnmanaged == {r \in idle : ~ IsManaged(r)}
IdleRooms == idle

FindIdle ==
    /\ loop = "end" /\ queue = {}
    /\ queue' = IdleRooms
    /\ loop' = "reap"
    /\ UNCHANGED <<guardVars, gatewayVars, viewerVars, call, removals, victim,
                   seen, faulty>>

\* The first half of destroyRoom: close the agent, take the Room out of the
\* registry.  Whoever holds that Room keeps it.
Unregister(r, st, ob) ==
    /\ registry' = registry \ {r}
    /\ idle' = idle \ {r}
    /\ stage' = st
    /\ object' = [v \in Viewer |->
                     IF home[v] = r /\ ob[v] = "current" THEN "orphan" ELSE ob[v]]
    /\ victim' = r

\* endExpiredRooms: Evict, then destroyRoom.
EndExpired(r) ==
    /\ loop = "end" /\ r \in queue
    /\ LET evicted == IF r \in registry THEN Watchers(r) ELSE {}
       IN  Unregister(r,
               [v \in Viewer |-> IF v \in evicted THEN "signed" ELSE stage[v]],
               [v \in Viewer |-> IF v \in evicted THEN "none" ELSE object[v]])
    /\ loop' = "forgetEnded"
    /\ UNCHANGED <<guardVars, managed, call, removals, queue, seen, faulty>>

\* The list of idle rooms is walked without looking at the rooms again.
ReapIdle(r) ==
    /\ loop = "reap" /\ r \in queue
    /\ Unregister(r, stage, object)
    /\ loop' = "forgetIdle"
    /\ UNCHANGED <<guardVars, managed, call, removals, queue, seen, faulty>>

\* The second half of destroyRoom: forget the room, ask the guard in a new
\* goroutine to remove its container.
ForgetVictim ==
    /\ loop \in {"forgetEnded", "forgetIdle"}
    /\ removals[victim] < MaxRemovals
    /\ managed' = [managed EXCEPT ![victim] = "none"]
    /\ removals' = [removals EXCEPT ![victim] = @ + 1]
    /\ queue' = queue \ {victim}
    /\ victim' = NoRoom
    /\ loop' = IF loop = "forgetEnded" THEN "end" ELSE "reap"
    /\ UNCHANGED <<guardVars, registry, idle, viewerVars, call, seen, faulty>>

LoopRests ==
    /\ loop = "reap" /\ queue = {}
    /\ loop' = "rest"
    /\ UNCHANGED <<guardVars, gatewayVars, viewerVars, call, removals, queue,
                   victim, seen, faulty>>

-----------------------------------------------------------------------------
(* The guard removes; containers and time move by themselves *)

RemoveArrives(r) ==
    /\ removals[r] > 0 /\ GuardFree
    /\ removals' = [removals EXCEPT ![r] = @ - 1]
    /\ IF box[r] = "absent" THEN UNCHANGED box ELSE Guard!Remove(r)
    /\ UNCHANGED <<age, gatewayVars, viewerVars, call, loopVars, faulty>>

\* destroyRoom only logs the error.
RemoveFails(r) ==
    /\ removals[r] > 0 /\ faulty
    /\ removals' = [removals EXCEPT ![r] = @ - 1]
    /\ UNCHANGED <<guardVars, gatewayVars, viewerVars, call, loopVars, faulty>>

ContainerExits(r) ==
    /\ box[r] = "live" /\ Guard!Exit(r)
    /\ UNCHANGED <<age, gatewayVars, viewerVars, call, removals, loopVars, faulty>>

\* The guard's own ceiling, or an operator.
ContainerVanishes(r) ==
    /\ faulty \/ age[r] = "old"
    /\ Guard!Remove(r)
    /\ UNCHANGED <<age, gatewayVars, viewerVars, call, removals, loopVars, faulty>>

\* Time passes for a room: its container and the record of it age together.
\* syncManaged compares with the time its tick came, so nothing outgrows the
\* adoption grace while a list is being worked on.
Grows(r) ==
    /\ box[r] # "absent" \/ IsManaged(r)
    /\ loop \in {"list", "apply"} => "new" \notin {age[r], managed[r]}
    /\ age' = [age EXCEPT ![r] = Older(@)]
    /\ managed' = [managed EXCEPT ![r] = Older(@)]
    /\ <<age, managed>>' # <<age, managed>>
    /\ UNCHANGED <<box, registry, idle, viewerVars, call, removals, loopVars, faulty>>

BecomesIdle(r) ==
    /\ r \in registry \ idle /\ Watchers(r) = {}
    /\ idle' = idle \cup {r}
    /\ UNCHANGED <<guardVars, managed, registry, viewerVars, call, removals,
                   loopVars, faulty>>

\* The gateway restarts: sockets, calls and all it knew are gone, sessions and
\* containers are not.
Restart ==
    /\ managed' = [r \in Room |-> "none"]
    /\ registry' = {} /\ idle' = {}
    /\ stage' = [v \in Viewer |-> IF stage[v] \in {"away", "asking"} THEN "away" ELSE "signed"]
    /\ object' = [v \in Viewer |-> "none"]
    /\ call' = [c \in Caller |-> "none"]
    /\ removals' = [r \in Room |-> 0]
    /\ loop' = "boot" /\ queue' = {} /\ victim' = NoRoom /\ seen' = NothingSeen
    /\ UNCHANGED <<guardVars, faulty>>

-----------------------------------------------------------------------------
CallStep(c) ==
    \/ EnsureFinds(c) \/ EnsureCreates(c) \/ EnsureStarts(c) \/ EnsureRefuses(c)
    \/ EnsureFails(c) \/ Record(c) \/ Register(c) \/ GiveUp(c)

LoopStep ==
    \/ Tick \/ ListRooms \/ ListFails \/ ApplyList \/ RegisterAdopted
    \/ \E r \in Room : ReviveDead(r) \/ EndExpired(r) \/ ReapIdle(r)
    \/ FindExpired \/ FindIdle \/ ForgetVictim \/ LoopRests

Next ==
    \/ \E c \in Caller : CallStep(c)
    \/ \E v \in Viewer : SignIn(v) \/ Connect(v) \/ Lookup(v) \/ Admit(v) \/ Leave(v)
    \/ LoopStep
    \/ \E r \in Room :
          \/ RemoveArrives(r) \/ RemoveFails(r)
          \/ ContainerExits(r) \/ ContainerVanishes(r)
          \/ Grows(r) \/ BecomesIdle(r)
    \/ Restart

Spec == Init /\ [][Next]_vars

\* Goroutines run and their HTTP calls end within 60 seconds; the ticker fires
\* every 15 seconds and not every List fails; clocks run.
Fairness ==
    /\ \A c \in Caller : WF_vars(CallStep(c))
    /\ \A v \in Viewer : WF_vars(Lookup(v)) /\ WF_vars(Admit(v))
    /\ WF_vars(LoopStep) /\ SF_vars(ListRooms)
    /\ \A r \in Room : WF_vars(RemoveArrives(r)) /\ WF_vars(BecomesIdle(r))

RestartsEnd == <>[][~Restart]_vars

FairSpec == Spec /\ Fairness /\ RestartsEnd

-----------------------------------------------------------------------------
(* Properties *)

\* rooms_test.go "an adopted room has no registry entry, so it would never be
\* reaped when idle": whatever interleaves, a managed room is registered, or
\* about to be, or being destroyed.
ManagedRoomIsReapable ==
    \A r \in Room : IsManaged(r) =>
        \/ r \in registry
        \/ victim = r
        \/ Adopting(r)
        \/ \E c \in Caller : call[c] = "managed" /\ RoomOf(c) = r

\* adoptGrace: what was recorded after the list was made outlives it.  Whatever
\* is started, removed or lost between the list and its use, syncManaged forgets
\* no record of a container that is there, only that of an earlier one.
OldListSparesNewRooms ==
    [][ApplyList => \A r \in Vanished : box[r] # "absent" => managed[r] # age[r]]_vars

\* A list that lacks a managed room makes syncManaged forget it, and a room it
\* has forgotten it does not revive.
AboutToVanish(r) == loop = "apply" /\ r \in Vanished

\* While the guard answers, a container that stopped under its viewers does
\* not stay stopped, unless the list in use was made before there was one.
WatchedRoomIsRevived ==
    \A r \in Room :
        ~ faulty /\ IsManaged(r) /\ ~ AboutToVanish(r) /\ Watchers(r) # {} /\ box[r] = "exited"
            ~> box[r] # "exited" \/ Watchers(r) = {}

\* A running container the gateway does not know, after a restart, a failed
\* removal or an Ensure whose answer was lost, is taken over.
LiveRoomIsAdopted ==
    \A r \in Room : box[r] = "live" /\ ~ IsManaged(r)
                        ~> IsManaged(r) \/ box[r] # "live"

\* BROWCORD_ROOM_CEILING: no room stays past the ceiling.
ExpiredRoomEnds == \A r \in Room : managed[r] = "old" ~> managed[r] # "old"

Deserted(r) ==
    /\ \A v \in Viewer : home[v] = r => stage[v] \in {"away", "signed"}
    /\ call[r] = "none"

\* A container that stopped before the gateway came back: syncManaged adopts
\* only containers that run, so nothing but the guard's ceiling removes it.
LeftToTheGuard(r) ==
    /\ box[r] = "exited" /\ removals[r] = 0
    /\ ~ IsManaged(r) /\ r \notin registry

\* BROWCORD_MULTI_IDLE: while the guard answers, a room nobody uses loses its
\* container, unless that one is left to the guard.
EmptyRoomGoes ==
    \A r \in Room : ~ faulty /\ IsManaged(r) /\ Deserted(r)
                        ~> box[r] = "absent" \/ LeftToTheGuard(r) \/ ~ Deserted(r)
=============================================================================
