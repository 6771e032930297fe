------------------------------- MODULE Guard --------------------------------
(***************************************************************************)
(* The room guard (internal/guard) with its two backends: the Docker       *)
(* engine (internal/dockerguard) and the Kubernetes API                    *)
(* (internal/k8sguard).  Requests run in goroutines of their own; Ensure,  *)
(* Remove and Reap hold Server.mu from their List to their last backend    *)
(* call, and every backend call is a step of its own that may fail, with   *)
(* or without its effect.  Containers stop, restart and disappear between  *)
(* any two steps, and the guard process itself may die.                    *)
(***************************************************************************)
EXTENDS Naturals, FiniteSets

CONSTANTS Room,      \* the room ids
          Handler,   \* the goroutines that serve PUT and DELETE /rooms/{id}
          Reaper,    \* the goroutine of RunReaper
          Nobody,    \* the holder of an unlocked mutex
          Down,      \* what holder is while the guard process is not running
          Cap,       \* Config.Cap
          Backends   \* the backends to consider, of {"docker", "k8s"}

ASSUME GuardAssumption ==
    /\ IsFiniteSet(Room) /\ Room # {}
    /\ Cap \in Nat \ {0}
    /\ Reaper \notin Handler
    /\ Nobody \notin Handler \cup {Reaper}
    /\ Down \notin Handler \cup {Reaper, Nobody}
    /\ Backends \subseteq {"docker", "k8s"}

VARIABLES backend,   \* the backend this guard was built with; never changes
          cont,      \* cont[r]: state of the container or pod of room r
          expired,   \* rooms whose container is older than Config.Ceiling
          holder,    \* who holds Server.mu
          pc,        \* pc[p]: the next step of goroutine p
          arg,       \* arg[p]: the room p was asked for
          listed,    \* listed[p]: the rooms in the list p got
          todo       \* todo[p]: listed rooms p has still to remove

vars == <<backend, cont, expired, holder, pc, arg, listed, todo>>

Proc == Handler \cup {Reaper}

ContState == {"absent", "created", "running", "restarting", "exited",
              "terminating"}

\* Steps of Ensure, of Remove and Reap, and of a backend that takes two calls.
Step == {"idle", "wantEnsure", "wantRemove", "wantReap",
         "listEnsure", "listRemove", "listReap",
         "create", "start", "cleanup", "revive", "wait", "answer",
         "remove", "reap"}

\* Outside the critical section of Server.mu.
Outside == {"idle", "wantEnsure", "wantRemove", "wantReap"}

Present == {r \in Room : cont[r] # "absent"}

TypeOK ==
    /\ backend \in Backends
    /\ cont \in [Room -> ContState]
    /\ expired \subseteq Present
    /\ holder \in Proc \cup {Nobody, Down}
    /\ pc \in [Proc -> Step]
    /\ arg \in [Proc -> Room]
    /\ listed \in [Proc -> SUBSET Room]
    /\ todo \in [Proc -> SUBSET Room]

Init ==
    /\ backend \in Backends
    /\ cont = [r \in Room |-> "absent"]
    /\ expired = {}
    /\ holder = Nobody
    /\ pc = [p \in Proc |-> "idle"]
    /\ arg \in [Proc -> {CHOOSE r \in Room : TRUE}]
    /\ listed = [p \in Proc |-> {}]
    /\ todo = [p \in Proc |-> {}]

-----------------------------------------------------------------------------
(* Helpers *)

Goto(p, step) == pc' = [pc EXCEPT ![p] = step]

\* A container that is gone leaves no age behind.
Becomes(r, s) ==
    /\ cont' = [cont EXCEPT ![r] = s]
    /\ expired' = IF s = "absent" THEN expired \ {r} ELSE expired

KeepContainers == UNCHANGED <<cont, expired>>

\* A path that returns without its Unlock.
UnlockForgotten(p) ==
    /\ Goto(p, "idle")
    /\ listed' = [listed EXCEPT ![p] = {}]
    /\ todo' = [todo EXCEPT ![p] = {}]
    /\ UNCHANGED holder

\* The deferred Unlock, and the answer to the caller: p forgets its request.
Unlock(p) ==
    /\ holder' = Nobody
    /\ Goto(p, "idle")
    /\ listed' = [listed EXCEPT ![p] = {}]
    /\ todo' = [todo EXCEPT ![p] = {}]

KeepLock == UNCHANGED <<holder, listed, todo>>

AtCapOffByOne(n) == n > Cap
AtCap(n) == n >= Cap

\* The state field of the list: a pod being deleted reports "exited".
ListedState(r) == IF cont[r] = "terminating" THEN "exited" ELSE cont[r]

\* The states Ensure leaves alone: running and restarting containers, and a
\* pending pod, whose Revive returns at once.
LeftAlone == {"running", "restarting"}
             \cup (IF backend = "k8s" THEN {"created"} ELSE {})

\* A revive that forgets what the list said of the room's state.
DecideBlindly(r) ==
    IF r \in Present THEN "revive"
    ELSE IF AtCap(Cardinality(Present)) THEN "answer" ELSE "create"

\* What Ensure does about room r once it has the list.
Decide(r) ==
    IF r \in Present
    THEN IF ListedState(r) \in LeftAlone THEN "answer" ELSE "revive"
    ELSE IF AtCap(Cardinality(Present)) THEN "answer" ELSE "create"

\* A Reap that looks at the state too.
PastCeilingOrStopped == {r \in Present : r \in expired \/ cont[r] = "exited"}
PastCeilingAndRunning == {r \in Present : r \in expired /\ cont[r] = "running"}

\* Rooms Reap goes on to remove.
PastCeiling == Present \cap expired

-----------------------------------------------------------------------------
(* Requests and the mutex *)

\* The supervisor client asks to start room r, or to remove it.
Request(p, r) ==
    /\ pc[p] = "idle" /\ holder # Down
    /\ \E s \in {"wantEnsure", "wantRemove"} : Goto(p, s)
    /\ arg' = [arg EXCEPT ![p] = r]
    /\ UNCHANGED <<backend, cont, expired, holder, listed, todo>>

\* The reaper's ticker fires.
ReapTick ==
    /\ pc[Reaper] = "idle" /\ holder # Down
    /\ Goto(Reaper, "wantReap")
    /\ UNCHANGED <<backend, cont, expired, holder, arg, listed, todo>>

AfterLock(s) ==
    CASE s = "wantEnsure" -> "listEnsure"
      [] s = "wantRemove" -> "listRemove"
      [] s = "wantReap"   -> "listReap"

\* A Server without its mutex.
MayLockAnyTime == TRUE
MayLock == holder = Nobody

Lock(p) ==
    /\ pc[p] \in {"wantEnsure", "wantRemove", "wantReap"}
    /\ MayLock
    /\ holder' = p
    /\ Goto(p, AfterLock(pc[p]))
    /\ UNCHANGED <<backend, cont, expired, arg, listed, todo>>

-----------------------------------------------------------------------------
(* The backend calls of Ensure, Remove and Reap *)

List(p) ==
    /\ pc[p] \in {"listEnsure", "listRemove", "listReap"}
    /\ listed' = [listed EXCEPT ![p] = Present]
    /\ CASE pc[p] = "listEnsure" ->
                Goto(p, Decide(arg[p])) /\ UNCHANGED todo
         [] pc[p] = "listRemove" ->
                /\ Goto(p, "remove")
                /\ todo' = [todo EXCEPT ![p] = {arg[p]} \cap Present]
         [] pc[p] = "listReap" ->
                /\ Goto(p, "reap")
                /\ todo' = [todo EXCEPT ![p] = PastCeiling]
    /\ KeepContainers
    /\ UNCHANGED <<backend, holder, arg>>

ListFails(p) ==
    /\ pc[p] \in {"listEnsure", "listRemove", "listReap"}
    /\ Unlock(p)
    /\ KeepContainers
    /\ UNCHANGED <<backend, arg>>

\* Nothing left to call: the room runs, or the cap is reached, or every listed
\* room has been dealt with.
Answer(p) ==
    /\ \/ pc[p] = "answer"
       \/ pc[p] \in {"remove", "reap"} /\ todo[p] = {}
    /\ Unlock(p)
    /\ KeepContainers
    /\ UNCHANGED <<backend, arg>>

\* Create: the name is taken or free.  A pod needs no second call.
Create(p) ==
    /\ pc[p] = "create"
    /\ cont[arg[p]] = "absent"
    /\ Becomes(arg[p], "created")
    /\ Goto(p, IF backend = "docker" THEN "start" ELSE "answer")
    /\ KeepLock /\ UNCHANGED <<backend, arg>>

\* Create answers an error, whether or not the container was made: a lost
\* answer leaves it behind, created and never started.
CreateFails(p) ==
    /\ pc[p] = "create"
    /\ \/ KeepContainers
       \/ cont[arg[p]] = "absent" /\ Becomes(arg[p], "created")
    /\ Unlock(p)
    /\ UNCHANGED <<backend, arg>>

\* The second call of Docker's Create, and the only one of its Revive.
Start(p) ==
    /\ \/ pc[p] = "start"
       \/ pc[p] = "revive" /\ backend = "docker"
    /\ cont[arg[p]] # "absent"
    /\ Becomes(arg[p], "running")
    /\ Unlock(p)
    /\ UNCHANGED <<backend, arg>>

\* A failed start is cleaned up after a create and reported after a revive.
StartFails(p) ==
    /\ \/ pc[p] = "start"
       \/ pc[p] = "revive" /\ backend = "docker"
    /\ \/ KeepContainers
       \/ cont[arg[p]] # "absent" /\ Becomes(arg[p], "running")
    /\ IF pc[p] = "start"
       THEN Goto(p, "cleanup") /\ KeepLock
       ELSE Unlock(p)
    /\ UNCHANGED <<backend, arg>>

\* The clean-up's own error is dropped.
Cleanup(p) ==
    /\ pc[p] = "cleanup"
    /\ \/ KeepContainers
       \/ Becomes(arg[p], "absent")
    /\ Unlock(p)
    /\ UNCHANGED <<backend, arg>>

\* What a DELETE leaves of a container: a pod goes through its grace period.
AfterDelete(r) ==
    CASE cont[r] = "absent"   -> {"absent"}
      [] backend = "docker"   -> {"absent"}
      [] OTHER                -> {"absent", "terminating"}

\* Revive of a stopped pod deletes it, waits until it is gone, creates it anew.
DeletePod(p) ==
    /\ pc[p] = "revive" /\ backend = "k8s"
    /\ \E s \in AfterDelete(arg[p]) : Becomes(arg[p], s)
    /\ \/ Goto(p, "wait") /\ KeepLock
       \/ Unlock(p)
    /\ UNCHANGED <<backend, arg>>

WaitGone(p) ==
    /\ pc[p] = "wait"
    /\ cont[arg[p]] = "absent"
    /\ Goto(p, "create")
    /\ KeepContainers
    /\ KeepLock /\ UNCHANGED <<backend, arg>>

\* The 30 seconds are over, or the GET failed for another reason too long.
WaitTimesOut(p) ==
    /\ pc[p] = "wait"
    /\ Unlock(p)
    /\ KeepContainers
    /\ UNCHANGED <<backend, arg>>

\* One Remove of the loop.  Remove stops at the first error, Reap goes on.
RemoveOne(p, r) ==
    /\ pc[p] \in {"remove", "reap"}
    /\ r \in todo[p]
    /\ \E s \in AfterDelete(r) : Becomes(r, s)
    /\ todo' = [todo EXCEPT ![p] = @ \ {r}]
    /\ UNCHANGED <<backend, holder, pc, arg, listed>>

RemoveFails(p, r) ==
    /\ pc[p] \in {"remove", "reap"}
    /\ r \in todo[p]
    /\ \/ KeepContainers
       \/ \E s \in AfterDelete(r) : Becomes(r, s)
    /\ IF pc[p] = "remove"
       THEN Unlock(p)
       ELSE /\ todo' = [todo EXCEPT ![p] = @ \ {r}]
            /\ UNCHANGED <<holder, pc, listed>>
    /\ UNCHANGED <<backend, arg>>

-----------------------------------------------------------------------------
(* What happens outside the guard, and to it *)

\* The engine or the cluster moves a container by itself.
Moves(from) ==
    CASE from = "created"     -> IF backend = "k8s" THEN {"running", "exited"} ELSE {}
      [] from = "running"     -> {"restarting", "exited"}
      [] from = "restarting"  -> {"running", "exited"}
      [] from = "terminating" -> {"absent"}
      [] OTHER                -> {}

ContainerMoves(r) ==
    /\ \E s \in Moves(cont[r]) : Becomes(r, s)
    /\ UNCHANGED <<backend, holder, pc, arg, listed, todo>>

\* An operator, a node failure or a prune takes the container away.
ContainerVanishes(r) ==
    /\ cont[r] # "absent"
    /\ Becomes(r, "absent")
    /\ UNCHANGED <<backend, holder, pc, arg, listed, todo>>

\* The container passes the ceiling.
ContainerAges(r) ==
    /\ cont[r] # "absent" /\ r \notin expired
    /\ expired' = expired \cup {r}
    /\ UNCHANGED <<backend, cont, holder, pc, arg, listed, todo>>

\* The guard process dies: requests and the mutex are lost, containers are not.
Crash ==
    /\ \E p \in Proc : pc[p] # "idle"
    /\ holder' = Down
    /\ pc' = [p \in Proc |-> "idle"]
    /\ listed' = [p \in Proc |-> {}]
    /\ todo' = [p \in Proc |-> {}]
    /\ KeepContainers
    /\ UNCHANGED <<backend, arg>>

\* It is started again.
ComeUp ==
    /\ holder = Down
    /\ holder' = Nobody
    /\ UNCHANGED <<backend, cont, expired, pc, arg, listed, todo>>

-----------------------------------------------------------------------------
\* The steps a goroutine takes once it holds the mutex.
Work(p) ==
    \/ List(p) \/ ListFails(p) \/ Answer(p)
    \/ Create(p) \/ CreateFails(p) \/ Start(p) \/ StartFails(p) \/ Cleanup(p)
    \/ DeletePod(p) \/ WaitGone(p) \/ WaitTimesOut(p)
    \/ \E r \in Room : RemoveOne(p, r) \/ RemoveFails(p, r)

Environment ==
    \E r \in Room : ContainerMoves(r) \/ ContainerVanishes(r) \/ ContainerAges(r)

Next ==
    \/ \E p \in Handler, r \in Room : Request(p, r)
    \/ ReapTick
    \/ \E p \in Proc : Lock(p) \/ Work(p)
    \/ Environment
    \/ Crash \/ ComeUp

Spec == Init /\ [][Next]_vars

\* Goroutines run; sync.Mutex hands a starving waiter the lock; every backend
\* call returns (the HTTP clients give up after 30 seconds); the ticker fires.
\* A removal that is tried again and again is not refused for ever.
Fairness ==
    /\ WF_vars(ReapTick) /\ WF_vars(ComeUp)
    /\ \A p \in Proc : WF_vars(Work(p)) /\ SF_vars(Lock(p))
    /\ \A r \in Room : SF_vars(RemoveOne(Reaper, r))
    /\ SF_vars(List(Reaper))
    /\ \A r \in Room : WF_vars(cont[r] = "terminating" /\ ContainerMoves(r))

\* The guard does not go on dying for ever.
CrashesEnd == <>[][~Crash]_vars

FairSpec == Spec /\ Fairness /\ CrashesEnd

-----------------------------------------------------------------------------
(* Properties *)

\* README "A compromised gateway can start at most ROOM_CAP hardened rooms":
\* concurrent Ensures, lost answers and crashes never leave more containers
\* than the cap.
CapHolds == Cardinality(Present) <= Cap

\* Reviving a stopped pod deletes what was listed under its name earlier; what
\* is deleted is never a pod that has started since.
ReviveSparesLivePods ==
    [][\A p \in Proc : DeletePod(p) => cont[arg[p]] \notin {"running", "restarting"}]_vars

\* The reaper acts on an earlier list; it still never removes a container that
\* is under the ceiling.
ReapSparesYoungRooms ==
    [][\A r \in Room : RemoveOne(Reaper, r) => r \in expired \/ cont[r] = "absent"]_vars

\* The backstop of ROOM_GUARD_CEILING: a container past the ceiling does not
\* stay, however often the removal fails or the guard restarts.
ExpiredRoomsGo == \A r \in Room : r \in expired ~> r \notin expired

\* Nobody waits for ever on Server.mu: every request is answered or dies with
\* the guard.
RequestsEnd == \A p \in Handler : pc[p] # "idle" ~> pc[p] = "idle"

\* The guard implements the promise RoomLifecycle relies on.
BoxOf(s) ==
    CASE s = "absent" -> "absent"
      [] s = "created" -> "created"
      [] s \in {"running", "restarting"} -> "live"
      [] s \in {"exited", "terminating"} -> "exited"

Box == [r \in Room |-> BoxOf(cont[r])]

Promise == INSTANCE Supervisor WITH box <- Box

KeepsPromise == Promise!Spec
=============================================================================
