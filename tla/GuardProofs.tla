----------------------------- MODULE GuardProofs ----------------------------
(***************************************************************************)
(* Proofs about Guard for every set of rooms and of handlers, every cap    *)
(* and both backends.                                                      *)
(*                                                                         *)
(* The cap is not inductive by itself: a Create is safe because of what    *)
(* its goroutine listed earlier.  IInv says why that list still holds:     *)
(* whoever is past Lock holds the mutex, and between List and Create       *)
(* nothing can appear that the list does not show.                         *)
(***************************************************************************)
EXTENDS Guard, FiniteSetTheorems, TLAPS

\* Only the holder of Server.mu is inside a critical section.
MutexInv == \A p \in Proc : pc[p] \notin Outside => holder = p

\* The list a goroutine is about to create from shows every container there
\* is, and leaves room for the one it creates.
ListInv ==
    \A p \in Proc : pc[p] \in {"revive", "wait", "create"} =>
        /\ Present \subseteq listed[p]
        /\ Cardinality(listed[p] \cup {arg[p]}) <= Cap

\* The reaper does nothing but reap, and what it has still to remove is past
\* the ceiling or gone.
ReapInv ==
    /\ pc[Reaper] \in {"idle", "wantReap", "listReap", "reap"}
    /\ pc[Reaper] = "reap" =>
           \A r \in todo[Reaper] : r \in expired \/ cont[r] = "absent"

\* The pod a goroutine is about to revive is not alive.
ReviveInv ==
    \A p \in Proc : pc[p] = "revive" /\ backend = "k8s" =>
        cont[arg[p]] \in {"absent", "exited", "terminating"}

IInv == TypeOK /\ MutexInv /\ CapHolds /\ ListInv /\ ReapInv /\ ReviveInv

-----------------------------------------------------------------------------
(* Lemmas about sets of rooms *)

\* A set of rooms is finite and its cardinality is a number.
LEMMA RoomsFinite ==
    ASSUME NEW S \in SUBSET Room
    PROVE  IsFiniteSet(S) /\ Cardinality(S) \in Nat
BY FS_Subset, FS_CardinalityType, GuardAssumption

\* Adding to a set inside S one element outside it is bounded by S with it.
LEMMA RoomForOneMore ==
    ASSUME NEW S \in SUBSET Room, NEW T \in SUBSET S, NEW r \in Room,
           r \notin T, Cardinality(S \cup {r}) <= Cap
    PROVE  Cardinality(T) < Cap /\ Cardinality(T \cup {r}) <= Cap
<1>1. /\ IsFiniteSet(S \cup {r}) /\ Cardinality(S \cup {r}) \in Nat
      /\ IsFiniteSet(T) /\ Cardinality(T) \in Nat
  BY RoomsFinite
<1>2. Cardinality(T \cup {r}) <= Cardinality(S \cup {r})
  <2>1. T \cup {r} \in SUBSET (S \cup {r})
    OBVIOUS
  <2>2. QED BY <2>1, <1>1, FS_Subset
<1>3. Cardinality(T \cup {r}) = Cardinality(T) + 1
  BY <1>1, FS_AddElement
<1>4. Cardinality(T \cup {r}) <= Cap
  <2>1. Cardinality(T \cup {r}) \in Nat
    BY RoomsFinite
  <2>2. QED BY <1>1, <1>2, <2>1, GuardAssumption
<1>5. QED BY <1>1, <1>3, <1>4, GuardAssumption

\* Fewer rooms stay under the cap.
LEMMA FewerRooms ==
    ASSUME NEW S \in SUBSET Room, NEW T \in SUBSET S, Cardinality(S) <= Cap
    PROVE  Cardinality(T) <= Cap
<1>1. Cardinality(T) <= Cardinality(S)
  BY RoomsFinite, FS_Subset
<1>2. Cardinality(T) \in Nat /\ Cardinality(S) \in Nat
  BY RoomsFinite
<1>3. QED BY <1>1, <1>2, GuardAssumption

-----------------------------------------------------------------------------
(* Lemmas about the helpers of the model *)

\* A container that changes state without appearing: nothing is added to
\* Present.
LEMMA NothingAppears ==
    ASSUME TypeOK, NEW r \in Room, NEW s \in ContState, Becomes(r, s),
           cont[r] # "absent" \/ s = "absent"
    PROVE  /\ Present' \subseteq Present
           /\ cont' \in [Room -> ContState]
           /\ expired' \subseteq Present'
           /\ \A q \in expired : q \in expired' \/ cont'[q] = "absent"
           /\ \A q \in Room : cont[q] = "absent" => cont'[q] = "absent"
BY DEF TypeOK, Becomes, Present

\* A container that appears is the only one to.
LEMMA OneAppears ==
    ASSUME TypeOK, NEW r \in Room, NEW s \in ContState \ {"absent"}, Becomes(r, s)
    PROVE  /\ Present' = Present \cup {r}
           /\ cont' \in [Room -> ContState]
           /\ expired' \subseteq Present'
BY DEF TypeOK, Becomes, Present, ContState

\* What Unlock leaves of the goroutines' state.
LEMMA UnlockTypes ==
    ASSUME TypeOK, NEW p \in Proc, Unlock(p)
    PROVE  /\ holder' = Nobody
           /\ pc' = [pc EXCEPT ![p] = "idle"]
           /\ pc' \in [Proc -> Step]
           /\ listed' \in [Proc -> SUBSET Room]
           /\ todo' \in [Proc -> SUBSET Room]
           /\ \A q \in Proc : q # p => listed'[q] = listed[q] /\ todo'[q] = todo[q]
BY DEF TypeOK, Unlock, Goto, Step

-----------------------------------------------------------------------------
(* The inductive invariant *)

\* The goroutine that finishes leaves the others inside nothing of its own:
\* every part of IInv about goroutines holds of p, now idle, and of the rest.
LEMMA UnlockKeeps ==
    ASSUME IInv, NEW p \in Proc, pc[p] \notin Outside, Unlock(p),
           UNCHANGED <<backend, arg>>,
           cont' \in [Room -> ContState], expired' \subseteq Present',
           CapHolds'
    PROVE  IInv'
<1>1. TypeOK'
  BY UnlockTypes DEF IInv, TypeOK
<1>2. \A q \in Proc : pc'[q] # "idle" => q # p /\ pc[q] = pc'[q] /\ pc[q] \in Outside
  BY UnlockTypes DEF IInv, TypeOK, MutexInv
<1>3. MutexInv'
  BY <1>2 DEF MutexInv, Outside
<1>4. ListInv' /\ ReviveInv'
  BY <1>2 DEF ListInv, ReviveInv, Outside
<1>5. ReapInv'
  <2>1. \/ pc'[Reaper] = "idle"
        \/ pc'[Reaper] = pc[Reaper] /\ pc[Reaper] \in Outside
    BY <1>2 DEF Proc
  <2>2. QED BY <2>1 DEF ReapInv, IInv, Outside
<1>6. QED BY <1>1, <1>3, <1>4, <1>5 DEF IInv

\* A step inside the critical section that goes on there.  The others are
\* outside, so what it does to the containers concerns nobody but p.
LEMMA GoOnKeeps ==
    ASSUME IInv, NEW p \in Proc, pc[p] \notin Outside,
           NEW s \in Step, Goto(p, s), UNCHANGED <<backend, holder, arg>>,
           cont' \in [Room -> ContState], expired' \subseteq Present',
           listed' \in [Proc -> SUBSET Room], todo' \in [Proc -> SUBSET Room],
           CapHolds',
           s \in {"revive", "wait", "create"} =>
               /\ Present' \subseteq listed'[p]
               /\ Cardinality(listed'[p] \cup {arg[p]}) <= Cap,
           s = "revive" /\ backend = "k8s" =>
               cont'[arg[p]] \in {"absent", "exited", "terminating"},
           p = Reaper =>
               /\ s = "reap"
               /\ \A r \in todo'[Reaper] : r \in expired' \/ cont'[r] = "absent"
    PROVE  IInv'
<1>1. TypeOK'
  BY DEF IInv, TypeOK, Goto
<1>2. /\ pc'[p] = s
      /\ \A q \in Proc : q # p => pc'[q] = pc[q] /\ pc[q] \in Outside
  BY DEF IInv, TypeOK, MutexInv, Goto
<1>3. MutexInv'
  BY <1>2 DEF IInv, MutexInv, Outside
<1>4. ListInv'
  BY <1>2 DEF ListInv, Outside
<1>5. ReviveInv'
  BY <1>2 DEF ReviveInv, Outside
<1>6. ReapInv'
  <2>1. CASE p = Reaper
    BY <1>2, <2>1 DEF ReapInv
  <2>2. CASE p # Reaper
    <3>1. pc'[Reaper] = pc[Reaper] /\ pc[Reaper] \in Outside
      BY <1>2, <2>2 DEF Proc
    <3>2. QED BY <3>1 DEF IInv, ReapInv, Outside
  <2>3. QED BY <2>1, <2>2
<1>7. QED BY <1>1, <1>3, <1>4, <1>5, <1>6 DEF IInv

\* A container that changes by itself, without appearing and without a
\* stopped one coming to life, disturbs nobody.
LEMMA EnvironmentKeeps ==
    ASSUME IInv, UNCHANGED <<backend, holder, pc, arg, listed, todo>>,
           cont' \in [Room -> ContState], expired' \subseteq Present',
           Present' \subseteq Present,
           \A q \in expired : q \in expired' \/ cont'[q] = "absent",
           \A q \in Room : cont[q] = "absent" => cont'[q] = "absent",
           \A q \in Room : cont[q] \in {"absent", "exited", "terminating"} =>
               cont'[q] \in {"absent", "exited", "terminating"}
    PROVE  IInv'
<1>1. TypeOK'
  BY DEF IInv, TypeOK
<1>2. CapHolds'
  <2>1. Cardinality(Present') <= Cap
    BY FewerRooms DEF Present, IInv, CapHolds
  <2>2. QED BY <2>1 DEF CapHolds
<1>3. MutexInv' /\ ListInv'
  BY DEF IInv, MutexInv, ListInv
<1>4. ReviveInv'
  BY DEF IInv, ReviveInv, TypeOK
<1>5. ReapInv'
  BY DEF IInv, ReapInv, TypeOK, Proc, Present
<1>6. QED BY <1>1, <1>2, <1>3, <1>4, <1>5 DEF IInv

\* The invariant holds initially.
LEMMA InitInv == Init => IInv
<1> SUFFICES ASSUME Init PROVE IInv
  OBVIOUS
<1>1. TypeOK
  BY GuardAssumption DEF Init, TypeOK, Step, ContState, Present
<1>2. CapHolds
  <2>1. Present = {}
    BY DEF Init, Present
  <2>2. QED BY <2>1, FS_EmptySet, GuardAssumption DEF CapHolds
<1>3. MutexInv /\ ListInv /\ ReapInv /\ ReviveInv
  BY DEF Init, MutexInv, ListInv, ReapInv, ReviveInv, Outside, Proc
<1>4. QED BY <1>1, <1>2, <1>3 DEF IInv

\* Asking, ticking, locking.
LEMMA EnteringKeeps ==
    ASSUME IInv, NEW p \in Proc, NEW r \in Room,
           \/ p \in Handler /\ Request(p, r)
           \/ ReapTick
           \/ Lock(p)
    PROVE  IInv'
<1>1. CASE p \in Handler /\ Request(p, r)
  <2>1. p # Reaper
    BY <1>1, GuardAssumption
  <2>2. TypeOK'
    BY <1>1 DEF IInv, TypeOK, Request, Goto, Step, Present
  <2>3. CapHolds'
    BY <1>1 DEF IInv, CapHolds, Request, Present
  <2>4. MutexInv' /\ ListInv' /\ ReviveInv'
    BY <1>1 DEF IInv, TypeOK, MutexInv, ListInv, ReviveInv, Request, Goto,
                Outside, Present
  <2>5. ReapInv'
    BY <1>1, <2>1 DEF IInv, TypeOK, ReapInv, Request, Goto, Proc
  <2>6. QED BY <2>2, <2>3, <2>4, <2>5 DEF IInv
<1>2. CASE ReapTick
  <2>1. TypeOK'
    BY <1>2 DEF IInv, TypeOK, ReapTick, Goto, Step, Present
  <2>2. CapHolds'
    BY <1>2 DEF IInv, CapHolds, ReapTick, Present
  <2>3. MutexInv' /\ ListInv' /\ ReviveInv' /\ ReapInv'
    BY <1>2 DEF IInv, TypeOK, MutexInv, ListInv, ReviveInv, ReapInv, ReapTick,
                Goto, Outside, Present, Proc
  <2>4. QED BY <2>1, <2>2, <2>3 DEF IInv
<1>3. CASE Lock(p)
  <2>1. \A q \in Proc : pc[q] \in Outside
    BY <1>3, GuardAssumption DEF IInv, MutexInv, Lock, MayLock, Proc
  <2>2. /\ pc' = [pc EXCEPT ![p] = AfterLock(pc[p])]
        /\ AfterLock(pc[p]) \in {"listEnsure", "listRemove", "listReap"}
        /\ pc[p] = "wantReap" => AfterLock(pc[p]) = "listReap"
    BY <1>3 DEF Lock, Goto, AfterLock
  <2>3. TypeOK'
    BY <1>3, <2>2 DEF IInv, TypeOK, Lock, Step, Present
  <2>4. CapHolds'
    BY <1>3 DEF IInv, CapHolds, Lock, Present
  <2>5. MutexInv'
    BY <1>3, <2>1, <2>2 DEF IInv, TypeOK, MutexInv, Lock
  <2>6. ListInv' /\ ReviveInv'
    BY <1>3, <2>1, <2>2 DEF IInv, TypeOK, ListInv, ReviveInv, Outside
  <2>7. ReapInv'
    BY <1>3, <2>1, <2>2 DEF IInv, TypeOK, ReapInv, Lock, Proc, Outside
  <2>8. QED BY <2>3, <2>4, <2>5, <2>6, <2>7 DEF IInv
<1>4. QED BY <1>1, <1>2, <1>3

\* Fewer containers: the cap still holds.
LEMMA CapOfFewer ==
    ASSUME CapHolds, Present' \subseteq Present
    PROVE  CapHolds'
<1>1. Cardinality(Present') <= Cap
  BY FewerRooms DEF Present, CapHolds
<1>2. QED BY <1>1 DEF CapHolds

\* The container of a listed room's creator appears: the cap still holds.
LEMMA CapOfOneMore ==
    ASSUME IInv, NEW p \in Proc, pc[p] = "create", cont[arg[p]] = "absent",
           Present' = Present \cup {arg[p]}
    PROVE  CapHolds' /\ Cardinality(Present) < Cap
<1>1. arg[p] \in Room /\ arg[p] \notin Present /\ listed[p] \in SUBSET Room
  BY DEF IInv, TypeOK, Present
<1>2. Present \subseteq listed[p] /\ Cardinality(listed[p] \cup {arg[p]}) <= Cap
  BY DEF IInv, ListInv
<1>3. Cardinality(Present) < Cap /\ Cardinality(Present \cup {arg[p]}) <= Cap
  BY <1>1, <1>2, RoomForOneMore
<1>4. QED BY <1>3 DEF CapHolds

\* The list decides: what it allows to create fits under the cap, and what it
\* has Kubernetes revive is stopped.
LEMMA ListKeeps ==
    ASSUME IInv, NEW p \in Proc, List(p)
    PROVE  IInv'
<1>1. /\ pc[p] \notin Outside
      /\ UNCHANGED <<backend, holder, arg>> /\ UNCHANGED <<cont, expired>>
      /\ cont' \in [Room -> ContState] /\ Present' = Present
      /\ expired' \subseteq Present'
  BY DEF List, KeepContainers, IInv, TypeOK, Present, Outside
<1>2. listed' = [listed EXCEPT ![p] = Present]
  BY DEF List
<1>3. listed' \in [Proc -> SUBSET Room] /\ listed'[p] = Present
  BY <1>2 DEF IInv, TypeOK, Present
<1>4. CapHolds'
  BY <1>1 DEF IInv, CapHolds
<1>5. CASE pc[p] = "listEnsure"
  <2>1. Goto(p, Decide(arg[p])) /\ UNCHANGED todo
    BY <1>5 DEF List
  <2>2. Decide(arg[p]) \in {"answer", "revive", "create"}
    BY DEF Decide
  <2>3. Decide(arg[p]) = "revive" =>
            /\ arg[p] \in Present
            /\ ListedState(arg[p]) \notin LeftAlone
    BY DEF Decide
  <2>4. Decide(arg[p]) = "create" =>
            arg[p] \notin Present /\ ~ Cardinality(Present) >= Cap
    BY DEF Decide, AtCap
  <2>5. arg[p] \in Room /\ Present \in SUBSET Room
    BY DEF IInv, TypeOK, Present
  <2>6. Decide(arg[p]) = "revive" => Cardinality(Present \cup {arg[p]}) <= Cap
    <3>1. ASSUME Decide(arg[p]) = "revive"
          PROVE  Cardinality(Present \cup {arg[p]}) <= Cap
      <4>1. Present \cup {arg[p]} = Present
        BY <2>3, <3>1
      <4>2. QED BY <4>1 DEF IInv, CapHolds
    <3>2. QED BY <3>1
  <2>7. Decide(arg[p]) = "create" => Cardinality(Present \cup {arg[p]}) <= Cap
    <3>1. ASSUME Decide(arg[p]) = "create"
          PROVE  Cardinality(Present \cup {arg[p]}) <= Cap
      <4>1. Cardinality(Present \cup {arg[p]}) = Cardinality(Present) + 1
        BY <2>4, <2>5, <3>1, RoomsFinite, FS_AddElement
      <4>2. QED BY <4>1, <2>4, <2>5, <3>1, RoomsFinite, GuardAssumption
    <3>2. QED BY <3>1
  <2>8. Decide(arg[p]) = "revive" /\ backend = "k8s" =>
            cont'[arg[p]] \in {"absent", "exited", "terminating"}
    BY <1>1, <2>3, <2>5 DEF ListedState, LeftAlone, IInv, TypeOK, ContState
  <2>9. p # Reaper
    BY <1>5 DEF IInv, ReapInv
  <2>10. QED
    BY <1>1, <1>3, <1>4, <2>1, <2>2, <2>6, <2>7, <2>8, <2>9, GoOnKeeps
       DEF Step, IInv, TypeOK
<1>6. CASE pc[p] = "listRemove"
  <2>1. Goto(p, "remove") /\ todo' = [todo EXCEPT ![p] = {arg[p]} \cap Present]
    BY <1>6 DEF List
  <2>2. p # Reaper
    BY <1>6 DEF IInv, ReapInv
  <2>3. todo' \in [Proc -> SUBSET Room]
    BY <2>1 DEF IInv, TypeOK, Present
  <2>4. QED
    BY <1>1, <1>3, <1>4, <2>1, <2>2, <2>3, GoOnKeeps DEF Step
<1>7. CASE pc[p] = "listReap"
  <2>1. Goto(p, "reap") /\ todo' = [todo EXCEPT ![p] = PastCeiling]
    BY <1>7 DEF List
  <2>2. todo' \in [Proc -> SUBSET Room] /\ todo'[p] \subseteq expired'
    BY <1>1, <2>1 DEF IInv, TypeOK, Present, PastCeiling
  <2>3. QED
    BY <1>1, <1>3, <1>4, <2>1, <2>2, GoOnKeeps DEF Step
<1>8. QED BY <1>5, <1>6, <1>7 DEF List

\* Create and its failure, and the two ways a pending request just ends.
LEMMA CreateKeeps ==
    ASSUME IInv, NEW p \in Proc,
           Create(p) \/ CreateFails(p) \/ ListFails(p) \/ Answer(p) \/ WaitTimesOut(p)
    PROVE  IInv'
<1>1. pc[p] \notin Outside /\ arg[p] \in Room
  BY DEF Create, CreateFails, ListFails, Answer, WaitTimesOut, Outside, IInv, TypeOK
<1>2. ASSUME KeepContainers
      PROVE  /\ cont' \in [Room -> ContState] /\ expired' \subseteq Present'
             /\ CapHolds'
  BY <1>2 DEF KeepContainers, IInv, TypeOK, CapHolds, Present
<1>3. ASSUME pc[p] = "create", cont[arg[p]] = "absent", Becomes(arg[p], "created")
      PROVE  /\ cont' \in [Room -> ContState] /\ expired' \subseteq Present'
             /\ CapHolds'
  <2>1. /\ Present' = Present \cup {arg[p]}
        /\ cont' \in [Room -> ContState] /\ expired' \subseteq Present'
    BY <1>1, <1>3, OneAppears DEF IInv, ContState
  <2>2. QED BY <1>3, <2>1, CapOfOneMore
<1>4. CASE Create(p)
  <2>1. p # Reaper
    BY <1>4 DEF Create, IInv, ReapInv
  <2>2. /\ UNCHANGED <<backend, holder, arg>> /\ UNCHANGED <<listed, todo>>
        /\ Goto(p, IF backend = "docker" THEN "start" ELSE "answer")
    BY <1>4 DEF Create, KeepLock
  <2>3. /\ cont' \in [Room -> ContState] /\ expired' \subseteq Present'
        /\ CapHolds'
    BY <1>3, <1>4 DEF Create
  <2>4. (IF backend = "docker" THEN "start" ELSE "answer") \in Step \ {"revive", "wait", "create"}
    BY DEF Step
  <2>5. QED BY <1>1, <2>1, <2>2, <2>3, <2>4, GoOnKeeps DEF IInv, TypeOK
<1>5. CASE CreateFails(p)
  BY <1>1, <1>2, <1>3, <1>5, UnlockKeeps DEF CreateFails
<1>6. CASE ListFails(p) \/ Answer(p) \/ WaitTimesOut(p)
  BY <1>1, <1>2, <1>6, UnlockKeeps DEF ListFails, Answer, WaitTimesOut
<1>7. QED BY <1>4, <1>5, <1>6

\* Steps on a container that is there, or that take it away.
LEMMA StartKeeps ==
    ASSUME IInv, NEW p \in Proc, Start(p) \/ StartFails(p) \/ Cleanup(p)
    PROVE  IInv'
<1>1. /\ pc[p] \notin Outside /\ arg[p] \in Room /\ p # Reaper
      /\ UNCHANGED <<backend, arg>>
  BY DEF Start, StartFails, Cleanup, Outside, IInv, TypeOK, ReapInv
<1>2. ASSUME KeepContainers
      PROVE  /\ cont' \in [Room -> ContState] /\ expired' \subseteq Present'
             /\ CapHolds'
  BY <1>2 DEF KeepContainers, IInv, TypeOK, CapHolds, Present
<1>3. ASSUME NEW s \in {"running", "absent"}, Becomes(arg[p], s),
             cont[arg[p]] # "absent" \/ s = "absent"
      PROVE  /\ cont' \in [Room -> ContState] /\ expired' \subseteq Present'
             /\ CapHolds'
  <2>1. s \in ContState
    BY DEF ContState
  <2>2. /\ Present' \subseteq Present
        /\ cont' \in [Room -> ContState] /\ expired' \subseteq Present'
    BY <1>1, <1>3, <2>1, NothingAppears DEF IInv
  <2>3. QED BY <2>2, CapOfFewer DEF IInv
<1>4. CASE Start(p)
  BY <1>1, <1>3, <1>4, UnlockKeeps DEF Start
<1>5. CASE StartFails(p)
  <2>1. /\ cont' \in [Room -> ContState] /\ expired' \subseteq Present'
        /\ CapHolds'
    BY <1>2, <1>3, <1>5 DEF StartFails
  <2>2. CASE pc[p] = "start"
    <3>1. Goto(p, "cleanup") /\ UNCHANGED <<holder, listed, todo>>
      BY <1>5, <2>2 DEF StartFails, KeepLock
    <3>2. QED BY <1>1, <2>1, <3>1, GoOnKeeps DEF Step, IInv, TypeOK
  <2>3. CASE pc[p] # "start"
    BY <1>1, <1>5, <2>1, <2>3, UnlockKeeps DEF StartFails
  <2>4. QED BY <2>2, <2>3
<1>6. CASE Cleanup(p)
  BY <1>1, <1>2, <1>3, <1>6, UnlockKeeps DEF Cleanup
<1>7. QED BY <1>4, <1>5, <1>6

\* A deletion leaves a container that was there gone or going, and none new.
LEMMA DeleteContainer ==
    ASSUME IInv, NEW r \in Room, NEW s \in AfterDelete(r), Becomes(r, s)
    PROVE  /\ cont' \in [Room -> ContState] /\ expired' \subseteq Present'
           /\ Present' \subseteq Present /\ CapHolds'
           /\ \A q \in expired : q \in expired' \/ cont'[q] = "absent"
           /\ \A q \in Room : cont[q] = "absent" => cont'[q] = "absent"
           /\ cont'[r] \in {"absent", "terminating"}
<1>1. s \in {"absent", "terminating"} /\ s \in ContState
      /\ (cont[r] # "absent" \/ s = "absent")
  BY DEF AfterDelete, ContState
<1>2. /\ Present' \subseteq Present
      /\ cont' \in [Room -> ContState] /\ expired' \subseteq Present'
      /\ \A q \in expired : q \in expired' \/ cont'[q] = "absent"
      /\ \A q \in Room : cont[q] = "absent" => cont'[q] = "absent"
  BY <1>1, NothingAppears DEF IInv
<1>3. cont'[r] = s
  BY DEF Becomes, IInv, TypeOK
<1>4. QED BY <1>1, <1>2, <1>3, CapOfFewer DEF IInv

\* Kubernetes' revive.
LEMMA ReviveKeeps ==
    ASSUME IInv, NEW p \in Proc, DeletePod(p) \/ WaitGone(p)
    PROVE  IInv'
<1>1. /\ pc[p] \notin Outside /\ arg[p] \in Room /\ p # Reaper
      /\ pc[p] \in {"revive", "wait"} /\ UNCHANGED <<backend, arg>>
  BY DEF DeletePod, WaitGone, Outside, IInv, TypeOK, ReapInv
<1>2. /\ Present \subseteq listed[p]
      /\ Cardinality(listed[p] \cup {arg[p]}) <= Cap
  BY <1>1 DEF IInv, ListInv
<1>3. CASE DeletePod(p)
  <2>1. /\ cont' \in [Room -> ContState] /\ expired' \subseteq Present'
        /\ Present' \subseteq Present /\ CapHolds'
    BY <1>1, <1>3, DeleteContainer DEF DeletePod
  <2>2. CASE Goto(p, "wait") /\ KeepLock
    BY <1>1, <1>2, <2>1, <2>2, GoOnKeeps DEF KeepLock, Step, IInv, TypeOK
  <2>3. CASE Unlock(p)
    BY <1>1, <2>1, <2>3, UnlockKeeps
  <2>4. QED BY <1>3, <2>2, <2>3 DEF DeletePod
<1>4. CASE WaitGone(p)
  <2>1. Goto(p, "create") /\ KeepLock /\ KeepContainers
    BY <1>4 DEF WaitGone
  <2>2. /\ cont' \in [Room -> ContState] /\ expired' \subseteq Present'
        /\ Present' = Present /\ CapHolds'
    BY <2>1 DEF KeepContainers, IInv, TypeOK, CapHolds, Present
  <2>3. QED BY <1>1, <1>2, <2>1, <2>2, GoOnKeeps DEF KeepLock, Step, IInv, TypeOK
<1>5. QED BY <1>3, <1>4

\* One removal, done or failed, leaves the rest of the loop as it was.
LEMMA RemoveKeeps ==
    ASSUME IInv, NEW p \in Proc, NEW r \in Room, RemoveOne(p, r) \/ RemoveFails(p, r)
    PROVE  IInv'
<1>1. /\ pc[p] \in {"remove", "reap"} /\ pc[p] \notin Outside
      /\ UNCHANGED <<backend, arg>>
      /\ (p = Reaper => pc[p] = "reap")
  BY DEF RemoveOne, RemoveFails, Outside, IInv, ReapInv
<1>2. /\ cont' \in [Room -> ContState] /\ expired' \subseteq Present'
      /\ CapHolds'
      /\ \A q \in expired : q \in expired' \/ cont'[q] = "absent"
      /\ \A q \in Room : cont[q] = "absent" => cont'[q] = "absent"
  <2>1. CASE KeepContainers
    BY <2>1 DEF KeepContainers, IInv, TypeOK, CapHolds, Present
  <2>2. CASE \E s \in AfterDelete(r) : Becomes(r, s)
    BY <2>2, DeleteContainer
  <2>3. QED BY <2>1, <2>2 DEF RemoveOne, RemoveFails
<1>3. ASSUME todo' = [todo EXCEPT ![p] = @ \ {r}], UNCHANGED <<holder, pc, listed>>
      PROVE  IInv'
  <2>1. Goto(p, pc[p]) /\ pc[p] \in Step
    BY <1>3 DEF Goto, IInv, TypeOK
  <2>2. todo' \in [Proc -> SUBSET Room] /\ todo'[p] \subseteq todo[p]
    BY <1>3 DEF IInv, TypeOK
  <2>3. p = Reaper => \A q \in todo'[Reaper] : q \in expired' \/ cont'[q] = "absent"
    BY <1>1, <1>2, <2>2 DEF IInv, TypeOK, ReapInv
  <2>4. QED BY <1>1, <1>2, <1>3, <2>1, <2>2, <2>3, GoOnKeeps DEF IInv, TypeOK
<1>4. CASE RemoveOne(p, r)
  BY <1>3, <1>4 DEF RemoveOne
<1>5. CASE RemoveFails(p, r)
  BY <1>1, <1>2, <1>3, <1>5, UnlockKeeps DEF RemoveFails
<1>6. QED BY <1>4, <1>5

\* Containers that move, vanish or age.
LEMMA OutsideKeeps ==
    ASSUME IInv, NEW r \in Room,
           ContainerMoves(r) \/ ContainerVanishes(r) \/ ContainerAges(r)
    PROVE  IInv'
<1>1. UNCHANGED <<backend, holder, pc, arg, listed, todo>>
  BY DEF ContainerMoves, ContainerVanishes, ContainerAges
<1>2. CASE ContainerMoves(r)
  <2>1. PICK s \in Moves(cont[r]) : Becomes(r, s)
    BY <1>2 DEF ContainerMoves
  <2>2. /\ s \in ContState /\ cont[r] # "absent"
        /\ (cont[r] \in {"absent", "exited", "terminating"} => s = "absent")
    BY <2>1 DEF Moves, ContState
  <2>3. \A q \in Room : cont[q] \in {"absent", "exited", "terminating"} =>
            cont'[q] \in {"absent", "exited", "terminating"}
    BY <2>1, <2>2 DEF Becomes, IInv, TypeOK
  <2>4. QED BY <1>1, <2>1, <2>2, <2>3, NothingAppears, EnvironmentKeeps DEF IInv
<1>3. CASE ContainerVanishes(r)
  <2>1. \A q \in Room : cont[q] \in {"absent", "exited", "terminating"} =>
            cont'[q] \in {"absent", "exited", "terminating"}
    BY <1>3 DEF ContainerVanishes, Becomes, IInv, TypeOK
  <2>2. "absent" \in ContState
    BY DEF ContState
  <2>3. QED
    BY <1>1, <1>3, <2>1, <2>2, NothingAppears, EnvironmentKeeps
       DEF ContainerVanishes, IInv
<1>4. CASE ContainerAges(r)
  <2>1. cont' = cont /\ expired' = expired \cup {r} /\ r \in Present
    BY <1>4 DEF ContainerAges, Present
  <2>2. Present' = Present
    BY <2>1 DEF Present
  <2>3. QED BY <1>1, <2>1, <2>2, EnvironmentKeeps DEF IInv, TypeOK
<1>5. QED BY <1>2, <1>3, <1>4

\* The guard comes back with nothing in flight.
LEMMA ComeUpKeeps == ASSUME IInv, ComeUp PROVE IInv'
<1>1. TypeOK' /\ CapHolds'
  BY DEF IInv, TypeOK, CapHolds, ComeUp, Present
<1>2. \A p \in Proc : pc[p] \in Outside
  BY GuardAssumption DEF IInv, MutexInv, ComeUp, Proc
<1>3. MutexInv' /\ ListInv' /\ ReviveInv' /\ ReapInv'
  BY <1>2 DEF IInv, ComeUp, MutexInv, ListInv, ReviveInv, ReapInv, Outside, Proc, Present
<1>4. QED BY <1>1, <1>3 DEF IInv

\* The guard dies, and forgets what was in flight.
LEMMA CrashKeeps == ASSUME IInv, Crash PROVE IInv'
<1>1. TypeOK' /\ CapHolds'
  BY DEF IInv, TypeOK, CapHolds, Crash, KeepContainers, Present, Step
<1>2. MutexInv' /\ ListInv' /\ ReviveInv' /\ ReapInv'
  BY DEF Crash, MutexInv, ListInv, ReviveInv, ReapInv, Outside, Proc
<1>3. QED BY <1>1, <1>2 DEF IInv

\* No step breaks the invariant.
LEMMA NextKeepsInv == IInv /\ [Next]_vars => IInv'
<1> SUFFICES ASSUME IInv, [Next]_vars PROVE IInv'
  OBVIOUS
<1>1. ASSUME NEW p \in Handler, NEW r \in Room, Request(p, r) PROVE IInv'
  BY <1>1, EnteringKeeps DEF Proc
<1>2. CASE ReapTick
  <2>1. PICK r \in Room : TRUE
    BY GuardAssumption
  <2>2. QED BY <1>2, <2>1, EnteringKeeps DEF Proc
<1>3. ASSUME NEW p \in Proc, Lock(p) PROVE IInv'
  <2>1. PICK r \in Room : TRUE
    BY GuardAssumption
  <2>2. QED BY <1>3, <2>1, EnteringKeeps
<1>4. ASSUME NEW p \in Proc, Work(p) PROVE IInv'
  BY <1>4, ListKeeps, CreateKeeps, StartKeeps, ReviveKeeps, RemoveKeeps DEF Work
<1>5. CASE Environment
  BY <1>5, OutsideKeeps DEF Environment
<1>6. CASE Crash \/ ComeUp
  BY <1>6, CrashKeeps, ComeUpKeeps
<1>7. CASE UNCHANGED vars
  BY <1>7 DEF vars, IInv, TypeOK, MutexInv, CapHolds, ListInv, ReapInv, ReviveInv,
              Present
<1>8. QED BY <1>1, <1>2, <1>3, <1>4, <1>5, <1>6, <1>7 DEF Next

\* The invariant holds in every behaviour.
THEOREM Invariance == Spec => []IInv
BY InitInv, NextKeepsInv, PTL DEF Spec

-----------------------------------------------------------------------------
(* The results *)

\* Every variable keeps its type, and only containers that exist have an age.
THEOREM GuardTypes == Spec => []TypeOK
<1>1. IInv => TypeOK
  BY DEF IInv
<1>2. QED BY <1>1, Invariance, PTL

\* However many Ensures run at once, and whatever fails or restarts, there are
\* never more containers than the cap.
THEOREM GuardHoldsCap == Spec => []CapHolds
<1>1. IInv => CapHolds
  BY DEF IInv
<1>2. QED BY <1>1, Invariance, PTL

\* The list a revive acts on cannot have become wrong about its pod.
THEOREM GuardSparesLivePods == Spec => ReviveSparesLivePods
<1>1. ASSUME IInv, NEW p \in Proc, DeletePod(p)
      PROVE  cont[arg[p]] \notin {"running", "restarting"}
  BY <1>1 DEF IInv, ReviveInv, DeletePod
<1>2. IInv /\ [Next]_vars =>
          [\A p \in Proc : DeletePod(p) => cont[arg[p]] \notin {"running", "restarting"}]_vars
  BY <1>1
<1>3. QED BY <1>2, Invariance, PTL DEF Spec, ReviveSparesLivePods

\* The list the reaper acts on cannot have become wrong about a room's age.
THEOREM ReaperSparesYoungRooms == Spec => ReapSparesYoungRooms
<1>1. ASSUME IInv, NEW r \in Room, RemoveOne(Reaper, r)
      PROVE  r \in expired \/ cont[r] = "absent"
  BY <1>1 DEF IInv, ReapInv, RemoveOne
<1>2. IInv /\ [Next]_vars =>
          [\A r \in Room : RemoveOne(Reaper, r) => r \in expired \/ cont[r] = "absent"]_vars
  BY <1>1
<1>3. QED BY <1>2, Invariance, PTL DEF Spec, ReapSparesYoungRooms

-----------------------------------------------------------------------------
(* The guard implements Supervisor *)

\* Changing one container changes Box at that room alone.
LEMMA BoxOfBecomes ==
    ASSUME TypeOK, NEW r \in Room, NEW s \in ContState, Becomes(r, s)
    PROVE  /\ Promise!Present = Present
           /\ Box' = [Box EXCEPT ![r] = BoxOf(s)]
<1>1. \A q \in Room : cont[q] \in ContState
  BY DEF TypeOK
<1>2. Promise!Present = Present
  BY <1>1 DEF Promise!Present, Present, Box, BoxOf, ContState
<1>3. cont' = [cont EXCEPT ![r] = s]
  BY DEF Becomes
<1>4. QED BY <1>1, <1>2, <1>3 DEF Box, TypeOK

\* Every move of a container that is there is a move the promise allows.
LEMMA MoveIsPromised ==
    ASSUME TypeOK, NEW r \in Room, NEW s \in ContState \ {"created"}, Becomes(r, s),
           cont[r] # "absent" \/ s = "absent",
           cont[r] = "created" => s # "restarting"
    PROVE  [Promise!Next]_Box
<1>1. cont[r] \in ContState /\ Box \in [Room -> {"absent", "created", "live", "exited"}]
  BY DEF TypeOK, Box, BoxOf, ContState
<1>2. CASE s = "absent"
  <2>1. Box' = [Box EXCEPT ![r] = "absent"]
    BY <1>2, BoxOfBecomes DEF BoxOf
  <2>2. Box[r] = "absent" => Box' = Box
    BY <1>1, <2>1
  <2>3. Box[r] # "absent" => Promise!Remove(r)
    BY <2>1 DEF Promise!Remove
  <2>4. QED BY <2>2, <2>3 DEF Promise!Next
<1>3. CASE s \in {"running", "restarting"}
  <2>1. Box' = [Box EXCEPT ![r] = "live"]
    BY <1>3, BoxOfBecomes DEF BoxOf
  <2>2. Box[r] \in {"created", "exited", "live"}
    BY <1>1, <1>3 DEF Box, BoxOf, ContState
  <2>3. Box[r] = "live" => Box' = Box
    BY <1>1, <2>1
  <2>4. Box[r] # "live" => Promise!Run(r)
    BY <2>1, <2>2 DEF Promise!Run
  <2>5. QED BY <2>3, <2>4 DEF Promise!Next
<1>4. CASE s \in {"exited", "terminating"}
  <2>1. Box' = [Box EXCEPT ![r] = "exited"]
    BY <1>4, BoxOfBecomes DEF BoxOf
  <2>2. Box[r] \in {"created", "exited", "live"}
    BY <1>1, <1>4 DEF Box, BoxOf, ContState
  <2>3. Box[r] = "exited" => Box' = Box
    BY <1>1, <2>1
  <2>4. Box[r] # "exited" => Promise!Exit(r)
    BY <2>1, <2>2 DEF Promise!Exit
  <2>5. QED BY <2>3, <2>4 DEF Promise!Next
<1>5. QED BY <1>2, <1>3, <1>4 DEF ContState

\* A create under a good list is the promise's Create.
LEMMA CreateIsPromised ==
    ASSUME IInv, NEW p \in Proc, pc[p] = "create", cont[arg[p]] = "absent",
           Becomes(arg[p], "created")
    PROVE  [Promise!Next]_Box
<1>1. arg[p] \in Room /\ "created" \in ContState \ {"absent"}
  BY DEF IInv, TypeOK, ContState
<1>2. Present' = Present \cup {arg[p]}
  BY <1>1, OneAppears DEF IInv
<1>3. Cardinality(Present) < Cap
  BY <1>2, CapOfOneMore
<1>4. Box' = [Box EXCEPT ![arg[p]] = "created"] /\ Promise!Present = Present
  BY <1>1, BoxOfBecomes DEF IInv, BoxOf
<1>5. Box[arg[p]] = "absent"
  BY <1>1 DEF Box, BoxOf
<1>6. Promise!Create(arg[p])
  BY <1>3, <1>4, <1>5 DEF Promise!Create, Promise!Cardinality, Cardinality,
     Promise!IsFiniteSet, IsFiniteSet
<1>7. QED BY <1>1, <1>6 DEF Promise!Next

\* Every step of the guard is one of the promise's, or leaves the containers
\* as they are.
LEMMA StepIsPromised == IInv /\ [Next]_vars => [Promise!Next]_Box
<1> SUFFICES ASSUME IInv, [Next]_vars PROVE [Promise!Next]_Box
  OBVIOUS
<1>1. TypeOK /\ arg \in [Proc -> Room]
  BY DEF IInv, TypeOK
<1>2. ASSUME cont' = cont PROVE [Promise!Next]_Box
  BY <1>2 DEF Box
<1>3. ASSUME NEW p \in Handler, NEW r \in Room, Request(p, r) PROVE [Promise!Next]_Box
  BY <1>2, <1>3 DEF Request
<1>4. CASE ReapTick \/ Crash \/ ComeUp \/ UNCHANGED vars
  BY <1>2, <1>4 DEF ReapTick, Crash, ComeUp, KeepContainers, vars
<1>5. ASSUME NEW p \in Proc, Lock(p) PROVE [Promise!Next]_Box
  BY <1>2, <1>5 DEF Lock
<1>6. ASSUME NEW p \in Proc, Work(p) PROVE [Promise!Next]_Box
  <2>1. CASE List(p) \/ ListFails(p) \/ Answer(p) \/ WaitGone(p) \/ WaitTimesOut(p)
    BY <1>2, <2>1 DEF List, ListFails, Answer, WaitGone, WaitTimesOut, KeepContainers
  <2>2. CASE Create(p) \/ CreateFails(p)
    BY <1>2, <1>6, <2>2, CreateIsPromised DEF Create, CreateFails, KeepContainers
  <2>3. CASE Start(p) \/ StartFails(p) \/ Cleanup(p)
    BY <1>1, <1>2, <2>3, MoveIsPromised
       DEF Start, StartFails, Cleanup, KeepContainers, ContState
  <2>4. ASSUME NEW r \in Room, NEW s \in AfterDelete(r), Becomes(r, s)
        PROVE  [Promise!Next]_Box
    <3>1. s \in {"absent", "terminating"} /\ (cont[r] # "absent" \/ s = "absent")
      BY DEF AfterDelete
    <3>2. QED BY <1>1, <2>4, <3>1, MoveIsPromised DEF ContState
  <2>5. CASE DeletePod(p)
    BY <1>1, <2>4, <2>5 DEF DeletePod
  <2>6. CASE \E r \in Room : RemoveOne(p, r) \/ RemoveFails(p, r)
    BY <1>2, <2>4, <2>6 DEF RemoveOne, RemoveFails, KeepContainers
  <2>7. QED BY <1>6, <2>1, <2>2, <2>3, <2>5, <2>6 DEF Work
<1>7. CASE Environment
  <2>1. ASSUME NEW r \in Room, ContainerMoves(r) PROVE [Promise!Next]_Box
    <3>1. PICK s \in Moves(cont[r]) : Becomes(r, s)
      BY <2>1 DEF ContainerMoves
    <3>2. /\ s \in ContState \ {"created"} /\ cont[r] # "absent"
          /\ (cont[r] = "created" => s # "restarting")
      BY <3>1 DEF Moves, ContState
    <3>3. QED BY <1>1, <3>1, <3>2, MoveIsPromised
  <2>2. ASSUME NEW r \in Room, ContainerVanishes(r) PROVE [Promise!Next]_Box
    BY <1>1, <2>2, MoveIsPromised DEF ContainerVanishes, ContState
  <2>3. ASSUME NEW r \in Room, ContainerAges(r) PROVE [Promise!Next]_Box
    BY <1>2, <2>3 DEF ContainerAges
  <2>4. QED BY <1>7, <2>1, <2>2, <2>3 DEF Environment
<1>8. QED BY <1>3, <1>4, <1>5, <1>6, <1>7 DEF Next

\* Every behaviour of the guard is, over its containers, one the gateway's
\* model reckons with.
THEOREM GuardKeepsPromise == Spec => KeepsPromise
<1>1. Init => Promise!Init
  BY DEF Init, Promise!Init, Box, BoxOf
<1>2. QED
  BY <1>1, StepIsPromised, Invariance, PTL DEF Spec, KeepsPromise, Promise!Spec
=============================================================================
