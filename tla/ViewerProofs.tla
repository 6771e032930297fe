---------------------------- MODULE ViewerProofs ----------------------------
(***************************************************************************)
(* What viewers send, in two components that share no state.  ViewerInput  *)
(* for any users, sockets and limits: what a user's sockets pass together, *)
(* and the order of typed text.  InkBoard for any users, strokes, points   *)
(* and buffer: the room's cap on ink, and the board that every viewer ends *)
(* up with.                                                                *)
(***************************************************************************)
EXTENDS ViewerInput, InkBoard, FiniteSetTheorems, SequenceTheorems, TLAPS

-----------------------------------------------------------------------------
(* ViewerInput *)

\* What an account has spent and what is left in the bucket are together no
\* more than what was due.
Covered == account.spent + bucket[account.user] <= account.due

Inv == TypeOK /\ Covered /\ TextIsInTurn

-----------------------------------------------------------------------------
LEMMA LeastIs == ASSUME NEW a \in Nat, NEW b \in Nat
                 PROVE  Least(a, b) \in Nat /\ Least(a, b) <= a /\ Least(a, b) <= b
BY DEF Least

LEMMA GoTyped == ASSUME TypeOK, NEW s \in Socket, NEW from, NEW to \in Place, Go(s, from, to)
                 PROVE  /\ at' \in [Socket -> Place] /\ at[s] = from /\ at'[s] = to
                        /\ \A t \in Socket \ {s} : at'[t] = at[t]
BY DEF TypeOK, Go

LEMMA InputInit == Init => Inv
<1> SUFFICES ASSUME Init PROVE Inv
  OBVIOUS
<1>1. PICK u \in User : account = Fresh(u)
  BY DEF Init
<1>2. TypeOK
  BY <1>1, InputAssumption DEF Init, TypeOK, Fresh, Place, Typing
<1>3. Covered
  BY <1>1, InputAssumption DEF Init, Covered, Fresh
<1>4. TextIsInTurn
  BY DEF Init, TextIsInTurn, Typing
<1> QED
  BY <1>2, <1>3, <1>4 DEF Inv

\* A user's bucket and the account, and no handler: a tick, a mark.
LEMMA TickStep == Inv /\ Tick => Inv'
<1> SUFFICES ASSUME Inv, Tick PROVE Inv'
  OBVIOUS
<1> USE InputAssumption DEF Inv, TypeOK
<1>1. bucket' \in [User -> 0 .. Burst]
  BY LeastIs DEF Tick
<1>2. waited' \in [Socket -> 0 .. Hold] /\ lastType' \in 0 .. Hold
  BY LeastIs DEF Tick
<1>3. account'.user = account.user /\ account'.spent = account.spent /\ account'.due = account.due + Rate
  BY DEF Tick
<1>4. account' \in [user : User, spent : Nat, due : Nat]
  BY DEF Tick
<1>5. bucket'[account.user] <= bucket[account.user] + Rate
  BY LeastIs DEF Tick
<1>6. Covered'
  <2>1. bucket[account.user] \in Nat /\ bucket'[account.user] \in Nat
    BY <1>1
  <2> QED
    BY <1>3, <1>5, <2>1 DEF Covered
<1>7. TextIsInTurn'
  <2> SUFFICES ASSUME NEW s \in Socket, at'[s] \in Typing, waited'[s] < Hold
               PROVE  holder' = UserOf[s] /\ lastType' <= waited'[s]
    BY DEF TextIsInTurn
  <2>1. at[s] \in Typing /\ waited'[s] = Least(Hold, waited[s] + 1)
    BY DEF Tick
  <2>2. waited[s] \in Nat /\ waited'[s] = waited[s] + 1 /\ waited[s] < Hold
    BY <2>1 DEF Least
  <2>3. holder = UserOf[s] /\ lastType <= waited[s]
    BY <2>1, <2>2 DEF TextIsInTurn
  <2>4. lastType' <= lastType + 1
    BY LeastIs DEF Tick
  <2> QED
    BY <1>2, <2>2, <2>3, <2>4 DEF Tick
<1> QED
  BY <1>1, <1>2, <1>4, <1>6, <1>7 DEF Tick

LEMMA MarkStep == ASSUME Inv, NEW u \in User, Mark(u) PROVE Inv'
<1>1. account'.spent = 0 /\ account'.due = Burst /\ account'.user = u
  BY DEF Mark, Fresh
<1>2. TypeOK'
  BY InputAssumption DEF Inv, TypeOK, Mark, Fresh, handlerVars, tokenVars
<1>3. bucket'[u] \in 0 .. Burst
  BY <1>2 DEF TypeOK
<1>4. Covered'
  BY <1>1, <1>3, InputAssumption DEF Covered
<1>5. TextIsInTurn'
  BY DEF Inv, TextIsInTurn, Mark, handlerVars, tokenVars
<1> QED
  BY <1>2, <1>4, <1>5 DEF Inv

\* The limiter takes from the bucket what it books, and a bucket that is
\* forgotten is worth a burst.
LEMMA CoveredStep == ASSUME Inv, NEW s \in Socket, Close(s) \/ Allow(s)
                     PROVE  /\ Covered' /\ bucket' \in [User -> 0 .. Burst]
                            /\ account' \in [user : User, spent : Nat, due : Nat]
<1> DEFINE u == UserOf[s]
<1>0. /\ u \in User /\ account.user \in User /\ account.spent \in Nat /\ account.due \in Nat
      /\ bucket \in [User -> 0 .. Burst] /\ bucket[account.user] \in Nat /\ bucket[u] \in Nat
      /\ account \in [user : User, spent : Nat, due : Nat]
  BY InputAssumption DEF Inv, TypeOK
<1>1. PICK left \in 0 .. Burst : bucket' = [bucket EXCEPT ![u] = left]
  BY <1>0, InputAssumption DEF Close, Allow, Pass
<1>2. bucket' \in [User -> 0 .. Burst] /\ bucket'[u] = left
  BY <1>0, <1>1
<1>3. \A v \in User \ {u} : bucket'[v] = bucket[v]
  BY <1>0, <1>1
<1>4. CASE account.user # u
  <2>1. account' = account
    BY <1>4 DEF Close, Allow, Pass, Booked
  <2>2. bucket'[account.user] = bucket[account.user]
    BY <1>0, <1>3, <1>4
  <2> QED
    BY <1>0, <1>2, <2>1, <2>2 DEF Covered, Inv
<1>5. CASE account.user = u
  <2>1. CASE Close(s)
    <3>1. account' = [account EXCEPT !.due = account.due + Burst] /\ bucket' = [bucket EXCEPT ![u] = Burst]
      BY <1>5, <2>1 DEF Close, Booked
    <3>2. account'.user = u /\ account'.spent = account.spent /\ account'.due = account.due + Burst
      BY <1>0, <1>5, <3>1
    <3>3. bucket'[u] = Burst
      BY <1>0, <3>1
    <3>4. account' \in [user : User, spent : Nat, due : Nat]
      BY <1>0, <3>1, InputAssumption
    <3>5. account.spent <= account.due
      BY <1>0 DEF Inv, Covered
    <3> QED
      BY <1>0, <1>2, <3>2, <3>3, <3>4, <3>5, InputAssumption DEF Covered
  <2>2. CASE Allow(s)
    <3>1. /\ account' = [account EXCEPT !.spent = account.spent + Cost]
          /\ bucket' = [bucket EXCEPT ![u] = bucket[u] - Cost] /\ bucket[u] >= Cost
      BY <1>5, <2>2 DEF Allow, Pass, Booked
    <3>2. account'.user = u /\ account'.spent = account.spent + Cost /\ account'.due = account.due
      BY <1>0, <1>5, <3>1
    <3>3. bucket'[u] = bucket[u] - Cost
      BY <1>0, <3>1
    <3>4. account' \in [user : User, spent : Nat, due : Nat]
      BY <1>0, <3>1, InputAssumption
    <3>5. account.spent + bucket[u] <= account.due
      BY <1>5 DEF Inv, Covered
    <3> QED
      BY <1>0, <1>2, <3>2, <3>3, <3>4, <3>5, InputAssumption DEF Covered
  <2> QED
    BY <2>1, <2>2
<1> QED
  BY <1>4, <1>5

LEMMA HandlerStep == ASSUME Inv, NEW s \in Socket, Handler(s) PROVE Inv'
<1> USE InputAssumption DEF Inv, handlerVars, tokenVars
<1>0. TypeOK
  OBVIOUS
<1>1. CASE Open(s) \/ Close(s) \/ Allow(s)
  <2>1. PICK to \in {"read", "closed", "parse"} : Go(s, at[s], to)
    BY <1>1 DEF Open, Close, Allow, Pass, Go
  <2>2. /\ at' \in [Socket -> Place] /\ at'[s] = to
        /\ \A t \in Socket \ {s} : at'[t] = at[t]
    BY <1>0, <2>1, GoTyped DEF Place
  <2>3. UNCHANGED <<waited, holder, lastType>>
    BY <1>1 DEF Open, Close, Allow, Pass
  <2>4. TextIsInTurn'
    BY <2>2, <2>3 DEF TextIsInTurn, Typing
  <2>5. /\ Covered' /\ bucket' \in [User -> 0 .. Burst]
        /\ account' \in [user : User, spent : Nat, due : Nat]
    <3>1. CASE Open(s)
      BY <3>1 DEF Open, Covered, TypeOK
    <3> QED
      BY <1>1, <3>1, CoveredStep
  <2> QED
    BY <2>2, <2>3, <2>4, <2>5 DEF TypeOK
<1>2. CASE Sort(s)
  <2>1. PICK to \in {"read", "control", "acquire"} : Go(s, "parse", to)
    BY <1>2 DEF Sort
  <2>2. /\ at' \in [Socket -> Place] /\ at'[s] = to
        /\ \A t \in Socket \ {s} : at'[t] = at[t]
    BY <1>0, <2>1, GoTyped DEF Place
  <2> QED
    BY <1>2, <2>2 DEF Sort, TypeOK, TextIsInTurn, Typing, Covered
<1>3. CASE Acquire(s)
  <2>1. CASE MayType(UserOf[s])
    <3>1. /\ at' = [at EXCEPT ![s] = "announce"] /\ holder' = UserOf[s] /\ lastType' = 0
          /\ waited' = [waited EXCEPT ![s] = 0] /\ UNCHANGED <<bucket, account>>
      BY <1>3, <2>1 DEF Acquire
    <3>2. TypeOK'
      BY <3>1 DEF TypeOK, Place, Typing
    <3>3. TextIsInTurn'
      <4> SUFFICES ASSUME NEW t \in Socket, at'[t] \in Typing, waited'[t] < Hold
                   PROVE  holder' = UserOf[t] /\ lastType' <= waited'[t]
        BY DEF TextIsInTurn
      <4>1. waited'[t] \in Nat
        BY <3>2 DEF TypeOK
      <4>2. CASE t # s
        <5>1. at[t] \in Typing /\ waited[t] < Hold
          BY <3>1, <4>2 DEF TypeOK
        <5>2. holder = UserOf[t] /\ lastType < Hold
          <6>1. holder = UserOf[t] /\ lastType <= waited[t]
            BY <5>1 DEF TextIsInTurn
          <6>2. lastType \in Nat /\ waited[t] \in Nat /\ Hold \in Nat
            BY DEF TypeOK
          <6> QED
            BY <5>1, <6>1, <6>2
        <5>3. holder = UserOf[s] \/ holder = Nobody
          BY <2>1, <5>2 DEF MayType, TypeOK
        <5> QED
          BY <3>1, <4>1, <5>2, <5>3
      <4> QED
        BY <3>1, <4>1, <4>2
    <3> QED
      BY <3>1, <3>2, <3>3 DEF Covered
  <2>2. CASE ~MayType(UserOf[s])
    <3>1. at' = [at EXCEPT ![s] = "read"] /\ UNCHANGED <<holder, lastType, waited, bucket, account>>
      BY <1>3, <2>2 DEF Acquire
    <3> QED
      BY <3>1 DEF TypeOK, Place, Typing, TextIsInTurn, Covered
  <2> QED
    BY <2>1, <2>2
<1>4. CASE Announce(s)
  <2>1. /\ at' \in [Socket -> Place] /\ at[s] = "announce"
        /\ \A t \in Socket \ {s} : at'[t] = at[t]
    BY <1>0, <1>4, GoTyped DEF Announce, Place, Typing
  <2> QED
    BY <1>4, <2>1 DEF Announce, TypeOK, TextIsInTurn, Typing, Covered
<1>5. CASE Deliver(s)
  <2>1. PICK from \in {"deliver", "control"} : Go(s, from, "read")
    BY <1>5 DEF Deliver
  <2>2. /\ at' \in [Socket -> Place] /\ at'[s] = "read"
        /\ \A t \in Socket \ {s} : at'[t] = at[t]
    BY <1>0, <2>1, GoTyped DEF Place
  <2>3. /\ waited' \in [Socket -> 0 .. Hold] /\ \A t \in Socket \ {s} : waited'[t] = waited[t]
        /\ UNCHANGED <<bucket, holder, lastType, account>>
    BY <1>5 DEF Deliver, TypeOK
  <2> QED
    BY <2>2, <2>3 DEF TypeOK, TextIsInTurn, Typing, Covered
<1> QED
  BY <1>1, <1>2, <1>3, <1>4, <1>5 DEF Handler

LEMMA InputStep == Inv /\ [Next]_vars => Inv'
<1>1. ASSUME Inv, UNCHANGED vars PROVE Inv'
  BY <1>1 DEF vars, handlerVars, tokenVars, Inv, TypeOK, Covered, TextIsInTurn
<1> QED
  BY <1>1, TickStep, MarkStep, HandlerStep DEF Next

\* Every bucket, account and place keeps its type (authz.go, gateway.go).
THEOREM InputTypes == Spec => []TypeOK
<1>1. Inv => TypeOK
  BY DEF Inv
<1> QED
  BY <1>1, InputInit, InputStep, PTL DEF Spec

\* Whatever users, sockets, rate and burst: from any moment on no user passes
\* more than was due to that user (authz.go:155-198, gateway.go:552,620).
THEOREM Bounded == Spec => []RateIsBounded
<1>1. Inv => RateIsBounded
  <2> SUFFICES ASSUME Inv PROVE RateIsBounded
    OBVIOUS
  <2>1. account.spent \in Nat /\ account.due \in Nat /\ bucket[account.user] \in Nat
    BY InputAssumption DEF Inv, TypeOK
  <2> QED
    BY <2>1 DEF Inv, Covered, RateIsBounded
<1> QED
  BY <1>1, InputInit, InputStep, PTL DEF Spec

\* Whatever users, sockets and hold: a text delivered before the hold has
\* passed is still its user's turn (gateway.go:671-690, room.go:454-470).
THEOREM InTurn == Spec => []TextIsInTurn
<1>1. Inv => TextIsInTurn
  BY DEF Inv
<1> QED
  BY <1>1, InputInit, InputStep, PTL DEF Spec

-----------------------------------------------------------------------------
(* InkBoard *)

LEMMA InkLimits ==
    /\ IsFiniteSet(Author) /\ Fade \notin Author /\ Watched \subseteq Author
    /\ MaxId \in Nat \ {0} /\ MaxInkPoints \in Nat \ {0} /\ MaxStrokes \in Nat \ {0}
    /\ MaxStrokesPerUser \in Nat \ {0} /\ MaxStrokePoints \in Nat \ {0} /\ CtlBuffer \in Nat \ {0}
BY InkAssumption

-----------------------------------------------------------------------------
(* Counting points and strokes *)

LEMMA IdsAreFinite ==
    /\ Id \subseteq Nat \ {0} /\ IsFiniteSet(Id)
    /\ IsFiniteSet(Id \X (1 .. MaxStrokePoints))
<1>1. Id \subseteq Nat \ {0}
  BY InkLimits DEF Id
<1>2. IsFiniteSet(Id) /\ IsFiniteSet(1 .. MaxStrokePoints)
  BY InkLimits, FS_Interval DEF Id
<1> QED
  BY <1>1, <1>2, FS_Product

LEMMA PointsTyped ==
    ASSUME NEW b PROVE IsFiniteSet(PointsOn(b)) /\ PointsOf(b) \in Nat
<1>1. PointsOn(b) \in SUBSET (Id \X (1 .. MaxStrokePoints))
  BY DEF PointsOn
<1> QED
  BY <1>1, IdsAreFinite, FS_Subset, FS_CardinalityType DEF PointsOf

LEMMA BlankHasNoPoints == Blank \in Board /\ PointsOf(Blank) = 0
<1>1. Blank \in Board
  BY InkLimits DEF Blank, Board
<1>2. PointsOn(Blank) = {}
  <2> SUFFICES ASSUME NEW p \in Id \X (1 .. MaxStrokePoints), p[2] <= Blank[p[1]] PROVE FALSE
    BY DEF PointsOn
  <2>1. p[1] \in Id /\ p[2] \in 1 .. MaxStrokePoints
    OBVIOUS
  <2> QED
    BY <2>1, InkLimits DEF Blank
<1> QED
  BY <1>1, <1>2, FS_EmptySet DEF PointsOf

\* A point more on one stroke is a point more on the board ...
LEMMA OnePointMore ==
    ASSUME NEW b \in Board, NEW i \in Id, b[i] < MaxStrokePoints
    PROVE  LET c == [b EXCEPT ![i] = b[i] + 1]
           IN  c \in Board /\ PointsOf(c) = PointsOf(b) + 1
<1> DEFINE c == [b EXCEPT ![i] = b[i] + 1]
           p == <<i, b[i] + 1>>
<1>1. b[i] \in Nat /\ b[i] + 1 \in 1 .. MaxStrokePoints
  BY InkLimits DEF Board
<1>2. c \in Board /\ c[i] = b[i] + 1 /\ \A j \in Id : j # i => c[j] = b[j]
  BY <1>1 DEF Board
<1>3. p \in Id \X (1 .. MaxStrokePoints) /\ p[1] = i /\ p[2] = b[i] + 1
  BY <1>1
<1>4. p \notin PointsOn(b)
  BY <1>1, <1>3 DEF PointsOn
<1>5. PointsOn(c) = PointsOn(b) \cup {p}
  <2>1. ASSUME NEW q \in Id \X (1 .. MaxStrokePoints)
        PROVE  q[2] <= c[q[1]] <=> (q[2] <= b[q[1]] \/ q = p)
    <3>1. PICK j \in Id, k \in 1 .. MaxStrokePoints : q = <<j, k>>
      OBVIOUS
    <3>2. q[1] = j /\ q[2] = k /\ k \in Nat
      BY <3>1, InkLimits
    <3>3. CASE j = i
      <4>1. k <= b[i] + 1 <=> k <= b[i] \/ k = b[i] + 1
        BY <1>1, <3>2
      <4>2. q = p <=> k = b[i] + 1
        BY <3>1, <3>3
      <4> QED
        BY <1>2, <3>2, <3>3, <4>1, <4>2
    <3>4. CASE j # i
      <4>1. q # p
        BY <3>1, <3>4
      <4> QED
        BY <1>2, <3>2, <3>4, <4>1
    <3> QED
      BY <3>3, <3>4
  <2> QED
    BY <1>3, <2>1 DEF PointsOn
<1>6. PointsOf(c) = PointsOf(b) + 1
  BY <1>4, <1>5, PointsTyped, FS_AddElement DEF PointsOf
<1> QED
  BY <1>2, <1>6

\* ... and a board with no more on any stroke has no more in all.
LEMMA FewerPoints ==
    ASSUME NEW b \in Board, NEW c \in Board, \A i \in Id : c[i] <= b[i]
    PROVE  PointsOf(c) <= PointsOf(b)
<1>1. PointsOn(c) \in SUBSET PointsOn(b)
  <2> SUFFICES ASSUME NEW p \in PointsOn(c) PROVE p \in PointsOn(b)
    OBVIOUS
  <2>1. p \in Id \X (1 .. MaxStrokePoints) /\ p[2] <= c[p[1]]
    BY DEF PointsOn
  <2>2. /\ p[1] \in Id /\ p[2] \in Nat /\ c[p[1]] \in Nat /\ b[p[1]] \in Nat
        /\ c[p[1]] <= b[p[1]]
    BY <2>1, InkLimits DEF Board
  <2>3. p[2] <= b[p[1]]
    BY <2>1, <2>2
  <2> QED
    BY <2>1, <2>3 DEF PointsOn
<1> QED
  BY <1>1, PointsTyped, FS_Subset DEF PointsOf

-----------------------------------------------------------------------------
(* The board *)

BoardTyped ==
    /\ board \in Board /\ author \in [Id -> Author] /\ inkPoints \in 0 .. MaxInkPoints
    /\ pens \in [Author -> {NoPen} \cup Id] /\ nextId \in 1 .. MaxId + 1
    /\ stale \subseteq {i \in Id : board[i] > 0}

PensDraw == \A u \in Author : pens[u] # NoPen => board[pens[u]] > 0 /\ author[pens[u]] = u
CapsHold ==
    /\ Cardinality(OnBoard) <= MaxStrokes
    /\ \A u \in Author : Cardinality(Mine(u)) <= MaxStrokesPerUser

\* A stroke that has not begun is not on the board.
Unbegun == \A i \in Id : i >= nextId => board[i] = 0

BoardInv == BoardTyped /\ inkPoints = PointsOf(board) /\ PensDraw /\ CapsHold /\ Unbegun

\* The strokes on a board, and those of one user.
LEMMA StrokesAreFinite ==
    /\ IsFiniteSet(OnBoard) /\ Cardinality(OnBoard) \in Nat
    /\ \A u : IsFiniteSet(Mine(u)) /\ Cardinality(Mine(u)) \in Nat
<1>1. OnBoard \in SUBSET Id /\ \A u : Mine(u) \in SUBSET Id
  BY DEF OnBoard, Mine
<1> QED
  BY <1>1, IdsAreFinite, FS_Subset, FS_CardinalityType

\* The caps hold still for a board with no other strokes.
LEMMA FewerStrokes ==
    ASSUME CapsHold, OnBoard' \subseteq OnBoard,
           \A i \in OnBoard' : author'[i] = author[i]
    PROVE  CapsHold'
<1>1. ASSUME NEW S \in SUBSET Id, NEW T \in SUBSET S, NEW n \in Nat, Cardinality(S) <= n
      PROVE  Cardinality(T) <= n
  <2>1. /\ IsFiniteSet(S) /\ IsFiniteSet(T) /\ Cardinality(T) <= Cardinality(S)
        /\ Cardinality(S) \in Nat /\ Cardinality(T) \in Nat
    <3>1. IsFiniteSet(S)
      BY IdsAreFinite, FS_Subset
    <3>2. IsFiniteSet(T) /\ Cardinality(T) <= Cardinality(S)
      BY <3>1, FS_Subset
    <3> QED
      BY <3>1, <3>2, FS_CardinalityType
  <2> QED
    BY <1>1, <2>1
<1>2. OnBoard \in SUBSET Id /\ OnBoard' \in SUBSET OnBoard
  BY DEF OnBoard
<1>3. Cardinality(OnBoard') <= MaxStrokes
  BY <1>1, <1>2, InkLimits DEF CapsHold
<1>4. ASSUME NEW u \in Author PROVE Cardinality(Mine(u)') <= MaxStrokesPerUser
  <2>1. Mine(u) \in SUBSET Id /\ Mine(u)' \in SUBSET Mine(u)
    BY <1>2 DEF Mine
  <2> QED
    BY <1>1, <2>1, InkLimits DEF CapsHold
<1> QED
  BY <1>3, <1>4 DEF CapsHold

LEMMA BoardInit == InkInit => BoardInv
<1> SUFFICES ASSUME InkInit PROVE BoardInv
  OBVIOUS
<1>1. /\ board = Blank /\ author \in {[i \in Id |-> u] : u \in Author} /\ inkPoints = 0
      /\ pens = [u \in Author |-> NoPen] /\ nextId = 1 /\ stale = {}
  BY DEF InkInit
<1>2. BoardTyped
  BY <1>1, InkLimits, BlankHasNoPoints DEF BoardTyped
<1>3. inkPoints = PointsOf(board)
  BY <1>1, BlankHasNoPoints
<1>4. PensDraw /\ Unbegun
  BY <1>1 DEF PensDraw, Unbegun, Blank
<1>5. OnBoard = {} /\ \A u : Mine(u) = {}
  BY <1>1 DEF OnBoard, Mine, Blank
<1>6. CapsHold
  BY <1>5, FS_EmptySet, InkLimits DEF CapsHold
<1> QED
  BY <1>2, <1>3, <1>4, <1>6 DEF BoardInv

\* u draws on, or begins a stroke.
LEMMA AppendKeepsBoard == ASSUME BoardInv, NEW u \in Author, AppendInk(u) PROVE BoardInv'
<1>1. inkPoints < MaxInkPoints /\ inkPoints' = inkPoints + 1
  BY DEF AppendInk
<1>2. inkPoints' \in 0 .. MaxInkPoints
  BY <1>1, InkLimits DEF BoardInv, BoardTyped
<1>3. CASE /\ pens[u] # NoPen /\ board[pens[u]] < MaxStrokePoints
           /\ board' = [board EXCEPT ![pens[u]] = @ + 1]
           /\ stale' = stale \ {pens[u]}
           /\ UNCHANGED <<author, pens, nextId>>
  <2>1. /\ pens[u] \in Id /\ board \in Board /\ board[pens[u]] > 0 /\ board[pens[u]] \in Nat
        /\ author[pens[u]] = u
    BY <1>3, InkLimits DEF BoardInv, BoardTyped, PensDraw, Board
  <2>2. /\ board' \in Board /\ PointsOf(board') = PointsOf(board) + 1
        /\ board'[pens[u]] > 0 /\ \A i \in Id : i # pens[u] => board'[i] = board[i]
    <3>1. board' = [board EXCEPT ![pens[u]] = board[pens[u]] + 1]
      BY <1>3
    <3>2. board' \in Board /\ PointsOf(board') = PointsOf(board) + 1
      BY <1>3, <2>1, <3>1, OnePointMore
    <3> QED
      BY <2>1, <3>1, <3>2 DEF Board
  <2>3. BoardTyped'
    BY <1>2, <1>3, <2>2 DEF BoardInv, BoardTyped
  <2>4. inkPoints' = PointsOf(board)'
    BY <1>1, <2>2 DEF BoardInv, PointsOf, PointsOn
  <2>5. PensDraw'
    BY <1>3, <2>2 DEF BoardInv, BoardTyped, PensDraw
  <2>6. Unbegun'
    BY <1>3, <2>1, <2>2 DEF BoardInv, Unbegun
  <2>7. CapsHold'
    <3>1. OnBoard' \subseteq OnBoard
      BY <2>1, <2>2 DEF OnBoard
    <3> QED
      BY <1>3, <3>1, FewerStrokes DEF BoardInv
  <2> QED
    BY <2>3, <2>4, <2>5, <2>6, <2>7 DEF BoardInv
<1>4. CASE /\ nextId <= MaxId
           /\ Cardinality(OnBoard) < MaxStrokes
           /\ Cardinality(Mine(u)) < MaxStrokesPerUser
           /\ board' = [board EXCEPT ![nextId] = 1]
           /\ author' = [author EXCEPT ![nextId] = u]
           /\ pens' = [pens EXCEPT ![u] = nextId]
           /\ nextId' = nextId + 1
           /\ UNCHANGED stale
  <2>1. nextId \in Id /\ nextId \in Nat /\ board \in Board /\ board[nextId] = 0
    BY <1>4, InkLimits DEF BoardInv, BoardTyped, Unbegun, Id
  <2>2. /\ board' \in Board /\ PointsOf(board') = PointsOf(board) + 1
        /\ board'[nextId] = 1 /\ \A i \in Id : i # nextId => board'[i] = board[i]
    <3>1. board' = [board EXCEPT ![nextId] = board[nextId] + 1]
      BY <1>4, <2>1
    <3>2. board' \in Board /\ PointsOf(board') = PointsOf(board) + 1
      <4>1. board[nextId] < MaxStrokePoints
        BY <2>1, InkLimits
      <4> QED
        BY <2>1, <3>1, <4>1, OnePointMore
    <3> QED
      BY <2>1, <3>1, <3>2 DEF Board
  <2>3. /\ author' \in [Id -> Author] /\ author'[nextId] = u
        /\ \A i \in Id : i # nextId => author'[i] = author[i]
    BY <1>4, <2>1 DEF BoardInv, BoardTyped
  <2>4. /\ pens' \in [Author -> {NoPen} \cup Id] /\ pens'[u] = nextId
        /\ \A v \in Author : v # u => pens'[v] = pens[v]
    BY <1>4, <2>1 DEF BoardInv, BoardTyped
  <2>5. BoardTyped'
    <3>1. nextId' \in 1 .. MaxId + 1
      BY <1>4, InkLimits DEF BoardInv, BoardTyped
    <3>2. stale' \subseteq {i \in Id : board'[i] > 0}
      BY <1>4, <2>1, <2>2 DEF BoardInv, BoardTyped
    <3> QED
      BY <1>2, <2>2, <2>3, <2>4, <3>1, <3>2 DEF BoardTyped
  <2>6. inkPoints' = PointsOf(board)'
    BY <1>1, <2>2 DEF BoardInv, PointsOf, PointsOn
  <2>7. PensDraw'
    <3> SUFFICES ASSUME NEW v \in Author, pens'[v] # NoPen
                 PROVE  board'[pens'[v]] > 0 /\ author'[pens'[v]] = v
      BY DEF PensDraw
    <3>1. CASE v = u
      BY <2>2, <2>3, <2>4, <3>1
    <3>2. CASE v # u
      <4>1. pens'[v] = pens[v] /\ pens[v] \in Id /\ board[pens[v]] > 0 /\ author[pens[v]] = v
        BY <2>4, <3>2 DEF BoardInv, BoardTyped, PensDraw
      <4>2. pens[v] # nextId
        BY <2>1, <4>1
      <4> QED
        BY <2>2, <2>3, <4>1, <4>2
    <3> QED
      BY <3>1, <3>2
  <2>8. Unbegun'
    BY <1>4, <2>1, <2>2, IdsAreFinite DEF BoardInv, Unbegun
  <2>9. CapsHold'
    <3>1. OnBoard' = OnBoard \cup {nextId} /\ nextId \notin OnBoard
      <4>1. \A i \in Id : board'[i] > 0 <=> (board[i] > 0 \/ i = nextId)
        BY <2>1, <2>2
      <4>2. nextId \notin OnBoard
        BY <2>1 DEF OnBoard
      <4>3. \A i : i \in OnBoard' <=> i \in OnBoard \/ i = nextId
        BY <2>1, <4>1 DEF OnBoard
      <4> QED
        BY <4>2, <4>3
    <3>2. Cardinality(OnBoard') <= MaxStrokes
      <4>1. Cardinality(OnBoard') = Cardinality(OnBoard) + 1
        BY <3>1, StrokesAreFinite, FS_AddElement
      <4> QED
        BY <1>4, <4>1, StrokesAreFinite, InkLimits
    <3>3. Mine(u)' = Mine(u) \cup {nextId} /\ nextId \notin Mine(u)
      BY <2>3, <3>1 DEF Mine, OnBoard
    <3>4. Cardinality(Mine(u)') <= MaxStrokesPerUser
      <4>1. IsFiniteSet(Mine(u)) /\ Cardinality(Mine(u)) \in Nat
        BY StrokesAreFinite
      <4>2. Cardinality(Mine(u)') = Cardinality(Mine(u)) + 1
        BY <3>3, <4>1, FS_AddElement
      <4> QED
        BY <1>4, <4>1, <4>2, InkLimits
    <3>5. ASSUME NEW v \in Author, v # u PROVE Mine(v)' = Mine(v)
      BY <2>3, <3>1, <3>5 DEF Mine, OnBoard
    <3> QED
      BY <3>2, <3>4, <3>5 DEF BoardInv, CapsHold
  <2> QED
    BY <2>5, <2>6, <2>7, <2>8, <2>9 DEF BoardInv
<1> QED
  BY <1>3, <1>4 DEF AppendInk

\* Strokes leave, with the pens that were drawing them.
LEMMA ForgetKeepsBoard ==
    ASSUME BoardInv, NEW gone \in SUBSET Id, NEW penless \in SUBSET Author, Forget(gone, penless),
           \A u \in Author : pens[u] \in gone => u \in penless
    PROVE  BoardInv'
<1>1. /\ board' = Without(gone) /\ inkPoints' = PointsOf(Without(gone)) /\ stale' = stale \ gone
      /\ pens' = [u \in Author |-> IF u \in penless THEN NoPen ELSE pens[u]]
      /\ UNCHANGED <<author, nextId>>
  BY DEF Forget
<1>2. /\ board' \in Board /\ \A i \in Id : board'[i] = IF i \in gone THEN 0 ELSE board[i]
  BY <1>1, InkLimits DEF Without, BoardInv, BoardTyped, Board
<1>3. inkPoints' = PointsOf(board')
  BY <1>1
<1>4. inkPoints' \in 0 .. MaxInkPoints
  <2>1. \A i \in Id : board'[i] <= board[i]
    BY <1>2, InkLimits DEF BoardInv, BoardTyped, Board
  <2>2. PointsOf(board') <= PointsOf(board)
    BY <1>2, <2>1, FewerPoints DEF BoardInv, BoardTyped
  <2>3. PointsOf(board') \in Nat /\ PointsOf(board) \in Nat
    BY PointsTyped
  <2> QED
    BY <1>3, <2>2, <2>3, InkLimits DEF BoardInv, BoardTyped
<1>5. BoardTyped'
  BY <1>1, <1>2, <1>4 DEF BoardInv, BoardTyped
<1>6. inkPoints' = PointsOf(board)'
  BY <1>3 DEF PointsOf, PointsOn
<1>7. PensDraw'
  BY <1>1, <1>2 DEF BoardInv, BoardTyped, PensDraw
<1>8. Unbegun'
  BY <1>1, <1>2 DEF BoardInv, Unbegun
<1>9. CapsHold'
  <2>1. OnBoard' \subseteq OnBoard
    BY <1>2 DEF OnBoard
  <2> QED
    BY <1>1, <2>1, FewerStrokes DEF BoardInv
<1> QED
  BY <1>5, <1>6, <1>7, <1>8, <1>9 DEF BoardInv

LEMMA BoardStep == BoardInv /\ [InkNext]_inkVars => BoardInv'
<1> SUFFICES ASSUME BoardInv, [InkNext]_inkVars PROVE BoardInv'
  OBVIOUS
<1>1. ASSUME NEW u \in Author, ClearInk(u) PROVE BoardInv'
  <2>1. CASE Forget(Mine(u), {u})
    <3>1. Mine(u) \in SUBSET Id /\ \A v \in Author : pens[v] \in Mine(u) => v \in {u}
      BY DEF BoardInv, BoardTyped, PensDraw, Mine, OnBoard, NoPen, Id
    <3> QED
      BY <2>1, <3>1, ForgetKeepsBoard
  <2>2. CASE Forget(OnBoard, Author)
    BY <2>2, ForgetKeepsBoard DEF OnBoard
  <2> QED
    BY <1>1, <2>1, <2>2 DEF ClearInk
<1>2. CASE ExpireInk
  <2>1. Forget(stale, {u \in Author : pens[u] \in stale}) /\ stale \in SUBSET Id
    BY <1>2 DEF ExpireInk, BoardInv, BoardTyped
  <2> QED
    BY <2>1, ForgetKeepsBoard
<1>3. ASSUME NEW i \in Id, Ages(i) PROVE BoardInv'
  <2>1. stale' = stale \cup {i} /\ board[i] > 0 /\ UNCHANGED <<board, author, inkPoints, pens, nextId>>
    BY <1>3 DEF Ages, OnBoard
  <2> QED
    BY <2>1 DEF BoardInv, BoardTyped, PensDraw, CapsHold, Unbegun, Mine, OnBoard, PointsOf, PointsOn
<1>4. ASSUME NEW u \in Author, Leave(u) PROVE BoardInv'
  <2>1. /\ pens' = [pens EXCEPT ![u] = NoPen] \/ pens' = pens
        /\ UNCHANGED <<board, author, inkPoints, nextId, stale>>
    BY <1>4 DEF Leave
  <2>2. PensDraw' /\ BoardTyped'
    BY <2>1 DEF BoardInv, BoardTyped, PensDraw
  <2> QED
    BY <2>1, <2>2 DEF BoardInv, CapsHold, Unbegun, Mine, OnBoard, PointsOf, PointsOn
<1>5. CASE UNCHANGED boardVars
  BY <1>5 DEF boardVars, BoardInv, BoardTyped, PensDraw, CapsHold, Unbegun, Mine, OnBoard, PointsOf, PointsOn
<1> QED
  BY <1>1, <1>2, <1>3, <1>4, <1>5, AppendKeepsBoard
  DEF InkNext, InkSnapshot, BroadcastInk, DeliverInk, TakeCanvasRepair, WriteRepair, PageAlone, Admit, inkVars

\* Whatever is drawn, cleared, expires or is abandoned, the cap on the room's
\* ink counts what is on the board (ink.go:39-144).
THEOREM InkAccounts == InkSpec => []InkIsAccountedFor
<1>1. BoardInv => InkIsAccountedFor
  BY DEF BoardInv, PensDraw, CapsHold, InkIsAccountedFor
<1> QED
  BY <1>1, BoardInit, BoardStep, PTL DEF InkSpec

-----------------------------------------------------------------------------
(* Types *)

Tasks == [at : {"idle", "send", "snapshot"}, msg : Message]
QueuesTyped ==
    /\ DOMAIN ctl = Watched
    /\ \A u \in Watched : ctl[u] \in Seq(Message) /\ Len(ctl[u]) <= CtlBuffer
ViewersTyped ==
    /\ present \subseteq Author /\ needs \cup repairing \cup crossed \subseteq Viewers
    /\ client \in [Watched -> Screen] /\ leftover \in [Watched -> SUBSET Id]
TasksTyped == pc \in [Proc -> Tasks]

LEMMA InkTypeParts == InkTypeOK <=> BoardTyped /\ QueuesTyped /\ ViewersTyped /\ TasksTyped
BY DEF InkTypeOK, BoardTyped, QueuesTyped, ViewersTyped, TasksTyped, Tasks

LEMMA MessagesTyped ==
    /\ \A i \in Id : Draw(i) \in Message
    /\ \A b \in Board : Canvas(b) \in Message
    /\ Idle \in Tasks /\ MustSnapshot \in Tasks
    /\ \A m \in Message : MustSend(m) \in Tasks
<1>1. 1 \in Id /\ Blank \in Board
  BY InkLimits, BlankHasNoPoints DEF Id
<1>2. \A b \in Board : Canvas(b) \in Message
  BY <1>1 DEF Canvas, Message
<1>3. \A i \in Id : Draw(i) \in Message
  BY <1>1 DEF Draw, Message
<1> QED
  BY <1>1, <1>2, <1>3 DEF Idle, MustSnapshot, MustSend, Tasks

LEMMA BoardsAreScreens == Board \subseteq Screen /\ Blank \in Screen
BY BlankHasNoPoints, InkLimits DEF Board, Screen

LEMMA AppliedTyped == ASSUME NEW b \in Screen, NEW m \in Message PROVE Applied(b, m) \in Screen
<1>1. m.canvas \in Screen /\ m.id \in Id
  BY BoardsAreScreens DEF Message
<1>2. CASE m.kind = "canvas"
  BY <1>1, <1>2 DEF Applied
<1>3. CASE m.kind # "canvas"
  BY <1>1, <1>3 DEF Applied, Screen
<1> QED
  BY <1>2, <1>3

LEMMA InkTypesInit == InkInit => QueuesTyped /\ ViewersTyped /\ TasksTyped
<1> SUFFICES ASSUME InkInit PROVE QueuesTyped /\ ViewersTyped /\ TasksTyped
  OBVIOUS
<1>1. QueuesTyped
  <2>1. <<>> \in Seq(Message) /\ Len(<<>>) <= CtlBuffer
    BY EmptySeq, InkLimits
  <2> QED
    BY <2>1 DEF InkInit, QueuesTyped
<1>2. ViewersTyped
  BY BoardsAreScreens DEF InkInit, ViewersTyped, Viewers
<1>3. TasksTyped
  BY MessagesTyped DEF InkInit, TasksTyped
<1> QED
  BY <1>1, <1>2, <1>3

\* What the handlers and the fading goroutine have to do.
LEMMA TasksStep == ASSUME BoardTyped, TasksTyped, [InkNext]_inkVars PROVE TasksTyped'
<1>1. ASSUME NEW p \in Proc, NEW task \in Tasks, Then(p, task) PROVE TasksTyped'
  BY <1>1 DEF Then, TasksTyped
<1>2. ASSUME NEW u \in Author, AppendInk(u) PROVE TasksTyped'
  <2>1. u \in Proc
    BY DEF Proc
  <2>2. CASE pens[u] # NoPen /\ Then(u, MustSend(Draw(pens[u])))
    <3>1. pens[u] \in Id
      BY <2>2 DEF BoardTyped
    <3> QED
      BY <1>1, <2>1, <2>2, <3>1, MessagesTyped
  <2>3. CASE nextId <= MaxId /\ Then(u, MustSend(Draw(nextId)))
    <3>1. nextId \in Id
      BY <2>3, InkLimits DEF BoardTyped, Id
    <3> QED
      BY <1>1, <2>1, <2>3, <3>1, MessagesTyped
  <2> QED
    BY <1>2, <2>2, <2>3 DEF AppendInk
<1>3. ASSUME NEW u \in Author, ClearInk(u) PROVE TasksTyped'
  BY <1>1, <1>3, MessagesTyped DEF ClearInk, Proc
<1>4. CASE ExpireInk
  BY <1>1, <1>4, MessagesTyped DEF ExpireInk, Proc
<1>5. ASSUME NEW p \in Proc, InkSnapshot(p) PROVE TasksTyped'
  BY <1>1, <1>5, MessagesTyped DEF InkSnapshot, BoardTyped
<1>6. ASSUME NEW p \in Proc, BroadcastInk(p) PROVE TasksTyped'
  BY <1>1, <1>6, MessagesTyped DEF BroadcastInk
<1>7. CASE UNCHANGED pc
  BY <1>7 DEF TasksTyped
<1> QED
  BY <1>2, <1>3, <1>4, <1>5, <1>6, <1>7
  DEF InkNext, DeliverInk, TakeCanvasRepair, WriteRepair, PageAlone, Ages, Admit, Leave, inkVars

\* The queues and their bound.
LEMMA QueuesStep ==
    ASSUME BoardTyped, TasksTyped, QueuesTyped, [InkNext]_inkVars PROVE QueuesTyped'
<1>1. ASSUME NEW p \in Proc, BroadcastInk(p) PROVE QueuesTyped'
  <2>1. ctl' = [u \in Watched |-> IF u \in Viewers /\ HasRoom(u)
                                  THEN Append(ctl[u], pc[p].msg) ELSE ctl[u]]
    BY <1>1 DEF BroadcastInk
  <2>2. ASSUME NEW u \in Watched PROVE ctl'[u] \in Seq(Message) /\ Len(ctl'[u]) <= CtlBuffer
    <3>1. /\ ctl[u] \in Seq(Message) /\ Len(ctl[u]) \in Nat /\ Len(ctl[u]) <= CtlBuffer
          /\ pc[p].msg \in Message
      BY LenProperties DEF QueuesTyped, TasksTyped, Tasks
    <3>2. CASE u \in Viewers /\ HasRoom(u)
      <4>1. ctl'[u] = Append(ctl[u], pc[p].msg) /\ Len(ctl[u]) < CtlBuffer
        BY <2>1, <3>2 DEF HasRoom
      <4>2. ctl'[u] \in Seq(Message) /\ Len(ctl'[u]) = Len(ctl[u]) + 1
        BY <3>1, <4>1, AppendProperties
      <4> QED
        BY <3>1, <4>1, <4>2, InkLimits
    <3>3. CASE ~ (u \in Viewers /\ HasRoom(u))
      BY <2>1, <3>1, <3>3
    <3> QED
      BY <3>2, <3>3
  <2> QED
    BY <2>1, <2>2 DEF QueuesTyped
<1>2. ASSUME NEW u \in Watched, DeliverInk(u) PROVE QueuesTyped'
  <2>1. ctl' = [ctl EXCEPT ![u] = Tail(ctl[u])] /\ ctl[u] # <<>>
    BY <1>2 DEF DeliverInk
  <2>2. /\ ctl[u] \in Seq(Message) /\ Len(ctl[u]) \in Nat /\ Len(ctl[u]) <= CtlBuffer
        /\ Tail(ctl[u]) \in Seq(Message) /\ Len(Tail(ctl[u])) = Len(ctl[u]) - 1
    BY <2>1, LenProperties, HeadTailProperties DEF QueuesTyped
  <2>3. Len(Tail(ctl[u])) <= CtlBuffer
    BY <2>2, InkLimits
  <2> QED
    BY <2>1, <2>2, <2>3 DEF QueuesTyped
<1>3. ASSUME NEW u \in Author, Admit(u) \/ Leave(u) PROVE QueuesTyped'
  <2>1. PICK q \in {CanvasOnArrival, <<>>} : ctl' = [ctl EXCEPT ![u] = q]
    BY <1>3 DEF Admit, Leave
  <2>2. q \in Seq(Message) /\ Len(q) <= CtlBuffer
    <3>1. <<>> \in Seq(Message) /\ Len(<<>>) <= CtlBuffer
      BY EmptySeq, InkLimits
    <3>2. Canvas(board) \in Message
      BY MessagesTyped DEF BoardTyped
    <3>3. <<Canvas(board)>> \in Seq(Message) /\ Len(<<Canvas(board)>>) <= CtlBuffer
      BY <3>2, InkLimits
    <3> QED
      BY <3>1, <3>3 DEF CanvasOnArrival
  <2> QED
    BY <2>1, <2>2 DEF QueuesTyped
<1>4. CASE UNCHANGED ctl
  BY <1>4 DEF QueuesTyped
<1> QED
  BY <1>1, <1>2, <1>3, <1>4
  DEF InkNext, AppendInk, ClearInk, ExpireInk, InkSnapshot, TakeCanvasRepair, WriteRepair, PageAlone,
      Ages, viewerVars, inkVars

\* Those in the room and what they see.
LEMMA ViewersStep ==
    ASSUME BoardTyped, QueuesTyped, ViewersTyped, [InkNext]_inkVars PROVE ViewersTyped'
<1>1. ASSUME UNCHANGED viewerVars, crossed' \in {Viewers, crossed}, UNCHANGED leftover PROVE ViewersTyped'
  BY <1>1 DEF viewerVars, ViewersTyped, Viewers
<1>2. ASSUME NEW u \in Author, AppendInk(u) \/ ClearInk(u) PROVE ViewersTyped'
  BY <1>1, <1>2 DEF AppendInk, ClearInk, CrossAll
<1>3. CASE ExpireInk
  BY <1>1, <1>3 DEF ExpireInk, CrossAll
<1>4. ASSUME NEW users, SetRight(users)
      PROVE  crossed' = crossed \ users /\ leftover' \in [Watched -> SUBSET Id]
  BY <1>4 DEF SetRight, ViewersTyped
<1>5. ASSUME NEW p \in Proc, BroadcastInk(p) PROVE ViewersTyped'
  <2>1. PICK users : SetRight(users)
    BY <1>5 DEF BroadcastInk
  <2> QED
    BY <1>4, <1>5, <2>1 DEF BroadcastInk, Missed, ViewersTyped, Viewers
<1>6. ASSUME NEW u \in Watched, DeliverInk(u) PROVE ViewersTyped'
  <2>1. ctl[u] # <<>> /\ ctl[u] \in Seq(Message) /\ client[u] \in Screen
    BY <1>6 DEF DeliverInk, QueuesTyped, ViewersTyped
  <2>2. Applied(client[u], Head(ctl[u])) \in Screen
    BY <2>1, HeadTailProperties, AppliedTyped
  <2> QED
    BY <1>6, <2>2 DEF DeliverInk, ViewersTyped, Viewers, excuses
<1>7. ASSUME NEW u \in Watched, TakeCanvasRepair(u) PROVE ViewersTyped'
  BY <1>7 DEF TakeCanvasRepair, ViewersTyped, Viewers, excuses
<1>8. ASSUME NEW u \in Watched, WriteRepair(u) PROVE ViewersTyped'
  <2>1. crossed' \subseteq crossed \cup {u} /\ leftover' \in [Watched -> SUBSET Id]
    BY <1>4, <1>8 DEF WriteRepair, ViewersTyped
  <2> QED
    BY <1>8, <2>1, BoardsAreScreens DEF WriteRepair, BoardTyped, ViewersTyped, Viewers
<1>9. ASSUME NEW u \in Author, Admit(u) PROVE ViewersTyped'
  BY <1>9 DEF Admit, ViewersTyped, Viewers
<1>10. ASSUME NEW u \in Author, Leave(u) PROVE ViewersTyped'
  <2>1. SetRight({u})
    BY <1>10 DEF Leave
  <2> QED
    BY <1>4, <1>10, <2>1 DEF Leave, ViewersTyped, Viewers
<1>11. ASSUME NEW u \in Watched, PageAlone(u) PROVE ViewersTyped'
  <2>1. PICK kept \in SUBSET Id :
            client' = [client EXCEPT ![u] = [i \in Id |-> IF i \in kept THEN client[u][i] ELSE 0]]
    BY <1>11 DEF PageAlone
  <2>2. [i \in Id |-> IF i \in kept THEN client[u][i] ELSE 0] \in Screen
    BY DEF ViewersTyped, Screen
  <2> QED
    BY <1>11, <2>1, <2>2 DEF PageAlone, ViewersTyped, Viewers, excuses
<1>12. CASE UNCHANGED <<viewerVars, excuses>>
  BY <1>1, <1>12 DEF excuses
<1> QED
  BY <1>2, <1>3, <1>5, <1>6, <1>7, <1>8, <1>9, <1>10, <1>11, <1>12 DEF InkNext, InkSnapshot, Ages, inkVars

\* The types hold along with the count of points, which keeps the cap.
InkTyped == BoardInv /\ QueuesTyped /\ ViewersTyped /\ TasksTyped

LEMMA InkTypedStep == InkTyped /\ [InkNext]_inkVars => InkTyped'
BY BoardStep, QueuesStep, ViewersStep, TasksStep DEF InkTyped, BoardInv

THEOREM InkTypes == InkSpec => []InkTypeOK
<1>1. InkInit => InkTyped
  BY BoardInit, InkTypesInit DEF InkTyped
<1>2. InkTyped => InkTypeOK
  BY InkTypeParts DEF InkTyped, BoardInv
<1> QED
  BY <1>1, <1>2, InkTypedStep, PTL DEF InkSpec

-----------------------------------------------------------------------------
(* What the viewers see in the end *)

SnapshotsAreCanvases == \A p \in Proc : pc[p].at = "snapshot" => pc[p].msg.kind = "canvas"

\* As long as there is a viewer for whom nothing has crossed, a canvas is on
\* its way alone, and shows the board.
Uncrossed == Viewers \ crossed
CanvasIsAlone ==
    Uncrossed # {} =>
        \A p, q \in Busy : p # q => pc[p].msg.kind = "draw" /\ pc[q].msg.kind = "draw"
CanvasIsBoard ==
    Uncrossed # {} =>
        \A p \in Busy : pc[p].at = "send" /\ pc[p].msg.kind = "canvas" => pc[p].msg.canvas = board

\* The draws of stroke i, or a canvas, that are still to be sent.
Drawing(i) == {p \in Busy : pc[p].msg.id = i}
Redrawn == \E p \in Busy : pc[p].msg.kind = "canvas"

\* What u's screen shows as the messages in its queue are read, one by one.
Screens(u) ==
    {h \in [0 .. Len(ctl[u]) -> Screen] :
        h[0] = client[u] /\ \A k \in 1 .. Len(ctl[u]) : h[k] = Applied(h[k - 1], ctl[u][k])}

\* The last of them and the draws still to be sent make up the board, but for
\* what the page had kept, unless a canvas is to come.
MakesUp(u, b) ==
    Redrawn \/ \A i \in Id : b[i] + Cardinality(Drawing(i)) = board[i] \/ i \in leftover[u]
EndsOnBoard(u) == \E h \in Screens(u) : MakesUp(u, h[Len(ctl[u])])

Followed == Uncrossed \ (needs \cup repairing)
ScreensEnd == \A u \in Followed : EndsOnBoard(u)

Agreement == CanvasIsAlone /\ CanvasIsBoard /\ ScreensEnd
SeenInv == InkTyped /\ SnapshotsAreCanvases /\ Agreement

LEMMA DrawingTyped == \A i : IsFiniteSet(Drawing(i)) /\ Cardinality(Drawing(i)) \in Nat
<1>1. IsFiniteSet(Proc)
  BY InkLimits, FS_AddElement DEF Proc
<1>2. \A i : Drawing(i) \in SUBSET Proc
  BY DEF Drawing, Busy
<1> QED
  BY <1>1, <1>2, FS_Subset, FS_CardinalityType

LEMMA SeenInit == InkInit => SnapshotsAreCanvases /\ Agreement
<1> SUFFICES ASSUME InkInit PROVE SnapshotsAreCanvases /\ Agreement
  OBVIOUS
<1>1. Uncrossed = {} /\ Followed = {}
  BY DEF InkInit, Uncrossed, Followed, Viewers
<1>2. SnapshotsAreCanvases
  BY DEF InkInit, SnapshotsAreCanvases, Idle
<1> QED
  BY <1>1, <1>2 DEF Agreement, CanvasIsAlone, CanvasIsBoard, ScreensEnd

\* Only InkSnapshot makes a task of something else than a canvas or a draw.
LEMMA SnapshotsStep ==
    ASSUME InkTyped, SnapshotsAreCanvases, [InkNext]_inkVars PROVE SnapshotsAreCanvases'
<1>1. ASSUME NEW p \in Proc, NEW task, Then(p, task), task.at = "snapshot" => task.msg.kind = "canvas"
      PROVE  SnapshotsAreCanvases'
  BY <1>1 DEF Then, InkTyped, TasksTyped, SnapshotsAreCanvases
<1>2. ASSUME NEW m PROVE MustSend(m).at # "snapshot"
  BY DEF MustSend
<1>3. MustSnapshot.msg.kind = "canvas" /\ Idle.at # "snapshot"
  BY DEF MustSnapshot, Canvas, Idle
<1>4. ASSUME NEW u \in Author, AppendInk(u) PROVE SnapshotsAreCanvases'
  <2>1. PICK i \in {pens[u], nextId} : Then(u, MustSend(Draw(i)))
    BY <1>4 DEF AppendInk
  <2> QED
    BY <1>1, <1>2, <2>1 DEF Proc
<1>5. ASSUME NEW u \in Author, ClearInk(u) PROVE SnapshotsAreCanvases'
  BY <1>1, <1>3, <1>5 DEF ClearInk, Proc
<1>6. CASE ExpireInk
  BY <1>1, <1>3, <1>6 DEF ExpireInk, Proc
<1>7. ASSUME NEW p \in Proc, InkSnapshot(p) \/ BroadcastInk(p) PROVE SnapshotsAreCanvases'
  BY <1>1, <1>2, <1>3, <1>7 DEF InkSnapshot, BroadcastInk
<1>8. CASE UNCHANGED pc
  BY <1>8 DEF SnapshotsAreCanvases
<1> QED
  BY <1>4, <1>5, <1>6, <1>7, <1>8
  DEF InkNext, DeliverInk, TakeCanvasRepair, WriteRepair, PageAlone, Ages, Admit, Leave, inkVars

\* A message more in the queue, and one less: what the screen ends with.
LEMMA OneMoreToRead ==
    ASSUME NEW u, NEW h \in Screens(u), NEW m \in Message, ctl[u] \in Seq(Message),
           ctl'[u] = Append(ctl[u], m), client'[u] = client[u]
    PROVE  \E g \in Screens(u)' : g[Len(ctl'[u])] = Applied(h[Len(ctl[u])], m)
<1> DEFINE n == Len(ctl[u])
           g == [k \in 0 .. n + 1 |-> IF k <= n THEN h[k] ELSE Applied(h[n], m)]
<1>1. /\ n \in Nat /\ Len(ctl'[u]) = n + 1 /\ ctl'[u][n + 1] = m
      /\ \A k \in 1 .. n : ctl'[u][k] = ctl[u][k]
  BY AppendProperties, LenProperties
<1>2. /\ h \in [0 .. n -> Screen] /\ h[0] = client[u]
      /\ \A k \in 1 .. n : h[k] = Applied(h[k - 1], ctl[u][k])
  BY DEF Screens
<1>3. Applied(h[n], m) \in Screen
  BY <1>1, <1>2, AppliedTyped
<1>4. g \in [0 .. n + 1 -> Screen] /\ g[0] = client'[u] /\ g[n + 1] = Applied(h[n], m)
  BY <1>1, <1>2, <1>3
<1>5. ASSUME NEW k \in 1 .. n + 1 PROVE g[k] = Applied(g[k - 1], ctl'[u][k])
  <2>1. CASE k = n + 1
    <3>1. k - 1 = n /\ n \in 0 .. n + 1 /\ ~ (k <= n) /\ k \in 0 .. n + 1
      BY <1>1, <2>1
    <3>2. g[k] = Applied(h[n], m) /\ g[k - 1] = h[n]
      BY <1>1, <3>1
    <3> QED
      BY <1>1, <2>1, <3>2
  <2>2. CASE k # n + 1
    <3>1. k \in 1 .. n /\ k - 1 \in 0 .. n + 1 /\ k - 1 <= n /\ k \in 0 .. n + 1 /\ k <= n
      BY <1>1, <2>2
    <3>2. g[k] = h[k] /\ g[k - 1] = h[k - 1]
      BY <3>1
    <3> QED
      BY <1>1, <1>2, <3>1, <3>2
  <2> QED
    BY <2>1, <2>2
<1>6. g \in Screens(u)'
  <2> HIDE DEF g
  <2> QED
    BY <1>1, <1>4, <1>5 DEF Screens
<1> QED
  BY <1>1, <1>4, <1>6

LEMMA OneLessToRead ==
    ASSUME NEW u, NEW h \in Screens(u), ctl[u] \in Seq(Message), ctl[u] # <<>>,
           ctl'[u] = Tail(ctl[u]), client'[u] = Applied(client[u], Head(ctl[u]))
    PROVE  \E g \in Screens(u)' : g[Len(ctl'[u])] = h[Len(ctl[u])]
<1> DEFINE n == Len(ctl[u])
           g == [k \in 0 .. n - 1 |-> h[k + 1]]
<1>1. /\ n \in Nat \ {0} /\ Len(ctl'[u]) = n - 1 /\ Head(ctl[u]) = ctl[u][1]
      /\ \A k \in 1 .. n - 1 : ctl'[u][k] = ctl[u][k + 1]
  BY EmptySeq, HeadTailProperties
<1>2. /\ h \in [0 .. n -> Screen] /\ h[0] = client[u]
      /\ \A k \in 1 .. n : h[k] = Applied(h[k - 1], ctl[u][k])
  BY DEF Screens
<1>3. g \in [0 .. n - 1 -> Screen] /\ g[n - 1] = h[n]
  BY <1>1, <1>2
<1>4. g[0] = client'[u]
  <2>1. 1 \in 1 .. n /\ 0 \in 0 .. n - 1 /\ 1 - 1 = 0 /\ 0 + 1 = 1
    BY <1>1
  <2>2. h[1] = Applied(h[0], ctl[u][1])
    BY <1>2, <2>1
  <2> QED
    BY <1>1, <1>2, <2>1, <2>2
<1>5. ASSUME NEW k \in 1 .. n - 1 PROVE g[k] = Applied(g[k - 1], ctl'[u][k])
  <2>1. k + 1 \in 1 .. n /\ k \in 0 .. n - 1 /\ k - 1 \in 0 .. n - 1 /\ (k + 1) - 1 = k /\ (k - 1) + 1 = k
    BY <1>1
  <2>2. h[k + 1] = Applied(h[k], ctl[u][k + 1])
    BY <1>2, <2>1
  <2>3. g[k] = h[k + 1] /\ g[k - 1] = h[k]
    BY <2>1
  <2> QED
    BY <1>1, <2>2, <2>3
<1>6. g \in Screens(u)'
  <2> HIDE DEF g
  <2> QED
    BY <1>1, <1>3, <1>4, <1>5 DEF Screens
<1> QED
  BY <1>1, <1>3, <1>6

\* Messages, queues and screens that a step leaves alone.
LEMMA SameScreens ==
    ASSUME NEW u, ctl'[u] = ctl[u], client'[u] = client[u]
    PROVE  Screens(u)' = Screens(u)
BY DEF Screens

LEMMA SameEnd ==
    ASSUME NEW u, UNCHANGED <<board, pc>>, ctl'[u] = ctl[u], client'[u] = client[u],
           leftover'[u] = leftover[u], EndsOnBoard(u)
    PROVE  EndsOnBoard(u)'
<1>1. PICK h \in Screens(u) : MakesUp(u, h[Len(ctl[u])])
  BY DEF EndsOnBoard
<1>2. h \in Screens(u)' /\ MakesUp(u, h[Len(ctl[u])])'
  BY <1>1, SameScreens DEF MakesUp, Redrawn, Drawing, Busy
<1> QED
  BY <1>2 DEF EndsOnBoard

\* Nothing is to be sent: a screen with nothing to read, or only the board.
LEMMA NothingToRead ==
    ASSUME NEW u, Busy' = {}, ctl'[u] = <<>>, client'[u] \in Screen,
           \A i \in Id : client'[u][i] = board'[i] \/ i \in leftover'[u]
    PROVE  EndsOnBoard(u)'
<1>1. PICK b \in Screen : b = client'[u]
  OBVIOUS
<1> DEFINE h == [k \in 0 .. 0 |-> b]
<1>2. Len(ctl'[u]) = 0 /\ 1 .. 0 = {}
  OBVIOUS
<1>3. h \in [0 .. 0 -> Screen] /\ h[0] = b
  OBVIOUS
<1>4. h \in Screens(u)'
  <2> HIDE DEF h
  <2> QED
    BY <1>1, <1>2, <1>3 DEF Screens
<1>5. \A i \in Id : b[i] + Cardinality(Drawing(i)') = board'[i] \/ i \in leftover'[u]
  <2>1. \A i \in Id : Cardinality(Drawing(i)') = 0
    BY FS_EmptySet DEF Drawing
  <2>2. \A i \in Id : b[i] \in Nat
    BY DEF Screen
  <2> QED
    BY <1>1, <2>1, <2>2
<1> QED
  BY <1>2, <1>3, <1>4, <1>5 DEF EndsOnBoard, MakesUp

LEMMA CanvasToRead ==
    ASSUME NEW u, Busy' = {}, board \in Board, board' = board, client'[u] \in Screen,
           ctl'[u] = <<Canvas(board)>>
    PROVE  EndsOnBoard(u)'
<1>1. PICK b \in Screen, c \in Screen : b = board /\ c = client'[u]
  BY BoardsAreScreens
<1> DEFINE h == [k \in 0 .. 1 |-> IF k = 0 THEN c ELSE b]
<1>2. Len(ctl'[u]) = 1 /\ ctl'[u][1] = Canvas(b)
  BY <1>1
<1>3. h \in [0 .. 1 -> Screen] /\ h[0] = c /\ h[1] = b
  OBVIOUS
<1>4. Applied(c, Canvas(b)) = b
  BY DEF Applied, Canvas
<1>5. h \in Screens(u)'
  <2> HIDE DEF h
  <2>1. \A k \in 1 .. 1 : k = 1 /\ k - 1 = 0
    OBVIOUS
  <2> QED
    BY <1>1, <1>2, <1>3, <1>4, <2>1 DEF Screens
<1>6. \A i \in Id : b[i] + Cardinality(Drawing(i)') = board'[i]
  <2>1. \A i \in Id : Cardinality(Drawing(i)') = 0
    BY FS_EmptySet DEF Drawing
  <2>2. \A i \in Id : b[i] \in Nat
    BY DEF Screen
  <2> QED
    BY <1>1, <2>1, <2>2
<1> QED
  BY <1>2, <1>3, <1>5, <1>6 DEF EndsOnBoard, MakesUp

\* A step that changes neither the board nor what is to be sent.
LEMMA SentAlike ==
    ASSUME Agreement, UNCHANGED <<board, pc>>, Uncrossed' \subseteq Uncrossed,
           \A u \in Followed' : EndsOnBoard(u)'
    PROVE  Agreement'
BY DEF Agreement, CanvasIsAlone, CanvasIsBoard, ScreensEnd, Busy

\* Nothing is to be sent.
LEMMA NothingIsSent ==
    ASSUME Busy' = {}, \A u \in Followed' : EndsOnBoard(u)'
    PROVE  Agreement'
BY DEF Agreement, CanvasIsAlone, CanvasIsBoard, ScreensEnd

\* Everything has crossed for everybody.
LEMMA AllCrossed == ASSUME Uncrossed' = {} PROVE Agreement'
<1>1. Followed' = {}
  BY DEF Followed
<1> QED
  BY <1>1 DEF Agreement, CanvasIsAlone, CanvasIsBoard, ScreensEnd

\* A draw: the board has a point more, and one more draw is to be sent.
LEMMA AppendSeen == ASSUME SeenInv, NEW u \in Author, AppendInk(u) PROVE Agreement'
<1>1. PICK i \in Id : /\ board' = [board EXCEPT ![i] = board[i] + 1]
                      /\ pc' = [pc EXCEPT ![u] = MustSend(Draw(i))]
  <2>1. CASE /\ pens[u] # NoPen /\ board' = [board EXCEPT ![pens[u]] = @ + 1]
             /\ Then(u, MustSend(Draw(pens[u])))
    <3>1. pens[u] \in Id
      BY <2>1 DEF SeenInv, InkTyped, BoardInv, BoardTyped
    <3> QED
      BY <2>1, <3>1 DEF Then
  <2>2. CASE /\ nextId <= MaxId /\ board' = [board EXCEPT ![nextId] = 1]
             /\ Then(u, MustSend(Draw(nextId)))
    <3>1. nextId \in Id /\ board[nextId] = 0
      BY <2>2, InkLimits DEF SeenInv, InkTyped, BoardInv, BoardTyped, Unbegun, Id
    <3>2. board' = [board EXCEPT ![nextId] = board[nextId] + 1]
      BY <2>2, <3>1
    <3> QED
      BY <2>2, <3>1, <3>2 DEF Then
  <2> QED
    BY <2>1, <2>2 DEF AppendInk
<1>2. /\ UNCHANGED viewerVars /\ u \in Proc /\ u \notin Busy /\ pc \in [Proc -> Tasks]
      /\ CrossAll(u, TRUE) /\ board \in Board
  <2>1. pc \in [Proc -> Tasks] /\ board \in Board /\ u \in Proc
    BY DEF Proc, SeenInv, InkTyped, TasksTyped, BoardInv, BoardTyped
  <2>2. UNCHANGED viewerVars /\ CrossAll(u, TRUE) /\ pc[u] = Idle
    BY DEF AppendInk
  <2>3. u \notin Busy
    BY <2>2 DEF Busy, Idle
  <2> QED
    BY <2>1, <2>2, <2>3
<1>3. Busy' = Busy \cup {u} /\ pc'[u].msg = Draw(i) /\ \A q \in Busy : pc'[q] = pc[q]
  BY <1>1, <1>2 DEF Busy, MustSend
<1>4. CASE Crossing(u, TRUE)
  <2>1. Uncrossed' = {}
    BY <1>2, <1>4 DEF CrossAll, Uncrossed, Viewers, viewerVars
  <2> QED
    BY <2>1, AllCrossed
<1>5. CASE ~Crossing(u, TRUE)
  <2>1. crossed' = crossed /\ \A q \in Busy : pc[q].msg.kind = "draw"
    BY <1>2, <1>5 DEF CrossAll, Crossing
  <2>2. \A q \in Busy' : pc'[q].msg.kind = "draw"
    BY <1>3, <2>1 DEF Draw
  <2>3. CanvasIsAlone' /\ CanvasIsBoard'
    BY <2>2 DEF CanvasIsAlone, CanvasIsBoard
  <2>4. /\ \A j \in Id \ {i} : Drawing(j)' = Drawing(j)
        /\ Drawing(i)' = Drawing(i) \cup {u} /\ u \notin Drawing(i)
    BY <1>2, <1>3 DEF Drawing, Draw
  <2>5. Cardinality(Drawing(i)') = Cardinality(Drawing(i)) + 1
    BY <2>4, DrawingTyped, FS_AddElement
  <2>6. ASSUME NEW v, NEW b \in Screen, MakesUp(v, b) PROVE MakesUp(v, b)'
    <3>1. \A j \in Id : b[j] + Cardinality(Drawing(j)) = board[j] \/ j \in leftover[v]
      BY <2>1, <2>6 DEF MakesUp, Redrawn
    <3>2. ASSUME NEW j \in Id, j \notin leftover[v] PROVE b[j] + Cardinality(Drawing(j)') = board'[j]
      <4>1. b[j] \in Nat /\ Cardinality(Drawing(j)) \in Nat /\ board[j] \in Nat
        BY <1>2, DrawingTyped, InkLimits DEF Board, Screen
      <4>2. CASE j = i
        BY <1>1, <1>2, <2>5, <3>1, <3>2, <4>1, <4>2 DEF Board
      <4>3. CASE j # i
        BY <1>1, <1>2, <2>4, <3>1, <3>2, <4>1, <4>3 DEF Board
      <4> QED
        BY <4>2, <4>3
    <3>3. leftover' = leftover
      BY <1>2 DEF CrossAll
    <3> QED
      BY <3>2, <3>3 DEF MakesUp
  <2>7. ScreensEnd'
    <3> SUFFICES ASSUME NEW v \in Followed' PROVE EndsOnBoard(v)'
      BY DEF ScreensEnd
    <3>1. v \in Followed /\ ctl' = ctl /\ client' = client
      BY <1>2, <2>1 DEF Followed, Uncrossed, Viewers, viewerVars
    <3>2. PICK h \in Screens(v) : MakesUp(v, h[Len(ctl[v])])
      BY <3>1 DEF SeenInv, Agreement, ScreensEnd, EndsOnBoard
    <3>3. h[Len(ctl[v])] \in Screen
      <4>1. Len(ctl[v]) \in Nat
        BY <3>1, LenProperties DEF SeenInv, InkTyped, QueuesTyped, Followed, Uncrossed, Viewers
      <4> QED
        BY <4>1 DEF Screens
    <3>4. h \in Screens(v)' /\ MakesUp(v, h[Len(ctl[v])])'
      BY <2>6, <3>1, <3>2, <3>3, SameScreens
    <3> QED
      BY <3>1, <3>4 DEF EndsOnBoard
  <2> QED
    BY <2>3, <2>7 DEF Agreement
<1> QED
  BY <1>4, <1>5

\* A board that is cleared, or loses strokes: a canvas will tell.
LEMMA ClearSeen ==
    ASSUME SeenInv, NEW p \in Proc, pc[p] = Idle, Then(p, MustSnapshot), CrossAll(p, FALSE),
           UNCHANGED viewerVars
    PROVE  Agreement'
<1>1. p \notin Busy /\ Busy' = Busy \cup {p} /\ pc'[p] = MustSnapshot
  BY DEF Then, Busy, Idle, MustSnapshot, SeenInv, InkTyped, TasksTyped
<1>2. CASE Crossing(p, FALSE)
  <2>1. Uncrossed' = {}
    BY <1>2 DEF CrossAll, Uncrossed, Viewers, viewerVars
  <2> QED
    BY <2>1, AllCrossed
<1>3. CASE ~Crossing(p, FALSE)
  <2>1. crossed' = crossed /\ Busy' = {p}
    BY <1>1, <1>3 DEF CrossAll, Crossing
  <2>2. CanvasIsAlone' /\ CanvasIsBoard'
    BY <1>1, <2>1 DEF CanvasIsAlone, CanvasIsBoard, MustSnapshot
  <2>3. Redrawn'
    BY <1>1, <2>1 DEF Redrawn, MustSnapshot, Canvas
  <2>4. ScreensEnd'
    <3> SUFFICES ASSUME NEW v \in Followed' PROVE EndsOnBoard(v)'
      BY DEF ScreensEnd
    <3>1. v \in Followed /\ ctl' = ctl /\ client' = client
      BY <2>1 DEF Followed, Uncrossed, Viewers, viewerVars
    <3>2. PICK h \in Screens(v) : TRUE
      BY <3>1 DEF SeenInv, Agreement, ScreensEnd, EndsOnBoard
    <3>3. h \in Screens(v)'
      BY <3>1, SameScreens
    <3> QED
      BY <2>3, <3>3 DEF EndsOnBoard, MakesUp
  <2> QED
    BY <2>2, <2>4 DEF Agreement
<1> QED
  BY <1>2, <1>3

\* The snapshot for the canvas: it is the board.
LEMMA SnapshotSeen == ASSUME SeenInv, NEW p \in Proc, InkSnapshot(p) PROVE Agreement'
<1>1. /\ pc[p].at = "snapshot" /\ pc' = [pc EXCEPT ![p] = MustSend(Canvas(board))]
      /\ UNCHANGED <<boardVars, viewerVars, excuses>> /\ pc \in [Proc -> Tasks]
      /\ p \in Busy /\ pc[p].msg.kind = "canvas"
  BY DEF InkSnapshot, Then, Busy, SeenInv, SnapshotsAreCanvases, InkTyped, TasksTyped
<1>2. CASE Uncrossed = {}
  <2>1. Uncrossed' = {}
    BY <1>1, <1>2 DEF Uncrossed, Viewers, viewerVars, excuses
  <2> QED
    BY <2>1, AllCrossed
<1>3. CASE Uncrossed # {}
  <2>1. Busy = {p}
    BY <1>1, <1>3 DEF SeenInv, Agreement, CanvasIsAlone
  <2>2. Busy' = {p} /\ pc'[p].msg.kind = "canvas" /\ pc'[p].msg.canvas = board /\ board' = board
    BY <1>1, <2>1 DEF Busy, MustSend, Canvas, boardVars
  <2>3. CanvasIsAlone' /\ CanvasIsBoard' /\ Redrawn'
    BY <2>2 DEF CanvasIsAlone, CanvasIsBoard, Redrawn
  <2>4. ScreensEnd'
    <3> SUFFICES ASSUME NEW v \in Followed' PROVE EndsOnBoard(v)'
      BY DEF ScreensEnd
    <3>1. v \in Followed /\ ctl' = ctl /\ client' = client
      BY <1>1 DEF Followed, Uncrossed, Viewers, viewerVars, excuses
    <3>2. PICK h \in Screens(v) : TRUE
      BY <3>1 DEF SeenInv, Agreement, ScreensEnd, EndsOnBoard
    <3>3. h \in Screens(v)'
      BY <3>1, SameScreens
    <3> QED
      BY <2>3, <3>3 DEF EndsOnBoard, MakesUp
  <2> QED
    BY <2>3, <2>4 DEF Agreement
<1> QED
  BY <1>2, <1>3

\* A message goes into every queue that has room; the others have a canvas to
\* come.
LEMMA BroadcastSeen == ASSUME SeenInv, NEW p \in Proc, BroadcastInk(p) PROVE Agreement'
<1> DEFINE m == pc[p].msg
           users == IF Busy = {p} /\ m = Canvas(board) THEN {u \in Viewers : ctl[u] = <<>>} ELSE {}
<1>1. /\ pc[p].at = "send" /\ pc' = [pc EXCEPT ![p] = Idle]
      /\ ctl' = [u \in Watched |-> IF u \in Viewers /\ HasRoom(u)
                                    THEN Append(ctl[u], m) ELSE ctl[u]]
      /\ needs' = needs \cup Missed
      /\ UNCHANGED <<boardVars, present, client, repairing>>
      /\ crossed' = crossed \ users
      /\ leftover' = [u \in Watched |-> IF u \in users THEN {} ELSE leftover[u]]
  BY DEF BroadcastInk, Then, SetRight
<1>2. pc \in [Proc -> Tasks] /\ m \in Message
  BY DEF SeenInv, InkTyped, TasksTyped, Tasks
<1>3. p \in Busy /\ Busy' = Busy \ {p} /\ \A q \in Busy \ {p} : pc'[q] = pc[q]
  BY <1>1, <1>2 DEF Busy, Idle
<1>4. board' = board /\ Viewers' = Viewers
  BY <1>1 DEF Viewers, boardVars
<1>5. ASSUME Uncrossed # {}, NEW v \in Watched, v \notin users, NEW b \in Screen, MakesUp(v, b),
             NEW c \in Screen, c = Applied(b, m)
      PROVE  MakesUp(v, c)'
  <2>0. leftover'[v] = leftover[v]
    BY <1>1, <1>5
  <2>1. CASE m.kind = "canvas"
    <3>1. Busy' = {} /\ c = board'
      BY <1>1, <1>3, <1>4, <1>5, <2>1
      DEF SeenInv, Agreement, CanvasIsAlone, CanvasIsBoard, Applied
    <3>2. \A i \in Id : Cardinality(Drawing(i)') = 0
      BY <3>1, FS_EmptySet DEF Drawing
    <3>3. \A i \in Id : c[i] \in Nat
      BY DEF Screen
    <3>4. \A i \in Id : c[i] + Cardinality(Drawing(i)') = board'[i]
      BY <3>1, <3>2, <3>3
    <3> QED
      BY <3>4 DEF MakesUp
  <2>2. CASE m.kind = "draw"
    <3>1. ~Redrawn
      BY <1>3, <1>5, <2>2 DEF Redrawn, SeenInv, Agreement, CanvasIsAlone
    <3>2. \A i \in Id : b[i] + Cardinality(Drawing(i)) = board[i] \/ i \in leftover[v]
      BY <1>5, <3>1 DEF MakesUp
    <3>3. PICK k \in Id : k = m.id
      BY <1>2 DEF Message
    <3>4. /\ p \in Drawing(k) /\ Drawing(k)' = Drawing(k) \ {p}
          /\ \A i \in Id \ {k} : Drawing(i)' = Drawing(i)
      BY <1>3, <3>3 DEF Drawing
    <3>5. Cardinality(Drawing(k)') = Cardinality(Drawing(k)) - 1 /\ Cardinality(Drawing(k)') \in Nat
      <4>1. IsFiniteSet(Drawing(k))
        BY DrawingTyped
      <4>2. Cardinality(Drawing(k)') = Cardinality(Drawing(k)) - 1 /\ IsFiniteSet(Drawing(k)')
        BY <3>4, <4>1, FS_RemoveElement
      <4> QED
        BY <4>2, FS_CardinalityType
    <3>6. \A i \in Id : b[i] \in Nat /\ Cardinality(Drawing(i)) \in Nat
      BY DrawingTyped DEF Screen
    <3>7. c = [b EXCEPT ![k] = b[k] + 1]
      BY <1>5, <2>2, <3>3 DEF Applied
    <3>8. ASSUME NEW i \in Id, i \notin leftover[v]
          PROVE  c[i] + Cardinality(Drawing(i)') = board'[i]
      <4>1. CASE i = k
        <5>1. c[i] = b[i] + 1 /\ b[i] + Cardinality(Drawing(i)) = board[i]
          BY <3>2, <3>7, <3>8, <4>1 DEF Screen
        <5> QED
          BY <1>4, <3>5, <3>6, <4>1, <5>1
      <4>2. CASE i # k
        <5>1. c[i] = b[i] /\ Drawing(i)' = Drawing(i)
          BY <3>4, <3>7, <4>2 DEF Screen
        <5> QED
          BY <1>4, <3>2, <3>8, <5>1
      <4> QED
        BY <4>1, <4>2
    <3> QED
      BY <2>0, <3>8 DEF MakesUp
  <2> QED
    BY <1>2, <2>1, <2>2 DEF Message
<1>6. ASSUME NEW v \in Followed', v \notin users PROVE EndsOnBoard(v)'
  <2>1. v \in Followed /\ v \in Watched /\ v \in Viewers /\ HasRoom(v) /\ Uncrossed # {}
    BY <1>1, <1>4, <1>6 DEF Followed, Uncrossed, Viewers, Missed
  <2>2. ctl'[v] = Append(ctl[v], m) /\ client'[v] = client[v] /\ ctl[v] \in Seq(Message)
    BY <1>1, <2>1 DEF SeenInv, InkTyped, QueuesTyped
  <2>3. PICK h \in Screens(v) : MakesUp(v, h[Len(ctl[v])])
    BY <2>1 DEF SeenInv, Agreement, ScreensEnd, EndsOnBoard
  <2>4. PICK b \in Screen : b = h[Len(ctl[v])]
    BY <2>2, LenProperties DEF Screens
  <2>5. PICK c \in Screen : c = Applied(b, m)
    BY <1>2, AppliedTyped
  <2>6. MakesUp(v, c)'
    BY <1>5, <1>6, <2>1, <2>3, <2>4, <2>5
  <2>7. PICK g \in Screens(v)' : g[Len(ctl'[v])] = c
    BY <1>2, <2>2, <2>4, <2>5, OneMoreToRead
  <2> QED
    BY <2>6, <2>7 DEF EndsOnBoard, MakesUp
<1>7. CASE users = {}
  <2>1. Uncrossed' = Uncrossed
    BY <1>1, <1>4, <1>7 DEF Uncrossed
  <2>2. CASE Uncrossed = {}
    BY <2>1, <2>2, AllCrossed
  <2>3. CASE Uncrossed # {}
    <3>1. CanvasIsAlone' /\ CanvasIsBoard'
      BY <1>3, <1>4, <2>3 DEF SeenInv, Agreement, CanvasIsAlone, CanvasIsBoard
    <3> QED
      BY <1>6, <1>7, <3>1 DEF Agreement, ScreensEnd
  <2> QED
    BY <2>2, <2>3
<1>8. CASE users # {}
  <2>1. Busy' = {} /\ m = Canvas(board)
    BY <1>3, <1>8
  <2>2. ASSUME NEW v \in Followed', v \in users PROVE EndsOnBoard(v)'
    <3>1. v \in Watched /\ v \in Viewers /\ ctl[v] = <<>> /\ v \notin Missed
      BY <1>1, <1>4, <2>2 DEF Followed, Viewers
    <3>2. ctl'[v] = Append(<<>>, Canvas(board))
      BY <1>1, <2>1, <3>1 DEF Missed
    <3>3. ctl'[v] = <<Canvas(board)>>
      BY <3>2
    <3>4. client'[v] \in Screen /\ board \in Board
      BY <1>1, <3>1 DEF SeenInv, InkTyped, ViewersTyped, BoardInv, BoardTyped
    <3> QED
      BY <1>4, <2>1, <3>3, <3>4, CanvasToRead
  <2> QED
    BY <1>6, <2>1, <2>2, NothingIsSent
<1> QED
  BY <1>7, <1>8

\* A viewer reads, and a repair passes all that waits in its queue.
LEMMA ReadSeen ==
    ASSUME SeenInv, NEW u \in Watched, DeliverInk(u) \/ TakeCanvasRepair(u) \/ WriteRepair(u)
    PROVE  Agreement'
<1>1. CASE DeliverInk(u)
  <2>1. /\ ctl[u] # <<>> /\ client' = [client EXCEPT ![u] = Applied(client[u], Head(ctl[u]))]
        /\ ctl' = [ctl EXCEPT ![u] = Tail(ctl[u])]
        /\ UNCHANGED <<board, present, needs, repairing, pc, crossed, leftover>>
    BY <1>1 DEF DeliverInk, boardVars, excuses
  <2>2. Uncrossed' = Uncrossed /\ Followed' = Followed
    BY <2>1 DEF Uncrossed, Followed, Viewers
  <2>3. DOMAIN ctl = Watched /\ client \in [Watched -> Screen] /\ ctl[u] \in Seq(Message)
    BY DEF SeenInv, InkTyped, QueuesTyped, ViewersTyped
  <2>4. ASSUME NEW v \in Followed' PROVE EndsOnBoard(v)'
    <3>1. EndsOnBoard(v) /\ v \in Watched
      BY <2>2 DEF SeenInv, Agreement, ScreensEnd, Followed, Uncrossed, Viewers
    <3>2. CASE v = u
      <4>1. PICK h \in Screens(u) : MakesUp(u, h[Len(ctl[u])])
        BY <3>1, <3>2 DEF EndsOnBoard
      <4>2. ctl'[u] = Tail(ctl[u]) /\ client'[u] = Applied(client[u], Head(ctl[u]))
        BY <2>1, <2>3
      <4>3. PICK g \in Screens(u)' : g[Len(ctl'[u])] = h[Len(ctl[u])]
        BY <2>1, <2>3, <4>2, OneLessToRead
      <4> QED
        BY <2>1, <3>2, <4>1, <4>3 DEF EndsOnBoard, MakesUp, Redrawn, Drawing, Busy
    <3>3. CASE v # u
      <4>1. ctl'[v] = ctl[v] /\ client'[v] = client[v]
        BY <2>1, <2>3, <3>1, <3>3
      <4> QED
        BY <2>1, <3>1, <4>1, SameEnd
    <3> QED
      BY <3>2, <3>3
  <2> QED
    BY <2>1, <2>2, <2>4, SentAlike DEF SeenInv
<1>2. CASE TakeCanvasRepair(u)
  <2>1. UNCHANGED <<board, present, ctl, client, pc, crossed, leftover>> /\ Followed' \subseteq Followed
        /\ Uncrossed' = Uncrossed
    BY <1>2 DEF TakeCanvasRepair, boardVars, excuses, Followed, Uncrossed, Viewers
  <2>2. ASSUME NEW v \in Followed' PROVE EndsOnBoard(v)'
    BY <2>1, SameEnd DEF SeenInv, Agreement, ScreensEnd
  <2> QED
    BY <2>1, <2>2, SentAlike DEF SeenInv
<1>3. CASE WriteRepair(u)
  <2>1. /\ client' = [client EXCEPT ![u] = board] /\ repairing' = repairing \ {u}
        /\ UNCHANGED <<board, present, ctl, needs, pc>> /\ Viewers' = Viewers
        /\ \A v \in Watched \ {u} : leftover'[v] = leftover[v]
        /\ crossed \ {u} \subseteq crossed'
    BY <1>3 DEF WriteRepair, SetRight, boardVars, Viewers
  <2>2. client \in [Watched -> Screen] /\ board \in Screen
    BY BoardsAreScreens DEF SeenInv, InkTyped, ViewersTyped, BoardInv, BoardTyped
  <2>3. ASSUME NEW v \in Followed', v # u PROVE EndsOnBoard(v)'
    <3>1. EndsOnBoard(v) /\ v \in Watched
      BY <2>1, <2>3 DEF SeenInv, Agreement, ScreensEnd, Followed, Uncrossed, Viewers
    <3>2. ctl'[v] = ctl[v] /\ client'[v] = client[v] /\ leftover'[v] = leftover[v]
      BY <2>1, <2>2, <2>3, <3>1
    <3> QED
      BY <2>1, <3>1, <3>2, SameEnd
  <2>4. CASE ctl[u] # <<>> \/ Busy # {}
    <3>1. crossed' = crossed \cup {u}
      BY <1>3, <2>4 DEF WriteRepair
    <3>2. Uncrossed' \subseteq Uncrossed /\ u \notin Followed'
      BY <2>1, <3>1 DEF Followed, Uncrossed
    <3> QED
      BY <2>1, <2>3, <3>2, SentAlike DEF SeenInv
  <2>5. CASE ctl[u] = <<>> /\ Busy = {}
    <3>1. ctl'[u] = <<>> /\ client'[u] = board' /\ Busy' = {} /\ client'[u] \in Screen
      BY <2>1, <2>2, <2>5 DEF Busy
    <3>2. EndsOnBoard(u)'
      BY <3>1, NothingToRead
    <3> QED
      BY <2>3, <3>1, <3>2, NothingIsSent
  <2> QED
    BY <2>4, <2>5
<1> QED
  BY <1>1, <1>2, <1>3

\* Who comes is shown the board, or nothing where nothing is drawn; who is away
\* is shown nothing.
LEMMA ComeAndGoSeen ==
    ASSUME SeenInv, NEW u \in Author, Admit(u) \/ Leave(u) \/ PageAlone(u) PROVE Agreement'
<1>1. DOMAIN ctl = Watched /\ client \in [Watched -> Screen] /\ board \in Board
  BY DEF SeenInv, InkTyped, QueuesTyped, ViewersTyped, BoardInv, BoardTyped
<1>2. CASE Leave(u)
  <2>1. /\ present' = present \ {u} /\ needs' = needs \ {u} /\ repairing' = repairing \ {u}
        /\ crossed' = crossed \ {u} /\ ctl' = [ctl EXCEPT ![u] = <<>>]
        /\ \A v \in Watched \ {u} : leftover'[v] = leftover[v]
        /\ UNCHANGED <<board, pc, client>>
    BY <1>2 DEF Leave, SetRight
  <2>2. Uncrossed' \subseteq Uncrossed /\ Followed' \subseteq Followed \ {u}
    BY <2>1 DEF Uncrossed, Followed, Viewers
  <2>3. ASSUME NEW v \in Followed' PROVE EndsOnBoard(v)'
    <3>1. EndsOnBoard(v) /\ v \in Watched /\ v # u
      BY <2>2 DEF SeenInv, Agreement, ScreensEnd, Followed, Uncrossed, Viewers
    <3>2. ctl'[v] = ctl[v] /\ client'[v] = client[v] /\ leftover'[v] = leftover[v]
      BY <1>1, <2>1, <3>1
    <3> QED
      BY <2>1, <3>1, <3>2, SameEnd
  <2> QED
    BY <2>1, <2>2, <2>3, SentAlike DEF SeenInv
<1>3. CASE Admit(u)
  <2>1. /\ present' = present \cup {u} /\ ctl' = [ctl EXCEPT ![u] = CanvasOnArrival]
        /\ crossed' = IF Busy # {} THEN crossed \cup ({u} \cap Watched) ELSE crossed
        /\ leftover' = [v \in Watched |->
                          IF v # u THEN leftover[v]
                          ELSE {i \in Id : OnBoard = {} /\ client[v][i] > 0}]
        /\ UNCHANGED <<board, client, needs, repairing, pc>>
    BY <1>3 DEF Admit, boardVars
  <2>2. Followed' \subseteq Followed \cup {u}
    BY <2>1 DEF Uncrossed, Followed, Viewers
  <2>3. ASSUME NEW v \in Followed', v # u PROVE EndsOnBoard(v)'
    <3>1. EndsOnBoard(v) /\ v \in Watched
      BY <2>2, <2>3 DEF SeenInv, Agreement, ScreensEnd, Followed, Uncrossed, Viewers
    <3>2. ctl'[v] = ctl[v] /\ client'[v] = client[v] /\ leftover'[v] = leftover[v]
      BY <1>1, <2>1, <2>3, <3>1
    <3> QED
      BY <2>1, <3>1, <3>2, SameEnd
  <2>4. CASE Busy # {}
    <3>1. Uncrossed' \subseteq Uncrossed /\ u \notin Followed'
      BY <2>1, <2>4 DEF Uncrossed, Followed, Viewers
    <3> QED
      BY <2>1, <2>3, <3>1, SentAlike DEF SeenInv
  <2>5. CASE Busy = {}
    <3>1. Busy' = {}
      BY <2>1, <2>5 DEF Busy
    <3>2. ASSUME u \in Followed' PROVE EndsOnBoard(u)'
      <4>1. u \in Watched /\ ctl'[u] = CanvasOnArrival /\ client'[u] = client[u] /\ board' = board
            /\ client[u] \in Screen
        BY <1>1, <2>1, <3>2 DEF Followed, Uncrossed, Viewers
      <4>2. CASE OnBoard # {}
        BY <1>1, <3>1, <4>1, <4>2, CanvasToRead DEF CanvasOnArrival
      <4>3. CASE OnBoard = {}
        <5>1. leftover'[u] = {i \in Id : client[u][i] > 0}
          BY <2>1, <4>1, <4>3
        <5>2. ASSUME NEW i \in Id PROVE client[u][i] = board[i] \/ i \in leftover'[u]
          <6>1. board[i] \in Nat /\ ~ (board[i] > 0) /\ client[u][i] \in Nat
            BY <1>1, <4>1, <4>3, InkLimits DEF Board, Screen, OnBoard
          <6> QED
            BY <5>1, <6>1
        <5> QED
          BY <3>1, <4>1, <4>3, <5>2, NothingToRead DEF CanvasOnArrival
      <4> QED
        BY <4>2, <4>3
    <3> QED
      BY <2>3, <3>1, <3>2, NothingIsSent
  <2> QED
    BY <2>4, <2>5
<1>4. CASE PageAlone(u)
  <2>1. /\ u \notin present /\ \A v \in Watched \ {u} : client'[v] = client[v]
        /\ UNCHANGED <<board, present, ctl, needs, repairing, pc, crossed, leftover>>
    BY <1>1, <1>4 DEF PageAlone, boardVars, excuses
  <2>2. Uncrossed' = Uncrossed /\ Followed' = Followed
    BY <2>1 DEF Uncrossed, Followed, Viewers
  <2>3. ASSUME NEW v \in Followed' PROVE EndsOnBoard(v)'
    <3>1. EndsOnBoard(v) /\ v \in Watched /\ v # u
      BY <2>1, <2>2 DEF SeenInv, Agreement, ScreensEnd, Followed, Uncrossed, Viewers
    <3> QED
      BY <2>1, <3>1, SameEnd
  <2> QED
    BY <2>1, <2>2, <2>3, SentAlike DEF SeenInv
<1> QED
  BY <1>2, <1>3, <1>4

LEMMA AgreementStep == ASSUME SeenInv, [InkNext]_inkVars PROVE Agreement'
<1>1. ASSUME NEW u \in Author, ClearInk(u) PROVE Agreement'
  BY <1>1, ClearSeen DEF ClearInk, Proc
<1>2. CASE ExpireInk
  BY <1>2, ClearSeen DEF ExpireInk, Proc
<1>3. CASE UNCHANGED <<board, viewerVars, pc, excuses>>
  <2>1. UNCHANGED <<board, pc, ctl, client, leftover>> /\ Uncrossed' = Uncrossed /\ Followed' = Followed
    BY <1>3 DEF viewerVars, excuses, Uncrossed, Followed, Viewers
  <2>2. ASSUME NEW v \in Followed' PROVE EndsOnBoard(v)'
    BY <2>1, SameEnd DEF SeenInv, Agreement, ScreensEnd
  <2> QED
    BY <2>1, <2>2, SentAlike DEF SeenInv
<1>4. ASSUME NEW u \in Watched, PageAlone(u) PROVE Agreement'
  BY <1>4, ComeAndGoSeen, InkLimits
<1> QED
  BY <1>1, <1>2, <1>3, <1>4, AppendSeen, SnapshotSeen, BroadcastSeen, ReadSeen, ComeAndGoSeen
  DEF InkNext, Ages, boardVars, inkVars

THEOREM SeenInvariance == InkSpec => []SeenInv
<1>1. InkInit => SeenInv
  BY BoardInit, InkTypesInit, SeenInit DEF SeenInv, InkTyped
<1>2. SeenInv /\ [InkNext]_inkVars => SeenInv'
  BY InkTypedStep, SnapshotsStep, AgreementStep DEF SeenInv
<1> QED
  BY <1>1, <1>2, PTL DEF InkSpec

\* However slowly a viewer reads, whenever it came, however full its queue was
\* and whatever its page had kept: once nothing is on its way, and unless
\* updates crossed, it sees the board, each stroke with its points once, and
\* nothing else but strokes that left the board while it was away (room.go:139,
\* room.go:377-391, ink.go:146-167, gateway.go:574-594, ink.ts:73-88).
THEOREM QuietViewersAgree == InkSpec => []QuietBoardsAgree
<1>1. SeenInv => QuietBoardsAgree
  <2> SUFFICES ASSUME SeenInv, NEW u \in Watched, Quiet(u), u \notin crossed, NEW i \in Id
               PROVE  client[u][i] = board[i] \/ i \in leftover[u]
    BY DEF QuietBoardsAgree, Agrees
  <2>1. u \in Followed /\ ctl[u] = <<>> /\ Busy = {}
    BY DEF Quiet, Followed, Uncrossed
  <2>2. PICK h \in Screens(u) : MakesUp(u, h[Len(ctl[u])])
    BY <2>1 DEF SeenInv, Agreement, ScreensEnd, EndsOnBoard
  <2>3. h[0] = client[u] /\ Len(ctl[u]) = 0
    BY <2>1 DEF Screens
  <2>4. client[u][i] + Cardinality(Drawing(i)) = board[i] \/ i \in leftover[u]
    BY <2>1, <2>2, <2>3 DEF MakesUp, Redrawn
  <2>5. Cardinality(Drawing(i)) = 0
    BY <2>1, FS_EmptySet DEF Drawing
  <2>6. client[u][i] \in Nat
    BY DEF SeenInv, InkTyped, ViewersTyped, Screen
  <2> QED
    BY <2>4, <2>5, <2>6
<1> QED
  BY <1>1, SeenInvariance, PTL
=============================================================================
