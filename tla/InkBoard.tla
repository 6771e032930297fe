------------------------------ MODULE InkBoard ------------------------------
(***************************************************************************)
(* The drawings of one room: the board under Room.mu (internal/room/       *)
(* ink.go), the handlers that change it and then, after unlocking, tell    *)
(* everybody (handleViewerMessage and expireInk of internal/gateway), the  *)
(* bounded control queue of each viewer with its canvas repair, and the    *)
(* copy each viewer's browser keeps (web/src/app/ink.ts).                  *)
(*                                                                         *)
(* A user has one control socket at a time and a page that outlives it.    *)
(* A stroke is an id with the number of points stored; a batch of points   *)
(* counts as one.  Coordinates, colours, all other control messages, and   *)
(* the fading of strokes on a page that is connected are left out: it      *)
(* takes off what is older than InkTTL, which the gateway sweeps within a  *)
(* second.                                                                 *)
(***************************************************************************)
EXTENDS Naturals, FiniteSets, Sequences

CONSTANTS Author,
          Watched,           \* bound: the users whose queue and screen are
                             \* followed; they do not affect anybody else's
          Fade,              \* the goroutine of fadeInk
          MaxId,             \* bound: strokes ever begun
          MaxInkPoints,      \* maxInkPointsPerRoom
          MaxStrokes,        \* maxInkStrokesPerRoom
          MaxStrokesPerUser, \* maxInkStrokesPerUser
          MaxStrokePoints,   \* maxInkPointsPerStroke
          CtlBuffer          \* ctlBuffer, the capacity of Viewer.Ctl

ASSUME InkAssumption ==
    /\ IsFiniteSet(Author) /\ Fade \notin Author /\ Watched \subseteq Author
    /\ {MaxId, MaxInkPoints, MaxStrokes, MaxStrokesPerUser, MaxStrokePoints, CtlBuffer}
           \subseteq Nat \ {0}

Id == 1 .. MaxId
NoPen == 0
Board == [Id -> 0 .. MaxStrokePoints]
Screen == [Id -> Nat]
Blank == [i \in Id |-> 0]

VARIABLES
    board,     \* Room.strokes: the points of each stroke, 0 if not on the board
    author,    \* author[i]: who began stroke i
    inkPoints, \* Room.inkPoints
    pens,      \* Room.pens: the stroke each user is drawing
    nextId,    \* Room.nextInkID + 1
    stale,     \* strokes not drawn on for over InkTTL
    present,   \* users whose control socket is admitted
    ctl,       \* ctl[u]: Viewer.Ctl, a queue of draws and canvases
    needs,     \* users whose needsCanvas is set
    client,    \* client[u]: the InkStore in u's browser
    repairing, \* users whose repair was taken and not written yet
    pc,        \* pc[p]: what p still has to do, with the message it will send
    crossed,   \* observer: users whose updates have crossed, see Crossing, since
               \* the last whole board that nothing crossed
    leftover   \* observer: the strokes that a page had kept, when it came back to
               \* an empty board, until the next such board

boardVars == <<board, author, inkPoints, pens, nextId, stale>>
viewerVars == <<present, ctl, needs, client, repairing>>
excuses == <<crossed, leftover>>
inkVars == <<boardVars, viewerVars, pc, excuses>>

Proc == Author \cup {Fade}
Viewers == present \cap Watched

\* A draw carries one batch for one stroke, a canvas a whole board.
Draw(i) == [kind |-> "draw", id |-> i, canvas |-> Blank]
Canvas(b) == [kind |-> "canvas", id |-> 1, canvas |-> b]
Message == [kind : {"draw", "canvas"}, id : Id, canvas : Board]

Idle == [at |-> "idle", msg |-> Canvas(Blank)]
MustSend(m) == [at |-> "send", msg |-> m]
MustSnapshot == [at |-> "snapshot", msg |-> Canvas(Blank)]

InkTypeOK ==
    /\ board \in Board
    /\ author \in [Id -> Author]
    /\ inkPoints \in 0 .. MaxInkPoints
    /\ pens \in [Author -> {NoPen} \cup Id]
    /\ nextId \in 1 .. MaxId + 1
    /\ stale \subseteq {i \in Id : board[i] > 0}
    /\ present \subseteq Author
    /\ DOMAIN ctl = Watched
    /\ \A u \in Watched : ctl[u] \in Seq(Message) /\ Len(ctl[u]) <= CtlBuffer
    /\ needs \cup repairing \cup crossed \subseteq Viewers
    /\ client \in [Watched -> Screen] /\ leftover \in [Watched -> SUBSET Id]
    /\ pc \in [Proc -> [at : {"idle", "send", "snapshot"}, msg : Message]]

InkInit ==
    /\ board = Blank /\ author \in {[i \in Id |-> u] : u \in Author}
    /\ inkPoints = 0 /\ pens = [u \in Author |-> NoPen]
    /\ nextId = 1 /\ stale = {}
    /\ present = {} /\ ctl = [u \in Watched |-> <<>>] /\ needs = {}
    /\ client = [u \in Watched |-> Blank] /\ repairing = {}
    /\ pc = [p \in Proc |-> Idle]
    /\ crossed = {} /\ leftover = [u \in Watched |-> {}]

-----------------------------------------------------------------------------
(* Helpers *)

OnBoard == {i \in Id : board[i] > 0}
Mine(u) == {i \in OnBoard : author[i] = u}
\* The points on a board, each with its stroke, and their number.
PointsOn(b) == {p \in Id \X (1 .. MaxStrokePoints) : p[2] <= b[p[1]]}
PointsOf(b) == Cardinality(PointsOn(b))
Busy == {p \in Proc : pc[p].at # "idle"}
Then(p, next) == pc' = [pc EXCEPT ![p] = next]

\* The change p is about to make overtakes, or is overtaken by, a change whose
\* broadcast has not gone out: a canvas and anything else.  Two draws commute.
Crossing(p, isDraw) ==
    \E q \in Busy \ {p} : ~ (isDraw /\ pc[q].msg.kind = "draw")
CrossAll(p, isDraw) ==
    /\ crossed' = IF Crossing(p, isDraw) THEN Viewers ELSE crossed
    /\ UNCHANGED leftover
\* The users who are sent the whole board, and nothing else is on its way, or
\* who have left.
SetRight(users) ==
    /\ crossed' = crossed \ users
    /\ leftover' = [u \in Watched |-> IF u \in users THEN {} ELSE leftover[u]]

-----------------------------------------------------------------------------
(* AppendInk, ClearInk, ClearAllInk and ExpireInk, each under Room.mu *)

\* u goes on with the stroke of the pen, or the sequence number is new.
AppendInk(u) ==
    /\ u \in present /\ pc[u] = Idle
    /\ inkPoints < MaxInkPoints
    /\ \/ /\ pens[u] # NoPen /\ board[pens[u]] < MaxStrokePoints
          /\ board' = [board EXCEPT ![pens[u]] = @ + 1]
          /\ stale' = stale \ {pens[u]}
          /\ Then(u, MustSend(Draw(pens[u])))
          /\ UNCHANGED <<author, pens, nextId>>
       \/ /\ nextId <= MaxId
          /\ Cardinality(OnBoard) < MaxStrokes
          /\ Cardinality(Mine(u)) < MaxStrokesPerUser
          /\ board' = [board EXCEPT ![nextId] = 1]
          /\ author' = [author EXCEPT ![nextId] = u]
          /\ pens' = [pens EXCEPT ![u] = nextId]
          /\ nextId' = nextId + 1
          /\ Then(u, MustSend(Draw(nextId)))
          /\ UNCHANGED stale
    /\ inkPoints' = inkPoints + 1
    /\ CrossAll(u, TRUE)
    /\ UNCHANGED viewerVars

Without(gone) == [i \in Id |-> IF i \in gone THEN 0 ELSE board[i]]

ForgetKeepingPens(gone, penless) ==
    /\ board' = Without(gone)
    /\ inkPoints' = PointsOf(Without(gone))
    /\ stale' = stale \ gone
    /\ UNCHANGED <<author, pens, nextId>>
\* Strokes leave the board, their points the count, and users their pens.
Forget(gone, penless) ==
    /\ board' = Without(gone)
    /\ inkPoints' = PointsOf(Without(gone))
    /\ stale' = stale \ gone
    /\ pens' = [u \in Author |-> IF u \in penless THEN NoPen ELSE pens[u]]
    /\ UNCHANGED <<author, nextId>>

ClearInk(u) ==
    /\ u \in present /\ pc[u] = Idle
    /\ \/ Forget(Mine(u), {u})
       \/ Forget(OnBoard, Author)
    /\ Then(u, MustSnapshot)
    /\ CrossAll(u, FALSE)
    /\ UNCHANGED viewerVars

ExpireInk ==
    /\ pc[Fade] = Idle
    /\ stale # {}
    /\ Forget(stale, {u \in Author : pens[u] \in stale})
    /\ Then(Fade, MustSnapshot)
    /\ CrossAll(Fade, FALSE)
    /\ UNCHANGED viewerVars

\* InkSnapshot, under the lock again.
InkSnapshot(p) ==
    /\ pc[p].at = "snapshot"
    /\ Then(p, MustSend(Canvas(board)))
    /\ UNCHANGED <<boardVars, viewerVars, excuses>>

\* A stroke grows old.
Ages(i) ==
    /\ i \in OnBoard \ stale
    /\ stale' = stale \cup {i}
    /\ UNCHANGED <<board, author, inkPoints, pens, nextId, viewerVars, pc, excuses>>

-----------------------------------------------------------------------------
(* BroadcastInk, the control queues and the repair *)

HasRoom(u) == Len(ctl[u]) < CtlBuffer

MissedNobody == {}
\* Viewers whose queue has no room get a canvas later.
Missed == {u \in Viewers : ~ HasRoom(u)}

BroadcastInk(p) ==
    /\ pc[p].at = "send"
    /\ ctl' = [u \in Watched |-> IF u \in Viewers /\ HasRoom(u)
                                 THEN Append(ctl[u], pc[p].msg) ELSE ctl[u]]
    /\ needs' = needs \cup Missed
    /\ Then(p, Idle)
    /\ SetRight(IF Busy = {p} /\ pc[p].msg = Canvas(board) THEN {u \in Viewers : ctl[u] = <<>>} ELSE {})
    /\ UNCHANGED <<boardVars, present, client, repairing>>

\* InkStore.apply and InkStore.reset.
Applied(store, m) ==
    IF m.kind = "canvas" THEN m.canvas
    ELSE [store EXCEPT ![m.id] = @ + 1]

DeliverInk(u) ==
    /\ u \in Viewers \ repairing /\ ctl[u] # <<>>
    /\ client' = [client EXCEPT ![u] = Applied(@, Head(ctl[u]))]
    /\ ctl' = [ctl EXCEPT ![u] = Tail(@)]
    /\ UNCHANGED <<boardVars, present, needs, repairing, pc, excuses>>

\* The ticker of the writing goroutine: TakeCanvasRepair ...
TakeCanvasRepair(u) ==
    /\ u \in needs \ repairing
    /\ needs' = needs \ {u}
    /\ repairing' = repairing \cup {u}
    /\ UNCHANGED <<boardVars, present, ctl, client, pc, excuses>>

\* ... then a snapshot, written to the socket past all that is queued.
WriteRepair(u) ==
    /\ u \in repairing
    /\ client' = [client EXCEPT ![u] = board]
    /\ repairing' = repairing \ {u}
    /\ IF ctl[u] # <<>> \/ Busy # {}
       THEN crossed' = crossed \cup {u} /\ UNCHANGED leftover
       ELSE SetRight({u})
    /\ UNCHANGED <<boardVars, present, ctl, needs, pc>>

-----------------------------------------------------------------------------
(* AdmitControl and Leave, and the page between two sockets *)

NothingOnArrival == <<>>
CanvasOnArrival == IF OnBoard # {} THEN <<Canvas(board)>> ELSE <<>>

\* The page keeps the strokes it shows, and hears nothing of an empty board.
Admit(u) ==
    /\ u \notin present
    /\ present' = present \cup {u}
    /\ ctl' = [ctl EXCEPT ![u] = CanvasOnArrival]
    /\ crossed' = IF Busy # {} THEN crossed \cup ({u} \cap Watched) ELSE crossed
    /\ leftover' = [v \in Watched |->
                      IF v # u THEN leftover[v]
                      ELSE {i \in Id : OnBoard = {} /\ client[v][i] > 0}]
    /\ UNCHANGED <<boardVars, client, needs, repairing, pc>>

\* The strokes stay; the pen goes with the last of the user's sockets, which
\* may be a media socket that stays.
Leave(u) ==
    /\ u \in present /\ pc[u] = Idle
    /\ present' = present \ {u}
    /\ needs' = needs \ {u} /\ repairing' = repairing \ {u}
    /\ ctl' = [ctl EXCEPT ![u] = <<>>]
    /\ SetRight({u})
    /\ \/ pens' = [pens EXCEPT ![u] = NoPen]
       \/ UNCHANGED pens
    /\ UNCHANGED <<board, author, inkPoints, nextId, stale, client, pc>>

\* While u is away strokes fade from its page, and one that is loaded anew
\* shows none.
PageAlone(u) ==
    /\ u \notin present
    /\ \E kept \in SUBSET Id :
           client' = [client EXCEPT ![u] = [i \in Id |-> IF i \in kept THEN @[i] ELSE 0]]
    /\ UNCHANGED <<boardVars, present, ctl, needs, repairing, pc, excuses>>

-----------------------------------------------------------------------------
InkNext ==
    \/ \E u \in Author : AppendInk(u) \/ ClearInk(u) \/ Admit(u) \/ Leave(u)
    \/ \E u \in Watched : DeliverInk(u) \/ TakeCanvasRepair(u) \/ WriteRepair(u) \/ PageAlone(u)
    \/ \E p \in Proc : InkSnapshot(p) \/ BroadcastInk(p)
    \/ ExpireInk
    \/ \E i \in Id : Ages(i)

InkSpec == InkInit /\ [][InkNext]_inkVars

\* The goroutine that writes to a viewer goes on for as long as the page reads;
\* else the ping fails and the viewer leaves.
InkFairness ==
    \A u \in Watched : /\ WF_inkVars(DeliverInk(u))
                       /\ WF_inkVars(TakeCanvasRepair(u)) /\ WF_inkVars(WriteRepair(u))
InkFairSpec == InkSpec /\ InkFairness

-----------------------------------------------------------------------------
(* Properties *)

\* The room's cap on ink counts what is on the board: cleared, expired and
\* abandoned strokes free their points, and nobody draws on a stroke that has
\* left the board.
InkIsAccountedFor ==
    /\ inkPoints = PointsOf(board)
    /\ \A u \in Author : pens[u] # NoPen => board[pens[u]] > 0 /\ author[pens[u]] = u
    /\ Cardinality(OnBoard) <= MaxStrokes
    /\ \A u \in Author : Cardinality(Mine(u)) <= MaxStrokesPerUser

\* Nothing on its way to u.
Quiet(u) ==
    /\ u \in Viewers \ (needs \cup repairing)
    /\ ctl[u] = <<>> /\ Busy = {}

\* What u sees is the board, each stroke with its points once, and besides it
\* nothing but strokes that its page kept when it came back to an empty board.
Agrees(u) == \A i \in Id : client[u][i] = board[i] \/ i \in leftover[u]

\* However slowly u reads, whenever it came, and whatever its page had kept or
\* missed: once nothing is on its way, u sees the board.  Two excuses, both
\* what the code does, end with the next whole board that nothing crosses:
\* updates that crossed, and strokes that left the board while u was away
\* (room.go:139 sends an empty board to nobody).
QuietBoardsAgree == \A u \in Watched : Quiet(u) /\ u \notin crossed => Agrees(u)

\* A viewer whose queue ran full misses ink; when drawing stops it is shown the
\* board in the end, though nobody sends anything any more: the flag leads to
\* a repair, and nothing takes it away before (room.go:387, gateway.go:579).
ScreensCatchUp ==
    \A u \in Watched :
        <>[](u \in present /\ Busy = {}) => <>[](u \in crossed \/ Agrees(u))
=============================================================================
