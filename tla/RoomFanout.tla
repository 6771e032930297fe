----------------------------- MODULE RoomFanout -----------------------------
(***************************************************************************)
(* How one room passes its agent's stream on to its viewers                *)
(* (internal/room/room.go) while agents come and go (the agent handler and *)
(* closeAgent of internal/gateway/gateway.go).  Each agent connection has  *)
(* a handler goroutine; the handler of a connection that was replaced may  *)
(* go on reading, and publishing, what was sent before.                    *)
(*                                                                         *)
(* A frame is "key" or "delta".  Within one connection every delta is      *)
(* decoded with the video frame before it; frames between connections are  *)
(* lost.  The content of a viewer's queue is abstracted to its length, and *)
(* what the viewer has been sent to picture[v].                            *)
(***************************************************************************)
EXTENDS Naturals, FiniteSets

CONSTANTS Viewer,       \* media sockets
          Conn,         \* agent connections
          NoConn,
          MediaBuffer   \* mediaBuffer, the capacity of Viewer.Media

ASSUME FanoutAssumption ==
    /\ NoConn \notin Conn
    /\ MediaBuffer \in Nat /\ MediaBuffer >= 3
    /\ {"blank", "broken"} \cap Conn = {}

VARIABLES
    phase,    \* phase[c]: how far the handler of connection c is
    agents,   \* g.agents[room], the connection input is sent to
    config,   \* Room.videoConfig is set
    keyOf,    \* the connection Room.lastKeyframe came over, NoConn if nil
    present,  \* Room.viewers
    queued,   \* queued[v]: chunks in v's Media queue
    needsKey, \* viewers whose needsKeyframe is set
    \* What an observer knows and the code does not keep:
    latest,   \* the connection registered last
    kicked,   \* connections closeAgent took out of g.agents
    stream,   \* the connection that called ResetStream last
    atKey,    \* connections whose last video frame is the cached keyframe
    picture,  \* picture[v]: the connection whose last video frame v was sent,
              \* with all it is decoded from; "blank" before v's first
              \* keyframe, "broken" when v misses frames
    excused   \* viewers let in between keyframes, or sent frames of a
              \* replaced connection, and no keyframe of the stream since

agentVars == <<phase, agents, latest, kicked>>
cacheVars == <<config, keyOf, atKey, stream>>
viewerVars == <<present, queued, needsKey, picture, excused>>
vars == <<agentVars, cacheVars, viewerVars>>

TypeOK ==
    /\ phase \in [Conn -> {"closed", "accepted", "open"}]
    /\ agents \in Conn \cup {NoConn} /\ latest \in Conn \cup {NoConn}
    /\ kicked \subseteq Conn
    /\ config \in BOOLEAN /\ keyOf \in Conn \cup {NoConn}
    /\ atKey \subseteq Conn /\ stream \in Conn \cup {NoConn}
    /\ present \subseteq Viewer
    /\ queued \in [Viewer -> 0 .. MediaBuffer]
    /\ needsKey \subseteq present /\ excused \subseteq present
    /\ picture \in [Viewer -> Conn \cup {"blank", "broken"}]

Init ==
    /\ phase = [c \in Conn |-> "closed"]
    /\ agents = NoConn /\ latest = NoConn /\ kicked = {}
    /\ config = FALSE /\ keyOf = NoConn /\ atKey = {} /\ stream = NoConn
    /\ present = {} /\ needsKey = {} /\ excused = {}
    /\ queued = [v \in Viewer |-> 0]
    /\ picture = [v \in Viewer |-> "blank"]

-----------------------------------------------------------------------------
(* Agent connections *)

\* The handler registers its connection, whatever was registered before ...
Accept(c) ==
    /\ phase[c] = "closed"
    /\ phase' = [phase EXCEPT ![c] = "accepted"]
    /\ agents' = c /\ latest' = c
    /\ kicked' = kicked \ {c}
    /\ UNCHANGED <<cacheVars, viewerVars>>

\* ... then forgets the old stream and makes every viewer wait.
ResetStream(c) ==
    /\ phase[c] = "accepted"
    /\ phase' = [phase EXCEPT ![c] = "open"]
    /\ config' = FALSE /\ keyOf' = NoConn /\ atKey' = {} /\ stream' = c
    /\ needsKey' = present
    /\ excused' = {}
    /\ UNCHANGED <<agents, latest, kicked, present, queued, picture>>

UnregisterAny(c) == NoConn
Unregister(c) == IF agents = c THEN NoConn ELSE agents

\* The read fails: the agent went away, was pinged in vain, was closed.
Disconnect(c) ==
    /\ phase[c] # "closed"
    /\ phase' = [phase EXCEPT ![c] = "closed"]
    /\ agents' = Unregister(c)
    /\ UNCHANGED <<latest, kicked, cacheVars, viewerVars>>

\* The watchdog or the room's end drops the registered agent; its handler
\* ends later.
CloseAgent ==
    /\ agents # NoConn
    /\ agents' = NoConn
    /\ kicked' = kicked \cup {agents}
    /\ UNCHANGED <<phase, latest, cacheVars, viewerVars>>

-----------------------------------------------------------------------------
(* Publish, for one chunk of an agent connection, under Room.mu *)

HasRoom(v) == queued[v] < MediaBuffer

\* Viewers the chunk is offered to: those that wait take no delta.
Offered(kind) == IF kind = "delta" THEN present \ needsKey ELSE present

Sent(kind) == {v \in Offered(kind) : HasRoom(v)}
Dropped(kind) == Offered(kind) \ Sent(kind)

\* A waiting viewer is done waiting when it is sent a keyframe; whoever
\* misses a video frame starts waiting.
WaitingForgetful(kind) == IF kind = "key" THEN needsKey \ Sent(kind) ELSE needsKey
WaitingForEver(kind) ==
    IF kind \in {"key", "delta"} THEN needsKey \cup Dropped(kind) ELSE needsKey
Waiting(kind) ==
    CASE kind = "key"   -> Dropped(kind)
      [] kind = "delta" -> needsKey \cup Dropped(kind)
      [] OTHER          -> needsKey

\* The picture of v after connection c published a video frame.
PictureAfter(c, kind, v) ==
    CASE v \in Sent(kind) /\ kind = "key" -> c
      [] v \in Sent(kind) /\ kind = "delta" /\ picture[v] \notin {c, "blank"} -> "broken"
      [] v \notin Sent(kind) /\ picture[v] = c -> "broken"
      [] OTHER -> picture[v]

PublishVideo(c, kind) ==
    /\ phase[c] = "open"
    /\ queued' = [v \in Viewer |-> IF v \in Sent(kind) THEN queued[v] + 1 ELSE queued[v]]
    /\ needsKey' = Waiting(kind)
    /\ keyOf' = IF kind = "key" THEN c ELSE keyOf
    /\ atKey' = IF kind = "key" THEN {c} ELSE atKey \ {c}
    /\ picture' = [v \in Viewer |-> IF v \in present THEN PictureAfter(c, kind, v)
                                                     ELSE picture[v]]
    /\ excused' = IF c # stream THEN excused \cup Sent(kind)
                  ELSE IF kind = "key" THEN excused \ Sent(kind) ELSE excused
    /\ UNCHANGED <<agentVars, config, stream, present>>

\* Audio, and the decoder's configuration that goes before each keyframe.
PublishOther(c, kind) ==
    /\ phase[c] = "open"
    /\ kind \in {"config", "audio"}
    /\ queued' = [v \in Viewer |-> IF v \in Sent(kind) THEN queued[v] + 1 ELSE queued[v]]
    /\ config' = (config \/ kind = "config")
    /\ UNCHANGED <<agentVars, keyOf, atKey, stream, present, needsKey, picture, excused>>

-----------------------------------------------------------------------------
(* Viewers *)

\* The new viewer is sent the configuration and the keyframe the room keeps.
Admit(v) ==
    /\ v \notin present
    /\ present' = present \cup {v}
    /\ queued' = [queued EXCEPT ![v] = (IF config THEN 1 ELSE 0)
                                       + (IF keyOf # NoConn THEN 1 ELSE 0)]
    /\ picture' = [picture EXCEPT ![v] =
                      CASE keyOf = NoConn -> "blank"
                        [] keyOf \in atKey -> keyOf
                        [] OTHER -> "broken"]
    /\ excused' = IF keyOf # NoConn /\ keyOf = stream /\ keyOf \in atKey
                  THEN excused ELSE excused \cup {v}
    /\ UNCHANGED <<agentVars, cacheVars, needsKey>>

\* viewerMedia writes a chunk to the socket.
Read(v) ==
    /\ v \in present /\ queued[v] > 0
    /\ queued' = [queued EXCEPT ![v] = @ - 1]
    /\ UNCHANGED <<agentVars, cacheVars, present, needsKey, picture, excused>>

\* Leave of one viewer, Evict of all.
Without(gone) ==
    /\ present' = present \ gone
    /\ needsKey' = needsKey \ gone /\ excused' = excused \ gone
    /\ queued' = [v \in Viewer |-> IF v \in gone THEN 0 ELSE queued[v]]
    /\ picture' = [v \in Viewer |-> IF v \in gone THEN "blank" ELSE picture[v]]
    /\ UNCHANGED <<agentVars, cacheVars>>

Leave(v) == v \in present /\ Without({v})
Evict == present # {} /\ Without(present)

-----------------------------------------------------------------------------
Next ==
    \/ \E c \in Conn :
          \/ Accept(c) \/ ResetStream(c) \/ Disconnect(c)
          \/ \E kind \in {"key", "delta"} : PublishVideo(c, kind)
          \/ \E kind \in {"config", "audio"} : PublishOther(c, kind)
    \/ CloseAgent
    \/ \E v \in Viewer : Admit(v) \/ Read(v) \/ Leave(v)
    \/ Evict

Spec == Init /\ [][Next]_vars

\* The encoder makes a keyframe again and again, and viewers that keep up
\* have room for one again and again.
Fairness ==
    \A v \in Viewer :
        /\ WF_vars(Read(v))
        /\ SF_vars(\E c \in Conn : PublishVideo(c, "key") /\ v \in Sent("key"))

FairSpec == Spec /\ Fairness

\* Agents that stay connected.
AgentComesBack == []<>(\E c \in Conn : phase[c] = "open")

-----------------------------------------------------------------------------
(* Properties *)

\* Input goes to the agent connected last: the clean-up of a handler whose
\* connection was replaced takes nothing away from its successor, and no
\* closed connection stays registered.
InputFindsAgent ==
    agents = IF latest # NoConn /\ latest \notin kicked /\ phase[latest] # "closed"
             THEN latest ELSE NoConn

\* room_test.go "it must wait for a keyframe or it decodes garbage": a delta is
\* sent only to a viewer that was sent what it is decoded from, however frames
\* are dropped, agents replaced and viewers admitted; but see excused.
DeltaFollowsItsFrame ==
    [][\A c \in Conn : PublishVideo(c, "delta") /\ c = stream =>
           \A v \in Sent("delta") \ excused : picture[v] \in {c, "blank"}]_vars

\* A viewer that fell behind gets the stream back.
WaitingViewerResumes ==
    AgentComesBack => \A v \in Viewer : v \in needsKey ~> v \notin needsKey
=============================================================================
