---------------------------- MODULE FanoutProofs ----------------------------
(***************************************************************************)
(* RoomFanout for any number of viewers and agent connections and any      *)
(* queue length.                                                           *)
(***************************************************************************)
EXTENDS RoomFanout, TLAPS

\* A viewer that neither waits nor is excused has all that the stream's next
\* delta is decoded from.  This is what makes DeltaFollowsItsFrame inductive.
InStep ==
    \A v \in present : v \notin needsKey /\ v \notin excused
        => stream \in Conn /\ picture[v] \in {stream, "blank"}

Inv == TypeOK /\ InputFindsAgent /\ InStep

\* Nothing is connected and nobody watches at first.
LEMMA InitInv == Init => Inv
<1> SUFFICES ASSUME Init  PROVE Inv
  OBVIOUS
<1>1. queued \in [Viewer -> 0 .. MediaBuffer]  BY FanoutAssumption DEF Init
<1>2. TypeOK  BY <1>1 DEF Init, TypeOK
<1>3. InputFindsAgent /\ InStep  BY DEF Init, InputFindsAgent, InStep
<1> QED  BY <1>2, <1>3 DEF Inv

\* Sent and Dropped divide the viewers a chunk is offered to.
LEMMA SentOrDropped ==
    ASSUME NEW kind
    PROVE  /\ Sent(kind) \subseteq present /\ Dropped(kind) \subseteq present
           /\ kind = "delta" => Sent(kind) \cap needsKey = {}
           /\ kind # "delta" => Sent(kind) \cup Dropped(kind) = present
           /\ kind = "delta" => Sent(kind) \cup Dropped(kind) = present \ needsKey
           /\ \A v \in Sent(kind) : queued[v] < MediaBuffer
  BY DEF Sent, Dropped, Offered, HasRoom

\* The actions of one agent connection keep the invariant.
LEMMA AgentKeepsInv ==
    ASSUME Inv, NEW c \in Conn,
           Accept(c) \/ ResetStream(c) \/ Disconnect(c) \/ CloseAgent
    PROVE  Inv'
<1> USE FanoutAssumption DEF Inv, TypeOK, InputFindsAgent, InStep,
        cacheVars, viewerVars
<1>1. CASE Accept(c)  BY <1>1 DEF Accept
<1>2. CASE ResetStream(c)  BY <1>2 DEF ResetStream
<1>3. CASE Disconnect(c)
  <2>1. TypeOK'  BY <1>3 DEF Disconnect, Unregister
  <2>2. InputFindsAgent'  BY <1>3 DEF Disconnect, Unregister
  <2>3. InStep'  BY <1>3 DEF Disconnect
  <2> QED  BY <2>1, <2>2, <2>3
<1>4. CASE CloseAgent  BY <1>4 DEF CloseAgent
<1> QED  BY <1>1, <1>2, <1>3, <1>4

\* A video frame reaches some viewers and makes the others wait.
LEMMA VideoKeepsInv ==
    ASSUME Inv, NEW c \in Conn, NEW kind \in {"key", "delta"}, PublishVideo(c, kind)
    PROVE  Inv'
<1> USE FanoutAssumption DEF Inv
<1>1. TypeOK'
  <2>1. queued' \in [Viewer -> 0 .. MediaBuffer]
    BY SentOrDropped DEF PublishVideo, TypeOK
  <2>2. picture' \in [Viewer -> Conn \cup {"blank", "broken"}]
    BY DEF PublishVideo, TypeOK, PictureAfter
  <2>3. needsKey' \subseteq present' /\ excused' \subseteq present'
    BY SentOrDropped DEF PublishVideo, TypeOK, Waiting
  <2> QED  BY <2>1, <2>2, <2>3 DEF PublishVideo, TypeOK, agentVars
<1>2. InputFindsAgent'  BY DEF PublishVideo, InputFindsAgent, agentVars
<1>3. InStep'
  <2> SUFFICES ASSUME NEW v \in present, v \notin needsKey', v \notin excused'
               PROVE  stream \in Conn /\ picture'[v] \in {stream, "blank"}
    BY DEF InStep, PublishVideo
  <2>1. v \in Viewer /\ picture'[v] = PictureAfter(c, kind, v)
    BY DEF PublishVideo, TypeOK
  <2>2. CASE c = stream /\ kind = "key"
    <3>1. v \in Sent(kind)  BY <2>2, SentOrDropped DEF PublishVideo, Waiting
    <3> QED  BY <2>1, <2>2, <3>1 DEF PictureAfter
  <2>3. CASE c = stream /\ kind = "delta"
    <3>1. v \in Sent(kind) /\ v \notin needsKey /\ v \notin excused
      BY <2>3, SentOrDropped DEF PublishVideo, Waiting
    <3> QED  BY <2>1, <2>3, <3>1 DEF PictureAfter, InStep
  <2>4. CASE c # stream
    <3>1. v \notin Sent(kind) /\ v \notin excused
      BY <2>4 DEF PublishVideo
    <3>2. v \notin needsKey /\ kind = "delta" => v \in Dropped(kind)
      BY <3>1, SentOrDropped
    <3>3. kind = "key" => v \in Dropped(kind)
      BY <3>1, SentOrDropped
    <3> QED  BY <3>1, <3>2, <3>3 DEF PublishVideo, Waiting
  <2> QED  BY <2>2, <2>3, <2>4
<1> QED  BY <1>1, <1>2, <1>3

\* Audio and configurations change nothing but the queues.
LEMMA OtherKeepsInv ==
    ASSUME Inv, NEW c \in Conn, NEW kind, PublishOther(c, kind)
    PROVE  Inv'
<1>1. TypeOK'
  BY SentOrDropped, FanoutAssumption DEF Inv, TypeOK, PublishOther, agentVars
<1>2. InputFindsAgent' /\ InStep'
  BY DEF Inv, InputFindsAgent, InStep, PublishOther, agentVars
<1> QED  BY <1>1, <1>2 DEF Inv

\* A viewer comes, reads or goes.
LEMMA ViewerKeepsInv ==
    ASSUME Inv, NEW v \in Viewer, Admit(v) \/ Read(v) \/ Leave(v) \/ Evict
    PROVE  Inv'
<1> USE FanoutAssumption DEF Inv, InStep, InputFindsAgent, agentVars, cacheVars
<1>1. CASE Admit(v)
  <2>1. queued' \in [Viewer -> 0 .. MediaBuffer]  BY <1>1 DEF Admit, TypeOK
  <2>2. picture' \in [Viewer -> Conn \cup {"blank", "broken"}]
    BY <1>1 DEF Admit, TypeOK
  <2>3. TypeOK'  BY <1>1, <2>1, <2>2 DEF Admit, TypeOK
  <2>4. InStep'
    <3> SUFFICES ASSUME NEW w \in present', w \notin needsKey', w \notin excused'
                 PROVE  stream' \in Conn /\ picture'[w] \in {stream', "blank"}
      BY DEF InStep
    <3>1. CASE w = v  BY <1>1, <3>1 DEF Admit, TypeOK
    <3>2. CASE w # v  BY <1>1, <3>2 DEF Admit, TypeOK
    <3> QED  BY <3>1, <3>2
  <2>5. InputFindsAgent'  BY <1>1 DEF Admit
  <2> QED  BY <2>3, <2>4, <2>5
<1>2. CASE Read(v)  BY <1>2 DEF Read, TypeOK
<1>3. ASSUME NEW gone \in SUBSET Viewer, Without(gone)  PROVE Inv'
  <2>1. TypeOK'  BY <1>3 DEF Without, TypeOK
  <2>2. InStep' /\ InputFindsAgent'  BY <1>3 DEF Without, TypeOK
  <2> QED  BY <2>1, <2>2
<1>4. CASE Leave(v)  BY <1>4, <1>3 DEF Leave
<1>5. CASE Evict  BY <1>5, <1>3 DEF Evict, TypeOK
<1> QED  BY <1>1, <1>2, <1>4, <1>5

\* The inductive invariant holds in every reachable state.
THEOREM Invariance == Spec => []Inv
<1>1. Inv /\ [Next]_vars => Inv'
  <2> SUFFICES ASSUME Inv, [Next]_vars  PROVE Inv'
    OBVIOUS
  <2>1. CASE \E c \in Conn : Accept(c) \/ ResetStream(c) \/ Disconnect(c)
    BY <2>1, AgentKeepsInv
  <2>2. CASE \E c \in Conn, kind \in {"key", "delta"} : PublishVideo(c, kind)
    BY <2>2, VideoKeepsInv
  <2>3. CASE \E c \in Conn, kind \in {"config", "audio"} : PublishOther(c, kind)
    BY <2>3, OtherKeepsInv
  <2>4. CASE CloseAgent
    <3>1. agents \in Conn  BY <2>4 DEF CloseAgent, Inv, TypeOK
    <3> QED  BY <2>4, <3>1, AgentKeepsInv
  <2>5. CASE \E v \in Viewer : Admit(v) \/ Read(v) \/ Leave(v)
    BY <2>5, ViewerKeepsInv
  <2>6. CASE Evict
    <3>1. PICK v \in Viewer : TRUE  BY <2>6 DEF Evict, Inv, TypeOK
    <3> QED  BY <2>6, <3>1, ViewerKeepsInv
  <2>7. CASE UNCHANGED vars
    BY <2>7 DEF Inv, TypeOK, InputFindsAgent, InStep, vars, agentVars, cacheVars, viewerVars
  <2> QED  BY <2>1, <2>2, <2>3, <2>4, <2>5, <2>6, <2>7 DEF Next
<1> QED  BY InitInv, <1>1, PTL DEF Spec

\* Every variable of the fan-out keeps its type; above all no queue outgrows
\* its channel.
THEOREM FanoutTypes == Spec => []TypeOK
  BY Invariance, PTL DEF Inv

\* Input always goes to the agent that connected last, or to none.
THEOREM InputGoesToLatestAgent == Spec => []InputFindsAgent
  BY Invariance, PTL DEF Inv

\* Outside the two excused cases a viewer is never sent a delta it cannot
\* decode.
THEOREM DeltasDecode == Spec => DeltaFollowsItsFrame
<1>1. Inv /\ [Next]_vars =>
        [\A c \in Conn : PublishVideo(c, "delta") /\ c = stream =>
             \A v \in Sent("delta") \ excused : picture[v] \in {c, "blank"}]_vars
  BY SentOrDropped DEF Inv, InStep
<1> QED  BY <1>1, Invariance, PTL DEF Spec, DeltaFollowsItsFrame
=============================================================================
