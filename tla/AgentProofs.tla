----------------------------- MODULE AgentProofs -----------------------------
(***************************************************************************)
(* Proofs about AgentLink for every value of its constants: its types, and *)
(* the three invariants of the run, from one inductive invariant.          *)
(***************************************************************************)
EXTENDS AgentLink, TLAPS

-----------------------------------------------------------------------------
(* Types, in three parts that are kept for different reasons *)

Flags ==
    /\ mute \in BOOLEAN /\ ended \in BOOLEAN /\ pending \in BOOLEAN
    /\ fatal \in BOOLEAN /\ runDone \in BOOLEAN /\ stopped \in BOOLEAN
Queue == orders \in Seq({"input", "restart"}) /\ Len(orders) <= MaxOrders
Places ==
    /\ at \in Away \cup InSession
    /\ sock \in {"none", "open", "stale", "gone", "shut"}
    /\ conn \in {"nil", "mine"} /\ cancel \in Reference
    /\ pub \in [at : {"idle", "write", "drop", "close"}, conn : Reference, cancel : Reference]
    /\ cdp \in {"open", "broken", "swept", "closed"}
    /\ failing \in {"no", "first", "done"}
    /\ result \in {"none", "nil", "error"}
    /\ sock = "none" <=> at \in Away
    /\ at \in Away => conn = "nil"
    /\ result # "none" <=> at = "over"

\* Only the session under way has a connection that is referred to as its own.
OwnInSession == pub.conn = "mine" => at \in InSession

LEMMA TypeParts == TypeOK <=> Flags /\ Queue /\ Places
  BY DEF TypeOK, Flags, Queue, Places

LEMMA InitTyped == Init => TypeOK
<1> SUFFICES ASSUME Init PROVE Flags /\ Queue /\ Places
  BY TypeParts
<1>1. Flags
  BY DEF Init, Flags
<1>2. Queue
  BY LinkAssumption DEF Init, Queue
<1>3. Places
  BY DEF Init, Places, AtRest, Away, InSession, Calling, Reference
<1>4. QED
  BY <1>1, <1>2, <1>3

\* Flags are only ever set, cleared, or copied from other flags.
LEMMA FlagsKept == Flags /\ [Next]_vars => Flags'
<1> SUFFICES ASSUME Flags, [Next]_vars PROVE Flags'
  OBVIOUS
<1> USE DEF Flags, sessionVars, cdpVars, endVars
<1>1. CASE Session
  BY <1>1 DEF Session, Dial, DialFails, KeepCancel, ReadOrder, SessionEnds, Backoff
<1>2. CASE Command
  <2>1. CASE Obey \/ ObeyEnds
    BY <2>1 DEF Obey, ObeyEnds, LeaveError, CancelRun
  <2>2. CASE Refuse \/ Check \/ Register \/ WriteCall
    BY <2>2 DEF Refuse, Check, Register, WriteCall, Step
  <2>3. CASE WriteCallFails \/ TakeAnswer \/ GiveUp \/ Report
    BY <2>3 DEF WriteCallFails, TakeAnswer, GiveUp, Report, Step, ForgetCall
  <2>4. QED
    BY <1>2, <2>1, <2>2, <2>3 DEF Command
<1>3. CASE Transport
  BY <1>3 DEF Transport, Answer, Sweep, CloseTransport
<1>4. CASE Streaming
  <2>1. CASE Publish \/ Written \/ WriteFails \/ DropConn
    BY <2>1 DEF Publish, Written, WriteFails, DropConn
  <2>2. CASE CloseConn
    BY <2>2 DEF CloseConn, CancelTaken
  <2>3. QED
    BY <1>4, <2>1, <2>2 DEF Streaming
<1>5. CASE Ending
  <2>1. CASE Fail \/ FailEnds \/ Stop
    BY <2>1 DEF Fail, FailEnds, Stop, LeaveError, CancelRun
  <2>2. CASE Boot
    BY <2>2 DEF Boot
  <2>3. QED
    BY <1>5, <2>1, <2>2 DEF Ending
<1>6. CASE World
  BY <1>6 DEF World, Close, PingFails, Vanish, ChangeCapture, LoseChromium, Order
<1>7. CASE UNCHANGED vars
  BY <1>7 DEF vars
<1>8. QED
  BY <1>1, <1>2, <1>3, <1>4, <1>5, <1>6, <1>7 DEF Next

\* Commands are read, added while there is room, or lost with the session.
LEMMA QueueKept == Queue /\ [Next]_vars => Queue'
<1> SUFFICES ASSUME Queue, [Next]_vars PROVE Queue'
  OBVIOUS
<1> USE LinkAssumption DEF Queue, sessionVars
<1>1. CASE ReadOrder
  <2>1. orders' = Tail(orders) /\ orders # <<>>
    BY <1>1 DEF ReadOrder
  <2>2. QED
    BY <2>1
<1>2. CASE Dial \/ SessionEnds \/ Boot
  <2>1. orders' = <<>>
    BY <1>2 DEF Dial, SessionEnds, Boot
  <2>2. QED
    BY <2>1
<1>3. ASSUME NEW order \in {"input", "restart"}, Order(order) PROVE Queue'
  <2>1. orders' = Append(orders, order) /\ Len(orders) < MaxOrders
    BY <1>3 DEF Order
  <2>2. QED
    BY <2>1
<1>4. CASE UNCHANGED orders
  BY <1>4
<1>5. ASSUME Session \/ Command \/ Transport
      PROVE  ReadOrder \/ Dial \/ SessionEnds \/ UNCHANGED orders
  BY <1>5 DEF Session, Dial, DialFails, KeepCancel, Backoff, Command, Refuse, Check, Register,
     WriteCall, WriteCallFails, TakeAnswer, GiveUp, Report, Obey, ObeyEnds, Step,
     Transport, Answer, Sweep, CloseTransport
<1>6. ASSUME Streaming \/ Ending PROVE Boot \/ UNCHANGED orders
  BY <1>6 DEF Streaming, Publish, Written, WriteFails, DropConn, CloseConn,
     Ending, Fail, FailEnds, Stop
<1>7. ASSUME World
      PROVE  (\E order \in {"input", "restart"} : Order(order)) \/ UNCHANGED orders
  BY <1>7 DEF World, Close, PingFails, Vanish, ChangeCapture, LoseChromium
<1>8. QED
  BY <1>1, <1>2, <1>3, <1>4, <1>5, <1>6, <1>7 DEF Next, vars

\* The clauses that tie the connection to the reader's place need each step
\* to move both, and CloseConn to come only while its session lasts.
LEMMA PlacesKept == Flags /\ Places /\ OwnInSession /\ [Next]_vars => Places'
<1> SUFFICES ASSUME Flags, Places, OwnInSession, [Next]_vars PROVE Places'
  OBVIOUS
<1> USE DEF Places, Away, InSession, Calling, Reference
<1>1. CASE Session
  <2>1. CASE Dial \/ KeepCancel
    BY <2>1 DEF Dial, KeepCancel, cdpVars, endVars
  <2>2. CASE DialFails
    BY <2>2 DEF DialFails, Return, cdpVars
  <2>3. CASE ReadOrder
    BY <2>3 DEF ReadOrder, cdpVars, endVars
  <2>4. CASE SessionEnds
    <3>1. pub' \in [at : {"idle", "write", "drop", "close"}, conn : Reference, cancel : Reference]
      BY <2>4 DEF SessionEnds, Left
    <3>2. cancel' \in Reference /\ conn' = "nil"
      BY <2>4 DEF SessionEnds, TakeBack, Left
    <3>3. QED
      BY <2>4, <3>1, <3>2 DEF SessionEnds, Return, cdpVars
  <2>5. CASE Backoff
    BY <2>5 DEF Backoff, Return, cdpVars
  <2>6. QED
    BY <1>1, <2>1, <2>2, <2>3, <2>4, <2>5 DEF Session
<1>2. CASE Command
  <2>1. CASE Obey \/ ObeyEnds
    BY <2>1 DEF Obey, ObeyEnds, cdpVars
  <2>2. CASE Refuse \/ Check \/ Register \/ WriteCall
    BY <2>2 DEF Refuse, Check, Register, WriteCall, Step, cdpVars, endVars
  <2>3. CASE WriteCallFails \/ TakeAnswer \/ GiveUp \/ Report
    BY <2>3 DEF WriteCallFails, TakeAnswer, GiveUp, Report, Step, cdpVars, endVars
  <2>4. QED
    BY <1>2, <2>1, <2>2, <2>3 DEF Command
<1>3. CASE Transport
  BY <1>3 DEF Transport, Answer, Sweep, CloseTransport, sessionVars, endVars
<1>4. CASE Streaming
  <2>1. CASE Publish
    BY <2>1 DEF Publish, Flags, sessionVars, cdpVars, endVars
  <2>2. CASE Written \/ WriteFails
    BY <2>2 DEF Written, WriteFails, AtRest, sessionVars, cdpVars, endVars
  <2>3. CASE DropConn
    <3>1. conn' \in {"nil", "mine"} /\ cancel' \in Reference /\ (at \in Away => conn' = "nil")
      BY <2>3 DEF DropConn
    <3>2. pub' \in [at : {"idle", "write", "drop", "close"}, conn : Reference, cancel : Reference]
      <4>1. CASE IsCurrent
        BY <2>3, <4>1 DEF DropConn
      <4>2. CASE ~IsCurrent
        BY <2>3, <4>2 DEF DropConn, AtRest
      <4>3. QED
        BY <4>1, <4>2
    <3>3. /\ at' = at /\ sock' = sock /\ cdp' = cdp
          /\ failing' = failing /\ result' = result
      BY <2>3 DEF DropConn, cdpVars, endVars
    <3>4. QED
      BY <3>1, <3>2, <3>3
  <2>4. CASE CloseConn
    BY <2>4 DEF CloseConn, CloseNow, OwnInSession, AtRest, cdpVars, endVars
  <2>5. QED
    BY <1>4, <2>1, <2>2, <2>3, <2>4 DEF Streaming
<1>5. CASE Ending
  <2>1. CASE Fail \/ FailEnds \/ Stop
    BY <2>1 DEF Fail, FailEnds, Stop, Flags, sessionVars, cdpVars
  <2>2. CASE Boot
    BY <2>2 DEF Boot, AtRest
  <2>3. QED
    BY <1>5, <2>1, <2>2 DEF Ending
<1>6. CASE World
  <2>1. CASE Close \/ PingFails \/ Vanish
    BY <2>1 DEF Close, PingFails, Vanish, cdpVars, endVars
  <2>2. CASE ChangeCapture \/ LoseChromium
    BY <2>2 DEF ChangeCapture, LoseChromium, sessionVars, cdpVars, endVars
  <2>3. ASSUME NEW order \in {"input", "restart"}, Order(order) PROVE Places'
    BY <2>3 DEF Order, cdpVars, endVars
  <2>4. QED
    BY <1>6, <2>1, <2>2, <2>3 DEF World
<1>7. CASE UNCHANGED vars
  BY <1>7 DEF vars, sessionVars, cdpVars, endVars
<1>8. QED
  BY <1>1, <1>2, <1>3, <1>4, <1>5, <1>6, <1>7 DEF Next

-----------------------------------------------------------------------------
(* The inductive invariant *)

\* Whoever has made runCtx end has left the reason where Run looks.
ErrorFirst ==
    /\ runDone => fatal \/ stopped
    /\ at = "cancel" \/ failing = "first" => fatal
    /\ at # "over" => result = "none"

Inv == TypeOK /\ OwnInSession /\ PendingIsWaited /\ DropsItsOwn
           /\ ErrorFirst /\ NoFailureIsSwallowed

LEMMA InitInv == Init => Inv
  BY InitTyped DEF Init, Inv, OwnInSession, PendingIsWaited, DropsItsOwn,
     ErrorFirst, NoFailureIsSwallowed, AtRest, Calling

LEMMA NextTyped == TypeOK /\ OwnInSession /\ [Next]_vars => TypeOK'
<1>1. TypeOK' <=> Flags' /\ Queue' /\ Places'
  BY DEF TypeOK, Flags, Queue, Places
<1>2. QED
  BY <1>1, TypeParts, FlagsKept, QueueKept, PlacesKept

\* A reference that is "mine" becomes "old" when the session ends.
LEMMA OwnKept == TypeOK /\ OwnInSession /\ DropsItsOwn /\ [Next]_vars
                    => (OwnInSession /\ DropsItsOwn)'
<1> SUFFICES ASSUME TypeOK, OwnInSession, DropsItsOwn, [Next]_vars
             PROVE (OwnInSession /\ DropsItsOwn)'
  OBVIOUS
<1> USE DEF TypeOK, OwnInSession, DropsItsOwn, Away, InSession, Calling, Reference
<1>1. CASE Session
  <2>1. CASE SessionEnds
    BY <2>1 DEF SessionEnds, Left
  <2>2. CASE Dial \/ DialFails \/ KeepCancel \/ ReadOrder \/ Backoff
    BY <2>2 DEF Dial, DialFails, KeepCancel, ReadOrder, Backoff, Return
  <2>3. QED
    BY <1>1, <2>1, <2>2 DEF Session
<1>2. CASE Command
  BY <1>2 DEF Command, Refuse, Check, Register, WriteCall, WriteCallFails, TakeAnswer,
     GiveUp, Report, Obey, ObeyEnds, Step
<1>3. CASE Transport
  BY <1>3 DEF Transport, Answer, Sweep, CloseTransport, sessionVars
<1>4. CASE Streaming
  <2>1. CASE Publish
    <3>1. at \notin Away /\ at' = at /\ pub'.at = "write"
      BY <2>1 DEF Publish, sessionVars
    <3>2. QED
      BY <3>1
  <2>2. CASE Written \/ WriteFails \/ DropConn
    <3>1. at' = at
      BY <2>2 DEF Written, WriteFails, DropConn, sessionVars
    <3>2. CASE pub' = AtRest
      BY <3>1, <3>2 DEF AtRest
    <3>3. CASE WriteFails
      BY <3>1, <3>3 DEF WriteFails
    <3>4. CASE DropConn /\ IsCurrent
      BY <3>1, <3>4 DEF DropConn, IsCurrent
    <3>5. QED
      BY <2>2, <3>2, <3>3, <3>4 DEF Written, DropConn
  <2>3. CASE CloseConn
    BY <2>3 DEF CloseConn, AtRest
  <2>4. QED
    BY <1>4, <2>1, <2>2, <2>3 DEF Streaming
<1>5. CASE Ending
  BY <1>5 DEF Ending, Stop, Boot, Fail, FailEnds, AtRest, sessionVars
<1>6. CASE World
  BY <1>6 DEF World, Close, PingFails, Vanish, ChangeCapture, LoseChromium, Order, sessionVars
<1>7. CASE UNCHANGED vars
  BY <1>7 DEF vars, sessionVars
<1>8. QED
  BY <1>1, <1>2, <1>3, <1>4, <1>5, <1>6, <1>7 DEF Next

\* Whoever stops waiting takes the entry out of the table.
LEMMA PendingKept == TypeOK /\ PendingIsWaited /\ [Next]_vars => PendingIsWaited'
<1> SUFFICES ASSUME TypeOK, PendingIsWaited, [Next]_vars PROVE PendingIsWaited'
  OBVIOUS
<1> USE DEF PendingIsWaited, Calling
<1>1. CASE Session
  BY <1>1 DEF Session, Dial, DialFails, KeepCancel, ReadOrder, SessionEnds, Backoff, Return, cdpVars
<1>2. CASE Command
  BY <1>2 DEF Command, Refuse, Check, Register, WriteCall, WriteCallFails, TakeAnswer,
     GiveUp, Report, Obey, ObeyEnds, Step, ForgetCall, cdpVars
<1>3. CASE Transport
  BY <1>3 DEF Transport, Answer, Sweep, CloseTransport, sessionVars
<1>4. CASE Streaming
  BY <1>4 DEF Streaming, Publish, Written, WriteFails, DropConn, CloseConn, sessionVars, cdpVars
<1>5. CASE Ending
  BY <1>5 DEF Ending, Stop, Boot, Fail, FailEnds, sessionVars, cdpVars
<1>6. CASE World
  BY <1>6 DEF World, Close, PingFails, Vanish, ChangeCapture, LoseChromium, Order, sessionVars, cdpVars
<1>7. CASE UNCHANGED vars
  BY <1>7 DEF vars, sessionVars, cdpVars
<1>8. QED
  BY <1>1, <1>2, <1>3, <1>4, <1>5, <1>6, <1>7 DEF Next

\* The error is in its channel before runCtx ends, and stays there until Run
\* looks.
LEMMA ErrorKept == TypeOK /\ ErrorFirst /\ NoFailureIsSwallowed /\ [Next]_vars
                      => (ErrorFirst /\ NoFailureIsSwallowed)'
<1> SUFFICES ASSUME TypeOK, ErrorFirst, NoFailureIsSwallowed, [Next]_vars
             PROVE (ErrorFirst /\ NoFailureIsSwallowed)'
  OBVIOUS
<1> USE DEF TypeOK, ErrorFirst, NoFailureIsSwallowed
<1>1. CASE Session
  <2>1. CASE Dial \/ KeepCancel \/ ReadOrder
    BY <2>1 DEF Dial, KeepCancel, ReadOrder, endVars
  <2>2. CASE DialFails \/ SessionEnds \/ Backoff
    BY <2>2 DEF DialFails, SessionEnds, Backoff, Return
  <2>3. QED
    BY <1>1, <2>1, <2>2 DEF Session
<1>2. CASE Command
  <2>1. CASE Obey \/ ObeyEnds
    BY <2>1 DEF Obey, ObeyEnds, LeaveError, CancelRun
  <2>2. CASE Refuse \/ Check \/ Register \/ WriteCall \/ WriteCallFails
                \/ TakeAnswer \/ GiveUp \/ Report
    BY <2>2 DEF Refuse, Check, Register, WriteCall, WriteCallFails, TakeAnswer, GiveUp,
       Report, Step, endVars
  <2>3. QED
    BY <1>2, <2>1, <2>2 DEF Command
<1>3. CASE Transport
  BY <1>3 DEF Transport, Answer, Sweep, CloseTransport, sessionVars, endVars
<1>4. CASE Streaming
  BY <1>4 DEF Streaming, Publish, Written, WriteFails, DropConn, CloseConn, sessionVars, endVars
<1>5. CASE Ending
  BY <1>5 DEF Ending, Stop, Boot, Fail, FailEnds, LeaveError, CancelRun, sessionVars
<1>6. CASE World
  BY <1>6 DEF World, Close, PingFails, Vanish, ChangeCapture, LoseChromium, Order,
     sessionVars, endVars
<1>7. CASE UNCHANGED vars
  BY <1>7 DEF vars, sessionVars, endVars
<1>8. QED
  BY <1>1, <1>2, <1>3, <1>4, <1>5, <1>6, <1>7 DEF Next

-----------------------------------------------------------------------------
(* Theorems *)

\* Inv holds in every reachable state.
THEOREM AgentInv == Spec => []Inv
<1>1. Inv /\ [Next]_vars => Inv'
  BY NextTyped, OwnKept, PendingKept, ErrorKept DEF Inv
<1>2. QED
  BY InitInv, <1>1, PTL DEF Spec

\* The connection of the agent, and every reference to it, is of the session
\* under way, or none.
THEOREM AgentTypes == Spec => []TypeOK
<1>1. Inv => TypeOK
  BY DEF Inv
<1>2. QED
  BY AgentInv, <1>1, PTL

\* No call stays in the transport's table that nobody waits for.
THEOREM NoCallIsLeaked == Spec => []PendingIsWaited
<1>1. Inv => PendingIsWaited
  BY DEF Inv
<1>2. QED
  BY AgentInv, <1>1, PTL

\* A write that failed on an earlier connection never ends a later session.
THEOREM LateFailureSpares == Spec => []DropsItsOwn
<1>1. Inv => DropsItsOwn
  BY DEF Inv
<1>2. QED
  BY AgentInv, <1>1, PTL

\* Run reports a failure whenever it was not stopped by a signal.
THEOREM FailuresAreReported == Spec => []NoFailureIsSwallowed
<1>1. Inv => NoFailureIsSwallowed
  BY DEF Inv
<1>2. QED
  BY AgentInv, <1>1, PTL
=============================================================================
