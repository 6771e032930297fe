------------------------------ MODULE AgentLink ------------------------------
(***************************************************************************)
(* The agent process of one room (internal/agent/agent.go): the goroutine  *)
(* that dials the gateway and applies its commands, the streaming thread   *)
(* that publishes on the same connection and drops it when a write fails,  *)
(* those who end the process, and the DevTools transport a command is      *)
(* applied through (internal/cdp/transport.go).                            *)
(*                                                                         *)
(* A reference to a connection, or to the cancel function of a session, is *)
(* "mine" if it belongs to the session under way and "old" if to an        *)
(* earlier one.  The connection, seen from the agent, is "open"; "gone"    *)
(* when the gateway has closed it; "stale" when the gateway is lost and    *)
(* nothing says so; "shut" when the agent has closed it.                   *)
(***************************************************************************)
EXTENDS Naturals, Sequences

CONSTANTS Probing,    \* cfg.StallWindow > 0
          MaxOrders   \* commands the connection holds unread

ASSUME LinkAssumption == Probing \in BOOLEAN /\ MaxOrders \in Nat \ {0}

VARIABLES
    mute,     \* the pipeline delivers nothing, neither chunks nor probes
    at,       \* where Run, session, readCommands or Call is
    sock,     \* the session's connection
    orders,   \* commands that wait in it
    ended,    \* the session's context is done
    conn,     \* Agent.conn
    cancel,   \* Agent.cancel
    pub,      \* publish and dropConn: where, and its local references
    cdp,      \* the DevTools connection, as readLoop has dealt with it
    pending,  \* WSTransport.pending holds the reader's call
    fatal,    \* the channel Run's failure is left in holds one
    failing,  \* a.fail, called by the paint watch or the bus watch: where
    runDone,  \* runCtx is done
    stopped,  \* by a signal
    result    \* what Run has returned

sessionVars == <<at, sock, orders, ended, conn, cancel>>
cdpVars == <<cdp, pending>>
endVars == <<fatal, failing, runDone, stopped, result>>
vars == <<mute, sessionVars, pub, cdpVars, endVars>>

Away == {"dial", "backoff", "over"}
Calling == {"registered", "waiting"}
InSession == {"dialled", "read", "call", "checked", "report", "obey", "cancel"} \cup Calling
Reference == {"nil", "mine", "old"}
Left(ref) == IF ref = "mine" THEN "old" ELSE ref

AtRest == [at |-> "idle", conn |-> "nil", cancel |-> "nil"]

TypeOK ==
    /\ mute \in BOOLEAN /\ ended \in BOOLEAN /\ pending \in BOOLEAN
    /\ fatal \in BOOLEAN /\ runDone \in BOOLEAN /\ stopped \in BOOLEAN
    /\ at \in Away \cup InSession
    /\ sock \in {"none", "open", "stale", "gone", "shut"}
    /\ orders \in Seq({"input", "restart"}) /\ Len(orders) <= MaxOrders
    /\ conn \in {"nil", "mine"} /\ cancel \in Reference
    /\ pub \in [at : {"idle", "write", "drop", "close"}, conn : Reference, cancel : Reference]
    /\ cdp \in {"open", "broken", "swept", "closed"}
    /\ failing \in {"no", "first", "done"}
    /\ result \in {"none", "nil", "error"}
    /\ sock = "none" <=> at \in Away
    /\ at \in Away => conn = "nil"
    /\ result # "none" <=> at = "over"

Init ==
    /\ mute \in BOOLEAN
    /\ at = "dial" /\ sock = "none" /\ orders = <<>> /\ ended = FALSE
    /\ conn = "nil" /\ cancel = "nil" /\ pub = AtRest
    /\ cdp = "open" /\ pending = FALSE
    /\ fatal = FALSE /\ failing = "no"
    /\ runDone = FALSE /\ stopped = FALSE /\ result = "none"

-----------------------------------------------------------------------------
(* Sessions *)

\* dialGateway succeeds, and setConn makes the connection the agent's.
Dial ==
    /\ at = "dial" /\ ~runDone
    /\ at' = "dialled" /\ sock' = "open" /\ orders' = <<>> /\ ended' = FALSE
    /\ conn' = "mine"
    /\ UNCHANGED <<mute, cancel, pub, cdpVars, endVars>>

\* captureFailure: the failure, if there is one in the channel.
Return ==
    /\ at' = "over"
    /\ result' = IF fatal THEN "error" ELSE "nil"

\* A dial may always fail; Run then waits, unless it is to end.
DialFails ==
    /\ at = "dial"
    /\ IF runDone THEN Return ELSE at' = "backoff" /\ UNCHANGED result
    /\ UNCHANGED <<mute, sock, orders, ended, conn, cancel, pub, cdpVars>>
    /\ UNCHANGED <<fatal, failing, runDone, stopped>>

\* Only now can dropConn find the session's cancel function.
KeepCancel ==
    /\ at = "dialled"
    /\ at' = "read" /\ cancel' = "mine"
    /\ UNCHANGED <<mute, sock, orders, ended, conn, pub, cdpVars, endVars>>

\* readCommands takes the next command, and may reject what it cannot parse.
ReadOrder ==
    /\ at = "read" /\ orders # <<>> /\ sock \in {"open", "stale", "gone"}
    /\ at' \in IF Head(orders) = "restart" THEN {"obey"} ELSE {"call", "read"}
    /\ orders' = Tail(orders)
    /\ UNCHANGED <<mute, sock, ended, conn, cancel, pub, cdpVars, endVars>>

SessionDone == ended \/ runDone

\* The deferred setConn(nil).  The session's cancel function stays.
TakeBack == conn' = "nil" /\ cancel' = Left(cancel)

\* The read fails; session returns, and its deferred calls close the
\* connection and cancel the context.
SessionEnds ==
    /\ at = "read" /\ (sock \in {"gone", "shut"} \/ SessionDone)
    /\ IF runDone THEN Return ELSE at' = "backoff" /\ UNCHANGED result
    /\ sock' = "none" /\ orders' = <<>> /\ ended' = TRUE
    /\ TakeBack
    /\ pub' = [pub EXCEPT !.conn = Left(@), !.cancel = Left(@)]
    /\ UNCHANGED <<mute, cdpVars, fatal, failing, runDone, stopped>>

\* Either case of the select: the timer starts the next dial, which fails at
\* once if Run is to end.
Backoff ==
    /\ at = "backoff"
    /\ \/ at' = "dial" /\ UNCHANGED result
       \/ runDone /\ Return
    /\ UNCHANGED <<mute, sock, orders, ended, conn, cancel, pub, cdpVars>>
    /\ UNCHANGED <<fatal, failing, runDone, stopped>>

-----------------------------------------------------------------------------
(* Commands, applied in the reader's own goroutine.  The calls that one      *)
(* command makes in turn are one call here.                                  *)

Step(from, to) ==
    /\ at = from /\ at' = to
    /\ UNCHANGED <<mute, sock, orders, ended, conn, cancel, pub, endVars>>

\* Call takes an entry of its own out of the table when it does not wait.
LeaveCall == UNCHANGED pending
ForgetCall == pending' = FALSE

\* Apply refuses some commands; Call refuses when the transport is closed.
Refuse == Step("call", "report") /\ UNCHANGED cdpVars
Check == cdp # "closed" /\ Step("call", "checked") /\ UNCHANGED cdpVars
Register == Step("checked", "registered") /\ pending' = TRUE /\ UNCHANGED cdp

\* A write may succeed on a connection that has failed and is not yet closed.
WriteCall ==
    /\ cdp # "closed" /\ Step("registered", "waiting")
    /\ UNCHANGED cdpVars
WriteCallFails ==
    /\ cdp # "open" \/ SessionDone
    /\ Step("registered", "report") /\ ForgetCall
    /\ UNCHANGED cdp

\* readLoop takes the call out of the table and leaves the answer in its
\* channel, where the caller finds it.
Answer ==
    /\ at = "waiting" /\ pending /\ cdp = "open"
    /\ pending' = FALSE
    /\ UNCHANGED <<mute, sessionVars, pub, cdp, endVars>>
TakeAnswer ==
    /\ ~pending
    /\ Step("waiting", "read") \/ Step("waiting", "report")
    /\ UNCHANGED cdpVars
GiveUp ==
    /\ SessionDone /\ Step("waiting", "report") /\ ForgetCall
    /\ UNCHANGED cdp

\* The error goes to the connection of now, if there is one; without a limit
\* of time, a write to a lost gateway waits for somebody to close.
Report ==
    /\ sock # "stale" \/ conn = "nil" \/ SessionDone
    /\ Step("report", "read") /\ UNCHANGED cdpVars

\* readLoop ends: failPending answers every call with the error, ...
Sweep ==
    /\ cdp = "broken"
    /\ cdp' = "swept" /\ pending' = FALSE
    /\ UNCHANGED <<mute, sessionVars, pub, endVars>>

\* ... and Close comes after that.
CloseTransport ==
    /\ cdp = "swept"
    /\ cdp' = "closed"
    /\ UNCHANGED <<mute, sessionVars, pub, pending, endVars>>
-----------------------------------------------------------------------------
(* Publishing *)

\* A chunk goes to the connection of now.
Publish ==
    /\ pub.at = "idle" /\ conn = "mine" /\ ~mute /\ at # "over"
    /\ pub' = [pub EXCEPT !.at = "write", !.conn = "mine"]
    /\ UNCHANGED <<mute, sessionVars, cdpVars, endVars>>

Written ==
    /\ pub.at = "write" /\ pub.conn = "mine" /\ sock = "open"
    /\ pub' = AtRest
    /\ UNCHANGED <<mute, sessionVars, cdpVars, endVars>>

\* The write fails, or takes more than three seconds.
WriteFails ==
    /\ pub.at = "write"
    /\ pub' = [pub EXCEPT !.at = "drop"]
    /\ UNCHANGED <<mute, sessionVars, cdpVars, endVars>>

\* What dropConn asks, and does.
HasConn == conn = "mine"
IsCurrent == conn = "mine" /\ pub.conn = "mine"
LeaveOpen == UNCHANGED sock
CloseNow == sock' = IF pub.conn = "mine" THEN "shut" ELSE sock
DoNotCancel == UNCHANGED ended
CancelTaken == ended' = (ended \/ pub.cancel = "mine")

\* dropConn, under Agent.mu: nothing if the connection is no longer the
\* agent's; else it takes the cancel function it finds there, ...
DropConn ==
    /\ pub.at = "drop"
    /\ IF IsCurrent
       THEN /\ conn' = "nil" /\ cancel' = "nil"
            /\ pub' = [pub EXCEPT !.at = "close", !.cancel = cancel]
       ELSE pub' = AtRest /\ UNCHANGED <<conn, cancel>>
    /\ UNCHANGED <<mute, at, sock, orders, ended, cdpVars, endVars>>

\* ... and, without it, closes the connection and cancels.
CloseConn ==
    /\ pub.at = "close"
    /\ pub' = AtRest
    /\ CloseNow /\ CancelTaken
    /\ UNCHANGED <<mute, at, orders, conn, cancel, cdpVars, endVars>>

-----------------------------------------------------------------------------
(* The end of the process.  a.fail leaves its error in the channel, unless   *)
(* there is one, and then cancels runCtx.                                    *)

CancelFirst == runDone' = TRUE /\ UNCHANGED fatal
LeaveError == fatal' = TRUE /\ UNCHANGED runDone
NeverCancel == UNCHANGED <<runDone, fatal>>
CancelRun == runDone' = TRUE /\ UNCHANGED fatal

Obey ==
    /\ at = "obey" /\ LeaveError
    /\ at' = IF fatal THEN "read" ELSE "cancel"
    /\ UNCHANGED <<mute, sock, orders, ended, conn, cancel, pub, cdpVars>>
    /\ UNCHANGED <<failing, stopped, result>>
ObeyEnds ==
    /\ at = "cancel" /\ CancelRun
    /\ at' = "read"
    /\ UNCHANGED <<mute, sock, orders, ended, conn, cancel, pub, cdpVars>>
    /\ UNCHANGED <<failing, stopped, result>>

\* Here the paint watch and the bus watch are one, and may fail at any time.
Fail ==
    /\ at # "over" /\ failing = "no" /\ LeaveError
    /\ failing' = IF fatal THEN "done" ELSE "first"
    /\ UNCHANGED <<mute, sessionVars, pub, cdpVars, stopped, result>>
FailEnds ==
    /\ at # "over" /\ failing = "first" /\ CancelRun
    /\ failing' = "done"
    /\ UNCHANGED <<mute, sessionVars, pub, cdpVars, stopped, result>>

\* A signal ends runCtx too.
Stop ==
    /\ at # "over" /\ ~stopped
    /\ stopped' = TRUE /\ runDone' = TRUE
    /\ UNCHANGED <<mute, sessionVars, pub, cdpVars, fatal, failing, result>>

\* The container runs a new agent, beside a new Chromium.
Boot ==
    /\ at = "over"
    /\ at' = "dial" /\ sock' = "none" /\ orders' = <<>> /\ ended' = FALSE
    /\ conn' = "nil" /\ cancel' = "nil" /\ pub' = AtRest
    /\ cdp' = "open" /\ pending' = FALSE
    /\ fatal' = FALSE /\ failing' = "no"
    /\ runDone' = FALSE /\ stopped' = FALSE /\ result' = "none"
    /\ mute' \in BOOLEAN

-----------------------------------------------------------------------------
(* The gateway, the network, Chromium, the pipeline *)

Order(order) ==
    /\ sock = "open" /\ Len(orders) < MaxOrders
    /\ orders' = Append(orders, order)
    /\ UNCHANGED <<mute, at, sock, ended, conn, cancel, pub, cdpVars, endVars>>

\* The gateway closes the connection (a kick, another agent, a restart).
Close ==
    /\ sock = "open"
    /\ sock' = "gone"
    /\ UNCHANGED <<mute, at, orders, ended, conn, cancel, pub, cdpVars, endVars>>

\* Its ping is answered by a read only: while the reader is busy, it fails,
\* and the gateway closes the connection.
PingFails ==
    /\ at # "read"
    /\ Close

\* The connection is lost, and the agent is not told, or much later.
Vanish ==
    /\ \/ sock = "open" /\ sock' = "stale"
       \/ sock = "stale" /\ sock' = "gone"
    /\ UNCHANGED <<mute, at, orders, ended, conn, cancel, pub, cdpVars, endVars>>

\* The pipeline stalls, or goes on.
ChangeCapture ==
    /\ at # "over"
    /\ mute' = ~mute
    /\ UNCHANGED <<sessionVars, pub, cdpVars, endVars>>

\* The DevTools connection breaks; the agent never dials another.
LoseChromium ==
    /\ at # "over" /\ cdp = "open"
    /\ cdp' = "broken"
    /\ UNCHANGED <<mute, sessionVars, pub, pending, endVars>>

-----------------------------------------------------------------------------
Session == Dial \/ DialFails \/ KeepCancel \/ ReadOrder \/ SessionEnds \/ Backoff
Command == Refuse \/ Check \/ Register \/ WriteCall \/ WriteCallFails
              \/ TakeAnswer \/ GiveUp \/ Report \/ Obey \/ ObeyEnds
Transport == Answer \/ Sweep \/ CloseTransport
Streaming == Publish \/ Written \/ WriteFails \/ DropConn \/ CloseConn
Ending == Stop \/ Boot \/ Fail \/ FailEnds
World == Close \/ PingFails \/ Vanish \/ ChangeCapture \/ LoseChromium
            \/ \E order \in {"input", "restart"} : Order(order)

Next == Session \/ Command \/ Transport \/ Streaming \/ Ending \/ World

Spec == Init /\ [][Next]_vars

\* A gateway that is dialled again and again accepts in the end; a
\* pipeline that works again and again publishes; the paint watch does not
\* let a silent probe pass; a read whose context is done fails, if not at once.
\* Nothing is asked of Chromium, nor of Vanish.
Fairness ==
    /\ WF_vars(DialFails \/ KeepCancel \/ Backoff) /\ SF_vars(Dial)
    /\ WF_vars(ReadOrder \/ SessionEnds) /\ SF_vars(SessionDone /\ SessionEnds)
    /\ WF_vars(Command)
    /\ WF_vars(Sweep \/ CloseTransport)
    /\ SF_vars(Publish) /\ WF_vars(Written \/ WriteFails) /\ WF_vars(DropConn \/ CloseConn)
    /\ WF_vars(Probing /\ mute /\ Fail) /\ WF_vars(FailEnds)
    /\ WF_vars(PingFails)

FairSpec == Spec /\ Fairness

-----------------------------------------------------------------------------
(* Properties *)

\* The table of pending calls (transport.go:190-243) keeps no call that
\* nobody waits for: not after a failed write, a context that ended, a sweep.
PendingIsWaited == pending => at \in Calling

\* dropConn (agent.go:196-212) cancels no session but the one whose write
\* failed: a write that fails late spares the connection dialled since, and
\* the cancel function of an earlier session is never taken for this one's.
DropsItsOwn ==
    pub.at = "close" /\ pub.cancel = "mine" => pub.conn = "mine"

\* Whoever fails first, and whoever else fails or cancels meanwhile, Run
\* returns without an error only if a signal stopped it (agent.go:106-160).
NoFailureIsSwallowed == result = "nil" => stopped

\* A pipeline that delivers nothing, and nobody who watches it.
Deaf == mute /\ ~Probing

\* A write that failed before the session had noted its cancel function, so
\* that dropConn took none: nothing can end a call under way any more.
Uncancelled == conn = "nil" /\ cancel = "mine"

\* A call of Chromium that is never answered (a hung page, a site that does
\* not respond, a transport that dies around the call) holds the reader up for
\* a time only: the gateway's ping fails, the next write drops the connection
\* and cancels the call (agent.go:196-212, transport.go:233-242).
ReaderIsFreed == at = "waiting" ~> at # "waiting" \/ Deaf \/ Uncancelled

\* A connection that no longer serves, because it is dead or because the agent
\* has stopped publishing on it, gives way to another.
\* A session without its cancel function at least stops to read.
Useless == at \in InSession /\ (sock # "open" \/ conn = "nil")
Serving == conn = "mine" /\ sock = "open"
SessionIsReplaced ==
    Useless ~> Serving \/ at = "over" \/ Deaf \/ (Uncancelled /\ at = "waiting")

\* The gateway's order to restart (agent.go:395-401) ends the process, however
\* busy the reader, unless it is lost with its connection.
Ordered == \E i \in 1 .. Len(orders) : orders[i] = "restart"
RestartIsObeyed == (Ordered /\ sock = "open") ~> (at = "over" \/ sock # "open")
=============================================================================
