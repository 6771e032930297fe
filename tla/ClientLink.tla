----------------------------- MODULE ClientLink -----------------------------
(***************************************************************************)
(* How a page stays connected: its two sockets (MediaSocket, ControlSocket *)
(* of web/src/app/transport.ts), which reconnect with back-off, and the    *)
(* renewal of the session they share (renewal.ts, main.ts), against what   *)
(* the gateway answers (acceptViewer, viewerMedia, viewerCtl and token of  *)
(* internal/gateway/gateway.go).  The gateway runs many rooms.             *)
(***************************************************************************)
EXTENDS Naturals, FiniteSets

CONSTANTS Sock,             \* the sockets of the page
          Base, MaxWait,    \* CTL_RETRY_BASE_MS, CTL_RETRY_MAX_MS
          MaxRetry,         \* where the count of failures ends
          StaleAfter,       \* STALE_AFTER_FAILURES
          Cooldown,         \* SESSION_RENEW_COOLDOWN_MS
          PerUser,          \* maxSocketsPerUser
          MaxFaults

ASSUME LinkAssumption ==
    /\ IsFiniteSet(Sock) /\ Base \in Nat \ {0} /\ MaxWait \in Nat
    /\ StaleAfter \in Nat /\ StaleAfter > 1 /\ MaxRetry \in Nat /\ MaxRetry >= StaleAfter
    /\ Cooldown \in Nat \ {0} /\ PerUser \in Nat /\ MaxFaults \in Nat

VARIABLES
    link,      \* what a socket is to the page; a dead one still looks open
    carried,   \* the session that a socket connects with is accepted
    retry,     \* failures in a row
    timer,     \* ticks until a waiting socket connects
    token,     \* the page's session is accepted
    renewing,  \* Renewal.inflight, and what the gateway has answered
    since,     \* ticks since the last renewal, as far as they matter
    running,   \* the gateway manages the room
    up,        \* the network
    ghosts,    \* viewers of this user whose connection is gone
    calm,      \* nothing has gone wrong since the gateway last granted a session
    settled,   \* nor did a socket carry an older one when the page received it
    faults     \* what has gone wrong so far

socketVars == <<link, carried, retry, timer>>
renewalVars == <<token, renewing, since>>
gatewayVars == <<running, up, ghosts>>
ghostVars == <<calm, settled, faults>>
vars == <<socketVars, renewalVars, gatewayVars, ghostVars>>

TypeOK ==
    /\ link \in [Sock -> {"connecting", "open", "dead", "waiting"}]
    /\ carried \in [Sock -> BOOLEAN] /\ retry \in [Sock -> 0 .. MaxRetry]
    /\ timer \in [Sock -> 0 .. MaxWait]
    /\ token \in BOOLEAN /\ renewing \in {"no", "asked", "granted", "void", "refused"}
    /\ since \in 0 .. Cooldown
    /\ running \in BOOLEAN /\ up \in BOOLEAN /\ ghosts \in Nat
    /\ calm \in BOOLEAN /\ settled \in BOOLEAN /\ faults \in 0 .. MaxFaults

\* The page has signed in, which started the room.
Init ==
    /\ link = [s \in Sock |-> "connecting"] /\ carried = [s \in Sock |-> TRUE]
    /\ retry = [s \in Sock |-> 0] /\ timer = [s \in Sock |-> 0]
    /\ token = TRUE /\ renewing = "no" /\ since = Cooldown
    /\ running = TRUE /\ up = TRUE /\ ghosts = 0
    /\ calm = TRUE /\ settled = TRUE /\ faults = 0

-----------------------------------------------------------------------------
(* The renewal *)

\* The cooldown counts from the start of a renewal, whatever comes of it.
Request ==
    IF renewing = "no" /\ since = Cooldown
    THEN renewing' = "asked" /\ since' = 0
    ELSE UNCHANGED <<renewing, since>>

\* The gateway's half of authenticate: it makes sure of the room first.
SignIn ==
    /\ renewing = "asked" /\ up
    /\ running' = TRUE /\ renewing' = "granted" /\ calm' = TRUE
    /\ UNCHANGED <<socketVars, token, since, up, ghosts, settled, faults>>

\* It refuses: too many sign-ins, no answer of Discord, every room in use.
Refuse ==
    /\ renewing = "asked" /\ up /\ faults < MaxFaults
    /\ renewing' = "refused" /\ faults' = faults + 1
    /\ UNCHANGED <<socketVars, token, since, gatewayVars, calm, settled>>

\* Nothing comes of a call that the network has cut.
Receive ==
    /\ \/ renewing \in {"granted", "void", "refused"}
       \/ renewing = "asked" /\ ~up
    /\ renewing' = "no"
    /\ IF renewing \in {"granted", "void"} /\ up
       THEN /\ token' = (renewing = "granted")
            /\ settled' = (calm /\ \A s \in Sock : link[s] = "connecting" => carried[s])
       ELSE UNCHANGED <<token, settled>>
    /\ UNCHANGED <<socketVars, since, gatewayVars, calm, faults>>

-----------------------------------------------------------------------------
(* A socket *)

Wait(n) == IF Base * 2 ^ n \in 0 .. MaxWait THEN Base * 2 ^ n ELSE MaxWait
OneMore(n) == IF n < MaxRetry THEN n + 1 ELSE MaxRetry

\* onclose, with scheduleReconnect.
StaleNow(n) == n = StaleAfter
Stale(n) == n >= StaleAfter

Closes(s) ==
    /\ link' = [link EXCEPT ![s] = "waiting"]
    /\ timer' = [timer EXCEPT ![s] = Wait(retry[s])]
    /\ retry' = [retry EXCEPT ![s] = OneMore(@)]
    /\ IF Stale(OneMore(retry[s])) THEN Request ELSE UNCHANGED <<renewing, since>>
    /\ UNCHANGED <<carried, token, gatewayVars, ghostVars>>

\* The timer fires; the session is read as it is by now.
Connect(s) ==
    /\ link[s] = "waiting" /\ timer[s] = 0
    /\ link' = [link EXCEPT ![s] = "connecting"]
    /\ carried' = [carried EXCEPT ![s] = token]
    /\ UNCHANGED <<retry, timer, renewalVars, gatewayVars, ghostVars>>

\* acceptViewer refuses the session or has no such room, or the network is
\* down.
Fails(s) ==
    /\ link[s] = "connecting" /\ (up => ~(carried[s] /\ running))
    /\ Closes(s)

\* The socket is upgraded before the room's limits are looked at: one that
\* they turn away has been open.
Accepted(s) == link[s] = "connecting" /\ carried[s] /\ running
Alive == {s \in Sock : link[s] = "open"}

UpgradedKeepingRetry(s) ==
    /\ Accepted(s) /\ up
    /\ link' = [link EXCEPT ![s] = IF ghosts + Cardinality(Alive) < PerUser THEN "open" ELSE "dead"]
    /\ UNCHANGED <<carried, retry, timer, renewalVars, gatewayVars, ghostVars>>
Upgraded(s) ==
    /\ Accepted(s) /\ up
    /\ link' = [link EXCEPT ![s] = IF ghosts + Cardinality(Alive) < PerUser THEN "open" ELSE "dead"]
    /\ retry' = [retry EXCEPT ![s] = 0]
    /\ UNCHANGED <<carried, timer, renewalVars, gatewayVars, ghostVars>>

\* The page notices that a connection is gone.
Notices(s) == link[s] = "dead" /\ Closes(s)

-----------------------------------------------------------------------------
(* What goes wrong *)

Dead == [s \in Sock |-> IF link[s] = "open" THEN "dead" ELSE link[s]]
Broken == IF renewing = "asked" THEN {"asked", "refused"} ELSE {renewing}

Fault == faults < MaxFaults /\ faults' = faults + 1 /\ calm' = FALSE /\ settled' = FALSE

\* The network goes.  The gateway keeps the viewers, those included whose
\* upgrade is on its way, until their pings fail.
Cut ==
    /\ up /\ up' = FALSE /\ link' = Dead
    /\ \E lost \in SUBSET {s \in Sock : Accepted(s)} :
          /\ lost # {} => ghosts + Cardinality(Alive) + Cardinality(lost) <= PerUser
          /\ ghosts' = ghosts + Cardinality(Alive) + Cardinality(lost)
    /\ Fault
    /\ UNCHANGED <<carried, retry, timer, renewalVars, running>>

\* The session's time is over.  Sockets that are open stay so.
Expire ==
    /\ token' = FALSE /\ carried' = [s \in Sock |-> FALSE]
    /\ renewing' = IF renewing = "granted" THEN "void" ELSE renewing
    /\ Fault
    /\ UNCHANGED <<link, retry, timer, since, gatewayVars>>

\* The gateway starts anew, with another secret if none is configured.  It
\* manages no room until it has read the guard's list, or is signed in to.  A
\* sign-in under way may break.
Restart(forgetful) ==
    /\ link' = Dead /\ ghosts' = 0 /\ running' = FALSE
    /\ IF forgetful
       THEN /\ token' = FALSE /\ carried' = [s \in Sock |-> FALSE]
            /\ renewing' \in IF renewing = "granted" THEN {"void"} ELSE Broken
       ELSE UNCHANGED <<token, carried>> /\ renewing' \in Broken
    /\ Fault
    /\ UNCHANGED <<retry, timer, since, up>>

\* The room reaches its ceiling, or vanishes; its viewers are evicted.
Destroy ==
    /\ running /\ running' = FALSE
    /\ link' = Dead /\ ghosts' = 0
    /\ Fault
    /\ UNCHANGED <<carried, retry, timer, renewalVars, up>>

\* The guard's list brings the room back, if its container is there; it may be
\* that of a room destroyed, whose removal has failed.
Adopts ==
    /\ ~running /\ running' = TRUE
    /\ UNCHANGED <<socketVars, renewalVars, up, ghosts, ghostVars>>

Return == ~up /\ up' = TRUE /\ UNCHANGED <<socketVars, renewalVars, running, ghosts, ghostVars>>

PingFails ==
    /\ ghosts > 0 /\ ghosts' = ghosts - 1
    /\ UNCHANGED <<socketVars, renewalVars, running, up, ghostVars>>

Tick ==
    /\ timer' = [s \in Sock |-> IF timer[s] > 0 THEN timer[s] - 1 ELSE 0]
    /\ since' = IF since < Cooldown THEN since + 1 ELSE Cooldown
    /\ UNCHANGED <<link, carried, retry, token, renewing, gatewayVars, ghostVars>>

-----------------------------------------------------------------------------
Sockets == \E s \in Sock : Connect(s) \/ Fails(s) \/ Upgraded(s) \/ Notices(s)
Renewal == SignIn \/ Refuse \/ Receive
Faults == Cut \/ Expire \/ (\E f \in BOOLEAN : Restart(f)) \/ Destroy

Next == Sockets \/ Renewal \/ Faults \/ Adopts \/ Return \/ PingFails \/ Tick

Spec == Init /\ [][Next]_vars

\* Timers run, the gateway answers, fails pings and is reached again, and the
\* browser notices a dead connection in the end (web/src/app/transport.ts has
\* no check of its own).
Fairness ==
    /\ WF_vars(Tick) /\ WF_vars(SignIn) /\ WF_vars(Receive)
    /\ WF_vars(Return) /\ WF_vars(PingFails)
    /\ \A s \in Sock : /\ WF_vars(Connect(s)) /\ WF_vars(Fails(s))
                       /\ WF_vars(Upgraded(s)) /\ WF_vars(Notices(s))

FairSpec == Spec /\ Fairness

-----------------------------------------------------------------------------
(* Properties *)

\* When nothing more goes wrong, both sockets are open in the end, whatever
\* has become of the session, the room and the gateway meanwhile
\* (transport.ts:224-238,302-316, renewal.ts:14-28, README.md:363-365): a
\* renewal that the cooldown refuses or the gateway fails is asked for again.
PageComesBack == <>[](\A s \in Sock : link[s] = "open")

\* A page that has received a good session asks for no other until something
\* goes wrong, however crowded the room is (transport.ts:199-202,277-282,
\* 224-238,302-316): failures from before do not add up with later ones.
SettledPageIsQuiet == settled => renewing = "no"
=============================================================================
