------------------------------ MODULE Watchdog ------------------------------
(***************************************************************************)
(* The gateway's watchdog over one room (internal/gateway/watchdog.go),    *)
(* the agent process it drops and restarts (session and handleAgentCmd of  *)
(* internal/agent/agent.go), and one viewer that is told the room's status *)
(* by the watchdog and by whoever starts or ends the room (viewerCtl of    *)
(* internal/gateway/gateway.go, reviveRoom and endExpiredRooms of          *)
(* internal/gateway/rooms.go).                                             *)
(*                                                                         *)
(* Time passes in ticks of watchdogInterval.  An age counts the ticks      *)
(* since an event and stops growing one beyond the limit it is compared    *)
(* with; a zero time is as old as that.  What happens between two ticks    *)
(* happens while ages stand still.                                         *)
(*                                                                         *)
(* A reference to a connection is "nil", "held" when it is the one the     *)
(* agent has open now, or "left" when the agent has lost it.               *)
(***************************************************************************)
EXTENDS Naturals, Sequences

CONSTANTS StallAfter,     \* stallAfter, in ticks
          NoVideoAfter,   \* noVideoAfter
          KickCooldown,   \* kickCooldown
          MaxAway,        \* ticks an agent that is up needs to dial again
          StatusBuffer    \* room for statuses in the viewer's Ctl queue

\* A dropped agent comes back, and is found out again, within the cooldown.
ASSUME WatchdogAssumption ==
    /\ {StallAfter, NoVideoAfter, KickCooldown, MaxAway} \subseteq Nat
    /\ StatusBuffer \in Nat \ {0}
    /\ StallAfter <= NoVideoAfter
    /\ MaxAway + NoVideoAfter + 1 <= KickCooldown

VARIABLES
    known,    \* the room is in Registry.rooms
    agents,   \* g.agents[room], a reference
    since,    \* age of g.agentSince[room]
    silent,   \* age of Room.lastChunk
    hasVideo, \* Room.videoConfig # nil
    session,  \* the agent has a connection open
    away,     \* ticks since the agent lost its connection
    health,   \* what the agent's capture produces: no chunks if "mute", no video if "blind"
    down,     \* the agent was told to restart and is not up again
    healing,  \* g.healing[room]
    watch,    \* the watchdog: where it is, and its local variables
    viewer,   \* the followed viewer's control socket: where its handler is
    astray,   \* its Room is not in Registry.rooms any more
    greeting, \* the status that handler read
    inbox,    \* statuses in the viewer's Ctl queue
    client,   \* roomState of the viewer's page
    excused,  \* nothing since told the page what a known gap kept from it
    owed      \* an observer: the agent was dropped and has ailed ever since,
              \* and was not told to restart

agentVars == <<session, away, health, down>>
streamVars == <<agents, since, silent, hasVideo>>
viewerVars == <<viewer, astray, greeting, inbox, client, excused>>
watchdogVars == <<known, owed, agentVars, streamVars, healing, watch, viewerVars>>

\* What the watchdog makes of a room, and what its viewers may be told of it.
Status == {"live", "offline", "recovering"}
News == Status \cup {"full", "ending"}
Reference == {"nil", "held", "left"}
Lost(conn) == IF conn = "held" THEN "left" ELSE conn

Cooled == KickCooldown + 1
Mature == NoVideoAfter + 1
Stale == StallAfter + 1
Older(age, limit) == IF age = limit THEN age ELSE age + 1

\* No entry, which reads as live and never kicked.
Forgotten == [status |-> "live", kicked |-> Cooled, restarted |-> Cooled]
AtRest == [at |-> "idle", conn |-> "nil", since |-> Mature, act |-> "none"]

\* The Room in the registry has a viewer.
Watched == viewer # "out" /\ ~astray

StateTyped ==
    /\ known \in BOOLEAN /\ hasVideo \in BOOLEAN
    /\ agents \in Reference /\ session \in BOOLEAN
    /\ since \in 0 .. Mature /\ silent \in 0 .. Stale /\ away \in 0 .. MaxAway
    /\ health \in {"well", "mute", "blind"} /\ down \in BOOLEAN
    /\ healing \in [status : Status, kicked : 0 .. Cooled, restarted : 0 .. Cooled]
    /\ watch \in [at : {"idle", "due", "empty", "seen", "tell", "act"},
                  conn : Reference, since : 0 .. Mature,
                  act : {"none", "kick", "restart"}]
    /\ viewer \in {"out", "admitted", "greeting", "in"}
    /\ greeting \in Status /\ client \in News /\ excused \in BOOLEAN
    /\ inbox \in Seq(News) /\ Len(inbox) <= StatusBuffer
    /\ astray \in BOOLEAN /\ Watched => known
WatchdogTypeOK == StateTyped /\ owed \in BOOLEAN

WatchdogInit ==
    /\ known = FALSE /\ owed = FALSE
    /\ agents = "nil" /\ since = Mature /\ silent = Stale /\ hasVideo = FALSE
    /\ session = FALSE /\ away = 0 /\ health \in {"well", "mute", "blind"}
    /\ down = FALSE
    /\ healing = Forgotten /\ watch = AtRest
    /\ viewer = "out" /\ astray = FALSE /\ greeting = "live" /\ inbox = <<>>
    /\ client = "live" /\ excused = FALSE

Ailing == Watched /\ (health = "mute" \/ (health = "blind" /\ ~hasVideo))

-----------------------------------------------------------------------------
(* The agent *)

\* The agent dials in: its connection is registered over the last one and
\* the room's stream is reset.
Connect ==
    /\ ~down /\ ~session
    /\ session' = TRUE /\ agents' = "held" /\ since' = 0 /\ hasVideo' = FALSE
    /\ away' = 0
    /\ known' = TRUE
    /\ silent' = IF known THEN silent ELSE Stale
    /\ UNCHANGED <<owed, health, down, healing, watch, viewerVars>>

\* Publish: any chunk makes the room fresh; a well agent sends its video
\* config too.  Chunks left over from a replaced connection are RoomFanout's.
Publish ==
    /\ agents = "held" /\ health # "mute"
    /\ silent' = 0
    /\ hasVideo' = (hasVideo \/ health = "well")
    /\ UNCHANGED <<known, owed, agentVars, agents, since, healing, watch, viewerVars>>

Lose ==
    /\ session
    /\ session' = FALSE /\ away' = 0
    /\ agents' = Lost(agents) /\ watch' = [watch EXCEPT !.conn = Lost(@)]

\* The gateway closed the connection and the agent's read fails.
Dropped ==
    /\ agents # "held"
    /\ Lose
    /\ UNCHANGED <<known, owed, health, down, since, silent, hasVideo, healing, viewerVars>>

\* The network breaks the connection; the gateway finds out when it pings.
Break ==
    /\ agents = "held"
    /\ Lose
    /\ owed' = FALSE
    /\ UNCHANGED <<known, health, down, since, silent, hasVideo, healing, viewerVars>>

\* The handler of a connection the agent has lost ends.
Disconnect ==
    /\ agents = "left"
    /\ agents' = "nil" /\ since' = Mature
    /\ UNCHANGED <<known, owed, agentVars, silent, hasVideo, healing, watch, viewerVars>>

\* Capture fails, in one way or the other, or recovers of itself.
ChangeHealth(h) ==
    /\ ~down /\ health # h /\ "well" \in {health, h}
    /\ health' = h /\ owed' = FALSE
    /\ UNCHANGED <<known, session, away, down, streamVars, healing, watch, viewerVars>>

\* The container runs the agent again.
ComeUp(h) ==
    /\ down
    /\ down' = FALSE /\ health' = h /\ away' = 0
    /\ UNCHANGED <<known, owed, session, streamVars, healing, watch, viewerVars>>

-----------------------------------------------------------------------------
(* The watchdog *)

\* An agent that is up is back within MaxAway ticks, one whose connection
\* was closed notices before the next, and one that is not mute publishes.
AgentInTime ==
    /\ (~session /\ ~down) => away < MaxAway
    /\ session => /\ agents = "held"
                  /\ health = "mute" \/ silent = 0
                  /\ health = "well" => hasVideo
    /\ agents # "left"

Tick ==
    /\ watch.at = "idle"
    /\ AgentInTime
    /\ watch' = [watch EXCEPT !.at = "due"]
    /\ since' = Older(since, Mature) /\ silent' = Older(silent, Stale)
    /\ healing' = [healing EXCEPT !.kicked = Older(@, Cooled), !.restarted = Older(@, Cooled)]
    /\ away' = IF ~session /\ ~down THEN away + 1 ELSE away
    /\ UNCHANGED <<known, owed, agents, hasVideo, session, health, down, viewerVars>>

\* heal asks whether anybody watches; a room that is gone it never visits ...
LookEmpty ==
    /\ watch.at = "due" /\ ~Watched
    /\ watch' = IF known THEN [watch EXCEPT !.at = "empty"] ELSE AtRest
    /\ UNCHANGED <<known, owed, agentVars, streamVars, healing, viewerVars>>

\* ... and forgets an empty one, though a viewer may have come meanwhile.
Forget ==
    /\ watch.at = "empty"
    /\ healing' = Forgotten /\ watch' = AtRest
    /\ excused' = (excused \/ (Watched /\ healing.status # "live"))
    /\ UNCHANGED <<known, owed, agentVars, streamVars, viewer, astray, greeting, inbox, client>>

\* healRoom reads the connection and its age under g.mu.
Look ==
    /\ watch.at = "due" /\ Watched
    /\ watch' = [at |-> "seen", conn |-> agents, since |-> since, act |-> "none"]
    /\ UNCHANGED <<known, owed, agentVars, streamVars, healing, viewerVars>>

RecentBefore == healing.kicked < KickCooldown
Recent == healing.kicked <= KickCooldown

Unhealthy ==
    /\ watch.conn # "nil"
    /\ \/ watch.since > StallAfter /\ silent > StallAfter
       \/ ~hasVideo /\ watch.since > NoVideoAfter

Verdict ==
    CASE watch.conn = "nil" -> IF Recent THEN "recovering" ELSE "offline"
      [] watch.conn # "nil" /\ Unhealthy -> "recovering"
      [] OTHER -> "live"

Remedy ==
    CASE ~Unhealthy -> "none"
      [] Unhealthy /\ ~Recent -> "kick"
      [] Unhealthy /\ Recent /\ healing.restarted > KickCooldown -> "restart"
      [] OTHER -> "none"

\* What is remembered of earlier remedies.
RememberedUntilHealthy ==
    CASE watch.conn # "nil" /\ ~Unhealthy -> [kicked |-> Cooled, restarted |-> Cooled]
      [] Remedy = "kick" -> [kicked |-> 0, restarted |-> healing.restarted]
      [] Remedy = "restart" -> [kicked |-> healing.kicked, restarted |-> 0]
      [] OTHER -> [kicked |-> healing.kicked, restarted |-> healing.restarted]
Remembered ==
    CASE watch.conn # "nil" /\ ~Unhealthy /\ ~Recent -> [kicked |-> Cooled, restarted |-> Cooled]
      [] Remedy = "kick" -> [kicked |-> 0, restarted |-> healing.restarted]
      [] Remedy = "restart" -> [kicked |-> healing.kicked, restarted |-> 0]
      [] OTHER -> [kicked |-> healing.kicked, restarted |-> healing.restarted]

\* Whether the viewers must hear of it.
ChangedIfWorse(status) == healing.status # status /\ status # "live"
Changed(status) == healing.status # status

\* What is left to do once the viewers have been told.
Treating(remedy, conn) ==
    CASE remedy = "none"    -> AtRest
      [] remedy = "kick"    -> [AtRest EXCEPT !.at = "act", !.act = "kick"]
      [] remedy = "restart" -> [AtRest EXCEPT !.at = "act", !.act = "restart", !.conn = conn]

\* The rest of healRoom's critical section; a changed status is then told.
Decide ==
    /\ watch.at = "seen"
    /\ healing' = [status |-> Verdict, kicked |-> Remembered.kicked,
                   restarted |-> Remembered.restarted]
    /\ watch' = IF Changed(Verdict)
                THEN [watch EXCEPT !.at = "tell", !.since = Mature, !.act = Remedy]
                ELSE Treating(Remedy, watch.conn)
    /\ owed' = (owed /\ Remedy # "restart")
    /\ UNCHANGED <<known, agentVars, streamVars, viewerVars>>

\* BroadcastCtl drops the status for a viewer whose queue is full.
Tell ==
    /\ watch.at = "tell"
    /\ watch' = Treating(watch.act, watch.conn)
    /\ IF ~Watched
       THEN UNCHANGED <<inbox, excused>>
       ELSE IF Len(inbox) < StatusBuffer
       THEN inbox' = Append(inbox, healing.status) /\ excused' = FALSE
       ELSE UNCHANGED inbox /\ excused' = TRUE
    /\ UNCHANGED <<known, owed, agentVars, streamVars, healing, viewer, astray, greeting, client>>

\* closeAgent, by room: whichever connection is registered by now.
Kick ==
    /\ watch.at = "act" /\ watch.act = "kick"
    /\ watch' = AtRest
    /\ agents' = "nil" /\ since' = Mature
    /\ owed' = Ailing
    /\ UNCHANGED <<known, agentVars, silent, hasVideo, healing, viewerVars>>

\* restartAgent writes to the connection healRoom read; a command that
\* arrives ends the agent (its health means nothing until it is up).
Restart ==
    /\ watch.at = "act" /\ watch.act = "restart"
    /\ watch' = AtRest
    /\ IF watch.conn = "held"
       THEN down' = TRUE /\ session' = FALSE /\ health' = "well" /\ agents' = Lost(agents)
       ELSE UNCHANGED <<down, session, health, agents>>
    /\ UNCHANGED <<known, owed, away, since, silent, hasVideo, healing, viewerVars>>

-----------------------------------------------------------------------------
(* Viewers *)

\* AdmitControl: from here on broadcasts reach the viewer's queue ...
Join ==
    /\ viewer = "out"
    /\ viewer' = "admitted" /\ astray' = FALSE /\ inbox' = <<>> /\ known' = TRUE
    /\ UNCHANGED <<owed, agentVars, streamVars, healing, watch, greeting, client, excused>>

\* ... then its handler reads the status ...
Greet ==
    /\ viewer = "admitted"
    /\ viewer' = "greeting" /\ greeting' = healing.status
    /\ UNCHANGED <<known, owed, agentVars, streamVars, healing, watch, astray, inbox, client, excused>>

\* ... and sends it, past the queue, unless it is live.
SendGreeting ==
    /\ viewer = "greeting"
    /\ viewer' = "in"
    /\ client' = IF greeting # "live" THEN greeting ELSE client
    /\ excused' = (excused \/ (~astray /\ inbox = <<>>
                               /\ (client' # greeting \/ healing.status # greeting)))
    /\ greeting' = "live"
    /\ UNCHANGED <<known, owed, agentVars, streamVars, healing, watch, astray, inbox>>

\* The writer goroutine, running since admission, sends the next status.
Deliver ==
    /\ viewer # "out" /\ inbox # <<>>
    /\ client' = Head(inbox) /\ inbox' = Tail(inbox)
    /\ UNCHANGED <<known, owed, agentVars, streamVars, healing, watch, viewer, astray, greeting, excused>>

\* The page keeps its roomState while its socket reconnects.
LeaveRoom ==
    /\ viewer # "out"
    /\ viewer' = "out" /\ astray' = FALSE /\ inbox' = <<>> /\ greeting' = "live"
    /\ excused' = FALSE /\ owed' = FALSE
    /\ UNCHANGED <<known, agentVars, streamVars, healing, watch, client>>

\* reviveRoom finds the guard at its cap and tells the viewers, whatever the
\* watchdog has told them; only the watchdog's next change takes it back.
TellFull ==
    /\ Watched /\ Len(inbox) < StatusBuffer
    /\ inbox' = Append(inbox, "full") /\ excused' = TRUE
    /\ UNCHANGED <<known, owed, agentVars, streamVars, healing, watch, viewer, astray, greeting, client>>

\* destroyRoom: the agent is closed, the Room leaves the registry, a viewer it
\* still has stays behind in it, and its entry in g.healing stays.  (A pass of
\* the watchdog that still holds the destroyed Room is not modelled.)
RoomGoes ==
    /\ known /\ watch.at \in {"idle", "due", "empty"}
    /\ known' = FALSE
    /\ agents' = "nil" /\ since' = Mature /\ silent' = Stale /\ hasVideo' = FALSE
    /\ astray' = (viewer # "out") /\ owed' = FALSE /\ excused' = FALSE
    /\ UNCHANGED <<agentVars, healing, watch, viewer, greeting, client>>

\* A room that was idle when the housekeeping loop listed it.
Destroy == RoomGoes /\ UNCHANGED inbox

\* A room past its ceiling: its viewers are told and evicted.  What waits for
\* them is written before their sockets close.
EndExpired ==
    /\ Watched /\ RoomGoes
    /\ inbox' = IF Len(inbox) < StatusBuffer THEN Append(inbox, "ending") ELSE inbox

-----------------------------------------------------------------------------
Heal == LookEmpty \/ Forget \/ Look \/ Decide \/ Tell \/ Kick \/ Restart

WatchdogNext ==
    \/ Connect
    \/ Publish \/ Dropped \/ Break \/ Disconnect
    \/ \E h \in {"well", "mute", "blind"} : ChangeHealth(h) \/ ComeUp(h)
    \/ Tick \/ Heal
    \/ Join \/ Greet \/ SendGreeting \/ Deliver \/ LeaveRoom
    \/ TellFull \/ Destroy \/ EndExpired

WatchdogSpec == WatchdogInit /\ [][WatchdogNext]_watchdogVars

\* The ticker and the goroutines run on; an agent that is up dials and, when
\* its capture works, publishes.  The network is not for ever breaking
\* connections.
WatchdogFairness ==
    /\ WF_watchdogVars(Tick) /\ WF_watchdogVars(Heal)
    /\ WF_watchdogVars(Connect) /\ WF_watchdogVars(Publish) /\ WF_watchdogVars(Dropped) /\ WF_watchdogVars(Disconnect)
    /\ WF_watchdogVars(SendGreeting) /\ WF_watchdogVars(Deliver)
    /\ <>[][~Break]_watchdogVars

WatchdogFairSpec == WatchdogSpec /\ WatchdogFairness

-----------------------------------------------------------------------------
(* Properties *)

\* An agent whose stream stays dead while somebody watches is told to restart
\* (README.md:378): the drop that comes first makes its next connection look
\* healthy for a while, which must not make the watchdog begin again with a
\* drop, and the cooldown must last until that connection is found out.
AilingAgentIsRestarted == Ailing ~> (down \/ ~Ailing)

\* The watchdog drops an agent and then asks it to restart (README.md:378): one
\* that was dropped, and has ailed ever since on an unbroken network, is not
\* dropped again, however late it came back and was found out.
DropIsFollowedUp == [][Decide /\ Remedy = "kick" => ~owed]_watchdogVars

\* When the watchdog rests and the viewer's queue is empty, the page of a viewer
\* whose Room is registered shows the status the gateway holds, unless a known
\* gap kept it from the page or the page was told since that the room is full.
Settled == watch.at = "idle" /\ viewer = "in" /\ ~astray /\ inbox = <<>>
PageIsCurrent == Settled => excused \/ client = healing.status
=============================================================================
