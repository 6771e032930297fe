# Browcord, specified

TLA+ specifications of the parts of browcord (a shared browser in a Discord
activity) whose correctness depends on the order in which goroutines, HTTP
calls, sockets and processes get their turn; TLC configurations that check them
on small instances; and TLAPS proofs of their main invariants for every
instance. `PROJECT.json` is the index: components, runs, the source lines each
definition stands for, hazards, findings and theorems.

    tlc -workers 2 -config MCGuard.cfg MCGuard     # one run of the table below
    tlapm GuardProofs.tla                          # one proof module

## 1. The system

| Component | State it keeps | Operations | Talks to |
|---|---|---|---|
| Room guard (`internal/guard`, `dockerguard`, `k8sguard`) | a mutex; the containers are the engine's or the cluster's | Ensure, Remove, List, Reap | Docker engine or Kubernetes API, over HTTP |
| Supervisor client (`internal/supervisor`) | none | Ensure, Remove, List with a 60 s limit | the guard, over HTTP |
| Gateway, room lifecycle (`gateway/rooms.go`, `gateway.go`) | `managed`, the registry of rooms | sign-in, socket admission, housekeeping every 15 s, destruction | supervisor client, rooms, agents |
| Room fan-out (`room/room.go`) | viewers and their queues, cached configuration and keyframe | Publish, Admit, Leave, Evict, ResetStream, BroadcastCtl | agent handler, viewer handlers |
| Agent connections (`gateway.go`) | `agents`, `agentSince` | register, unregister, close, send input | the agent, over a websocket |
| Ink (`room/ink.go`, `web/src/app/ink.ts`) | strokes, pens, point count; a copy per browser | append, clear, expire, snapshot, broadcast, repair | viewer handlers, the fading goroutine |
| Watchdog (`gateway/watchdog.go`) | `healing` per room | heal every 5 s, greet | rooms, agents, viewers |
| Cursors, presence, colours, typing token (`room.go`, `ink.go`) | maps per user; holder and time | admit, Leave, SetCursor, SetColor, Participants, Acquire | viewer handlers |
| Agent (`internal/agent`) | one connection, back-off, paint detector | dial, publish, apply commands, restart | gateway, capture, Chromium |
| Capture (`internal/capture`) | GStreamer pipeline, time base | callbacks per frame, bus, probe | agent |
| CDP (`internal/cdp`) | pending calls, a URL guard | Call, events, Navigate, input | Chromium |
| Sessions, limiter (`internal/authz`) | token buckets | Issue, Verify, Allow, Forget | gateway handlers |
| Web client (`web/src/app`) | two sockets, session, player, overlay | reconnect, renew, decode, draw | gateway |
| Wire format, H.264, room ids, templates, Discord client | none | encode, decode, validate | - |

How they meet. A sign-in calls the guard (a PUT that may create a container) and
records the room; the container's agent dials the gateway, whose handler feeds
one Room; every viewer has a media and a control socket, each with a handler, a
bounded queue and, for control, a writer goroutine. Four goroutines run beside
them: housekeeping (15 s), the watchdog (5 s), fading ink, and in the guard the
reaper. They share the gateway's maps under `g.mu` and `g.healMu`, the
registry's mutex and each Room's, and *every one of them lets go of its lock
between looking and acting*. This is what most of the modules are about.

### What is hard

* **Looking, unlocking, acting.** Idle rooms are listed, then destroyed; guard
  lists are fetched, then applied; ink is changed, then snapshot, then
  broadcast; the watchdog reads the agent, decides, tells, then acts.
* **Calls without a reply.** Any guard call may fail with or without its effect:
  a sign-in that timed out or was given up may have started a room. A removal
  runs in a goroutine of its own and its error is only logged.
* **Two of the same.** Two Room objects under one id, two agent connections for
  one room, two sign-ins for one room, two sockets of one user.
* **Bounded queues that drop.** Media drops and waits for a keyframe; ink drops
  and repairs; a status drops and is not sent again.
* **Restarts.** The gateway forgets every room, the guard every request;
  containers survive both.
* **Time.** Grace periods, idle limits, ceilings and cooldowns must be long
  enough for what they wait for.

`PROJECT.json` lists each hazard at its line with the properties that would
catch it, or the reason why none does yet.

### What makes each component correct

* Guard: never more containers than the cap; revival and reaping harm nothing
  that has started or is young; requests end; rooms past the ceiling go.
* Lifecycle: whatever is managed can be reaped; an old list costs no new record;
  watched rooms come back; expired and empty ones go; rooms are not reused.
* Fan-out: a delta only after what it is decoded from; waiting viewers resume;
  input reaches the latest agent.
* Ink: the caps count the board; screens agree with the board.
* Watchdog: a dead stream leads to a restart; viewers see the status.
* People: cursors and colours are those of who is there; pages are told; texts
  of two users do not interleave; no user floods the agent.
* Paint watch: a dead picture ends the agent; a healthy one is not blamed.
* Page: its sockets come back, without signing in over and over; its picture
  comes back after a decoder or a stream that broke.
* Agent: a session that no longer serves is replaced; no late failure ends a
  newer one; nothing Chromium does keeps the agent from the gateway for good.

## 2. The modules

```
Supervisor  <--- implemented by (refinement mapping Box) ---  Guard
    ^                                                           |
    | INSTANCE: its actions move the containers             GuardProofs
RoomLifecycle --- RoomReuse (history variable)
    |
RoomProofs                      RoomFanout --- FanoutProofs
AgentLink --- AgentProofs       PaintWatch --- PaintProofs

ViewerInput and InkBoard  --- ViewerProofs   (what viewers send)
RoomPeople and Watchdog   --- NewsProofs     (what a page is told)
ClientLink and Playback   --- PageProofs     (the two halves of a page)
```

Each `MC...` module gives the constants of one of these a small value; its
header says why that is enough.

Two components whose proofs share a module share no variable and are not
composed. So that both can be extended at once, `InkBoard`, `Watchdog` and
`Playback` carry their names in their definitions: `InkSpec`, `WatchdogTypeOK`,
`PlaybackTick`.

### `Supervisor`: what a guard promises

One variable, `box[r]` in absent, created, live, exited, and four actions. It is
the contract between the two sides of the HTTP interface: `Guard` is shown to
implement it, `RoomLifecycle` uses its actions for everything that happens to a
container.

### `Guard`: the guard and its two backends

| Model | Code |
|---|---|
| `cont[r]` | what the engine or cluster says of the room's container: Docker's states, or `podState`; `terminating` is a pod in its grace period, which lists as exited |
| `expired` | containers older than `Config.Ceiling` |
| `holder`, `Lock`, `Unlock` | `Server.mu`, `defer Unlock` |
| `pc`, `arg`, `listed`, `todo` | each goroutine's place, argument and local list |
| `List`, `Decide` | `backend.List` and the branches of Ensure |
| `Create`, `Start`, `Cleanup` | `dockerguard`'s create, start and removal after a failed start; a pod needs `Create` only |
| `DeletePod`, `WaitGone`, `WaitTimesOut` | `k8sguard` Revive |
| `RemoveOne`, `RemoveFails` | the loops of Remove (stops at an error) and Reap (goes on) |
| `...Fails` | an error with or without the call's effect |
| `Crash`, `ComeUp`, `Container...` | external |

`List` of containers without the mutex (GET /rooms) changes nothing and is part
of RoomLifecycle. A call takes effect before it returns or never: a create that
reaches Docker after the guard has given up on it is outside the model, and so
is the possibility that it exceeds the cap.

### `RoomLifecycle`: the gateway's rooms

| Model | Code |
|---|---|
| `managed[r]` | `g.managed`, with the class of the time it records: up to `adoptGrace`, up to `RoomCeiling`, beyond |
| `registry`, `idle` | `Registry.rooms`; Rooms for which `EmptyFor` exceeds `RoomIdle` |
| `stage[v]`, `object[v]` | where a socket's handler is, and whether the Room it holds is still the registered one |
| `call[c]` | an Ensure call of a sign-in or of a `reviveRoom` goroutine; it may fail before the create, after it, or after the start (`EnsureFails`), because the guard is faulty or a viewer gave up |
| `removals[r]` | destroyRoom's goroutines |
| `loop`, `queue`, `victim`, `seen` | the housekeeping goroutine and its locals |
| `faulty` | chosen once: guard calls may fail, the cap may be taken by rooms outside the model |

Abstractions: one `reviveRoom` goroutine per room (the loop waits for an earlier
one); at most `MaxRemovals` removals in flight (the loop waits); the sync that
`Run` starts at boot is the loop's first pass (`loop = "boot"`); `Evict` and the
removal from the registry in `endExpiredRooms` are one step, because a viewer
that comes between them ends as an "orphan" as does one that holds the Room
already; a pod that is pending counts as running from the start, since neither
Ensure nor `syncManaged` tells the two apart; a call that the guard carries out
only after the gateway has given up on it, or has restarted, is taken as carried
out just before; time does not outgrow `adoptGrace` while one list is being applied
(`syncManaged` compares with the time of its tick). Adoption records the rooms
under `g.mu` and registers them afterwards (`RegisterAdopted`). The agent's connection,
whose handler also calls `GetOrCreate`, adds nothing to what a viewer that looks
up and leaves does, and is left out. The fixed room (no guard) is not modelled.

`RoomReuse` adds a history variable: whether somebody watched the container of
`r`, and whether its room was destroyed afterwards.

### `RoomFanout`: one room's media

A frame is `key` or `delta`; what a viewer was sent is abstracted to
`picture[v]`, the connection whose last video frame it can decode from. `phase`,
`agents`, `config`, `keyOf`, `present`, `queued`, `needsKey` are the code's
fields; `latest`, `kicked`, `stream`, `atKey`, `picture`, `excused` belong to an
observer. A handler whose connection was replaced may go on publishing what it
had read, as in the code. Registration and `ResetStream` are two steps.

`excused` names, on purpose, the two ways in which today's code sends deltas
that do not decode: a viewer admitted between keyframes (the cached keyframe is
old, `needsKeyframe` is not set), and frames of a replaced connection after the
new one's reset. `DeltaFollowsItsFrame` says that there is no other.

### `InkBoard`: drawing together

Each handler changes the board in one critical section, takes its snapshot in
another and broadcasts in a third; the writer goroutine's repair takes a
snapshot and writes it past the queue. `board[i]` is the number of batches
stored for stroke `i`; `client[u]` is the `InkStore` in the browser, which
appends what it is sent, twice if it is sent twice. `Author` is whoever draws;
the room's count of points (`PointsOf`) is the number of pairs of a stroke and
one of its batches. Coordinates, colours,
batches of several points, sequence numbers beyond "same stroke or a new one",
and the fading on a connected page are left out.

The page's `InkStore` outlives its sockets: a viewer comes back with what its
page kept, less what faded meanwhile (`PageAlone`, which is also a page loaded
anew), and is sent the board unless that is empty (`CanvasOnArrival`). The pen
of a user who leaves may stay, for a media socket that stays.

Two observers name what today's code gets wrong for a while. `crossed` marks the
viewers for whom a canvas and another update, or a repair and queued updates,
were under way at once, or who came while something was. `leftover` holds the
strokes that a page had when it came back to an empty board. Both end with the
next whole board that reaches the viewer while nothing else is on its way.
`QuietBoardsAgree` says that otherwise a screen is the board once nothing is on
its way, and `ScreensCatchUp` that a viewer whose queue ran full is shown the
board in the end, though nobody draws any more. Ids that begin anew in a new
Room of the same name are not modelled.

### `Watchdog`: healing one room

Time is counted in ticks of `watchdogInterval`; an age stops one beyond the
limit it is compared with. `heal` is cut where it lets go of a lock: look
whether anybody watches, forget, read the connection, decide under `healMu`,
broadcast, act. A connection is named by reference ("held": the one the agent
has now, "left": one it has lost), so that a kick that hits a fresh connection
and a restart command written to a lost one are both in the model. The viewer's
handler is cut likewise: admitted, status read, status sent past the queue.

`WatchdogAssumption` asks that a dropped agent be back, and be found out, within
the cooldown. With the code's constants in ticks: an agent needs at most
16 s of back-off and 15 s to dial (`MaxAway` 7), is silent for `noVideoAfter`
(20 s, 4 ticks) before it counts as unhealthy, and one tick more: 7 + 4 + 1 = 12
ticks, exactly `kickCooldown` of 60 s. The constants hold with nothing to spare.
`owed` is an observer: the agent was dropped, has ailed ever since on a network
that did not break, and was not told to restart. `DropIsFollowedUp` says that
such an agent is not dropped a second time.

The same page also hears from `reviveRoom` ("full", `TellFull`) and
`endExpiredRooms` ("ending", `EndExpired`), and the housekeeping loop may destroy
the room under a viewer (`Destroy`): `astray` is a viewer whose Room the registry
no longer has, which is told nothing more. A "full" contradicts what the watchdog
has told and stays on the page until its verdict changes; `excused` counts it.

One viewer is followed; chunks of a replaced connection are left to RoomFanout;
registration and `ResetStream` are one step; a destroyed room waits for the end
of the pass that visits it (one that goes on with the Room it found is not
modelled). An agent that is blind but whose `videoConfig` was
set before is not noticed by this watchdog, as in the code (`HasVideo` is never
unset while the connection lasts); that is the agent's own detector's task.

The watchdog's agent notices within a tick that its connection was closed, and
reads the order to restart as soon as it is written. `AgentLink` shows what
stands behind that: an agent whose reader is held up by Chromium notices by
writing, so one that is mute as well needs its own paint watch.

### `AgentLink`: the agent's side

| Model | Code |
|---|---|
| `at` | where the goroutine of `Run` is: dialling, between `setConn` and `a.cancel = cancel`, reading, in `Call`, in `a.fail`, waiting to dial |
| `sock`, `orders` | the session's connection as the agent finds it, and what it holds unread |
| `conn`, `cancel` | `Agent.conn` and `Agent.cancel`; references to earlier sessions are "old" |
| `pub` | the streaming thread: the connection `publish` took, the cancel function `dropConn` took |
| `cdp`, `pending` | `readLoop`, `failPending`, `Close` in that order, and the reader's entry in the table of calls |
| `fatal`, `failing`, `runDone`, `result` | the channel of `a.fail`, its two halves, `runCtx`, what `Run` returns |
| `PingFails` | `pingAgent` of the gateway: a pong is sent by a read, so a busy reader sends none |

One command waits at a time (`MaxOrders`): while the reader is busy with one,
the next, the order to restart, waits behind it. Chromium owes no answer: a
hung page, a site that does not respond and a broken DevTools connection are all
calls that may never return. The paint watch and the bus watch are one caller of
`a.fail` that may act at any time, and must when the pipeline delivers nothing
and `ROOM_STALL_SECONDS` is not 0 (`Probing`). The length of the back-off,
navigation events and extra tabs are left out.

`PaintWatch` is that watch; `AgentLink` keeps only its conclusion.

Two states are named and excepted. `Deaf`: the pipeline is stalled and its
detector turned off, so that nobody writes and nobody looks. `Uncancelled`: a
write failed between `setConn` and the assignment of `a.cancel`, `dropConn` found
no function to call, and the reader has meanwhile taken a command that was
already in the connection; if Chromium does not answer that command, nothing
ends its call. The properties show that there is no third.

### `PaintWatch`: the agent's watch for a frozen picture

| Model | Code |
|---|---|
| `page`, `display`, `frozen` | what Chromium paints and what X shows the capture; one of two stills or a film, which no two samples show alike |
| `probe`, `due`, `samples` | the pipeline's probe branch, one frame a second, and the channel its hashes wait in; a full channel drops |
| `stall` | `capture.Stall`, with ages instead of times |
| `ticked`, `late` | the ticker's channel and the time of the tick in it: `Silent` and `Unchanged` count from when the tick was made |
| `at`, `timer`, `before`, `unchangedAt` | where `watchPaint` or `confirmPaint` is, and its locals |
| `faults`, `failures` | the locals of `watchPaint` |

Time passes in seconds, when nobody has anything to do at once. A select with
two channels ready takes either: a tick may be read before a sample that waits,
and the gap may end before one. `sight` is an observer: it says whether the
probe has seen all that a healthy display has shown since the first screenshot.
`PaintAssumption` asks for a window no shorter than a gap and a screenshot
(2 s + 5 s); the code takes any, its default is 30 s.

### `ViewerInput`: limiter and typing token

A handler reads one message at a time: `Limiter.Allow`, `ParseCtl`, the token,
the broadcast, the agent, each a step, with the other handlers in between.
Tokens of the bucket are counted in units, so that the rate need not be whole.
`account` is an observer with one user's book: what was spent since some moment
and what was due, begun anew at any moment and for anyone.

### `RoomPeople`: cursors, colours, presence

`viewers`, `colors`, `cursors` are the Room's maps; `list[s]` is what a handler
got from `Participants` and has not sent yet; `up[s]` is a colour on its way
from the page (the page sends its own whenever the socket opens, main.ts:407).
Of one page the queue is followed too, and the list it shows in the end. What a
page reads is booked when it is sent; lists lost with a socket may leave it with
an older colour (`CtlCloses`), and a page loaded afresh has colour 0 (`LoadPage`).
`missed` is an observer: the last change was announced by nobody (a media
socket's), sent before a list made earlier, or met a full queue. Places of
cursors, and the lists of cursors, are left out. The caps per user and per room
are those of `admit`.

### `ClientLink`: the page's sockets and its session

| Model | Code |
|---|---|
| `link`, `retry`, `timer` | a `MediaSocket`'s or `ControlSocket`'s `ws`, `retry` and `timer` |
| `carried` | whether the token a socket connected with is still good: it is read at the start and judged at the end |
| `renewing`, `since` | `Renewal.inflight` and `last`, with the gateway's answer on its way |
| `token` | whether the page's token would be accepted |
| `ghosts` | the gateway's viewers whose page has gone: they count against the cap per user until a ping fails |
| `running`, `up` | `isManaged`, the network |
| `calm`, `settled` | an observer: nothing has gone wrong since the last sign-in |

A socket is upgraded before the Room's caps are looked at, so one that is turned
away has been open for the page; this resets its `retry`. `Restart(TRUE)` is a
gateway without a configured secret. A restarted gateway answers 410 until a
sign-in or the guard's list (`Adopts`) brings the room back. A tick is 500 ms; the cap of `Wait` and of
`retry` are constants.

### `Playback`: the player's video path

`video` is the decoder's state, `configuring` the await of `configureVideo`,
`candidates` and `index` what it found, `budget` the ages in `RestartBudget`,
oldest first, of which `Passed` drops those older than its window, `last` that of `PtsWatch`; `inside`, `keyless` and `refused` belong to the
browser's decoder. Chunks arrive in any order; each has a time, the picture's up
to `Lag` behind the sound's. `failures` and `shows` are observers.
`PlaybackAssumption` asks that the lag stay within what the watch forgives (one
second), which the code does not check; without it every second chunk would
resync the player. Audio, pacing and the queue of decoded frames are left out.

## 3. The runs

| Run | Checks | Bounds and why they suffice |
|---|---|---|
| `guard` | `CapHolds`, `ReviveSparesLivePods`, `ReapSparesYoungRooms`, `KeepsPromise`, `ExpiredRoomsGo`, `RequestsEnd` | 2 rooms and cap 1: the cap is at stake; 2 handlers and the reaper: a list can be stale; both backends |
| `rooms` | `ManagedRoomIsReapable`, `OldListSparesNewRooms`, `WatchedRoomIsRevived`, `LiveRoomIsAdopted`, `ExpiredRoomEnds`, `EmptyRoomGoes` | 1 room, 1 viewer, 1 removal in flight: rooms meet only at the cap (`faulty`), and the gateway asks of viewers only whether there are any; the invariant is proved for any number |
| `rooms_reuse` | `NeverReused`, violated | as above, with the history variable |
| `fanout` | `InputFindsAgent`, `DeltaFollowsItsFrame`, `WaitingViewerResumes` | 2 connections that replace each other and come back, 1 viewer (each is served by itself), a queue of 3: what admission puts in it, and full |
| `ink` | `InkIsAccountedFor`, `QuietBoardsAgree`, `ScreensCatchUp` | 2 users, 1 watched, 2 strokes of 2 batches, at most 2 points in all, 1 stroke each: points, strokes per user and points per stroke are at their limits (the cap on strokes is implied here by the one per user); a queue of 1, which each pair of updates overruns; what waits in longer ones is covered by the theorem |
| `watchdog` | `PageIsCurrent`, `DropIsFollowedUp`, `AilingAgentIsRestarted` | limits of 1 tick, cooldown 3: the assumption holds with equality, as it does of the code; a queue of 1, in which one status meets another |
| `agent` | `PendingIsWaited`, `DropsItsOwn`, `NoFailureIsSwallowed`, `ReaderIsFreed`, `SessionIsReplaced`, `RestartIsObeyed` | sessions and processes without number, one unread command; the detector on, so that `Deaf` never excuses |
| `paint` | `FailedCheckIsExplained`, `AilmentsEndIt` | the shortest window the assumption allows, limits of 1 and 2, a channel of 1: every sample can be late, dropped or overtaken |
| `input` | `RateIsBounded`, `TextIsInTurn` | 2 users, 3 sockets, 2 of one user: they share a bucket; a bucket of a message and a half, a book over several bursts |
| `people` | `CursorsAreInOrder`, `PresenceSettles`, `OwnColourSettles` | 2 users, one with a media and a control socket, the other with the page that is followed; 2 colours, 1 pick and pages that load afresh, a queue of 1 |
| `client` | `SettledPageIsQuiet`, `PageComesBack` | 2 sockets, 3 per user so that ghosts crowd them out, stale after 3 failures as in the code, 3 faults of any kind |
| `playback` | type, `NoFrameIsRefused`, `PictureComesBack`, `GivesUpForAReason` | 2 candidates, a budget of 2 in 3 ticks, 7 faults: candidates and budget can both be exhausted and the stream still begin anew |

Deadlock is checked in every run but `paint`, where an agent that has ended is
the end. Every property of a passing run has a mutant:
a plausible bug in the modelled code (a forgotten unlock, a check dropped or
made off by one, a grace period left out, pens that survive their strokes, an
escalation reset too early ...) for which TLC finds the property violated.

### What disagrees with the documents

The first is a run that TLC ends with a counterexample, and `PROJECT.json` quotes
the document against the line. Those with a name in brackets are conditions
that the properties except, so that the runs show there is no further one. The
rest is what the models have of the code, met while writing them.

* **Rooms can be reused** (`rooms_reuse`). destroyRoom forgets the room at once
  and removes its container later, in a goroutine that can fail. A sign-in in
  between finds the container running; a failed removal leaves it to be adopted.
  README.md:281-283 says rooms are never reused.
* **A room can be destroyed under a viewer** (gateway.go:227). The list of idle
  rooms is not looked at again; README.md:281-282 has rooms destroyed "when they
  empty".
* **Late joiners are sent deltas that do not decode** until the next keyframe
  (`excused` in `RoomFanout`): `admit` does not set `needsKeyframe`.
* **Strokes can vanish from screens** (`crossed` in `InkBoard`) when a canvas
  taken before them is broadcast after them; README.md:54-55.
* **Strokes can stay on a screen** (`leftover` in `InkBoard`): a page that was
  away while the board was cleared keeps what it had, since an empty board is
  sent to nobody (room.go:139), until it fades or the next canvas comes;
  README.md:54-55 has "a late arrival ... sent the board as it currently stands".
* **A page can show "offline" for a live room** (`excused` in `Watchdog`).
  "live" is never sent on arrival, and the record whose change would be announced
  is deleted while the room is empty; README.md:378-379. So can one show "full",
  which only the next change of the watchdog's verdict takes back (rooms.go:85).
* **A list of people can be stale** (`missed` in `RoomPeople`): sent after a
  newer one, dropped at a full queue, or never made, since a media socket
  announces nothing.
* **The colour dealt on arrival is overridden by the page** (main.ts:407): the
  control socket sends `myColor`, 0 until a list has been read, as soon as it is
  open. A fresh page whose list does not come first takes colour 0, whatever it
  was dealt; room_test.go:517-534 and README.md:362 have users spread over the
  palette. `OwnColourSettles` says what is left of it: page and gateway agree on
  the colour in the end.
* **The cached keyframe is not shown to a joiner** (player.ts:109-111): it
  arrives while `configureVideo` awaits, or starts it, and is dropped;
  README.md:80-82 promises it as the first picture. The picture waits for the
  next one.
* **A player that has given up does so for good.** Its budget recovers, as
  restart.test.ts:31-39 says, but nothing makes another decoder until the page
  is loaded again (`GivenUp` in `PictureComesBack`).
* **The limiter is forgotten with any control socket** (gateway.go:552), so that
  a user's next message starts from a full bucket (`RateIsBounded` counts it).
* **Probe faults are never forgotten** (paint.go:48): three in the life of the
  process end it, however many good samples lie between.
* **A page that is crowded out retries every 500 ms**, since each refusal follows
  an open socket and resets the back-off; and a socket whose session expires
  stays open.

Also met, and not a finding of a run: README.md:54 says that strokes stay until
cleared and README.md:385 that they fade after 15 seconds; a revival that fails
is never tried again, because the room is by then no longer managed
(`WatchedRoomIsRevived` is therefore stated for a guard that answers); a room
whose container vanished is forgotten under its viewers and not revived until
one signs in again (rooms.go:194-197); a
container that stopped around a gateway restart is neither adopted nor removed
until the guard's ceiling (`LeftToTheGuard` in `EmptyRoomGoes`).

### Fairness

* Goroutines that can run do (`WF` of their steps), because the Go scheduler is
  fair and every call has a time limit: 30 s in the backends, 60 s in the
  supervisor client, 3 s for the restart command.
* `SF` of `Lock`: `sync.Mutex` hands itself to a waiter that starves.
* `SF` of the reaper's `List` and `RemoveOne` and of the gateway's `ListRooms`:
  what is tried at every tick is not refused for ever. This is an assumption on
  Docker or Kubernetes, without which no promise on removal can be kept.
* `SF` of a keyframe that reaches the waiting viewer: the encoder makes one
  every few seconds and a viewer that reads (`WF` of `Read`) has room again and
  again.
* `<>[][~Crash]`, `<>[][~Restart]` and `<>[][~Break]`: a guard, a gateway or a
  network that fails over and over, faster than a tick, is not asked to make
  progress. `Crash`, `Restart` and `Break` each change a value that no other
  action changes in the same way (`holder = Down`, `loop = "boot"`,
  `agents = "held"` before), so that the assumption excludes nothing else.
* In `AgentLink`: `SF` of `Dial` (the gateway accepts in the end), of `Publish`
  (a pipeline that works again and again) and of a read's failure once its
  context is done; `WF` of a ping that is not answered, of a write's end (three
  seconds at most) and of the paint watch's verdict on a silent probe. None of
  Chromium's answers.
* In `PaintWatch`: time passes and the goroutine runs; a call that is not answered
  times out (`context.WithTimeout`). None of the page, the display or Chromium.
* In `ClientLink`: timers, answers and failing pings (`ctlPingTimeout`), a network
  that returns, and a browser that notices a dead connection: transport.ts has no
  check of its own, so this last one is the browser's TCP. Faults are bounded:
  the property is about what follows the last.
* In `Playback`: a key frame with its configuration comes again and again
  (`KEYFRAME_SECONDS`), and the browser answers.
* Nothing is assumed of users, of containers that stop, of health that changes.

## 4. The proofs

For every value of the constants that satisfies the named assumptions
(`GuardAssumption`, `RoomLifecycleAssumption`, `FanoutAssumption`, and one each
of the other eight components), which TLC evaluates for the instances above.
Every safety invariant and every action property that a passing run checks is a
theorem:

* **`GuardProofs`.** `IInv` is the type invariant, mutual exclusion (whoever is
  past `Lock` holds the mutex), the cap, and what each goroutine may still rely
  on: between its List and its Create nothing can appear that its list does not
  show, and the list leaves room for one more (`ListInv`); what the reaper has
  still to remove is past the ceiling or gone (`ReapInv`); a pod about to be
  deleted by a revival has not come alive (`ReviveInv`). `CapHolds` alone is not
  inductive: only `ListInv` says why a Create, calls after its List, is safe.
  From `IInv` follow `GuardTypes`, `GuardHoldsCap`, the action properties
  `GuardSparesLivePods` and `ReaperSparesYoungRooms`, and `GuardKeepsPromise`,
  the step simulation of `Supervisor` under the mapping `Box`, which needs the
  cap for its `Create`.
* **`RoomProofs`.** `Inv` adds to `ManagedRoomIsReapable` that there is a victim
  exactly between the halves of destroyRoom, and that whoever has a call under
  way holds no Room. From it `RoomTypes` and `ManagedRoomsAreReapable`. The
  first part of a removal, an adoption and an Ensure each leave a room recorded
  and not registered for a step, and the invariant says which.
  `NewRoomsOutliveOldLists`
  is about the list that syncManaged applies, which may be older than a
  container: what the list lacks and is there now was made since
  (`UnlistedIsNew`), so that its age, and with it any record of it, is too young
  to count as vanished. What is forgotten is the record of an earlier container.
* **`FanoutProofs`.** `Inv` adds `InStep`: a viewer that neither waits nor is
  excused has all that the stream's next delta is decoded from. From it
  `FanoutTypes`, `InputGoesToLatestAgent` and the action property
  `DeltasDecode`.

* **`AgentProofs`.** Types are proved in three parts (flags, the queue, places).
  That the connection is there exactly while the reader is in a session needs
  `OwnInSession`: a `dropConn` that closes late holds a reference to an earlier
  session by then. With `ErrorFirst` (the error is in its channel before
  `runCtx` ends) follow `AgentTypes`, `NoCallIsLeaked`, `LateFailureSpares` and
  `FailuresAreReported`.

* **`PaintProofs`.** `Watched` follows what the detector can know during a check:
  while there is sight, either a changed picture has been read since the first
  screenshot (`Reset`, which `InTime` turns into "less than the window ago", and
  `WindowOver` into "less than `unchangedAt`"), or the picture is still that of
  the first screenshot, or the last sample in the channel shows the change. Here
  the assumption on the window is used. From it `PaintTypes` and `NoFalseBlame`.
* **`ViewerProofs`**, input. `Covered`: what is spent and what is left in the
  bucket never exceed what was due. From it `InputTypes`, `Bounded` and `InTurn`.
* **`ViewerProofs`**, ink. `BoardInv`: a pen draws on a stroke that is on the
  board, strokes not begun are blank, and the caps hold. Points are counted as a
  set of (stroke, batch) pairs, so that a new batch adds one element
  (`OnePointMore`) and whatever leaves the board leaves a subset
  (`FewerPoints`). From it `InkAccounts` and `InkTypes`. `SeenInv` is about those
  for whom nothing has crossed: a canvas on its way is alone and shows the board
  (`CanvasIsAlone`, `CanvasIsBoard`), and the last of the screens a viewer goes
  through while its queue is read (`Screens`) makes up the board together with
  the draws still to be sent, unless a canvas is to come (`ScreensEnd`). The
  queue is read through such a sequence of screens, whose existence each step
  preserves, because a recursive definition could not be reasoned about. From it
  `QuietViewersAgree`. A page may come back with any strokes on its screen:
  `leftover`, and the canvas sent on arrival, account for them.
* **`NewsProofs`**, people. `HandlersAreIn` (whose handler reads messages is in
  the Room unless it was evicted), `PresentAreColored`, `LastListIsTrue` and
  `LastColorIsOwn` (the page's colour is that of the last list it was sent, unless
  it sent another since). From them `PeopleTypes`, `CursorsInOrder`,
  `PresenceIsTrue` and `OwnColour`. Without `HandlersAreIn` a late pointer could
  bring back the cursor of one who has left.
* **`NewsProofs`**, watchdog. `LatestIsCurrent`: unless a status is still to be
  told, or a known gap kept one back, the last status in the queue, or the page
  when the queue is empty, is the gateway's. From it `StatusReachesPage`.
  `EscalationInv` compares ages: an agent that is owed a restart has been away as
  long as the drop is old, or back for all but `MaxAway` ticks of that time, and
  as silent (`OnItsWay`); so the pass at the end of the cooldown, at the latest,
  finds it ill (`OwedIsNotDropped`), and no earlier order to restart can stand in
  the way, since any such order is older than the drop (`Timely`). From it
  `DropsAreFollowedUp`, the reason for `WatchdogAssumption`.
* **`PageProofs`**, sockets. `OpenedAfresh` (whoever is or was open counts from
  zero), `CalmIsGood` and `SettledIsGood` carry what was true at the sign-in to
  the moment its answer is read and on. From them `LinkTypesHold` and
  `SettledPagesAreQuiet`.
* **`PageProofs`**, player. `KeyComesFirst` (a decoder that has been handed
  anything was handed a key frame first), `CandidateViable` and `ConfiguredOnce`
  (the await of `configureVideo` is behind the first decoder only), `OldestFirst`
  (so that what `Passed` drops is a prefix), and `BudgetCounts`: until it gives
  up, the player's budget is the list of failures. From them `PlaybackTypes`,
  `NoneIsRefused` and the action property `PlayerGivesUpForAReason`.

Only model-checked: the liveness properties (leads-to under fairness rests on
ENABLED, which is out of the prover's reach), and `NeverReused`, which the code
violates. `DropsAreFollowedUp` is the part of the watchdog's liveness that does
not depend on fairness.

## 5. What could come next

1. Parts of other liveness properties that do not depend on fairness, as safety
   properties with theorems, as `DropIsFollowedUp` is for the watchdog: that the
   guard's requests, the agent's reader and the page's sockets always have a step
   of their own left to take.
2. The composition of `AgentLink` with `PaintWatch` for the agent's `Fail`.
3. The player's audio path and its jitter buffer, as far as integers carry it.
4. The single fixed room of a gateway without a guard.

## 6. Not modelled, and why

The CDP URL guard, room ids, templates and message validation are matching of
strings; the wire framing and H.264 parsing are loops over bytes without state;
signing is cryptography; the Discord client is stateless HTTP; GStreamer's
elements and the encoder's choice belong to the capture pipeline's libraries;
audio rendering, pacing and jitter estimates are arithmetic in real numbers;
pointer echo, the reveal gate and the viewport are layout; metrics and client
reports have no influence. Deployment files, commands and assets hold no
behaviour of their own.
