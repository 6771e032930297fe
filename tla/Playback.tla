------------------------------ MODULE Playback ------------------------------
(***************************************************************************)
(* How a page decodes the picture (Player of web/src/app/player.ts, with   *)
(* discontinuity.ts and restart.ts): chunks arrive from the media socket,  *)
(* a decoder is configured behind an await and may fail at any time, and a *)
(* stream that begins anew is told by its time.  The decoder itself is the *)
(* browser's.  Audio is here for its time only.                            *)
(***************************************************************************)
EXTENDS Integers, Sequences, FiniteSets

CONSTANTS MaxCandidates,  \* configurations that the browser may support
          Limit, Window,  \* VIDEO_RESTART_LIMIT, VIDEO_RESTART_WINDOW_MS
          Backstep,       \* PTS_BACKSTEP_US
          Lag,            \* how far the picture's time is behind the sound's
          MaxPts,         \* where a stream's time ends
          Depth,          \* frames inside the decoder
          MaxTroubles     \* bound: what goes wrong with the decoder or the stream

ASSUME PlaybackAssumption ==
    /\ MaxCandidates \in Nat \ {0} /\ Limit \in Nat \ {0} /\ Window \in Nat \ {0}
    /\ Backstep \in Nat /\ Lag \in Nat /\ Lag <= Backstep /\ MaxPts \in Nat
    /\ Depth \in Nat \ {0} /\ MaxTroubles \in Nat

VARIABLES
    video,        \* Player.video: none yet, or the state of the decoder
    configuring,  \* configureVideo is behind its await
    candidates,   \* how many configurations are viable
    index,        \* Player.candidateIndex
    started,      \* Player.started: the decoder has had a key frame
    decoded,      \* Player.decoded > 0
    budget,       \* RestartBudget.times, as ages
    last,         \* PtsWatch.last
    inside,       \* frames that the decoder has not put out yet
    keyless,      \* the decoder has had no key frame since it was made
    refused,      \* it has refused a chunk
    shows,        \* a frame has come out since the decoder was made or resynced
    clock,        \* the stream's time
    troubles,
    failures      \* ages of the decoder's failures after the first frame

decoderVars == <<video, index, inside, keyless, shows>>
playerVars == <<configuring, candidates, started, decoded, budget, last>>
playbackVars == <<decoderVars, playerVars, refused, clock, troubles, failures>>

PlaybackTypeOK ==
    /\ video \in {"none", "configured", "unconfigured", "closed"}
    /\ configuring \in BOOLEAN /\ candidates \in 0 .. MaxCandidates /\ index \in 0 .. MaxCandidates
    /\ started \in BOOLEAN /\ decoded \in BOOLEAN
    /\ budget \in Seq(0 .. Window - 1) /\ Len(budget) <= Limit
    /\ last \in -1 .. MaxPts /\ inside \in 0 .. Depth
    /\ keyless \in BOOLEAN /\ refused \in BOOLEAN /\ shows \in BOOLEAN
    /\ clock \in 0 .. MaxPts /\ troubles \in 0 .. MaxTroubles
    /\ failures \in Seq(0 .. Window - 1)

PlaybackInit ==
    /\ video = "none" /\ configuring = FALSE /\ candidates = 0 /\ index = 0
    /\ started = FALSE /\ decoded = FALSE /\ budget = <<>> /\ last = -1
    /\ inside = 0 /\ keyless = TRUE /\ refused = FALSE /\ shows = FALSE
    /\ clock = 0 /\ troubles = 0 /\ failures = <<>>

-----------------------------------------------------------------------------
(* The decoder *)

\* applyCandidate, from candidate i of n on, when f has gone wrong: each may
\* throw when the decoder is configured with it, and the last leaves a
\* decoder without configuration.
ApplyStarted(i, n, f) ==
    \E j \in i .. n :
        /\ troubles' = f + (j - i) /\ troubles' <= MaxTroubles
        /\ index' = j /\ video' = IF j < n THEN "configured" ELSE "unconfigured"
        /\ inside' = 0 /\ keyless' = TRUE /\ shows' = FALSE
        /\ UNCHANGED started
Apply(i, n, f) ==
    \E j \in i .. n :
        /\ troubles' = f + (j - i) /\ troubles' <= MaxTroubles
        /\ index' = j /\ video' = IF j < n THEN "configured" ELSE "unconfigured"
        /\ inside' = 0 /\ keyless' = TRUE /\ shows' = FALSE
        /\ started' = IF j < n THEN FALSE ELSE started

\* configureVideo, up to the await.
Configure == configuring' = (configuring \/ video = "none" \/ candidates = 0)

\* What comes of it: n configurations are viable, or none.
Configured(n) ==
    /\ configuring /\ configuring' = FALSE
    /\ IF n > 0
       THEN candidates' = n /\ Apply(0, n, troubles)
       ELSE troubles < MaxTroubles /\ troubles' = troubles + 1 /\ UNCHANGED <<decoderVars, candidates, started>>
    /\ UNCHANGED <<decoded, budget, last, refused, clock, failures>>

\* decodeVideo.  A decoder that has had no key frame throws at a delta.
Feeds(type, begun) == video = "configured" /\ (begun \/ type = "key")

Decode(type, begun) ==
    IF Feeds(type, begun)
    THEN /\ inside < Depth
         /\ IF keyless /\ type = "delta"
            THEN started' = FALSE /\ refused' = TRUE /\ UNCHANGED <<inside, keyless>>
            ELSE started' = TRUE /\ inside' = inside + 1 /\ keyless' = FALSE /\ UNCHANGED refused
    ELSE started' = begun /\ UNCHANGED <<inside, keyless, refused>>

\* onFrame.
Output ==
    /\ video = "configured" /\ inside > 0
    /\ inside' = inside - 1 /\ decoded' = TRUE /\ shows' = TRUE
    /\ UNCHANGED <<video, index, keyless, configuring, candidates, started, budget, last, refused,
                   clock, troubles, failures>>

\* onDecoderFailure: before the first frame the next candidate is tried, later
\* the same one again, as far as the budget goes.
DecoderCloses(i) ==
    /\ video' = "closed" /\ index' = i /\ inside' = 0 /\ shows' = FALSE
    /\ troubles' = troubles + 1
    /\ UNCHANGED <<keyless, started>>

HasBudgetOffByOne == Len(budget) <= Limit
HasBudget == Len(budget) < Limit

Restarts == budget' = Append(budget, 0) /\ Apply(index, candidates, troubles + 1)
NextCandidate ==
    IF index + 1 < candidates THEN Apply(index + 1, candidates, troubles + 1) ELSE DecoderCloses(index + 1)

DecoderFails ==
    /\ video = "configured" /\ troubles < MaxTroubles
    /\ IF ~decoded THEN NextCandidate /\ UNCHANGED budget
       ELSE IF HasBudget THEN Restarts
       ELSE DecoderCloses(index) /\ UNCHANGED budget
    /\ failures' = IF decoded THEN Append(failures, 0) ELSE failures
    /\ UNCHANGED <<configuring, candidates, decoded, last, refused, clock>>

-----------------------------------------------------------------------------
(* The stream *)

\* push.  One watch sees the times of picture and sound; those of one
\* pipeline are never further apart than it forgives.
Pts(type) == IF type = "audio" THEN {clock} ELSE {p \in 0 .. clock : p + Lag >= clock}

\* PtsWatch.observe takes note of a time, and resync forgets it.
SeenKept(pts, jumped) == IF jumped THEN last ELSE pts
Seen(pts, jumped) == IF jumped THEN -1 ELSE pts

Takes(type, pts) ==
    LET media == type # "config"
        jumped == media /\ last >= 0 /\ pts < last - Backstep
        begun == started /\ ~jumped
    IN /\ last' = IF media THEN Seen(pts, jumped) ELSE last
       /\ shows' = (shows /\ ~jumped)
       /\ IF type = "config" \/ (type = "key" /\ video = "none")
          THEN Configure /\ started' = begun /\ UNCHANGED <<inside, keyless, refused>>
          ELSE /\ UNCHANGED configuring
               /\ IF type = "audio" THEN started' = begun /\ UNCHANGED <<inside, keyless, refused>>
                  ELSE Decode(type, begun)
       /\ UNCHANGED <<video, index, candidates, decoded, budget, clock, troubles, failures>>

Arrives(type) == \E pts \in Pts(type) : Takes(type, pts)

\* The gateway's "live" after another status has the player resynced too.
RoomIsBack ==
    /\ troubles < MaxTroubles /\ troubles' = troubles + 1
    /\ started' = FALSE /\ last' = -1 /\ shows' = FALSE
    /\ UNCHANGED <<video, index, inside, keyless, configuring, candidates, decoded, budget, refused,
                   clock, failures>>

\* The room's pipeline starts anew, and with it the stream's time.
PipelineRestarts ==
    /\ troubles < MaxTroubles /\ troubles' = troubles + 1
    /\ clock' = 0
    /\ UNCHANGED <<decoderVars, playerVars, refused, failures>>

\* Times a tick later, the oldest first, without those that are Window old.
Passed(times) ==
    LET gone == {i \in DOMAIN times : times[i] + 1 >= Window}
    IN  SubSeq([i \in DOMAIN times |-> times[i] + 1], Cardinality(gone) + 1, Len(times))

\* RestartBudget forgets what is older than its window.
AgedForEver(times) == times
Aged(times) == Passed(times)

PlaybackTick ==
    /\ clock' = IF clock < MaxPts THEN clock + 1 ELSE MaxPts
    /\ budget' = Aged(budget) /\ failures' = Passed(failures)
    /\ UNCHANGED <<decoderVars, configuring, candidates, started, decoded, last, refused, troubles>>

-----------------------------------------------------------------------------
Chunk == {"config", "key", "delta", "audio"}

Decoder == (\E n \in 0 .. MaxCandidates : Configured(n)) \/ Output \/ DecoderFails
Stream == (\E type \in Chunk : Arrives(type)) \/ RoomIsBack \/ PipelineRestarts

PlaybackNext == Decoder \/ Stream \/ PlaybackTick

PlaybackSpec == PlaybackInit /\ [][PlaybackNext]_playbackVars

\* The encoder makes a key frame at least every KEYFRAME_SECONDS, each with
\* its configuration (capture.go:338-353), and the browser answers.
PlaybackFairness ==
    /\ WF_playbackVars(Arrives("config")) /\ WF_playbackVars(Arrives("key"))
    /\ WF_playbackVars(\E n \in 0 .. MaxCandidates : Configured(n)) /\ WF_playbackVars(Output)

PlaybackFairSpec == PlaybackSpec /\ PlaybackFairness

-----------------------------------------------------------------------------
(* Properties *)

\* No decoder, however it came to be made, is handed a delta before a key
\* frame (player.ts:193-222,249-268).
NoFrameIsRefused == ~refused

\* While the stream goes on and nothing more goes wrong, the picture comes
\* back, unless the player has given up (player.ts:104-191,224-247,478-495):
\* from then on nothing makes another decoder.
GivenUp == video \in {"closed", "unconfigured"}
PictureComesBack == <>[]shows \/ <>[]GivenUp

\* A player that has shown the picture gives up only if its decoder has failed
\* more than Limit times within one Window, or can no longer be configured at
\* all (player.ts:224-238, restart.ts:11-16).
GivesUpForAReason ==
    [][~GivenUp /\ video' = "closed" /\ decoded => Len(failures) >= Limit]_playbackVars
=============================================================================
