----------------------------- MODULE PaintWatch -----------------------------
(***************************************************************************)
(* The watch for a frozen picture (internal/agent/paint.go): a probe of    *)
(* the captured display once a second, the channel its samples wait in,    *)
(* the goroutine that reads them (watchPaint), and the check it makes of   *)
(* Chromium when the picture has not changed for a while (confirmPaint):   *)
(* two screenshots some time apart, with the probe watched in between.     *)
(*                                                                         *)
(* Time passes in seconds, and only when nobody has anything to do at      *)
(* once.  A picture is one of two stills or a film, which no two samples   *)
(* and no two screenshots show alike.                                      *)
(***************************************************************************)
EXTENDS Naturals, Sequences

CONSTANTS Window,            \* watchPaint's window, ROOM_STALL_SECONDS
          confirmTimeout,    \* limit of a round trip and of a screenshot
          screenshotGap,     \* between the screenshots
          probeFaultLimit,   \* bad samples, ever
          confirmFailLimit,  \* failed checks without a good one in between
          Buffer             \* samples the channel holds

\* The code takes any window from its environment.  A shorter one than this
\* makes a picture that changed in the gap look unchanged at its end.
ASSUME PaintAssumption ==
    /\ confirmTimeout \in Nat \ {0} /\ screenshotGap \in Nat \ {0}
    /\ probeFaultLimit \in Nat \ {0} /\ confirmFailLimit \in Nat \ {0}
    /\ Buffer \in Nat \ {0}
    /\ Window \in Nat /\ Window >= screenshotGap + confirmTimeout

VARIABLES
    page,         \* what Chromium paints
    display,      \* what is captured
    frozen,       \* the display does not follow the page
    probe,        \* the probe branch of the pipeline
    due,          \* its sample of this second is yet to come
    samples,      \* the channel
    at,           \* where watchPaint or confirmPaint is
    timer,        \* how long the call or the gap has lasted
    before,       \* the first screenshot
    unchangedAt,  \* stall.Unchanged just after it
    stall,        \* capture.Stall, with ages for its times
    ticked,       \* the ticker's channel holds a tick
    late,         \* how long ago that tick was
    faults, failures,
    sight         \* whether the probe has seen the page since the first screenshot

worldVars == <<page, display, frozen, probe>>
sampleVars == <<due, samples>>
checkVars == <<timer, before, unchangedAt>>
tickVars == <<ticked, late>>
countVars == <<faults, failures>>
vars == <<worldVars, sampleVars, at, checkVars, stall, tickVars, countVars, sight>>

Still == {0, 1}
film == 2
Picture == Still \cup {film}
bad == 3

Call == {"frame", "before", "after"}

\* Sight is clear when all the display has shown has been sampled; there are
\* news when it has changed since; there is none outside of a check, and when
\* something has come between the page and the probe.
TypeOK ==
    /\ page \in Picture /\ display \in Picture
    /\ frozen \in BOOLEAN /\ probe \in {"on", "bad", "off"}
    /\ due \in BOOLEAN /\ samples \in Seq(Picture \cup {bad}) /\ Len(samples) <= Buffer
    /\ at \in {"watch", "gap", "ended"} \cup Call
    /\ timer \in Nat /\ before \in Picture /\ unchangedAt \in Nat
    /\ stall \in [hash : Picture, since : Nat, silent : Nat, seen : BOOLEAN]
    /\ ticked \in BOOLEAN /\ late \in Nat
    /\ faults \in 0 .. probeFaultLimit /\ failures \in 0 .. confirmFailLimit
    /\ sight \in {"none", "clear", "news"}
    /\ ~frozen => display = page

Init ==
    /\ page \in Picture /\ display = page /\ frozen = FALSE /\ probe = "on"
    /\ due = FALSE /\ samples = <<>>
    /\ at = "watch" /\ timer = 0 /\ before = 0 /\ unchangedAt = 0
    /\ stall = [hash |-> 0, since |-> 0, silent |-> 0, seen |-> FALSE]
    /\ ticked = FALSE /\ late = 0 /\ faults = 0 /\ failures = 0
    /\ sight = "none"

-----------------------------------------------------------------------------
(* The page, the display and the pipeline *)

PageChanges ==
    /\ page' \in Picture \ {page}
    /\ display' = IF frozen THEN display ELSE page'
    /\ sight' = IF sight = "clear" /\ display' # display THEN "news" ELSE sight
    /\ UNCHANGED <<frozen, probe>>

\* The display keeps what it shows: of a film, one picture.
Freeze ==
    /\ ~frozen /\ frozen' = TRUE
    /\ display' \in IF page = film THEN Still ELSE {page}
    /\ sight' = "none" /\ UNCHANGED <<page, probe>>

Thaw ==
    /\ frozen /\ frozen' = FALSE
    /\ display' = page
    /\ sight' = "none" /\ UNCHANGED <<page, probe>>

ProbeTurns ==
    /\ probe' \in {"on", "bad", "off"} \ {probe}
    /\ sight' = "none" /\ UNCHANGED <<page, display, frozen>>

World ==
    /\ at # "ended"
    /\ PageChanges \/ Freeze \/ Thaw \/ ProbeTurns
    /\ UNCHANGED <<sampleVars, at, checkVars, stall, tickVars, countVars>>

\* onProbe and HashProbe: a frame of the wrong size is an error.  The channel
\* takes the sample or the sample is dropped, never waited for.
Sample ==
    /\ due /\ probe # "off" /\ at # "ended"
    /\ due' = FALSE
    /\ LET s == IF probe = "on" THEN display ELSE bad
       IN  IF Len(samples) < Buffer
           THEN /\ samples' = Append(samples, s)
                /\ sight' = IF sight = "news" /\ display # film THEN "clear" ELSE sight
           ELSE sight' = "none" /\ UNCHANGED samples
    /\ UNCHANGED <<worldVars, at, checkVars, stall, tickVars, countVars>>

\* Nobody has anything to do at once.
Idle ==
    /\ ~due \/ probe = "off"
    /\ at = "watch" => samples = <<>> /\ ~ticked
    /\ at = "gap" => samples = <<>> /\ timer < screenshotGap
    /\ at \in Call => timer < confirmTimeout

\* A second passes.  The ticker's channel keeps the first tick it was not
\* asked for, and the time of it.
Tick ==
    /\ Idle /\ at # "ended"
    /\ due' = TRUE
    /\ stall' = [stall EXCEPT !.since = IF stall.seen THEN @ + 1 ELSE @, !.silent = @ + 1]
    /\ timer' = IF at = "watch" THEN timer ELSE timer + 1
    /\ ticked' = TRUE
    /\ late' = IF ticked THEN late + 1 ELSE 0
    /\ UNCHANGED <<worldVars, samples, at, before, unchangedAt, countVars, sight>>

-----------------------------------------------------------------------------
(* watchPaint *)

\* capture.Stall: Observe, Unchanged and Silent.
Observe(h) ==
    [hash |-> h, seen |-> TRUE, silent |-> 0,
     since |-> IF ~stall.seen \/ h # stall.hash \/ h = film THEN 0 ELSE stall.since]
UnchangedFor(time) == stall.seen /\ stall.since >= time + late
SilentOver(time) == stall.silent > time + late

ReadSample ==
    /\ at = "watch" /\ samples # <<>>
    /\ samples' = Tail(samples)
    /\ IF Head(samples) = bad
       THEN /\ faults' = faults + 1
            /\ at' = IF faults' >= probeFaultLimit THEN "ended" ELSE at
            /\ UNCHANGED stall
       ELSE stall' = Observe(Head(samples)) /\ UNCHANGED <<faults, at>>
    /\ UNCHANGED <<worldVars, due, checkVars, tickVars, failures, sight>>

\* A tick may be taken before samples that wait, with the time it was made.
TakeTick ==
    /\ at = "watch" /\ ticked
    /\ ticked' = FALSE /\ late' = 0 /\ timer' = 0
    /\ at' = IF SilentOver(Window) THEN "ended"
             ELSE IF UnchangedFor(Window) THEN "frame" ELSE "watch"
    /\ UNCHANGED <<worldVars, sampleVars, before, unchangedAt, stall, countVars, sight>>

\* The end of a check, and Stall.Restart.
ForgetFailures(good) ==
    /\ failures' = IF good THEN 0 ELSE 1
    /\ at' = IF failures' >= confirmFailLimit THEN "ended" ELSE "watch"
    /\ stall' = [stall EXCEPT !.since = 0]
    /\ timer' = 0 /\ before' = 0 /\ unchangedAt' = 0 /\ sight' = "none"
Verdict(good) ==
    /\ failures' = IF good THEN 0 ELSE failures + 1
    /\ at' = IF failures' >= confirmFailLimit THEN "ended" ELSE "watch"
    /\ stall' = IF at' = "ended" THEN stall ELSE [stall EXCEPT !.since = 0]
    /\ timer' = 0 /\ before' = 0 /\ unchangedAt' = 0 /\ sight' = "none"

-----------------------------------------------------------------------------
(* confirmPaint *)

\* A call is answered within its time, or fails: at once, as when the page
\* navigates under it, or when the time is over.
CallFails ==
    /\ at \in Call /\ Verdict(FALSE)
    /\ UNCHANGED <<worldVars, sampleVars, tickVars, faults>>

\* frameRoundTrip.
FrameComes ==
    /\ at = "frame"
    /\ at' = "before" /\ timer' = 0
    /\ UNCHANGED <<worldVars, sampleVars, before, unchangedAt, stall, tickVars, countVars, sight>>

FirstScreenshot ==
    /\ at = "before"
    /\ at' = "gap" /\ timer' = 0
    /\ before' = page /\ unchangedAt' = stall.since
    /\ sight' = IF ~frozen /\ probe = "on" /\ page \in Still \cap {stall.hash}
                 THEN "clear" ELSE "none"
    /\ UNCHANGED <<worldVars, sampleVars, stall, tickVars, countVars>>

\* Errors of the probe are not counted here.
SkipSample ==
    /\ at = "gap" /\ samples # <<>>
    /\ samples' = Tail(samples)
    /\ UNCHANGED <<worldVars, due, at, checkVars, stall, tickVars, countVars, sight>>
ReadInGap ==
    /\ at = "gap" /\ samples # <<>>
    /\ samples' = Tail(samples)
    /\ stall' = IF Head(samples) = bad THEN stall ELSE Observe(Head(samples))
    /\ UNCHANGED <<worldVars, due, at, checkVars, tickVars, countVars, sight>>

\* The timer may win against samples that wait.
GapOver ==
    /\ at = "gap" /\ timer >= screenshotGap
    /\ at' = "after" /\ timer' = 0
    /\ UNCHANGED <<worldVars, sampleVars, before, unchangedAt, stall, tickVars, countVars, sight>>

ShotsDiffer == page # before \/ page = film
DisplayStood == stall.since > unchangedAt

SecondScreenshot ==
    /\ at = "after"
    /\ Verdict(~(ShotsDiffer /\ DisplayStood))
    /\ UNCHANGED <<worldVars, sampleVars, tickVars, faults>>

-----------------------------------------------------------------------------
Watch == ReadSample \/ TakeTick
Answer == FrameComes \/ FirstScreenshot \/ SecondScreenshot
Gap == ReadInGap \/ GapOver
Next == World \/ Sample \/ Tick \/ Watch \/ Answer \/ CallFails \/ Gap

Spec == Init /\ [][Next]_vars

\* Time passes and the pipeline's thread runs, and so does the watch; a call
\* that is not answered times out.
Fairness ==
    /\ WF_vars(Sample \/ Tick)
    /\ WF_vars(Watch) /\ WF_vars(Gap)
    /\ WF_vars(CallFails /\ timer >= confirmTimeout)
FairSpec == Spec /\ Fairness

-----------------------------------------------------------------------------
(* Properties *)

\* A check that fails because the page was repainted and the display was not
\* (paint.go:124-126) never blames a display that follows its page and that
\* the probe has seen: either something did come between the two since the
\* first screenshot, or the page has changed since the last sample, or
\* samples wait that nobody has read.
Blames == at = "after" /\ ShotsDiffer /\ DisplayStood
FailedCheckIsExplained == Blames /\ samples = <<>> => sight # "clear"

\* An agent whose picture is dead for good ends itself, and is started anew
\* (paint.go:29-92): when the probe fails, when Chromium answers no call and
\* the picture stands still, and when a film runs behind a frozen display.
Gone == at = "ended"
AilmentsEndIt ==
    /\ <>[](probe # "on") => <>Gone
    /\ \A s \in Still : <>[][~Answer]_vars /\ <>[](display = s) => <>Gone
    /\ <>[](frozen /\ page = film) => <>Gone
=============================================================================
