---------------------------- MODULE PaintProofs -----------------------------
(***************************************************************************)
(* PaintWatch keeps its types and blames no display that follows its page, *)
(* whatever the limits, as long as the window is no shorter than a check's *)
(* gap and second screenshot together.                                     *)
(***************************************************************************)
EXTENDS PaintWatch, TLAPS

\* Whoever reaches a limit ends at that step.
BelowLimits == at # "ended" => faults < probeFaultLimit /\ failures < confirmFailLimit

TypeInv == TypeOK /\ BelowLimits

\* No call and no gap lasts longer than its limit.
InTime ==
    /\ at = "gap" => timer <= screenshotGap
    /\ at \in Call => timer <= confirmTimeout

\* A check begins when the window is over, and nothing is read up to the
\* first screenshot.
WindowOver ==
    /\ at \in {"frame", "before"} => stall.seen /\ stall.since >= Window
    /\ at \in {"gap", "after"} => stall.seen /\ unchangedAt >= Window

\* How long ago the first screenshot was.
Elapsed == IF at = "gap" THEN timer ELSE screenshotGap + timer

Reset == stall.since <= Elapsed
LastSample == samples[Len(samples)]

\* While there is sight, either a changed picture has been read, or the
\* picture still is that of the first screenshot, or it is known to have
\* changed by a sample that waits.
Watched ==
    at \in {"gap", "after"} /\ sight # "none" =>
        /\ ~frozen /\ probe = "on" /\ before \in Still
        /\ sight = "clear" => display \in Still
        /\ Reset \/ /\ stall.hash = before
                    /\ sight = "clear" /\ display # before =>
                          samples # <<>> /\ LastSample = display

Inv == TypeInv /\ InTime /\ WindowOver /\ Watched

-----------------------------------------------------------------------------
(* Types, in three parts that the provers take one by one. *)

Places ==
    /\ page \in Picture /\ display \in Picture
    /\ frozen \in BOOLEAN /\ probe \in {"on", "bad", "off"}
    /\ due \in BOOLEAN /\ ticked \in BOOLEAN
    /\ at \in {"watch", "gap", "ended"} \cup Call
    /\ sight \in {"none", "clear", "news"}
    /\ before \in Picture
    /\ ~frozen => display = page
Numbers ==
    /\ timer \in Nat /\ unchangedAt \in Nat /\ late \in Nat
    /\ stall \in [hash : Picture, since : Nat, silent : Nat, seen : BOOLEAN]
    /\ faults \in 0 .. probeFaultLimit /\ failures \in 0 .. confirmFailLimit
    /\ BelowLimits
Queue == samples \in Seq(Picture \cup {bad}) /\ Len(samples) <= Buffer

LEMMA TypeParts == TypeInv <=> Places /\ Numbers /\ Queue
BY DEF TypeInv, TypeOK, Places, Numbers, Queue

LEMMA PaintTypeInit == Init => TypeInv
<1> SUFFICES ASSUME Init PROVE Places /\ Numbers /\ Queue
    BY TypeParts
<1>1. Places
    BY DEF Init, Places, Picture, Still, film, Call
<1>2. Numbers
    BY PaintAssumption DEF Init, Numbers, BelowLimits, Picture, Still, film
<1>3. Queue
    BY PaintAssumption DEF Init, Queue
<1> QED
    BY <1>1, <1>2, <1>3

LEMMA PlacesKept == Places /\ Numbers /\ Queue /\ [Next]_vars => Places'
<1> SUFFICES ASSUME Places, Numbers, Queue, [Next]_vars PROVE Places'
    OBVIOUS
<1> USE DEF Places, Call, worldVars, sampleVars, checkVars, tickVars, countVars
<1>1. CASE World
  <2>1. CASE PageChanges
    BY <1>1, <2>1 DEF World, PageChanges
  <2>2. CASE Freeze
    <3>1. display' \in Still \/ display' = page
      BY <2>2 DEF Freeze
    <3> QED
      BY <1>1, <2>2, <3>1 DEF World, Freeze, Picture
  <2>3. CASE Thaw
    BY <1>1, <2>3 DEF World, Thaw
  <2>4. CASE ProbeTurns
    BY <1>1, <2>4 DEF World, ProbeTurns
  <2> QED
    BY <1>1, <2>1, <2>2, <2>3, <2>4 DEF World
<1>2. CASE Sample \/ Tick
    BY <1>2 DEF Sample, Tick
<1>3. CASE ReadSample \/ TakeTick
    BY <1>3 DEF ReadSample, TakeTick
<1>4. CASE Answer \/ CallFails
  <2>1. CASE FrameComes \/ FirstScreenshot
    BY <2>1 DEF FrameComes, FirstScreenshot
  <2>2. CASE SecondScreenshot \/ CallFails
    <3>1. at' \in {"ended", "watch"} /\ before' = 0 /\ sight' = "none"
      BY <2>2 DEF SecondScreenshot, CallFails, Verdict
    <3>2. UNCHANGED <<page, display, frozen, probe, due, ticked>>
      BY <2>2 DEF SecondScreenshot, CallFails
    <3>3. 0 \in Picture
      BY DEF Picture, Still
    <3> QED
      BY <3>1, <3>2, <3>3
  <2> QED
    BY <1>4, <2>1, <2>2 DEF Answer
<1>5. CASE Gap
    BY <1>5 DEF Gap, ReadInGap, GapOver
<1>6. CASE UNCHANGED vars
    BY <1>6 DEF vars
<1> QED
    BY <1>1, <1>2, <1>3, <1>4, <1>5, <1>6 DEF Next, Watch

\* Observe keeps the type of the stall it is given.
LEMMA ObserveTyped == ASSUME Numbers, NEW h \in Picture
                      PROVE  Observe(h) \in [hash : Picture, since : Nat, silent : Nat, seen : BOOLEAN]
BY SMT DEF Numbers, Observe

LEMMA HeadTyped == ASSUME Queue, samples # <<>>
                   PROVE  /\ Head(samples) \in Picture \cup {bad}
                          /\ Tail(samples) \in Seq(Picture \cup {bad})
                          /\ Len(Tail(samples)) = Len(samples) - 1
BY SMT DEF Queue

LEMMA NumbersKept == Places /\ Numbers /\ Queue /\ [Next]_vars => Numbers'
<1> SUFFICES ASSUME Places, Numbers, Queue, [Next]_vars PROVE Numbers'
    OBVIOUS
<1> USE PaintAssumption DEF Numbers, BelowLimits, worldVars, sampleVars, checkVars, tickVars, countVars
<1>1. CASE World
    BY <1>1 DEF World
<1>2. CASE Sample
    BY <1>2 DEF Sample
<1>3. CASE Tick
  <2>1. stall' \in [hash : Picture, since : Nat, silent : Nat, seen : BOOLEAN]
    <3> DEFINE age == IF stall.seen THEN stall.since + 1 ELSE stall.since
    <3>1. stall' = [stall EXCEPT !.since = age, !.silent = stall.silent + 1]
      BY <1>3 DEF Tick
    <3>2. age \in Nat /\ stall.silent + 1 \in Nat
      OBVIOUS
    <3> HIDE DEF age
    <3> QED
      BY <3>1, <3>2
  <2>2. timer' \in Nat /\ late' \in Nat
    BY <1>3 DEF Tick
  <2> QED
    BY <1>3, <2>1, <2>2 DEF Tick
<1>4. CASE ReadSample
  <2>1. CASE Head(samples) = bad
    BY <1>4, <2>1, SMT DEF ReadSample
  <2>2. CASE Head(samples) # bad
    <3>1. Head(samples) \in Picture
      BY <1>4, <2>2, HeadTyped DEF ReadSample
    <3>2. stall' = Observe(Head(samples)) /\ UNCHANGED <<timer, unchangedAt, late, faults, failures, at>>
      BY <1>4, <2>2 DEF ReadSample
    <3> HIDE DEF Numbers
    <3>3. stall' \in [hash : Picture, since : Nat, silent : Nat, seen : BOOLEAN]
      BY <3>1, <3>2, ObserveTyped
    <3> QED
      BY <3>2, <3>3 DEF Numbers
  <2> QED
    BY <2>1, <2>2
<1>5. CASE TakeTick
    BY <1>5 DEF TakeTick
<1>6. CASE FrameComes \/ FirstScreenshot
    BY <1>6, SMT DEF FrameComes, FirstScreenshot, Call
<1>7. CASE SecondScreenshot \/ CallFails
    BY <1>7, SMT DEF SecondScreenshot, CallFails, Verdict, Call
<1>8. CASE ReadInGap
  <2>1. stall' \in [hash : Picture, since : Nat, silent : Nat, seen : BOOLEAN]
    <3>1. CASE Head(samples) = bad
      BY <1>8, <3>1 DEF ReadInGap
    <3>2. CASE Head(samples) # bad
      <4>1. Head(samples) \in Picture
        BY <1>8, <3>2, HeadTyped DEF ReadInGap
      <4>2. stall' = Observe(Head(samples))
        BY <1>8, <3>2 DEF ReadInGap
      <4> QED
        BY <4>1, <4>2, ObserveTyped
    <3> QED
      BY <3>1, <3>2
  <2> QED
    BY <1>8, <2>1 DEF ReadInGap
<1>9. CASE GapOver
    BY <1>9 DEF GapOver
<1>10. CASE UNCHANGED vars
    BY <1>10 DEF vars
<1> QED
    BY <1>1, <1>2, <1>3, <1>4, <1>5, <1>6, <1>7, <1>8, <1>9, <1>10 DEF Next, Watch, Answer, Gap

LEMMA QueueKept == Places /\ Queue /\ [Next]_vars => Queue'
<1> SUFFICES ASSUME Places, Queue, [Next]_vars PROVE Queue'
    OBVIOUS
<1>1. CASE Sample
  <2> DEFINE s == IF probe = "on" THEN display ELSE bad
  <2>1. s \in Picture \cup {bad}
    BY DEF Places
  <2>2. samples' = samples \/ (Len(samples) < Buffer /\ samples' = Append(samples, s))
    BY <1>1 DEF Sample
  <2> HIDE DEF s
  <2> QED
    BY <2>1, <2>2, PaintAssumption, SMT DEF Queue
<1>2. CASE ReadSample \/ ReadInGap
  <2>1. samples # <<>> /\ samples' = Tail(samples)
    BY <1>2 DEF ReadSample, ReadInGap
  <2> QED
    BY <2>1, HeadTyped, PaintAssumption, SMT DEF Queue
<1>3. CASE UNCHANGED samples
    BY <1>3 DEF Queue
<1> QED
    BY <1>1, <1>2, <1>3 DEF Next, World, Tick, Watch, TakeTick, Answer, FrameComes, FirstScreenshot,
        SecondScreenshot, CallFails, Verdict, Gap, GapOver, vars, sampleVars

\* The types are inductive.
LEMMA PaintTypeStep == TypeInv /\ [Next]_vars => TypeInv'
<1>1. TypeInv' <=> (Places /\ Numbers /\ Queue)'
    BY DEF TypeInv, TypeOK, Places, Numbers, Queue, BelowLimits
<1> QED
    BY <1>1, TypeParts, PlacesKept, NumbersKept, QueueKept

\* Every variable of the watch keeps its type (paint.go, capture/stall.go).
THEOREM PaintTypes == Spec => []TypeOK
<1>1. TypeInv => TypeOK
    BY DEF TypeInv
<1> QED
    BY <1>1, PaintTypeInit, PaintTypeStep, PTL DEF Spec

-----------------------------------------------------------------------------
(* What a check knows *)

LEMMA InTimeStep == TypeInv /\ InTime /\ [Next]_vars => InTime'
<1> SUFFICES ASSUME TypeInv, InTime, [Next]_vars PROVE InTime'
    OBVIOUS
<1>0. Places /\ Numbers
    BY TypeParts
<1> USE PaintAssumption DEF InTime, Call, worldVars, sampleVars, checkVars, tickVars, countVars
<1>1. CASE World \/ Sample
    BY <1>1 DEF World, Sample
<1>2. CASE Tick
    BY <1>0, <1>2 DEF Tick, Idle, Numbers, Places
<1>3. CASE ReadSample \/ TakeTick
    BY <1>3 DEF ReadSample, TakeTick
<1>4. CASE FrameComes \/ FirstScreenshot \/ GapOver
    BY <1>4 DEF FrameComes, FirstScreenshot, GapOver
<1>5. CASE SecondScreenshot \/ CallFails
    BY <1>5 DEF SecondScreenshot, CallFails, Verdict
<1>6. CASE ReadInGap
    BY <1>6 DEF ReadInGap
<1>7. CASE UNCHANGED vars
    BY <1>7 DEF vars
<1> QED
    BY <1>1, <1>2, <1>3, <1>4, <1>5, <1>6, <1>7 DEF Next, Watch, Answer, Gap

\* A tick's age adds to what the window demands.
LEMMA WindowOverStep == TypeInv /\ WindowOver /\ [Next]_vars => WindowOver'
<1> SUFFICES ASSUME TypeInv, WindowOver, [Next]_vars PROVE WindowOver'
    OBVIOUS
<1>0. Numbers
    BY TypeParts
<1> USE PaintAssumption DEF WindowOver, worldVars, sampleVars, checkVars, tickVars, countVars
<1>1. CASE World \/ Sample
    BY <1>1 DEF World, Sample
<1>2. CASE Tick
  <2>1. stall'.seen = stall.seen /\ (stall.seen => stall'.since = stall.since + 1)
    <3> DEFINE age == IF stall.seen THEN stall.since + 1 ELSE stall.since
    <3>1. stall' = [stall EXCEPT !.since = age, !.silent = stall.silent + 1]
      BY <1>2 DEF Tick
    <3> HIDE DEF age
    <3>2. stall'.seen = stall.seen /\ stall'.since = age
      BY <1>0, <3>1 DEF Numbers
    <3> QED
      BY <3>2 DEF age
  <2>2. at' = at /\ unchangedAt' = unchangedAt
    BY <1>2 DEF Tick
  <2> QED
    BY <1>0, <2>1, <2>2 DEF Numbers
<1>3. CASE ReadSample
    BY <1>3 DEF ReadSample
<1>4. CASE TakeTick
  <2>1. at' = "frame" => stall.seen /\ stall.since >= Window + late
    BY <1>4 DEF TakeTick, UnchangedFor
  <2>2. at' \in {"frame", "watch", "ended"} /\ stall' = stall
    BY <1>4 DEF TakeTick
  <2> QED
    BY <1>0, <2>1, <2>2, SMT DEF Numbers
<1>5. CASE FrameComes \/ FirstScreenshot \/ GapOver
    BY <1>5 DEF FrameComes, FirstScreenshot, GapOver
<1>6. CASE SecondScreenshot \/ CallFails
  <2>1. at' \in {"watch", "ended"}
    BY <1>6 DEF SecondScreenshot, CallFails, Verdict
  <2> QED
    BY <2>1
<1>7. CASE ReadInGap
  <2>1. stall' = stall \/ stall' = Observe(Head(samples))
    BY <1>7 DEF ReadInGap
  <2>2. stall.seen => stall'.seen
    BY <2>1 DEF Observe
  <2> QED
    BY <1>7, <2>2 DEF ReadInGap
<1>8. CASE UNCHANGED vars
    BY <1>8 DEF vars
<1> QED
    BY <1>1, <1>2, <1>3, <1>4, <1>5, <1>6, <1>7, <1>8 DEF Next, Watch, Answer, Gap

\* What is read in the gap is another picture, or the one that was read before.
LEMMA GapReads == ASSUME TypeInv, ReadInGap
                  PROVE  \/ stall' = stall /\ Head(samples) = bad
                         \/ stall'.since = 0
                         \/ stall'.since = stall.since /\ stall'.hash = stall.hash
                             /\ Head(samples) = stall.hash /\ Head(samples) # film
<1>1. CASE Head(samples) = bad
    BY <1>1 DEF ReadInGap
<1>2. CASE Head(samples) # bad
  <2>1. stall' = Observe(Head(samples))
    BY <1>2 DEF ReadInGap
  <2> QED
    BY <2>1 DEF Observe
<1> QED
    BY <1>1, <1>2

LEMMA WatchedStep == TypeInv /\ InTime /\ WindowOver /\ Watched /\ [Next]_vars => Watched'
<1> SUFFICES ASSUME TypeInv, InTime, Watched, [Next]_vars,
                    at' \in {"gap", "after"}, sight' # "none"
             PROVE  /\ ~frozen' /\ probe' = "on" /\ before' \in Still
                    /\ sight' = "clear" => display' \in Still
                    /\ Reset' \/ /\ stall'.hash = before'
                                 /\ sight' = "clear" /\ display' # before' =>
                                      samples' # <<>> /\ LastSample' = display'
    BY DEF Watched
<1>0. Places /\ Numbers /\ Queue
    BY TypeParts
<1> USE PaintAssumption DEF worldVars, sampleVars, checkVars, tickVars, countVars
<1>1. CASE World
  <2>1. PageChanges /\ UNCHANGED <<samples, at, timer, before, stall>>
    BY <1>1 DEF World, Freeze, Thaw, ProbeTurns
  <2>2. at \in {"gap", "after"} /\ sight # "none"
    BY <2>1 DEF PageChanges
  <2>3. ~frozen /\ display' # display /\ sight' = "news"
    BY <1>0, <2>1, <2>2 DEF PageChanges, Watched, Places
  <2>4. Reset' <=> Reset
    BY <2>1 DEF Reset, Elapsed
  <2> QED
    BY <2>1, <2>2, <2>3, <2>4 DEF PageChanges, Watched
<1>2. CASE Sample
  <2>1. /\ at \in {"gap", "after"} /\ sight # "none"
        /\ UNCHANGED <<frozen, probe, display, at, timer, before, stall>>
        /\ Len(samples) < Buffer
    BY <1>2 DEF Sample
  <2>2. ~frozen /\ probe = "on" /\ before \in Still
    BY <2>1 DEF Watched
  <2>3. samples' = Append(samples, display)
    BY <1>2, <2>1, <2>2 DEF Sample
  <2>4. samples' # <<>> /\ LastSample' = display'
    BY <1>0, <2>1, <2>3 DEF Queue, LastSample, Places
  <2>5. Reset' <=> Reset
    BY <2>1 DEF Reset, Elapsed
  <2>6. sight' = "clear" => sight = "clear" \/ display # film
    BY <1>2, <2>1 DEF Sample
  <2>7. sight' = "clear" => display' \in Still
    BY <1>0, <2>1, <2>6 DEF Watched, Places, Picture
  <2> QED
    BY <2>1, <2>2, <2>4, <2>5, <2>7 DEF Watched
<1>3. CASE Tick
  <2>1. /\ at \in {"gap", "after"} /\ sight # "none"
        /\ UNCHANGED <<frozen, probe, display, samples, at, before, sight>>
        /\ timer' = timer + 1
    BY <1>3 DEF Tick
  <2>2. stall'.hash = stall.hash /\ stall'.since \in {stall.since, stall.since + 1}
    <3> DEFINE age == IF stall.seen THEN stall.since + 1 ELSE stall.since
    <3>1. stall' = [stall EXCEPT !.since = age, !.silent = stall.silent + 1]
      BY <1>3 DEF Tick
    <3> HIDE DEF age
    <3>2. stall'.hash = stall.hash /\ stall'.since = age
      BY <1>0, <3>1 DEF Numbers
    <3> QED
      BY <3>2 DEF age
  <2>3. Reset => Reset'
    BY <1>0, <2>1, <2>2 DEF Reset, Elapsed, Numbers
  <2>4. LastSample' = LastSample
    BY <2>1 DEF LastSample
  <2> QED
    BY <2>1, <2>2, <2>3, <2>4 DEF Watched
<1>4. CASE ReadSample \/ TakeTick \/ FrameComes
  <2>1. at' \notin {"gap", "after"}
    BY <1>4 DEF ReadSample, TakeTick, FrameComes
  <2> QED
    BY <2>1
<1>5. CASE FirstScreenshot
  <2>1. /\ ~frozen /\ probe = "on" /\ page \in Still /\ page = stall.hash
        /\ UNCHANGED <<display, frozen, probe, samples, stall>> /\ before' = page
    BY <1>5 DEF FirstScreenshot
  <2>2. display = page
    BY <1>0, <2>1 DEF Places
  <2> QED
    BY <2>1, <2>2
<1>6. CASE SecondScreenshot \/ CallFails
    BY <1>6 DEF SecondScreenshot, CallFails, Verdict
<1>7. CASE ReadInGap
  <2>1. /\ at = "gap" /\ sight # "none" /\ samples # <<>> /\ samples' = Tail(samples)
        /\ UNCHANGED <<frozen, probe, display, at, timer, before, sight>>
    BY <1>7 DEF ReadInGap
  <2>2. stall'.since = 0 => Reset'
    BY <1>0, <2>1 DEF Reset, Elapsed, Numbers
  <2>3. Reset /\ stall'.since = stall.since => Reset'
    BY <2>1 DEF Reset, Elapsed
  <2>4. samples' # <<>> => LastSample' = LastSample
    BY <1>0, <2>1 DEF Queue, LastSample
  <2>5. samples' = <<>> => LastSample = Head(samples)
    <3>1. Len(Tail(samples)) = Len(samples) - 1 /\ Len(samples) \in Nat
      BY <1>0, <2>1, HeadTyped DEF Queue
    <3>2. Len(<<>>) = 0
      OBVIOUS
    <3>3. samples' = <<>> => Len(Tail(samples)) = 0
      BY <2>1, <3>2, Zenon
    <3>4. samples' = <<>> => Len(samples) = 1
      BY <3>1, <3>3
    <3> QED
      BY <1>0, <2>1, <3>4 DEF Queue, LastSample
  <2>6. \/ Head(samples) = bad /\ stall' = stall
        \/ stall'.since = 0
        \/ stall'.since = stall.since /\ stall'.hash = stall.hash /\ Head(samples) = stall.hash
    BY <1>7, GapReads
  <2>7. bad \notin Still
    BY DEF bad, Still
  <2> QED
    BY <2>1, <2>2, <2>3, <2>4, <2>5, <2>6, <2>7 DEF Watched
<1>8. CASE GapOver
  <2>1. /\ at = "gap" /\ at' = "after" /\ timer' = 0
        /\ UNCHANGED <<frozen, probe, display, samples, before, stall, sight>>
    BY <1>8 DEF GapOver
  <2>2. Reset => Reset'
    BY <1>0, <2>1 DEF Reset, Elapsed, InTime, Numbers
  <2>3. LastSample' = LastSample
    BY <2>1 DEF LastSample
  <2> QED
    BY <2>1, <2>2, <2>3 DEF Watched
<1>9. CASE UNCHANGED vars
    BY <1>9 DEF vars, Watched, Reset, Elapsed, LastSample
<1> QED
    BY <1>1, <1>2, <1>3, <1>4, <1>5, <1>6, <1>7, <1>8, <1>9 DEF Next, Watch, Answer, Gap

\* A reset stall is younger than the window, and so than it was at the first
\* screenshot: the display cannot seem to have stood.
LEMMA InvExplains == Inv => FailedCheckIsExplained
<1> SUFFICES ASSUME Inv, Blames, samples = <<>>, sight = "clear" PROVE FALSE
    BY DEF FailedCheckIsExplained
<1>0. Places /\ Numbers
    BY TypeParts DEF Inv
<1>1. at = "after" /\ unchangedAt >= Window /\ timer <= confirmTimeout
    BY DEF Blames, Inv, WindowOver, InTime, Call
<1>2. ~frozen /\ display \in Still /\ display = page
    BY <1>0, <1>1 DEF Inv, Watched, Places
<1>3. page # before
    BY <1>2 DEF Blames, ShotsDiffer, Still, film
<1>4. Reset
    BY <1>1, <1>2, <1>3 DEF Inv, Watched
<1>5. stall.since <= unchangedAt
    BY <1>0, <1>1, <1>4, PaintAssumption DEF Reset, Elapsed, Numbers
<1> QED
    BY <1>0, <1>5 DEF Blames, DisplayStood, Numbers

\* No display is blamed that follows its page, and whose changes the probe
\* has shown (paint.go:124-126), whatever the window, the limits and the
\* channel's size.
THEOREM NoFalseBlame == Spec => []FailedCheckIsExplained
<1>1. Init => Inv
    BY PaintTypeInit DEF Inv, Init, InTime, WindowOver, Watched, Call
<1>2. Inv /\ [Next]_vars => Inv'
    BY PaintTypeStep, InTimeStep, WindowOverStep, WatchedStep DEF Inv
<1> QED
    BY <1>1, <1>2, InvExplains, PTL DEF Spec
=============================================================================
