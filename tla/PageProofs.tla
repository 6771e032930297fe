----------------------------- MODULE PageProofs -----------------------------
(***************************************************************************)
(* The two halves of a page, neither of which touches the other's state.   *)
(* ClientLink for any sockets, times and limits: a page with a good        *)
(* session leaves the sign-in alone until something goes wrong.  Playback  *)
(* for any candidates, limits and depths: no decoder is handed a delta     *)
(* before a key frame, and the player gives up only for a reason.          *)
(***************************************************************************)
EXTENDS ClientLink, Playback, FiniteSetTheorems, SequenceTheorems, TLAPS

-----------------------------------------------------------------------------
(* ClientLink *)

\* The part of TypeOK that the steps below rest on, and the rest of it.
LinkTypes ==
    /\ link \in [Sock -> {"connecting", "open", "dead", "waiting"}]
    /\ carried \in [Sock -> BOOLEAN] /\ retry \in [Sock -> 0 .. MaxRetry]
    /\ token \in BOOLEAN /\ renewing \in {"no", "asked", "granted", "void", "refused"}
ClockTypes == timer \in [Sock -> 0 .. MaxWait] /\ since \in 0 .. Cooldown
GatewayTypes == running \in BOOLEAN /\ up \in BOOLEAN /\ ghosts \in Nat
GhostTypes == calm \in BOOLEAN /\ settled \in BOOLEAN /\ faults \in 0 .. MaxFaults

\* A socket that has been opened has no failures behind it.
OpenedAfresh == \A s \in Sock : link[s] \in {"open", "dead"} => retry[s] = 0

\* While nothing goes wrong, the gateway is there with the room, and what it
\* grants is good.
CalmIsGood == calm => up /\ running /\ renewing # "void"

\* A settled page has a good session, which its sockets connect with.
SettledIsGood ==
    settled => /\ calm /\ token /\ renewing = "no"
               /\ \A s \in Sock : link[s] = "connecting" => carried[s]

Inv == LinkTypes /\ OpenedAfresh /\ CalmIsGood /\ SettledIsGood

-----------------------------------------------------------------------------
LEMMA LinkInit == Init => Inv
BY LinkAssumption DEF Init, Inv, LinkTypes, OpenedAfresh, CalmIsGood, SettledIsGood

\* A socket that closes in a settled page does not ask for a session: it was
\* open, and has failed once.
LEMMA ClosesStep == ASSUME Inv, NEW s \in Sock, Closes(s),
                           settled => link[s] = "dead"
                    PROVE  Inv'
<1>1. /\ link' = [link EXCEPT ![s] = "waiting"] /\ retry' = [retry EXCEPT ![s] = OneMore(retry[s])]
      /\ UNCHANGED <<carried, token, running, up, calm, settled>>
  BY DEF Closes, gatewayVars, ghostVars
<1>2. OneMore(retry[s]) \in 0 .. MaxRetry
  BY LinkAssumption DEF OneMore, Inv, LinkTypes
<1>3. renewing' \in {renewing, "asked"}
  BY DEF Closes, Request
<1>4. settled => UNCHANGED renewing
  <2> SUFFICES ASSUME settled PROVE UNCHANGED renewing
    OBVIOUS
  <2>1. retry[s] = 0
    BY DEF Inv, OpenedAfresh
  <2>2. ~Stale(OneMore(retry[s]))
    BY <2>1, LinkAssumption DEF Stale, OneMore
  <2> QED
    BY <2>2 DEF Closes
<1>5. LinkTypes'
  BY <1>1, <1>2, <1>3 DEF Inv, LinkTypes
<1>6. OpenedAfresh'
  BY <1>1 DEF Inv, LinkTypes, OpenedAfresh
<1>7. CalmIsGood' /\ SettledIsGood'
  BY <1>1, <1>3, <1>4 DEF Inv, LinkTypes, CalmIsGood, SettledIsGood
<1> QED
  BY <1>5, <1>6, <1>7 DEF Inv

LEMMA SocketsStep == ASSUME Inv, Sockets PROVE Inv'
<1>1. PICK s \in Sock : Connect(s) \/ Fails(s) \/ Upgraded(s) \/ Notices(s)
  BY DEF Sockets
<1>2. CASE Connect(s)
  <2>1. /\ link' = [link EXCEPT ![s] = "connecting"] /\ carried' = [carried EXCEPT ![s] = token]
        /\ UNCHANGED <<retry, token, renewing, running, up, calm, settled>>
    BY <1>2 DEF Connect, renewalVars, gatewayVars, ghostVars
  <2>2. LinkTypes' /\ OpenedAfresh' /\ CalmIsGood'
    BY <2>1 DEF Inv, LinkTypes, OpenedAfresh, CalmIsGood
  <2>3. ASSUME settled, NEW t \in Sock, link'[t] = "connecting" PROVE carried'[t]
    BY <2>1, <2>3 DEF Inv, LinkTypes, SettledIsGood
  <2> QED
    BY <2>1, <2>2, <2>3 DEF Inv, SettledIsGood
<1>3. CASE Fails(s)
  <2>1. Closes(s) /\ (settled => FALSE)
    BY <1>3 DEF Fails, Inv, CalmIsGood, SettledIsGood
  <2> QED
    BY <2>1, ClosesStep
<1>4. CASE Upgraded(s)
  <2>1. /\ link' \in [Sock -> {"connecting", "open", "dead", "waiting"}]
        /\ \A t \in Sock \ {s} : link'[t] = link[t]
        /\ link'[s] # "connecting"
    BY <1>4 DEF Upgraded, Inv, LinkTypes
  <2>2. retry' \in [Sock -> 0 .. MaxRetry] /\ retry'[s] = 0 /\ \A t \in Sock \ {s} : retry'[t] = retry[t]
    BY <1>4, LinkAssumption DEF Upgraded, Inv, LinkTypes
  <2> QED
    BY <1>4, <2>1, <2>2 DEF Upgraded, renewalVars, gatewayVars, ghostVars, Inv, LinkTypes,
       OpenedAfresh, CalmIsGood, SettledIsGood
<1>5. CASE Notices(s)
  BY <1>5, ClosesStep DEF Notices
<1> QED
  BY <1>1, <1>2, <1>3, <1>4, <1>5

LEMMA RenewalStep == ASSUME Inv, Renewal PROVE Inv'
<1>1. UNCHANGED <<link, carried, retry>>
  BY DEF Renewal, SignIn, Refuse, Receive, socketVars
<1>2. CASE SignIn
  BY <1>1, <1>2 DEF SignIn, Inv, LinkTypes, OpenedAfresh, CalmIsGood, SettledIsGood
<1>3. CASE Refuse
  BY <1>1, <1>3 DEF Refuse, gatewayVars, Inv, LinkTypes, OpenedAfresh, CalmIsGood, SettledIsGood
<1>4. CASE Receive
  <2>1. LinkTypes' /\ OpenedAfresh' /\ CalmIsGood'
    BY <1>1, <1>4 DEF Receive, gatewayVars, Inv, LinkTypes, OpenedAfresh, CalmIsGood
  <2>2. CASE renewing \in {"granted", "void"} /\ up
    <3>1. /\ token' = (renewing = "granted") /\ renewing' = "no" /\ UNCHANGED calm
          /\ settled' = (calm /\ \A s \in Sock : link[s] = "connecting" => carried[s])
      BY <1>4, <2>2 DEF Receive
    <3>2. settled' => calm /\ \A s \in Sock : link[s] = "connecting" => carried[s]
      BY <3>1, Zenon
    <3>3. calm => renewing = "granted"
      BY <2>2 DEF Inv, CalmIsGood
    <3> QED
      BY <1>1, <2>1, <3>1, <3>2, <3>3 DEF Inv, SettledIsGood
  <2>3. CASE ~(renewing \in {"granted", "void"} /\ up)
    <3>1. UNCHANGED settled
      BY <1>4, <2>3 DEF Receive
    <3>2. ~settled
      BY <1>4 DEF Receive, Inv, CalmIsGood, SettledIsGood
    <3> QED
      BY <2>1, <3>1, <3>2 DEF Inv, SettledIsGood
  <2> QED
    BY <2>2, <2>3
<1> QED
  BY <1>2, <1>3, <1>4 DEF Renewal

LEMMA FaultsStep == ASSUME Inv, Faults PROVE Inv'
<1>1. /\ ~calm' /\ ~settled' /\ UNCHANGED retry
  BY DEF Faults, Cut, Expire, Restart, Destroy, Fault
<1>2. link' = Dead \/ link' = link
  BY DEF Faults, Cut, Expire, Restart, Destroy
<1>3. carried' = [s \in Sock |-> FALSE] \/ carried' = carried
  BY DEF Faults, Cut, Expire, Restart, Destroy
<1>4. renewing' \in {renewing, "void", "refused"} /\ token' \in {token, FALSE}
  BY DEF Faults, Cut, Expire, Restart, Destroy, Broken, renewalVars
<1> QED
  BY <1>1, <1>2, <1>3, <1>4 DEF Dead, Inv, LinkTypes, OpenedAfresh, CalmIsGood, SettledIsGood

LEMMA LinkStep == Inv /\ [Next]_vars => Inv'
<1> SUFFICES ASSUME Inv, [Next]_vars PROVE Inv'
  OBVIOUS
<1>1. CASE Return \/ Adopts
  BY <1>1 DEF Return, Adopts, socketVars, renewalVars, ghostVars, Inv, LinkTypes, OpenedAfresh, CalmIsGood,
     SettledIsGood
<1>2. CASE PingFails \/ Tick
  BY <1>2 DEF PingFails, Tick, socketVars, renewalVars, gatewayVars, ghostVars, Inv, LinkTypes,
     OpenedAfresh, CalmIsGood, SettledIsGood
<1>3. CASE UNCHANGED vars
  BY <1>3 DEF vars, socketVars, renewalVars, gatewayVars, ghostVars, Inv, LinkTypes, OpenedAfresh,
     CalmIsGood, SettledIsGood
<1> QED
  BY <1>1, <1>2, <1>3, SocketsStep, RenewalStep, FaultsStep DEF Next

-----------------------------------------------------------------------------
(* The types *)

LEMMA ClocksStep == ASSUME ClockTypes, LinkTypes, [Next]_vars PROVE ClockTypes'
<1>1. \A n \in 0 .. MaxRetry : Wait(n) \in 0 .. MaxWait
  BY LinkAssumption DEF Wait
<1>2. ASSUME NEW s \in Sock, Closes(s) PROVE ClockTypes'
  <2>1. timer' \in [Sock -> 0 .. MaxWait]
    BY <1>1, <1>2 DEF Closes, ClockTypes, LinkTypes
  <2>2. since' \in 0 .. Cooldown
    BY <1>2, LinkAssumption DEF Closes, Request, ClockTypes
  <2> QED
    BY <2>1, <2>2 DEF ClockTypes
<1>3. CASE Sockets
  <2>1. PICK s \in Sock : Connect(s) \/ Fails(s) \/ Upgraded(s) \/ Notices(s)
    BY <1>3 DEF Sockets
  <2> QED
    BY <1>2, <2>1 DEF Connect, Fails, Upgraded, Notices, renewalVars, ClockTypes
<1>4. CASE Tick
  <2>1. \A s \in Sock : timer[s] > 0 => timer[s] - 1 \in 0 .. MaxWait
    BY LinkAssumption DEF ClockTypes
  <2>2. since' \in 0 .. Cooldown
    BY <1>4, LinkAssumption DEF Tick, ClockTypes
  <2> QED
    BY <1>4, <2>1, <2>2, LinkAssumption DEF Tick, ClockTypes
<1>5. CASE Renewal \/ Faults \/ Adopts \/ Return \/ PingFails \/ UNCHANGED vars
  BY <1>5 DEF Renewal, SignIn, Refuse, Receive, Faults, Cut, Expire, Restart, Destroy, Adopts, Return,
     PingFails, vars, socketVars, renewalVars, ClockTypes
<1> QED
  BY <1>3, <1>4, <1>5 DEF Next

LEMMA GatewaysStep == ASSUME GatewayTypes, [Next]_vars PROVE GatewayTypes'
<1>1. CASE Cut
  <2>1. \A S \in SUBSET Sock : Cardinality(S) \in Nat
    BY LinkAssumption, FS_Subset, FS_CardinalityType
  <2>2. PICK lost \in SUBSET Sock : ghosts' = ghosts + Cardinality(Alive) + Cardinality(lost)
    BY <1>1 DEF Cut
  <2>3. Cardinality(Alive) \in Nat /\ Cardinality(lost) \in Nat
    BY <2>1 DEF Alive
  <2>4. ghosts' \in Nat
    BY <2>2, <2>3 DEF GatewayTypes
  <2>5. up' = FALSE /\ UNCHANGED running
    BY <1>1 DEF Cut
  <2> QED
    BY <2>4, <2>5, Zenon DEF GatewayTypes
<1>2. CASE Sockets \/ Renewal \/ Tick \/ UNCHANGED vars
  BY <1>2 DEF Sockets, Connect, Fails, Upgraded, Notices, Closes, Renewal, SignIn, Refuse, Receive, Tick,
     vars, gatewayVars, GatewayTypes
<1>3. CASE Expire \/ (\E f \in BOOLEAN : Restart(f)) \/ Destroy \/ Adopts \/ Return \/ PingFails
  <2>1. ghosts' \in Nat
    BY <1>3 DEF Expire, Restart, Destroy, Adopts, Return, PingFails, gatewayVars, GatewayTypes
  <2>2. (running' = FALSE \/ running' = TRUE \/ UNCHANGED running) /\ (up' = TRUE \/ UNCHANGED up)
    BY <1>3, Zenon DEF Expire, Restart, Destroy, Adopts, Return, PingFails, gatewayVars
  <2> QED
    BY <2>1, <2>2, Zenon DEF GatewayTypes
<1> QED
  BY <1>1, <1>2, <1>3 DEF Next, Faults

LEMMA GhostsStep == ASSUME GhostTypes, [Next]_vars PROVE GhostTypes'
<1>1. CASE Sockets \/ Adopts \/ Return \/ PingFails \/ Tick \/ UNCHANGED vars
  BY <1>1 DEF Sockets, Connect, Fails, Upgraded, Notices, Closes, Adopts, Return, PingFails, Tick, vars, ghostVars,
     GhostTypes
<1>2. CASE Faults
  <2>1. Fault
    BY <1>2 DEF Faults, Cut, Expire, Restart, Destroy
  <2>2. faults' \in 0 .. MaxFaults
    BY <2>1, LinkAssumption DEF Fault, GhostTypes
  <2> QED
    BY <2>1, <2>2, Zenon DEF Fault, GhostTypes
<1>3. CASE SignIn \/ Refuse
  <2>1. faults' \in 0 .. MaxFaults
    BY <1>3, LinkAssumption DEF SignIn, Refuse, GhostTypes
  <2>2. (calm' = TRUE \/ UNCHANGED calm) /\ UNCHANGED settled
    BY <1>3, Zenon DEF SignIn, Refuse
  <2> QED
    BY <2>1, <2>2, Zenon DEF GhostTypes
<1>4. CASE Receive
  <2>1. settled' \in BOOLEAN
    BY <1>4 DEF Receive, GhostTypes
  <2> QED
    BY <1>4, <2>1 DEF Receive, GhostTypes
<1> QED
  BY <1>1, <1>2, <1>3, <1>4 DEF Next, Renewal

-----------------------------------------------------------------------------
\* The sockets, the renewal and the gateway keep their types (transport.ts,
\* renewal.ts).
THEOREM LinkTypesHold == Spec => []TypeOK
<1> DEFINE All == Inv /\ ClockTypes /\ GatewayTypes /\ GhostTypes
<1>1. Init => All
  BY LinkInit, LinkAssumption DEF Init, ClockTypes, GatewayTypes, GhostTypes
<1>2. All /\ [Next]_vars => All'
  BY LinkStep, ClocksStep, GatewaysStep, GhostsStep DEF Inv
<1>3. All => TypeOK
  BY DEF Inv, LinkTypes, ClockTypes, GatewayTypes, GhostTypes, TypeOK
<1> QED
  BY <1>1, <1>2, <1>3, PTL DEF Spec

\* Whatever sockets, back-off and limits: a page that has received a good
\* session asks for no other until something goes wrong (transport.ts:199-202,
\* 224-238, renewal.ts:14-28).
THEOREM SettledPagesAreQuiet == Spec => []SettledPageIsQuiet
<1>1. Inv => SettledPageIsQuiet
  BY DEF Inv, SettledIsGood, SettledPageIsQuiet
<1> QED
  BY <1>1, LinkInit, LinkStep, PTL DEF Spec

-----------------------------------------------------------------------------
(* Playback *)

Ages == 0 .. Window - 1
OldestFirst(times) == \A i, j \in 1 .. Len(times) : i <= j => times[i] >= times[j]

\* A configured decoder that has been handed something since it was made has
\* had a key frame.
KeyComesFirst == video = "configured" /\ started => ~keyless

\* A decoder is configured with a viable candidate, and the await that found
\* them is behind the first decoder only.
CandidateViable == video = "configured" => index < candidates
ConfiguredOnce == (video = "none" <=> candidates = 0) /\ (configuring => video = "none")

\* Until the player gives up, each failure after the first frame is in the
\* budget.
BudgetCounts == video # "closed" => failures = budget

PlayerInv ==
    /\ PlaybackTypeOK /\ OldestFirst(budget) /\ OldestFirst(failures)
    /\ KeyComesFirst /\ CandidateViable /\ ConfiguredOnce /\ BudgetCounts /\ NoFrameIsRefused

\* Times that pass stay ages, in order, and are no more than before.
LEMMA PassedTyped ==
    ASSUME NEW times \in Seq(Ages), OldestFirst(times)
    PROVE  /\ Passed(times) \in Seq(Ages) /\ OldestFirst(Passed(times))
           /\ Len(Passed(times)) <= Len(times)
<1> DEFINE n == Len(times)
           gone == {i \in DOMAIN times : times[i] + 1 >= Window}
           c == Cardinality(gone)
           later == [i \in DOMAIN times |-> times[i] + 1]
<1>1. n \in Nat /\ DOMAIN times = 1 .. n /\ Window \in Nat \ {0}
      /\ \A i \in 1 .. n : times[i] \in 0 .. Window - 1
  BY PlaybackAssumption, LenProperties DEF Ages
<1>2. IsFiniteSet(1 .. n) /\ gone \in SUBSET (1 .. n) /\ c \in Nat
  <2>1. IsFiniteSet(1 .. n) /\ gone \in SUBSET (1 .. n)
    BY <1>1, FS_Interval
  <2> QED
    BY <2>1, FS_Subset, FS_CardinalityType
<1>3. ASSUME NEW i \in 1 .. n, i > c PROVE times[i] + 1 < Window
  <2> SUFFICES ASSUME ~ (times[i] + 1 < Window) PROVE FALSE
    OBVIOUS
  <2>1. \A j \in 1 .. i : j \in gone
    <3> TAKE j \in 1 .. i
    <3>1. j \in 1 .. n /\ times[j] \in Nat /\ times[i] \in Nat /\ times[j] >= times[i]
      BY <1>1 DEF OldestFirst
    <3>2. times[j] + 1 >= Window
      BY <1>1, <3>1
    <3> QED
      BY <1>1, <3>1, <3>2
  <2>2. Cardinality(1 .. i) = i
    BY <1>1, FS_Interval
  <2>3. IsFiniteSet(gone) /\ 1 .. i \in SUBSET gone
    <3> HIDE DEF gone
    <3> QED
      BY <1>2, <2>1, FS_Subset
  <2>4. Cardinality(1 .. i) <= c
    <3> HIDE DEF gone
    <3> QED
      BY <2>3, FS_Subset
  <2> QED
    BY <1>2, <1>3, <2>2, <2>4
<1>4. Passed(times) = SubSeq(later, c + 1, n)
  BY DEF Passed
<1>5. \A i \in c + 1 .. n : later[i] = times[i] + 1 /\ later[i] \in Ages
  BY <1>1, <1>2, <1>3 DEF Ages
<1>6. /\ Passed(times) \in Seq(Ages)
      /\ Len(Passed(times)) = IF c + 1 <= n THEN n - (c + 1) + 1 ELSE 0
      /\ \A i \in 1 .. n - (c + 1) + 1 : Passed(times)[i] = later[c + 1 + i - 1]
  <2> HIDE DEF c, later, n
  <2>1. c + 1 \in Int /\ n \in Int
    BY <1>1, <1>2
  <2> QED
    BY <1>4, <1>5, <2>1, SubSeqProperties
<1>7. Len(Passed(times)) <= n
  BY <1>1, <1>2, <1>6
<1>8. OldestFirst(Passed(times))
  <2> SUFFICES ASSUME NEW i \in 1 .. Len(Passed(times)), NEW j \in 1 .. Len(Passed(times)), i <= j
               PROVE  Passed(times)[i] >= Passed(times)[j]
    BY DEF OldestFirst
  <2>1. i + c \in c + 1 .. n /\ j + c \in c + 1 .. n
    BY <1>1, <1>2, <1>6
  <2>2. Passed(times)[i] = times[i + c] + 1 /\ Passed(times)[j] = times[j + c] + 1
    <3> HIDE DEF later, c, n
    <3>1. ASSUME NEW k \in 1 .. n - (c + 1) + 1
          PROVE  Passed(times)[k] = later[k + c] /\ k + c \in c + 1 .. n
      <4>1. c + 1 + k - 1 = k + c /\ k + c \in c + 1 .. n
        BY <1>1, <1>2
      <4> QED
        BY <1>6, <4>1
    <3> QED
      BY <1>1, <1>2, <1>5, <1>6, <2>1, <3>1
  <2>3. times[i + c] >= times[j + c]
    BY <1>1, <1>2, <2>1 DEF OldestFirst
  <2> QED
    BY <1>1, <1>2, <2>1, <2>2, <2>3
<1> QED
  BY <1>6, <1>7, <1>8

\* One more failure, just now.
LEMMA AppendTyped ==
    ASSUME NEW times \in Seq(Ages), OldestFirst(times)
    PROVE  /\ Append(times, 0) \in Seq(Ages) /\ OldestFirst(Append(times, 0))
           /\ Len(Append(times, 0)) = Len(times) + 1
<1>1. 0 \in Ages /\ Len(times) \in Nat /\ \A i \in 1 .. Len(times) : times[i] \in Nat
  BY PlaybackAssumption, LenProperties DEF Ages
<1>2. /\ Append(times, 0) \in Seq(Ages) /\ Len(Append(times, 0)) = Len(times) + 1
      /\ \A i \in 1 .. Len(times) : Append(times, 0)[i] = times[i]
      /\ Append(times, 0)[Len(times) + 1] = 0
  BY <1>1, AppendProperties
<1>3. OldestFirst(Append(times, 0))
  BY <1>1, <1>2 DEF OldestFirst
<1> QED
  BY <1>2, <1>3

\* The decoder that applyCandidate leaves.
LEMMA ApplyStep ==
    ASSUME PlaybackTypeOK, NEW i \in Nat, NEW n \in 1 .. MaxCandidates, NEW f \in Nat,
           Apply(i, n, f)
    PROVE  /\ index' \in 0 .. MaxCandidates /\ video' \in {"configured", "unconfigured"}
           /\ inside' = 0 /\ keyless' \in BOOLEAN /\ shows' \in BOOLEAN /\ started' \in BOOLEAN
           /\ troubles' \in 0 .. MaxTroubles
           /\ video' = "configured" => ~started' /\ index' < n
<1>1. PICK j \in i .. n :
          /\ troubles' = f + (j - i) /\ troubles' <= MaxTroubles
          /\ index' = j /\ video' = IF j < n THEN "configured" ELSE "unconfigured"
          /\ inside' = 0 /\ keyless' = TRUE /\ shows' = FALSE
          /\ started' = IF j < n THEN FALSE ELSE started
  BY DEF Apply
<1>2. keyless' \in BOOLEAN /\ shows' \in BOOLEAN
  BY <1>1, Zenon
<1>3. /\ troubles' \in 0 .. MaxTroubles /\ index' \in 0 .. MaxCandidates
      /\ video' \in {"configured", "unconfigured"} /\ (video' = "configured" => j < n /\ index' < n)
  BY <1>1, PlaybackAssumption
<1>4. started' \in BOOLEAN /\ (video' = "configured" => ~started')
  <2>1. CASE j < n
    BY <1>1, <2>1
  <2>2. CASE ~ (j < n)
    BY <1>1, <1>3, <2>2 DEF PlaybackTypeOK
  <2> QED
    BY <2>1, <2>2
<1> QED
  BY <1>1, <1>2, <1>3, <1>4

LEMMA PlayerInit == PlaybackInit => PlayerInv
<1> SUFFICES ASSUME PlaybackInit PROVE PlayerInv
  OBVIOUS
<1>1. /\ budget \in Seq(Ages) /\ failures \in Seq(Ages) /\ failures = budget /\ Len(budget) = 0
  BY EmptySeq DEF PlaybackInit
<1>2. /\ configuring \in BOOLEAN /\ started \in BOOLEAN /\ decoded \in BOOLEAN /\ keyless \in BOOLEAN
      /\ refused \in BOOLEAN /\ shows \in BOOLEAN /\ ~configuring /\ ~started /\ ~refused
  BY Zenon DEF PlaybackInit
<1>3. /\ video = "none" /\ candidates = 0 /\ index = 0 /\ last = -1 /\ inside = 0 /\ clock = 0
      /\ troubles = 0
  BY DEF PlaybackInit
<1>4. PlaybackTypeOK
  BY <1>1, <1>2, <1>3, PlaybackAssumption DEF PlaybackTypeOK, Ages
<1> QED
  BY <1>1, <1>2, <1>3, <1>4
  DEF PlayerInv, OldestFirst, KeyComesFirst, CandidateViable, ConfiguredOnce, BudgetCounts,
      NoFrameIsRefused

\* The configurations have been looked up.
LEMMA ConfiguredStep == ASSUME PlayerInv, NEW n \in 0 .. MaxCandidates, Configured(n) PROVE PlayerInv'
<1>1. configuring /\ ~configuring' /\ UNCHANGED <<decoded, budget, last, refused, clock, failures>>
  BY DEF Configured
<1>2. video = "none" /\ configuring' \in BOOLEAN /\ failures = budget
  BY <1>1 DEF PlayerInv, ConfiguredOnce, BudgetCounts, Configured
<1>3. CASE n > 0
  <2>1. candidates' = n /\ Apply(0, n, troubles) /\ troubles \in Nat /\ n \in 1 .. MaxCandidates
    BY <1>3, PlaybackAssumption DEF Configured, PlayerInv, PlaybackTypeOK
  <2>2. /\ index' \in 0 .. MaxCandidates /\ video' \in {"configured", "unconfigured"}
        /\ inside' = 0 /\ keyless' \in BOOLEAN /\ shows' \in BOOLEAN /\ started' \in BOOLEAN
        /\ troubles' \in 0 .. MaxTroubles
        /\ video' = "configured" => ~started' /\ index' < n
    BY <2>1, ApplyStep DEF PlayerInv
  <2>3. PlaybackTypeOK'
    BY <1>1, <1>2, <2>1, <2>2, PlaybackAssumption DEF PlayerInv, PlaybackTypeOK
  <2> QED
    BY <1>1, <1>2, <2>1, <2>2, <2>3
    DEF PlayerInv, OldestFirst, KeyComesFirst, CandidateViable, ConfiguredOnce, BudgetCounts,
      NoFrameIsRefused
<1>4. CASE ~ (n > 0)
  <2>1. troubles < MaxTroubles /\ troubles' = troubles + 1 /\ UNCHANGED <<decoderVars, candidates, started>>
    BY <1>4 DEF Configured
  <2>2. PlaybackTypeOK'
    BY <1>1, <1>2, <2>1, PlaybackAssumption DEF PlayerInv, PlaybackTypeOK, decoderVars
  <2> QED
    BY <1>1, <2>1, <2>2
    DEF PlayerInv, OldestFirst, KeyComesFirst, CandidateViable, ConfiguredOnce, BudgetCounts,
        NoFrameIsRefused, decoderVars
<1> QED
  BY <1>3, <1>4

\* The decoder puts out a frame.
LEMMA OutputStep == ASSUME PlayerInv, Output PROVE PlayerInv'
<1>1. /\ video = "configured" /\ inside > 0 /\ inside' = inside - 1
      /\ UNCHANGED <<video, index, keyless, configuring, candidates, started, budget, last, refused,
                     clock, troubles, failures>>
  BY DEF Output
<1>2. decoded' \in BOOLEAN /\ shows' \in BOOLEAN
  BY Zenon DEF Output
<1>3. PlaybackTypeOK'
  BY <1>1, <1>2, PlaybackAssumption DEF PlayerInv, PlaybackTypeOK
<1> QED
  BY <1>1, <1>3
  DEF PlayerInv, OldestFirst, KeyComesFirst, CandidateViable, ConfiguredOnce, BudgetCounts,
      NoFrameIsRefused

\* The decoder fails: what becomes of it, and of the budget.
LEMMA FailsStep == ASSUME PlayerInv, DecoderFails PROVE PlayerInv'
<1>1. /\ video = "configured" /\ troubles < MaxTroubles /\ troubles \in Nat
      /\ UNCHANGED <<configuring, candidates, decoded, last, refused, clock>>
      /\ candidates \in 1 .. MaxCandidates /\ index < candidates /\ index \in Nat /\ ~configuring
      /\ failures = budget
  BY PlaybackAssumption
  DEF DecoderFails, PlayerInv, PlaybackTypeOK, CandidateViable, ConfiguredOnce, BudgetCounts
<1>2. budget \in Seq(Ages) /\ OldestFirst(budget) /\ Len(budget) <= Limit /\ Len(budget) \in Nat
  BY LenProperties DEF PlayerInv, PlaybackTypeOK, Ages
<1>3. failures' = IF decoded THEN Append(budget, 0) ELSE budget
  BY <1>1 DEF DecoderFails
<1>4. failures' \in Seq(Ages) /\ OldestFirst(failures')
  BY <1>2, <1>3, AppendTyped
<1>5. ASSUME NEW i \in Nat, i <= MaxCandidates, DecoderCloses(i), UNCHANGED budget
      PROVE  PlayerInv'
  <2>1. /\ video' = "closed" /\ index' = i /\ inside' = 0 /\ troubles' = troubles + 1
        /\ UNCHANGED <<keyless, started>>
    BY <1>5 DEF DecoderCloses
  <2>2. shows' \in BOOLEAN
    BY <1>5, Zenon DEF DecoderCloses
  <2>3. PlaybackTypeOK'
    BY <1>1, <1>2, <1>4, <1>5, <2>1, <2>2, PlaybackAssumption DEF PlayerInv, PlaybackTypeOK, Ages
  <2> QED
    BY <1>1, <1>2, <1>4, <1>5, <2>1, <2>3
    DEF PlayerInv, OldestFirst, KeyComesFirst, CandidateViable, ConfiguredOnce, BudgetCounts,
      NoFrameIsRefused
<1>6. ASSUME NEW i \in Nat, Apply(i, candidates, troubles + 1), budget' = failures',
             Len(budget') <= Limit
      PROVE  PlayerInv'
  <2>1. /\ index' \in 0 .. MaxCandidates /\ video' \in {"configured", "unconfigured"}
        /\ inside' = 0 /\ keyless' \in BOOLEAN /\ shows' \in BOOLEAN /\ started' \in BOOLEAN
        /\ troubles' \in 0 .. MaxTroubles
        /\ video' = "configured" => ~started' /\ index' < candidates
    BY <1>1, <1>6, ApplyStep DEF PlayerInv
  <2>2. PlaybackTypeOK'
    BY <1>1, <1>4, <1>6, <2>1, PlaybackAssumption DEF PlayerInv, PlaybackTypeOK, Ages
  <2> QED
    BY <1>1, <1>4, <1>6, <2>1, <2>2
    DEF PlayerInv, OldestFirst, KeyComesFirst, CandidateViable, ConfiguredOnce, BudgetCounts,
      NoFrameIsRefused
<1>7. CASE ~decoded
  <2>1. NextCandidate /\ budget' = budget /\ failures' = budget
    BY <1>3, <1>7 DEF DecoderFails
  <2> QED
    BY <1>1, <1>2, <1>5, <1>6, <2>1 DEF NextCandidate
<1>8. CASE decoded /\ HasBudget
  <2>1. Restarts
    BY <1>8 DEF DecoderFails
  <2>2. budget' = Append(budget, 0) /\ failures' = Append(budget, 0) /\ Len(budget') <= Limit
    BY <1>2, <1>3, <1>8, <2>1, AppendTyped, PlaybackAssumption DEF Restarts, HasBudget
  <2> QED
    BY <1>1, <1>6, <2>1, <2>2 DEF Restarts
<1>9. CASE decoded /\ ~HasBudget
  <2>1. DecoderCloses(index) /\ UNCHANGED budget
    BY <1>9 DEF DecoderFails
  <2>2. index <= MaxCandidates
    BY <1>1, PlaybackAssumption
  <2> QED
    BY <1>1, <1>5, <2>1, <2>2
<1> QED
  BY <1>7, <1>8, <1>9

\* A chunk arrives.
LEMMA TakesStep ==
    ASSUME PlayerInv, NEW type \in Chunk, NEW pts \in 0 .. MaxPts, Takes(type, pts)
    PROVE  PlayerInv'
<1> DEFINE media == type # "config"
           jumped == media /\ last >= 0 /\ pts < last - Backstep
           begun == started /\ ~jumped
<1>1. UNCHANGED <<video, index, candidates, decoded, budget, clock, troubles, failures>>
  BY DEF Takes
<1>2. last' \in -1 .. MaxPts
  BY PlaybackAssumption DEF Takes, Seen, PlayerInv, PlaybackTypeOK
<1>3. shows' \in BOOLEAN
  <2>1. shows' = (shows /\ ~jumped)
    BY DEF Takes
  <2> HIDE DEF jumped
  <2> QED
    BY <2>1, Zenon DEF PlayerInv, PlaybackTypeOK
<1>4. begun \in BOOLEAN /\ (begun => started)
  BY DEF PlayerInv, PlaybackTypeOK
<1>5. /\ configuring' \in BOOLEAN /\ (configuring' => video = "none")
      /\ started' \in BOOLEAN /\ inside' \in 0 .. Depth /\ keyless' \in BOOLEAN /\ refused' = refused
      /\ (video = "configured" /\ started' => ~keyless')
  <2>1. CASE type = "config" \/ (type = "key" /\ video = "none")
    <3>1. Configure /\ started' = begun /\ UNCHANGED <<inside, keyless, refused>>
      BY <2>1 DEF Takes
    <3> QED
      BY <1>4, <3>1 DEF Configure, PlayerInv, PlaybackTypeOK, ConfiguredOnce, KeyComesFirst
  <2>2. CASE ~ (type = "config" \/ (type = "key" /\ video = "none")) /\ type = "audio"
    <3>1. started' = begun /\ UNCHANGED <<configuring, inside, keyless, refused>>
      BY <2>2 DEF Takes
    <3> QED
      BY <1>4, <3>1 DEF PlayerInv, PlaybackTypeOK, ConfiguredOnce, KeyComesFirst
  <2>3. CASE ~ (type = "config" \/ (type = "key" /\ video = "none")) /\ type # "audio"
    <3>1. Decode(type, begun) /\ UNCHANGED configuring
      BY <2>3 DEF Takes
    <3> HIDE DEF begun
    <3>2. CASE ~Feeds(type, begun)
      <4>1. started' = begun /\ UNCHANGED <<inside, keyless, refused>>
        BY <3>1, <3>2 DEF Decode
      <4> QED
        BY <1>4, <3>1, <4>1 DEF PlayerInv, PlaybackTypeOK, ConfiguredOnce, KeyComesFirst
    <3>3. CASE Feeds(type, begun) /\ keyless /\ type = "delta"
      <4>1. video = "configured" /\ started
        BY <1>4, <3>3 DEF Feeds
      <4> QED
        BY <3>3, <4>1 DEF PlayerInv, KeyComesFirst
    <3>4. CASE Feeds(type, begun) /\ ~ (keyless /\ type = "delta")
      <4>1. inside < Depth /\ inside' = inside + 1 /\ UNCHANGED refused
        BY <3>1, <3>4 DEF Decode
      <4>2. started' \in BOOLEAN /\ keyless' \in BOOLEAN /\ ~keyless'
        BY <3>1, <3>4, Zenon DEF Decode
      <4> QED
        BY <3>1, <4>1, <4>2, PlaybackAssumption DEF PlayerInv, PlaybackTypeOK, ConfiguredOnce
    <3> QED
      BY <3>2, <3>3, <3>4
  <2> QED
    BY <2>1, <2>2, <2>3
<1>6. PlaybackTypeOK'
  BY <1>1, <1>2, <1>3, <1>5 DEF PlayerInv, PlaybackTypeOK
<1> QED
  BY <1>1, <1>5, <1>6
  DEF PlayerInv, OldestFirst, KeyComesFirst, CandidateViable, ConfiguredOnce, BudgetCounts,
      NoFrameIsRefused

\* The room, its pipeline and time.
LEMMA StreamStep == ASSUME PlayerInv, RoomIsBack \/ PipelineRestarts PROVE PlayerInv'
<1>1. /\ troubles < MaxTroubles /\ troubles' = troubles + 1
      /\ UNCHANGED <<video, index, inside, keyless, configuring, candidates, decoded, budget, refused,
                     failures>>
  BY DEF RoomIsBack, PipelineRestarts, decoderVars, playerVars
<1>2. started' \in BOOLEAN /\ shows' \in BOOLEAN /\ (started' => started)
  <2>1. CASE RoomIsBack
    BY <2>1, Zenon DEF RoomIsBack
  <2>2. CASE PipelineRestarts
    BY <2>2 DEF PipelineRestarts, decoderVars, playerVars, PlayerInv, PlaybackTypeOK
  <2> QED
    BY <2>1, <2>2
<1>3. last' \in -1 .. MaxPts /\ clock' \in 0 .. MaxPts
  BY PlaybackAssumption DEF RoomIsBack, PipelineRestarts, playerVars, PlayerInv, PlaybackTypeOK
<1>4. PlaybackTypeOK'
  BY <1>1, <1>2, <1>3, PlaybackAssumption DEF PlayerInv, PlaybackTypeOK
<1> QED
  BY <1>1, <1>2, <1>4
  DEF PlayerInv, OldestFirst, KeyComesFirst, CandidateViable, ConfiguredOnce, BudgetCounts,
      NoFrameIsRefused

LEMMA PlaybackTickStep == ASSUME PlayerInv, PlaybackTick PROVE PlayerInv'
<1>1. UNCHANGED <<decoderVars, configuring, candidates, started, decoded, last, refused, troubles>>
  BY DEF PlaybackTick
<1>2. clock' \in 0 .. MaxPts
  BY PlaybackAssumption DEF PlaybackTick, PlayerInv, PlaybackTypeOK
<1>3. budget' = Passed(budget) /\ failures' = Passed(failures)
  BY DEF PlaybackTick, Aged
<1>4. budget \in Seq(Ages) /\ failures \in Seq(Ages) /\ OldestFirst(budget) /\ OldestFirst(failures)
  BY DEF PlayerInv, PlaybackTypeOK, Ages
<1>5. budget' \in Seq(Ages) /\ OldestFirst(budget') /\ Len(budget') <= Len(budget)
  BY <1>3, <1>4, PassedTyped
<1>6. failures' \in Seq(Ages) /\ OldestFirst(failures')
  BY <1>3, <1>4, PassedTyped
<1>7. Len(budget') <= Limit
  <2>1. Len(budget) \in Nat /\ Len(budget') \in Nat
    BY <1>4, <1>5, LenProperties
  <2> QED
    BY <1>5, <2>1, PlaybackAssumption DEF PlayerInv, PlaybackTypeOK
<1>8. PlaybackTypeOK'
  BY <1>1, <1>2, <1>5, <1>6, <1>7 DEF PlayerInv, PlaybackTypeOK, Ages, decoderVars
<1>9. BudgetCounts'
  BY <1>1, <1>3 DEF PlayerInv, BudgetCounts, decoderVars
<1> QED
  BY <1>1, <1>5, <1>6, <1>8, <1>9
  DEF PlayerInv, KeyComesFirst, CandidateViable, ConfiguredOnce, NoFrameIsRefused, decoderVars

LEMMA PlayerStep == PlayerInv /\ [PlaybackNext]_playbackVars => PlayerInv'
<1> SUFFICES ASSUME PlayerInv, [PlaybackNext]_playbackVars PROVE PlayerInv'
  OBVIOUS
<1>1. CASE Decoder
  BY <1>1, ConfiguredStep, OutputStep, FailsStep DEF Decoder
<1>2. ASSUME NEW type \in Chunk, Arrives(type) PROVE PlayerInv'
  <2>1. PICK pts \in Pts(type) : Takes(type, pts)
    BY <1>2 DEF Arrives
  <2>2. pts \in 0 .. MaxPts
    BY PlaybackAssumption DEF Pts, PlayerInv, PlaybackTypeOK
  <2> QED
    BY <2>1, <2>2, TakesStep
<1>3. CASE UNCHANGED playbackVars
  BY <1>3
  DEF playbackVars, decoderVars, playerVars, PlayerInv, PlaybackTypeOK, OldestFirst, KeyComesFirst,
      CandidateViable, ConfiguredOnce, BudgetCounts,
      NoFrameIsRefused
<1> QED
  BY <1>1, <1>2, <1>3, StreamStep, PlaybackTickStep DEF PlaybackNext, Stream

THEOREM PlaybackInvariance == PlaybackSpec => []PlayerInv
BY PlayerInit, PlayerStep, PTL DEF PlaybackSpec

\* The types of the player's state.
THEOREM PlaybackTypes == PlaybackSpec => []PlaybackTypeOK
<1>1. PlayerInv => PlaybackTypeOK
  BY DEF PlayerInv
<1> QED
  BY <1>1, PlaybackInvariance, PTL

\* Whatever fails and however the stream begins anew, no decoder is handed a
\* delta before a key frame (player.ts:193-222,249-268).
THEOREM NoneIsRefused == PlaybackSpec => []NoFrameIsRefused
<1>1. PlayerInv => NoFrameIsRefused
  BY DEF PlayerInv
<1> QED
  BY <1>1, PlaybackInvariance, PTL

\* Only a failing decoder is closed, and once the picture has been shown only
\* one that the budget has no more restarts for.
LEMMA ClosesForAReason ==
    PlayerInv /\ [PlaybackNext]_playbackVars
      => (~GivenUp /\ video' = "closed" /\ decoded => Len(failures) >= Limit)
<1> SUFFICES ASSUME PlayerInv, [PlaybackNext]_playbackVars, ~GivenUp, video' = "closed", decoded
             PROVE  Len(failures) >= Limit
  OBVIOUS
<1>1. video # "closed" /\ failures = budget /\ Len(budget) \in Nat
  BY LenProperties DEF GivenUp, PlayerInv, PlaybackTypeOK, BudgetCounts
<1>2. ASSUME NEW i, NEW n, NEW f, Apply(i, n, f) PROVE FALSE
  BY <1>2 DEF Apply
<1>3. CASE DecoderFails
  BY <1>1, <1>2, <1>3, PlaybackAssumption DEF DecoderFails, HasBudget, Restarts
<1>4. CASE \E n \in 0 .. MaxCandidates : Configured(n)
  BY <1>1, <1>2, <1>4 DEF Configured, decoderVars
<1> QED
  BY <1>1, <1>3, <1>4
  DEF PlaybackNext, Decoder, Stream, Output, Arrives, Takes, RoomIsBack, PipelineRestarts, PlaybackTick,
      decoderVars, playbackVars

\* A player that has shown the picture gives up only when its decoder has
\* failed Limit times within one Window before (player.ts:224-238).
THEOREM PlayerGivesUpForAReason == PlaybackSpec => GivesUpForAReason
BY PlaybackInvariance, ClosesForAReason, PTL DEF PlaybackSpec, GivesUpForAReason
=============================================================================
