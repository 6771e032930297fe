---------------------------- MODULE ViewerInput -----------------------------
(***************************************************************************)
(* What becomes of a message that a viewer sends on a control socket       *)
(* (viewerCtl and handleViewerMessage of internal/gateway/gateway.go): the *)
(* limiter that all sockets of a user share (authz.Limiter), the token     *)
(* that lets one user type at a time (room.TypingToken), and the way to    *)
(* the agent.  Each socket has a handler that deals with one message at a  *)
(* time; between its steps the other handlers take theirs.                 *)
(***************************************************************************)
EXTENDS Naturals

CONSTANTS User, Socket,
          UserOf,     \* whose session a socket was opened with
          Cost,       \* of a message, in the units the limiter's rate is in
          Rate,       \* units that accrue in a tick
          Burst,      \* units a bucket holds at most
          Hold,       \* ticks until another user may type
          MaxBudget   \* how long, in units, an account is kept

\* The empty user id.
Nobody == "nobody"

ASSUME InputAssumption ==
    /\ Nobody \notin User
    /\ UserOf \in [Socket -> User]
    /\ Cost \in Nat \ {0} /\ Rate \in Nat /\ Burst \in Nat /\ Burst >= Cost
    /\ Hold \in Nat \ {0} /\ MaxBudget \in Nat

VARIABLES
    at,        \* where the socket's handler is
    waited,    \* ticks since it acquired the token, Hold at most
    bucket,    \* Limiter.buckets: the units left; a user without one has a full one
    holder,    \* TypingToken.holder
    lastType,  \* ticks since TypingToken.lastType, Hold at most
    account    \* of some user: units spent since some moment, and those that were due

handlerVars == <<at, waited>>
tokenVars == <<holder, lastType>>
vars == <<handlerVars, bucket, tokenVars, account>>

\* The steps that a handler takes with a text, once it has the token.
Typing == {"announce", "deliver"}
Place == {"closed", "read", "parse", "acquire", "control"} \cup Typing

TypeOK ==
    /\ at \in [Socket -> Place]
    /\ waited \in [Socket -> 0 .. Hold]
    /\ bucket \in [User -> 0 .. Burst]
    /\ holder \in User \cup {Nobody}
    /\ lastType \in 0 .. Hold
    /\ account \in [user : User, spent : Nat, due : Nat]

Fresh(u) == [user |-> u, spent |-> 0, due |-> Burst]

Init ==
    /\ at = [s \in Socket |-> "closed"]
    /\ waited = [s \in Socket |-> 0]
    /\ bucket = [u \in User |-> Burst]
    /\ holder = Nobody /\ lastType = Hold
    /\ account \in {Fresh(u) : u \in User}

-----------------------------------------------------------------------------
(* Time and the account *)

Least(a, b) == IF a < b THEN a ELSE b

\* Units accrue.  Allow adds them when it looks, which comes to the same.
Tick ==
    /\ account.due + Rate <= MaxBudget
    /\ bucket' = [u \in User |-> Least(Burst, bucket[u] + Rate)]
    /\ waited' = [s \in Socket |-> IF at[s] \in Typing THEN Least(Hold, waited[s] + 1) ELSE waited[s]]
    /\ lastType' = Least(Hold, lastType + 1)
    /\ account' = [account EXCEPT !.due = @ + Rate]
    /\ UNCHANGED <<at, holder>>

\* The account begins anew, at any moment and for anyone.
Mark(u) ==
    /\ account' = Fresh(u)
    /\ UNCHANGED <<handlerVars, bucket, tokenVars>>

-----------------------------------------------------------------------------
(* The handler of a socket *)

Booked(s) == account.user = UserOf[s]

Go(s, from, to) == at[s] = from /\ at' = [at EXCEPT ![s] = to]

Open(s) ==
    /\ Go(s, "closed", "read")
    /\ UNCHANGED <<waited, bucket, tokenVars, account>>

\* The deferred calls of viewerCtl: the limiter forgets the user, whatever
\* other sockets the user has.
Close(s) ==
    /\ Booked(s) => account.due + Burst <= MaxBudget
    /\ Go(s, "read", "closed")
    /\ bucket' = [bucket EXCEPT ![UserOf[s]] = Burst]
    /\ account' = IF Booked(s) THEN [account EXCEPT !.due = @ + Burst] ELSE account
    /\ UNCHANGED <<waited, tokenVars>>

\* A message is read, and dropped unless Limiter.Allow lets it pass.
Pass(s, left) ==
    /\ Go(s, "read", "parse")
    /\ bucket' = [bucket EXCEPT ![UserOf[s]] = left]
    /\ account' = IF Booked(s) THEN [account EXCEPT !.spent = @ + Cost] ELSE account
    /\ UNCHANGED <<waited, tokenVars>>
AllowOnCredit(s) == bucket[UserOf[s]] > 0 /\ Pass(s, IF bucket[UserOf[s]] < Cost THEN 0 ELSE bucket[UserOf[s]] - Cost)
Allow(s) == bucket[UserOf[s]] >= Cost /\ Pass(s, bucket[UserOf[s]] - Cost)

\* ParseCtl and the switch.  A message that is refused is answered, a stroke,
\* a colour or a cursor stays in the room, pointers and keys that do not print
\* go to the agent at once, text and the keys that do print need the token.
Sort(s) ==
    /\ \E to \in {"read", "control", "acquire"} : Go(s, "parse", to)
    /\ UNCHANGED <<waited, bucket, tokenVars, account>>

\* TypingToken.Acquire.
AnyoneMayType(u) == holder \in {Nobody, u} \/ lastType >= 1
MayType(u) == holder \in {Nobody, u} \/ lastType >= Hold

Acquire(s) ==
    /\ at[s] = "acquire"
    /\ IF MayType(UserOf[s])
       THEN /\ at' = [at EXCEPT ![s] = "announce"]
            /\ holder' = UserOf[s] /\ lastType' = 0
            /\ waited' = [waited EXCEPT ![s] = 0]
       ELSE /\ at' = [at EXCEPT ![s] = "read"]
            /\ UNCHANGED <<tokenVars, waited>>
    /\ UNCHANGED <<bucket, account>>

\* The room is told who types; queues that are full miss it.
Announce(s) ==
    /\ Go(s, "announce", "deliver")
    /\ UNCHANGED <<waited, bucket, tokenVars, account>>

\* toAgent: written to the agent's connection, if there is one.
Deliver(s) ==
    /\ Go(s, "deliver", "read") \/ Go(s, "control", "read")
    /\ waited' = [waited EXCEPT ![s] = 0]
    /\ UNCHANGED <<bucket, tokenVars, account>>

Handler(s) == Open(s) \/ Close(s) \/ Allow(s) \/ Sort(s) \/ Acquire(s) \/ Announce(s) \/ Deliver(s)

Next == Tick \/ (\E u \in User : Mark(u)) \/ (\E s \in Socket : Handler(s))

Spec == Init /\ [][Next]_vars

-----------------------------------------------------------------------------
(* Properties *)

\* From any moment on, a user's messages pass only as fast as the limiter's
\* rate allows after one burst (authz.go:155-198, gateway.go:620), over all
\* the user's sockets together; each control socket that closes on the way
\* makes the limiter forget the user (gateway.go:552) and is worth another
\* burst, and no more than that.
RateIsBounded == account.spent <= account.due

\* Keys of two users do not interleave on the way to the agent
\* (gateway.go:671-690, room.go:454-470): a text that is delivered before the
\* token's hold has passed finds its user still holding the token, so that
\* nobody else's text can have overtaken it.
TextIsInTurn ==
    \A s \in Socket : at[s] \in Typing /\ waited[s] < Hold
                         => holder = UserOf[s] /\ lastType <= waited[s]
=============================================================================
