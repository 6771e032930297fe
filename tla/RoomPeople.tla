----------------------------- MODULE RoomPeople -----------------------------
(***************************************************************************)
(* Who is in a room (internal/room/room.go, ink.go), and what the pages    *)
(* are told of it: viewers are admitted and leave, users have colours and  *)
(* cursors, and the handlers of their control sockets (viewerCtl and       *)
(* handleViewerMessage of internal/gateway/gateway.go) send every page a   *)
(* list of those present.  The list is made under the room's lock and sent *)
(* under it, with nothing held in between.  A media socket announces       *)
(* neither its coming nor its going.                                       *)
(***************************************************************************)
EXTENDS Naturals, FiniteSets

CONSTANTS User,
          Media, Ctl,         \* sockets
          UserOf,             \* whose page opens a socket
          Page,               \* the control socket of the page that is followed
          Palette,            \* colours, wire.PaletteSize
          PerUser, Total,     \* maxSocketsPerUser, maxSocketsPerRoom
          Buffer,             \* messages that wait for a viewer, ctlBuffer
          MaxPicks            \* colours picked

Socket == Media \cup Ctl

ASSUME PeopleAssumption ==
    /\ Media \cap Ctl = {} /\ UserOf \in [Socket -> User] /\ Page \in Ctl
    /\ Palette \in Nat \ {0} /\ Buffer \in Nat \ {0}
    /\ PerUser \in Nat \ {0} /\ Total \in Nat \ {0} /\ MaxPicks \in Nat

VARIABLES
    viewers,  \* Room.viewers: the sockets admitted
    colors,   \* Room.colors
    cursors,  \* Room.cursors: the colour of each user's cursor
    evicted,  \* Evict has been called
    at,       \* where the socket's handler is
    list,     \* the list of people that the handler has made
    up,       \* the colour that a page has sent and that is not read yet
    mine,     \* main.ts, myColor
    picks,    \* colours picked so far
    waiting,  \* lists in Viewer.Ctl of the page that is followed
    people,   \* the list that it shows when it has read them
    missed    \* it was not told of the latest change

roomVars == <<viewers, colors, cursors, evicted>>
handlerVars == <<at, list>>
pageVars == <<waiting, people>>
vars == <<roomVars, handlerVars, up, mine, picks, pageVars, missed>>

Color == 0 .. Palette - 1
Nothing == Palette   \* no colour, no cursor, not in the list, no message
Maybe == Color \cup {Nothing}
List == [User -> Maybe]

TypeOK ==
    /\ viewers \subseteq Socket /\ evicted \in BOOLEAN
    /\ colors \in List /\ cursors \in List
    /\ at \in [Socket -> {"closed", "open", "tell", "telling", "bye", "parting"}]
    /\ list \in [Ctl -> List]
    /\ up \in [Ctl -> Maybe] /\ mine \in [Ctl -> Color] /\ picks \in 0 .. MaxPicks
    /\ waiting \in 0 .. Buffer /\ people \in List /\ missed \in BOOLEAN

Nobody == [u \in User |-> Nothing]

Init ==
    /\ viewers = {} /\ colors = Nobody /\ cursors = Nobody /\ evicted = FALSE
    /\ at = [s \in Socket |-> "closed"] /\ list = [s \in Ctl |-> Nobody]
    /\ up = [s \in Ctl |-> Nothing] /\ mine = [s \in Ctl |-> 0] /\ picks = 0
    /\ waiting = 0 /\ people = Nobody /\ missed = TRUE

-----------------------------------------------------------------------------
(* The room *)

SocketsOf(u) == {s \in viewers : UserOf[s] = u}
Present == {UserOf[s] : s \in viewers}

\* A present user without a colour has Go's zero.
ColorOf(u) == IF colors[u] = Nothing THEN 0 ELSE colors[u]
Participants == [u \in User |-> IF u \in Present THEN ColorOf(u) ELSE Nothing]

Users(c) == Cardinality({u \in User : colors[u] = c})
LeastUsed == {c \in Color : \A d \in Color : Users(c) <= Users(d)}

\* A socket that brings or takes its user announces it only if a control
\* socket does so.
Unannounced(s, others) == s \in Media /\ UserOf[s] \notin {UserOf[o] : o \in others}

Admit(s) ==
    /\ at[s] = "closed"
    /\ Cardinality(viewers) < Total /\ Cardinality(SocketsOf(UserOf[s])) < PerUser
    /\ viewers' = viewers \cup {s}
    /\ IF colors[UserOf[s]] = Nothing
       THEN \E c \in LeastUsed : colors' = [colors EXCEPT ![UserOf[s]] = c]
       ELSE UNCHANGED colors
    /\ missed' = (missed \/ Unannounced(s, viewers))
    /\ UNCHANGED <<cursors, evicted, list, mine, picks, people>>

MediaOpens(s) ==
    /\ s \in Media /\ Admit(s)
    /\ at' = [at EXCEPT ![s] = "open"]
    /\ UNCHANGED <<waiting, up>>

\* The page sends its colour whenever the socket opens (main.ts:407): a page
\* loaded afresh sends 0, and the colour just dealt is overruled.
CtlOpens(s) ==
    /\ s \in Ctl /\ Admit(s)
    /\ at' = [at EXCEPT ![s] = "tell"]
    /\ up' = [up EXCEPT ![s] = mine[s]]
    /\ UNCHANGED waiting

\* The colour goes with the user's last socket, the cursor with any of them.
LeaveCursor(s) ==
    /\ viewers' = viewers \ {s} /\ UNCHANGED cursors
    /\ colors' = IF SocketsOf(UserOf[s]) = {s} THEN [colors EXCEPT ![UserOf[s]] = Nothing] ELSE colors
Leave(s) ==
    /\ viewers' = viewers \ {s}
    /\ cursors' = [cursors EXCEPT ![UserOf[s]] = Nothing]
    /\ colors' = IF SocketsOf(UserOf[s]) = {s} THEN [colors EXCEPT ![UserOf[s]] = Nothing] ELSE colors

Left(s) == IF s \in viewers THEN Leave(s) ELSE UNCHANGED <<viewers, cursors, colors>>

MediaCloses(s) ==
    /\ s \in Media /\ at[s] = "open"
    /\ Left(s) /\ UNCHANGED evicted
    /\ at' = [at EXCEPT ![s] = "closed"]
    /\ missed' = (missed \/ Unannounced(s, viewers \ {s}))
    /\ UNCHANGED <<list, up, mine, picks, pageVars>>

\* The lists that wait are lost: the page may be left with an older colour
\* than the one they bring.
CtlCloses(s) ==
    /\ s \in Ctl /\ at[s] = "open"
    /\ Left(s) /\ UNCHANGED evicted
    /\ at' = [at EXCEPT ![s] = "bye"]
    /\ up' = [up EXCEPT ![s] = Nothing]
    /\ waiting' = IF s = Page THEN 0 ELSE waiting
    /\ \E c \in Color : /\ s = Page /\ waiting = 0 => c = mine[s]
                       /\ mine' = [mine EXCEPT ![s] = c]
    /\ UNCHANGED <<list, picks, people, missed>>

\* The room is destroyed.  Handlers that found it before go on with it.
Evict ==
    /\ ~evicted /\ evicted' = TRUE
    /\ viewers' = {} /\ cursors' = Nobody
    /\ missed' = TRUE
    /\ UNCHANGED <<colors, handlerVars, up, mine, picks, pageVars>>

-----------------------------------------------------------------------------
(* The handlers of the control sockets *)

SetColor(u, c) ==
    /\ colors' = [colors EXCEPT ![u] = c]
    /\ cursors' = [cursors EXCEPT ![u] = IF @ = Nothing THEN Nothing ELSE c]

ReadColorOnly(s) ==
    /\ at[s] = "open" /\ up[s] # Nothing
    /\ SetColor(UserOf[s], up[s])
    /\ up' = [up EXCEPT ![s] = Nothing]
    /\ UNCHANGED <<viewers, evicted, handlerVars, mine, picks, pageVars, missed>>
ReadColor(s) ==
    /\ at[s] = "open" /\ up[s] # Nothing
    /\ SetColor(UserOf[s], up[s])
    /\ up' = [up EXCEPT ![s] = Nothing]
    /\ at' = [at EXCEPT ![s] = "tell"]
    /\ UNCHANGED <<viewers, evicted, list, mine, picks, pageVars, missed>>

\* SetCursor, for a pointer's move or a stroke.
ReadPointer(s) ==
    /\ at[s] = "open"
    /\ cursors' = [cursors EXCEPT ![UserOf[s]] = ColorOf(UserOf[s])]
    /\ UNCHANGED <<viewers, colors, evicted, handlerVars, up, mine, picks, pageVars, missed>>

\* broadcastPresence, first half.
MakeList(s) ==
    /\ \/ at[s] = "tell" /\ at' = [at EXCEPT ![s] = "telling"]
       \/ at[s] = "bye" /\ at' = [at EXCEPT ![s] = "parting"]
    /\ list' = [list EXCEPT ![s] = Participants]
    /\ UNCHANGED <<roomVars, up, mine, picks, pageVars, missed>>

\* Second half, BroadcastCtl: a page whose queue is full goes without.  What
\* a page reads later is booked here.
Reached == {t \in Ctl \cap viewers : t = Page => waiting < Buffer}

SendList(s) ==
    /\ \/ at[s] = "telling" /\ at' = [at EXCEPT ![s] = "open"]
       \/ at[s] = "parting" /\ at' = [at EXCEPT ![s] = "closed"]
    /\ mine' = [t \in Ctl |-> IF t \in Reached /\ list[s][UserOf[t]] # Nothing
                              THEN list[s][UserOf[t]] ELSE mine[t]]
    /\ IF Page \in Reached
       THEN waiting' = waiting + 1 /\ people' = list[s] /\ missed' = (list[s] # Participants)
       ELSE missed' = TRUE /\ UNCHANGED pageVars
    /\ list' = [list EXCEPT ![s] = Nobody]
    /\ UNCHANGED <<roomVars, up, picks>>

-----------------------------------------------------------------------------
(* The pages *)

\* A list is read; the page shows it, and takes its own colour from it.
Receive ==
    /\ waiting > 0 /\ waiting' = waiting - 1
    /\ UNCHANGED <<roomVars, handlerVars, up, mine, picks, people, missed>>

\* A swatch.  One colour at a time is on its way; a choice made while the
\* socket is closed is sent when it opens.
Pick(s, c) ==
    /\ up[s] = Nothing /\ picks < MaxPicks
    /\ picks' = picks + 1 /\ mine' = [mine EXCEPT ![s] = c]
    /\ up' = IF at[s] \in {"open", "tell", "telling"} THEN [up EXCEPT ![s] = c] ELSE up
    /\ UNCHANGED <<roomVars, handlerVars, pageVars, missed>>

\* The page is loaded afresh (main.ts:325).
LoadPage(s) ==
    /\ at[s] = "closed"
    /\ mine' = [mine EXCEPT ![s] = 0]
    /\ UNCHANGED <<roomVars, handlerVars, up, picks, pageVars, missed>>

-----------------------------------------------------------------------------
Sockets == \E s \in Socket : MediaOpens(s) \/ CtlOpens(s) \/ MediaCloses(s) \/ CtlCloses(s)
Handlers == \E s \in Ctl : ReadColor(s) \/ ReadPointer(s) \/ MakeList(s) \/ SendList(s)
Pages == Receive \/ \E s \in Ctl : LoadPage(s) \/ \E c \in Color : Pick(s, c)
Next == Sockets \/ Evict \/ Handlers \/ Pages

Spec == Init /\ [][Next]_vars

-----------------------------------------------------------------------------
(* Properties *)

\* Until a room is destroyed, its cursors are those of people who are there,
\* in their colours (room.go:154-183,393-405, ink.go:169-178): a handler that
\* still has a message in hand does not bring back the cursor of a user who
\* has left by other sockets.
CursorsAreInOrder ==
    ~evicted => \A u \in User : cursors[u] # Nothing => u \in Present /\ cursors[u] = colors[u]

\* When all handlers rest, a page shows who is there and in which colours
\* (gateway.go:552-555,613,669-673), unless it missed the last list: only a
\* media socket changed it, the list sent last was made before one sent
\* earlier, or the page's queue was full.
Quiet == \A s \in Ctl : at[s] \in {"open", "closed"}
PresenceSettles ==
    Quiet /\ Page \in viewers /\ waiting = 0 /\ ~missed => people = Participants

\* The swatch that a page marks as its own is then the colour of its user's ink
\* and cursor, and no colour that it sent is lost (main.ts:325-331,352-353,407,
\* 488-491, gateway.go:669-673): a new socket sends the page's colour over the
\* one dealt, another of the user's sockets changes it, and a list made before
\* a pick takes the pick back until the next list gives it again.
OwnColourSettles ==
    Quiet /\ Page \in viewers /\ waiting = 0 /\ ~missed /\ up[Page] = Nothing =>
        mine[Page] = colors[UserOf[Page]]
=============================================================================
