----------------------------- MODULE NewsProofs -----------------------------
(***************************************************************************)
(* What a page is told, in two components that share no state.  RoomPeople *)
(* for any users, sockets and limits: who is present, in which colour, and *)
(* the list that every page ends up with.  Watchdog for any intervals and  *)
(* buffer: the status of the room, and the page that shows it.             *)
(***************************************************************************)
EXTENDS RoomPeople, Watchdog, SequenceTheorems, TLAPS

-----------------------------------------------------------------------------
(* RoomPeople *)

Kept == {"open", "tell", "telling"}

\* Until the room is destroyed, a handler's viewer is in the room from its
\* admission up to its leaving; in none but these places it is.
HandlersAreIn ==
    /\ \A s \in viewers : at[s] \in Kept
    /\ ~evicted => \A s \in Socket : at[s] \in Kept => s \in viewers

\* Whoever is there has a colour, and until the room is destroyed nobody else.
PresentAreColored ==
    /\ \A u \in Present : colors[u] # Nothing
    /\ ~evicted => \A u \in User : colors[u] # Nothing => u \in Present

\* PresenceSettles, the lists that wait included.
LastListIsTrue == Quiet /\ Page \in viewers /\ ~missed => people = Participants

\* The page's colour is that of the list it was sent last, unless the page has
\* sent another since.
LastColorIsOwn ==
    Quiet /\ Page \in viewers /\ ~missed /\ up[Page] = Nothing =>
        mine[Page] = people[UserOf[Page]]

Inv ==
    /\ TypeOK /\ HandlersAreIn /\ PresentAreColored /\ CursorsAreInOrder
    /\ LastListIsTrue /\ LastColorIsOwn

-----------------------------------------------------------------------------
(* Facts about the room *)

LEMMA NothingIsNoColor == Nothing \notin Color /\ Color \subseteq Maybe /\ Nothing \in Maybe
                          /\ Nobody \in List
BY PeopleAssumption DEF Nothing, Color, Maybe, Nobody, List

LEMMA PresentAreUsers == ASSUME TypeOK PROVE Present \subseteq User
BY PeopleAssumption DEF TypeOK, Present, Socket

LEMMA ParticipantsTyped == ASSUME TypeOK PROVE Participants \in List
<1>1. \A u \in User : ColorOf(u) \in Maybe
  BY PeopleAssumption DEF TypeOK, ColorOf, List, Maybe, Color, Nothing
<1> QED
  BY <1>1, NothingIsNoColor DEF Participants, List

\* A new socket's user is there, and nobody else has come.
LEMMA PresentGrows == ASSUME NEW s \in Socket, viewers' = viewers \cup {s}
                      PROVE  Present' = Present \cup {UserOf[s]}
BY DEF Present

\* Whoever has gone with a socket had no other.
LEMMA PresentShrinks == ASSUME NEW s \in viewers, viewers' = viewers \ {s}
                        PROVE  Present' = IF SocketsOf(UserOf[s]) = {s} THEN Present \ {UserOf[s]} ELSE Present
<1>1. CASE SocketsOf(UserOf[s]) = {s}
  BY <1>1 DEF Present, SocketsOf
<1>2. CASE SocketsOf(UserOf[s]) # {s}
  <2>1. PICK t \in viewers : t # s /\ UserOf[t] = UserOf[s]
    BY <1>2 DEF SocketsOf
  <2> QED
    BY <1>2, <2>1 DEF Present
<1> QED
  BY <1>1, <1>2

\* The list depends on who is there and on their colours.
LEMMA SameParticipants ==
  ASSUME Present' = Present, \A u \in Present : colors'[u] = colors[u]
  PROVE  Participants' = Participants
BY DEF Participants, ColorOf

-----------------------------------------------------------------------------
LEMMA PeopleInit == Init => Inv
<1> SUFFICES ASSUME Init PROVE Inv
  OBVIOUS
<1>0. 0 \in Color /\ 0 \in 0 .. MaxPicks /\ 0 \in 0 .. Buffer
  BY PeopleAssumption DEF Color
<1>1. TypeOK
  <2>1. /\ at \in [Socket -> {"closed", "open", "tell", "telling", "bye", "parting"}]
        /\ list \in [Ctl -> List] /\ up \in [Ctl -> Maybe] /\ mine \in [Ctl -> Color]
    BY <1>0, NothingIsNoColor DEF Init
  <2> QED
    BY <2>1, <1>0, NothingIsNoColor DEF Init, TypeOK
<1>2. viewers = {} /\ Present = {}
  BY DEF Init, Present
<1>3. HandlersAreIn
  BY <1>2 DEF Init, HandlersAreIn, Kept
<1>4. PresentAreColored /\ CursorsAreInOrder
  BY <1>2 DEF Init, PresentAreColored, CursorsAreInOrder, Nobody
<1> QED
  BY <1>1, <1>2, <1>3, <1>4 DEF Inv, LastListIsTrue, LastColorIsOwn

\* What both kinds of admission do.
LEMMA AdmitStep == ASSUME Inv, NEW s \in Socket, Admit(s)
                   PROVE  /\ viewers' \subseteq Socket /\ colors' \in List
                          /\ PresentAreColored' /\ CursorsAreInOrder'
                          /\ Present' = Present \cup {UserOf[s]}
                          /\ \A u \in Present : colors'[u] = colors[u]
<1> DEFINE u == UserOf[s]
<1>0. u \in User /\ colors \in List /\ viewers' = viewers \cup {s} /\ UNCHANGED <<cursors, evicted>>
  BY PeopleAssumption DEF Inv, TypeOK, Admit
<1>1. Present' = Present \cup {u}
  BY <1>0, PresentGrows
<1>2. CASE colors[u] = Nothing
  <2>1. PICK c \in LeastUsed : colors' = [colors EXCEPT ![u] = c]
    BY <1>2 DEF Admit
  <2>2. c \in Color /\ c # Nothing
    BY NothingIsNoColor DEF LeastUsed
  <2>3. colors' \in List /\ colors'[u] = c /\ \A v \in User \ {u} : colors'[v] = colors[v]
    BY <1>0, <2>1, <2>2, NothingIsNoColor DEF List
  <2>4. u \notin Present
    BY <1>2 DEF Inv, PresentAreColored
  <2>5. Present \subseteq User
    BY PresentAreUsers DEF Inv
  <2>6. ~evicted => cursors[u] = Nothing
    BY <1>0, <1>2 DEF Inv, CursorsAreInOrder
  <2> QED
    BY <1>0, <1>1, <2>2, <2>3, <2>4, <2>5, <2>6 DEF Inv, TypeOK, PresentAreColored, CursorsAreInOrder
<1>3. CASE colors[u] # Nothing
  <2>1. colors' = colors
    BY <1>3 DEF Admit
  <2> QED
    BY <1>0, <1>1, <1>3, <2>1 DEF Inv, TypeOK, PresentAreColored, CursorsAreInOrder
<1> QED
  BY <1>2, <1>3

\* What both kinds of leaving do.
LEMMA LeftStep == ASSUME Inv, NEW s \in Socket, Left(s), UNCHANGED evicted
                  PROVE  /\ viewers' \subseteq Socket /\ colors' \in List /\ cursors' \in List
                         /\ viewers' = viewers \ {s}
                         /\ PresentAreColored' /\ CursorsAreInOrder'
                         /\ \A v \in Present' : colors'[v] = colors[v]
<1> DEFINE u == UserOf[s]
<1>0. u \in User /\ colors \in List /\ cursors \in List /\ viewers \subseteq Socket
  BY PeopleAssumption DEF Inv, TypeOK
<1>1. CASE s \notin viewers
  <2>1. UNCHANGED <<viewers, cursors, colors>>
    BY <1>1 DEF Left
  <2> QED
    BY <1>0, <1>1, <2>1 DEF Inv, PresentAreColored, CursorsAreInOrder, Present
<1>2. CASE s \in viewers
  <2>1. /\ viewers' = viewers \ {s} /\ cursors' = [cursors EXCEPT ![u] = Nothing]
        /\ colors' = IF SocketsOf(u) = {s} THEN [colors EXCEPT ![u] = Nothing] ELSE colors
    BY <1>2 DEF Left, Leave
  <2>2. Present' = IF SocketsOf(u) = {s} THEN Present \ {u} ELSE Present
    BY <1>2, <2>1, PresentShrinks
  <2>3. cursors' \in List /\ cursors'[u] = Nothing /\ \A v \in User \ {u} : cursors'[v] = cursors[v]
    BY <1>0, <2>1, NothingIsNoColor DEF List
  <2>4. u \in Present /\ Present \subseteq User
    BY <1>2, PresentAreUsers DEF Inv, Present
  <2>5. CASE SocketsOf(u) = {s}
    <3>1. colors' \in List /\ colors'[u] = Nothing /\ \A v \in User \ {u} : colors'[v] = colors[v]
      BY <1>0, <2>1, <2>5, NothingIsNoColor DEF List
    <3>2. Present' = Present \ {u}
      BY <2>2, <2>5
    <3>3. PresentAreColored'
      BY <2>4, <3>1, <3>2 DEF Inv, PresentAreColored
    <3>4. CursorsAreInOrder'
      BY <2>3, <3>1, <3>2 DEF Inv, CursorsAreInOrder
    <3> QED
      BY <1>0, <2>1, <2>3, <2>4, <3>1, <3>2, <3>3, <3>4
  <2>6. CASE SocketsOf(u) # {s}
    BY <1>0, <2>1, <2>2, <2>3, <2>6 DEF Inv, PresentAreColored, CursorsAreInOrder
  <2> QED
    BY <2>5, <2>6
<1> QED
  BY <1>1, <1>2

\* A media socket that changes who is there marks the page, and one that does
\* not leaves the list as it is.
LEMMA MediaOpensStep == ASSUME Inv, NEW s \in Socket, MediaOpens(s) PROVE Inv'
<1>0. s \in Media /\ Admit(s) /\ at' = [at EXCEPT ![s] = "open"] /\ at[s] = "closed"
  BY DEF MediaOpens, Admit
<1>1. /\ viewers' \subseteq Socket /\ colors' \in List /\ PresentAreColored' /\ CursorsAreInOrder'
      /\ Present' = Present \cup {UserOf[s]} /\ \A u \in Present : colors'[u] = colors[u]
  BY <1>0, AdmitStep
<1>2. /\ UNCHANGED <<cursors, evicted, list, mine, picks, people, waiting, up>>
      /\ viewers' = viewers \cup {s} /\ missed' = (missed \/ Unannounced(s, viewers))
  BY DEF MediaOpens, Admit
<1>3. TypeOK'
  BY <1>0, <1>1, <1>2 DEF Inv, TypeOK
<1>4. HandlersAreIn'
  BY <1>0, <1>2 DEF Inv, TypeOK, HandlersAreIn, Kept
<1>5. LastListIsTrue'
  <2> SUFFICES ASSUME Quiet', Page \in viewers', ~missed' PROVE people' = Participants'
    BY DEF LastListIsTrue
  <2>1. UserOf[s] \in Present /\ ~missed
    BY <1>0, <1>2 DEF Unannounced, Present
  <2>2. Participants' = Participants
    BY <1>1, <2>1, SameParticipants
  <2>3. Page \in viewers /\ Quiet
    BY <1>0, <1>2, PeopleAssumption DEF Quiet, Inv, TypeOK, Socket
  <2> QED
    BY <1>2, <2>1, <2>2, <2>3 DEF Inv, LastListIsTrue
<1>6. LastColorIsOwn'
  <2>1. Quiet' /\ Page \in viewers' => Quiet /\ Page \in viewers
    BY <1>0, <1>2, PeopleAssumption DEF Quiet, Inv, TypeOK, Socket
  <2> QED
    BY <1>2, <2>1 DEF Inv, LastColorIsOwn
<1> QED
  BY <1>1, <1>3, <1>4, <1>5, <1>6 DEF Inv

LEMMA MediaClosesStep == ASSUME Inv, NEW s \in Socket, MediaCloses(s) PROVE Inv'
<1>0. /\ s \in Media /\ Left(s) /\ at' = [at EXCEPT ![s] = "closed"] /\ at[s] = "open"
      /\ UNCHANGED <<evicted, list, mine, picks, people, waiting, up>>
      /\ missed' = (missed \/ Unannounced(s, viewers \ {s}))
  BY DEF MediaCloses, pageVars
<1>1. /\ viewers' \subseteq Socket /\ colors' \in List /\ cursors' \in List
      /\ viewers' = viewers \ {s}
      /\ PresentAreColored' /\ CursorsAreInOrder' /\ \A v \in Present' : colors'[v] = colors[v]
  BY <1>0, LeftStep
<1>2. TypeOK'
  BY <1>0, <1>1 DEF Inv, TypeOK
<1>3. HandlersAreIn'
  BY <1>0, <1>1 DEF Inv, TypeOK, HandlersAreIn, Kept
<1>4. LastListIsTrue'
  <2> SUFFICES ASSUME Quiet', Page \in viewers', ~missed' PROVE people' = Participants'
    BY DEF LastListIsTrue
  <2>1. UserOf[s] \in Present' /\ ~missed
    BY <1>0, <1>1 DEF Unannounced, Present
  <2>2. Present' = Present
    BY <1>1, <2>1 DEF Present
  <2>3. Participants' = Participants
    BY <1>1, <2>2, SameParticipants
  <2>4. Page \in viewers /\ Quiet
    BY <1>0, <1>1, PeopleAssumption DEF Quiet, Inv, TypeOK, Socket
  <2> QED
    BY <1>0, <2>1, <2>3, <2>4 DEF Inv, LastListIsTrue
<1>5. LastColorIsOwn'
  <2>1. Quiet' /\ Page \in viewers' => Quiet /\ Page \in viewers
    BY <1>0, <1>1, PeopleAssumption DEF Quiet, Inv, TypeOK, Socket
  <2> QED
    BY <1>0, <2>1 DEF Inv, LastColorIsOwn
<1> QED
  BY <1>1, <1>2, <1>3, <1>4, <1>5 DEF Inv

\* A control socket that comes or goes has its list still to send.
LEMMA CtlOpensStep == ASSUME Inv, NEW s \in Socket, CtlOpens(s) PROVE Inv'
<1>0. s \in Ctl /\ Admit(s) /\ at' = [at EXCEPT ![s] = "tell"] /\ at[s] = "closed"
      /\ UNCHANGED <<cursors, evicted, list, mine, picks, people, waiting>>
      /\ up' = [up EXCEPT ![s] = mine[s]] /\ viewers' = viewers \cup {s} /\ missed' \in BOOLEAN
  BY DEF CtlOpens, Admit, Inv, TypeOK
<1>1. /\ viewers' \subseteq Socket /\ colors' \in List /\ PresentAreColored' /\ CursorsAreInOrder'
  BY <1>0, AdmitStep
<1>2. TypeOK'
  BY <1>0, <1>1, NothingIsNoColor DEF Inv, TypeOK
<1>3. HandlersAreIn'
  BY <1>0 DEF Inv, TypeOK, HandlersAreIn, Kept
<1>4. ~Quiet'
  BY <1>0 DEF Quiet, Inv, TypeOK
<1> QED
  BY <1>1, <1>2, <1>3, <1>4 DEF Inv, LastListIsTrue, LastColorIsOwn

LEMMA CtlClosesStep == ASSUME Inv, NEW s \in Socket, CtlCloses(s) PROVE Inv'
<1>0. /\ s \in Ctl /\ Left(s) /\ at' = [at EXCEPT ![s] = "bye"] /\ at[s] = "open"
      /\ UNCHANGED <<evicted, list, picks, people, missed>>
      /\ up' = [up EXCEPT ![s] = Nothing] /\ waiting' \in {0, waiting}
      /\ mine' \in [Ctl -> Color]
  BY DEF CtlCloses, Inv, TypeOK
<1>1. /\ viewers' \subseteq Socket /\ colors' \in List /\ cursors' \in List
      /\ viewers' = viewers \ {s} /\ PresentAreColored' /\ CursorsAreInOrder'
  BY <1>0, LeftStep
<1>2. TypeOK'
  BY <1>0, <1>1, NothingIsNoColor, PeopleAssumption DEF Inv, TypeOK
<1>3. HandlersAreIn'
  BY <1>0, <1>1 DEF Inv, TypeOK, HandlersAreIn, Kept
<1>4. ~Quiet'
  BY <1>0 DEF Quiet, Inv, TypeOK
<1> QED
  BY <1>1, <1>2, <1>3, <1>4 DEF Inv, LastListIsTrue, LastColorIsOwn

LEMMA EvictStep == ASSUME Inv, Evict PROVE Inv'
<1>1. viewers' = {} /\ evicted' /\ cursors' = Nobody
  BY DEF Evict
<1>2. TypeOK'
  BY NothingIsNoColor DEF Inv, TypeOK, Evict, handlerVars, pageVars
<1> QED
  BY <1>1, <1>2 DEF Inv, HandlersAreIn, PresentAreColored, Present, CursorsAreInOrder, LastListIsTrue,
     LastColorIsOwn

LEMMA ReadColorStep == ASSUME Inv, NEW s \in Ctl, ReadColor(s) PROVE Inv'
<1> DEFINE u == UserOf[s]
<1>0. /\ SetColor(u, up[s]) /\ up[s] \in Color /\ u \in User /\ s \in Socket
      /\ at' = [at EXCEPT ![s] = "tell"] /\ at[s] = "open" /\ up' = [up EXCEPT ![s] = Nothing]
      /\ UNCHANGED <<viewers, evicted, list, mine, picks, waiting, people, missed>>
      /\ colors \in List /\ cursors \in List
  BY PeopleAssumption DEF ReadColor, Inv, TypeOK, Maybe, pageVars, Socket
<1>1. /\ colors' \in List /\ colors'[u] = up[s] /\ \A v \in User \ {u} : colors'[v] = colors[v]
  BY <1>0, NothingIsNoColor DEF SetColor, List
<1>2. /\ cursors' \in List /\ cursors'[u] \in {Nothing, up[s]}
      /\ \A v \in User \ {u} : cursors'[v] = cursors[v]
  BY <1>0, NothingIsNoColor DEF SetColor, List
<1>3. TypeOK'
  BY <1>0, <1>1, <1>2, NothingIsNoColor DEF Inv, TypeOK
<1>4. HandlersAreIn'
  BY <1>0 DEF Inv, TypeOK, HandlersAreIn, Kept
<1>5. ~evicted => u \in Present
  BY <1>0 DEF Inv, HandlersAreIn, Kept, Present
<1>6. Present' = Present /\ Present \subseteq User
  BY <1>0, PresentAreUsers DEF Present, Inv
<1>7. PresentAreColored' /\ CursorsAreInOrder'
  BY <1>0, <1>1, <1>2, <1>5, <1>6, NothingIsNoColor DEF Inv, PresentAreColored, CursorsAreInOrder
<1>8. ~Quiet'
  BY <1>0 DEF Quiet, Inv, TypeOK
<1> QED
  BY <1>3, <1>4, <1>7, <1>8 DEF Inv, LastListIsTrue, LastColorIsOwn

LEMMA ReadPointerStep == ASSUME Inv, NEW s \in Ctl, ReadPointer(s) PROVE Inv'
<1> DEFINE u == UserOf[s]
<1>0. /\ at[s] = "open" /\ u \in User /\ s \in Socket
      /\ cursors' = [cursors EXCEPT ![u] = ColorOf(u)] /\ cursors \in List /\ colors \in List
      /\ UNCHANGED <<viewers, colors, evicted, at, list, up, mine, picks, waiting, people, missed>>
  BY PeopleAssumption DEF ReadPointer, Inv, TypeOK, handlerVars, pageVars, Socket
<1>1. ColorOf(u) \in Maybe
  BY <1>0, PeopleAssumption DEF ColorOf, List, Maybe, Color, Nothing
<1>2. cursors' \in List /\ cursors'[u] = ColorOf(u) /\ \A v \in User \ {u} : cursors'[v] = cursors[v]
  BY <1>0, <1>1 DEF List
<1>3. ~evicted => u \in Present /\ colors[u] # Nothing
  BY <1>0 DEF Inv, HandlersAreIn, Kept, Present, PresentAreColored
<1>4. CursorsAreInOrder'
  BY <1>0, <1>2, <1>3 DEF Inv, CursorsAreInOrder, ColorOf, Present
<1>5. TypeOK' /\ HandlersAreIn' /\ PresentAreColored' /\ LastListIsTrue' /\ LastColorIsOwn'
  BY <1>0, <1>2 DEF Inv, TypeOK, HandlersAreIn, PresentAreColored, Present, LastListIsTrue,
     LastColorIsOwn, Quiet, Participants, ColorOf
<1> QED
  BY <1>4, <1>5 DEF Inv

LEMMA MakeListStep == ASSUME Inv, NEW s \in Ctl, MakeList(s) PROVE Inv'
<1>0. /\ \/ at[s] = "tell" /\ at' = [at EXCEPT ![s] = "telling"]
         \/ at[s] = "bye" /\ at' = [at EXCEPT ![s] = "parting"]
      /\ list' = [list EXCEPT ![s] = Participants]
      /\ UNCHANGED <<viewers, colors, cursors, evicted, up, mine, picks, waiting, people, missed>>
      /\ s \in Socket
  BY DEF MakeList, roomVars, pageVars, Socket
<1>1. TypeOK'
  BY <1>0, ParticipantsTyped DEF Inv, TypeOK
<1>2. HandlersAreIn'
  BY <1>0 DEF Inv, TypeOK, HandlersAreIn, Kept
<1>3. ~Quiet'
  BY <1>0 DEF Quiet, Inv, TypeOK
<1> QED
  BY <1>0, <1>1, <1>2, <1>3 DEF Inv, PresentAreColored, Present, CursorsAreInOrder, LastListIsTrue,
     LastColorIsOwn

\* A list is booked as it is sent, and as missed unless it still is true.
LEMMA SendListStep == ASSUME Inv, NEW s \in Ctl, SendList(s) PROVE Inv'
<1>0. /\ \/ at[s] = "telling" /\ at' = [at EXCEPT ![s] = "open"]
         \/ at[s] = "parting" /\ at' = [at EXCEPT ![s] = "closed"]
      /\ list' = [list EXCEPT ![s] = Nobody]
      /\ UNCHANGED <<viewers, colors, cursors, evicted, up, picks>> /\ s \in Socket
  BY DEF SendList, roomVars, Socket
<1>1. Participants' = Participants
  BY <1>0 DEF Participants, Present, ColorOf
<1>2. mine' \in [Ctl -> Color]
  <2>1. \A t \in Ctl : list[s][UserOf[t]] \in Maybe
    BY PeopleAssumption DEF Inv, TypeOK, List, Socket
  <2> QED
    BY <2>1 DEF SendList, Inv, TypeOK, Maybe
<1>3. /\ waiting' \in 0 .. Buffer /\ people' \in List /\ missed' \in BOOLEAN
      /\ ~missed' => people' = Participants
  <2>1. CASE Page \in Reached
    <3>1. waiting < Buffer
      BY <2>1 DEF Reached
    <3>2. waiting' = waiting + 1 /\ people' = list[s] /\ missed' = (list[s] # Participants)
      BY <2>1 DEF SendList
    <3>3. waiting + 1 \in 0 .. Buffer
      BY <3>1, PeopleAssumption DEF Inv, TypeOK
    <3>4. list[s] \in List
      BY DEF Inv, TypeOK
    <3>5. missed' \in BOOLEAN /\ (~missed' => list[s] = Participants)
      BY <3>2, Zenon
    <3> QED
      BY <1>1, <3>2, <3>3, <3>4, <3>5
  <2>2. CASE Page \notin Reached
    BY <2>2 DEF SendList, pageVars, Inv, TypeOK
  <2> QED
    BY <2>1, <2>2
<1>4. TypeOK'
  BY <1>0, <1>2, <1>3, NothingIsNoColor DEF Inv, TypeOK
<1>5. HandlersAreIn'
  BY <1>0 DEF Inv, TypeOK, HandlersAreIn, Kept
\* The list has the page's user, who is there, and so the page's colour.
<1>6. LastColorIsOwn'
  <2> SUFFICES ASSUME Page \in viewers', ~missed' PROVE mine'[Page] = people'[UserOf[Page]]
    BY DEF LastColorIsOwn
  <2>1. Page \in Reached /\ people' = list[s] /\ list[s] = Participants
    BY DEF SendList
  <2>2. UserOf[Page] \in Present /\ UserOf[Page] \in User /\ Page \in Ctl
    BY <1>0, PeopleAssumption DEF Present, Socket
  <2>3. Participants[UserOf[Page]] # Nothing
    BY <2>2, NothingIsNoColor DEF Participants, ColorOf, Inv, PresentAreColored
  <2> QED
    BY <2>1, <2>2, <2>3 DEF SendList
<1> QED
  BY <1>0, <1>1, <1>3, <1>4, <1>5, <1>6 DEF Inv, PresentAreColored, Present, CursorsAreInOrder,
     LastListIsTrue

LEMMA PagesStep == ASSUME Inv, Pages PROVE Inv'
<1>1. UNCHANGED <<viewers, colors, cursors, evicted, at, list, people, missed>>
  BY DEF Pages, Receive, Pick, LoadPage, roomVars, handlerVars, pageVars
<1>2. TypeOK'
  <2>1. CASE Receive
    BY <2>1, PeopleAssumption DEF Receive, roomVars, handlerVars, Inv, TypeOK
  <2>2. ASSUME NEW s \in Ctl, NEW c \in Color, Pick(s, c) PROVE TypeOK'
    BY <2>2, PeopleAssumption, NothingIsNoColor DEF Pick, roomVars, handlerVars, pageVars, Inv, TypeOK
  <2>3. ASSUME NEW s \in Ctl, LoadPage(s) PROVE TypeOK'
    <3>1. 0 \in Color
      BY PeopleAssumption DEF Color
    <3> QED
      BY <2>3, <3>1 DEF LoadPage, roomVars, handlerVars, pageVars, Inv, TypeOK
  <2> QED
    BY <2>1, <2>2, <2>3 DEF Pages
\* A page whose viewer is in the room is loaded, and sends what it picks.
<1>3. LastColorIsOwn'
  <2> SUFFICES ASSUME Page \in viewers, ~missed, Quiet, up'[Page] = Nothing
               PROVE  mine'[Page] = people[UserOf[Page]]
    BY <1>1 DEF LastColorIsOwn, Quiet
  <2>1. Page \in Ctl /\ at[Page] \in Kept
    BY PeopleAssumption DEF Inv, HandlersAreIn
  <2>2. CASE Receive
    BY <2>2 DEF Receive, Inv, LastColorIsOwn
  <2>3. ASSUME NEW s \in Ctl, NEW c \in Color, Pick(s, c) PROVE s # Page /\ up[Page] = Nothing
    BY <2>1, <2>3, NothingIsNoColor DEF Pick, Kept, Inv, TypeOK
  <2>4. ASSUME NEW s \in Ctl, LoadPage(s) PROVE s # Page /\ up[Page] = Nothing
    BY <2>1, <2>4 DEF LoadPage, Kept
  <2>5. mine'[Page] = mine[Page] /\ up[Page] = Nothing
    BY <2>1, <2>2, <2>3, <2>4 DEF Pages, Receive, Pick, LoadPage, Inv, TypeOK
  <2> QED
    BY <2>5 DEF Inv, LastColorIsOwn
<1> QED
  BY <1>1, <1>2, <1>3 DEF Inv, HandlersAreIn, PresentAreColored, Present, CursorsAreInOrder,
     LastListIsTrue, Quiet, Participants, ColorOf

LEMMA PeopleStep == Inv /\ [Next]_vars => Inv'
<1> SUFFICES ASSUME Inv, [Next]_vars PROVE Inv'
  OBVIOUS
<1>1. CASE Sockets
  BY <1>1, MediaOpensStep, MediaClosesStep, CtlOpensStep, CtlClosesStep DEF Sockets
<1>2. CASE Handlers
  BY <1>2, ReadColorStep, ReadPointerStep, MakeListStep, SendListStep DEF Handlers
<1>3. CASE UNCHANGED vars
  BY <1>3 DEF vars, roomVars, handlerVars, pageVars, Inv, TypeOK, HandlersAreIn, PresentAreColored,
     Present, CursorsAreInOrder, LastListIsTrue, LastColorIsOwn, Quiet, Participants, ColorOf
<1> QED
  BY <1>1, <1>2, <1>3, EvictStep, PagesStep DEF Next

-----------------------------------------------------------------------------
\* The room, the handlers and the pages keep their types (room.go, gateway.go).
THEOREM PeopleTypes == Spec => []TypeOK
<1>1. Inv => TypeOK
  BY DEF Inv
<1> QED
  BY <1>1, PeopleInit, PeopleStep, PTL DEF Spec

\* Whatever users and sockets: the cursors are those of people who are there,
\* in their colours (room.go:154-183,393-405).
THEOREM CursorsInOrder == Spec => []CursorsAreInOrder
<1>1. Inv => CursorsAreInOrder
  BY DEF Inv
<1> QED
  BY <1>1, PeopleInit, PeopleStep, PTL DEF Spec

\* Whatever users and sockets: a page that missed nothing shows who is there
\* once the handlers rest (gateway.go:552-555,613,669-673).
THEOREM PresenceIsTrue == Spec => []PresenceSettles
<1>1. Inv => PresenceSettles
  BY DEF Inv, LastListIsTrue, PresenceSettles
<1> QED
  BY <1>1, PeopleInit, PeopleStep, PTL DEF Spec

\* Whatever users, sockets and colours: the swatch that a page marks is the
\* colour its user draws with, once the handlers rest (main.ts:325-331,407).
THEOREM OwnColour == Spec => []OwnColourSettles
<1>1. Inv => OwnColourSettles
  <2> SUFFICES ASSUME Inv, Quiet, Page \in viewers, ~missed, up[Page] = Nothing
               PROVE  mine[Page] = colors[UserOf[Page]]
    BY DEF OwnColourSettles
  <2>1. mine[Page] = Participants[UserOf[Page]]
    BY DEF Inv, LastListIsTrue, LastColorIsOwn
  <2>2. UserOf[Page] \in Present /\ UserOf[Page] \in User
    BY PeopleAssumption DEF Present, Socket
  <2> QED
    BY <2>1, <2>2 DEF Participants, ColorOf, Inv, PresentAreColored
<1> QED
  BY <1>1, PeopleInit, PeopleStep, PTL DEF Spec

-----------------------------------------------------------------------------
(* Watchdog *)

Watches == [at : {"idle", "due", "empty", "seen", "tell", "act"}, conn : Reference,
            since : 0 .. Mature, act : {"none", "kick", "restart"}]
Healings == [status : Status, kicked : 0 .. Cooled, restarted : 0 .. Cooled]

\* What the page shows once it has read what waits for it.
Latest == IF inbox = <<>> THEN client ELSE inbox[Len(inbox)]

NobodyHasMail == viewer = "out" => inbox = <<>>

\* Unless the watchdog has a status still to tell, or a known gap kept one
\* from the page, the page has the gateway's status or is about to.
LatestIsCurrent ==
    watch.at # "tell" /\ ~excused /\ ~astray /\ (viewer = "in" \/ inbox # <<>>)
        => Latest = healing.status

StatusInv == WatchdogTypeOK /\ NobodyHasMail /\ LatestIsCurrent

-----------------------------------------------------------------------------
(* Types *)

LEMMA LimitsAreNat ==
    /\ StallAfter \in Nat /\ NoVideoAfter \in Nat /\ KickCooldown \in Nat /\ MaxAway \in Nat
    /\ Cooled \in Nat /\ Mature \in Nat /\ Stale \in Nat
    /\ 0 \in 0 .. Cooled /\ Cooled \in 0 .. Cooled /\ 0 \in 0 .. Mature /\ Mature \in 0 .. Mature
    /\ 0 \in 0 .. Stale /\ Stale \in 0 .. Stale
<1>1. StallAfter \in Nat /\ NoVideoAfter \in Nat /\ KickCooldown \in Nat /\ MaxAway \in Nat
  BY WatchdogAssumption
<1> QED
  BY <1>1 DEF Cooled, Mature, Stale

LEMMA OlderTyped ==
    ASSUME NEW limit \in Nat, NEW age \in 0 .. limit PROVE Older(age, limit) \in 0 .. limit
BY DEF Older

LEMMA RestTyped ==
    /\ "live" \in Status /\ Status \subseteq News /\ "nil" \in Reference /\ Forgotten \in Healings /\ AtRest \in Watches
    /\ Forgotten.status = "live" /\ AtRest.at = "idle"
<1>1. "live" \in Status /\ Status \subseteq News /\ "nil" \in Reference
  BY DEF Status, News, Reference
<1> QED
  BY <1>1, LimitsAreNat DEF Healings, Watches, Forgotten, AtRest

LEMMA LostTyped == ASSUME NEW conn \in Reference PROVE Lost(conn) \in Reference
BY DEF Reference, Lost

\* The parts of StateTyped.
AgentTyped ==
    /\ known \in BOOLEAN /\ hasVideo \in BOOLEAN /\ agents \in Reference /\ session \in BOOLEAN
    /\ since \in 0 .. Mature /\ silent \in 0 .. Stale /\ away \in 0 .. MaxAway
    /\ health \in {"well", "mute", "blind"} /\ down \in BOOLEAN
WatchTyped == healing \in Healings /\ watch \in Watches
ViewerTyped ==
    /\ viewer \in {"out", "admitted", "greeting", "in"}
    /\ greeting \in Status /\ client \in News /\ excused \in BOOLEAN
    /\ inbox \in Seq(News) /\ Len(inbox) <= StatusBuffer
    /\ astray \in BOOLEAN /\ Watched => known

LEMMA TypeParts == StateTyped <=> AgentTyped /\ WatchTyped /\ ViewerTyped
BY DEF StateTyped, AgentTyped, WatchTyped, ViewerTyped, Watches, Healings

LEMMA TypesInit == WatchdogInit => WatchdogTypeOK
<1> SUFFICES ASSUME WatchdogInit PROVE WatchdogTypeOK
  OBVIOUS
<1>1. known \in BOOLEAN /\ hasVideo \in BOOLEAN /\ session \in BOOLEAN /\ down \in BOOLEAN
      /\ excused \in BOOLEAN /\ owed \in BOOLEAN /\ astray \in BOOLEAN
  BY Zenon DEF WatchdogInit
<1>2. AgentTyped
  <2>1. agents = "nil" /\ since = Mature /\ silent = Stale /\ away = 0
        /\ health \in {"well", "mute", "blind"}
    BY DEF WatchdogInit
  <2> QED
    BY <1>1, <2>1, LimitsAreNat, RestTyped DEF AgentTyped
<1>3. WatchTyped
  BY RestTyped, Zenon DEF WatchdogInit, WatchTyped
<1>4. ViewerTyped
  <2>1. viewer = "out" /\ greeting = "live" /\ client = "live" /\ inbox = <<>>
    BY DEF WatchdogInit
  <2>2. inbox \in Seq(News) /\ Len(inbox) = 0
    BY <2>1, EmptySeq
  <2> QED
    BY <1>1, <2>1, <2>2, RestTyped, WatchdogAssumption DEF ViewerTyped, Watched
<1> QED
  BY <1>1, <1>2, <1>3, <1>4, TypeParts DEF WatchdogTypeOK

\* The agent, its connection and the room.
LEMMA AgentTypes ==
    ASSUME StateTyped,
           \/ Connect \/ Publish \/ Dropped \/ Break \/ Disconnect
           \/ \E h \in {"well", "mute", "blind"} : ChangeHealth(h) \/ ComeUp(h)
    PROVE  StateTyped'
<1> USE DEF agentVars, streamVars, viewerVars, Watched
<1>0. AgentTyped /\ WatchTyped /\ ViewerTyped
  BY TypeParts
<1>1. CASE Connect
  <2>1. known' \in BOOLEAN /\ hasVideo' \in BOOLEAN /\ session' \in BOOLEAN /\ known' = TRUE
    BY <1>1, Zenon DEF Connect
  <2>2. /\ agents' = "held" /\ since' = 0 /\ away' = 0 /\ silent' \in {silent, Stale}
        /\ UNCHANGED <<health, down, healing, watch, viewerVars>>
    BY <1>1 DEF Connect
  <2>3. AgentTyped'
    BY <1>0, <2>1, <2>2, LimitsAreNat DEF AgentTyped, Reference
  <2>4. known'
    BY <2>1
  <2> QED
    BY <1>0, <2>2, <2>3, <2>4, TypeParts DEF WatchTyped, ViewerTyped, StateTyped, AgentTyped, Watches, Healings
<1>2. CASE Publish
  <2>1. hasVideo' \in BOOLEAN
    BY <1>2, Zenon DEF Publish
  <2>2. silent' = 0 /\ UNCHANGED <<known, agentVars, agents, since, healing, watch, viewerVars>>
    BY <1>2 DEF Publish
  <2> QED
    BY <2>1, <2>2, LimitsAreNat DEF StateTyped
<1>3. CASE Dropped \/ Break
  <2>1. session' \in BOOLEAN
    BY <1>3, Zenon DEF Dropped, Break, Lose
  <2>2. /\ away' = 0 /\ agents' = Lost(agents) /\ watch' = [watch EXCEPT !.conn = Lost(@)]
        /\ UNCHANGED <<known, health, down, since, silent, hasVideo, healing, viewerVars>>
    BY <1>3 DEF Dropped, Break, Lose
  <2>3. AgentTyped'
    BY <1>0, <2>1, <2>2, LimitsAreNat, LostTyped DEF AgentTyped
  <2>4. WatchTyped'
    <3>1. watch \in Watches /\ Lost(watch.conn) \in Reference
      BY <1>0, LostTyped DEF WatchTyped, Watches
    <3> QED
      BY <1>0, <2>2, <3>1 DEF WatchTyped, Watches
  <2>5. ViewerTyped'
    BY <1>0, <2>2 DEF ViewerTyped
  <2> QED
    BY <2>3, <2>4, <2>5 DEF StateTyped, AgentTyped, WatchTyped, ViewerTyped, Watches, Healings
<1>4. CASE Disconnect
  BY <1>4, LimitsAreNat DEF Disconnect, StateTyped, Reference
<1>5. ASSUME NEW h \in {"well", "mute", "blind"}, ChangeHealth(h) PROVE StateTyped'
  BY <1>5 DEF ChangeHealth, StateTyped
<1>6. ASSUME NEW h \in {"well", "mute", "blind"}, ComeUp(h) PROVE StateTyped'
  <2>1. down' \in BOOLEAN
    BY <1>6, Zenon DEF ComeUp
  <2>2. /\ health' = h /\ away' = 0
        /\ UNCHANGED <<known, session, streamVars, healing, watch, viewerVars>>
    BY <1>6 DEF ComeUp
  <2> QED
    BY <2>1, <2>2, LimitsAreNat DEF StateTyped
<1> QED
  BY <1>1, <1>2, <1>3, <1>4, <1>5, <1>6

\* The room is destroyed, or its viewers are told of it by another than the
\* watchdog.
LEMMA FullAndGoneTypes ==
    ASSUME StateTyped, TellFull \/ Destroy \/ EndExpired
    PROVE  StateTyped'
<1> USE DEF agentVars, streamVars
<1>1. /\ inbox \in Seq(News) /\ Len(inbox) \in Nat /\ Len(inbox) <= StatusBuffer
      /\ StatusBuffer \in Nat /\ "full" \in News /\ "ending" \in News
  BY LenProperties, WatchdogAssumption DEF StateTyped, News
<1>2. ASSUME NEW news \in News, Len(inbox) < StatusBuffer, inbox' = Append(inbox, news)
      PROVE  inbox' \in Seq(News) /\ Len(inbox') <= StatusBuffer
  <2>1. Append(inbox, news) \in Seq(News) /\ Len(Append(inbox, news)) = Len(inbox) + 1
    BY <1>1, AppendProperties
  <2> QED
    BY <1>1, <1>2, <2>1
<1>3. inbox' \in Seq(News) /\ Len(inbox') <= StatusBuffer
  <2>1. CASE TellFull
    BY <1>1, <1>2, <2>1 DEF TellFull
  <2>2. CASE Destroy
    BY <1>1, <2>2 DEF Destroy
  <2>3. CASE EndExpired
    BY <1>1, <1>2, <2>3 DEF EndExpired
  <2> QED
    BY <2>1, <2>2, <2>3
<1>4. CASE TellFull
  <2>1. excused' \in BOOLEAN
    BY <1>4, Zenon DEF TellFull
  <2>2. UNCHANGED <<known, agentVars, streamVars, healing, watch, viewer, astray, greeting, client>>
    BY <1>4 DEF TellFull
  <2> QED
    BY <1>3, <2>1, <2>2 DEF StateTyped, Watched
<1>5. CASE RoomGoes
  <2>1. known' \in BOOLEAN /\ hasVideo' \in BOOLEAN /\ excused' \in BOOLEAN
    BY <1>5, Zenon DEF RoomGoes
  <2>2. astray' \in BOOLEAN /\ ~Watched'
    BY <1>5, Zenon DEF RoomGoes, Watched
  <2>3. /\ agents' = "nil" /\ since' = Mature /\ silent' = Stale
        /\ UNCHANGED <<agentVars, healing, watch, viewer, greeting, client>>
    BY <1>5 DEF RoomGoes
  <2> QED
    BY <1>3, <2>1, <2>2, <2>3, LimitsAreNat, RestTyped DEF StateTyped
<1> QED
  BY <1>4, <1>5 DEF Destroy, EndExpired

\* The watchdog's next look.
LEMMA TickTypes == ASSUME StateTyped, Tick PROVE StateTyped'
<1>1. UNCHANGED <<known, agents, hasVideo, session, health, down, viewerVars>>
  BY DEF Tick
<1>2. since' \in 0 .. Mature /\ silent' \in 0 .. Stale
  BY OlderTyped, LimitsAreNat DEF Tick, StateTyped
<1>3. away' \in 0 .. MaxAway
  BY LimitsAreNat DEF Tick, AgentInTime, StateTyped
<1>4. watch' \in Watches
  BY DEF Tick, StateTyped, Watches
<1>5. healing' \in Healings
  <2>1. healing \in Healings /\ Older(healing.kicked, Cooled) \in 0 .. Cooled
        /\ Older(healing.restarted, Cooled) \in 0 .. Cooled
    BY OlderTyped, LimitsAreNat DEF StateTyped, Healings
  <2> QED
    BY <2>1 DEF Tick, Healings
<1> QED
  BY <1>1, <1>2, <1>3, <1>4, <1>5 DEF StateTyped, Watched, viewerVars, Watches, Healings

\* What a decision leaves of the watchdog's record is typed; only Decide
\* leaves something to tell.
LEMMA TreatingTyped ==
    ASSUME NEW remedy \in {"none", "kick", "restart"}, NEW conn \in Reference
    PROVE  Treating(remedy, conn) \in Watches /\ Treating(remedy, conn).at # "tell"
<1>1. AtRest \in Watches /\ AtRest.at = "idle"
  BY RestTyped
<1>2. CASE remedy = "none"
  BY <1>1, <1>2 DEF Treating
<1>3. CASE remedy = "kick"
  <2>1. Treating(remedy, conn) = [AtRest EXCEPT !.at = "act", !.act = "kick"]
    BY <1>3 DEF Treating
  <2> QED
    BY <1>1, <2>1 DEF Watches
<1>4. CASE remedy = "restart"
  <2>1. Treating(remedy, conn) = [AtRest EXCEPT !.at = "act", !.act = "restart", !.conn = conn]
    BY <1>4 DEF Treating
  <2> QED
    BY <1>1, <2>1 DEF Watches
<1> QED
  BY <1>2, <1>3, <1>4

LEMMA DecisionTyped ==
    ASSUME StateTyped
    PROVE  /\ Verdict \in Status /\ Remedy \in {"none", "kick", "restart"}
           /\ [status |-> Verdict, kicked |-> Remembered.kicked, restarted |-> Remembered.restarted]
                \in Healings
<1>1. Verdict \in Status
  BY DEF Verdict, Status
<1>2. Remedy \in {"none", "kick", "restart"}
  BY DEF Remedy
<1>3. Remembered.kicked \in 0 .. Cooled /\ Remembered.restarted \in 0 .. Cooled
  <2>1. healing.kicked \in 0 .. Cooled /\ healing.restarted \in 0 .. Cooled
    BY DEF StateTyped
  <2> QED
    BY <2>1, LimitsAreNat DEF Remembered
<1> QED
  BY <1>1, <1>2, <1>3 DEF Healings

\* One step of heal.
LEMMA HealTypes == ASSUME StateTyped, Heal PROVE StateTyped'
<1> USE DEF agentVars, streamVars, viewerVars, Watched
<1>0. AgentTyped /\ WatchTyped /\ ViewerTyped
  BY TypeParts
<1>1. CASE LookEmpty \/ Look
  <2>1. UNCHANGED <<known, agentVars, streamVars, healing, viewerVars>>
    BY <1>1 DEF LookEmpty, Look
  <2>2. watch' \in Watches
    <3>1. watch \in Watches /\ agents \in Reference /\ since \in 0 .. Mature
      BY <1>0 DEF AgentTyped, WatchTyped
    <3> QED
      BY <1>1, <3>1, RestTyped DEF LookEmpty, Look, Watches
  <2> QED
    BY <2>1, <2>2 DEF StateTyped, Watches
<1>2. CASE Forget
  <2>1. excused' \in BOOLEAN
    BY <1>2, Zenon DEF Forget
  <2>2. /\ healing' = Forgotten /\ watch' = AtRest
        /\ UNCHANGED <<known, agentVars, streamVars, viewer, astray, greeting, inbox, client>>
    BY <1>2 DEF Forget
  <2> QED
    BY <2>1, <2>2, RestTyped DEF StateTyped, Watches, Healings
<1>3. CASE Decide
  <2>1. UNCHANGED <<known, agentVars, streamVars, viewerVars>>
    BY <1>3 DEF Decide
  <2>2. healing' \in Healings
    BY <1>3, DecisionTyped DEF Decide
  <2>3. watch' \in Watches
    <3>1. watch \in Watches /\ watch.conn \in Reference /\ Remedy \in {"none", "kick", "restart"}
      BY <1>0, DecisionTyped DEF WatchTyped, Watches
    <3>2. Treating(Remedy, watch.conn) \in Watches
      BY <3>1, TreatingTyped
    <3>3. [watch EXCEPT !.at = "tell", !.since = Mature, !.act = Remedy] \in Watches
      BY <3>1, LimitsAreNat DEF Watches
    <3> QED
      BY <1>3, <3>2, <3>3 DEF Decide
  <2> QED
    BY <2>1, <2>2, <2>3 DEF StateTyped, Watches, Healings
<1>4. CASE Tell
  <2>1. UNCHANGED <<known, agentVars, streamVars, healing, viewer, astray, greeting, client>>
    BY <1>4 DEF Tell
  <2>2. watch' \in Watches
    <3>1. watch.conn \in Reference /\ watch.act \in {"none", "kick", "restart"}
      BY DEF StateTyped
    <3> QED
      BY <1>4, <3>1, TreatingTyped DEF Tell
  <2>3. inbox' \in Seq(News) /\ Len(inbox') <= StatusBuffer
    <3>1. /\ healing.status \in News /\ inbox \in Seq(News) /\ Len(inbox) \in Nat
          /\ Len(inbox) <= StatusBuffer /\ StatusBuffer \in Nat
      BY LenProperties, WatchdogAssumption DEF StateTyped, News
    <3>2. inbox' = inbox \/ (Len(inbox) < StatusBuffer /\ inbox' = Append(inbox, healing.status))
      BY <1>4, Zenon DEF Tell
    <3>3. Append(inbox, healing.status) \in Seq(News)
          /\ Len(Append(inbox, healing.status)) = Len(inbox) + 1
      BY <3>1, AppendProperties
    <3>4. CASE inbox' = inbox
      BY <3>1, <3>4
    <3>5. CASE Len(inbox) < StatusBuffer /\ inbox' = Append(inbox, healing.status)
      BY <3>1, <3>3, <3>5
    <3> QED
      BY <3>2, <3>4, <3>5
  <2>4. excused' \in BOOLEAN
    <3>1. CASE excused' = excused
      BY <3>1 DEF StateTyped
    <3>2. CASE excused' # excused
      BY <1>4, <3>2, Zenon DEF Tell
    <3> QED
      BY <3>1, <3>2
  <2> QED
    BY <2>1, <2>2, <2>3, <2>4 DEF StateTyped, Watches
<1>5. CASE Kick
  BY <1>5, LimitsAreNat, RestTyped DEF Kick, StateTyped, Watches
<1>6. CASE Restart
  <2>1. watch' = AtRest /\ UNCHANGED <<known, away, since, silent, hasVideo, healing, viewerVars>>
    BY <1>6 DEF Restart
  <2>2. down' \in BOOLEAN /\ session' \in BOOLEAN
    <3>1. CASE watch.conn = "held"
      BY <1>6, <3>1, Zenon DEF Restart
    <3>2. CASE watch.conn # "held"
      BY <1>6, <3>2 DEF Restart, StateTyped
    <3> QED
      BY <3>1, <3>2
  <2>3. health' \in {"well", "mute", "blind"} /\ agents' \in Reference
    BY <1>6, LostTyped DEF Restart, StateTyped
  <2> QED
    BY <2>1, <2>2, <2>3, RestTyped DEF StateTyped, Watches
<1> QED
  BY <1>1, <1>2, <1>3, <1>4, <1>5, <1>6 DEF Heal

\* The viewer's handler and page.
LEMMA ViewerTypes ==
    ASSUME StateTyped, Join \/ Greet \/ SendGreeting \/ Deliver \/ LeaveRoom
    PROVE  StateTyped'
<1> USE DEF agentVars, streamVars, Watched
<1>0. "live" \in Status /\ healing.status \in Status /\ Status \subseteq News
  BY RestTyped DEF StateTyped
<1>1. CASE Join
  <2>1. known' \in BOOLEAN /\ known' = TRUE /\ astray' \in BOOLEAN
    BY <1>1, Zenon DEF Join
  <2>2. /\ viewer' = "admitted" /\ inbox' = <<>>
        /\ UNCHANGED <<agentVars, streamVars, healing, watch, greeting, client, excused>>
    BY <1>1 DEF Join
  <2>3. inbox' \in Seq(News) /\ Len(inbox') = 0 /\ known'
    BY <2>1, <2>2, EmptySeq
  <2> QED
    BY <2>1, <2>2, <2>3, WatchdogAssumption DEF StateTyped
<1>2. CASE Greet
  BY <1>0, <1>2 DEF Greet, StateTyped
<1>3. CASE SendGreeting
  <2>1. excused' \in BOOLEAN
    BY <1>3, Zenon DEF SendGreeting
  <2>2. /\ viewer' = "in" /\ client' \in {greeting, client} /\ greeting' = "live"
        /\ viewer # "out" /\ UNCHANGED <<known, agentVars, streamVars, healing, watch, astray, inbox>>
    BY <1>3 DEF SendGreeting
  <2> QED
    BY <1>0, <2>1, <2>2 DEF StateTyped
<1>4. CASE Deliver
  <2>1. /\ client' = Head(inbox) /\ inbox' = Tail(inbox) /\ inbox # <<>>
        /\ UNCHANGED <<known, agentVars, streamVars, healing, watch, viewer, astray, greeting, excused>>
    BY <1>4 DEF Deliver
  <2>2. /\ client' \in News /\ inbox' \in Seq(News) /\ Len(inbox') = Len(inbox) - 1
        /\ Len(inbox) \in Nat
    BY <2>1, HeadTailProperties, LenProperties DEF StateTyped
  <2> QED
    BY <2>1, <2>2, WatchdogAssumption DEF StateTyped
<1>5. CASE LeaveRoom
  <2>1. excused' \in BOOLEAN /\ astray' \in BOOLEAN
    BY <1>5, Zenon DEF LeaveRoom
  <2>2. /\ viewer' = "out" /\ inbox' = <<>> /\ greeting' = "live"
        /\ UNCHANGED <<known, agentVars, streamVars, healing, watch, client>>
    BY <1>5 DEF LeaveRoom
  <2>3. inbox' \in Seq(News) /\ Len(inbox') = 0
    BY <2>2, EmptySeq
  <2> QED
    BY <1>0, <2>1, <2>2, <2>3, WatchdogAssumption DEF StateTyped
<1> QED
  BY <1>1, <1>2, <1>3, <1>4, <1>5

LEMMA OwedTyped == ASSUME owed \in BOOLEAN, [WatchdogNext]_watchdogVars PROVE owed' \in BOOLEAN
<1>1. CASE Decide \/ Kick \/ Break \/ LeaveRoom \/ Destroy \/ EndExpired
          \/ \E h \in {"well", "mute", "blind"} : ChangeHealth(h)
  BY <1>1, Zenon DEF Decide, Kick, Break, LeaveRoom, Destroy, EndExpired, RoomGoes, ChangeHealth,
                  Ailing
<1>2. CASE ~ (Decide \/ Kick \/ Break \/ LeaveRoom \/ Destroy \/ EndExpired)
           /\ ~ \E h \in {"well", "mute", "blind"} : ChangeHealth(h)
  <2>1. UNCHANGED owed
    BY <1>2 DEF WatchdogNext, Connect, Publish, Dropped, Disconnect, ComeUp, Tick, Heal, LookEmpty,
                Forget, Look, Tell, Restart, Join, Greet, SendGreeting, Deliver, TellFull, watchdogVars
  <2> QED
    BY <2>1
<1> QED
  BY <1>1, <1>2

LEMMA TypesStep == WatchdogTypeOK /\ [WatchdogNext]_watchdogVars => WatchdogTypeOK'
<1> SUFFICES ASSUME WatchdogTypeOK, [WatchdogNext]_watchdogVars PROVE WatchdogTypeOK'
  OBVIOUS
<1>1. StateTyped'
  <2>1. CASE UNCHANGED watchdogVars
    BY <2>1 DEF watchdogVars, agentVars, streamVars, viewerVars, WatchdogTypeOK, StateTyped, Watched
  <2> QED
    BY <2>1, AgentTypes, FullAndGoneTypes, TickTypes, HealTypes, ViewerTypes
    DEF WatchdogNext, WatchdogTypeOK
<1> QED
  BY <1>1, OwedTyped DEF WatchdogTypeOK

-----------------------------------------------------------------------------
(* The page and the status *)

LEMMA StatusInit == WatchdogInit => NobodyHasMail /\ LatestIsCurrent
<1> SUFFICES ASSUME WatchdogInit PROVE NobodyHasMail /\ LatestIsCurrent
  OBVIOUS
<1>1. viewer = "out" /\ inbox = <<>>
  BY DEF WatchdogInit
<1> QED
  BY <1>1 DEF NobodyHasMail, LatestIsCurrent

\* A step that neither side of the comparison sees.
LEMMA OutOfSight ==
    ASSUME NobodyHasMail, LatestIsCurrent, UNCHANGED viewerVars, healing'.status = healing.status,
           watch.at = "tell" => watch'.at = "tell"
    PROVE  NobodyHasMail' /\ LatestIsCurrent'
BY DEF NobodyHasMail, LatestIsCurrent, Latest, viewerVars

LEMMA AgentStatus ==
    ASSUME StatusInv,
           \/ Connect \/ Publish \/ Dropped \/ Break \/ Disconnect \/ Tick
           \/ \E h \in {"well", "mute", "blind"} : ChangeHealth(h) \/ ComeUp(h)
    PROVE  NobodyHasMail' /\ LatestIsCurrent'
<1>1. UNCHANGED viewerVars
  BY DEF Connect, Publish, Dropped, Break, Disconnect, Tick, ChangeHealth, ComeUp
<1>2. healing'.status = healing.status
  BY DEF Connect, Publish, Dropped, Break, Disconnect, Tick, ChangeHealth, ComeUp,
         StatusInv, WatchdogTypeOK, StateTyped
<1>3. watch.at = "tell" => watch'.at = "tell"
  BY DEF Connect, Publish, Dropped, Break, Lose, Disconnect, Tick, ChangeHealth, ComeUp,
         StatusInv, WatchdogTypeOK, StateTyped
<1> QED
  BY <1>1, <1>2, <1>3, OutOfSight DEF StatusInv

\* Who is told of the room by another than the watchdog is excused, and who is
\* left behind in a destroyed Room is not asked.
LEMMA RoomStatus ==
    ASSUME StatusInv, TellFull \/ Destroy \/ EndExpired
    PROVE  NobodyHasMail' /\ LatestIsCurrent'
<1>1. CASE TellFull
  BY <1>1 DEF TellFull, Watched, NobodyHasMail, LatestIsCurrent
<1>2. CASE Destroy \/ EndExpired
  <2>1. astray' = (viewer # "out") /\ viewer' = viewer
    BY <1>2 DEF Destroy, EndExpired, RoomGoes
  <2>2. viewer = "out" => inbox' = inbox
    BY <1>2 DEF Destroy, EndExpired, Watched
  <2> QED
    BY <2>1, <2>2 DEF StatusInv, NobodyHasMail, LatestIsCurrent
<1> QED
  BY <1>1, <1>2

\* The watchdog changes the status only to tell it; what it tells is the last
\* thing in the viewer's queue, or a gap.
LEMMA HealStatus == ASSUME StatusInv, Heal PROVE NobodyHasMail' /\ LatestIsCurrent'
<1>1. CASE LookEmpty \/ Look \/ Kick \/ Restart
  <2>1. UNCHANGED <<healing, viewerVars>> /\ watch.at # "tell"
    BY <1>1 DEF LookEmpty, Look, Kick, Restart
  <2> QED
    BY <2>1, OutOfSight DEF StatusInv
<1>2. CASE Forget
  <2>1. /\ healing' = Forgotten /\ watch.at = "empty"
        /\ UNCHANGED <<viewer, astray, greeting, inbox, client>>
    BY <1>2 DEF Forget
  <2>2. ~excused' => ~excused /\ (~Watched \/ healing.status = "live")
    BY <1>2, Zenon DEF Forget
  <2> QED
    BY <2>1, <2>2, RestTyped DEF StatusInv, NobodyHasMail, LatestIsCurrent, Latest, Watched
<1>3. CASE Decide
  <2>1. /\ UNCHANGED viewerVars /\ watch.at = "seen" /\ healing'.status = Verdict
        /\ watch' = IF Changed(Verdict)
                    THEN [watch EXCEPT !.at = "tell", !.since = Mature, !.act = Remedy]
                    ELSE Treating(Remedy, watch.conn)
    BY <1>3 DEF Decide
  <2>2. CASE Changed(Verdict)
    <3>1. watch'.at = "tell"
      BY <2>1, <2>2 DEF StatusInv, WatchdogTypeOK, StateTyped
    <3> QED
      BY <2>1, <3>1 DEF StatusInv, NobodyHasMail, LatestIsCurrent, viewerVars
  <2>3. CASE ~Changed(Verdict)
    <3>1. healing'.status = healing.status /\ watch.at # "tell"
      BY <2>1, <2>3 DEF Changed
    <3> QED
      BY <2>1, <3>1, OutOfSight DEF StatusInv
  <2> QED
    BY <2>2, <2>3
<1>4. CASE Tell
  <2>1. UNCHANGED <<healing, viewer, astray, client>>
    BY <1>4 DEF Tell
  <2>2. CASE ~Watched
    <3>1. UNCHANGED inbox
      BY <1>4, <2>2, Zenon DEF Tell
    <3> QED
      BY <2>1, <2>2, <3>1 DEF StatusInv, NobodyHasMail, LatestIsCurrent, Watched
  <2>3. CASE Watched /\ Len(inbox) < StatusBuffer
    <3>1. inbox' = Append(inbox, healing.status)
      BY <1>4, <2>3, Zenon DEF Tell
    <3>2. healing.status \in Status /\ inbox \in Seq(News) /\ Len(inbox) \in Nat
      BY LenProperties DEF StatusInv, WatchdogTypeOK, StateTyped
    <3>3. inbox' # <<>> /\ inbox'[Len(inbox')] = healing.status
      BY <3>1, <3>2, AppendProperties
    <3> QED
      BY <2>1, <2>3, <3>3 DEF NobodyHasMail, LatestIsCurrent, Latest, Watched
  <2>4. CASE Watched /\ ~ (Len(inbox) < StatusBuffer)
    <3>1. excused'
      BY <1>4, <2>4, Zenon DEF Tell
    <3> QED
      BY <2>1, <2>4, <3>1 DEF NobodyHasMail, LatestIsCurrent, Watched
  <2> QED
    BY <2>2, <2>3, <2>4
<1> QED
  BY <1>1, <1>2, <1>3, <1>4 DEF Heal

\* The greeting passes what waits in the queue; the rest comes in order.
LEMMA ViewerStatus ==
    ASSUME StatusInv, Join \/ Greet \/ SendGreeting \/ Deliver \/ LeaveRoom
    PROVE  NobodyHasMail' /\ LatestIsCurrent'
<1>1. CASE Join \/ LeaveRoom
  <2>1. inbox' = <<>> /\ viewer' # "in"
    BY <1>1 DEF Join, LeaveRoom
  <2> QED
    BY <2>1 DEF NobodyHasMail, LatestIsCurrent
<1>2. CASE Greet
  <2>1. /\ viewer = "admitted" /\ viewer' = "greeting"
        /\ UNCHANGED <<healing, watch, astray, inbox, client, excused>>
    BY <1>2 DEF Greet
  <2> QED
    BY <2>1 DEF StatusInv, NobodyHasMail, LatestIsCurrent, Latest
<1>3. CASE SendGreeting
  <2>1. viewer' = "in" /\ viewer # "out" /\ UNCHANGED <<healing, watch, astray, inbox>>
    BY <1>3 DEF SendGreeting
  <2>2. ~excused' => ~excused /\ (~astray /\ inbox = <<>> => client' = greeting /\ healing.status = greeting)
    BY <1>3, Zenon DEF SendGreeting
  <2> QED
    BY <2>1, <2>2 DEF StatusInv, NobodyHasMail, LatestIsCurrent, Latest
<1>4. CASE Deliver
  <2>1. /\ client' = Head(inbox) /\ inbox' = Tail(inbox) /\ inbox # <<>> /\ viewer # "out"
        /\ UNCHANGED <<healing, watch, viewer, astray, excused>>
    BY <1>4 DEF Deliver
  <2>2. inbox \in Seq(News) /\ Len(inbox) \in Nat \ {0}
    BY <2>1, EmptySeq, LenProperties DEF StatusInv, WatchdogTypeOK, StateTyped
  <2>3. /\ inbox' \in Seq(News) /\ Len(inbox') = Len(inbox) - 1
        /\ \A i \in 1 .. Len(inbox') : inbox'[i] = inbox[i + 1]
        /\ Head(inbox) = inbox[1]
    BY <2>1, <2>2, HeadTailProperties
  <2>4. Latest' = Latest
    <3>1. CASE inbox' = <<>>
      <4>1. Len(inbox) = 1
        BY <2>2, <2>3, <3>1, EmptySeq
      <4> QED
        BY <2>1, <2>3, <3>1, <4>1 DEF Latest
    <3>2. CASE inbox' # <<>>
      <4>1. Len(inbox') \in Nat \ {0}
        BY <2>3, <3>2, EmptySeq
      <4>2. inbox'[Len(inbox')] = inbox[Len(inbox)]
        BY <2>2, <2>3, <4>1
      <4> QED
        BY <2>1, <3>2, <4>2 DEF Latest
    <3> QED
      BY <3>1, <3>2
  <2> QED
    BY <2>1, <2>4 DEF StatusInv, NobodyHasMail, LatestIsCurrent
<1> QED
  BY <1>1, <1>2, <1>3, <1>4

LEMMA StatusStep == StatusInv /\ [WatchdogNext]_watchdogVars => StatusInv'
<1> SUFFICES ASSUME StatusInv, [WatchdogNext]_watchdogVars PROVE StatusInv'
  OBVIOUS
<1>1. WatchdogTypeOK'
  BY TypesStep DEF StatusInv
<1>2. NobodyHasMail' /\ LatestIsCurrent'
  <2>1. CASE UNCHANGED watchdogVars
    BY <2>1, OutOfSight DEF watchdogVars, StatusInv
  <2> QED
    BY <2>1, AgentStatus, RoomStatus, HealStatus, ViewerStatus DEF WatchdogNext
<1> QED
  BY <1>1, <1>2 DEF StatusInv

\* The types of the state, whatever the intervals are.
THEOREM WatchdogTypes == WatchdogSpec => []WatchdogTypeOK
BY TypesInit, TypesStep, PTL DEF WatchdogSpec

THEOREM StatusInvariance == WatchdogSpec => []StatusInv
<1>1. WatchdogInit => StatusInv
  BY TypesInit, StatusInit DEF StatusInv
<1> QED
  BY <1>1, StatusStep, PTL DEF WatchdogSpec

\* When the watchdog rests and nothing waits for the viewer, its page shows the
\* status that the gateway holds, unless it has lost one in a way that is known
\* (watchdog.go:48-129, gateway.go:535-600).
THEOREM StatusReachesPage == WatchdogSpec => []PageIsCurrent
<1>1. StatusInv => PageIsCurrent
  BY DEF StatusInv, LatestIsCurrent, Latest, PageIsCurrent, Settled
<1> QED
  BY <1>1, StatusInvariance, PTL

-----------------------------------------------------------------------------
(* The watchdog's next remedy *)

HeldIsOpen == agents = "held" => session
DownIsWell == down => health = "well"

\* A restart ordered in this pass reads as just now, any other as earlier; so
\* does the drop of this pass.
RestartedEarlier ==
    /\ watch.at \in {"due", "empty", "seen"} => healing.restarted > 0
    /\ watch.at \in {"tell", "act"} /\ watch.act = "kick" =>
           healing.kicked = 0 /\ healing.restarted > 0

\* An agent that is owed a restart is on its way back since the drop, or has
\* been back for all but MaxAway ticks of the time since.
OnItsWay ==
    /\ agents # "left"
    /\ ~session => healing.kicked <= away
    /\ session /\ agents = "nil" => healing.kicked = 0
    /\ agents = "held" => since = Mature \/ healing.kicked <= MaxAway + since
    /\ health = "mute" => silent = Stale \/ healing.kicked <= silent

\* It is told to restart before the drop has cooled down, in the pass that
\* finds it ill at the end of the cooldown if in none before.
Timely ==
    /\ healing.kicked < healing.restarted
    /\ healing.kicked <= KickCooldown
    /\ watch.at \notin {"due", "seen"} => healing.kicked < KickCooldown

\* Where the pass that will tell it stands.
PassGoesOn ==
    /\ watch.at # "empty"
    /\ watch.at \in {"tell", "act"} => watch.act # "restart"
    /\ watch.at = "seen" =>
           IF watch.conn = "nil" THEN healing.kicked < KickCooldown
           ELSE watch.conn = "held" /\ agents = "held" /\ watch.since = since

OwedInv == owed => Ailing /\ OnItsWay /\ Timely /\ PassGoesOn
EscalationInv ==
    WatchdogTypeOK /\ HeldIsOpen /\ DownIsWell /\ RestartedEarlier /\ OwedInv

\* A drop, a cooldown and a connection that is found out; what each age says.
LEMMA Intervals ==
    ASSUME StateTyped
    PROVE  /\ KickCooldown \in Nat \ {0} /\ Cooled = KickCooldown + 1 /\ MaxAway \in Nat
           /\ StallAfter \in Nat /\ NoVideoAfter \in Nat
           /\ Mature \in Nat \ {0} /\ StallAfter < Mature /\ Mature = NoVideoAfter + 1
           /\ Stale = StallAfter + 1 /\ Stale <= Mature /\ MaxAway + Mature <= KickCooldown
           /\ healing.kicked \in 0 .. Cooled /\ healing.restarted \in 0 .. Cooled
           /\ since \in 0 .. Mature /\ silent \in 0 .. Stale /\ away \in 0 .. MaxAway
BY WatchdogAssumption DEF StateTyped, Cooled, Mature, Stale

LEMMA EscalationInit == WatchdogInit => HeldIsOpen /\ DownIsWell /\ RestartedEarlier /\ OwedInv
BY DEF WatchdogInit, HeldIsOpen, DownIsWell, RestartedEarlier, OwedInv, AtRest

\* Steps that leave what the invariant speaks of as it is, or end what is owed.
LEMMA OthersKeepEscalation ==
    ASSUME EscalationInv,
           \/ Break \/ LeaveRoom \/ TellFull \/ Destroy \/ EndExpired \/ Join \/ Greet \/ SendGreeting \/ Deliver
           \/ \E h \in {"well", "mute", "blind"} : ChangeHealth(h) \/ ComeUp(h)
           \/ UNCHANGED watchdogVars
    PROVE  HeldIsOpen' /\ DownIsWell' /\ RestartedEarlier' /\ OwedInv'
<1> USE DEF EscalationInv, HeldIsOpen, DownIsWell, RestartedEarlier, OwedInv
<1>1. CASE Break
  BY <1>1 DEF Break, Lose, Lost, WatchdogTypeOK, StateTyped
<1>2. CASE LeaveRoom
  BY <1>2 DEF LeaveRoom, agentVars, streamVars
<1>3. CASE RoomGoes
  BY <1>3 DEF RoomGoes, agentVars
<1>4. CASE Join
  BY <1>4 DEF Join, Ailing, Watched, agentVars, streamVars
<1>5. CASE Greet \/ SendGreeting \/ Deliver \/ TellFull
  <2>1. /\ UNCHANGED <<owed, agentVars, streamVars, healing, watch>>
        /\ Watched => Watched'
    BY <1>5 DEF Greet, SendGreeting, Deliver, TellFull, Watched
  <2> QED
    BY <2>1 DEF Ailing, OnItsWay, Timely, PassGoesOn, agentVars, streamVars
<1>6. ASSUME NEW h \in {"well", "mute", "blind"}, ChangeHealth(h)
      PROVE  HeldIsOpen' /\ DownIsWell' /\ RestartedEarlier' /\ OwedInv'
  BY <1>6 DEF ChangeHealth, streamVars
<1>7. ASSUME NEW h \in {"well", "mute", "blind"}, ComeUp(h)
      PROVE  HeldIsOpen' /\ DownIsWell' /\ RestartedEarlier' /\ OwedInv'
  BY <1>7 DEF ComeUp, Ailing, streamVars
<1>8. CASE UNCHANGED watchdogVars
  BY <1>8 DEF watchdogVars, agentVars, streamVars, viewerVars, Ailing, Watched, OnItsWay,
              Timely, PassGoesOn
<1> QED
  BY <1>1, <1>2, <1>3, <1>4, <1>5, <1>6, <1>7, <1>8 DEF Destroy, EndExpired

\* The agent comes and goes; it is back within MaxAway ticks of the drop.
LEMMA AgentKeepsEscalation ==
    ASSUME EscalationInv, Connect \/ Publish \/ Dropped \/ Disconnect
    PROVE  HeldIsOpen' /\ DownIsWell' /\ RestartedEarlier' /\ OwedInv'
<1> USE DEF EscalationInv, HeldIsOpen, DownIsWell, RestartedEarlier, OwedInv
<1>0. StateTyped
  BY DEF WatchdogTypeOK
<1>1. CASE Connect
  <2>1. /\ ~session /\ session' = TRUE /\ agents' = "held" /\ since' = 0 /\ hasVideo' = FALSE
        /\ silent' \in {silent, Stale} /\ UNCHANGED <<owed, health, down, healing, watch, viewer, astray>>
    BY <1>1 DEF Connect, viewerVars
  <2>2. owed => Ailing' /\ Timely' /\ PassGoesOn'
    BY <2>1 DEF Ailing, Watched, Timely, PassGoesOn
  <2>3. owed => OnItsWay'
    BY <1>0, <2>1, Intervals DEF OnItsWay
  <2> QED
    BY <2>1, <2>2, <2>3
<1>2. CASE Publish
  <2>1. /\ agents = "held" /\ health # "mute" /\ hasVideo' = (hasVideo \/ health = "well")
        /\ UNCHANGED <<owed, agentVars, agents, since, healing, watch, viewer, astray>>
    BY <1>2 DEF Publish, viewerVars
  <2>2. owed => Ailing'
    BY <2>1 DEF Ailing, Watched, agentVars
  <2>3. owed => OnItsWay' /\ Timely' /\ PassGoesOn'
    BY <2>1 DEF OnItsWay, Timely, PassGoesOn, agentVars
  <2> QED
    BY <2>1, <2>2, <2>3 DEF agentVars
<1>3. CASE Dropped
  <2>1. /\ agents # "held" /\ session /\ session' = FALSE /\ away' = 0 /\ agents' = Lost(agents)
        /\ watch' = [watch EXCEPT !.conn = Lost(@)]
        /\ UNCHANGED <<owed, health, down, since, silent, hasVideo, healing, viewer, astray>>
    BY <1>3 DEF Dropped, Lose, viewerVars
  <2>2. agents' = agents
    BY <2>1 DEF Lost
  <2>3. watch'.at = watch.at /\ watch'.act = watch.act /\ watch'.since = watch.since
        /\ watch'.conn = Lost(watch.conn)
    BY <1>0, <2>1 DEF StateTyped
  <2>4. owed => Ailing' /\ Timely'
    BY <2>1, <2>3 DEF Ailing, Watched, Timely
  <2>5. owed => OnItsWay'
    BY <1>0, <2>1, <2>2 DEF OnItsWay, StateTyped, Reference
  <2>6. owed => PassGoesOn'
    BY <2>1, <2>2, <2>3 DEF PassGoesOn, Lost
  <2> QED
    BY <2>1, <2>2, <2>3, <2>4, <2>5, <2>6
<1>4. CASE Disconnect
  BY <1>4 DEF Disconnect, OnItsWay, agentVars
<1> QED
  BY <1>1, <1>2, <1>3, <1>4

\* Between two looks every age grows by one, unless it has stopped growing.
LEMMA TickKeepsEscalation ==
    ASSUME EscalationInv, Tick
    PROVE  HeldIsOpen' /\ DownIsWell' /\ RestartedEarlier' /\ OwedInv'
<1> USE DEF EscalationInv, HeldIsOpen, DownIsWell, RestartedEarlier, OwedInv
<1>0. StateTyped
  BY DEF WatchdogTypeOK
<1>1. /\ watch.at = "idle" /\ AgentInTime /\ watch'.at = "due"
      /\ since' = Older(since, Mature) /\ silent' = Older(silent, Stale)
      /\ healing'.kicked = Older(healing.kicked, Cooled)
      /\ healing'.restarted = Older(healing.restarted, Cooled)
      /\ away' = IF ~session /\ ~down THEN away + 1 ELSE away
      /\ UNCHANGED <<owed, agents, hasVideo, session, health, down, viewer, astray>>
  BY <1>0 DEF Tick, StateTyped, viewerVars
<1>2. healing'.restarted > 0
  BY <1>0, <1>1, Intervals DEF Older
<1>3. owed => Ailing'
  BY <1>1 DEF Ailing, Watched
<1>4. owed => Timely'
  <2>1. owed => healing.kicked < KickCooldown /\ healing.kicked < healing.restarted
    BY <1>1 DEF Timely
  <2>2. owed => healing'.kicked = healing.kicked + 1
    BY <1>0, <1>1, <2>1, Intervals DEF Older
  <2>3. owed => healing'.kicked < healing'.restarted
    BY <1>0, <1>1, <2>1, <2>2, Intervals DEF Older
  <2> QED
    BY <1>0, <1>1, <2>1, <2>2, <2>3, Intervals DEF Timely
<1>5. owed => OnItsWay'
  <2>1. owed => OnItsWay /\ ~down /\ healing'.kicked = healing.kicked + 1
    BY <1>0, <1>1, Intervals DEF Older, Timely, Ailing
  <2>2. owed /\ ~session => healing'.kicked <= away'
    BY <1>0, <1>1, <2>1, Intervals DEF OnItsWay
  <2>3. session => agents = "held"
    BY <1>1 DEF AgentInTime
  <2>4. owed /\ agents = "held" => since' = Mature \/ healing'.kicked <= MaxAway + since'
    BY <1>0, <1>1, <2>1, Intervals DEF OnItsWay, Older
  <2>5. owed /\ health = "mute" => silent' = Stale \/ healing'.kicked <= silent'
    BY <1>0, <1>1, <2>1, Intervals DEF OnItsWay, Older
  <2> QED
    BY <1>1, <2>1, <2>2, <2>3, <2>4, <2>5 DEF OnItsWay
<1>6. owed => PassGoesOn'
  BY <1>1 DEF PassGoesOn
<1> QED
  BY <1>1, <1>2, <1>3, <1>4, <1>5, <1>6

\* What the watchdog does with an agent that is owed a restart: nothing before
\* it is found ill, and at the end of the cooldown it is.
LEMMA OwedIsNotDropped ==
    ASSUME EscalationInv, watch.at = "seen", owed
    PROVE  /\ Remedy # "kick"
           /\ Remedy # "restart" => healing.kicked < KickCooldown
           /\ Remembered.kicked = healing.kicked
           /\ Remedy # "restart" => Remembered.restarted = healing.restarted
<1>0. /\ StateTyped /\ Ailing /\ OnItsWay /\ Timely /\ PassGoesOn
  BY DEF EscalationInv, OwedInv, WatchdogTypeOK
<1>1. Recent
  BY <1>0 DEF Timely, Recent
<1>2. Remedy \in {"none", "restart"}
  BY <1>1 DEF Remedy
<1>3. Remembered.kicked = healing.kicked
      /\ (Remedy # "restart" => Remembered.restarted = healing.restarted)
  BY <1>1, <1>2 DEF Remembered
<1>4. CASE healing.kicked < KickCooldown
  BY <1>2, <1>3, <1>4
<1>5. CASE healing.kicked = KickCooldown
  <2>1. watch.conn = "held" /\ agents = "held" /\ watch.since = since
    BY <1>0, <1>5, Intervals DEF PassGoesOn
  <2>2. since = Mature
    BY <1>0, <1>5, <2>1, Intervals DEF OnItsWay
  <2>3. health = "mute" => silent > StallAfter
    BY <1>0, <1>5, Intervals DEF OnItsWay
  <2>4. watch.since > StallAfter /\ watch.since > NoVideoAfter
    BY <1>0, <2>1, <2>2, Intervals
  <2>5. Unhealthy
    BY <1>0, <2>1, <2>3, <2>4 DEF Unhealthy, Ailing
  <2>6. healing.restarted > KickCooldown
    BY <1>0, <1>5 DEF Timely
  <2>7. Remedy = "restart"
    BY <1>1, <2>5, <2>6 DEF Remedy
  <2> QED
    BY <1>3, <2>7
<1> QED
  BY <1>0, <1>4, <1>5, Intervals DEF Timely

LEMMA DecideKeepsEscalation ==
    ASSUME EscalationInv, Decide
    PROVE  HeldIsOpen' /\ DownIsWell' /\ RestartedEarlier' /\ OwedInv'
<1> USE DEF EscalationInv, HeldIsOpen, DownIsWell, RestartedEarlier, OwedInv
<1>0. StateTyped
  BY DEF WatchdogTypeOK
<1>1. /\ watch.at = "seen" /\ healing'.kicked = Remembered.kicked
      /\ healing'.restarted = Remembered.restarted
      /\ owed' = (owed /\ Remedy # "restart")
      /\ UNCHANGED <<agentVars, streamVars, viewerVars>>
  BY DEF Decide
<1>2. Remedy \in {"none", "kick", "restart"}
  BY <1>0, DecisionTyped
<1>3. /\ watch'.at \in {"idle", "tell", "act"}
      /\ watch'.at \in {"tell", "act"} => watch'.act = Remedy
  <2>1. CASE Changed(Verdict)
    BY <1>0, <2>1 DEF Decide, StateTyped
  <2>2. CASE ~Changed(Verdict)
    BY <1>2, <2>2 DEF Decide, Treating, AtRest
  <2> QED
    BY <2>1, <2>2
<1>4. Remedy = "kick" => Remembered.kicked = 0 /\ Remembered.restarted = healing.restarted
  BY DEF Remembered, Remedy
<1>5. owed' => Ailing' /\ OnItsWay' /\ Timely' /\ PassGoesOn'
  <2>1. owed' => owed /\ Remedy # "restart"
    BY <1>1
  <2>2. owed' => /\ Remedy = "none" /\ healing.kicked < KickCooldown
                 /\ healing'.kicked = healing.kicked /\ healing'.restarted = healing.restarted
    BY <1>1, <1>2, <2>1, OwedIsNotDropped
  <2> QED
    BY <1>0, <1>1, <1>3, <2>1, <2>2, Intervals
    DEF Ailing, Watched, OnItsWay, Timely, PassGoesOn, agentVars, streamVars, viewerVars
<1> QED
  BY <1>1, <1>3, <1>4, <1>5 DEF agentVars, streamVars

LEMMA HealKeepsEscalation ==
    ASSUME EscalationInv, Heal
    PROVE  HeldIsOpen' /\ DownIsWell' /\ RestartedEarlier' /\ OwedInv'
<1> USE DEF EscalationInv, HeldIsOpen, DownIsWell, RestartedEarlier, OwedInv
<1>0. StateTyped
  BY DEF WatchdogTypeOK
<1>1. CASE LookEmpty
  <2>1. ~owed
    BY <1>1 DEF LookEmpty, Ailing
  <2> QED
    BY <1>0, <1>1, <2>1 DEF LookEmpty, AtRest, agentVars, streamVars, StateTyped
<1>2. CASE Forget
  <2>1. ~owed
    BY <1>2 DEF Forget, PassGoesOn
  <2> QED
    BY <1>2, <2>1 DEF Forget, AtRest, agentVars, streamVars
<1>3. CASE Look
  <2>1. /\ watch.at = "due" /\ watch'.at = "seen" /\ watch'.conn = agents /\ watch'.since = since
        /\ UNCHANGED <<owed, agentVars, streamVars, healing, viewerVars>>
    BY <1>3 DEF Look
  <2>2. owed => Ailing' /\ OnItsWay' /\ Timely'
    BY <2>1 DEF Ailing, Watched, OnItsWay, Timely, agentVars, streamVars, viewerVars
  <2>3. owed /\ agents = "nil" => healing.kicked < KickCooldown
    BY <1>0, Intervals DEF OnItsWay
  <2>4. owed => agents \in {"nil", "held"}
    BY <1>0 DEF OnItsWay, StateTyped, Reference
  <2> QED
    BY <2>1, <2>2, <2>3, <2>4 DEF PassGoesOn, agentVars, streamVars
<1>4. CASE Decide
  BY <1>4, DecideKeepsEscalation
<1>5. CASE Tell
  <2>1. /\ watch.at = "tell" /\ watch' = Treating(watch.act, watch.conn)
        /\ UNCHANGED <<owed, agentVars, streamVars, healing, viewer, astray>>
    BY <1>5 DEF Tell
  <2>2. /\ watch'.at \in {"idle", "act"}
        /\ watch'.at = "act" => watch'.act = watch.act
    BY <1>0, <2>1 DEF Treating, AtRest, StateTyped
  <2> QED
    BY <2>1, <2>2 DEF Ailing, Watched, OnItsWay, Timely, PassGoesOn, agentVars, streamVars
<1>6. CASE Kick
  <2>1. /\ watch.at = "act" /\ watch.act = "kick" /\ watch'.at = "idle" /\ agents' = "nil"
        /\ owed' = Ailing /\ UNCHANGED <<agentVars, silent, hasVideo, healing, viewerVars>>
    BY <1>6 DEF Kick, AtRest
  <2>2. healing.kicked = 0 /\ healing.restarted > 0
    BY <2>1
  <2>3. owed' => Ailing'
    BY <2>1 DEF Ailing, Watched, agentVars, viewerVars
  <2>4. OnItsWay' /\ Timely' /\ PassGoesOn'
    BY <1>0, <2>1, <2>2, Intervals DEF OnItsWay, Timely, PassGoesOn, agentVars
  <2> QED
    BY <2>1, <2>3, <2>4 DEF agentVars
<1>7. CASE Restart
  <2>1. ~owed
    BY <1>7 DEF Restart, PassGoesOn
  <2> QED
    BY <1>7, <2>1 DEF Restart, Lost, AtRest
<1> QED
  BY <1>1, <1>2, <1>3, <1>4, <1>5, <1>6, <1>7 DEF Heal

\* The invariant behind the watchdog's two remedies, for any intervals in which
\* a dropped agent is back, and found out, within the cooldown.
THEOREM EscalationInvariance == WatchdogSpec => []EscalationInv
<1>1. WatchdogInit => EscalationInv
  BY TypesInit, EscalationInit DEF EscalationInv
<1>2. EscalationInv /\ [WatchdogNext]_watchdogVars => EscalationInv'
  <2> SUFFICES ASSUME EscalationInv, [WatchdogNext]_watchdogVars PROVE EscalationInv'
    OBVIOUS
  <2>1. WatchdogTypeOK'
    BY TypesStep DEF EscalationInv
  <2>2. HeldIsOpen' /\ DownIsWell' /\ RestartedEarlier' /\ OwedInv'
    BY OthersKeepEscalation, AgentKeepsEscalation, TickKeepsEscalation, HealKeepsEscalation
    DEF WatchdogNext
  <2> QED
    BY <2>1, <2>2 DEF EscalationInv
<1> QED
  BY <1>1, <1>2, PTL DEF WatchdogSpec

\* An agent that was dropped and has ailed ever since is not dropped again: it
\* is told to restart first (watchdog.go:60-129, README.md:378), for any
\* intervals that WatchdogAssumption allows, the code's among them.
THEOREM DropsAreFollowedUp == WatchdogSpec => DropIsFollowedUp
<1>1. EscalationInv => (Decide /\ Remedy = "kick" => ~owed)
  BY OwedIsNotDropped DEF Decide
<1> QED
  BY <1>1, EscalationInvariance, PTL DEF DropIsFollowedUp
=============================================================================
