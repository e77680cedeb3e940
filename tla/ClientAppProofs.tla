-------------------------- MODULE ClientAppProofs --------------------------
(***************************************************************************)
(* Safety of ClientApp for any addresses, lists of fallback addresses and  *)
(* bounds.                                                                 *)
(***************************************************************************)
EXTENDS ClientApp, TLAPS

\* The prover of a leaf that names none.
USE ZenonT(60)

-----------------------------------------------------------------------------
(* The queue *)

Ends == {"clientFailed", "clientDisconnected"}

\* Events have the type of the queue.
LEMMA EventType ==
    ASSUME NEW n \in SocketEvents \cup ClientEvents \cup {"suspend", "resume", "quit", "orphan"}
    PROVE  Event(n) \in Events
  BY DEF Event, Events

\* An event at the end of a queue is in it.
LEMMA HasLast ==
    ASSUME NEW q \in Seq(Events), NEW e \in Events, NEW names, e.name \in names
    PROVE  Has(q \o <<e>>, names)
  <1>1. Len(q) + 1 \in DOMAIN (q \o <<e>>) /\ (q \o <<e>>)[Len(q) + 1] = e
    BY SMTT(120)
  <1> QED BY <1>1 DEF Has

\* More events at the end take nothing away.
LEMMA HasMore ==
    ASSUME NEW q \in Seq(Events), NEW r \in Seq(Events), NEW names, Has(q, names)
    PROVE  Has(q \o r, names)
  <1> PICK i \in DOMAIN q : q[i].name \in names BY DEF Has
  <1>1. i \in DOMAIN (q \o r) /\ (q \o r)[i] = q[i] BY SMTT(120)
  <1> QED BY <1>1 DEF Has

\* What is not at the head of a queue stays when the head is taken.
LEMMA HasTail ==
    ASSUME NEW q \in Seq(Events), q # <<>>, NEW names, Has(q, names),
           Head(q).name \notin names
    PROVE  Has(Tail(q), names)
  <1> PICK i \in DOMAIN q : q[i].name \in names BY DEF Has
  <1>1. i # 1 BY SMTT(120)
  <1>2. i - 1 \in DOMAIN Tail(q) /\ Tail(q)[i - 1] = q[i] BY SMTT(120), <1>1
  <1> QED BY <1>2 DEF Has

\* The queue of a deleted stream.
LEMMA OrphanedType ==
    ASSUME NEW q \in Seq(Events)
    PROVE  Orphaned(q) \in Seq(Events)
  <1>1. DOMAIN q = 1..Len(q) /\ Len(q) \in Nat BY SMTT(120)
  <1>2. \A i \in DOMAIN q : q[i] \in Events BY SMTT(120)
  <1>3. Event("orphan") \in Events BY EventType
  <1> DEFINE f(i) == IF q[i].name \in SocketEvents THEN Event("orphan") ELSE q[i]
  <1>4. \A i \in 1..Len(q) : f(i) \in Events BY <1>1, <1>2, <1>3
  <1> HIDE DEF f
  <1>5. [i \in 1..Len(q) |-> f(i)] \in Seq(Events) BY SMTT(120), <1>1, <1>4
  <1> QED BY <1>1, <1>5 DEF Orphaned, f

-----------------------------------------------------------------------------
(* The operators on the members of Client and ClientApp *)

\* m_usingFallback says whether the address is a fallback.
Settled(a) == a.m_usingFallback <=> a.m_serverAddress # Primary

\* An attempt has its timer, and only a handshake makes a client ready.
Sound(c) ==
    /\ c.m_timer <=> c.stream \in {"connecting", "hello"}
    /\ c.m_ready => c.stream = "server"

LEMMA CleanupFacts ==
    ASSUME NEW c \in Client
    PROVE  /\ Cleanup(c) \in Client /\ Disconnect(c) \in Client
           /\ Cleanup(c).stream = "none" /\ Disconnect(c).stream = "none"
           /\ Sound(Cleanup(c)) /\ Sound(Disconnect(c))
           /\ Cleanup(c).m_suspended = c.m_suspended
           /\ Disconnect(c).m_suspended = c.m_suspended
  BY DEF Client, Cleanup, Disconnect, Sound

LEMMA RestartFacts ==
    ASSUME NEW a \in App, Settled(a)
    PROVE  LET b == ScheduleClientRestart(a) IN
           /\ b \in App /\ Settled(b) /\ b.restarts > 0 /\ b.screen = a.screen
           /\ b.m_serverAddress = a.m_serverAddress
  BY SMTT(120) DEF App, Settled, ScheduleClientRestart

LEMMA ResetFacts ==
    ASSUME NEW a \in App, Settled(a)
    PROVE  LET b == ResetToPrimaryAddress(a) IN
           b \in App /\ Settled(b) /\ b.screen = a.screen /\ b.restarts = a.restarts
  BY PrimaryAssumption DEF App, Settled, ResetToPrimaryAddress

LEMMA SelectFacts ==
    ASSUME NEW a \in App, Settled(a)
    PROVE  LET b == SelectNextAddress(a) IN
           b \in App /\ Settled(b) /\ b.screen = a.screen
  <1> DEFINE next == IF a.m_usingFallback THEN a.m_currentFallbackIndex + 1 ELSE 1
  <1>1. CASE a.m_fallbacks = <<>> BY <1>1 DEF SelectNextAddress
  <1>2. CASE a.m_fallbacks # <<>> /\ next <= Len(a.m_fallbacks)
    <2>1. next \in Nat /\ next >= 1 BY SMTT(120) DEF App
    <2>2. a.m_fallbacks[next] \in Addrs \ {Primary} BY SMTT(120), <1>2, <2>1 DEF App
    <2>3. SelectNextAddress(a) =
             [a EXCEPT !.m_usingFallback = TRUE, !.m_currentFallbackIndex = next,
                       !.m_serverAddress = a.m_fallbacks[next]]
      BY <1>2 DEF SelectNextAddress
    <2> HIDE DEF next
    <2> QED BY <2>1, <2>2, <2>3 DEF App, Settled
  <1>3. CASE a.m_fallbacks # <<>> /\ ~(next <= Len(a.m_fallbacks))
    <2>1. SelectNextAddress(a) = ResetToPrimaryAddress(a) BY <1>3 DEF SelectNextAddress
    <2> QED BY <2>1, ResetFacts
  <1> QED BY <1>1, <1>2, <1>3

LEMMA AfterEndFacts ==
    ASSUME NEW a \in App, Settled(a)
    PROVE  LET b == AfterEnd(a) IN
           b \in App /\ Settled(b) /\ b.restarts > 0 /\ b.screen = a.screen
  <1>1. CASE a.m_failbackInProgress
    <2> DEFINE d == [a EXCEPT !.m_failbackInProgress = FALSE]
    <2>1. d \in App /\ Settled(d) /\ d.screen = a.screen BY DEF App, Settled
    <2>2. AfterEnd(a) = ScheduleClientRestart(d) BY <1>1 DEF AfterEnd
    <2> HIDE DEF d
    <2> QED BY <2>1, <2>2, RestartFacts
  <1>2. CASE ~a.m_failbackInProgress
    <2>1. AfterEnd(a) = ScheduleClientRestart(SelectNextAddress(a)) BY <1>2 DEF AfterEnd
    <2> QED BY SMTT(120), <2>1, SelectFacts, RestartFacts
  <1> QED BY <1>1, <1>2

NetStates == {"opening", "open", "said", "ready", "listed", "closed"}

\* A connect is put off, ends in an event, or leaves a stream, the old one or a
\* new one to the address of the Client.
LEMMA ConnectFacts ==
    ASSUME NEW c \in Client, Sound(c), net \in NetStates, NEW r \in ConnectOutcomes(c)
    PROVE  /\ r.client \in Client /\ Sound(r.client) /\ r.net \in NetStates
           /\ r.client.m_suspended = c.m_suspended
           /\ r.client.m_ready = c.m_ready
           /\ \/ /\ c.stream # "none" /\ r.client = c /\ r.events = <<>>
              \/ /\ c.stream = "none" /\ c.m_suspended /\ r.events = <<>>
                 /\ r.client.stream = "none" /\ r.client.m_connectOnResume
              \/ /\ c.stream = "none" /\ r.client.stream # "none" /\ r.events = <<>>
                 /\ r.client.via = c.m_serverAddress
              \/ /\ r.client = c /\ c.stream = "none" /\ r.events = <<Event("clientFailed")>>
  <1>1. CASE c.stream # "none"
    BY SMTT(120), <1>1 DEF ConnectOutcomes
  <1>2. CASE c.stream = "none" /\ c.m_suspended
    <2>1. r = [client |-> [c EXCEPT !.m_connectOnResume = TRUE], events |-> <<>>, net |-> net]
      BY <1>2 DEF ConnectOutcomes
    <2> QED BY <1>2, <2>1 DEF Client, Sound
  <1>3. CASE c.stream = "none" /\ ~c.m_suspended
    <2>1. \/ r = [client |-> Opened(c), events |-> <<>>, net |-> "opening"]
          \/ r = [client |-> c, events |-> <<Event("clientFailed")>>, net |-> net]
      BY <1>3 DEF ConnectOutcomes
    <2>2. CASE r = [client |-> Opened(c), events |-> <<>>, net |-> "opening"]
      BY <1>3, <2>2 DEF Client, Sound, Opened, NetStates
    <2>3. CASE r = [client |-> c, events |-> <<Event("clientFailed")>>, net |-> net]
      BY <1>3, <2>3
    <2> QED BY <2>1, <2>2, <2>3
  <1> QED BY <1>1, <1>2, <1>3 DEF Client

-----------------------------------------------------------------------------
(* The inductive invariant *)

\* With no screen there has been no client.
ScreenFirst ==
    ~app.screen => client.stream = "none" /\ ~client.m_suspended /\ queue = <<>>

\* The stream goes to where ClientApp thinks.
Aimed == client.stream # "none" /\ ~stale => client.via = app.m_serverAddress

IInv ==
    /\ TypeOK
    /\ Sound(client)
    /\ Settled(app)
    /\ ScreenFirst
    /\ Aimed
    /\ NotForgotten
    /\ ProbeArmed

\* The invariant gives the properties.
LEMMA IInvAttemptTimed == IInv => AttemptTimed
  BY DEF IInv, Sound, AttemptTimed

LEMMA IInvAddressAgrees == IInv => AddressAgrees
  BY DEF IInv, Sound, Settled, Aimed, AddressAgrees

\* Served yields bounds.
LEMMA ServedType ==
    ASSUME budget \in Budget, NEW b \in Served
    PROVE  b \in Budget
  BY SMTT(120) DEF Served, Budget

\* The end of a stream, whatever ends it, with the event that tells so.
LEMMA Ended ==
    ASSUME IInv, app.screen,
           NEW q \in Seq(Events), NEW n \in Ends,
           client' \in Client, client'.stream = "none", Sound(client'),
           queue' = Orphaned(q) \o <<Event(n)>>,
           budget' \in Budget,
           UNCHANGED <<restartable, app, net, up, running, refused, stale>>
    PROVE  IInv'
  <1>1. Event(n) \in Events BY EventType DEF Ends, ClientEvents
  <1>2. Orphaned(q) \in Seq(Events) BY OrphanedType
  <1>3. queue' \in Seq(Events) BY SMTT(120), <1>1, <1>2
  <1>4. Event(n).name \in Ends BY DEF Event
  <1>5. Has(queue', Ends) BY <1>1, <1>2, <1>4, HasLast
  <1>6. TypeOK' BY <1>3 DEF IInv, TypeOK
  <1>7. NotForgotten' BY <1>5 DEF NotForgotten, Queued, Ends
  <1>8. ~client'.m_ready BY DEF Sound
  <1>9. ProbeArmed' BY <1>8 DEF ProbeArmed
  <1>10. Sound(client)' BY DEF Sound
  <1>11. Settled(app)' BY DEF IInv, Settled
  <1>12. ScreenFirst' /\ Aimed' BY DEF ScreenFirst, Aimed
  <1> QED BY <1>6, <1>7, <1>9, <1>10, <1>11, <1>12 DEF IInv

\* Where a queue is not empty there is a screen.
LEMMA ScreenForEvent ==
    ASSUME IInv, queue # <<>> \/ client.stream # "none"
    PROVE  app.screen
  BY DEF IInv, ScreenFirst

LEMMA EndOnStep ==
    ASSUME IInv, NEW e, NEW n \in Ends,
           EndOn(e, Cleanup(client), n) \/ EndOn(e, Disconnect(client), n)
    PROVE  IInv'
  <1>1. queue # <<>> BY DEF EndOn, Receives, Takes
  <1>2. client \in Client /\ queue \in Seq(Events) /\ budget \in Budget BY DEF IInv, TypeOK
  <1>3. Tail(queue) \in Seq(Events) BY SMTT(120), <1>1, <1>2
  <1>4. app.screen BY <1>1, ScreenForEvent
  <1>5. client' \in Client /\ client'.stream = "none" /\ Sound(client')
    BY <1>2, CleanupFacts DEF EndOn
  <1>6. /\ queue' = Orphaned(Tail(queue)) \o <<Event(n)>>
        /\ budget' \in Budget
        /\ UNCHANGED <<restartable, app, net, up, running, refused, stale>>
    BY <1>2 DEF EndOn, appSide
  <1> QED BY <1>3, <1>4, <1>5, <1>6, Ended

LEMMA TimerEndStep ==
    ASSUME IInv, ConnectTimeout \/ KeepAliveAlarm
    PROVE  IInv'
  <1>1. client \in Client /\ queue \in Seq(Events) /\ budget \in Budget BY DEF IInv, TypeOK
  <1>2. client.stream # "none" BY DEF IInv, Sound, ConnectTimeout, KeepAliveAlarm
  <1>3. app.screen BY <1>2, ScreenForEvent
  <1>4. client' \in Client /\ client'.stream = "none" /\ Sound(client')
    BY <1>1, CleanupFacts DEF ConnectTimeout, KeepAliveAlarm
  <1>5. budget' \in Budget
    <2>1. Silence BY DEF ConnectTimeout, KeepAliveAlarm
    <2>2. PICK b \in Served : \/ budget' = b
                              \/ b.odd > 0 /\ budget' = [b EXCEPT !.odd = @ - 1]
      BY <2>1 DEF Silence
    <2>3. b \in Budget BY <1>1, ServedType
    <2> QED BY SMTT(120), <2>2, <2>3 DEF Budget
  <1>6. /\ queue' = Orphaned(queue) \o <<Event("clientFailed")>>
        /\ UNCHANGED <<restartable, app, net, up, running, refused, stale>>
    BY DEF ConnectTimeout, KeepAliveAlarm
  <1> QED BY <1>1, <1>3, <1>4, <1>5, <1>6, Ended DEF Ends

LEMMA SuspendStep ==
    ASSUME IInv, HandleSuspend
    PROVE  IInv'
  <1>1. queue # <<>> BY DEF HandleSuspend, Takes
  <1>2. client \in Client /\ queue \in Seq(Events) /\ budget \in Budget BY DEF IInv, TypeOK
  <1>3. Tail(queue) \in Seq(Events) BY SMTT(120), <1>1, <1>2
  <1>4. app.screen BY <1>1, ScreenForEvent
  <1>5. client' \in Client /\ client'.stream = "none" /\ Sound(client')
    <2> DEFINE d == Disconnect(client)
    <2>1. d \in Client /\ d.stream = "none" /\ Sound(d) BY <1>2, CleanupFacts
    <2>2. client' = [d EXCEPT !.m_suspended = TRUE,
                              !.m_connectOnResume = (client.stream = "server")]
      BY DEF HandleSuspend
    <2> HIDE DEF d
    <2> QED BY <2>1, <2>2 DEF Client, Sound
  <1>6. /\ queue' = Orphaned(Tail(queue)) \o <<Event("clientDisconnected")>>
        /\ budget' \in Budget
        /\ UNCHANGED <<restartable, app, net, up, running, refused, stale>>
    BY <1>2 DEF HandleSuspend, appSide
  <1> QED BY <1>3, <1>4, <1>5, <1>6, Ended DEF Ends

\* A step that takes an event, and may add others, and leaves the stream where it
\* was: what the invariant says of the queue has to be shown of the step.
LEMMA Taken ==
    ASSUME IInv, queue # <<>>, NEW r \in Seq(Events),
           queue' = Tail(queue) \o r,
           client' \in Client, Sound(client'),
           client'.stream # "none" <=> client.stream # "none",
           client'.via = client.via,
           client'.m_suspended = client.m_suspended,
           client'.m_connectOnResume = client.m_connectOnResume,
           client'.m_ready => client.m_ready \/ Has(r, {"clientConnected"}),
           Head(queue).name \notin Ends \cup {"clientConnected"},
           app' \in App, Settled(app'), app'.screen = app.screen,
           app'.restarts = app.restarts, app'.probe = app.probe,
           app'.m_serverAddress = app.m_serverAddress,
           UNCHANGED <<restartable, net, up, running, refused, stale, budget>>
    PROVE  IInv'
  <1>1. queue \in Seq(Events) /\ Tail(queue) \in Seq(Events) BY SMTT(120) DEF IInv, TypeOK
  <1>2. queue' \in Seq(Events) BY SMTT(120), <1>1
  <1>3. TypeOK' BY <1>2 DEF IInv, TypeOK
  <1>4. ASSUME NEW names, Has(queue, names), Head(queue).name \notin names
        PROVE  Has(queue', names)
    BY <1>1, <1>4, HasTail, HasMore
  <1>5. NotForgotten'
    <2>1. Has(queue, Ends) => Has(queue', Ends) BY <1>4
    <2> QED BY <2>1 DEF IInv, NotForgotten, Queued, Ends
  <1>6. ProbeArmed'
    <2>1. Has(queue, {"clientConnected"}) => Has(queue', {"clientConnected"}) BY <1>4
    <2>2. Has(r, {"clientConnected"}) => Has(queue', {"clientConnected"})
      <3> SUFFICES ASSUME Has(r, {"clientConnected"}) PROVE Has(queue', {"clientConnected"})
        OBVIOUS
      <3>1. PICK i \in DOMAIN r : r[i].name \in {"clientConnected"} BY DEF Has
      <3>2. /\ Len(Tail(queue)) + i \in DOMAIN queue'
            /\ queue'[Len(Tail(queue)) + i] = r[i]
        BY SMTT(120), <1>1
      <3> QED BY <3>1, <3>2 DEF Has
    <2> QED BY <2>1, <2>2 DEF IInv, ProbeArmed, Queued
  <1>7. ScreenFirst' /\ Aimed' BY DEF IInv, ScreenFirst, Aimed
  <1>8. Sound(client)' /\ Settled(app)' BY DEF Sound, Settled
  <1> QED BY <1>3, <1>5, <1>6, <1>7, <1>8 DEF IInv

\* The events of the socket that do not end it.
LEMMA SocketStep ==
    ASSUME IInv, HandleConnected \/ HandleHello \/ HandleOptions \/ HandleAddresses \/ DropEvent
    PROVE  IInv'
  <1>1. queue # <<>>
    BY DEF HandleConnected, HandleHello, HandleOptions, HandleAddresses, DropEvent, Receives, Takes
  <1>2. Head(queue).name \notin Ends \cup {"clientConnected"}
    BY DEF HandleConnected, HandleHello, HandleOptions, HandleAddresses, DropEvent, Receives,
           Takes, Ends, SocketEvents
  <1>3. /\ client \in Client /\ app \in App /\ Sound(client) /\ Settled(app)
        /\ queue \in Seq(Events)
    BY DEF IInv, TypeOK
  <1>4. /\ UNCHANGED <<restartable, net, up, running, refused, stale, budget>>
        /\ app' = app /\ app' \in App /\ Settled(app')
        /\ app'.screen = app.screen /\ app'.restarts = app.restarts
        /\ app'.probe = app.probe /\ app'.m_serverAddress = app.m_serverAddress
    <2>1. UNCHANGED <<restartable, app, net, up, running, refused, stale, budget>>
      BY DEF HandleConnected, HandleHello, HandleOptions, HandleAddresses, DropEvent, appSide
    <2> QED BY <1>3, <2>1 DEF Settled
  <1>5. /\ client' \in Client /\ Sound(client')
        /\ client'.stream # "none" <=> client.stream # "none"
        /\ client'.via = client.via
        /\ client'.m_suspended = client.m_suspended
        /\ client'.m_connectOnResume = client.m_connectOnResume
        /\ client'.m_ready => client.m_ready \/ HandleOptions
    BY <1>3 DEF HandleConnected, HandleHello, HandleOptions, HandleAddresses, DropEvent,
                Receives, Stages, Client, Sound
  <1>6. CASE HandleConnected \/ HandleHello \/ DropEvent
    <2>1. queue' = Tail(queue) \o <<>> /\ (client'.m_ready => client.m_ready)
      BY <1>3, <1>6 DEF HandleConnected, HandleHello, DropEvent, Then, Client
    <2>2. <<>> \in Seq(Events) BY SMTT(120)
    <2> QED BY <1>1, <1>2, <1>3, <1>4, <1>5, <2>1, <2>2, Taken
  <1>7. CASE HandleOptions
    <2>1. queue' = Tail(queue) \o <<Event("clientConnected")>>
      BY <1>7 DEF HandleOptions, Then
    <2>2. Event("clientConnected") \in Events BY EventType DEF ClientEvents
    <2>3. Has(<<Event("clientConnected")>>, {"clientConnected"}) BY SMTT(120) DEF Has, Event
    <2>4. <<Event("clientConnected")>> \in Seq(Events) BY SMTT(120), <2>2
    <2> QED BY <1>1, <1>2, <1>3, <1>4, <1>5, <2>1, <2>3, <2>4, Taken
  <1>8. CASE HandleAddresses
    <2> DEFINE e == [Head(queue) EXCEPT !.name = "clientAddresses"]
    <2>1. queue' = Tail(queue) \o <<e>> /\ client' = client
      BY <1>8 DEF HandleAddresses, Then
    <2>2. Head(queue) \in Events BY SMTT(120), <1>1, <1>3
    <2>3. e \in Events BY <2>2 DEF Events, ClientEvents
    <2> HIDE DEF e
    <2>4. <<e>> \in Seq(Events) BY SMTT(120), <2>3
    <2> QED BY <1>1, <1>2, <1>3, <1>4, <1>5, <2>1, <2>4, Taken
  <1> QED BY <1>6, <1>7, <1>8

LEMMA AddressesStep ==
    ASSUME IInv, HandleServerAddresses
    PROVE  IInv'
  <1> DEFINE new == NewFallbacks(Head(queue).list)
  <1>1. queue # <<>> /\ Head(queue).name = "clientAddresses"
    BY DEF HandleServerAddresses, Takes
  <1>2. /\ client \in Client /\ app \in App /\ Sound(client) /\ Settled(app)
        /\ queue \in Seq(Events)
    BY DEF IInv, TypeOK
  <1>3. new \in Seq(Addrs \ {Primary})
    <2>1. Head(queue) \in Events BY SMTT(120), <1>1, <1>2
    <2>2. Head(queue).list \in Advertised \cup {<<>>} BY <2>1 DEF Events
    <2> QED BY <2>2, FallbacksAssumption
  <1>4. app' = [app EXCEPT !.m_fallbacks = IF new = <<>> THEN @ ELSE new]
    BY DEF HandleServerAddresses
  <1> HIDE DEF new
  <1>5. /\ app' \in App /\ Settled(app')
        /\ app'.screen = app.screen /\ app'.restarts = app.restarts
        /\ app'.probe = app.probe /\ app'.m_serverAddress = app.m_serverAddress
    BY <1>2, <1>3, <1>4 DEF App, Settled
  <1>6. /\ queue' = Tail(queue) \o <<>> /\ client' = client
        /\ UNCHANGED <<restartable, net, up, running, refused, stale, budget>>
    BY DEF HandleServerAddresses, Then
  <1>7. client' \in Client /\ Sound(client') BY <1>2, <1>6
  <1>8. <<>> \in Seq(Events) BY SMTT(120)
  <1>9. Head(queue).name \notin Ends \cup {"clientConnected"} BY <1>1 DEF Ends
  <1> QED BY <1>1, <1>2, <1>5, <1>6, <1>7, <1>8, <1>9, Taken

LEMMA QuitStep ==
    ASSUME IInv, HandleQuit
    PROVE  IInv'
  <1>1. queue # <<>> /\ queue \in Seq(Events) BY DEF HandleQuit, Takes, IInv, TypeOK
  <1>2. /\ queue' = Tail(queue) \o <<>> /\ ~running' /\ running' \in BOOLEAN
        /\ UNCHANGED <<restartable, client, app, net, up, refused, stale, budget>>
    BY DEF HandleQuit, Then
  <1>3. queue' \in Seq(Events) BY SMTT(120), <1>1, <1>2
  <1>4. TypeOK' BY <1>2, <1>3 DEF IInv, TypeOK
  <1>5. NotForgotten' /\ ProbeArmed' BY <1>2 DEF NotForgotten, ProbeArmed
  <1>6. app.screen BY <1>1, ScreenForEvent
  <1>7. ScreenFirst' /\ Aimed' BY <1>2, <1>6 DEF IInv, ScreenFirst, Aimed
  <1>8. Sound(client)' /\ Settled(app)' BY <1>2 DEF IInv, Sound, Settled
  <1> QED BY <1>4, <1>5, <1>7, <1>8 DEF IInv

\* The probe is armed when the event that stood for it is taken.
LEMMA ClientConnectedStep ==
    ASSUME IInv, HandleClientConnected
    PROVE  IInv'
  <1>1. queue # <<>> /\ Head(queue).name = "clientConnected" /\ queue \in Seq(Events)
    BY DEF HandleClientConnected, Takes, IInv, TypeOK
  <1>2. /\ queue' = Tail(queue) \o <<>>
        /\ UNCHANGED <<restartable, client, net, up, running, refused, stale, budget>>
    BY DEF HandleClientConnected, Then
  <1>3. queue' \in Seq(Events) BY SMTT(120), <1>1, <1>2
  <1>4. app \in App /\ Settled(app) BY DEF IInv, TypeOK
  <1>5. /\ app' \in App /\ Settled(app') /\ app'.screen = app.screen
        /\ app'.restarts = app.restarts /\ app'.m_serverAddress = app.m_serverAddress
        /\ app.m_usingFallback => app'.probe
    BY <1>4 DEF HandleClientConnected, ScheduleFailbackProbe, App, Settled
  <1>6. TypeOK' BY <1>2, <1>3, <1>5 DEF IInv, TypeOK
  <1>7. NotForgotten'
    <2>1. Has(queue, Ends) => Has(queue', Ends)
      <3>1. Tail(queue) \in Seq(Events) /\ queue' = Tail(queue) BY SMTT(120), <1>1, <1>2
      <3> QED BY <1>1, <3>1, HasTail DEF Ends
    <2> QED BY <1>2, <1>5, <2>1 DEF IInv, NotForgotten, Queued, Ends
  <1>8. ProbeArmed'
    BY <1>2, <1>4, <1>5 DEF IInv, ProbeArmed, Aimed, Sound, Settled
  <1>9. app.screen BY <1>1, ScreenForEvent
  <1>10. ScreenFirst' /\ Aimed' BY <1>2, <1>5, <1>9 DEF IInv, ScreenFirst, Aimed
  <1>11. Sound(client)' /\ Settled(app)' BY <1>2, <1>5 DEF IInv, Sound, Settled
  <1> QED BY <1>6, <1>7, <1>8, <1>10, <1>11 DEF IInv

\* An end handled while the next stream is there makes the state stale; without a
\* stream nothing is said of the address.
LEMMA EndStep ==
    ASSUME IInv, HandleEnd
    PROVE  IInv'
  <1> DEFINE a == IF Takes("clientFailed") THEN app ELSE [app EXCEPT !.probe = FALSE]
  <1>1. queue # <<>> BY DEF HandleEnd, Takes
  <1>2. /\ client \in Client /\ app \in App /\ Sound(client) /\ Settled(app)
        /\ queue \in Seq(Events) /\ stale \in BOOLEAN /\ restartable \in BOOLEAN
    BY DEF IInv, TypeOK
  <1>3. a \in App /\ Settled(a) /\ a.screen = app.screen BY <1>2 DEF App, Settled
  <1>4. app.screen BY SMTT(120), <1>1, ScreenForEvent
  <1>5. /\ stale' = (stale \/ client.stream # "none")
        /\ UNCHANGED <<restartable, net, up, running, refused, budget>>
    BY DEF HandleEnd
  <1>6. stale' \in BOOLEAN BY <1>5
  <1>7. /\ app' \in App /\ Settled(app') /\ app'.screen
        /\ restartable => app'.restarts > 0
        /\ queue' \in Seq(Events)
        /\ client' = client \/ client' = [client EXCEPT !.m_serverAddress = app'.m_serverAddress]
    <2>1. CASE restartable
      <3>1. /\ app' = AfterEnd(a) /\ queue' = Tail(queue) \o <<>>
            /\ client' = client \/ client' = [client EXCEPT !.m_serverAddress = app'.m_serverAddress]
        BY <2>1 DEF HandleEnd, Then
      <3>2. queue' \in Seq(Events) BY SMTT(120), <1>1, <1>2, <3>1
      <3> HIDE DEF a
      <3> QED BY <1>3, <1>4, <3>1, <3>2, AfterEndFacts
    <2>2. CASE ~restartable
      <3>1. app' = a /\ queue' = Tail(queue) \o <<Event("quit")>> /\ client' = client
        BY <2>2 DEF HandleEnd, Then
      <3>2. Event("quit") \in Events BY EventType
      <3>3. queue' \in Seq(Events) BY SMTT(120), <1>1, <1>2, <3>1, <3>2
      <3> HIDE DEF a
      <3> QED BY <1>3, <1>4, <2>2, <3>1, <3>3
    <2> QED BY <2>1, <2>2, <1>2
  <1> HIDE DEF a
  <1>8. /\ client' \in Client /\ Sound(client') /\ client'.stream = client.stream
        /\ client'.m_ready = client.m_ready
    <2>1. CASE client' = client BY <1>2, <2>1
    <2>2. CASE client' = [client EXCEPT !.m_serverAddress = app'.m_serverAddress]
      <3>1. app'.m_serverAddress \in Addrs BY <1>7 DEF App
      <3> QED BY <1>2, <2>2, <3>1 DEF Client, Sound
    <2> QED BY <1>7, <2>1, <2>2
  <1>9. TypeOK' BY <1>5, <1>6, <1>7, <1>8 DEF IInv, TypeOK
  <1>10. NotForgotten' BY <1>5, <1>7 DEF NotForgotten
  <1>11. ProbeArmed' BY <1>5, <1>8 DEF ProbeArmed, Sound
  <1>12. ScreenFirst' /\ Aimed' BY <1>5, <1>7, <1>8 DEF ScreenFirst, Aimed
  <1>13. Sound(client)' /\ Settled(app)' BY <1>7, <1>8 DEF Sound, Settled
  <1> QED BY SMTT(120), <1>9, <1>10, <1>11, <1>12, <1>13 DEF IInv

\* What is left after a connect is a stream, a connect put off, or an event.
LEMMA Connected ==
    ASSUME IInv, NEW c \in Client, Sound(c), NEW r \in ConnectOutcomes(c),
           NEW q \in Seq(Events), queue' = q \o r.events,
           client' = r.client, net' = r.net, app'.screen,
           app' \in App, Settled(app'), app'.m_serverAddress = app.m_serverAddress,
           app'.probe = app.probe,
           c.stream = client.stream, c.via = client.via, c.m_ready = client.m_ready,
           c.stream # "none" => (Has(queue, {"clientConnected"}) => Has(q, {"clientConnected"})),
           stale => stale', stale' \in BOOLEAN,
           c.stream = "none" /\ client'.stream # "none" /\ ~stale' =>
               client'.via = app.m_serverAddress,
           budget' \in Budget,
           UNCHANGED <<restartable, up, running, refused>>
    PROVE  IInv'
  <1>1. net \in NetStates BY DEF IInv, TypeOK, NetStates
  <1>2. /\ r.client \in Client /\ Sound(r.client) /\ r.net \in NetStates
        /\ r.client.m_suspended = c.m_suspended
        /\ r.client.m_ready = c.m_ready
        /\ \/ /\ c.stream # "none" /\ r.client = c /\ r.events = <<>>
           \/ /\ c.stream = "none" /\ c.m_suspended /\ r.events = <<>>
              /\ r.client.stream = "none" /\ r.client.m_connectOnResume
           \/ /\ c.stream = "none" /\ r.client.stream # "none" /\ r.events = <<>>
              /\ r.client.via = c.m_serverAddress
           \/ /\ r.client = c /\ c.stream = "none" /\ r.events = <<Event("clientFailed")>>
    BY <1>1, ConnectFacts
  <1>3. Event("clientFailed") \in Events /\ Event("clientFailed").name \in Ends
    BY EventType DEF ClientEvents, Ends, Event
  <1>4. queue' \in Seq(Events)
    <2>1. r.events = <<>> \/ r.events = <<Event("clientFailed")>> BY <1>2
    <2>3. CASE r.events = <<>>
      <3>1. queue' = q BY SMTT(120), <2>3
      <3> QED BY <3>1
    <2>4. CASE r.events = <<Event("clientFailed")>>
      <3>1. queue' = q \o <<Event("clientFailed")>> BY <2>4
      <3> QED BY SMTT(120), <1>3, <3>1
    <2> QED BY <2>1, <2>3, <2>4
  <1>5. TypeOK' BY <1>2, <1>4 DEF IInv, TypeOK, NetStates
  <1>6. NotForgotten'
    <2>1. CASE r.events = <<Event("clientFailed")>>
      <3>1. Has(queue', Ends) BY <1>3, <2>1, HasLast
      <3> QED BY <3>1 DEF NotForgotten, Queued, Ends
    <2>2. CASE client'.stream # "none" BY <2>2 DEF NotForgotten
    <2>3. CASE client'.m_suspended /\ client'.m_connectOnResume BY <2>3 DEF NotForgotten
    <2> QED BY <1>2, <2>1, <2>2, <2>3
  <1>7. ProbeArmed'
    <2> SUFFICES ASSUME running', client'.m_ready, client'.via # Primary, ~stale'
                 PROVE  app'.probe \/ Has(queue', {"clientConnected"})
      BY DEF ProbeArmed, Queued
    <2>1. c.m_ready /\ c.stream # "none" BY <1>2 DEF Sound
    <2>2. r.client = c /\ r.events = <<>> BY <1>2, <2>1
    <2>3. queue' = q BY SMTT(120), <2>2
    <2>4. app.probe \/ Has(queue, {"clientConnected"})
      BY <2>1, <2>2 DEF IInv, ProbeArmed, Queued
    <2> QED BY <2>1, <2>3, <2>4
  <1>8. Aimed'
    <2>1. CASE c.stream # "none"
      BY <1>2, <2>1 DEF IInv, Aimed
    <2>2. CASE c.stream = "none" BY <2>2 DEF Aimed
    <2> QED BY <2>1, <2>2
  <1>9. ScreenFirst' BY DEF ScreenFirst
  <1>10. Sound(client)' /\ Settled(app)' BY <1>2 DEF Sound, Settled
  <1> QED BY <1>5, <1>6, <1>7, <1>8, <1>9, <1>10 DEF IInv

LEMMA ResumeStep ==
    ASSUME IInv, HandleResume
    PROVE  IInv'
  <1> DEFINE c == [client EXCEPT !.m_suspended = FALSE, !.m_connectOnResume = FALSE]
  <1>1. queue # <<>> /\ Head(queue).name = "resume" BY DEF HandleResume, Takes
  <1>2. /\ client \in Client /\ app \in App /\ Sound(client) /\ Settled(app)
        /\ queue \in Seq(Events) /\ stale \in BOOLEAN /\ budget \in Budget
    BY DEF IInv, TypeOK
  <1>3. /\ c \in Client /\ Sound(c) /\ c.stream = client.stream /\ c.via = client.via
        /\ c.m_ready = client.m_ready /\ ~c.m_suspended
    BY <1>2 DEF Client, Sound
  <1>4. app.screen BY <1>1, ScreenForEvent
  <1>5. Tail(queue) \in Seq(Events) BY SMTT(120), <1>1, <1>2
  <1>6. /\ UNCHANGED <<restartable, app, up, running, refused, budget>>
        /\ \E r \in (IF client.m_connectOnResume THEN ConnectOutcomes(c)
                     ELSE {[client |-> c, events |-> <<>>, net |-> net]}) :
             /\ client' = r.client
             /\ net' = r.net
             /\ queue' = Tail(queue) \o r.events
             /\ stale' = \/ stale
                         \/ r.client.stream # "none" /\ r.client.via # app.m_serverAddress
    BY DEF HandleResume, Then
  <1> HIDE DEF c
  <1>7. ASSUME NEW names, Has(queue, names), "resume" \notin names
        PROVE  Has(Tail(queue), names)
    BY <1>1, <1>2, <1>7, HasTail
  <1>8. CASE client.m_connectOnResume
    <2>1. PICK r \in ConnectOutcomes(c) :
             /\ client' = r.client
             /\ net' = r.net
             /\ queue' = Tail(queue) \o r.events
             /\ stale' = \/ stale
                         \/ r.client.stream # "none" /\ r.client.via # app.m_serverAddress
      BY <1>6, <1>8
    <2>2. /\ stale => stale'
          /\ stale' \in BOOLEAN
          /\ c.stream = "none" /\ client'.stream # "none" /\ ~stale' =>
               client'.via = app.m_serverAddress
      BY <1>2, <2>1
    <2>3. c.stream # "none" => (Has(queue, {"clientConnected"}) => Has(Tail(queue), {"clientConnected"}))
      BY <1>7
    <2>4. /\ app'.screen /\ app' \in App /\ Settled(app')
          /\ app'.m_serverAddress = app.m_serverAddress /\ app'.probe = app.probe
          /\ budget' \in Budget
          /\ UNCHANGED <<restartable, up, running, refused>>
      BY <1>2, <1>4, <1>6
    <2> QED BY <1>3, <1>5, <2>1, <2>2, <2>3, <2>4, Connected
  <1>9. CASE ~client.m_connectOnResume
    <2>1. /\ client' = c /\ net' = net /\ queue' = Tail(queue)
          /\ stale' = \/ stale
                      \/ client.stream # "none" /\ client.via # app.m_serverAddress
      BY SMTT(120), <1>3, <1>5, <1>6, <1>9
    <2>2. TypeOK' BY <1>2, <1>3, <1>5, <1>6, <2>1 DEF IInv, TypeOK
    <2>3. NotForgotten'
      <3>1. Has(queue, Ends) => Has(queue', Ends) BY <1>7, <2>1 DEF Ends
      <3> QED BY <1>3, <1>6, <1>9, <2>1, <3>1 DEF IInv, NotForgotten, Queued, Ends
    <2>4. ProbeArmed'
      <3>1. Has(queue, {"clientConnected"}) => Has(queue', {"clientConnected"}) BY <1>7, <2>1
      <3> QED BY <1>3, <1>6, <2>1, <3>1 DEF IInv, ProbeArmed, Queued
    <2>5. ScreenFirst' /\ Aimed' BY <1>3, <1>4, <1>6, <2>1 DEF IInv, ScreenFirst, Aimed
    <2>6. Sound(client)' /\ Settled(app)' BY <1>2, <1>3, <1>6, <2>1
    <2> QED BY SMTT(120), <2>2, <2>3, <2>4, <2>5, <2>6 DEF IInv
  <1> QED BY <1>8, <1>9

\* A restart, with or without a screen.
LEMMA RestartStep ==
    ASSUME IInv, HandleClientRestart
    PROVE  IInv'
  <1> DEFINE a == [app EXCEPT !.restarts = @ - 1]
             c == [client EXCEPT !.m_serverAddress = a.m_serverAddress]
             q == IF a.screen THEN queue ELSE <<>>
  <1>1. /\ client \in Client /\ app \in App /\ Sound(client) /\ Settled(app)
        /\ queue \in Seq(Events) /\ stale \in BOOLEAN /\ budget \in Budget
        /\ restartable \in BOOLEAN
    BY DEF IInv, TypeOK
  <1>2. /\ a \in App /\ Settled(a) /\ a.screen = app.screen /\ a.probe = app.probe
        /\ a.m_serverAddress = app.m_serverAddress
    BY SMTT(120), <1>1 DEF HandleClientRestart, App, Settled
  <1>3. /\ c \in Client /\ Sound(c) /\ c.stream = client.stream /\ c.via = client.via
        /\ c.m_ready = client.m_ready /\ c.m_serverAddress = app.m_serverAddress
    BY <1>1, <1>2 DEF Client, Sound, App
  <1>4. /\ StartClient(a)
        /\ UNCHANGED <<restartable, up, running, stale>>
    BY DEF HandleClientRestart
  <1>5. CASE /\ \E r \in ConnectOutcomes(c) :
                   /\ client' = r.client
                   /\ net' = r.net
                   /\ queue' = q \o r.events
             /\ app' = [a EXCEPT !.screen = TRUE]
             /\ budget' \in Served
             /\ UNCHANGED refused
    <2>1. PICK r \in ConnectOutcomes(c) :
             client' = r.client /\ net' = r.net /\ queue' = q \o r.events
      BY <1>5
    <2>2. /\ app' \in App /\ Settled(app') /\ app'.screen /\ app'.probe = app.probe
          /\ app'.m_serverAddress = app.m_serverAddress
      <3> HIDE DEF a
      <3> QED BY <1>2, <1>5 DEF App, Settled
    <2>3. budget' \in Budget BY <1>1, <1>5, ServedType
    <2>4. q \in Seq(Events) BY SMTT(120), <1>1
    <2>5. c.stream # "none" => (Has(queue, {"clientConnected"}) => Has(q, {"clientConnected"}))
      BY <1>2, <1>3 DEF IInv, ScreenFirst
    <2>6. c.stream = "none" /\ client'.stream # "none" => client'.via = app.m_serverAddress
      <3>1. net \in NetStates BY DEF IInv, TypeOK, NetStates
      <3> HIDE DEF c, q, a
      <3> QED BY <1>3, <2>1, <3>1, ConnectFacts
    <2>7. /\ stale => stale'
          /\ stale' \in BOOLEAN
          /\ UNCHANGED <<restartable, up, running, refused>>
      BY <1>1, <1>4, <1>5
    <2> HIDE DEF c, q, a
    <2> QED BY <1>3, <2>1, <2>2, <2>3, <2>4, <2>5, <2>6, <2>7, Connected
  <1>6. CASE /\ ~a.screen /\ queue = <<>>
             /\ budget.screens > 0
             /\ budget' = [budget EXCEPT !.screens = @ - 1]
             /\ \/ restartable /\ app' = ScheduleClientRestart(a) /\ UNCHANGED refused
                \/ app' = a /\ refused' = TRUE
             /\ UNCHANGED <<client, net, queue>>
    <2>1. budget' \in Budget BY SMTT(120), <1>1, <1>6 DEF Budget
    <2>2. /\ app' \in App /\ Settled(app')
          /\ app'.m_serverAddress = app.m_serverAddress
          /\ app'.restarts > 0 \/ refused'
      <3> HIDE DEF a
      <3> QED BY <1>2, <1>6, RestartFacts
    <2>3. refused' \in BOOLEAN BY <1>6 DEF IInv, TypeOK
    <2>4. client.stream = "none" /\ ~client.m_suspended /\ ~client.m_ready
      BY <1>1, <1>2, <1>6 DEF IInv, ScreenFirst, Sound
    <2> HIDE DEF a
    <2>5. TypeOK' BY <1>4, <1>6, <2>1, <2>2, <2>3 DEF IInv, TypeOK
    <2>6. NotForgotten' BY <2>2 DEF NotForgotten
    <2>7. ProbeArmed' /\ ScreenFirst' /\ Aimed'
      BY <1>6, <2>4 DEF ProbeArmed, ScreenFirst, Aimed
    <2>8. Sound(client)' /\ Settled(app)' BY <1>1, <1>6, <2>2
    <2> QED BY <2>5, <2>6, <2>7, <2>8 DEF IInv
  <1> QED BY <1>4, <1>5, <1>6 DEF StartClient

LEMMA ProbeStep ==
    ASSUME IInv, HandleFailbackProbe
    PROVE  IInv'
  <1> DEFINE a == [app EXCEPT !.probe = FALSE]
  <1>1. /\ client \in Client /\ app \in App /\ Sound(client) /\ Settled(app)
        /\ queue \in Seq(Events) /\ stale \in BOOLEAN /\ budget \in Budget
    BY SMTT(120) DEF IInv, TypeOK
  <1>2. budget' \in Budget BY <1>1, ServedType DEF HandleFailbackProbe
  <1>3. UNCHANGED <<restartable, net, up, running, refused, stale>> BY DEF HandleFailbackProbe
  <1>4. /\ a \in App /\ Settled(a) /\ a.screen = app.screen /\ a.restarts = app.restarts
        /\ a.m_serverAddress = app.m_serverAddress
        /\ a.m_usingFallback = app.m_usingFallback
    BY <1>1 DEF App, Settled
  <1>5. CASE app.m_usingFallback /\ client.stream = "server" /\ Primary \in up
    <2> DEFINE d == Disconnect(client)
    <2>1. /\ app' = [ResetToPrimaryAddress(a) EXCEPT !.m_failbackInProgress = TRUE]
          /\ client' = [d EXCEPT !.m_serverAddress = Primary]
          /\ queue' = Orphaned(queue) \o <<Event("clientDisconnected")>>
      BY <1>5 DEF HandleFailbackProbe
    <2>2. d \in Client /\ d.stream = "none" /\ Sound(d) BY <1>1, CleanupFacts
    <2>3. app.screen BY <1>5, ScreenForEvent
    <2>4. ResetToPrimaryAddress(a) \in App /\ Settled(ResetToPrimaryAddress(a))
          /\ ResetToPrimaryAddress(a).screen
      <3> HIDE DEF a
      <3> QED BY <1>4, <2>3, ResetFacts
    <2>5. app' \in App /\ Settled(app') /\ app'.screen BY <2>1, <2>4 DEF App, Settled
    <2> HIDE DEF d, a
    <2>6. client' \in Client /\ client'.stream = "none" /\ Sound(client') /\ ~client'.m_ready
      BY <2>1, <2>2, PrimaryAssumption DEF Client, Sound
    <2>7. Event("clientDisconnected") \in Events /\ Event("clientDisconnected").name \in Ends
      BY EventType DEF ClientEvents, Ends, Event
    <2>8. Orphaned(queue) \in Seq(Events) BY <1>1, OrphanedType
    <2>9. queue' \in Seq(Events) BY SMTT(120), <2>1, <2>7, <2>8
    <2>10. Has(queue', Ends) BY <2>1, <2>7, <2>8, HasLast
    <2>11. TypeOK' BY <1>2, <1>3, <2>5, <2>6, <2>9 DEF IInv, TypeOK
    <2>12. NotForgotten' BY <2>10 DEF NotForgotten, Queued, Ends
    <2>13. ProbeArmed' /\ ScreenFirst' /\ Aimed' BY <2>5, <2>6 DEF ProbeArmed, ScreenFirst, Aimed
    <2>14. Sound(client)' /\ Settled(app)' BY <2>5, <2>6
    <2> QED BY SMTT(120), <2>11, <2>12, <2>13, <2>14 DEF IInv
  <1>6. CASE ~(app.m_usingFallback /\ client.stream = "server" /\ Primary \in up)
    <2>1. /\ client' = client /\ queue' = queue
          /\ app' = a \/ app' = ScheduleFailbackProbe(a)
          /\ app.m_usingFallback /\ client.stream = "server" => app' = ScheduleFailbackProbe(a)
      BY <1>6 DEF HandleFailbackProbe
    <2> HIDE DEF a
    <2>2. /\ app' \in App /\ Settled(app') /\ app'.screen = app.screen
          /\ app'.restarts = app.restarts /\ app'.m_serverAddress = app.m_serverAddress
          /\ app.m_usingFallback /\ client.stream = "server" => app'.probe
      BY <1>4, <2>1 DEF ScheduleFailbackProbe, App, Settled
    <2>3. TypeOK' BY <1>2, <1>3, <2>1, <2>2 DEF IInv, TypeOK
    <2>4. NotForgotten' BY <1>3, <2>1, <2>2 DEF IInv, NotForgotten, Queued
    <2>5. ProbeArmed'
      BY <1>1, <1>3, <2>1, <2>2 DEF IInv, ProbeArmed, Aimed, Sound, Settled
    <2>6. ScreenFirst' /\ Aimed' BY <1>3, <2>1, <2>2 DEF IInv, ScreenFirst, Aimed
    <2>7. Sound(client)' /\ Settled(app)' BY <1>1, <2>1, <2>2
    <2> QED BY SMTT(120), <2>3, <2>4, <2>5, <2>6, <2>7 DEF IInv
  <1> QED BY <1>5, <1>6

\* Events that come from outside, with a change to the net, the servers or the
\* bounds.
LEMMA Arrived ==
    ASSUME IInv, app.screen, NEW r \in Seq(Events), queue' = queue \o r,
           net' \in NetStates, up' \subseteq Addrs, budget' \in Budget,
           UNCHANGED <<restartable, client, app, running, refused, stale>>
    PROVE  IInv'
  <1>1. queue \in Seq(Events) BY DEF IInv, TypeOK
  <1>2. queue' \in Seq(Events) BY SMTT(120), <1>1
  <1>3. TypeOK' BY <1>2 DEF IInv, TypeOK, NetStates
  <1>4. ASSUME NEW names, Has(queue, names) PROVE Has(queue', names)
    BY <1>1, <1>4, HasMore
  <1>5. NotForgotten' BY <1>4 DEF IInv, NotForgotten, Queued
  <1>6. ProbeArmed' BY <1>4 DEF IInv, ProbeArmed, Queued
  <1>7. ScreenFirst' /\ Aimed' BY DEF IInv, ScreenFirst, Aimed
  <1>8. Sound(client)' /\ Settled(app)' BY DEF IInv, Sound, Settled
  <1> QED BY <1>3, <1>5, <1>6, <1>7, <1>8 DEF IInv

LEMMA NetStepStep ==
    ASSUME IInv, NEW from, NEW to \in NetStates, NEW r \in Seq(Events), NetStep(from, to, r)
    PROVE  IInv'
  <1>1. app.screen BY ScreenForEvent DEF NetStep
  <1>2. /\ queue' = queue \o r /\ net' \in NetStates
        /\ UNCHANGED <<restartable, client, app, up, running, refused, stale, budget>>
    BY DEF NetStep, appSide
  <1>3. up' \subseteq Addrs /\ budget' \in Budget BY <1>2 DEF IInv, TypeOK
  <1> QED BY <1>1, <1>2, <1>3, Arrived

LEMMA ServerStep ==
    ASSUME IInv, ServerAnswers \/ ServerAdvertises \/ ServerMissing
    PROVE  IInv'
  <1>1. ASSUME NEW n \in SocketEvents PROVE <<Event(n)>> \in Seq(Events)
    <2>1. Event(n) \in Events BY <1>1, EventType
    <2> QED BY SMTT(120), <2>1
  <1>2. CASE ServerAnswers
    BY <1>1, <1>2, NetStepStep DEF ServerAnswers, SocketEvents, NetStates
  <1>3. CASE ServerAdvertises
    <2>1. PICK l \in Advertised :
             NetStep("ready", "listed", <<[name |-> "addresses", list |-> l]>>)
      BY <1>3 DEF ServerAdvertises
    <2>2. [name |-> "addresses", list |-> l] \in Events BY DEF Events, SocketEvents
    <2>3. <<[name |-> "addresses", list |-> l]>> \in Seq(Events) BY SMTT(120), <2>2
    <2> QED BY <2>1, <2>3, NetStepStep DEF NetStates
  <1>4. CASE ServerMissing
    BY <1>1, <1>4, NetStepStep DEF ServerMissing, SocketEvents, NetStates
  <1> QED BY <1>2, <1>3, <1>4

LEMMA OddStep ==
    ASSUME IInv, ServerOdd
    PROVE  IInv'
  <1>1. app.screen BY ScreenForEvent DEF ServerOdd
  <1>2. PICK n \in SocketEvents : queue' = Append(queue, Event(n))
    BY DEF ServerOdd, SocketEvents
  <1>3. Event(n) \in Events BY EventType
  <1>4. queue \in Seq(Events) /\ budget \in Budget BY DEF IInv, TypeOK
  <1>5. queue' = queue \o <<Event(n)>> /\ <<Event(n)>> \in Seq(Events) BY SMTT(120), <1>2, <1>3, <1>4
  <1>6. net' \in NetStates /\ up' \subseteq Addrs BY DEF ServerOdd, NetStates, IInv, TypeOK
  <1>7. budget' \in Budget
    <2>1. budget.odd > 0 /\ budget' = [budget EXCEPT !.odd = @ - 1] BY DEF ServerOdd
    <2> QED BY SMTT(120), <1>4, <2>1 DEF Budget
  <1>8. UNCHANGED <<restartable, client, app, running, refused, stale>> BY DEF ServerOdd
  <1> QED BY <1>1, <1>5, <1>6, <1>7, <1>8, Arrived

LEMMA SystemStep ==
    ASSUME IInv, SystemSleeps \/ SystemWakes
    PROVE  IInv'
  <1>1. app.screen
    <2>1. CASE SystemSleeps BY <2>1 DEF SystemSleeps
    <2>2. CASE SystemWakes
      <3>1. client.m_suspended \/ queue # <<>> BY SMTT(120), <2>2 DEF SystemWakes, Awake, Queued, Has
      <3> QED BY <3>1 DEF IInv, ScreenFirst
    <2> QED BY <2>1, <2>2
  <1>2. PICK n \in {"suspend", "resume"} : queue' = Append(queue, Event(n))
    BY DEF SystemSleeps, SystemWakes
  <1>3. Event(n) \in Events BY EventType
  <1>4. queue \in Seq(Events) /\ budget \in Budget BY DEF IInv, TypeOK
  <1>5. queue' = queue \o <<Event(n)>> /\ <<Event(n)>> \in Seq(Events) BY SMTT(120), <1>2, <1>3, <1>4
  <1>6. net' \in NetStates /\ up' \subseteq Addrs
    BY DEF SystemSleeps, SystemWakes, NetStates, IInv, TypeOK
  <1>7. budget' \in Budget
    <2>1. CASE SystemSleeps
      <3>1. budget.suspends > 0 /\ budget' = [budget EXCEPT !.suspends = @ - 1]
        BY <2>1 DEF SystemSleeps
      <3> QED BY SMTT(120), <1>4, <3>1 DEF Budget
    <2>2. CASE SystemWakes BY <1>4, <2>2 DEF SystemWakes
    <2> QED BY <2>1, <2>2
  <1>8. UNCHANGED <<restartable, client, app, running, refused, stale>>
    BY DEF SystemSleeps, SystemWakes
  <1> QED BY <1>1, <1>5, <1>6, <1>7, <1>8, Arrived

\* A server starts or stops.
LEMMA ChangeStep ==
    ASSUME IInv, NEW x \in Addrs, ServerChanges(x)
    PROVE  IInv'
  <1>1. UNCHANGED <<restartable, client, app, queue, net, running, refused, stale>>
    BY DEF ServerChanges
  <1>2. up' \subseteq Addrs /\ budget' \in Budget
    BY SMTT(120) DEF ServerChanges, IInv, TypeOK, Budget
  <1>3. TypeOK' BY <1>1, <1>2 DEF IInv, TypeOK
  <1> QED BY <1>1, <1>3
          DEF IInv, NotForgotten, ProbeArmed, Queued, ScreenFirst, Aimed, Sound, Settled
-----------------------------------------------------------------------------
(* The theorems *)

LEMMA InitIInv == Init => IInv
  <1> SUFFICES ASSUME Init PROVE IInv OBVIOUS
  <1>1. PICK list \in Advertised \cup {<<>>}, b \in Budgets :
         \/ /\ app = [NewApp(list) EXCEPT !.screen = TRUE]
            /\ budget = b
            /\ \/ client = Opened(NewClient) /\ net = "opening" /\ queue = <<>>
               \/ /\ Primary \notin up
                  /\ client = NewClient /\ net = "closed"
                  /\ queue = <<Event("clientFailed")>>
         \/ /\ restartable /\ b.screens > 0
            /\ app = ScheduleClientRestart(NewApp(list))
            /\ budget = [b EXCEPT !.screens = @ - 1]
            /\ client = NewClient /\ net = "closed" /\ queue = <<>>
    BY DEF Init
  <1>2. NewFallbacks(list) \in Seq(Addrs \ {Primary}) BY FallbacksAssumption
  <1>3. app \in App /\ Settled(app) /\ app.m_serverAddress = Primary
    <2> DEFINE n == NewApp(list)
    <2>1. n \in App /\ Settled(n) /\ n.m_serverAddress = Primary
      BY <1>2, PrimaryAssumption DEF NewApp, App, Settled
    <2>2. app = [n EXCEPT !.screen = TRUE] \/ app = ScheduleClientRestart(n) BY <1>1
    <2> HIDE DEF n
    <2>3. CASE app = [n EXCEPT !.screen = TRUE] BY <2>1, <2>3 DEF App, Settled
    <2>4. CASE app = ScheduleClientRestart(n) BY <2>1, <2>4, RestartFacts
    <2> QED BY <2>2, <2>3, <2>4
  <1>4. budget \in Budget BY SMTT(120), <1>1, BudgetsAssumption DEF Budget
  <1>5. Event("clientFailed") \in Events /\ Event("clientFailed").name = "clientFailed"
    BY EventType DEF ClientEvents, Event
  <1>6. queue \in Seq(Events)
    <2>1. queue = <<>> \/ queue = <<Event("clientFailed")>> BY <1>1
    <2>2. CASE queue = <<>> BY SMTT(120), <2>2
    <2>3. CASE queue = <<Event("clientFailed")>> BY SMTT(120), <1>5, <2>3
    <2> QED BY <2>1, <2>2, <2>3
  <1>7. client \in Client /\ Sound(client) /\ ~client.m_ready /\ client.via = Primary
    <2>1. client = NewClient \/ client = Opened(NewClient) BY <1>1
    <2>2. CASE client = NewClient BY <2>2, PrimaryAssumption DEF NewClient, Client, Sound
    <2>3. CASE client = Opened(NewClient)
      BY <2>3, PrimaryAssumption DEF Opened, NewClient, Client, Sound
    <2> QED BY <2>1, <2>2, <2>3
  <1>8. TypeOK BY <1>1, <1>3, <1>4, <1>6, <1>7 DEF Init, TypeOK
  <1>9. NotForgotten
    <2>1. CASE client.stream # "none" BY <2>1 DEF NotForgotten
    <2>2. CASE queue = <<Event("clientFailed")>>
      <3>1. 1 \in DOMAIN queue /\ queue[1].name = "clientFailed" BY SMTT(120), <1>5, <2>2
      <3> QED BY <3>1 DEF NotForgotten, Queued, Has
    <2>3. CASE app = ScheduleClientRestart(NewApp(list))
      <3>1. app.restarts > 0 BY SMTT(120), <2>3 DEF ScheduleClientRestart, NewApp
      <3> QED BY <3>1 DEF NotForgotten
    <2> QED BY <1>1, <2>1, <2>2, <2>3 DEF Opened, NewClient
  <1>10. ProbeArmed /\ Aimed BY <1>3, <1>7 DEF ProbeArmed, Aimed
  <1>11. ScreenFirst
    BY SMTT(120), <1>1 DEF ScreenFirst, NewApp, NewClient, ScheduleClientRestart
  <1> QED BY <1>3, <1>7, <1>8, <1>9, <1>10, <1>11 DEF IInv

LEMMA NextIInv == IInv /\ [Next]_vars => IInv'
  <1> SUFFICES ASSUME IInv, [Next]_vars PROVE IInv' OBVIOUS
  <1>1. CASE HandleEvent
    <2>1. CASE HandleConnected \/ HandleHello \/ HandleOptions \/ HandleAddresses \/ DropEvent
      BY <2>1, SocketStep
    <2>2. CASE HandleConnectionFailed BY <2>2, EndOnStep DEF HandleConnectionFailed, Ends
    <2>3. CASE HandleBadHello BY <2>3, EndOnStep DEF HandleBadHello, Ends
    <2>4. CASE HandleDisconnected BY <2>4, EndOnStep DEF HandleDisconnected, Ends
    <2>5. CASE HandleClose BY <2>5, EndOnStep DEF HandleClose, Ends
    <2>6. CASE HandleRefusal BY <2>6, EndOnStep DEF HandleRefusal, Ends
    <2>7. CASE HandleSuspend BY <2>7, SuspendStep
    <2>8. CASE HandleResume BY SMTT(120), <2>8, ResumeStep
    <2>9. CASE HandleClientConnected BY SMTT(120), <2>9, ClientConnectedStep
    <2>10. CASE HandleEnd BY SMTT(120), <2>10, EndStep
    <2>11. CASE HandleServerAddresses BY SMTT(120), <2>11, AddressesStep
    <2>12. CASE HandleQuit BY SMTT(120), <2>12, QuitStep
    <2> QED BY <1>1, <2>1, <2>2, <2>3, <2>4, <2>5, <2>6, <2>7, <2>8, <2>9, <2>10, <2>11, <2>12
            DEF HandleEvent
  <1>2. CASE ConnectTimer \/ AlarmTimer BY <1>2, TimerEndStep DEF ConnectTimer, AlarmTimer
  <1>3. CASE RestartTimer BY <1>3, RestartStep DEF RestartTimer
  <1>4. CASE ProbeTimer BY SMTT(120), <1>4, ProbeStep DEF ProbeTimer
  <1>5. CASE Answer \/ ServerAdvertises \/ ServerMissing BY <1>5, ServerStep DEF Answer
  <1>6. CASE Wake \/ SystemSleeps BY <1>6, SystemStep DEF Wake
  <1>7. CASE ServerOdd BY SMTT(120), <1>7, OddStep
  <1>8. CASE \E x \in Addrs : ServerChanges(x) BY <1>8, ChangeStep
  <1>9. CASE UNCHANGED vars
    <2>1. UNCHANGED <<restartable, client, app, queue, net, up, running, refused, stale, budget>>
      BY <1>9 DEF vars
    <2>2. TypeOK' BY <2>1 DEF IInv, TypeOK
    <2>3. Sound(client)' /\ Settled(app)' BY <2>1 DEF IInv, Sound, Settled
    <2>4. ScreenFirst' /\ Aimed' BY <2>1 DEF IInv, ScreenFirst, Aimed
    <2>5. NotForgotten' /\ ProbeArmed' BY <2>1 DEF IInv, NotForgotten, ProbeArmed, Queued
    <2> QED BY <2>2, <2>3, <2>4, <2>5 DEF IInv
  <1> QED BY <1>1, <1>2, <1>3, <1>4, <1>5, <1>6, <1>7, <1>8, <1>9 DEF Next

\* The variables keep their types and an attempt its timer (Client.cpp:564), for
\* any addresses, lists and bounds.
THEOREM ClientSound == Spec => []ClientOK
  <1>1. IInv => ClientOK BY IInvAttemptTimed DEF IInv, ClientOK
  <1> QED BY <1>1, InitIInv, NextIInv, PTL DEF Spec

\* Client.cpp and ClientApp.cpp together never leave a client that may restart
\* without a connection and without anything that starts one.
THEOREM NeverForgotten == Spec => []NotForgotten
  <1>1. IInv => NotForgotten BY DEF IInv
  <1> QED BY <1>1, InitIInv, NextIInv, PTL DEF Spec

\* ClientApp knows where its client is connected, and looks out for the primary
\* server while that is a fallback (ClientApp.cpp:373, 918).
THEOREM KnowsItsServer == Spec => []KnowsServer
  <1>1. IInv => KnowsServer BY IInvAddressAgrees DEF IInv, KnowsServer
  <1> QED BY <1>1, InitIInv, NextIInv, PTL DEF Spec
-----------------------------------------------------------------------------
(* The number of attempts *)

INSTANCE FiniteSetTheorems

\* The events that an attempt comes of, and how many there are.
Causes == {"clientFailed", "clientDisconnected", "suspend"}
Places(q) == {i \in DOMAIN q : q[i].name \in Causes}
Coming(q) == Cardinality(Places(q))

LEMMA ComingType ==
    ASSUME NEW q \in Seq(Events)
    PROVE  IsFiniteSet(Places(q)) /\ Coming(q) \in Nat
  <1>1. 1 \in Int /\ Len(q) \in Int /\ DOMAIN q = 1..Len(q) BY SMTT(120)
  <1>2. IsFiniteSet(1..Len(q)) BY <1>1, FS_Interval
  <1>3. Places(q) \in SUBSET (1..Len(q)) BY <1>1 DEF Places
  <1>4. IsFiniteSet(Places(q)) BY <1>2, <1>3, FS_Subset
  <1> QED BY <1>4, FS_CardinalityType DEF Coming

LEMMA ComingNone == Coming(<<>>) = 0
  <1>1. Places(<<>>) = {} BY SMTT(120) DEF Places
  <1> QED BY <1>1, FS_EmptySet DEF Coming

\* Taking the next event.
LEMMA ComingTail ==
    ASSUME NEW q \in Seq(Events), q # <<>>
    PROVE  /\ Tail(q) \in Seq(Events)
           /\ Coming(Tail(q)) <= Coming(q)
           /\ Head(q).name \in Causes => Coming(Tail(q)) <= Coming(q) - 1
  <1> DEFINE S == Places(q)
             T == Places(Tail(q))
             f == [i \in T |-> i + 1]
  <1>1. Tail(q) \in Seq(Events) /\ Len(q) \in Nat /\ DOMAIN q = 1..Len(q) BY SMTT(120)
  <1>2. \A i \in T : i \in Nat /\ i >= 1 /\ i + 1 \in DOMAIN q /\ q[i + 1] = Tail(q)[i]
    BY SMTT(120), <1>1 DEF Places
  <1>3. \A i \in T : q[i + 1].name \in Causes BY <1>2 DEF Places
  <1>4. \A i \in T : i + 1 \in S \ {1} BY SMTT(120), <1>2, <1>3 DEF Places
  <1>5. f \in [T -> S \ {1}] BY <1>4
  <1>6. \A a, b \in T : f[a] = f[b] => a = b BY SMTT(120), <1>2
  <1>7. f \in Injection(T, S \ {1})
    <2> HIDE DEF f, S, T
    <2>1. DOMAIN f = T BY <1>5
    <2> QED BY <1>5, <1>6, <2>1 DEF Injection, IsInjective
  <1> HIDE DEF f, S, T
  <1>8. IsFiniteSet(S) /\ Cardinality(S) \in Nat BY ComingType DEF S, Coming
  <1>9. /\ IsFiniteSet(S \ {1})
        /\ Cardinality(S \ {1}) = IF 1 \in S THEN Cardinality(S) - 1 ELSE Cardinality(S)
    BY <1>8, FS_RemoveElement
  <1>10. Cardinality(T) <= Cardinality(S \ {1}) BY <1>7, <1>9, FS_Injection
  <1>11. Cardinality(T) \in Nat BY <1>1, ComingType DEF T, Coming
  <1>12. Head(q).name \in Causes => 1 \in S BY SMTT(120), <1>1 DEF S, Places
  <1> QED BY SMTT(120), <1>1, <1>8, <1>9, <1>10, <1>11, <1>12 DEF S, T, Coming

\* One more event at the end.
LEMMA ComingLast ==
    ASSUME NEW q \in Seq(Events), NEW e \in Events
    PROVE  /\ q \o <<e>> \in Seq(Events)
           /\ Coming(q \o <<e>>) <= Coming(q) + 1
           /\ e.name \notin Causes => Coming(q \o <<e>>) = Coming(q)
  <1> DEFINE n == Len(q) + 1
             r == q \o <<e>>
  <1>1. /\ r \in Seq(Events) /\ DOMAIN r = 1..n /\ DOMAIN q = 1..Len(q) /\ Len(q) \in Nat
        /\ r[n] = e /\ \A i \in DOMAIN q : r[i] = q[i]
    BY SMTT(120)
  <1>2. DOMAIN r = DOMAIN q \cup {n} BY SMTT(120), <1>1
  <1> HIDE DEF r, n
  <1>3. Places(r) = IF e.name \in Causes THEN Places(q) \cup {n} ELSE Places(q)
    BY <1>1, <1>2 DEF Places, n
  <1>4. IsFiniteSet(Places(q)) /\ Cardinality(Places(q)) \in Nat BY ComingType DEF Coming
  <1>5. Cardinality(Places(q) \cup {n})
          = IF n \in Places(q) THEN Cardinality(Places(q)) ELSE Cardinality(Places(q)) + 1
    BY <1>4, FS_AddElement
  <1> QED BY SMTT(120), <1>1, <1>3, <1>4, <1>5 DEF Coming, r

\* A stream that is deleted takes none of them away.
LEMMA ComingOrphaned ==
    ASSUME NEW q \in Seq(Events)
    PROVE  Orphaned(q) \in Seq(Events) /\ Coming(Orphaned(q)) = Coming(q)
  <1>1. DOMAIN Orphaned(q) = DOMAIN q BY DEF Orphaned
  <1>2. \A i \in DOMAIN q : Orphaned(q)[i].name \in Causes <=> q[i].name \in Causes
    BY DEF Orphaned, Causes, SocketEvents, Event
  <1>3. Places(Orphaned(q)) = Places(q) BY <1>1, <1>2 DEF Places
  <1> QED BY <1>3, OrphanedType DEF Coming

\* The parts of Attempts.
Open(c) == IF c.stream = "none" THEN 0 ELSE 1
PutOff(c) == IF c.m_connectOnResume THEN 1 ELSE 0

\* They are numbers, in a state with its types.
Numbers ==
    /\ client \in Client /\ queue \in Seq(Events) /\ budget \in Budget
    /\ app.restarts \in Nat /\ budget.suspends \in Nat /\ Coming(queue) \in Nat

LEMMA AreNumbers ==
    /\ TypeOK => Numbers
    /\ TypeOK' => Numbers'
  BY ComingType DEF TypeOK, App, Budget, Numbers

\* What Attempts adds up, before and after a step.
Parts(o, p, r, k, b) ==
    /\ o = Open(client) /\ p = PutOff(client) /\ r = app.restarts
    /\ k = Coming(queue) /\ b = budget.suspends
    /\ Attempts = o + p + r + k + b
PartsAfter(o, p, r, k, b) ==
    /\ o = Open(client') /\ p = PutOff(client') /\ r = app'.restarts
    /\ k = Coming(queue') /\ b = budget'.suspends
    /\ Attempts' = o + p + r + k + b

LEMMA Weighed ==
    ASSUME Numbers, Numbers'
    PROVE  \E o1, o2, p1, p2, r1, r2, k1, k2, b1, b2 \in Nat :
             Parts(o1, p1, r1, k1, b1) /\ PartsAfter(o2, p2, r2, k2, b2)
  <1>1. /\ Open(client) \in Nat /\ PutOff(client) \in Nat /\ app.restarts \in Nat
        /\ Coming(queue) \in Nat /\ budget.suspends \in Nat
        /\ Open(client') \in Nat /\ PutOff(client') \in Nat /\ app'.restarts \in Nat
        /\ Coming(queue') \in Nat /\ budget'.suspends \in Nat
    BY DEF Open, PutOff, Numbers
  <1>2. /\ Attempts = Open(client) + PutOff(client) + app.restarts + Coming(queue)
                     + budget.suspends
        /\ Attempts' = Open(client') + PutOff(client') + app'.restarts + Coming(queue')
                      + budget'.suspends
    BY DEF Attempts, Open, PutOff, Coming, Places, Causes
  <1> QED BY <1>1, <1>2 DEF Parts, PartsAfter

\* The next event is taken, and at most one comes.
LEMMA QueueAfter ==
    ASSUME Numbers, NEW name, Takes(name)
    PROVE  /\ Tail(queue) \in Seq(Events) /\ Coming(Tail(queue)) \in Nat
           /\ Coming(Tail(queue)) <= Coming(queue)
           /\ name \in Causes => Coming(Tail(queue)) <= Coming(queue) - 1
           /\ Tail(queue) \o <<>> = Tail(queue)
  <1>1. queue # <<>> /\ Head(queue).name = name /\ queue \in Seq(Events) BY DEF Takes, Numbers
  <1>2. Tail(queue) \in Seq(Events) BY SMTT(120), <1>1
  <1>3. Tail(queue) \o <<>> = Tail(queue) BY SMTT(120), <1>2
  <1>4. Coming(Tail(queue)) \in Nat BY <1>2, ComingType
  <1> QED BY <1>1, <1>2, <1>3, <1>4, ComingTail

\* The end of a stream costs it and brings one event.
LEMMA EndNoMore ==
    ASSUME Numbers, Numbers', client.stream # "none",
           NEW q \in Seq(Events), Coming(q) <= Coming(queue),
           NEW n \in Ends, queue' = Orphaned(q) \o <<Event(n)>>,
           client'.stream = "none", client'.m_connectOnResume => client.m_connectOnResume,
           app'.restarts = app.restarts, budget'.suspends = budget.suspends
    PROVE  Attempts' <= Attempts
  <1>1. Orphaned(q) \in Seq(Events) /\ Coming(Orphaned(q)) = Coming(q) /\ Coming(q) \in Nat
    BY ComingOrphaned, ComingType
  <1>2. Event(n) \in Events BY EventType DEF Ends, ClientEvents
  <1>3. Coming(queue') <= Coming(q) + 1 BY <1>1, <1>2, ComingLast
  <1>4. Coming(queue') <= Coming(queue) + 1 BY SMTT(120), <1>1, <1>3 DEF Numbers
  <1>5. Open(client) = 1 /\ Open(client') = 0 /\ PutOff(client') <= PutOff(client)
    BY SMTT(120) DEF Open, PutOff
  <1>6. PICK o1, o2, p1, p2, r1, r2, k1, k2, b1, b2 \in Nat :
          Parts(o1, p1, r1, k1, b1) /\ PartsAfter(o2, p2, r2, k2, b2)
    BY Weighed
  <1>7. o1 = 1 /\ o2 = 0 /\ p2 <= p1 /\ r2 = r1 /\ k2 <= k1 + 1 /\ b2 = b1
    BY <1>4, <1>5, <1>6 DEF Parts, PartsAfter
  <1>8. Attempts = o1 + p1 + r1 + k1 + b1 /\ Attempts' = o2 + p2 + r2 + k2 + b2
    BY <1>6 DEF Parts, PartsAfter
  <1> QED BY SMTT(120), <1>7, <1>8

\* The handlers of the stream's events.
LEMMA StreamNoMore ==
    ASSUME Numbers, Numbers', NEW e, NEW n \in Ends,
           EndOn(e, Cleanup(client), n) \/ EndOn(e, Disconnect(client), n)
    PROVE  Attempts' <= Attempts
  <1>1. Takes(e) /\ client.stream \in Stages(e) BY DEF EndOn, Receives
  <1>2. client.stream # "none" BY <1>1 DEF Stages
  <1>3. Tail(queue) \in Seq(Events) /\ Coming(Tail(queue)) <= Coming(queue)
    BY <1>1, QueueAfter
  <1>4. /\ queue' = Orphaned(Tail(queue)) \o <<Event(n)>>
        /\ app'.restarts = app.restarts /\ budget'.suspends = budget.suspends
    BY DEF EndOn, appSide
  <1>5. client'.stream = "none" /\ (client'.m_connectOnResume => client.m_connectOnResume)
    BY DEF EndOn, Cleanup, Disconnect, Numbers, Client
  <1> QED BY <1>2, <1>3, <1>4, <1>5, EndNoMore

\* A handler that ends no stream and posts nothing that counts.
LEMMA TakenNoMore ==
    ASSUME Numbers, Numbers', NEW name, Takes(name), NEW e \in Events, e.name \notin Causes,
           Then(<<>>) \/ Then(<<e>>),
           Open(client') <= Open(client), PutOff(client') = PutOff(client),
           \/ app'.restarts = app.restarts
           \/ name \in Causes /\ app'.restarts = app.restarts + 1,
           budget'.suspends = budget.suspends
    PROVE  Attempts' <= Attempts
  <1>1. /\ Tail(queue) \in Seq(Events) /\ Coming(Tail(queue)) \in Nat
        /\ Coming(Tail(queue)) <= Coming(queue)
        /\ name \in Causes => Coming(Tail(queue)) <= Coming(queue) - 1
        /\ Tail(queue) \o <<>> = Tail(queue)
    BY QueueAfter
  <1>2. Coming(queue') = Coming(Tail(queue)) BY <1>1, ComingLast DEF Then
  <1>3. app'.restarts + Coming(queue') <= app.restarts + Coming(queue)
    BY SMTT(120), <1>1, <1>2 DEF Numbers
  <1>4. PICK o1, o2, p1, p2, r1, r2, k1, k2, b1, b2 \in Nat :
          Parts(o1, p1, r1, k1, b1) /\ PartsAfter(o2, p2, r2, k2, b2)
    BY Weighed
  <1>5. o2 <= o1 /\ p2 = p1 /\ r2 + k2 <= r1 + k1 /\ b2 = b1
    BY <1>3, <1>4 DEF Parts, PartsAfter
  <1>6. Attempts = o1 + p1 + r1 + k1 + b1 /\ Attempts' = o2 + p2 + r2 + k2 + b2
    BY <1>4 DEF Parts, PartsAfter
  <1>7. o2 + p2 + r2 + k2 + b2 <= o1 + p1 + r1 + k1 + b1 BY SMTT(120), <1>5
  <1> QED BY <1>6, <1>7

\* One event comes that does not count.
LEMMA CameNoMore ==
    ASSUME Numbers, Numbers', NEW e \in Events, e.name \notin Causes, queue' = queue \o <<e>>,
           client' = client, app' = app, budget'.suspends = budget.suspends
    PROVE  Attempts' <= Attempts
  <1>1. Coming(queue') = Coming(queue) BY ComingLast DEF Numbers
  <1>2. PICK o1, o2, p1, p2, r1, r2, k1, k2, b1, b2 \in Nat :
          Parts(o1, p1, r1, k1, b1) /\ PartsAfter(o2, p2, r2, k2, b2)
    BY Weighed
  <1> QED BY SMTT(120), <1>1, <1>2 DEF Parts, PartsAfter

LEMMA SuspendNoMore ==
    ASSUME Numbers, Numbers', HandleSuspend
    PROVE  Attempts' <= Attempts
  <1>1. /\ Tail(queue) \in Seq(Events) /\ Coming(Tail(queue)) \in Nat
        /\ Coming(Tail(queue)) <= Coming(queue) - 1
    BY QueueAfter DEF HandleSuspend, Causes
  <1>2. /\ Orphaned(Tail(queue)) \in Seq(Events)
        /\ Coming(Orphaned(Tail(queue))) = Coming(Tail(queue))
    BY <1>1, ComingOrphaned
  <1>3. Event("clientDisconnected") \in Events BY EventType DEF ClientEvents
  <1>4. Coming(queue') <= Coming(Orphaned(Tail(queue))) + 1
    BY <1>2, <1>3, ComingLast DEF HandleSuspend
  <1>5. Coming(queue') <= Coming(queue) BY SMTT(120), <1>1, <1>2, <1>4 DEF Numbers
  <1>6. client'.stream = "none" /\ client'.m_connectOnResume = (client.stream = "server")
    BY DEF HandleSuspend, Disconnect, Cleanup, Numbers, Client
  <1>7. Open(client') + PutOff(client') <= Open(client)
    <2>1. CASE client.stream = "server" BY SMTT(120), <1>6, <2>1 DEF Open, PutOff
    <2>2. CASE client.stream # "server"
      <3>1. client'.m_connectOnResume = FALSE BY <1>6, <2>2
      <3> QED BY SMTT(120), <1>6, <3>1 DEF Open, PutOff
    <2> QED BY <2>1, <2>2
  <1>8. app'.restarts = app.restarts /\ budget'.suspends = budget.suspends
    BY DEF HandleSuspend, appSide
  <1>9. PICK o1, o2, p1, p2, r1, r2, k1, k2, b1, b2 \in Nat :
          Parts(o1, p1, r1, k1, b1) /\ PartsAfter(o2, p2, r2, k2, b2)
    BY Weighed
  <1> QED BY SMTT(120), <1>5, <1>7, <1>8, <1>9 DEF Parts, PartsAfter

\* A connect makes a stream, or an event, or a note that it is put off.
LEMMA ConnectNoMore ==
    ASSUME NEW c \in Client, NEW q \in Seq(Events), NEW r \in ConnectOutcomes(c)
    PROVE  Open(r.client) + PutOff(r.client) + Coming(q \o r.events)
             <= Open(c) + PutOff(c) + Coming(q) + 1
  <1>1. q \o <<>> = q /\ Coming(q) \in Nat BY SMTT(120), ComingType
  <1>2. Coming(q \o <<Event("clientFailed")>>) <= Coming(q) + 1
    BY EventType, ComingLast DEF ClientEvents
  <1>3. /\ q \o <<Event("clientFailed")>> \in Seq(Events)
        /\ Coming(q \o <<Event("clientFailed")>>) \in Nat
    BY EventType, ComingLast, ComingType DEF ClientEvents
  <1>4. \/ r.client = c /\ r.events = <<>>
        \/ r.client = c /\ r.events = <<Event("clientFailed")>>
        \/ r.client = Opened(c) /\ r.events = <<>>
        \/ r.client = [c EXCEPT !.m_connectOnResume = TRUE] /\ r.events = <<>>
    <2>1. CASE c.stream # "none" BY SMTT(120), <2>1 DEF ConnectOutcomes
    <2>2. CASE c.stream = "none" /\ c.m_suspended BY SMTT(120), <2>2 DEF ConnectOutcomes
    <2>3. CASE c.stream = "none" /\ ~c.m_suspended BY SMTT(120), <2>3 DEF ConnectOutcomes
    <2> QED BY <2>1, <2>2, <2>3
  <1>5. /\ Open(r.client) \in Nat /\ PutOff(r.client) \in Nat
        /\ Open(c) \in Nat /\ PutOff(c) \in Nat
    BY DEF Open, PutOff
  <1>6. CASE r.client = c /\ r.events = <<>> BY SMTT(120), <1>1, <1>5, <1>6
  <1>9. CASE r.client = c /\ r.events = <<Event("clientFailed")>>
    <2>1. Coming(q \o r.events) <= Coming(q) + 1 /\ Coming(q \o r.events) \in Nat
      BY <1>2, <1>3, <1>9
    <2> QED BY SMTT(120), <1>1, <1>5, <1>9, <2>1
  <1>7. CASE r.client = Opened(c) /\ r.events = <<>>
    <2>1. Open(r.client) <= Open(c) + 1 /\ PutOff(r.client) = PutOff(c)
      BY SMTT(120), <1>7 DEF Opened, Open, PutOff, Client
    <2> QED BY SMTT(120), <1>1, <1>5, <1>7, <2>1
  <1>8. CASE r.client = [c EXCEPT !.m_connectOnResume = TRUE] /\ r.events = <<>>
    <2>1. Open(r.client) = Open(c) /\ PutOff(r.client) <= PutOff(c) + 1
      BY SMTT(120), <1>8 DEF Open, PutOff, Client
    <2> QED BY SMTT(120), <1>1, <1>5, <1>8, <2>1
  <1> QED BY <1>4, <1>6, <1>7, <1>8, <1>9

LEMMA ResumeNoMore ==
    ASSUME Numbers, Numbers', HandleResume
    PROVE  Attempts' <= Attempts
  <1> DEFINE c == [client EXCEPT !.m_suspended = FALSE, !.m_connectOnResume = FALSE]
  <1>1. c \in Client /\ Open(c) = Open(client) /\ PutOff(c) = 0
    BY DEF Numbers, Client, Open, PutOff
  <1>2. /\ Tail(queue) \in Seq(Events) /\ Coming(Tail(queue)) \in Nat
        /\ Coming(Tail(queue)) <= Coming(queue) /\ Tail(queue) \o <<>> = Tail(queue)
    BY QueueAfter DEF HandleResume
  <1>3. PICK r \in (IF client.m_connectOnResume THEN ConnectOutcomes(c)
                    ELSE {[client |-> c, events |-> <<>>, net |-> net]}) :
          client' = r.client /\ Then(r.events)
    BY DEF HandleResume
  <1>4. app' = app /\ budget' = budget BY DEF HandleResume
  <1> HIDE DEF c
  <1>5. Open(client') + PutOff(client') + Coming(queue') <= Open(client) + PutOff(client) + Coming(queue)
    <2>0. /\ Open(client) \in Nat /\ Open(client') \in Nat /\ PutOff(client') \in Nat
          /\ PutOff(client) \in Nat /\ Coming(queue') \in Nat /\ Coming(queue) \in Nat
      BY DEF Open, PutOff, Numbers
    <2>1. CASE client.m_connectOnResume
      <3>1. r \in ConnectOutcomes(c) /\ queue' = Tail(queue) \o r.events BY <1>3, <2>1 DEF Then
      <3>2. Open(client') + PutOff(client') + Coming(queue')
              <= Open(c) + PutOff(c) + Coming(Tail(queue)) + 1
        BY <1>1, <1>2, <1>3, <3>1, ConnectNoMore
      <3>3. PutOff(client) = 1 BY <2>1 DEF PutOff
      <3> QED BY SMTT(120), <1>1, <1>2, <2>0, <3>2, <3>3
    <2>2. CASE ~client.m_connectOnResume
      <3>1. client' = c /\ queue' = Tail(queue) BY SMTT(120), <1>2, <1>3, <2>2 DEF Then
      <3> QED BY SMTT(120), <1>1, <1>2, <2>0, <3>1
    <2> QED BY <2>1, <2>2
  <1>6. PICK o1, o2, p1, p2, r1, r2, k1, k2, b1, b2 \in Nat :
          Parts(o1, p1, r1, k1, b1) /\ PartsAfter(o2, p2, r2, k2, b2)
    BY Weighed
  <1>7. o2 + p2 + k2 <= o1 + p1 + k1 /\ r2 = r1 /\ b2 = b1
    BY <1>4, <1>5, <1>6 DEF Parts, PartsAfter
  <1>8. Attempts = o1 + p1 + r1 + k1 + b1 /\ Attempts' = o2 + p2 + r2 + k2 + b2
    BY <1>6 DEF Parts, PartsAfter
  <1> QED BY SMTT(120), <1>7, <1>8

LEMMA ServedSuspends ==
    ASSUME budget \in Budget, NEW b \in Served
    PROVE  b \in Budget /\ b.suspends = budget.suspends
  BY SMTT(120) DEF Served, Budget

LEMMA RestartNoMore ==
    ASSUME Numbers, Numbers', app \in App, HandleClientRestart
    PROVE  Attempts' <= Attempts
  <1> DEFINE a == [app EXCEPT !.restarts = @ - 1]
             c == [client EXCEPT !.m_serverAddress = a.m_serverAddress]
             q == IF a.screen THEN queue ELSE <<>>
  <1>1. a.restarts = app.restarts - 1 /\ a.m_serverAddress \in Addrs BY DEF App
  <1>2. c \in Client /\ Open(c) = Open(client) /\ PutOff(c) = PutOff(client)
    BY <1>1 DEF Numbers, Client, Open, PutOff
  <1>3. q \in Seq(Events) /\ Coming(q) \in Nat /\ Coming(q) <= Coming(queue)
    BY SMTT(120), ComingNone, ComingType DEF Numbers
  <1>4. StartClient(a) BY DEF HandleClientRestart
  <1>5. PICK o1, o2, p1, p2, r1, r2, k1, k2, b1, b2 \in Nat :
          Parts(o1, p1, r1, k1, b1) /\ PartsAfter(o2, p2, r2, k2, b2)
    BY Weighed
  <1>6. Attempts = o1 + p1 + r1 + k1 + b1 /\ Attempts' = o2 + p2 + r2 + k2 + b2
    BY <1>5 DEF Parts, PartsAfter
  <1>7. CASE /\ \E r \in ConnectOutcomes(c) : client' = r.client /\ queue' = q \o r.events
             /\ app' = [a EXCEPT !.screen = TRUE]
             /\ budget' \in Served
    <2> PICK r \in ConnectOutcomes(c) : client' = r.client /\ queue' = q \o r.events BY <1>7
    <2>1. app'.restarts = app.restarts - 1 BY <1>1, <1>7 DEF App
    <2>2. budget'.suspends = budget.suspends BY <1>7, ServedSuspends DEF Numbers
    <2> HIDE DEF a, c, q
    <2>3. Open(client') + PutOff(client') + Coming(queue') <= Open(c) + PutOff(c) + Coming(q) + 1
      BY <1>2, <1>3, ConnectNoMore
    <2>4. o2 + p2 + k2 <= o1 + p1 + Coming(q) + 1 /\ Coming(q) <= k1 /\ r2 = r1 - 1 /\ b2 = b1
      BY <1>2, <1>3, <1>5, <2>1, <2>2, <2>3 DEF Parts, PartsAfter
    <2> QED BY SMTT(120), <1>3, <1>6, <2>4
  <1>8. CASE /\ budget' = [budget EXCEPT !.screens = @ - 1]
             /\ app' = ScheduleClientRestart(a) \/ app' = a
             /\ UNCHANGED <<client, queue>>
    <2>1. app'.restarts <= app.restarts
      <3>1. ScheduleClientRestart(a).restarts = a.restarts + 1
        BY DEF App, ScheduleClientRestart
      <3> HIDE DEF a
      <3>2. app'.restarts = a.restarts + 1 \/ app'.restarts = a.restarts BY <1>8, <3>1
      <3>3. app.restarts \in Nat BY DEF Numbers
      <3> QED BY SMTT(120), <1>1, <3>2, <3>3
    <2>2. budget'.suspends = budget.suspends BY <1>8 DEF Numbers, Budget
    <2>3. o2 = o1 /\ p2 = p1 /\ k2 = k1 /\ r2 <= r1 /\ b2 = b1
      BY <1>5, <1>8, <2>1, <2>2 DEF Parts, PartsAfter
    <2> QED BY SMTT(120), <1>6, <2>3
  <1> QED BY <1>4, <1>7, <1>8 DEF StartClient

LEMMA ProbeNoMore ==
    ASSUME Numbers, Numbers', app \in App, HandleFailbackProbe
    PROVE  Attempts' <= Attempts
  <1> DEFINE a == [app EXCEPT !.probe = FALSE]
  <1>1. budget'.suspends = budget.suspends BY ServedSuspends DEF HandleFailbackProbe, Numbers
  <1>2. /\ a.restarts = app.restarts
        /\ ScheduleFailbackProbe(a).restarts = app.restarts
        /\ [ResetToPrimaryAddress(a) EXCEPT !.m_failbackInProgress = TRUE].restarts = app.restarts
    BY DEF App, ScheduleFailbackProbe, ResetToPrimaryAddress
  <1>3. CASE /\ client.stream = "server"
             /\ app' = [ResetToPrimaryAddress(a) EXCEPT !.m_failbackInProgress = TRUE]
             /\ client' = [Disconnect(client) EXCEPT !.m_serverAddress = Primary]
             /\ queue' = Orphaned(queue) \o <<Event("clientDisconnected")>>
    <2>1. client'.stream = "none" /\ (client'.m_connectOnResume => client.m_connectOnResume)
      BY <1>3 DEF Disconnect, Cleanup, Numbers, Client
    <2>2. queue \in Seq(Events) /\ Coming(queue) <= Coming(queue) BY SMTT(120) DEF Numbers
    <2>3. client.stream # "none" /\ "clientDisconnected" \in Ends BY <1>3 DEF Ends
    <2> QED BY <1>1, <1>2, <1>3, <2>1, <2>2, <2>3, EndNoMore
  <1>4. CASE /\ app' = ScheduleFailbackProbe(a) \/ app' = a
             /\ UNCHANGED <<client, queue>>
    <2>1. app'.restarts = app.restarts BY <1>2, <1>4
    <2>2. PICK o1, o2, p1, p2, r1, r2, k1, k2, b1, b2 \in Nat :
            Parts(o1, p1, r1, k1, b1) /\ PartsAfter(o2, p2, r2, k2, b2)
      BY SMTT(120), Weighed
    <2> QED BY SMTT(120), <1>1, <1>4, <2>1, <2>2 DEF Parts, PartsAfter
  <1> QED BY <1>3, <1>4 DEF HandleFailbackProbe

LEMMA TimerNoMore ==
    ASSUME Numbers, Numbers', Sound(client), ConnectTimeout \/ KeepAliveAlarm
    PROVE  Attempts' <= Attempts
  <1>1. client.stream # "none" BY DEF Sound, ConnectTimeout, KeepAliveAlarm
  <1>2. budget'.suspends = budget.suspends
    <2>1. Silence BY DEF ConnectTimeout, KeepAliveAlarm
    <2>2. PICK b \in Served : budget' = b \/ budget' = [b EXCEPT !.odd = @ - 1]
      BY <2>1 DEF Silence
    <2>3. b \in Budget /\ b.suspends = budget.suspends BY ServedSuspends DEF Numbers
    <2> QED BY <2>2, <2>3 DEF Budget
  <1>3. client'.stream = "none" /\ (client'.m_connectOnResume => client.m_connectOnResume)
    BY DEF ConnectTimeout, KeepAliveAlarm, Disconnect, Cleanup, Numbers, Client
  <1>4. queue' = Orphaned(queue) \o <<Event("clientFailed")>> /\ app'.restarts = app.restarts
    BY DEF ConnectTimeout, KeepAliveAlarm
  <1>6. queue \in Seq(Events) /\ Coming(queue) <= Coming(queue) BY SMTT(120) DEF Numbers
  <1>5. "clientFailed" \in Ends BY DEF Ends
  <1> QED BY <1>1, <1>2, <1>3, <1>4, <1>5, <1>6, EndNoMore

LEMMA SleepNoMore ==
    ASSUME Numbers, Numbers', SystemSleeps
    PROVE  Attempts' <= Attempts
  <1>1. Event("suspend") \in Events BY EventType
  <1>2. queue' = queue \o <<Event("suspend")>>
    <2>1. queue' = Append(queue, Event("suspend")) /\ queue \in Seq(Events)
      BY DEF SystemSleeps, Numbers
    <2> QED BY SMTT(120), <1>1, <2>1
  <1>3. Coming(queue') <= Coming(queue) + 1 BY <1>1, <1>2, ComingLast DEF Numbers
  <1>4. budget'.suspends = budget.suspends - 1 BY DEF SystemSleeps, Numbers, Budget
  <1>5. client' = client /\ app' = app BY DEF SystemSleeps
  <1>6. PICK o1, o2, p1, p2, r1, r2, k1, k2, b1, b2 \in Nat :
          Parts(o1, p1, r1, k1, b1) /\ PartsAfter(o2, p2, r2, k2, b2)
    BY SMTT(120), Weighed
  <1>7. o2 = o1 /\ p2 = p1 /\ r2 = r1 /\ k2 <= k1 + 1 /\ b2 = b1 - 1
    BY <1>3, <1>4, <1>5, <1>6 DEF Parts, PartsAfter
  <1>8. Attempts = o1 + p1 + r1 + k1 + b1 /\ Attempts' = o2 + p2 + r2 + k2 + b2
    BY <1>6 DEF Parts, PartsAfter
  <1> QED BY SMTT(120), <1>7, <1>8

\* Every step.
LEMMA StepNoMore ==
    ASSUME IInv, IInv', [Next]_vars
    PROVE  Attempts' <= Attempts
  <1>0. Numbers /\ Numbers' /\ app \in App /\ Sound(client) /\ client \in Client
    BY AreNumbers DEF IInv, TypeOK
  <1>1. CASE HandleEvent
    <2> DEFINE quit == Event("quit")
    <2>0. quit \in Events /\ quit.name \notin Causes BY EventType DEF Event, Causes
    <2> HIDE DEF quit
    <2>1. CASE HandleConnected \/ HandleHello \/ HandleClientConnected \/ HandleServerAddresses
               \/ HandleQuit \/ DropEvent
      <3>1. PICK name : Takes(name)
        BY <2>1 DEF HandleConnected, HandleHello, HandleClientConnected, HandleServerAddresses,
           HandleQuit, DropEvent, Receives, Takes
      <3>2. Then(<<>>) /\ budget'.suspends = budget.suspends
        BY <2>1 DEF HandleConnected, HandleHello, HandleClientConnected, HandleServerAddresses,
           HandleQuit, DropEvent, appSide
      <3>3. Open(client') <= Open(client) /\ PutOff(client') = PutOff(client)
        <4>1. CASE HandleConnected \/ HandleHello
          <5>1. client.stream # "none" BY <4>1 DEF HandleConnected, HandleHello, Receives, Stages
          <5>2. /\ client'.stream \in {"hello", "server"}
                /\ client'.m_connectOnResume = client.m_connectOnResume
            BY <1>0, <4>1 DEF HandleConnected, HandleHello, Client
          <5> QED BY SMTT(120), <5>1, <5>2 DEF Open, PutOff
        <4>2. CASE client' = client BY SMTT(120), <4>2 DEF Open, PutOff
        <4> QED BY <2>1, <4>1, <4>2 DEF HandleClientConnected, HandleServerAddresses, HandleQuit,
                DropEvent
      <3>4. app'.restarts = app.restarts
        BY <1>0, <2>1 DEF HandleConnected, HandleHello, HandleClientConnected,
           HandleServerAddresses, HandleQuit, DropEvent, appSide, ScheduleFailbackProbe, App
      <3> QED BY <1>0, <2>0, <3>1, <3>2, <3>3, <3>4, TakenNoMore
    <2>2. CASE HandleOptions
      <3> DEFINE e == Event("clientConnected")
      <3>1. e \in Events /\ e.name \notin Causes BY EventType DEF ClientEvents, Event, Causes
      <3>2. Takes("options") /\ Then(<<e>>) /\ app' = app /\ budget' = budget
        BY <2>2 DEF HandleOptions, Receives, appSide
      <3>3. Open(client') <= Open(client) /\ PutOff(client') = PutOff(client)
        BY SMTT(120), <1>0, <2>2 DEF HandleOptions, Open, PutOff, Client
      <3> QED BY <1>0, <3>1, <3>2, <3>3, TakenNoMore
    <2>3. CASE HandleAddresses
      <3> DEFINE e == [Head(queue) EXCEPT !.name = "clientAddresses"]
      <3>1. Takes("addresses") /\ Then(<<e>>) /\ UNCHANGED <<client, app, budget>>
        BY <2>3 DEF HandleAddresses, Receives, appSide
      <3>2. Head(queue) \in Events BY SMTT(120), <1>0, <3>1 DEF Takes, Numbers
      <3>3. e \in Events /\ e.name \notin Causes BY <3>2 DEF Events, ClientEvents, Causes
      <3>4. Open(client') <= Open(client) /\ PutOff(client') = PutOff(client)
        BY SMTT(120), <3>1 DEF Open, PutOff
      <3> QED BY <1>0, <3>1, <3>3, <3>4, TakenNoMore
    <2>4. CASE HandleEnd
      <3>1. PICK name \in Ends : Takes(name) BY <2>4 DEF HandleEnd, Ends
      <3>2. Then(<<>>) \/ Then(<<quit>>) BY <2>4 DEF HandleEnd, quit
      <3>3. Open(client') <= Open(client) /\ PutOff(client') = PutOff(client)
        BY SMTT(120), <1>0, <2>4 DEF HandleEnd, Open, PutOff, Client
      <3>4. app'.restarts \in {app.restarts, app.restarts + 1}
        BY <1>0, <2>4 DEF HandleEnd, AfterEnd, ScheduleClientRestart, SelectNextAddress,
           ResetToPrimaryAddress, App
      <3>5. budget' = budget /\ name \in Causes BY <2>4 DEF HandleEnd, Ends, Causes
      <3> QED BY <1>0, <2>0, <3>1, <3>2, <3>3, <3>4, <3>5, TakenNoMore
    <2>5. CASE HandleConnectionFailed BY <1>0, <2>5, StreamNoMore DEF HandleConnectionFailed, Ends
    <2>6. CASE HandleBadHello BY <1>0, <2>6, StreamNoMore DEF HandleBadHello, Ends
    <2>7. CASE HandleDisconnected BY <1>0, <2>7, StreamNoMore DEF HandleDisconnected, Ends
    <2>8. CASE HandleClose BY <1>0, <2>8, StreamNoMore DEF HandleClose, Ends
    <2>9. CASE HandleRefusal BY <1>0, <2>9, StreamNoMore DEF HandleRefusal, Ends
    <2>10. CASE HandleSuspend BY <1>0, <2>10, SuspendNoMore
    <2>11. CASE HandleResume BY SMTT(120), <1>0, <2>11, ResumeNoMore
    <2> QED BY <1>1, <2>1, <2>2, <2>3, <2>4, <2>5, <2>6, <2>7, <2>8, <2>9, <2>10, <2>11
            DEF HandleEvent
  <1>2. CASE ConnectTimer \/ AlarmTimer BY <1>0, <1>2, TimerNoMore DEF ConnectTimer, AlarmTimer
  <1>3. CASE RestartTimer BY <1>0, <1>3, RestartNoMore DEF RestartTimer
  <1>4. CASE ProbeTimer BY SMTT(120), <1>0, <1>4, ProbeNoMore DEF ProbeTimer
  <1>5. CASE SystemSleeps BY SMTT(120), <1>0, <1>5, SleepNoMore
  <1>6. CASE Answer \/ ServerAdvertises \/ ServerMissing \/ ServerOdd \/ Wake
    <2>1. client' = client /\ app' = app /\ budget'.suspends = budget.suspends
      BY <1>0, <1>6 DEF Answer, ServerAnswers, ServerAdvertises, ServerMissing, ServerOdd, Wake,
         SystemWakes, NetStep, appSide, Numbers, Budget
    <2>2. PICK e \in Events : e.name \notin Causes /\ queue' = queue \o <<e>>
      <3>1. PICK e \in Events : /\ e.name \in SocketEvents \cup {"resume"}
                                /\ queue' = queue \o <<e>> \/ queue' = Append(queue, e)
        <4>1. \A n \in SocketEvents \cup {"resume"} : Event(n) \in Events /\ Event(n).name = n
          BY EventType DEF Event
        <4>2. \A l \in Advertised : [name |-> "addresses", list |-> l] \in Events
          BY DEF Events, SocketEvents
        <4>3. CASE ServerAdvertises
          BY <4>2, <4>3 DEF ServerAdvertises, NetStep, SocketEvents
        <4>4. CASE Answer \/ ServerMissing \/ ServerOdd \/ Wake
          <5>1. \E n \in SocketEvents \cup {"resume"} :
                  queue' = queue \o <<Event(n)>> \/ queue' = Append(queue, Event(n))
            BY <4>4 DEF Answer, ServerAnswers, ServerMissing, ServerOdd, Wake, SystemWakes,
               NetStep, SocketEvents
          <5> QED BY <4>1, <5>1
        <4> QED BY <1>6, <4>3, <4>4
      <3>2. Append(queue, e) = queue \o <<e>> BY SMTT(120), <1>0 DEF Numbers
      <3>3. e.name \notin Causes BY <3>1 DEF SocketEvents, Causes
      <3> QED BY <3>1, <3>2, <3>3
    <2> QED BY <1>0, <2>1, <2>2, CameNoMore
  <1>7. CASE (\E x \in Addrs : ServerChanges(x)) \/ UNCHANGED vars
    <2>1. UNCHANGED <<client, app, queue>> /\ budget'.suspends = budget.suspends
      BY <1>0, <1>7 DEF ServerChanges, vars, Numbers, Budget
    <2>2. PICK o1, o2, p1, p2, r1, r2, k1, k2, b1, b2 \in Nat :
            Parts(o1, p1, r1, k1, b1) /\ PartsAfter(o2, p2, r2, k2, b2)
      BY <1>0, Weighed
    <2> QED BY SMTT(120), <2>1, <2>2 DEF Parts, PartsAfter
  <1> QED BY <1>1, <1>2, <1>3, <1>4, <1>5, <1>6, <1>7 DEF Next

\* Attempts are never multiplied, for any bounds: though ClientApp counts none of
\* its timers (ClientApp.cpp:362) and Client may be suspended and resumed at any
\* moment of an attempt, each step trades one attempt for another at most.
THEOREM NoStormEver == Spec => NoStorm
  <1>1. IInv /\ IInv' /\ [Next]_vars => [Attempts' <= Attempts]_vars
    BY StepNoMore
  <1> QED BY <1>1, InitIInv, NextIInv, PTL DEF Spec, NoStorm
=============================================================================
