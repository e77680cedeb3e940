----------------------------- MODULE ClientApp -----------------------------
(***************************************************************************)
(* How a client gets and keeps its connection: the connection of           *)
(* lib/client/Client.cpp and, above it, the restarts, the fallback         *)
(* addresses and the way back to the primary one of                        *)
(* lib/barrier/ClientApp.cpp.                                              *)
(*                                                                         *)
(* The two talk through events, so that ClientApp learns of the end of a   *)
(* connection only when Client may already have begun another, and         *)
(* through timers that nobody keeps count of.  The servers, one for each   *)
(* address, come and go.                                                   *)
(***************************************************************************)
EXTENDS Integers, Sequences, FiniteSets

CONSTANTS
    Addrs,          \* the addresses of servers
    Primary,        \* m_primaryServerAddress
    Advertised,     \* the lists of addresses that a server may send
    Budgets         \* bounds, each explored by itself: suspends, changes of a
                    \* server's state, screens that fail, odd answers of servers,
                    \* timers that overtake events

Budget == [suspends : Nat, changes : Nat, screens : Nat, odd : Nat,
           early : Nat]

ASSUME PrimaryAssumption == Primary \in Addrs
ASSUME AdvertisedAssumption == Advertised \subseteq Seq(Addrs)
ASSUME BudgetsAssumption == Budgets \subseteq Budget

VARIABLES
    restartable,    \* args().m_restartable
    client,         \* the members of Client
    app,            \* the members of ClientApp
    queue,          \* the event queue
    net,            \* how far the server is with the stream of the client
    up,             \* the addresses at which there is a server
    running,        \* the main loop runs
    refused,        \* a start had no screen to open, and its result was dropped
    stale,          \* the app was told of an end when the next stream was there,
                    \* or a stream was opened to an address that it had given up
    budget          \* what is left of the bounds

vars == <<restartable, client, app, queue, net, up, running, refused, stale, budget>>

\* stream: "none" without m_stream; "connecting" until handleConnected; "hello"
\* until handleHello; "server" once there is a ServerProxy.  via: the address
\* that the stream was opened to.
Client ==
    [stream : {"none", "connecting", "hello", "server"}, via : Addrs,
     m_ready : BOOLEAN, m_timer : BOOLEAN, m_suspended : BOOLEAN,
     m_connectOnResume : BOOLEAN, m_serverAddress : Addrs]

\* screen: there is a screen, and a Client; restarts: how many timers call
\* handleClientRestart; probe: there is a m_failbackProbeTimer.
App ==
    [screen : BOOLEAN, restarts : Nat, probe : BOOLEAN, m_serverAddress : Addrs,
     m_fallbacks : Seq(Addrs \ {Primary}), m_usingFallback : BOOLEAN,
     m_currentFallbackIndex : Nat, m_failbackInProgress : BOOLEAN]

SocketEvents == {"connected", "failed", "hello", "badHello", "options", "bye",
                 "refuse", "gone", "addresses"}
ClientEvents == {"clientConnected", "clientFailed", "clientDisconnected",
                 "clientAddresses"}

Events ==
    [name : SocketEvents \cup ClientEvents \cup {"suspend", "resume", "quit", "orphan"},
     list : Advertised \cup {<<>>}]

Event(name) == [name |-> name, list |-> <<>>]

-----------------------------------------------------------------------------
(* Client *)

\* cleanupTimer, cleanupScreen, cleanupConnecting, cleanupConnection and
\* cleanupStream, together, as every handler that ends a connection calls them.
Cleanup(c) == [c EXCEPT !.stream = "none", !.m_ready = FALSE, !.m_timer = FALSE]

\* disconnect, but for its event.
Disconnect(c) == [Cleanup(c) EXCEPT !.m_connectOnResume = FALSE]

\* connect, when the socket can be made and begins to connect.
Opened(c) ==
    [c EXCEPT !.stream = "connecting", !.via = c.m_serverAddress, !.m_timer = TRUE]

\* A fault: a connect while suspended is dropped.
Fault_ConnectOutcomes(c) ==
    IF c.stream # "none" \/ c.m_suspended THEN {[client |-> c, events |-> <<>>, net |-> net]}
    ELSE {[client |-> Opened(c), events |-> <<>>, net |-> "opening"]}

\* connect: nothing if there is a stream; put off while suspended; a new stream;
\* or, if the address does not resolve or the socket fails at once, the event
\* alone.
ConnectOutcomes(c) ==
    CASE c.stream # "none" -> {[client |-> c, events |-> <<>>, net |-> net]}
      [] c.stream = "none" /\ c.m_suspended ->
            {[client |-> [c EXCEPT !.m_connectOnResume = TRUE], events |-> <<>>, net |-> net]}
      [] OTHER ->
            {[client |-> Opened(c), events |-> <<>>, net |-> "opening"]}
            \cup (IF c.m_serverAddress \in up THEN {}
                  ELSE {[client |-> c, events |-> <<Event("clientFailed")>>, net |-> net]})

\* The queue when the stream is deleted: its events have no handler any more.
Orphaned(q) ==
    [i \in DOMAIN q |-> IF q[i].name \in SocketEvents THEN Event("orphan") ELSE q[i]]

-----------------------------------------------------------------------------
(* ClientApp *)

\* A fault: a second timer is made.
Fault_ScheduleClientRestart(a) == [a EXCEPT !.restarts = @ + 2]

ScheduleClientRestart(a) == [a EXCEPT !.restarts = @ + 1]

\* A fault: m_usingFallback is not reset.
Fault_ResetToPrimaryAddress(a) ==
    [a EXCEPT !.m_currentFallbackIndex = 0, !.probe = FALSE, !.m_serverAddress = Primary]

\* resetToPrimaryAddress.
ResetToPrimaryAddress(a) ==
    IF ~a.m_usingFallback THEN a
    ELSE [a EXCEPT !.m_usingFallback = FALSE, !.m_currentFallbackIndex = 0,
                   !.probe = FALSE, !.m_serverAddress = Primary]

\* A fault: it stays with the last fallback address.
Fault_SelectNextAddress(a) ==
    LET next == IF a.m_usingFallback THEN a.m_currentFallbackIndex + 1 ELSE 1 IN
    IF next > Len(a.m_fallbacks) THEN a
    ELSE [a EXCEPT !.m_usingFallback = TRUE, !.m_currentFallbackIndex = next,
                   !.m_serverAddress = a.m_fallbacks[next]]

\* selectNextAddress: the first fallback, the next one, or the primary again.
\* The index counts from one here.
SelectNextAddress(a) ==
    LET next == IF a.m_usingFallback THEN a.m_currentFallbackIndex + 1 ELSE 1 IN
    CASE a.m_fallbacks = <<>> -> a
      [] a.m_fallbacks # <<>> /\ next <= Len(a.m_fallbacks) ->
            [a EXCEPT !.m_usingFallback = TRUE, !.m_currentFallbackIndex = next,
                      !.m_serverAddress = a.m_fallbacks[next]]
      [] OTHER -> ResetToPrimaryAddress(a)

\* What handleServerAddressesReceived, or the cache read at the start, makes of a
\* list: without the primary, and each address once.
NewFallbacks(list) ==
    LET kept[n \in 0..Len(list)] ==
          IF n = 0 THEN <<>>
          ELSE LET ip == list[n]
                   known == kept[n - 1]
               IN  IF ip = Primary \/ \E k \in DOMAIN known : known[k] = ip THEN known
                   ELSE Append(known, ip)
    IN  kept[Len(list)]

ASSUME FallbacksAssumption ==
    \A list \in Advertised \cup {<<>>} : NewFallbacks(list) \in Seq(Addrs \ {Primary})

\* scheduleFailbackProbe.
ScheduleFailbackProbe(a) == [a EXCEPT !.probe = a.m_usingFallback]

\* A fault: the next address is chosen on the way back to the primary as well.
Fault_AfterEnd(a) ==
    ScheduleClientRestart(SelectNextAddress([a EXCEPT !.m_failbackInProgress = FALSE]))

\* handleClientFailed and handleClientDisconnected, for a client that may
\* restart: go back to the primary if that is under way, else try the next
\* address.
AfterEnd(a) ==
    ScheduleClientRestart(IF a.m_failbackInProgress
                          THEN [a EXCEPT !.m_failbackInProgress = FALSE]
                          ELSE SelectNextAddress(a))
-----------------------------------------------------------------------------
(* The main thread: events of the socket, handled by Client and ServerProxy *)

Takes(name) == queue # <<>> /\ Head(queue).name = name
Then(events) == queue' = Tail(queue) \o events

\* The handlers that setupConnecting, setupConnection and, for the messages, the
\* ServerProxy have adopted: the stages of a stream in which an event has one.
Stages(name) ==
    CASE name \in {"connected", "failed"} -> {"connecting"}
      [] name \in {"hello", "badHello"} -> {"hello"}
      [] name = "gone" -> {"hello", "server"}
      [] name = "orphan" -> {}
      [] OTHER -> {"server"}

Receives(name) == Takes(name) /\ client.stream \in Stages(name)

appSide == <<restartable, app, up, running, refused, stale, budget>>

\* handleConnected.
HandleConnected ==
    /\ Receives("connected")
    /\ client' = [client EXCEPT !.stream = "hello"]
    /\ Then(<<>>)
    /\ UNCHANGED <<appSide, net>>

\* A handler that ends the connection and tells ClientApp so:
\* handleConnectionFailed and a Hello that is wrong; handleDisconnected,
\* handleOutputError; and, from ServerProxy, disconnect for a close or a refusal.
EndOn(event, ended, told) ==
    /\ Receives(event)
    /\ client' = ended
    /\ queue' = Orphaned(Tail(queue)) \o <<Event(told)>>
    /\ UNCHANGED <<appSide, net>>

HandleConnectionFailed == EndOn("failed", Cleanup(client), "clientFailed")
HandleBadHello         == EndOn("badHello", Cleanup(client), "clientFailed")
HandleDisconnected     == EndOn("gone", Cleanup(client), "clientDisconnected")
HandleClose            == EndOn("bye", Disconnect(client), "clientDisconnected")
HandleRefusal          == EndOn("refuse", Disconnect(client), "clientFailed")

\* A fault: the timer is kept.
Fault_HandleHello ==
    /\ Receives("hello")
    /\ client' = [client EXCEPT !.stream = "server"]
    /\ Then(<<>>)
    /\ UNCHANGED <<appSide, net>>

\* handleHello: the server proxy takes over from the timer.
HandleHello ==
    /\ Receives("hello")
    /\ client' = [client EXCEPT !.stream = "server", !.m_timer = FALSE]
    /\ Then(<<>>)
    /\ UNCHANGED <<appSide, net>>

\* ServerProxy::parseHandshakeMessage and handshakeComplete.
HandleOptions ==
    /\ Receives("options")
    /\ client' = [client EXCEPT !.m_ready = TRUE]
    /\ Then(<<Event("clientConnected")>>)
    /\ UNCHANGED <<appSide, net>>

\* ServerProxy::serverAddressesReceived and Client::onServerAddressesReceived.
HandleAddresses ==
    /\ Receives("addresses")
    /\ Then(<<[Head(queue) EXCEPT !.name = "clientAddresses"]>>)
    /\ UNCHANGED <<appSide, client, net>>

\* Client::handleSuspend.
HandleSuspend ==
    /\ Takes("suspend")
    /\ client' = [Disconnect(client) EXCEPT !.m_suspended = TRUE,
                                            !.m_connectOnResume = (client.stream = "server")]
    /\ queue' = Orphaned(Tail(queue)) \o <<Event("clientDisconnected")>>
    /\ UNCHANGED <<appSide, net>>

\* Client::handleResume.
HandleResume ==
    /\ Takes("resume")
    /\ LET c == [client EXCEPT !.m_suspended = FALSE, !.m_connectOnResume = FALSE] IN
       \E r \in (IF client.m_connectOnResume THEN ConnectOutcomes(c)
                 ELSE {[client |-> c, events |-> <<>>, net |-> net]}) :
           /\ client' = r.client
           /\ net' = r.net
           /\ Then(r.events)
           /\ stale' = \/ stale
                       \/ r.client.stream # "none" /\ r.client.via # app.m_serverAddress
    /\ UNCHANGED <<restartable, app, up, running, refused, budget>>

\* Timers are served when the buffer has no events (EventQueue::getEvent); the
\* one of X11 does not see those that wait to be sent, and a timer that is due at
\* that moment overtakes them.
Served ==
    IF queue = <<>> THEN {budget}
    ELSE {b \in {[budget EXCEPT !.early = @ - 1]} : b.early >= 0}

\* A server that is not there, or one that is slow, lets a timer fire.
Silence ==
    \E b \in Served :
        \/ client.via \notin up /\ budget' = b
        \/ client.via \in up /\ b.odd > 0 /\ budget' = [b EXCEPT !.odd = @ - 1]

\* handleConnectTimeout.
ConnectTimeout ==
    /\ client.m_timer
    /\ Silence
    /\ client' = Cleanup(client)
    /\ queue' = Orphaned(queue) \o <<Event("clientFailed")>>
    /\ UNCHANGED <<restartable, app, net, up, running, refused, stale>>

\* ServerProxy::handleKeepAliveAlarm.
KeepAliveAlarm ==
    /\ client.stream = "server"
    /\ Silence
    /\ client' = Disconnect(client)
    /\ queue' = Orphaned(queue) \o <<Event("clientFailed")>>
    /\ UNCHANGED <<restartable, app, net, up, running, refused, stale>>

-----------------------------------------------------------------------------
(* The main thread: events of Client, handled by ClientApp *)

HandleClientConnected ==
    /\ Takes("clientConnected")
    /\ LET a == [app EXCEPT !.m_failbackInProgress = FALSE]
       IN  app' = IF a.m_usingFallback THEN ScheduleFailbackProbe(a) ELSE a
    /\ Then(<<>>)
    /\ UNCHANGED <<restartable, client, net, up, running, refused, stale, budget>>

\* handleClientFailed and handleClientDisconnected; the second takes away the
\* probe first.  A new address goes to the Client as well, if it resolves.
HandleEnd ==
    /\ Takes("clientFailed") \/ Takes("clientDisconnected")
    /\ LET a == IF Takes("clientFailed") THEN app ELSE [app EXCEPT !.probe = FALSE]
       IN  IF restartable
           THEN /\ app' = AfterEnd(a)
                /\ \/ /\ ~a.m_failbackInProgress /\ a.m_fallbacks # <<>>
                      /\ client' = [client EXCEPT !.m_serverAddress = app'.m_serverAddress]
                   \/ /\ \/ a.m_failbackInProgress \/ a.m_fallbacks = <<>>
                         \/ app'.m_serverAddress \notin up
                      /\ UNCHANGED client
                /\ Then(<<>>)
           ELSE /\ app' = a
                /\ Then(<<Event("quit")>>)
                /\ UNCHANGED client
    /\ stale' = (stale \/ client.stream # "none")
    /\ UNCHANGED <<restartable, net, up, running, refused, budget>>

\* handleServerAddressesReceived: a list without new addresses changes nothing.
HandleServerAddresses ==
    /\ Takes("clientAddresses")
    /\ LET new == NewFallbacks(Head(queue).list)
       IN  app' = [app EXCEPT !.m_fallbacks = IF new = <<>> THEN @ ELSE new]
    /\ Then(<<>>)
    /\ UNCHANGED <<restartable, client, net, up, running, refused, stale, budget>>

\* startClient, from handleClientRestart, and at the start: the screen first if
\* there is none (it gives the event queue a new buffer), then connect.
StartClient(a) ==
    \/ /\ \E r \in ConnectOutcomes([client EXCEPT !.m_serverAddress = a.m_serverAddress]) :
            /\ client' = r.client
            /\ net' = r.net
            /\ queue' = (IF a.screen THEN queue ELSE <<>>) \o r.events
       /\ app' = [a EXCEPT !.screen = TRUE]
       /\ budget' \in Served
       /\ UNCHANGED refused
    \/ /\ ~a.screen /\ queue = <<>>
       /\ budget.screens > 0
       /\ budget' = [budget EXCEPT !.screens = @ - 1]
       /\ \/ restartable /\ app' = ScheduleClientRestart(a) /\ UNCHANGED refused
          \/ app' = a /\ refused' = TRUE
       /\ UNCHANGED <<client, net, queue>>

HandleClientRestart ==
    /\ app.restarts > 0
    /\ StartClient([app EXCEPT !.restarts = @ - 1])
    /\ UNCHANGED <<restartable, up, running, stale>>

\* handleFailbackProbe: with the primary back, leave the fallback for it.
HandleFailbackProbe ==
    /\ app.probe
    /\ LET a == [app EXCEPT !.probe = FALSE] IN
       IF app.m_usingFallback /\ client.stream = "server"
       THEN IF Primary \in up
            THEN /\ app' = [ResetToPrimaryAddress(a) EXCEPT !.m_failbackInProgress = TRUE]
                 /\ client' = [Disconnect(client) EXCEPT !.m_serverAddress = Primary]
                 /\ queue' = Orphaned(queue) \o <<Event("clientDisconnected")>>
            ELSE /\ app' = ScheduleFailbackProbe(a)
                 /\ UNCHANGED <<client, queue>>
       ELSE app' = a /\ UNCHANGED <<client, queue>>
    /\ budget' \in Served
    /\ UNCHANGED <<restartable, net, up, running, refused, stale>>

\* The end of the loop; stopClient deletes everything.
HandleQuit ==
    /\ Takes("quit")
    /\ running' = FALSE
    /\ Then(<<>>)
    /\ UNCHANGED <<restartable, client, app, net, up, refused, stale, budget>>

\* An event without a handler.
DropEvent ==
    /\ queue # <<>>
    /\ Head(queue).name \in SocketEvents \cup {"orphan"}
    /\ client.stream \notin Stages(Head(queue).name)
    /\ Then(<<>>)
    /\ UNCHANGED <<appSide, client, net>>
-----------------------------------------------------------------------------
(* The servers, the network and the system *)

\* What a server, or the want of one, does to the stream of the client.
NetStep(from, to, events) ==
    /\ client.stream # "none"
    /\ net = from
    /\ net' = to
    /\ queue' = queue \o events
    /\ UNCHANGED <<appSide, client>>

\* The server at the address takes the connection, says hello, and, once the
\* client has answered, sends its options.
ServerAnswers ==
    /\ client.via \in up
    /\ \/ NetStep("opening", "open", <<Event("connected")>>)
       \/ NetStep("open", "said", <<Event("hello")>>)
       \/ client.stream = "server" /\ NetStep("said", "ready", <<Event("options")>>)

\* It sends its addresses with the options (Server::sendServerAddresses), those
\* of the primary among them or not.
ServerAdvertises ==
    /\ client.via \in up
    /\ net = "ready"
    /\ \E l \in Advertised : NetStep("ready", "listed", <<[name |-> "addresses", list |-> l]>>)

\* No server: the connection is refused, or it ends.
ServerMissing ==
    /\ client.via \notin up
    /\ \/ NetStep("opening", "closed", <<Event("failed")>>)
       \/ \E from \in {"open", "said", "ready", "listed"} :
              NetStep(from, "closed", <<Event("gone")>>)

\* A server that says something else than hello, closes the connection or
\* refuses the client.
ServerOdd ==
    /\ client.via \in up
    /\ budget.odd > 0
    /\ budget' = [budget EXCEPT !.odd = @ - 1]
    /\ client.stream # "none"
    /\ net' = "closed"
    /\ \/ net = "open" /\ queue' = Append(queue, Event("badHello"))
       \/ /\ net \in {"said", "ready", "listed"} /\ client.stream = "server"
          /\ \E e \in {"bye", "refuse"} : queue' = Append(queue, Event(e))
    /\ UNCHANGED <<restartable, client, app, up, running, refused, stale>>

\* A server starts or stops.
ServerChanges(x) ==
    /\ budget.changes > 0
    /\ budget' = [budget EXCEPT !.changes = @ - 1]
    /\ up' = IF x \in up THEN up \ {x} ELSE up \cup {x}
    /\ UNCHANGED <<restartable, client, app, queue, net, running, refused, stale>>

Has(q, names) == \E i \in DOMAIN q : q[i].name \in names

Queued(names) == Has(queue, names)

\* What the system last said: the handlers may be behind.
Awake ==
    \/ ~client.m_suspended /\ ~Queued({"suspend"})
    \/ \E i \in DOMAIN queue :
         /\ queue[i].name = "resume"
         /\ \A j \in DOMAIN queue : j > i => queue[j].name # "suspend"

\* The system goes to sleep and wakes up.
SystemSleeps ==
    /\ app.screen /\ Awake
    /\ budget.suspends > 0
    /\ budget' = [budget EXCEPT !.suspends = @ - 1]
    /\ queue' = Append(queue, Event("suspend"))
    /\ UNCHANGED <<restartable, client, app, net, up, running, refused, stale>>

SystemWakes ==
    /\ ~Awake
    /\ queue' = Append(queue, Event("resume"))
    /\ UNCHANGED <<restartable, client, app, net, up, running, refused, stale, budget>>

-----------------------------------------------------------------------------
(* The specification *)

\* The members as the constructors leave them.
NewClient ==
    [stream |-> "none", via |-> Primary, m_ready |-> FALSE, m_timer |-> FALSE,
     m_suspended |-> FALSE, m_connectOnResume |-> FALSE, m_serverAddress |-> Primary]

NewApp(list) ==
    [screen |-> FALSE, restarts |-> 0, probe |-> FALSE, m_serverAddress |-> Primary,
     m_fallbacks |-> NewFallbacks(list), m_usingFallback |-> FALSE, m_currentFallbackIndex |-> 0,
     m_failbackInProgress |-> FALSE]

\* mainLoop after startNode: the program ends if startClient returns false.
Init ==
    /\ restartable \in BOOLEAN
    /\ up \in SUBSET Addrs
    /\ running = TRUE
    /\ refused = FALSE
    /\ stale = FALSE
    /\ \E list \in Advertised \cup {<<>>}, b \in Budgets :
         \/ /\ app = [NewApp(list) EXCEPT !.screen = TRUE]
            /\ budget = b
            /\ \/ client = Opened(NewClient) /\ net = "opening" /\ queue = <<>>
               \/ /\ Primary \notin up
                  /\ client = NewClient /\ net = "closed"
                  /\ queue = <<Event("clientFailed")>>
         \/ /\ restartable /\ b.screens > 0
            /\ app = ScheduleClientRestart(NewApp(list))
            /\ budget = [b EXCEPT !.screens = @ - 1]
            /\ client = NewClient /\ net = "closed" /\ queue = <<>>

HandleEvent ==
    /\ running
    /\ \/ HandleConnected
       \/ HandleConnectionFailed
       \/ HandleBadHello
       \/ HandleDisconnected
       \/ HandleClose
       \/ HandleRefusal
       \/ HandleHello
       \/ HandleOptions
       \/ HandleAddresses
       \/ HandleSuspend
       \/ HandleResume
       \/ HandleClientConnected
       \/ HandleEnd
       \/ HandleServerAddresses
       \/ HandleQuit
       \/ DropEvent

ConnectTimer == running /\ ConnectTimeout
AlarmTimer == running /\ KeepAliveAlarm
RestartTimer == running /\ HandleClientRestart
ProbeTimer == running /\ HandleFailbackProbe
Answer == running /\ ServerAnswers
Wake == running /\ SystemWakes

Next ==
    \/ HandleEvent
    \/ ConnectTimer
    \/ AlarmTimer
    \/ RestartTimer
    \/ ProbeTimer
    \/ Answer
    \/ Wake
    \/ running /\ (ServerAdvertises \/ ServerMissing \/ ServerOdd \/ SystemSleeps)
    \/ running /\ \E x \in Addrs : ServerChanges(x)

\* The main thread goes on, timers that are due are served, a server that is
\* there answers, and a system that sleeps wakes up.
Fairness ==
    /\ WF_vars(HandleEvent)
    /\ WF_vars(ConnectTimer)
    /\ WF_vars(AlarmTimer)
    /\ WF_vars(RestartTimer)
    /\ WF_vars(ProbeTimer)
    /\ WF_vars(Answer)
    /\ WF_vars(Wake)

Spec == Init /\ [][Next]_vars /\ Fairness
-----------------------------------------------------------------------------
(* Properties *)

\* The variables have their types.
TypeOK ==
    /\ restartable \in BOOLEAN
    /\ client \in Client
    /\ app \in App
    /\ queue \in Seq(Events)
    /\ net \in {"opening", "open", "said", "ready", "listed", "closed"}
    /\ up \subseteq Addrs
    /\ running \in BOOLEAN /\ refused \in BOOLEAN /\ stale \in BOOLEAN
    /\ budget \in Budget

\* A client that may restart never comes to rest without a connection: there is
\* a stream, a restart timer, a connect that waits for the system to wake up, or
\* an event that ends in one of these.  It is the only thing that starts the
\* next attempt (ClientApp.cpp:362), since no timer watches over the others.
NotForgotten ==
    running /\ restartable /\ ~refused =>
        \/ client.stream # "none"
        \/ app.restarts > 0
        \/ client.m_suspended /\ client.m_connectOnResume
        \/ Queued({"clientFailed", "clientDisconnected"})

\* An attempt is watched by the four-second timer exactly until the server has
\* said hello, from where the keep-alive alarm watches (Client.cpp:564, 757).
AttemptTimed == client.m_timer <=> client.stream \in {"connecting", "hello"}

\* That, and the variables have their types.
ClientOK == TypeOK /\ AttemptTimed

\* A client that is connected through a fallback address looks out for the
\* primary server, unless the end of an earlier connection was reported to it
\* after the next one had begun (ClientApp.cpp:442).
ProbeArmed ==
    running /\ client.m_ready /\ client.via # Primary /\ ~stale =>
        app.probe \/ Queued({"clientConnected"})

\* With the same exception, ClientApp knows where its client is connected.
AddressAgrees ==
    client.m_ready /\ ~stale => (app.m_usingFallback <=> client.via # Primary)

\* A client on a fallback address is known to be on one.
KnowsServer == AddressAgrees /\ ProbeArmed

\* The attempts that are under way or will be made: a stream, timers, a connect
\* put off, ends to be handled and, for each time the system goes to sleep, one.
Attempts ==
    (IF client.stream = "none" THEN 0 ELSE 1)
    + (IF client.m_connectOnResume THEN 1 ELSE 0)
    + app.restarts
    + Cardinality({i \in DOMAIN queue :
                     queue[i].name \in {"clientFailed", "clientDisconnected", "suspend"}})
    + budget.suspends

\* Attempts are never multiplied: though nobody counts the timers or takes one
\* away, an end makes one restart, a restart one stream or one end, and only a
\* suspend adds an attempt to that (ClientApp.cpp:362, Client.cpp:773).
NoStorm == [][Attempts' <= Attempts]_vars

Reachable == ({Primary} \cup {app.m_fallbacks[i] : i \in DOMAIN app.m_fallbacks}) \cap up # {}

\* The client gets its connection whenever one of the addresses it knows has a
\* server, whatever happened before: it goes round all the addresses.
Reconnects ==
    []<>(client.m_ready \/ ~Reachable \/ client.m_suspended \/ ~running
         \/ ~restartable \/ refused)

\* A client on a fallback address goes back to the primary server once that is
\* there to stay, with the exception above.
FailsBack ==
    client.m_ready /\ client.via # Primary /\ Primary \in up /\ ~stale
        ~> \/ client.m_ready /\ client.via = Primary
           \/ Primary \notin up \/ stale \/ client.m_suspended \/ ~running
=============================================================================
