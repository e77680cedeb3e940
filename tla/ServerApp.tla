----------------------------- MODULE ServerApp -----------------------------
(***************************************************************************)
(* The life cycle of the server: lib/barrier/ServerApp.cpp on top of       *)
(* ClientListener.                                                         *)
(*                                                                         *)
(* Stopping the server is not one step.  closeServer tells the clients to  *)
(* go and then runs the event loop, inside the handler that asked for the  *)
(* stop, until they are gone or three seconds have passed.  Everything may *)
(* happen in there that happens in the main loop; frames is the stack of   *)
(* these waits.  A kQuit ends the innermost loop.                          *)
(***************************************************************************)
EXTENDS ClientListener

CONSTANTS
    Budgets         \* bounds, each explored by itself: how many clients connect,
                    \* whether with TLS, what the user or the system asks for,
                    \* once each, and how many screens and ports fail

Requests == {"quit", "suspend", "resume", "reset", "reconnect"}

ASSUME BudgetsAssumption ==
    Budgets \subseteq [conns : 0..NumConns, secure : BOOLEAN,
                       asks : SUBSET Requests, fails : Nat]

VARIABLES
    restartable,        \* args().m_restartable
    app,                \* the members of ServerApp
    m_suspended,
    frames,             \* the closeServer calls that wait, innermost last
    running,            \* "loop": in mainLoop's loop(); "close": after it; "exited"
    idle,               \* a start that came to nothing: "no", "refused", "forgotten"
    budget              \* what is left of the bounds

appVars == <<restartable, app, m_suspended, frames, running, idle, budget>>
vars == <<connVars, appVars>>

States == {"kUninitialized", "kInitializing", "kInitializingToStart",
           "kInitialized", "kStarting", "kStarted"}
Retrying == {"kInitializing", "kInitializingToStart", "kStarting"}

\* m_serverState; how many timers call retryHandler; whether there is a screen
\* (and a primary client); whether there is a Server (and a ClientListener).
App == [state : States, timers : 0..1, screen : BOOLEAN, server : BOOLEAN]

\* A wait in closeServer: what asked for it, whether its timer is still to
\* fire, and whether its Server has been deleted by a wait inside it.
Frame == [why : {"suspend", "reset", "exit"}, timer : BOOLEAN, dead : BOOLEAN]

-----------------------------------------------------------------------------
(* initServer and startServer: what they make of a state *)

\* How opening the screen and the port turns out: "wait" is XScreenUnavailable
\* and XSocketAddressInUse, "fail" any other exception.
Tries == [screen : {"ok"}, port : {"ok", "wait", "fail"}]
         \cup [screen : {"wait", "fail"}, port : {"ok"}]

Result(a, ok) == [app |-> a, ok |-> ok]

\* The timer that calls retryHandler.
StartRetryTimer(a, s) == [a EXCEPT !.timers = @ + 1, !.state = s]
StopRetryTimer(a) == [a EXCEPT !.timers = IF @ = 0 THEN 0 ELSE @ - 1]

InitServer(a, try) ==
    IF a.state # "kUninitialized" THEN Result(a, TRUE)
    ELSE IF try.screen = "ok"
    THEN Result([a EXCEPT !.screen = TRUE, !.state = "kInitialized"], TRUE)
    ELSE IF try.screen = "wait" /\ restartable
    THEN Result(StartRetryTimer(a, "kInitializing"), TRUE)
    ELSE Result(a, FALSE)

StartServer(a, try) ==
    LET init == InitServer(a, try) IN
    IF a.state \in {"kStarting", "kStarted"} THEN Result(a, TRUE)
    ELSE IF ~init.ok THEN init
    ELSE IF init.app.state = "kInitializing"
    THEN Result([init.app EXCEPT !.state = "kInitializingToStart"], TRUE)
    ELSE IF try.port = "ok"
    THEN Result([init.app EXCEPT !.server = TRUE, !.state = "kStarted"], TRUE)
    ELSE IF try.port = "wait" /\ restartable
    THEN Result(StartRetryTimer(init.app, "kStarting"), TRUE)
    ELSE Result(init.app, FALSE)

\* retryHandler: the step that had to wait is tried again.  A start that waits
\* for the screen is taken up only when the screen opens at once.
Retry(a, try) ==
    LET back(s) == [StopRetryTimer(a) EXCEPT !.state = s]
        init    == InitServer(back("kUninitialized"), try)
    IN  CASE a.state = "kInitializing" -> init
          [] a.state = "kInitializingToStart" ->
                IF init.app.state = "kInitialized"
                THEN StartServer(init.app, try) ELSE init
          [] a.state = "kStarting" -> StartServer(back("kInitialized"), try)

\* A fault: a server that waits to start keeps its timer when it is stopped.
Fault_StopServer(a) ==
    CASE a.state = "kStarted" -> [a EXCEPT !.server = FALSE, !.state = "kInitialized"]
      [] a.state = "kStarting" -> [a EXCEPT !.state = "kInitialized"]
      [] OTHER -> a

\* stopServer, once nobody has to be waited for.
StopServer(a) ==
    CASE a.state = "kStarted" -> [a EXCEPT !.server = FALSE, !.state = "kInitialized"]
      [] a.state = "kStarting" -> [StopRetryTimer(a) EXCEPT !.state = "kInitialized"]
      [] OTHER -> a

CleanupServer(a) ==
    LET stopped == StopServer(a) IN
    CASE stopped.state = "kInitialized" ->
            [stopped EXCEPT !.screen = FALSE, !.state = "kUninitialized"]
      [] stopped.state \in {"kInitializing", "kInitializingToStart"} ->
            [StopRetryTimer(stopped) EXCEPT !.state = "kUninitialized"]
      [] OTHER -> stopped

\* The failures used up by a try.
Failed(try) == IF try.screen = "ok" /\ try.port = "ok" THEN 0 ELSE 1

\* A try within the bound.
Within(try) == Failed(try) <= budget.fails

\* app becomes a.  When the Server that there was is closed, the clients and
\* the events of it and of the listener go with it.  A screen that opens or
\* closes gives the event queue another buffer, and loses what is in the old
\* one (wiped).
Become(a, closed, wiped, q, events) ==
    LET opened == a.server /\ (closed \/ ~app.server)
        kept   == IF closed THEN Orphaned(q, {"connecting", "connected", "serverGone"})
                  ELSE q
    IN  /\ app' = a
        /\ listener' = a.server
        /\ polled' = (opened \/ (polled /\ ~closed))
        /\ deaf' = (deaf /\ ~closed /\ ~opened)
        /\ queue' = (IF wiped THEN <<>> ELSE kept) \o events
        /\ IF closed
           THEN /\ obj' = DeleteListenersClients(DeleteServersClients(obj))
                /\ peer' = HangUp
                /\ m_newClients' = {} /\ m_waitingClients' = <<>>
                /\ m_clients' = {} /\ m_oldClients' = {}
           ELSE UNCHANGED <<obj, peer, m_newClients, m_waitingClients, m_clients,
                            m_oldClients>>
        /\ UNCHANGED <<secure, restartable>>

\* Why the server may not be started once a start has had the result r.
IdleAfter(r) == IF r.ok THEN "no" ELSE "refused"

-----------------------------------------------------------------------------
(* Stopping *)

\* What is left to do after closeServer, or when there was nothing to close,
\* in handleSuspend, in resetServer and at the end of mainLoop.
Finish(why, closed) ==
    \/ /\ why = "suspend"
       /\ Become(StopServer(app), closed, FALSE, Tail(queue), <<>>)
       /\ m_suspended' = TRUE
       /\ UNCHANGED <<running, idle, budget>>
    \/ /\ why = "reset"
       /\ \E try \in Tries :
            LET r == StartServer(CleanupServer(app), try) IN
            /\ Within(try)
            /\ Become(r.app, closed, app.screen \/ r.app.screen, Tail(queue), <<>>)
            /\ idle' = IdleAfter(r)
            /\ budget' = [budget EXCEPT !.fails = @ - Failed(try)]
       /\ UNCHANGED <<m_suspended, running>>
    \/ /\ why = "exit"
       /\ Become(CleanupServer(app), closed, app.screen, Tail(queue), <<>>)
       /\ running' = "exited"
       /\ UNCHANGED <<m_suspended, idle, budget>>

\* Server::disconnect: the clients are told to go (closeClients), or there are
\* none to tell.
TellClientsToGo ==
    /\ m_oldClients' = m_oldClients \cup m_clients
    /\ m_clients' = {}
    /\ Then(NoClientsLeft(m_clients, m_oldClients))

\* stopServer up to closeServer's wait, if the server is started.
Stop(why) ==
    IF app.state = "kStarted"
    THEN /\ TellClientsToGo
         /\ frames' = Append(frames, [why |-> why, timer |-> TRUE, dead |-> FALSE])
         /\ running' = IF why = "exit" THEN "close" ELSE running
         /\ UNCHANGED <<secure, listener, polled, deaf, peer, obj, m_newClients,
                        m_waitingClients, restartable, app, m_suspended, idle, budget>>
    ELSE Finish(why, FALSE) /\ UNCHANGED frames

HandleSuspend ==
    /\ Takes("suspend")
    /\ IF m_suspended
       THEN Then(<<>>) /\ UNCHANGED <<unknownFrame, peer, obj, restartable, app,
                                      m_suspended, frames, running, idle, budget>>
       ELSE Stop("suspend")
    /\ UNCHANGED broken

ResetServer ==
    /\ Takes("reset")
    /\ Stop("reset")
    /\ UNCHANGED broken

\* A fault: a kQuit ends no loop but the main one.
Fault_HandleQuit ==
    /\ Takes("quit")
    /\ IF frames = <<>> THEN Stop("exit")
       ELSE Then(<<>>) /\ UNCHANGED <<unknownFrame, peer, obj, appVars>>
    /\ UNCHANGED broken

\* A kQuit ends the main loop, or the wait of the innermost closeServer, which
\* then deletes its Server.
HandleQuit ==
    /\ Takes("quit")
    /\ IF frames = <<>>
       THEN Stop("exit") /\ UNCHANGED broken
       ELSE LET n == Len(frames) IN
            /\ frames' = [i \in 1..(n - 1) |-> [frames[i] EXCEPT !.dead = TRUE]]
            /\ IF frames[n].dead
               THEN /\ broken' = "server"
                    /\ Then(<<>>)
                    /\ UNCHANGED <<unknownFrame, peer, obj, restartable, app,
                                   m_suspended, running, idle, budget>>
               ELSE Finish(frames[n].why, TRUE) /\ UNCHANGED broken

\* What the events of the wait, and of the requests, leave alone.
appFrame == <<unknownFrame, peer, obj, broken, restartable, app, m_suspended,
              running, idle, budget>>

\* Server's event: handleNoClients, or handleClientsDisconnected in a wait.
HandleServerGone ==
    /\ Takes("serverGone")
    /\ Then(IF \E i \in DOMAIN frames : ~frames[i].dead THEN <<Plain("quit")>> ELSE <<>>)
    /\ UNCHANGED <<appFrame, frames>>

\* The three seconds of a wait are over: handleClientsDisconnected too.
HandleWaitTimeout ==
    /\ \E i \in DOMAIN frames :
         /\ frames[i].timer
         /\ frames' = [frames EXCEPT ![i].timer = FALSE]
    /\ Post(<<Plain("quit")>>)
    /\ UNCHANGED appFrame

-----------------------------------------------------------------------------
(* Starting *)

HandleResume ==
    /\ Takes("resume")
    /\ IF m_suspended
       THEN \E try \in Tries :
              LET r == StartServer(app, try) IN
              /\ Within(try)
              /\ Become(r.app, FALSE, r.app.screen # app.screen, Tail(queue), <<>>)
              /\ idle' = IdleAfter(r)
              /\ budget' = [budget EXCEPT !.fails = @ - Failed(try)]
       ELSE Then(<<>>) /\ UNCHANGED <<unknownFrame, peer, obj, restartable, app, idle, budget>>
    /\ m_suspended' = FALSE
    /\ UNCHANGED <<broken, frames, running>>

RetryHandler ==
    /\ app.timers > 0
    /\ IF app.state \in Retrying
       THEN /\ \E try \in Tries :
                 LET r == Retry(app, try) IN
                 /\ Within(try)
                 /\ Become(r.app, FALSE, r.app.screen # app.screen, queue,
                           IF r.ok THEN <<>> ELSE <<Plain("quit")>>)
                 /\ idle' = IF app.state = "kInitializingToStart" /\ r.app.state = "kInitializing"
                            THEN "forgotten" ELSE idle
                 /\ budget' = [budget EXCEPT !.fails = @ - Failed(try)]
            /\ UNCHANGED broken
       ELSE /\ broken' = "assertion"
            /\ UNCHANGED <<unknownFrame, peer, obj, queue, restartable, app, idle, budget>>
    /\ UNCHANGED <<m_suspended, frames, running>>

\* forceReconnect; its handler is removed when the main loop has ended.
ForceReconnect ==
    /\ Takes("reconnect")
    /\ IF app.server /\ running = "loop"
       THEN TellClientsToGo
       ELSE Then(<<>>) /\ UNCHANGED <<m_clients, m_oldClients>>
    /\ UNCHANGED <<secure, listener, polled, deaf, m_newClients, m_waitingClients,
                   peer, obj, broken, appVars>>

\* The user or the system asks for something.  Suspend and resume come from the
\* screen.
Ask(r) ==
    /\ r \in budget.asks
    /\ r \in {"suspend", "resume"} => app.screen
    /\ budget' = [budget EXCEPT !.asks = @ \ {r}]
    /\ Post(<<Plain(r)>>)
    /\ UNCHANGED <<unknownFrame, peer, obj, broken, restartable, app, m_suspended,
                   frames, running, idle>>

-----------------------------------------------------------------------------
(* The specification *)

\* mainLoop after startNode: a start that fails for good ends the program.
Init ==
    /\ \E b \in Budgets, try \in Tries :
         /\ restartable \in (IF b.fails = 0 THEN {TRUE} ELSE BOOLEAN)
         /\ secure = b.secure
         /\ Failed(try) <= b.fails
         /\ budget = [b EXCEPT !.fails = @ - Failed(try)]
         /\ LET r == StartServer([state |-> "kUninitialized", timers |-> 0,
                                  screen |-> FALSE, server |-> FALSE], try)
            IN  r.ok /\ app = r.app
    /\ listener = app.server
    /\ polled = app.server
    /\ deaf = FALSE
    /\ peer = [c \in Conns |-> [at |-> "idle", said |-> 0, msg |-> "none"]]
    /\ obj = [c \in Conns |-> NewObject]
    /\ m_newClients = {} /\ m_waitingClients = <<>>
    /\ m_clients = {} /\ m_oldClients = {}
    /\ queue = <<>>
    /\ broken = "no"
    /\ m_suspended = FALSE
    /\ frames = <<>>
    /\ running = "loop"
    /\ idle = "no"

\* After the use of a deleted object, and after the exit, nothing is modelled.
Alive == broken = "no" /\ running # "exited"

\* The main thread takes the next event: a connection's, or the application's.
HandleConnEvent ==
    /\ Alive
    /\ \/ HandleClientConnecting
       \/ HandleClientAccepted
       \/ HandleUnknownClient
       \/ HandleWaitingClientGone
       \/ HandleHello
       \/ HandleUnknownGone
       \/ HandleReady
       \/ HandleInfo
       \/ HandleDisconnect
       \/ HandleClientConnected
       \/ HandleClientDisconnected
       \/ DropEvent
    /\ UNCHANGED appVars

HandleAppEvent ==
    /\ Alive
    /\ \/ HandleServerGone
       \/ HandleQuit
       \/ HandleSuspend
       \/ HandleResume
       \/ ResetServer
       \/ ForceReconnect

HandleEvent == HandleConnEvent \/ HandleAppEvent

\* The main thread serves a timer.
HandshakeTimer(c) == Alive /\ HandleTimeout(c) /\ UNCHANGED appVars
FlatlineTimer(c) == Alive /\ HandleFlatline(c) /\ UNCHANGED appVars
CloseTimer(c) == Alive /\ HandleClientCloseTimeout(c) /\ UNCHANGED appVars
WaitTimer == Alive /\ HandleWaitTimeout
RetryTimer == Alive /\ RetryHandler

\* The service thread and the far ends.
ServiceStep == Alive /\ ServiceListening /\ UNCHANGED appVars
ServiceError ==
    /\ Alive
    /\ budget.fails > 0
    /\ ListenError
    /\ budget' = [budget EXCEPT !.fails = @ - 1]
    /\ UNCHANGED <<restartable, app, m_suspended, frames, running, idle>>
PeerStep(c) ==
    /\ Alive
    /\ (c <= budget.conns /\ PeerConnects(c)) \/ ServiceAccept(c) \/ PeerSends(c) \/ PeerLeaves(c)
    /\ UNCHANGED appVars

Request == Alive /\ \E r \in Requests : Ask(r)

Next ==
    \/ HandleEvent
    \/ \E c \in Conns : HandshakeTimer(c) \/ FlatlineTimer(c) \/ CloseTimer(c) \/ PeerStep(c)
    \/ WaitTimer
    \/ RetryTimer
    \/ ServiceStep
    \/ ServiceError
    \/ Request

\* The main thread goes on as long as there are events, and a timer that is due
\* is served (EventTimers): of a connection's two there is only ever one.
\* Nothing is assumed of the clients or the user.
Fairness ==
    /\ WF_vars(HandleEvent)
    /\ WF_vars(WaitTimer)
    /\ WF_vars(RetryTimer)
    /\ \A c \in Conns : WF_vars(HandshakeTimer(c) \/ CloseTimer(c))

Spec == Init /\ [][Next]_vars /\ Fairness

-----------------------------------------------------------------------------
(* Properties *)

Events == [name : ConnEvents, conn : Conns]
          \cup [name : Requests \cup {"connecting", "connected", "serverGone", "orphan"},
                conn : {0}]

\* The variables have their types.
TypeOK ==
    /\ secure \in BOOLEAN /\ listener \in BOOLEAN /\ polled \in BOOLEAN /\ deaf \in BOOLEAN
    /\ peer \in [Conns -> Peer]
    /\ obj \in [Conns -> Object]
    /\ m_newClients \subseteq Conns
    /\ m_waitingClients \in Seq(Conns)
    /\ m_clients \subseteq Conns /\ m_oldClients \subseteq Conns
    /\ queue \in Seq(Events)
    /\ broken \in {"no", "accepted", "stream", "server", "unknown", "proxy", "assertion"}
    /\ restartable \in BOOLEAN /\ m_suspended \in BOOLEAN
    /\ app \in App
    /\ frames \in Seq(Frame)
    /\ running \in {"loop", "close", "exited"}
    /\ idle \in {"no", "refused", "forgotten"}
    /\ budget \in [conns : 0..NumConns, secure : BOOLEAN, asks : SUBSET Requests, fails : Nat]

Waiting == {m_waitingClients[i] : i \in DOMAIN m_waitingClients}

\* No proxy is deleted twice and retryHandler's assertion on the state holds,
\* whatever the order in which the client answers, leaves and times out and the
\* server is suspended, reset or stopped.  What can happen is left to the other
\* values of broken: "accepted" and "unknown", the handlers that nobody removes
\* (ClientListener.cpp:133, ClientProxyUnknown.cpp:92); "stream", the stream
\* that handleClientDisconnected deletes after its proxy has
\* (ClientListener.cpp:228); "server", the Server that is closed a second time
\* from inside its own closeServer (ServerApp.cpp:353).
OnlyKnownFaults == broken \in {"no", "accepted", "stream", "server", "unknown"}

Queued(name, c) == \E i \in DOMAIN queue : queue[i] = ConnEvent(name, c)

\* As long as the listener lives, no event is dispatched to a handler of a
\* ClientProxyUnknown that is deleted: sendFailure leaves the handlers for its
\* proxy behind, but the events they wait for are ahead of the "failure" that
\* deletes it.
NoEventForDeadUnknown ==
    \A c \in Conns :
        obj[c].unknown = "dead" /\ obj[c].socket = "live" =>
            /\ obj[c].onReady => ~Queued("ready", c)
            /\ obj[c].onGone = "unknown" => ~Queued("proxyGone", c)

\* Deleted objects are left alone.
DeletedLeftAlone == OnlyKnownFaults /\ NoEventForDeadUnknown

\* Who may have a proxy, and whether it has that of c.
Holders == {"unknown", "waiting", "active", "old"}
Holds(h, c) ==
    \/ h = "unknown" /\ obj[c].unknown = "live" /\ obj[c].m_proxy
    \/ h = "waiting" /\ c \in Waiting
    \/ h = "active" /\ c \in m_clients
    \/ h = "old" /\ c \in m_oldClients

\* Every object of a connection has one owner that deletes it: a stream belongs
\* to its ClientProxyUnknown until the proxy has it, a proxy to the unknown
\* client, to the listener's queue or to one of the server's two lists, and all
\* these lists hold only what is live.
OneOwner ==
    broken = "no" =>
        \A c \in Conns :
            LET o == obj[c]
            IN  /\ o.proxy = "live" <=> \E h \in Holders : Holds(h, c)
                /\ \A g, h \in Holders : Holds(g, c) /\ Holds(h, c) => g = h
                /\ o.stream = "live" <=> o.proxy = "live" \/ (o.unknown = "live" /\ o.m_stream)
                /\ o.unknown = "live" <=> c \in m_newClients

\* A socket is deleted, with the listener, only when no stream is left that
\* would read from it, write to it or remove its handlers: the streams do not
\* own their sockets (ClientListener.cpp:152), so ~Server and ~ClientListener
\* must run in stopServer's order.
SocketOutlivesStream ==
    \A c \in Conns : obj[c].stream = "live" => obj[c].socket = "live"

\* Whoever has an object is alive, and so is what the object needs.
Ownership == OneOwner /\ SocketOutlivesStream

\* ServerApp's state says what there is, across suspends, resets and retries
\* that come while a closeServer waits: a retry timer, and one only, exactly in
\* the states that wait; a screen exactly in those that have one; a Server
\* exactly when started.  These are the assertions of stopServer, cleanupServer,
\* retryHandler, initServer and startServer.
StateAgrees ==
    broken = "no" =>
        /\ app.timers = IF app.state \in Retrying THEN 1 ELSE 0
        /\ app.screen <=> app.state \in {"kInitialized", "kStarting", "kStarted"}
        /\ app.server <=> app.state = "kStarted"

\* That, and the variables have their types.
StateOK == TypeOK /\ StateAgrees

\* A server that is running and not suspended listens, or tries to, or is about
\* to stop, unless a resume or a reset could not start it and dropped the result
\* (ServerApp.cpp:735, 922), or a start that waited for the screen had to wait
\* again and was forgotten (ServerApp.cpp:474).
ListensUnlessKnown ==
    broken = "no" /\ running = "loop" /\ frames = <<>> =>
        \/ app.state \in {"kStarted", "kStarting", "kInitializingToStart"}
        \/ m_suspended
        \/ idle # "no"
        \/ \E i \in DOMAIN queue : queue[i].name = "quit"

\* A listener that has not failed goes on accepting: its socket is polled, or
\* the event is under way that has it polled again.
GoesOnAccepting ==
    broken = "no" /\ listener /\ ~deaf =>
        polled \/ \E i \in DOMAIN queue : queue[i].name = "connecting"

\* The server goes on taking in clients.
GoesOnListening == ListensUnlessKnown /\ GoesOnAccepting

\* The server waits for the client: it is in the handshake, or has been told to go.
Awaited(c) == c \in m_newClients \cup m_oldClients

\* No client can hold up the server by what it sends or does not send: within
\* its thirty seconds it leaves the handshake, as a client or dropped; and told
\* to go it leaves m_oldClients, which OneOwner says it does by being deleted.
ClientsMoveOn == \A c \in Conns : []<>(~Awaited(c) \/ broken # "no")

\* Every stop comes to its end: the handler that waits in closeServer returns,
\* though no client obeys, unless a reset that came in the wait has closed the
\* Server and, with the screen, thrown away the kQuit that should have ended it.
StopEnds ==
    frames # <<>> ~> \/ frames = <<>>
                     \/ \E i \in DOMAIN frames : frames[i].dead
                     \/ broken # "no"
=============================================================================
