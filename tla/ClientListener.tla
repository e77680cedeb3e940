--------------------------- MODULE ClientListener ---------------------------
(***************************************************************************)
(* How the server takes in a client: lib/server/ClientListener.cpp,        *)
(* ClientProxyUnknown.cpp and ClientProxy1_0.cpp, the listening socket of  *)
(* lib/net/TCPListenSocket.cpp and SecureListenSocket.cpp, and the two     *)
(* lists of clients of lib/server/Server.cpp.                              *)
(*                                                                         *)
(* Every connection goes through four objects that are made and deleted at *)
(* different places: the socket, the packet stream on it, the              *)
(* ClientProxyUnknown of the handshake and the ClientProxy.  Who deletes   *)
(* which depends on the order of the events in the queue, and so does      *)
(* which object the handler of an event belongs to.  Events are handled    *)
(* one at a time, in order; a timer's event does not go through the queue. *)
(* An event without a handler is dropped, so that of an object that has    *)
(* removed its handlers may be taken from the queue at once.               *)
(***************************************************************************)
EXTENDS Integers, Sequences

CONSTANTS
    NumConns        \* bound: connections in the life of the process

ASSUME NumConnsAssumption == NumConns \in Nat \ {0}

Conns == 1..NumConns

VARIABLES
    secure,             \* security_level_ is not PLAINTEXT
    listener,           \* there is a ClientListener
    polled,             \* its listening socket has a job in the multiplexer
    deaf,               \* an accept, or the listening socket itself, has failed
    peer,               \* the far end of each connection
    obj,                \* the objects of each connection, and their handlers
    m_newClients,
    m_waitingClients,
    m_clients,          \* Server's clients, without the primary one
    m_oldClients,       \* Server's clients that have been told to go
    queue,              \* the event queue
    broken              \* an object was used after it was deleted: "no", or which

connVars == <<secure, listener, polled, deaf, peer, obj, m_newClients,
              m_waitingClients, m_clients, m_oldClients, queue, broken>>

Life == {"none", "live", "dead"}

Object ==
    [socket        : Life,      \* in m_clientSockets as long as it is live
     closed        : BOOLEAN,   \* by this end
     onAccepted    : BOOLEAN,   \* handler of the listener for "accepted"
     stream        : Life,
     streamHandler : {"none", "unknown", "proxy"},
     unknown       : Life,
     m_stream      : BOOLEAN,   \* ClientProxyUnknown's pointers, flag and timer
     m_proxy       : BOOLEAN,
     m_ready       : BOOLEAN,
     m_timer       : BOOLEAN,
     proxy         : Life,
     heartbeat     : BOOLEAN,   \* the proxy has a heartbeat timer
     onReady       : BOOLEAN,   \* handler of the unknown for the proxy's "ready"
     onGone        : {"none", "unknown", "listener", "server"}]

NewObject ==
    [socket |-> "none", closed |-> FALSE, onAccepted |-> FALSE,
     stream |-> "none", streamHandler |-> "none",
     unknown |-> "none", m_stream |-> FALSE, m_proxy |-> FALSE,
     m_ready |-> FALSE, m_timer |-> FALSE,
     proxy |-> "none", heartbeat |-> FALSE, onReady |-> FALSE, onGone |-> "none"]

\* at: where the connection is; said: messages the peer has sent; msg: the one
\* that is not read yet.
Peer == [at : {"idle", "calling", "shaking", "open", "gone"},
         said : 0..2, msg : {"none", "good", "bad"}]

ConnEvents == {"accepted", "input", "shutdown", "ready", "proxyGone", "success",
               "failure"}

ConnEvent(name, c) == [name |-> name, conn |-> c]
Plain(name) == ConnEvent(name, 0)

-----------------------------------------------------------------------------
(* What the methods do to the objects of a connection *)

\* ClientProxyUnknown::removeHandlers.
UnknownRemovesHandlers(o) ==
    [o EXCEPT !.streamHandler = IF o.m_stream THEN "none" ELSE @,
              !.onReady       = @ /\ ~o.m_proxy,
              !.onGone        = IF o.m_proxy THEN "none" ELSE @]

\* ~ClientProxy1_0 and ~ClientProxy: handlers, timer, and the stream.
DeleteProxy(o) ==
    [o EXCEPT !.proxy = "dead", !.stream = "dead", !.streamHandler = "none",
              !.heartbeat = FALSE]

\* ClientProxy1_0::disconnect, but for its event "proxyGone".
Disconnect(o) ==
    [o EXCEPT !.streamHandler = "none", !.heartbeat = FALSE, !.closed = TRUE]

\* ClientProxyUnknown::sendFailure, but for its event.  The proxy is gone when
\* removeHandlers looks for it: its handlers stay.
SendFailure(o) ==
    LET rest == IF o.m_proxy THEN DeleteProxy(o) ELSE o
    IN  UnknownRemovesHandlers([rest EXCEPT !.m_proxy = FALSE, !.m_ready = FALSE,
                                            !.m_timer = FALSE])

\* ~ClientProxyUnknown.
DeleteUnknown(o) ==
    LET rest == UnknownRemovesHandlers(o)
        left == IF o.m_proxy THEN DeleteProxy(rest) ELSE rest
    IN  [left EXCEPT !.stream  = IF o.m_stream THEN "dead" ELSE @,
                     !.unknown = "dead",
                     !.m_timer = FALSE]

\* A fault: the ClientProxyUnknown has no timer.
Fault_NewUnknown(o) ==
    [o EXCEPT !.onAccepted = FALSE, !.stream = "live", !.streamHandler = "unknown",
              !.unknown = "live", !.m_stream = TRUE]

\* handleClientAccepted: the stream and the ClientProxyUnknown on it.
NewUnknown(o) ==
    [o EXCEPT !.onAccepted = FALSE, !.stream = "live", !.streamHandler = "unknown",
              !.unknown = "live", !.m_stream = TRUE, !.m_timer = TRUE]

\* ClientProxyUnknown::handleData: the stream goes to a new proxy.
NewProxy(o) ==
    [o EXCEPT !.proxy = "live", !.streamHandler = "proxy", !.m_stream = FALSE,
              !.m_proxy = TRUE, !.onReady = TRUE, !.onGone = "unknown"]

Set(c, o) == obj' = [obj EXCEPT ![c] = o]

Post(events) == queue' = queue \o events

\* The events in q of what has just been deleted have no handler any more.
Orphaned(q, names) ==
    [i \in DOMAIN q |-> IF q[i].name \in names THEN Plain("orphan") ELSE q[i]]

Takes(name) == queue # <<>> /\ Head(queue).name = name
This == Head(queue).conn
Then(events) == queue' = Tail(queue) \o events

-----------------------------------------------------------------------------
(* The far end and the service thread *)

\* A client connects while the socket listens; the ones before it have.
PeerConnects(c) ==
    /\ listener /\ ~deaf
    /\ peer[c].at = "idle"
    /\ \A d \in 1..(c - 1) : peer[d].at # "idle"
    /\ peer' = [peer EXCEPT ![c].at = "calling"]
    /\ UNCHANGED <<secure, listener, polled, deaf, obj, m_newClients,
                   m_waitingClients, m_clients, m_oldClients, queue, broken>>

\* TCPListenSocket::serviceListening: one event, and no more polling until the
\* main thread has accepted.
ServiceListening ==
    /\ polled
    /\ \E c \in Conns : peer[c].at = "calling"
    /\ polled' = FALSE
    /\ Post(<<Plain("connecting")>>)
    /\ UNCHANGED <<secure, listener, deaf, peer, obj, m_newClients,
                   m_waitingClients, m_clients, m_oldClients, broken>>

\* The same when the socket has an error: it is closed.
ListenError ==
    /\ polled
    /\ polled' = FALSE
    /\ deaf' = TRUE
    /\ UNCHANGED <<secure, listener, peer, obj, m_newClients, m_waitingClients,
                   m_clients, m_oldClients, queue, broken>>

\* The service thread is through with SecureSocket::secureAccept: the socket
\* says that it is accepted, or a failure that nobody listens to.
ServiceAccept(c) ==
    /\ peer[c].at = "shaking"
    /\ obj[c].socket = "live"
    /\ \/ /\ peer' = [peer EXCEPT ![c].at = "open"]
          /\ Post(<<ConnEvent("accepted", c)>>)
       \/ /\ peer' = [peer EXCEPT ![c].at = "gone"]
          /\ UNCHANGED queue
    /\ UNCHANGED <<secure, listener, polled, deaf, obj, m_newClients,
                   m_waitingClients, m_clients, m_oldClients, broken>>

\* The client answers the Hello of the ClientProxyUnknown, or the QInfo of its
\* proxy, with what was asked for or with something else.
PeerSends(c) ==
    /\ peer[c].at = "open" /\ peer[c].msg = "none"
    /\ obj[c].socket = "live" /\ ~obj[c].closed
    /\ \/ peer[c].said = 0 /\ obj[c].unknown # "none"
       \/ peer[c].said = 1 /\ obj[c].proxy # "none"
    /\ \E m \in {"good", "bad"} :
           peer' = [peer EXCEPT ![c].said = @ + 1, ![c].msg = m]
    /\ Post(<<ConnEvent("input", c)>>)
    /\ UNCHANGED <<secure, listener, polled, deaf, obj, m_newClients,
                   m_waitingClients, m_clients, m_oldClients, broken>>

\* The client goes, and the socket, if it is open, says so once.
PeerLeaves(c) ==
    /\ peer[c].at = "open"
    /\ peer' = [peer EXCEPT ![c].at = "gone"]
    /\ Post(IF obj[c].socket = "live" /\ ~obj[c].closed
            THEN <<ConnEvent("shutdown", c)>> ELSE <<>>)
    /\ UNCHANGED <<secure, listener, polled, deaf, obj, m_newClients,
                   m_waitingClients, m_clients, m_oldClients, broken>>

-----------------------------------------------------------------------------
(* ClientListener *)

\* A fault: a socket without a certificate is deleted before the job is set.
Fault_HandleClientConnecting ==
    /\ Takes("connecting")
    /\ \E c \in Conns :
        /\ peer[c].at = "calling"
        /\ peer' = [peer EXCEPT ![c].at = "gone"]
        /\ Set(c, [obj[c] EXCEPT !.socket = "dead"])
    /\ Then(<<>>)
    /\ UNCHANGED <<secure, listener, polled, deaf, m_newClients, m_waitingClients,
                   m_clients, m_oldClients, broken>>

\* handleClientConnecting, with TCPListenSocket::accept or
\* SecureListenSocket::accept in it.  accept() may give a socket, throw, which
\* leaves the listening socket without its job, or, for want of a certificate,
\* delete the socket after the job is set.  Without TLS the client is accepted
\* at once.
HandleClientConnecting ==
    /\ Takes("connecting")
    /\ \E c \in Conns :
        /\ peer[c].at = "calling"
        /\ \A d \in 1..(c - 1) : peer[d].at # "calling"
        /\ \/ /\ polled' = TRUE
              /\ peer' = [peer EXCEPT ![c].at = IF secure THEN "shaking" ELSE "open"]
              /\ Set(c, [obj[c] EXCEPT !.socket = "live", !.onAccepted = TRUE])
              /\ Then(IF secure THEN <<>> ELSE <<ConnEvent("accepted", c)>>)
              /\ UNCHANGED deaf
           \/ /\ deaf' = TRUE
              /\ peer' = [peer EXCEPT ![c].at = "gone"]
              /\ Then(<<>>)
              /\ UNCHANGED <<polled, obj>>
           \/ /\ secure
              /\ polled' = TRUE
              /\ peer' = [peer EXCEPT ![c].at = "gone"]
              /\ Set(c, [obj[c] EXCEPT !.socket = "dead"])
              /\ Then(<<>>)
              /\ UNCHANGED deaf
    /\ UNCHANGED <<secure, listener, m_newClients, m_waitingClients, m_clients,
                   m_oldClients, broken>>

\* handleClientAccepted.  The handler stays when the socket is deleted: it is
\* then one of a listener that is deleted too.
HandleClientAccepted ==
    /\ Takes("accepted")
    /\ LET c == This IN
       /\ obj[c].onAccepted
       /\ IF obj[c].socket = "live"
          THEN /\ Set(c, NewUnknown(obj[c]))
               /\ m_newClients' = m_newClients \cup {c}
               /\ UNCHANGED broken
          ELSE /\ broken' = "accepted"
               /\ UNCHANGED <<obj, m_newClients>>
    /\ Then(<<>>)
    /\ UNCHANGED <<secure, listener, polled, deaf, peer, m_waitingClients,
                   m_clients, m_oldClients>>

\* A fault: the ClientProxyUnknown keeps its pointer to the proxy it gives away.
Fault_HandleUnknownClient ==
    /\ Takes("success") \/ Takes("failure")
    /\ LET c == This
           o == obj[c]
       IN /\ o.unknown = "live"
          /\ m_newClients' = m_newClients \ {c}
          /\ Set(c, DeleteUnknown(UnknownRemovesHandlers(o)))
          /\ m_waitingClients' = IF o.m_ready /\ o.m_proxy
                                 THEN Append(m_waitingClients, c) ELSE m_waitingClients
    /\ Then(<<Plain("connected")>>)
    /\ UNCHANGED <<secure, listener, polled, deaf, peer, m_clients, m_oldClients,
                   broken>>

\* handleUnknownClient, for "success" and for "failure": the handlers are there
\* as long as the ClientProxyUnknown is.
HandleUnknownClient ==
    /\ Takes("success") \/ Takes("failure")
    /\ LET c    == This
           o    == obj[c]
           kept == o.m_ready /\ o.m_proxy
           left == IF o.m_ready
                   THEN [UnknownRemovesHandlers(o) EXCEPT !.m_proxy = FALSE]
                   ELSE o
       IN /\ o.unknown = "live"
          /\ m_newClients' = m_newClients \ {c}
          /\ IF kept
             THEN /\ m_waitingClients' = Append(m_waitingClients, c)
                  /\ Set(c, DeleteUnknown([left EXCEPT !.onGone = "listener"]))
                  /\ Then(<<Plain("connected")>>)
             ELSE /\ Set(c, DeleteUnknown([left EXCEPT !.closed = @ \/ o.m_stream]))
                  /\ Then(<<>>)
                  /\ UNCHANGED m_waitingClients
    /\ UNCHANGED <<secure, listener, polled, deaf, peer, m_clients, m_oldClients,
                   broken>>

\* handleClientDisconnected: the proxy deletes its stream, and what was "pulled
\* out before" is that stream.
HandleWaitingClientGone ==
    /\ Takes("proxyGone")
    /\ obj[This].onGone = "listener"
    /\ \E i \in DOMAIN m_waitingClients :
         /\ m_waitingClients[i] = This
         /\ m_waitingClients' = SubSeq(m_waitingClients, 1, i - 1)
                  \o SubSeq(m_waitingClients, i + 1, Len(m_waitingClients))
    /\ Set(This, DeleteProxy([obj[This] EXCEPT !.onGone = "none"]))
    /\ broken' = "stream"
    /\ Then(<<>>)
    /\ UNCHANGED <<secure, listener, polled, deaf, peer, m_newClients, m_clients,
                   m_oldClients>>

-----------------------------------------------------------------------------
(* ClientProxyUnknown *)

\* What the handlers of an unknown client leave alone.
unknownFrame == <<secure, listener, polled, deaf, m_newClients, m_waitingClients,
                  m_clients, m_oldClients>>

\* handleData: a client that says what it should gets a proxy.
HandleHello ==
    /\ Takes("input")
    /\ LET c == This IN
       /\ obj[c].streamHandler = "unknown"
       /\ peer' = [peer EXCEPT ![c].msg = "none"]
       /\ IF peer[c].msg = "good"
          THEN /\ Set(c, NewProxy(UnknownRemovesHandlers(obj[c])))
               /\ Then(<<>>)
          ELSE /\ Set(c, SendFailure(obj[c]))
               /\ Then(<<ConnEvent("failure", c)>>)
    /\ UNCHANGED <<unknownFrame, broken>>

\* handleDisconnect, for the stream's end and for the proxy's, and
\* handleWriteError.
HandleUnknownGone ==
    /\ \/ Takes("shutdown") /\ obj[This].streamHandler = "unknown"
       \/ Takes("proxyGone") /\ obj[This].onGone = "unknown"
    /\ IF obj[This].unknown = "live"
       THEN /\ Set(This, SendFailure(obj[This]))
            /\ Then(<<ConnEvent("failure", This)>>)
            /\ UNCHANGED broken
       ELSE /\ broken' = "unknown"
            /\ Then(<<>>)
            /\ UNCHANGED obj
    /\ UNCHANGED <<unknownFrame, peer>>

\* handleReady, and sendSuccess.
HandleReady ==
    /\ Takes("ready")
    /\ obj[This].onReady
    /\ IF obj[This].unknown = "live"
       THEN /\ Set(This, [obj[This] EXCEPT !.m_ready = TRUE, !.m_timer = FALSE])
            /\ Then(<<ConnEvent("success", This)>>)
            /\ UNCHANGED broken
       ELSE /\ broken' = "unknown"
            /\ Then(<<>>)
            /\ UNCHANGED obj
    /\ UNCHANGED <<unknownFrame, peer>>

\* A fault: the unknown client is deleted at once, not by its "failure".
Fault_HandleTimeout(c) ==
    /\ obj[c].m_timer
    /\ Set(c, DeleteUnknown(SendFailure(obj[c])))
    /\ m_newClients' = m_newClients \ {c}
    /\ UNCHANGED <<secure, listener, polled, deaf, m_waitingClients, m_clients,
                   m_oldClients, queue, peer, broken>>

\* handleTimeout: thirty seconds without an answer.
HandleTimeout(c) ==
    /\ obj[c].m_timer
    /\ Set(c, SendFailure(obj[c]))
    /\ Post(<<ConnEvent("failure", c)>>)
    /\ UNCHANGED <<unknownFrame, peer, broken>>

-----------------------------------------------------------------------------
(* ClientProxy1_0 *)

\* handleData in the handshake: the client's information makes it ready, and
\* starts the heartbeat; anything else ends the connection.
HandleInfo ==
    /\ Takes("input")
    /\ LET c == This IN
       /\ obj[c].streamHandler = "proxy"
       /\ peer' = [peer EXCEPT ![c].msg = "none"]
       /\ IF peer[c].msg = "good"
          THEN /\ Set(c, [obj[c] EXCEPT !.heartbeat = TRUE])
               /\ Then(<<ConnEvent("ready", c)>>)
          ELSE /\ Set(c, Disconnect(obj[c]))
               /\ Then(<<ConnEvent("proxyGone", c)>>)
    /\ UNCHANGED <<unknownFrame, broken>>

\* handleDisconnect and handleWriteError.
HandleDisconnect ==
    /\ Takes("shutdown")
    /\ obj[This].streamHandler = "proxy"
    /\ Set(This, Disconnect(obj[This]))
    /\ Then(<<ConnEvent("proxyGone", This)>>)
    /\ UNCHANGED <<unknownFrame, peer, broken>>

\* handleFlatline.
HandleFlatline(c) ==
    /\ obj[c].heartbeat
    /\ Set(c, Disconnect(obj[c]))
    /\ Post(<<ConnEvent("proxyGone", c)>>)
    /\ UNCHANGED <<unknownFrame, peer, broken>>

-----------------------------------------------------------------------------
(* Server: its clients come and go *)

\* The event that removeActiveClient and removeOldClient send when only the
\* primary client is left.
NoClientsLeft(active, old) ==
    IF active = {} /\ old = {} THEN <<Plain("serverGone")>> ELSE <<>>

\* ServerApp::handleClientConnected: getNextClient and Server::adoptClient.  A
\* client whose name is unknown or taken is told to go (closeClient).
HandleClientConnected ==
    /\ Takes("connected")
    /\ IF m_waitingClients = <<>>
       THEN UNCHANGED <<m_waitingClients, m_clients, m_oldClients, obj>>
       ELSE LET c == Head(m_waitingClients) IN
            /\ m_waitingClients' = Tail(m_waitingClients)
            /\ Set(c, [obj[c] EXCEPT !.onGone = "server"])
            /\ \/ m_clients' = m_clients \cup {c} /\ UNCHANGED m_oldClients
               \/ m_oldClients' = m_oldClients \cup {c} /\ UNCHANGED m_clients
    /\ Then(<<>>)
    /\ UNCHANGED <<secure, listener, polled, deaf, peer, m_newClients, broken>>

\* handleClientDisconnected: active or old, the client is removed and deleted.
HandleClientDisconnected ==
    /\ Takes("proxyGone")
    /\ obj[This].onGone = "server"
    /\ m_clients' = m_clients \ {This}
    /\ m_oldClients' = m_oldClients \ {This}
    /\ Set(This, DeleteProxy([obj[This] EXCEPT !.onGone = "none"]))
    /\ broken' = IF obj[This].proxy = "live" THEN broken ELSE "proxy"
    /\ Then(NoClientsLeft(m_clients', m_oldClients'))
    /\ UNCHANGED <<secure, listener, polled, deaf, peer, m_newClients,
                   m_waitingClients>>

\* handleClientCloseTimeout: five seconds after closeClient.
HandleClientCloseTimeout(c) ==
    /\ c \in m_oldClients
    /\ m_oldClients' = m_oldClients \ {c}
    /\ Set(c, DeleteProxy([obj[c] EXCEPT !.onGone = "none"]))
    /\ broken' = IF obj[c].proxy = "live" THEN broken ELSE "proxy"
    /\ Post(NoClientsLeft(m_clients, m_oldClients'))
    /\ UNCHANGED <<secure, listener, polled, deaf, peer, m_newClients,
                   m_waitingClients, m_clients>>

\* An event without a handler.
DropEvent ==
    /\ LET o == obj[This] IN
       \/ Takes("orphan")
       \/ Takes("accepted") /\ ~o.onAccepted
       \/ (Takes("input") \/ Takes("shutdown")) /\ o.streamHandler = "none"
       \/ Takes("ready") /\ ~o.onReady
       \/ Takes("proxyGone") /\ o.onGone = "none"
       \/ (Takes("success") \/ Takes("failure")) /\ o.unknown # "live"
    /\ Then(<<>>)
    /\ UNCHANGED <<unknownFrame, peer, obj, broken>>

-----------------------------------------------------------------------------
(* Making and deleting a ClientListener and a Server *)

\* ~Server deletes its clients, those it has just told to go included.
DeleteServersClients(objs) ==
    [c \in Conns |-> IF c \in m_clients \cup m_oldClients
                     THEN DeleteProxy([objs[c] EXCEPT !.onGone = "none"])
                     ELSE objs[c]]

\* ~ClientListener deletes the clients of the handshake, the waiting ones and
\* then the sockets.
DeleteListenersClients(objs) ==
    [c \in Conns |->
        LET o    == objs[c]
            waits == \E i \in DOMAIN m_waitingClients : m_waitingClients[i] = c
            left == IF c \in m_newClients THEN DeleteUnknown(o)
                    ELSE IF waits THEN DeleteProxy([o EXCEPT !.onGone = "none"])
                    ELSE o
        IN  [left EXCEPT !.socket = IF @ = "live" THEN "dead" ELSE @]]

\* Those that were calling, or had their connection, lose it.
HangUp == [c \in Conns |-> IF peer[c].at = "idle" THEN peer[c]
                           ELSE [peer[c] EXCEPT !.at = "gone"]]

=============================================================================
