-------------------------- MODULE ServerAppProofs ---------------------------
(***************************************************************************)
(* Proofs about ServerApp and ClientListener, for any number of            *)
(* connections, requests and failures.                                     *)
(*                                                                         *)
(* The argument has two layers.  The state of the application and the      *)
(* types of all variables are inductive together (TypeInv): the number of  *)
(* retry timers stays in its range because it follows the state.  On top   *)
(* of them ListenInv follows the two events that listening depends on      *)
(* through the queue.  Who owns the objects of a connection is in          *)
(* ServerOwnershipProofs.                                                  *)
(***************************************************************************)
EXTENDS ServerApp, TLAPS

\* The prover of a leaf that names none.
USE ZenonT(60)

-----------------------------------------------------------------------------
(* The queue *)

\* The next event, and what is left when it is taken.
LEMMA HeadOfQueue ==
  ASSUME queue \in Seq(Events), NEW name, Takes(name)
  PROVE  /\ queue # <<>>
         /\ Head(queue) \in Events /\ Head(queue).name = name
         /\ Tail(queue) \in Seq(Events)
         /\ name \in ConnEvents => This \in Conns
<1>1. queue # <<>> /\ Head(queue) \in Events /\ Tail(queue) \in Seq(Events)
  BY SMTT(120) DEF Takes
<1>2. Head(queue).name = name
  BY DEF Takes
<1>3. name \in ConnEvents => This \in Conns
  BY <1>1, <1>2 DEF This, Events, ConnEvents, Requests
<1>. QED
  BY <1>1, <1>2, <1>3

\* Events of connections, and the others.
LEMMA EventTypes ==
  /\ \A name \in ConnEvents, c \in Conns : ConnEvent(name, c) \in Events
  /\ \A name \in Requests \cup {"connecting", "connected", "serverGone", "orphan"} :
       Plain(name) \in Events
  BY DEF ConnEvent, Plain, Events

\* An event that is neither taken nor lost is still there.
LEMMA EventKept ==
  ASSUME NEW q \in Seq(Events), NEW evs \in Seq(Events), NEW name,
         \E i \in DOMAIN q : q[i].name = name,
         q # <<>> => Head(q).name # name
  PROVE  /\ \E i \in DOMAIN (Tail(q) \o evs) : (Tail(q) \o evs)[i].name = name
<1>1. PICK i \in DOMAIN q : q[i].name = name
  OBVIOUS
<1>2. q # <<>> /\ i \in 2..Len(q)
  BY SMTT(120), <1>1
<1>3. i - 1 \in 1..Len(Tail(q)) /\ Tail(q)[i - 1] = q[i]
  BY SMTT(120), <1>2
<1>4. /\ i - 1 \in DOMAIN (Tail(q) \o evs)
      /\ (Tail(q) \o evs)[i - 1] = q[i]
  BY SMTT(120), <1>2, <1>3
<1>. QED
  BY <1>1, <1>4

LEMMA EventKeptByPost ==
  ASSUME NEW q \in Seq(Events), NEW evs \in Seq(Events), NEW name,
         \E i \in DOMAIN q : q[i].name = name
  PROVE  \E i \in DOMAIN (q \o evs) : (q \o evs)[i].name = name
<1>1. PICK i \in DOMAIN q : q[i].name = name
  OBVIOUS
<1>2. i \in DOMAIN (q \o evs) /\ (q \o evs)[i] = q[i]
  BY SMTT(120), <1>1
<1>. QED
  BY <1>1, <1>2

-----------------------------------------------------------------------------
(* The objects of a connection: what the methods leave behind *)

LEMMA NewUnknownFields ==
  ASSUME NEW o \in Object
  PROVE  /\ NewUnknown(o) \in Object
         /\ NewUnknown(o).socket = o.socket
         /\ ~NewUnknown(o).onAccepted
         /\ NewUnknown(o).stream = "live" /\ NewUnknown(o).streamHandler = "unknown"
         /\ NewUnknown(o).unknown = "live"
         /\ NewUnknown(o).m_stream /\ NewUnknown(o).m_proxy = o.m_proxy
         /\ NewUnknown(o).proxy = o.proxy /\ NewUnknown(o).onGone = o.onGone
         /\ NewUnknown(o).onReady = o.onReady /\ NewUnknown(o).heartbeat = o.heartbeat
  BY DEF NewUnknown, Object, Life

LEMMA UnknownRemovesHandlersFields ==
  ASSUME NEW o \in Object
  PROVE  LET p == UnknownRemovesHandlers(o)
         IN  /\ p \in Object
             /\ p.socket = o.socket /\ p.onAccepted = o.onAccepted
             /\ p.stream = o.stream /\ p.unknown = o.unknown
             /\ p.m_stream = o.m_stream /\ p.m_proxy = o.m_proxy
             /\ p.m_ready = o.m_ready /\ p.m_timer = o.m_timer
             /\ p.proxy = o.proxy
             /\ p.onGone = IF o.m_proxy THEN "none" ELSE o.onGone
             /\ p.streamHandler = IF o.m_stream THEN "none" ELSE o.streamHandler
             /\ p.heartbeat = o.heartbeat /\ (p.onReady => o.onReady /\ ~o.m_proxy)
<1> DEFINE p == UnknownRemovesHandlers(o)
<1>1. p \in Object
  <2>1. (o.onReady /\ ~o.m_proxy) \in BOOLEAN
    OBVIOUS
  <2>2. (IF o.m_stream THEN "none" ELSE o.streamHandler) \in {"none", "unknown", "proxy"}
    BY DEF Object
  <2>3. (IF o.m_proxy THEN "none" ELSE o.onGone) \in {"none", "unknown", "listener", "server"}
    BY DEF Object
  <2>. QED
    BY <2>1, <2>2, <2>3 DEF UnknownRemovesHandlers, Object
<1>2. /\ p.socket = o.socket /\ p.onAccepted = o.onAccepted
      /\ p.stream = o.stream /\ p.unknown = o.unknown
      /\ p.m_stream = o.m_stream /\ p.m_proxy = o.m_proxy
      /\ p.m_ready = o.m_ready /\ p.m_timer = o.m_timer
      /\ p.proxy = o.proxy /\ p.heartbeat = o.heartbeat
      /\ p.onReady => o.onReady /\ ~o.m_proxy
  BY DEF UnknownRemovesHandlers, Object
<1>3. /\ p.onGone = IF o.m_proxy THEN "none" ELSE o.onGone
      /\ p.streamHandler = IF o.m_stream THEN "none" ELSE o.streamHandler
  BY DEF UnknownRemovesHandlers, Object
<1>. QED
  BY <1>1, <1>2, <1>3

LEMMA NewProxyFields ==
  ASSUME NEW o \in Object
  PROVE  /\ NewProxy(o) \in Object
         /\ NewProxy(o).socket = o.socket /\ NewProxy(o).onAccepted = o.onAccepted
         /\ NewProxy(o).stream = o.stream /\ NewProxy(o).streamHandler = "proxy"
         /\ NewProxy(o).unknown = o.unknown
         /\ ~NewProxy(o).m_stream /\ NewProxy(o).m_proxy
         /\ NewProxy(o).m_timer = o.m_timer /\ NewProxy(o).heartbeat = o.heartbeat
         /\ NewProxy(o).proxy = "live" /\ NewProxy(o).onGone = "unknown"
  BY DEF NewProxy, Object, Life

LEMMA DeleteProxyFields ==
  ASSUME NEW o \in Object
  PROVE  LET p == DeleteProxy(o)
         IN  /\ p \in Object
             /\ p.socket = o.socket /\ p.onAccepted = o.onAccepted
             /\ p.stream = "dead" /\ p.streamHandler = "none"
             /\ p.unknown = o.unknown
             /\ p.m_stream = o.m_stream /\ p.m_proxy = o.m_proxy
             /\ p.m_timer = o.m_timer
             /\ p.proxy = "dead" /\ p.onGone = o.onGone
             /\ ~p.heartbeat /\ p.onReady = o.onReady
  BY DEF DeleteProxy, Object, Life

LEMMA DisconnectFields ==
  ASSUME NEW o \in Object
  PROVE  LET p == Disconnect(o)
         IN  /\ p \in Object
             /\ p.socket = o.socket /\ p.onAccepted = o.onAccepted
             /\ p.stream = o.stream /\ p.streamHandler = "none"
             /\ p.unknown = o.unknown
             /\ p.m_stream = o.m_stream /\ p.m_proxy = o.m_proxy
             /\ p.m_timer = o.m_timer
             /\ p.proxy = o.proxy /\ p.onGone = o.onGone
             /\ ~p.heartbeat /\ p.onReady = o.onReady
  BY DEF Disconnect, Object, Life

LEMMA SendFailureFields ==
  ASSUME NEW o \in Object
  PROVE  LET p == SendFailure(o)
         IN  /\ p \in Object
             /\ p.socket = o.socket /\ p.onAccepted = o.onAccepted
             /\ p.stream = IF o.m_proxy THEN "dead" ELSE o.stream
             /\ p.streamHandler = IF o.m_stream \/ o.m_proxy THEN "none"
                                  ELSE o.streamHandler
             /\ p.unknown = o.unknown
             /\ p.m_stream = o.m_stream /\ ~p.m_proxy /\ ~p.m_timer
             /\ p.proxy = IF o.m_proxy THEN "dead" ELSE o.proxy
             /\ p.onGone = o.onGone /\ (p.onReady => o.onReady)
             /\ p.heartbeat => o.heartbeat /\ ~o.m_proxy
<1> DEFINE rest == IF o.m_proxy THEN DeleteProxy(o) ELSE o
           last == [rest EXCEPT !.m_proxy = FALSE, !.m_ready = FALSE, !.m_timer = FALSE]
<1>1. /\ rest \in Object
      /\ rest.socket = o.socket /\ rest.onAccepted = o.onAccepted
      /\ rest.stream = IF o.m_proxy THEN "dead" ELSE o.stream
      /\ rest.streamHandler = IF o.m_proxy THEN "none" ELSE o.streamHandler
      /\ rest.unknown = o.unknown /\ rest.m_stream = o.m_stream
      /\ rest.proxy = IF o.m_proxy THEN "dead" ELSE o.proxy
      /\ rest.onGone = o.onGone /\ rest.onReady = o.onReady
      /\ rest.heartbeat => o.heartbeat /\ ~o.m_proxy
  BY DeleteProxyFields
<1>. HIDE DEF rest
<1>2. /\ last \in Object
      /\ last.socket = rest.socket /\ last.onAccepted = rest.onAccepted
      /\ last.stream = rest.stream /\ last.streamHandler = rest.streamHandler
      /\ last.unknown = rest.unknown /\ last.m_stream = rest.m_stream
      /\ last.m_proxy = FALSE /\ last.m_timer = FALSE
      /\ last.proxy = rest.proxy /\ last.onGone = rest.onGone
      /\ last.onReady = rest.onReady /\ last.heartbeat = rest.heartbeat
  BY <1>1 DEF Object
<1>3. UnknownRemovesHandlers(last).onGone = last.onGone
  BY <1>2 DEF UnknownRemovesHandlers, Object
<1>4. SendFailure(o) = UnknownRemovesHandlers(last)
  BY DEF SendFailure, rest
<1>. HIDE DEF last
<1>. QED
  BY SMTT(120), <1>1, <1>2, <1>3, <1>4, UnknownRemovesHandlersFields

LEMMA DeleteUnknownFields ==
  ASSUME NEW o \in Object
  PROVE  LET p == DeleteUnknown(o)
         IN  /\ p \in Object
             /\ p.socket = o.socket /\ p.onAccepted = o.onAccepted
             /\ p.stream = IF o.m_stream \/ o.m_proxy THEN "dead" ELSE o.stream
             /\ p.streamHandler = IF o.m_stream \/ o.m_proxy THEN "none"
                                  ELSE o.streamHandler
             /\ p.unknown = "dead" /\ ~p.m_timer
             /\ p.proxy = IF o.m_proxy THEN "dead" ELSE o.proxy
             /\ p.onGone = IF o.m_proxy THEN "none" ELSE o.onGone
             /\ p.onReady => o.onReady /\ ~o.m_proxy
             /\ p.heartbeat => o.heartbeat /\ ~o.m_proxy
<1> DEFINE rest == UnknownRemovesHandlers(o)
           left == IF o.m_proxy THEN DeleteProxy(rest) ELSE rest
<1>1. /\ rest \in Object
      /\ rest.socket = o.socket /\ rest.onAccepted = o.onAccepted
      /\ rest.stream = o.stream /\ rest.proxy = o.proxy
      /\ rest.streamHandler = IF o.m_stream THEN "none" ELSE o.streamHandler
      /\ rest.onGone = IF o.m_proxy THEN "none" ELSE o.onGone
      /\ rest.heartbeat = o.heartbeat /\ (rest.onReady => o.onReady /\ ~o.m_proxy)
  BY UnknownRemovesHandlersFields
<1>. HIDE DEF rest
<1>2. /\ left \in Object
      /\ left.socket = o.socket /\ left.onAccepted = o.onAccepted
      /\ left.stream = IF o.m_proxy THEN "dead" ELSE o.stream
      /\ left.streamHandler = IF o.m_stream \/ o.m_proxy THEN "none" ELSE o.streamHandler
      /\ left.proxy = IF o.m_proxy THEN "dead" ELSE o.proxy
      /\ left.onGone = IF o.m_proxy THEN "none" ELSE o.onGone
      /\ left.onReady => o.onReady /\ ~o.m_proxy
      /\ left.heartbeat => o.heartbeat /\ ~o.m_proxy
  BY SMTT(120), <1>1, DeleteProxyFields
<1>3. DeleteUnknown(o) = [left EXCEPT !.stream  = IF o.m_stream THEN "dead" ELSE @,
                                      !.unknown = "dead", !.m_timer = FALSE]
  BY DEF DeleteUnknown, rest
<1>. HIDE DEF left
<1> DEFINE p == DeleteUnknown(o)
<1>4. (IF o.m_stream THEN "dead" ELSE left.stream) \in Life
  BY <1>2 DEF Object, Life
<1>5. p \in Object
  <2> DEFINE q == [left EXCEPT !.stream = IF o.m_stream THEN "dead" ELSE @]
  <2>1. q \in Object
    BY <1>2, <1>4 DEF Object
  <2>2. p = [q EXCEPT !.unknown = "dead", !.m_timer = FALSE]
    BY <1>3
  <2>. HIDE DEF q, p
  <2>. QED
    BY <2>1, <2>2 DEF Object, Life
<1>6. /\ p.socket = left.socket /\ p.onAccepted = left.onAccepted
      /\ p.streamHandler = left.streamHandler
      /\ p.proxy = left.proxy /\ p.onGone = left.onGone
      /\ p.onReady = left.onReady /\ p.heartbeat = left.heartbeat
      /\ p.unknown = "dead" /\ p.m_timer = FALSE
      /\ p.stream = IF o.m_stream THEN "dead" ELSE left.stream
  BY <1>2, <1>3 DEF Object
<1>. HIDE DEF p
<1>7. /\ p.socket = o.socket /\ p.onAccepted = o.onAccepted
      /\ p.stream = IF o.m_stream \/ o.m_proxy THEN "dead" ELSE o.stream
      /\ p.streamHandler = IF o.m_stream \/ o.m_proxy THEN "none" ELSE o.streamHandler
      /\ p.unknown = "dead" /\ ~p.m_timer
      /\ p.proxy = IF o.m_proxy THEN "dead" ELSE o.proxy
      /\ p.onGone = IF o.m_proxy THEN "none" ELSE o.onGone
      /\ p.onReady => o.onReady /\ ~o.m_proxy
      /\ p.heartbeat => o.heartbeat /\ ~o.m_proxy
  BY <1>2, <1>6
<1>. QED
  BY <1>5, <1>7 DEF p

\* What deleting the Server and then the ClientListener leaves of a connection.
LEMMA ClosedFields ==
  ASSUME obj \in [Conns -> Object], NEW c \in Conns
  PROVE  LET p == DeleteListenersClients(DeleteServersClients(obj))[c]
         IN  /\ p \in Object
             /\ p.socket # "live"
             /\ p.onAccepted = obj[c].onAccepted
             /\ c \in m_newClients /\ c \notin m_clients \cup m_oldClients =>
                  /\ p.unknown = "dead" /\ ~p.m_timer
                  /\ p.stream = IF obj[c].m_stream \/ obj[c].m_proxy THEN "dead"
                                ELSE obj[c].stream
                  /\ p.proxy = IF obj[c].m_proxy THEN "dead" ELSE obj[c].proxy
                  /\ p.streamHandler = IF obj[c].m_stream \/ obj[c].m_proxy THEN "none"
                                       ELSE obj[c].streamHandler
                  /\ p.onGone \in {obj[c].onGone, "none"}
                  /\ p.onReady => obj[c].onReady
                  /\ p.heartbeat => obj[c].heartbeat /\ ~obj[c].m_proxy
             /\ c \notin m_newClients /\ c \in Waiting \cup m_clients \cup m_oldClients =>
                  /\ p.stream = "dead" /\ p.proxy = "dead"
                  /\ p.unknown = obj[c].unknown /\ p.m_timer = obj[c].m_timer
                  /\ p.streamHandler = "none" /\ p.onGone = "none"
                  /\ ~p.heartbeat
             /\ c \notin m_newClients \cup Waiting \cup m_clients \cup m_oldClients =>
                  p = [obj[c] EXCEPT !.socket = IF @ = "live" THEN "dead" ELSE @]
<1> DEFINE o == IF c \in m_clients \cup m_oldClients
                THEN DeleteProxy([obj[c] EXCEPT !.onGone = "none"]) ELSE obj[c]
           waits == \E i \in DOMAIN m_waitingClients : m_waitingClients[i] = c
           left == IF c \in m_newClients THEN DeleteUnknown(o)
                   ELSE IF waits THEN DeleteProxy([o EXCEPT !.onGone = "none"])
                   ELSE o
           p == [left EXCEPT !.socket = IF @ = "live" THEN "dead" ELSE @]
<1>1. DeleteListenersClients(DeleteServersClients(obj))[c] = p
  BY DEF DeleteListenersClients, DeleteServersClients
<1>2. obj[c] \in Object /\ [obj[c] EXCEPT !.onGone = "none"] \in Object
  BY SMTT(120) DEF Object
<1>3. /\ o \in Object /\ o.onAccepted = obj[c].onAccepted
      /\ o.unknown = obj[c].unknown /\ o.m_timer = obj[c].m_timer
      /\ c \notin m_clients \cup m_oldClients => o = obj[c]
      /\ c \in m_clients \cup m_oldClients =>
           /\ o.stream = "dead" /\ o.proxy = "dead"
           /\ o.streamHandler = "none" /\ o.onGone = "none" /\ ~o.heartbeat
  <2>1. CASE c \in m_clients \cup m_oldClients
    <3> DEFINE q == [obj[c] EXCEPT !.onGone = "none"]
    <3>1. /\ q \in Object /\ q.onAccepted = obj[c].onAccepted
          /\ q.unknown = obj[c].unknown /\ q.m_timer = obj[c].m_timer
          /\ q.onGone = "none"
      BY <1>2 DEF Object
    <3>2. o = DeleteProxy(q)
      BY <2>1
    <3>. HIDE DEF q, o
    <3>. QED
      BY <2>1, <3>1, <3>2, DeleteProxyFields
  <2>2. CASE c \notin m_clients \cup m_oldClients
    BY <1>2, <2>2
  <2>. QED
    BY <2>1, <2>2
<1>. HIDE DEF o
<1>4. waits <=> c \in Waiting
  BY DEF Waiting
<1>5. /\ left \in Object /\ left.onAccepted = obj[c].onAccepted
      /\ c \in m_newClients => left = DeleteUnknown(o)
      /\ c \notin m_newClients /\ c \in Waiting =>
           /\ left.stream = "dead" /\ left.proxy = "dead"
           /\ left.unknown = o.unknown /\ left.m_timer = o.m_timer
           /\ left.streamHandler = "none" /\ left.onGone = "none" /\ ~left.heartbeat
      /\ c \notin m_newClients \cup Waiting => left = o
  <2>1. CASE c \in m_newClients
    <3>1. left = DeleteUnknown(o)
      BY <2>1
    <3>. HIDE DEF left
    <3>. QED
      BY <1>3, <2>1, <3>1, DeleteUnknownFields
  <2>2. CASE c \notin m_newClients /\ c \in Waiting
    <3> DEFINE q == [o EXCEPT !.onGone = "none"]
    <3>1. /\ q \in Object /\ q.onAccepted = obj[c].onAccepted
          /\ q.unknown = o.unknown /\ q.m_timer = o.m_timer
          /\ q.onGone = "none"
      BY <1>3 DEF Object
    <3>2. left = DeleteProxy(q)
      BY <1>4, <2>2
    <3>. HIDE DEF q, left
    <3>. QED
      BY <2>2, <3>1, <3>2, DeleteProxyFields
  <2>3. CASE c \notin m_newClients \cup Waiting
    BY <1>3, <1>4, <2>3
  <2>. QED
    BY <2>1, <2>2, <2>3
<1>. HIDE DEF left
<1>6. /\ p \in Object /\ p.socket # "live"
      /\ p.onAccepted = left.onAccepted /\ p.stream = left.stream
      /\ p.proxy = left.proxy /\ p.unknown = left.unknown
      /\ p.m_timer = left.m_timer /\ p.streamHandler = left.streamHandler
      /\ p.onGone = left.onGone /\ p.onReady = left.onReady
      /\ p.heartbeat = left.heartbeat
  BY <1>5 DEF Object, Life
<1>7. c \notin m_newClients \cup Waiting \cup m_clients \cup m_oldClients =>
        p = [obj[c] EXCEPT !.socket = IF @ = "live" THEN "dead" ELSE @]
  BY <1>3, <1>5
<1>. HIDE DEF p
<1>8. c \in m_newClients /\ c \notin m_clients \cup m_oldClients =>
        /\ p.unknown = "dead" /\ ~p.m_timer
        /\ p.stream = IF obj[c].m_stream \/ obj[c].m_proxy THEN "dead" ELSE obj[c].stream
        /\ p.proxy = IF obj[c].m_proxy THEN "dead" ELSE obj[c].proxy
        /\ p.streamHandler = IF obj[c].m_stream \/ obj[c].m_proxy THEN "none"
                             ELSE obj[c].streamHandler
        /\ p.onGone \in {obj[c].onGone, "none"}
        /\ p.onReady => obj[c].onReady
        /\ p.heartbeat => obj[c].heartbeat /\ ~obj[c].m_proxy
  BY SMTT(120), <1>2, <1>3, <1>5, <1>6, DeleteUnknownFields
<1>9. c \notin m_newClients /\ c \in Waiting \cup m_clients \cup m_oldClients =>
        /\ p.stream = "dead" /\ p.proxy = "dead"
        /\ p.unknown = obj[c].unknown /\ p.m_timer = obj[c].m_timer
        /\ p.streamHandler = "none" /\ p.onGone = "none" /\ ~p.heartbeat
  BY SMTT(120), <1>3, <1>5, <1>6
<1>. QED
  BY SMTT(120), <1>1, <1>5, <1>6, <1>7, <1>8, <1>9

-----------------------------------------------------------------------------
(* The application's state *)

WithScreen == {"kInitialized", "kStarting", "kStarted"}

\* The members of ServerApp agree with its state.
Well(a) ==
  /\ a \in App
  /\ a.timers = IF a.state \in Retrying THEN 1 ELSE 0
  /\ a.screen <=> a.state \in WithScreen
  /\ a.server <=> a.state = "kStarted"

\* The states in which startServer may be called, and those it leads to.
Startable == {"kUninitialized", "kInitialized", "kStarting", "kStarted"}
Listens == {"kStarted", "kStarting", "kInitializingToStart"}

\* a has become b, in the state s.
Moved(b, s) == Well(b) /\ b.state = s

\* The retry timer.
LEMMA TimerMoves ==
  ASSUME NEW a, Well(a)
  PROVE  /\ a.state = "kUninitialized" =>
              Moved(StartRetryTimer(a, "kInitializing"), "kInitializing")
         /\ a.state = "kInitialized" => Moved(StartRetryTimer(a, "kStarting"), "kStarting")
         /\ a.state = "kStarting" =>
              Moved([StopRetryTimer(a) EXCEPT !.state = "kInitialized"], "kInitialized")
         /\ a.state \in {"kInitializing", "kInitializingToStart"} =>
              Moved([StopRetryTimer(a) EXCEPT !.state = "kUninitialized"], "kUninitialized")
<1>1. ASSUME NEW s \in States, a.timers = 0
      PROVE  LET b == StartRetryTimer(a, s)
             IN  /\ b \in App /\ b.state = s /\ b.timers = 1
                 /\ b.screen = a.screen /\ b.server = a.server
  <2>1. a \in App /\ a.timers + 1 = 1 /\ 1 \in 0..1
    BY SMTT(120), <1>1 DEF Well
  <2>. QED
    BY <2>1 DEF StartRetryTimer, App
<1>2. ASSUME NEW s \in States, a.timers = 1
      PROVE  LET b == [StopRetryTimer(a) EXCEPT !.state = s]
             IN  /\ b \in App /\ b.state = s /\ b.timers = 0
                 /\ b.screen = a.screen /\ b.server = a.server
  <2> DEFINE d == StopRetryTimer(a)
  <2>1. a \in App
    BY DEF Well
  <2>2. d \in App /\ d.timers = 0 /\ d.screen = a.screen /\ d.server = a.server
    BY SMTT(120), <1>2, <2>1 DEF StopRetryTimer, App
  <2>. HIDE DEF d
  <2>3. LET b == [d EXCEPT !.state = s]
        IN  /\ b \in App /\ b.state = s /\ b.timers = 0
            /\ b.screen = a.screen /\ b.server = a.server
    BY <2>2 DEF App
  <2>. QED
    BY <2>3 DEF d
<1>3. a.state = "kUninitialized" =>
        Moved(StartRetryTimer(a, "kInitializing"), "kInitializing")
  BY <1>1 DEF Well, Moved, States, Retrying, WithScreen
<1>4. a.state = "kInitialized" => Moved(StartRetryTimer(a, "kStarting"), "kStarting")
  BY <1>1 DEF Well, Moved, States, Retrying, WithScreen
<1>5. a.state = "kStarting" =>
        Moved([StopRetryTimer(a) EXCEPT !.state = "kInitialized"], "kInitialized")
  BY <1>2 DEF Well, Moved, States, Retrying, WithScreen
<1>6. a.state \in {"kInitializing", "kInitializingToStart"} =>
        Moved([StopRetryTimer(a) EXCEPT !.state = "kUninitialized"], "kUninitialized")
  BY <1>2 DEF Well, Moved, States, Retrying, WithScreen
<1>. QED
  BY <1>3, <1>4, <1>5, <1>6

\* The screen and the Server.
LEMMA OtherMoves ==
  ASSUME NEW a, Well(a)
  PROVE  /\ a.state = "kUninitialized" =>
              Moved([a EXCEPT !.screen = TRUE, !.state = "kInitialized"], "kInitialized")
         /\ a.state = "kInitializing" =>
              Moved([a EXCEPT !.state = "kInitializingToStart"], "kInitializingToStart")
         /\ a.state = "kInitialized" =>
              /\ Moved([a EXCEPT !.server = TRUE, !.state = "kStarted"], "kStarted")
              /\ Moved([a EXCEPT !.screen = FALSE, !.state = "kUninitialized"],
                       "kUninitialized")
         /\ a.state = "kStarted" =>
              Moved([a EXCEPT !.server = FALSE, !.state = "kInitialized"], "kInitialized")
<1>1. a.state = "kUninitialized" =>
        Moved([a EXCEPT !.screen = TRUE, !.state = "kInitialized"], "kInitialized")
  BY DEF Well, Moved, App, States, Retrying, WithScreen
<1>2. a.state = "kInitializing" =>
        Moved([a EXCEPT !.state = "kInitializingToStart"], "kInitializingToStart")
  BY DEF Well, Moved, App, States, Retrying, WithScreen
<1>3. a.state = "kInitialized" =>
        Moved([a EXCEPT !.server = TRUE, !.state = "kStarted"], "kStarted")
  BY DEF Well, Moved, App, States, Retrying, WithScreen
<1>4. a.state = "kInitialized" =>
        Moved([a EXCEPT !.screen = FALSE, !.state = "kUninitialized"], "kUninitialized")
  BY DEF Well, Moved, App, States, Retrying, WithScreen
<1>5. a.state = "kStarted" =>
        Moved([a EXCEPT !.server = FALSE, !.state = "kInitialized"], "kInitialized")
  BY DEF Well, Moved, App, States, Retrying, WithScreen
<1>. QED
  BY <1>1, <1>2, <1>3, <1>4, <1>5

LEMMA StopServerMoves ==
  ASSUME NEW a, Well(a)
  PROVE  Moved(StopServer(a), IF a.state \in {"kStarted", "kStarting"} THEN "kInitialized"
                              ELSE a.state)
<1>1. CASE a.state = "kStarted"
  BY <1>1, OtherMoves DEF StopServer
<1>2. CASE a.state = "kStarting"
  BY <1>2, TimerMoves DEF StopServer
<1>3. CASE a.state \notin {"kStarted", "kStarting"}
  BY <1>3 DEF StopServer, Moved
<1>. QED
  BY <1>1, <1>2, <1>3

LEMMA CleanupServerMoves ==
  ASSUME NEW a, Well(a)
  PROVE  Moved(CleanupServer(a), "kUninitialized")
<1> DEFINE b == StopServer(a)
<1>1. Well(b) /\ b.state \notin {"kStarted", "kStarting"}
  BY StopServerMoves DEF Moved
<1>2. b.state \in States
  BY <1>1 DEF Well, App
<1>3. CleanupServer(a) = CASE b.state = "kInitialized" ->
                                [b EXCEPT !.screen = FALSE, !.state = "kUninitialized"]
                           [] b.state \in {"kInitializing", "kInitializingToStart"} ->
                                [StopRetryTimer(b) EXCEPT !.state = "kUninitialized"]
                           [] OTHER -> b
  BY DEF CleanupServer
<1>. HIDE DEF b
<1>4. CASE b.state = "kInitialized"
  BY <1>1, <1>3, <1>4, OtherMoves
<1>5. CASE b.state \in {"kInitializing", "kInitializingToStart"}
  BY <1>1, <1>3, <1>5, TimerMoves
<1>6. CASE b.state = "kUninitialized"
  BY <1>1, <1>3, <1>6 DEF Moved
<1>. QED
  BY <1>1, <1>2, <1>4, <1>5, <1>6 DEF States

LEMMA ResultFields ==
  /\ \A a : Result(a, TRUE).app = a /\ Result(a, TRUE).ok
  /\ \A a : Result(a, FALSE).app = a /\ ~Result(a, FALSE).ok
  BY DEF Result

LEMMA InitServerMoves ==
  ASSUME NEW a, Well(a), NEW try \in Tries
  PROVE  LET r == InitServer(a, try)
         IN  \/ a.state # "kUninitialized" /\ r.app = a /\ r.ok
             \/ a.state = "kUninitialized" /\ r.ok /\ Moved(r.app, "kInitialized")
             \/ a.state = "kUninitialized" /\ r.ok /\ Moved(r.app, "kInitializing")
             \/ a.state = "kUninitialized" /\ ~r.ok /\ r.app = a
<1> DEFINE r == InitServer(a, try)
<1>1. CASE a.state # "kUninitialized"
  BY <1>1, ResultFields DEF InitServer
<1>2. CASE a.state = "kUninitialized" /\ try.screen = "ok"
  <2> DEFINE b == [a EXCEPT !.screen = TRUE, !.state = "kInitialized"]
  <2>1. Moved(b, "kInitialized")
    BY <1>2, OtherMoves
  <2>2. r = Result(b, TRUE)
    BY <1>2 DEF InitServer
  <2>. HIDE DEF b, r
  <2>3. r.app = b /\ r.ok
    BY <2>2, ResultFields
  <2>. QED
    BY <1>2, <2>1, <2>3 DEF r
<1>3. CASE a.state = "kUninitialized" /\ try.screen # "ok"
  <2> DEFINE b == StartRetryTimer(a, "kInitializing")
  <2>1. Moved(b, "kInitializing")
    BY <1>3, TimerMoves
  <2>2. r = Result(b, TRUE) \/ r = Result(a, FALSE)
    BY <1>3 DEF InitServer
  <2>. HIDE DEF b, r
  <2>3. (r.app = b /\ r.ok) \/ (r.app = a /\ ~r.ok)
    BY <2>2, ResultFields
  <2>. QED
    BY <1>3, <2>1, <2>3 DEF r
<1>. QED
  BY <1>1, <1>2, <1>3

\* What comes of a start: b, and whether it could be made or is tried again.
Started(a, b, ok) ==
  /\ Well(b)
  /\ IF ok THEN b.state \in Listens ELSE b.state \in {"kUninitialized", "kInitialized"}
  /\ a.state = "kStarted" => b = a /\ ok
  /\ a.state \in WithScreen => b.state \in WithScreen

LEMMA StartServerMoves ==
  ASSUME NEW a, Well(a), a.state \in Startable, NEW try \in Tries
  PROVE  Started(a, StartServer(a, try).app, StartServer(a, try).ok)
<1> DEFINE r == StartServer(a, try)
           i == InitServer(a, try)
<1>0. r = IF a.state \in {"kStarting", "kStarted"} THEN Result(a, TRUE)
          ELSE IF ~i.ok THEN i
          ELSE IF i.app.state = "kInitializing"
          THEN Result([i.app EXCEPT !.state = "kInitializingToStart"], TRUE)
          ELSE IF try.port = "ok"
          THEN Result([i.app EXCEPT !.server = TRUE, !.state = "kStarted"], TRUE)
          ELSE IF try.port = "wait" /\ restartable
          THEN Result(StartRetryTimer(i.app, "kStarting"), TRUE)
          ELSE Result(i.app, FALSE)
  BY DEF StartServer
<1>1. \/ a.state # "kUninitialized" /\ i.app = a /\ i.ok
      \/ a.state = "kUninitialized" /\ i.ok /\ Moved(i.app, "kInitialized")
      \/ a.state = "kUninitialized" /\ i.ok /\ Moved(i.app, "kInitializing")
      \/ a.state = "kUninitialized" /\ ~i.ok /\ i.app = a
  BY InitServerMoves
<1>. HIDE DEF i, r
<1>2. CASE a.state \in {"kStarting", "kStarted"}
  <2>1. r = Result(a, TRUE)
    BY <1>0, <1>2
  <2>2. r.app = a /\ r.ok
    BY <2>1, ResultFields
  <2>. QED
    BY <1>2, <2>2 DEF Started, Listens, WithScreen, r
<1>3. CASE a.state \in {"kUninitialized", "kInitialized"} /\ ~i.ok
  <2>1. r = i
    BY <1>0, <1>3
  <2>2. a.state = "kUninitialized" /\ r.app = a /\ ~r.ok
    BY <1>1, <1>3, <2>1
  <2>. QED
    BY <1>3, <2>2 DEF Started, WithScreen, r
<1>4. CASE a.state \in {"kUninitialized", "kInitialized"} /\ i.ok /\ i.app.state = "kInitializing"
  <2> DEFINE b == [i.app EXCEPT !.state = "kInitializingToStart"]
  <2>1. r = Result(b, TRUE)
    BY <1>0, <1>4
  <2>2. Well(i.app) /\ i.app.state = "kInitializing" /\ a.state = "kUninitialized"
    BY <1>1, <1>4 DEF Moved
  <2>3. Moved(b, "kInitializingToStart")
    BY <2>2, OtherMoves
  <2>. HIDE DEF b
  <2>4. r.app = b /\ r.ok
    BY <2>1, ResultFields
  <2>. QED
    BY <2>2, <2>3, <2>4 DEF Started, Moved, WithScreen, Listens, r
<1>5. CASE a.state \in {"kUninitialized", "kInitialized"} /\ i.ok /\ i.app.state # "kInitializing"
  <2> DEFINE b == [i.app EXCEPT !.server = TRUE, !.state = "kStarted"]
             d == StartRetryTimer(i.app, "kStarting")
  <2>1. Well(i.app) /\ i.app.state = "kInitialized"
    BY <1>1, <1>5 DEF Moved
  <2>2. Moved(b, "kStarted") /\ Moved(d, "kStarting") /\ Moved(i.app, "kInitialized")
    BY <2>1, OtherMoves, TimerMoves DEF Moved
  <2>3. r = Result(b, TRUE) \/ r = Result(d, TRUE) \/ r = Result(i.app, FALSE)
    BY <1>0, <1>5
  <2>. HIDE DEF b, d
  <2>4. (r.app = b /\ r.ok) \/ (r.app = d /\ r.ok) \/ (r.app = i.app /\ ~r.ok)
    BY <2>3, ResultFields
  <2>. QED
    BY <1>5, <2>2, <2>4 DEF Started, Moved, WithScreen, Listens, r
<1>. QED
  BY <1>2, <1>3, <1>4, <1>5 DEF Startable

\* What comes of a retry.
Retried(a, b, ok) ==
  /\ Well(b)
  /\ a.state = "kStarting" => b.state \in WithScreen
  /\ a.state # "kInitializing" /\ ok =>
       b.state \in Listens \/ (a.state = "kInitializingToStart" /\ b.state = "kInitializing")
  /\ a.state = "kStarting" => b.state # "kInitializing"

LEMMA RetryMoves ==
  ASSUME NEW a, Well(a), a.state \in Retrying, NEW try \in Tries
  PROVE  Retried(a, Retry(a, try).app, Retry(a, try).ok)
<1> DEFINE r == Retry(a, try)
           back(s) == [StopRetryTimer(a) EXCEPT !.state = s]
           i == InitServer(back("kUninitialized"), try)
<1>0. /\ a.state = "kInitializing" => r = i
      /\ a.state = "kInitializingToStart" =>
            r = IF i.app.state = "kInitialized" THEN StartServer(i.app, try) ELSE i
      /\ a.state = "kStarting" => r = StartServer(back("kInitialized"), try)
  BY DEF Retry
<1>1. CASE a.state = "kStarting"
  <2> DEFINE b == back("kInitialized")
  <2>1. Well(b) /\ b.state = "kInitialized"
    BY <1>1, TimerMoves DEF Moved
  <2>2. r = StartServer(b, try)
    BY <1>0, <1>1
  <2>. HIDE DEF b, r
  <2>3. Started(b, r.app, r.ok)
    BY <2>1, <2>2, StartServerMoves DEF Startable
  <2>4. Well(r.app) /\ r.app.state \in WithScreen /\ (r.ok => r.app.state \in Listens)
    BY <2>1, <2>3 DEF Started, WithScreen
  <2>. QED
    BY <1>1, <2>4 DEF Retried, WithScreen, r
<1>2. CASE a.state \in {"kInitializing", "kInitializingToStart"}
  <2> DEFINE b == back("kUninitialized")
  <2>1. Well(b) /\ b.state = "kUninitialized"
    BY <1>2, TimerMoves DEF Moved
  <2>. HIDE DEF b
  <2>2. i = InitServer(b, try)
    BY DEF b
  <2>. HIDE DEF i, r
  <2>3. \/ i.ok /\ Moved(i.app, "kInitialized")
        \/ i.ok /\ Moved(i.app, "kInitializing")
        \/ ~i.ok /\ i.app = b
    BY <2>1, <2>2, InitServerMoves
  <2>4. CASE a.state = "kInitializingToStart" /\ i.app.state = "kInitialized"
    <3>1. r = StartServer(i.app, try)
      BY <1>0, <2>4
    <3>2. Well(i.app)
      BY <2>1, <2>3 DEF Moved
    <3>3. Started(i.app, r.app, r.ok)
      BY <2>4, <3>1, <3>2, StartServerMoves DEF Startable
    <3>4. Well(r.app) /\ (r.ok => r.app.state \in Listens)
      BY <3>3 DEF Started
    <3>. QED
      BY <2>4, <3>4 DEF Retried, r
  <2>5. CASE a.state = "kInitializing" \/ i.app.state # "kInitialized"
    <3>1. r = i
      BY <1>0, <1>2, <2>5
    <3>2. Well(i.app)
      BY SMTT(120), <2>1, <2>3 DEF Moved
    <3>3. i.ok /\ a.state # "kInitializing" => i.app.state = "kInitializing"
      BY <2>3, <2>5 DEF Moved
    <3>. QED
      BY <1>2, <3>1, <3>2, <3>3 DEF Retried, r
  <2>. QED
    BY <1>2, <2>4, <2>5
<1>. QED
  BY <1>1, <1>2 DEF Retrying

-----------------------------------------------------------------------------
(* Types, and the events that need a screen *)

\* No event is queued that only a screen sends.
Calm(q) == \A i \in DOMAIN q : q[i].name \notin {"suspend", "resume"}
Quiet(evs) == evs \in Seq(Events) /\ Calm(evs)

\* The variables of ClientListener.
ConnTypes ==
  /\ secure \in BOOLEAN /\ listener \in BOOLEAN /\ polled \in BOOLEAN /\ deaf \in BOOLEAN
  /\ peer \in [Conns -> Peer]
  /\ obj \in [Conns -> Object]
  /\ m_newClients \subseteq Conns
  /\ m_waitingClients \in Seq(Conns)
  /\ m_clients \subseteq Conns /\ m_oldClients \subseteq Conns
  /\ queue \in Seq(Events)
  /\ broken \in {"no", "accepted", "stream", "server", "unknown", "proxy", "assertion"}

\* Two kinds of event that the server depends on.
Has(name) == \E i \in DOMAIN queue : queue[i].name = name
Other == queue # <<>> /\ Head(queue).name \notin {"quit", "connecting"}

\* The queue keeps them, and nothing is asked for that needs a screen.
QueueKept ==
  /\ queue' \in Seq(Events)
  /\ Calm(queue) => Calm(queue')
  /\ Has("quit") => Has("quit")'
  /\ Has("connecting") => Has("connecting")'

\* The listening socket is polled, or will be, unless it has failed.
Polls == polled \/ deaf \/ Has("connecting")

\* What every step of ClientListener keeps.
ConnStep ==
  /\ ConnTypes'
  /\ listener' = listener
  /\ Calm(queue) => Calm(queue')
  /\ Has("quit") => Has("quit")'
  /\ Polls => Polls'

LEMMA QuietEvents ==
  /\ Quiet(<<>>)
  /\ \A name \in ConnEvents, c \in Conns : Quiet(<<ConnEvent(name, c)>>)
  /\ \A name \in {"connecting", "connected", "serverGone", "orphan", "quit"} :
       Quiet(<<Plain(name)>>)
  /\ \A x, y : Quiet(NoClientsLeft(x, y))
<1>1. Quiet(<<>>)
  BY SMTT(120) DEF Quiet, Calm
<1>2. ASSUME NEW name \in ConnEvents, NEW c \in Conns
      PROVE  Quiet(<<ConnEvent(name, c)>>)
  <2>1. ConnEvent(name, c) \in Events /\ ConnEvent(name, c).name = name
    BY EventTypes DEF ConnEvent
  <2>. QED
    BY SMTT(120), <2>1 DEF Quiet, Calm, ConnEvents
<1>3. ASSUME NEW name \in {"connecting", "connected", "serverGone", "orphan", "quit"}
      PROVE  Quiet(<<Plain(name)>>)
  <2>1. Plain(name) \in Events /\ Plain(name).name = name
    BY EventTypes DEF ConnEvent, Plain, Requests
  <2>. QED
    BY SMTT(120), <2>1 DEF Quiet, Calm
<1>4. ASSUME NEW x, NEW y
      PROVE  Quiet(NoClientsLeft(x, y))
  BY <1>1, <1>3 DEF NoClientsLeft
<1>. QED
  BY <1>1, <1>2, <1>3, <1>4

LEMMA CalmOf ==
  ASSUME NEW q \in Seq(Events), NEW evs, Quiet(evs)
  PROVE  /\ q \o evs \in Seq(Events)
         /\ Calm(q) => Calm(q \o evs)
         /\ q # <<>> => /\ Tail(q) \in Seq(Events)
                        /\ Calm(q) => Calm(Tail(q))
<1>1. evs \in Seq(Events)
  BY DEF Quiet
<1>2. Calm(q) => Calm(q \o evs)
  <2>. SUFFICES ASSUME Calm(q), NEW i \in DOMAIN (q \o evs)
                PROVE  (q \o evs)[i].name \notin {"suspend", "resume"}
    BY DEF Calm
  <2>1. i \in 1..(Len(q) + Len(evs))
    BY SMTT(120), <1>1
  <2>2. CASE i <= Len(q)
    BY SMTT(120), <1>1, <2>1, <2>2 DEF Calm
  <2>3. CASE i > Len(q)
    <3>1. (q \o evs)[i] = evs[i - Len(q)] /\ i - Len(q) \in DOMAIN evs
      BY SMTT(120), <1>1, <2>1, <2>3
    <3>. QED
      BY <3>1 DEF Quiet, Calm
  <2>. QED
    BY SMTT(120), <2>1, <2>2, <2>3
<1>3. ASSUME q # <<>>
      PROVE  Tail(q) \in Seq(Events) /\ (Calm(q) => Calm(Tail(q)))
  <2>1. Tail(q) \in Seq(Events)
    BY SMTT(120), <1>3
  <2>2. ASSUME NEW i \in DOMAIN Tail(q)
        PROVE  i + 1 \in DOMAIN q /\ Tail(q)[i] = q[i + 1]
    BY SMTT(120), <1>3, <2>2
  <2>. QED
    BY <2>1, <2>2 DEF Calm
<1>. QED
  BY SMTT(120), <1>1, <1>2, <1>3

LEMMA PostTypes ==
  ASSUME queue \in Seq(Events), NEW evs, Quiet(evs), Post(evs)
  PROVE  /\ queue' \in Seq(Events) /\ (Calm(queue) => Calm(queue'))
         /\ \A name : Has(name) => Has(name)'
<1>1. queue' \in Seq(Events) /\ (Calm(queue) => Calm(queue'))
  BY CalmOf DEF Post
<1>2. ASSUME NEW name, Has(name)
      PROVE  Has(name)'
  <2>1. evs \in Seq(Events) /\ queue' = queue \o evs
    BY DEF Quiet, Post
  <2>2. \E i \in DOMAIN queue : queue[i].name = name
    BY <1>2 DEF Has
  <2>3. \E i \in DOMAIN (queue \o evs) : (queue \o evs)[i].name = name
    BY <2>1, <2>2, EventKeptByPost
  <2>. QED
    BY <2>1, <2>3 DEF Has
<1>. QED
  BY <1>1, <1>2

LEMMA PostKept ==
  ASSUME queue \in Seq(Events), NEW evs, Quiet(evs), Post(evs)
  PROVE  QueueKept
  BY PostTypes DEF QueueKept

LEMMA ThenTypes ==
  ASSUME queue \in Seq(Events), NEW evs, Quiet(evs), queue # <<>>, Then(evs)
  PROVE  /\ queue' \in Seq(Events) /\ (Calm(queue) => Calm(queue'))
         /\ \A name : Head(queue).name # name /\ Has(name) => Has(name)'
<1>1. Tail(queue) \in Seq(Events) /\ (Calm(queue) => Calm(Tail(queue)))
  BY CalmOf
<1>2. queue' \in Seq(Events) /\ (Calm(queue) => Calm(queue'))
  BY <1>1, CalmOf DEF Then
<1>3. ASSUME NEW name, Head(queue).name # name, Has(name)
      PROVE  Has(name)'
  <2>1. evs \in Seq(Events) /\ queue' = Tail(queue) \o evs
    BY DEF Quiet, Then
  <2>2. \E i \in DOMAIN queue : queue[i].name = name
    BY <1>3 DEF Has
  <2>3. \E i \in DOMAIN (Tail(queue) \o evs) : (Tail(queue) \o evs)[i].name = name
    BY <1>3, <2>1, <2>2, EventKept
  <2>. QED
    BY <2>1, <2>3 DEF Has
<1>. QED
  BY <1>2, <1>3

LEMMA ThenKept ==
  ASSUME queue \in Seq(Events), NEW evs, Quiet(evs), Other, Then(evs)
  PROVE  QueueKept
  BY ThenTypes DEF QueueKept, Other

LEMMA SameKept ==
  ASSUME queue \in Seq(Events), UNCHANGED queue
  PROVE  QueueKept
  BY DEF QueueKept, Has

LEMMA SetTypes ==
  ASSUME obj \in [Conns -> Object], NEW c \in Conns, NEW o \in Object, Set(c, o)
  PROVE  /\ obj' \in [Conns -> Object]
         /\ obj'[c] = o
         /\ \A d \in Conns : d # c => obj'[d] = obj[d]
  BY DEF Set

LEMMA PeerTypes ==
  ASSUME peer \in [Conns -> Peer], NEW c \in Conns
  PROVE  /\ [peer EXCEPT ![c].at = "calling"] \in [Conns -> Peer]
         /\ [peer EXCEPT ![c].at = "shaking"] \in [Conns -> Peer]
         /\ [peer EXCEPT ![c].at = "open"] \in [Conns -> Peer]
         /\ [peer EXCEPT ![c].at = "gone"] \in [Conns -> Peer]
         /\ [peer EXCEPT ![c].msg = "none"] \in [Conns -> Peer]
         /\ peer[c].said \in 0..1 =>
              /\ [peer EXCEPT ![c].said = @ + 1, ![c].msg = "good"] \in [Conns -> Peer]
              /\ [peer EXCEPT ![c].said = @ + 1, ![c].msg = "bad"] \in [Conns -> Peer]
<1>1. peer[c] \in Peer
  OBVIOUS
<1>2. /\ [peer[c] EXCEPT !.at = "calling"] \in Peer
      /\ [peer[c] EXCEPT !.at = "shaking"] \in Peer
      /\ [peer[c] EXCEPT !.at = "open"] \in Peer
      /\ [peer[c] EXCEPT !.at = "gone"] \in Peer
  BY <1>1 DEF Peer
<1>3. [peer[c] EXCEPT !.msg = "none"] \in Peer
  BY <1>1 DEF Peer
<1>4. ASSUME NEW m \in {"good", "bad"}, peer[c].said \in 0..1
      PROVE  [peer EXCEPT ![c].said = @ + 1, ![c].msg = m] \in [Conns -> Peer]
  <2>1. peer[c].said + 1 \in 0..2
    BY SMTT(120), <1>4
  <2>2. [peer[c] EXCEPT !.said = @ + 1] \in Peer
    BY <1>1, <2>1 DEF Peer
  <2>3. [peer EXCEPT ![c].said = @ + 1] \in [Conns -> Peer]
    BY <2>2
  <2>4. [[peer EXCEPT ![c].said = @ + 1][c] EXCEPT !.msg = m] \in Peer
    BY <2>3 DEF Peer
  <2>. QED
    BY <2>3, <2>4
<1>. QED
  BY <1>2, <1>3, <1>4

\* The single fields that the handlers assign.
LEMMA EditTypes ==
  ASSUME NEW o \in Object
  PROVE  /\ [o EXCEPT !.socket = "live", !.onAccepted = TRUE] \in Object
         /\ [o EXCEPT !.socket = "dead"] \in Object
         /\ \A g \in {"none", "unknown", "listener", "server"} :
              [o EXCEPT !.onGone = g] \in Object
         /\ [o EXCEPT !.m_ready = TRUE, !.m_timer = FALSE] \in Object
         /\ [o EXCEPT !.heartbeat = TRUE] \in Object
         /\ [o EXCEPT !.m_proxy = FALSE] \in Object
         /\ \A b \in BOOLEAN : [o EXCEPT !.closed = b] \in Object
  BY DEF Object, Life

LEMMA ServiceSteps ==
  ASSUME ConnTypes
  PROVE  /\ \A c \in Conns : PeerConnects(c) \/ ServiceAccept(c) \/ PeerSends(c)
                             \/ PeerLeaves(c) => ConnStep
         /\ ServiceListening \/ ListenError => ConnStep
<1>. USE DEF ConnTypes, ConnStep, QueueKept, Polls
<1>1. ASSUME NEW c \in Conns, PeerConnects(c)
      PROVE  ConnStep
  <2>1. QueueKept
    BY <1>1, SameKept DEF PeerConnects
  <2>. QED
    BY <1>1, <2>1, PeerTypes DEF PeerConnects
<1>2. ASSUME NEW c \in Conns, ServiceAccept(c)
      PROVE  ConnStep
  <2>1. peer' \in [Conns -> Peer]
    <3>1. \/ peer' = [peer EXCEPT ![c].at = "open"]
          \/ peer' = [peer EXCEPT ![c].at = "gone"]
      BY <1>2 DEF ServiceAccept
    <3>2. /\ [peer EXCEPT ![c].at = "open"] \in [Conns -> Peer]
          /\ [peer EXCEPT ![c].at = "gone"] \in [Conns -> Peer]
      BY PeerTypes
    <3>. QED
      BY <3>1, <3>2
  <2>2. QueueKept
    <3>1. Quiet(<<ConnEvent("accepted", c)>>)
      BY QuietEvents DEF ConnEvents
    <3>2. Post(<<ConnEvent("accepted", c)>>) \/ UNCHANGED queue
      BY <1>2 DEF ServiceAccept
    <3>. QED
      BY <3>1, <3>2, PostKept, SameKept
  <2>. QED
    BY <1>2, <2>1, <2>2 DEF ServiceAccept
<1>3. ASSUME NEW c \in Conns, PeerSends(c)
      PROVE  ConnStep
  <2>1. peer' \in [Conns -> Peer]
    <3>1. peer[c].said \in 0..1
      BY SMTT(120), <1>3 DEF PeerSends
    <3>2. \/ peer' = [peer EXCEPT ![c].said = @ + 1, ![c].msg = "good"]
          \/ peer' = [peer EXCEPT ![c].said = @ + 1, ![c].msg = "bad"]
      BY <1>3 DEF PeerSends
    <3>3. /\ [peer EXCEPT ![c].said = @ + 1, ![c].msg = "good"] \in [Conns -> Peer]
          /\ [peer EXCEPT ![c].said = @ + 1, ![c].msg = "bad"] \in [Conns -> Peer]
      BY <3>1, PeerTypes
    <3>. QED
      BY <3>2, <3>3
  <2>2. QueueKept
    <3>1. Quiet(<<ConnEvent("input", c)>>)
      BY QuietEvents DEF ConnEvents
    <3>2. Post(<<ConnEvent("input", c)>>)
      BY <1>3 DEF PeerSends
    <3>. QED
      BY <3>1, <3>2, PostKept
  <2>. QED
    BY <1>3, <2>1, <2>2 DEF PeerSends
<1>4. ASSUME NEW c \in Conns, PeerLeaves(c)
      PROVE  ConnStep
  <2>1. peer' \in [Conns -> Peer]
    BY <1>4, PeerTypes DEF PeerLeaves
  <2>2. QueueKept
    <3> DEFINE evs == IF obj[c].socket = "live" /\ ~obj[c].closed
                      THEN <<ConnEvent("shutdown", c)>> ELSE <<>>
    <3>1. Quiet(evs)
      BY QuietEvents DEF ConnEvents
    <3>2. Post(evs)
      BY <1>4 DEF PeerLeaves
    <3>. HIDE DEF evs
    <3>. QED
      BY <3>1, <3>2, PostKept
  <2>. QED
    BY <1>4, <2>1, <2>2 DEF PeerLeaves
<1>5. ASSUME ServiceListening
      PROVE  ConnStep
  <2>1. Quiet(<<Plain("connecting")>>)
    BY QuietEvents
  <2>2. QueueKept
    BY <1>5, <2>1, PostKept DEF ServiceListening
  <2>3. Has("connecting")'
    <3> DEFINE e == Plain("connecting")
    <3>1. e \in Events /\ e.name = "connecting"
      BY EventTypes DEF Plain, ConnEvent
    <3>2. queue' = queue \o <<e>>
      BY <1>5 DEF ServiceListening, Post
    <3>. HIDE DEF e
    <3>3. Len(queue) + 1 \in DOMAIN queue' /\ queue'[Len(queue) + 1] = e
      BY SMTT(120), <3>1, <3>2
    <3>. QED
      BY <3>1, <3>3 DEF Has
  <2>. QED
    BY <1>5, <2>2, <2>3 DEF ServiceListening
<1>6. ASSUME ListenError
      PROVE  ConnStep
  <2>1. QueueKept
    BY <1>6, SameKept DEF ListenError
  <2>. QED
    BY <1>6, <2>1 DEF ListenError
<1>. QED
  BY <1>1, <1>2, <1>3, <1>4, <1>5, <1>6

LEMMA ListenerSteps ==
  ASSUME ConnTypes
  PROVE  HandleClientConnecting \/ HandleClientAccepted \/ HandleUnknownClient
           \/ HandleWaitingClientGone => ConnStep
<1>. USE DEF ConnTypes, ConnStep, QueueKept, Polls
<1>1. ASSUME HandleClientConnecting
      PROVE  ConnStep
  <2>1. Takes("connecting") /\ queue # <<>>
    BY <1>1 DEF HandleClientConnecting, Takes
  <2>2. PICK c \in Conns :
          /\ \/ /\ polled' = TRUE
                /\ peer' = [peer EXCEPT ![c].at = IF secure THEN "shaking" ELSE "open"]
                /\ Set(c, [obj[c] EXCEPT !.socket = "live", !.onAccepted = TRUE])
                /\ Then(IF secure THEN <<>> ELSE <<ConnEvent("accepted", c)>>)
                /\ UNCHANGED deaf
             \/ /\ deaf' = TRUE
                /\ peer' = [peer EXCEPT ![c].at = "gone"]
                /\ Then(<<>>)
                /\ UNCHANGED <<polled, obj>>
             \/ /\ polled' = TRUE
                /\ peer' = [peer EXCEPT ![c].at = "gone"]
                /\ Set(c, [obj[c] EXCEPT !.socket = "dead"])
                /\ Then(<<>>)
                /\ UNCHANGED deaf
    BY <1>1 DEF HandleClientConnecting
  <2>3. peer' \in [Conns -> Peer]
    <3>1. \/ peer' = [peer EXCEPT ![c].at = "shaking"]
          \/ peer' = [peer EXCEPT ![c].at = "open"]
          \/ peer' = [peer EXCEPT ![c].at = "gone"]
      BY <2>2
    <3>2. /\ [peer EXCEPT ![c].at = "shaking"] \in [Conns -> Peer]
          /\ [peer EXCEPT ![c].at = "open"] \in [Conns -> Peer]
          /\ [peer EXCEPT ![c].at = "gone"] \in [Conns -> Peer]
      BY PeerTypes
    <3>. QED
      BY <3>1, <3>2
  <2>4. obj' \in [Conns -> Object]
    BY <2>2, EditTypes, SetTypes
  <2>5. /\ queue' \in Seq(Events) /\ (Calm(queue) => Calm(queue'))
        /\ Has("quit") => Has("quit")'
    <3>1. Quiet(<<>>) /\ Quiet(<<ConnEvent("accepted", c)>>)
      BY QuietEvents DEF ConnEvents
    <3>2. Then(<<>>) \/ Then(<<ConnEvent("accepted", c)>>)
      BY <2>2
    <3>. QED
      BY <2>1, <3>1, <3>2, ThenTypes DEF Takes
  <2>6. polled' \in BOOLEAN /\ deaf' \in BOOLEAN /\ (polled' \/ deaf')
    BY <2>2
  <2>. QED
    BY <1>1, <2>3, <2>4, <2>5, <2>6 DEF HandleClientConnecting
<1>2. ASSUME HandleClientAccepted
      PROVE  ConnStep
  <2>1. Takes("accepted") /\ Other /\ This \in Conns
    BY <1>2, HeadOfQueue DEF HandleClientAccepted, Takes, ConnEvents, Other
  <2>2. obj' \in [Conns -> Object]
    BY <1>2, <2>1, NewUnknownFields, SetTypes DEF HandleClientAccepted
  <2>3. QueueKept
    BY <1>2, <2>1, QuietEvents, ThenKept DEF HandleClientAccepted
  <2>4. m_newClients' \subseteq Conns
    BY <1>2, <2>1 DEF HandleClientAccepted
  <2>. QED
    BY <1>2, <2>2, <2>3, <2>4 DEF HandleClientAccepted
<1>3. ASSUME HandleUnknownClient
      PROVE  ConnStep
  <2> DEFINE c    == This
             o    == obj[c]
             kept == o.m_ready /\ o.m_proxy
             left == IF o.m_ready
                     THEN [UnknownRemovesHandlers(o) EXCEPT !.m_proxy = FALSE]
                     ELSE o
             a    == [left EXCEPT !.onGone = "listener"]
             b    == [left EXCEPT !.closed = @ \/ o.m_stream]
  <2>1. Other /\ c \in Conns
    BY <1>3, HeadOfQueue DEF HandleUnknownClient, Takes, ConnEvents, Other
  <2>2. /\ m_newClients' = m_newClients \ {c}
        /\ \/ /\ m_waitingClients' = Append(m_waitingClients, c)
              /\ Set(c, DeleteUnknown(a)) /\ Then(<<Plain("connected")>>)
           \/ /\ Set(c, DeleteUnknown(b)) /\ Then(<<>>) /\ UNCHANGED m_waitingClients
    BY <1>3 DEF HandleUnknownClient
  <2>3. o \in Object
    BY <2>1
  <2>. HIDE DEF c, o
  <2>4. left \in Object
    BY <2>3, EditTypes, UnknownRemovesHandlersFields
  <2>. HIDE DEF left
  <2>5. (left.closed \/ o.m_stream) \in BOOLEAN
    OBVIOUS
  <2>6. a \in Object /\ b \in Object
    BY <2>4, <2>5, EditTypes
  <2>. HIDE DEF a, b
  <2>7. obj' \in [Conns -> Object]
    BY <2>1, <2>2, <2>6, DeleteUnknownFields, SetTypes
  <2>8. QueueKept
    BY <2>1, <2>2, QuietEvents, ThenKept
  <2>9. m_newClients' \subseteq Conns
    BY <2>2
  <2>10. m_waitingClients' \in Seq(Conns)
    <3>1. Append(m_waitingClients, c) \in Seq(Conns)
      BY SMTT(120), <2>1
    <3>. QED
      BY <2>2, <3>1
  <2>. QED
    BY <1>3, <2>7, <2>8, <2>9, <2>10 DEF HandleUnknownClient
<1>4. ASSUME HandleWaitingClientGone
      PROVE  ConnStep
  <2>1. Other /\ This \in Conns
    BY <1>4, HeadOfQueue DEF HandleWaitingClientGone, Takes, ConnEvents, Other
  <2>2. obj' \in [Conns -> Object]
    <3> DEFINE q == [obj[This] EXCEPT !.onGone = "none"]
    <3>1. q \in Object
      BY <2>1, EditTypes
    <3>2. Set(This, DeleteProxy(q))
      BY <1>4 DEF HandleWaitingClientGone
    <3>. HIDE DEF q
    <3>. QED
      BY <2>1, <3>1, <3>2, DeleteProxyFields, SetTypes
  <2>3. QueueKept
    BY <1>4, <2>1, QuietEvents, ThenKept DEF HandleWaitingClientGone
  <2>4. m_waitingClients' \in Seq(Conns)
    <3>1. PICK i \in DOMAIN m_waitingClients :
            m_waitingClients' = SubSeq(m_waitingClients, 1, i - 1)
                  \o SubSeq(m_waitingClients, i + 1, Len(m_waitingClients))
      BY <1>4 DEF HandleWaitingClientGone
    <3>2. /\ SubSeq(m_waitingClients, 1, i - 1) \in Seq(Conns)
          /\ SubSeq(m_waitingClients, i + 1, Len(m_waitingClients)) \in Seq(Conns)
      BY SMTT(120)
    <3>. QED
      BY SMTT(120), <3>1, <3>2
  <2>. QED
    BY <1>4, <2>2, <2>3, <2>4 DEF HandleWaitingClientGone
<1>. QED
  BY <1>1, <1>2, <1>3, <1>4

LEMMA HandshakeSteps ==
  ASSUME ConnTypes
  PROVE  /\ HandleHello \/ HandleUnknownGone \/ HandleReady \/ HandleInfo
              \/ HandleDisconnect \/ DropEvent => ConnStep
         /\ \A c \in Conns : HandleTimeout(c) \/ HandleFlatline(c) => ConnStep
<1>. USE DEF ConnTypes, ConnStep, QueueKept, Polls, unknownFrame
<1>1. ASSUME HandleHello
      PROVE  ConnStep
  <2>1. Other /\ This \in Conns
    BY <1>1, HeadOfQueue DEF HandleHello, Takes, ConnEvents, Other
  <2>2. obj' \in [Conns -> Object]
    <3>1. UnknownRemovesHandlers(obj[This]) \in Object
      BY <2>1, UnknownRemovesHandlersFields
    <3>2. NewProxy(UnknownRemovesHandlers(obj[This])) \in Object
      BY <3>1, NewProxyFields
    <3>3. SendFailure(obj[This]) \in Object
      BY <2>1, SendFailureFields
    <3>. QED
      BY <1>1, <2>1, <3>2, <3>3, SetTypes DEF HandleHello
  <2>3. peer' \in [Conns -> Peer]
    BY <1>1, <2>1, PeerTypes DEF HandleHello
  <2>4. QueueKept
    <3>1. Quiet(<<>>) /\ Quiet(<<ConnEvent("failure", This)>>)
      BY <2>1, QuietEvents DEF ConnEvents
    <3>2. Then(<<>>) \/ Then(<<ConnEvent("failure", This)>>)
      BY <1>1 DEF HandleHello
    <3>. QED
      BY <2>1, <3>1, <3>2, ThenKept
  <2>. QED
    BY <1>1, <2>2, <2>3, <2>4 DEF HandleHello
<1>2. ASSUME HandleUnknownGone
      PROVE  ConnStep
  <2>1. Other /\ This \in Conns
    BY <1>2, HeadOfQueue DEF HandleUnknownGone, Takes, ConnEvents, Other
  <2>2. obj' \in [Conns -> Object]
    <3>1. SendFailure(obj[This]) \in Object
      BY SMTT(120), <2>1, SendFailureFields
    <3>. QED
      BY <1>2, <2>1, <3>1, SetTypes DEF HandleUnknownGone
  <2>3. QueueKept
    <3>1. Quiet(<<>>) /\ Quiet(<<ConnEvent("failure", This)>>)
      BY SMTT(120), <2>1, QuietEvents DEF ConnEvents
    <3>2. Then(<<>>) \/ Then(<<ConnEvent("failure", This)>>)
      BY <1>2 DEF HandleUnknownGone
    <3>. QED
      BY SMTT(120), <2>1, <3>1, <3>2, ThenKept
  <2>. QED
    BY <1>2, <2>2, <2>3 DEF HandleUnknownGone
<1>3. ASSUME HandleReady
      PROVE  ConnStep
  <2>1. Other /\ This \in Conns
    BY <1>3, HeadOfQueue DEF HandleReady, Takes, ConnEvents, Other
  <2>2. obj' \in [Conns -> Object]
    <3>1. [obj[This] EXCEPT !.m_ready = TRUE, !.m_timer = FALSE] \in Object
      BY <2>1, EditTypes
    <3>. QED
      BY <1>3, <2>1, <3>1, SetTypes DEF HandleReady
  <2>3. QueueKept
    <3>1. Quiet(<<>>) /\ Quiet(<<ConnEvent("success", This)>>)
      BY <2>1, QuietEvents DEF ConnEvents
    <3>2. Then(<<>>) \/ Then(<<ConnEvent("success", This)>>)
      BY <1>3 DEF HandleReady
    <3>. QED
      BY <2>1, <3>1, <3>2, ThenKept
  <2>. QED
    BY <1>3, <2>2, <2>3 DEF HandleReady
<1>4. ASSUME HandleInfo
      PROVE  ConnStep
  <2>1. Other /\ This \in Conns
    BY <1>4, HeadOfQueue DEF HandleInfo, Takes, ConnEvents, Other
  <2>2. obj' \in [Conns -> Object]
    <3>1. [obj[This] EXCEPT !.heartbeat = TRUE] \in Object /\ Disconnect(obj[This]) \in Object
      BY <2>1, EditTypes, DisconnectFields
    <3>. QED
      BY <1>4, <2>1, <3>1, SetTypes DEF HandleInfo
  <2>3. peer' \in [Conns -> Peer]
    BY <1>4, <2>1, PeerTypes DEF HandleInfo
  <2>4. QueueKept
    <3>1. Quiet(<<ConnEvent("ready", This)>>) /\ Quiet(<<ConnEvent("proxyGone", This)>>)
      BY <2>1, QuietEvents DEF ConnEvents
    <3>2. Then(<<ConnEvent("ready", This)>>) \/ Then(<<ConnEvent("proxyGone", This)>>)
      BY <1>4 DEF HandleInfo
    <3>. QED
      BY <2>1, <3>1, <3>2, ThenKept
  <2>. QED
    BY <1>4, <2>2, <2>3, <2>4 DEF HandleInfo
<1>5. ASSUME HandleDisconnect
      PROVE  ConnStep
  <2>1. Other /\ This \in Conns
    BY <1>5, HeadOfQueue DEF HandleDisconnect, Takes, ConnEvents, Other
  <2>2. obj' \in [Conns -> Object]
    BY <1>5, <2>1, DisconnectFields, SetTypes DEF HandleDisconnect
  <2>3. QueueKept
    <3>1. Quiet(<<ConnEvent("proxyGone", This)>>)
      BY <2>1, QuietEvents DEF ConnEvents
    <3>. QED
      BY <1>5, <2>1, <3>1, ThenKept DEF HandleDisconnect
  <2>. QED
    BY <1>5, <2>2, <2>3 DEF HandleDisconnect
<1>6. ASSUME DropEvent
      PROVE  ConnStep
  <2>1. Other /\ Then(<<>>)
    BY <1>6 DEF DropEvent, Takes, Other
  <2>2. QueueKept
    BY <2>1, QuietEvents, ThenKept
  <2>. QED
    BY <1>6, <2>2 DEF DropEvent
<1>7. ASSUME NEW c \in Conns, HandleTimeout(c)
      PROVE  ConnStep
  <2>1. obj' \in [Conns -> Object]
    BY <1>7, SendFailureFields, SetTypes DEF HandleTimeout
  <2>2. Quiet(<<ConnEvent("failure", c)>>)
    BY QuietEvents DEF ConnEvents
  <2>3. QueueKept
    BY <1>7, <2>2, PostKept DEF HandleTimeout
  <2>. QED
    BY <1>7, <2>1, <2>3 DEF HandleTimeout
<1>8. ASSUME NEW c \in Conns, HandleFlatline(c)
      PROVE  ConnStep
  <2>1. obj' \in [Conns -> Object]
    BY <1>8, DisconnectFields, SetTypes DEF HandleFlatline
  <2>2. Quiet(<<ConnEvent("proxyGone", c)>>)
    BY QuietEvents DEF ConnEvents
  <2>3. QueueKept
    BY <1>8, <2>2, PostKept DEF HandleFlatline
  <2>. QED
    BY <1>8, <2>1, <2>3 DEF HandleFlatline
<1>. QED
  BY <1>1, <1>2, <1>3, <1>4, <1>5, <1>6, <1>7, <1>8

LEMMA ServerSteps ==
  ASSUME ConnTypes
  PROVE  /\ HandleClientConnected \/ HandleClientDisconnected => ConnStep
         /\ \A c \in Conns : HandleClientCloseTimeout(c) => ConnStep
<1>. USE DEF ConnTypes, ConnStep, QueueKept, Polls
<1>1. ASSUME HandleClientConnected
      PROVE  ConnStep
  <2>1. Other /\ Then(<<>>)
    BY <1>1 DEF HandleClientConnected, Takes, Other
  <2>2. QueueKept
    BY SMTT(120), <2>1, QuietEvents, ThenKept
  <2>3. CASE m_waitingClients = <<>>
    BY <1>1, <2>2, <2>3 DEF HandleClientConnected
  <2>4. CASE m_waitingClients # <<>>
    <3> DEFINE c == Head(m_waitingClients)
               o == [obj[c] EXCEPT !.onGone = "server"]
    <3>1. /\ m_waitingClients' = Tail(m_waitingClients)
          /\ Set(c, o)
          /\ \/ m_clients' = m_clients \cup {c} /\ UNCHANGED m_oldClients
             \/ m_oldClients' = m_oldClients \cup {c} /\ UNCHANGED m_clients
      BY <1>1, <2>4 DEF HandleClientConnected
    <3>2. c \in Conns /\ Tail(m_waitingClients) \in Seq(Conns)
      BY SMTT(120), <2>4
    <3>. HIDE DEF c
    <3>3. o \in Object
      BY <3>2, EditTypes
    <3>. HIDE DEF o
    <3>4. obj' \in [Conns -> Object]
      BY <3>1, <3>2, <3>3, SetTypes
    <3>5. m_clients' \subseteq Conns /\ m_oldClients' \subseteq Conns
      BY <3>1, <3>2
    <3>. QED
      BY <1>1, <2>2, <3>1, <3>2, <3>4, <3>5 DEF HandleClientConnected
  <2>. QED
    BY <2>3, <2>4
<1>2. ASSUME HandleClientDisconnected
      PROVE  ConnStep
  <2>1. Other /\ This \in Conns
    BY <1>2, HeadOfQueue DEF HandleClientDisconnected, Takes, ConnEvents, Other
  <2> DEFINE q == [obj[This] EXCEPT !.onGone = "none"]
  <2>2. q \in Object
    BY <2>1, EditTypes
  <2>3. Set(This, DeleteProxy(q))
    BY <1>2 DEF HandleClientDisconnected
  <2>. HIDE DEF q
  <2>4. obj' \in [Conns -> Object]
    BY SMTT(120), <2>1, <2>2, <2>3, DeleteProxyFields, SetTypes
  <2>5. Quiet(NoClientsLeft(m_clients', m_oldClients'))
    BY QuietEvents
  <2>6. QueueKept
    BY <1>2, <2>1, <2>5, ThenKept DEF HandleClientDisconnected
  <2>7. m_clients' \subseteq Conns /\ m_oldClients' \subseteq Conns
    BY <1>2 DEF HandleClientDisconnected
  <2>. QED
    BY <1>2, <2>4, <2>6, <2>7 DEF HandleClientDisconnected
<1>3. ASSUME NEW c \in Conns, HandleClientCloseTimeout(c)
      PROVE  ConnStep
  <2> DEFINE q == [obj[c] EXCEPT !.onGone = "none"]
  <2>1. q \in Object
    BY EditTypes
  <2>2. Set(c, DeleteProxy(q))
    BY <1>3 DEF HandleClientCloseTimeout
  <2>. HIDE DEF q
  <2>3. obj' \in [Conns -> Object]
    BY <2>1, <2>2, DeleteProxyFields, SetTypes
  <2>4. Quiet(NoClientsLeft(m_clients, m_oldClients'))
    BY QuietEvents
  <2>5. QueueKept
    BY <1>3, <2>4, PostKept DEF HandleClientCloseTimeout
  <2>6. m_oldClients' \subseteq Conns
    BY <1>3 DEF HandleClientCloseTimeout
  <2>. QED
    BY <1>3, <2>3, <2>5, <2>6 DEF HandleClientCloseTimeout
<1>. QED
  BY <1>1, <1>2, <1>3

\* The variables of ServerApp, but for app.
AppTypes ==
  /\ restartable \in BOOLEAN /\ m_suspended \in BOOLEAN
  /\ frames \in Seq(Frame)
  /\ running \in {"loop", "close", "exited"}
  /\ idle \in {"no", "refused", "forgotten"}
  /\ budget \in [conns : 0..NumConns, secure : BOOLEAN, asks : SUBSET Requests, fails : Nat]

\* The first layer: the types, the members of ServerApp, and that suspend and
\* resume are queued only while there is a screen, so that startServer is not
\* called while a start waits for the screen.
TypeInv ==
  /\ ConnTypes /\ AppTypes
  /\ Well(app) /\ listener = app.server
  /\ app.screen \/ Calm(queue)

LEMMA OrphanedTypes ==
  ASSUME NEW q \in Seq(Events), NEW names
  PROVE  /\ Orphaned(q, names) \in Seq(Events)
         /\ Calm(q) => Calm(Orphaned(q, names))
<1> DEFINE p == Orphaned(q, names)
<1>1. Plain("orphan") \in Events /\ Plain("orphan").name = "orphan"
  BY EventTypes DEF Plain, ConnEvent
<1>2. /\ DOMAIN p = 1..Len(q) /\ DOMAIN q = 1..Len(q) /\ Len(q) \in Nat
      /\ \A i \in DOMAIN q : p[i] = q[i] \/ p[i] = Plain("orphan")
  BY SMTT(120) DEF Orphaned
<1>3. p = [i \in 1..Len(q) |-> p[i]]
  BY <1>2 DEF Orphaned
<1>. HIDE DEF p
<1>4. \A i \in 1..Len(q) : p[i] \in Events
  BY SMTT(120), <1>1, <1>2
<1>5. p \in Seq(Events)
  BY SMTT(120), <1>2, <1>3, <1>4
<1>6. Calm(q) => Calm(p)
  BY <1>1, <1>2 DEF Calm
<1>. QED
  BY <1>5, <1>6 DEF p

\* app becomes a.
LEMMA BecomeTypes ==
  ASSUME TypeInv, NEW a, Well(a), NEW closed \in BOOLEAN, NEW wiped \in BOOLEAN,
         NEW q \in Seq(Events), NEW evs, Quiet(evs), Become(a, closed, wiped, q, evs),
         a.screen \/ wiped \/ Calm(q),
         broken' \in {"no", "server"}
  PROVE  /\ ConnTypes' /\ restartable' \in BOOLEAN
         /\ Well(app') /\ listener' = app'.server
         /\ app'.screen \/ Calm(queue')
<1>1. app' = a /\ Well(app') /\ listener' = app'.server
  BY DEF Become
<1>2. a \in App /\ a.server \in BOOLEAN
  BY DEF Well, App
<1>3. listener' \in BOOLEAN /\ polled' \in BOOLEAN /\ deaf' \in BOOLEAN
  BY <1>2 DEF Become
<1>4. queue' \in Seq(Events) /\ (app'.screen \/ Calm(queue'))
  <2> DEFINE names == {"connecting", "connected", "serverGone"}
             r == IF wiped THEN <<>> ELSE IF closed THEN Orphaned(q, names) ELSE q
  <2>1. r \in Seq(Events)
    BY SMTT(120), OrphanedTypes
  <2>2. wiped \/ Calm(q) => Calm(r)
    BY SMTT(120), OrphanedTypes DEF Calm
  <2>3. queue' = r \o evs
    BY DEF Become
  <2>. HIDE DEF r
  <2>4. queue' \in Seq(Events) /\ (Calm(r) => Calm(queue'))
    BY <2>1, <2>3, CalmOf
  <2>. QED
    BY <1>1, <2>2, <2>4
<1>5. /\ obj' \in [Conns -> Object] /\ peer' \in [Conns -> Peer]
      /\ m_newClients' \subseteq Conns /\ m_waitingClients' \in Seq(Conns)
      /\ m_clients' \subseteq Conns /\ m_oldClients' \subseteq Conns
  <2>1. CASE closed
    <3> DEFINE p == DeleteListenersClients(DeleteServersClients(obj))
    <3>1. obj' = p /\ peer' = HangUp
      BY <2>1 DEF Become
    <3>2. p = [c \in Conns |-> p[c]]
      BY DEF DeleteListenersClients
    <3>3. \A c \in Conns : p[c] \in Object
      BY ClosedFields DEF TypeInv, ConnTypes
    <3>. HIDE DEF p
    <3>4. obj' \in [Conns -> Object]
      BY <3>1, <3>2, <3>3
    <3>5. HangUp \in [Conns -> Peer]
      BY DEF HangUp, Peer, TypeInv, ConnTypes
    <3>6. /\ m_newClients' \subseteq Conns /\ m_waitingClients' \in Seq(Conns)
          /\ m_clients' \subseteq Conns /\ m_oldClients' \subseteq Conns
      BY SMTT(120), <2>1 DEF Become
    <3>. QED
      BY <3>1, <3>4, <3>5, <3>6
  <2>2. CASE ~closed
    BY <2>2 DEF Become, TypeInv, ConnTypes
  <2>. QED
    BY <2>1, <2>2
<1>6. secure' \in BOOLEAN /\ restartable' \in BOOLEAN
  BY DEF Become, TypeInv, ConnTypes, AppTypes
<1>. QED
  BY <1>1, <1>3, <1>4, <1>5, <1>6 DEF ConnTypes

\* A try uses up what is left of the bound.
LEMMA BudgetTypes ==
  ASSUME AppTypes, NEW try, Within(try), budget' = [budget EXCEPT !.fails = @ - Failed(try)]
  PROVE  budget' \in [conns : 0..NumConns, secure : BOOLEAN, asks : SUBSET Requests,
                      fails : Nat]
<1>1. budget.fails - Failed(try) \in Nat
  BY SMTT(120) DEF Within, Failed, AppTypes
<1>. QED
  BY <1>1 DEF AppTypes

LEMMA FinishTypes ==
  ASSUME TypeInv, queue # <<>>, NEW why, NEW closed \in BOOLEAN, Finish(why, closed),
         frames' \in Seq(Frame), broken = "no", broken' = broken
  PROVE  TypeInv'
<1>1. Tail(queue) \in Seq(Events) /\ (Calm(queue) => Calm(Tail(queue))) /\ Quiet(<<>>)
  BY CalmOf, QuietEvents DEF TypeInv, ConnTypes
<1>2. Well(app) /\ app \in App /\ app.screen \in BOOLEAN
      /\ (app.screen \/ Calm(Tail(queue)))
  BY <1>1 DEF TypeInv, Well, App
<1>3. CASE why = "suspend"
  <2>1. /\ Become(StopServer(app), closed, FALSE, Tail(queue), <<>>)
        /\ m_suspended' = TRUE
        /\ UNCHANGED <<running, idle, budget>>
    BY <1>3 DEF Finish
  <2>2. Well(StopServer(app)) /\ (StopServer(app).screen \/ Calm(Tail(queue)))
    BY <1>2, StopServerMoves DEF Moved, Well, WithScreen
  <2>3. /\ ConnTypes' /\ restartable' \in BOOLEAN
        /\ Well(app') /\ listener' = app'.server /\ (app'.screen \/ Calm(queue'))
    BY <1>1, <2>1, <2>2, BecomeTypes
  <2>. QED
    BY <2>1, <2>3 DEF TypeInv, AppTypes
<1>4. CASE why = "reset"
  <2>1. PICK try \in Tries :
          LET r == StartServer(CleanupServer(app), try) IN
          /\ Within(try)
          /\ Become(r.app, closed, app.screen \/ r.app.screen, Tail(queue), <<>>)
          /\ idle' = IdleAfter(r)
          /\ budget' = [budget EXCEPT !.fails = @ - Failed(try)]
          /\ UNCHANGED <<m_suspended, running>>
    BY <1>4 DEF Finish
  <2> DEFINE r == StartServer(CleanupServer(app), try)
  <2>2. Well(r.app)
    <3>1. Well(CleanupServer(app)) /\ CleanupServer(app).state \in Startable
      BY <1>2, CleanupServerMoves DEF Moved, Startable
    <3>. QED
      BY <3>1, StartServerMoves DEF Started
  <2>3. /\ Within(try)
        /\ Become(r.app, closed, app.screen \/ r.app.screen, Tail(queue), <<>>)
        /\ idle' = IdleAfter(r)
        /\ budget' = [budget EXCEPT !.fails = @ - Failed(try)]
        /\ UNCHANGED <<m_suspended, running>>
    BY <2>1
  <2>. HIDE DEF r
  <2>4. (app.screen \/ r.app.screen) \in BOOLEAN
    OBVIOUS
  <2>5. r.app.screen \/ (app.screen \/ r.app.screen) \/ Calm(Tail(queue))
    BY <1>2
  <2>6. /\ ConnTypes' /\ restartable' \in BOOLEAN
        /\ Well(app') /\ listener' = app'.server /\ (app'.screen \/ Calm(queue'))
    BY <1>1, <2>2, <2>3, <2>4, <2>5, BecomeTypes
  <2>7. idle' \in {"no", "refused", "forgotten"}
    BY <2>3 DEF IdleAfter
  <2>8. budget' \in [conns : 0..NumConns, secure : BOOLEAN, asks : SUBSET Requests,
                     fails : Nat]
    BY <2>3, BudgetTypes DEF TypeInv
  <2>. QED
    BY <2>3, <2>6, <2>7, <2>8 DEF TypeInv, AppTypes
<1>5. CASE why = "exit"
  <2>1. /\ Become(CleanupServer(app), closed, app.screen, Tail(queue), <<>>)
        /\ running' = "exited"
        /\ UNCHANGED <<m_suspended, idle, budget>>
    BY <1>5 DEF Finish
  <2>2. Well(CleanupServer(app))
    BY <1>2, CleanupServerMoves DEF Moved
  <2>3. /\ ConnTypes' /\ restartable' \in BOOLEAN
        /\ Well(app') /\ listener' = app'.server /\ (app'.screen \/ Calm(queue'))
    BY <1>1, <1>2, <2>1, <2>2, BecomeTypes
  <2>. QED
    BY <2>1, <2>3 DEF TypeInv, AppTypes
<1>. QED
  BY <1>3, <1>4, <1>5 DEF Finish

LEMMA TellTypes ==
  ASSUME ConnTypes, queue # <<>>, TellClientsToGo
  PROVE  /\ m_clients' \subseteq Conns /\ m_oldClients' \subseteq Conns
         /\ queue' \in Seq(Events) /\ (Calm(queue) => Calm(queue'))
<1>1. Quiet(NoClientsLeft(m_clients, m_oldClients))
  BY QuietEvents
<1>2. queue' \in Seq(Events) /\ (Calm(queue) => Calm(queue'))
  BY <1>1, ThenTypes DEF TellClientsToGo, ConnTypes
<1>. QED
  BY <1>2 DEF TellClientsToGo, ConnTypes

LEMMA StopTypes ==
  ASSUME TypeInv, queue # <<>>, NEW why \in {"suspend", "reset", "exit"}, Stop(why),
         broken = "no", broken' = broken
  PROVE  TypeInv'
<1>1. CASE app.state = "kStarted"
  <2> DEFINE f == [why |-> why, timer |-> TRUE, dead |-> FALSE]
  <2>1. /\ TellClientsToGo
        /\ frames' = Append(frames, f)
        /\ running' = IF why = "exit" THEN "close" ELSE running
        /\ UNCHANGED <<secure, listener, polled, deaf, peer, obj, m_newClients,
                       m_waitingClients, restartable, app, m_suspended, idle, budget>>
    BY <1>1 DEF Stop
  <2>2. f \in Frame
    BY DEF Frame
  <2>. HIDE DEF f
  <2>3. frames' \in Seq(Frame) /\ running' \in {"loop", "close", "exited"}
    BY SMTT(120), <2>1, <2>2 DEF TypeInv, AppTypes
  <2>4. /\ m_clients' \subseteq Conns /\ m_oldClients' \subseteq Conns
        /\ queue' \in Seq(Events) /\ (Calm(queue) => Calm(queue'))
    BY <2>1, TellTypes DEF TypeInv
  <2>5. ConnTypes'
    BY <2>1, <2>4 DEF TypeInv, ConnTypes
  <2>6. AppTypes'
    BY <2>1, <2>3 DEF TypeInv, AppTypes
  <2>. QED
    BY <2>1, <2>4, <2>5, <2>6 DEF TypeInv
<1>2. CASE app.state # "kStarted"
  <2>1. Finish(why, FALSE) /\ UNCHANGED frames
    BY <1>2 DEF Stop
  <2>2. frames' \in Seq(Frame)
    BY <2>1 DEF TypeInv, AppTypes
  <2>. QED
    BY <2>1, <2>2, FinishTypes
<1>. QED
  BY <1>1, <1>2

LEMMA QuitTypes ==
  ASSUME TypeInv, HandleQuit, broken = "no"
  PROVE  TypeInv'
<1>1. queue # <<>>
  BY DEF HandleQuit, Takes
<1>2. CASE frames = <<>>
  BY <1>1, <1>2, StopTypes DEF HandleQuit
<1>3. CASE frames # <<>>
  <2> DEFINE n == Len(frames)
  <2>1. /\ frames' = [i \in 1..(n - 1) |-> [frames[i] EXCEPT !.dead = TRUE]]
        /\ \/ /\ broken' = "server"
              /\ Then(<<>>)
              /\ UNCHANGED <<unknownFrame, peer, obj, restartable, app,
                             m_suspended, running, idle, budget>>
           \/ Finish(frames[n].why, TRUE) /\ UNCHANGED broken
    BY <1>3 DEF HandleQuit
  <2>2. frames' \in Seq(Frame)
    <3>1. frames \in Seq(Frame) /\ n \in Nat \ {0}
      BY SMTT(120), <1>3 DEF TypeInv, AppTypes
    <3>2. ASSUME NEW i \in 1..(n - 1)
          PROVE  [frames[i] EXCEPT !.dead = TRUE] \in Frame
      <4>1. frames[i] \in Frame
        BY SMTT(120), <3>1
      <4>. QED
        BY <4>1 DEF Frame
    <3>. QED
      BY SMTT(120), <2>1, <3>1, <3>2
  <2>. HIDE DEF n
  <2>3. CASE Finish(frames[n].why, TRUE) /\ UNCHANGED broken
    BY <1>1, <2>2, <2>3, FinishTypes
  <2>4. CASE /\ broken' = "server"
             /\ Then(<<>>)
             /\ UNCHANGED <<unknownFrame, peer, obj, restartable, app,
                            m_suspended, running, idle, budget>>
    <3>1. queue' \in Seq(Events) /\ (Calm(queue) => Calm(queue'))
      BY <1>1, <2>4, QuietEvents, ThenTypes DEF TypeInv, ConnTypes
    <3>2. ConnTypes' /\ listener' = listener
      BY <2>4, <3>1 DEF TypeInv, ConnTypes, unknownFrame
    <3>3. AppTypes'
      BY <2>2, <2>4 DEF TypeInv, AppTypes
    <3>. QED
      BY <2>4, <3>1, <3>2, <3>3 DEF TypeInv
  <2>. QED
    BY <2>1, <2>3, <2>4
<1>. QED
  BY <1>2, <1>3

LEMMA SuspendTypes ==
  ASSUME TypeInv, HandleSuspend \/ ResetServer, broken = "no"
  PROVE  TypeInv'
<1>1. queue # <<>> /\ broken' = broken
  BY DEF HandleSuspend, ResetServer, Takes
<1>2. CASE ResetServer \/ (HandleSuspend /\ ~m_suspended)
  BY <1>1, <1>2, StopTypes DEF HandleSuspend, ResetServer
<1>3. CASE HandleSuspend /\ m_suspended
  <2>1. Then(<<>>) /\ UNCHANGED <<unknownFrame, peer, obj, restartable, app,
                                  m_suspended, frames, running, idle, budget>>
    BY <1>3 DEF HandleSuspend
  <2>2. queue' \in Seq(Events) /\ (Calm(queue) => Calm(queue'))
    BY <1>1, <2>1, QuietEvents, ThenTypes DEF TypeInv, ConnTypes
  <2>3. ConnTypes' /\ listener' = listener
    BY <1>1, <2>1, <2>2 DEF TypeInv, ConnTypes, unknownFrame
  <2>4. AppTypes'
    BY <2>1 DEF TypeInv, AppTypes
  <2>. QED
    BY <2>1, <2>2, <2>3, <2>4 DEF TypeInv
<1>. QED
  BY <1>2, <1>3

LEMMA ResumeTypes ==
  ASSUME TypeInv, HandleResume, broken = "no"
  PROVE  TypeInv'
<1>1. queue # <<>> /\ Head(queue).name = "resume"
  BY DEF HandleResume, Takes
<1>2. Tail(queue) \in Seq(Events) /\ Quiet(<<>>)
  BY <1>1, CalmOf, QuietEvents DEF TypeInv, ConnTypes
<1>3. app.screen
  <2>1. ~Calm(queue)
    <3>1. 1 \in DOMAIN queue /\ queue[1] = Head(queue)
      BY SMTT(120), <1>1 DEF TypeInv, ConnTypes
    <3>. QED
      BY <1>1, <3>1 DEF Calm
  <2>. QED
    BY <2>1 DEF TypeInv
<1>4. m_suspended' = FALSE /\ UNCHANGED <<broken, frames, running>>
  BY DEF HandleResume
<1>5. CASE m_suspended
  <2>1. PICK try \in Tries :
          LET r == StartServer(app, try) IN
          /\ Within(try)
          /\ Become(r.app, FALSE, r.app.screen # app.screen, Tail(queue), <<>>)
          /\ idle' = IdleAfter(r)
          /\ budget' = [budget EXCEPT !.fails = @ - Failed(try)]
    BY <1>5 DEF HandleResume
  <2> DEFINE r == StartServer(app, try)
  <2>2. Well(app) /\ app.state \in WithScreen
    BY <1>3 DEF TypeInv, Well
  <2>3. Well(r.app) /\ r.app.screen
    <3>1. Started(app, r.app, r.ok)
      BY <2>2, StartServerMoves DEF Startable, WithScreen
    <3>. HIDE DEF r
    <3>. QED
      BY <2>2, <3>1 DEF Started, Well
  <2>4. /\ Within(try)
        /\ Become(r.app, FALSE, r.app.screen # app.screen, Tail(queue), <<>>)
        /\ idle' = IdleAfter(r)
        /\ budget' = [budget EXCEPT !.fails = @ - Failed(try)]
    BY <2>1
  <2>. HIDE DEF r
  <2>5. (r.app.screen # app.screen) \in BOOLEAN
    OBVIOUS
  <2>6. /\ ConnTypes' /\ restartable' \in BOOLEAN
        /\ Well(app') /\ listener' = app'.server /\ (app'.screen \/ Calm(queue'))
    BY <1>2, <1>4, <2>3, <2>4, <2>5, BecomeTypes
  <2>7. idle' \in {"no", "refused", "forgotten"}
    BY <2>4 DEF IdleAfter
  <2>8. budget' \in [conns : 0..NumConns, secure : BOOLEAN, asks : SUBSET Requests,
                     fails : Nat]
    BY <2>4, BudgetTypes DEF TypeInv
  <2>. QED
    BY <1>4, <2>6, <2>7, <2>8 DEF TypeInv, AppTypes
<1>6. CASE ~m_suspended
  <2>1. Then(<<>>) /\ UNCHANGED <<unknownFrame, peer, obj, restartable, app, idle, budget>>
    BY <1>6 DEF HandleResume
  <2>2. queue' \in Seq(Events) /\ (Calm(queue) => Calm(queue'))
    BY <1>1, <2>1, QuietEvents, ThenTypes DEF TypeInv, ConnTypes
  <2>3. ConnTypes' /\ listener' = listener
    BY <1>4, <2>1, <2>2 DEF TypeInv, ConnTypes, unknownFrame
  <2>4. AppTypes'
    BY <1>4, <2>1 DEF TypeInv, AppTypes
  <2>. QED
    BY <2>1, <2>2, <2>3, <2>4 DEF TypeInv
<1>. QED
  BY <1>5, <1>6 DEF TypeInv, AppTypes

LEMMA RetryTypes ==
  ASSUME TypeInv, RetryHandler, broken = "no"
  PROVE  TypeInv' /\ broken' = "no"
<1>1. Well(app) /\ app.state \in Retrying /\ queue \in Seq(Events)
  BY SMTT(120) DEF RetryHandler, TypeInv, ConnTypes, Well
<1>2. UNCHANGED <<m_suspended, frames, running, broken>>
  BY <1>1 DEF RetryHandler
<1>3. PICK try \in Tries :
        LET r == Retry(app, try) IN
        /\ Within(try)
        /\ Become(r.app, FALSE, r.app.screen # app.screen, queue,
                  IF r.ok THEN <<>> ELSE <<Plain("quit")>>)
        /\ idle' = IF app.state = "kInitializingToStart" /\ r.app.state = "kInitializing"
                   THEN "forgotten" ELSE idle
        /\ budget' = [budget EXCEPT !.fails = @ - Failed(try)]
  BY <1>1 DEF RetryHandler
<1> DEFINE r == Retry(app, try)
           evs == IF r.ok THEN <<>> ELSE <<Plain("quit")>>
<1>4. Well(r.app)
  BY <1>1, RetryMoves DEF Retried
<1>5. Quiet(evs)
  BY QuietEvents
<1>6. /\ Within(try)
      /\ Become(r.app, FALSE, r.app.screen # app.screen, queue, evs)
      /\ idle' \in {idle, "forgotten"}
      /\ budget' = [budget EXCEPT !.fails = @ - Failed(try)]
  BY <1>3
<1>. HIDE DEF evs, r
<1>7. (r.app.screen # app.screen) \in BOOLEAN
  BY SMTT(120)
<1>8. r.app.screen \/ (r.app.screen # app.screen) \/ Calm(queue)
  <2>1. r.app.screen \in BOOLEAN /\ app.screen \in BOOLEAN
    BY <1>1, <1>4 DEF Well, App
  <2>. QED
    BY <2>1 DEF TypeInv
<1>9. /\ ConnTypes' /\ restartable' \in BOOLEAN
      /\ Well(app') /\ listener' = app'.server /\ (app'.screen \/ Calm(queue'))
  BY <1>1, <1>2, <1>4, <1>5, <1>6, <1>7, <1>8, BecomeTypes
<1>10. budget' \in [conns : 0..NumConns, secure : BOOLEAN, asks : SUBSET Requests,
                    fails : Nat]
  BY <1>6, BudgetTypes DEF TypeInv
<1>. QED
  BY <1>2, <1>6, <1>9, <1>10 DEF TypeInv, AppTypes

\* What leaves everything alone but the queue, the frames and the bounds.
LEMMA QueueOnlyTypes ==
  ASSUME TypeInv, UNCHANGED <<unknownFrame, peer, obj, broken, restartable, app,
                              m_suspended, running, idle>>,
         queue' \in Seq(Events), app.screen \/ (Calm(queue) => Calm(queue')),
         frames' \in Seq(Frame),
         budget' \in [conns : 0..NumConns, secure : BOOLEAN, asks : SUBSET Requests,
                      fails : Nat]
  PROVE  TypeInv'
<1>1. ConnTypes' /\ listener' = listener
  BY DEF TypeInv, ConnTypes, unknownFrame
<1>2. AppTypes'
  BY DEF TypeInv, AppTypes
<1>. QED
  BY <1>1, <1>2 DEF TypeInv

LEMMA RequestTypes ==
  ASSUME TypeInv,
         HandleServerGone \/ HandleWaitTimeout \/ \E r \in Requests : Ask(r)
  PROVE  TypeInv'
<1>0. /\ frames \in Seq(Frame) /\ queue \in Seq(Events)
      /\ budget \in [conns : 0..NumConns, secure : BOOLEAN, asks : SUBSET Requests,
                     fails : Nat]
  BY DEF TypeInv, ConnTypes, AppTypes
<1>1. CASE HandleServerGone
  <2> DEFINE evs == IF \E i \in DOMAIN frames : ~frames[i].dead THEN <<Plain("quit")>>
                    ELSE <<>>
  <2>1. queue # <<>> /\ Then(evs) /\ UNCHANGED <<appFrame, frames>>
    BY <1>1 DEF HandleServerGone, Takes
  <2>2. Quiet(evs)
    BY QuietEvents
  <2>. HIDE DEF evs
  <2>3. queue' \in Seq(Events) /\ (Calm(queue) => Calm(queue'))
    BY <1>0, <2>1, <2>2, ThenTypes
  <2>. QED
    BY <1>0, <2>1, <2>3, QueueOnlyTypes DEF appFrame
<1>2. CASE HandleWaitTimeout
  <2>1. PICK i \in DOMAIN frames : frames' = [frames EXCEPT ![i].timer = FALSE]
    BY <1>2 DEF HandleWaitTimeout
  <2>2. frames' \in Seq(Frame)
    <3>1. frames[i] \in Frame
      BY SMTT(120), <1>0
    <3>2. [frames[i] EXCEPT !.timer = FALSE] \in Frame
      BY <3>1 DEF Frame
    <3>. QED
      BY SMTT(120), <1>0, <2>1, <3>2
  <2>3. queue' \in Seq(Events) /\ (Calm(queue) => Calm(queue'))
    BY <1>0, <1>2, QuietEvents, PostTypes DEF HandleWaitTimeout
  <2>. QED
    BY <1>0, <1>2, <2>2, <2>3, QueueOnlyTypes DEF HandleWaitTimeout, appFrame
<1>3. ASSUME NEW r \in Requests, Ask(r)
      PROVE  TypeInv'
  <2>1. budget' \in [conns : 0..NumConns, secure : BOOLEAN, asks : SUBSET Requests,
                     fails : Nat]
    <3>1. budget.asks \ {r} \in SUBSET Requests
      BY <1>0
    <3>. QED
      BY <1>0, <1>3, <3>1 DEF Ask
  <2>2. queue' \in Seq(Events)
    <3>1. Plain(r) \in Events
      BY EventTypes
    <3>. QED
      BY SMTT(120), <1>0, <1>3, <3>1 DEF Ask, Post
  <2>3. app.screen \/ (Calm(queue) => Calm(queue'))
    <3>1. CASE r \in {"suspend", "resume"}
      BY <1>3, <3>1 DEF Ask
    <3>2. CASE r \notin {"suspend", "resume"}
      <4>1. Quiet(<<Plain(r)>>)
        <5>1. Plain(r) \in Events /\ Plain(r).name = r
          BY EventTypes DEF Plain, ConnEvent
        <5>. QED
          BY SMTT(120), <3>2, <5>1 DEF Quiet, Calm
      <4>. QED
        BY <1>0, <1>3, <4>1, PostTypes DEF Ask
    <3>. QED
      BY <3>1, <3>2
  <2>. QED
    BY <1>0, <1>3, <2>1, <2>2, <2>3, QueueOnlyTypes DEF Ask
<1>. QED
  BY <1>1, <1>2, <1>3

LEMMA ReconnectTypes ==
  ASSUME TypeInv, ForceReconnect
  PROVE  TypeInv'
<1>1. queue # <<>>
  BY DEF ForceReconnect, Takes
<1>2. /\ m_clients' \subseteq Conns /\ m_oldClients' \subseteq Conns
      /\ queue' \in Seq(Events) /\ (Calm(queue) => Calm(queue'))
  <2>1. CASE TellClientsToGo
    BY <1>1, <2>1, TellTypes DEF TypeInv
  <2>2. CASE Then(<<>>) /\ UNCHANGED <<m_clients, m_oldClients>>
    BY <1>1, <2>2, QuietEvents, ThenTypes DEF TypeInv, ConnTypes
  <2>. QED
    BY <2>1, <2>2 DEF ForceReconnect
<1>3. ConnTypes' /\ listener' = listener
  BY <1>2 DEF ForceReconnect, TypeInv, ConnTypes
<1>4. AppTypes' /\ app' = app
  BY DEF ForceReconnect, appVars, TypeInv, AppTypes
<1>. QED
  BY <1>2, <1>3, <1>4 DEF TypeInv

\* The steps that leave the application alone.
LEMMA ConnSteps ==
  ASSUME TypeInv, ConnStep, UNCHANGED appVars
  PROVE  TypeInv'
<1>1. AppTypes' /\ app' = app
  BY DEF appVars, TypeInv, AppTypes
<1>. QED
  BY <1>1 DEF TypeInv, ConnStep

LEMMA TypeStep ==
  ASSUME TypeInv, [Next]_vars
  PROVE  TypeInv'
<1>0. ConnTypes
  BY DEF TypeInv
<1>1. CASE HandleConnEvent
  <2>1. ConnStep
    BY <1>0, <1>1, ListenerSteps, HandshakeSteps, ServerSteps DEF HandleConnEvent
  <2>. QED
    BY <1>1, <2>1, ConnSteps DEF HandleConnEvent
<1>2. CASE HandleAppEvent
  BY <1>2, RequestTypes, QuitTypes, SuspendTypes, ResumeTypes, ReconnectTypes
     DEF HandleAppEvent, Alive
<1>3. ASSUME NEW c \in Conns,
             HandshakeTimer(c) \/ FlatlineTimer(c) \/ CloseTimer(c) \/ PeerStep(c)
      PROVE  TypeInv'
  <2>1. ConnStep /\ UNCHANGED appVars
    BY <1>0, <1>3, HandshakeSteps, ServerSteps, ServiceSteps
       DEF HandshakeTimer, FlatlineTimer, CloseTimer, PeerStep
  <2>. QED
    BY <2>1, ConnSteps
<1>4. CASE WaitTimer
  BY <1>4, RequestTypes DEF WaitTimer
<1>5. CASE RetryTimer
  BY <1>5, RetryTypes DEF RetryTimer, Alive
<1>6. CASE ServiceStep
  BY <1>0, <1>6, ServiceSteps, ConnSteps DEF ServiceStep
<1>7. CASE ServiceError
  <2>1. ConnStep
    BY <1>0, <1>7, ServiceSteps DEF ServiceError
  <2>2. budget' \in [conns : 0..NumConns, secure : BOOLEAN, asks : SUBSET Requests,
                     fails : Nat]
    <3>1. budget.fails - 1 \in Nat
      BY SMTT(120), <1>7 DEF ServiceError, TypeInv, AppTypes
    <3>. QED
      BY <1>7, <3>1 DEF ServiceError, TypeInv, AppTypes
  <2>3. AppTypes' /\ app' = app
    BY <1>7, <2>2 DEF ServiceError, TypeInv, AppTypes
  <2>. QED
    BY <2>1, <2>3 DEF TypeInv, ConnStep
<1>8. CASE Request
  BY <1>8, RequestTypes DEF Request
<1>9. CASE UNCHANGED vars
  BY SMTT(120), <1>9 DEF vars, connVars, appVars, TypeInv, ConnTypes, AppTypes
<1>. QED
  BY <1>1, <1>2, <1>3, <1>4, <1>5, <1>6, <1>7, <1>8, <1>9 DEF Next, HandleEvent

LEMMA TypeInit == Init => TypeInv
<1>. SUFFICES ASSUME Init
              PROVE  TypeInv
  OBVIOUS
<1> DEFINE a == [state |-> "kUninitialized", timers |-> 0, screen |-> FALSE, server |-> FALSE]
<1>1. PICK b \in Budgets, try \in Tries :
        /\ restartable \in (IF b.fails = 0 THEN {TRUE} ELSE BOOLEAN)
        /\ secure = b.secure
        /\ Failed(try) <= b.fails
        /\ budget = [b EXCEPT !.fails = @ - Failed(try)]
        /\ app = StartServer(a, try).app
  BY DEF Init
<1>2. Well(a) /\ a.state = "kUninitialized"
  BY SMTT(120) DEF Well, App, States, Retrying, WithScreen
<1>. HIDE DEF a
<1>3. Well(app)
  BY <1>1, <1>2, StartServerMoves DEF Started, Startable
<1>4. b \in [conns : 0..NumConns, secure : BOOLEAN, asks : SUBSET Requests, fails : Nat]
  BY BudgetsAssumption
<1>5. budget \in [conns : 0..NumConns, secure : BOOLEAN, asks : SUBSET Requests, fails : Nat]
  <2>1. b.fails - Failed(try) \in Nat
    BY SMTT(120), <1>1, <1>4 DEF Failed
  <2>. QED
    BY <1>1, <1>4, <2>1
<1>6. AppTypes
  <2>1. restartable \in BOOLEAN
    BY <1>1
  <2>2. m_suspended = FALSE /\ frames = <<>> /\ running = "loop" /\ idle = "no"
    BY DEF Init
  <2>3. m_suspended \in BOOLEAN
    BY <2>2
  <2>4. frames \in Seq(Frame)
    BY SMTT(120), <2>2
  <2>. QED
    BY <1>5, <2>1, <2>2, <2>3, <2>4 DEF AppTypes
<1>7. NewObject \in Object /\ [at |-> "idle", said |-> 0, msg |-> "none"] \in Peer
  BY SMTT(120) DEF NewObject, Object, Life, Peer
<1>8. secure \in BOOLEAN /\ app.server \in BOOLEAN
  BY <1>1, <1>3, <1>4 DEF Well, App
<1>9. ConnTypes
  <2>1. /\ listener = app.server /\ polled = app.server /\ deaf \in BOOLEAN
        /\ m_newClients = {} /\ m_waitingClients = <<>> /\ m_clients = {}
        /\ m_oldClients = {} /\ queue = <<>> /\ broken = "no"
    BY DEF Init
  <2>2. peer \in [Conns -> Peer] /\ obj \in [Conns -> Object]
    BY <1>7 DEF Init
  <2>. QED
    BY SMTT(120), <1>8, <2>1, <2>2 DEF ConnTypes
<1>10. listener = app.server /\ Calm(queue)
  BY SMTT(120) DEF Init, Calm
<1>. QED
  BY <1>3, <1>6, <1>9, <1>10 DEF TypeInv

\* The variables have their types, and ServerApp's state says what there is: the
\* assertions of stopServer, cleanupServer, retryHandler, initServer and
\* startServer hold, for any number of clients, requests and failures, whatever
\* comes while a closeServer waits.
THEOREM StateCorrect == Spec => []StateOK
<1>1. TypeInv /\ [Next]_vars => TypeInv'
  BY TypeStep
<1>2. TypeInv => StateOK
  <2>. SUFFICES ASSUME TypeInv
                PROVE  StateOK
    OBVIOUS
  <2>1. TypeOK
    BY DEF TypeInv, ConnTypes, AppTypes, Well, TypeOK
  <2>2. StateAgrees
    BY DEF TypeInv, Well, WithScreen, StateAgrees
  <2>. QED
    BY <2>1, <2>2 DEF StateOK
<1>. QED
  BY <1>1, <1>2, TypeInit, PTL DEF Spec

-----------------------------------------------------------------------------
(* The server goes on listening *)

\* A start that waited for the screen and was forgotten is remembered in idle;
\* the rest is what GoesOnListening says, in a wait as well as outside it.
ListenInv ==
  /\ app.state = "kInitializing" => idle # "no"
  /\ running = "loop" =>
       app.state \in Listens \/ m_suspended \/ idle # "no" \/ Has("quit")
  /\ listener => Polls

LEMMA ConnListens ==
  ASSUME ListenInv, ConnStep,
         UNCHANGED <<app, idle, running, m_suspended>>
  PROVE  ListenInv'
  BY DEF ListenInv, ConnStep, Listens

LEMMA QueueListens ==
  ASSUME ListenInv, QueueKept,
         UNCHANGED <<app, idle, running, m_suspended, listener, polled, deaf>>
  PROVE  ListenInv'
  BY DEF ListenInv, QueueKept, Polls, Listens

\* A listener that is made is polled.
LEMMA BecomePolls ==
  ASSUME NEW a, NEW closed, NEW wiped, NEW q, NEW evs,
         Become(a, closed, wiped, q, evs), closed \/ ~app.server
  PROVE  /\ app' = a
         /\ listener' => a.server /\ Polls'
  BY DEF Become, Polls

LEMMA FinishListens ==
  ASSUME TypeInv, ListenInv, NEW why, NEW closed \in BOOLEAN, Finish(why, closed),
         closed \/ ~app.server
  PROVE  ListenInv'
<1>0. Well(app)
  BY DEF TypeInv
<1>1. CASE why = "suspend"
  <2>1. /\ Become(StopServer(app), closed, FALSE, Tail(queue), <<>>)
        /\ m_suspended' = TRUE
        /\ UNCHANGED <<running, idle, budget>>
    BY <1>1 DEF Finish
  <2>2. app' = StopServer(app) /\ (listener' => app'.server /\ Polls')
    BY <2>1, BecomePolls
  <2>3. app'.state = "kInitializing" => app.state = "kInitializing"
    BY <1>0, <2>2, StopServerMoves DEF Moved
  <2>. QED
    BY <2>1, <2>2, <2>3 DEF ListenInv
<1>2. CASE why = "reset"
  <2>1. PICK try \in Tries :
          LET r == StartServer(CleanupServer(app), try) IN
          /\ Become(r.app, closed, app.screen \/ r.app.screen, Tail(queue), <<>>)
          /\ idle' = IdleAfter(r)
    BY <1>2 DEF Finish
  <2> DEFINE r == StartServer(CleanupServer(app), try)
  <2>2. Started(CleanupServer(app), r.app, r.ok)
    <3>1. Well(CleanupServer(app)) /\ CleanupServer(app).state \in Startable
      BY <1>0, CleanupServerMoves DEF Moved, Startable
    <3>. QED
      BY <3>1, StartServerMoves
  <2>3. app' = r.app /\ (listener' => Polls')
    BY <2>1, BecomePolls
  <2>4. idle' = IdleAfter(r)
    BY <2>1
  <2>. HIDE DEF r
  <2>. QED
    BY <2>2, <2>3, <2>4 DEF ListenInv, Started, IdleAfter, Listens
<1>3. CASE why = "exit"
  <2>1. /\ Become(CleanupServer(app), closed, app.screen, Tail(queue), <<>>)
        /\ running' = "exited"
    BY <1>3 DEF Finish
  <2>2. app' = CleanupServer(app) /\ (listener' => Polls')
    BY <2>1, BecomePolls
  <2>3. app'.state = "kUninitialized"
    BY <1>0, <2>2, CleanupServerMoves DEF Moved
  <2>. QED
    BY <2>1, <2>2, <2>3 DEF ListenInv
<1>. QED
  BY <1>1, <1>2, <1>3 DEF Finish

LEMMA TellKeeps ==
  ASSUME ConnTypes, queue # <<>>, Head(queue).name # "connecting", TellClientsToGo
  PROVE  Has("connecting") => Has("connecting")'
<1>1. Quiet(NoClientsLeft(m_clients, m_oldClients))
  BY QuietEvents
<1>. QED
  BY <1>1, ThenTypes DEF TellClientsToGo, ConnTypes

LEMMA StopListens ==
  ASSUME TypeInv, ListenInv, queue # <<>>, Head(queue).name # "connecting",
         NEW why, Stop(why)
  PROVE  ListenInv'
<1>1. CASE app.state = "kStarted"
  <2>1. /\ TellClientsToGo
        /\ UNCHANGED <<listener, polled, deaf, app, m_suspended, idle>>
    BY <1>1 DEF Stop
  <2>2. Has("connecting") => Has("connecting")'
    BY <2>1, TellKeeps DEF TypeInv
  <2>. QED
    BY <1>1, <2>1, <2>2 DEF ListenInv, Polls, Listens
<1>2. CASE app.state # "kStarted"
  <2>1. ~app.server
    BY <1>2 DEF TypeInv, Well
  <2>. QED
    BY <1>2, <2>1, FinishListens DEF Stop
<1>. QED
  BY <1>1, <1>2

LEMMA ResumeListens ==
  ASSUME TypeInv, ListenInv, HandleResume
  PROVE  ListenInv'
<1>1. Other /\ Head(queue).name = "resume" /\ queue \in Seq(Events) /\ Quiet(<<>>)
  BY QuietEvents DEF HandleResume, Takes, Other, TypeInv, ConnTypes
<1>2. CASE ~m_suspended
  <2>1. QueueKept
    BY <1>1, <1>2, ThenKept DEF HandleResume
  <2>2. UNCHANGED <<app, idle, running, m_suspended, listener, polled, deaf>>
    BY <1>2 DEF HandleResume, unknownFrame, TypeInv, AppTypes
  <2>. QED
    BY <2>1, <2>2, QueueListens
<1>3. CASE m_suspended
  <2>1. PICK try \in Tries :
          LET r == StartServer(app, try) IN
          /\ Become(r.app, FALSE, r.app.screen # app.screen, Tail(queue), <<>>)
          /\ idle' = IdleAfter(r)
    BY <1>3 DEF HandleResume
  <2> DEFINE r == StartServer(app, try)
  <2>2. Well(app) /\ app.state \in WithScreen
    <3>1. ~Calm(queue)
      <4>1. 1 \in DOMAIN queue /\ queue[1] = Head(queue)
        BY SMTT(120), <1>1 DEF Other
      <4>. QED
        BY <1>1, <4>1 DEF Calm
    <3>. QED
      BY <3>1 DEF TypeInv, Well
  <2>3. Started(app, r.app, r.ok)
    BY <2>2, StartServerMoves DEF Startable, WithScreen
  <2>4. /\ Become(r.app, FALSE, r.app.screen # app.screen, Tail(queue), <<>>)
        /\ idle' = IdleAfter(r)
    BY <2>1
  <2>. HIDE DEF r
  <2>5. app' = r.app
    BY <2>4 DEF Become
  <2>6. /\ app'.state = "kInitializing" => idle' # "no"
        /\ app'.state \in Listens \/ idle' # "no"
    BY <2>3, <2>4, <2>5 DEF Started, IdleAfter, Listens
  <2>7. listener' => Polls'
    <3>1. CASE app.state = "kStarted"
      <4>1. r.app = app /\ listener
        BY <2>2, <2>3, <3>1 DEF Started, Well, TypeInv
      <4>2. /\ queue' = Tail(queue) \o <<>>
            /\ (polled \/ deaf) => (polled' \/ deaf')
        BY <2>2, <2>4, <3>1, <4>1 DEF Become, Well
      <4>3. Has("connecting") => Has("connecting")'
        BY <1>1, <4>2, ThenTypes DEF Then, Other
      <4>. QED
        BY <4>1, <4>2, <4>3 DEF ListenInv, Polls
    <3>2. CASE app.state # "kStarted"
      <4>1. ~app.server
        BY <2>2, <3>2 DEF Well
      <4>. QED
        BY <2>4, <4>1, BecomePolls
    <3>. QED
      BY <3>1, <3>2
  <2>. QED
    BY <2>6, <2>7 DEF ListenInv
<1>. QED
  BY <1>2, <1>3

LEMMA RetryListens ==
  ASSUME TypeInv, ListenInv, RetryHandler
  PROVE  ListenInv'
<1>1. Well(app) /\ app.state \in Retrying /\ ~app.server
  BY SMTT(120) DEF RetryHandler, TypeInv, Well, Retrying
<1>2. PICK try \in Tries :
        LET r == Retry(app, try) IN
        /\ Become(r.app, FALSE, r.app.screen # app.screen, queue,
                  IF r.ok THEN <<>> ELSE <<Plain("quit")>>)
        /\ idle' = IF app.state = "kInitializingToStart" /\ r.app.state = "kInitializing"
                   THEN "forgotten" ELSE idle
  BY <1>1 DEF RetryHandler
<1> DEFINE r == Retry(app, try)
<1>3. Retried(app, r.app, r.ok)
  BY <1>1, RetryMoves
<1>4. /\ Become(r.app, FALSE, r.app.screen # app.screen, queue,
                IF r.ok THEN <<>> ELSE <<Plain("quit")>>)
      /\ idle' = IF app.state = "kInitializingToStart" /\ r.app.state = "kInitializing"
                 THEN "forgotten" ELSE idle
  BY <1>2
<1>. HIDE DEF r
<1>5. app' = r.app /\ (listener' => Polls')
  BY <1>1, <1>4, BecomePolls
<1>6. app'.state = "kInitializing" => idle' # "no"
  BY <1>1, <1>3, <1>4, <1>5 DEF Retried, Retrying, ListenInv
<1>7. r.ok => app'.state \in Listens \/ idle' # "no"
  BY <1>1, <1>3, <1>4, <1>5 DEF Retried, Retrying, ListenInv
<1>8. ~r.ok => Has("quit")'
  <2>. SUFFICES ASSUME ~r.ok
                PROVE  Has("quit")'
    OBVIOUS
  <2> DEFINE e == Plain("quit")
             q == IF r.app.screen # app.screen THEN <<>> ELSE queue
  <2>1. e \in Events /\ e.name = "quit"
    BY EventTypes DEF Plain, ConnEvent, Requests
  <2>2. queue' = q \o <<e>>
    BY <1>4 DEF Become
  <2>3. q \in Seq(Events)
    BY SMTT(120) DEF TypeInv, ConnTypes
  <2>. HIDE DEF e, q
  <2>4. Len(q) + 1 \in DOMAIN queue' /\ queue'[Len(q) + 1] = e
    BY SMTT(120), <2>1, <2>2, <2>3
  <2>. QED
    BY <2>1, <2>4 DEF Has
<1>. QED
  BY <1>5, <1>6, <1>7, <1>8 DEF ListenInv

LEMMA RequestListens ==
  ASSUME TypeInv, ListenInv,
         HandleServerGone \/ HandleWaitTimeout \/ ForceReconnect
           \/ \E r \in Requests : Ask(r)
  PROVE  ListenInv'
<1>0. queue \in Seq(Events) /\ ConnTypes
  BY DEF TypeInv, ConnTypes
<1>1. CASE HandleServerGone
  <2> DEFINE evs == IF \E i \in DOMAIN frames : ~frames[i].dead THEN <<Plain("quit")>>
                    ELSE <<>>
  <2>1. Other /\ Then(evs) /\ UNCHANGED appFrame
    BY <1>1 DEF HandleServerGone, Takes, Other
  <2>2. Quiet(evs)
    BY QuietEvents
  <2>. HIDE DEF evs
  <2>. QED
    BY <1>0, <2>1, <2>2, ThenKept, QueueListens DEF appFrame, unknownFrame
<1>2. CASE HandleWaitTimeout
  BY <1>0, <1>2, QuietEvents, PostKept, QueueListens
     DEF HandleWaitTimeout, appFrame, unknownFrame
<1>3. CASE ForceReconnect
  <2>1. Other
    BY <1>3 DEF ForceReconnect, Takes, Other
  <2>2. QueueKept
    <3>1. Quiet(<<>>) /\ Quiet(NoClientsLeft(m_clients, m_oldClients))
      BY QuietEvents
    <3>. QED
      BY <1>0, <1>3, <2>1, <3>1, ThenKept DEF ForceReconnect, TellClientsToGo
  <2>. QED
    BY <1>3, <2>2, QueueListens DEF ForceReconnect, appVars
<1>4. ASSUME NEW r \in Requests, Ask(r)
      PROVE  ListenInv'
  <2>1. Has("quit") => Has("quit")'
    <3>1. <<Plain(r)>> \in Seq(Events)
      BY SMTT(120), EventTypes
    <3>. QED
      BY SMTT(120), <1>0, <1>4, <3>1, EventKeptByPost DEF Ask, Post, Has
  <2>2. Has("connecting") => Has("connecting")'
    <3>1. <<Plain(r)>> \in Seq(Events)
      BY SMTT(120), EventTypes
    <3>. QED
      BY SMTT(120), <1>0, <1>4, <3>1, EventKeptByPost DEF Ask, Post, Has
  <2>. QED
    BY <1>4, <2>1, <2>2 DEF Ask, unknownFrame, ListenInv, Polls, Listens
<1>. QED
  BY <1>1, <1>2, <1>3, <1>4

LEMMA ListenStep ==
  ASSUME TypeInv, broken = "no" => ListenInv, [Next]_vars, broken' = "no"
  PROVE  ListenInv'
<1>0. ConnTypes
  BY DEF TypeInv
<1>1. CASE HandleConnEvent
  <2>1. ConnStep
    BY <1>0, <1>1, ListenerSteps, HandshakeSteps, ServerSteps DEF HandleConnEvent
  <2>. QED
    BY <1>1, <2>1, ConnListens DEF HandleConnEvent, Alive, appVars
<1>2. CASE HandleAppEvent
  <2>1. ListenInv
    BY <1>2 DEF HandleAppEvent, Alive
  <2>2. CASE HandleSuspend /\ m_suspended
    <3>1. Other /\ Then(<<>>) /\ UNCHANGED <<unknownFrame, app, m_suspended, running, idle>>
      BY <2>2 DEF HandleSuspend, Takes, Other
    <3>. QED
      BY <1>0, <2>1, <3>1, QuietEvents, ThenKept, QueueListens DEF ConnTypes, unknownFrame
  <2>3. CASE (HandleSuspend /\ ~m_suspended) \/ ResetServer
    <3>1. queue # <<>> /\ Head(queue).name # "connecting"
      BY <2>3 DEF HandleSuspend, ResetServer, Takes
    <3>. QED
      BY <2>1, <2>3, <3>1, StopListens DEF HandleSuspend, ResetServer
  <2>4. CASE HandleQuit
    <3>1. queue # <<>> /\ Head(queue).name # "connecting"
      BY <2>4 DEF HandleQuit, Takes
    <3>2. CASE frames = <<>>
      BY <2>1, <2>4, <3>1, <3>2, StopListens DEF HandleQuit
    <3>3. CASE frames # <<>>
      <4>1. Finish(frames[Len(frames)].why, TRUE)
        BY <2>4, <3>3 DEF HandleQuit
      <4>. QED
        BY <2>1, <4>1, FinishListens
    <3>. QED
      BY <3>2, <3>3
  <2>5. CASE HandleServerGone \/ ForceReconnect
    BY <2>1, <2>5, RequestListens
  <2>6. CASE HandleResume
    BY <2>1, <2>6, ResumeListens
  <2>. QED
    BY <1>2, <2>2, <2>3, <2>4, <2>5, <2>6 DEF HandleAppEvent
<1>3. ASSUME NEW c \in Conns,
             HandshakeTimer(c) \/ FlatlineTimer(c) \/ CloseTimer(c) \/ PeerStep(c)
      PROVE  ListenInv'
  <2>1. ConnStep /\ UNCHANGED appVars /\ Alive
    BY <1>0, <1>3, HandshakeSteps, ServerSteps, ServiceSteps
       DEF HandshakeTimer, FlatlineTimer, CloseTimer, PeerStep
  <2>. QED
    BY <2>1, ConnListens DEF Alive, appVars
<1>4. CASE WaitTimer \/ Request
  BY <1>4, RequestListens DEF WaitTimer, Request, Alive
<1>5. CASE RetryTimer
  BY <1>5, RetryListens DEF RetryTimer, Alive
<1>6. CASE ServiceStep \/ ServiceError
  <2>1. ConnStep
    BY <1>0, <1>6, ServiceSteps DEF ServiceStep, ServiceError
  <2>. QED
    BY <1>6, <2>1, ConnListens DEF ServiceStep, ServiceError, Alive, appVars
<1>7. CASE UNCHANGED vars
  <2>1. QueueKept
    BY <1>0, <1>7, SameKept DEF ConnTypes, vars, connVars
  <2>. QED
    BY <1>7, <2>1, QueueListens DEF vars, connVars, appVars
<1>. QED
  BY <1>1, <1>2, <1>3, <1>4, <1>5, <1>6, <1>7 DEF Next, HandleEvent

LEMMA ListenInit == Init => ListenInv
<1>. SUFFICES ASSUME Init
              PROVE  ListenInv
  BY SMTT(120)
<1> DEFINE a == [state |-> "kUninitialized", timers |-> 0, screen |-> FALSE, server |-> FALSE]
<1>1. PICK try \in Tries : LET r == StartServer(a, try) IN r.ok /\ app = r.app
  BY DEF Init
<1>2. Well(a) /\ a.state \in Startable
  BY SMTT(120) DEF Well, App, States, Retrying, WithScreen, Startable
<1>. HIDE DEF a
<1>3. app.state \in Listens
  BY <1>1, <1>2, StartServerMoves DEF Started
<1>4. listener => polled
  BY DEF Init
<1>. QED
  BY <1>3, <1>4 DEF ListenInv, Listens, Polls

\* The server goes on taking in clients: as long as no deleted object has been
\* used, it listens, tries to or is about to stop, but for the starts whose
\* failure is known to be dropped (ServerApp.cpp:474, 735 and 922), and a
\* listening socket that has not failed is polled or will be when the event
\* that is under way is handled.
THEOREM KeepsListening == Spec => []GoesOnListening
<1> DEFINE IInv == TypeInv /\ (broken = "no" => ListenInv)
<1>1. Init => IInv
  BY TypeInit, ListenInit
<1>2. IInv /\ [Next]_vars => IInv'
  BY TypeStep, ListenStep
<1>3. IInv => GoesOnListening
  BY DEF ListenInv, Polls, Has, Listens, GoesOnListening, ListensUnlessKnown, GoesOnAccepting
<1>. QED
  BY <1>1, <1>2, <1>3, PTL DEF Spec
=============================================================================
