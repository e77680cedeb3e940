----------------------- MODULE ServerOwnershipProofs ------------------------
(***************************************************************************)
(* Who owns the objects of a connection: proofs about ServerApp and        *)
(* ClientListener, on top of ServerAppProofs.                              *)
(*                                                                         *)
(* A connection is in one place at a time: with the clients of the         *)
(* handshake, in the queue of the waiting ones, in one of the server's two *)
(* lists, or in none (At).  The place says which of its objects are live,  *)
(* and its pointers, handlers and timer are those of the place (Fits).     *)
(* Both are kept by every step until a deleted object is used.             *)
(***************************************************************************)
EXTENDS ServerAppProofs

\* The prover of a leaf that names none.
USE ZenonT(60)

-----------------------------------------------------------------------------
(* The objects of a connection in its place *)

Places == {"new", "waiting", "active", "old", "none"}

\* Nothing has been made yet.
Bare(o) == o.stream = "none" /\ o.unknown = "none" /\ o.proxy = "none" /\ ~o.m_proxy

\* In the handshake the stream is with the ClientProxyUnknown, then with the
\* proxy, and after a failure that deletes the proxy there is none.
Stage(o) ==
  \/ o.m_stream /\ ~o.m_proxy /\ o.stream = "live" /\ o.proxy # "live"
  \/ ~o.m_stream /\ o.m_proxy /\ o.stream = "live" /\ o.proxy = "live"
  \/ ~o.m_stream /\ ~o.m_proxy /\ o.stream # "live" /\ o.proxy # "live"

\* The objects o of a connection whose far end is at x are those of the place w.
Fits(o, x, w) ==
  /\ o.unknown = "live" <=> w = "new"
  /\ w = "new" => Stage(o)
  /\ w \in {"waiting", "active", "old"} => o.proxy = "live" /\ o.stream = "live"
  /\ w = "none" => o.proxy # "live" /\ o.stream # "live"
  /\ o.stream = "live" => o.socket = "live"
  /\ o.onAccepted => Bare(o) /\ x \notin {"idle", "calling"}
  /\ o.streamHandler = "unknown" => w = "new" /\ o.m_stream
  /\ o.onGone = "server" => w \in {"active", "old"}
  /\ o.m_timer => w = "new"
  /\ x \in {"idle", "calling"} => Bare(o)

\* The far end moves on.
LEMMA FitsPeer ==
  ASSUME NEW o, NEW x, NEW y, NEW w, Fits(o, x, w),
         y \in {"idle", "calling"} <=> x \in {"idle", "calling"}
  PROVE  Fits(o, y, w)
  BY DEF Fits

\* Fields change that say nothing about the owner.
LEMMA FitsAlike ==
  ASSUME NEW o, NEW p, NEW x, NEW w, Fits(o, x, w),
         p.socket = o.socket, p.onAccepted = o.onAccepted, p.stream = o.stream,
         p.unknown = o.unknown, p.m_stream = o.m_stream, p.m_proxy = o.m_proxy,
         p.proxy = o.proxy, p.onGone = o.onGone,
         p.streamHandler \in {o.streamHandler, "none"}, p.m_timer => o.m_timer
  PROVE  Fits(p, x, w)
  BY DEF Fits, Stage, Bare

LEMMA FitsSendFailure ==
  ASSUME NEW o \in Object, NEW x, Fits(o, x, "new")
  PROVE  Fits(SendFailure(o), x, "new")
<1> DEFINE p == SendFailure(o)
<1>1. /\ p.socket = o.socket /\ p.onAccepted = o.onAccepted
      /\ p.stream = IF o.m_proxy THEN "dead" ELSE o.stream
      /\ p.streamHandler = IF o.m_stream \/ o.m_proxy THEN "none" ELSE o.streamHandler
      /\ p.unknown = o.unknown
      /\ p.m_stream = o.m_stream /\ ~p.m_proxy /\ ~p.m_timer
      /\ p.proxy = IF o.m_proxy THEN "dead" ELSE o.proxy
      /\ p.onGone = o.onGone
  BY SendFailureFields
<1>. HIDE DEF p
<1>2. ~o.onAccepted /\ x \notin {"idle", "calling"}
  BY DEF Fits, Bare
<1>3. Fits(p, x, "new")
  BY <1>1, <1>2 DEF Fits, Stage
<1>. QED
  BY <1>3 DEF p

LEMMA FitsNewProxy ==
  ASSUME NEW o \in Object, NEW x, NEW w, Fits(o, x, w), o.streamHandler = "unknown"
  PROVE  w = "new" /\ Fits(NewProxy(UnknownRemovesHandlers(o)), x, "new")
<1> DEFINE q == UnknownRemovesHandlers(o)
           p == NewProxy(q)
<1>1. /\ q \in Object
      /\ q.socket = o.socket /\ q.onAccepted = o.onAccepted /\ q.stream = o.stream
      /\ q.unknown = o.unknown /\ q.m_timer = o.m_timer
  BY UnknownRemovesHandlersFields
<1>. HIDE DEF q
<1>2. /\ p.socket = q.socket /\ p.onAccepted = q.onAccepted /\ p.stream = q.stream
      /\ p.streamHandler = "proxy" /\ p.unknown = q.unknown
      /\ ~p.m_stream /\ p.m_proxy /\ p.m_timer = q.m_timer
      /\ p.proxy = "live" /\ p.onGone = "unknown"
  BY <1>1, NewProxyFields
<1>. HIDE DEF p
<1>3. w = "new" /\ ~o.onAccepted /\ x \notin {"idle", "calling"} /\ o.stream = "live"
  BY DEF Fits, Bare, Stage
<1>4. Fits(p, x, "new")
  BY <1>1, <1>2, <1>3 DEF Fits, Stage
<1>. QED
  BY <1>3, <1>4 DEF p, q

LEMMA FitsNewUnknown ==
  ASSUME NEW o \in Object, NEW x, NEW w \in Places, Fits(o, x, w),
         o.onAccepted, o.socket = "live"
  PROVE  w = "none" /\ Fits(NewUnknown(o), x, "new")
<1> DEFINE p == NewUnknown(o)
<1>1. /\ p.socket = o.socket /\ ~p.onAccepted
      /\ p.stream = "live" /\ p.streamHandler = "unknown" /\ p.unknown = "live"
      /\ p.m_stream /\ p.m_proxy = o.m_proxy
      /\ p.proxy = o.proxy /\ p.onGone = o.onGone
  BY NewUnknownFields
<1>. HIDE DEF p
<1>2. Bare(o) /\ x \notin {"idle", "calling"} /\ w = "none"
  BY DEF Fits, Bare, Places
<1>3. Fits(p, x, "new")
  BY <1>1, <1>2 DEF Fits, Stage, Bare
<1>. QED
  BY <1>2, <1>3 DEF p

\* The two edits of handleUnknownClient.
ToListener(o) == [o EXCEPT !.onGone = "listener"]
Close(o, s) == [o EXCEPT !.closed = @ \/ s.m_stream]

LEMMA ToListenerFields ==
  ASSUME NEW o \in Object
  PROVE  /\ ToListener(o) \in Object
         /\ ToListener(o).socket = o.socket /\ ToListener(o).onAccepted = o.onAccepted
         /\ ToListener(o).stream = o.stream /\ ToListener(o).m_stream = o.m_stream
         /\ ToListener(o).m_proxy = o.m_proxy /\ ToListener(o).proxy = o.proxy
         /\ ToListener(o).streamHandler = o.streamHandler
         /\ ToListener(o).onGone = "listener"
  BY DEF Object, ToListener

LEMMA CloseFields ==
  ASSUME NEW o \in Object, NEW s \in Object
  PROVE  /\ Close(o, s) \in Object
         /\ Close(o, s).socket = o.socket /\ Close(o, s).onAccepted = o.onAccepted
         /\ Close(o, s).stream = o.stream /\ Close(o, s).m_stream = o.m_stream
         /\ Close(o, s).m_proxy = o.m_proxy /\ Close(o, s).proxy = o.proxy
         /\ Close(o, s).streamHandler = o.streamHandler
         /\ Close(o, s).onGone = o.onGone
<1>1. (o.closed \/ s.m_stream) \in BOOLEAN
  OBVIOUS
<1>. QED
  BY <1>1 DEF Object, Close

\* handleUnknownClient: the proxy goes to the waiting clients, or everything
\* that is left is deleted.
LEMMA FitsUnknownClient ==
  ASSUME NEW o \in Object, NEW x, Fits(o, x, "new")
  PROVE  LET left == IF o.m_ready
                     THEN [UnknownRemovesHandlers(o) EXCEPT !.m_proxy = FALSE] ELSE o
         IN
         /\ o.m_ready /\ o.m_proxy =>
              Fits(DeleteUnknown([left EXCEPT !.onGone = "listener"]), x, "waiting")
         /\ ~(o.m_ready /\ o.m_proxy) =>
              Fits(DeleteUnknown([left EXCEPT !.closed = @ \/ o.m_stream]), x, "none")
<1> DEFINE u == UnknownRemovesHandlers(o)
           left == IF o.m_ready THEN [u EXCEPT !.m_proxy = FALSE] ELSE o
           a == ToListener(left)
           b == Close(left, o)
           p == DeleteUnknown(a)
           q == DeleteUnknown(b)
<1>0. ~o.onAccepted /\ x \notin {"idle", "calling"}
  BY SMTT(120) DEF Fits, Bare
<1>1. /\ u \in Object
      /\ u.socket = o.socket /\ u.onAccepted = o.onAccepted /\ u.stream = o.stream
      /\ u.m_stream = o.m_stream /\ u.m_proxy = o.m_proxy /\ u.proxy = o.proxy
      /\ u.onGone \in {o.onGone, "none"}
      /\ u.streamHandler = IF o.m_stream THEN "none" ELSE o.streamHandler
  BY UnknownRemovesHandlersFields
<1>. HIDE DEF u
<1>2. /\ left \in Object
      /\ left.socket = o.socket /\ left.onAccepted = o.onAccepted
      /\ left.stream = o.stream /\ left.m_stream = o.m_stream
      /\ left.proxy = o.proxy /\ left.onGone \in {o.onGone, "none"}
      /\ left.streamHandler \in {o.streamHandler, "none"}
  <2>1. CASE o.m_ready
    <3> DEFINE d == [u EXCEPT !.m_proxy = FALSE]
    <3>1. left = d
      BY <2>1
    <3>2. /\ d \in Object
          /\ d.socket = u.socket /\ d.onAccepted = u.onAccepted
          /\ d.stream = u.stream /\ d.m_stream = u.m_stream
          /\ d.proxy = u.proxy /\ d.onGone = u.onGone
          /\ d.streamHandler = u.streamHandler
      BY <1>1 DEF Object
    <3>. HIDE DEF left, d
    <3>. QED
      BY <1>1, <3>1, <3>2
  <2>2. CASE ~o.m_ready
    BY <2>2
  <2>. QED
    BY <2>1, <2>2
<1>3. /\ o.m_ready => ~left.m_proxy
      /\ ~o.m_ready => left.m_proxy = o.m_proxy
  BY <1>1 DEF Object
<1>. HIDE DEF left
<1>4. /\ a \in Object
      /\ a.socket = left.socket /\ a.onAccepted = left.onAccepted
      /\ a.stream = left.stream /\ a.m_stream = left.m_stream
      /\ a.m_proxy = left.m_proxy /\ a.proxy = left.proxy
      /\ a.onGone = "listener" /\ a.streamHandler = left.streamHandler
  BY <1>2, ToListenerFields
<1>5. /\ b \in Object
      /\ b.socket = left.socket /\ b.onAccepted = left.onAccepted
      /\ b.stream = left.stream /\ b.m_stream = left.m_stream
      /\ b.m_proxy = left.m_proxy /\ b.proxy = left.proxy
      /\ b.onGone = left.onGone /\ b.streamHandler = left.streamHandler
  BY <1>2, CloseFields
<1>. HIDE DEF a, b
<1>6. /\ p.socket = a.socket /\ p.onAccepted = a.onAccepted
      /\ p.stream = IF a.m_stream \/ a.m_proxy THEN "dead" ELSE a.stream
      /\ p.streamHandler = IF a.m_stream \/ a.m_proxy THEN "none" ELSE a.streamHandler
      /\ p.unknown = "dead" /\ ~p.m_timer
      /\ p.proxy = IF a.m_proxy THEN "dead" ELSE a.proxy
      /\ p.onGone \in {a.onGone, "none"}
  BY <1>4, DeleteUnknownFields
<1>7. /\ q.socket = b.socket /\ q.onAccepted = b.onAccepted
      /\ q.stream = IF b.m_stream \/ b.m_proxy THEN "dead" ELSE b.stream
      /\ q.streamHandler = IF b.m_stream \/ b.m_proxy THEN "none" ELSE b.streamHandler
      /\ q.unknown = "dead" /\ ~q.m_timer
      /\ q.proxy = IF b.m_proxy THEN "dead" ELSE b.proxy
      /\ q.onGone \in {b.onGone, "none"}
  BY <1>5, DeleteUnknownFields
<1>. HIDE DEF p, q
<1>8. o.m_ready /\ o.m_proxy => Fits(p, x, "waiting")
  BY SMTT(120), <1>0, <1>2, <1>3, <1>4, <1>6 DEF Fits, Stage
<1>9. ~(o.m_ready /\ o.m_proxy) => Fits(q, x, "none")
  BY SMTT(120), <1>0, <1>2, <1>3, <1>5, <1>7 DEF Fits, Stage
<1>. QED
  BY <1>8, <1>9 DEF p, q, a, b, u, left, ToListener, Close

\* accept: a socket, with the handler for "accepted", or one that is deleted.
LEMMA FitsConnecting ==
  ASSUME NEW o \in Object, NEW w \in Places, Fits(o, "calling", w),
         NEW y, y \notin {"idle", "calling"}
  PROVE  /\ w = "none"
         /\ Fits([o EXCEPT !.socket = "live", !.onAccepted = TRUE], y, "none")
         /\ Fits([o EXCEPT !.socket = "dead"], y, "none")
         /\ Fits(o, y, "none")
<1> DEFINE p == [o EXCEPT !.socket = "live", !.onAccepted = TRUE]
           q == [o EXCEPT !.socket = "dead"]
<1>1. Bare(o) /\ w = "none" /\ ~o.onAccepted
  BY DEF Fits, Bare, Places
<1>2. /\ p.stream = o.stream /\ p.unknown = o.unknown /\ p.proxy = o.proxy
      /\ p.m_proxy = o.m_proxy /\ p.m_timer = o.m_timer
      /\ p.streamHandler = o.streamHandler /\ p.onGone = o.onGone
      /\ p.m_stream = o.m_stream
  BY DEF Object
<1>3. /\ q.stream = o.stream /\ q.unknown = o.unknown /\ q.proxy = o.proxy
      /\ q.m_proxy = o.m_proxy /\ q.m_timer = o.m_timer
      /\ q.streamHandler = o.streamHandler /\ q.onGone = o.onGone
      /\ q.m_stream = o.m_stream /\ q.onAccepted = o.onAccepted
  BY DEF Object
<1>. HIDE DEF p, q
<1>4. Fits(p, y, "none")
  BY <1>1, <1>2 DEF Fits, Bare
<1>5. Fits(q, y, "none")
  BY <1>1, <1>3 DEF Fits, Bare
<1>6. Fits(o, y, "none")
  BY <1>1 DEF Fits, Bare
<1>. QED
  BY <1>1, <1>4, <1>5, <1>6 DEF p, q

\* A waiting client becomes the server's.
LEMMA FitsAdopted ==
  ASSUME NEW o \in Object, NEW x, Fits(o, x, "waiting")
  PROVE  /\ Fits([o EXCEPT !.onGone = "server"], x, "active")
         /\ Fits([o EXCEPT !.onGone = "server"], x, "old")
<1> DEFINE p == [o EXCEPT !.onGone = "server"]
<1>1. /\ p.stream = o.stream /\ p.unknown = o.unknown /\ p.proxy = o.proxy
      /\ p.m_proxy = o.m_proxy /\ p.m_timer = o.m_timer
      /\ p.streamHandler = o.streamHandler
      /\ p.m_stream = o.m_stream /\ p.onAccepted = o.onAccepted /\ p.socket = o.socket
  BY DEF Object
<1>. HIDE DEF p
<1>2. Fits(p, x, "active") /\ Fits(p, x, "old")
  BY <1>1 DEF Fits, Bare
<1>. QED
  BY <1>2 DEF p

LEMMA FitsTold ==
  ASSUME NEW o, NEW x, Fits(o, x, "active")
  PROVE  Fits(o, x, "old")
  BY DEF Fits

\* A client of the server, or one that waits, is deleted.
LEMMA FitsDeleted ==
  ASSUME NEW o \in Object, NEW x, NEW w \in {"waiting", "active", "old"}, Fits(o, x, w)
  PROVE  Fits(DeleteProxy([o EXCEPT !.onGone = "none"]), x, "none")
<1> DEFINE q == [o EXCEPT !.onGone = "none"]
           p == DeleteProxy(q)
<1>1. /\ q \in Object /\ q.unknown = o.unknown /\ q.m_timer = o.m_timer
      /\ q.onAccepted = o.onAccepted /\ q.socket = o.socket /\ q.onGone = "none"
  BY DEF Object
<1>. HIDE DEF q
<1>2. /\ p.stream = "dead" /\ p.proxy = "dead" /\ p.unknown = q.unknown
      /\ p.m_timer = q.m_timer /\ p.onAccepted = q.onAccepted
      /\ p.streamHandler = "none" /\ p.onGone = q.onGone
  BY <1>1, DeleteProxyFields
<1>. HIDE DEF p
<1>3. Fits(p, x, "none")
  BY <1>1, <1>2 DEF Fits, Bare
<1>. QED
  BY <1>3 DEF p, q

-----------------------------------------------------------------------------
(* All connections *)

\* The connection c is in the place w, and in no other.
At(c, w) ==
  /\ c \in m_newClients <=> w = "new"
  /\ c \in Waiting <=> w = "waiting"
  /\ c \in m_clients <=> w = "active"
  /\ c \in m_oldClients <=> w = "old"

Owned(c) == \E w \in Places : At(c, w) /\ Fits(obj[c], peer[c].at, w)

\* A client waits once.
Distinct ==
  \A i, j \in DOMAIN m_waitingClients : m_waitingClients[i] = m_waitingClients[j] => i = j

Owns == Distinct /\ \A c \in Conns : Owned(c)

\* The second layer.
OwnInv == OnlyKnownFaults /\ SocketOutlivesStream /\ (broken = "no" => Owns)

\* A step leaves the connection d alone.
Same(d) ==
  /\ obj'[d] = obj[d] /\ peer'[d].at = peer[d].at
  /\ d \in m_newClients' <=> d \in m_newClients
  /\ d \in Waiting' <=> d \in Waiting
  /\ d \in m_clients' <=> d \in m_clients
  /\ d \in m_oldClients' <=> d \in m_oldClients

LEMMA SameOwned ==
  ASSUME NEW d \in Conns, Owned(d), Same(d)
  PROVE  Owned(d)'
<1>1. PICK w \in Places : At(d, w) /\ Fits(obj[d], peer[d].at, w)
  BY DEF Owned
<1>2. At(d, w)'
  BY <1>1 DEF At, Same
<1>3. Fits(obj[d], peer[d].at, w)'
  BY <1>1 DEF Same
<1>. QED
  BY <1>2, <1>3 DEF Owned

\* The connection c goes to the place w, and the others stay.
LEMMA OneMoves ==
  ASSUME Owns, Distinct', NEW c \in Conns, NEW w \in Places,
         At(c, w)', Fits(obj'[c], peer'[c].at, w),
         \A d \in Conns : d # c => Same(d)
  PROVE  Owns'
<1>1. Owned(c)'
  BY DEF Owned
<1>2. ASSUME NEW d \in Conns, d # c
      PROVE  Owned(d)'
  BY <1>2, SameOwned DEF Owns
<1>. QED
  BY <1>1, <1>2 DEF Owns

LEMMA OwnsSockets ==
  ASSUME Owns
  PROVE  SocketOutlivesStream
  BY DEF Owns, Owned, Fits, SocketOutlivesStream

\* As long as nothing is broken that is all.
LEMMA OwnsGood ==
  ASSUME Owns', broken' = "no"
  PROVE  OwnInv'
<1>1. SocketOutlivesStream'
  BY DEF Owns, Owned, Fits, SocketOutlivesStream
<1>. QED
  BY <1>1 DEF OwnInv, OnlyKnownFaults

\* The far ends move on, and nothing else.
LEMMA PeersMove ==
  ASSUME Owns, UNCHANGED <<obj, m_newClients, m_waitingClients, m_clients, m_oldClients>>,
         \A d \in Conns : peer'[d].at \in {"idle", "calling"}
                            <=> peer[d].at \in {"idle", "calling"}
  PROVE  Owns'
<1>1. Distinct' /\ Waiting' = Waiting
  BY DEF Owns, Distinct, Waiting
<1>2. ASSUME NEW d \in Conns
      PROVE  Owned(d)'
  <2>1. PICK w \in Places : At(d, w) /\ Fits(obj[d], peer[d].at, w)
    BY DEF Owns, Owned
  <2>2. At(d, w)'
    BY <1>1, <2>1 DEF At
  <2>3. Fits(obj[d], peer'[d].at, w)
    BY <2>1, FitsPeer
  <2>4. Fits(obj'[d], peer'[d].at, w)
    BY <2>3
  <2>. QED
    BY <2>2, <2>4 DEF Owned
<1>. QED
  BY <1>1, <1>2 DEF Owns

LEMMA ServiceOwns ==
  ASSUME TypeInv, Owns, broken = "no"
  PROVE  /\ \A c \in Conns : PeerConnects(c) \/ ServiceAccept(c) \/ PeerSends(c)
                             \/ PeerLeaves(c) => OwnInv'
         /\ ServiceListening \/ ListenError => OwnInv'
<1>0. peer \in [Conns -> Peer]
  BY DEF TypeInv, ConnTypes
<1>1. ASSUME NEW c \in Conns,
             PeerConnects(c) \/ ServiceAccept(c) \/ PeerSends(c) \/ PeerLeaves(c)
      PROVE  OwnInv'
  <2>1. /\ UNCHANGED <<obj, m_newClients, m_waitingClients, m_clients, m_oldClients>>
        /\ broken' = broken
    BY <1>1 DEF PeerConnects, ServiceAccept, PeerSends, PeerLeaves
  <2>2. \A d \in Conns : peer'[d].at \in {"idle", "calling"}
                           <=> peer[d].at \in {"idle", "calling"}
    <3>1. CASE PeerConnects(c)
      BY <1>0, <3>1 DEF PeerConnects, Peer
    <3>2. CASE ServiceAccept(c)
      BY <1>0, <3>2 DEF ServiceAccept, Peer
    <3>3. CASE PeerSends(c)
      BY SMTT(120), <1>0, <3>3 DEF PeerSends, Peer
    <3>4. CASE PeerLeaves(c)
      BY <1>0, <3>4 DEF PeerLeaves, Peer
    <3>. QED
      BY <1>1, <3>1, <3>2, <3>3, <3>4
  <2>. QED
    BY <2>1, <2>2, PeersMove, OwnsGood
<1>2. ASSUME ServiceListening \/ ListenError
      PROVE  OwnInv'
  <2>1. /\ UNCHANGED <<peer, obj, m_newClients, m_waitingClients, m_clients, m_oldClients>>
        /\ broken' = broken
    BY <1>2 DEF ServiceListening, ListenError
  <2>. QED
    BY <2>1, PeersMove, OwnsGood
<1>. QED
  BY <1>1, <1>2

\* Where a connection is, when only its objects change.
LEMMA ObjectsChange ==
  ASSUME TypeInv, Owns, NEW c \in Conns, NEW w \in Places, NEW o \in Object,
         At(c, w), Fits(o, peer[c].at, w), Set(c, o), broken' = "no",
         \A d \in Conns : peer'[d].at = peer[d].at,
         UNCHANGED <<m_newClients, m_waitingClients, m_clients, m_oldClients>>
  PROVE  OwnInv'
<1>1. obj'[c] = o /\ \A d \in Conns : d # c => obj'[d] = obj[d]
  BY SetTypes DEF TypeInv, ConnTypes
<1>2. Distinct' /\ Waiting' = Waiting
  BY DEF Owns, Distinct, Waiting
<1>3. At(c, w)' /\ Fits(obj'[c], peer'[c].at, w)
  BY <1>1, <1>2 DEF At
<1>4. \A d \in Conns : d # c => Same(d)
  BY <1>1, <1>2 DEF Same
<1>5. Owns'
  BY <1>2, <1>3, <1>4, OneMoves
<1>. QED
  BY <1>5, OwnsGood

\* A handler of a deleted object has run: nothing is deleted by it.
LEMMA FaultSeen ==
  ASSUME Owns, UNCHANGED obj, broken' \in {"accepted", "server", "unknown"}
  PROVE  OwnInv'
<1>1. SocketOutlivesStream'
  BY OwnsSockets DEF SocketOutlivesStream
<1>. QED
  BY <1>1 DEF OwnInv, OnlyKnownFaults

\* The place of a connection.
LEMMA PlaceOf ==
  ASSUME Owns, NEW c \in Conns
  PROVE  \E w \in Places : At(c, w) /\ Fits(obj[c], peer[c].at, w)
  BY DEF Owns, Owned

\* The message of a far end is read, and it is where it was.
LEMMA ReadKeepsAt ==
  ASSUME TypeInv, NEW c \in Conns, peer' = [peer EXCEPT ![c].msg = "none"]
  PROVE  \A d \in Conns : peer'[d].at = peer[d].at
<1>1. peer \in [Conns -> Peer]
  BY DEF TypeInv, ConnTypes
<1>. QED
  BY <1>1 DEF Peer

LEMMA SendFailureOwns ==
  ASSUME TypeInv, Owns, NEW c \in Conns, obj[c].unknown = "live",
         Set(c, SendFailure(obj[c])), broken' = "no",
         \A d \in Conns : peer'[d].at = peer[d].at,
         UNCHANGED <<m_newClients, m_waitingClients, m_clients, m_oldClients>>
  PROVE  OwnInv'
<1>1. PICK w \in Places : At(c, w) /\ Fits(obj[c], peer[c].at, w)
  BY PlaceOf
<1>2. w = "new"
  BY <1>1 DEF Fits
<1>3. obj[c] \in Object
  BY DEF TypeInv, ConnTypes
<1>4. SendFailure(obj[c]) \in Object
  BY <1>3, SendFailureFields
<1>5. Fits(SendFailure(obj[c]), peer[c].at, w)
  BY <1>1, <1>2, <1>3, FitsSendFailure
<1>. QED
  BY <1>1, <1>4, <1>5, ObjectsChange

\* The handlers of a ClientProxyUnknown.
LEMMA UnknownOwns ==
  ASSUME TypeInv, Owns, broken = "no"
  PROVE  /\ HandleHello \/ HandleUnknownGone \/ HandleReady => OwnInv'
         /\ \A c \in Conns : HandleTimeout(c) => OwnInv'
<1>0. queue \in Seq(Events) /\ obj \in [Conns -> Object]
  BY DEF TypeInv, ConnTypes
<1>1. ASSUME HandleHello
      PROVE  OwnInv'
  <2> DEFINE c == This
  <2>1. c \in Conns
    BY <1>0, <1>1, HeadOfQueue DEF HandleHello, ConnEvents
  <2>2. /\ obj[c].streamHandler = "unknown" /\ broken' = "no"
        /\ peer' = [peer EXCEPT ![c].msg = "none"]
        /\ \/ Set(c, NewProxy(UnknownRemovesHandlers(obj[c])))
           \/ Set(c, SendFailure(obj[c]))
        /\ UNCHANGED <<m_newClients, m_waitingClients, m_clients, m_oldClients>>
    BY <1>1 DEF HandleHello, unknownFrame
  <2>. HIDE DEF c
  <2>3. \A d \in Conns : peer'[d].at = peer[d].at
    BY <2>1, <2>2, ReadKeepsAt
  <2>4. PICK w \in Places : At(c, w) /\ Fits(obj[c], peer[c].at, w)
    BY <2>1, PlaceOf
  <2>5. obj[c] \in Object
    BY <1>0, <2>1
  <2>6. w = "new" /\ Fits(NewProxy(UnknownRemovesHandlers(obj[c])), peer[c].at, w)
    BY <2>2, <2>4, <2>5, FitsNewProxy
  <2>7. NewProxy(UnknownRemovesHandlers(obj[c])) \in Object
    BY <2>5, UnknownRemovesHandlersFields, NewProxyFields
  <2>8. obj[c].unknown = "live"
    BY <2>4, <2>6 DEF Fits
  <2>. QED
    BY <2>1, <2>2, <2>3, <2>4, <2>6, <2>7, <2>8, ObjectsChange, SendFailureOwns
<1>2. ASSUME HandleUnknownGone
      PROVE  OwnInv'
  <2>1. This \in Conns
    BY <1>0, <1>2, HeadOfQueue DEF HandleUnknownGone, ConnEvents
  <2>2. /\ IF obj[This].unknown = "live"
           THEN Set(This, SendFailure(obj[This])) /\ UNCHANGED broken
           ELSE broken' = "unknown" /\ UNCHANGED obj
        /\ UNCHANGED <<peer, m_newClients, m_waitingClients, m_clients, m_oldClients>>
    BY <1>2 DEF HandleUnknownGone, unknownFrame
  <2>. QED
    BY <2>1, <2>2, SendFailureOwns, FaultSeen
<1>3. ASSUME HandleReady
      PROVE  OwnInv'
  <2> DEFINE c == This
             o == obj[c]
             p == [o EXCEPT !.m_ready = TRUE, !.m_timer = FALSE]
  <2>1. c \in Conns
    BY <1>0, <1>3, HeadOfQueue DEF HandleReady, ConnEvents
  <2>2. /\ IF o.unknown = "live"
           THEN Set(c, p) /\ UNCHANGED broken
           ELSE broken' = "unknown" /\ UNCHANGED obj
        /\ UNCHANGED <<peer, m_newClients, m_waitingClients, m_clients, m_oldClients>>
    BY <1>3 DEF HandleReady, unknownFrame
  <2>. HIDE DEF c
  <2>3. o \in Object
    BY <1>0, <2>1
  <2>4. /\ p \in Object
        /\ p.socket = o.socket /\ p.onAccepted = o.onAccepted /\ p.stream = o.stream
        /\ p.unknown = o.unknown /\ p.m_stream = o.m_stream /\ p.m_proxy = o.m_proxy
        /\ p.proxy = o.proxy /\ p.onGone = o.onGone
        /\ p.streamHandler = o.streamHandler /\ ~p.m_timer
    BY <2>3 DEF Object
  <2>5. PICK w \in Places : At(c, w) /\ Fits(o, peer[c].at, w)
    BY <2>1, PlaceOf
  <2>. HIDE DEF p
  <2>6. Fits(p, peer[c].at, w)
    BY <2>4, <2>5, FitsAlike
  <2>. QED
    BY <2>1, <2>2, <2>4, <2>5, <2>6, ObjectsChange, FaultSeen
<1>4. ASSUME NEW c \in Conns, HandleTimeout(c)
      PROVE  OwnInv'
  <2>1. /\ obj[c].m_timer /\ Set(c, SendFailure(obj[c])) /\ broken' = "no"
        /\ UNCHANGED <<peer, m_newClients, m_waitingClients, m_clients, m_oldClients>>
    BY <1>4 DEF HandleTimeout, unknownFrame
  <2>2. obj[c].unknown = "live"
    BY <2>1, PlaceOf DEF Fits
  <2>. QED
    BY <2>1, <2>2, SendFailureOwns
<1>. QED
  BY <1>1, <1>2, <1>3, <1>4

\* Disconnect and the heartbeat change nothing about the owner.
LEMMA ProxyEdits ==
  ASSUME TypeInv, Owns, NEW c \in Conns, broken' = "no",
         \/ Set(c, [obj[c] EXCEPT !.heartbeat = TRUE])
         \/ Set(c, Disconnect(obj[c])),
         \A d \in Conns : peer'[d].at = peer[d].at,
         UNCHANGED <<m_newClients, m_waitingClients, m_clients, m_oldClients>>
  PROVE  OwnInv'
<1> DEFINE o == obj[c]
           p == [o EXCEPT !.heartbeat = TRUE]
           q == Disconnect(o)
<1>1. o \in Object
  BY DEF TypeInv, ConnTypes
<1>2. /\ p \in Object
      /\ p.socket = o.socket /\ p.onAccepted = o.onAccepted /\ p.stream = o.stream
      /\ p.unknown = o.unknown /\ p.m_stream = o.m_stream /\ p.m_proxy = o.m_proxy
      /\ p.proxy = o.proxy /\ p.onGone = o.onGone
      /\ p.streamHandler = o.streamHandler /\ p.m_timer = o.m_timer
  BY <1>1 DEF Object
<1>3. /\ q \in Object
      /\ q.socket = o.socket /\ q.onAccepted = o.onAccepted /\ q.stream = o.stream
      /\ q.unknown = o.unknown /\ q.m_stream = o.m_stream /\ q.m_proxy = o.m_proxy
      /\ q.proxy = o.proxy /\ q.onGone = o.onGone
      /\ q.streamHandler = "none" /\ q.m_timer = o.m_timer
  BY <1>1 DEF Object, Disconnect
<1>4. Set(c, p) \/ Set(c, q)
  OBVIOUS
<1>5. PICK w \in Places : At(c, w) /\ Fits(o, peer[c].at, w)
  BY PlaceOf
<1>. HIDE DEF p, q
<1>6. Fits(p, peer[c].at, w) /\ Fits(q, peer[c].at, w)
  BY <1>2, <1>3, <1>5, FitsAlike
<1>. QED
  BY <1>2, <1>3, <1>4, <1>5, <1>6, ObjectsChange

\* The handlers of a ClientProxy1_0.
LEMMA ProxyOwns ==
  ASSUME TypeInv, Owns, broken = "no"
  PROVE  /\ HandleInfo \/ HandleDisconnect => OwnInv'
         /\ \A c \in Conns : HandleFlatline(c) => OwnInv'
<1>0. queue \in Seq(Events)
  BY DEF TypeInv, ConnTypes
<1>1. ASSUME HandleInfo
      PROVE  OwnInv'
  <2>1. This \in Conns
    BY <1>0, <1>1, HeadOfQueue DEF HandleInfo, ConnEvents
  <2>2. /\ \/ Set(This, [obj[This] EXCEPT !.heartbeat = TRUE])
           \/ Set(This, Disconnect(obj[This]))
        /\ peer' = [peer EXCEPT ![This].msg = "none"] /\ broken' = "no"
        /\ UNCHANGED <<m_newClients, m_waitingClients, m_clients, m_oldClients>>
    BY <1>1 DEF HandleInfo, unknownFrame
  <2>3. \A d \in Conns : peer'[d].at = peer[d].at
    BY <2>1, <2>2, ReadKeepsAt
  <2>. QED
    BY <2>1, <2>2, <2>3, ProxyEdits
<1>2. ASSUME HandleDisconnect
      PROVE  OwnInv'
  <2>1. This \in Conns
    BY <1>0, <1>2, HeadOfQueue DEF HandleDisconnect, ConnEvents
  <2>2. /\ Set(This, Disconnect(obj[This])) /\ broken' = "no"
        /\ UNCHANGED <<peer, m_newClients, m_waitingClients, m_clients, m_oldClients>>
    BY <1>2 DEF HandleDisconnect, unknownFrame
  <2>. QED
    BY <2>1, <2>2, ProxyEdits
<1>3. ASSUME NEW c \in Conns, HandleFlatline(c)
      PROVE  OwnInv'
  <2>1. /\ Set(c, Disconnect(obj[c])) /\ broken' = "no"
        /\ UNCHANGED <<peer, m_newClients, m_waitingClients, m_clients, m_oldClients>>
    BY <1>3 DEF HandleFlatline, unknownFrame
  <2>. QED
    BY <2>1, ProxyEdits
<1>. QED
  BY <1>1, <1>2, <1>3

-----------------------------------------------------------------------------
(* Connections that change their place *)

LEMMA AppendWaits ==
  ASSUME m_waitingClients \in Seq(Conns), Distinct, NEW c \in Conns, c \notin Waiting,
         m_waitingClients' = Append(m_waitingClients, c)
  PROVE  Distinct' /\ Waiting' = Waiting \cup {c}
<1> DEFINE s == m_waitingClients
           n == Len(s)
           t == Append(s, c)
<1>1. n \in Nat /\ DOMAIN s = 1..n /\ DOMAIN t = 1..(n + 1)
  BY SMTT(120)
<1>2. t[n + 1] = c /\ \A i \in 1..n : t[i] = s[i]
  BY SMTT(120)
<1>3. \A i \in 1..n : s[i] # c
  BY <1>1 DEF Waiting
<1>4. \A i \in 1..(n + 1) : i \in 1..n \/ i = n + 1
  BY SMTT(120), <1>1
<1>5. \A i, j \in 1..n : s[i] = s[j] => i = j
  BY <1>1 DEF Distinct
<1>. HIDE DEF t, n
<1>6. Distinct'
  <2>1. SUFFICES ASSUME NEW i \in 1..(n + 1), NEW j \in 1..(n + 1), t[i] = t[j]
                 PROVE  i = j
    BY <1>1 DEF Distinct, t
  <2>. QED
    BY <1>2, <1>3, <1>4, <1>5, <2>1
<1>7. Waiting' = {t[i] : i \in 1..(n + 1)}
  BY <1>1 DEF Waiting, t
<1>8. Waiting = {s[i] : i \in 1..n}
  BY <1>1 DEF Waiting
<1>9. \A x : x \in {t[i] : i \in 1..(n + 1)} <=> x \in {s[i] : i \in 1..n} \cup {c}
  <2>1. 1..n \subseteq 1..(n + 1) /\ n + 1 \in 1..(n + 1)
    BY SMTT(120), <1>1
  <2>. QED
    BY <1>2, <1>4, <2>1
<1>. QED
  BY <1>6, <1>7, <1>8, <1>9

LEMMA TailWaits ==
  ASSUME m_waitingClients \in Seq(Conns), Distinct, m_waitingClients # <<>>,
         m_waitingClients' = Tail(m_waitingClients)
  PROVE  /\ Distinct'
         /\ Head(m_waitingClients) \in Conns /\ Head(m_waitingClients) \in Waiting
         /\ Waiting' = Waiting \ {Head(m_waitingClients)}
<1> DEFINE s == m_waitingClients
           n == Len(s)
           t == Tail(s)
           c == Head(s)
<1>1. n \in Nat \ {0} /\ DOMAIN s = 1..n /\ DOMAIN t = 1..(n - 1)
  BY SMTT(120)
<1>2. /\ c = s[1] /\ c \in Conns /\ 1 \in 1..n
      /\ \A i \in 1..(n - 1) : t[i] = s[i + 1] /\ i + 1 \in 2..n
  BY SMTT(120), <1>1
<1>3. \A i \in 2..n : i \in 1..n /\ i - 1 \in 1..(n - 1) /\ (i - 1) + 1 = i /\ i # 1
  BY SMTT(120), <1>1
<1>4. \A i \in 1..n : i = 1 \/ i \in 2..n
  BY SMTT(120), <1>1
<1>5. \A i, j \in 1..n : s[i] = s[j] => i = j
  BY <1>1 DEF Distinct
<1>6. \A i, j \in 1..(n - 1) : i + 1 = j + 1 => i = j
  BY SMTT(120), <1>1
<1>. HIDE DEF t, n, c
<1>7. Distinct'
  <2>1. SUFFICES ASSUME NEW i \in 1..(n - 1), NEW j \in 1..(n - 1), t[i] = t[j]
                 PROVE  i = j
    BY <1>1 DEF Distinct, t
  <2>2. s[i + 1] = s[j + 1] /\ i + 1 \in 1..n /\ j + 1 \in 1..n
    BY <1>2, <1>3, <2>1
  <2>. QED
    BY <1>5, <1>6, <2>2
<1>8. Waiting' = {t[i] : i \in 1..(n - 1)} /\ Waiting = {s[i] : i \in 1..n}
  BY <1>1 DEF Waiting, t
<1>9. ASSUME NEW x
      PROVE  x \in {t[i] : i \in 1..(n - 1)} <=> x \in {s[i] : i \in 1..n} /\ x # c
  <2>1. ASSUME NEW i \in 1..(n - 1)
        PROVE  t[i] \in {s[k] : k \in 1..n} /\ t[i] # c
    <3>1. t[i] = s[i + 1] /\ i + 1 \in 1..n /\ i + 1 # 1
      BY <1>2, <1>3
    <3>. QED
      BY <1>2, <1>5, <3>1
  <2>2. ASSUME NEW i \in 1..n, s[i] # c
        PROVE  s[i] \in {t[k] : k \in 1..(n - 1)}
    <3>1. i \in 2..n
      BY <1>2, <1>4, <2>2
    <3>2. t[i - 1] = s[i] /\ i - 1 \in 1..(n - 1)
      BY <1>2, <1>3, <3>1
    <3>. QED
      BY <3>2
  <2>. QED
    BY <2>1, <2>2
<1>10. Waiting' = Waiting \ {c}
  BY <1>8, <1>9
<1>11. c \in Waiting
  BY <1>2, <1>8
<1>. QED
  BY <1>2, <1>7, <1>10, <1>11 DEF c

\* accept.
LEMMA ConnectingOwns ==
  ASSUME TypeInv, Owns, broken = "no", HandleClientConnecting
  PROVE  OwnInv'
<1>0. peer \in [Conns -> Peer] /\ obj \in [Conns -> Object]
  BY DEF TypeInv, ConnTypes
<1>1. PICK c \in Conns :
        /\ peer[c].at = "calling"
        /\ \/ /\ peer' = [peer EXCEPT ![c].at = IF secure THEN "shaking" ELSE "open"]
              /\ Set(c, [obj[c] EXCEPT !.socket = "live", !.onAccepted = TRUE])
           \/ /\ peer' = [peer EXCEPT ![c].at = "gone"]
              /\ UNCHANGED obj
           \/ /\ peer' = [peer EXCEPT ![c].at = "gone"]
              /\ Set(c, [obj[c] EXCEPT !.socket = "dead"])
  BY DEF HandleClientConnecting
<1>2. /\ UNCHANGED <<m_newClients, m_waitingClients, m_clients, m_oldClients>>
      /\ broken' = "no"
  BY DEF HandleClientConnecting
<1>3. PICK w \in Places : At(c, w) /\ Fits(obj[c], peer[c].at, w)
  BY PlaceOf
<1> DEFINE o == obj[c]
           p == [o EXCEPT !.socket = "live", !.onAccepted = TRUE]
           q == [o EXCEPT !.socket = "dead"]
<1>4. o \in Object /\ p \in Object /\ q \in Object
  BY <1>0, EditTypes
<1>5. /\ peer'[c].at \notin {"idle", "calling"}
      /\ \A d \in Conns : d # c => peer'[d].at = peer[d].at
  <2>1. \/ peer' = [peer EXCEPT ![c].at = "shaking"]
        \/ peer' = [peer EXCEPT ![c].at = "open"]
        \/ peer' = [peer EXCEPT ![c].at = "gone"]
    BY <1>1
  <2>. QED
    BY <1>0, <2>1 DEF Peer
<1>6. /\ w = "none"
      /\ Fits(p, peer'[c].at, "none") /\ Fits(q, peer'[c].at, "none")
      /\ Fits(o, peer'[c].at, "none")
  BY <1>1, <1>3, <1>4, <1>5, FitsConnecting
<1>7. \/ Set(c, p)
      \/ UNCHANGED obj
      \/ Set(c, q)
  BY <1>1
<1>. HIDE DEF p, q
<1>8. obj'[c] \in {p, q, o} /\ \A d \in Conns : d # c => obj'[d] = obj[d]
  BY <1>0, <1>4, <1>7, SetTypes
<1>9. Distinct' /\ Waiting' = Waiting
  BY <1>2 DEF Owns, Distinct, Waiting
<1>10. At(c, "none")' /\ Fits(obj'[c], peer'[c].at, "none")
  BY <1>2, <1>3, <1>6, <1>8, <1>9 DEF At
<1>11. \A d \in Conns : d # c => Same(d)
  BY <1>2, <1>5, <1>8, <1>9 DEF Same
<1>12. Owns'
  BY <1>9, <1>10, <1>11, OneMoves DEF Places
<1>. QED
  BY <1>2, <1>12, OwnsGood

LEMMA AcceptedOwns ==
  ASSUME TypeInv, Owns, broken = "no", HandleClientAccepted
  PROVE  OwnInv'
<1>0. queue \in Seq(Events) /\ obj \in [Conns -> Object]
  BY DEF TypeInv, ConnTypes
<1>1. PICK c \in Conns : c = This
  BY <1>0, HeadOfQueue DEF HandleClientAccepted, ConnEvents
<1> DEFINE p == NewUnknown(obj[c])
<1>2. /\ obj[c].onAccepted
      /\ IF obj[c].socket = "live"
         THEN Set(c, p) /\ m_newClients' = m_newClients \cup {c} /\ UNCHANGED broken
         ELSE broken' = "accepted" /\ UNCHANGED obj
      /\ UNCHANGED <<peer, m_waitingClients, m_clients, m_oldClients>>
  BY <1>1 DEF HandleClientAccepted
<1>3. CASE obj[c].socket # "live"
  BY <1>2, <1>3, FaultSeen
<1>4. CASE obj[c].socket = "live"
  <2>1. PICK w \in Places : At(c, w) /\ Fits(obj[c], peer[c].at, w)
    BY <1>1, PlaceOf
  <2>2. obj[c] \in Object
    BY <1>0, <1>1
  <2>3. w = "none" /\ Fits(p, peer[c].at, "new")
    BY <1>2, <1>4, <2>1, <2>2, FitsNewUnknown
  <2>4. p \in Object
    BY <2>2, NewUnknownFields
  <2>. HIDE DEF p
  <2>5. obj'[c] = p /\ \A d \in Conns : d # c => obj'[d] = obj[d]
    BY <1>0, <1>1, <1>2, <1>4, <2>4, SetTypes
  <2>6. Distinct' /\ Waiting' = Waiting
    BY <1>2 DEF Owns, Distinct, Waiting
  <2>7. At(c, "new")' /\ Fits(obj'[c], peer'[c].at, "new")
    BY <1>2, <1>4, <2>1, <2>3, <2>5, <2>6 DEF At
  <2>8. \A d \in Conns : d # c => Same(d)
    BY <1>2, <1>4, <2>5, <2>6 DEF Same
  <2>9. Owns'
    BY <1>1, <2>6, <2>7, <2>8, OneMoves DEF Places
  <2>. QED
    BY <1>2, <1>4, <2>9, OwnsGood
<1>. QED
  BY <1>3, <1>4

LEMMA UnknownClientOwns ==
  ASSUME TypeInv, Owns, broken = "no", HandleUnknownClient
  PROVE  OwnInv'
<1>0. /\ queue \in Seq(Events) /\ obj \in [Conns -> Object]
      /\ m_waitingClients \in Seq(Conns)
  BY DEF TypeInv, ConnTypes
<1>1. PICK c \in Conns : c = This
  BY <1>0, HeadOfQueue DEF HandleUnknownClient, ConnEvents
<1> DEFINE o == obj[c]
           left == IF o.m_ready
                   THEN [UnknownRemovesHandlers(o) EXCEPT !.m_proxy = FALSE] ELSE o
           p == DeleteUnknown([left EXCEPT !.onGone = "listener"])
           q == DeleteUnknown([left EXCEPT !.closed = @ \/ o.m_stream])
<1>2. /\ o.unknown = "live"
      /\ m_newClients' = m_newClients \ {c}
      /\ IF o.m_ready /\ o.m_proxy
         THEN m_waitingClients' = Append(m_waitingClients, c) /\ Set(c, p)
         ELSE UNCHANGED m_waitingClients /\ Set(c, q)
      /\ UNCHANGED <<peer, m_clients, m_oldClients>> /\ broken' = "no"
  BY <1>1 DEF HandleUnknownClient
<1>3. PICK w \in Places : At(c, w) /\ Fits(o, peer[c].at, w)
  BY PlaceOf
<1>4. w = "new" /\ o \in Object
  BY <1>0, <1>2, <1>3 DEF Fits
<1>5. /\ o.m_ready /\ o.m_proxy => Fits(p, peer[c].at, "waiting")
      /\ ~(o.m_ready /\ o.m_proxy) => Fits(q, peer[c].at, "none")
  BY <1>3, <1>4, FitsUnknownClient
<1>. HIDE DEF p, q, left
<1>6. /\ obj'[c] = IF o.m_ready /\ o.m_proxy THEN p ELSE q
      /\ \A d \in Conns : d # c => obj'[d] = obj[d]
  BY <1>0, <1>2 DEF Set
<1>7. CASE o.m_ready /\ o.m_proxy
  <2>1. c \notin Waiting /\ Distinct
    BY <1>3, <1>4 DEF At, Owns
  <2>2. Distinct' /\ Waiting' = Waiting \cup {c}
    BY <1>0, <1>2, <1>7, <2>1, AppendWaits
  <2>3. At(c, "waiting")' /\ Fits(obj'[c], peer'[c].at, "waiting")
    BY <1>2, <1>3, <1>4, <1>5, <1>6, <1>7, <2>2 DEF At
  <2>4. \A d \in Conns : d # c => Same(d)
    BY <1>2, <1>6, <2>2 DEF Same
  <2>5. Owns'
    BY <2>2, <2>3, <2>4, OneMoves DEF Places
  <2>. QED
    BY <1>2, <2>5, OwnsGood
<1>8. CASE ~(o.m_ready /\ o.m_proxy)
  <2>2. Distinct' /\ Waiting' = Waiting
    BY <1>2, <1>8 DEF Owns, Distinct, Waiting
  <2>3. At(c, "none")' /\ Fits(obj'[c], peer'[c].at, "none")
    BY <1>2, <1>3, <1>4, <1>5, <1>6, <1>8, <2>2 DEF At
  <2>4. \A d \in Conns : d # c => Same(d)
    BY <1>2, <1>6, <2>2 DEF Same
  <2>5. Owns'
    BY SMTT(120), <2>2, <2>3, <2>4, OneMoves DEF Places
  <2>. QED
    BY SMTT(120), <1>2, <2>5, OwnsGood
<1>. QED
  BY <1>7, <1>8

\* A waiting client that goes: its proxy is deleted, with the stream.
LEMMA WaitingGoneOwns ==
  ASSUME TypeInv, Owns, broken = "no", HandleWaitingClientGone
  PROVE  OwnInv'
<1>0. queue \in Seq(Events) /\ obj \in [Conns -> Object]
  BY SMTT(120) DEF TypeInv, ConnTypes
<1>1. PICK c \in Conns : c = This
  BY <1>0, HeadOfQueue DEF HandleWaitingClientGone, ConnEvents
<1> DEFINE q == [obj[c] EXCEPT !.onGone = "none"]
           p == DeleteProxy(q)
<1>2. Set(c, p) /\ broken' = "stream"
  BY <1>1 DEF HandleWaitingClientGone
<1>3. q \in Object
  BY <1>0, EditTypes
<1>4. p.stream = "dead"
  BY <1>3, DeleteProxyFields
<1>. HIDE DEF p, q
<1>5. obj'[c] = p /\ \A d \in Conns : d # c => obj'[d] = obj[d]
  BY <1>0, <1>2 DEF Set
<1>6. SocketOutlivesStream'
  BY <1>4, <1>5, OwnsSockets DEF SocketOutlivesStream
<1>. QED
  BY <1>2, <1>6 DEF OwnInv, OnlyKnownFaults

\* adoptClient.
LEMMA ConnectedOwns ==
  ASSUME TypeInv, Owns, broken = "no", HandleClientConnected
  PROVE  OwnInv'
<1>0. obj \in [Conns -> Object] /\ m_waitingClients \in Seq(Conns)
  BY DEF TypeInv, ConnTypes
<1>1. CASE m_waitingClients = <<>>
  <2>1. /\ UNCHANGED <<peer, obj, m_newClients, m_waitingClients, m_clients, m_oldClients>>
        /\ broken' = "no"
    BY <1>1 DEF HandleClientConnected
  <2>. QED
    BY <2>1, PeersMove, OwnsGood
<1>2. CASE m_waitingClients # <<>>
  <2>1. PICK c : c = Head(m_waitingClients)
    OBVIOUS
  <2> DEFINE p == [obj[c] EXCEPT !.onGone = "server"]
  <2>2. /\ m_waitingClients' = Tail(m_waitingClients) /\ Set(c, p)
        /\ \/ m_clients' = m_clients \cup {c} /\ UNCHANGED m_oldClients
           \/ m_oldClients' = m_oldClients \cup {c} /\ UNCHANGED m_clients
        /\ UNCHANGED <<peer, m_newClients>> /\ broken' = "no"
    BY <1>2, <2>1 DEF HandleClientConnected
  <2>3. Distinct' /\ c \in Conns /\ c \in Waiting /\ Waiting' = Waiting \ {c}
    BY <1>0, <1>2, <2>1, <2>2, TailWaits DEF Owns
  <2>4. PICK w \in Places : At(c, w) /\ Fits(obj[c], peer[c].at, w)
    BY <2>3, PlaceOf
  <2>5. w = "waiting" /\ obj[c] \in Object
    BY <1>0, <2>3, <2>4 DEF At
  <2>6. Fits(p, peer[c].at, "active") /\ Fits(p, peer[c].at, "old")
    BY <2>4, <2>5, FitsAdopted
  <2>. HIDE DEF p
  <2>7. obj'[c] = p /\ \A d \in Conns : d # c => obj'[d] = obj[d]
    BY <1>0, <2>2, <2>3 DEF Set
  <2>8. \A d \in Conns : d # c => Same(d)
    BY SMTT(120), <2>2, <2>3, <2>7 DEF Same
  <2>9. \/ At(c, "active")' /\ Fits(obj'[c], peer'[c].at, "active")
        \/ At(c, "old")' /\ Fits(obj'[c], peer'[c].at, "old")
    BY <2>2, <2>3, <2>4, <2>5, <2>6, <2>7 DEF At
  <2>10. Owns'
    BY <2>3, <2>8, <2>9, OneMoves DEF Places
  <2>. QED
    BY <2>2, <2>10, OwnsGood
<1>. QED
  BY <1>1, <1>2

\* A client of the server is deleted.
LEMMA DeletedOwns ==
  ASSUME TypeInv, Owns, broken = "no", NEW c \in Conns,
         NEW w \in {"active", "old"}, At(c, w), Fits(obj[c], peer[c].at, w),
         Set(c, DeleteProxy([obj[c] EXCEPT !.onGone = "none"])),
         broken' = IF obj[c].proxy = "live" THEN broken ELSE "proxy",
         m_clients' = m_clients \ {c}, m_oldClients' = m_oldClients \ {c},
         UNCHANGED <<peer, m_newClients, m_waitingClients>>
  PROVE  OwnInv'
<1> DEFINE p == DeleteProxy([obj[c] EXCEPT !.onGone = "none"])
<1>0. obj \in [Conns -> Object]
  BY DEF TypeInv, ConnTypes
<1>1. broken' = "no"
  BY DEF Fits
<1>2. Fits(p, peer[c].at, "none")
  BY <1>0, FitsDeleted
<1>3. Set(c, p)
  OBVIOUS
<1>. HIDE DEF p
<1>4. obj'[c] = p /\ \A d \in Conns : d # c => obj'[d] = obj[d]
  BY <1>0, <1>3 DEF Set
<1>5. Distinct' /\ Waiting' = Waiting
  BY DEF Owns, Distinct, Waiting
<1>6. At(c, "none")' /\ Fits(obj'[c], peer'[c].at, "none")
  BY <1>2, <1>4, <1>5 DEF At
<1>7. \A d \in Conns : d # c => Same(d)
  BY <1>4, <1>5 DEF Same
<1>8. Owns'
  BY <1>5, <1>6, <1>7, OneMoves DEF Places
<1>. QED
  BY <1>1, <1>8, OwnsGood

LEMMA ServerOwns ==
  ASSUME TypeInv, Owns, broken = "no"
  PROVE  /\ HandleClientDisconnected => OwnInv'
         /\ \A c \in Conns : HandleClientCloseTimeout(c) => OwnInv'
<1>0. queue \in Seq(Events)
  BY SMTT(120) DEF TypeInv, ConnTypes
<1>1. ASSUME HandleClientDisconnected
      PROVE  OwnInv'
  <2>1. PICK c \in Conns : c = This
    BY <1>0, <1>1, HeadOfQueue DEF HandleClientDisconnected, ConnEvents
  <2>2. /\ obj[c].onGone = "server"
        /\ Set(c, DeleteProxy([obj[c] EXCEPT !.onGone = "none"]))
        /\ broken' = IF obj[c].proxy = "live" THEN broken ELSE "proxy"
        /\ m_clients' = m_clients \ {c} /\ m_oldClients' = m_oldClients \ {c}
        /\ UNCHANGED <<peer, m_newClients, m_waitingClients>>
    BY <1>1, <2>1 DEF HandleClientDisconnected
  <2>3. PICK w \in Places : At(c, w) /\ Fits(obj[c], peer[c].at, w)
    BY PlaceOf
  <2>4. w \in {"active", "old"}
    BY <2>2, <2>3 DEF Fits
  <2>. QED
    BY <2>2, <2>3, <2>4, DeletedOwns
<1>2. ASSUME NEW c \in Conns, HandleClientCloseTimeout(c)
      PROVE  OwnInv'
  <2>1. PICK w \in Places : At(c, w) /\ Fits(obj[c], peer[c].at, w)
    BY SMTT(120), PlaceOf
  <2>2. w = "old"
    BY <1>2, <2>1 DEF HandleClientCloseTimeout, At
  <2>3. m_clients' = m_clients \ {c}
    BY <1>2, <2>1, <2>2 DEF HandleClientCloseTimeout, At
  <2>. QED
    BY <1>2, <2>1, <2>2, <2>3, DeletedOwns DEF HandleClientCloseTimeout
<1>. QED
  BY <1>1, <1>2

-----------------------------------------------------------------------------
(* The application's steps *)

\* Of what is closed nothing is left: ~Server and then ~ClientListener.
LEMMA ClosedOwns ==
  ASSUME TypeInv, Owns,
         obj' = DeleteListenersClients(DeleteServersClients(obj)), peer' = HangUp,
         m_newClients' = {}, m_waitingClients' = <<>>, m_clients' = {}, m_oldClients' = {}
  PROVE  Owns'
<1>0. peer \in [Conns -> Peer] /\ obj \in [Conns -> Object]
  BY DEF TypeInv, ConnTypes
<1>1. Distinct' /\ Waiting' = {}
  BY SMTT(120) DEF Distinct, Waiting
<1>2. ASSUME NEW c \in Conns
      PROVE  Owned(c)'
  <2>1. PICK w \in Places : At(c, w) /\ Fits(obj[c], peer[c].at, w)
    BY PlaceOf
  <2>2. At(c, "none")'
    BY <1>1 DEF At
  <2> DEFINE p == DeleteListenersClients(DeleteServersClients(obj))[c]
             o == obj[c]
             y == HangUp[c].at
  <2>3. y = IF peer[c].at = "idle" THEN "idle" ELSE "gone"
    BY <1>0 DEF HangUp, Peer
  <2>4. /\ p.onAccepted = o.onAccepted
        /\ c \in m_newClients /\ c \notin m_clients \cup m_oldClients =>
             /\ p.unknown = "dead" /\ ~p.m_timer
             /\ p.stream = IF o.m_stream \/ o.m_proxy THEN "dead" ELSE o.stream
             /\ p.proxy = IF o.m_proxy THEN "dead" ELSE o.proxy
             /\ p.streamHandler = IF o.m_stream \/ o.m_proxy THEN "none"
                                  ELSE o.streamHandler
             /\ p.onGone \in {o.onGone, "none"}
        /\ c \notin m_newClients /\ c \in Waiting \cup m_clients \cup m_oldClients =>
             /\ p.stream = "dead" /\ p.proxy = "dead"
             /\ p.unknown = o.unknown /\ p.m_timer = o.m_timer
             /\ p.streamHandler = "none" /\ p.onGone = "none"
        /\ c \notin m_newClients \cup Waiting \cup m_clients \cup m_oldClients =>
             p = [o EXCEPT !.socket = IF @ = "live" THEN "dead" ELSE @]
    BY <1>0, ClosedFields
  <2>. HIDE DEF p, y
  <2>5. Fits(p, y, "none")
    <3>1. CASE w = "new"
      <4>1. ~o.onAccepted /\ y = "gone"
        BY <2>1, <2>3, <3>1 DEF Fits, Bare
      <4>. QED
        BY <2>1, <2>4, <3>1, <4>1 DEF At, Fits, Stage
    <3>2. CASE w \in {"waiting", "active", "old"}
      <4>1. ~o.onAccepted /\ y = "gone"
        BY <2>1, <2>3, <3>2 DEF Fits, Bare
      <4>. QED
        BY <2>1, <2>4, <3>2, <4>1 DEF At, Fits
    <3>3. CASE w = "none"
      <4>1. p = [o EXCEPT !.socket = IF @ = "live" THEN "dead" ELSE @]
        BY <2>1, <2>4, <3>3 DEF At
      <4>2. /\ p.stream = o.stream /\ p.unknown = o.unknown /\ p.proxy = o.proxy
            /\ p.m_proxy = o.m_proxy /\ p.m_timer = o.m_timer
            /\ p.streamHandler = o.streamHandler /\ p.onGone = o.onGone
            /\ p.m_stream = o.m_stream
        BY SMTT(120), <1>0, <4>1 DEF Object
      <4>. QED
        BY <2>1, <2>3, <2>4, <3>3, <4>2 DEF Fits, Bare
    <3>. QED
      BY <3>1, <3>2, <3>3 DEF Places
  <2>6. obj'[c] = p /\ peer'[c].at = y
    BY DEF p, y
  <2>7. Fits(obj'[c], peer'[c].at, "none")
    BY <2>5, <2>6
  <2>. QED
    BY <2>2, <2>7 DEF Owned, Places
<1>. QED
  BY <1>1, <1>2 DEF Owns

LEMMA NothingMoves ==
  ASSUME Owns, broken = "no", UNCHANGED <<peer, obj, m_newClients, m_waitingClients,
                                          m_clients, m_oldClients, broken>>
  PROVE  OwnInv'
<1>1. Owns'
  BY PeersMove
<1>. QED
  BY <1>1, OwnsGood

\* closeClients: the active clients become old ones.
LEMMA TellOwns ==
  ASSUME TypeInv, Owns, TellClientsToGo,
         UNCHANGED <<peer, obj, m_newClients, m_waitingClients>>
  PROVE  Owns'
<1>1. Distinct' /\ Waiting' = Waiting
  BY DEF Owns, Distinct, Waiting
<1>2. m_clients' = {} /\ m_oldClients' = m_oldClients \cup m_clients
  BY DEF TellClientsToGo
<1>3. ASSUME NEW c \in Conns
      PROVE  Owned(c)'
  <2>1. PICK w \in Places : At(c, w) /\ Fits(obj[c], peer[c].at, w)
    BY PlaceOf
  <2>2. CASE w = "active"
    <3>1. At(c, "old")'
      BY <1>1, <1>2, <2>1, <2>2 DEF At
    <3>2. Fits(obj'[c], peer'[c].at, "old")
      BY <2>1, <2>2, FitsTold
    <3>. QED
      BY <3>1, <3>2 DEF Owned, Places
  <2>3. CASE w # "active"
    <3>1. At(c, w)' /\ Fits(obj'[c], peer'[c].at, w)
      BY <1>1, <1>2, <2>1, <2>3 DEF At
    <3>. QED
      BY <3>1 DEF Owned
  <2>. QED
    BY <2>2, <2>3
<1>. QED
  BY <1>1, <1>3 DEF Owns

LEMMA FinishOwns ==
  ASSUME TypeInv, Owns, NEW why, NEW closed \in BOOLEAN, Finish(why, closed)
  PROVE  Owns'
<1>1. \/ /\ obj' = DeleteListenersClients(DeleteServersClients(obj)) /\ peer' = HangUp
         /\ m_newClients' = {} /\ m_waitingClients' = <<>>
         /\ m_clients' = {} /\ m_oldClients' = {}
      \/ UNCHANGED <<obj, peer, m_newClients, m_waitingClients, m_clients, m_oldClients>>
  BY DEF Finish, Become
<1>. QED
  BY <1>1, ClosedOwns, PeersMove

LEMMA StopOwns ==
  ASSUME TypeInv, Owns, NEW why, Stop(why), broken = "no", broken' = broken
  PROVE  OwnInv'
<1>1. CASE app.state = "kStarted"
  <2>1. TellClientsToGo /\ UNCHANGED <<peer, obj, m_newClients, m_waitingClients>>
    BY <1>1 DEF Stop
  <2>. QED
    BY <2>1, TellOwns, OwnsGood
<1>2. CASE app.state # "kStarted"
  <2>1. Finish(why, FALSE)
    BY <1>2 DEF Stop
  <2>. QED
    BY <2>1, FinishOwns, OwnsGood
<1>. QED
  BY <1>1, <1>2

\* Stopping, starting and the requests.
LEMMA AppOwns ==
  ASSUME TypeInv, Owns, broken = "no"
  PROVE  /\ HandleQuit \/ HandleSuspend \/ ResetServer => OwnInv'
         /\ HandleResume \/ RetryHandler \/ ForceReconnect => OwnInv'
         /\ HandleServerGone \/ HandleWaitTimeout \/ Request => OwnInv'
<1>1. ASSUME HandleQuit
      PROVE  OwnInv'
  <2>1. CASE frames = <<>>
    BY <1>1, <2>1, StopOwns DEF HandleQuit
  <2>2. CASE frames # <<>>
    <3> DEFINE why == frames[Len(frames)].why
    <3>1. \/ broken' = "server" /\ UNCHANGED obj
          \/ Finish(why, TRUE) /\ UNCHANGED broken
      BY <1>1, <2>2 DEF HandleQuit
    <3>. HIDE DEF why
    <3>. QED
      BY <3>1, FinishOwns, OwnsGood, FaultSeen
  <2>. QED
    BY <2>1, <2>2
<1>2. ASSUME HandleSuspend
      PROVE  OwnInv'
  <2>1. CASE m_suspended
    BY <1>2, <2>1, NothingMoves DEF HandleSuspend, unknownFrame
  <2>2. CASE ~m_suspended
    BY <1>2, <2>2, StopOwns DEF HandleSuspend
  <2>. QED
    BY <2>1, <2>2
<1>3. ASSUME ResetServer
      PROVE  OwnInv'
  BY <1>3, StopOwns DEF ResetServer
<1>4. ASSUME HandleResume
      PROVE  OwnInv'
  <2>1. UNCHANGED <<obj, peer, m_newClients, m_waitingClients, m_clients, m_oldClients, broken>>
    BY <1>4 DEF HandleResume, Become, unknownFrame
  <2>. QED
    BY <2>1, NothingMoves
<1>5. ASSUME RetryHandler
      PROVE  OwnInv'
  <2>1. UNCHANGED <<obj, peer, m_newClients, m_waitingClients, m_clients, m_oldClients>>
    BY <1>5 DEF RetryHandler, Become, unknownFrame
  <2>2. broken' = "no"
    BY <1>5, RetryTypes
  <2>. QED
    BY <2>1, <2>2, NothingMoves
<1>6. ASSUME ForceReconnect
      PROVE  OwnInv'
  <2>1. /\ UNCHANGED <<peer, obj, m_newClients, m_waitingClients, broken>>
        /\ TellClientsToGo \/ UNCHANGED <<m_clients, m_oldClients>>
    BY <1>6 DEF ForceReconnect
  <2>. QED
    BY <2>1, TellOwns, OwnsGood, NothingMoves
<1>7. ASSUME HandleServerGone \/ HandleWaitTimeout \/ Request
      PROVE  OwnInv'
  <2>1. UNCHANGED <<obj, peer, m_newClients, m_waitingClients, m_clients, m_oldClients, broken>>
    BY <1>7 DEF HandleServerGone, HandleWaitTimeout, Request, Ask, appFrame, unknownFrame
  <2>. QED
    BY SMTT(120), <2>1, NothingMoves
<1>. QED
  BY <1>1, <1>2, <1>3, <1>4, <1>5, <1>6, <1>7

-----------------------------------------------------------------------------
(* The theorems *)

LEMMA OwnStep ==
  ASSUME TypeInv, OwnInv, [Next]_vars
  PROVE  OwnInv'
<1>1. CASE UNCHANGED vars
  <2>1. UNCHANGED <<peer, obj, m_newClients, m_waitingClients, m_clients, m_oldClients, broken>>
    BY <1>1 DEF vars, connVars
  <2>2. (broken = "no" => Owns) => (broken = "no" => Owns)'
    BY <2>1, PeersMove
  <2>. QED
    BY <2>1, <2>2 DEF OwnInv, OnlyKnownFaults, SocketOutlivesStream
<1>2. CASE Next
  <2>1. broken = "no"
    BY <1>2 DEF Next, HandleEvent, HandleConnEvent, HandleAppEvent, HandshakeTimer,
                FlatlineTimer, CloseTimer, PeerStep, WaitTimer, RetryTimer, ServiceStep,
                ServiceError, Request, Alive
  <2>2. Owns
    BY <2>1 DEF OwnInv
  <2>3. CASE HandleConnEvent
    <3>1. DropEvent => OwnInv'
      BY <2>1, <2>2, NothingMoves DEF DropEvent, unknownFrame
    <3>. QED
      BY <2>1, <2>2, <2>3, <3>1, ConnectingOwns, AcceptedOwns, UnknownClientOwns,
         WaitingGoneOwns, UnknownOwns, ProxyOwns, ConnectedOwns, ServerOwns
         DEF HandleConnEvent
  <2>4. CASE HandleAppEvent
    BY <2>1, <2>2, <2>4, AppOwns DEF HandleAppEvent
  <2>5. ASSUME NEW c \in Conns,
               HandshakeTimer(c) \/ FlatlineTimer(c) \/ CloseTimer(c) \/ PeerStep(c)
        PROVE  OwnInv'
    BY <2>1, <2>2, <2>5, UnknownOwns, ProxyOwns, ServerOwns, ServiceOwns
       DEF HandshakeTimer, FlatlineTimer, CloseTimer, PeerStep
  <2>6. CASE WaitTimer \/ RetryTimer \/ Request
    BY <2>1, <2>2, <2>6, AppOwns DEF WaitTimer, RetryTimer
  <2>7. CASE ServiceStep \/ ServiceError
    BY <2>1, <2>2, <2>7, ServiceOwns DEF ServiceStep, ServiceError
  <2>. QED
    BY <1>2, <2>3, <2>4, <2>5, <2>6, <2>7 DEF Next, HandleEvent
<1>. QED
  BY <1>1, <1>2

LEMMA OwnInit == Init => OwnInv
<1>. SUFFICES ASSUME Init
              PROVE  OwnInv
  OBVIOUS
<1>1. /\ m_newClients = {} /\ m_waitingClients = <<>> /\ m_clients = {}
      /\ m_oldClients = {} /\ broken = "no"
      /\ \A c \in Conns : obj[c] = NewObject /\ peer[c].at = "idle"
  BY DEF Init
<1>2. Distinct /\ Waiting = {}
  BY SMTT(120), <1>1 DEF Distinct, Waiting
<1>3. Fits(NewObject, "idle", "none")
  BY DEF Fits, NewObject, Bare
<1>4. ASSUME NEW c \in Conns
      PROVE  Owned(c)
  <2>1. At(c, "none") /\ Fits(obj[c], peer[c].at, "none")
    BY <1>1, <1>2, <1>3 DEF At
  <2>. QED
    BY <2>1 DEF Owned, Places
<1>5. Owns
  BY <1>2, <1>4 DEF Owns
<1>. QED
  BY <1>1, <1>5, OwnsSockets DEF OwnInv, OnlyKnownFaults

LEMMA OwnsOne ==
  ASSUME OwnInv
  PROVE  Ownership
<1>1. ASSUME broken = "no", NEW c \in Conns
      PROVE  LET o == obj[c]
             IN  /\ o.proxy = "live" <=> \E h \in Holders : Holds(h, c)
                 /\ \A g, h \in Holders : Holds(g, c) /\ Holds(h, c) => g = h
                 /\ o.stream = "live" <=> o.proxy = "live" \/ (o.unknown = "live" /\ o.m_stream)
                 /\ o.unknown = "live" <=> c \in m_newClients
  <2>1. PICK w \in Places : At(c, w) /\ Fits(obj[c], peer[c].at, w)
    BY <1>1, PlaceOf DEF OwnInv
  <2> DEFINE o == obj[c]
  <2>2. /\ Holds("unknown", c) <=> w = "new" /\ o.m_proxy
        /\ Holds("waiting", c) <=> w = "waiting"
        /\ Holds("active", c) <=> w = "active"
        /\ Holds("old", c) <=> w = "old"
    BY <2>1 DEF Holds, At, Fits
  <2>3. o.proxy = "live" <=> w \in {"waiting", "active", "old"} \/ (w = "new" /\ o.m_proxy)
    BY <2>1 DEF Fits, Stage, Places
  <2>4. o.proxy = "live" <=> \E h \in Holders : Holds(h, c)
    BY <2>2, <2>3 DEF Holders
  <2>5. \A g, h \in Holders : Holds(g, c) /\ Holds(h, c) => g = h
    BY <2>2 DEF Holders
  <2>6. o.stream = "live" <=> o.proxy = "live" \/ (o.unknown = "live" /\ o.m_stream)
    BY <2>1 DEF Fits, Stage, Places
  <2>7. o.unknown = "live" <=> c \in m_newClients
    BY <2>1 DEF Fits, At
  <2>. QED
    BY <2>4, <2>5, <2>6, <2>7
<1>2. OneOwner
  BY <1>1 DEF OneOwner
<1>. QED
  BY <1>2 DEF Ownership, OwnInv

\* Every object of a connection has one owner, and a socket outlives the stream
\* on it, for any number of connections, requests and failures and in every
\* order of the events of ClientListener, ClientProxyUnknown, ClientProxy1_0,
\* Server and ServerApp.
THEOREM OwnedOnce == Spec => []Ownership
<1>1. Init => TypeInv /\ OwnInv
  BY TypeInit, OwnInit
<1>2. TypeInv /\ OwnInv /\ [Next]_vars => (TypeInv /\ OwnInv)'
  BY TypeStep, OwnStep
<1>3. OwnInv => Ownership
  BY OwnsOne
<1>. QED
  BY <1>1, <1>2, <1>3, PTL DEF Spec

\* No proxy is deleted twice by the server, and retryHandler's assertion on the
\* state holds: a deleted object is used only where the handlers of
\* ClientListener, ClientProxyUnknown and ServerApp are known to allow it.
THEOREM KnownFaultsOnly == Spec => []OnlyKnownFaults
<1>1. Init => TypeInv /\ OwnInv
  BY SMTT(120), TypeInit, OwnInit
<1>2. TypeInv /\ OwnInv /\ [Next]_vars => (TypeInv /\ OwnInv)'
  BY SMTT(120), TypeStep, OwnStep
<1>3. OwnInv => OnlyKnownFaults
  BY DEF OwnInv
<1>. QED
  BY <1>1, <1>2, <1>3, PTL DEF Spec
=============================================================================
