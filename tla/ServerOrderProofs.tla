------------------------- MODULE ServerOrderProofs --------------------------
(***************************************************************************)
(* The order of a connection's events: proofs about ServerApp and          *)
(* ClientListener, on top of ServerOwnershipProofs.                        *)
(*                                                                         *)
(* ClientProxyUnknown::sendFailure leaves the handlers for the events of   *)
(* its proxy behind.  That no such event is dispatched once the            *)
(* ClientProxyUnknown is deleted is a matter of order: the events of the   *)
(* proxy are in the queue ahead of the "success" or "failure" that deletes *)
(* it, and there is at most one of each (Orderly).  This is the third      *)
(* layer, EventsInv, on top of the types and of the places of the          *)
(* connections (OwnInv): which events can be in the queue depends on how   *)
(* far the connection has come, and that on who owns its objects.          *)
(***************************************************************************)
EXTENDS ServerOwnershipProofs

\* The prover of a leaf that names none.
USE ZenonT(60)

-----------------------------------------------------------------------------
(* The events of one connection, in their order *)

\* An event of the connection c is in the queue q; it is there once.
Due(q, name, c) == \E i \in DOMAIN q : q[i] = ConnEvent(name, c)
Once(q, name, c) ==
  \A i, j \in DOMAIN q : q[i] = ConnEvent(name, c) /\ q[j] = ConnEvent(name, c) => i = j

\* The events that delete a ClientProxyUnknown, and those of its proxy.
Last(c) == {ConnEvent("success", c), ConnEvent("failure", c)}
OfProxy(c) == {ConnEvent("ready", c), ConnEvent("proxyGone", c)}

\* The proxy's events are ahead of the last one.
Ahead(q, c) == \A i, j \in DOMAIN q : i < j /\ q[i] \in Last(c) => q[j] \notin OfProxy(c)

\* The events of a connection that are told apart.
Told == {"ready", "proxyGone", "success", "failure"}

\* Of these there are no more in r than in q, in the same order.
Fewer(q, r, c) ==
  /\ \A name \in Told : Due(r, name, c) => Due(q, name, c)
  /\ \A name \in Told : Once(q, name, c) => Once(r, name, c)
  /\ Ahead(q, c) => Ahead(r, c)

\* r is q without some of its events, or with others in their place.
LEMMA FewerMapped ==
  ASSUME NEW q, NEW r, NEW c, NEW f \in [DOMAIN r -> DOMAIN q], DOMAIN r \subseteq Int,
         DOMAIN q \subseteq Int,
         \A i, j \in DOMAIN r : i < j => f[i] < f[j],
         \A i \in DOMAIN r : r[i] = q[f[i]] \/ \A name \in Told : r[i] # ConnEvent(name, c)
  PROVE  Fewer(q, r, c)
<1>1. ASSUME NEW name \in Told, NEW i \in DOMAIN r, r[i] = ConnEvent(name, c)
      PROVE  f[i] \in DOMAIN q /\ q[f[i]] = r[i]
  BY <1>1
<1>2. ASSUME NEW name \in Told
      PROVE  /\ Due(r, name, c) => Due(q, name, c)
             /\ Once(q, name, c) => Once(r, name, c)
  <2>1. Due(r, name, c) => Due(q, name, c)
    BY <1>1 DEF Due
  <2>2. ASSUME Once(q, name, c), NEW i \in DOMAIN r, NEW j \in DOMAIN r,
               r[i] = ConnEvent(name, c), r[j] = ConnEvent(name, c)
        PROVE  i = j
    <3>1. f[i] = f[j] /\ f[i] \in Int /\ f[j] \in Int
      BY <1>1, <2>2 DEF Once
    <3>2. ~(f[i] < f[j]) /\ ~(f[j] < f[i])
      BY SMTT(120), <3>1
    <3>3. ~(i < j) /\ ~(j < i) /\ i \in Int /\ j \in Int
      BY <3>2
    <3>. QED
      BY SMTT(120), <3>3
  <2>. QED
    BY <2>1, <2>2 DEF Once
<1>3. ASSUME Ahead(q, c), NEW i \in DOMAIN r, NEW j \in DOMAIN r, i < j, r[i] \in Last(c)
      PROVE  r[j] \notin OfProxy(c)
  <2>1. q[f[i]] = r[i] /\ f[i] < f[j] /\ f[i] \in DOMAIN q /\ f[j] \in DOMAIN q
    BY <1>1, <1>3 DEF Last, Told
  <2>2. q[f[j]] \notin OfProxy(c)
    BY <1>3, <2>1 DEF Ahead
  <2>3. CASE r[j] = q[f[j]]
    BY <2>2, <2>3
  <2>4. CASE \A name \in Told : r[j] # ConnEvent(name, c)
    BY <2>4 DEF OfProxy, Told
  <2>. QED
    BY <2>3, <2>4
<1>. QED
  BY <1>2, <1>3 DEF Fewer, Ahead

LEMMA FewerThen ==
  ASSUME NEW q, NEW r, NEW s, NEW c, Fewer(q, r, c), Fewer(r, s, c)
  PROVE  Fewer(q, s, c)
  BY DEF Fewer

LEMMA FewerSame ==
  ASSUME NEW q, NEW c
  PROVE  Fewer(q, q, c) /\ Fewer(q, <<>>, c)
  BY SMTT(120) DEF Fewer, Due, Once, Ahead

\* The next event is taken.
LEMMA FewerTail ==
  ASSUME NEW q \in Seq(Events), q # <<>>, NEW c
  PROVE  /\ Fewer(q, Tail(q), c)
         /\ \A name : Head(q) = ConnEvent(name, c) =>
              Due(q, name, c) /\ (Once(q, name, c) => ~Due(Tail(q), name, c))
         /\ Head(q) \in Last(c) /\ Ahead(q, c) =>
              ~Due(Tail(q), "ready", c) /\ ~Due(Tail(q), "proxyGone", c)
<1> DEFINE r == Tail(q)
           f == [i \in DOMAIN r |-> i + 1]
<1>1. /\ Len(q) \in Nat \ {0} /\ DOMAIN q = 1..Len(q) /\ DOMAIN r = 1..(Len(q) - 1)
      /\ \A i \in DOMAIN r : r[i] = q[i + 1]
      /\ Head(q) = q[1]
  BY SMTT(120)
<1>. HIDE DEF r
<1>2. Fewer(q, r, c)
  <2>1. f \in [DOMAIN r -> DOMAIN q]
    BY SMTT(120), <1>1
  <2>2. \A i, j \in DOMAIN r : i < j => f[i] < f[j]
    BY SMTT(120), <1>1
  <2>3. \A i \in DOMAIN r : r[i] = q[f[i]]
    BY <1>1
  <2>4. DOMAIN r \subseteq Int /\ DOMAIN q \subseteq Int
    BY SMTT(120), <1>1
  <2>. HIDE DEF f
  <2>. QED
    BY <2>1, <2>2, <2>3, <2>4, FewerMapped
<1>3. ASSUME NEW name, Head(q) = ConnEvent(name, c)
      PROVE  Due(q, name, c) /\ (Once(q, name, c) => ~Due(r, name, c))
  <2>1. 1 \in DOMAIN q /\ \A i \in DOMAIN r : i + 1 \in DOMAIN q /\ i + 1 # 1
    BY SMTT(120), <1>1
  <2>. QED
    BY <1>1, <1>3, <2>1 DEF Due, Once
<1>4. ASSUME Head(q) \in Last(c), Ahead(q, c)
      PROVE  ~Due(r, "ready", c) /\ ~Due(r, "proxyGone", c)
  <2>1. 1 \in DOMAIN q /\ \A i \in DOMAIN r : i + 1 \in DOMAIN q /\ 1 < i + 1
    BY SMTT(120), <1>1
  <2>2. \A i \in DOMAIN r : r[i] \notin OfProxy(c)
    BY <1>1, <1>4, <2>1 DEF Ahead
  <2>. QED
    BY <2>2 DEF Due, OfProxy
<1>. QED
  BY <1>2, <1>3, <1>4 DEF r

\* An event is posted.
LEMMA PostDue ==
  ASSUME NEW q \in Seq(Events), NEW x \in Events, NEW c
  PROVE  LET r == q \o <<x>>
         IN  /\ \A name : Due(r, name, c) <=> Due(q, name, c) \/ x = ConnEvent(name, c)
             /\ \A name : Once(q, name, c) /\ (x # ConnEvent(name, c) \/ ~Due(q, name, c))
                  => Once(r, name, c)
             /\ Ahead(q, c) /\ x \notin OfProxy(c) => Ahead(r, c)
             /\ (\A name \in Told : x # ConnEvent(name, c)) => Fewer(q, r, c)
<1> DEFINE r == q \o <<x>>
           n == Len(q)
<1>1. /\ n \in Nat /\ DOMAIN q = 1..n /\ DOMAIN r = 1..(n + 1) /\ r[n + 1] = x
      /\ \A i \in 1..n : r[i] = q[i]
  BY SMTT(120)
<1>2. /\ \A i \in 1..n : i \in 1..(n + 1) /\ i # n + 1
      /\ \A i \in 1..(n + 1) : i \in 1..n \/ i = n + 1
      /\ n + 1 \in 1..(n + 1)
      /\ \A i, j \in 1..(n + 1) : i < j => i \in 1..n
  BY SMTT(120), <1>1
<1>. HIDE DEF r, n
<1>3. ASSUME NEW name
      PROVE  Due(r, name, c) <=> Due(q, name, c) \/ x = ConnEvent(name, c)
  BY <1>1, <1>2 DEF Due
<1>4. ASSUME NEW name, Once(q, name, c), x # ConnEvent(name, c) \/ ~Due(q, name, c)
      PROVE  Once(r, name, c)
  <2>. SUFFICES ASSUME NEW i \in 1..(n + 1), NEW j \in 1..(n + 1),
                       r[i] = ConnEvent(name, c), r[j] = ConnEvent(name, c)
                PROVE  i = j
    BY <1>1 DEF Once
  <2>1. i \in 1..n /\ j \in 1..n => i = j
    BY <1>1, <1>4 DEF Once
  <2>2. i \in 1..n => j # n + 1
    BY <1>1, <1>4 DEF Due
  <2>3. j \in 1..n => i # n + 1
    BY <1>1, <1>4 DEF Due
  <2>. QED
    BY <1>2, <2>1, <2>2, <2>3
<1>5. ASSUME Ahead(q, c), x \notin OfProxy(c)
      PROVE  Ahead(r, c)
  <2>. SUFFICES ASSUME NEW i \in 1..(n + 1), NEW j \in 1..(n + 1), i < j, r[i] \in Last(c)
                PROVE  r[j] \notin OfProxy(c)
    BY <1>1 DEF Ahead
  <2>1. CASE j \in 1..n
    BY <1>1, <1>2, <1>5, <2>1 DEF Ahead
  <2>2. CASE j = n + 1
    BY <1>1, <1>5, <2>2
  <2>. QED
    BY <1>2, <2>1, <2>2
<1>6. ASSUME \A name \in Told : x # ConnEvent(name, c)
      PROVE  Fewer(q, r, c)
  <2>1. x \notin OfProxy(c)
    BY <1>6 DEF OfProxy, Told
  <2>. QED
    BY <1>3, <1>4, <1>5, <1>6, <2>1 DEF Fewer
<1>. QED
  BY <1>3, <1>4, <1>5, <1>6 DEF r

\* Orphans are nobody's.
LEMMA FewerOrphaned ==
  ASSUME NEW q \in Seq(Events), NEW names, NEW c \in Conns
  PROVE  Fewer(q, Orphaned(q, names), c)
<1> DEFINE r == Orphaned(q, names)
           f == [i \in DOMAIN r |-> i]
<1>1. /\ DOMAIN r = DOMAIN q /\ DOMAIN q \subseteq Int
      /\ \A i \in DOMAIN r : r[i] = q[i] \/ r[i] = Plain("orphan")
  BY SMTT(120) DEF Orphaned
<1>2. \A name \in Told : Plain("orphan") # ConnEvent(name, c)
  BY DEF Plain, ConnEvent, Told
<1>. HIDE DEF r
<1>3. /\ f \in [DOMAIN r -> DOMAIN q]
      /\ \A i, j \in DOMAIN r : i < j => f[i] < f[j]
      /\ \A i \in DOMAIN r : f[i] = i
  BY <1>1
<1>. HIDE DEF f
<1>4. \A i \in DOMAIN r : r[i] = q[f[i]] \/ \A name \in Told : r[i] # ConnEvent(name, c)
  BY <1>1, <1>2, <1>3
<1>. QED
  BY <1>1, <1>3, <1>4, FewerMapped DEF r

-----------------------------------------------------------------------------
(* A connection and its events *)

\* Without a proxy there are none of its events, nor "success", and as long as
\* the ClientProxyUnknown listens to the stream no "failure" either.
Unmade(o, p, q, c) ==
  /\ p.said <= 1
  /\ ~o.onReady /\ o.onGone = "none" /\ ~o.heartbeat /\ o.streamHandler # "proxy"
  /\ ~Due(q, "ready", c) /\ ~Due(q, "success", c) /\ ~Due(q, "proxyGone", c)
  /\ o.streamHandler = "unknown" => ~Due(q, "failure", c)

\* A proxy in the handshake is ready once and goes once, and once it is ready
\* nothing but its going can make the ClientProxyUnknown fail.
Making(o, p, q, c) ==
  /\ ~Due(q, "failure", c)
  /\ Once(q, "ready", c) /\ Once(q, "proxyGone", c)
  /\ Due(q, "proxyGone", c) => o.streamHandler = "none" /\ ~o.heartbeat
  /\ Due(q, "success", c) => ~o.m_timer /\ ~Due(q, "ready", c)
  /\ Due(q, "ready", c) \/ Due(q, "success", c) => p.said = 2 /\ p.msg = "none"

\* The objects o of the connection c with the far end p fit its events in q.
Orderly(o, p, q, c) ==
  /\ p.msg # "none" => p.said >= 1
  /\ o.unknown = "none" => o.proxy = "none" /\ ~Due(q, "failure", c)
  /\ o.proxy = "none" => Unmade(o, p, q, c)
  /\ o.proxy # "none" => p.said >= 1 /\ o.streamHandler # "unknown"
  /\ o.proxy = "live" /\ p.msg # "none" => p.said = 2
  /\ o.proxy = "dead" => o.streamHandler = "none" /\ ~o.heartbeat
  /\ o.unknown = "live" /\ o.proxy = "live" => Making(o, p, q, c)
  /\ o.unknown = "live" /\ o.proxy = "dead" => Ahead(q, c)
  /\ o.unknown = "dead" /\ o.proxy = "live" => ~o.onReady /\ o.onGone # "unknown"
  /\ o.unknown = "dead" /\ o.socket = "live" =>
       /\ o.onReady => ~Due(q, "ready", c)
       /\ o.onGone = "unknown" => ~Due(q, "proxyGone", c)

\* There are fewer events, handlers and timers.
Wanes(o, u) ==
  /\ u.unknown = o.unknown /\ u.proxy = o.proxy
  /\ u.socket = "live" => o.socket = "live"
  /\ u.streamHandler \in {o.streamHandler, "none"}
  /\ u.heartbeat => o.heartbeat
  /\ u.m_timer => o.m_timer
  /\ u.onReady => o.onReady
  /\ u.onGone \in {o.onGone, "none"}

LEMMA OrderlyLess ==
  ASSUME NEW o, NEW u, NEW p, NEW x, NEW q, NEW r, NEW c, Orderly(o, p, q, c),
         Wanes(o, u), Fewer(q, r, c), x.said = p.said, x.msg \in {p.msg, "none"}
  PROVE  Orderly(u, x, r, c)
<1>1. \A name \in Told : Due(r, name, c) => Due(q, name, c)
  BY DEF Fewer
<1>2. \A name \in Told : Once(q, name, c) => Once(r, name, c)
  BY DEF Fewer
<1>3. Ahead(q, c) => Ahead(r, c)
  BY DEF Fewer
<1>4. /\ Due(r, "ready", c) => Due(q, "ready", c)
      /\ Due(r, "success", c) => Due(q, "success", c)
      /\ Due(r, "proxyGone", c) => Due(q, "proxyGone", c)
      /\ Due(r, "failure", c) => Due(q, "failure", c)
      /\ Once(q, "ready", c) => Once(r, "ready", c)
      /\ Once(q, "proxyGone", c) => Once(r, "proxyGone", c)
  BY <1>1, <1>2 DEF Told
<1>5. Unmade(o, p, q, c) => Unmade(u, x, r, c)
  BY <1>4 DEF Unmade, Wanes
<1>6. Making(o, p, q, c) => Making(u, x, r, c)
  BY <1>4 DEF Making, Wanes
<1>. QED
  BY SMTT(120), <1>3, <1>4, <1>5, <1>6 DEF Orderly, Wanes

LEMMA FailureOrderly ==
  ASSUME NEW o \in Object, NEW p, NEW x, NEW q \in Seq(Events), NEW c \in Conns,
         Orderly(o, p, q, c), o.unknown = "live", o.m_proxy <=> o.proxy = "live",
         o.streamHandler = "unknown" => o.m_stream,
         o.m_timer \/ o.proxy # "live" \/ ~Due(q, "proxyGone", c),
         x.said = p.said, x.msg \in {p.msg, "none"}
  PROVE  Orderly(SendFailure(o), x, q \o <<ConnEvent("failure", c)>>, c)
<1> DEFINE u == SendFailure(o)
           e == ConnEvent("failure", c)
           r == q \o <<e>>
<1>1. /\ u.socket = o.socket /\ u.unknown = o.unknown
      /\ u.streamHandler = IF o.m_stream \/ o.m_proxy THEN "none" ELSE o.streamHandler
      /\ u.proxy = IF o.m_proxy THEN "dead" ELSE o.proxy
      /\ ~u.m_timer /\ u.onGone = o.onGone
      /\ u.onReady => o.onReady
      /\ u.heartbeat => o.heartbeat /\ ~o.m_proxy
  BY SendFailureFields
<1>2. /\ e \in Events /\ e \notin OfProxy(c)
      /\ \A name \in {"ready", "success", "proxyGone"} : e # ConnEvent(name, c)
  BY EventTypes DEF ConnEvent, ConnEvents, OfProxy
<1>3. /\ \A name : Due(r, name, c) <=> Due(q, name, c) \/ e = ConnEvent(name, c)
      /\ Ahead(q, c) => Ahead(r, c)
  BY <1>2, PostDue
<1>4. /\ Due(r, "ready", c) => Due(q, "ready", c)
      /\ Due(r, "success", c) => Due(q, "success", c)
      /\ Due(r, "proxyGone", c) => Due(q, "proxyGone", c)
  BY <1>2, <1>3
<1>. HIDE DEF u, r, e
<1>5. ASSUME o.proxy = "live" PROVE Orderly(u, x, r, c)
  <2>1. Making(o, p, q, c)
    BY <1>5 DEF Orderly
  <2>2. Ahead(q, c)
    <3>1. CASE ~Due(q, "success", c)
      BY <2>1, <3>1 DEF Making, Ahead, Due, Last
    <3>2. CASE Due(q, "success", c)
      <4>1. ~Due(q, "ready", c) /\ ~Due(q, "proxyGone", c)
        BY <1>5, <2>1, <3>2 DEF Making
      <4>. QED
        BY <4>1 DEF Ahead, Due, OfProxy
    <3>. QED
      BY <3>1, <3>2
  <2>3. u.unknown = "live" /\ u.proxy = "dead" /\ u.streamHandler = "none" /\ ~u.heartbeat
    BY <1>1, <1>5
  <2>4. x.said >= 1 /\ Ahead(r, c)
    BY <1>3, <1>5, <2>2 DEF Orderly
  <2>. QED
    BY <2>3, <2>4 DEF Orderly
<1>6. ASSUME o.proxy = "dead" PROVE Orderly(u, x, r, c)
  <2>1. u.unknown = "live" /\ u.proxy = "dead" /\ u.streamHandler = "none" /\ ~u.heartbeat
    BY <1>1, <1>6 DEF Orderly
  <2>2. x.said >= 1 /\ Ahead(r, c)
    BY <1>3, <1>6 DEF Orderly
  <2>. QED
    BY <2>1, <2>2 DEF Orderly
<1>7. ASSUME o.proxy = "none" PROVE Orderly(u, x, r, c)
  <2>1. u.proxy = "none" /\ u.streamHandler # "unknown"
    BY <1>1, <1>7
  <2>2. Unmade(u, x, r, c)
    BY <1>1, <1>4, <1>7, <2>1 DEF Orderly, Unmade
  <2>3. u.unknown = "live" /\ (x.msg # "none" => x.said >= 1)
    BY <1>1 DEF Orderly
  <2>. QED
    BY <2>1, <2>2, <2>3 DEF Orderly
<1>. QED
  BY <1>5, <1>6, <1>7 DEF u, r, e, Object, Life

LEMMA ReadyOrderly ==
  ASSUME NEW o \in Object, NEW p, NEW q \in Seq(Events), NEW c \in Conns,
         Orderly(o, p, q, c), o.unknown = "live", o.proxy # "none",
         o.proxy = "live" => p.said = 2 /\ p.msg = "none" /\ ~Due(q, "ready", c)
  PROVE  Orderly([o EXCEPT !.m_ready = TRUE, !.m_timer = FALSE], p,
                 q \o <<ConnEvent("success", c)>>, c)
<1> DEFINE u == [o EXCEPT !.m_ready = TRUE, !.m_timer = FALSE]
           e == ConnEvent("success", c)
           r == q \o <<e>>
<1>1. /\ u.socket = o.socket /\ u.unknown = o.unknown
      /\ u.streamHandler = o.streamHandler
      /\ u.proxy = o.proxy
      /\ ~u.m_timer /\ u.onGone = o.onGone
      /\ u.onReady = o.onReady
      /\ u.heartbeat = o.heartbeat
  BY DEF Object
<1>2. /\ e \in Events /\ e \notin OfProxy(c)
      /\ \A name \in {"ready", "failure", "proxyGone"} : e # ConnEvent(name, c)
  BY EventTypes DEF ConnEvent, ConnEvents, OfProxy
<1>3. /\ \A name : Due(r, name, c) <=> Due(q, name, c) \/ e = ConnEvent(name, c)
      /\ \A name : Once(q, name, c) /\ (e # ConnEvent(name, c) \/ ~Due(q, name, c))
                     => Once(r, name, c)
      /\ Ahead(q, c) => Ahead(r, c)
  BY <1>2, PostDue
<1>4. /\ Due(r, "ready", c) => Due(q, "ready", c)
      /\ Due(r, "failure", c) => Due(q, "failure", c)
      /\ Due(r, "proxyGone", c) => Due(q, "proxyGone", c)
      /\ Once(q, "ready", c) => Once(r, "ready", c)
      /\ Once(q, "proxyGone", c) => Once(r, "proxyGone", c)
  BY <1>2, <1>3
<1>. HIDE DEF u, r, e
<1>5. Making(o, p, q, c) /\ o.proxy = "live" => Making(u, p, r, c)
  BY <1>1, <1>4 DEF Making
<1>6. Orderly(u, p, r, c)
  BY <1>1, <1>3, <1>5 DEF Orderly
<1>. QED
  BY <1>6 DEF u, r, e

\* The Hello is answered: there is a proxy.
LEMMA HelloOrderly ==
  ASSUME NEW o \in Object, NEW p \in Peer, NEW x, NEW q \in Seq(Events), NEW c \in Conns,
         Orderly(o, p, q, c), o.streamHandler = "unknown", o.unknown = "live",
         p.msg # "none", x.said = p.said, x.msg = "none"
  PROVE  Orderly(NewProxy(UnknownRemovesHandlers(o)), x, q, c)
<1> DEFINE v == UnknownRemovesHandlers(o)
           u == NewProxy(v)
<1>1. /\ v \in Object /\ v.unknown = o.unknown /\ v.heartbeat = o.heartbeat
  BY UnknownRemovesHandlersFields
<1>. HIDE DEF v
<1>2. u.unknown = "live" /\ u.proxy = "live" /\ u.streamHandler = "proxy"
  BY <1>1, NewProxyFields
<1>. HIDE DEF u
<1>3. o.proxy = "none" /\ Unmade(o, p, q, c) /\ x.said >= 1
  BY DEF Orderly
<1>4. Making(u, x, q, c)
  BY <1>3 DEF Unmade, Making, Once, Due
<1>5. Orderly(u, x, q, c)
  BY <1>2, <1>3, <1>4 DEF Orderly
<1>. QED
  BY <1>5 DEF u, v

\* The information comes: the proxy is ready, and it was not before.
LEMMA InfoOrderly ==
  ASSUME NEW o \in Object, NEW p \in Peer, NEW x, NEW q \in Seq(Events), NEW c \in Conns,
         Orderly(o, p, q, c), o.streamHandler = "proxy", p.msg # "none",
         x.said = p.said, x.msg = "none"
  PROVE  Orderly([o EXCEPT !.heartbeat = TRUE], x, q \o <<ConnEvent("ready", c)>>, c)
<1> DEFINE u == [o EXCEPT !.heartbeat = TRUE]
           e == ConnEvent("ready", c)
           r == q \o <<e>>
<1>1. /\ u.socket = o.socket /\ u.unknown = o.unknown
      /\ u.streamHandler = o.streamHandler /\ u.proxy = o.proxy
      /\ u.m_timer = o.m_timer /\ u.onGone = o.onGone /\ u.onReady = o.onReady
  BY DEF Object
<1>2. /\ e \in Events
      /\ \A name \in {"success", "failure", "proxyGone"} : e # ConnEvent(name, c)
  BY EventTypes DEF ConnEvent, ConnEvents
<1>3. /\ \A name : Due(r, name, c) <=> Due(q, name, c) \/ e = ConnEvent(name, c)
      /\ \A name : Once(q, name, c) /\ (e # ConnEvent(name, c) \/ ~Due(q, name, c))
                     => Once(r, name, c)
  BY <1>2, PostDue
<1>4. /\ Due(r, "success", c) => Due(q, "success", c)
      /\ Due(r, "failure", c) => Due(q, "failure", c)
      /\ Due(r, "proxyGone", c) => Due(q, "proxyGone", c)
      /\ Once(q, "ready", c) /\ ~Due(q, "ready", c) => Once(r, "ready", c)
      /\ Once(q, "proxyGone", c) => Once(r, "proxyGone", c)
  BY <1>2, <1>3
<1>. HIDE DEF u, r, e
<1>5. o.proxy = "live" /\ x.said = 2
  BY DEF Orderly, Unmade, Object, Life
<1>6. Making(o, p, q, c) => Making(u, x, r, c)
  BY <1>1, <1>4, <1>5 DEF Making
<1>7. o.unknown # "none"
  BY <1>5 DEF Orderly
<1>8. Orderly(u, x, r, c)
  BY <1>1, <1>5, <1>6, <1>7 DEF Orderly
<1>. QED
  BY <1>8 DEF u, r, e

\* The proxy goes, and it has not gone before.
LEMMA GoneOrderly ==
  ASSUME NEW o \in Object, NEW p, NEW x, NEW q \in Seq(Events), NEW c \in Conns,
         Orderly(o, p, q, c), o.streamHandler = "proxy" \/ o.heartbeat,
         x.said = p.said, x.msg \in {p.msg, "none"}
  PROVE  Orderly(Disconnect(o), x, q \o <<ConnEvent("proxyGone", c)>>, c)
<1> DEFINE u == Disconnect(o)
           e == ConnEvent("proxyGone", c)
           r == q \o <<e>>
<1>1. /\ u.socket = o.socket /\ u.unknown = o.unknown
      /\ u.streamHandler = "none" /\ ~u.heartbeat /\ u.proxy = o.proxy
      /\ u.m_timer = o.m_timer /\ u.onGone = o.onGone /\ u.onReady = o.onReady
  BY DisconnectFields
<1>2. /\ e \in Events
      /\ \A name \in {"success", "failure", "ready"} : e # ConnEvent(name, c)
  BY EventTypes DEF ConnEvent, ConnEvents
<1>3. /\ \A name : Due(r, name, c) <=> Due(q, name, c) \/ e = ConnEvent(name, c)
      /\ \A name : Once(q, name, c) /\ (e # ConnEvent(name, c) \/ ~Due(q, name, c))
                     => Once(r, name, c)
  BY <1>2, PostDue
<1>4. /\ Due(r, "success", c) => Due(q, "success", c)
      /\ Due(r, "failure", c) => Due(q, "failure", c)
      /\ Due(r, "ready", c) => Due(q, "ready", c)
      /\ Once(q, "proxyGone", c) /\ ~Due(q, "proxyGone", c) => Once(r, "proxyGone", c)
      /\ Once(q, "ready", c) => Once(r, "ready", c)
  BY <1>2, <1>3
<1>. HIDE DEF u, r, e
<1>5. o.proxy = "live"
  BY DEF Orderly, Unmade, Object, Life
<1>6. Making(o, p, q, c) => Making(u, x, r, c)
  BY <1>1, <1>4 DEF Making
<1>7. o.unknown # "none"
  BY <1>5 DEF Orderly
<1>8. Orderly(u, x, r, c)
  BY <1>1, <1>4, <1>5, <1>6, <1>7 DEF Orderly
<1>. QED
  BY <1>8 DEF u, r, e

\* The far end answers.
LEMMA SaysOrderly ==
  ASSUME NEW o, NEW p \in Peer, NEW x, NEW q, NEW c, Orderly(o, p, q, c), p.msg = "none",
         \/ p.said = 0 /\ o.unknown # "none"
         \/ p.said = 1 /\ o.proxy # "none",
         x.said = p.said + 1
  PROVE  Orderly(o, x, q, c)
<1>1. p.said \in 0..2
  BY DEF Peer
<1>2. Unmade(o, p, q, c) /\ p.said = 0 => Unmade(o, x, q, c)
  BY SMTT(120) DEF Unmade
<1>3. Making(o, p, q, c) /\ p.said # 2 => Making(o, x, q, c)
  BY DEF Making
<1>. QED
  BY SMTT(120), <1>1, <1>2, <1>3 DEF Orderly

\* A socket is made, or deleted again, and a ClientProxyUnknown on it.
LEMMA BareOrderly ==
  ASSUME NEW o \in Object, NEW p, NEW x, NEW q, NEW c, Orderly(o, p, q, c),
         o.unknown = "none", x.said = p.said, x.msg = p.msg
  PROVE  /\ Orderly([o EXCEPT !.socket = "live", !.onAccepted = TRUE], x, q, c)
         /\ Orderly([o EXCEPT !.socket = "dead"], x, q, c)
         /\ Orderly(NewUnknown(o), x, q, c)
<1> DEFINE v == NewUnknown(o)
<1>0. o.proxy = "none" /\ ~Due(q, "failure", c) /\ Unmade(o, p, q, c)
      /\ (x.msg # "none" => x.said >= 1)
  BY DEF Orderly
<1>1. ASSUME NEW u \in {[o EXCEPT !.socket = "live", !.onAccepted = TRUE],
                        [o EXCEPT !.socket = "dead"]}
      PROVE  Orderly(u, x, q, c)
  <2>1. /\ u.unknown = "none" /\ u.proxy = "none" /\ u.streamHandler = o.streamHandler
        /\ u.heartbeat = o.heartbeat /\ u.onReady = o.onReady /\ u.onGone = o.onGone
    BY <1>0 DEF Object
  <2>2. Unmade(u, x, q, c)
    BY <1>0, <2>1 DEF Unmade
  <2>. QED
    BY <1>0, <2>1, <2>2 DEF Orderly
<1>2. Orderly(v, x, q, c)
  <2>1. /\ v.unknown = "live" /\ v.proxy = "none" /\ v.streamHandler = "unknown"
        /\ v.heartbeat = o.heartbeat /\ v.onReady = o.onReady /\ v.onGone = o.onGone
    BY <1>0, NewUnknownFields
  <2>. HIDE DEF v
  <2>2. Unmade(v, x, q, c)
    BY <1>0, <2>1 DEF Unmade
  <2>. QED
    BY <1>0, <2>1, <2>2 DEF Orderly
<1>. QED
  BY <1>1, <1>2

\* A waiting client becomes the server's, and in the end it is deleted.
LEMMA ClientOrderly ==
  ASSUME NEW o \in Object, NEW p, NEW q, NEW c, Orderly(o, p, q, c),
         o.unknown # "live", o.proxy = "live"
  PROVE  /\ Orderly([o EXCEPT !.onGone = "server"], p, q, c)
         /\ Orderly(DeleteProxy([o EXCEPT !.onGone = "none"]), p, q, c)
<1> DEFINE u == [o EXCEPT !.onGone = "server"]
           v == [o EXCEPT !.onGone = "none"]
           w == DeleteProxy(v)
<1>1. /\ u.unknown = o.unknown /\ u.proxy = "live" /\ u.streamHandler = o.streamHandler
      /\ u.onReady = o.onReady /\ u.onGone = "server"
  BY DEF Object
<1>2. /\ v \in Object /\ v.unknown = o.unknown /\ v.onReady = o.onReady /\ v.onGone = "none"
  BY DEF Object
<1>. HIDE DEF u, v
<1>3. /\ w.unknown = o.unknown /\ w.proxy = "dead" /\ w.streamHandler = "none"
      /\ ~w.heartbeat /\ w.onReady = o.onReady /\ w.onGone = "none"
  BY <1>2, DeleteProxyFields
<1>. HIDE DEF w
<1>4. o.unknown = "dead" /\ ~o.onReady /\ p.said >= 1
  BY DEF Orderly, Object, Life
<1>5. Orderly(u, p, q, c)
  BY <1>1, <1>4 DEF Orderly
<1>6. Orderly(w, p, q, c)
  BY <1>3, <1>4 DEF Orderly
<1>. QED
  BY <1>5, <1>6 DEF u, v, w

\* A ClientProxyUnknown is deleted by its last event.
LEMMA DeletedOrderly ==
  ASSUME NEW o \in Object, NEW p, NEW q \in Seq(Events), NEW r, NEW c \in Conns,
         Orderly(o, p, q, c), o.unknown = "live", Fewer(q, r, c),
         o.m_proxy <=> o.proxy = "live",
         o.streamHandler = "unknown" => o.m_stream,
         o.proxy = "dead" => ~Due(r, "ready", c) /\ ~Due(r, "proxyGone", c)
  PROVE  LET left == IF o.m_ready
                     THEN [UnknownRemovesHandlers(o) EXCEPT !.m_proxy = FALSE] ELSE o
         IN
         /\ o.m_ready /\ o.m_proxy =>
              Orderly(DeleteUnknown([left EXCEPT !.onGone = "listener"]), p, r, c)
         /\ ~(o.m_ready /\ o.m_proxy) =>
              Orderly(DeleteUnknown([left EXCEPT !.closed = @ \/ o.m_stream]), p, r, c)
<1> DEFINE g == UnknownRemovesHandlers(o)
           left == IF o.m_ready THEN [g EXCEPT !.m_proxy = FALSE] ELSE o
           a == [left EXCEPT !.onGone = "listener"]
           b == [left EXCEPT !.closed = @ \/ o.m_stream]
           u == DeleteUnknown(a)
           v == DeleteUnknown(b)
<1>1. /\ g \in Object /\ g.proxy = o.proxy /\ g.m_stream = o.m_stream
      /\ g.onGone = IF o.m_proxy THEN "none" ELSE o.onGone
      /\ g.streamHandler = IF o.m_stream THEN "none" ELSE o.streamHandler
      /\ g.heartbeat = o.heartbeat /\ (g.onReady => o.onReady /\ ~o.m_proxy)
  BY UnknownRemovesHandlersFields
<1>. HIDE DEF g
<1>2. /\ left \in Object /\ left.proxy = o.proxy /\ left.m_stream = o.m_stream
      /\ left.heartbeat = o.heartbeat /\ (left.onReady => o.onReady)
      /\ left.streamHandler \in {o.streamHandler, "none"}
      /\ left.onGone \in {o.onGone, "none"}
      /\ o.m_ready => ~left.m_proxy /\ (left.onReady => ~o.m_proxy)
      /\ ~o.m_ready => left.m_proxy = o.m_proxy
  <2>1. CASE o.m_ready
    <3> DEFINE d == [g EXCEPT !.m_proxy = FALSE]
    <3>1. /\ d \in Object /\ d.proxy = g.proxy /\ d.m_stream = g.m_stream
          /\ d.heartbeat = g.heartbeat /\ d.onReady = g.onReady
          /\ d.streamHandler = g.streamHandler /\ d.onGone = g.onGone /\ ~d.m_proxy
      BY <1>1 DEF Object
    <3>2. left = d
      BY <2>1
    <3>. HIDE DEF left, d
    <3>. QED
      BY <1>1, <2>1, <3>1, <3>2
  <2>2. CASE ~o.m_ready
    BY <2>2
  <2>. QED
    BY <2>1, <2>2
<1>. HIDE DEF left
<1>3. /\ a \in Object /\ a.proxy = left.proxy /\ a.m_stream = left.m_stream
      /\ a.m_proxy = left.m_proxy /\ a.heartbeat = left.heartbeat
      /\ a.onReady = left.onReady /\ a.streamHandler = left.streamHandler
      /\ a.onGone = "listener"
  BY <1>2 DEF Object
<1>4. /\ b \in Object /\ b.proxy = left.proxy /\ b.m_stream = left.m_stream
      /\ b.m_proxy = left.m_proxy /\ b.heartbeat = left.heartbeat
      /\ b.onReady = left.onReady /\ b.streamHandler = left.streamHandler
      /\ b.onGone = left.onGone
  <2>1. (left.closed \/ o.m_stream) \in BOOLEAN
    OBVIOUS
  <2>. QED
    BY SMTT(120), <1>2, <2>1 DEF Object
<1>. HIDE DEF a, b
<1>5. /\ u.unknown = "dead"
      /\ u.proxy = IF a.m_proxy THEN "dead" ELSE a.proxy
      /\ u.streamHandler = IF a.m_stream \/ a.m_proxy THEN "none" ELSE a.streamHandler
      /\ u.onGone = IF a.m_proxy THEN "none" ELSE a.onGone
      /\ u.onReady => a.onReady
  BY <1>3, DeleteUnknownFields
<1>6. /\ v.unknown = "dead"
      /\ v.proxy = IF b.m_proxy THEN "dead" ELSE b.proxy
      /\ v.streamHandler = IF b.m_stream \/ b.m_proxy THEN "none" ELSE b.streamHandler
      /\ v.onGone = IF b.m_proxy THEN "none" ELSE b.onGone
      /\ v.onReady => b.onReady /\ ~b.m_proxy
      /\ v.heartbeat => b.heartbeat /\ ~b.m_proxy
  BY <1>4, DeleteUnknownFields
<1>. HIDE DEF u, v
<1>7. ASSUME o.m_ready, o.m_proxy PROVE Orderly(u, p, r, c)
  <2>1. /\ u.unknown = "dead" /\ u.proxy = "live" /\ u.streamHandler # "unknown"
        /\ u.onGone = "listener" /\ ~u.onReady
    BY SMTT(120), <1>2, <1>3, <1>5, <1>7 DEF Orderly
  <2>2. p.said >= 1 /\ (p.msg # "none" => p.said = 2)
    BY <1>7 DEF Orderly
  <2>. QED
    BY <2>1, <2>2 DEF Orderly
<1>8. ASSUME o.m_proxy, ~o.m_ready PROVE Orderly(v, p, r, c)
  <2>1. /\ v.unknown = "dead" /\ v.proxy = "dead" /\ v.streamHandler = "none"
        /\ v.onGone = "none" /\ ~v.onReady /\ ~v.heartbeat
    BY <1>2, <1>4, <1>6, <1>8
  <2>2. p.said >= 1
    BY <1>8 DEF Orderly
  <2>. QED
    BY <2>1, <2>2 DEF Orderly
<1>9. ASSUME ~o.m_proxy PROVE Orderly(v, p, r, c)
  <2>0. ~b.m_proxy /\ ~left.m_proxy
    BY <1>2, <1>4, <1>9
  <2>1. /\ v.unknown = "dead" /\ v.proxy = o.proxy /\ v.streamHandler \in {o.streamHandler, "none"}
        /\ v.streamHandler # "unknown"
        /\ v.onGone \in {o.onGone, "none"} /\ (v.onReady => o.onReady)
        /\ v.heartbeat => o.heartbeat
    BY <1>2, <1>4, <1>6, <2>0
  <2>2. CASE o.proxy = "dead"
    <3>1. p.said >= 1 /\ o.streamHandler = "none" /\ ~o.heartbeat
      BY <2>2 DEF Orderly
    <3>. QED
      BY <2>1, <2>2, <3>1 DEF Orderly
  <2>3. CASE o.proxy = "none"
    <3>1. Unmade(o, p, q, c)
      BY <2>3 DEF Orderly
    <3>2. \A name \in Told : Due(r, name, c) => Due(q, name, c)
      BY DEF Fewer
    <3>3. ~Due(r, "ready", c) /\ ~Due(r, "success", c) /\ ~Due(r, "proxyGone", c)
      BY <3>1, <3>2 DEF Unmade, Told
    <3>4. Unmade(v, p, r, c)
      BY <2>1, <3>1, <3>3 DEF Unmade
    <3>5. p.msg # "none" => p.said >= 1
      BY DEF Orderly
    <3>. QED
      BY <2>1, <2>3, <3>3, <3>4, <3>5 DEF Orderly
  <2>4. o.proxy # "live"
    BY <1>9
  <2>. QED
    BY <2>2, <2>3, <2>4 DEF Object, Life
<1>. QED
  BY <1>7, <1>8, <1>9 DEF u, v, a, b, left, g

\* ~Server and ~ClientListener leave nothing that could be told.
LEMMA ClosedOrderly ==
  ASSUME NEW o, NEW u, NEW p, NEW x, NEW q, NEW r, NEW c, Orderly(o, p, q, c),
         Fewer(q, r, c), u.socket # "live", u.unknown # "live", u.proxy # "live",
         u.unknown = "none" => o.unknown = "none",
         u.proxy = "none" => /\ o.proxy = "none"
                             /\ u.streamHandler \in {o.streamHandler, "none"}
                             /\ u.heartbeat => o.heartbeat
                             /\ u.onReady => o.onReady
                             /\ u.onGone \in {o.onGone, "none"},
         u.proxy # "none" => /\ o.proxy # "none"
                             /\ u.unknown # "none"
                             /\ u.streamHandler = "none" /\ ~u.heartbeat,
         x.said = p.said, x.msg = p.msg
  PROVE  Orderly(u, x, r, c)
<1>1. \A name \in Told : Due(r, name, c) => Due(q, name, c)
  BY DEF Fewer
<1>2. /\ Due(r, "ready", c) => Due(q, "ready", c)
      /\ Due(r, "success", c) => Due(q, "success", c)
      /\ Due(r, "proxyGone", c) => Due(q, "proxyGone", c)
      /\ Due(r, "failure", c) => Due(q, "failure", c)
  BY <1>1 DEF Told
<1>3. u.proxy = "none" => Unmade(u, x, r, c)
  BY <1>2 DEF Orderly, Unmade
<1>. QED
  BY <1>2, <1>3 DEF Orderly

-----------------------------------------------------------------------------
(* The events of all connections *)

\* The third layer.
EventsInv == \A c \in Conns : Orderly(obj[c], peer[c], queue, c)

\* What a step leaves of a connection that it is not about.
Passed(d) ==
  /\ obj'[d] = obj[d] /\ peer'[d].said = peer[d].said /\ peer'[d].msg = peer[d].msg
  /\ Fewer(queue, queue', d)

LEMMA PassedOrderly ==
  ASSUME EventsInv, NEW d \in Conns, Passed(d)
  PROVE  Orderly(obj'[d], peer'[d], queue', d)
<1>1. Orderly(obj[d], peer[d], queue, d)
  BY DEF EventsInv
<1>2. Wanes(obj[d], obj'[d])
  BY DEF Wanes, Passed
<1>. QED
  BY <1>1, <1>2, OrderlyLess DEF Passed

LEMMA OneOrderly ==
  ASSUME EventsInv, NEW c \in Conns, Orderly(obj'[c], peer'[c], queue', c),
         \A d \in Conns : d # c => Passed(d)
  PROVE  EventsInv'
<1>1. \A d \in Conns : Orderly(obj'[d], peer'[d], queue', d)
  BY PassedOrderly
<1>. QED
  BY <1>1 DEF EventsInv

LEMMA AllPassed ==
  ASSUME EventsInv, \A d \in Conns : Passed(d)
  PROVE  EventsInv'
<1>1. \A d \in Conns : Orderly(obj'[d], peer'[d], queue', d)
  BY PassedOrderly
<1>. QED
  BY <1>1 DEF EventsInv

\* Events that are none of those told apart of the connection d.
Foreign(evs, d) ==
  \/ evs = <<>>
  \/ \E x \in Events : evs = <<x>> /\ \A name \in Told : x # ConnEvent(name, d)

LEMMA ForeignEvents ==
  /\ \A d \in Conns : Foreign(<<>>, d)
  /\ \A name \in ConnEvents, c, d \in Conns :
       c # d \/ name \notin Told => Foreign(<<ConnEvent(name, c)>>, d)
  /\ \A name \in Requests \cup {"connecting", "connected", "serverGone", "orphan"}, d \in Conns :
       Foreign(<<Plain(name)>>, d)
  /\ \A x, y : \A d \in Conns : Foreign(NoClientsLeft(x, y), d)
<1>1. ASSUME NEW d \in Conns PROVE Foreign(<<>>, d)
  BY DEF Foreign
<1>2. ASSUME NEW name \in ConnEvents, NEW c \in Conns, NEW d \in Conns,
             c # d \/ name \notin Told
      PROVE  Foreign(<<ConnEvent(name, c)>>, d)
  <2>1. ConnEvent(name, c) \in Events
    BY EventTypes
  <2>2. \A other \in Told : ConnEvent(name, c) # ConnEvent(other, d)
    BY <1>2 DEF ConnEvent
  <2>. QED
    BY <2>1, <2>2 DEF Foreign
<1>3. ASSUME NEW name \in Requests \cup {"connecting", "connected", "serverGone", "orphan"},
             NEW d \in Conns
      PROVE  Foreign(<<Plain(name)>>, d)
  <2>1. Plain(name) \in Events
    BY EventTypes
  <2>2. \A other \in Told : Plain(name) # ConnEvent(other, d)
    BY DEF ConnEvent, Plain, Told, Requests
  <2>. QED
    BY <2>1, <2>2 DEF Foreign
<1>4. ASSUME NEW x, NEW y, NEW d \in Conns PROVE Foreign(NoClientsLeft(x, y), d)
  BY <1>1, <1>3 DEF NoClientsLeft
<1>. QED
  BY <1>1, <1>2, <1>3, <1>4

LEMMA FewerForeign ==
  ASSUME NEW q \in Seq(Events), NEW evs, NEW d \in Conns, Foreign(evs, d)
  PROVE  Fewer(q, q \o evs, d)
<1>1. CASE evs = <<>>
  <2>1. q \o evs = q
    BY SMTT(120), <1>1
  <2>. QED
    BY <2>1, FewerSame
<1>2. CASE \E x \in Events : evs = <<x>> /\ \A name \in Told : x # ConnEvent(name, d)
  BY <1>2, PostDue
<1>. QED
  BY <1>1, <1>2 DEF Foreign

LEMMA QueueFewer ==
  ASSUME queue \in Seq(Events), NEW evs, NEW d \in Conns, Foreign(evs, d)
  PROVE  /\ Post(evs) => Fewer(queue, queue', d)
         /\ queue # <<>> /\ Then(evs) => Fewer(queue, queue', d)
<1>1. Post(evs) => Fewer(queue, queue', d)
  BY FewerForeign DEF Post
<1>2. ASSUME queue # <<>>, Then(evs) PROVE Fewer(queue, queue', d)
  <2>1. Tail(queue) \in Seq(Events) /\ Fewer(queue, Tail(queue), d)
    BY SMTT(120), <1>2, FewerTail
  <2>2. Fewer(Tail(queue), queue', d)
    BY <1>2, <2>1, FewerForeign DEF Then
  <2>. QED
    BY <2>1, <2>2, FewerThen
<1>. QED
  BY <1>1, <1>2

\* The next event of c is taken: what is then left of the queue.
LEMMA TakenOrderly ==
  ASSUME EventsInv, queue \in Seq(Events), queue # <<>>, NEW c \in Conns
  PROVE  /\ Tail(queue) \in Seq(Events) /\ Fewer(queue, Tail(queue), c)
         /\ Orderly(obj[c], peer[c], Tail(queue), c)
<1>1. Tail(queue) \in Seq(Events) /\ Fewer(queue, Tail(queue), c)
  BY SMTT(120), FewerTail
<1>2. Orderly(obj[c], peer[c], queue, c) /\ Wanes(obj[c], obj[c])
  BY DEF EventsInv, Wanes
<1>. QED
  BY <1>1, <1>2, OrderlyLess

\* The event that is taken.
LEMMA TakenEvent ==
  ASSUME queue \in Seq(Events), NEW name \in ConnEvents, Takes(name)
  PROVE  Head(queue) = ConnEvent(name, This)
<1>1. Head(queue) \in Events /\ Head(queue).name = name
  BY HeadOfQueue
<1>2. Head(queue) \in [name : ConnEvents, conn : Conns]
  BY <1>1 DEF Events, ConnEvents, Requests
<1>. QED
  BY <1>1, <1>2 DEF ConnEvent, This

\* A ClientProxyUnknown that is there has the proxy or the stream.
LEMMA ShakingOwns ==
  ASSUME Owns, NEW c \in Conns, obj[c].unknown = "live"
  PROVE  /\ obj[c].m_proxy <=> obj[c].proxy = "live"
         /\ obj[c].streamHandler = "unknown" => obj[c].m_stream
<1>1. PICK w \in Places : At(c, w) /\ Fits(obj[c], peer[c].at, w)
  BY PlaceOf
<1>. QED
  BY <1>1 DEF Fits, Stage

\* A handler changes the objects of the connection c.
LEMMA HandledOrderly ==
  ASSUME obj \in [Conns -> Object], queue \in Seq(Events), EventsInv, NEW c \in Conns,
         NEW u, Set(c, u), NEW evs, \A d \in Conns : d # c => Foreign(evs, d),
         \A d \in Conns : d # c => peer'[d].said = peer[d].said /\ peer'[d].msg = peer[d].msg
  PROVE  /\ queue # <<>> /\ Then(evs) /\ Orderly(u, peer'[c], Tail(queue) \o evs, c)
              => EventsInv'
         /\ Post(evs) /\ Orderly(u, peer'[c], queue \o evs, c) => EventsInv'
<1>1. obj'[c] = u /\ \A d \in Conns : d # c => obj'[d] = obj[d]
  BY DEF Set
<1>2. ASSUME queue # <<>>, Then(evs), Orderly(u, peer'[c], Tail(queue) \o evs, c)
      PROVE  EventsInv'
  <2>1. Orderly(obj'[c], peer'[c], queue', c)
    BY <1>1, <1>2 DEF Then
  <2>2. \A d \in Conns : d # c => Passed(d)
    BY <1>1, <1>2, QueueFewer DEF Passed
  <2>. QED
    BY <2>1, <2>2, OneOrderly
<1>3. ASSUME Post(evs), Orderly(u, peer'[c], queue \o evs, c)
      PROVE  EventsInv'
  <2>1. Orderly(obj'[c], peer'[c], queue', c)
    BY <1>1, <1>3 DEF Post
  <2>2. \A d \in Conns : d # c => Passed(d)
    BY <1>1, <1>3, QueueFewer DEF Passed
  <2>. QED
    BY <2>1, <2>2, OneOrderly
<1>. QED
  BY <1>2, <1>3

\* A step that changes no object.
LEMMA QuietOrderly ==
  ASSUME queue \in Seq(Events), EventsInv, UNCHANGED obj,
         \A d \in Conns : peer'[d].said = peer[d].said /\ peer'[d].msg = peer[d].msg,
         NEW evs, \A d \in Conns : Foreign(evs, d),
         (queue # <<>> /\ Then(evs)) \/ Post(evs)
  PROVE  EventsInv'
<1>1. \A d \in Conns : Passed(d)
  BY QueueFewer DEF Passed
<1>. QED
  BY <1>1, AllPassed

\* The far ends.
LEMMA FarOrderly ==
  ASSUME TypeInv, EventsInv
  PROVE  /\ \A c \in Conns : PeerConnects(c) \/ ServiceAccept(c) \/ PeerSends(c)
                             \/ PeerLeaves(c) => EventsInv'
         /\ ServiceListening \/ ListenError => EventsInv'
<1>0. peer \in [Conns -> Peer] /\ queue \in Seq(Events) /\ obj \in [Conns -> Object]
  BY DEF TypeInv, ConnTypes
<1>1. /\ \A d \in Conns : Foreign(<<>>, d) /\ Foreign(<<Plain("connecting")>>, d)
      /\ \A c, d \in Conns : /\ Foreign(<<ConnEvent("accepted", c)>>, d)
                             /\ Foreign(<<ConnEvent("input", c)>>, d)
                             /\ Foreign(<<ConnEvent("shutdown", c)>>, d)
  BY ForeignEvents DEF ConnEvents, Told
<1>2. queue' = queue => Post(<<>>)
  BY SMTT(120), <1>0 DEF Post
<1>3. ASSUME NEW c \in Conns, PeerConnects(c) \/ ServiceAccept(c) \/ PeerLeaves(c)
      PROVE  EventsInv'
  <2>1. \E at : peer' = [peer EXCEPT ![c].at = at]
    BY <1>3 DEF PeerConnects, ServiceAccept, PeerLeaves
  <2>2. \A d \in Conns : peer'[d].said = peer[d].said /\ peer'[d].msg = peer[d].msg
    BY SMTT(120), <1>0, <2>1 DEF Peer
  <2>3. obj' = obj
    BY <1>3 DEF PeerConnects, ServiceAccept, PeerLeaves
  <2>4. PICK evs \in {<<>>, <<ConnEvent("accepted", c)>>, <<ConnEvent("shutdown", c)>>} :
          Post(evs)
    BY <1>2, <1>3 DEF PeerConnects, ServiceAccept, PeerLeaves
  <2>5. \A d \in Conns : Foreign(evs, d)
    BY <1>1, <2>4
  <2>. QED
    BY <1>0, <2>2, <2>3, <2>4, <2>5, QuietOrderly
<1>4. ASSUME NEW c \in Conns, PeerSends(c)
      PROVE  EventsInv'
  <2>1. PICK m \in {"good", "bad"} : peer' = [peer EXCEPT ![c].said = @ + 1, ![c].msg = m]
    BY <1>4 DEF PeerSends
  <2>2. /\ peer[c].msg = "none" /\ obj' = obj /\ Post(<<ConnEvent("input", c)>>)
        /\ \/ peer[c].said = 0 /\ obj[c].unknown # "none"
           \/ peer[c].said = 1 /\ obj[c].proxy # "none"
    BY <1>4 DEF PeerSends
  <2>3. /\ peer'[c].said = peer[c].said + 1
        /\ \A d \in Conns : d # c => peer'[d] = peer[d]
    BY <1>0, <2>1 DEF Peer
  <2>4. Orderly(obj[c], peer[c], queue, c) /\ peer[c] \in Peer
    BY <1>0 DEF EventsInv
  <2>5. Orderly(obj[c], peer'[c], queue, c)
    BY <2>2, <2>3, <2>4, SaysOrderly
  <2>6. \A d \in Conns : Fewer(queue, queue', d)
    BY <1>0, <1>1, <2>2, QueueFewer
  <2>7. Wanes(obj[c], obj[c])
    BY DEF Wanes
  <2>8. Orderly(obj'[c], peer'[c], queue', c)
    BY <2>2, <2>5, <2>6, <2>7, OrderlyLess
  <2>9. \A d \in Conns : d # c => Passed(d)
    BY <2>2, <2>3, <2>6 DEF Passed
  <2>. QED
    BY <2>8, <2>9, OneOrderly
<1>5. ASSUME ServiceListening \/ ListenError
      PROVE  EventsInv'
  <2>1. obj' = obj /\ peer' = peer
    BY <1>5 DEF ServiceListening, ListenError
  <2>2. PICK evs \in {<<>>, <<Plain("connecting")>>} : Post(evs)
    BY <1>2, <1>5 DEF ServiceListening, ListenError
  <2>. QED
    BY <1>0, <1>1, <2>1, <2>2, QuietOrderly
<1>. QED
  BY <1>3, <1>4, <1>5

\* The places of connections, as far as the events depend on them.
LEMMA BarePlace ==
  ASSUME Owns, NEW c \in Conns, peer[c].at = "calling" \/ obj[c].onAccepted
  PROVE  obj[c].unknown = "none"
<1>1. PICK w \in Places : At(c, w) /\ Fits(obj[c], peer[c].at, w)
  BY PlaceOf
<1>. QED
  BY <1>1 DEF Fits, Bare

LEMMA ClientPlace ==
  ASSUME Owns, NEW c \in Conns,
         c \in Waiting \cup m_clients \cup m_oldClients \/ obj[c].onGone = "server"
  PROVE  obj[c].unknown # "live" /\ obj[c].proxy = "live"
<1>1. PICK w \in Places : At(c, w) /\ Fits(obj[c], peer[c].at, w)
  BY PlaceOf
<1>2. w \in {"waiting", "active", "old"}
  BY <1>1 DEF Fits, At, Stage, Places
<1>. QED
  BY <1>1, <1>2 DEF Fits

\* The listener: connections that come, and clients that are handed on.
LEMMA ListenerOrderly ==
  ASSUME TypeInv, Owns, EventsInv
  PROVE  /\ HandleClientConnecting \/ HandleClientAccepted => EventsInv'
         /\ HandleUnknownClient \/ HandleWaitingClientGone => EventsInv'
<1>0. peer \in [Conns -> Peer] /\ queue \in Seq(Events) /\ obj \in [Conns -> Object]
  BY DEF TypeInv, ConnTypes
<1>1. \A d \in Conns : Foreign(<<>>, d) /\ Foreign(<<Plain("connected")>>, d)
  BY ForeignEvents
<1>2. ASSUME HandleClientConnecting
      PROVE  EventsInv'
  <2>1. queue # <<>>
    BY <1>2 DEF HandleClientConnecting, Takes
  <2>2. PICK c \in Conns :
          /\ peer[c].at = "calling"
          /\ \E at : peer' = [peer EXCEPT ![c].at = at]
          /\ \/ Set(c, [obj[c] EXCEPT !.socket = "live", !.onAccepted = TRUE])
             \/ UNCHANGED obj
             \/ Set(c, [obj[c] EXCEPT !.socket = "dead"])
          /\ Then(<<>>) \/ Then(<<ConnEvent("accepted", c)>>)
    BY <1>2 DEF HandleClientConnecting
  <2>3. \A d \in Conns : peer'[d].said = peer[d].said /\ peer'[d].msg = peer[d].msg
    BY SMTT(120), <1>0, <2>2 DEF Peer
  <2>4. PICK evs : Then(evs) /\ \A d \in Conns : Foreign(evs, d)
    BY <1>1, <2>2, ForeignEvents DEF ConnEvents, Told
  <2>5. CASE UNCHANGED obj
    BY <1>0, <2>1, <2>3, <2>4, <2>5, QuietOrderly
  <2>6. ASSUME NEW u, u \in {[obj[c] EXCEPT !.socket = "live", !.onAccepted = TRUE],
                             [obj[c] EXCEPT !.socket = "dead"]}, Set(c, u)
        PROVE  EventsInv'
    <3>1. obj[c].unknown = "none" /\ obj[c] \in Object
      BY <1>0, <2>2, BarePlace
    <3>2. Orderly(obj[c], peer[c], Tail(queue), c) /\ Tail(queue) \in Seq(Events)
      BY <1>0, <2>1, TakenOrderly
    <3>3. Orderly(u, peer'[c], Tail(queue), c)
      <4>1. peer'[c].said = peer[c].said /\ peer'[c].msg = peer[c].msg
        BY <2>3
      <4>2. /\ Orderly([obj[c] EXCEPT !.socket = "live", !.onAccepted = TRUE], peer'[c],
                       Tail(queue), c)
            /\ Orderly([obj[c] EXCEPT !.socket = "dead"], peer'[c], Tail(queue), c)
        BY <3>1, <3>2, <4>1, BareOrderly
      <4>. QED
        BY <2>6, <4>2
    <3>4. Fewer(Tail(queue), Tail(queue) \o evs, c) /\ Wanes(u, u)
      BY <2>4, <3>2, FewerForeign DEF Wanes
    <3>5. Orderly(u, peer'[c], Tail(queue) \o evs, c)
      BY <3>3, <3>4, OrderlyLess
    <3>. QED
      BY <1>0, <2>1, <2>3, <2>4, <2>6, <3>5, HandledOrderly
  <2>. QED
    BY <2>2, <2>5, <2>6
<1>3. ASSUME HandleClientAccepted
      PROVE  EventsInv'
  <2> DEFINE c == This
  <2>1. c \in Conns /\ queue # <<>>
    BY <1>0, <1>3, HeadOfQueue DEF HandleClientAccepted, ConnEvents
  <2>2. /\ obj[c].onAccepted /\ Then(<<>>) /\ peer' = peer
        /\ Set(c, NewUnknown(obj[c])) \/ UNCHANGED obj
    BY <1>3 DEF HandleClientAccepted
  <2>. HIDE DEF c
  <2>3. obj[c].unknown = "none" /\ obj[c] \in Object
    BY <1>0, <2>1, <2>2, BarePlace
  <2>4. Orderly(obj[c], peer[c], Tail(queue), c) /\ Tail(queue) \o <<>> = Tail(queue)
    BY SMTT(120), <1>0, <2>1, TakenOrderly
  <2>5. Orderly(NewUnknown(obj[c]), peer'[c], Tail(queue) \o <<>>, c)
    BY <2>2, <2>3, <2>4, BareOrderly
  <2>6. CASE UNCHANGED obj
    BY <1>0, <1>1, <2>1, <2>2, <2>6, QuietOrderly
  <2>7. CASE Set(c, NewUnknown(obj[c]))
    BY <1>0, <1>1, <2>1, <2>2, <2>5, <2>7, HandledOrderly
  <2>. QED
    BY <2>2, <2>6, <2>7
<1>4. ASSUME HandleUnknownClient
      PROVE  EventsInv'
  <2> DEFINE c    == This
             o    == obj[c]
             left == IF o.m_ready
                     THEN [UnknownRemovesHandlers(o) EXCEPT !.m_proxy = FALSE] ELSE o
             u    == IF o.m_ready /\ o.m_proxy
                     THEN DeleteUnknown([left EXCEPT !.onGone = "listener"])
                     ELSE DeleteUnknown([left EXCEPT !.closed = @ \/ o.m_stream])
             evs  == IF o.m_ready /\ o.m_proxy THEN <<Plain("connected")>> ELSE <<>>
  <2>1. c \in Conns /\ queue # <<>>
    BY <1>0, <1>4, HeadOfQueue DEF HandleUnknownClient, ConnEvents
  <2>2. Head(queue) \in Last(c)
    BY <1>0, <1>4, TakenEvent DEF HandleUnknownClient, ConnEvents, Last
  <2>3. o.unknown = "live" /\ Set(c, u) /\ Then(evs) /\ peer' = peer
    BY <1>4 DEF HandleUnknownClient
  <2>. HIDE DEF c
  <2>4. /\ o \in Object /\ Orderly(o, peer[c], queue, c)
        /\ (o.m_proxy <=> o.proxy = "live")
        /\ (o.streamHandler = "unknown" => o.m_stream)
    BY <1>0, <2>1, <2>3, ShakingOwns DEF EventsInv
  <2> DEFINE r == Tail(queue) \o evs
  <2>5. /\ \A d \in Conns : Foreign(evs, d)
        /\ Tail(queue) \in Seq(Events) /\ Fewer(queue, Tail(queue), c)
        /\ Ahead(queue, c) => ~Due(Tail(queue), "ready", c) /\ ~Due(Tail(queue), "proxyGone", c)
    BY SMTT(120), <1>0, <1>1, <2>1, <2>2, FewerTail
  <2>. HIDE DEF evs
  <2>6. Fewer(Tail(queue), r, c) /\ Fewer(queue, r, c)
    BY <2>1, <2>5, FewerForeign, FewerThen
  <2>7. o.proxy = "dead" => ~Due(r, "ready", c) /\ ~Due(r, "proxyGone", c)
    BY <2>3, <2>4, <2>5, <2>6 DEF Orderly, Fewer, Told
  <2>. HIDE DEF o, r
  <2>8. Orderly(u, peer[c], r, c)
    BY <1>0, <2>1, <2>3, <2>4, <2>6, <2>7, DeletedOrderly
  <2>9. Orderly(u, peer'[c], Tail(queue) \o evs, c)
    BY <2>3, <2>8 DEF r
  <2>. HIDE DEF u
  <2>. QED
    BY <1>0, <2>1, <2>3, <2>5, <2>9, HandledOrderly
<1>5. ASSUME HandleWaitingClientGone
      PROVE  EventsInv'
  <2> DEFINE c == This
  <2>1. c \in Conns /\ queue # <<>>
    BY <1>0, <1>5, HeadOfQueue DEF HandleWaitingClientGone, ConnEvents
  <2>2. /\ Set(c, DeleteProxy([obj[c] EXCEPT !.onGone = "none"]))
        /\ c \in Waiting /\ Then(<<>>) /\ peer' = peer
    BY <1>5 DEF HandleWaitingClientGone, Waiting
  <2>. HIDE DEF c
  <2>3. obj[c].unknown # "live" /\ obj[c].proxy = "live" /\ obj[c] \in Object
    BY <1>0, <2>1, <2>2, ClientPlace
  <2>4. Orderly(obj[c], peer[c], Tail(queue), c) /\ Tail(queue) \o <<>> = Tail(queue)
    BY SMTT(120), <1>0, <2>1, TakenOrderly
  <2>5. Orderly(DeleteProxy([obj[c] EXCEPT !.onGone = "none"]), peer'[c],
                Tail(queue) \o <<>>, c)
    BY <2>2, <2>3, <2>4, ClientOrderly
  <2>. QED
    BY <1>0, <1>1, <2>1, <2>2, <2>5, HandledOrderly
<1>. QED
  BY <1>2, <1>3, <1>4, <1>5

\* The handshake: the handlers of a ClientProxyUnknown.
LEMMA UnknownOrderly ==
  ASSUME TypeInv, Owns, EventsInv
  PROVE  /\ HandleHello \/ HandleUnknownGone \/ HandleReady => EventsInv'
         /\ \A c \in Conns : HandleTimeout(c) => EventsInv'
<1>0. peer \in [Conns -> Peer] /\ queue \in Seq(Events) /\ obj \in [Conns -> Object]
  BY DEF TypeInv, ConnTypes
<1>1. \A d \in Conns : Foreign(<<>>, d)
  BY ForeignEvents
<1>2. \A c, d \in Conns : c # d => /\ Foreign(<<ConnEvent("failure", c)>>, d)
                                   /\ Foreign(<<ConnEvent("success", c)>>, d)
  BY ForeignEvents DEF ConnEvents
<1>3. ASSUME HandleHello
      PROVE  EventsInv'
  <2> DEFINE c == This
             q == Tail(queue)
             e == ConnEvent("failure", c)
             n == NewProxy(UnknownRemovesHandlers(obj[c]))
             f == SendFailure(obj[c])
  <2>1. c \in Conns /\ queue # <<>>
    BY <1>0, <1>3, HeadOfQueue DEF HandleHello, ConnEvents
  <2>2. /\ obj[c].streamHandler = "unknown"
        /\ peer' = [peer EXCEPT ![c].msg = "none"]
        /\ \/ peer[c].msg = "good" /\ Set(c, n) /\ Then(<<>>)
           \/ Set(c, f) /\ Then(<<e>>)
    BY <1>3 DEF HandleHello
  <2>. HIDE DEF c
  <2>3. /\ peer'[c].said = peer[c].said /\ peer'[c].msg = "none" /\ peer[c] \in Peer
        /\ \A d \in Conns : d # c => peer'[d] = peer[d]
    BY <1>0, <2>1, <2>2 DEF Peer
  <2>4. q \in Seq(Events) /\ Orderly(obj[c], peer[c], q, c) /\ obj[c] \in Object
    BY <1>0, <2>1, TakenOrderly
  <2>5. obj[c].unknown = "live"
    BY <2>1, <2>2, PlaceOf DEF Fits
  <2>6. /\ obj[c].m_proxy <=> obj[c].proxy = "live"
        /\ obj[c].streamHandler = "unknown" => obj[c].m_stream
    BY <2>1, <2>5, ShakingOwns
  <2>7. obj[c].proxy # "live"
    BY <2>2, <2>4 DEF Orderly
  <2>. HIDE DEF q, n, f, e
  <2>8. ASSUME peer[c].msg = "good", Set(c, n), Then(<<>>) PROVE EventsInv'
    <3>1. Orderly(n, peer'[c], q, c)
      BY <2>1, <2>2, <2>3, <2>4, <2>5, <2>8, HelloOrderly DEF n
    <3>2. q \o <<>> = q
      BY SMTT(120), <2>4
    <3>3. Orderly(n, peer'[c], Tail(queue) \o <<>>, c)
      BY <3>1, <3>2 DEF q
    <3>. QED
      BY <1>0, <1>1, <2>1, <2>3, <2>8, <3>3, HandledOrderly
  <2>9. ASSUME Set(c, f), Then(<<e>>) PROVE EventsInv'
    <3>1. Orderly(f, peer'[c], q \o <<e>>, c)
      BY <2>1, <2>3, <2>4, <2>5, <2>6, <2>7, FailureOrderly DEF f, e
    <3>2. Orderly(f, peer'[c], Tail(queue) \o <<e>>, c)
      BY <3>1 DEF q
    <3>3. \A d \in Conns : d # c => Foreign(<<e>>, d)
      BY <1>2, <2>1 DEF e
    <3>. QED
      BY <1>0, <2>1, <2>3, <2>9, <3>2, <3>3, HandledOrderly
  <2>. QED
    BY <2>2, <2>8, <2>9
<1>4. ASSUME HandleUnknownGone
      PROVE  EventsInv'
  <2> DEFINE c == This
             q == Tail(queue)
             e == ConnEvent("failure", c)
             f == SendFailure(obj[c])
  <2>1. c \in Conns /\ queue # <<>>
    BY <1>0, <1>4, HeadOfQueue DEF HandleUnknownGone, ConnEvents
  <2>2. obj[c].streamHandler = "unknown" \/ Head(queue) = ConnEvent("proxyGone", c)
    BY <1>0, <1>4, TakenEvent DEF HandleUnknownGone, ConnEvents
  <2>3. /\ peer' = peer
        /\ IF obj[c].unknown = "live" THEN Set(c, f) /\ Then(<<e>>)
           ELSE Then(<<>>) /\ UNCHANGED obj
    BY <1>4 DEF HandleUnknownGone
  <2>. HIDE DEF c
  <2>4. /\ q \in Seq(Events) /\ Orderly(obj[c], peer[c], q, c) /\ obj[c] \in Object
        /\ Orderly(obj[c], peer[c], queue, c)
    BY <1>0, <2>1, TakenOrderly DEF EventsInv
  <2>5. CASE obj[c].unknown # "live"
    BY <1>0, <1>1, <2>1, <2>3, <2>5, QuietOrderly
  <2>6. ASSUME obj[c].unknown = "live" PROVE EventsInv'
    <3>1. /\ obj[c].m_proxy <=> obj[c].proxy = "live"
          /\ obj[c].streamHandler = "unknown" => obj[c].m_stream
      BY <2>1, <2>6, ShakingOwns
    <3>2. obj[c].proxy # "live" \/ ~Due(q, "proxyGone", c)
      <4>1. CASE obj[c].streamHandler = "unknown"
        BY <2>4, <4>1 DEF Orderly
      <4>2. CASE Head(queue) = ConnEvent("proxyGone", c)
        <5>1. Once(queue, "proxyGone", c) => ~Due(q, "proxyGone", c)
          BY <1>0, <2>1, <4>2, FewerTail
        <5>. QED
          BY <2>4, <2>6, <5>1 DEF Orderly, Making
      <4>. QED
        BY <2>2, <4>1, <4>2
    <3>. HIDE DEF q, f, e
    <3>3. Orderly(f, peer[c], q \o <<e>>, c)
      BY <2>1, <2>4, <2>6, <3>1, <3>2, FailureOrderly DEF f, e
    <3>4. Orderly(f, peer'[c], Tail(queue) \o <<e>>, c)
      BY <2>3, <3>3 DEF q
    <3>5. \A d \in Conns : d # c => Foreign(<<e>>, d)
      BY <1>2, <2>1 DEF e
    <3>. QED
      BY <1>0, <2>1, <2>3, <2>6, <3>4, <3>5, HandledOrderly
  <2>. QED
    BY <2>5, <2>6
<1>5. ASSUME HandleReady
      PROVE  EventsInv'
  <2> DEFINE c == This
             q == Tail(queue)
             e == ConnEvent("success", c)
             u == [obj[c] EXCEPT !.m_ready = TRUE, !.m_timer = FALSE]
  <2>1. c \in Conns /\ queue # <<>>
    BY <1>0, <1>5, HeadOfQueue DEF HandleReady, ConnEvents
  <2>2. Head(queue) = ConnEvent("ready", c)
    BY <1>0, <1>5, TakenEvent DEF HandleReady, ConnEvents
  <2>3. /\ peer' = peer
        /\ IF obj[c].unknown = "live" THEN Set(c, u) /\ Then(<<e>>)
           ELSE Then(<<>>) /\ UNCHANGED obj
    BY <1>5 DEF HandleReady
  <2>. HIDE DEF c
  <2>4. /\ q \in Seq(Events) /\ Orderly(obj[c], peer[c], q, c) /\ obj[c] \in Object
        /\ Orderly(obj[c], peer[c], queue, c)
    BY <1>0, <2>1, TakenOrderly DEF EventsInv
  <2>5. CASE obj[c].unknown # "live"
    BY <1>0, <1>1, <2>1, <2>3, <2>5, QuietOrderly
  <2>6. ASSUME obj[c].unknown = "live" PROVE EventsInv'
    <3>1. Due(queue, "ready", c) /\ (Once(queue, "ready", c) => ~Due(q, "ready", c))
      BY <1>0, <2>1, <2>2, FewerTail
    <3>2. obj[c].proxy # "none"
      BY <2>4, <3>1 DEF Orderly, Unmade
    <3>3. obj[c].proxy = "live" =>
            peer[c].said = 2 /\ peer[c].msg = "none" /\ ~Due(q, "ready", c)
      BY <2>4, <2>6, <3>1 DEF Orderly, Making
    <3>. HIDE DEF q, u, e
    <3>4. Orderly(u, peer[c], q \o <<e>>, c)
      BY <2>1, <2>4, <2>6, <3>2, <3>3, ReadyOrderly DEF u, e
    <3>5. Orderly(u, peer'[c], Tail(queue) \o <<e>>, c)
      BY <2>3, <3>4 DEF q
    <3>6. \A d \in Conns : d # c => Foreign(<<e>>, d)
      BY <1>2, <2>1 DEF e
    <3>. QED
      BY <1>0, <2>1, <2>3, <2>6, <3>5, <3>6, HandledOrderly
  <2>. QED
    BY <2>5, <2>6
<1>6. ASSUME NEW c \in Conns, HandleTimeout(c)
      PROVE  EventsInv'
  <2> DEFINE e == ConnEvent("failure", c)
             f == SendFailure(obj[c])
  <2>1. obj[c].m_timer /\ Set(c, f) /\ Post(<<e>>) /\ peer' = peer
    BY <1>6 DEF HandleTimeout
  <2>2. obj[c].unknown = "live"
    BY <2>1, PlaceOf DEF Fits
  <2>3. /\ obj[c].m_proxy <=> obj[c].proxy = "live"
        /\ obj[c].streamHandler = "unknown" => obj[c].m_stream
    BY <2>2, ShakingOwns
  <2>4. Orderly(obj[c], peer[c], queue, c) /\ obj[c] \in Object
    BY <1>0 DEF EventsInv
  <2>. HIDE DEF f, e
  <2>5. Orderly(f, peer[c], queue \o <<e>>, c)
    BY <1>0, <2>1, <2>2, <2>3, <2>4, FailureOrderly DEF f, e
  <2>6. Orderly(f, peer'[c], queue \o <<e>>, c)
    BY <2>1, <2>5
  <2>7. \A d \in Conns : d # c => Foreign(<<e>>, d)
    BY <1>2 DEF e
  <2>. QED
    BY <1>0, <2>1, <2>6, <2>7, HandledOrderly
<1>. QED
  BY <1>3, <1>4, <1>5, <1>6

\* The handlers of a ClientProxy1_0.
LEMMA ProxyOrderly ==
  ASSUME TypeInv, EventsInv
  PROVE  /\ HandleInfo \/ HandleDisconnect => EventsInv'
         /\ \A c \in Conns : HandleFlatline(c) => EventsInv'
<1>0. peer \in [Conns -> Peer] /\ queue \in Seq(Events) /\ obj \in [Conns -> Object]
  BY DEF TypeInv, ConnTypes
<1>1. \A c, d \in Conns : c # d => /\ Foreign(<<ConnEvent("ready", c)>>, d)
                                   /\ Foreign(<<ConnEvent("proxyGone", c)>>, d)
  BY ForeignEvents DEF ConnEvents
<1>2. ASSUME HandleInfo
      PROVE  EventsInv'
  <2> DEFINE c == This
             q == Tail(queue)
             e == ConnEvent("ready", c)
             g == ConnEvent("proxyGone", c)
             u == [obj[c] EXCEPT !.heartbeat = TRUE]
             v == Disconnect(obj[c])
  <2>1. c \in Conns /\ queue # <<>>
    BY <1>0, <1>2, HeadOfQueue DEF HandleInfo, ConnEvents
  <2>2. /\ obj[c].streamHandler = "proxy"
        /\ peer' = [peer EXCEPT ![c].msg = "none"]
        /\ \/ peer[c].msg = "good" /\ Set(c, u) /\ Then(<<e>>)
           \/ Set(c, v) /\ Then(<<g>>)
    BY <1>2 DEF HandleInfo
  <2>. HIDE DEF c
  <2>3. /\ peer'[c].said = peer[c].said /\ peer'[c].msg = "none" /\ peer[c] \in Peer
        /\ \A d \in Conns : d # c => peer'[d] = peer[d]
    BY <1>0, <2>1, <2>2 DEF Peer
  <2>4. q \in Seq(Events) /\ Orderly(obj[c], peer[c], q, c) /\ obj[c] \in Object
    BY <1>0, <2>1, TakenOrderly
  <2>. HIDE DEF q, e, g, u, v
  <2>5. ASSUME peer[c].msg = "good", Set(c, u), Then(<<e>>) PROVE EventsInv'
    <3>1. Orderly(u, peer'[c], q \o <<e>>, c)
      BY <2>1, <2>2, <2>3, <2>4, <2>5, InfoOrderly DEF u, e
    <3>2. Orderly(u, peer'[c], Tail(queue) \o <<e>>, c)
      BY <3>1 DEF q
    <3>3. \A d \in Conns : d # c => Foreign(<<e>>, d)
      BY <1>1, <2>1 DEF e
    <3>. QED
      BY <1>0, <2>1, <2>3, <2>5, <3>2, <3>3, HandledOrderly
  <2>6. ASSUME Set(c, v), Then(<<g>>) PROVE EventsInv'
    <3>1. Orderly(v, peer'[c], q \o <<g>>, c)
      BY <2>1, <2>2, <2>3, <2>4, GoneOrderly DEF v, g
    <3>2. Orderly(v, peer'[c], Tail(queue) \o <<g>>, c)
      BY <3>1 DEF q
    <3>3. \A d \in Conns : d # c => Foreign(<<g>>, d)
      BY <1>1, <2>1 DEF g
    <3>. QED
      BY <1>0, <2>1, <2>3, <2>6, <3>2, <3>3, HandledOrderly
  <2>. QED
    BY <2>2, <2>5, <2>6
<1>3. ASSUME HandleDisconnect
      PROVE  EventsInv'
  <2> DEFINE c == This
             q == Tail(queue)
             g == ConnEvent("proxyGone", c)
             v == Disconnect(obj[c])
  <2>1. c \in Conns /\ queue # <<>>
    BY <1>0, <1>3, HeadOfQueue DEF HandleDisconnect, ConnEvents
  <2>2. obj[c].streamHandler = "proxy" /\ peer' = peer /\ Set(c, v) /\ Then(<<g>>)
    BY <1>3 DEF HandleDisconnect
  <2>. HIDE DEF c
  <2>3. q \in Seq(Events) /\ Orderly(obj[c], peer[c], q, c) /\ obj[c] \in Object
    BY <1>0, <2>1, TakenOrderly
  <2>. HIDE DEF q, g, v
  <2>4. Orderly(v, peer[c], q \o <<g>>, c)
    BY <2>1, <2>2, <2>3, GoneOrderly DEF v, g
  <2>5. Orderly(v, peer'[c], Tail(queue) \o <<g>>, c)
    BY <2>2, <2>4 DEF q
  <2>6. \A d \in Conns : d # c => Foreign(<<g>>, d)
    BY <1>1, <2>1 DEF g
  <2>. QED
    BY <1>0, <2>1, <2>2, <2>5, <2>6, HandledOrderly
<1>4. ASSUME NEW c \in Conns, HandleFlatline(c)
      PROVE  EventsInv'
  <2> DEFINE g == ConnEvent("proxyGone", c)
             v == Disconnect(obj[c])
  <2>1. obj[c].heartbeat /\ peer' = peer /\ Set(c, v) /\ Post(<<g>>)
    BY <1>4 DEF HandleFlatline
  <2>2. Orderly(obj[c], peer[c], queue, c) /\ obj[c] \in Object
    BY <1>0 DEF EventsInv
  <2>. HIDE DEF g, v
  <2>3. Orderly(v, peer[c], queue \o <<g>>, c)
    BY <1>0, <2>1, <2>2, GoneOrderly DEF v, g
  <2>4. Orderly(v, peer'[c], queue \o <<g>>, c)
    BY <2>1, <2>3
  <2>5. \A d \in Conns : d # c => Foreign(<<g>>, d)
    BY <1>1 DEF g
  <2>. QED
    BY <1>0, <2>1, <2>4, <2>5, HandledOrderly
<1>. QED
  BY <1>2, <1>3, <1>4

\* The server's clients.
LEMMA ServerOrderly ==
  ASSUME TypeInv, Owns, EventsInv
  PROVE  /\ HandleClientConnected \/ HandleClientDisconnected => EventsInv'
         /\ \A c \in Conns : HandleClientCloseTimeout(c) => EventsInv'
<1>0. /\ peer \in [Conns -> Peer] /\ queue \in Seq(Events) /\ obj \in [Conns -> Object]
      /\ m_waitingClients \in Seq(Conns)
  BY DEF TypeInv, ConnTypes
<1>1. \A d \in Conns : Foreign(<<>>, d) /\ \A x, y : Foreign(NoClientsLeft(x, y), d)
  BY ForeignEvents
<1>2. ASSUME NEW c \in Conns, NEW q \in Seq(Events), NEW evs, NEW u,
             \A d \in Conns : Foreign(evs, d), Orderly(obj[c], peer[c], q, c),
             c \in Waiting \cup m_clients \cup m_oldClients \/ obj[c].onGone = "server",
             u \in {[obj[c] EXCEPT !.onGone = "server"],
                    DeleteProxy([obj[c] EXCEPT !.onGone = "none"])}
      PROVE  Orderly(u, peer[c], q \o evs, c)
  <2>1. obj[c].unknown # "live" /\ obj[c].proxy = "live" /\ obj[c] \in Object
    BY <1>0, <1>2, ClientPlace
  <2>2. Orderly(u, peer[c], q, c)
    <3>1. /\ Orderly([obj[c] EXCEPT !.onGone = "server"], peer[c], q, c)
          /\ Orderly(DeleteProxy([obj[c] EXCEPT !.onGone = "none"]), peer[c], q, c)
      BY <1>2, <2>1, ClientOrderly
    <3>. QED
      BY <1>2, <3>1
  <2>3. Fewer(q, q \o evs, c) /\ Wanes(u, u)
    BY <1>2, FewerForeign DEF Wanes
  <2>. QED
    BY <2>2, <2>3, OrderlyLess
<1>3. ASSUME HandleClientConnected
      PROVE  EventsInv'
  <2>1. queue # <<>> /\ Then(<<>>) /\ peer' = peer
    BY <1>3 DEF HandleClientConnected, Takes
  <2>2. CASE m_waitingClients = <<>>
    <3>1. UNCHANGED obj
      BY <1>3, <2>2 DEF HandleClientConnected
    <3>. QED
      BY <1>0, <1>1, <2>1, <3>1, QuietOrderly
  <2>3. CASE m_waitingClients # <<>>
    <3> DEFINE c == Head(m_waitingClients)
               u == [obj[c] EXCEPT !.onGone = "server"]
    <3>1. Set(c, u)
      BY <1>3, <2>3 DEF HandleClientConnected
    <3>2. c \in Conns /\ 1 \in DOMAIN m_waitingClients /\ m_waitingClients[1] = c
      BY SMTT(120), <1>0, <2>3
    <3>3. c \in Waiting
      BY <3>2 DEF Waiting
    <3>. HIDE DEF c
    <3>4. Tail(queue) \in Seq(Events) /\ Orderly(obj[c], peer[c], Tail(queue), c)
      BY <1>0, <2>1, <3>2, TakenOrderly
    <3>5. Orderly(u, peer'[c], Tail(queue) \o <<>>, c)
      BY <1>1, <1>2, <2>1, <3>2, <3>3, <3>4
    <3>. HIDE DEF u
    <3>. QED
      BY <1>0, <1>1, <2>1, <3>1, <3>2, <3>5, HandledOrderly
  <2>. QED
    BY <2>2, <2>3
<1>4. ASSUME HandleClientDisconnected
      PROVE  EventsInv'
  <2> DEFINE c == This
             u == DeleteProxy([obj[c] EXCEPT !.onGone = "none"])
  <2>1. c \in Conns /\ queue # <<>>
    BY <1>0, <1>4, HeadOfQueue DEF HandleClientDisconnected, ConnEvents
  <2>2. obj[c].onGone = "server" /\ Set(c, u) /\ peer' = peer
    BY <1>4 DEF HandleClientDisconnected
  <2>3. PICK evs : Then(evs) /\ \A d \in Conns : Foreign(evs, d)
    BY <1>1, <1>4 DEF HandleClientDisconnected
  <2>. HIDE DEF c
  <2>4. Tail(queue) \in Seq(Events) /\ Orderly(obj[c], peer[c], Tail(queue), c)
    BY <1>0, <2>1, TakenOrderly
  <2>5. Orderly(u, peer'[c], Tail(queue) \o evs, c)
    BY <1>2, <2>1, <2>2, <2>3, <2>4
  <2>. HIDE DEF u
  <2>. QED
    BY <1>0, <2>1, <2>2, <2>3, <2>5, HandledOrderly
<1>5. ASSUME NEW c \in Conns, HandleClientCloseTimeout(c)
      PROVE  EventsInv'
  <2> DEFINE u == DeleteProxy([obj[c] EXCEPT !.onGone = "none"])
  <2>1. c \in m_oldClients /\ Set(c, u) /\ peer' = peer
    BY <1>5 DEF HandleClientCloseTimeout
  <2>2. PICK evs : Post(evs) /\ \A d \in Conns : Foreign(evs, d)
    BY <1>1, <1>5 DEF HandleClientCloseTimeout
  <2>3. Orderly(obj[c], peer[c], queue, c)
    BY DEF EventsInv
  <2>4. Orderly(u, peer'[c], queue \o evs, c)
    BY <1>0, <1>2, <2>1, <2>2, <2>3
  <2>. HIDE DEF u
  <2>. QED
    BY <1>0, <2>1, <2>2, <2>4, HandledOrderly
<1>. QED
  BY <1>3, <1>4, <1>5

\* The Server and the ClientListener are deleted.
LEMMA CloseOrderly ==
  ASSUME TypeInv, Owns, EventsInv, \A c \in Conns : Fewer(queue, queue', c),
         obj' = DeleteListenersClients(DeleteServersClients(obj)), peer' = HangUp
  PROVE  EventsInv'
<1>0. peer \in [Conns -> Peer] /\ obj \in [Conns -> Object]
  BY DEF TypeInv, ConnTypes
<1>1. ASSUME NEW c \in Conns
      PROVE  Orderly(obj'[c], peer'[c], queue', c)
  <2> DEFINE p == DeleteListenersClients(DeleteServersClients(obj))[c]
             o == obj[c]
  <2>1. PICK w \in Places : At(c, w) /\ Fits(o, peer[c].at, w)
    BY PlaceOf
  <2>2. /\ p.socket # "live"
        /\ c \in m_newClients /\ c \notin m_clients \cup m_oldClients =>
             /\ p.unknown = "dead"
             /\ p.proxy = IF o.m_proxy THEN "dead" ELSE o.proxy
             /\ p.streamHandler = IF o.m_stream \/ o.m_proxy THEN "none"
                                  ELSE o.streamHandler
             /\ p.onGone \in {o.onGone, "none"}
             /\ p.onReady => o.onReady
             /\ p.heartbeat => o.heartbeat /\ ~o.m_proxy
        /\ c \notin m_newClients /\ c \in Waiting \cup m_clients \cup m_oldClients =>
             /\ p.proxy = "dead" /\ p.unknown = o.unknown
             /\ p.streamHandler = "none" /\ ~p.heartbeat
        /\ c \notin m_newClients \cup Waiting \cup m_clients \cup m_oldClients =>
             p = [o EXCEPT !.socket = IF @ = "live" THEN "dead" ELSE @]
    BY <1>0, ClosedFields
  <2>. HIDE DEF p
  <2>3. Orderly(o, peer[c], queue, c) /\ o \in Object
    BY <1>0 DEF EventsInv
  <2>4. /\ peer'[c].said = peer[c].said /\ peer'[c].msg = peer[c].msg
        /\ obj'[c] = p
    BY <1>0 DEF HangUp, Peer, p
  <2>5. CASE w = "new"
    <3>1. c \in m_newClients /\ c \notin m_clients \cup m_oldClients
      BY <2>1, <2>5 DEF At
    <3>2. Stage(o) /\ o.unknown = "live"
      BY <2>1, <2>5 DEF Fits
    <3>3. o.proxy = "dead" => o.streamHandler = "none" /\ ~o.heartbeat
      BY <2>3 DEF Orderly
    <3>4. p.proxy # "live" /\ p.unknown = "dead"
      BY <2>2, <3>1, <3>2 DEF Stage
    <3>5. p.proxy = "none" => /\ o.proxy = "none"
                              /\ p.streamHandler \in {o.streamHandler, "none"}
                              /\ p.heartbeat => o.heartbeat
                              /\ p.onReady => o.onReady
                              /\ p.onGone \in {o.onGone, "none"}
      BY <2>2, <3>1
    <3>6. p.proxy # "none" => o.proxy # "none" /\ p.streamHandler = "none" /\ ~p.heartbeat
      BY <2>2, <2>3, <3>1, <3>2, <3>3 DEF Stage, Object, Life
    <3>. QED
      BY <2>2, <2>3, <2>4, <3>4, <3>5, <3>6, ClosedOrderly
  <2>6. CASE w \in {"waiting", "active", "old"}
    <3>1. c \notin m_newClients /\ c \in Waiting \cup m_clients \cup m_oldClients
      BY <2>1, <2>6 DEF At
    <3>2. o.unknown # "live" /\ o.proxy = "live"
      BY <2>1, <2>6 DEF Fits
    <3>3. o.unknown # "none"
      BY <2>3, <3>2 DEF Orderly
    <3>. QED
      BY <2>2, <2>3, <2>4, <3>1, <3>2, <3>3, ClosedOrderly
  <2>7. CASE w = "none"
    <3>1. p = [o EXCEPT !.socket = IF @ = "live" THEN "dead" ELSE @]
      BY <2>1, <2>2, <2>7 DEF At
    <3>2. /\ p.unknown = o.unknown /\ p.proxy = o.proxy /\ p.streamHandler = o.streamHandler
          /\ p.heartbeat = o.heartbeat /\ p.onReady = o.onReady /\ p.onGone = o.onGone
      BY <2>3, <3>1 DEF Object
    <3>3. o.unknown # "live" /\ o.proxy # "live"
      BY <2>1, <2>7 DEF Fits
    <3>4. o.proxy # "none" =>
            o.unknown # "none" /\ o.streamHandler = "none" /\ ~o.heartbeat
      BY <2>3, <3>3 DEF Orderly, Object, Life
    <3>. QED
      BY SMTT(120), <2>2, <2>3, <2>4, <3>2, <3>3, <3>4, ClosedOrderly
  <2>. QED
    BY <2>5, <2>6, <2>7 DEF Places
<1>. QED
  BY <1>1 DEF EventsInv

\* The application changes its state.
LEMMA BecomeOrderly ==
  ASSUME TypeInv, Owns, EventsInv, NEW a, NEW closed \in BOOLEAN, NEW wiped,
         NEW q \in Seq(Events), \A c \in Conns : Fewer(queue, q, c),
         NEW evs, \A c \in Conns : Foreign(evs, c), Become(a, closed, wiped, q, evs)
  PROVE  EventsInv'
<1> DEFINE kept == IF closed THEN Orphaned(q, {"connecting", "connected", "serverGone"})
                   ELSE q
           left == IF wiped THEN <<>> ELSE kept
<1>1. kept \in Seq(Events) /\ \A c \in Conns : Fewer(q, kept, c)
  BY OrphanedTypes, FewerOrphaned, FewerSame
<1>2. queue' = left \o evs
  BY DEF Become
<1>3. left \in Seq(Events) /\ \A c \in Conns : Fewer(q, left, c)
  BY SMTT(120), <1>1, FewerSame
<1>. HIDE DEF left
<1>4. ASSUME NEW c \in Conns PROVE Fewer(queue, queue', c)
  <2>1. Fewer(queue, q, c) /\ Fewer(q, left, c) /\ Fewer(left, queue', c)
    BY <1>2, <1>3, FewerForeign
  <2>. QED
    BY <2>1, FewerThen
<1>5. CASE closed
  <2>1. obj' = DeleteListenersClients(DeleteServersClients(obj)) /\ peer' = HangUp
    BY <1>5 DEF Become
  <2>. QED
    BY <1>4, <2>1, CloseOrderly
<1>6. CASE ~closed
  <2>1. \A c \in Conns : Passed(c)
    BY <1>4, <1>6 DEF Become, Passed
  <2>. QED
    BY <2>1, AllPassed
<1>. QED
  BY <1>5, <1>6

LEMMA FinishOrderly ==
  ASSUME TypeInv, Owns, EventsInv, queue # <<>>, NEW why, NEW closed \in BOOLEAN,
         Finish(why, closed)
  PROVE  EventsInv'
<1>1. Tail(queue) \in Seq(Events) /\ \A c \in Conns : Fewer(queue, Tail(queue), c)
  BY SMTT(120), FewerTail DEF TypeInv, ConnTypes
<1>2. \A c \in Conns : Foreign(<<>>, c)
  BY ForeignEvents
<1>3. \E a, wiped : Become(a, closed, wiped, Tail(queue), <<>>)
  BY DEF Finish
<1>. QED
  BY <1>1, <1>2, <1>3, BecomeOrderly

LEMMA TellOrderly ==
  ASSUME TypeInv, EventsInv, queue # <<>>, TellClientsToGo, UNCHANGED <<peer, obj>>
  PROVE  EventsInv'
<1>1. PICK evs : Then(evs) /\ \A d \in Conns : Foreign(evs, d)
  BY ForeignEvents DEF TellClientsToGo
<1>2. queue \in Seq(Events)
  BY DEF TypeInv, ConnTypes
<1>. QED
  BY <1>1, <1>2, QuietOrderly

LEMMA StopOrderly ==
  ASSUME TypeInv, Owns, EventsInv, queue # <<>>, NEW why, Stop(why)
  PROVE  EventsInv'
<1>1. CASE app.state = "kStarted"
  <2>1. TellClientsToGo /\ UNCHANGED <<peer, obj>>
    BY <1>1 DEF Stop
  <2>. QED
    BY <2>1, TellOrderly
<1>2. CASE app.state # "kStarted"
  <2>1. Finish(why, FALSE)
    BY <1>2 DEF Stop
  <2>. QED
    BY <2>1, FinishOrderly
<1>. QED
  BY <1>1, <1>2

LEMMA AppOrderly ==
  ASSUME TypeInv, Owns, EventsInv
  PROVE  /\ HandleQuit \/ HandleSuspend \/ ResetServer => EventsInv'
         /\ HandleResume \/ RetryHandler \/ ForceReconnect => EventsInv'
         /\ HandleServerGone \/ HandleWaitTimeout \/ Request => EventsInv'
<1>0. queue \in Seq(Events)
  BY DEF TypeInv, ConnTypes
<1>1. \A d \in Conns : /\ Foreign(<<>>, d) /\ Foreign(<<Plain("quit")>>, d)
                       /\ \A name \in Requests : Foreign(<<Plain(name)>>, d)
  BY ForeignEvents DEF Requests
<1>2. ASSUME queue # <<>>, Then(<<>>), UNCHANGED <<peer, obj>>
      PROVE  EventsInv'
  BY <1>0, <1>1, <1>2, QuietOrderly
<1>3. ASSUME HandleQuit
      PROVE  EventsInv'
  <2>0. queue # <<>>
    BY <1>3 DEF HandleQuit, Takes
  <2>1. CASE frames = <<>>
    BY <1>3, <2>0, <2>1, StopOrderly DEF HandleQuit
  <2>2. CASE frames # <<>>
    <3> DEFINE why == frames[Len(frames)].why
    <3>1. \/ Then(<<>>) /\ UNCHANGED <<peer, obj>>
          \/ Finish(why, TRUE)
      BY <1>3, <2>2 DEF HandleQuit
    <3>. HIDE DEF why
    <3>. QED
      BY <1>2, <2>0, <3>1, FinishOrderly
  <2>. QED
    BY <2>1, <2>2
<1>4. ASSUME HandleSuspend \/ ResetServer
      PROVE  EventsInv'
  <2>1. /\ queue # <<>>
        /\ \/ Then(<<>>) /\ UNCHANGED <<peer, obj>>
           \/ \E why : Stop(why)
    BY <1>4 DEF HandleSuspend, ResetServer, Takes
  <2>. QED
    BY <1>2, <2>1, StopOrderly
<1>5. ASSUME HandleResume
      PROVE  EventsInv'
  <2>1. /\ queue # <<>>
        /\ \/ Then(<<>>) /\ UNCHANGED <<peer, obj>>
           \/ \E a, wiped : Become(a, FALSE, wiped, Tail(queue), <<>>)
    BY <1>5 DEF HandleResume, Takes
  <2>2. Tail(queue) \in Seq(Events) /\ \A c \in Conns : Fewer(queue, Tail(queue), c)
    BY SMTT(120), <1>0, <2>1, FewerTail
  <2>. QED
    BY <1>1, <1>2, <2>1, <2>2, BecomeOrderly
<1>6. ASSUME RetryHandler
      PROVE  EventsInv'
  <2>1. \/ UNCHANGED <<peer, obj, queue>>
        \/ \E a, wiped : \E evs \in {<<>>, <<Plain("quit")>>} :
             Become(a, FALSE, wiped, queue, evs)
    BY <1>6 DEF RetryHandler
  <2>2. queue' = queue => Post(<<>>)
    BY SMTT(120), <1>0 DEF Post
  <2>3. CASE UNCHANGED <<peer, obj, queue>>
    BY <1>0, <1>1, <2>2, <2>3, QuietOrderly
  <2>4. CASE \E a, wiped : \E evs \in {<<>>, <<Plain("quit")>>} :
               Become(a, FALSE, wiped, queue, evs)
    <3>1. PICK a, wiped : \E evs \in {<<>>, <<Plain("quit")>>} :
                            Become(a, FALSE, wiped, queue, evs)
      BY <2>4
    <3>2. PICK evs \in {<<>>, <<Plain("quit")>>} : Become(a, FALSE, wiped, queue, evs)
      BY <3>1
    <3>3. \A c \in Conns : Foreign(evs, c) /\ Fewer(queue, queue, c)
      BY <1>1, <3>2, FewerSame
    <3>. QED
      BY <1>0, <3>2, <3>3, BecomeOrderly
  <2>. QED
    BY <2>1, <2>3, <2>4
<1>7. ASSUME ForceReconnect
      PROVE  EventsInv'
  <2>1. /\ UNCHANGED <<peer, obj>> /\ queue # <<>>
        /\ TellClientsToGo \/ Then(<<>>)
    BY <1>7 DEF ForceReconnect, Takes
  <2>. QED
    BY <1>2, <2>1, TellOrderly
<1>8. ASSUME HandleServerGone \/ HandleWaitTimeout \/ Request
      PROVE  EventsInv'
  <2>1. UNCHANGED <<obj, peer>>
    BY <1>8 DEF HandleServerGone, HandleWaitTimeout, Request, Ask, appFrame, unknownFrame
  <2>2. PICK evs : /\ (queue # <<>> /\ Then(evs)) \/ Post(evs)
                   /\ \A d \in Conns : Foreign(evs, d)
    BY <1>1, <1>8 DEF HandleServerGone, HandleWaitTimeout, Request, Ask, Takes
  <2>. QED
    BY <1>0, <2>1, <2>2, QuietOrderly
<1>. QED
  BY <1>3, <1>4, <1>5, <1>6, <1>7, <1>8

LEMMA EventsStep ==
  ASSUME TypeInv, OwnInv, EventsInv, [Next]_vars
  PROVE  EventsInv'
<1>1. CASE UNCHANGED vars
  <2>1. UNCHANGED <<peer, obj, queue>>
    BY <1>1 DEF vars, connVars
  <2>. QED
    BY <2>1 DEF EventsInv
<1>2. CASE Next
  <2>1. broken = "no"
    BY <1>2 DEF Next, HandleEvent, HandleConnEvent, HandleAppEvent, HandshakeTimer,
                FlatlineTimer, CloseTimer, PeerStep, WaitTimer, RetryTimer, ServiceStep,
                ServiceError, Request, Alive
  <2>2. Owns
    BY <2>1 DEF OwnInv
  <2>3. CASE HandleConnEvent
    <3>1. ASSUME DropEvent PROVE EventsInv'
      <4>1. queue # <<>> /\ Then(<<>>) /\ UNCHANGED <<peer, obj>>
        BY <3>1 DEF DropEvent, Takes
      <4>2. \A d \in Conns : Foreign(<<>>, d)
        BY ForeignEvents
      <4>3. queue \in Seq(Events)
        BY DEF TypeInv, ConnTypes
      <4>. QED
        BY <4>1, <4>2, <4>3, QuietOrderly
    <3>. QED
      BY <2>2, <2>3, <3>1, ListenerOrderly, UnknownOrderly, ProxyOrderly, ServerOrderly
         DEF HandleConnEvent
  <2>4. CASE HandleAppEvent
    BY <2>2, <2>4, AppOrderly DEF HandleAppEvent
  <2>5. ASSUME NEW c \in Conns,
               HandshakeTimer(c) \/ FlatlineTimer(c) \/ CloseTimer(c) \/ PeerStep(c)
        PROVE  EventsInv'
    BY <2>2, <2>5, UnknownOrderly, ProxyOrderly, ServerOrderly, FarOrderly
       DEF HandshakeTimer, FlatlineTimer, CloseTimer, PeerStep
  <2>6. CASE WaitTimer \/ RetryTimer \/ Request
    BY <2>2, <2>6, AppOrderly DEF WaitTimer, RetryTimer
  <2>7. CASE ServiceStep \/ ServiceError
    BY <2>7, FarOrderly DEF ServiceStep, ServiceError
  <2>. QED
    BY <1>2, <2>3, <2>4, <2>5, <2>6, <2>7 DEF Next, HandleEvent
<1>. QED
  BY <1>1, <1>2

LEMMA EventsInit == Init => EventsInv
<1>. SUFFICES ASSUME Init, NEW c \in Conns
              PROVE  Orderly(obj[c], peer[c], queue, c)
  BY DEF EventsInv
<1>1. /\ queue = <<>> /\ obj[c] = NewObject
      /\ peer[c] = [at |-> "idle", said |-> 0, msg |-> "none"]
  BY DEF Init
<1>2. \A name : ~Due(queue, name, c)
  BY SMTT(120), <1>1 DEF Due
<1>3. /\ obj[c].unknown = "none" /\ obj[c].proxy = "none" /\ obj[c].streamHandler = "none"
      /\ obj[c].onGone = "none" /\ ~obj[c].onReady /\ ~obj[c].heartbeat
      /\ peer[c].said = 0 /\ peer[c].msg = "none"
  BY SMTT(120), <1>1 DEF NewObject
<1>4. /\ ~Due(queue, "ready", c) /\ ~Due(queue, "success", c)
      /\ ~Due(queue, "proxyGone", c) /\ ~Due(queue, "failure", c)
  BY <1>2
<1>5. Unmade(obj[c], peer[c], queue, c)
  BY SMTT(120), <1>3, <1>4 DEF Unmade
<1>. QED
  BY <1>3, <1>4, <1>5 DEF Orderly

\* Deleted objects are left alone as far as the handlers promise it: the events
\* that sendFailure's stale handlers wait for are always ahead of the "failure"
\* that deletes the ClientProxyUnknown, so none is dispatched to it while the
\* listener lives, for any number of connections and any order of the events.
THEOREM NoStaleHandler == Spec => []DeletedLeftAlone
<1>1. Init => TypeInv /\ OwnInv /\ EventsInv
  BY TypeInit, OwnInit, EventsInit
<1>2. TypeInv /\ OwnInv /\ EventsInv /\ [Next]_vars => (TypeInv /\ OwnInv /\ EventsInv)'
  BY TypeStep, OwnStep, EventsStep
<1>3. OwnInv /\ EventsInv => DeletedLeftAlone
  <2>. SUFFICES ASSUME EventsInv
                PROVE  NoEventForDeadUnknown
    BY DEF DeletedLeftAlone, OwnInv
  <2>. QED
    BY DEF EventsInv, Orderly, NoEventForDeadUnknown, Queued, Due
<1>. QED
  BY <1>1, <1>2, <1>3, PTL DEF Spec
=============================================================================
