-------------------------- MODULE PacketPipeProofs --------------------------
(***************************************************************************)
(* PacketStream implements PacketPipe, for any size of the header, of the  *)
(* packets, of the buffers and of a read, and for any number of bytes and  *)
(* of writes.                                                              *)
(*                                                                         *)
(* Beside Inv, PutInv and EndInv of PacketStreamProofs it takes one more   *)
(* invariant, GetInv, about the input: m_buffer, m_inputBuffer and the     *)
(* network hold, one after another, the bytes of the peer's history from   *)
(* where the filter stands in it, and m_size is what that place leaves of  *)
(* a packet.                                                               *)
(***************************************************************************)
EXTENDS PacketStreamProofs

\* The prover of a leaf that names none.
USE ZenonT(60)

-----------------------------------------------------------------------------
(* The pipe: input *)

\* What the peer was in the middle of after each byte is remembered in g: for
\* the byte that came with r, the record that followed it.
ByteAt(r) == IF r.left < r.size THEN [kind |-> "p", val |-> r.payload]
             ELSE [kind |-> "h", val |-> r.size]

\* The peer goes on after r.
Ongoing(r) == r.size <= MaxMessage \/ r.left > r.size

Sound(r) ==
  /\ r.whole <= r.payload
  /\ r.left = 0 => r.whole = r.payload
  /\ r.left > 0 => r.size > 0

\* How b follows a in one stream, any number of bytes later: as long as the
\* packet of a goes on, and for the first byte of the next one.
Follows(a, b) ==
  /\ a.payload <= b.payload /\ a.whole <= b.whole
  /\ b.bytes - a.bytes <= a.left =>
       /\ b.size = a.size /\ b.left = a.left - (b.bytes - a.bytes)
       /\ b.left >= a.size => b.payload = a.payload
       /\ a.left <= a.size => b.payload = a.payload + (b.bytes - a.bytes)
  /\ a.left = 0 /\ b.bytes = a.bytes + 1 =>
       b.size > 0 /\ b.left = HeaderLen + b.size - 1 /\ b.payload = a.payload

History(g, p) ==
  /\ g \in [Nat -> Peers]
  /\ g[p.bytes] = p
  /\ \A i \in 0..p.bytes : g[i].bytes = i /\ Sound(g[i])
  /\ \A i \in 0..p.bytes : i < p.bytes => Ongoing(g[i])
  /\ \A i, j \in 0..p.bytes : i <= j => Follows(g[i], g[j])

\* The bytes of s are those after the first n.
Holding(s, g, n) == \A i \in 1..Len(s) : s[i] = ByteAt(g[n + i])

\* No byte that has arrived is lost.
Intact == m_readable \/ link # "reset"

\* c bytes have been taken from the filter's buffer.
Track(g, c) ==
  /\ g[c].payload = Len(delivered) /\ g[c].left = m_size /\ m_size <= g[c].size
  /\ c + Len(m_buffer) + Len(m_inputBuffer) <= peer.bytes
  /\ Holding(m_buffer, g, c)
  /\ Holding(m_inputBuffer, g, c + Len(m_buffer))
  /\ Intact => /\ c + Len(m_buffer) + Len(m_inputBuffer) + Len(inNet) = peer.bytes
               /\ Holding(inNet, g, c + Len(m_buffer) + Len(m_inputBuffer))

Tracked == \E g \in [Nat -> Peers], c \in Nat : History(g, peer) /\ Track(g, c)

InOrder == \A i \in 1..Len(delivered) : delivered[i] = [kind |-> "p", val |-> i]

GetInv ==
  /\ InOrder
  /\ Attended => Tracked /\ endTold = 0 /\ (m_size = 0 => Len(m_buffer) < HeaderLen)

-----------------------------------------------------------------------------
(* What the peer has sent *)

\* The peer's step from p to q, with a byte of a packet of this size.
Advance(p, q, size) ==
  /\ size \in Nat /\ size > 0 /\ (p.left # 0 => size = p.size)
  /\ q = [size    |-> size,
          left    |-> IF p.left = 0 THEN HeaderLen + size - 1 ELSE p.left - 1,
          payload |-> IF p.left \in 1..size THEN p.payload + 1 ELSE p.payload,
          whole   |-> IF p.left = 1 THEN p.payload + 1 ELSE p.whole,
          bytes   |-> p.bytes + 1]

LEMMA AdvanceFacts ==
  ASSUME NEW p \in Peers, NEW q \in Peers, NEW size, Advance(p, q, size), Sound(p)
  PROVE  /\ Sound(q) /\ Follows(p, q) /\ Follows(q, q)
         /\ ByteAt(q) = IF q.payload > p.payload THEN [kind |-> "p", val |-> q.payload]
                        ELSE [kind |-> "h", val |-> size]
BY SMTT(120), Constants DEF Advance, Peers, Sound, Follows, ByteAt

LEMMA FollowsOn ==
  ASSUME NEW a \in Peers, NEW p \in Peers, NEW q \in Peers, NEW size, Advance(p, q, size),
         Sound(p), Follows(a, p), a.bytes < p.bytes
  PROVE  Follows(a, q)
BY SMTT(120), Constants DEF Advance, Peers, Sound, Follows

LEMMA HistoryGrows ==
  ASSUME NEW g, NEW p \in Peers, NEW q \in Peers, NEW size, Advance(p, q, size),
         History(g, p), Ongoing(p)
  PROVE  History([g EXCEPT ![p.bytes + 1] = q], q)
<1>. DEFINE h == [g EXCEPT ![p.bytes + 1] = q]
<1>1. p.bytes \in Nat /\ q.bytes = p.bytes + 1 /\ g \in [Nat -> Peers] /\ g[p.bytes] = p
  BY DEF Advance, Peers, History
<1>2. Sound(p)
  BY SMTT(120), <1>1 DEF History
<1>3. h \in [Nat -> Peers] /\ h[q.bytes] = q /\ \A i \in 0..p.bytes : h[i] = g[i]
  BY SMTT(120), <1>1
<1>. HIDE DEF h
<1>4. \A i \in 0..q.bytes : i = q.bytes \/ i \in 0..p.bytes
  BY SMTT(120), <1>1
<1>5. \A i \in 0..q.bytes : h[i].bytes = i /\ Sound(h[i])
  BY SMTT(120), <1>1, <1>2, <1>3, <1>4, AdvanceFacts DEF History
<1>6. \A i \in 0..q.bytes : i < q.bytes => Ongoing(h[i])
  BY SMTT(120), <1>1, <1>3, <1>4 DEF History
<1>7. ASSUME NEW i \in 0..q.bytes, NEW j \in 0..q.bytes, i <= j PROVE Follows(h[i], h[j])
  <2>1. CASE i = q.bytes
    <3>1. j = q.bytes
      BY SMTT(120), <1>1, <1>7, <2>1
    <3>. QED
      BY <1>2, <1>3, <2>1, <3>1, AdvanceFacts
  <2>2. CASE i \in 0..p.bytes /\ j \in 0..p.bytes
    BY <1>3, <1>7, <2>2 DEF History
  <2>3. CASE i = p.bytes /\ j = q.bytes
    BY SMTT(120), <1>1, <1>2, <1>3, <2>3, AdvanceFacts
  <2>4. CASE i \in 0..p.bytes /\ i < p.bytes /\ j = q.bytes
    <3>1. g[i] \in Peers /\ g[i].bytes = i /\ Follows(g[i], p)
      BY SMTT(120), <1>1, <2>4 DEF History
    <3>. QED
      BY <1>2, <1>3, <2>4, <3>1, FollowsOn
  <2>. QED
    BY SMTT(120), <1>1, <1>4, <2>1, <2>2, <2>3, <2>4
<1>. QED
  BY <1>3, <1>5, <1>6, <1>7 DEF History, h

LEMMA HoldingJoin ==
  ASSUME NEW g, NEW n \in Nat, NEW s \in Seq(Byte), NEW t \in Seq(Byte),
         Holding(s, g, n), Holding(t, g, n + Len(s))
  PROVE  Holding(s \o t, g, n)
<1>. SUFFICES ASSUME NEW i \in 1..Len(s \o t) PROVE (s \o t)[i] = ByteAt(g[n + i])
  BY DEF Holding
<1>1. Len(s) \in Nat /\ Len(t) \in Nat /\ Len(s \o t) = Len(s) + Len(t) /\ i \in Nat /\ i >= 1
  BY SMTT(120)
<1>2. CASE i <= Len(s)
  <2>1. i \in 1..Len(s) /\ (s \o t)[i] = s[i]
    BY SMTT(120), <1>1, <1>2
  <2>. QED
    BY <2>1 DEF Holding
<1>3. CASE i > Len(s)
  <2>1. i - Len(s) \in 1..Len(t) /\ (s \o t)[i] = t[i - Len(s)]
    BY SMTT(120), <1>1, <1>3
  <2>2. t[i - Len(s)] = ByteAt(g[n + Len(s) + (i - Len(s))])
    BY <2>1 DEF Holding
  <2>3. n + Len(s) + (i - Len(s)) = n + i
    BY SMTT(120), <1>1
  <2>. QED
    BY <2>1, <2>2, <2>3
<1>. QED
  BY SMTT(120), <1>1, <1>2, <1>3

LEMMA HoldingSlice ==
  ASSUME NEW g, NEW n \in Nat, NEW s \in Seq(Byte), NEW k \in Nat, k <= Len(s),
         Holding(s, g, n)
  PROVE  Holding(SubSeq(s, 1, k), g, n) /\ Holding(SubSeq(s, k + 1, Len(s)), g, n + k)
<1>1. /\ Len(SubSeq(s, 1, k)) = k /\ Len(SubSeq(s, k + 1, Len(s))) = Len(s) - k
      /\ \A i \in 1..k : SubSeq(s, 1, k)[i] = s[i]
      /\ \A i \in 1..(Len(s) - k) : SubSeq(s, k + 1, Len(s))[i] = s[i + k]
      /\ Len(s) \in Nat
  BY SMTT(120), SliceLengths
<1>2. Holding(SubSeq(s, 1, k), g, n)
  BY SMTT(120), <1>1 DEF Holding
<1>3. ASSUME NEW i \in 1..(Len(s) - k)
      PROVE  SubSeq(s, k + 1, Len(s))[i] = ByteAt(g[n + k + i])
  <2>1. i + k \in 1..Len(s) /\ n + (i + k) = n + k + i
    BY SMTT(120), <1>1
  <2>2. s[i + k] = ByteAt(g[n + (i + k)])
    BY <2>1 DEF Holding
  <2>. QED
    BY <1>1, <2>1, <2>2
<1>. QED
  BY <1>1, <1>2, <1>3 DEF Holding

LEMMA HoldingGrows ==
  ASSUME NEW g, g \in [Nat -> Peers], NEW n \in Nat, NEW s \in Seq(Byte), NEW m \in Nat, NEW q,
         n + Len(s) <= m, Holding(s, g, n)
  PROVE  Holding(s, [g EXCEPT ![m + 1] = q], n)
<1>. SUFFICES ASSUME NEW i \in 1..Len(s)
              PROVE  s[i] = ByteAt([g EXCEPT ![m + 1] = q][n + i])
  BY DEF Holding
<1>1. [g EXCEPT ![m + 1] = q][n + i] = g[n + i]
  BY SMTT(120)
<1>. QED
  BY <1>1 DEF Holding

\* readPacketSize, on a buffer that begins after the first c bytes: the size it
\* takes is the one of the packet that begins there.
LEMMA TakesHeader ==
  ASSUME NEW g, NEW p \in Peers, History(g, p), NEW c \in Nat, NEW s \in Seq(Byte),
         Holding(s, g, c), c + Len(s) <= p.bytes, g[c].left = 0, Len(s) >= HeaderLen
  PROVE  LET d == c + HeaderLen
         IN  /\ s[1].val = g[d].left /\ s[1].val = g[d].size /\ s[1].val > 0
             /\ g[d].payload = g[c].payload /\ s[1].val \in Nat
             /\ s[1].val > MaxMessage => d = p.bytes
<1>. DEFINE d == c + HeaderLen
<1>0. HeaderLen \in Nat /\ HeaderLen >= 1 /\ MaxMessage \in Nat /\ Len(s) \in Nat /\ p.bytes \in Nat
  BY SMTT(120), Constants DEF Peers
<1>1. c \in 0..p.bytes /\ c + 1 \in 0..p.bytes /\ d \in 0..p.bytes /\ d \in Nat /\ 1 \in 1..Len(s)
  BY SMTT(120), <1>0
<1>2. /\ g[c] \in Peers /\ g[c + 1] \in Peers /\ g[d] \in Peers
      /\ g[c].bytes = c /\ g[c + 1].bytes = c + 1 /\ g[d].bytes = d
      /\ Follows(g[c], g[c + 1]) /\ Follows(g[c + 1], g[d])
      /\ d < p.bytes => Ongoing(g[d])
  BY SMTT(120), <1>0, <1>1 DEF History
<1>3. s[1] = ByteAt(g[c + 1])
  BY <1>1 DEF Holding
<1>. HIDE DEF d
<1>4. /\ g[c + 1].size > 0 /\ g[c + 1].left = HeaderLen + g[c + 1].size - 1
      /\ g[c + 1].payload = g[c].payload /\ g[c + 1].size \in Nat
  BY <1>2 DEF Follows, Peers
<1>5. s[1].val = g[c + 1].size
  BY SMTT(120), <1>0, <1>3, <1>4 DEF ByteAt
<1>6. g[d].bytes - g[c + 1].bytes = HeaderLen - 1
  BY SMTT(120), <1>0, <1>2 DEF d
<1>7. g[d].size = g[c + 1].size /\ g[d].left = g[c + 1].size /\ g[d].payload = g[c].payload
  <2>1. Follows(g[c + 1], g[d]) /\ g[c + 1] \in Peers /\ g[d] \in Peers
    BY <1>2
  <2>. QED
    BY SMTT(120), <1>0, <1>4, <1>6, <2>1 DEF Follows
<1>8. s[1].val > MaxMessage => d = p.bytes
  <2>1. s[1].val > MaxMessage => ~Ongoing(g[d])
    BY SMTT(120), <1>0, <1>4, <1>5, <1>7 DEF Ongoing
  <2>2. ~(d < p.bytes) => d = p.bytes
    BY SMTT(120), <1>0, <1>1
  <2>. QED
    BY <1>2, <2>1, <2>2
<1>. QED
  BY <1>4, <1>5, <1>7, <1>8 DEF d

\* c bytes have been taken, s comes next, and size bytes of a packet are left.
Place(g, p, c, s, size) ==
  /\ p \in Peers /\ History(g, p) /\ c \in Nat /\ s \in Seq(Byte)
  /\ Holding(s, g, c) /\ c + Len(s) <= p.bytes
  /\ size \in Nat /\ g[c].left = size /\ size <= g[c].size

\* The filter's buffer and size, before and after readPacketSize.
LEMMA SizeTaken ==
  ASSUME NEW g, NEW p, NEW c, NEW s, NEW size, Place(g, p, c, s, size)
  PROVE  \E d \in Nat :
            /\ d + Len(BufferAfter(size, s)) = c + Len(s)
            /\ Holding(BufferAfter(size, s), g, d)
            /\ g[d].payload = g[c].payload
            /\ g[d].left = SizeAfter(size, s) /\ SizeAfter(size, s) <= g[d].size
            /\ SizeAfter(size, s) = 0 => Len(BufferAfter(size, s)) < HeaderLen
            /\ FormatError(size, s) # <<>> => d = p.bytes
<1>. /\ p \in Peers /\ History(g, p) /\ c \in Nat /\ s \in Seq(Byte)
     /\ Holding(s, g, c) /\ c + Len(s) <= p.bytes
     /\ size \in Nat /\ g[c].left = size /\ size <= g[c].size
  BY DEF Place
<1>0. HeaderLen \in Nat /\ HeaderLen >= 1 /\ Len(s) \in Nat
  BY SMTT(120), Constants
<1>1. CASE ~TakesSize(size, s)
  <2>1. SizeAfter(size, s) = size /\ BufferAfter(size, s) = s /\ FormatError(size, s) = <<>>
    BY <1>1 DEF SizeAfter, BufferAfter, FormatError
  <2>2. size = 0 => Len(s) < HeaderLen
    BY SMTT(120), <1>0, <1>1 DEF TakesSize
  <2>. QED
    BY <2>1, <2>2
<1>2. CASE TakesSize(size, s)
  <2>. DEFINE d == c + HeaderLen
  <2>1. size = 0 /\ Len(s) >= HeaderLen
    BY <1>2 DEF TakesSize
  <2>2. /\ SizeAfter(size, s) = s[1].val
        /\ BufferAfter(size, s) = SubSeq(s, HeaderLen + 1, Len(s))
        /\ FormatError(size, s) # <<>> => s[1].val > MaxMessage
    BY <1>2 DEF SizeAfter, BufferAfter, FormatError
  <2>3. /\ s[1].val = g[d].left /\ s[1].val = g[d].size /\ s[1].val > 0 /\ s[1].val \in Nat
        /\ g[d].payload = g[c].payload
        /\ s[1].val > MaxMessage => d = p.bytes
    BY SMTT(120), <2>1, TakesHeader
  <2>4. Holding(BufferAfter(size, s), g, d) /\ Len(BufferAfter(size, s)) = Len(s) - HeaderLen
    <3>1. /\ Holding(SubSeq(s, HeaderLen + 1, Len(s)), g, c + HeaderLen)
          /\ Len(SubSeq(s, HeaderLen + 1, Len(s))) = Len(s) - HeaderLen
      <4>1. HeaderLen <= Len(s)
        BY <1>0, <2>1
      <4>. QED
        BY <1>0, <4>1, HoldingSlice, SliceLengths
    <3>. QED
      BY <2>2, <3>1
  <2>5. d \in Nat /\ d + Len(BufferAfter(size, s)) = c + Len(s)
    BY SMTT(120), <1>0, <2>4
  <2>6. SizeAfter(size, s) # 0 /\ SizeAfter(size, s) <= g[d].size
    BY SMTT(120), <2>2, <2>3
  <2>. HIDE DEF d
  <2>. QED
    BY <2>2, <2>3, <2>4, <2>5, <2>6
<1>. QED
  BY <1>1, <1>2

\* PacketStreamFilter::read of n bytes of a packet that is there.
LEMMA PacketRead ==
  ASSUME NEW g, NEW p, NEW c, NEW s, NEW size, Place(g, p, c, s, size), size <= Len(s),
         NEW n \in 0..size
  PROVE  /\ \A i \in 1..n : s[i] = [kind |-> "p", val |-> g[c].payload + i]
         /\ g[c + n].payload = g[c].payload + n
         /\ g[c + n].left = size - n /\ g[c + n].size = g[c].size
         /\ g[c].payload + size <= p.whole /\ g[c].payload \in Nat
<1>. /\ p \in Peers /\ History(g, p) /\ c \in Nat /\ s \in Seq(Byte)
     /\ Holding(s, g, c) /\ c + Len(s) <= p.bytes
     /\ size \in Nat /\ g[c].left = size /\ size <= g[c].size
  BY DEF Place
<1>0. Len(s) \in Nat /\ p.bytes \in Nat /\ c \in 0..p.bytes /\ g[p.bytes] = p
  <2>1. Len(s) \in Nat /\ p.bytes \in Nat
    BY SMTT(120) DEF Peers
  <2>2. c \in 0..p.bytes
    BY SMTT(120), <2>1
  <2>. QED
    BY <2>1, <2>2 DEF History
<1>1. ASSUME NEW i \in 0..size
      PROVE  /\ g[c + i].size = g[c].size /\ g[c + i].left = size - i
             /\ g[c + i].payload = g[c].payload + i
             /\ Sound(g[c + i]) /\ Follows(g[c + i], p) /\ g[c + i] \in Peers
  <2>1. c + i \in 0..p.bytes /\ c <= c + i /\ p.bytes \in 0..p.bytes /\ c + i <= p.bytes
    BY SMTT(120), <1>0
  <2>2. /\ g[c] \in Peers /\ g[c + i] \in Peers /\ g[c].bytes = c /\ g[c + i].bytes = c + i
        /\ Follows(g[c], g[c + i]) /\ Sound(g[c + i]) /\ Follows(g[c + i], p)
    BY SMTT(120), <1>0, <2>1 DEF History
  <2>3. g[c + i].bytes - g[c].bytes = i
    BY SMTT(120), <2>2
  <2>4. Follows(g[c], g[c + i]) /\ i \in Nat /\ i <= size
    BY SMTT(120), <2>2
  <2>5. /\ g[c + i].size = g[c].size /\ g[c + i].left = size - i
        /\ g[c + i].payload = g[c].payload + i
    BY SMTT(120), <2>3, <2>4 DEF Follows
  <2>. QED
    BY <2>2, <2>5
<1>2. g[c] \in Peers /\ g[c].payload \in Nat /\ g[c].size \in Nat
  BY <1>0 DEF History, Peers
<1>3. ASSUME NEW i \in 1..n PROVE s[i] = [kind |-> "p", val |-> g[c].payload + i]
  <2>1. i \in 0..size /\ i \in 1..Len(s) /\ i >= 1
    BY SMTT(120), <1>0
  <2>2. s[i] = ByteAt(g[c + i])
    BY <2>1 DEF Holding
  <2>3. g[c + i].left < g[c + i].size
    BY SMTT(120), <1>1, <1>2, <2>1
  <2>. QED
    BY <1>1, <2>1, <2>2, <2>3 DEF ByteAt
<1>4. g[c].payload + size <= p.whole
  <2>1. size \in 0..size
    BY SMTT(120)
  <2>2. g[c + size].left = 0 /\ g[c + size].payload = g[c].payload + size
    BY SMTT(120), <1>1, <2>1
  <2>3. g[c + size].whole = g[c + size].payload /\ g[c + size].whole <= p.whole
    BY <1>1, <2>1, <2>2 DEF Sound, Follows
  <2>. QED
    BY <2>2, <2>3
<1>. QED
  BY <1>1, <1>2, <1>3, <1>4

\* With less than a header left there is no packet that was not read.
LEMMA AllRead ==
  ASSUME NEW g, NEW p \in Peers, History(g, p), NEW c \in Nat, c <= p.bytes,
         g[c].left = 0, p.bytes < c + HeaderLen
  PROVE  g[c].payload = p.whole
<1>0. HeaderLen \in Nat /\ HeaderLen >= 1 /\ p.bytes \in Nat /\ c \in 0..p.bytes
  BY SMTT(120), Constants DEF Peers
<1>1. /\ g[c] \in Peers /\ Sound(g[c]) /\ g[p.bytes] = p /\ g[c].bytes = c
      /\ Follows(g[c], p) /\ Sound(p)
  BY SMTT(120), <1>0 DEF History
<1>2. g[c].whole = g[c].payload /\ g[c].whole <= p.whole /\ p.whole <= p.payload
  BY <1>1 DEF Sound, Follows
<1>3. p.payload = g[c].payload
  <2>1. CASE c = p.bytes
    BY <1>1, <2>1
  <2>2. CASE c < p.bytes
    <3>1. c + 1 \in 0..p.bytes /\ c + 1 <= p.bytes
      BY SMTT(120), <1>0, <2>2
    <3>2. /\ g[c + 1] \in Peers /\ g[c + 1].bytes = c + 1 /\ Follows(g[c], g[c + 1])
          /\ Follows(g[c + 1], p)
      BY SMTT(120), <1>0, <1>1, <3>1 DEF History
    <3>3. /\ g[c + 1].size \in Nat /\ g[c + 1].left = HeaderLen + g[c + 1].size - 1
          /\ g[c + 1].payload = g[c].payload
      BY <1>1, <3>2 DEF Follows, Peers
    <3>4. p.bytes - g[c + 1].bytes <= g[c + 1].left
          /\ g[c + 1].left - (p.bytes - g[c + 1].bytes) >= g[c + 1].size
      BY SMTT(120), <1>0, <3>1, <3>2, <3>3
    <3>. QED
      BY <3>2, <3>3, <3>4 DEF Follows
  <2>. QED
    BY SMTT(120), <1>0, <2>1, <2>2
<1>. QED
  BY SMTT(120), <1>1, <1>2, <1>3 DEF Peers

-----------------------------------------------------------------------------
(* The pipe: input, step by step *)

LEMMA HoldingNone == ASSUME NEW g, NEW n PROVE Holding(<<>>, g, n)
BY SMTT(120) DEF Holding

LEMMA GetSizes ==
  ASSUME Types
  PROVE  /\ Len(delivered) \in Nat /\ Len(m_buffer) \in Nat /\ Len(m_inputBuffer) \in Nat
         /\ Len(inNet) \in Nat /\ m_size \in Nat /\ peer \in Peers /\ peer.bytes \in Nat
BY SMTT(120) DEF Types, Input, Rest, Peers

LEMMA InitGet == Init => GetInv
<1>. SUFFICES ASSUME Init PROVE GetInv
  OBVIOUS
<1>. DEFINE g == [i \in Nat |-> peer]
<1>0. /\ delivered = <<>> /\ m_buffer = <<>> /\ m_inputBuffer = <<>> /\ inNet = <<>>
      /\ m_size = 0 /\ endTold = 0
  BY DEF Init
<1>1. /\ peer \in Peers /\ peer.bytes = 0 /\ peer.left = 0 /\ peer.size = 0
      /\ peer.payload = 0 /\ peer.whole = 0
  BY DEF Init, Peers
<1>2. Sound(peer) /\ Follows(peer, peer) /\ Ongoing(peer)
  BY SMTT(120), <1>1, Constants DEF Sound, Follows, Ongoing
<1>3. g \in [Nat -> Peers] /\ \A i \in Nat : g[i] = peer
  BY <1>1
<1>. HIDE DEF g
<1>4. \A i \in 0..0 : i = 0 /\ i \in Nat
  BY SMTT(120)
<1>5. History(g, peer)
  BY <1>1, <1>2, <1>3, <1>4 DEF History
<1>6. Len(<<>>) = 0 /\ 0 \in Nat /\ HeaderLen > 0
  BY SMTT(120), Constants
<1>7. Track(g, 0)
  BY SMTT(120), <1>0, <1>1, <1>3, <1>6, HoldingNone DEF Track
<1>8. InOrder
  BY SMTT(120), <1>0, <1>6 DEF InOrder
<1>. QED
  BY <1>0, <1>3, <1>5, <1>6, <1>7, <1>8 DEF GetInv, Tracked

LEMMA GetKept ==
  ASSUME GetInv, UNCHANGED <<delivered, m_size, m_buffer, m_inputBuffer, inNet, peer, endTold>>,
         Attended' => Attended, Intact' => Intact
  PROVE  GetInv'
<1>1. Tracked => Tracked'
  <2>1. \A g, c : Track(g, c) => Track(g, c)'
    BY DEF Track
  <2>. QED
    BY <2>1 DEF Tracked
<1>. QED
  BY <1>1 DEF GetInv, InOrder

\* This end has begun to close.
LEMMA GetClosed == ASSUME GetInv, UNCHANGED delivered, ~Attended' PROVE GetInv'
BY DEF GetInv, InOrder

\* The input that was not read is given up.
LEMMA GetDropped ==
  ASSUME Types, GetInv, UNCHANGED <<delivered, m_size, m_buffer, peer, endTold>>,
         Attended' => Attended, m_inputBuffer' = <<>>, ~Intact'
  PROVE  GetInv'
<1>1. Tracked => Tracked'
  <2>. SUFFICES ASSUME NEW g \in [Nat -> Peers], NEW c \in Nat, History(g, peer), Track(g, c)
                PROVE  Track(g, c)'
    BY DEF Tracked
  <2>1. /\ Len(m_buffer) \in Nat /\ Len(m_inputBuffer) \in Nat /\ peer.bytes \in Nat
        /\ Len(m_inputBuffer') = 0
    BY GetSizes
  <2>2. c + Len(m_buffer) + Len(m_inputBuffer') <= peer.bytes
    BY SMTT(120), <2>1 DEF Track
  <2>. QED
    BY <2>2, HoldingNone DEF Track
<1>. QED
  BY <1>1 DEF GetInv, InOrder

LEMMA DoGet ==
  ASSUME Types, GetInv, NEW w, NEW n, NEW r, NEW k,
         Outcome(w, n, r, k), DoWriteDoRead(w, n, r, k), Around
  PROVE  GetInv'
<1>. DEFINE gone == w \in {"disconnected", "error"} \/ r = "disconnected"
            first == SubSeq(inNet, 1, k)
            later == SubSeq(inNet, k + 1, Len(inNet))
<1>0. /\ Len(m_buffer) \in Nat /\ Len(m_inputBuffer) \in Nat /\ peer.bytes \in Nat
      /\ Len(inNet) \in Nat /\ inNet \in Seq(Byte) /\ m_inputBuffer \in Seq(Byte)
  BY GetSizes DEF Types, Input
<1>1. /\ k \in 0..Len(inNet) /\ k \in Nat /\ k <= Len(inNet) /\ (k > 0 => m_readable)
      /\ (gone => link = "reset")
  BY SMTT(120), <1>0 DEF Outcome
<1>2. /\ m_readable' = (m_readable /\ ~gone /\ r # "eof")
      /\ m_inputBuffer' = IF gone THEN <<>> ELSE m_inputBuffer \o first
      /\ inNet' = later
  BY DEF DoWriteDoRead
<1>3. UNCHANGED <<delivered, m_size, m_buffer, peer, endTold, link, call>>
  BY DEF Around, callVars, filterVars, ownerVars
<1>. HIDE DEF gone
<1>4. CASE gone
  <2>1. ~Intact' /\ m_inputBuffer' = <<>>
    BY <1>1, <1>2, <1>3, <1>4 DEF Intact
  <2>. QED
    BY <1>3, <2>1, GetDropped DEF Attended
<1>5. CASE ~gone
  <2>0. /\ first \in Seq(Byte) /\ later \in Seq(Byte) /\ Len(first) = k /\ Len(later) = Len(inNet) - k
        /\ Len(m_inputBuffer') = Len(m_inputBuffer) + k /\ m_inputBuffer' = m_inputBuffer \o first
    <3>1. first \in Seq(Byte) /\ later \in Seq(Byte) /\ Len(first) = k /\ Len(later) = Len(inNet) - k
      BY <1>0, <1>1, Slices, SliceLengths
    <3>. HIDE DEF first, later
    <3>. QED
      BY <1>0, <1>2, <1>5, <3>1, Joins
  <2>1. Intact' => Intact
    BY <1>2, <1>3 DEF Intact
  <2>2. Tracked => Tracked'
    <3>. SUFFICES ASSUME NEW g \in [Nat -> Peers], NEW c \in Nat, History(g, peer), Track(g, c)
                  PROVE  Track(g, c)'
      BY <1>3 DEF Tracked
    <3>1. CASE Intact
      <4>1. /\ c + Len(m_buffer) + Len(m_inputBuffer) + Len(inNet) = peer.bytes
            /\ Holding(inNet, g, c + Len(m_buffer) + Len(m_inputBuffer))
            /\ Holding(m_inputBuffer, g, c + Len(m_buffer))
        BY <3>1 DEF Track
      <4>2. /\ Holding(first, g, c + Len(m_buffer) + Len(m_inputBuffer))
            /\ Holding(later, g, c + Len(m_buffer) + Len(m_inputBuffer) + k)
        BY SMTT(120), <1>0, <1>1, <4>1, HoldingSlice
      <4>. HIDE DEF first, later
      <4>3. Holding(m_inputBuffer', g, c + Len(m_buffer))
        BY SMTT(120), <1>0, <2>0, <4>1, <4>2, HoldingJoin
      <4>4. /\ c + Len(m_buffer) + Len(m_inputBuffer') + Len(later) = peer.bytes
            /\ c + Len(m_buffer) + Len(m_inputBuffer') <= peer.bytes
            /\ c + Len(m_buffer) + Len(m_inputBuffer) + k = c + Len(m_buffer) + Len(m_inputBuffer')
        BY SMTT(120), <1>0, <1>1, <2>0, <4>1
      <4>5. Holding(inNet', g, c + Len(m_buffer) + Len(m_inputBuffer'))
        BY <1>2, <4>2, <4>4
      <4>. QED
        BY <1>2, <1>3, <4>3, <4>4, <4>5 DEF Track
    <3>2. CASE ~Intact
      <4>1. k = 0
        BY SMTT(120), <1>0, <1>1, <3>2 DEF Intact
      <4>2. first = <<>>
        BY SMTT(120), <1>0, <4>1
      <4>3. m_inputBuffer' = m_inputBuffer
        BY SMTT(120), <1>0, <2>0, <4>2
      <4>. QED
        BY <1>3, <2>1, <3>2, <4>3 DEF Track
    <3>. QED
      BY <3>1, <3>2
  <2>. QED
    BY <1>3, <2>2 DEF GetInv, InOrder, Attended
<1>. QED
  BY <1>4, <1>5

LEMMA PeerGet == ASSUME Types, GetInv, PeerSend PROVE GetInv'
<1>0. /\ Len(m_buffer) \in Nat /\ Len(m_inputBuffer) \in Nat /\ peer.bytes \in Nat
      /\ Len(inNet) \in Nat /\ inNet \in Seq(Byte) /\ m_inputBuffer \in Seq(Byte)
      /\ m_buffer \in Seq(Byte) /\ peer \in Peers /\ peer' \in Peers
  BY GetSizes, PeerTypes DEF Types, Input, Rest
<1>1. PICK size \in IF peer.left = 0 THEN Sizes ELSE {peer.size} :
          /\ peer' = [size    |-> size,
                      left    |-> IF peer.left = 0 THEN HeaderLen + size - 1
                                  ELSE peer.left - 1,
                      payload |-> IF peer.left \in 1..size THEN peer.payload + 1
                                  ELSE peer.payload,
                      whole   |-> IF peer.left = 1 THEN peer.payload + 1
                                  ELSE peer.whole,
                      bytes   |-> peer.bytes + 1]
          /\ inNet' = Append(inNet, SentByte(size))
  BY DEF PeerSend, SentByte
<1>2. /\ link = "open" /\ Attended /\ Ongoing(peer)
      /\ UNCHANGED <<delivered, m_size, m_buffer, m_inputBuffer, endTold, link, call>>
  BY DEF PeerSend, Ongoing, bufVars, callVars, filterVars, ownerVars
<1>3. PICK g \in [Nat -> Peers], c \in Nat : History(g, peer) /\ Track(g, c)
  BY <1>2 DEF GetInv, Tracked
<1>4. PICK q \in Peers : q = peer'
  BY <1>0
<1>5. Sound(peer)
  BY SMTT(120), <1>0, <1>3 DEF History
<1>6. Advance(peer, q, size)
  <2>1. size \in Nat /\ size > 0 /\ (peer.left # 0 => size = peer.size)
    <3>1. CASE peer.left = 0
      BY SMTT(120), <3>1, Constants
    <3>2. CASE peer.left # 0
      <4>1. peer.left \in Nat /\ peer.size \in Nat
        BY <1>0 DEF Peers
      <4>. QED
        BY SMTT(120), <1>5, <3>2, <4>1 DEF Sound
    <3>. QED
      BY <3>1, <3>2
  <2>. QED
    BY <1>1, <1>4, <2>1 DEF Advance
<1>7. SentByte(size) = ByteAt(q) /\ q.bytes = peer.bytes + 1
  <2>1. ByteAt(q) = IF q.payload > peer.payload THEN [kind |-> "p", val |-> q.payload]
                    ELSE [kind |-> "h", val |-> size]
    BY <1>0, <1>5, <1>6, AdvanceFacts
  <2>2. q.bytes = peer.bytes + 1
    BY <1>6 DEF Advance
  <2>. QED
    BY <1>4, <2>1, <2>2 DEF SentByte
<1>7b. PICK h : h = [g EXCEPT ![peer.bytes + 1] = q]
  OBVIOUS
<1>8. h \in [Nat -> Peers] /\ h[peer.bytes + 1] = q /\ \A i \in 0..peer.bytes : h[i] = g[i]
  BY SMTT(120), <1>0, <1>7b
<1>9. History(h, q)
  BY <1>0, <1>7b, <1>2, <1>3, <1>6, HistoryGrows
<1>10. /\ c + Len(m_buffer) + Len(m_inputBuffer) + Len(inNet) = peer.bytes
       /\ Holding(inNet, g, c + Len(m_buffer) + Len(m_inputBuffer))
       /\ Holding(m_buffer, g, c) /\ Holding(m_inputBuffer, g, c + Len(m_buffer))
  BY <1>2, <1>3 DEF Track, Intact
<1>11. /\ Holding(inNet, h, c + Len(m_buffer) + Len(m_inputBuffer))
       /\ Holding(m_buffer, h, c) /\ Holding(m_inputBuffer, h, c + Len(m_buffer))
  <2>1. /\ c + Len(m_buffer) <= peer.bytes /\ c + Len(m_buffer) + Len(m_inputBuffer) <= peer.bytes
        /\ c + Len(m_buffer) \in Nat /\ c + Len(m_buffer) + Len(m_inputBuffer) \in Nat
        /\ c + Len(m_buffer) + Len(m_inputBuffer) + Len(inNet) <= peer.bytes
    BY SMTT(120), <1>0, <1>10
  <2>. QED
    BY <1>0, <1>7b, <1>10, <2>1, HoldingGrows
<1>12. h[c] = g[c]
  <2>1. c \in 0..peer.bytes
    BY SMTT(120), <1>0, <1>10
  <2>. QED
    BY <1>8, <2>1
<1>13. /\ Holding(inNet', h, c + Len(m_buffer) + Len(m_inputBuffer))
       /\ Len(inNet') = Len(inNet) + 1
  <2>1. PICK b \in Byte : b = ByteAt(q)
    <3>1. q.payload \in Nat /\ q.size \in Nat
      BY DEF Peers
    <3>2. [kind |-> "p", val |-> q.payload] \in Byte /\ [kind |-> "h", val |-> q.size] \in Byte
      BY <3>1 DEF Byte
    <3>. QED
      BY <3>2 DEF ByteAt
  <2>2. inNet' = inNet \o <<b>> /\ <<b>> \in Seq(Byte) /\ Len(<<b>>) = 1 /\ Len(inNet') = Len(inNet) + 1
    BY SMTT(120), <1>0, <1>1, <1>7, <2>1, Appends
  <2>3. Holding(<<b>>, h, peer.bytes)
    BY SMTT(120), <1>8, <2>1 DEF Holding
  <2>4. Holding(<<b>>, h, c + Len(m_buffer) + Len(m_inputBuffer) + Len(inNet))
    BY <1>10, <2>3
  <2>5. c + Len(m_buffer) + Len(m_inputBuffer) \in Nat
    BY SMTT(120), <1>0
  <2>. QED
    BY <1>0, <1>11, <2>2, <2>4, <2>5, HoldingJoin
<1>14. /\ c + Len(m_buffer) + Len(m_inputBuffer) <= peer'.bytes
       /\ c + Len(m_buffer) + Len(m_inputBuffer) + Len(inNet') = peer'.bytes
  BY SMTT(120), <1>0, <1>4, <1>7, <1>10, <1>13
<1>15. Track(h, c)'
  BY <1>2, <1>3, <1>11, <1>12, <1>13, <1>14 DEF Track
<1>16. Tracked'
  BY <1>4, <1>8, <1>9, <1>15 DEF Tracked
<1>. QED
  BY <1>2, <1>16 DEF GetInv, InOrder

\* One turn of readMore: and when the packet it finds is too long, it has read
\* all there was.
LEMMA ReadMoreGet ==
  ASSUME Types, GetInv, ReadMore
  PROVE  GetInv' /\ (call' # "readmore" => m_inputBuffer' = <<>>)
<1>. DEFINE n == IF Len(m_inputBuffer) < ReadChunk THEN Len(m_inputBuffer) ELSE ReadChunk
            first == SubSeq(m_inputBuffer, 1, n)
            buffer == m_buffer \o first
            error == FormatError(m_size, buffer)
            rest == SubSeq(m_inputBuffer, n + 1, Len(m_inputBuffer))
<1>0. /\ Len(m_buffer) \in Nat /\ Len(m_inputBuffer) \in Nat /\ peer.bytes \in Nat
      /\ Len(inNet) \in Nat /\ inNet \in Seq(Byte) /\ m_inputBuffer \in Seq(Byte)
      /\ m_buffer \in Seq(Byte) /\ peer \in Peers /\ m_size \in Nat
  BY GetSizes DEF Types, Input, Rest
<1>1. /\ call = "readmore" /\ m_inputBuffer' = rest
      /\ m_size' = IF n > 0 THEN SizeAfter(m_size, buffer) ELSE m_size
      /\ m_buffer' = IF n > 0 THEN BufferAfter(m_size, buffer) ELSE m_buffer
      /\ (n > 0 /\ error = <<>> => call' = "readmore")
      /\ UNCHANGED <<delivered, endTold, peer, inNet, m_readable, link>>
  BY DEF ReadMore, Read, netVars, ownerVars
<1>2. n \in Nat /\ n <= Len(m_inputBuffer) /\ (n = 0 => m_inputBuffer = <<>>)
  BY SMTT(120), <1>0, Constants
<1>. HIDE DEF n
<1>3. /\ first \in Seq(Byte) /\ rest \in Seq(Byte) /\ Len(first) = n
      /\ Len(rest) = Len(m_inputBuffer) - n
  BY <1>0, <1>2, Slices, SliceLengths
<1>4. CASE n = 0
  <2>1. m_inputBuffer' = <<>> /\ m_inputBuffer = <<>> /\ UNCHANGED <<m_size, m_buffer>>
    BY SMTT(120), <1>0, <1>1, <1>2, <1>4
  <2>2. GetInv'
    BY <1>1, <2>1, GetKept DEF Attended, Intact
  <2>. QED
    BY <2>1, <2>2
<1>5. CASE n > 0
  <2>1. PICK g \in [Nat -> Peers], c \in Nat : History(g, peer) /\ Track(g, c)
    BY <1>1 DEF GetInv, Tracked, Attended
  <2>2. /\ g[c].left = m_size /\ m_size <= g[c].size /\ g[c].payload = Len(delivered)
        /\ c + Len(m_buffer) + Len(m_inputBuffer) <= peer.bytes
        /\ Holding(m_buffer, g, c) /\ Holding(m_inputBuffer, g, c + Len(m_buffer))
    BY <2>1 DEF Track
  <2>3. Holding(first, g, c + Len(m_buffer)) /\ Holding(rest, g, c + Len(m_buffer) + n)
    BY SMTT(120), <1>0, <1>2, <2>2, HoldingSlice
  <2>. HIDE DEF first, rest
  <2>4. /\ buffer \in Seq(Byte) /\ Len(buffer) = Len(m_buffer) + n
        /\ Holding(buffer, g, c)
    BY <1>0, <1>3, <2>2, <2>3, Joins, HoldingJoin
  <2>5. c + Len(buffer) <= peer.bytes
    BY SMTT(120), <1>0, <1>2, <2>2, <2>4
  <2>. HIDE DEF buffer
  <2>6. PICK d \in Nat :
            /\ d + Len(BufferAfter(m_size, buffer)) = c + Len(buffer)
            /\ Holding(BufferAfter(m_size, buffer), g, d)
            /\ g[d].payload = g[c].payload
            /\ g[d].left = SizeAfter(m_size, buffer) /\ SizeAfter(m_size, buffer) <= g[d].size
            /\ SizeAfter(m_size, buffer) = 0 => Len(BufferAfter(m_size, buffer)) < HeaderLen
            /\ FormatError(m_size, buffer) # <<>> => d = peer.bytes
    <3>1. Place(g, peer, c, buffer, m_size)
      BY <1>0, <2>1, <2>2, <2>4, <2>5 DEF Place
    <3>. QED
      BY SMTT(120), <3>1, SizeTaken
  <2>7. m_size' = SizeAfter(m_size, buffer) /\ m_buffer' = BufferAfter(m_size, buffer)
        /\ Len(m_buffer') \in Nat
    BY SMTT(120), <1>0, <1>1, <1>5, <2>4, FilterTypes
  <2>8. /\ d + Len(m_buffer') = c + Len(m_buffer) + n
        /\ d + Len(m_buffer') + Len(m_inputBuffer') = c + Len(m_buffer) + Len(m_inputBuffer)
        /\ d + Len(m_buffer') + Len(m_inputBuffer') <= peer.bytes
    <3>1. /\ Len(m_inputBuffer') = Len(m_inputBuffer) - n
          /\ d + Len(m_buffer') = c + Len(buffer) /\ Len(buffer) = Len(m_buffer) + n
          /\ c + Len(m_buffer) + Len(m_inputBuffer) <= peer.bytes
      BY <1>1, <1>3, <2>2, <2>4, <2>6, <2>7
    <3>2. /\ Len(m_buffer') \in Nat /\ Len(m_buffer) \in Nat /\ Len(m_inputBuffer) \in Nat
          /\ peer.bytes \in Nat
      BY <1>0, <2>7
    <3>. QED
      BY SMTT(120), <1>2, <3>1, <3>2
  <2>9. Track(g, d)'
    <3>1. Intact' <=> Intact
      BY <1>1 DEF Intact
    <3>2. Holding(m_inputBuffer', g, d + Len(m_buffer'))
      BY <1>1, <2>3, <2>8
    <3>3. Intact => /\ d + Len(m_buffer') + Len(m_inputBuffer') + Len(inNet) = peer.bytes
                    /\ Holding(inNet, g, d + Len(m_buffer') + Len(m_inputBuffer'))
      BY <2>1, <2>8 DEF Track
    <3>. QED
      BY <1>1, <2>2, <2>6, <2>7, <2>8, <3>1, <3>2, <3>3 DEF Track
  <2>10. GetInv'
    <3>1. Tracked'
      BY <1>1, <2>1, <2>9 DEF Tracked
    <3>. QED
      BY <1>1, <2>6, <2>7, <3>1 DEF GetInv, InOrder, Attended
  <2>11. ASSUME call' # "readmore" PROVE m_inputBuffer' = <<>>
    <3>1. d = peer.bytes
      BY <1>1, <1>5, <2>6, <2>11
    <3>2. d + Len(m_buffer') + Len(rest) <= d
      BY <1>1, <2>8, <3>1
    <3>3. Len(m_buffer') \in Nat /\ rest \in Seq(Byte)
      BY <1>3, <2>7
    <3>4. rest = <<>>
      BY SMTT(120), <3>2, <3>3
    <3>. QED
      BY <1>1, <3>4
  <2>. QED
    BY <2>10, <2>11
<1>. QED
  BY SMTT(120), <1>2, <1>4, <1>5

LEMMA FilterReadGet ==
  ASSUME Types, GetInv, Attended, IsReady(m_size, m_buffer), NEW asked \in Nat, asked >= 1,
         FilterRead(asked), UNCHANGED <<m_inputBuffer, inNet, peer, m_readable, link, endTold>>
  PROVE  /\ GetInv'
         /\ Len(delivered') > Len(delivered) /\ Len(delivered') <= peer.whole
<1>. DEFINE n == IF asked > m_size THEN m_size ELSE asked
            first == SubSeq(m_buffer, 1, n)
            rest == SubSeq(m_buffer, n + 1, Len(m_buffer))
            left == m_size - n
<1>0. /\ Len(m_buffer) \in Nat /\ Len(m_inputBuffer) \in Nat /\ peer.bytes \in Nat
      /\ Len(inNet) \in Nat /\ m_buffer \in Seq(Byte) /\ peer \in Peers /\ m_size \in Nat
      /\ delivered \in Seq(Byte) /\ Len(delivered) \in Nat /\ m_size <= Len(m_buffer) /\ m_size > 0
  BY SMTT(120), GetSizes DEF Types, Input, Rest, IsReady
<1>1. n \in 0..m_size /\ n \in Nat /\ n > 0 /\ n <= Len(m_buffer) /\ left \in Nat
  BY SMTT(120), <1>0
<1>2. /\ m_size' = SizeAfter(left, rest)
      /\ m_buffer' = BufferAfter(left, rest)
      /\ delivered' = delivered \o first
  BY DEF FilterRead
<1>. HIDE DEF n
<1>3. /\ first \in Seq(Byte) /\ rest \in Seq(Byte) /\ Len(first) = n
      /\ Len(rest) = Len(m_buffer) - n
      /\ \A i \in 1..n : first[i] = m_buffer[i]
  BY <1>0, <1>1, Slices, SliceLengths
<1>4. PICK g \in [Nat -> Peers], c \in Nat : History(g, peer) /\ Track(g, c)
  BY DEF GetInv, Tracked
<1>5. /\ g[c].left = m_size /\ m_size <= g[c].size /\ g[c].payload = Len(delivered)
      /\ c + Len(m_buffer) + Len(m_inputBuffer) <= peer.bytes
      /\ Holding(m_buffer, g, c) /\ Holding(m_inputBuffer, g, c + Len(m_buffer))
  BY <1>4 DEF Track
<1>6. c + Len(m_buffer) <= peer.bytes
  BY SMTT(120), <1>0, <1>5
<1>7. /\ \A i \in 1..n : m_buffer[i] = [kind |-> "p", val |-> g[c].payload + i]
      /\ g[c + n].payload = g[c].payload + n
      /\ g[c + n].left = m_size - n /\ g[c + n].size = g[c].size
      /\ g[c].payload + m_size <= peer.whole
  <2>1. Place(g, peer, c, m_buffer, m_size)
    BY <1>0, <1>4, <1>5, <1>6 DEF Place
  <2>2. m_size <= Len(m_buffer) /\ n \in 0..m_size
    BY <1>0, <1>1
  <2>. QED
    BY SMTT(120), <2>1, <2>2, PacketRead
<1>8. Holding(rest, g, c + n)
  BY <1>0, <1>1, <1>5, HoldingSlice
<1>. HIDE DEF first, rest
<1>9. Len(delivered') = Len(delivered) + n
  BY <1>0, <1>2, <1>3, Joins
<1>10. InOrder'
  <2>. SUFFICES ASSUME NEW i \in 1..Len(delivered')
                PROVE  delivered'[i] = [kind |-> "p", val |-> i]
    BY DEF InOrder
  <2>1. CASE i <= Len(delivered)
    <3>1. i \in 1..Len(delivered) /\ delivered'[i] = delivered[i]
      BY SMTT(120), <1>0, <1>2, <1>3, <2>1, Joins
    <3>. QED
      BY <3>1 DEF GetInv, InOrder
  <2>2. CASE i > Len(delivered)
    <3>. DEFINE j == i - Len(delivered)
    <3>1. j \in 1..n /\ Len(delivered) + j = i
      BY SMTT(120), <1>0, <1>1, <1>9, <2>2
    <3>. HIDE DEF j
    <3>2. delivered'[Len(delivered) + j] = first[j]
      BY SMTT(120), <1>0, <1>2, <1>3, <3>1, Joins
    <3>. QED
      BY <1>3, <1>5, <1>7, <3>1, <3>2
  <2>. QED
    BY SMTT(120), <1>0, <1>9, <2>1, <2>2
<1>11. Len(delivered') > Len(delivered) /\ Len(delivered') <= peer.whole
  <2>1. Len(delivered) + m_size <= peer.whole
    BY <1>5, <1>7
  <2>2. peer.whole \in Nat /\ n <= m_size
    BY SMTT(120), <1>0, <1>1 DEF Peers
  <2>. QED
    BY SMTT(120), <1>0, <1>1, <1>9, <2>1, <2>2
<1>12. /\ c + n \in Nat /\ c + n + Len(rest) = c + Len(m_buffer)
       /\ c + n + Len(rest) <= peer.bytes /\ g[c + n].left = left /\ left <= g[c + n].size
  <2>1. g[c + n].size \in Nat
    BY SMTT(120), <1>0, <1>1, <1>4 DEF Peers
  <2>. QED
    BY SMTT(120), <1>0, <1>1, <1>3, <1>5, <1>6, <1>7, <2>1
<1>. HIDE DEF left
<1>13. PICK d \in Nat :
            /\ d + Len(BufferAfter(left, rest)) = c + n + Len(rest)
            /\ Holding(BufferAfter(left, rest), g, d)
            /\ g[d].payload = g[c + n].payload
            /\ g[d].left = SizeAfter(left, rest) /\ SizeAfter(left, rest) <= g[d].size
            /\ SizeAfter(left, rest) = 0 => Len(BufferAfter(left, rest)) < HeaderLen
            /\ FormatError(left, rest) # <<>> => d = peer.bytes
  <2>1. Place(g, peer, c + n, rest, left)
    BY <1>0, <1>1, <1>3, <1>4, <1>8, <1>12 DEF Place
  <2>. QED
    BY SMTT(120), <2>1, SizeTaken
<1>14. d + Len(m_buffer') = c + Len(m_buffer)
  BY <1>2, <1>12, <1>13
<1>15. Track(g, d)'
  <2>1. Intact' <=> Intact
    BY DEF Intact
  <2>2. g[d].payload = Len(delivered')
    BY <1>5, <1>7, <1>9, <1>13
  <2>3. /\ Holding(m_inputBuffer, g, d + Len(m_buffer'))
        /\ d + Len(m_buffer') + Len(m_inputBuffer) <= peer.bytes
        /\ Intact => /\ d + Len(m_buffer') + Len(m_inputBuffer) + Len(inNet) = peer.bytes
                     /\ Holding(inNet, g, d + Len(m_buffer') + Len(m_inputBuffer))
    BY <1>4, <1>14 DEF Track
  <2>. QED
    BY <1>2, <1>13, <2>1, <2>2, <2>3 DEF Track
<1>16. Tracked'
  BY <1>4, <1>15 DEF Tracked
<1>. QED
  BY <1>2, <1>10, <1>11, <1>13, <1>16 DEF GetInv

LEMMA OwnerReadsGet ==
  ASSUME Types, GetInv, OwnerReads
  PROVE  /\ GetInv'
         /\ \/ UNCHANGED delivered
            \/ Len(delivered') > Len(delivered) /\ Len(delivered') <= peer.whole
<1>0. /\ call = "deliver" /\ call' \in {"deliver", "idle"}
      /\ UNCHANGED <<m_inputBuffer, inNet, peer, m_readable, link, endTold>>
  BY DEF OwnerReads, bufVars, flagVars, netVars
<1>1. CASE IsReady(m_size, m_buffer)
  <2>1. PICK asked \in 1..MaxMessage : FilterRead(asked)
    BY <1>1 DEF OwnerReads
  <2>2. asked \in Nat /\ asked >= 1
    BY SMTT(120), Constants
  <2>. QED
    BY <1>0, <1>1, <2>1, <2>2, FilterReadGet DEF Attended
<1>2. CASE ~IsReady(m_size, m_buffer)
  <2>1. UNCHANGED <<m_size, m_buffer, delivered>>
    BY <1>2 DEF OwnerReads, filterVars
  <2>. QED
    BY <1>0, <2>1, GetKept DEF Attended, Intact
<1>. QED
  BY <1>1, <1>2

LEMMA ServiceGet ==
  ASSUME Types, GetInv, ServiceJob, UNCHANGED <<filterVars, ownerVars, peer>>
  PROVE  GetInv'
<1>0. UNCHANGED <<delivered, m_size, m_buffer, peer, endTold>>
  BY DEF filterVars, ownerVars
<1>1. CASE ServiceConnecting
  <2>1. UNCHANGED <<inNet, link, call>>
    BY <1>1 DEF ServiceConnecting, callVars, netVars
  <2>2. CASE link = "reset" /\ OnDisconnected
    BY <1>0, <2>1, <2>2, GetDropped DEF OnDisconnected, Intact, Attended
  <2>3. CASE link \in {"open", "eof"} /\ UNCHANGED m_inputBuffer
    BY <1>0, <2>1, <2>3, GetKept DEF Intact, Attended
  <2>. QED
    BY <1>1, <2>2, <2>3 DEF ServiceConnecting
<1>2. CASE ServiceHandshake
  <2>1. UNCHANGED <<inNet, link, call, m_inputBuffer, m_readable>>
    BY <1>2 DEF ServiceHandshake, flagVars, bufVars, callVars, netVars
  <2>. QED
    BY <1>0, <2>1, GetKept DEF Intact, Attended
<1>3. CASE ServiceConnected
  <2>0. Around
    BY <1>3, ConnectedIs
  <2>1. CASE ConnectedLost
    <3>1. UNCHANGED <<link, call>>
      BY <2>0 DEF Around, callVars
    <3>. QED
      BY <1>0, <2>1, <3>1, GetDropped DEF ConnectedLost, OnDisconnected, Intact, Attended
  <2>2. CASE ~ConnectedLost
    <3>1. PICK w, n, r, k : Outcome(w, n, r, k) /\ DoWriteDoRead(w, n, r, k)
      BY <1>3, <2>2, ConnectedIs
    <3>. QED
      BY <2>0, <3>1, DoGet
  <2>. QED
    BY <2>1, <2>2
<1>. QED
  BY <1>1, <1>2, <1>3 DEF ServiceJob

LEMMA MainGet ==
  ASSUME GetInv, UNCHANGED <<filterVars, ownerVars, peer>>,
         Connect \/ Write \/ MakeJob \/ SetJob \/ Flush \/ FreeSSLResources \/ RemoveJob \/ Close
  PROVE  GetInv'
<1>0. UNCHANGED <<delivered, m_size, m_buffer, peer, endTold>>
  BY DEF filterVars, ownerVars
<1>1. CASE FreeSSLResources \/ RemoveJob \/ Close
  BY <1>0, <1>1, GetClosed DEF FreeSSLResources, RemoveJob, Close, Attended
<1>2. CASE Connect
  <2>1. /\ UNCHANGED <<m_inputBuffer, inNet, link>> /\ link \in {"open", "none"} /\ call = "connect"
    BY <1>2 DEF Connect, bufVars, netVars
  <2>. QED
    BY <1>0, <2>1, GetKept DEF Intact, Attended
<1>3. CASE Write \/ MakeJob \/ SetJob \/ Flush
  <2>1. /\ UNCHANGED <<m_inputBuffer, inNet, link, m_readable>>
        /\ call \in {"write", "newjob", "setjob", "flush"}
    BY <1>3 DEF Write, MakeJob, SetJob, Flush, flagVars, bufVars, netVars
  <2>. QED
    BY <1>0, <2>1, GetKept DEF Intact, Attended
<1>. QED
  BY <1>1, <1>2, <1>3

LEMMA OwnerGet ==
  ASSUME Types, GetInv, HandleEvent \/ OwnerWrites \/ OwnerCloses PROVE GetInv'
<1>1. CASE HandleEvent /\ Goes(Head(events))
  <2>1. /\ UNCHANGED <<m_inputBuffer, inNet, link, m_readable, delivered, m_size, m_buffer, peer,
                       endTold>>
        /\ call = "idle"
    BY <1>1, HandleIs DEF Goes, flagVars, bufVars, netVars
  <2>. QED
    BY <2>1, GetKept DEF Intact, Attended
<1>2. CASE OwnerWrites
  <2>1. /\ UNCHANGED <<m_inputBuffer, inNet, link, m_readable, delivered, m_size, m_buffer, peer,
                       endTold>>
        /\ call = "idle"
    BY <1>2 DEF OwnerWrites, flagVars, bufVars, netVars, filterVars
  <2>. QED
    BY <2>1, GetKept DEF Intact, Attended
<1>3. CASE FilterClose
  BY <1>3, GetClosed DEF FilterClose, BeginClose, Attended
<1>. QED
  BY <1>1, <1>2, <1>3, HandleIs DEF OwnerCloses, Ends

LEMMA NetGet == ASSUME GetInv, NetConnect \/ PeerLeaves PROVE GetInv'
<1>1. /\ UNCHANGED <<m_inputBuffer, inNet, m_readable, delivered, m_size, m_buffer, peer, endTold,
                     call>>
      /\ link # "reset"
  BY DEF NetConnect, PeerLeaves, flagVars, bufVars, callVars, filterVars, ownerVars
<1>. QED
  BY <1>1, GetKept DEF Intact, Attended

-----------------------------------------------------------------------------
(* The pipe: every step is one of its own *)

PipeInv == Inv /\ PutInv /\ GetInv /\ EndInv

LEMMA PipeInvInit == Init => PipeInv
BY InvInit, InitPut, InitGet, InitEnd DEF PipeInv

LEMMA PipeInvStep == PipeInv /\ [Next]_vars => PipeInv'
<1>. SUFFICES ASSUME PipeInv, [Next]_vars PROVE PipeInv'
  OBVIOUS
<1>0. /\ Inv' /\ PutInv /\ GetInv /\ EndInv
      /\ Types /\ Stage /\ PiecesInv /\ Signalled
  BY InvStep DEF PipeInv, Inv
<1>1. CASE UNCHANGED <<filterVars, ownerVars, peer>> /\
           (Connect \/ Write \/ MakeJob \/ SetJob \/ Flush \/ FreeSSLResources \/ RemoveJob \/ Close)
  BY <1>0, <1>1, MainPut, MainGet, MainEnd DEF PipeInv
<1>2. CASE ReadMore
  BY <1>0, <1>2, OwnerPut, ReadMoreGet, ReadMoreEnd DEF PipeInv
<1>3. CASE OwnerReads
  BY <1>0, <1>3, OwnerPut, OwnerReadsGet, OwnerReadsEnd DEF PipeInv
<1>4. CASE HandleEvent \/ OwnerWrites \/ OwnerCloses
  BY <1>0, <1>4, OwnerPut, OwnerGet, OwnerEnd DEF PipeInv
<1>5. CASE Service
  BY <1>0, <1>5, ServicePut, ServiceGet, ServiceEnd DEF PipeInv, Service
<1>6. CASE NetConnect \/ PeerLeaves
  BY <1>0, <1>6, FarPut, NetGet, FarEnd DEF PipeInv
<1>7. CASE PeerSend
  BY <1>0, <1>7, FarPut, PeerGet, FarEnd DEF PipeInv
<1>8. CASE UNCHANGED vars
  <2>1. UNCHANGED <<outNet, m_outputBuffer, todo, written, writeRetry, secure, m_writable, up, link,
                    call, events, delivered, m_size, m_buffer, m_inputBuffer, inNet, peer, endTold,
                    m_inputShutdown, m_readable>>
    BY <1>8 DEF vars, socketVars, roleVars, flagVars, bufVars, tlsVars, callVars, pieceVars,
       netVars, filterVars, ownerVars
  <2>2. PutInv'
    BY <1>0, <2>1, PutKept DEF PutInv
  <2>3. GetInv'
    BY <1>0, <2>1, GetKept DEF Attended, Intact
  <2>4. EndInv'
    BY <1>0, <2>1, EndSame DEF Attended, Eof
  <2>. QED
    BY <1>0, <2>2, <2>3, <2>4 DEF PipeInv
<1>. QED
  BY <1>1, <1>2, <1>3, <1>4, <1>5, <1>6, <1>7, <1>8 DEF Next, Main

\* The numbers of the bytes that were read.
LEMMA NumbersRead ==
  ASSUME NEW d \in Seq(Byte), \A i \in 1..Len(d) : d[i] = [kind |-> "p", val |-> i]
  PROVE  [i \in DOMAIN d |-> Payload(d[i])] = [i \in 1..Len(d) |-> i]
<1>1. DOMAIN d = 1..Len(d)
  BY SMTT(120)
<1>2. ASSUME NEW i \in 1..Len(d) PROVE Payload(d[i]) = i
  <2>1. d[i] = [kind |-> "p", val |-> i]
    OBVIOUS
  <2>. QED
    BY SMTT(120), <2>1 DEF Payload
<1>. QED
  BY <1>1, <1>2

LEMMA SpanJoined ==
  ASSUME NEW a \in Nat, NEW b \in Nat, a <= b
  PROVE  /\ Len([i \in 1..a |-> i]) = a
         /\ [i \in 1..b |-> i] = [i \in 1..a |-> i] \o [i \in 1..(b - a) |-> a + i]
BY SMTT(120)

LEMMA SpanSlice ==
  ASSUME NEW s \in Seq(Nat), NEW from \in Nat, Numbered(s, from), NEW n \in 0..Len(s)
  PROVE  SubSeq(s, 1, n) = [i \in 1..(from + n - from) |-> from + i]
<1>1. n \in Nat /\ from + n - from = n /\ SubSeq(s, 1, n) = [i \in 1..n |-> s[i]]
  BY SMTT(120)
<1>2. \A i \in 1..n : s[i] = from + i
  BY SMTT(120) DEF Numbered
<1>. QED
  BY <1>1, <1>2

\* When all has arrived and no packet is left, every packet has been read.
LEMMA ToldOfAll ==
  ASSUME Types, GetInv, Attended, Eof, m_inputBuffer = <<>>, m_size = 0
  PROVE  Len(delivered) = peer.whole
<1>0. /\ Len(m_buffer) \in Nat /\ Len(inNet) = 0 /\ Len(m_inputBuffer) = 0 /\ peer \in Peers
      /\ peer.bytes \in Nat /\ Len(m_buffer) < HeaderLen /\ HeaderLen \in Nat
  BY GetSizes, Constants DEF GetInv, Eof
<1>1. PICK g \in [Nat -> Peers], c \in Nat : History(g, peer) /\ Track(g, c)
  BY DEF GetInv, Tracked
<1>2. /\ g[c].payload = Len(delivered) /\ g[c].left = 0
      /\ c + Len(m_buffer) + Len(m_inputBuffer) + Len(inNet) = peer.bytes
  <2>1. Intact
    BY DEF Intact, Eof
  <2>. QED
    BY <1>1, <2>1 DEF Track
<1>3. c <= peer.bytes /\ peer.bytes < c + HeaderLen
  BY SMTT(120), <1>0, <1>2
<1>. QED
  BY <1>0, <1>1, <1>2, <1>3, AllRead

LEMMA SendStep == ASSUME Types, GetInv, PeerSend PROVE Pipe!Send
<1>0. peer \in Peers /\ Attended
  BY DEF Types, Rest, PeerSend
<1>1. Sound(peer)
  <2>1. PICK g \in [Nat -> Peers], c \in Nat : History(g, peer) /\ Track(g, c)
    BY <1>0 DEF GetInv, Tracked
  <2>. QED
    BY SMTT(120), <1>0, <2>1 DEF History, Peers
<1>2. PICK size \in IF peer.left = 0 THEN Sizes ELSE {peer.size} :
          peer' = [size    |-> size,
                   left    |-> IF peer.left = 0 THEN HeaderLen + size - 1
                               ELSE peer.left - 1,
                   payload |-> IF peer.left \in 1..size THEN peer.payload + 1
                               ELSE peer.payload,
                   whole   |-> IF peer.left = 1 THEN peer.payload + 1
                               ELSE peer.whole,
                   bytes   |-> peer.bytes + 1]
  BY DEF PeerSend
<1>3. peer.left = 1 => peer.left \in 1..size
  BY SMTT(120), <1>0, <1>1, <1>2, Constants DEF Peers, Sound
<1>4. /\ peer'.payload \in {peer.payload, peer.payload + 1}
      /\ peer'.whole \in {peer.whole, peer'.payload}
  BY <1>2, <1>3
<1>5. UNCHANGED <<delivered, written, outNet, endTold>>
  BY DEF PeerSend, ownerVars
<1>. QED
  BY <1>4, <1>5 DEF Pipe!Send

LEMMA ReadStep ==
  ASSUME Types, Types', GetInv, GetInv', OwnerReads, ~UNCHANGED delivered
  PROVE  Pipe!ReadSome
<1>1. /\ Len(delivered') > Len(delivered) /\ Len(delivered') <= peer.whole
      /\ UNCHANGED <<peer, written, outNet, endTold>> /\ endTold = 0
  <2>1. UNCHANGED <<peer, written, outNet, endTold>> /\ Attended
    BY DEF OwnerReads, netVars, Attended
  <2>. QED
    BY <2>1, OwnerReadsGet DEF GetInv
<1>2. delivered \in Seq(Byte) /\ delivered' \in Seq(Byte) /\ peer.whole \in Nat
      /\ Len(delivered) \in Nat /\ Len(delivered') \in Nat
  <2>1. delivered \in Seq(Byte) /\ delivered' \in Seq(Byte) /\ peer \in Peers
    BY DEF Types, Input, Rest
  <2>2. Len(delivered) \in Nat /\ Len(delivered') \in Nat
    BY SMTT(120), <2>1
  <2>3. peer.whole \in Nat
    BY <2>1 DEF Peers
  <2>. QED
    BY <2>1, <2>2, <2>3
<1>3. PICK a \in Nat, b \in Nat : a = Len(delivered) /\ b = Len(delivered')
  BY <1>2
<1>4. /\ [i \in DOMAIN delivered |-> Payload(delivered[i])] = [i \in 1..a |-> i]
      /\ [i \in DOMAIN delivered' |-> Payload(delivered'[i])] = [i \in 1..b |-> i]
  <2>1. InOrder /\ InOrder'
    BY DEF GetInv
  <2>. QED
    BY <1>2, <1>3, <2>1, NumbersRead DEF InOrder
<1>5. /\ Len([i \in 1..a |-> i]) = a
      /\ [i \in 1..b |-> i] = [i \in 1..a |-> i] \o [i \in 1..(b - a) |-> a + i]
  BY SMTT(120), <1>1, <1>3, SpanJoined
<1>6. b \in a + 1 .. peer.whole
  BY SMTT(120), <1>1, <1>2, <1>3
<1>. QED
  BY <1>1, <1>4, <1>5, <1>6 DEF Pipe!ReadSome, Pipe!Span

LEMMA TransmitStep ==
  ASSUME Types, PutInv, UNCHANGED <<peer, delivered, written, endTold>>,
         NEW n \in 0..Len(Sent), outNet' = outNet \o SubSeq(Sent, 1, n)
  PROVE  Pipe!Transmit \/ UNCHANGED outNet
<1>0. /\ Len(outNet) \in Nat /\ Len(Sent) \in Nat /\ written \in Nat /\ outNet \in Seq(Nat)
      /\ Sent \in Seq(Nat) /\ Numbered(Sent, Len(outNet)) /\ Len(outNet) + Len(Sent) <= 2 * written
  BY SMTT(120), SentNext, PutSizes DEF Types, Output
<1>1. CASE n = 0
  <2>1. SubSeq(Sent, 1, n) = <<>>
    BY SMTT(120), <1>0, <1>1
  <2>2. outNet \o <<>> = outNet
    BY SMTT(120), <1>0
  <2>. QED
    BY <2>1, <2>2
<1>2. CASE n # 0
  <2>1. Len(outNet) + n \in Len(outNet) + 1 .. 2 * written
    BY SMTT(120), <1>0, <1>2
  <2>2. SubSeq(Sent, 1, n) = [i \in 1..(Len(outNet) + n - Len(outNet)) |-> Len(outNet) + i]
    BY <1>0, SpanSlice
  <2>3. outNet' = outNet \o Pipe!Span(Len(outNet), Len(outNet) + n)
    BY SMTT(120), <2>2 DEF Pipe!Span
  <2>. QED
    BY <2>1, <2>3 DEF Pipe!Transmit
<1>. QED
  BY <1>1, <1>2

LEMMA TellStep ==
  ASSUME Types, Types', GetInv, EndInv, HandleEvent, Ends(Head(events))
  PROVE  Pipe!TellEnd \/ UNCHANGED <<peer, delivered, written, outNet, endTold>>
<1>0. PICK e : e = Head(events)
  OBVIOUS
<1>1. /\ call = "idle" /\ Attended /\ events # <<>> /\ events \in Seq(EventNames) /\ endTold = 0
      /\ e \in Ending \/ (e = "inputShutdown" /\ m_size = 0)
      /\ endTold' = IF e \in {"inputShutdown", "filterShutdown"} THEN endTold + 1 ELSE endTold
      /\ UNCHANGED <<peer, delivered, written, outNet>>
  BY <1>0, HandleIs DEF Ends, FilterClose, BeginClose, netVars, Attended, Types, Rest, GetInv
<1>2. CASE e \notin {"inputShutdown", "filterShutdown"}
  BY <1>1, <1>2
<1>3. CASE e \in {"inputShutdown", "filterShutdown"}
  <2>1. \A name, names : Shielded(events, name, names) => e # name
    BY <1>0, <1>1, ShieldedTail
  <2>2. CASE e = "inputShutdown"
    <3>1. "inputShutdown" \notin Ending
      BY DEF Ending
    <3>. QED
      <4>1. Eof /\ m_inputBuffer = <<>> /\ m_size = 0
        BY <1>1, <2>1, <2>2, <3>1 DEF EndInv
      <4>2. Len(delivered) = peer.whole
        BY <1>1, <4>1, ToldOfAll
      <4>3. endTold' = 1
        BY SMTT(120), <1>1, <2>2
      <4>. QED
        BY SMTT(120), <1>1, <4>2, <4>3 DEF Pipe!TellEnd, Types, Input
  <2>3. CASE e = "filterShutdown"
    <3>1. Eof /\ m_inputBuffer = <<>> /\ m_size = 0
      BY <1>1, <2>1, <2>3 DEF EndInv
    <3>2. Len(delivered) = peer.whole
      BY <1>1, <3>1, ToldOfAll
    <3>3. endTold' = 1
      BY SMTT(120), <1>1, <2>3
    <3>. QED
      BY SMTT(120), <1>1, <3>2, <3>3 DEF Pipe!TellEnd, Types, Input
  <2>. QED
    BY <1>3, <2>2, <2>3
<1>. QED
  BY <1>2, <1>3

LEMMA PipeStep ==
  ASSUME PipeInv, PipeInv', [Next]_vars
  PROVE  [Pipe!Next]_(Pipe!pipeVars)
<1>0. /\ Types /\ Types' /\ Stage /\ PutInv /\ GetInv /\ GetInv' /\ EndInv
  BY DEF PipeInv, Inv
<1>. SUFFICES \/ Pipe!Send \/ Pipe!ReadSome \/ Pipe!Put \/ Pipe!Transmit \/ Pipe!TellEnd
              \/ UNCHANGED <<peer, delivered, written, outNet, endTold>>
  BY DEF Pipe!Next, Pipe!pipeVars
<1>1. CASE UNCHANGED <<filterVars, ownerVars, peer>> /\
           (Connect \/ Write \/ MakeJob \/ SetJob \/ Flush \/ FreeSSLResources \/ RemoveJob \/ Close)
  BY <1>1 DEF Connect, Write, MakeJob, SetJob, Flush, FreeSSLResources, RemoveJob, Close,
     ownerVars, netVars
<1>2. CASE ReadMore
  BY <1>2 DEF ReadMore, Read, ownerVars, netVars
<1>3. CASE OwnerReads
  <2>1. UNCHANGED <<peer, written, outNet, endTold>>
    BY <1>3 DEF OwnerReads, netVars
  <2>. QED
    BY <1>0, <1>3, <2>1, ReadStep
<1>4. CASE HandleEvent
  <2>1. CASE Goes(Head(events))
    BY <2>1 DEF Goes, netVars
  <2>. QED
    BY <1>0, <1>4, <2>1, HandleIs, TellStep
<1>5. CASE OwnerWrites
  <2>1. UNCHANGED <<peer, delivered, outNet, endTold>> /\ written' = written + 1
    BY <1>5 DEF OwnerWrites, netVars
  <2>2. 2 * written' > 2 * written
    BY SMTT(120), <1>0, <2>1 DEF Types, Rest
  <2>. QED
    BY <2>1, <2>2 DEF Pipe!Put
<1>6. CASE OwnerCloses
  BY <1>6 DEF OwnerCloses, FilterClose, BeginClose, netVars
<1>7. CASE Service
  <2>0. UNCHANGED <<filterVars, ownerVars, peer>> /\ UNCHANGED <<peer, delivered, written, endTold>>
    BY <1>7 DEF Service, ownerVars
  <2>1. CASE ServiceConnecting \/ ServiceHandshake
    BY <2>0, <2>1 DEF ServiceConnecting, ServiceHandshake, netVars
  <2>2. CASE ServiceConnected
    <3>0. Around /\ job.kind = "connected"
      BY <1>0, <2>0, <2>2, ConnectedIs
    <3>1. CASE ConnectedLost
      BY <2>0, <3>1 DEF ConnectedLost
    <3>2. CASE ~ConnectedLost
      <4>1. PICK w, n, r, k : Outcome(w, n, r, k) /\ DoWriteDoRead(w, n, r, k)
        BY <1>0, <2>0, <2>2, <3>2, ConnectedIs
      <4>2. call # "closed"
        BY SMTT(120), <1>0, <3>0 DEF Stage, CallInv, NoJob
      <4>3. outNet' = outNet \o SubSeq(Sent, 1, n) /\ n \in 0..Len(Sent)
        BY <1>0, <3>0, <4>1, <4>2, DoPut
      <4>. QED
        BY <1>0, <2>0, <4>3, TransmitStep
    <3>. QED
      BY <3>1, <3>2
  <2>. QED
    BY <1>7, <2>1, <2>2 DEF Service, ServiceJob
<1>8. CASE NetConnect \/ PeerLeaves
  BY <1>8 DEF NetConnect, PeerLeaves, ownerVars
<1>9. CASE PeerSend
  BY <1>0, <1>9, SendStep
<1>10. CASE UNCHANGED vars
  BY <1>10 DEF vars, socketVars, netVars, ownerVars
<1>. QED
  BY <1>1, <1>2, <1>3, <1>4, <1>5, <1>6, <1>7, <1>8, <1>9, <1>10 DEF Next, Main

\* PacketStreamFilter over a TCPSocket or a SecureSocket implements the pipe of
\* packets, for any sizes of header, packet, buffer and read, and with both
\* threads at work: the owner reads the payload that was sent, in order, without
\* a gap and only of complete packets; what goes out is what was written, in
\* order, retries of TLS included; and the end of input is told once, after
\* every complete packet has been read.
THEOREM StreamIsPipe == Spec => PipeSpec
<1>1. Init => Pipe!Init
  <2>. SUFFICES ASSUME Init PROVE Pipe!Init
    OBVIOUS
  <2>1. delivered = <<>> /\ written = 0 /\ outNet = <<>> /\ endTold = 0
    BY DEF Init
  <2>2. peer.payload = 0 /\ peer.whole = 0
    BY DEF Init
  <2>3. [i \in DOMAIN delivered |-> Payload(delivered[i])] = <<>> /\ 2 * written = 0
    BY SMTT(120), <2>1
  <2>. QED
    BY <2>1, <2>2, <2>3 DEF Pipe!Init
<1>2. PipeInv /\ PipeInv' /\ [Next]_vars => [Pipe!Next]_(Pipe!pipeVars)
  BY PipeStep
<1>3. Spec => []PipeInv
  BY PipeInvInit, PipeInvStep, PTL DEF Spec
<1>. QED
  BY <1>1, <1>2, <1>3, PTL DEF Spec, PipeSpec, Pipe!Spec
=============================================================================
