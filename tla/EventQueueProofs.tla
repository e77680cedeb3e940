-------------------------- MODULE EventQueueProofs --------------------------
(***************************************************************************)
(* Proofs about EventQueue for any threads and any number of events: ids   *)
(* are never shared, getEvent always finds the event of the id that the    *)
(* buffer returns, no event is lost or dispatched twice, and those of one  *)
(* thread are dispatched in order.                                         *)
(***************************************************************************)
EXTENDS EventQueue, TLAPS

\* The prover of a leaf that names none.
USE ZenonT(60)

-----------------------------------------------------------------------------
(* Sequences *)

LEMMA SeqLength ==
  ASSUME NEW S, NEW s \in Seq(S)
  PROVE  Len(s) \in Nat /\ DOMAIN s = 1..Len(s)
BY SMTT(120)

LEMMA SeqElement ==
  ASSUME NEW S, NEW s \in Seq(S), NEW i \in 1..Len(s)
  PROVE  s[i] \in S
BY SMTT(120)

LEMMA SeqNonempty ==
  ASSUME NEW S
  PROVE  /\ <<>> \in Seq(S) /\ Len(<<>>) = 0
         /\ \A s \in Seq(S) : s # <<>> => Len(s) \in Nat \ {0}
BY SMTT(120)

LEMMA SeqSame ==
  ASSUME NEW S, NEW s \in Seq(S), NEW t \in Seq(S), Len(s) = Len(t),
         \A i \in 1..Len(s) : s[i] = t[i]
  PROVE  s = t
BY SMTT(120)

LEMMA SeqTail ==
  ASSUME NEW S, NEW s \in Seq(S), s # <<>>
  PROVE  /\ Head(s) \in S /\ Head(s) = s[1]
         /\ Tail(s) \in Seq(S) /\ Len(Tail(s)) = Len(s) - 1
         /\ \A i \in 1..Len(Tail(s)) : Tail(s)[i] = s[i + 1]
BY SMTT(120)

LEMMA SeqFront ==
  ASSUME NEW S, NEW s \in Seq(S), NEW n \in 0..Len(s)
  PROVE  /\ SubSeq(s, 1, n) \in Seq(S) /\ Len(SubSeq(s, 1, n)) = n
         /\ \A i \in 1..n : SubSeq(s, 1, n)[i] = s[i]
BY SMTT(120)

LEMMA SeqAppend ==
  ASSUME NEW S, NEW s \in Seq(S), NEW x \in S
  PROVE  /\ Append(s, x) \in Seq(S) /\ Append(s, x) # <<>>
         /\ Len(Append(s, x)) = Len(s) + 1
         /\ \A i \in 1..Len(s) : Append(s, x)[i] = s[i]
         /\ Append(s, x)[Len(s) + 1] = x
BY SMTT(120)

\* The elements of a sequence, and that none occurs twice.
Elems(s) == {s[i] : i \in DOMAIN s}
NoRepeats(s) == \A i, j \in DOMAIN s : s[i] = s[j] => i = j

\* Append adds its element, and repeats nothing if the element is new.
LEMMA AppendElems ==
  ASSUME NEW S, NEW s \in Seq(S), NEW x \in S
  PROVE  /\ Append(s, x) \in Seq(S)
         /\ Append(s, x) # <<>>
         /\ Elems(Append(s, x)) = Elems(s) \cup {x}
         /\ NoRepeats(s) /\ x \notin Elems(s) => NoRepeats(Append(s, x))
<1> DEFINE a == Append(s, x)
<1>1. /\ a \in Seq(S)
      /\ Len(a) = Len(s) + 1
      /\ \A i \in 1..Len(s) : a[i] = s[i]
      /\ a[Len(s) + 1] = x
  BY SMTT(120), SeqAppend
<1>2. DOMAIN s = 1..Len(s) /\ DOMAIN a = 1..(Len(s) + 1) /\ Len(s) \in Nat
  BY <1>1, SeqLength
<1> HIDE DEF a
<1>3. Elems(a) = Elems(s) \cup {x}
  <2>1. ASSUME NEW y \in Elems(a) PROVE y \in Elems(s) \cup {x}
    <3>1. PICK i \in DOMAIN a : y = a[i]
      BY DEF Elems
    <3>2. CASE i = Len(s) + 1
      BY <3>1, <3>2, <1>1
    <3>3. CASE i \in 1..Len(s)
      BY <3>1, <3>3, <1>1, <1>2 DEF Elems
    <3> QED
      BY SMTT(120), <3>2, <3>3, <1>2
  <2>2. ASSUME NEW y \in Elems(s) PROVE y \in Elems(a)
    <3>1. PICK i \in DOMAIN s : y = s[i]
      BY DEF Elems
    <3>2. i \in DOMAIN a /\ a[i] = y
      BY SMTT(120), <3>1, <1>1, <1>2
    <3> QED
      BY <3>2 DEF Elems
  <2>3. x \in Elems(a)
    <3>1. Len(s) + 1 \in DOMAIN a
      BY SMTT(120), <1>2
    <3> QED
      BY <3>1, <1>1 DEF Elems
  <2> QED
    BY <2>1, <2>2, <2>3
<1>4. ASSUME NoRepeats(s), x \notin Elems(s) PROVE NoRepeats(a)
  <2>1. SUFFICES ASSUME NEW i \in DOMAIN a, NEW j \in DOMAIN a, a[i] = a[j]
                 PROVE  i = j
    BY DEF NoRepeats
  <2>2. \A k \in 1..Len(s) : s[k] # x
    BY <1>4, <1>2 DEF Elems
  <2>3. CASE i \in 1..Len(s) /\ j \in 1..Len(s)
    BY <2>1, <2>3, <1>1, <1>2, <1>4 DEF NoRepeats
  <2>4. CASE i = Len(s) + 1 /\ j \in 1..Len(s)
    BY <2>1, <2>2, <2>4, <1>1
  <2>5. CASE j = Len(s) + 1 /\ i \in 1..Len(s)
    BY <2>1, <2>2, <2>5, <1>1
  <2> QED
    BY SMTT(120), <2>1, <2>3, <2>4, <2>5, <1>2
<1>5. a # <<>>
  BY SMTT(120), <1>1, <1>2
<1> QED
  BY <1>1, <1>3, <1>4, <1>5 DEF a

\* A sequence without repetition splits into its head and the rest.
LEMMA TailElems ==
  ASSUME NEW S, NEW s \in Seq(S), s # <<>>
  PROVE  /\ Head(s) \in S
         /\ Tail(s) \in Seq(S)
         /\ Elems(s) = Elems(Tail(s)) \cup {Head(s)}
         /\ NoRepeats(s) => NoRepeats(Tail(s)) /\ Head(s) \notin Elems(Tail(s))
<1> DEFINE h == Head(s)
           u == Tail(s)
<1>1. /\ h \in S
      /\ u \in Seq(S)
      /\ Len(u) = Len(s) - 1
      /\ \A i \in 1..Len(u) : u[i] = s[i + 1]
      /\ h = s[1]
  BY SeqTail
<1> HIDE DEF h, u
<1>0. Len(s) \in Nat /\ Len(s) # 0 /\ DOMAIN s = 1..Len(s)
  BY SeqLength, SeqNonempty
<1>2. /\ Len(s) \in Nat /\ Len(s) # 0 /\ DOMAIN s = 1..Len(s)
      /\ DOMAIN u = 1..(Len(s) - 1)
      /\ \A i \in 1..(Len(s) - 1) : u[i] = s[i + 1]
  <2>1. DOMAIN u = 1..Len(u)
    BY <1>1, SeqLength
  <2> QED
    BY <2>1, <1>0, <1>1
<1>3. Elems(s) = Elems(u) \cup {h}
  <2>1. ASSUME NEW y \in Elems(s) PROVE y \in Elems(u) \cup {h}
    <3>1. PICK i \in DOMAIN s : y = s[i]
      BY DEF Elems
    <3>2. CASE i = 1
      BY <3>1, <3>2, <1>1
    <3>3. CASE i # 1
      <4>1. i - 1 \in DOMAIN u /\ u[i - 1] = y
        BY SMTT(120), <3>1, <3>3, <1>1, <1>2
      <4> QED
        BY <4>1 DEF Elems
    <3> QED
      BY <3>2, <3>3
  <2>2. ASSUME NEW y \in Elems(u) PROVE y \in Elems(s)
    <3>1. PICK i \in DOMAIN u : y = u[i]
      BY DEF Elems
    <3>2. i \in 1..(Len(s) - 1) /\ i + 1 \in 1..Len(s)
      BY SMTT(120), <1>2
    <3>3. i + 1 \in DOMAIN s
      BY <3>2, <1>2
    <3>4. s[i + 1] = y
      BY <3>1, <3>2, <1>2
    <3> QED
      BY <3>3, <3>4 DEF Elems
  <2>3. h \in Elems(s)
    <3>1. 1 \in DOMAIN s
      BY SMTT(120), <1>2
    <3> QED
      BY <3>1, <1>1 DEF Elems
  <2> QED
    BY <2>1, <2>2, <2>3
<1>4. ASSUME NoRepeats(s) PROVE NoRepeats(u) /\ h \notin Elems(u)
  <2>1. \A i \in DOMAIN u : i + 1 \in DOMAIN s /\ u[i] = s[i + 1] /\ i \in Int
    <3> SUFFICES ASSUME NEW i \in 1..(Len(s) - 1)
                 PROVE  i + 1 \in 1..Len(s) /\ u[i] = s[i + 1] /\ i \in Int
      BY <1>2
    <3> QED
      BY SMTT(120), <1>2
  <2>2. NoRepeats(u)
    <3>1. SUFFICES ASSUME NEW i \in DOMAIN u, NEW j \in DOMAIN u, u[i] = u[j]
                   PROVE  i = j
      BY DEF NoRepeats
    <3>2. i + 1 = j + 1
      BY <3>1, <2>1, <1>4 DEF NoRepeats
    <3> QED
      BY SMTT(120), <3>2, <2>1
  <2>3. h \notin Elems(u)
    <3>1. SUFFICES ASSUME NEW i \in DOMAIN u, u[i] = h PROVE FALSE
      BY DEF Elems
    <3>2. 1 \in DOMAIN s /\ s[1] = h
      BY SMTT(120), <1>1, <1>2
    <3>3. i + 1 = 1
      BY SMTT(120), <3>1, <3>2, <2>1, <1>4 DEF NoRepeats
    <3> QED
      BY SMTT(120), <3>3, <1>2
  <2> QED
    BY <2>2, <2>3
<1> QED
  BY <1>1, <1>3, <1>4 DEF h, u

\* The same for the last element, which saveEvent takes, and the rest.
LEMMA FrontElems ==
  ASSUME NEW s \in Seq(Nat), s # <<>>
  PROVE  LET f == SubSeq(s, 1, Len(s) - 1)
             l == s[Len(s)]
         IN  /\ l \in Nat
             /\ f \in Seq(Nat)
             /\ Elems(s) = Elems(f) \cup {l}
             /\ NoRepeats(s) => NoRepeats(f) /\ l \notin Elems(f)
<1> DEFINE f == SubSeq(s, 1, Len(s) - 1)
           l == s[Len(s)]
<1>1. Len(s) \in Nat /\ Len(s) # 0 /\ DOMAIN s = 1..Len(s)
  BY SeqLength, SeqNonempty
<1>2. \A i \in 1..(Len(s) - 1) : s[i] \in Nat
  BY SMTT(120), <1>1, SeqElement
<1>3. Len(s) - 1 \in 0..Len(s)
  BY SMTT(120), <1>1
<1>4. /\ f \in Seq(Nat)
      /\ Len(f) = Len(s) - 1
      /\ \A i \in 1..(Len(s) - 1) : f[i] = s[i]
  BY <1>3, SeqFront
<1>5. /\ DOMAIN f = 1..(Len(s) - 1)
      /\ \A i \in 1..(Len(s) - 1) : f[i] = s[i]
  <2>1. DOMAIN f = 1..Len(f)
    BY <1>4, SeqLength
  <2> QED
    BY <2>1, <1>1, <1>4
<1>6. l \in Nat
  BY SMTT(120), <1>1, SeqElement
<1> HIDE DEF f, l
<1>7. Elems(s) = Elems(f) \cup {l}
  <2>1. ASSUME NEW y \in Elems(s) PROVE y \in Elems(f) \cup {l}
    <3>1. PICK i \in DOMAIN s : y = s[i]
      BY DEF Elems
    <3>2. CASE i = Len(s)
      BY <3>1, <3>2 DEF l
    <3>3. CASE i # Len(s)
      <4>1. i \in DOMAIN f /\ f[i] = y
        BY SMTT(120), <3>1, <3>3, <1>1, <1>5
      <4> QED
        BY <4>1 DEF Elems
    <3> QED
      BY <3>2, <3>3
  <2>2. ASSUME NEW y \in Elems(f) PROVE y \in Elems(s)
    <3>1. PICK i \in DOMAIN f : y = f[i]
      BY DEF Elems
    <3>2. i \in DOMAIN s /\ s[i] = y
      BY SMTT(120), <3>1, <1>1, <1>5
    <3> QED
      BY <3>2 DEF Elems
  <2>3. l \in Elems(s)
    <3>1. Len(s) \in DOMAIN s
      BY SMTT(120), <1>1
    <3> QED
      BY <3>1 DEF Elems, l
  <2> QED
    BY <2>1, <2>2, <2>3
<1>8. ASSUME NoRepeats(s) PROVE NoRepeats(f) /\ l \notin Elems(f)
  <2>1. \A i \in DOMAIN f : i \in DOMAIN s /\ f[i] = s[i] /\ i # Len(s)
    BY SMTT(120), <1>1, <1>5
  <2>2. NoRepeats(f)
    BY <2>1, <1>8 DEF NoRepeats
  <2>3. l \notin Elems(f)
    <3>1. SUFFICES ASSUME NEW i \in DOMAIN f, f[i] = l PROVE FALSE
      BY DEF Elems
    <3>2. Len(s) \in DOMAIN s /\ s[Len(s)] = l
      BY SMTT(120), <1>1 DEF l
    <3> QED
      BY <3>1, <3>2, <2>1, <1>8 DEF NoRepeats
  <2> QED
    BY <2>2, <2>3
<1> QED
  BY <1>4, <1>6, <1>7, <1>8 DEF f, l

-----------------------------------------------------------------------------
(* The inductive invariant *)

\* The types of the table and the buffer.
TableType ==
  /\ m_events \in [Live -> Events]
  /\ Live \subseteq Nat
  /\ m_oldEventIDs \in Seq(Nat)
  /\ m_queue \in Seq(Nat)
  /\ m_queueReady \in BOOLEAN

\* The types of what addEvent and loop() add to the table.
RestType ==
  /\ m_ready \in BOOLEAN
  /\ m_pending \in Seq(Events)
  /\ posting \in [Threads -> Events \cup {NoEvent}]
  /\ posted \in [Threads -> Nat]
  /\ pc \in {"start", "drain", "add", "get", "poll", "wait", "take", "remove",
             "dispatch", "done"}
  /\ dataID \in Nat
  /\ event \in Events \cup {NoEvent}
  /\ timerDue \in BOOLEAN
  /\ shutdown \in BOOLEAN
  /\ delivered \in Seq(Events)
  /\ dropped \subseteq Events

\* What the invariant needs to know of Cardinality (a fact: NumbersCounted).
Counting == \A n \in Nat : Cardinality(0..(n - 1)) = n

\* The ids in use and the free ones: IdsOK without cardinalities.
Ids ==
  /\ Counting
  /\ \E n \in Nat : Live \cup OldIDs = 0..(n - 1)
  /\ Live \cap OldIDs = {}
  /\ NoRepeats(m_oldEventIDs)

\* The id that getEvent has taken out of the buffer and not looked up yet.
InHand == IF pc = "remove" THEN {dataID} ELSE {}

\* The buffer against the table: BufferMatchesTable in terms of sets.
Buffered ==
  /\ Elems(m_queue) \cup InHand = Live
  /\ NoRepeats(m_queue)
  /\ InHand \cap Elems(m_queue) = {}

\* What the places in loop() guarantee.
Control ==
  /\ m_queueReady <=> m_queue # <<>>
  /\ pc = "take" => m_queue # <<>>
  /\ pc = "add" => event # NoEvent

Inv == TableType /\ RestType /\ Ids /\ Buffered /\ Control

\* saveEvent chooses an id that is not in use.
LEMMA NextIDFresh ==
  ASSUME TableType, Ids
  PROVE  /\ NextID \in Nat
         /\ NextID \notin Live
         /\ m_oldEventIDs = <<>> =>
              \E n \in Nat : Live = 0..(n - 1) /\ NextID = n
         /\ m_oldEventIDs # <<>> => NextID = m_oldEventIDs[Len(m_oldEventIDs)]
<1>1. CASE m_oldEventIDs = <<>>
  <2>1. OldIDs = {}
    BY SMTT(120), <1>1 DEF OldIDs
  <2>2. PICK n \in Nat : Live = 0..(n - 1)
    BY <2>1 DEF Ids
  <2>3. Cardinality(Live) = n
    BY <2>2 DEF Ids, Counting
  <2>4. NextID = n
    BY <1>1, <2>3 DEF NextID
  <2>5. n \notin Live
    BY SMTT(120), <2>2
  <2> QED
    BY <1>1, <2>2, <2>4, <2>5
<1>2. CASE m_oldEventIDs # <<>>
  <2>1. NextID = m_oldEventIDs[Len(m_oldEventIDs)]
    BY <1>2 DEF NextID
  <2>2. NextID \in Nat /\ NextID \in Elems(m_oldEventIDs)
    BY SMTT(120), <1>2, <2>1, FrontElems DEF TableType
  <2>3. NextID \notin Live
    BY <2>2 DEF Ids, OldIDs, Elems
  <2> QED
    BY <1>2, <2>1, <2>2, <2>3
<1> QED
  BY <1>1, <1>2

\* saveEvent keeps the ids in order.
LEMMA SaveEventIds ==
  ASSUME TableType, Ids, NEW e \in Events, SaveEvent(e)
  PROVE  /\ Ids'
         /\ Live' = Live \cup {NextID}
         /\ m_events' \in [Live' -> Events]
         /\ Live' \subseteq Nat
         /\ m_oldEventIDs' \in Seq(Nat)
<1> DEFINE id == NextID
<1>1. id \in Nat /\ id \notin Live
  BY NextIDFresh
<1>2. m_events' = [i \in Live \cup {id} |-> IF i = id THEN e ELSE m_events[i]]
  BY DEF SaveEvent
<1>3. Live' = Live \cup {id}
  BY <1>2 DEF Live
<1>4. m_events' \in [Live' -> Events] /\ Live' \subseteq Nat
  <2>1. m_events \in [Live -> Events] /\ Live \subseteq Nat
    BY DEF TableType
  <2> HIDE DEF id
  <2>2. \A i \in Live \cup {id} : (IF i = id THEN e ELSE m_events[i]) \in Events
    BY <2>1
  <2> QED
    BY <2>1, <2>2, <1>1, <1>2, <1>3
<1>5. CASE m_oldEventIDs = <<>>
  <2>1. PICK n \in Nat : Live = 0..(n - 1) /\ id = n
    BY <1>5, NextIDFresh
  <2>2. m_oldEventIDs' = <<>>
    <3>1. m_oldEventIDs' = SubSeq(m_oldEventIDs, 1, Len(m_oldEventIDs) - 1)
      BY DEF SaveEvent
    <3>2. Len(m_oldEventIDs) = 0
      BY <1>5
    <3>3. SubSeq(m_oldEventIDs, 1, 0 - 1) = <<>>
      BY SMTT(120)
    <3> QED
      BY <3>1, <3>2, <3>3
  <2>3. OldIDs' = {}
    BY SMTT(120), <2>2 DEF OldIDs
  <2>4. Live' \cup OldIDs' = 0..((n + 1) - 1)
    BY SMTT(120), <2>1, <2>3, <1>3
  <2>5. NoRepeats(m_oldEventIDs')
    BY SMTT(120), <2>2 DEF NoRepeats
  <2>6. n + 1 \in Nat
    BY SMTT(120)
  <2>7. Ids'
    BY <2>3, <2>4, <2>5, <2>6 DEF Ids
  <2>8. m_oldEventIDs' \in Seq(Nat)
    BY SMTT(120), <2>2
  <2> QED
    BY <2>7, <2>8, <1>3, <1>4
<1>6. CASE m_oldEventIDs # <<>>
  <2>1. m_oldEventIDs' = SubSeq(m_oldEventIDs, 1, Len(m_oldEventIDs) - 1)
    BY DEF SaveEvent
  <2>2. id = m_oldEventIDs[Len(m_oldEventIDs)]
    BY <1>6, NextIDFresh
  <2> HIDE DEF id
  <2>3. /\ m_oldEventIDs' \in Seq(Nat)
        /\ Elems(m_oldEventIDs) = Elems(m_oldEventIDs') \cup {id}
        /\ NoRepeats(m_oldEventIDs')
        /\ id \notin Elems(m_oldEventIDs')
    BY <1>6, <2>1, <2>2, FrontElems DEF TableType, Ids
  <2>4. OldIDs = Elems(m_oldEventIDs) /\ OldIDs' = Elems(m_oldEventIDs')
    BY DEF OldIDs, Elems
  <2>5. Live' \cup OldIDs' = Live \cup OldIDs
    BY <2>3, <2>4, <1>3
  <2>6. Live' \cap OldIDs' = {}
    BY <2>3, <2>4, <1>3 DEF Ids
  <2>7. Ids'
    BY <2>3, <2>5, <2>6 DEF Ids
  <2> QED
    BY <2>3, <2>7, <1>3, <1>4 DEF id
<1> QED
  BY <1>5, <1>6

\* addEventToBuffer keeps the table and the buffer in step, whether or not
\* the buffer takes the id.
LEMMA AddEventToBufferOK ==
  ASSUME TableType, Ids, Buffered, m_queueReady <=> m_queue # <<>>,
         NEW e \in Events, AddEventToBuffer(e), InHand' = InHand
  PROVE  /\ TableType' /\ Ids' /\ Buffered'
         /\ m_queueReady' <=> m_queue' # <<>>
         /\ m_queue # <<>> => m_queue' # <<>>
<1>0. NextID \in Nat /\ NextID \notin Live
  BY NextIDFresh
<1>1. CASE SaveEvent(e) /\ m_queueReady' = TRUE
  <2>1. /\ Ids'
        /\ Live' = Live \cup {NextID}
        /\ m_events' \in [Live' -> Events]
        /\ Live' \subseteq Nat
        /\ m_oldEventIDs' \in Seq(Nat)
    BY <1>1, SaveEventIds
  <2>2. m_queue' = Append(m_queue, NextID)
    BY <1>1 DEF SaveEvent
  <2>3. NextID \notin Elems(m_queue) /\ NextID \notin InHand
    BY <1>0 DEF Buffered
  <2>4. /\ m_queue' \in Seq(Nat)
        /\ m_queue' # <<>>
        /\ Elems(m_queue') = Elems(m_queue) \cup {NextID}
        /\ NoRepeats(m_queue')
    BY SMTT(120), <1>0, <2>2, <2>3, AppendElems DEF TableType, Buffered
  <2>5. Buffered'
    BY <2>1, <2>3, <2>4 DEF Buffered
  <2>6. TableType'
    BY <1>1, <2>1, <2>4 DEF TableType
  <2> QED
    BY <1>1, <2>1, <2>4, <2>5, <2>6
<1>2. CASE /\ m_oldEventIDs = <<>>
           /\ m_oldEventIDs' = <<NextID>>
           /\ UNCHANGED <<m_events, m_queue, m_queueReady>>
  <2>1. PICK n \in Nat : Live = 0..(n - 1) /\ NextID = n
    BY <1>2, NextIDFresh
  <2>2. Live' = Live
    BY <1>2 DEF Live
  <2>3. OldIDs' = {n}
    BY SMTT(120), <1>2, <2>1 DEF OldIDs
  <2>4. Live' \cup OldIDs' = 0..((n + 1) - 1) /\ n + 1 \in Nat /\ n \notin Live
    BY SMTT(120), <2>1, <2>2, <2>3
  <2>5. NoRepeats(m_oldEventIDs')
    BY SMTT(120), <1>2 DEF NoRepeats
  <2>6. Ids'
    BY <2>2, <2>3, <2>4, <2>5 DEF Ids
  <2>7. TableType'
    BY SMTT(120), <1>0, <1>2, <2>2 DEF TableType
  <2>8. Buffered'
    BY <1>2, <2>2 DEF Buffered
  <2> QED
    BY <1>2, <2>6, <2>7, <2>8
<1>3. CASE UNCHANGED tableVars
  <2>1. Live' = Live /\ OldIDs' = OldIDs
    BY <1>3 DEF tableVars, Live, OldIDs
  <2>2. Ids' /\ Buffered' /\ TableType'
    BY <1>3, <2>1 DEF tableVars, Ids, Buffered, TableType
  <2> QED
    BY <1>3, <2>2 DEF tableVars
<1> QED
  BY <1>1, <1>2, <1>3 DEF AddEventToBuffer

-----------------------------------------------------------------------------
(* Every step keeps the invariant *)

\* The table, the buffer and the place of the loop decide Ids and Buffered.
LEMMA TableFrame ==
  ASSUME Inv, UNCHANGED tableVars, InHand' = InHand
  PROVE  TableType' /\ Ids' /\ Buffered' /\ (m_queueReady' <=> m_queue' # <<>>)
<1>1. Live' = Live /\ OldIDs' = OldIDs
  BY DEF tableVars, Live, OldIDs
<1>2. TableType /\ Ids /\ Buffered /\ Control
  BY DEF Inv
<1> QED
  BY <1>1, <1>2 DEF tableVars, TableType, Ids, Buffered, Control

LEMMA CheckReadyInv ==
  ASSUME Inv, NEW t \in Threads, CheckReady(t)
  PROVE  Inv'
<1>1. RestType /\ Control
  BY DEF Inv
<1>2. InHand' = InHand
  BY DEF CheckReady, loopVars, InHand
<1>3. TableType' /\ Ids' /\ Buffered' /\ (m_queueReady' <=> m_queue' # <<>>)
  BY <1>2, TableFrame DEF CheckReady
<1>4. [thread |-> t, n |-> posted[t] + 1, ready |-> m_ready] \in Events
  BY SMTT(120), <1>1 DEF RestType, Events
<1>5. RestType'
  BY SMTT(120), <1>1, <1>4 DEF RestType, CheckReady, loopVars, histVars
<1>6. Control'
  BY <1>1, <1>3 DEF Control, CheckReady, tableVars, loopVars
<1> QED
  BY <1>3, <1>5, <1>6 DEF Inv

LEMMA FinishAddInv ==
  ASSUME Inv, NEW t \in Threads, FinishAdd(t)
  PROVE  Inv'
<1>1. TableType /\ RestType /\ Ids /\ Buffered /\ Control
  BY DEF Inv
<1>2. posting[t] \in Events
  BY <1>1 DEF RestType, FinishAdd
<1>3. InHand' = InHand
  BY DEF FinishAdd, loopVars, InHand
<1>4. CASE ~posting[t].ready
  <2>1. UNCHANGED <<tableVars, dropped>> /\ m_pending' = Append(m_pending, posting[t])
    BY <1>4 DEF FinishAdd
  <2>2. TableType' /\ Ids' /\ Buffered' /\ (m_queueReady' <=> m_queue' # <<>>)
    BY <1>3, <2>1, TableFrame
  <2>3. m_pending' \in Seq(Events)
    BY <1>1, <1>2, <2>1, SeqAppend DEF RestType
  <2>4. RestType'
    BY <1>1, <2>1, <2>3 DEF RestType, FinishAdd, loopVars
  <2>5. Control'
    BY <1>1, <2>1, <2>2 DEF Control, FinishAdd, tableVars, loopVars
  <2> QED
    BY SMTT(120), <2>2, <2>4, <2>5 DEF Inv
<1>5. CASE posting[t].ready
  <2>1. AddEventToBuffer(posting[t]) /\ UNCHANGED m_pending
    BY <1>5 DEF FinishAdd
  <2>2. /\ TableType' /\ Ids' /\ Buffered'
        /\ m_queueReady' <=> m_queue' # <<>>
        /\ m_queue # <<>> => m_queue' # <<>>
    BY <1>1, <1>2, <1>3, <2>1, AddEventToBufferOK DEF Control
  <2>3. dropped' \subseteq Events
    BY <1>1, <1>2, <2>1 DEF RestType, AddEventToBuffer
  <2>4. RestType'
    BY <1>1, <2>1, <2>3 DEF RestType, FinishAdd, loopVars
  <2>5. Control'
    BY <1>1, <2>2 DEF Control, FinishAdd, loopVars
  <2> QED
    BY <2>2, <2>4, <2>5 DEF Inv
<1> QED
  BY <1>4, <1>5

LEMMA PopPendingInv ==
  ASSUME Inv, PopPending
  PROVE  Inv'
<1>1. RestType /\ Control
  BY DEF Inv
<1>2. InHand' = InHand
  BY DEF PopPending, InHand
<1>3. TableType' /\ Ids' /\ Buffered' /\ (m_queueReady' <=> m_queue' # <<>>)
  BY <1>2, TableFrame DEF PopPending
<1>4. CASE m_pending = <<>>
  <2>1. pc' = "get" /\ UNCHANGED <<m_pending, event>>
    BY <1>4 DEF PopPending
  <2>2. RestType'
    BY <1>1, <2>1 DEF RestType, PopPending, postVars, histVars
  <2>3. Control'
    BY <1>3, <2>1 DEF Control
  <2> QED
    BY <1>3, <2>2, <2>3 DEF Inv
<1>5. CASE m_pending # <<>>
  <2>1. event' = Head(m_pending) /\ m_pending' = Tail(m_pending) /\ pc' = "add"
    BY <1>5 DEF PopPending
  <2>2. event' \in Events /\ m_pending' \in Seq(Events)
    BY <1>1, <1>5, <2>1, SeqTail DEF RestType
  <2>3. RestType'
    BY <1>1, <2>1, <2>2 DEF RestType, PopPending, postVars, histVars
  <2>4. Control'
    BY <1>3, <2>1, <2>2, NoEventAssumption DEF Control
  <2> QED
    BY SMTT(120), <1>3, <2>3, <2>4 DEF Inv
<1> QED
  BY <1>4, <1>5

LEMMA AddPendingInv ==
  ASSUME Inv, AddPending
  PROVE  Inv'
<1>1. TableType /\ RestType /\ Ids /\ Buffered /\ Control
  BY DEF Inv
<1>2. event \in Events
  BY <1>1 DEF RestType, Control, AddPending
<1>3. InHand' = InHand
  BY DEF AddPending, InHand
<1>4. /\ TableType' /\ Ids' /\ Buffered'
      /\ m_queueReady' <=> m_queue' # <<>>
  BY <1>1, <1>2, <1>3, AddEventToBufferOK DEF Control, AddPending
<1>5. dropped' \subseteq Events
  BY <1>1, <1>2 DEF RestType, AddPending, AddEventToBuffer
<1>6. RestType'
  BY <1>1, <1>5 DEF RestType, AddPending, postVars
<1>7. Control'
  BY <1>4 DEF Control, AddPending
<1> QED
  BY <1>4, <1>6, <1>7 DEF Inv

LEMMA TakeIDInv ==
  ASSUME Inv, TakeID
  PROVE  Inv'
<1>1. TableType /\ RestType /\ Ids /\ Buffered /\ Control
  BY SMTT(120) DEF Inv
<1>2. /\ Head(m_queue) \in Nat
      /\ Tail(m_queue) \in Seq(Nat)
      /\ Elems(m_queue) = Elems(Tail(m_queue)) \cup {Head(m_queue)}
      /\ NoRepeats(Tail(m_queue)) /\ Head(m_queue) \notin Elems(Tail(m_queue))
  BY <1>1, TailElems DEF TableType, Buffered, Control, TakeID
<1>3. InHand = {} /\ InHand' = {dataID'}
  BY DEF TakeID, InHand
<1>4. Live' = Live /\ OldIDs' = OldIDs
  BY DEF TakeID, Live, OldIDs
<1>5. Buffered'
  BY <1>1, <1>2, <1>3, <1>4 DEF Buffered, TakeID
<1>6. TableType' /\ Ids'
  BY <1>1, <1>2, <1>4 DEF TableType, Ids, TakeID
<1>7. RestType'
  BY <1>1, <1>2 DEF RestType, TakeID, postVars, histVars
<1>8. Control'
  BY DEF Control, TakeID
<1> QED
  BY <1>5, <1>6, <1>7, <1>8 DEF Inv

LEMMA TakeEventInv ==
  ASSUME Inv, TakeEvent
  PROVE  Inv'
<1>1. TableType /\ RestType /\ Ids /\ Buffered /\ Control
  BY SMTT(120) DEF Inv
<1>2. InHand = {dataID} /\ InHand' = {}
  BY DEF TakeEvent, InHand
<1>3. dataID \in Live /\ dataID \in Nat
  BY <1>1, <1>2 DEF Buffered, RestType
<1>4. /\ m_events' = [i \in Live \ {dataID} |-> m_events[i]]
      /\ m_oldEventIDs' = Append(m_oldEventIDs, dataID)
      /\ event' = m_events[dataID]
  BY <1>3 DEF TakeEvent, RemoveEvent
<1>5. Live' = Live \ {dataID}
  BY <1>4 DEF Live
<1>6. dataID \notin Elems(m_oldEventIDs) /\ OldIDs = Elems(m_oldEventIDs)
      /\ OldIDs' = Elems(m_oldEventIDs')
  BY <1>1, <1>3 DEF Ids, OldIDs, Elems
<1>7. /\ m_oldEventIDs' \in Seq(Nat)
      /\ Elems(m_oldEventIDs') = Elems(m_oldEventIDs) \cup {dataID}
      /\ NoRepeats(m_oldEventIDs')
  BY SMTT(120), <1>1, <1>3, <1>4, <1>6, AppendElems DEF TableType, Ids
<1>8. Ids'
  <2>1. Live' \cup OldIDs' = Live \cup OldIDs
    BY <1>3, <1>5, <1>6, <1>7
  <2>2. Live' \cap OldIDs' = {}
    BY <1>1, <1>5, <1>6, <1>7 DEF Ids
  <2> QED
    BY <1>1, <1>7, <2>1, <2>2 DEF Ids
<1>9. Buffered'
  BY <1>1, <1>2, <1>5 DEF Buffered, TakeEvent
<1>10. TableType'
  BY <1>1, <1>4, <1>5, <1>7 DEF TableType, TakeEvent
<1>11. RestType'
  BY <1>1, <1>3, <1>4 DEF RestType, TableType, TakeEvent, postVars, histVars
<1>12. Control'
  BY <1>1 DEF Control, TakeEvent
<1> QED
  BY <1>8, <1>9, <1>10, <1>11, <1>12 DEF Inv

LEMMA DispatchInv ==
  ASSUME Inv, Dispatch
  PROVE  Inv'
<1>1. RestType /\ Control
  BY SMTT(120) DEF Inv
<1>2. InHand' = InHand
  BY DEF Dispatch, InHand
<1>3. TableType' /\ Ids' /\ Buffered' /\ (m_queueReady' <=> m_queue' # <<>>)
  BY <1>2, TableFrame DEF Dispatch
<1>4. delivered' \in Seq(Events)
  <2>1. CASE event = NoEvent
    BY <1>1, <2>1 DEF RestType, Dispatch
  <2>2. CASE event # NoEvent
    <3>1. event \in Events /\ delivered \in Seq(Events)
      BY <1>1, <2>2 DEF RestType
    <3>2. delivered' = Append(delivered, event)
      BY <2>2 DEF Dispatch
    <3> QED
      BY <3>1, <3>2, SeqAppend
  <2> QED
    BY <2>1, <2>2
<1>5. RestType'
  BY <1>1, <1>4 DEF RestType, Dispatch, postVars
<1>6. Control'
  BY <1>3 DEF Control, Dispatch
<1> QED
  BY SMTT(120), <1>3, <1>5, <1>6 DEF Inv

LEMMA AdoptBufferInv ==
  ASSUME Inv, AdoptBuffer
  PROVE  Inv'
<1>1. TableType /\ RestType /\ Control
  BY DEF Inv
<1>2. m_events' = NoEvents /\ m_oldEventIDs' = <<>> /\ m_queue' = <<>> /\ m_queueReady' = FALSE
  BY DEF AdoptBuffer
<1>3. Live' = {} /\ OldIDs' = {} /\ Elems(m_queue') = {} /\ InHand' = {}
  BY SMTT(120), <1>2 DEF NoEvents, AdoptBuffer, loopVars, Live, OldIDs, Elems, InHand
<1>4. Ids'
  <2>1. 0 \in Nat /\ {} = 0..(0 - 1)
    BY SMTT(120)
  <2>2. \E n \in Nat : Live' \cup OldIDs' = 0..(n - 1)
    BY <1>3, <2>1
  <2>3. NoRepeats(m_oldEventIDs') /\ Live' \cap OldIDs' = {} /\ Counting
    BY SMTT(120), <1>2, <1>3 DEF NoRepeats, Inv, Ids
  <2> QED
    BY <2>2, <2>3 DEF Ids
<1>5. Buffered'
  BY SMTT(120), <1>2, <1>3 DEF Buffered, NoRepeats
<1>6. TableType'
  <2>1. NoEvents \in [{} -> Events]
    BY DEF NoEvents
  <2>2. m_events' \in [Live' -> Events]
    BY <1>2, <1>3, <2>1
  <2>3. m_oldEventIDs' \in Seq(Nat) /\ m_queue' \in Seq(Nat) /\ m_queueReady' \in BOOLEAN
    BY <1>2, SeqNonempty
  <2> QED
    BY <1>3, <2>2, <2>3 DEF TableType
<1>7. dropped' \subseteq Events
  BY <1>1 DEF AdoptBuffer, Saved, TableType, RestType
<1>8. RestType'
  BY <1>1, <1>7 DEF RestType, AdoptBuffer, postVars, loopVars
<1>9. Control'
  BY <1>1, <1>2 DEF Control, AdoptBuffer, loopVars
<1> QED
  BY SMTT(120), <1>4, <1>5, <1>6, <1>8, <1>9 DEF Inv

\* The steps that touch neither the table nor the buffer nor m_pending.
LEMMA PlainStepInv ==
  ASSUME Inv, LoopReady \/ GetEvent \/ Poll \/ WaitForEvent \/ TimerExpires
              \/ RequestShutdown
  PROVE  Inv'
<1>1. RestType /\ Control
  BY DEF Inv
<1>2. UNCHANGED tableVars /\ InHand' = InHand
  BY DEF LoopReady, GetEvent, Poll, WaitForEvent, TimerExpires,
         RequestShutdown, InHand, loopVars
<1>3. TableType' /\ Ids' /\ Buffered' /\ (m_queueReady' <=> m_queue' # <<>>)
  BY <1>2, TableFrame
<1>4. RestType'
  <2>1. CASE LoopReady
    BY <1>1, <2>1 DEF RestType, LoopReady, postVars, histVars
  <2>2. CASE GetEvent
    BY <1>1, <2>2 DEF RestType, GetEvent, postVars, histVars
  <2>3. CASE Poll
    BY <1>1, <2>3 DEF RestType, Poll, postVars, histVars
  <2>4. CASE WaitForEvent
    BY <1>1, <2>4 DEF RestType, WaitForEvent, postVars, histVars
  <2>5. CASE TimerExpires
    BY <1>1, <2>5 DEF RestType, TimerExpires, postVars, histVars
  <2>6. CASE RequestShutdown
    BY <1>1, <2>6 DEF RestType, RequestShutdown, postVars, loopVars, histVars
  <2> QED
    BY <2>1, <2>2, <2>3, <2>4, <2>5, <2>6
<1>5. Control'
  BY <1>1, <1>2, <1>3 DEF Control, tableVars, LoopReady, GetEvent, Poll,
     WaitForEvent, TimerExpires, RequestShutdown, loopVars
<1> QED
  BY <1>3, <1>4, <1>5 DEF Inv

LEMMA StutterInv ==
  ASSUME Inv, UNCHANGED vars
  PROVE  Inv'
<1>1. RestType /\ Control
  BY DEF Inv
<1>2. UNCHANGED tableVars /\ InHand' = InHand
  BY DEF vars, loopVars, InHand
<1>3. TableType' /\ Ids' /\ Buffered' /\ (m_queueReady' <=> m_queue' # <<>>)
  BY <1>2, TableFrame
<1>4. RestType' /\ Control'
  BY <1>1 DEF RestType, Control, vars, tableVars, postVars, loopVars, histVars
<1> QED
  BY <1>3, <1>4 DEF Inv

-----------------------------------------------------------------------------
(* Where the events are: the argument for EveryEventKept and OrderKept *)

\* Two posts of the same number by one thread are one post, and two events of
\* one thread that saw the same flag are to be dispatched in order.
Same(e, f) == e.thread = f.thread /\ e.n = f.n
Alike(e, f) == e.thread = f.thread /\ e.ready = f.ready

\* The places an event passes through, from addEvent (7) to its dispatch (1);
\* what is discarded goes to 0.
Spots == 0..7

\* No post is in two spots, nor twice with another flag.
OneSpot(at) ==
  \A j, k \in Spots : \A e \in at[j], f \in at[k] : Same(e, f) => j = k /\ e = f

\* The events somewhere are the ones that the threads have posted.
Counted(at, count) ==
  /\ \A k \in Spots : \A e \in at[k] : e.n <= count[e.thread]
  /\ \A t \in Threads : \A n \in 1..count[t] :
       \E k \in Spots : \E e \in at[k] : e.thread = t /\ e.n = n

\* Whoever is further on was posted earlier.
InOrder(at) ==
  \A j, k \in 1..7 : j < k =>
    \A e \in at[j], f \in at[k] : Alike(e, f) => e.n < f.n

Tidy(at, count) == OneSpot(at) /\ Counted(at, count) /\ InOrder(at)

\* The events M go on from spot j to spot k.
Moved(at, j, k, M) ==
  [s \in Spots |-> IF s = j THEN at[s] \ M
                   ELSE IF s = k THEN at[s] \cup M ELSE at[s]]

\* Going on keeps the order if nobody of the same kind is overtaken.
LEMMA MoveKeeps ==
  ASSUME NEW at \in [Spots -> SUBSET Events], NEW count \in [Threads -> Nat],
         NEW j \in Spots, NEW k \in Spots, k < j,
         NEW M \in SUBSET at[j],
         NEW new, new = Moved(at, j, k, M),
         Tidy(at, count),
         k = 0 \/ \A e \in M : \A s \in (k + 1)..j : \A f \in new[s] :
                    Alike(e, f) => e.n < f.n
  PROVE  new \in [Spots -> SUBSET Events] /\ Tidy(new, count)
<1>1. new \in [Spots -> SUBSET Events]
  BY DEF Moved
<1>2. /\ new[j] = at[j] \ M
      /\ new[k] = at[k] \cup M
      /\ \A s \in Spots : s # j /\ s # k => new[s] = at[s]
  BY SMTT(120) DEF Moved, Spots
<1> HIDE DEF Moved
<1>3. \A s \in Spots : \A e \in new[s] :
         e \in at[s] \/ (s = k /\ e \in M /\ e \in at[j])
  BY <1>2
<1>4. OneSpot(new)
  <2> SUFFICES ASSUME NEW a \in Spots, NEW b \in Spots, NEW e \in new[a],
                      NEW f \in new[b], Same(e, f)
               PROVE  a = b /\ e = f
    BY DEF OneSpot
  <2>1. PICK c \in Spots : e \in at[c] /\ (c = a \/ (a = k /\ c = j /\ e \in M))
    BY <1>3
  <2>2. PICK d \in Spots : f \in at[d] /\ (d = b \/ (b = k /\ d = j /\ f \in M))
    BY <1>3
  <2>3. c = d /\ e = f
    BY SMTT(120), <2>1, <2>2 DEF Tidy, OneSpot
  <2>4. a = j => e \notin M
    BY <1>2
  <2>5. b = j => f \notin M
    BY <1>2
  <2> QED
    BY <2>1, <2>2, <2>3, <2>4, <2>5
<1>5. Counted(new, count)
  <2>1. ASSUME NEW s \in Spots, NEW e \in new[s] PROVE e.n <= count[e.thread]
    BY <1>3 DEF Tidy, Counted
  <2>2. ASSUME NEW t \in Threads, NEW n \in 1..count[t]
        PROVE  \E s \in Spots : \E e \in new[s] : e.thread = t /\ e.n = n
    <3>1. PICK s \in Spots : \E e \in at[s] : e.thread = t /\ e.n = n
      BY SMTT(120) DEF Tidy, Counted
    <3>2. PICK e \in at[s] : e.thread = t /\ e.n = n
      BY <3>1
    <3>3. e \in new[s] \/ e \in new[k]
      BY <1>2
    <3> QED
      BY <3>2, <3>3
  <2> QED
    BY <2>1, <2>2 DEF Counted
<1>6. InOrder(new)
  <2> SUFFICES ASSUME NEW a \in 1..7, NEW b \in 1..7, a < b,
                      NEW e \in new[a], NEW f \in new[b], Alike(e, f)
               PROVE  e.n < f.n
    BY DEF InOrder
  <2>0. a \in Spots /\ b \in Spots /\ \A s \in Spots : s \in Int
    BY SMTT(120) DEF Spots
  <2>1. CASE e \in at[a] /\ f \in at[b]
    BY <2>1 DEF Tidy, InOrder
  <2>2. CASE e \in at[a] /\ b = k /\ f \in at[j]
    <3>1. j \in 1..7 /\ a < j
      BY SMTT(120), <2>0, <2>2 DEF Spots
    <3> QED
      BY <2>2, <3>1 DEF Tidy, InOrder
  <2>3. CASE a = k /\ e \in M /\ e \in at[j] /\ f \in at[b]
    <3>1. CASE b \in (k + 1)..j
      BY SMTT(120), <2>0, <2>3, <3>1
    <3>2. CASE b > j
      <4>1. j \in 1..7
        BY SMTT(120), <2>0, <2>3 DEF Spots
      <4> QED
        BY <2>3, <3>2, <4>1 DEF Tidy, InOrder
    <3> QED
      BY SMTT(120), <2>0, <2>3, <3>1, <3>2
  <2> QED
    BY SMTT(120), <1>3, <2>0, <2>1, <2>2, <2>3
<1> QED
  BY <1>1, <1>4, <1>5, <1>6 DEF Tidy

\* A thread enters addEvent with the next event.
Joined(at, e) == [at EXCEPT ![7] = @ \cup {e}]
OneMore(count, t) == [count EXCEPT ![t] = @ + 1]

LEMMA JoinKeeps ==
  ASSUME NEW at \in [Spots -> SUBSET Events], NEW count \in [Threads -> Nat],
         NEW e \in Events, e.n = count[e.thread] + 1,
         Tidy(at, count)
  PROVE  Tidy(Joined(at, e), OneMore(count, e.thread))
<1> DEFINE new == Joined(at, e)
           more == OneMore(count, e.thread)
<1>0. e.thread \in Threads /\ e.n \in Nat
  BY DEF Events
<1>1. /\ new \in [Spots -> SUBSET Events] /\ 7 \in Spots
      /\ \A s \in Spots : new[s] = IF s = 7 THEN at[s] \cup {e} ELSE at[s]
  BY SMTT(120) DEF Spots, Joined
<1>2. \A s \in Spots : \A f \in new[s] : f \in at[s] \/ (s = 7 /\ f = e)
  BY SMTT(120), <1>1
<1>3. \A s \in Spots : at[s] \subseteq new[s]
  BY <1>1
<1>4. e \in new[7]
  BY <1>1
<1>5. \A s \in Spots : \A f \in at[s] : f.thread = e.thread => f.n < e.n
  <2> SUFFICES ASSUME NEW s \in Spots, NEW f \in at[s], f.thread = e.thread
               PROVE  f.n < e.n
    OBVIOUS
  <2>1. f \in Events
    OBVIOUS
  <2>2. f.n \in Nat /\ f.n <= count[e.thread] /\ count[e.thread] \in Nat
    BY <2>1, <1>0 DEF Tidy, Counted, Events
  <2> QED
    BY SMTT(120), <2>2
<1>6. /\ more \in [Threads -> Nat]
      /\ more[e.thread] = count[e.thread] + 1
      /\ \A t \in Threads : t # e.thread => more[t] = count[t]
      /\ \A t \in Threads : count[t] \in Nat
  BY <1>0 DEF OneMore
<1> HIDE DEF new, more
<1>7. OneSpot(new)
  <2> SUFFICES ASSUME NEW a \in Spots, NEW b \in Spots, NEW f \in new[a],
                      NEW g \in new[b], Same(f, g)
               PROVE  a = b /\ f = g
    BY DEF OneSpot
  <2>1. CASE f \in at[a] /\ g \in at[b]
    BY <2>1 DEF Tidy, OneSpot
  <2>2. CASE f = e /\ g = e /\ a = 7 /\ b = 7
    BY <2>2
  <2>3. ~(f \in at[a] /\ g = e)
    BY SMTT(120), <1>0, <1>5 DEF Same
  <2>4. ~(g \in at[b] /\ f = e)
    BY SMTT(120), <1>0, <1>5 DEF Same
  <2> QED
    BY <1>2, <2>1, <2>2, <2>3, <2>4
<1>8. Counted(new, more)
  <2>1. ASSUME NEW s \in Spots, NEW f \in new[s] PROVE f.n <= more[f.thread]
    <3>1. CASE f = e
      BY SMTT(120), <3>1, <1>6, <1>0
    <3>2. CASE f \in at[s]
      <4>1. f.n <= count[f.thread] /\ f.thread \in Threads /\ f.n \in Nat
        BY SMTT(120), <3>2 DEF Tidy, Counted, Events
      <4> QED
        BY SMTT(120), <4>1, <1>6
    <3> QED
      BY <1>2, <3>1, <3>2
  <2>2. ASSUME NEW t \in Threads, NEW n \in 1..more[t]
        PROVE  \E s \in Spots : \E f \in new[s] : f.thread = t /\ f.n = n
    <3>1. CASE t = e.thread /\ n = e.n
      BY <3>1, <1>1, <1>4
    <3>2. CASE ~(t = e.thread /\ n = e.n)
      <4>1. n \in 1..count[t]
        BY SMTT(120), <3>2, <1>6
      <4>2. PICK s \in Spots : \E f \in at[s] : f.thread = t /\ f.n = n
        BY SMTT(120), <4>1 DEF Tidy, Counted
      <4> QED
        BY <4>2, <1>3
    <3> QED
      BY <3>1, <3>2
  <2> QED
    BY <2>1, <2>2 DEF Counted
<1>9. InOrder(new)
  <2> SUFFICES ASSUME NEW a \in 1..7, NEW b \in 1..7, a < b,
                      NEW f \in new[a], NEW g \in new[b], Alike(f, g)
               PROVE  f.n < g.n
    BY DEF InOrder
  <2>0. a \in Spots /\ b \in Spots /\ a # 7
    BY SMTT(120) DEF Spots
  <2>1. f \in at[a]
    BY <1>2, <2>0
  <2>2. CASE g \in at[b]
    BY <2>1, <2>2 DEF Tidy, InOrder
  <2>3. CASE g = e
    BY <1>5, <2>0, <2>1, <2>3 DEF Alike
  <2> QED
    BY <1>2, <2>0, <2>2, <2>3
<1> QED
  BY <1>7, <1>8, <1>9 DEF Tidy, new, more

-----------------------------------------------------------------------------
(* The spots of a state *)

\* The event the main thread holds: on its way out, to its dispatch, or, from
\* m_pending, on its way in.
Held == {event} \ {NoEvent}
Leaving == IF pc = "add" THEN {} ELSE Held
Entering == IF pc = "add" THEN Held ELSE {}

\* The events of the id in hand and of those in the buffer, and the events that
\* threads are inside addEvent with.
HandEvents == {m_events[i] : i \in InHand}
BufferEvents == {m_events[i] : i \in Elems(m_queue)}
Callers == {posting[t] : t \in Threads} \ {NoEvent}

Layout(s0, s1, s2, s3, s4, s5, s6, s7) ==
  [k \in Spots |->
     IF k = 0 THEN s0 ELSE IF k = 1 THEN s1 ELSE IF k = 2 THEN s2
     ELSE IF k = 3 THEN s3 ELSE IF k = 4 THEN s4 ELSE IF k = 5 THEN s5
     ELSE IF k = 6 THEN s6 ELSE s7]

At == Layout(dropped, Elems(delivered), Leaving, HandEvents, BufferEvents,
             Entering, Elems(m_pending), Callers)

\* The events that one thread posted with one flag come in order.
Sorted(s) ==
  \A i, j \in DOMAIN s : i < j /\ Alike(s[i], s[j]) => s[i].n < s[j].n

\* Nothing is twice in one spot.
Single ==
  /\ NoRepeats(m_pending) /\ NoRepeats(delivered)
  /\ \A i, j \in Live : m_events[i] = m_events[j] => i = j
  /\ \A t \in Threads : posting[t] # NoEvent => posting[t].thread = t

\* The events of the ids in the buffer, in the buffer's order.
Row(table, ids) == [i \in DOMAIN ids |-> table[ids[i]]]

\* The events in one spot are in order.
Rows ==
  /\ Sorted(delivered)
  /\ Sorted(m_pending)
  /\ Sorted(Row(m_events, m_queue))

\* When the main thread holds an event, and that m_pending is for those who
\* found the queue not ready.
Unready ==
  /\ event # NoEvent => pc \in {"add", "dispatch"}
  /\ pc = "add" => ~event.ready
  /\ \A e \in Elems(m_pending) : ~e.ready

EventInv == Tidy(At, posted) /\ Single /\ Rows /\ Unready

LEMMA LayoutIs ==
  ASSUME NEW s0, NEW s1, NEW s2, NEW s3, NEW s4, NEW s5, NEW s6, NEW s7
  PROVE  LET at == Layout(s0, s1, s2, s3, s4, s5, s6, s7)
         IN  /\ at[0] = s0 /\ at[1] = s1 /\ at[2] = s2 /\ at[3] = s3
             /\ at[4] = s4 /\ at[5] = s5 /\ at[6] = s6 /\ at[7] = s7
             /\ at = [k \in Spots |-> at[k]]
BY SMTT(120) DEF Layout, Spots

\* The spots hold events.
LEMMA AtTyped ==
  ASSUME TableType, RestType, Buffered
  PROVE  /\ At \in [Spots -> SUBSET Events]
         /\ posted \in [Threads -> Nat]
         /\ At[0] = dropped /\ At[1] = Elems(delivered) /\ At[2] = Leaving
         /\ At[3] = HandEvents /\ At[4] = BufferEvents /\ At[5] = Entering
         /\ At[6] = Elems(m_pending) /\ At[7] = Callers
<1>1. /\ dropped \subseteq Events
      /\ Elems(delivered) \subseteq Events
      /\ Elems(m_pending) \subseteq Events
  <2>1. DOMAIN delivered = 1..Len(delivered) /\ DOMAIN m_pending = 1..Len(m_pending)
    BY SeqLength DEF RestType
  <2>2. delivered \in Seq(Events) /\ m_pending \in Seq(Events) /\ dropped \subseteq Events
    BY DEF RestType
  <2>3. /\ \A i \in DOMAIN delivered : delivered[i] \in Events
        /\ \A i \in DOMAIN m_pending : m_pending[i] \in Events
    BY <2>1, <2>2, SeqElement
  <2> QED
    BY <2>2, <2>3 DEF Elems
<1>2. Leaving \subseteq Events /\ Entering \subseteq Events
  BY DEF RestType, Leaving, Entering, Held
<1>3. HandEvents \subseteq Events /\ BufferEvents \subseteq Events
  BY DEF TableType, Buffered, HandEvents, BufferEvents
<1>4. Callers \subseteq Events
  BY DEF RestType, Callers
<1>5. /\ At[0] = dropped /\ At[1] = Elems(delivered) /\ At[2] = Leaving
      /\ At[3] = HandEvents /\ At[4] = BufferEvents /\ At[5] = Entering
      /\ At[6] = Elems(m_pending) /\ At[7] = Callers
      /\ At = [k \in Spots |-> At[k]]
  BY SMTT(120), LayoutIs DEF At
<1>6. \A k \in Spots : At[k] \subseteq Events
  BY SMTT(120), <1>1, <1>2, <1>3, <1>4, <1>5 DEF Spots
<1>7. At \in [Spots -> SUBSET Events]
  BY <1>5, <1>6
<1> QED
  BY <1>5, <1>7 DEF RestType

\* What the spots are after a step.
LEMMA AtNext ==
  /\ (At')[0] = dropped' /\ (At')[1] = Elems(delivered') /\ (At')[2] = Leaving'
  /\ (At')[3] = HandEvents' /\ (At')[4] = BufferEvents' /\ (At')[5] = Entering'
  /\ (At')[6] = Elems(m_pending') /\ (At')[7] = Callers'
  /\ At' = [k \in Spots |-> (At')[k]]
BY SMTT(120), LayoutIs DEF At

\* A step moves M from j to k.
Shifts(M, j, k) ==
  /\ M \subseteq At[j]
  /\ (At')[j] = At[j] \ M /\ (At')[k] = At[k] \cup M
  /\ \A s \in Spots : s # j /\ s # k => (At')[s] = At[s]

\* Nobody of the same kind as M is left between k and j that was there before.
Behind(M, j, k) ==
  \A e \in M : \A s \in (k + 1)..j : \A f \in (At')[s] : Alike(e, f) => e.n < f.n

\* M goes on from j to k, past nobody of the same kind.
GoOn(M, j, k) == k < j /\ Shifts(M, j, k) /\ (k = 0 \/ Behind(M, j, k))

LEMMA StepMoves ==
  ASSUME Inv, EventInv, posted' = posted,
         NEW M, NEW j \in Spots, NEW k \in Spots, GoOn(M, j, k)
  PROVE  Tidy(At, posted)'
<1> USE DEF GoOn, Shifts, Behind
<1>1. At \in [Spots -> SUBSET Events] /\ posted \in [Threads -> Nat]
  BY AtTyped DEF Inv
<1>2. At' = Moved(At, j, k, M)
  <2>1. k # j
    BY SMTT(120) DEF Spots
  <2>2. \A s \in Spots : (At')[s] = IF s = j THEN At[s] \ M
                                  ELSE IF s = k THEN At[s] \cup M ELSE At[s]
    BY <2>1
  <2> QED
    BY <2>2, AtNext DEF Moved
<1>3. Tidy(At, posted)
  BY DEF EventInv
<1>4. Tidy(At', posted)
  BY SMTT(120), <1>1, <1>2, <1>3, MoveKeeps
<1> QED
  BY <1>4

\* A step that moves no event.
LEMMA StepKeeps ==
  ASSUME EventInv, posted' = posted, dropped' = dropped, delivered' = delivered,
         Leaving' = Leaving, HandEvents' = HandEvents,
         BufferEvents' = BufferEvents, Entering' = Entering,
         m_pending' = m_pending, Callers' = Callers
  PROVE  Tidy(At, posted)'
<1>1. At' = At
  BY DEF At
<1> QED
  BY <1>1 DEF EventInv

\* At the end of a row there is room for what is behind it.
LEMMA SortedAppend ==
  ASSUME NEW s \in Seq(Events), NEW e \in Events, Sorted(s),
         \A f \in Elems(s) : Alike(f, e) => f.n < e.n
  PROVE  Sorted(Append(s, e))
<1>1. /\ Append(s, e) \in Seq(Events)
      /\ Len(Append(s, e)) = Len(s) + 1
      /\ \A i \in 1..Len(s) : Append(s, e)[i] = s[i]
      /\ Append(s, e)[Len(s) + 1] = e
  BY SMTT(120), SeqAppend
<1> DEFINE a == Append(s, e)
<1>2. DOMAIN a = 1..(Len(s) + 1) /\ DOMAIN s = 1..Len(s) /\ Len(s) \in Nat
  BY <1>1, SeqLength
<1> HIDE DEF a
<1>3. SUFFICES ASSUME NEW i \in DOMAIN a, NEW j \in DOMAIN a, i < j, Alike(a[i], a[j])
               PROVE  a[i].n < a[j].n
  BY DEF Sorted, a
<1>4. i \in DOMAIN s /\ a[i] = s[i]
  BY SMTT(120), <1>1, <1>2, <1>3 DEF a
<1>5. CASE j = Len(s) + 1
  BY <1>1, <1>3, <1>4, <1>5 DEF Elems, a
<1>6. CASE j # Len(s) + 1
  <2>1. j \in DOMAIN s /\ a[j] = s[j]
    BY SMTT(120), <1>1, <1>2, <1>6 DEF a
  <2> QED
    BY <1>3, <1>4, <2>1 DEF Sorted
<1> QED
  BY <1>5, <1>6

\* The first of a row is ahead of the others.
LEMMA SortedTail ==
  ASSUME NEW s \in Seq(Events), s # <<>>, Sorted(s)
  PROVE  /\ Sorted(Tail(s))
         /\ \A f \in Elems(Tail(s)) : Alike(Head(s), f) => Head(s).n < f.n
<1> DEFINE u == Tail(s)
<1>1. /\ u \in Seq(Events)
      /\ Len(u) = Len(s) - 1
      /\ \A i \in 1..Len(u) : u[i] = s[i + 1]
      /\ Head(s) = s[1]
  BY SeqTail
<1> HIDE DEF u
<1>2. /\ DOMAIN u = 1..Len(u) /\ DOMAIN s = 1..Len(s)
      /\ Len(s) \in Nat /\ Len(u) \in Nat
  BY <1>1, SeqLength
<1>3. \A i \in DOMAIN u : i \in Int /\ i > 0 /\ i + 1 \in DOMAIN s /\ u[i] = s[i + 1]
  <2> SUFFICES ASSUME NEW i \in 1..Len(u)
               PROVE  i + 1 \in 1..Len(s) /\ u[i] = s[i + 1]
    BY SMTT(120), <1>2
  <2> QED
    BY SMTT(120), <1>1, <1>2
<1>4. Sorted(u)
  <2>1. SUFFICES ASSUME NEW i \in DOMAIN u, NEW j \in DOMAIN u, i < j, Alike(u[i], u[j])
                 PROVE  u[i].n < u[j].n
    BY DEF Sorted
  <2>2. i + 1 < j + 1 /\ i + 1 \in DOMAIN s /\ j + 1 \in DOMAIN s
        /\ u[i] = s[i + 1] /\ u[j] = s[j + 1]
    BY SMTT(120), <2>1, <1>3
  <2> QED
    BY <2>1, <2>2 DEF Sorted
<1>5. ASSUME NEW i \in DOMAIN u, Alike(Head(s), u[i]) PROVE Head(s).n < u[i].n
  <2>1. 1 \in DOMAIN s /\ i + 1 \in DOMAIN s /\ 1 < i + 1
        /\ u[i] = s[i + 1] /\ Head(s) = s[1]
    BY SMTT(120), <1>1, <1>2, <1>3
  <2> QED
    BY <1>5, <2>1 DEF Sorted
<1> QED
  BY <1>4, <1>5 DEF Elems, u

\* The row of the buffer is a sequence of the events of its ids.
LEMMA RowIs ==
  ASSUME NEW ids \in Seq(Nat), NEW table, \A i \in Elems(ids) : table[i] \in Events
  PROVE  /\ Row(table, ids) \in Seq(Events)
         /\ Len(Row(table, ids)) = Len(ids)
         /\ DOMAIN Row(table, ids) = 1..Len(ids)
         /\ \A i \in 1..Len(ids) : Row(table, ids)[i] = table[ids[i]]
         /\ Elems(Row(table, ids)) = {table[i] : i \in Elems(ids)}
<1>1. DOMAIN ids = 1..Len(ids) /\ Len(ids) \in Nat
  BY SeqLength
<1> DEFINE r == Row(table, ids)
<1>2. r = [i \in 1..Len(ids) |-> table[ids[i]]]
  BY <1>1 DEF Row
<1>3. \A i \in 1..Len(ids) : table[ids[i]] \in Events
  BY <1>1 DEF Elems
<1> HIDE DEF r
<1>4. r \in Seq(Events) /\ Len(r) = Len(ids) /\ DOMAIN r = 1..Len(ids)
  BY SMTT(120), <1>1, <1>2, <1>3
<1>5. Elems(r) = {table[i] : i \in Elems(ids)}
  BY <1>1, <1>2, <1>4 DEF Elems
<1> QED
  BY <1>2, <1>4, <1>5 DEF r

\* saveEvent puts an event at the end of the row.
LEMMA RowAppend ==
  ASSUME NEW ids \in Seq(Nat), NEW table, \A i \in Elems(ids) : table[i] \in Events,
         NEW x \in Nat, NEW e \in Events,
         NEW more, more[x] = e, \A i \in Elems(ids) : more[i] = table[i]
  PROVE  Row(more, Append(ids, x)) = Append(Row(table, ids), e)
<1> DEFINE r == Row(table, ids)
           q == Append(ids, x)
           a == Append(r, e)
           b == Row(more, q)
<1>1. /\ r \in Seq(Events) /\ Len(r) = Len(ids)
      /\ \A i \in 1..Len(ids) : r[i] = table[ids[i]]
  BY SMTT(120), RowIs
<1>2. /\ q \in Seq(Nat) /\ Len(q) = Len(ids) + 1
      /\ \A i \in 1..Len(ids) : q[i] = ids[i]
      /\ q[Len(ids) + 1] = x
  BY SMTT(120), SeqAppend
<1>3. Elems(q) = Elems(ids) \cup {x}
  BY SMTT(120), AppendElems
<1>4. \A i \in Elems(q) : more[i] \in Events
  BY <1>3
<1> HIDE DEF q, r
<1>5. /\ b \in Seq(Events) /\ Len(b) = Len(q)
      /\ \A i \in 1..Len(q) : b[i] = more[q[i]]
  BY SMTT(120), <1>2, <1>4, RowIs
<1>6. /\ a \in Seq(Events) /\ Len(a) = Len(ids) + 1
      /\ \A i \in 1..Len(ids) : a[i] = r[i]
      /\ a[Len(ids) + 1] = e
  BY SMTT(120), <1>1, SeqAppend
<1> HIDE DEF a, b
<1>7. DOMAIN ids = 1..Len(ids) /\ Len(ids) \in Nat
  BY SeqLength
<1>8. \A i \in 1..Len(b) : b[i] = a[i]
  <2> SUFFICES ASSUME NEW i \in 1..(Len(ids) + 1) PROVE b[i] = a[i]
    BY <1>2, <1>5
  <2>1. CASE i = Len(ids) + 1
    BY <2>1, <1>2, <1>5, <1>6
  <2>2. CASE i \in 1..Len(ids)
    <3>1. ids[i] \in Elems(ids)
      BY <2>2, <1>7 DEF Elems
    <3>2. i \in 1..Len(q)
      BY <1>2
    <3>3. b[i] = more[q[i]] /\ q[i] = ids[i] /\ more[ids[i]] = table[ids[i]]
      BY <2>2, <3>1, <3>2, <1>2, <1>5
    <3>4. a[i] = table[ids[i]]
      BY <2>2, <1>1, <1>6
    <3> QED
      BY <3>3, <3>4
  <2> QED
    BY SMTT(120), <2>1, <2>2, <1>7
<1>9. Len(b) = Len(a)
  BY <1>2, <1>5, <1>6
<1>10. b = a
  BY <1>5, <1>6, <1>8, <1>9, SeqSame
<1> QED
  BY <1>10 DEF a, b, q, r

\* getEvent takes the first of the row.
LEMMA RowTail ==
  ASSUME NEW ids \in Seq(Nat), ids # <<>>,
         NEW table, \A i \in Elems(ids) : table[i] \in Events
  PROVE  /\ Row(table, ids) # <<>>
         /\ Head(Row(table, ids)) = table[Head(ids)]
         /\ Tail(Row(table, ids)) = Row(table, Tail(ids))
<1> DEFINE r == Row(table, ids)
           u == Tail(ids)
           b == Row(table, u)
<1>1. /\ r \in Seq(Events) /\ Len(r) = Len(ids)
      /\ \A i \in 1..Len(ids) : r[i] = table[ids[i]]
  BY RowIs
<1>2. /\ u \in Seq(Nat) /\ Len(u) = Len(ids) - 1
      /\ \A i \in 1..Len(u) : u[i] = ids[i + 1]
      /\ Head(ids) = ids[1]
  BY SeqTail
<1>3. Elems(u) \subseteq Elems(ids)
  BY TailElems
<1>4. Len(ids) \in Nat /\ Len(ids) # 0
  BY SeqLength, SeqNonempty
<1> HIDE DEF u, r
<1>5. /\ b \in Seq(Events) /\ Len(b) = Len(u)
      /\ \A i \in 1..Len(u) : b[i] = table[u[i]]
  BY <1>2, <1>3, RowIs
<1> HIDE DEF b
<1>6. r # <<>> /\ Head(r) = r[1]
  BY SMTT(120), <1>1, <1>4
<1>7. /\ Tail(r) \in Seq(Events) /\ Len(Tail(r)) = Len(r) - 1
      /\ \A i \in 1..Len(Tail(r)) : Tail(r)[i] = r[i + 1]
  BY <1>1, <1>6, SeqTail
<1>8. Len(Tail(r)) = Len(b)
  BY <1>1, <1>2, <1>5, <1>7
<1>9. \A i \in 1..Len(b) : Tail(r)[i] = b[i]
  <2> SUFFICES ASSUME NEW i \in 1..(Len(ids) - 1) PROVE Tail(r)[i] = b[i]
    BY <1>2, <1>5
  <2>1. i + 1 \in 1..Len(ids)
    BY SMTT(120), <1>4
  <2> QED
    BY <2>1, <1>1, <1>2, <1>5, <1>7, <1>8
<1>10. Tail(r) = b
  BY <1>5, <1>7, <1>8, <1>9, SeqSame
<1>11. Head(r) = table[Head(ids)]
  BY SMTT(120), <1>1, <1>2, <1>4, <1>6
<1> QED
  BY <1>6, <1>10, <1>11 DEF b, r, u

\* The frame of a step that leaves the buffer and the table alone.
LEMMA SameTable ==
  ASSUME m_events' = m_events, m_queue' = m_queue
  PROVE  /\ BufferEvents' = BufferEvents
         /\ InHand' = InHand => HandEvents' = HandEvents
         /\ Live' = Live
         /\ Row(m_events, m_queue)' = Row(m_events, m_queue)
BY DEF BufferEvents, HandEvents, Live

\* What addEventToBuffer does with an event that is not saved yet.
LEMMA AddedEvent ==
  ASSUME Inv, Single, Rows, NEW e \in Events, AddEventToBuffer(e),
         InHand' = InHand, e \notin HandEvents, e \notin BufferEvents,
         \A f \in BufferEvents : Alike(f, e) => f.n < e.n
  PROVE  /\ \/ BufferEvents' = BufferEvents \cup {e} /\ dropped' = dropped
            \/ BufferEvents' = BufferEvents /\ dropped' = dropped \cup {e}
         /\ HandEvents' = HandEvents
         /\ \A i, j \in Live' : m_events'[i] = m_events'[j] => i = j
         /\ Sorted(Row(m_events, m_queue)')
<1>0. TableType /\ Ids /\ Buffered
  BY DEF Inv
<1>1. CASE SaveEvent(e) /\ UNCHANGED dropped
  <2>1. NextID \in Nat /\ NextID \notin Live
    BY <1>0, NextIDFresh
  <2> DEFINE id == NextID
  <2>2. /\ m_events' = [i \in Live \cup {id} |-> IF i = id THEN e ELSE m_events[i]]
        /\ m_queue' = Append(m_queue, id)
    BY <1>1 DEF SaveEvent
  <2> HIDE DEF id
  <2>3. Elems(m_queue) \subseteq Live /\ InHand \subseteq Live /\ m_queue \in Seq(Nat)
    BY <1>0 DEF Buffered, TableType
  <2>4. /\ Live' = Live \cup {id}
        /\ m_events'[id] = e
        /\ \A i \in Live : m_events'[i] = m_events[i]
    BY <2>1, <2>2 DEF Live, id
  <2>5. Elems(m_queue') = Elems(m_queue) \cup {id}
    BY <2>1, <2>2, <2>3, AppendElems DEF id
  <2>6. BufferEvents' = BufferEvents \cup {e}
    BY SMTT(120), <2>3, <2>4, <2>5 DEF BufferEvents
  <2>7. HandEvents' = HandEvents
    BY <2>3, <2>4 DEF HandEvents
  <2>8. \A i \in Live : m_events[i] # e
    BY <1>0 DEF Buffered, HandEvents, BufferEvents
  <2>9. \A i, j \in Live' : m_events'[i] = m_events'[j] => i = j
    BY SMTT(120), <2>4, <2>8 DEF Single
  <2>10. \A i \in Elems(m_queue) : m_events[i] \in Events
    BY <1>0, <2>3 DEF TableType
  <2>11. Row(m_events', m_queue') = Append(Row(m_events, m_queue), e)
    <3>1. id \in Nat /\ \A i \in Elems(m_queue) : m_events'[i] = m_events[i]
      BY <2>1, <2>3, <2>4 DEF id
    <3>2. PICK more : more = m_events'
      OBVIOUS
    <3>3. m_events'[id] = e
      BY <2>4
    <3>4. more[id] = e /\ \A i \in Elems(m_queue) : more[i] = m_events[i]
      BY <3>1, <3>2, <3>3
    <3>5. m_queue \in Seq(Nat) /\ id \in Nat
      BY <2>3, <3>1
    <3>6. Row(more, Append(m_queue, id)) = Append(Row(m_events, m_queue), e)
      BY SMTT(120), <2>10, <3>4, <3>5, RowAppend
    <3> QED
      BY <2>2, <3>2, <3>6
  <2>12. /\ Row(m_events, m_queue) \in Seq(Events)
         /\ Elems(Row(m_events, m_queue)) = BufferEvents
    BY SMTT(120), <2>3, <2>10, RowIs DEF BufferEvents
  <2>13. Sorted(Append(Row(m_events, m_queue), e))
    BY <2>12, SortedAppend DEF Rows
  <2> QED
    BY <1>1, <2>6, <2>7, <2>9, <2>11, <2>13
<1>2. CASE dropped' = dropped \cup {e} /\ UNCHANGED <<m_events, m_queue>>
  <2>1. /\ BufferEvents' = BufferEvents /\ HandEvents' = HandEvents /\ Live' = Live
        /\ Row(m_events, m_queue)' = Row(m_events, m_queue)
    BY <1>2, SameTable
  <2> QED
    BY <1>2, <2>1 DEF Single, Rows
<1> QED
  BY <1>1, <1>2 DEF AddEventToBuffer, tableVars

\* What the invariant says of two spots.
LEMMA Apart ==
  ASSUME Inv, EventInv, NEW j \in Spots, NEW k \in Spots, NEW e \in At[j]
  PROVE  /\ j # k => e \notin At[k]
         /\ e \in Events
         /\ j \in 1..7 /\ k \in 1..7 /\ k < j =>
              \A f \in At[k] : Alike(f, e) => f.n < e.n
<1>1. At \in [Spots -> SUBSET Events]
  BY AtTyped DEF Inv
<1> QED
  BY <1>1 DEF EventInv, Tidy, OneSpot, Same, InOrder

-----------------------------------------------------------------------------
(* Every step keeps the events *)

LEMMA CheckReadyKept ==
  ASSUME Inv, EventInv, NEW t \in Threads, CheckReady(t)
  PROVE  EventInv'
<1>1. RestType /\ TableType /\ Buffered
  BY DEF Inv
<1>2. PICK e : e = [thread |-> t, n |-> posted[t] + 1, ready |-> m_ready]
  OBVIOUS
<1>3. e \in Events /\ e.thread = t /\ e.n = posted[t] + 1 /\ e # NoEvent
  BY SMTT(120), <1>1, <1>2, NoEventAssumption DEF RestType, Events
<1>4. /\ posting' = [posting EXCEPT ![t] = e]
      /\ posted' = [posted EXCEPT ![t] = @ + 1]
      /\ posting[t] = NoEvent
  BY <1>2 DEF CheckReady
<1>5. /\ \A u \in Threads : posting'[u] = IF u = t THEN e ELSE posting[u]
      /\ Callers' = Callers \cup {e}
  BY <1>1, <1>3, <1>4 DEF RestType, Callers
<1>6. /\ m_events' = m_events /\ m_queue' = m_queue /\ InHand' = InHand
      /\ dropped' = dropped /\ delivered' = delivered /\ m_pending' = m_pending
      /\ event' = event /\ pc' = pc
  BY DEF CheckReady, tableVars, histVars, loopVars, InHand
<1>7. /\ BufferEvents' = BufferEvents /\ HandEvents' = HandEvents /\ Live' = Live
      /\ Row(m_events, m_queue)' = Row(m_events, m_queue)
  BY <1>6, SameTable
<1>8. Leaving' = Leaving /\ Entering' = Entering
  BY <1>6 DEF Leaving, Entering, Held
<1>9. Tidy(At, posted)'
  <2>1. At \in [Spots -> SUBSET Events] /\ posted \in [Threads -> Nat] /\ At[7] = Callers
    BY <1>1, AtTyped
  <2>2. \A s \in Spots : (At')[s] = IF s = 7 THEN At[s] \cup {e} ELSE At[s]
    <3>1. /\ (At')[0] = At[0] /\ (At')[1] = At[1] /\ (At')[2] = At[2] /\ (At')[3] = At[3]
          /\ (At')[4] = At[4] /\ (At')[5] = At[5] /\ (At')[6] = At[6]
          /\ (At')[7] = At[7] \cup {e}
      BY <1>1, <1>5, <1>6, <1>7, <1>8, AtTyped, AtNext
    <3> QED
      BY SMTT(120), <3>1 DEF Spots
  <2>3. At' = Joined(At, e)
    BY <2>1, <2>2, AtNext DEF Joined
  <2>4. posted' = OneMore(posted, e.thread) /\ e.n = posted[e.thread] + 1
    BY <1>3, <1>4 DEF OneMore
  <2>5. Tidy(At', posted')
    BY <1>3, <2>1, <2>3, <2>4, JoinKeeps DEF EventInv
  <2> QED
    BY <2>5
<1>10. Single'
  <2>1. \A u \in Threads : posting'[u] # NoEvent => posting'[u].thread = u
    BY <1>3, <1>5 DEF EventInv, Single
  <2> QED
    BY <1>6, <1>7, <2>1 DEF EventInv, Single
<1>11. Rows' /\ Unready'
  BY <1>6, <1>7 DEF EventInv, Rows, Unready
<1> QED
  BY <1>9, <1>10, <1>11 DEF EventInv

LEMMA FinishAddKept ==
  ASSUME Inv, EventInv, NEW t \in Threads, FinishAdd(t)
  PROVE  EventInv'
<1>1. RestType /\ TableType /\ Buffered /\ Single /\ Rows /\ Unready
  BY DEF Inv, EventInv
<1>2. PICK e \in Events : e = posting[t] /\ e.thread = t /\ e # NoEvent
  BY <1>1, NoEventAssumption DEF RestType, FinishAdd, Single
<1>3. /\ \A u \in Threads : posting'[u] = IF u = t THEN NoEvent ELSE posting[u]
      /\ posted' = posted /\ delivered' = delivered /\ event' = event /\ pc' = pc
      /\ InHand' = InHand
  BY <1>1 DEF FinishAdd, loopVars, InHand, RestType
<1>4. /\ At[0] = dropped /\ At[1] = Elems(delivered) /\ At[2] = Leaving
      /\ At[3] = HandEvents /\ At[4] = BufferEvents /\ At[5] = Entering
      /\ At[6] = Elems(m_pending) /\ At[7] = Callers
  BY <1>1, AtTyped
<1>5. e \in Callers
  BY <1>2 DEF Callers
<1>6. \A f \in Callers \ {e} : f.thread # e.thread
  BY SMTT(120), <1>1, <1>2 DEF Callers, Single
<1>7. Callers' = Callers \ {e}
  BY SMTT(120), <1>1, <1>2, <1>3 DEF Callers, Single
<1>8. Leaving' = Leaving /\ Entering' = Entering
  BY <1>3 DEF Leaving, Entering, Held
<1>9. /\ e \notin HandEvents /\ e \notin BufferEvents /\ e \notin Elems(m_pending)
      /\ \A f \in BufferEvents : Alike(f, e) => f.n < e.n
      /\ \A f \in Elems(m_pending) : Alike(f, e) => f.n < e.n
  BY SMTT(120), <1>4, <1>5, Apart DEF Spots
<1>10. \A u \in Threads : posting'[u] # NoEvent => posting'[u].thread = u
  BY <1>1, <1>3 DEF Single
<1>11. CASE ~e.ready
  <2>1. /\ UNCHANGED <<tableVars, dropped>>
        /\ m_pending' = Append(m_pending, e)
    BY <1>2, <1>11 DEF FinishAdd
  <2>2. m_pending \in Seq(Events)
    BY <1>1 DEF RestType
  <2>3. Elems(m_pending') = Elems(m_pending) \cup {e} /\ NoRepeats(m_pending')
    BY <1>1, <1>9, <2>1, <2>2, AppendElems DEF Single
  <2>4. /\ BufferEvents' = BufferEvents /\ HandEvents' = HandEvents /\ Live' = Live
        /\ Row(m_events, m_queue)' = Row(m_events, m_queue)
        /\ m_events' = m_events
    BY <1>3, <2>1, SameTable DEF tableVars
  <2>5. Tidy(At, posted)'
    <3>1. /\ (At')[7] = At[7] \ {e} /\ (At')[6] = At[6] \cup {e}
          /\ \A s \in Spots : s # 7 /\ s # 6 => (At')[s] = At[s]
      BY SMTT(120), <1>3, <1>4, <1>7, <1>8, <2>1, <2>3, <2>4, AtNext DEF Spots
    <3>2. \A f \in (At')[7] : ~Alike(e, f)
      BY <1>4, <1>6, <3>1 DEF Alike
    <3>3. {e} \subseteq At[7] /\ (6 + 1)..7 = {7}
      BY SMTT(120), <1>4, <1>5
    <3>4. GoOn({e}, 7, 6)
      <4>1. Shifts({e}, 7, 6)
        BY <3>1, <3>2, <3>3 DEF Shifts
      <4>2. Behind({e}, 7, 6)
        BY SMTT(120), <3>1, <3>2, <3>3 DEF Behind
      <4> QED
        BY SMTT(120), <4>1, <4>2 DEF GoOn
    <3> QED
      BY SMTT(120), <1>3, <3>4, StepMoves DEF Spots
  <2>6. Sorted(m_pending')
    BY <1>1, <1>9, <2>1, <2>2, SortedAppend DEF Rows
  <2>7. Single' /\ Rows'
    BY <1>1, <1>3, <1>10, <2>3, <2>4, <2>6 DEF Single, Rows
  <2>8. Unready'
    BY <1>1, <1>3, <1>11, <2>3 DEF Unready
  <2> QED
    BY <2>5, <2>7, <2>8 DEF EventInv
<1>12. CASE e.ready
  <2>1. AddEventToBuffer(e) /\ m_pending' = m_pending
    BY <1>2, <1>12 DEF FinishAdd
  <2>2. /\ \/ BufferEvents' = BufferEvents \cup {e} /\ dropped' = dropped
           \/ BufferEvents' = BufferEvents /\ dropped' = dropped \cup {e}
        /\ HandEvents' = HandEvents
        /\ \A i, j \in Live' : m_events'[i] = m_events'[j] => i = j
        /\ Sorted(Row(m_events, m_queue)')
    BY <1>1, <1>3, <1>9, <2>1, AddedEvent
  <2>3. Tidy(At, posted)'
    <3>1. CASE BufferEvents' = BufferEvents \cup {e} /\ dropped' = dropped
      <4>1. /\ (At')[7] = At[7] \ {e} /\ (At')[4] = At[4] \cup {e}
            /\ \A s \in Spots : s # 7 /\ s # 4 => (At')[s] = At[s]
        BY SMTT(120), <1>3, <1>4, <1>7, <1>8, <2>1, <2>2, <3>1, AtNext DEF Spots
      <4>2. \A f \in At[5] \cup At[6] : ~f.ready
        BY <1>1, <1>4 DEF Unready, Entering, Held
      <4>3. \A s \in (4 + 1)..7 : \A f \in (At')[s] : Alike(e, f) => e.n < f.n
        <5> SUFFICES ASSUME NEW s \in 5..7, NEW f \in (At')[s]
                     PROVE  ~Alike(e, f)
          BY SMTT(120)
        <5>1. CASE s = 7
          BY <1>4, <1>6, <4>1, <5>1 DEF Alike
        <5>2. CASE s \in {5, 6}
          <6>1. f \in At[5] \cup At[6]
            BY SMTT(120), <4>1, <5>2 DEF Spots
          <6> QED
            BY <1>12, <4>2, <6>1 DEF Alike
        <5> QED
          BY SMTT(120), <5>1, <5>2
      <4>4. {e} \subseteq At[7]
        BY <1>4, <1>5
      <4>5. GoOn({e}, 7, 4)
        <5>1. Shifts({e}, 7, 4)
          BY <4>1, <4>3, <4>4 DEF Shifts
        <5>2. Behind({e}, 7, 4)
          BY <4>1, <4>3, <4>4 DEF Behind
        <5> QED
          BY SMTT(120), <5>1, <5>2 DEF GoOn
      <4> QED
        BY SMTT(120), <1>3, <4>5, StepMoves DEF Spots
    <3>2. CASE BufferEvents' = BufferEvents /\ dropped' = dropped \cup {e}
      <4>1. /\ (At')[7] = At[7] \ {e} /\ (At')[0] = At[0] \cup {e}
            /\ \A s \in Spots : s # 7 /\ s # 0 => (At')[s] = At[s]
        BY SMTT(120), <1>3, <1>4, <1>7, <1>8, <2>1, <2>2, <3>2, AtNext DEF Spots
      <4>2. {e} \subseteq At[7]
        BY SMTT(120), <1>4, <1>5
      <4>3. GoOn({e}, 7, 0)
        <5>1. Shifts({e}, 7, 0)
          BY <4>1, <4>2 DEF Shifts
        <5> QED
          BY SMTT(120), <5>1 DEF GoOn
      <4> QED
        BY SMTT(120), <1>3, <4>3, StepMoves DEF Spots
    <3> QED
      BY <2>2, <3>1, <3>2
  <2>4. Single' /\ Rows'
    BY <1>1, <1>3, <1>10, <2>1, <2>2 DEF Single, Rows
  <2>5. Unready'
    BY <1>1, <1>3, <2>1 DEF Unready
  <2> QED
    BY SMTT(120), <2>3, <2>4, <2>5 DEF EventInv
<1> QED
  BY <1>11, <1>12

LEMMA PopPendingKept ==
  ASSUME Inv, EventInv, PopPending
  PROVE  EventInv'
<1>1. RestType /\ TableType /\ Buffered /\ Single /\ Rows /\ Unready
  BY DEF Inv, EventInv
<1>2. /\ m_events' = m_events /\ m_queue' = m_queue /\ InHand' = InHand
      /\ dropped' = dropped /\ delivered' = delivered
      /\ posting' = posting /\ posted' = posted /\ pc = "drain" /\ event = NoEvent
  BY <1>1 DEF PopPending, tableVars, histVars, postVars, InHand, Unready
<1>3. /\ BufferEvents' = BufferEvents /\ HandEvents' = HandEvents /\ Live' = Live
      /\ Row(m_events, m_queue)' = Row(m_events, m_queue)
  BY <1>2, SameTable
<1>4. Callers' = Callers
  BY <1>2 DEF Callers
<1>5. CASE m_pending = <<>>
  <2>1. pc' = "get" /\ m_pending' = m_pending /\ event' = event
    BY <1>5 DEF PopPending
  <2>2. Leaving' = Leaving /\ Entering' = Entering
    BY <1>2, <2>1 DEF Leaving, Entering, Held
  <2>3. Tidy(At, posted)'
    BY <1>2, <1>3, <1>4, <2>1, <2>2, StepKeeps
  <2>4. Single' /\ Rows' /\ Unready'
    BY <1>1, <1>2, <1>3, <2>1 DEF Single, Rows, Unready
  <2> QED
    BY <2>3, <2>4 DEF EventInv
<1>6. CASE m_pending # <<>>
  <2>1. PICK e : e = Head(m_pending)
    OBVIOUS
  <2>2. event' = e /\ m_pending' = Tail(m_pending) /\ pc' = "add"
    BY <1>6, <2>1 DEF PopPending
  <2>3. m_pending \in Seq(Events)
    BY <1>1 DEF RestType
  <2>4. /\ e \in Events /\ e # NoEvent
        /\ Elems(m_pending) = Elems(m_pending') \cup {e}
        /\ NoRepeats(m_pending') /\ e \notin Elems(m_pending')
    BY SMTT(120), <1>1, <1>6, <2>1, <2>2, <2>3, TailElems, NoEventAssumption DEF Single
  <2>5. /\ Sorted(m_pending')
        /\ \A f \in Elems(m_pending') : Alike(e, f) => e.n < f.n
    BY <1>1, <1>6, <2>1, <2>2, <2>3, SortedTail DEF Rows
  <2>6. Leaving = {} /\ Leaving' = {} /\ Entering = {} /\ Entering' = {e}
    BY <1>2, <2>2, <2>4 DEF Leaving, Entering, Held
  <2>7. Tidy(At, posted)'
    <3>1. /\ At[6] = Elems(m_pending)
          /\ (At')[6] = At[6] \ {e} /\ (At')[5] = At[5] \cup {e}
          /\ \A s \in Spots : s # 6 /\ s # 5 => (At')[s] = At[s]
      BY SMTT(120), <1>1, <1>2, <1>3, <1>4, <2>4, <2>6, AtTyped, AtNext DEF Spots
    <3>2. \A s \in (5 + 1)..6 : \A f \in (At')[s] : Alike(e, f) => e.n < f.n
      BY SMTT(120), <2>4, <2>5, <3>1
    <3>3. GoOn({e}, 6, 5)
      <4>1. Shifts({e}, 6, 5)
        BY SMTT(120), <2>4, <3>1, <3>2 DEF Shifts
      <4>2. Behind({e}, 6, 5)
        BY <2>4, <3>1, <3>2 DEF Behind
      <4> QED
        BY SMTT(120), <4>1, <4>2 DEF GoOn
    <3> QED
      BY SMTT(120), <1>2, <3>3, StepMoves DEF Spots
  <2>8. Single' /\ Rows'
    BY <1>1, <1>2, <1>3, <2>4, <2>5 DEF Single, Rows
  <2>9. Unready'
    BY <1>1, <2>2, <2>4 DEF Unready
  <2> QED
    BY <2>7, <2>8, <2>9 DEF EventInv
<1> QED
  BY <1>5, <1>6

LEMMA AddPendingKept ==
  ASSUME Inv, EventInv, AddPending
  PROVE  EventInv'
<1>1. RestType /\ TableType /\ Buffered /\ Single /\ Rows /\ Unready /\ Control
  BY DEF Inv, EventInv
<1>2. PICK e \in Events : e = event
  BY <1>1 DEF RestType, Control, AddPending
<1>3. /\ e # NoEvent /\ pc = "add" /\ pc' = "drain" /\ event' = NoEvent
      /\ delivered' = delivered /\ m_pending' = m_pending
      /\ posting' = posting /\ posted' = posted /\ InHand' = InHand
      /\ AddEventToBuffer(e)
  BY <1>2, NoEventAssumption DEF AddPending, postVars, InHand
<1>4. /\ At[0] = dropped /\ At[1] = Elems(delivered) /\ At[2] = Leaving
      /\ At[3] = HandEvents /\ At[4] = BufferEvents /\ At[5] = Entering
      /\ At[6] = Elems(m_pending) /\ At[7] = Callers
  BY <1>1, AtTyped
<1>5. Callers' = Callers /\ Leaving = {} /\ Leaving' = {} /\ Entering = {e} /\ Entering' = {}
  BY <1>2, <1>3 DEF Callers, Leaving, Entering, Held
<1>6. /\ e \notin HandEvents /\ e \notin BufferEvents
      /\ \A f \in BufferEvents : Alike(f, e) => f.n < e.n
  BY SMTT(120), <1>4, <1>5, Apart DEF Spots
<1>7. /\ \/ BufferEvents' = BufferEvents \cup {e} /\ dropped' = dropped
         \/ BufferEvents' = BufferEvents /\ dropped' = dropped \cup {e}
      /\ HandEvents' = HandEvents
      /\ \A i, j \in Live' : m_events'[i] = m_events'[j] => i = j
      /\ Sorted(Row(m_events, m_queue)')
  BY <1>1, <1>3, <1>6, AddedEvent
<1>8. Tidy(At, posted)'
  <2>1. CASE BufferEvents' = BufferEvents \cup {e} /\ dropped' = dropped
    <3>1. /\ (At')[5] = At[5] \ {e} /\ (At')[4] = At[4] \cup {e} /\ (At')[5] = {}
          /\ \A s \in Spots : s # 5 /\ s # 4 => (At')[s] = At[s]
      BY SMTT(120), <1>3, <1>4, <1>5, <1>7, <2>1, AtNext DEF Spots
    <3>2. {e} \subseteq At[5] /\ (4 + 1)..5 = {5}
      BY SMTT(120), <1>4, <1>5
    <3>3. GoOn({e}, 5, 4)
      <4>1. Shifts({e}, 5, 4)
        BY <3>1, <3>2 DEF Shifts
      <4>2. Behind({e}, 5, 4)
        BY <3>1, <3>2 DEF Behind
      <4> QED
        BY SMTT(120), <4>1, <4>2 DEF GoOn
    <3> QED
      BY SMTT(120), <1>3, <3>3, StepMoves DEF Spots
  <2>2. CASE BufferEvents' = BufferEvents /\ dropped' = dropped \cup {e}
    <3>1. /\ (At')[5] = At[5] \ {e} /\ (At')[0] = At[0] \cup {e}
          /\ \A s \in Spots : s # 5 /\ s # 0 => (At')[s] = At[s]
      BY SMTT(120), <1>3, <1>4, <1>5, <1>7, <2>2, AtNext DEF Spots
    <3>2. {e} \subseteq At[5]
      BY <1>4, <1>5
    <3>3. GoOn({e}, 5, 0)
      <4>1. Shifts({e}, 5, 0)
        BY <3>1, <3>2 DEF Shifts
      <4> QED
        BY SMTT(120), <4>1 DEF GoOn
    <3> QED
      BY SMTT(120), <1>3, <3>3, StepMoves DEF Spots
  <2> QED
    BY <1>7, <2>1, <2>2
<1>9. Single' /\ Rows'
  BY <1>1, <1>3, <1>7 DEF Single, Rows
<1>10. Unready'
  BY <1>1, <1>3 DEF Unready
<1> QED
  BY <1>8, <1>9, <1>10 DEF EventInv

LEMMA TakeIDKept ==
  ASSUME Inv, EventInv, TakeID
  PROVE  EventInv'
<1>1. RestType /\ TableType /\ Buffered /\ Single /\ Rows /\ Unready /\ Control
  BY SMTT(120) DEF Inv, EventInv
<1>2. /\ m_events' = m_events /\ pc = "take" /\ pc' = "remove" /\ event' = event
      /\ dropped' = dropped /\ delivered' = delivered /\ m_pending' = m_pending
      /\ posting' = posting /\ posted' = posted
      /\ m_queue # <<>> /\ m_queue' = Tail(m_queue) /\ m_queue \in Seq(Nat)
  BY <1>1 DEF TakeID, histVars, postVars, Control, TableType
<1>3. PICK id : id = Head(m_queue)
  BY SMTT(120)
<1>4. /\ id \in Nat
      /\ Elems(m_queue) = Elems(m_queue') \cup {id}
      /\ id \notin Elems(m_queue')
      /\ InHand = {} /\ InHand' = {id}
  BY <1>1, <1>2, <1>3, TailElems DEF Buffered, TakeID, InHand
<1>5. Elems(m_queue) \subseteq Live /\ Live' = Live
  BY <1>1, <1>2 DEF Buffered, Live
<1>6. PICK e \in Events : e = m_events[id]
  BY <1>1, <1>4, <1>5 DEF TableType
<1>7. HandEvents = {} /\ HandEvents' = {e}
  BY <1>2, <1>4, <1>6 DEF HandEvents
<1>8. e \in BufferEvents /\ BufferEvents' = BufferEvents \ {e}
  BY SMTT(120), <1>1, <1>2, <1>4, <1>5, <1>6 DEF BufferEvents, Single
<1>9. \A i \in Elems(m_queue) : m_events[i] \in Events
  BY <1>1, <1>5 DEF TableType
<1>10. /\ Row(m_events, m_queue) \in Seq(Events)
       /\ Row(m_events, m_queue) # <<>>
       /\ Head(Row(m_events, m_queue)) = e
       /\ Tail(Row(m_events, m_queue)) = Row(m_events, m_queue)'
  BY <1>2, <1>3, <1>6, <1>9, RowIs, RowTail
<1>11. Elems(Row(m_events, m_queue)') = BufferEvents'
  <2>1. m_queue' \in Seq(Nat) /\ \A i \in Elems(m_queue') : m_events'[i] \in Events
    BY <1>2, <1>4, <1>9, TailElems
  <2> QED
    BY <2>1, RowIs DEF BufferEvents
<1>12. /\ Sorted(Row(m_events, m_queue)')
       /\ \A f \in BufferEvents' : Alike(e, f) => e.n < f.n
  <2>1. /\ Sorted(Tail(Row(m_events, m_queue)))
        /\ \A f \in Elems(Tail(Row(m_events, m_queue))) : Alike(e, f) => e.n < f.n
    BY <1>1, <1>10, SortedTail DEF Rows
  <2> QED
    BY <1>10, <1>11, <2>1
<1>13. Leaving' = Leaving /\ Entering' = Entering /\ Callers' = Callers
  BY <1>2 DEF Leaving, Entering, Held, Callers
<1>14. Tidy(At, posted)'
  <2>1. /\ At[4] = BufferEvents /\ (At')[4] = BufferEvents'
        /\ (At')[4] = At[4] \ {e} /\ (At')[3] = At[3] \cup {e}
        /\ \A s \in Spots : s # 4 /\ s # 3 => (At')[s] = At[s]
    BY SMTT(120), <1>1, <1>2, <1>7, <1>8, <1>13, AtTyped, AtNext DEF Spots
  <2>2. \A s \in (3 + 1)..4 : \A f \in (At')[s] : Alike(e, f) => e.n < f.n
    BY SMTT(120), <1>12, <2>1
  <2>3. GoOn({e}, 4, 3)
    <3>1. Shifts({e}, 4, 3)
      BY <1>8, <2>1, <2>2 DEF Shifts
    <3>2. Behind({e}, 4, 3)
      BY <1>8, <2>1, <2>2 DEF Behind
    <3> QED
      BY SMTT(120), <3>1, <3>2 DEF GoOn
  <2> QED
    BY SMTT(120), <1>2, <2>3, StepMoves DEF Spots
<1>15. Single' /\ Rows'
  BY <1>1, <1>2, <1>5, <1>12 DEF Single, Rows
<1>16. Unready'
  BY <1>1, <1>2 DEF Unready
<1> QED
  BY SMTT(120), <1>14, <1>15, <1>16 DEF EventInv

LEMMA TakeEventKept ==
  ASSUME Inv, EventInv, TakeEvent
  PROVE  EventInv'
<1>1. RestType /\ TableType /\ Buffered /\ Single /\ Rows /\ Unready
  BY SMTT(120) DEF Inv, EventInv
<1>2. /\ m_queue' = m_queue /\ pc = "remove" /\ pc' = "dispatch" /\ event = NoEvent
      /\ dropped' = dropped /\ delivered' = delivered /\ m_pending' = m_pending
      /\ posting' = posting /\ posted' = posted
  BY <1>1 DEF TakeEvent, histVars, postVars, Unready
<1>3. InHand = {dataID} /\ InHand' = {}
  BY DEF TakeEvent, InHand
<1>4. dataID \in Live /\ dataID \notin Elems(m_queue) /\ Elems(m_queue) \subseteq Live
  BY <1>1, <1>3 DEF Buffered
<1>5. PICK e \in Events : e = m_events[dataID]
  BY <1>1, <1>4 DEF TableType
<1>6. event' = e /\ e # NoEvent /\ m_events' = [i \in Live \ {dataID} |-> m_events[i]]
  BY <1>4, <1>5, NoEventAssumption DEF TakeEvent, RemoveEvent
<1>7. /\ Live' = Live \ {dataID}
      /\ \A i \in Live' : m_events'[i] = m_events[i]
  BY <1>6 DEF Live
<1>8. HandEvents = {e} /\ HandEvents' = {} /\ BufferEvents' = BufferEvents
  BY <1>2, <1>3, <1>4, <1>5, <1>7 DEF HandEvents, BufferEvents
<1>9. Row(m_events, m_queue)' = Row(m_events, m_queue)
  BY <1>2, <1>4, <1>7 DEF Row, Elems
<1>10. Leaving = {} /\ Leaving' = {e} /\ Entering' = Entering /\ Callers' = Callers
  BY <1>2, <1>6 DEF Leaving, Entering, Held, Callers
<1>11. Tidy(At, posted)'
  <2>1. /\ At[3] = {e} /\ (At')[3] = {}
        /\ (At')[3] = At[3] \ {e} /\ (At')[2] = At[2] \cup {e}
        /\ \A s \in Spots : s # 3 /\ s # 2 => (At')[s] = At[s]
    BY SMTT(120), <1>1, <1>2, <1>8, <1>10, AtTyped, AtNext DEF Spots
  <2>2. GoOn({e}, 3, 2)
    <3>1. Shifts({e}, 3, 2)
      BY <2>1 DEF Shifts
    <3>2. Behind({e}, 3, 2)
      BY SMTT(120), <2>1 DEF Behind
    <3> QED
      BY SMTT(120), <3>1, <3>2 DEF GoOn
  <2> QED
    BY SMTT(120), <1>2, <2>2, StepMoves DEF Spots
<1>12. Single' /\ Rows'
  BY SMTT(120), <1>1, <1>2, <1>7, <1>9 DEF Single, Rows
<1>13. Unready'
  BY <1>1, <1>2 DEF Unready
<1> QED
  BY SMTT(120), <1>11, <1>12, <1>13 DEF EventInv

LEMMA DispatchKept ==
  ASSUME Inv, EventInv, Dispatch
  PROVE  EventInv'
<1>1. RestType /\ TableType /\ Buffered /\ Single /\ Rows /\ Unready
  BY SMTT(120) DEF Inv, EventInv
<1>2. /\ m_events' = m_events /\ m_queue' = m_queue /\ InHand' = InHand
      /\ dropped' = dropped /\ m_pending' = m_pending /\ event' = NoEvent
      /\ posting' = posting /\ posted' = posted /\ pc = "dispatch"
      /\ pc' \in {"get", "done"}
  BY DEF Dispatch, tableVars, postVars, InHand
<1>3. /\ BufferEvents' = BufferEvents /\ HandEvents' = HandEvents /\ Live' = Live
      /\ Row(m_events, m_queue)' = Row(m_events, m_queue)
  BY <1>2, SameTable
<1>4. Callers' = Callers /\ Entering = {} /\ Entering' = {} /\ Leaving' = {}
      /\ Leaving = Held
  BY <1>2 DEF Callers, Entering, Leaving, Held
<1>5. Unready'
  BY <1>1, <1>2 DEF Unready
<1>6. CASE event = NoEvent
  <2>1. delivered' = delivered /\ Leaving = {}
    BY <1>4, <1>6 DEF Dispatch, Held
  <2>2. Tidy(At, posted)'
    BY <1>2, <1>3, <1>4, <2>1, StepKeeps
  <2>3. Single' /\ Rows'
    BY <1>1, <1>2, <1>3, <2>1 DEF Single, Rows
  <2> QED
    BY <1>5, <2>2, <2>3 DEF EventInv
<1>7. CASE event # NoEvent
  <2>1. PICK e \in Events : e = event
    BY <1>1, <1>7 DEF RestType
  <2>2. delivered' = Append(delivered, e) /\ Leaving = {e} /\ delivered \in Seq(Events)
    BY <1>1, <1>4, <1>7, <2>1 DEF Dispatch, Held, RestType
  <2>3. At[1] = Elems(delivered) /\ At[2] = {e}
    BY <1>1, <2>2, AtTyped
  <2>4. e \notin Elems(delivered) /\ \A f \in Elems(delivered) : Alike(f, e) => f.n < e.n
    BY SMTT(120), <2>3, Apart DEF Spots
  <2>5. Elems(delivered') = Elems(delivered) \cup {e} /\ NoRepeats(delivered')
    BY SMTT(120), <1>1, <2>2, <2>4, AppendElems DEF Single
  <2>6. Sorted(delivered')
    BY <1>1, <2>2, <2>4, SortedAppend DEF Rows
  <2>7. Tidy(At, posted)'
    <3>1. /\ (At')[2] = {}
          /\ (At')[2] = At[2] \ {e} /\ (At')[1] = At[1] \cup {e}
          /\ \A s \in Spots : s # 2 /\ s # 1 => (At')[s] = At[s]
      BY SMTT(120), <1>1, <1>2, <1>3, <1>4, <2>3, <2>5, AtTyped, AtNext DEF Spots
    <3>2. GoOn({e}, 2, 1)
      <4>1. Shifts({e}, 2, 1)
        BY <2>3, <3>1 DEF Shifts
      <4>2. Behind({e}, 2, 1)
        BY SMTT(120), <2>3, <3>1 DEF Behind
      <4> QED
        BY SMTT(120), <4>1, <4>2 DEF GoOn
    <3> QED
      BY SMTT(120), <1>2, <3>2, StepMoves DEF Spots
  <2>8. Single' /\ Rows'
    BY <1>1, <1>2, <1>3, <2>5, <2>6 DEF Single, Rows
  <2> QED
    BY <1>5, <2>7, <2>8 DEF EventInv
<1> QED
  BY <1>6, <1>7

LEMMA AdoptBufferKept ==
  ASSUME Inv, EventInv, AdoptBuffer
  PROVE  EventInv'
<1>1. RestType /\ TableType /\ Buffered /\ Single /\ Rows /\ Unready
  BY SMTT(120) DEF Inv, EventInv
<1>2. /\ m_events' = NoEvents /\ m_queue' = <<>> /\ dropped' = dropped \cup Saved
      /\ delivered' = delivered /\ m_pending' = m_pending /\ event' = event
      /\ posting' = posting /\ posted' = posted /\ pc' = pc
      /\ pc \in {"start", "dispatch"}
  BY DEF AdoptBuffer, postVars, loopVars
<1>3. Live' = {} /\ InHand = {} /\ InHand' = {} /\ Elems(m_queue') = {}
  BY SMTT(120), <1>2 DEF Live, NoEvents, InHand, Elems
<1>4. Saved = BufferEvents /\ HandEvents = {} /\ HandEvents' = {} /\ BufferEvents' = {}
  BY <1>1, <1>3 DEF Saved, Buffered, HandEvents, BufferEvents
<1>5. Leaving' = Leaving /\ Entering' = Entering /\ Callers' = Callers
  BY <1>2 DEF Leaving, Entering, Held, Callers
<1>6. Tidy(At, posted)'
  <2>1. At[4] = BufferEvents /\ (At')[4] = {}
    BY <1>1, <1>4, AtTyped, AtNext
  <2>2. (At')[4] = At[4] \ BufferEvents
    BY <2>1
  <2>3. /\ (At')[0] = At[0] \cup BufferEvents
        /\ \A s \in Spots : s # 4 /\ s # 0 => (At')[s] = At[s]
    <3>1. (At')[0] = At[0] \cup BufferEvents
      BY <1>1, <1>2, <1>4, AtTyped, AtNext
    <3>2. /\ (At')[1] = At[1] /\ (At')[2] = At[2] /\ (At')[3] = At[3]
          /\ (At')[5] = At[5] /\ (At')[6] = At[6] /\ (At')[7] = At[7]
      BY <1>1, <1>2, <1>4, <1>5, AtTyped, AtNext
    <3> QED
      BY SMTT(120), <3>1, <3>2 DEF Spots
  <2>4. GoOn(BufferEvents, 4, 0)
    <3>1. Shifts(BufferEvents, 4, 0)
      BY <2>1, <2>2, <2>3 DEF Shifts
    <3> QED
      BY SMTT(120), <3>1 DEF GoOn
  <2> QED
    BY SMTT(120), <1>2, <2>4, StepMoves DEF Spots
<1>7. Single'
  BY <1>1, <1>2, <1>3 DEF Single
<1>8. Rows'
  <2>1. DOMAIN (Row(m_events, m_queue)') = {}
    BY SMTT(120), <1>2 DEF Row
  <2>2. Sorted(Row(m_events, m_queue)')
    BY <2>1 DEF Sorted
  <2> QED
    BY <1>1, <1>2, <2>2 DEF Rows
<1>9. Unready'
  BY <1>1, <1>2 DEF Unready
<1> QED
  BY <1>6, <1>7, <1>8, <1>9 DEF EventInv

\* The steps that move no event.
LEMMA PlainStepKept ==
  ASSUME Inv, EventInv,
         \/ LoopReady \/ GetEvent \/ Poll \/ WaitForEvent \/ TimerExpires
         \/ RequestShutdown \/ UNCHANGED vars
  PROVE  EventInv'
<1>1. Single /\ Rows /\ Unready
  BY DEF EventInv
<1>2. /\ m_events' = m_events /\ m_queue' = m_queue /\ InHand' = InHand
      /\ dropped' = dropped /\ delivered' = delivered /\ m_pending' = m_pending
      /\ posting' = posting /\ posted' = posted /\ event' = event
      /\ pc = "add" <=> pc' = "add"
      /\ pc' = pc \/ event = NoEvent
  BY <1>1 DEF LoopReady, GetEvent, Poll, WaitForEvent, TimerExpires,
     RequestShutdown, InHand, tableVars, postVars, loopVars, histVars, vars, Unready
<1>3. /\ BufferEvents' = BufferEvents /\ HandEvents' = HandEvents /\ Live' = Live
      /\ Row(m_events, m_queue)' = Row(m_events, m_queue)
  BY <1>2, SameTable
<1>4. Leaving' = Leaving /\ Entering' = Entering /\ Callers' = Callers
  BY <1>2 DEF Leaving, Entering, Held, Callers
<1>5. Tidy(At, posted)'
  BY <1>2, <1>3, <1>4, StepKeeps
<1>6. Single' /\ Rows'
  BY <1>1, <1>2, <1>3 DEF Single, Rows
<1>7. Unready'
  BY <1>1, <1>2 DEF Unready
<1> QED
  BY <1>5, <1>6, <1>7 DEF EventInv

-----------------------------------------------------------------------------
(* The first state, and the invariants *)

INSTANCE FiniteSetTheorems

\* There are n numbers below n.
LEMMA NumbersCounted == Counting
<1> SUFFICES ASSUME NEW n \in Nat PROVE Cardinality(0..(n - 1)) = n
  BY DEF Counting
<1>1. 0 \in Int /\ n - 1 \in Int
  BY SMTT(120)
<1>2. Cardinality(0..(n - 1)) = IF 0 > n - 1 THEN 0 ELSE n - 1 - 0 + 1
  BY <1>1, FS_Interval
<1> QED
  BY SMTT(120), <1>2

LEMMA InitInv == Init => Inv
<1> SUFFICES ASSUME Init PROVE Inv
  OBVIOUS
<1>1. Live = {} /\ OldIDs = {} /\ Elems(m_queue) = {} /\ InHand = {}
  BY SMTT(120) DEF Init, NoEvents, Live, OldIDs, Elems, InHand
<1>2. Ids
  <2>1. 0 \in Nat /\ {} = 0..(0 - 1)
    BY SMTT(120)
  <2> QED
    BY SMTT(120), <1>1, <2>1, NumbersCounted DEF Init, Ids, NoRepeats
<1>3. Buffered
  BY SMTT(120), <1>1 DEF Buffered, Init, NoRepeats
<1>4. TableType
  <2>1. NoEvents \in [{} -> Events]
    BY DEF NoEvents
  <2>2. m_events \in [Live -> Events]
    BY <1>1, <2>1 DEF Init
  <2>3. m_oldEventIDs \in Seq(Nat) /\ m_queue \in Seq(Nat) /\ m_queueReady \in BOOLEAN
    BY SeqNonempty DEF Init
  <2> QED
    BY <1>1, <2>2, <2>3 DEF TableType
<1>5. RestType
  <2>1. posting \in [Threads -> Events \cup {NoEvent}] /\ posted \in [Threads -> Nat]
    BY DEF Init
  <2>2. m_pending \in Seq(Events) /\ delivered \in Seq(Events)
    BY SMTT(120) DEF Init
  <2> QED
    BY <2>1, <2>2 DEF RestType, Init
<1>6. Control
  BY DEF Control, Init
<1> QED
  BY <1>2, <1>3, <1>4, <1>5, <1>6 DEF Inv

LEMMA InitKept == Init => EventInv
<1> SUFFICES ASSUME Init PROVE EventInv
  BY SMTT(120)
<1>1. /\ dropped = {} /\ Elems(delivered) = {} /\ Elems(m_pending) = {}
      /\ Elems(m_queue) = {} /\ InHand = {} /\ Live = {} /\ Held = {}
      /\ \A t \in Threads : posting[t] = NoEvent /\ posted[t] = 0
      /\ pc = "start" /\ event = NoEvent
  BY SMTT(120) DEF Init, Elems, InHand, Live, NoEvents, Held
<1>2. Leaving = {} /\ Entering = {} /\ HandEvents = {} /\ BufferEvents = {} /\ Callers = {}
  BY <1>1 DEF Leaving, Entering, HandEvents, BufferEvents, Callers
<1>3. \A k \in Spots : At[k] = {}
  BY SMTT(120), <1>1, <1>2, LayoutIs DEF At, Spots
<1>4. OneSpot(At)
  BY <1>3 DEF OneSpot
<1>5. Counted(At, posted)
  BY SMTT(120), <1>1, <1>3 DEF Counted
<1>6. InOrder(At)
  BY SMTT(120), <1>3 DEF InOrder, Spots
<1>7. Single /\ Unready
  BY SMTT(120), <1>1 DEF Init, Single, Unready, NoRepeats
<1>8. Rows
  BY SMTT(120) DEF Init, Rows, Sorted, Row
<1> QED
  BY <1>4, <1>5, <1>6, <1>7, <1>8 DEF EventInv, Tidy

LEMMA Inductive == Spec => []Inv
<1>1. Inv /\ [Next]_vars => Inv'
  <2> SUFFICES ASSUME Inv, [Next]_vars PROVE Inv'
    OBVIOUS
  <2>1. ASSUME NEW t \in Threads, CheckReady(t) \/ FinishAdd(t) PROVE Inv'
    BY <2>1, CheckReadyInv, FinishAddInv
  <2>2. CASE Loop
    BY <2>2, PlainStepInv, PopPendingInv, AddPendingInv, TakeIDInv, TakeEventInv,
       DispatchInv DEF Loop
  <2>3. CASE AdoptBuffer
    BY <2>3, AdoptBufferInv
  <2>4. CASE TimerExpires \/ RequestShutdown
    BY <2>4, PlainStepInv
  <2>5. CASE UNCHANGED vars
    BY <2>5, StutterInv
  <2> QED
    BY <2>1, <2>2, <2>3, <2>4, <2>5 DEF Next
<1> QED
  BY <1>1, InitInv, PTL DEF Spec

LEMMA EventsInductive == Spec => []EventInv
<1>1. Inv /\ EventInv /\ [Next]_vars => EventInv'
  <2> SUFFICES ASSUME Inv, EventInv, [Next]_vars PROVE EventInv'
    OBVIOUS
  <2>1. ASSUME NEW t \in Threads, CheckReady(t) \/ FinishAdd(t) PROVE EventInv'
    BY <2>1, CheckReadyKept, FinishAddKept
  <2>2. CASE Loop
    BY <2>2, PlainStepKept, PopPendingKept, AddPendingKept, TakeIDKept,
       TakeEventKept, DispatchKept DEF Loop
  <2>3. CASE AdoptBuffer
    BY <2>3, AdoptBufferKept
  <2>4. CASE TimerExpires \/ RequestShutdown \/ UNCHANGED vars
    BY <2>4, PlainStepKept
  <2> QED
    BY <2>1, <2>2, <2>3, <2>4 DEF Next
<1> QED
  BY <1>1, Inductive, InitKept, PTL DEF Spec

-----------------------------------------------------------------------------
(* The theorems *)

\* addEvent, loop and adoptBuffer keep every variable in its type: the ids in
\* particular are naturals, and the loop never adds a missing event.
THEOREM TypeCorrect == Spec => []TypeOK
<1>1. Inv => TypeOK
  BY DEF Inv, TableType, RestType, TypeOK
<1> QED
  BY <1>1, Inductive, PTL

\* saveEvent and removeEvent never have one id in use for two events, nor
\* free it twice, however many threads post.
THEOREM IdsUnique == Spec => []IdsOK
<1>1. Inv => IdsOK
  <2> SUFFICES ASSUME Inv PROVE IdsOK
    OBVIOUS
  <2>1. PICK n \in Nat : Live \cup OldIDs = 0..(n - 1)
    BY DEF Inv, Ids
  <2>2. Cardinality(0..(n - 1)) = n
    BY NumbersCounted DEF Counting
  <2>3. Live \cup OldIDs = 0..(Cardinality(Live \cup OldIDs) - 1)
    BY <2>1, <2>2
  <2> QED
    BY <2>3 DEF Inv, Ids, IdsOK, NoRepeats
<1> QED
  BY <1>1, Inductive, PTL

\* getEvent always finds the event of the id that the buffer returns: the ids
\* in the buffer are exactly those in use, each once, so that no event is lost
\* in the table or handed out for another.
THEOREM LookupNeverFails == Spec => []BufferMatchesTable
<1>1. Inv => BufferMatchesTable
  <2> SUFFICES ASSUME Inv PROVE BufferMatchesTable
    BY SMTT(120)
  <2>1. InBuffer = Elems(m_queue) \cup InHand
    BY DEF InBuffer, Elems, InHand
  <2>2. InBuffer = Live
    BY <2>1 DEF Inv, Buffered
  <2>3. ASSUME pc = "remove", NEW i \in DOMAIN m_queue PROVE m_queue[i] # dataID
    <3>1. dataID \notin Elems(m_queue)
      BY <2>3 DEF Inv, Buffered, InHand
    <3> QED
      BY <3>1 DEF Elems
  <2> QED
    BY <2>2, <2>3 DEF Inv, Buffered, NoRepeats, BufferMatchesTable
<1> QED
  BY <1>1, Inductive, PTL

\* With its variables in their types, EventQueue's table, free ids and buffer
\* always agree.
THEOREM TablesAgree == Spec => []TablesOK
<1>1. TypeOK /\ IdsOK /\ BufferMatchesTable => TablesOK
  BY DEF TablesOK
<1> QED
  BY <1>1, TypeCorrect, IdsUnique, LookupNeverFails, PTL

\* An event that addEvent was called with is in exactly one place from then on,
\* in whatever order the threads post, the loop runs and the buffer is replaced:
\* none is lost on the way and none is dispatched twice.
THEOREM NoneLost == Spec => []EveryEventKept
<1>1. Inv /\ EventInv => EveryEventKept
  <2> SUFFICES ASSUME Inv, EventInv PROVE EveryEventKept
    OBVIOUS
  <2>0. TableType /\ RestType /\ Buffered
    BY DEF Inv
  <2>1. /\ At \in [Spots -> SUBSET Events] /\ posted \in [Threads -> Nat]
        /\ At[0] = dropped /\ At[1] = Elems(delivered) /\ At[2] = Leaving
        /\ At[3] = HandEvents /\ At[4] = BufferEvents /\ At[5] = Entering
        /\ At[6] = Elems(m_pending) /\ At[7] = Callers
    BY <2>0, AtTyped
  <2>2. Saved = HandEvents \cup BufferEvents
    BY <2>0 DEF Saved, Buffered, HandEvents, BufferEvents
  <2>3. {event} \ {NoEvent} = Leaving \cup Entering
    BY DEF Leaving, Entering, Held
  <2> DEFINE Place(k) == CASE k = 0 -> "dropped" [] k = 1 -> "delivered"
                           [] k \in {2, 5} -> "main" [] k \in {3, 4} -> "table"
                           [] k = 6 -> "pending" [] k = 7 -> "thread"
  <2>4. ASSUME NEW e \in Events
        PROVE  Places(e) = {Place(k) : k \in {s \in Spots : e \in At[s]}}
    <3>1. e # NoEvent
      BY NoEventAssumption
    <3>2. /\ "thread" \in Places(e) <=> e \in At[7]
          /\ "pending" \in Places(e) <=> e \in At[6]
          /\ "table" \in Places(e) <=> e \in At[3] \/ e \in At[4]
          /\ "main" \in Places(e) <=> e \in At[2] \/ e \in At[5]
          /\ "delivered" \in Places(e) <=> e \in At[1]
          /\ "dropped" \in Places(e) <=> e \in At[0]
      BY <2>1, <2>2, <2>3, <3>1 DEF Places, Elems, Callers
    <3>3. Places(e) \subseteq {"thread", "pending", "table", "main", "delivered",
                               "dropped"}
      BY DEF Places
    <3>4. /\ Place(0) = "dropped" /\ Place(1) = "delivered" /\ Place(2) = "main"
          /\ Place(3) = "table" /\ Place(4) = "table" /\ Place(5) = "main"
          /\ Place(6) = "pending" /\ Place(7) = "thread"
      BY SMTT(120)
    <3> HIDE DEF Place
    <3>5. ASSUME NEW p \in Places(e)
          PROVE  \E k \in Spots : e \in At[k] /\ p = Place(k)
      BY SMTT(120), <3>2, <3>3, <3>4 DEF Spots
    <3>6. ASSUME NEW k \in Spots, e \in At[k] PROVE Place(k) \in Places(e)
      BY SMTT(120), <3>2, <3>4, <3>6 DEF Spots
    <3> QED
      BY <3>5, <3>6
  <2> HIDE DEF Place
  <2>5. OneSpot(At) /\ Counted(At, posted)
    BY DEF EventInv, Tidy
  <2>6. ASSUME NEW t \in Threads, NEW n \in 1..posted[t]
        PROVE  \E r \in BOOLEAN :
                 /\ Cardinality(Places([thread |-> t, n |-> n, ready |-> r])) = 1
                 /\ Places([thread |-> t, n |-> n, ready |-> ~r]) = {}
    <3>1. PICK k \in Spots : \E e \in At[k] : e.thread = t /\ e.n = n
      BY SMTT(120), <2>5 DEF Counted
    <3>2. PICK e \in At[k] : e.thread = t /\ e.n = n
      BY <3>1
    <3>3. e \in Events /\ e = [thread |-> t, n |-> n, ready |-> e.ready]
          /\ e.ready \in BOOLEAN
      BY SMTT(120), <2>1, <3>2 DEF Events
    <3>4. {s \in Spots : e \in At[s]} = {k}
      BY SMTT(120), <2>5, <3>2 DEF OneSpot, Same
    <3>5. Places(e) = {Place(k)}
      BY SMTT(120), <2>4, <3>3, <3>4
    <3>6. Cardinality(Places(e)) = 1
      BY <3>5, FS_Singleton
    <3>7. PICK f : f = [thread |-> t, n |-> n, ready |-> ~e.ready]
      OBVIOUS
    <3>8. f \in Events /\ Same(e, f) /\ f # e
      BY SMTT(120), <3>2, <3>3, <3>7 DEF Events, Same
    <3>9. {s \in Spots : f \in At[s]} = {}
      BY <2>5, <3>2, <3>8 DEF OneSpot
    <3>10. Places(f) = {}
      BY <2>4, <3>8, <3>9
    <3> QED
      BY <3>3, <3>6, <3>7, <3>10
  <2>7. \A i, j \in DOMAIN delivered : delivered[i] = delivered[j] => i = j
    BY DEF EventInv, Single, NoRepeats
  <2> QED
    BY <2>6, <2>7 DEF EveryEventKept
<1> QED
  BY <1>1, Inductive, EventsInductive, PTL

\* Whatever the other threads do, and though ids are used again in any order,
\* the events that a thread posts with the queue ready are dispatched in the
\* order of its calls of addEvent, and so are those it posts before.
THEOREM InPostingOrder == Spec => []OrderKept
<1>1. EventInv => OrderKept
  BY DEF EventInv, Rows, Sorted, Alike, OrderKept
<1> QED
  BY <1>1, EventsInductive, PTL

=============================================================================
