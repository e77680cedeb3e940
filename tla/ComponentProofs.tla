-------------------------- MODULE ComponentProofs ---------------------------
(***************************************************************************)
(* Proofs about four components that stand alone: the timers               *)
(* (EventTimers), the buffer of the X server (XEventBuffer), the           *)
(* multiplexer of the sockets (SocketMultiplexer) and the screens of the   *)
(* server (ServerScreens).                                                 *)
(*                                                                         *)
(* For any set of timers, any durations and any bounds, TimersOK is        *)
(* inductive: that a timer is neither early nor late is exactly what       *)
(* hasTimerExpired keeps up from one reading of the clock to the next, and *)
(* what m_count and the order of the queue rest on.                        *)
(*                                                                         *)
(* For any set of ids, any number of events of the X server and any size   *)
(* of the pipe, XEventBuffer implements EventBuffer.                       *)
(*                                                                         *)
(* For any number of threads, sockets, jobs and calls, the poll entries of *)
(* SocketMultiplexer fit its list of jobs.  The core is the relation       *)
(* Matched between the two: it holds for all entries while m_update is not *)
(* set, and for those not yet looked at while the jobs are run.            *)
(*                                                                         *)
(* For any set of proxies, names and configurations, the registry, the     *)
(* cursor and the pending switch of ServerScreens fit each other.          *)
(***************************************************************************)
EXTENDS EventTimers, XEventBuffer, SocketMultiplexer, ServerScreens, TLAPS

\* The prover of a leaf that names none.
USE ZenonT(60)

-----------------------------------------------------------------------------
(* Sequences *)

LEMMA SeqLength ==
  ASSUME NEW S, NEW s \in Seq(S)
  PROVE  Len(s) \in Nat /\ s \in [1..Len(s) -> S] /\ DOMAIN s = 1..Len(s)
BY SMTT(120)

LEMMA SeqNonempty ==
  ASSUME NEW S
  PROVE  /\ <<>> \in Seq(S) /\ Len(<<>>) = 0
         /\ \A s \in Seq(S) : s # <<>> => Len(s) \in Nat \ {0}
BY SMTT(120)

LEMMA SeqSame ==
  ASSUME NEW S, NEW s \in Seq(S), NEW t \in Seq(S), Len(s) = Len(t),
         \A i \in 1..Len(s) : s[i] = t[i]
  PROVE  s = t
BY SMTT(120)

LEMMA SeqFunction ==
  ASSUME NEW S, NEW n \in Nat, NEW f \in [1..n -> S]
  PROVE  f \in Seq(S) /\ DOMAIN f = 1..n
BY SMTT(120)

LEMMA SeqAppend ==
  ASSUME NEW S, NEW s \in Seq(S), NEW e \in S
  PROVE  /\ Append(s, e) \in Seq(S) /\ Len(Append(s, e)) = Len(s) + 1
         /\ \A i \in 1..Len(s) : Append(s, e)[i] = s[i]
         /\ Append(s, e)[Len(s) + 1] = e
         /\ Append(s, e) = s \o <<e>>
BY SMTT(120)

LEMMA SeqHeadTail ==
  ASSUME NEW S, NEW s \in Seq(S), s # <<>>
  PROVE  /\ Head(s) \in S /\ Tail(s) \in Seq(S) /\ Len(Tail(s)) = Len(s) - 1
         /\ \A i \in 1..Len(Tail(s)) : Tail(s)[i] = s[i + 1]
BY SMTT(120)

LEMMA SeqConcat ==
  ASSUME NEW S, NEW s \in Seq(S), NEW t \in Seq(S)
  PROVE  /\ s \o t \in Seq(S) /\ Len(s \o t) = Len(s) + Len(t)
         /\ \A i \in 1..(Len(s) + Len(t)) :
              (s \o t)[i] = IF i <= Len(s) THEN s[i] ELSE t[i - Len(s)]
         /\ s \o <<>> = s /\ <<>> \o s = s
         /\ s # <<>> => s \o t # <<>>
BY SMTT(120)

LEMMA SeqConcatTwice ==
  ASSUME NEW S, NEW s \in Seq(S), NEW t \in Seq(S), NEW u \in Seq(S)
  PROVE  (s \o t) \o u = s \o (t \o u)
BY SMTT(120)

-----------------------------------------------------------------------------
(* The multiplexer *)

Entries == [socket : Sockets, job : Jobs]
JobTables == [Sockets -> Jobs \cup {NoJob}]

\* The places of a list with a job.
Live(l, jb) == {i \in DOMAIN l : jb[l[i]] # NoJob}

NoRepeats(l) == \A i, j \in DOMAIN l : l[i] = l[j] => i = j

\* From e on, the poll entries are those of the jobs behind place c, in order:
\* entry i belongs to place at[i].
MatchedBy(at, pf, l, jb, e, c) ==
  /\ \A i, j \in 1..Len(pf) : i < j => at[i] < at[j]
  /\ \A i \in e..Len(pf) :
       /\ at[i] \in Live(l, jb) /\ at[i] > c
       /\ pf[i].socket = l[at[i]]
       /\ pf[i].job = jb[l[at[i]]]
  /\ \A p \in Live(l, jb) : p > c => \E i \in e..Len(pf) : at[i] = p

Matched(pf, l, jb, e, c) ==
  \E at \in [1..Len(pf) -> Nat] : MatchedBy(at, pf, l, jb, e, c)

RemovedIdle == \A s \in removed : job[s] = NoJob

Fresh == ~m_update => Matched(pfds, m_socketJobs, job, 1, 0)

Polling == pc[Service] = "poll" => entry = 1 /\ cursor = 0 /\ ~m_update

Walking == pc[Service] = "next" => Matched(pfds, m_socketJobs, job, entry, cursor)

Running ==
  pc[Service] = "running" =>
    /\ cursor \in Live(m_socketJobs, job)
    /\ entry <= Len(pfds)
    /\ pfds[entry].socket = m_socketJobs[cursor]
    /\ pfds[entry].job = job[m_socketJobs[cursor]]
    /\ Matched(pfds, m_socketJobs, job, entry + 1, cursor)

ListInv == EntriesHaveJobs /\ RemovedIdle
PollInv == Fresh /\ Polling /\ Walking /\ Running
Inv == MuxTypeOK /\ LocksOwned /\ JobsReadyOK /\ ListInv /\ PollInv

-----------------------------------------------------------------------------
(* The multiplexer: lists and poll entries *)

\* A place in a list is a positive number.
LEMMA PlaceType ==
  ASSUME NEW l \in Seq(Sockets), NEW i \in DOMAIN l
  PROVE  i \in Nat /\ i >= 1 /\ i <= Len(l) /\ l[i] \in Sockets
BY SMTT(120), SeqLength

LEMMA FunctionIsSeq ==
  ASSUME NEW S, NEW n \in Nat, NEW f \in [1..n -> S]
  PROVE  f \in Seq(S) /\ Len(f) = n /\ DOMAIN f = 1..n
<1>1. f \in Seq(S) /\ DOMAIN f = 1..n
  BY SeqFunction
<1>2. Len(f) \in Nat /\ 1..Len(f) = 1..n
  BY <1>1, SeqLength
<1>3. Len(f) = n
  BY SMTT(120), <1>2
<1> QED
  BY <1>1, <1>3

\* The first job behind the cursor is that of the next poll entry.
LEMMA StepMatched ==
  ASSUME NEW pf \in Seq(Entries), NEW l \in Seq(Sockets), NEW jb \in JobTables,
         NEW e \in Nat \ {0}, e <= Len(pf), NEW c \in Nat, Matched(pf, l, jb, e, c),
         NEW p \in Live(l, jb), p > c,
         \A q \in Live(l, jb) : q > c => p <= q
  PROVE  /\ pf[e].socket = l[p] /\ pf[e].job = jb[l[p]]
         /\ Matched(pf, l, jb, e + 1, p)
<1> DEFINE n == Len(pf)
<1>n. n \in Nat
  BY SeqLength
<1>t. \A q \in Live(l, jb) : q \in Nat
  BY PlaceType DEF Live
<1> HIDE DEF n
<1>0. PICK at \in [1..n -> Nat] : MatchedBy(at, pf, l, jb, e, c)
  BY DEF Matched, n
<1>1. /\ \A i, j \in 1..n : i < j => at[i] < at[j]
      /\ \A i \in e..n :
           /\ at[i] \in Live(l, jb) /\ at[i] > c
           /\ pf[i].socket = l[at[i]]
           /\ pf[i].job = jb[l[at[i]]]
      /\ \A q \in Live(l, jb) : q > c => \E i \in e..n : at[i] = q
  BY <1>0 DEF MatchedBy, n
<1>2. e \in e..n /\ e \in 1..n
  BY SMTT(120), <1>n DEF n
<1>3. at[e] = p
  <2>1. PICK k \in e..n : at[k] = p
    BY <1>1
  <2>2. p <= at[e]
    BY <1>1, <1>2
  <2>3. ~(e < k)
    <3> SUFFICES ASSUME e < k PROVE FALSE
      OBVIOUS
    <3>1. at[e] < at[k] /\ at[e] \in Nat
      BY SMTT(120), <1>1, <1>2, <1>n, <2>1
    <3> QED
      BY SMTT(120), <3>1, <2>1, <2>2, <1>t
  <2> QED
    BY SMTT(120), <2>1, <2>3, <1>n
<1>4. \A i \in (e + 1)..n : at[i] > p
  <2> SUFFICES ASSUME NEW i \in (e + 1)..n PROVE at[i] > p
    OBVIOUS
  <2>1. i \in 1..n /\ e < i
    BY SMTT(120), <1>n
  <2>2. at[e] < at[i] /\ at[i] \in Nat
    BY <2>1, <1>1, <1>2
  <2> QED
    BY <2>2, <1>3, <1>t
<1>5. \A q \in Live(l, jb) : q > p => \E i \in (e + 1)..n : at[i] = q
  <2> SUFFICES ASSUME NEW q \in Live(l, jb), q > p PROVE \E i \in (e + 1)..n : at[i] = q
    OBVIOUS
  <2>1. q > c
    BY SMTT(120), <1>t
  <2>2. PICK i \in e..n : at[i] = q
    BY <2>1, <1>1
  <2>3. i # e
    BY SMTT(120), <2>2, <1>3, <1>t
  <2> QED
    BY SMTT(120), <2>2, <2>3, <1>n
<1>6. \A i \in (e + 1)..n : i \in e..n
  BY SMTT(120), <1>n
<1>7. MatchedBy(at, pf, l, jb, e + 1, p)
  BY <1>1, <1>4, <1>5, <1>6 DEF MatchedBy, n
<1>8. Matched(pf, l, jb, e + 1, p)
  BY <1>7 DEF Matched, n
<1> QED
  BY <1>1, <1>2, <1>3, <1>8

\* A new job for the socket at the cursor leaves the rest as it is.
LEMMA ReplaceMatched ==
  ASSUME NEW pf \in Seq(Entries), NEW l \in Seq(Sockets), NEW jb \in JobTables,
         NoRepeats(l), NEW e \in Nat, NEW c \in DOMAIN l,
         NEW new \in Jobs \cup {NoJob}, Matched(pf, l, jb, e, c)
  PROVE  Matched(pf, l, [jb EXCEPT ![l[c]] = new], e, c)
<1> DEFINE jc == [jb EXCEPT ![l[c]] = new]
<1>1. \A p \in DOMAIN l : p > c => jc[l[p]] = jb[l[p]]
  <2> SUFFICES ASSUME NEW p \in DOMAIN l, p > c PROVE jc[l[p]] = jb[l[p]]
    OBVIOUS
  <2>1. l[p] # l[c]
    BY SMTT(120), PlaceType DEF NoRepeats
  <2>2. l[p] \in Sockets
    BY PlaceType
  <2> QED
    BY <2>1, <2>2 DEF JobTables
<1> HIDE DEF jc
<1>2. \A p : p > c => (p \in Live(l, jc) <=> p \in Live(l, jb))
  BY <1>1 DEF Live
<1>3. PICK at \in [1..Len(pf) -> Nat] : MatchedBy(at, pf, l, jb, e, c)
  BY DEF Matched
<1>4. \A i \in e..Len(pf) : at[i] \in Live(l, jc) /\ pf[i].job = jc[l[at[i]]]
  BY <1>1, <1>2, <1>3 DEF Live, MatchedBy
<1>5. \A p \in Live(l, jc) : p > c => \E i \in e..Len(pf) : at[i] = p
  BY <1>2, <1>3 DEF MatchedBy
<1>6. MatchedBy(at, pf, l, jc, e, c)
  BY <1>3, <1>4, <1>5 DEF MatchedBy
<1> QED
  BY <1>6 DEF jc, Matched

LEMMA WalkType ==
  ASSUME NEW at \in Walks, m_socketJobs \in Seq(Sockets)
  PROVE  /\ \E n \in Nat : at \in [1..n -> LivePlaces]
         /\ \A i, j \in DOMAIN at : i < j => at[i] < at[j]
         /\ \A p \in LivePlaces : \E i \in DOMAIN at : at[i] = p
         /\ LivePlaces = Live(m_socketJobs, job)
         /\ LivePlaces \subseteq Nat \ {0}
<1>1. Len(m_socketJobs) \in Nat
  BY SeqLength
<1>2. \E n \in 0..Len(m_socketJobs) : at \in [1..n -> LivePlaces]
  BY DEF Walks
<1>3. LivePlaces \subseteq Nat \ {0}
  BY SMTT(120), PlaceType DEF LivePlaces
<1>4. \E n \in Nat : at \in [1..n -> LivePlaces]
  BY SMTT(120), <1>1, <1>2
<1>5. /\ \A i, j \in DOMAIN at : i < j => at[i] < at[j]
      /\ \A p \in LivePlaces : \E i \in DOMAIN at : at[i] = p
  BY DEF Walks
<1>6. LivePlaces = Live(m_socketJobs, job)
  BY DEF LivePlaces, Live
<1> QED
  BY <1>3, <1>4, <1>5, <1>6

\* The poll entries that a walk collects are those of the list.
LEMMA CollectMatched ==
  ASSUME NEW at \in Walks, m_socketJobs \in Seq(Sockets), job \in JobTables
  PROVE  LET pf == [i \in DOMAIN at |-> [socket |-> m_socketJobs[at[i]],
                                         job |-> job[m_socketJobs[at[i]]]]]
         IN  pf \in Seq(Entries) /\ Matched(pf, m_socketJobs, job, 1, 0)
<1> DEFINE pf == [i \in DOMAIN at |-> [socket |-> m_socketJobs[at[i]],
                                       job |-> job[m_socketJobs[at[i]]]]]
<1>1. PICK n \in Nat : at \in [1..n -> LivePlaces]
  BY WalkType
<1>2. DOMAIN at = 1..n
  BY <1>1
<1>3. \A i \in 1..n : /\ at[i] \in LivePlaces
                      /\ m_socketJobs[at[i]] \in Sockets
                      /\ job[m_socketJobs[at[i]]] \in Jobs
  BY <1>1, PlaceType DEF LivePlaces, JobTables
<1>4. \A i \in 1..n : /\ pf[i] \in Entries
                      /\ pf[i].socket = m_socketJobs[at[i]]
                      /\ pf[i].job = job[m_socketJobs[at[i]]]
  BY <1>2, <1>3 DEF Entries
<1>5. pf \in [1..n -> Entries]
  BY <1>2, <1>4
<1> HIDE DEF pf
<1>6. pf \in Seq(Entries) /\ Len(pf) = n
  BY <1>5, FunctionIsSeq
<1>7. at \in [1..Len(pf) -> Nat] /\ \A i \in 1..n : at[i] > 0
  BY SMTT(120), <1>1, <1>6, WalkType
<1>8. MatchedBy(at, pf, m_socketJobs, job, 1, 0)
  <2>1. /\ \A i, j \in 1..n : i < j => at[i] < at[j]
        /\ \A p \in Live(m_socketJobs, job) : \E i \in 1..n : at[i] = p
        /\ \A i \in 1..n : at[i] \in Live(m_socketJobs, job)
    BY <1>1, <1>2, WalkType
  <2> QED
    BY <1>4, <1>6, <1>7, <2>1 DEF MatchedBy
<1> QED
  BY <1>6, <1>7, <1>8 DEF pf, Matched

\* The list that a walk leaves has the sockets with a job, each once.
LEMMA CleanupList ==
  ASSUME NEW at \in Walks, m_socketJobs \in Seq(Sockets), job \in JobTables,
         NoRepeats(m_socketJobs)
  PROVE  LET l == [i \in DOMAIN at |-> m_socketJobs[at[i]]]
         IN  /\ l \in Seq(Sockets)
             /\ NoRepeats(l)
             /\ Live(l, job) = DOMAIN l
             /\ \A s \in InList : job[s] # NoJob => \E i \in DOMAIN l : l[i] = s
<1> DEFINE l == [i \in DOMAIN at |-> m_socketJobs[at[i]]]
<1>1. PICK n \in Nat : at \in [1..n -> LivePlaces]
  BY WalkType
<1>2. DOMAIN at = 1..n
  BY <1>1
<1>3. \A i \in 1..n : /\ at[i] \in LivePlaces
                      /\ at[i] \in DOMAIN m_socketJobs
                      /\ m_socketJobs[at[i]] \in Sockets
                      /\ job[m_socketJobs[at[i]]] # NoJob
  BY <1>1, PlaceType DEF LivePlaces
<1>4. l \in [1..n -> Sockets] /\ \A i \in 1..n : l[i] = m_socketJobs[at[i]]
  BY <1>2, <1>3
<1> HIDE DEF l
<1>5. l \in Seq(Sockets) /\ DOMAIN l = 1..n
  BY <1>4, FunctionIsSeq
<1>6. NoRepeats(l)
  <2> SUFFICES ASSUME NEW i \in 1..n, NEW j \in 1..n, l[i] = l[j] PROVE i = j
    BY <1>5 DEF NoRepeats
  <2>1. at[i] = at[j]
    BY SMTT(120), <1>3, <1>4 DEF NoRepeats
  <2>2. at[i] \in Nat /\ ~(at[i] < at[j]) /\ ~(at[j] < at[i])
    BY SMTT(120), <2>1, <1>3, WalkType
  <2>3. ~(i < j) /\ ~(j < i)
    BY <2>2, <1>2, WalkType
  <2> QED
    BY SMTT(120), <2>3
<1>7. Live(l, job) = DOMAIN l
  BY <1>3, <1>4, <1>5 DEF Live
<1>8. \A s \in InList : job[s] # NoJob => \E i \in DOMAIN l : l[i] = s
  <2> SUFFICES ASSUME NEW s \in InList, job[s] # NoJob
               PROVE  \E i \in DOMAIN l : l[i] = s
    OBVIOUS
  <2>1. PICK p \in DOMAIN m_socketJobs : m_socketJobs[p] = s
    BY DEF InList
  <2>2. p \in LivePlaces
    BY <2>1 DEF LivePlaces
  <2>3. PICK i \in 1..n : at[i] = p
    BY <2>2, <1>2, WalkType
  <2> QED
    BY <2>1, <2>3, <1>4, <1>5
<1> QED
  BY <1>5, <1>6, <1>7, <1>8 DEF l

-----------------------------------------------------------------------------
(* The multiplexer: steps *)

\* What the steps that touch neither the list nor the poll entries keep.
listAndPoll == <<m_update, m_socketJobs, job, removed, pfds, entry, cursor>>

LEMMA KeepLists ==
  ASSUME Inv, UNCHANGED listAndPoll,
         pc'[Service] \in {"unlock", "running", "poll", "next"}
           => pc'[Service] = pc[Service]
  PROVE  ListInv' /\ PollInv'
<1>1. /\ m_update' = m_update /\ m_socketJobs' = m_socketJobs /\ job' = job
      /\ removed' = removed /\ pfds' = pfds /\ entry' = entry /\ cursor' = cursor
  BY DEF listAndPoll
<1>2. ListInv'
  BY SMTT(120), <1>1 DEF Inv, ListInv, EntriesHaveJobs, RemovedIdle, LivePlaces, InList
<1>3. PollInv'
  BY <1>1 DEF Inv, PollInv, Fresh, Polling, Walking, Running
<1> QED
  BY <1>2, <1>3

\* A thread's place after Goto.
LEMMA GotoPlace ==
  ASSUME MuxTypeOK, NEW t \in Threads, NEW label, Goto(t, label)
  PROVE  /\ pc'[t] = label
         /\ \A u \in Threads : u # t => pc'[u] = pc[u]
         /\ DOMAIN pc' = Threads
BY DEF MuxTypeOK, Goto

LEMMA ServiceIsThread == Service \in Threads /\ Users \subseteq Threads
BY DEF Threads

LEMMA InitInv == MuxInit => Inv
<1> SUFFICES ASSUME MuxInit PROVE Inv
  OBVIOUS
<1>0. m_socketJobs = <<>> /\ pfds = <<>> /\ entry = 1 /\ cursor = 0
  BY DEF MuxInit
<1>1. <<>> \in Seq(Sockets) /\ <<>> \in Seq(Entries) /\ Len(<<>>) = 0
      /\ DOMAIN <<>> = {}
  BY SMTT(120), SeqNonempty
<1>2. MuxTypeOK
  <2>1. entry \in 1..(Len(pfds) + 1) /\ cursor \in 0..Len(m_socketJobs)
    BY SMTT(120), <1>0, <1>1
  <2>2. /\ m_socketJobs \in Seq(Sockets)
        /\ pfds \in Seq([socket : Sockets, job : Jobs])
    BY <1>0, <1>1 DEF Entries
  <2>3. /\ call \in [Users -> [socket : Sockets, job : Jobs \cup {NoJob}]]
        /\ calls \in 0..MaxCalls
    BY SMTT(120), ThreadsAssumption DEF MuxInit
  <2> QED
    BY <2>1, <2>2, <2>3 DEF MuxInit, MuxTypeOK, Labels
<1>3. LocksOwned /\ JobsReadyOK
  BY DEF MuxInit, LocksOwned, JobsReadyOK
<1>4. ListInv
  BY <1>0, <1>1 DEF MuxInit, ListInv, EntriesHaveJobs, RemovedIdle, LivePlaces, InList, Threads
<1>5. Matched(pfds, m_socketJobs, job, 1, 0)
  <2>1. Len(pfds) = 0 /\ Live(m_socketJobs, job) = {}
    BY <1>0, <1>1 DEF Live
  <2> DEFINE at == [i \in 1..Len(pfds) |-> 0]
  <2>2. at \in [1..Len(pfds) -> Nat]
    OBVIOUS
  <2> HIDE DEF at
  <2>3. MatchedBy(at, pfds, m_socketJobs, job, 1, 0)
    BY SMTT(120), <2>1 DEF MatchedBy
  <2> QED
    BY <2>2, <2>3 DEF Matched
<1>6. PollInv
  BY <1>5, ServiceIsThread DEF MuxInit, PollInv, Fresh, Polling, Walking, Running
<1> QED
  BY <1>2, <1>3, <1>4, <1>6 DEF Inv

Critical == {"edit", "unlock", "poll", "next", "running", "cleanup"}

LEMMA LockJobListLockInv ==
  ASSUME Inv, NEW t \in Threads, LockJobListLock(t)
  PROVE  Inv'
<1>1. MuxTypeOK /\ LocksOwned
  BY DEF Inv
<1>2. /\ pc'[t] \in {"lock", "unblock"} /\ pc[t] = "lockLock"
      /\ \A u \in Threads : u # t => pc'[u] = pc[u]
  BY <1>1, GotoPlace DEF LockJobListLock
<1>3. MuxTypeOK'
  BY <1>1 DEF MuxTypeOK, Labels, LockJobListLock, Goto, listVars, pollVars, callVars
<1>4. LocksOwned'
  BY <1>1, <1>2, ThreadsAssumption DEF LocksOwned, LockJobListLock, Threads
<1>5. JobsReadyOK'
  BY DEF Inv, JobsReadyOK, LockJobListLock, listVars
<1>6. ListInv' /\ PollInv'
  BY <1>2, KeepLists, ServiceIsThread
     DEF LockJobListLock, listVars, pollVars, listAndPoll
<1> QED
  BY <1>3, <1>4, <1>5, <1>6 DEF Inv

LEMMA LockJobListInv ==
  ASSUME Inv, NEW t \in Threads, LockJobList(t)
  PROVE  Inv'
<1>1. MuxTypeOK /\ LocksOwned
  BY DEF Inv
<1>2. /\ pc'[t] = "edit" /\ pc[t] = "lock"
      /\ \A u \in Threads : u # t => pc'[u] = pc[u]
  BY <1>1, GotoPlace DEF LockJobList
<1>3. MuxTypeOK'
  BY <1>1 DEF MuxTypeOK, Labels, LockJobList, Goto, listVars, pollVars, callVars
<1>4. LocksOwned'
  BY <1>1, <1>2, ThreadsAssumption DEF LocksOwned, LockJobList, Threads
<1>5. JobsReadyOK'
  BY ThreadsAssumption DEF JobsReadyOK, LockJobList, Threads
<1>6. ListInv' /\ PollInv'
  BY <1>2, KeepLists, ServiceIsThread DEF LockJobList, listVars, pollVars, listAndPoll
<1> QED
  BY <1>3, <1>4, <1>5, <1>6 DEF Inv

LEMMA UnlockJobListInv ==
  ASSUME Inv, NEW t \in Threads, UnlockJobList(t)
  PROVE  Inv'
<1>1. MuxTypeOK /\ LocksOwned
  BY DEF Inv
<1>2. /\ pc'[t] = "idle" /\ pc[t] = "unlock"
      /\ \A u \in Threads : u # t => pc'[u] = pc[u]
  BY <1>1, GotoPlace DEF UnlockJobList
<1>3. MuxTypeOK'
  BY <1>1 DEF MuxTypeOK, Labels, UnlockJobList, Goto, listVars, pollVars, callVars
<1>4. LocksOwned'
  BY <1>1, <1>2, ThreadsAssumption DEF LocksOwned, UnlockJobList, Threads
<1>5. JobsReadyOK'
  BY DEF JobsReadyOK, UnlockJobList, listVars
<1>6. ListInv' /\ PollInv'
  BY <1>2, KeepLists, ServiceIsThread DEF UnlockJobList, listVars, pollVars, listAndPoll
<1> QED
  BY <1>3, <1>4, <1>5, <1>6 DEF Inv

LEMMA UserCallInv ==
  ASSUME Inv, NEW t \in Users,
         \/ \E s \in Sockets, j \in Jobs \cup {NoJob} : Call(t, s, j)
         \/ UnblockPollSocket(t)
  PROVE  Inv'
<1>1. MuxTypeOK /\ LocksOwned /\ t \in Threads /\ t # Service
  BY ServiceIsThread, ThreadsAssumption DEF Inv
<1>2. /\ \/ pc[t] = "idle" /\ pc'[t] = "lockLock"
         \/ pc[t] = "unblock" /\ pc'[t] = "lock"
      /\ \A u \in Threads : u # t => pc'[u] = pc[u]
  BY <1>1, GotoPlace DEF Call, UnblockPollSocket
<1>3. MuxTypeOK'
  <2>1. ASSUME NEW s \in Sockets, NEW j \in Jobs \cup {NoJob}, Call(t, s, j)
        PROVE  MuxTypeOK'
    <3>1. /\ call' \in [Users -> [socket : Sockets, job : Jobs \cup {NoJob}]]
          /\ calls' \in 0..MaxCalls
      BY SMTT(120), <1>1, <2>1, ThreadsAssumption DEF Call, MuxTypeOK
    <3> QED
      BY <1>1, <2>1, <3>1 DEF MuxTypeOK, Labels, Call, Goto, lockerVars, listVars, pollVars
  <2>2. CASE UnblockPollSocket(t)
    BY <1>1, <2>2
       DEF MuxTypeOK, Labels, UnblockPollSocket, Goto, lockerVars, listVars, pollVars, callVars
  <2> QED
    BY <2>1, <2>2
<1>4. LocksOwned' /\ JobsReadyOK'
  BY <1>1, <1>2
     DEF Inv, LocksOwned, JobsReadyOK, Call, UnblockPollSocket, lockerVars, listVars
<1>5. ListInv' /\ PollInv'
  BY <1>1, <1>2, KeepLists, ServiceIsThread
     DEF Call, UnblockPollSocket, listVars, pollVars, listAndPoll
<1> QED
  BY <1>3, <1>4, <1>5 DEF Inv

LEMMA ServiceMovesInv ==
  ASSUME Inv, WaitForJobs \/ EndOfJobs
  PROVE  Inv'
<1>1. MuxTypeOK /\ LocksOwned
  BY DEF Inv
<1>2. /\ \/ pc[Service] = "idle" /\ pc'[Service] = "lockLock"
         \/ pc[Service] = "next" /\ pc'[Service] = "cleanup"
      /\ \A u \in Threads : u # Service => pc'[u] = pc[u]
  BY <1>1, GotoPlace, ServiceIsThread DEF WaitForJobs, EndOfJobs
<1>3. MuxTypeOK'
  BY <1>1 DEF MuxTypeOK, Labels, WaitForJobs, EndOfJobs, Goto, lockerVars, listVars, pollVars,
              callVars
<1>4. LocksOwned' /\ JobsReadyOK'
  BY <1>1, <1>2, ServiceIsThread
     DEF Inv, LocksOwned, JobsReadyOK, WaitForJobs, EndOfJobs, lockerVars, listVars
<1>5. ListInv' /\ PollInv'
  BY <1>2, KeepLists DEF WaitForJobs, EndOfJobs, listVars, pollVars, listAndPoll
<1> QED
  BY <1>3, <1>4, <1>5 DEF Inv

\* While a user edits the list, the service thread does not work on it.
LEMMA EditorAlone ==
  ASSUME Inv, NEW t \in Users, pc[t] = "edit", Goto(t, "unlock"), UNCHANGED lockerVars
  PROVE  /\ pc'[Service] = pc[Service] /\ pc[Service] \notin Critical
         /\ listLocker # NoThread
         /\ LocksOwned' /\ JobsReadyOK'
<1>1. MuxTypeOK /\ LocksOwned /\ t \in Threads /\ t # Service /\ t # NoThread
  BY ServiceIsThread, ThreadsAssumption DEF Inv
<1>2. /\ pc'[t] = "unlock"
      /\ \A u \in Threads : u # t => pc'[u] = pc[u]
  BY <1>1, GotoPlace
<1>3. listLocker = t
  BY <1>1 DEF LocksOwned
<1>4. pc[Service] \notin Critical
  BY <1>1, <1>3, ServiceIsThread DEF LocksOwned, Critical
<1>5. LocksOwned'
  BY <1>1, <1>2, <1>3 DEF LocksOwned, lockerVars
<1>6. JobsReadyOK'
  BY <1>1, <1>3 DEF JobsReadyOK, lockerVars
<1> QED
  BY <1>1, <1>2, <1>3, <1>4, <1>5, <1>6, ServiceIsThread

LEMMA AddSocketInv ==
  ASSUME Inv, NEW t \in Users, AddSocket(t)
  PROVE  Inv'
<1> DEFINE s == call[t].socket
<1>1. MuxTypeOK /\ EntriesHaveJobs /\ RemovedIdle
  BY DEF Inv, ListInv
<1>2. s \in Sockets /\ call[t].job \in Jobs /\ m_socketJobs \in Seq(Sockets)
  BY <1>1 DEF MuxTypeOK, AddSocket
<1>3. /\ pc'[Service] = pc[Service] /\ pc[Service] \notin Critical
      /\ LocksOwned' /\ JobsReadyOK'
  BY EditorAlone DEF AddSocket
<1> HIDE DEF s
<1>4. /\ Added(s) \in Seq(Sockets)
      /\ Len(Added(s)) >= Len(m_socketJobs)
      /\ NoRepeats(Added(s))
      /\ \A u \in InList \cup {s} : \E i \in DOMAIN Added(s) : Added(s)[i] = u
  <2>1. Len(m_socketJobs) \in Nat /\ DOMAIN m_socketJobs = 1..Len(m_socketJobs)
    BY <1>2, SeqLength
  <2>2. CASE s \in InList
    BY SMTT(120), <1>1, <1>2, <2>1, <2>2 DEF Added, InList, NoRepeats, EntriesHaveJobs
  <2>3. CASE s \notin InList
    <3> DEFINE a == Append(m_socketJobs, s)
    <3>1. /\ a \in Seq(Sockets)
          /\ Len(a) = Len(m_socketJobs) + 1
          /\ \A i \in 1..Len(m_socketJobs) : a[i] = m_socketJobs[i]
          /\ a[Len(m_socketJobs) + 1] = s
      BY SMTT(120), <1>2, SeqAppend
    <3>2. DOMAIN a = 1..(Len(m_socketJobs) + 1)
      BY <3>1, SeqLength
    <3>3. Added(s) = a
      BY <2>3 DEF Added
    <3> HIDE DEF a
    <3>4. \A i \in 1..Len(m_socketJobs) : m_socketJobs[i] # s
      BY <2>1, <2>3 DEF InList
    <3>5. NoRepeats(a)
      <4> SUFFICES ASSUME NEW i \in 1..(Len(m_socketJobs) + 1),
                          NEW j \in 1..(Len(m_socketJobs) + 1), a[i] = a[j]
                   PROVE  i = j
        BY <3>2 DEF NoRepeats
      <4>1. CASE i = Len(m_socketJobs) + 1 \/ j = Len(m_socketJobs) + 1
        BY SMTT(120), <4>1, <3>1, <3>4, <2>1
      <4>2. CASE i \in 1..Len(m_socketJobs) /\ j \in 1..Len(m_socketJobs)
        BY <4>2, <3>1, <2>1, <1>1 DEF EntriesHaveJobs
      <4> QED
        BY SMTT(120), <4>1, <4>2, <2>1
    <3>6. \A u \in InList \cup {s} : \E i \in DOMAIN a : a[i] = u
      <4> SUFFICES ASSUME NEW u \in InList \cup {s} PROVE \E i \in DOMAIN a : a[i] = u
        OBVIOUS
      <4>1. CASE u = s
        BY SMTT(120), <4>1, <3>1, <3>2, <2>1
      <4>2. CASE u \in InList
        <5>1. PICK i \in 1..Len(m_socketJobs) : m_socketJobs[i] = u
          BY <4>2, <2>1 DEF InList
        <5> QED
          BY SMTT(120), <5>1, <3>1, <3>2, <2>1
      <4> QED
        BY <4>1, <4>2
    <3> QED
      BY SMTT(120), <2>1, <3>1, <3>3, <3>5, <3>6
  <2> QED
    BY <2>2, <2>3
<1>5. /\ m_socketJobs' = Added(s) /\ job' = [job EXCEPT ![s] = call[t].job]
      /\ m_update' = TRUE /\ removed' = removed \ {s}
  BY DEF AddSocket, s
<1>6. MuxTypeOK'
  <2>1. cursor' \in 0..Len(m_socketJobs')
    BY SMTT(120), <1>1, <1>2, <1>4, <1>5, SeqLength DEF MuxTypeOK, AddSocket, pollVars
  <2>2. pc' \in [Threads -> Labels]
    BY <1>1 DEF MuxTypeOK, Labels, AddSocket, Goto
  <2>3. job' \in [Sockets -> Jobs \cup {NoJob}] /\ removed' \subseteq Sockets
    BY <1>1, <1>2, <1>5 DEF MuxTypeOK
  <2> QED
    BY <1>1, <1>4, <1>5, <2>1, <2>2, <2>3
       DEF MuxTypeOK, AddSocket, lockerVars, pollVars, callVars
<1>7. ListInv'
  <2>1. \A u \in Sockets : job'[u] # NoJob => u \in InList'
    <3> SUFFICES ASSUME NEW u \in Sockets, job'[u] # NoJob PROVE u \in InList'
      OBVIOUS
    <3>1. u = s \/ job[u] # NoJob
      BY <1>1, <1>5 DEF MuxTypeOK
    <3>2. u \in InList \cup {s}
      BY <1>1, <3>1 DEF EntriesHaveJobs
    <3> QED
      BY <1>4, <1>5, <3>2 DEF InList
  <2>2. RemovedIdle'
    BY <1>1, <1>5 DEF RemovedIdle, MuxTypeOK
  <2>3. EntriesHaveJobs'
    BY <1>3, <1>4, <1>5, <2>1 DEF EntriesHaveJobs, NoRepeats, Critical
  <2> QED
    BY <2>2, <2>3 DEF ListInv
<1>8. PollInv'
  BY <1>3, <1>5 DEF PollInv, Fresh, Polling, Walking, Running, Critical
<1> QED
  BY <1>3, <1>6, <1>7, <1>8 DEF Inv

LEMMA RemoveSocketInv ==
  ASSUME Inv, NEW t \in Users, RemoveSocket(t)
  PROVE  Inv'
<1> DEFINE s == call[t].socket
<1>1. MuxTypeOK /\ EntriesHaveJobs /\ RemovedIdle /\ Fresh
  BY DEF Inv, ListInv, PollInv
<1>2. s \in Sockets
  BY <1>1 DEF MuxTypeOK
<1>3. /\ pc'[Service] = pc[Service] /\ pc[Service] \notin Critical
      /\ LocksOwned' /\ JobsReadyOK'
  BY EditorAlone DEF RemoveSocket
<1>4. /\ m_socketJobs' = m_socketJobs /\ job' = [job EXCEPT ![s] = NoJob]
      /\ m_update' = (m_update \/ job[s] # NoJob) /\ removed' = removed \cup {s}
      /\ pfds' = pfds
  BY DEF RemoveSocket, pollVars
<1> HIDE DEF s
<1>5. MuxTypeOK'
  <2>1. pc' \in [Threads -> Labels]
    BY <1>1 DEF MuxTypeOK, Labels, RemoveSocket, Goto
  <2> QED
    BY <1>1, <1>2, <1>4, <2>1 DEF MuxTypeOK, RemoveSocket, lockerVars, pollVars, callVars
<1>6. ListInv'
  BY SMTT(120), <1>1, <1>2, <1>3, <1>4
     DEF ListInv, EntriesHaveJobs, RemovedIdle, InList, Critical, MuxTypeOK
<1>7. PollInv'
  <2>1. ~m_update' => job' = job
    BY <1>1, <1>2, <1>4 DEF MuxTypeOK
  <2>2. Fresh'
    BY <1>1, <1>4, <2>1 DEF Fresh, MuxTypeOK
  <2> QED
    BY <1>3, <2>2 DEF PollInv, Polling, Walking, Running, Critical
<1> QED
  BY <1>3, <1>5, <1>6, <1>7 DEF Inv

\* While the service thread has the list, it keeps it, and the locks are as
\* they were.
LEMMA ServiceAlone ==
  ASSUME Inv, NEW label \in Critical, pc[Service] \in Critical, Goto(Service, label),
         UNCHANGED lockerVars
  PROVE  pc'[Service] = label /\ LocksOwned' /\ JobsReadyOK'
         /\ pc' \in [Threads -> Labels]
<1>1. MuxTypeOK /\ LocksOwned /\ Service \in Threads /\ Service # NoThread
  BY ServiceIsThread, ThreadsAssumption DEF Inv
<1>2. /\ pc'[Service] = label
      /\ \A u \in Threads : u # Service => pc'[u] = pc[u]
  BY <1>1, GotoPlace
<1>3. listLocker = Service
  BY <1>1 DEF LocksOwned, Critical
<1>4. LocksOwned'
  BY <1>1, <1>2, <1>3 DEF LocksOwned, lockerVars, Critical
<1>5. JobsReadyOK'
  BY <1>1, <1>3 DEF JobsReadyOK, lockerVars
<1>6. pc' \in [Threads -> Labels]
  BY <1>1 DEF MuxTypeOK, Labels, Goto, Critical
<1> QED
  BY <1>2, <1>4, <1>5, <1>6

LEMMA CollectInv ==
  ASSUME Inv, Collect
  PROVE  Inv'
<1>1. MuxTypeOK /\ EntriesHaveJobs /\ RemovedIdle /\ Fresh
  BY DEF Inv, ListInv, PollInv
<1>2. /\ pc'[Service] = "poll" /\ LocksOwned' /\ JobsReadyOK'
      /\ pc' \in [Threads -> Labels]
  BY ServiceAlone DEF Collect, Critical
<1>3. /\ m_socketJobs' = m_socketJobs /\ job' = job /\ removed' = removed
      /\ m_update' = FALSE /\ entry' = 1 /\ cursor' = 0
  BY DEF Collect
<1>4. pfds' \in Seq(Entries) /\ Matched(pfds', m_socketJobs, job, 1, 0)
  <2>1. CASE ~m_update /\ UNCHANGED pfds
    BY <2>1, <1>1 DEF Fresh, MuxTypeOK, Entries
  <2>2. CASE \E at \in Walks :
               pfds' = [i \in DOMAIN at |-> [socket |-> m_socketJobs[at[i]],
                                            job |-> job[m_socketJobs[at[i]]]]]
    <3>1. PICK at \in Walks :
               pfds' = [i \in DOMAIN at |-> [socket |-> m_socketJobs[at[i]],
                                            job |-> job[m_socketJobs[at[i]]]]]
      BY <2>2
    <3>2. m_socketJobs \in Seq(Sockets) /\ job \in JobTables
      BY <1>1 DEF MuxTypeOK, JobTables
    <3> QED
      BY <3>1, <3>2, CollectMatched
  <2> QED
    BY <2>1, <2>2 DEF Collect
<1>5. MuxTypeOK'
  <2>1. entry' \in 1..(Len(pfds') + 1) /\ cursor' \in 0..Len(m_socketJobs')
    BY SMTT(120), <1>1, <1>3, <1>4, SeqLength DEF MuxTypeOK
  <2> QED
    BY <1>1, <1>2, <1>3, <1>4, <2>1 DEF MuxTypeOK, Collect, Entries, lockerVars, callVars
<1>6. ListInv'
  BY <1>1, <1>2, <1>3 DEF ListInv, EntriesHaveJobs, RemovedIdle, InList
<1>7. PollInv'
  BY <1>2, <1>3, <1>4 DEF PollInv, Fresh, Polling, Walking, Running
<1> QED
  BY <1>2, <1>5, <1>6, <1>7 DEF Inv

LEMMA PollSocketInv ==
  ASSUME Inv, PollSocket
  PROVE  Inv'
<1>1. MuxTypeOK /\ EntriesHaveJobs /\ RemovedIdle /\ Fresh /\ Polling
  BY DEF Inv, ListInv, PollInv
<1>2. /\ pc'[Service] \in {"next", "cleanup"} /\ LocksOwned' /\ JobsReadyOK'
      /\ pc' \in [Threads -> Labels]
  <2>1. PICK label \in {"next", "cleanup"} : Goto(Service, label)
    BY DEF PollSocket
  <2> QED
    BY <2>1, ServiceAlone DEF PollSocket, Critical
<1>3. /\ m_socketJobs' = m_socketJobs /\ job' = job /\ removed' = removed
      /\ m_update' = m_update /\ entry' = entry /\ cursor' = cursor /\ pfds' = pfds
      /\ pc[Service] = "poll"
  BY DEF PollSocket, listVars, pollVars
<1>4. MuxTypeOK'
  BY <1>1, <1>2, <1>3 DEF MuxTypeOK, PollSocket, lockerVars, callVars
<1>5. ListInv'
  BY <1>1, <1>2, <1>3 DEF ListInv, EntriesHaveJobs, RemovedIdle, InList
<1>6. PollInv'
  BY <1>1, <1>2, <1>3 DEF PollInv, Fresh, Polling, Walking, Running
<1> QED
  BY <1>2, <1>4, <1>5, <1>6 DEF Inv

LEMMA RunJobInv ==
  ASSUME Inv, RunJob
  PROVE  Inv'
<1>1. MuxTypeOK /\ EntriesHaveJobs /\ RemovedIdle /\ Fresh /\ Walking
  BY DEF Inv, ListInv, PollInv
<1>2. /\ pc'[Service] = "running" /\ LocksOwned' /\ JobsReadyOK'
      /\ pc' \in [Threads -> Labels]
  BY ServiceAlone DEF RunJob, Critical
<1>3. /\ m_socketJobs' = m_socketJobs /\ job' = job /\ removed' = removed
      /\ m_update' = m_update /\ entry' = entry /\ pfds' = pfds
      /\ entry <= Len(pfds) /\ pc[Service] = "next"
  BY DEF RunJob, listVars
<1>4. /\ cursor' \in Live(m_socketJobs, job) /\ cursor' > cursor
      /\ \A q \in Live(m_socketJobs, job) : q > cursor => cursor' <= q
  BY DEF RunJob, Behind, LivePlaces, Live
<1>5. /\ m_socketJobs \in Seq(Sockets) /\ job \in JobTables /\ pfds \in Seq(Entries)
      /\ entry \in Nat \ {0} /\ cursor \in Nat
  BY SMTT(120), <1>1, SeqLength DEF MuxTypeOK, JobTables, Entries
<1>6. /\ pfds[entry].socket = m_socketJobs[cursor']
      /\ pfds[entry].job = job[m_socketJobs[cursor']]
      /\ Matched(pfds, m_socketJobs, job, entry + 1, cursor')
  BY SMTT(120), <1>1, <1>3, <1>4, <1>5, StepMatched DEF Walking
<1>7. MuxTypeOK'
  <2>1. cursor' \in 0..Len(m_socketJobs')
    BY SMTT(120), <1>3, <1>4, <1>5, PlaceType, SeqLength DEF Live
  <2> QED
    BY <1>1, <1>2, <1>3, <2>1 DEF MuxTypeOK, RunJob, lockerVars, callVars
<1>8. ListInv'
  BY <1>1, <1>2, <1>3 DEF ListInv, EntriesHaveJobs, RemovedIdle, InList
<1>9. PollInv'
  BY <1>1, <1>2, <1>3, <1>4, <1>6 DEF PollInv, Fresh, Polling, Walking, Running
<1> QED
  BY <1>2, <1>7, <1>8, <1>9 DEF Inv

LEMMA JobReturnsInv ==
  ASSUME Inv, NEW new \in Jobs \cup {NoJob}, JobReturns(new)
  PROVE  Inv'
<1> DEFINE s == m_socketJobs[cursor]
<1>1. MuxTypeOK /\ EntriesHaveJobs /\ RemovedIdle /\ Fresh /\ Running
  BY DEF Inv, ListInv, PollInv
<1>2. /\ pc'[Service] = "next" /\ LocksOwned' /\ JobsReadyOK'
      /\ pc' \in [Threads -> Labels]
  BY ServiceAlone DEF JobReturns, Critical
<1>3. /\ m_socketJobs' = m_socketJobs /\ removed' = removed /\ pfds' = pfds
      /\ cursor' = cursor /\ entry' = entry + 1
      /\ job' = [job EXCEPT ![s] = new]
      /\ m_update' = (m_update \/ new # job[s])
      /\ pc[Service] = "running"
  BY DEF JobReturns
<1>4. /\ m_socketJobs \in Seq(Sockets) /\ job \in JobTables /\ pfds \in Seq(Entries)
      /\ entry \in Nat /\ entry <= Len(pfds)
      /\ cursor \in DOMAIN m_socketJobs /\ s \in Sockets /\ job[s] # NoJob
  <2>1. /\ m_socketJobs \in Seq(Sockets) /\ job \in JobTables /\ pfds \in Seq(Entries)
        /\ entry \in Nat
    BY SMTT(120), <1>1, SeqLength DEF MuxTypeOK, JobTables, Entries
  <2>2. /\ entry <= Len(pfds)
        /\ cursor \in DOMAIN m_socketJobs /\ job[s] # NoJob
    BY <1>1, <1>3 DEF Running, Live
  <2> QED
    BY <2>1, <2>2, PlaceType
<1>5. NoRepeats(m_socketJobs)
  BY <1>1 DEF EntriesHaveJobs, NoRepeats
<1>6. Matched(pfds, m_socketJobs, [job EXCEPT ![s] = new], entry + 1, cursor)
  <2>1. entry + 1 \in Nat /\ Matched(pfds, m_socketJobs, job, entry + 1, cursor)
    BY SMTT(120), <1>1, <1>3, <1>4 DEF Running
  <2> QED
    BY <1>4, <1>5, <2>1, ReplaceMatched
<1> HIDE DEF s
<1>7. MuxTypeOK'
  <2>1. entry' \in 1..(Len(pfds') + 1)
    BY SMTT(120), <1>1, <1>3, <1>4, SeqLength DEF MuxTypeOK
  <2>2. job' \in [Sockets -> Jobs \cup {NoJob}]
    BY <1>3, <1>4 DEF JobTables
  <2> QED
    BY <1>1, <1>2, <1>3, <2>1, <2>2 DEF MuxTypeOK, JobReturns, lockerVars, callVars
<1>8. ListInv'
  <2>1. RemovedIdle'
    BY <1>1, <1>3, <1>4 DEF RemovedIdle, JobTables, MuxTypeOK
  <2>2. s \in InList
    BY <1>4 DEF InList, s
  <2>3. \A u \in Sockets : job'[u] # NoJob => u \in InList
    BY <1>1, <1>3, <1>4, <2>2 DEF EntriesHaveJobs, JobTables
  <2>4. InList' = InList
    BY <1>3 DEF InList
  <2>5. EntriesHaveJobs'
    BY <1>1, <1>2, <1>3, <2>3, <2>4 DEF EntriesHaveJobs
  <2> QED
    BY <2>1, <2>5 DEF ListInv
<1>9. PollInv'
  <2>1. ~m_update' => job' = job /\ ~m_update
    BY <1>3, <1>4 DEF JobTables
  <2>2. Fresh'
    BY <1>1, <1>3, <2>1 DEF Fresh
  <2>3. Walking'
    BY <1>3, <1>6 DEF Walking
  <2> QED
    BY <1>2, <2>2, <2>3 DEF PollInv, Polling, Running
<1> QED
  BY <1>2, <1>7, <1>8, <1>9 DEF Inv

LEMMA CleanupInv ==
  ASSUME Inv, Cleanup
  PROVE  Inv'
<1>1. MuxTypeOK /\ EntriesHaveJobs /\ RemovedIdle /\ Fresh
  BY DEF Inv, ListInv, PollInv
<1>2. /\ pc'[Service] = "unlock" /\ LocksOwned' /\ JobsReadyOK'
      /\ pc' \in [Threads -> Labels]
  BY ServiceAlone DEF Cleanup, Critical
<1>3. /\ job' = job /\ removed' = removed /\ pfds' = pfds
      /\ cursor' = 0 /\ entry' = entry
  BY DEF Cleanup
<1>4. m_socketJobs \in Seq(Sockets) /\ job \in JobTables /\ NoRepeats(m_socketJobs)
  BY <1>1 DEF MuxTypeOK, JobTables, EntriesHaveJobs, NoRepeats
<1>5. /\ m_socketJobs' \in Seq(Sockets)
      /\ NoRepeats(m_socketJobs')
      /\ Live(m_socketJobs', job) = DOMAIN m_socketJobs'
      /\ \A s \in InList : job[s] # NoJob =>
           \E i \in DOMAIN m_socketJobs' : m_socketJobs'[i] = s
      /\ m_update' \in BOOLEAN
      /\ ~m_update' => m_socketJobs' = m_socketJobs /\ ~m_update
  <2>1. CASE LivePlaces = DOMAIN m_socketJobs /\ UNCHANGED <<m_socketJobs, m_update>>
    BY <2>1, <1>1, <1>4 DEF Live, LivePlaces, InList, MuxTypeOK
  <2>2. ASSUME NEW at \in Walks, m_update' = TRUE,
               m_socketJobs' = [i \in DOMAIN at |-> m_socketJobs[at[i]]]
        PROVE  /\ m_socketJobs' \in Seq(Sockets)
               /\ NoRepeats(m_socketJobs')
               /\ Live(m_socketJobs', job) = DOMAIN m_socketJobs'
               /\ \A s \in InList : job[s] # NoJob =>
                    \E i \in DOMAIN m_socketJobs' : m_socketJobs'[i] = s
    BY <2>2, <1>4, CleanupList
  <2> QED
    BY <2>1, <2>2 DEF Cleanup
<1>6. MuxTypeOK'
  <2>1. cursor' \in 0..Len(m_socketJobs')
    BY SMTT(120), <1>3, <1>5, SeqLength
  <2> QED
    BY <1>1, <1>2, <1>3, <1>5, <2>1 DEF MuxTypeOK, Cleanup, lockerVars, callVars
<1>7. ListInv'
  <2>1. \A s \in Sockets : job'[s] # NoJob => s \in InList'
    <3> SUFFICES ASSUME NEW s \in Sockets, job[s] # NoJob PROVE s \in InList'
      BY <1>3
    <3>1. s \in InList
      BY <1>1 DEF EntriesHaveJobs
    <3> QED
      BY <1>5, <3>1 DEF InList
  <2>2. LivePlaces' = DOMAIN m_socketJobs'
    BY <1>3, <1>5 DEF LivePlaces, Live
  <2> QED
    BY <1>1, <1>3, <1>5, <2>1, <2>2 DEF ListInv, EntriesHaveJobs, RemovedIdle, NoRepeats
<1>8. PollInv'
  BY <1>1, <1>2, <1>3, <1>5 DEF PollInv, Fresh, Polling, Walking, Running
<1> QED
  BY <1>2, <1>6, <1>7, <1>8 DEF Inv

LEMMA NextInv == Inv /\ [MuxNext]_muxVars => Inv'
<1> SUFFICES ASSUME Inv, [MuxNext]_muxVars PROVE Inv'
  OBVIOUS
<1>1. CASE UNCHANGED muxVars
  <2>1. UNCHANGED listAndPoll /\ UNCHANGED pc
    BY <1>1 DEF muxVars, listVars, pollVars, listAndPoll
  <2>2. ListInv' /\ PollInv'
    BY <2>1, KeepLists
  <2>3. MuxTypeOK' /\ LocksOwned' /\ JobsReadyOK'
    BY <1>1 DEF Inv, MuxTypeOK, LocksOwned, JobsReadyOK, muxVars, lockerVars, listVars,
                pollVars, callVars
  <2> QED
    BY <2>2, <2>3 DEF Inv
<1>2. ASSUME NEW t \in Threads, Locks(t) PROVE Inv'
  BY <1>2, LockJobListLockInv, LockJobListInv, UnlockJobListInv DEF Locks
<1>3. CASE ServiceStep \/ PollSocket
  BY <1>2, <1>3, ServiceIsThread, ServiceMovesInv, CollectInv, PollSocketInv, RunJobInv,
     JobReturnsInv, CleanupInv DEF ServiceStep
<1>4. ASSUME NEW t \in Users,
             \/ \E s \in Sockets, j \in Jobs \cup {NoJob} : Call(t, s, j)
             \/ UserStep(t)
      PROVE  Inv'
  BY <1>2, <1>4, ServiceIsThread, UserCallInv, AddSocketInv, RemoveSocketInv
     DEF UserStep
<1> QED
  BY <1>1, <1>3, <1>4 DEF MuxNext

-----------------------------------------------------------------------------
(* The multiplexer: theorems *)

LEMMA Inductive == MuxSpec => []Inv
BY InitInv, NextInv, PTL DEF MuxSpec

\* service_thread runs each job with the events of its own poll entry, with
\* any list, any holes in it, and any changes that jobs and threads make.
THEOREM EventsMatchJobs == MuxSpec => []PollMatchesJobs
<1>1. Inv => PollMatchesJobs
  BY DEF Inv, PollInv, Running, PollMatchesJobs
<1> QED
  BY <1>1, Inductive, PTL

\* After removeSocket no job of the socket runs until one is added again.
THEOREM RemovedNotRun == MuxSpec => []RemovedNeverRuns
<1>1. Inv => RemovedNeverRuns
  BY DEF Inv, PollInv, ListInv, Running, RemovedIdle, Live, RemovedNeverRuns
<1> QED
  BY <1>1, Inductive, PTL

\* The asserts of lockJobList and unlockJobList never fail, m_jobsReady tells
\* whether the list has an entry when no thread has the list, and the map of
\* sockets and the list of jobs agree; the cursor stays inside the list, and the
\* entry looked at inside pfds or just behind it.
THEOREM ListsConsistent == MuxSpec => []ListsOK
<1>1. Inv => ListsOK
  BY DEF Inv, ListInv, ListsOK
<1> QED
  BY <1>1, Inductive, PTL

-----------------------------------------------------------------------------
(* The timers *)

\* An expired timer, by how long it is late: its count, in whole durations, is
\* at least one and does not go beyond the time that has passed.
LEMMA CountBounds ==
  ASSUME NEW d \in Nat \ {0}, NEW passed \in Nat, passed >= d
  PROVE  /\ passed \div d \in Nat
         /\ passed \div d >= 1
         /\ (passed \div d) * d <= passed
BY SMTT(120)

\* What the count of a timer's event is, once the timer has expired.
LEMMA CountOfExpired ==
  ASSUME TimersOK, NEW t \in Queued, Countdown[t].time <= 0
  PROVE  /\ Count(Countdown[t]) \in Nat
         /\ Count(Countdown[t]) >= 1
         /\ Count(Countdown[t]) * m_timerQueue[t].timeout <= now - since[t]
<1> DEFINE d == m_timerQueue[t].timeout
           passed == d - Countdown[t].time
<1>1. /\ Countdown[t].timeout = d
      /\ Countdown[t].time = m_timerQueue[t].time - Elapsed
      /\ d \in Nat \ {0}
      /\ m_timerQueue[t].time \in Int /\ Elapsed \in Int
  BY SMTT(120), DurationsAssumption DEF Countdown, TimersOK, TimersTypeOK, Records, Queued, Elapsed
<1>2. since[t] \in Int /\ now \in Int /\ lost \in Nat
  BY SMTT(120), TimeAssumption DEF TimersOK, TimersTypeOK, Queued
<1>3. Countdown[t].time >= d - (now - since[t])
  BY SMTT(120), <1>1, <1>2 DEF TimersOK, CountdownExact
<1>4. passed \in Nat /\ passed >= d /\ passed <= now - since[t]
  BY SMTT(120), <1>1, <1>2, <1>3
<1>5. Count(Countdown[t]) = passed \div d
  BY <1>1 DEF Count
<1>. HIDE DEF d, passed
<1>6. /\ passed \div d \in Nat
      /\ passed \div d >= 1
      /\ (passed \div d) * d <= passed
  BY <1>1, <1>4, CountBounds
<1>7. (passed \div d) * d <= now - since[t]
  BY SMTT(120), <1>1, <1>2, <1>4, <1>6
<1>. QED
  BY <1>5, <1>6, <1>7 DEF d

\* The constructor's state.
LEMMA InitTimers == TimersInit => TimersOK
  BY SMTT(120), TimeAssumption DEF TimersInit, TimersOK, TimersTypeOK, CountdownExact, Queued

\* A new timer counts from now on: the stopwatch's reading, which it will be
\* charged with, is added to its duration.
LEMMA NewTimerOK ==
  ASSUME TimersOK, NEW t \in Timers, NEW d \in Durations, NEW oneShot \in BOOLEAN,
         NewTimer(t, d, oneShot)
  PROVE  TimersOK'
<1>1. TimersTypeOK'
  BY SMTT(120), DurationsAssumption, TimeAssumption
     DEF TimersOK, TimersTypeOK, NewTimer, Queued, Records, FirstTime, Elapsed
<1>2. CountdownExact'
  <2> SUFFICES ASSUME NEW u \in Queued'
               PROVE  LET missing == m_timerQueue'[u].timeout - (now' - since'[u])
                      IN  m_timerQueue'[u].time - Elapsed' \in missing..(missing + lost')
    BY DEF CountdownExact
  <2>1. CASE u = t
    BY SMTT(120), <2>1, DurationsAssumption, TimeAssumption
       DEF TimersOK, TimersTypeOK, NewTimer, Queued, FirstTime, Elapsed
  <2>2. CASE u # t
    BY <2>2, DurationsAssumption, TimeAssumption
       DEF TimersOK, TimersTypeOK, CountdownExact, NewTimer, Queued, Records, Elapsed
  <2>. QED
    BY <2>1, <2>2
<1>. QED
  BY <1>1, <1>2 DEF TimersOK

LEMMA DeleteTimerOK ==
  ASSUME TimersOK, NEW t \in Timers, DeleteTimer(t)
  PROVE  TimersOK'
<1>1. Queued' = Queued \ {t} /\ \A u \in Queued' : m_timerQueue'[u] = m_timerQueue[u]
  BY DEF DeleteTimer, Restrict, Queued
<1>. QED
  BY <1>1 DEF TimersOK, TimersTypeOK, CountdownExact, DeleteTimer, Elapsed

\* What a timer in the queue has left, as two inequalities between integers.
LEMMA LeftToCount ==
  ASSUME TimersOK, NEW u \in Queued
  PROVE  /\ m_timerQueue[u].timeout \in Int /\ m_timerQueue[u].time \in Int
         /\ since[u] \in Int /\ now \in Nat /\ mark \in Nat /\ lost \in Nat
         /\ m_timerQueue[u].time - (now - mark)
              >= m_timerQueue[u].timeout - (now - since[u])
         /\ m_timerQueue[u].time - (now - mark)
              <= m_timerQueue[u].timeout - (now - since[u]) + lost
<1>1. /\ m_timerQueue[u].timeout \in Int /\ m_timerQueue[u].time \in Int
      /\ since[u] \in Int /\ now \in Nat /\ mark \in Nat /\ lost \in Nat
  <2>1. now \in Nat /\ mark \in Nat /\ lost \in Nat
    BY SMTT(120), TimeAssumption DEF TimersOK, TimersTypeOK
  <2>2. u \in Timers /\ m_timerQueue[u] \in Records
    BY DEF TimersOK, TimersTypeOK
  <2>3. m_timerQueue[u].timeout \in Int /\ m_timerQueue[u].time \in Int
    <3>1. m_timerQueue[u].timeout \in Durations /\ m_timerQueue[u].time \in Int
      BY <2>2 DEF Records
    <3>2. \A d \in Durations : d \in Int
      BY SMTT(120), DurationsAssumption
    <3>. QED
      BY <3>1, <3>2
  <2>4. since[u] \in Int
    BY SMTT(120), <2>1, <2>2 DEF TimersOK, TimersTypeOK
  <2>. QED
    BY <2>1, <2>3, <2>4
<1>2. m_timerQueue[u].time - (now - mark)
        \in (m_timerQueue[u].timeout - (now - since[u]))
           .. (m_timerQueue[u].timeout - (now - since[u]) + lost)
  BY DEF TimersOK, CountdownExact, Elapsed
<1>. QED
  BY SMTT(120), <1>1, <1>2

LEMMA TickOK ==
  ASSUME TimersOK, Tick
  PROVE  TimersOK'
<1>1. TimersTypeOK'
  BY SMTT(120), TimeAssumption DEF TimersOK, TimersTypeOK, Tick, Queued, Records
<1>2. CountdownExact'
  <2> SUFFICES ASSUME NEW u \in Queued'
               PROVE  LET missing == m_timerQueue'[u].timeout - (now' - since'[u])
                      IN  m_timerQueue'[u].time - Elapsed' \in missing..(missing + lost')
    BY DEF CountdownExact
  <2>1. u \in Queued
    BY DEF Tick, Queued
  <2>. QED
    BY SMTT(120), <2>1, LeftToCount DEF Tick, Elapsed
<1>. QED
  BY <1>1, <1>2 DEF TimersOK

\* After the countdown every timer has left what is missing at the time of the
\* first reading of the clock.
LEMMA CountdownOK ==
  ASSUME TimersOK, NEW later \in now..MaxTime, NEW u \in Queued
  PROVE  /\ Countdown[u] \in Records
         /\ Countdown[u].timeout = m_timerQueue[u].timeout
         /\ Countdown[u].oneShot = m_timerQueue[u].oneShot
         /\ LET missing == m_timerQueue[u].timeout - (later - since[u])
            IN  Countdown[u].time \in missing..(missing + lost + later - now)
<1>1. /\ m_timerQueue[u] \in Records
      /\ Countdown[u] = [m_timerQueue[u] EXCEPT !.time = @ - Elapsed]
      /\ Elapsed \in Int /\ now \in Int /\ later \in Int /\ later >= now
      /\ since[u] \in Int /\ lost \in Int
      /\ m_timerQueue[u].timeout \in Int
  BY SMTT(120), DurationsAssumption, TimeAssumption
     DEF TimersOK, TimersTypeOK, Countdown, Queued, Records, Elapsed
<1>2. LET missing == m_timerQueue[u].timeout - (now - since[u])
      IN  m_timerQueue[u].time - Elapsed \in missing..(missing + lost)
  BY DEF TimersOK, CountdownExact
<1>. QED
  BY SMTT(120), <1>1, <1>2 DEF Records

\* hasTimerExpired, with the clock read twice: what passes in between is lost to
\* the timers that count on and to the one that is put back alike.
LEMMA HasTimerExpiredOK ==
  ASSUME TimersOK, NEW later \in now..MaxTime, lost + later - now <= MaxLost,
         HasTimerExpired(later)
  PROVE  TimersOK'
<1>1. /\ now' = later /\ mark' = later /\ lost' = lost + later - now
      /\ UNCHANGED m_timers
      /\ now \in Nat /\ later \in Nat /\ later >= now /\ later <= MaxTime
      /\ lost \in Nat /\ lost' \in 0..MaxLost
      /\ Elapsed' = 0
  BY SMTT(120), TimeAssumption DEF TimersOK, TimersTypeOK, HasTimerExpired, Elapsed
<1>2. \A u \in Queued :
         /\ Countdown[u] \in Records
         /\ Countdown[u].timeout = m_timerQueue[u].timeout
         /\ Countdown[u].oneShot = m_timerQueue[u].oneShot
         /\ LET missing == m_timerQueue[u].timeout - (later - since[u])
            IN  Countdown[u].time \in missing..(missing + lost + later - now)
  BY CountdownOK
<1>3. since \in [Timers -> 0..now] /\ Queued \subseteq Timers /\ DOMAIN Countdown = Queued
  BY DEF TimersOK, TimersTypeOK, Countdown
<1>4. CASE /\ m_timerQueue' = Countdown
           /\ UNCHANGED <<event, since>>
  <2>1. Queued' = Queued
    BY <1>4, <1>3 DEF Queued
  <2>2. TimersTypeOK'
    BY SMTT(120), <1>1, <1>2, <1>4, <2>1 DEF TimersOK, TimersTypeOK
  <2>3. CountdownExact'
    <3> SUFFICES ASSUME NEW u \in Queued
                 PROVE  LET missing == Countdown[u].timeout - (later - since[u])
                        IN  Countdown[u].time - 0 \in missing..(missing + (lost + later - now))
      BY <1>1, <1>4, <2>1 DEF CountdownExact
    <3>. QED
      BY SMTT(120), <1>1, <1>2, LeftToCount
  <2>. QED
    BY <2>2, <2>3 DEF TimersOK
<1>5. ASSUME NEW t \in Tops(Countdown),
             Countdown[t].time <= 0,
             event' = [timer |-> t, count |-> Count(Countdown[t]), at |-> now,
                       ran |-> now - since[t]],
             m_timerQueue' = Reinsert(Countdown, t),
             since' = [since EXCEPT ![t] = now]
      PROVE  TimersOK'
  <2>1. t \in Queued
    BY <1>3 DEF Tops
  <2>2. Count(Countdown[t]) \in Nat
    BY <1>5, <2>1, CountOfExpired
  <2>3. /\ Queued' \subseteq Queued
        /\ \A u \in Queued' :
             m_timerQueue'[u] = IF u = t THEN [Countdown[t] EXCEPT !.time = Countdown[t].timeout]
                                ELSE Countdown[u]
    BY <1>3, <1>5, <2>1 DEF Queued, Reinsert, Restrict
  <2>4. /\ m_timerQueue[t].timeout \in Nat
        /\ [Countdown[t] EXCEPT !.time = Countdown[t].timeout] \in Records
        /\ [Countdown[t] EXCEPT !.time = Countdown[t].timeout].time = m_timerQueue[t].timeout
        /\ [Countdown[t] EXCEPT !.time = Countdown[t].timeout].timeout = m_timerQueue[t].timeout
    BY SMTT(120), <1>2, <2>1, DurationsAssumption DEF Records
  <2>5. TimersTypeOK'
    <3>1. since' \in [Timers -> 0..now'] /\ now - since[t] \in 0..now'
      BY SMTT(120), <1>1, <1>3, <1>5, <2>1
    <3>2. event' \in [timer : Timers \cup {NoTimer}, count : Nat, at : 0..now', ran : 0..now']
      BY <1>1, <1>3, <1>5, <2>1, <2>2, <3>1
    <3>3. Queued' \subseteq m_timers' /\ \A u \in Queued' : m_timerQueue'[u] \in Records
      BY <1>1, <1>2, <2>3, <2>4 DEF TimersOK, TimersTypeOK
    <3>. QED
      BY SMTT(120), <1>1, <3>1, <3>2, <3>3 DEF TimersOK, TimersTypeOK
  <2>6. CountdownExact'
    <3> SUFFICES ASSUME NEW u \in Queued'
                 PROVE  LET missing == m_timerQueue'[u].timeout - (now' - since'[u])
                        IN  m_timerQueue'[u].time - Elapsed' \in missing..(missing + lost')
      BY DEF CountdownExact
    <3>1. CASE u = t
      <4>1. /\ m_timerQueue'[u].timeout = m_timerQueue[t].timeout
            /\ m_timerQueue'[u].time = m_timerQueue[t].timeout
            /\ since'[u] = now
        BY <1>3, <1>5, <2>1, <2>3, <2>4, <3>1
      <4>. QED
        BY SMTT(120), <1>1, <2>4, <4>1
    <3>2. CASE u # t
      <4>1. /\ u \in Queued
            /\ m_timerQueue'[u] = Countdown[u]
            /\ since'[u] = since[u]
        BY <1>3, <1>5, <2>3, <3>2
      <4>2. Countdown[u].time \in Int
        BY <1>2, <4>1 DEF Records
      <4>. QED
        BY SMTT(120), <1>1, <1>2, <4>1, <4>2, LeftToCount
    <3>. QED
      BY <3>1, <3>2
  <2>. QED
    BY <2>5, <2>6 DEF TimersOK
<1>. QED
  BY <1>4, <1>5 DEF HasTimerExpired

\* TimersOK is inductive.
LEMMA StepTimers == TimersOK /\ [TimersNext]_timerVars => TimersOK'
<1> SUFFICES ASSUME TimersOK, [TimersNext]_timerVars PROVE TimersOK'
  OBVIOUS
<1>1. CASE \E t \in Timers, d \in Durations, oneShot \in BOOLEAN : NewTimer(t, d, oneShot)
  BY <1>1, NewTimerOK
<1>2. CASE \E t \in Timers : DeleteTimer(t)
  BY <1>2, DeleteTimerOK
<1>3. CASE Check
  BY <1>3, HasTimerExpiredOK DEF Check
<1>4. CASE Tick
  BY <1>4, TickOK
<1>5. CASE UNCHANGED timerVars
  BY <1>5 DEF timerVars, TimersOK, TimersTypeOK, CountdownExact, Queued, Records, Elapsed
<1>. QED
  BY <1>1, <1>2, <1>3, <1>4, <1>5 DEF TimersNext

\* hasTimerExpired and newTimer: no timer fires early, and none is late by more
\* than the time lost between two readings of the clock, for any durations.
THEOREM NeitherEarlyNorLate == TimersSpec => []TimersOK
  BY InitTimers, StepTimers, PTL DEF TimersSpec

\* hasTimerExpired and fillEvent: the timer that fires is the one that has been
\* due longest, and its m_count is at least one and never ahead of the clock.
THEOREM FiresRightly == TimersSpec => FiringOK
<1>1. TimersOK /\ [TimersNext]_timerVars =>
        /\ [event' # event => \A t \in Queued :
              Countdown[t].time >= Countdown[event'.timer].time]_timerVars
        /\ [event' # event =>
              /\ event'.count >= 1
              /\ event'.count * m_timerQueue[event'.timer].timeout <= event'.ran]_timerVars
  <2> SUFFICES ASSUME TimersOK, TimersNext, event' # event
               PROVE  /\ \A t \in Queued :
                            Countdown[t].time >= Countdown[event'.timer].time
                      /\ event'.count >= 1
                      /\ event'.count * m_timerQueue[event'.timer].timeout <= event'.ran
    BY DEF timerVars
  <2>1. PICK later : HasTimerExpired(later)
    BY DEF TimersNext, NewTimer, DeleteTimer, Tick, Check
  <2>2. PICK t \in Tops(Countdown) :
          /\ Countdown[t].time <= 0
          /\ event' = [timer |-> t, count |-> Count(Countdown[t]), at |-> now,
                       ran |-> now - since[t]]
    BY <2>1 DEF HasTimerExpired
  <2>3. t \in Queued /\ \A u \in Queued : Countdown[t].time <= Countdown[u].time
    BY DEF Tops, Countdown
  <2>4. \A u \in Queued : Countdown[u].time \in Int
    BY SMTT(120), TimeAssumption DEF TimersOK, TimersTypeOK, Countdown, Records, Elapsed
  <2>5. \A u \in Queued : Countdown[u].time >= Countdown[t].time
    BY <2>3, <2>4
  <2>. QED
    BY <2>2, <2>3, <2>5, CountOfExpired
<1>. QED
  BY <1>1, NeitherEarlyNorLate, PTL DEF TimersSpec, FiringOK, LongestDueFirst, CountNotAhead

-----------------------------------------------------------------------------
(* The buffer of the X server *)

\* While the main thread is in waitForEvent after its flush, m_waiting is set,
\* and therefore nothing is left in the list.
Waiting ==
  main \in {"recheck", "poll", "unmark"} => m_waiting /\ m_postedEvents = <<>>

\* getEvent is called with an event to read.
Readable == main = "get" => Pending

BufferInv == BufferTypeOK /\ Waiting /\ Readable

\* flush() moves the list behind what was sent.
LEMMA FlushType ==
  ASSUME NEW p \in Seq(Ids), sent \in Seq(Ids), Flush(p)
  PROVE  sent' \in Seq(Ids) /\ m_postedEvents' \in Seq(Ids) /\ m_postedEvents' = <<>>
BY SeqConcat, SeqNonempty DEF Flush

LEMMA ReadPipeType ==
  ASSUME pipe \in 0..PipeSize, ReadPipe
  PROVE  pipe' \in 0..PipeSize
BY SMTT(120), BoundsAssumption DEF ReadPipe

LEMMA InitBufferInv == BufferInit => BufferInv
<1> SUFFICES ASSUME BufferInit PROVE BufferInv
  OBVIOUS
<1>1. <<>> \in Seq(Ids) /\ 0 \in 0..PipeSize
  BY SMTT(120), SeqNonempty, BoundsAssumption
<1>2. BufferTypeOK
  BY <1>1 DEF BufferInit, BufferTypeOK
<1> QED
  BY <1>2 DEF BufferInit, BufferInv, Waiting, Readable

LEMMA AddEventInv ==
  ASSUME BufferInv, NEW id \in Ids, AddEvent(id)
  PROVE  BufferInv'
<1> DEFINE a == Append(m_postedEvents, id)
<1>1. a \in Seq(Ids)
  BY SeqAppend DEF BufferInv, BufferTypeOK
<1> HIDE DEF a
<1>2. CASE m_waiting
  <2>1. Flush(a) /\ pipe' = IF pipe < PipeSize THEN pipe + 1 ELSE pipe
    BY <1>2 DEF AddEvent, a
  <2>2. sent' \in Seq(Ids) /\ m_postedEvents' \in Seq(Ids) /\ m_postedEvents' = <<>>
    BY <1>1, <2>1, FlushType DEF BufferInv, BufferTypeOK
  <2>3. pipe' \in 0..PipeSize
    BY SMTT(120), <2>1, BoundsAssumption DEF BufferInv, BufferTypeOK
  <2>4. BufferTypeOK'
    BY <2>2, <2>3 DEF BufferInv, BufferTypeOK, AddEvent
  <2>5. Waiting' /\ Readable'
    BY <1>2, <2>2 DEF BufferInv, Waiting, Readable, Pending, AddEvent
  <2> QED
    BY <2>4, <2>5 DEF BufferInv
<1>3. CASE ~m_waiting
  <2>1. m_postedEvents' = a /\ UNCHANGED <<sent, pipe>>
    BY <1>3 DEF AddEvent, a
  <2>2. BufferTypeOK'
    BY <1>1, <2>1 DEF BufferInv, BufferTypeOK, AddEvent
  <2>3. Waiting' /\ Readable'
    BY <1>3, <2>1 DEF BufferInv, Waiting, Readable, Pending, AddEvent
  <2> QED
    BY <2>2, <2>3 DEF BufferInv
<1> QED
  BY <1>2, <1>3

LEMMA ArriveInv ==
  ASSUME BufferInv, Arrive
  PROVE  BufferInv'
<1>1. Head(sent) \in Ids /\ Tail(sent) \in Seq(Ids)
  BY SeqHeadTail DEF BufferInv, BufferTypeOK, Arrive
<1>2. Append(xqueue, Head(sent)) \in Seq(Ids) /\ Append(xqueue, Head(sent)) # <<>>
  BY SMTT(120), <1>1, SeqAppend DEF BufferInv, BufferTypeOK
<1>3. BufferTypeOK'
  BY <1>1, <1>2 DEF BufferInv, BufferTypeOK, Arrive
<1>4. Waiting' /\ Readable'
  BY <1>2 DEF BufferInv, Waiting, Readable, Pending, Arrive
<1> QED
  BY <1>3, <1>4 DEF BufferInv

LEMMA GetEventInv ==
  ASSUME BufferInv, GetEvent
  PROVE  BufferInv'
<1>1. sent' \in Seq(Ids) /\ m_postedEvents' \in Seq(Ids)
  BY FlushType DEF BufferInv, BufferTypeOK, GetEvent
<1>2. dataID' \in Ids \cup {NoID} /\ xqueue' \in Seq(Ids) /\ system' \in Nat
  <2>1. CASE xqueue # <<>> /\ dataID' = Head(xqueue) /\ xqueue' = Tail(xqueue)
             /\ UNCHANGED system
    BY <2>1, SeqHeadTail DEF BufferInv, BufferTypeOK
  <2>2. CASE system > 0 /\ system' = system - 1 /\ UNCHANGED <<xqueue, dataID>>
    BY SMTT(120), <2>2 DEF BufferInv, BufferTypeOK
  <2> QED
    BY <2>1, <2>2 DEF GetEvent
<1>3. BufferTypeOK'
  BY <1>1, <1>2 DEF BufferInv, BufferTypeOK, GetEvent
<1>4. Waiting' /\ Readable'
  BY DEF Waiting, Readable, GetEvent
<1> QED
  BY <1>3, <1>4 DEF BufferInv

LEMMA MarkWaitingInv ==
  ASSUME BufferInv, MarkWaiting
  PROVE  BufferInv'
<1>1. sent' \in Seq(Ids) /\ m_postedEvents' \in Seq(Ids) /\ m_postedEvents' = <<>>
  BY FlushType DEF BufferInv, BufferTypeOK, MarkWaiting
<1>2. BufferTypeOK'
  BY <1>1 DEF BufferInv, BufferTypeOK, MarkWaiting
<1>3. Waiting' /\ Readable'
  BY <1>1 DEF Waiting, Readable, MarkWaiting
<1> QED
  BY <1>2, <1>3 DEF BufferInv

LEMMA OtherInv ==
  ASSUME BufferInv, SystemEvent \/ IsEmpty \/ ClearPipe \/ Recheck \/ PollReturns
              \/ PollTimesOut \/ Unmark \/ UNCHANGED bufferVars
  PROVE  BufferInv'
<1>1. CASE SystemEvent
  BY SMTT(120), <1>1 DEF BufferInv, BufferTypeOK, Waiting, Readable, Pending, SystemEvent
<1>2. CASE IsEmpty
  BY <1>2 DEF BufferInv, BufferTypeOK, Waiting, Readable, Pending, IsEmpty
<1>3. CASE ClearPipe
  BY <1>3, ReadPipeType DEF BufferInv, BufferTypeOK, Waiting, Readable, ClearPipe
<1>4. CASE Recheck
  BY <1>4 DEF BufferInv, BufferTypeOK, Waiting, Readable, Recheck
<1>5. CASE PollReturns \/ PollTimesOut
  BY <1>5, ReadPipeType DEF BufferInv, BufferTypeOK, Waiting, Readable, PollReturns, PollTimesOut
<1>6. CASE Unmark
  BY <1>6 DEF BufferInv, BufferTypeOK, Waiting, Readable, Unmark
<1>7. CASE UNCHANGED bufferVars
  BY <1>7 DEF BufferInv, BufferTypeOK, Waiting, Readable, Pending, bufferVars
<1> QED
  BY <1>1, <1>2, <1>3, <1>4, <1>5, <1>6, <1>7

LEMMA BufferInductive == BufferSpec => []BufferInv
<1>1. BufferInv /\ [BufferNext]_bufferVars => BufferInv'
  BY AddEventInv, ArriveInv, GetEventInv, MarkWaitingInv, OtherInv
     DEF BufferNext, MainStep
<1> QED
  BY <1>1, InitBufferInv, PTL DEF BufferSpec

\* addEvent leaves nothing in the list while the main thread sleeps; every
\* variable keeps its type, and the pipe never holds more than its size, nor
\* less than nothing, though the main thread reads 15 at a time.
THEOREM WaitSendsAll == BufferSpec => []BufferOK
<1>1. BufferInv => BufferOK
  BY DEF BufferInv, Waiting, NothingHeldBack, BufferOK
<1> QED
  BY <1>1, BufferInductive, PTL

-----------------------------------------------------------------------------
(* The buffer of the X server: refinement *)

\* The queue that the buffer implements.
Queue == xqueue \o sent \o m_postedEvents

\* Moving elements along does not change the queue.
LEMMA Moves ==
  ASSUME NEW x \in Seq(Ids), NEW s \in Seq(Ids), NEW p \in Seq(Ids)
  PROVE  /\ x \o (s \o p) \o <<>> = x \o s \o p
         /\ s # <<>> => Append(x, Head(s)) \o Tail(s) \o p = x \o s \o p
<1>1. s \o p \in Seq(Ids) /\ x \o s \in Seq(Ids) /\ x \o s \o p \in Seq(Ids)
  BY SeqConcat
<1>2. x \o (s \o p) = x \o s \o p
  BY SMTT(120), SeqConcatTwice
<1>3. x \o (s \o p) \o <<>> = x \o (s \o p)
  BY <1>1, <1>2, SeqConcat
<1>4. ASSUME s # <<>> PROVE Append(x, Head(s)) \o Tail(s) = x \o s
  <2>1. Head(s) \in Ids /\ Tail(s) \in Seq(Ids)
    BY <1>4, SeqHeadTail
  <2>2. s = <<Head(s)>> \o Tail(s)
    BY SMTT(120), <1>4, SeqHeadTail
  <2>3. Append(x, Head(s)) = x \o <<Head(s)>>
    BY SMTT(120), <2>1, SeqAppend
  <2>4. <<Head(s)>> \in Seq(Ids)
    BY SMTT(120), <2>1
  <2>5. (x \o <<Head(s)>>) \o Tail(s) = x \o (<<Head(s)>> \o Tail(s))
    BY SMTT(120), <2>1, <2>4, SeqConcatTwice
  <2> QED
    BY <2>2, <2>3, <2>5
<1> QED
  BY <1>2, <1>3, <1>4

\* Taking the first element that can be read takes the head of the queue.
LEMMA Takes ==
  ASSUME NEW x \in Seq(Ids), NEW s \in Seq(Ids), NEW p \in Seq(Ids), x # <<>>
  PROVE  /\ x \o s \o p # <<>>
         /\ Head(x \o s \o p) = Head(x)
         /\ Tail(x \o s \o p) = Tail(x) \o s \o p
<1> DEFINE r == s \o p
<1>1. r \in Seq(Ids) /\ x \o s \o p = x \o r
  BY SMTT(120), SeqConcat, SeqConcatTwice
<1>2. Tail(x) \in Seq(Ids)
  BY SeqHeadTail
<1>3. Tail(x) \o s \o p = Tail(x) \o r
  BY SMTT(120), <1>2, SeqConcatTwice
<1> HIDE DEF r
<1>4. x \o r \in Seq(Ids) /\ x \o r # <<>> /\ Len(x) > 0
  BY SMTT(120), <1>1, SeqConcat, SeqNonempty
<1>5. Head(x \o r) = Head(x)
  <2>1. Head(x \o r) = (x \o r)[1] /\ Head(x) = x[1]
    BY SMTT(120), <1>4
  <2>2. (x \o r)[1] = x[1]
    BY SMTT(120), <1>1, <1>4, SeqConcat
  <2> QED
    BY <2>1, <2>2
<1>6. Tail(x \o r) = Tail(x) \o r
  <2>1. /\ Len(x \o r) = Len(x) + Len(r)
        /\ \A i \in 1 .. Len(x) + Len(r) :
             (x \o r)[i] = IF i <= Len(x) THEN x[i] ELSE r[i - Len(x)]
    BY SMTT(120), <1>1, SeqConcat
  <2>2. /\ Tail(x \o r) \in Seq(Ids)
        /\ Len(Tail(x \o r)) = Len(x) + Len(r) - 1
        /\ \A i \in 1 .. Len(x) + Len(r) - 1 : Tail(x \o r)[i] = (x \o r)[i + 1]
    BY SMTT(120), <1>4, <2>1, SeqHeadTail
  <2>3. Len(Tail(x)) = Len(x) - 1 /\ \A i \in 1 .. Len(x) - 1 : Tail(x)[i] = x[i + 1]
    BY SeqHeadTail
  <2>4. /\ Tail(x) \o r \in Seq(Ids)
        /\ Len(Tail(x) \o r) = Len(x) - 1 + Len(r)
        /\ \A i \in 1 .. Len(x) - 1 + Len(r) :
             (Tail(x) \o r)[i] = IF i <= Len(x) - 1 THEN Tail(x)[i] ELSE r[i - (Len(x) - 1)]
    BY SMTT(120), <1>1, <1>2, <2>3, SeqConcat
  <2>5. Len(x) \in Nat /\ Len(r) \in Nat
    BY <1>1, SeqLength
  <2>6. ASSUME NEW i \in 1 .. Len(x) + Len(r) - 1
        PROVE  Tail(x \o r)[i] = (Tail(x) \o r)[i]
    <3>1. i + 1 \in 1 .. Len(x) + Len(r) /\ i \in 1 .. Len(x) - 1 + Len(r)
      BY SMTT(120), <2>5
    <3>2. CASE i <= Len(x) - 1
      BY SMTT(120), <2>1, <2>2, <2>3, <2>4, <2>5, <3>1, <3>2
    <3>3. CASE ~(i <= Len(x) - 1)
      <4>1. ~(i + 1 <= Len(x)) /\ i + 1 - Len(x) = i - (Len(x) - 1)
        BY SMTT(120), <2>5, <3>3
      <4> QED
        BY SMTT(120), <2>1, <2>2, <2>4, <3>1, <3>3, <4>1
    <3> QED
      BY <3>2, <3>3
  <2>7. Len(Tail(x \o r)) = Len(Tail(x) \o r)
    BY SMTT(120), <2>2, <2>4, <2>5
  <2> QED
    BY <2>2, <2>4, <2>6, <2>7, SeqSame
<1> QED
  BY <1>1, <1>3, <1>4, <1>5, <1>6

LEMMA AppendMoves ==
  ASSUME NEW x \in Seq(Ids), NEW s \in Seq(Ids), NEW p \in Seq(Ids), NEW id \in Ids
  PROVE  x \o s \o Append(p, id) = Append(x \o s \o p, id)
<1>1. x \o s \in Seq(Ids) /\ x \o s \o p \in Seq(Ids) /\ <<id>> \in Seq(Ids)
  BY SMTT(120), SeqConcat
<1>2. Append(p, id) = p \o <<id>> /\ Append(x \o s \o p, id) = (x \o s \o p) \o <<id>>
  BY SMTT(120), <1>1, SeqAppend
<1>3. (x \o s) \o (p \o <<id>>) = (x \o s \o p) \o <<id>>
  BY SMTT(120), <1>1, SeqConcatTwice
<1> QED
  BY <1>2, <1>3

\* A flush leaves the queue as it is.
LEMMA FlushQueue ==
  ASSUME xqueue \in Seq(Ids), sent \in Seq(Ids), NEW p \in Seq(Ids), Flush(p)
  PROVE  \A x \in Seq(Ids) : x \o sent' \o m_postedEvents' = x \o sent \o p
BY SMTT(120), Moves DEF Flush

LEMMA StepRefines ==
  ASSUME BufferInv, [BufferNext]_bufferVars
  PROVE  [Buffer!Next]_<<Queue, dataID>>
<1> USE DEF Queue
<1>t. m_postedEvents \in Seq(Ids) /\ sent \in Seq(Ids) /\ xqueue \in Seq(Ids)
  BY DEF BufferInv, BufferTypeOK
<1>1. ASSUME NEW id \in Ids, AddEvent(id) PROVE Buffer!AddEvent(id)
  <2>1. Append(m_postedEvents, id) \in Seq(Ids)
    BY <1>t, SeqAppend
  <2>2. xqueue' = xqueue /\ dataID' = dataID
    BY <1>1 DEF AddEvent
  <2>3. xqueue \o sent' \o m_postedEvents' = xqueue \o sent \o Append(m_postedEvents, id)
    BY <1>1, <1>t, <2>1, FlushQueue DEF AddEvent
  <2> QED
    BY <1>t, <2>2, <2>3, AppendMoves DEF Buffer!AddEvent
<1>2. CASE Arrive
  BY <1>2, <1>t, Moves DEF Arrive
<1>3. CASE MarkWaiting
  BY <1>3, <1>t, FlushQueue DEF MarkWaiting
<1>4. CASE GetEvent
  <2>1. Flush(m_postedEvents)
    BY <1>4 DEF GetEvent
  <2>2. CASE xqueue # <<>> /\ dataID' = Head(xqueue) /\ xqueue' = Tail(xqueue)
    <3>1. Tail(xqueue) \in Seq(Ids)
      BY <1>t, <2>2, SeqHeadTail
    <3>2. Queue' = Tail(xqueue) \o sent \o m_postedEvents
      BY <1>t, <2>1, <2>2, <3>1, FlushQueue
    <3>3. /\ Queue # <<>>
          /\ Head(Queue) = Head(xqueue)
          /\ Tail(Queue) = Tail(xqueue) \o sent \o m_postedEvents
      BY <1>t, <2>2, Takes
    <3>4. Buffer!GetEvent
      BY <2>2, <3>2, <3>3 DEF Buffer!GetEvent
    <3> QED
      BY <3>4 DEF Buffer!Next
  <2>3. CASE UNCHANGED <<xqueue, dataID>>
    BY <1>t, <2>1, <2>3, FlushQueue
  <2> QED
    BY <1>4, <2>2, <2>3 DEF GetEvent
<1>5. CASE SystemEvent \/ IsEmpty \/ ClearPipe \/ Recheck \/ PollReturns
           \/ PollTimesOut \/ Unmark \/ UNCHANGED bufferVars
  BY <1>5 DEF SystemEvent, IsEmpty, ClearPipe, Recheck, PollReturns, PollTimesOut,
              Unmark, bufferVars
<1> QED
  BY <1>1, <1>2, <1>3, <1>4, <1>5 DEF BufferNext, MainStep, Buffer!Next

\* XWindowsEventQueueBuffer is a queue of ids: addEvent on any thread appends,
\* getEvent removes the oldest, and neither flush(), nor the round trip to the
\* X server, nor the wake-up pipe loses, repeats or overtakes one.
THEOREM ImplementsQueue == BufferSpec => FifoBuffer
<1>1. BufferInit => Buffer!Init
  BY IdsAssumption, SeqNonempty, SeqConcat DEF BufferInit, Buffer!Init
<1>2. BufferInv /\ [BufferNext]_bufferVars =>
        [Buffer!Next]_<<xqueue \o sent \o m_postedEvents, dataID>>
  BY StepRefines DEF Queue
<1> QED
  BY <1>1, <1>2, BufferInductive, PTL DEF BufferSpec, FifoBuffer, Buffer!Spec

-----------------------------------------------------------------------------
(* The screens: operators *)

\* PendingSwitchOK and the type of sw, of a value.
SwitchOK(w) ==
  /\ w \in SwitchStates
  /\ w.screen = NoScreen <=> w.dir = NoDirection
  /\ w.waiting => w.screen # NoScreen
  /\ w.engaged => w.screen # NoScreen
  /\ w.armed => w.engaged

\* The names that a configuration maps are names, and so are their images.
LEMMA CanonType ==
  ASSUME NEW cfg \in Configs
  PROVE  /\ DOMAIN cfg.canon \subseteq Names
         /\ \A n \in DOMAIN cfg.canon : cfg.canon[n] \in Names
         /\ cfg.switchDelay \in OptionValues
         /\ cfg.twoTap \in OptionValues
         /\ cfg.relative \in OptionValues
         /\ cfg.needsMods \in BOOLEAN
<1>1. cfg \in ConfigRecords
  BY ConfigsAssumption
<1>2. PICK D \in SUBSET Names : cfg.canon \in [D -> Names]
  BY <1>1 DEF ConfigRecords
<1>. QED
  BY <1>1, <1>2 DEF ConfigRecords

\* stopSwitch, stopSwitchWait, stopSwitchTwoTap and noSwitch keep the pending
\* switch coherent.
LEMMA StopSwitchOK ==
  ASSUME NEW w, SwitchOK(w), NEW b \in BOOLEAN
  PROVE  /\ SwitchOK(StopSwitch(w))
         /\ SwitchOK(StopSwitchWait(w))
         /\ SwitchOK(StopSwitchTwoTap(w))
         /\ SwitchOK(NoSwitch(w, b))
         /\ SwitchOK([w EXCEPT !.inTime = b])
<1>1. SwitchOK(NoPendingSwitch)
  BY DEF SwitchOK, SwitchStates, NoPendingSwitch
<1>2. SwitchOK(StopSwitch(w))
  BY <1>1 DEF StopSwitch
<1>3. \A u : SwitchOK(u) => SwitchOK(StopSwitchWait(u))
  BY DEF SwitchOK, SwitchStates, StopSwitchWait
<1>4. SwitchOK(StopSwitchTwoTap(w))
  BY DEF SwitchOK, SwitchStates, StopSwitchTwoTap
<1>5. SwitchOK(ArmSwitchTwoTap(w, b))
  <2>1. CASE ~w.engaged
    BY <2>1 DEF ArmSwitchTwoTap
  <2>2. CASE w.engaged /\ ~w.inTime
    BY <2>2, <1>4 DEF ArmSwitchTwoTap
  <2>3. CASE w.engaged /\ w.inTime
    <3>1. ArmSwitchTwoTap(w, b) = [w EXCEPT !.armed = w.armed \/ b]
      BY <2>3 DEF ArmSwitchTwoTap
    <3>. QED
      BY <2>3, <3>1 DEF SwitchOK, SwitchStates
  <2>. QED
    BY <2>1, <2>2, <2>3
<1>6. SwitchOK([w EXCEPT !.inTime = b])
  BY DEF SwitchOK, SwitchStates
<1>. QED
  BY <1>2, <1>3, <1>4, <1>5, <1>6 DEF NoSwitch

\* isSwitchOkay, called for a screen, keeps the pending switch coherent.
LEMMA TrySwitchOK ==
  ASSUME TypeOK, NEW w, SwitchOK(w), NEW s \in Screens \cup {NoScreen},
         NEW dir \in Directions, NEW corner \in BOOLEAN, NEW mods \in BOOLEAN
  PROVE  SwitchOK(TrySwitch(w, s, dir, corner, mods).sw)
<1>1. CASE s = NoScreen
  BY <1>1 DEF TrySwitch
<1>2. CASE s # NoScreen
  <2> DEFINE aimed == IF dir # w.dir \/ w.screen = NoScreen
                      THEN [w EXCEPT !.dir = dir, !.screen = s] ELSE w
             secondTap == /\ m_switchTwoTapDelay
                          /\ ~(dir # w.dir)
                          /\ w.engaged /\ w.armed /\ w.inTime
             firstTap == m_switchTwoTapDelay /\ ~secondTap
             tapped == IF firstTap THEN StartSwitchTwoTap(aimed) ELSE aimed
             delayed == m_switchWaitDelay /\ ~secondTap
             timed == IF delayed THEN [tapped EXCEPT !.waiting = TRUE] ELSE tapped
  <2>1. SwitchOK(aimed) /\ aimed.screen # NoScreen
    BY <1>2, DirectionsAssumption DEF SwitchOK, SwitchStates
  <2>. HIDE DEF aimed
  <2>2. SwitchOK(tapped) /\ tapped.screen # NoScreen
    BY <2>1 DEF SwitchOK, SwitchStates, StartSwitchTwoTap
  <2>. HIDE DEF tapped
  <2>3. SwitchOK(timed)
    BY <2>2 DEF SwitchOK, SwitchStates
  <2>4. SwitchOK(StopSwitch(timed))
    BY <2>3, StopSwitchOK
  <2>5. \/ IsSwitchOkay(w, s, dir, corner, mods).sw = StopSwitch(timed)
        \/ IsSwitchOkay(w, s, dir, corner, mods).sw = timed
    BY DEF IsSwitchOkay, aimed, tapped
  <2>. QED
    BY <1>2, <2>3, <2>4, <2>5 DEF TrySwitch
<1>. QED
  BY <1>1, <1>2

-----------------------------------------------------------------------------
(* The screens: types, and the pending switch *)

\* The connected screens are screens.
LEMMA ConnectedType ==
  ASSUME TypeOK
  PROVE  /\ Connected \subseteq Screens
         /\ NoScreen \notin Connected
         /\ \A n \in Keys : n \in Names /\ m_clients[n] \in Connected
         /\ \A cfg : Dropped(cfg) \subseteq Connected \cap Proxies
BY DEF TypeOK, Connected, Keys, Dropped, Screens

\* What has to be shown of the screens of a step and of its pending switch.
FocusTyped ==
  /\ m_active \in Screens
  /\ entered \subseteq Screens
  /\ SwitchOK(sw)

\* switchScreen keeps the types.
LEMMA SwitchScreenTyped ==
  ASSUME TypeOK, NEW dst \in Screens, NEW w, SwitchOK(w), SwitchScreen(dst, w)
  PROVE  FocusTyped'
<1>1. SwitchOK(StopSwitch(w))
  BY StopSwitchOK
<1>2. SwitchOK(sw')
  BY <1>1 DEF SwitchScreen
<1>. QED
  BY <1>2 DEF SwitchScreen, TypeOK, FocusTyped, SwitchOK

\* closeClient and forceLeaveClient keep the types.
LEMMA CloseTyped ==
  ASSUME TypeOK, NEW R \in SUBSET Proxies, ForceLeaveClients(R)
  PROVE  /\ m_active' \in Screens
         /\ entered' \subseteq Screens
         /\ m_activeSaver' \in Screens \cup {NoScreen}
BY DEF TypeOK, ForceLeaveClients, Screens

\* removeClient keeps the types.
LEMMA RemoveTyped ==
  ASSUME TypeOK, NEW R, NEW cfg, RemoveClients(R, cfg)
  PROVE  /\ m_clients' \in [Names -> Screens \cup {NoScreen}]
         /\ m_clientSet' \subseteq Screens
BY DEF TypeOK, RemoveClients

\* The pending switch that forceLeaveClient and processOptions leave.
LEMMA AfterLeaveOK ==
  ASSUME SwitchOK(sw), NEW R, NEW cfg
  PROVE  /\ SwitchOK(SwitchAfterLeave(R))
         /\ SwitchOK(SwitchAfterOptions(SwitchAfterLeave(R), cfg))
<1>1. SwitchOK(SwitchAfterLeave(R))
  BY StopSwitchOK DEF SwitchAfterLeave
<1>2. \A w : SwitchOK(w) => SwitchOK(StopSwitchWait(w)) /\ SwitchOK(StopSwitchTwoTap(w))
  BY StopSwitchOK
<1>. QED
  BY <1>1, <1>2 DEF SwitchAfterOptions

TypeInv == TypeOK /\ PendingSwitchOK

\* The initial state: the server as its constructor leaves it.
LEMMA InitTyped == Init => TypeInv
<1>. SUFFICES ASSUME Init PROVE TypeInv
  OBVIOUS
<1>1. config \in Configs /\ config.needsMods \in BOOLEAN
  BY CanonType DEF Init
<1>2. sw \in SwitchStates /\ PendingSwitchOK
  BY DEF Init, NoPendingSwitch, SwitchStates, PendingSwitchOK
<1>. QED
  BY <1>1, <1>2 DEF Init, TypeOK, TypeInv, Screens

\* Mouse motion, timers and hot keys only move the cursor and the pending switch.
LEMMA MotionSame ==
  ASSUME MouseMotion \/ TwoTapTimePasses \/ HandleSwitchWaitTimeout \/ HotKey
  PROVE  UNCHANGED <<config, optionVars, registryVars, saverVars, lockVars>>
<1>1. CASE MouseMotion
  <2>1. ASSUME NEW b, MovePrimaryInside(b) \/ MoveSecondaryInside(b)
        PROVE  UNCHANGED <<config, optionVars, registryVars, saverVars, lockVars>>
    BY <2>1 DEF MovePrimaryInside, MoveSecondaryInside
  <2>2. ASSUME NEW dirh, NEW sh, NEW dirv, NEW sv, NEW corner, NEW mods,
               OnMouseMovePrimary(dirh, sh, dirv, sv, corner, mods)
        PROVE  UNCHANGED <<config, optionVars, registryVars, saverVars, lockVars>>
    BY <2>2 DEF OnMouseMovePrimary
  <2>3. ASSUME NEW dir, NEW s, NEW corner, NEW mods,
               OnMouseMoveSecondary(dir, s, corner, mods)
        PROVE  UNCHANGED <<config, optionVars, registryVars, saverVars, lockVars>>
    BY <2>3 DEF OnMouseMoveSecondary
  <2>. QED
    BY <1>1, <2>1, <2>2, <2>3 DEF MouseMotion
<1>2. CASE TwoTapTimePasses \/ HandleSwitchWaitTimeout
  BY <1>2 DEF TwoTapTimePasses, HandleSwitchWaitTimeout
<1>3. CASE HotKey
  BY <1>3 DEF HotKey, HandleSwitchToScreen, HandleToggleScreen,
     HandleSwitchInDirection, JumpToScreen
<1>. QED
  BY <1>1, <1>2, <1>3

\* Mouse motion, timers and hot keys keep the types.
LEMMA MotionTyped ==
  ASSUME TypeInv,
         MouseMotion \/ TwoTapTimePasses \/ HandleSwitchWaitTimeout \/ HotKey
  PROVE  TypeInv'
<1>. USE DEF TypeInv
<1>1. SwitchOK(sw)
  BY DEF TypeOK, PendingSwitchOK, SwitchOK
<1>2. SUFFICES FocusTyped'
  <2>1. UNCHANGED <<config, optionVars, registryVars, saverVars, lockVars>>
    BY MotionSame
  <2>. QED
    BY <1>2, <2>1 DEF FocusTyped, SwitchOK, TypeOK, PendingSwitchOK, optionVars,
       registryVars, saverVars, lockVars
<1>3. ASSUME m_active' = m_active, entered' = entered, SwitchOK(sw')
      PROVE  FocusTyped'
  BY <1>3 DEF FocusTyped, TypeOK, SwitchOK
<1>4. Connected \subseteq Screens /\ \A n \in Keys : m_clients[n] \in Screens
  BY ConnectedType
<1>5. ASSUME NEW inward \in BOOLEAN,
             MovePrimaryInside(inward) \/ MoveSecondaryInside(inward)
      PROVE  FocusTyped'
  BY <1>1, <1>3, <1>5, StopSwitchOK DEF MovePrimaryInside, MoveSecondaryInside
<1>6. ASSUME NEW mods \in BOOLEAN, NEW corner \in BOOLEAN,
             NEW dirh \in Horizontal, NEW dirv \in Vertical,
             NEW sh \in Connected \cup {NoScreen},
             NEW sv \in Connected \cup {NoScreen},
             OnMouseMovePrimary(dirh, sh, dirv, sv, corner, mods)
      PROVE  FocusTyped'
  <2> DEFINE h == TrySwitch(sw, sh, dirh, corner, mods)
             v == TrySwitch(h.sw, sv, dirv, corner, mods)
  <2>1. SwitchOK(h.sw)
    BY <1>1, <1>4, TrySwitchOK DEF Directions
  <2>2. SwitchOK(v.sw)
    BY <2>1, <1>4, TrySwitchOK DEF Directions
  <2>3. (h.ok => sh \in Screens) /\ (v.ok => sv \in Screens)
    BY <1>4 DEF TrySwitch
  <2>4. \/ h.ok /\ SwitchScreen(sh, h.sw)
        \/ ~h.ok /\ v.ok /\ SwitchScreen(sv, v.sw)
        \/ sw' = v.sw /\ UNCHANGED <<m_active, entered>>
    BY <1>6 DEF OnMouseMovePrimary
  <2>. HIDE DEF h, v
  <2>. QED
    BY <1>3, <2>1, <2>2, <2>3, <2>4, SwitchScreenTyped
<1>7. ASSUME NEW mods \in BOOLEAN, NEW corner \in BOOLEAN,
             NEW dir \in Directions, NEW s \in Connected \cup {NoScreen},
             OnMouseMoveSecondary(dir, s, corner, mods)
      PROVE  FocusTyped'
  <2> DEFINE r == TrySwitch(sw, s, dir, corner, mods)
  <2>1. SwitchOK(r.sw)
    BY <1>1, <1>4, TrySwitchOK
  <2>2. r.ok => s \in Screens
    BY <1>4 DEF TrySwitch
  <2>3. \/ r.ok /\ SwitchScreen(s, r.sw)
        \/ sw' = r.sw /\ UNCHANGED <<m_active, entered>>
    BY <1>7 DEF OnMouseMoveSecondary
  <2>. HIDE DEF r
  <2>. QED
    BY <1>3, <2>1, <2>2, <2>3, SwitchScreenTyped
<1>8. CASE MouseMotion
  BY <1>5, <1>6, <1>7, <1>8 DEF MouseMotion, CornerInputs, ModifierInputs
<1>9. CASE TwoTapTimePasses
  BY <1>1, <1>3, <1>9, StopSwitchOK DEF TwoTapTimePasses
<1>10. CASE HandleSwitchWaitTimeout
  <2>1. sw.screen \in Screens
    BY <1>1, <1>10 DEF HandleSwitchWaitTimeout, SwitchOK, SwitchStates
  <2>. QED
    BY <1>1, <1>3, <1>10, <2>1, StopSwitchOK, SwitchScreenTyped
       DEF HandleSwitchWaitTimeout
<1>11. CASE HotKey
  <2>1. PICK s \in Screens : SwitchScreen(s, sw)
    BY <1>4, <1>11 DEF HotKey, HandleSwitchToScreen, HandleToggleScreen,
       HandleSwitchInDirection, JumpToScreen
  <2>. QED
    BY <1>1, <2>1, SwitchScreenTyped
<1>. QED
  BY <1>8, <1>9, <1>10, <1>11

\* The handlers that add, close and delete clients keep the types.
LEMMA ClientChangeTyped ==
  ASSUME TypeInv, ClientChange
  PROVE  TypeInv'
<1>. USE DEF TypeInv
<1>1. SwitchOK(sw)
  BY DEF TypeOK, PendingSwitchOK, SwitchOK
<1>2. ASSUME SwitchOK(sw') PROVE sw' \in SwitchStates /\ PendingSwitchOK'
  BY <1>2 DEF SwitchOK, PendingSwitchOK
<1>3. ASSUME NEW p \in Proxies, NEW n \in Names, AdoptClient(p, n)
      PROVE  TypeInv'
  <2> DEFINE key == IF IsScreen(config, n) THEN config.canon[n] ELSE n
  <2>1. key \in Names
    BY CanonType DEF TypeOK, IsScreen
  <2>2. name' \in [Proxies -> Names \cup {NoName}]
    BY <1>3 DEF AdoptClient, TypeOK
  <2>3. UNCHANGED <<config, optionVars, hungUp, saverOn, lockVars>>
    BY <1>3 DEF AdoptClient
  <2>4. CASE /\ m_clients' = [m_clients EXCEPT ![key] = p]
             /\ m_clientSet' = m_clientSet \cup {p}
             /\ saving' = SavingAfterAdopt(p)
             /\ entered' = entered \ {p}
             /\ UNCHANGED <<m_oldClients, m_activeSaver, m_active, sw>>
    <3>1. PendingSwitchOK' /\ sw' \in SwitchStates /\ m_active' \in Screens
      BY <2>4 DEF TypeOK, PendingSwitchOK
    <3>2. m_clients' \in [Names -> Screens \cup {NoScreen}]
      BY <2>1, <2>4 DEF TypeOK, Screens
    <3>3. m_clientSet' \subseteq Screens /\ saving' \subseteq Proxies /\ entered' \subseteq Screens
      BY <2>4 DEF TypeOK, Screens, SavingAfterAdopt
    <3>. QED
      BY <2>2, <2>3, <2>4, <3>1, <3>2, <3>3 DEF TypeOK, optionVars, lockVars
  <2>5. CASE CloseClients({p}, config) /\ sw' = SwitchAfterLeave({p})
    <3>1. sw' \in SwitchStates /\ PendingSwitchOK'
      BY <1>1, <1>2, <2>5, AfterLeaveOK
    <3>. QED
      BY <2>2, <2>3, <2>5, <3>1, CloseTyped, RemoveTyped
         DEF CloseClients, TypeOK, optionVars, lockVars
  <2>. QED
    BY <1>3, <2>4, <2>5 DEF AdoptClient
<1>4. ASSUME NEW p \in Proxies, ProxyDisconnect(p)
      PROVE  TypeInv'
  <2>1. hungUp' \subseteq Proxies
    BY <1>4 DEF ProxyDisconnect, TypeOK
  <2>2. PendingSwitchOK'
    BY <1>4 DEF ProxyDisconnect, PendingSwitchOK, focusVars
  <2>. QED
    BY <1>4, <2>1, <2>2
       DEF ProxyDisconnect, TypeOK, optionVars, saverVars, lockVars, focusVars
<1>5. ASSUME NEW p \in Proxies, HandleClientDisconnected(p)
      PROVE  TypeInv'
  <2>1. /\ UNCHANGED <<config, optionVars, saverOn, lockVars>>
        /\ name' \in [Proxies -> Names \cup {NoName}]
        /\ hungUp' \subseteq Proxies
        /\ m_oldClients' \subseteq Proxies
    BY <1>5 DEF HandleClientDisconnected, DeleteProxy, TypeOK
  <2>2. CASE /\ RemoveClients({p}, config)
             /\ ForceLeaveClients({p})
             /\ sw' = SwitchAfterLeave({p})
             /\ saving' = saving \ {p}
    <3>1. sw' \in SwitchStates /\ PendingSwitchOK'
      BY <1>1, <1>2, <2>2, AfterLeaveOK
    <3>. QED
      BY <2>1, <2>2, <3>1, CloseTyped, RemoveTyped DEF TypeOK, optionVars, lockVars
  <2>3. CASE UNCHANGED <<m_clients, m_clientSet, m_activeSaver, saving, focusVars>>
    BY <2>1, <2>3 DEF TypeOK, PendingSwitchOK, optionVars, lockVars, focusVars
  <2>. QED
    BY <1>5, <2>2, <2>3 DEF HandleClientDisconnected
<1>6. ASSUME NEW p \in Proxies, HandleClientCloseTimeout(p)
      PROVE  TypeInv'
  <2>1. /\ name' \in [Proxies -> Names \cup {NoName}]
        /\ hungUp' \subseteq Proxies
        /\ m_oldClients' \subseteq Proxies
    BY <1>6 DEF HandleClientCloseTimeout, DeleteProxy, TypeOK
  <2>2. PendingSwitchOK'
    BY <1>6 DEF HandleClientCloseTimeout, PendingSwitchOK, focusVars
  <2>. QED
    BY <1>6, <2>1, <2>2
       DEF HandleClientCloseTimeout, TypeOK, optionVars, saverVars, lockVars, focusVars
<1>. QED
  BY <1>3, <1>4, <1>5, <1>6 DEF ClientChange

\* Reloads and the order to disconnect keep the types.
LEMMA ConfigTyped ==
  ASSUME TypeInv, Disconnect \/ \E cfg \in Configs : ReloadConfig(cfg)
  PROVE  TypeInv'
<1>. USE DEF TypeInv
<1>1. SwitchOK(sw)
  BY DEF TypeOK, PendingSwitchOK, SwitchOK
<1>2. ASSUME SwitchOK(sw') PROVE sw' \in SwitchStates /\ PendingSwitchOK'
  BY <1>2 DEF SwitchOK, PendingSwitchOK
<1>3. ASSUME NEW R \in SUBSET Proxies, NEW cfg, CloseClients(R, cfg)
      PROVE  /\ m_clients' \in [Names -> Screens \cup {NoScreen}]
             /\ m_clientSet' \subseteq Screens
             /\ m_oldClients' \subseteq Proxies
             /\ m_active' \in Screens
             /\ entered' \subseteq Screens
             /\ m_activeSaver' \in Screens \cup {NoScreen}
             /\ saving' \subseteq Proxies
  BY <1>3, CloseTyped, RemoveTyped DEF CloseClients, TypeOK
<1>4. CASE Disconnect
  <2>1. sw' \in SwitchStates /\ PendingSwitchOK'
    BY <1>1, <1>2, <1>4, AfterLeaveOK DEF Disconnect
  <2>2. Connected \ {Primary} \in SUBSET Proxies
    BY ConnectedType DEF Screens
  <2>. QED
    BY <1>3, <1>4, <2>1, <2>2 DEF Disconnect, TypeOK, optionVars, lockVars
<1>5. ASSUME NEW cfg \in Configs, ReloadConfig(cfg)
      PROVE  TypeInv'
  <2>1. CASE /\ CloseClients(Dropped(cfg), cfg)
             /\ ProcessOptions(cfg)
             /\ sw' = SwitchAfterOptions(SwitchAfterLeave(Dropped(cfg)), cfg)
    <3>1. sw' \in SwitchStates /\ PendingSwitchOK'
      BY <1>1, <1>2, <2>1, AfterLeaveOK
    <3>2. Dropped(cfg) \in SUBSET Proxies
      BY ConnectedType
    <3>3. /\ m_switchWaitDelay' \in BOOLEAN
          /\ m_switchTwoTapDelay' \in BOOLEAN
          /\ m_switchNeedsMods' \in BOOLEAN
          /\ m_relativeMoves' \in BOOLEAN
      BY <2>1, CanonType DEF ProcessOptions, OptionValue, TypeOK
    <3>. QED
      BY <1>3, <1>5, <2>1, <3>1, <3>2, <3>3 DEF ReloadConfig, TypeOK, lockVars
  <2>2. CASE UNCHANGED <<optionVars, m_clients, m_clientSet, m_oldClients,
                         m_activeSaver, saving, focusVars>>
    <3>1. PendingSwitchOK'
      BY <2>2 DEF PendingSwitchOK, focusVars
    <3>. QED
      BY <1>5, <2>2, <3>1 DEF ReloadConfig, TypeOK, optionVars, lockVars, focusVars
  <2>. QED
    BY <1>5, <2>1, <2>2 DEF ReloadConfig
<1>. QED
  BY <1>4, <1>5

\* Every step keeps the types and the coherence of the pending switch.
LEMMA NextTyped == TypeInv /\ [Next]_vars => TypeInv'
<1>. SUFFICES ASSUME TypeInv, [Next]_vars PROVE TypeInv'
  OBVIOUS
<1>. USE DEF TypeInv
<1>1. SwitchOK(sw)
  BY DEF TypeOK, PendingSwitchOK, SwitchOK
<1>2. CASE HandleLockCursorToScreen \/ PressOrRelease
  <2>1. UNCHANGED <<config, optionVars, registryVars, saverVars, focusVars>>
    BY <1>2 DEF HandleLockCursorToScreen, PressOrRelease
  <2>2. m_lockedToScreen' \in BOOLEAN /\ buttonDown' \in BOOLEAN
    BY <1>2 DEF HandleLockCursorToScreen, PressOrRelease, TypeOK
  <2>3. PendingSwitchOK'
    BY <2>1 DEF PendingSwitchOK, focusVars
  <2>. QED
    BY <2>1, <2>2, <2>3 DEF TypeOK, optionVars, registryVars, saverVars, focusVars
<1>3. CASE ScreensaverActivated \/ ScreensaverDeactivated
  <2>1. /\ m_activeSaver' \in Screens \cup {NoScreen}
        /\ saverOn' \in BOOLEAN
        /\ saving' \subseteq Proxies
    BY <1>3, ConnectedType DEF ScreensaverActivated, ScreensaverDeactivated,
       TypeOK, Screens
  <2>2. UNCHANGED <<config, optionVars, registryVars, lockVars>>
    BY <1>3 DEF ScreensaverActivated, ScreensaverDeactivated
  <2>3. FocusTyped'
    <3>1. CASE UNCHANGED focusVars
      BY <1>1, <3>1 DEF focusVars, FocusTyped, TypeOK, SwitchOK
    <3>2. CASE \E s \in Screens : SwitchScreen(s, sw)
      BY <1>1, <3>2, SwitchScreenTyped
    <3>. QED
      BY <1>3, <3>1, <3>2 DEF ScreensaverActivated, ScreensaverDeactivated,
         TypeOK, Screens
  <2>. QED
    BY <2>1, <2>2, <2>3 DEF FocusTyped, SwitchOK, TypeOK, PendingSwitchOK,
       optionVars, registryVars, lockVars
<1>4. CASE UNCHANGED vars
  BY <1>4 DEF vars, optionVars, registryVars, saverVars, lockVars, focusVars,
     TypeOK, PendingSwitchOK
<1>. QED
  BY <1>2, <1>3, <1>4, MotionTyped, ClientChangeTyped, ConfigTyped DEF Next

\* Every reachable state is well typed (m_active is never null, which
\* switchScreen asserts) and has a coherent pending switch: when the delay runs
\* out handleSwitchWaitTimeout has a screen to switch to.
THEOREM SwitchCoherent == Spec => []SwitchSound
<1>1. TypeInv => SwitchSound
  BY DEF TypeInv, SwitchSound
<1>. QED
  BY <1>1, InitTyped, NextTyped, PTL DEF Spec

-----------------------------------------------------------------------------
(* The screens: the registry, when no configuration has an alias *)

\* RegistryOK with the names the clients connected with, which are their
\* canonical names when there are no aliases.
Registry ==
  /\ Primary \in m_clientSet
  /\ \A s \in m_clientSet : NameOf(s) \in Names /\ m_clients[NameOf(s)] = s
  /\ \A n \in Names : m_clients[n] # NoScreen
                        => m_clients[n] \in m_clientSet /\ NameOf(m_clients[n]) = n
  /\ m_clientSet \cap m_oldClients = {}
  /\ \A p \in Proxies : name[p] # NoName <=> p \in m_clientSet \cup m_oldClients
  /\ \A p \in hungUp : name[p] # NoName

\* Without aliases the canonical name of a screen is the one it came with.
LEMMA NoAliasName ==
  ASSUME AliasFree, NEW cfg \in Configs, NEW s
  PROVE  GetName(cfg, s) = NameOf(s)
BY DEF AliasFree, GetName

LEMMA RegistryEquiv ==
  ASSUME AliasFree, TypeOK
  PROVE  Registry <=> RegistryOK
<1>1. config \in Configs
  BY DEF TypeOK
<1>2. \A s : GetName(config, s) = NameOf(s)
  BY <1>1, NoAliasName
<1>3. (\A s \in m_clientSet : GetName(config, s) \in Names /\ m_clients[GetName(config, s)] = s)
      <=> (\A s \in m_clientSet : NameOf(s) \in Names /\ m_clients[NameOf(s)] = s)
  BY <1>2
<1>4. \A n : n \in Keys <=> n \in Names /\ m_clients[n] # NoScreen
  BY DEF Keys
<1>5. (\A n \in Keys : m_clients[n] \in m_clientSet /\ GetName(config, m_clients[n]) = n)
      <=> (\A n \in Names : m_clients[n] # NoScreen
             => m_clients[n] \in m_clientSet /\ NameOf(m_clients[n]) = n)
  BY <1>2, <1>4
<1>. QED
  BY <1>3, <1>5 DEF Registry, RegistryOK

\* The connected screens are the registered ones.
LEMMA ConnectedRegistered ==
  ASSUME TypeOK, Registry
  PROVE  Connected = m_clientSet
<1>1. ASSUME NEW s \in Connected PROVE s \in m_clientSet
  <2>1. PICK n \in Names : m_clients[n] # NoScreen /\ s = m_clients[n]
    BY DEF Connected, Keys
  <2>. QED
    BY <2>1 DEF Registry
<1>2. ASSUME NEW s \in m_clientSet PROVE s \in Connected
  <2>1. s # NoScreen
    BY ScreensAssumption DEF TypeOK
  <2>. QED
    BY <2>1 DEF Connected, Keys, Registry
<1>. QED
  BY <1>1, <1>2

\* removeClient erases the entries of exactly the clients it removes.
LEMMA RemoveRegistered ==
  ASSUME AliasFree, TypeOK, Registry, NEW cfg \in Configs,
         NEW R \in SUBSET Proxies, RemoveClients(R, cfg)
  PROVE  /\ m_clientSet' = m_clientSet \ R
         /\ \A s \in m_clientSet' : m_clients'[NameOf(s)] = s
         /\ \A n \in Names : m_clients'[n] # NoScreen
              => m_clients'[n] \in m_clientSet' /\ NameOf(m_clients'[n]) = n
<1>1. \A n \in Names : m_clients'[n] = IF \E s \in R \cap m_clientSet : NameOf(s) = n
                                       THEN NoScreen ELSE m_clients[n]
  BY NoAliasName DEF RemoveClients
<1>2. m_clientSet' = m_clientSet \ R
  BY DEF RemoveClients
<1>3. ASSUME NEW s \in m_clientSet' PROVE m_clients'[NameOf(s)] = s
  <2>1. s \notin R /\ NameOf(s) \in Names /\ m_clients[NameOf(s)] = s
    BY <1>2 DEF Registry
  <2>2. ASSUME NEW r \in R \cap m_clientSet PROVE NameOf(r) # NameOf(s)
    <3>1. m_clients[NameOf(r)] = r /\ r # s
      BY <2>1 DEF Registry
    <3>. QED
      BY <2>1, <3>1
  <2>. QED
    BY <1>1, <2>1, <2>2
<1>4. ASSUME NEW n \in Names, m_clients'[n] # NoScreen
      PROVE  m_clients'[n] \in m_clientSet' /\ NameOf(m_clients'[n]) = n
  BY <1>1, <1>2, <1>4 DEF Registry
<1>. QED
  BY <1>2, <1>3, <1>4

\* closeClient moves the registered clients of R to the closing list.
LEMMA CloseRegistered ==
  ASSUME AliasFree, TypeOK, Registry, NEW cfg \in Configs,
         NEW R \in SUBSET (Proxies \cap m_clientSet), CloseClients(R, cfg),
         UNCHANGED <<name, hungUp>>
  PROVE  Registry'
<1>1. \A s : NameOf(s)' = NameOf(s)
  BY DEF NameOf
<1>2. /\ m_clientSet' = m_clientSet \ R
      /\ \A s \in m_clientSet' : m_clients'[NameOf(s)] = s
      /\ \A n \in Names : m_clients'[n] # NoScreen
              => m_clients'[n] \in m_clientSet' /\ NameOf(m_clients'[n]) = n
  BY RemoveRegistered DEF CloseClients
<1>3. m_oldClients' = m_oldClients \cup R
  BY DEF CloseClients
<1>4. Primary \in m_clientSet'
  BY <1>2, ScreensAssumption DEF Registry
<1>5. m_clientSet' \cap m_oldClients' = {}
  BY <1>2, <1>3 DEF Registry
<1>6. \A p \in Proxies : name'[p] # NoName <=> p \in m_clientSet' \cup m_oldClients'
  BY <1>2, <1>3 DEF Registry
<1>7. \A s \in m_clientSet' : NameOf(s) \in Names
  BY <1>2 DEF Registry
<1>8. \A p \in hungUp' : name'[p] # NoName
  BY DEF Registry
<1>. QED
  BY <1>1, <1>2, <1>4, <1>5, <1>6, <1>7, <1>8 DEF Registry

\* adoptClient registers a proxy or puts it on the closing list.
LEMMA AdoptRegistered ==
  ASSUME AliasFree, TypeOK, Registry, NEW p \in Proxies, NEW n \in Names,
         AdoptClient(p, n)
  PROVE  Registry'
<1>1. /\ p \notin m_clientSet /\ p \notin m_oldClients /\ p \notin hungUp
      /\ p # Primary /\ p # NoScreen
      /\ name[p] = NoName /\ name' = [name EXCEPT ![p] = n] /\ hungUp' = hungUp
  BY ScreensAssumption DEF AdoptClient, Registry, Screens
<1>2. NameOf(p)' = n /\ \A s \in m_clientSet : NameOf(s)' = NameOf(s)
  BY <1>1 DEF NameOf, TypeOK, Screens
<1>3. CASE /\ n \in DOMAIN config.canon
           /\ m_clients[config.canon[n]] = NoScreen
           /\ m_clients' = [m_clients EXCEPT ![config.canon[n]] = p]
           /\ m_clientSet' = m_clientSet \cup {p}
           /\ m_oldClients' = m_oldClients
  <2>1. config.canon[n] = n
    BY <1>3 DEF AliasFree, TypeOK
  <2>2. /\ m_clients \in [Names -> Screens \cup {NoScreen}]
        /\ m_clients[n] = NoScreen
        /\ m_clients' = [m_clients EXCEPT ![n] = p]
    BY <1>3, <2>1 DEF TypeOK
  <2>3. \A s \in m_clientSet' : NameOf(s)' \in Names /\ m_clients'[NameOf(s)'] = s
    <3>1. ASSUME NEW s \in m_clientSet
          PROVE  NameOf(s) # n /\ NameOf(s) \in Names /\ m_clients[NameOf(s)] = s
      <4>1. NameOf(s) \in Names /\ m_clients[NameOf(s)] = s
        BY DEF Registry
      <4>2. s # NoScreen
        BY ScreensAssumption DEF TypeOK
      <4>. QED
        BY <2>2, <4>1, <4>2
    <3>2. m_clients'[n] = p /\ \A k \in Names : k # n => m_clients'[k] = m_clients[k]
      BY <2>2
    <3>3. \A s \in m_clientSet : NameOf(s)' \in Names /\ m_clients'[NameOf(s)'] = s
      BY <1>2, <3>1, <3>2
    <3>. QED
      BY <1>2, <1>3, <3>2, <3>3
  <2>4. ASSUME NEW s, NEW k \in Names, s = m_clients'[k], s # NoScreen
        PROVE  s \in m_clientSet' /\ NameOf(s)' = k
    <3>1. CASE k = n
      BY <1>2, <1>3, <2>2, <2>4, <3>1
    <3>2. CASE k # n
      <4>1. s = m_clients[k]
        BY <2>2, <2>4, <3>2
      <4>2. s \in m_clientSet /\ NameOf(s) = k
        BY <2>4, <4>1 DEF Registry
      <4>. QED
        BY <1>2, <1>3, <4>2
    <3>. QED
      BY <3>1, <3>2
  <2>5. ASSUME NEW q \in Proxies
        PROVE  name'[q] # NoName <=> q \in m_clientSet' \cup m_oldClients'
    <3>1. name'[q] = IF q = p THEN n ELSE name[q]
      BY <1>1 DEF TypeOK
    <3>2. n # NoName
      BY NamesAssumption
    <3>. QED
      BY <1>3, <3>1, <3>2 DEF Registry
  <2>6. \A q \in hungUp' : name'[q] # NoName
    BY <1>1, NamesAssumption DEF Registry, TypeOK
  <2>. QED
    <3>1. Primary \in m_clientSet /\ m_clientSet \cap m_oldClients = {}
      BY DEF Registry
    <3>2. p \notin m_oldClients
      BY <1>1
    <3>3. Primary \in m_clientSet' /\ m_clientSet' \cap m_oldClients' = {}
      BY <1>3, <3>1, <3>2
    <3>. QED
      BY <2>3, <2>4, <2>5, <2>6, <3>3 DEF Registry, NameOf
<1>4. CASE CloseClients({p}, config)
  <2>1. /\ m_clientSet' = m_clientSet
        /\ m_oldClients' = m_oldClients \cup {p}
        /\ \A k \in Names : m_clients'[k] = m_clients[k]
    BY <1>1, <1>4 DEF CloseClients, RemoveClients
  <2>2. ASSUME NEW q \in Proxies
        PROVE  name'[q] # NoName <=> q \in m_clientSet' \cup m_oldClients'
    <3>1. name'[q] = IF q = p THEN n ELSE name[q]
      BY <1>1 DEF TypeOK
    <3>2. n # NoName
      BY NamesAssumption
    <3>. QED
      BY <2>1, <3>1, <3>2 DEF Registry
  <2>3. \A q \in hungUp' : name'[q] # NoName
    BY <1>1, NamesAssumption DEF Registry, TypeOK
  <2>. QED
    <3>1. Primary \in m_clientSet /\ m_clientSet \cap m_oldClients = {}
      BY DEF Registry
    <3>2. p \notin m_clientSet
      BY <1>1
    <3>3. Primary \in m_clientSet' /\ m_clientSet' \cap m_oldClients' = {}
      BY <2>1, <3>1, <3>2
    <3>4. ASSUME NEW s \in m_clientSet'
          PROVE  NameOf(s)' \in Names /\ m_clients'[NameOf(s)'] = s
      <4>1. NameOf(s) \in Names /\ m_clients[NameOf(s)] = s
        BY <2>1 DEF Registry
      <4>2. NameOf(s)' = NameOf(s)
        BY <1>2, <2>1
      <4>. QED
        BY <2>1, <4>1, <4>2
    <3>5. ASSUME NEW s, NEW k \in Names, s = m_clients'[k], s # NoScreen
          PROVE  s \in m_clientSet' /\ NameOf(s)' = k
      <4>1. s = m_clients[k]
        BY <2>1, <3>5
      <4>2. s \in m_clientSet /\ NameOf(s) = k
        BY <3>5, <4>1 DEF Registry
      <4>. QED
        BY <1>2, <2>1, <4>2
    <3>. QED
      BY <2>2, <2>3, <3>3, <3>4, <3>5 DEF Registry, NameOf
<1>. QED
  BY <1>3, <1>4 DEF AdoptClient, IsScreen

\* The two handlers that delete a client take it off every list.
LEMMA DeleteRegistered ==
  ASSUME AliasFree, TypeOK, Registry, NEW p \in Proxies,
         HandleClientDisconnected(p) \/ HandleClientCloseTimeout(p)
  PROVE  Registry'
<1>1. /\ name' = [name EXCEPT ![p] = NoName]
      /\ hungUp' = hungUp \ {p}
      /\ m_oldClients' = m_oldClients \ {p}
  BY DEF HandleClientDisconnected, HandleClientCloseTimeout, DeleteProxy
<1>2. p # Primary
  BY ScreensAssumption
<1>3. /\ m_clientSet' = m_clientSet \ {p}
      /\ \A s \in m_clientSet' : m_clients'[NameOf(s)] = s
      /\ \A n \in Names : m_clients'[n] # NoScreen
              => m_clients'[n] \in m_clientSet' /\ NameOf(m_clients'[n]) = n
  <2>1. CASE RemoveClients({p}, config)
    BY <2>1, RemoveRegistered DEF TypeOK
  <2>2. CASE p \notin m_clientSet /\ UNCHANGED <<m_clients, m_clientSet>>
    <3>1. m_clientSet' = m_clientSet /\ m_clientSet = m_clientSet \ {p}
      BY <2>2
    <3>. QED
      BY <2>2, <3>1 DEF Registry
  <2>3. p \in m_oldClients => p \notin m_clientSet
    BY DEF Registry
  <2>. QED
    BY <2>1, <2>2, <2>3 DEF HandleClientDisconnected, HandleClientCloseTimeout
<1>4. \A s \in m_clientSet' : NameOf(s)' = NameOf(s) /\ NameOf(s) \in Names
  BY <1>1, <1>3 DEF NameOf, TypeOK, Screens, Registry
<1>5. ASSUME NEW q \in Proxies
      PROVE  name'[q] # NoName <=> q \in m_clientSet' \cup m_oldClients'
  <2>1. name'[q] = IF q = p THEN NoName ELSE name[q]
    BY <1>1 DEF TypeOK
  <2>. QED
    BY <1>1, <1>3, <2>1 DEF Registry
<1>6. \A q \in hungUp' : name'[q] # NoName
  BY <1>1 DEF Registry, TypeOK
<1>7. Primary \in m_clientSet' /\ m_clientSet' \cap m_oldClients' = {}
  BY <1>1, <1>2, <1>3 DEF Registry
<1>8. \A s \in m_clientSet' : NameOf(s)' \in Names /\ m_clients'[NameOf(s)'] = s
  BY <1>3, <1>4
<1>9. \A s : \A k \in Names : s = m_clients'[k] /\ s # NoScreen
            => s \in m_clientSet' /\ NameOf(s)' = k
  BY <1>3, <1>4
<1>. QED
  BY <1>5, <1>6, <1>7, <1>8, <1>9 DEF Registry, NameOf

\* The steps that touch neither the proxies nor the lists.
LEMMA OtherSteps ==
  ASSUME Next
  PROVE  \/ UNCHANGED <<registryVars, config>>
         \/ ClientChange
         \/ \E cfg \in Configs : ReloadConfig(cfg)
         \/ Disconnect
<1>1. HandleLockCursorToScreen \/ PressOrRelease \/ ScreensaverActivated
      \/ ScreensaverDeactivated => UNCHANGED <<registryVars, config>>
  BY DEF HandleLockCursorToScreen, PressOrRelease, ScreensaverActivated,
     ScreensaverDeactivated
<1>. QED
  BY <1>1, MotionSame DEF Next

\* Every step keeps the registry.
LEMMA NextRegistered ==
  ASSUME AliasFree, TypeOK, Registry, [Next]_vars
  PROVE  Registry'
<1>1. CASE UNCHANGED registryVars
  BY <1>1 DEF registryVars, Registry, NameOf
<1>2. CASE ClientChange
  <2>1. ASSUME NEW p \in Proxies, ProxyDisconnect(p) PROVE Registry'
    BY <2>1 DEF ProxyDisconnect, Registry, NameOf
  <2>. QED
    BY <1>2, <2>1, AdoptRegistered, DeleteRegistered DEF ClientChange
<1>3. ASSUME NEW cfg \in Configs, ReloadConfig(cfg) PROVE Registry'
  <2>1. CASE CloseClients(Dropped(cfg), cfg)
    <3>1. Dropped(cfg) \in SUBSET (Proxies \cap m_clientSet)
      BY ConnectedType, ConnectedRegistered
    <3>. QED
      BY <1>3, <2>1, <3>1, CloseRegistered DEF ReloadConfig
  <2>2. CASE UNCHANGED <<m_clients, m_clientSet, m_oldClients>>
    BY <1>3, <2>2 DEF ReloadConfig, Registry, NameOf
  <2>. QED
    BY <1>3, <2>1, <2>2 DEF ReloadConfig
<1>4. CASE Disconnect
  <2>1. Connected \ {Primary} \in SUBSET (Proxies \cap m_clientSet)
    BY ConnectedType, ConnectedRegistered DEF Screens
  <2>2. config \in Configs
    BY DEF TypeOK
  <2>. QED
    BY <1>4, <2>1, <2>2, CloseRegistered DEF Disconnect
<1>5. CASE UNCHANGED vars
  BY <1>5, <1>1 DEF vars, registryVars
<1>. QED
  BY <1>1, <1>2, <1>3, <1>4, <1>5, OtherSteps

RegistryInv == TypeInv /\ Registry

LEMMA RegistryInvariant ==
  ASSUME AliasFree
  PROVE  Spec => []RegistryInv
<1>1. Init => RegistryInv
  <2>. SUFFICES ASSUME Init PROVE Registry
    BY InitTyped DEF RegistryInv
  <2>1. config.canon[PrimaryName] = PrimaryName
    BY DEF Init, AliasFree, IsScreen
  <2>. QED
    BY <2>1, ScreensAssumption, NamesAssumption DEF Init, Registry, NameOf, Screens
<1>2. RegistryInv /\ [Next]_vars => RegistryInv'
  BY NextTyped, NextRegistered DEF RegistryInv, TypeInv
<1>. QED
  BY <1>1, <1>2, PTL DEF Spec

\* When no configuration has an alias, m_clients, m_clientSet and m_oldClients
\* agree in every reachable state and hold exactly the allocated clients.
THEOREM RegistryConsistent ==
  ASSUME AliasFree
  PROVE  Spec => []RegistryOK
<1>1. RegistryInv => RegistryOK
  BY RegistryEquiv DEF RegistryInv, TypeInv
<1>. QED
  BY <1>1, RegistryInvariant, PTL

-----------------------------------------------------------------------------
(* The screens: the cursor *)

\* FocusOK survives a switch to a connected screen.
LEMMA SwitchFocus ==
  ASSUME FocusOK, NEW dst \in m_clientSet, NEW w, SwitchScreen(dst, w),
         UNCHANGED m_clientSet
  PROVE  ActiveConnected' /\ entered' \cap m_clientSet' = {m_active'}
BY DEF FocusOK, ActiveConnected, SwitchScreen

\* FocusOK survives when clients leave: if the cursor was there it goes to
\* the primary screen, which is entered unless the screen saver did it.
LEMMA LeaveFocus ==
  ASSUME TypeOK, Registry, FocusOK, ~Stray, NEW R \in SUBSET Proxies,
         ForceLeaveClients(R), m_clientSet' = m_clientSet \ R
  PROVE  FocusOK'
<1>1. Primary \in m_clientSet' /\ Primary \notin R /\ NoScreen \notin R
  BY ScreensAssumption DEF Registry, Screens
<1>2. m_activeSaver' \in m_clientSet' \cup {NoScreen}
  BY <1>1 DEF FocusOK, ForceLeaveClients
<1>3. CASE m_activeSaver # NoScreen
  <2>1. m_active = Primary /\ m_active' = Primary /\ entered' = entered \ R
    BY <1>3 DEF Stray, ForceLeaveClients
  <2>. QED
    BY <1>1, <1>2, <2>1 DEF FocusOK, ActiveConnected
<1>4. CASE m_activeSaver = NoScreen /\ m_active \in R
  <2>1. m_active' = Primary /\ entered' = (entered \ R) \cup {Primary}
    BY <1>4 DEF ForceLeaveClients, FocusHolder
  <2>. QED
    <3>1. entered \cap m_clientSet = {m_active}
      BY DEF FocusOK
    <3>2. ASSUME NEW s PROVE s \in entered' /\ s \in m_clientSet' <=> s = Primary
      <4>1. s \in entered /\ s \in m_clientSet => s \in R
        BY <1>4, <3>1
      <4>. QED
        BY <1>1, <2>1, <4>1
    <3>3. entered' \cap m_clientSet' = {m_active'}
      BY <2>1, <3>2
    <3>. QED
      BY <1>1, <1>2, <2>1, <3>3 DEF FocusOK, ActiveConnected
<1>5. CASE m_activeSaver = NoScreen /\ m_active \notin R
  <2>1. m_active' = m_active /\ entered' = entered \ R
    BY <1>5 DEF ForceLeaveClients, FocusHolder
  <2>. QED
    BY <1>1, <1>2, <1>5, <2>1 DEF FocusOK, ActiveConnected
<1>. QED
  BY <1>3, <1>4, <1>5

\* No step loses the cursor, except from a stray state.
LEMMA NextFocus ==
  ASSUME AliasFree, TypeOK, PendingSwitchOK, Registry, FocusOK, ~Stray, [Next]_vars
  PROVE  FocusOK'
<1>1. /\ Connected = m_clientSet
      /\ NoScreen \notin m_clientSet
      /\ \A n \in Keys : m_clients[n] \in m_clientSet
      /\ Primary \in m_clientSet
      /\ \A cfg : Dropped(cfg) \subseteq Proxies \cap m_clientSet
  BY ConnectedType, ConnectedRegistered, ScreensAssumption DEF Registry, TypeOK
<1>2. ASSUME UNCHANGED <<m_clientSet, m_activeSaver>>,
             \/ UNCHANGED <<m_active, entered>>
             \/ \E w : \E s \in m_clientSet : SwitchScreen(s, w)
      PROVE  FocusOK'
  <2>1. CASE UNCHANGED <<m_active, entered>>
    BY <1>2, <2>1 DEF FocusOK, ActiveConnected
  <2>2. ASSUME NEW s \in m_clientSet, NEW w, SwitchScreen(s, w)
        PROVE  FocusOK'
    BY <1>2, <2>2, SwitchFocus DEF FocusOK
  <2>. QED
    BY <1>2, <2>1, <2>2
<1>3. CASE MouseMotion
  <2>1. ASSUME NEW inward \in BOOLEAN,
               MovePrimaryInside(inward) \/ MoveSecondaryInside(inward)
        PROVE  FocusOK'
    BY <1>2, <2>1 DEF MovePrimaryInside, MoveSecondaryInside, registryVars, saverVars
  <2>2. ASSUME NEW mods, NEW corner, NEW dirh, NEW dirv,
               NEW sh \in Connected \cup {NoScreen},
               NEW sv \in Connected \cup {NoScreen},
               OnMouseMovePrimary(dirh, sh, dirv, sv, corner, mods)
        PROVE  FocusOK'
    <3> DEFINE h == TrySwitch(sw, sh, dirh, corner, mods)
               v == TrySwitch(h.sw, sv, dirv, corner, mods)
    <3>1. (h.ok => sh \in m_clientSet) /\ (v.ok => sv \in m_clientSet)
      BY <1>1 DEF TrySwitch
    <3>2. \/ h.ok /\ SwitchScreen(sh, h.sw)
          \/ ~h.ok /\ v.ok /\ SwitchScreen(sv, v.sw)
          \/ UNCHANGED <<m_active, entered>>
      BY <2>2 DEF OnMouseMovePrimary
    <3>3. UNCHANGED <<m_clientSet, m_activeSaver>>
      BY <2>2 DEF OnMouseMovePrimary, registryVars, saverVars
    <3>. HIDE DEF h, v
    <3>. QED
      BY <1>2, <3>1, <3>2, <3>3
  <2>3. ASSUME NEW mods, NEW corner, NEW dir, NEW s \in Connected \cup {NoScreen},
               OnMouseMoveSecondary(dir, s, corner, mods)
        PROVE  FocusOK'
    <3> DEFINE r == TrySwitch(sw, s, dir, corner, mods)
    <3>1. r.ok => s \in m_clientSet
      BY <1>1 DEF TrySwitch
    <3>2. \/ r.ok /\ SwitchScreen(s, r.sw)
          \/ UNCHANGED <<m_active, entered>>
      BY <2>3 DEF OnMouseMoveSecondary
    <3>3. UNCHANGED <<m_clientSet, m_activeSaver>>
      BY <2>3 DEF OnMouseMoveSecondary, registryVars, saverVars
    <3>. HIDE DEF r
    <3>. QED
      BY <1>2, <3>1, <3>2, <3>3
  <2>. QED
    BY <1>3, <2>1, <2>2, <2>3 DEF MouseMotion
<1>4. CASE HandleSwitchWaitTimeout
  <2>1. sw.screen \in m_clientSet
    BY <1>4 DEF HandleSwitchWaitTimeout, Stray
  <2>. QED
    BY <1>2, <1>4, <2>1 DEF HandleSwitchWaitTimeout, registryVars, saverVars
<1>5. CASE HotKey
  <2>1. \E s \in m_clientSet : SwitchScreen(s, sw)
    BY <1>1, <1>5 DEF HotKey, HandleSwitchToScreen, HandleToggleScreen,
       HandleSwitchInDirection, JumpToScreen
  <2>2. UNCHANGED <<m_clientSet, m_activeSaver>>
    BY <1>5 DEF HotKey, HandleSwitchToScreen, HandleToggleScreen,
       HandleSwitchInDirection, JumpToScreen, registryVars, saverVars
  <2>. QED
    BY <1>2, <2>1, <2>2
<1>6. CASE TwoTapTimePasses \/ HandleLockCursorToScreen \/ PressOrRelease \/ UNCHANGED vars
  BY <1>2, <1>6 DEF TwoTapTimePasses, HandleLockCursorToScreen, PressOrRelease,
     vars, registryVars, saverVars, focusVars
<1>7. CASE ScreensaverActivated \/ ScreensaverDeactivated
  <2>1. m_clientSet' = m_clientSet
    BY <1>7 DEF ScreensaverActivated, ScreensaverDeactivated, registryVars
  <2>2. m_activeSaver' \in m_clientSet \cup {NoScreen}
    BY <1>7 DEF ScreensaverActivated, ScreensaverDeactivated, FocusOK, ActiveConnected
  <2>3. UNCHANGED <<m_active, entered>> \/ \E s \in m_clientSet : SwitchScreen(s, sw)
    BY <1>1, <1>7 DEF ScreensaverActivated, ScreensaverDeactivated, focusVars, FocusOK
  <2>. QED
    BY <2>1, <2>2, <2>3, SwitchFocus DEF FocusOK, ActiveConnected
<1>8. CASE ClientChange
  <2>1. ASSUME NEW p \in Proxies, NEW n \in Names, AdoptClient(p, n)
        PROVE  FocusOK'
    <3>1. p \notin m_clientSet
      BY <2>1 DEF AdoptClient, Registry
    <3>2. CASE /\ m_clientSet' = m_clientSet \cup {p}
               /\ entered' = entered \ {p}
               /\ UNCHANGED <<m_activeSaver, m_active>>
      BY <3>1, <3>2 DEF FocusOK, ActiveConnected
    <3>3. CASE CloseClients({p}, config)
      BY <3>3, LeaveFocus DEF CloseClients, RemoveClients
    <3>. QED
      BY <2>1, <3>2, <3>3 DEF AdoptClient
  <2>2. ASSUME NEW p \in Proxies,
               \/ ProxyDisconnect(p) \/ HandleClientCloseTimeout(p)
        PROVE  FocusOK'
    BY <1>2, <2>2 DEF ProxyDisconnect, HandleClientCloseTimeout, saverVars, focusVars
  <2>3. ASSUME NEW p \in Proxies, HandleClientDisconnected(p)
        PROVE  FocusOK'
    <3>1. CASE RemoveClients({p}, config) /\ ForceLeaveClients({p})
      BY <3>1, LeaveFocus DEF RemoveClients
    <3>2. CASE UNCHANGED <<m_clientSet, m_activeSaver, focusVars>>
      BY <1>2, <3>2 DEF focusVars
    <3>. QED
      BY <2>3, <3>1, <3>2 DEF HandleClientDisconnected
  <2>. QED
    BY <1>8, <2>1, <2>2, <2>3 DEF ClientChange
<1>9. ASSUME NEW cfg \in Configs, ReloadConfig(cfg)
      PROVE  FocusOK'
  <2>1. CASE CloseClients(Dropped(cfg), cfg)
    BY <1>1, <2>1, LeaveFocus DEF CloseClients, RemoveClients
  <2>2. CASE UNCHANGED <<m_clientSet, m_activeSaver, focusVars>>
    BY <1>2, <2>2 DEF focusVars
  <2>. QED
    BY <1>9, <2>1, <2>2 DEF ReloadConfig
<1>10. CASE Disconnect
  <2>1. Connected \ {Primary} \in SUBSET Proxies
    BY ConnectedType DEF Screens
  <2>. QED
    BY <1>10, <2>1, LeaveFocus DEF Disconnect, CloseClients, RemoveClients
<1>. QED
  BY <1>3, <1>4, <1>5, <1>6, <1>7, <1>8, <1>9, <1>10 DEF Next

\* No handler loses the cursor: from a state where exactly the active screen
\* is entered, every step leads to such a state, unless the cursor is off the
\* primary screen during the screen saver or a delayed switch aims at a client
\* that has left.
THEOREM CursorKept ==
  ASSUME AliasFree
  PROVE  Spec => FocusKept
<1>1. RegistryInv /\ [Next]_vars => [FocusOK /\ ~Stray => FocusOK']_vars
  BY NextFocus DEF RegistryInv, TypeInv
<1>. QED
  BY <1>1, RegistryInvariant, PTL DEF Spec, FocusKept

-----------------------------------------------------------------------------
(* The screens: the lock, the screen saver, the configuration *)

\* Motion and a delay that runs out do not move a locked cursor.
LEMMA LockedMotion ==
  ASSUME IsLockedToScreen, FocusOK,
         MouseMotion \/ HandleSwitchWaitTimeout
  PROVE  m_active' = m_active
<1>1. ASSUME NEW w, NEW s, NEW dir, NEW corner, NEW mods
      PROVE  ~TrySwitch(w, s, dir, corner, mods).ok
  <2> DEFINE secondTap == /\ m_switchTwoTapDelay
                          /\ ~(dir # w.dir)
                          /\ w.engaged /\ w.armed /\ w.inTime
             firstTap == m_switchTwoTapDelay /\ ~secondTap
             delayed == m_switchWaitDelay /\ ~secondTap
             stopped == \/ corner
                        \/ /\ ~firstTap /\ ~delayed
                           /\ IsLockedToScreen \/ (m_switchNeedsMods /\ ~mods)
  <2>1. IsSwitchOkay(w, s, dir, corner, mods).ok = (~firstTap /\ ~delayed /\ ~stopped)
    BY DEF IsSwitchOkay
  <2>2. ~(~firstTap /\ ~delayed /\ ~stopped)
    OBVIOUS
  <2>. HIDE DEF firstTap, delayed, stopped
  <2>. QED
    BY <2>1, <2>2 DEF TrySwitch
<1>. QED
  <2>1. ASSUME NEW b, MovePrimaryInside(b) \/ MoveSecondaryInside(b)
        PROVE  m_active' = m_active
    BY <2>1 DEF MovePrimaryInside, MoveSecondaryInside
  <2>2. ASSUME NEW dirh, NEW sh, NEW dirv, NEW sv, NEW corner, NEW mods,
               OnMouseMovePrimary(dirh, sh, dirv, sv, corner, mods)
        PROVE  m_active' = m_active
    BY <1>1, <2>2 DEF OnMouseMovePrimary
  <2>3. ASSUME NEW dir, NEW s, NEW corner, NEW mods,
               OnMouseMoveSecondary(dir, s, corner, mods)
        PROVE  m_active' = m_active
    BY <1>1, <2>3 DEF OnMouseMoveSecondary
  <2>. QED
    BY <2>1, <2>2, <2>3 DEF MouseMotion, HandleSwitchWaitTimeout

\* A locked cursor changes screens only on a hot key, for the screen saver or
\* when the set of clients changes.
THEOREM LockRespected ==
  ASSUME AliasFree
  PROVE  Spec => LockHolds
<1> DEFINE A == IsLockedToScreen /\ FocusOK /\ m_active' # m_active
                  => \/ HotKey
                     \/ saverOn' # saverOn
                     \/ m_clientSet' # m_clientSet
<1>1. ASSUME RegistryInv, [Next]_vars, IsLockedToScreen, FocusOK,
             m_active' # m_active
      PROVE  \/ HotKey
             \/ saverOn' # saverOn
             \/ m_clientSet' # m_clientSet
  <2>. SUFFICES ASSUME saverOn' = saverOn, m_clientSet' = m_clientSet
                PROVE  HotKey
    OBVIOUS
  <2>1. ~MouseMotion /\ ~HandleSwitchWaitTimeout
    BY <1>1, LockedMotion
  <2>2. ASSUME NEW R, ForceLeaveClients(R), m_clientSet' = m_clientSet \ R
        PROVE  FALSE
    BY <1>1, <2>2 DEF ForceLeaveClients, FocusHolder, FocusOK, ActiveConnected
  <2>3. ~ClientChange
    BY <1>1, <2>2 DEF ClientChange, AdoptClient, ProxyDisconnect,
       HandleClientDisconnected, HandleClientCloseTimeout, CloseClients,
       RemoveClients, focusVars
  <2>4. ~Disconnect /\ \A cfg \in Configs : ~ReloadConfig(cfg)
    BY <1>1, <2>2 DEF Disconnect, ReloadConfig, CloseClients, RemoveClients,
       focusVars
  <2>5. /\ ~TwoTapTimePasses /\ ~HandleLockCursorToScreen /\ ~PressOrRelease
        /\ ~UNCHANGED vars
    BY <1>1 DEF TwoTapTimePasses, HandleLockCursorToScreen, PressOrRelease,
       vars, focusVars
  <2>6. ~ScreensaverActivated /\ ~ScreensaverDeactivated
    BY <1>1 DEF ScreensaverActivated, ScreensaverDeactivated, RegistryInv,
       TypeInv, TypeOK
  <2>. QED
    BY <1>1, <2>1, <2>3, <2>4, <2>5, <2>6 DEF Next
<1>2. RegistryInv /\ [Next]_vars => [A]_vars
  BY <1>1
<1>. QED
  BY <1>2, RegistryInvariant, PTL DEF Spec, LockHolds

\* SaverInStep, strengthened: only registered clients believe that the screen
\* saver runs, and a screen to go back to is remembered only while it does.
SaverInv ==
  /\ SaverInStep
  /\ saving \subseteq m_clientSet
  /\ m_activeSaver # NoScreen => saverOn

\* A client that leaves the registry is forgotten by the screen saver too.
LEMMA CloseSaver ==
  ASSUME SaverInv, NEW R, NoScreen \notin R, ForceLeaveClients(R),
         m_clientSet' = m_clientSet \ R, saving' = saving \ R, UNCHANGED saverOn
  PROVE  SaverInv'
BY DEF SaverInv, SaverInStep, ForceLeaveClients

\* Every step keeps the clients in step with the screen saver.
LEMMA NextSaver ==
  ASSUME RegistryInv, SaverInv, [Next]_vars
  PROVE  SaverInv'
<1>1. /\ Connected = m_clientSet
      /\ NoScreen \notin Proxies
      /\ \A cfg : Dropped(cfg) \subseteq Proxies
      /\ Connected \ {Primary} \subseteq Proxies
      /\ saving \subseteq Proxies
  BY ConnectedType, ConnectedRegistered, ScreensAssumption
     DEF Screens, RegistryInv, TypeInv, TypeOK
<1>2. CASE UNCHANGED <<m_clientSet, m_activeSaver, saverOn, saving>>
  BY <1>2 DEF SaverInv, SaverInStep
<1>3. CASE ScreensaverActivated
  BY <1>1, <1>3 DEF ScreensaverActivated, SaverInv, SaverInStep, registryVars
<1>4. CASE ScreensaverDeactivated
  BY <1>1, <1>4 DEF ScreensaverDeactivated, SaverInv, SaverInStep, registryVars
<1>5. CASE ClientChange
  <2>1. ASSUME NEW p \in Proxies, NEW n \in Names, AdoptClient(p, n)
        PROVE  SaverInv'
    <3>1. CASE /\ m_clientSet' = m_clientSet \cup {p}
               /\ saving' = SavingAfterAdopt(p)
               /\ UNCHANGED <<m_activeSaver, saverOn>>
      BY <3>1 DEF SavingAfterAdopt, SaverInv, SaverInStep
    <3>2. CASE CloseClients({p}, config) /\ UNCHANGED saverOn
      BY <1>1, <3>2, CloseSaver DEF CloseClients, RemoveClients
    <3>. QED
      BY <2>1, <3>1, <3>2 DEF AdoptClient
  <2>2. ASSUME NEW p \in Proxies,
               ProxyDisconnect(p) \/ HandleClientCloseTimeout(p)
        PROVE  SaverInv'
    BY <1>2, <2>2 DEF ProxyDisconnect, HandleClientCloseTimeout, saverVars
  <2>3. ASSUME NEW p \in Proxies, HandleClientDisconnected(p)
        PROVE  SaverInv'
    BY <1>1, <1>2, <2>3, CloseSaver DEF HandleClientDisconnected, RemoveClients
  <2>. QED
    BY <1>5, <2>1, <2>2, <2>3 DEF ClientChange
<1>6. CASE Disconnect
  BY <1>1, <1>6, CloseSaver DEF Disconnect, CloseClients, RemoveClients
<1>7. ASSUME NEW cfg \in Configs, ReloadConfig(cfg)
      PROVE  SaverInv'
  BY <1>1, <1>2, <1>7, CloseSaver DEF ReloadConfig, CloseClients, RemoveClients
<1>8. CASE MouseMotion \/ TwoTapTimePasses \/ HandleSwitchWaitTimeout \/ HotKey
  <2>1. UNCHANGED <<registryVars, saverVars>>
    BY <1>8, MotionSame
  <2>. QED
    BY <1>2, <2>1 DEF registryVars, saverVars
<1>9. CASE HandleLockCursorToScreen \/ PressOrRelease \/ UNCHANGED vars
  BY <1>2, <1>9 DEF HandleLockCursorToScreen, PressOrRelease, vars,
     registryVars, saverVars
<1>. QED
  BY <1>3, <1>4, <1>5, <1>6, <1>7, <1>8, <1>9 DEF Next

\* The clients know whether the screen saver runs, for as long as onScreensaver
\* has a screen to go back to.
THEOREM ClientsKnowSaver ==
  ASSUME AliasFree
  PROVE  Spec => []SaverInStep
<1>1. Init => SaverInv
  BY DEF Init, SaverInv, SaverInStep
<1>2. RegistryInv /\ SaverInv /\ [Next]_vars => SaverInv'
  BY NextSaver
<1>3. SaverInv => SaverInStep
  BY DEF SaverInv
<1>. QED
  BY <1>1, <1>2, <1>3, RegistryInvariant, PTL DEF Spec

\* Every step keeps the connected clients among the configured ones.
LEMMA NextConfigured ==
  ASSUME AliasFree, PrimaryConfigured, RegistryInv, ClientsConfigured, [Next]_vars
  PROVE  ClientsConfigured'
<1>. USE DEF RegistryInv, TypeInv
<1>1. ASSUME \A n \in Names : m_clients'[n] # NoScreen => m_clients[n] # NoScreen,
             config' = config
      PROVE  ClientsConfigured'
  BY <1>1 DEF ClientsConfigured, Keys, IsCanonicalName
<1>2. ASSUME NEW R, NEW cfg, RemoveClients(R, cfg)
      PROVE  \A n \in Names : m_clients'[n] # NoScreen =>
               m_clients'[n] = m_clients[n] /\ m_clients[n] # NoScreen
  BY <1>2 DEF RemoveClients
<1>3. CASE UNCHANGED <<registryVars, config>>
  BY <1>1, <1>3 DEF registryVars
<1>4. CASE ClientChange
  <2>1. ASSUME NEW p \in Proxies, NEW n \in Names, AdoptClient(p, n)
        PROVE  ClientsConfigured'
    <3>1. CASE /\ n \in DOMAIN config.canon
               /\ m_clients' = [m_clients EXCEPT ![config.canon[n]] = p]
      <4>1. config.canon[n] = n /\ config' = config
        BY <2>1, <3>1 DEF AliasFree, TypeOK, AdoptClient
      <4>2. \A k \in Names : m_clients'[k] # NoScreen => m_clients[k] # NoScreen \/ k = n
        BY <3>1, <4>1 DEF TypeOK
      <4>. QED
        BY <3>1, <4>1, <4>2 DEF ClientsConfigured, Keys, IsCanonicalName
    <3>2. CASE CloseClients({p}, config)
      BY <1>1, <1>2, <2>1, <3>2 DEF AdoptClient, CloseClients
    <3>. QED
      BY <2>1, <3>1, <3>2 DEF AdoptClient, IsScreen
  <2>2. ASSUME NEW p \in Proxies,
               \/ ProxyDisconnect(p)
               \/ HandleClientCloseTimeout(p)
               \/ HandleClientDisconnected(p)
        PROVE  ClientsConfigured'
    BY <1>1, <1>2, <2>2 DEF ProxyDisconnect, HandleClientCloseTimeout,
       HandleClientDisconnected
  <2>. QED
    BY <1>4, <2>1, <2>2 DEF ClientChange
<1>5. CASE Disconnect
  BY <1>1, <1>2, <1>5 DEF Disconnect, CloseClients
<1>6. ASSUME NEW cfg \in Configs, ReloadConfig(cfg)
      PROVE  ClientsConfigured'
  <2>1. CloseClients(Dropped(cfg), cfg) /\ config' = cfg
    BY <1>6 DEF ReloadConfig, PrimaryConfigured
  <2>2. SUFFICES ASSUME NEW n \in Names, m_clients'[n] # NoScreen
                 PROVE  IsCanonicalName(cfg, n)
    BY <2>1 DEF ClientsConfigured, Keys, IsCanonicalName
  <2>3. m_clients'[n] = m_clients[n] /\ m_clients[n] # NoScreen
    BY <1>2, <2>1, <2>2 DEF CloseClients
  <2>4. CASE m_clients[n] = Primary
    <3>1. n = PrimaryName
      BY <2>3, <2>4 DEF Registry, NameOf
    <3>. QED
      BY <3>1 DEF PrimaryConfigured, AliasFree, IsScreen, IsCanonicalName
  <2>5. CASE m_clients[n] # Primary /\ ~IsCanonicalName(cfg, n)
    <3>1. m_clients[n] \in Dropped(cfg)
      BY <2>3, <2>5 DEF Dropped, Keys
    <3>2. m_clients[n] \in m_clientSet /\ NameOf(m_clients[n]) = n
      BY <2>3 DEF Registry
    <3>3. GetName(cfg, m_clients[n]) = n
      BY <3>2, NoAliasName
    <3>4. m_clients'[n] = NoScreen
      BY <2>1, <3>1, <3>2, <3>3 DEF CloseClients, RemoveClients
    <3>. QED
      BY <2>2, <3>4
  <2>. QED
    BY <2>4, <2>5
<1>7. CASE UNCHANGED vars
  BY <1>3, <1>7 DEF vars
<1>. QED
  BY <1>3, <1>4, <1>5, <1>6, <1>7, OtherSteps

\* When every configuration has the primary screen and none has an alias, a
\* reload leaves only clients that the new configuration has.
THEOREM ReloadDropsClients ==
  ASSUME AliasFree, PrimaryConfigured
  PROVE  Spec => []ClientsConfigured
<1>1. Init => ClientsConfigured
  BY DEF Init, ClientsConfigured, Keys, IsCanonicalName, AliasFree, IsScreen
<1>2. RegistryInv /\ ClientsConfigured /\ [Next]_vars => ClientsConfigured'
  BY NextConfigured
<1>. QED
  BY <1>1, <1>2, RegistryInvariant, PTL DEF Spec

=============================================================================
