----------------------------- MODULE EventQueue -----------------------------
(***************************************************************************)
(* EventQueue (lib/base/EventQueue.cpp) over the buffer that it creates by *)
(* itself, SimpleEventQueueBuffer.  Any thread posts events with addEvent; *)
(* the main thread runs loop().  Events posted before the loop is ready    *)
(* wait in m_pending; the others are saved in the table m_events under a   *)
(* recycled id, and the id goes through the buffer.                        *)
(*                                                                         *)
(* A step is what a thread does under one lock: addEvent reads the ready   *)
(* flag under m_readyMutex and uses it later under m_mutex.                *)
(***************************************************************************)
EXTENDS Integers, Sequences, FiniteSets

CONSTANTS
  Main,           \* the main thread
  Posters,        \* the other threads that post events
  SignalThreads,  \* those that post kQuit (the handler interrupt())
  MaxPosts,       \* bound on the events each thread posts
  HasTimers,      \* a recurring timer exists
  NoEvent         \* no event

ASSUME ThreadsAssumption ==
  /\ Main \notin Posters
  /\ SignalThreads \subseteq Posters
  /\ HasTimers \in BOOLEAN

Threads == Posters \cup {Main}

ASSUME MaxPostsAssumption == MaxPosts \in [Threads -> Nat]

\* The n-th event that a thread posts, and whether the thread saw the queue
\* ready when it did.
Events == [thread : Threads, n : Nat \ {0}, ready : BOOLEAN]

IsQuit(e) == e.thread \in SignalThreads

ASSUME NoEventAssumption == NoEvent \notin Events

VARIABLES
  m_ready,        \* *m_readyCondVar
  m_pending,      \* events posted before the queue was ready
  m_events,       \* id -> event
  m_oldEventIDs,  \* ids to use again, the last one first
  m_queue,        \* the buffer: ids, the oldest first
  m_queueReady,   \* the buffer's flag, read by isEmpty and waitForEvent
  posting,        \* the event that a thread is inside addEvent with
  posted,         \* how many events a thread has posted
  pc,             \* where the main thread is in loop()
  dataID,         \* the id that the buffer gave getEvent
  event,          \* the event the main thread holds
  timerDue,       \* the recurring timer has expired
  shutdown,       \* the parent process has written ShutdownCh
  delivered,      \* history: the events dispatched, in order
  dropped         \* history: the events discarded

tableVars == <<m_events, m_oldEventIDs, m_queue, m_queueReady>>
postVars == <<posting, posted>>
loopVars == <<pc, dataID, event, timerDue>>
histVars == <<delivered, dropped>>
vars == <<m_ready, m_pending, tableVars, postVars, loopVars, shutdown, histVars>>

NoEvents == [i \in {} |-> NoEvent]
Live == DOMAIN m_events
OldIDs == {m_oldEventIDs[i] : i \in DOMAIN m_oldEventIDs}
Saved == {m_events[i] : i \in Live}

TypeOK ==
  /\ m_ready \in BOOLEAN
  /\ m_pending \in Seq(Events)
  /\ m_events \in [Live -> Events]
  /\ Live \subseteq Nat
  /\ m_oldEventIDs \in Seq(Nat)
  /\ m_queue \in Seq(Nat)
  /\ m_queueReady \in BOOLEAN
  /\ posting \in [Threads -> Events \cup {NoEvent}]
  /\ posted \in [Threads -> Nat]
  /\ pc \in {"start", "drain", "add", "get", "poll", "wait", "take", "remove",
             "dispatch", "done"}
  /\ dataID \in Nat
  /\ event \in Events \cup {NoEvent}
  /\ timerDue \in BOOLEAN
  /\ shutdown \in BOOLEAN
  /\ delivered \in Seq(Events)
  /\ dropped \subseteq Events

-----------------------------------------------------------------------------
(* The table of events and the buffer, both under m_mutex *)

\* The id that saveEvent chooses: the last one freed, or a new one.
NextID ==
  IF m_oldEventIDs # <<>> THEN m_oldEventIDs[Len(m_oldEventIDs)]
  ELSE Cardinality(Live)

\* saveEvent, and the id is put into the buffer.
SaveEvent(e) ==
  /\ m_events' = [i \in Live \cup {NextID} |->
                    IF i = NextID THEN e ELSE m_events[i]]
  /\ m_oldEventIDs' = SubSeq(m_oldEventIDs, 1, Len(m_oldEventIDs) - 1)
  /\ m_queue' = Append(m_queue, NextID)

\* addEventToBuffer.  A buffer may refuse the id: the event is then removed
\* again and its id is free.
AddEventToBuffer(e) ==
  \/ /\ SaveEvent(e)
     /\ m_queueReady' = TRUE
     /\ UNCHANGED dropped
  \/ /\ m_oldEventIDs = <<>>
     /\ m_oldEventIDs' = <<NextID>>
     /\ dropped' = dropped \cup {e}
     /\ UNCHANGED <<m_events, m_queue, m_queueReady>>
  \/ /\ m_oldEventIDs # <<>>
     /\ dropped' = dropped \cup {e}
     /\ UNCHANGED tableVars

\* removeEvent: no event if the id is unknown.
RemoveEvent ==
  /\ event' = IF dataID \in Live THEN m_events[dataID] ELSE NoEvent
  /\ m_events' = [i \in Live \ {dataID} |-> m_events[i]]
  /\ m_oldEventIDs' = IF dataID \in Live THEN Append(m_oldEventIDs, dataID)
                      ELSE m_oldEventIDs

-----------------------------------------------------------------------------
(* addEvent, in any thread *)

\* The main thread posts before loop() and from the handlers it runs.
MayPost(t) == t = Main => pc \in {"start", "dispatch"}

\* isReady = *m_readyCondVar, under m_readyMutex.
CheckReady(t) ==
  /\ MayPost(t)
  /\ posting[t] = NoEvent
  /\ posted[t] < MaxPosts[t]
  /\ posted' = [posted EXCEPT ![t] = @ + 1]
  /\ posting' = [posting EXCEPT ![t] = [thread |-> t, n |-> posted[t] + 1,
                                        ready |-> m_ready]]
  /\ UNCHANGED <<m_ready, m_pending, tableVars, loopVars, shutdown, histVars>>

\* Fault for EveryEventKept: an event for a queue that is not ready is lost.
Fault_FinishAdd(t) ==
  /\ posting[t] # NoEvent
  /\ posting' = [posting EXCEPT ![t] = NoEvent]
  /\ \/ ~posting[t].ready /\ UNCHANGED <<tableVars, dropped>>
     \/ posting[t].ready /\ AddEventToBuffer(posting[t])
  /\ UNCHANGED <<m_ready, m_pending, posted, loopVars, shutdown, delivered>>

\* The rest of addEvent, under m_mutex.
FinishAdd(t) ==
  /\ posting[t] # NoEvent
  /\ posting' = [posting EXCEPT ![t] = NoEvent]
  /\ \/ /\ ~posting[t].ready
        /\ m_pending' = Append(m_pending, posting[t])
        /\ UNCHANGED <<tableVars, dropped>>
     \/ /\ posting[t].ready
        /\ AddEventToBuffer(posting[t])
        /\ UNCHANGED m_pending
  /\ UNCHANGED <<m_ready, posted, loopVars, shutdown, delivered>>

-----------------------------------------------------------------------------
(* loop(), in the main thread *)

MainFree == posting[Main] = NoEvent

\* m_buffer->init(), and the queue is ready.
LoopReady ==
  /\ pc = "start" /\ MainFree
  /\ m_ready' = TRUE
  /\ pc' = "drain"
  /\ UNCHANGED <<m_pending, tableVars, postVars, dataID, event, timerDue,
                 shutdown, histVars>>

PopPending ==
  /\ pc = "drain"
  /\ \/ /\ m_pending = <<>>
        /\ pc' = "get"
        /\ UNCHANGED <<m_pending, event>>
     \/ /\ m_pending # <<>>
        /\ event' = Head(m_pending)
        /\ m_pending' = Tail(m_pending)
        /\ pc' = "add"
  /\ UNCHANGED <<m_ready, tableVars, postVars, dataID, timerDue, shutdown,
                 histVars>>

AddPending ==
  /\ pc = "add"
  /\ AddEventToBuffer(event)
  /\ event' = NoEvent
  /\ pc' = "drain"
  /\ UNCHANGED <<m_ready, m_pending, postVars, dataID, timerDue, shutdown,
                 delivered>>

\* Fault for ShutdownSeen: the test is made only when the buffer has an event.
Fault_GetEvent ==
  /\ pc = "get"
  /\ pc' = IF shutdown /\ m_queueReady THEN "done" ELSE "poll"
  /\ UNCHANGED <<m_ready, m_pending, tableVars, postVars, dataID, event,
                 timerDue, shutdown, histVars>>

\* getEvent begins with the test for a shutdown by the parent process.
GetEvent ==
  /\ pc = "get"
  /\ pc' = IF shutdown THEN "done" ELSE "poll"
  /\ UNCHANGED <<m_ready, m_pending, tableVars, postVars, dataID, event,
                 timerDue, shutdown, histVars>>

\* isEmpty(): an expired timer is served only if the buffer is empty.
Poll ==
  /\ pc = "poll"
  /\ pc' = IF m_queueReady THEN "take"
            ELSE IF timerDue THEN "dispatch" ELSE "wait"
  /\ timerDue' = (timerDue /\ m_queueReady)
  /\ UNCHANGED <<m_ready, m_pending, tableVars, postVars, dataID, event,
                 shutdown, histVars>>

\* waitForEvent returns when the buffer has an id or the next timer is due.
WaitForEvent ==
  /\ pc = "wait"
  /\ m_queueReady \/ timerDue
  /\ pc' = "poll"
  /\ UNCHANGED <<m_ready, m_pending, tableVars, postVars, dataID, event,
                 timerDue, shutdown, histVars>>

\* Fault for PostedDelivered: the flag is cleared with ids left.
Fault_TakeID ==
  /\ pc = "take"
  /\ dataID' = Head(m_queue)
  /\ m_queue' = Tail(m_queue)
  /\ m_queueReady' = FALSE
  /\ pc' = "remove"
  /\ UNCHANGED <<m_ready, m_pending, m_events, m_oldEventIDs, postVars, event,
                 timerDue, shutdown, histVars>>

\* Fault for OrderKept: ids are taken where they are put.
Fault_TakeNewest ==
  /\ pc = "take"
  /\ dataID' = m_queue[Len(m_queue)]
  /\ m_queue' = SubSeq(m_queue, 1, Len(m_queue) - 1)
  /\ m_queueReady' = (Len(m_queue) > 1)
  /\ pc' = "remove"
  /\ UNCHANGED <<m_ready, m_pending, m_events, m_oldEventIDs, postVars, event,
                 timerDue, shutdown, histVars>>

\* SimpleEventQueueBuffer::getEvent, under the buffer's own mutex.
TakeID ==
  /\ pc = "take"
  /\ dataID' = Head(m_queue)
  /\ m_queue' = Tail(m_queue)
  /\ m_queueReady' = (Tail(m_queue) # <<>>)
  /\ pc' = "remove"
  /\ UNCHANGED <<m_ready, m_pending, m_events, m_oldEventIDs, postVars, event,
                 timerDue, shutdown, histVars>>

TakeEvent ==
  /\ pc = "remove"
  /\ RemoveEvent
  /\ pc' = "dispatch"
  /\ UNCHANGED <<m_ready, m_pending, m_queue, m_queueReady, postVars, dataID,
                 timerDue, shutdown, histVars>>

\* The event is kQuit and ends the loop, or it is dispatched and deleted.  A
\* timer event, and the empty event of an unknown id, are not recorded.
Dispatch ==
  /\ pc = "dispatch" /\ MainFree
  /\ event' = NoEvent
  /\ \/ /\ event = NoEvent
        /\ pc' = "get"
        /\ UNCHANGED delivered
     \/ /\ event # NoEvent
        /\ delivered' = Append(delivered, event)
        /\ pc' = IF IsQuit(event) THEN "done" ELSE "get"
  /\ UNCHANGED <<m_ready, m_pending, tableVars, postVars, dataID, timerDue,
                 shutdown, dropped>>

\* Fault for TablesOK: the saved events are kept.
Fault_AdoptBuffer ==
  /\ pc \in {"start", "dispatch"} /\ MainFree
  /\ m_queue' = <<>>
  /\ m_queueReady' = FALSE
  /\ UNCHANGED <<m_ready, m_pending, m_events, m_oldEventIDs, postVars,
                 loopVars, shutdown, histVars>>

\* adoptBuffer, when a screen is made or deleted.  The saved events are
\* discarded with the old buffer.
AdoptBuffer ==
  /\ pc \in {"start", "dispatch"} /\ MainFree
  /\ dropped' = dropped \cup Saved
  /\ m_events' = NoEvents
  /\ m_oldEventIDs' = <<>>
  /\ m_queue' = <<>>
  /\ m_queueReady' = FALSE
  /\ UNCHANGED <<m_ready, m_pending, postVars, loopVars, shutdown, delivered>>

\* The recurring timer, if there is one, expires (again).
TimerExpires ==
  /\ HasTimers /\ ~timerDue
  /\ timerDue' = TRUE
  /\ UNCHANGED <<m_ready, m_pending, tableVars, postVars, pc, dataID, event,
                 shutdown, histVars>>

\* The parent process writes ShutdownCh to the standard input.
RequestShutdown ==
  /\ ~shutdown
  /\ shutdown' = TRUE
  /\ UNCHANGED <<m_ready, m_pending, tableVars, postVars, loopVars, histVars>>

-----------------------------------------------------------------------------
Init ==
  /\ m_ready = FALSE
  /\ m_pending = <<>>
  /\ m_events = NoEvents
  /\ m_oldEventIDs = <<>>
  /\ m_queue = <<>>
  /\ m_queueReady = FALSE
  /\ posting = [t \in Threads |-> NoEvent]
  /\ posted = [t \in Threads |-> 0]
  /\ pc = "start"
  /\ dataID = 0
  /\ event = NoEvent
  /\ timerDue = FALSE
  /\ shutdown = FALSE
  /\ delivered = <<>>
  /\ dropped = {}

Loop ==
  \/ LoopReady
  \/ PopPending
  \/ AddPending
  \/ GetEvent
  \/ Poll
  \/ WaitForEvent
  \/ TakeID
  \/ TakeEvent
  \/ Dispatch

\* After the loop the program ends; what other threads still do is not seen.
Next ==
  \/ \E t \in Threads : CheckReady(t) \/ FinishAdd(t)
  \/ Loop
  \/ AdoptBuffer
  \/ TimerExpires
  \/ RequestShutdown

Spec == Init /\ [][Next]_vars

\* The main thread runs, a timer expires in time, and a thread inside
\* addEvent leaves it.
FairSpec ==
  /\ Spec
  /\ WF_vars(Loop)
  /\ WF_vars(TimerExpires)
  /\ \A t \in Threads : WF_vars(FinishAdd(t))

-----------------------------------------------------------------------------
(* Properties *)

\* saveEvent and removeEvent: the ids in use and the free ones are exactly
\* 0 .. n-1 for some n, no id is both, and none is free twice.  So an id is
\* never given to two events at a time.
IdsOK ==
  /\ Live \cup OldIDs = 0..(Cardinality(Live \cup OldIDs) - 1)
  /\ Live \cap OldIDs = {}
  /\ \A i, j \in DOMAIN m_oldEventIDs :
       m_oldEventIDs[i] = m_oldEventIDs[j] => i = j

\* The ids on their way to the main thread.
InBuffer == {m_queue[i] : i \in DOMAIN m_queue}
                \cup (IF pc = "remove" THEN {dataID} ELSE {})

\* getEvent's look-up never fails: the ids in the buffer, with the one just
\* taken out, are exactly the ids in use, each once.
BufferMatchesTable ==
  /\ InBuffer = Live
  /\ \A i, j \in DOMAIN m_queue : m_queue[i] = m_queue[j] => i = j
  /\ pc = "remove" => \A i \in DOMAIN m_queue : m_queue[i] # dataID

\* The table, the free ids and the buffer agree, and the variables have their
\* types.
TablesOK == TypeOK /\ IdsOK /\ BufferMatchesTable

\* An event that addEvent was called with is in exactly one place from then
\* on: with its thread, pending, saved, with the main thread, dispatched or
\* discarded (by adoptBuffer or by a buffer that refused it).  None is
\* dispatched twice.
Places(e) ==
  {p \in {"thread", "pending", "table", "main", "delivered", "dropped"} :
     \/ p = "thread" /\ \E t \in Threads : posting[t] = e
     \/ p = "pending" /\ \E i \in DOMAIN m_pending : m_pending[i] = e
     \/ p = "table" /\ e \in Saved
     \/ p = "main" /\ event = e
     \/ p = "delivered" /\ \E i \in DOMAIN delivered : delivered[i] = e
     \/ p = "dropped" /\ e \in dropped}

EveryEventKept ==
  /\ \A t \in Threads : \A n \in 1..posted[t] :
       \E r \in BOOLEAN :
         /\ Cardinality(Places([thread |-> t, n |-> n, ready |-> r])) = 1
         /\ Places([thread |-> t, n |-> n, ready |-> ~r]) = {}
  /\ \A i, j \in DOMAIN delivered : delivered[i] = delivered[j] => i = j

\* The events that one thread posts to a ready queue are dispatched in the
\* order in which it posts them, and so are those it posts before.
OrderKept ==
  \A i, j \in DOMAIN delivered :
    /\ i < j
    /\ delivered[i].thread = delivered[j].thread
    /\ delivered[i].ready = delivered[j].ready
    => delivered[i].n < delivered[j].n

\* addEvent: an event posted to a ready queue is dispatched in the end, unless
\* it is discarded or the loop ends.
PostedDelivered ==
  \A t \in Posters : \A n \in 1..MaxPosts[t] :
    LET e == [thread |-> t, n |-> n, ready |-> TRUE]
    IN  posting[t] = e
          ~> \/ pc = "done"
             \/ e \in dropped
             \/ \E i \in DOMAIN delivered : delivered[i] = e

\* With a recurring timer the loop notices that its parent wants it to stop:
\* the test comes only before an event, so that something must wake it.
ShutdownSeen == shutdown ~> pc = "done"

(* What the documentation says, and the code does not always do *)

\* IEventQueue::addEvent: "Adds event to the end of the queue."  Once the loop
\* has moved the pending events to the queue, none is pending.
PendingDrained == pc \notin {"start", "drain", "add"} => m_pending = <<>>

=============================================================================
