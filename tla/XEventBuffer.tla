---------------------------- MODULE XEventBuffer ----------------------------
(***************************************************************************)
(* XWindowsEventQueueBuffer (lib/platform/XWindowsEventQueueBuffer.cpp).   *)
(* An id added by any thread is posted to a list; the main thread, or the  *)
(* adding thread while the main thread waits, sends the list to the X      *)
(* server, which sends the ids back as client messages.                    *)
(*                                                                         *)
(* A step is what a thread does under m_mutex, or one system call.         *)
(***************************************************************************)
EXTENDS Integers, Sequences

CONSTANTS
  Ids,        \* the ids that can be added, each at most once
  NoID,       \* no id
  MaxSystem,  \* bound on the events that the X server generates itself
  PipeSize    \* capacity of the wake-up pipe

ASSUME IdsAssumption == NoID \notin Ids
ASSUME BoundsAssumption ==
  /\ MaxSystem \in Nat
  /\ PipeSize \in Nat

VARIABLES
  m_postedEvents,  \* ids not sent yet
  m_waiting,       \* addEvent may use the display connection
  sent,            \* ids at the X server or on the connection
  xqueue,          \* ids that XPending counts
  system,          \* system events that XPending counts
  generated,       \* system events generated so far
  pipe,            \* characters in the wake-up pipe
  main,            \* where the main thread is
  dataID,          \* the id that getEvent returned last
  added            \* the ids added so far

bufferVars == <<m_postedEvents, m_waiting, sent, xqueue, system, generated, pipe, main,
                dataID, added>>

BufferTypeOK ==
  /\ m_postedEvents \in Seq(Ids)
  /\ m_waiting \in BOOLEAN
  /\ sent \in Seq(Ids)
  /\ xqueue \in Seq(Ids)
  /\ system \in Nat
  /\ generated \in Nat
  /\ pipe \in 0..PipeSize
  /\ main \in {"idle", "clear", "mark", "recheck", "poll", "unmark", "get"}
  /\ dataID \in Ids \cup {NoID}
  /\ added \subseteq Ids

\* XPending: something can be read without waiting.
Pending == xqueue # <<>> \/ system > 0

\* Fault for FifoBuffer: the list is put before what was sent earlier.
Fault_Flush(posted) ==
  /\ sent' = posted \o sent
  /\ m_postedEvents' = <<>>

\* flush(), with m_mutex locked: the list is sent and cleared.
Flush(posted) ==
  /\ sent' = sent \o posted
  /\ m_postedEvents' = <<>>

\* The main thread reads at most 15 characters from the pipe.
ReadPipe == pipe' = IF pipe > 15 THEN pipe - 15 ELSE 0

\* addEvent: send at once if the main thread waits, and wake it.
AddEvent(id) ==
  /\ id \notin added
  /\ added' = added \cup {id}
  /\ \/ /\ m_waiting
        /\ Flush(Append(m_postedEvents, id))
        /\ pipe' = IF pipe < PipeSize THEN pipe + 1 ELSE pipe
     \/ /\ ~m_waiting
        /\ m_postedEvents' = Append(m_postedEvents, id)
        /\ UNCHANGED <<sent, pipe>>
  /\ UNCHANGED <<m_waiting, xqueue, system, generated, main, dataID>>

\* The X server returns a client message, or has an event of its own.
Arrive ==
  /\ sent # <<>>
  /\ xqueue' = Append(xqueue, Head(sent))
  /\ sent' = Tail(sent)
  /\ UNCHANGED <<m_postedEvents, m_waiting, system, generated, pipe, main, dataID,
                 added>>

SystemEvent ==
  /\ generated < MaxSystem
  /\ generated' = generated + 1
  /\ system' = system + 1
  /\ UNCHANGED <<m_postedEvents, m_waiting, sent, xqueue, pipe, main, dataID, added>>

\* isEmpty(), called by EventQueue::getEvent.
IsEmpty ==
  /\ main = "idle"
  /\ main' = IF Pending THEN "get" ELSE "clear"
  /\ UNCHANGED <<m_postedEvents, m_waiting, sent, xqueue, system, generated,
                 pipe, dataID, added>>

(* waitForEvent *)

ClearPipe ==
  /\ main = "clear"
  /\ ReadPipe
  /\ main' = "mark"
  /\ UNCHANGED <<m_postedEvents, m_waiting, sent, xqueue, system, generated,
                 dataID, added>>

\* Fault for BufferOK: what was posted before is not sent.
Fault_MarkWaiting ==
  /\ main = "mark"
  /\ m_waiting' = TRUE
  /\ main' = "recheck"
  /\ UNCHANGED <<m_postedEvents, sent, xqueue, system, generated, pipe, dataID,
                 added>>

MarkWaiting ==
  /\ main = "mark"
  /\ m_waiting' = TRUE
  /\ Flush(m_postedEvents)
  /\ main' = "recheck"
  /\ UNCHANGED <<xqueue, system, generated, pipe, dataID, added>>

\* "calling flush may have queued up a new event": waitForEvent then returns
\* and leaves m_waiting set.
Recheck ==
  /\ main = "recheck"
  /\ main' = IF Pending THEN "idle" ELSE "poll"
  /\ UNCHANGED <<m_postedEvents, m_waiting, sent, xqueue, system, generated,
                 pipe, dataID, added>>

\* Fault for AddedReturned: only the pipe ends the wait, not the connection.
Fault_PollReturns ==
  /\ main = "poll"
  /\ pipe > 0 /\ ReadPipe
  /\ main' = "unmark"
  /\ UNCHANGED <<m_postedEvents, m_waiting, sent, xqueue, system, generated,
                 dataID, added>>

\* The loop around poll() ends: its condition finds an event, or poll() finds
\* something to read.
PollReturns ==
  /\ main = "poll"
  /\ \/ Pending /\ UNCHANGED pipe
     \/ (Pending \/ pipe > 0) /\ ReadPipe
  /\ main' = "unmark"
  /\ UNCHANGED <<m_postedEvents, m_waiting, sent, xqueue, system, generated,
                 dataID, added>>

\* The loop ends because its timeout, if it has one, has passed.
PollTimesOut ==
  /\ main = "poll"
  /\ main' = "unmark"
  /\ UNCHANGED <<m_postedEvents, m_waiting, sent, xqueue, system, generated, pipe,
                 dataID, added>>

Unmark ==
  /\ main = "unmark"
  /\ m_waiting' = FALSE
  /\ main' = "idle"
  /\ UNCHANGED <<m_postedEvents, sent, xqueue, system, generated, pipe, dataID,
                 added>>

\* getEvent: XNextEvent after a flush.
GetEvent ==
  /\ main = "get"
  /\ main' = "idle"
  /\ Flush(m_postedEvents)
  /\ \/ /\ xqueue # <<>>
        /\ dataID' = Head(xqueue)
        /\ xqueue' = Tail(xqueue)
        /\ UNCHANGED system
     \/ /\ system > 0
        /\ system' = system - 1
        /\ UNCHANGED <<xqueue, dataID>>
  /\ UNCHANGED <<m_waiting, generated, pipe, added>>

-----------------------------------------------------------------------------
BufferInit ==
  /\ m_postedEvents = <<>>
  /\ m_waiting = FALSE
  /\ sent = <<>>
  /\ xqueue = <<>>
  /\ system = 0
  /\ generated = 0
  /\ pipe = 0
  /\ main = "idle"
  /\ dataID = NoID
  /\ added = {}

MainStep ==
  \/ IsEmpty
  \/ ClearPipe
  \/ MarkWaiting
  \/ Recheck
  \/ PollReturns
  \/ Unmark
  \/ GetEvent

BufferNext ==
  \/ \E id \in Ids : AddEvent(id)
  \/ Arrive
  \/ SystemEvent
  \/ PollTimesOut
  \/ MainStep

BufferSpec == BufferInit /\ [][BufferNext]_bufferVars

\* The main thread runs and the X server answers; no timeout is relied upon.
FairBufferSpec == BufferSpec /\ WF_bufferVars(MainStep) /\ WF_bufferVars(Arrive)

-----------------------------------------------------------------------------
(* Properties *)

\* The buffer is a queue: its elements are those that can be read, those under
\* way and those posted, in this order.
Buffer == INSTANCE EventBuffer
            WITH queue <- xqueue \o sent \o m_postedEvents

\* Whoever sends the list, and whenever: ids are returned by getEvent in the
\* order of the calls of addEvent, each once.
FifoBuffer == Buffer!Spec

\* While the main thread waits, addEvent leaves nothing in the list: what it
\* posts is sent to the X server, whose answer ends the wait.
NothingHeldBack == main \in {"recheck", "poll"} => m_postedEvents = <<>>

\* That, and the variables have their types, the pipe its bounds.
BufferOK == BufferTypeOK /\ NothingHeldBack

\* IEventQueueBuffer::addEvent: an id that is added is returned in the end,
\* also if the main thread sleeps without a timeout.
AddedReturned ==
  \A id \in Ids :
    (\E i \in DOMAIN (xqueue \o sent \o m_postedEvents) :
       (xqueue \o sent \o m_postedEvents)[i] = id) ~> dataID = id

=============================================================================
