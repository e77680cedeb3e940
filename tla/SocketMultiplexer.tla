------------------------- MODULE SocketMultiplexer --------------------------
(***************************************************************************)
(* SocketMultiplexer (lib/net/SocketMultiplexer.cpp).  The service thread  *)
(* polls the sockets and runs their jobs while it holds the job list; any  *)
(* other thread edits the list with addSocket and removeSocket.  The list  *)
(* has a lock in two stages: whoever has the first, m_jobListLockLocked,   *)
(* breaks the service thread out of its poll and is the next to get the    *)
(* second, m_jobListLock.                                                  *)
(*                                                                         *)
(* A step is what a thread does under m_mutex, or with the list locked.    *)
(***************************************************************************)
EXTENDS Integers, Sequences

CONSTANTS
  Service,   \* the service thread
  Users,     \* the other threads
  Sockets,   \* the sockets
  Jobs,      \* the jobs a socket may have: what it waits for, and its method
  NoJob,     \* a null job
  NoThread,  \* an unlocked lock
  MaxCalls   \* bound on the calls of the users

ASSUME ThreadsAssumption ==
  /\ Service \notin Users
  /\ NoThread \notin Users \cup {Service}
  /\ NoJob \notin Jobs
  /\ MaxCalls \in Nat

VARIABLES
  lockLocker,    \* m_jobListLockLocked and m_jobListLockLocker
  listLocker,    \* m_jobListLock and m_jobListLocker
  m_jobsReady,   \* the service thread has something to do
  m_update,      \* the list has changed since pfds was made
  m_socketJobs,  \* the list: sockets in the order of their jobs
  job,           \* the job of a socket, null when it is not in the list
  pfds,          \* what is polled: sockets and jobs
  entry,         \* the poll entry that is looked at
  cursor,        \* the place in the list that the cursor has passed
  unblocked,     \* unblockPollSocket was called and poll has not seen it
  pc,            \* where a thread is
  call,          \* the user's call: the socket and its new job, null to remove
  calls,         \* how many calls the users have made
  removed        \* history: sockets removed and not added again

lockerVars == <<lockLocker, listLocker>>
listVars == <<m_update, m_socketJobs, job, removed>>
pollVars == <<pfds, entry, cursor>>
callVars == <<call, calls>>
muxVars == <<lockerVars, m_jobsReady, listVars, pollVars, unblocked, pc, callVars>>

Threads == Users \cup {Service}

\* What a thread is about to do.
Labels == {"idle", "lockLock", "unblock", "lock", "edit", "poll", "next", "running",
           "cleanup", "unlock"}

MuxTypeOK ==
  /\ lockLocker \in Threads \cup {NoThread}
  /\ listLocker \in Threads \cup {NoThread}
  /\ m_jobsReady \in BOOLEAN
  /\ m_update \in BOOLEAN
  /\ m_socketJobs \in Seq(Sockets)
  /\ job \in [Sockets -> Jobs \cup {NoJob}]
  /\ pfds \in Seq([socket : Sockets, job : Jobs])
  /\ entry \in 1..(Len(pfds) + 1)
  /\ cursor \in 0..Len(m_socketJobs)
  /\ unblocked \in BOOLEAN
  /\ pc \in [Threads -> Labels]
  /\ call \in [Users -> [socket : Sockets, job : Jobs \cup {NoJob}]]
  /\ calls \in 0..MaxCalls
  /\ removed \subseteq Sockets

Goto(t, label) == pc' = [pc EXCEPT ![t] = label]

InList == {m_socketJobs[i] : i \in DOMAIN m_socketJobs}

\* The places in the list that hold a job, and the ways to walk through them
\* with a cursor: each place once, in the order of the list.
LivePlaces == {i \in DOMAIN m_socketJobs : job[m_socketJobs[i]] # NoJob}

Walks ==
  {at \in UNION {[1..n -> LivePlaces] : n \in 0..Len(m_socketJobs)} :
     /\ \A i, j \in DOMAIN at : i < j => at[i] < at[j]
     /\ \A p \in LivePlaces : \E i \in DOMAIN at : at[i] = p}

-----------------------------------------------------------------------------
(* The locks *)

LockJobListLock(t) ==
  /\ pc[t] = "lockLock"
  /\ lockLocker = NoThread
  /\ lockLocker' = t
  /\ Goto(t, IF t = Service THEN "lock" ELSE "unblock")
  /\ UNCHANGED <<listLocker, m_jobsReady, listVars, pollVars, unblocked, callVars>>

LockJobList(t) ==
  /\ pc[t] = "lock"
  /\ listLocker = NoThread
  /\ listLocker' = t
  /\ lockLocker' = NoThread
  /\ Goto(t, "edit")
  /\ UNCHANGED <<m_jobsReady, listVars, pollVars, unblocked, callVars>>

UnlockJobList(t) ==
  /\ pc[t] = "unlock"
  /\ listLocker' = NoThread
  /\ m_jobsReady' = (m_socketJobs # <<>>)
  /\ Goto(t, "idle")
  /\ UNCHANGED <<lockLocker, listVars, pollVars, unblocked, callVars>>

-----------------------------------------------------------------------------
(* addSocket and removeSocket, in another thread *)

Call(t, s, j) ==
  /\ pc[t] = "idle"
  /\ calls < MaxCalls
  /\ calls' = calls + 1
  /\ call' = [call EXCEPT ![t] = [socket |-> s, job |-> j]]
  /\ Goto(t, "lockLock")
  /\ UNCHANGED <<lockerVars, m_jobsReady, listVars, pollVars, unblocked>>

\* Fault for LockKeepsPromise: the service thread is left in its poll.
Fault_UnblockPollSocket(t) ==
  /\ pc[t] = "unblock"
  /\ Goto(t, "lock")
  /\ UNCHANGED <<lockerVars, m_jobsReady, listVars, pollVars, unblocked, callVars>>

UnblockPollSocket(t) ==
  /\ pc[t] = "unblock"
  /\ unblocked' = TRUE
  /\ Goto(t, "lock")
  /\ UNCHANGED <<lockerVars, m_jobsReady, listVars, pollVars, callVars>>

\* "we *must* put the job at the end": a socket that has an entry keeps it.
Added(s) == IF s \in InList THEN m_socketJobs ELSE Append(m_socketJobs, s)

AddSocket(t) ==
  /\ pc[t] = "edit" /\ t \in Users
  /\ call[t].job # NoJob
  /\ m_socketJobs' = Added(call[t].socket)
  /\ job' = [job EXCEPT ![call[t].socket] = call[t].job]
  /\ m_update' = TRUE
  /\ removed' = removed \ {call[t].socket}
  /\ Goto(t, "unlock")
  /\ UNCHANGED <<lockerVars, m_jobsReady, pollVars, unblocked, callVars>>

\* Fault for PollMatchesJobs: the poll entries are kept.
Fault_RemoveSocket(t) ==
  /\ pc[t] = "edit" /\ t \in Users
  /\ call[t].job = NoJob
  /\ job' = [job EXCEPT ![call[t].socket] = NoJob]
  /\ removed' = removed \cup {call[t].socket}
  /\ Goto(t, "unlock")
  /\ UNCHANGED <<lockerVars, m_jobsReady, m_update, m_socketJobs, pollVars,
                 unblocked, callVars>>

\* Fault for RemovedNeverRuns: the job is left in its entry.
Fault_RemoveNothing(t) ==
  /\ pc[t] = "edit" /\ t \in Users
  /\ call[t].job = NoJob
  /\ m_update' = TRUE
  /\ removed' = removed \cup {call[t].socket}
  /\ Goto(t, "unlock")
  /\ UNCHANGED <<lockerVars, m_jobsReady, m_socketJobs, job, pollVars, unblocked,
                 callVars>>

\* The entry stays in the list with a null job.
RemoveSocket(t) ==
  /\ pc[t] = "edit" /\ t \in Users
  /\ call[t].job = NoJob
  /\ job' = [job EXCEPT ![call[t].socket] = NoJob]
  /\ m_update' = (m_update \/ job[call[t].socket] # NoJob)
  /\ removed' = removed \cup {call[t].socket}
  /\ Goto(t, "unlock")
  /\ UNCHANGED <<lockerVars, m_jobsReady, m_socketJobs, pollVars, unblocked,
                 callVars>>

-----------------------------------------------------------------------------
(* service_thread *)

\* Fault for AddedIsPolled: the service thread works once only.
Fault_WaitForJobs ==
  /\ pc[Service] = "idle"
  /\ m_jobsReady /\ pfds = <<>>
  /\ Goto(Service, "lockLock")
  /\ UNCHANGED <<lockerVars, m_jobsReady, listVars, pollVars, unblocked, callVars>>

WaitForJobs ==
  /\ pc[Service] = "idle"
  /\ m_jobsReady
  /\ Goto(Service, "lockLock")
  /\ UNCHANGED <<lockerVars, m_jobsReady, listVars, pollVars, unblocked, callVars>>

\* The poll entries are made anew if the list has changed.
Collect ==
  /\ pc[Service] = "edit"
  /\ m_update' = FALSE
  /\ \/ ~m_update /\ UNCHANGED pfds
     \/ /\ m_update
        /\ \E at \in Walks :
             pfds' = [i \in DOMAIN at |-> [socket |-> m_socketJobs[at[i]],
                                          job |-> job[m_socketJobs[at[i]]]]]
  /\ entry' = 1
  /\ cursor' = 0
  /\ Goto(Service, "poll")
  /\ UNCHANGED <<lockerVars, m_jobsReady, m_socketJobs, job, removed, unblocked,
                 callVars>>

\* Poll nothing; or be broken out of the poll, with or without sockets that
\* are ready; or find such sockets, or fail.
PollSocket ==
  /\ pc[Service] = "poll"
  /\ \/ /\ pfds = <<>>
        /\ Goto(Service, "cleanup")
        /\ UNCHANGED unblocked
     \/ /\ pfds # <<>> /\ unblocked
        /\ unblocked' = FALSE
        /\ \E label \in {"next", "cleanup"} : Goto(Service, label)
     \/ /\ pfds # <<>>
        /\ \E label \in {"next", "cleanup"} : Goto(Service, label)
        /\ UNCHANGED unblocked
  /\ UNCHANGED <<lockerVars, m_jobsReady, listVars, pollVars, callVars>>

\* The places of jobs behind the cursor.
Behind == {i \in LivePlaces : i > cursor}

\* nextCursor, and the job there is run with the events of the poll entry.
RunJob ==
  /\ pc[Service] = "next"
  /\ entry <= Len(pfds)
  /\ \E i \in Behind : (\A j \in Behind : i <= j) /\ cursor' = i
  /\ Goto(Service, "running")
  /\ UNCHANGED <<lockerVars, m_jobsReady, listVars, pfds, entry, unblocked, callVars>>

EndOfJobs ==
  /\ pc[Service] = "next"
  /\ entry > Len(pfds) \/ Behind = {}
  /\ Goto(Service, "cleanup")
  /\ UNCHANGED <<lockerVars, m_jobsReady, listVars, pollVars, unblocked, callVars>>

\* The job returns: the socket keeps it, is not served any longer, or gets a
\* new one.
JobReturns(new) ==
  /\ pc[Service] = "running"
  /\ job' = [job EXCEPT ![m_socketJobs[cursor]] = new]
  /\ m_update' = (m_update \/ new # job[m_socketJobs[cursor]])
  /\ entry' = entry + 1
  /\ Goto(Service, "next")
  /\ UNCHANGED <<lockerVars, m_jobsReady, m_socketJobs, removed, pfds, cursor,
                 unblocked, callVars>>

\* Fault for ListsOK: null jobs are left in the list.
Fault_Cleanup ==
  /\ pc[Service] = "cleanup"
  /\ cursor' = 0
  /\ Goto(Service, "unlock")
  /\ UNCHANGED <<lockerVars, m_jobsReady, listVars, pfds, entry, unblocked, callVars>>

\* "delete any removed socket jobs"
Cleanup ==
  /\ pc[Service] = "cleanup"
  /\ \/ /\ LivePlaces = DOMAIN m_socketJobs
        /\ UNCHANGED <<m_socketJobs, m_update>>
     \/ /\ LivePlaces # DOMAIN m_socketJobs
        /\ \E at \in Walks : m_socketJobs' = [i \in DOMAIN at |-> m_socketJobs[at[i]]]
        /\ m_update' = TRUE
  /\ cursor' = 0
  /\ Goto(Service, "unlock")
  /\ UNCHANGED <<lockerVars, m_jobsReady, job, removed, pfds, entry, unblocked,
                 callVars>>

-----------------------------------------------------------------------------
MuxInit ==
  /\ lockLocker = NoThread
  /\ listLocker = NoThread
  /\ m_jobsReady = FALSE
  /\ m_update = FALSE
  /\ m_socketJobs = <<>>
  /\ job = [s \in Sockets |-> NoJob]
  /\ pfds = <<>>
  /\ entry = 1
  /\ cursor = 0
  /\ unblocked = FALSE
  /\ pc = [t \in Threads |-> "idle"]
  /\ call \in [Users -> {[socket |-> s, job |-> NoJob] : s \in Sockets}]
  /\ calls = 0
  /\ removed = {}

Locks(t) == LockJobListLock(t) \/ LockJobList(t) \/ UnlockJobList(t)

ServiceStep ==
  \/ Locks(Service)
  \/ WaitForJobs
  \/ Collect
  \/ RunJob
  \/ EndOfJobs
  \/ \E new \in Jobs \cup {NoJob} : JobReturns(new)
  \/ Cleanup

\* What a user does once it has called.
UserStep(t) ==
  \/ Locks(t)
  \/ UnblockPollSocket(t)
  \/ AddSocket(t)
  \/ RemoveSocket(t)

MuxNext ==
  \/ ServiceStep
  \/ PollSocket
  \/ \E t \in Users :
       \/ \E s \in Sockets, j \in Jobs \cup {NoJob} : Call(t, s, j)
       \/ UserStep(t)

MuxSpec == MuxInit /\ [][MuxNext]_muxVars

\* Threads run and jobs return; poll returns when it is broken or has nothing
\* to poll, and need not return otherwise.
MuxFairSpec ==
  /\ MuxSpec
  /\ WF_muxVars(ServiceStep)
  /\ WF_muxVars(PollSocket /\ (unblocked \/ pfds = <<>>))
  /\ \A t \in Users : WF_muxVars(UserStep(t))

\* A job calls addSocket or removeSocket itself: it locks the lock, and waits
\* for the list.
NestedCall ==
  /\ pc[Service] = "running"
  /\ lockLocker = NoThread
  /\ lockLocker' = Service
  /\ unblocked' = TRUE
  /\ Goto(Service, "lock")
  /\ UNCHANGED <<listLocker, m_jobsReady, listVars, pollVars, callVars>>

NestedSpec == MuxInit /\ [][MuxNext \/ NestedCall]_muxVars

-----------------------------------------------------------------------------
(* Properties *)

\* run() gets the events of its own poll entry: the job that the cursor finds
\* is the one that was polled, although entries are counted in pfds and jobs
\* in a list with holes in it.
PollMatchesJobs ==
  pc[Service] = "running" =>
    /\ pfds[entry].socket = m_socketJobs[cursor]
    /\ pfds[entry].job = job[m_socketJobs[cursor]]

\* Once removeSocket has returned, the job does not run, nor is it running:
\* close() destroys the object that the job refers to.
RemovedNeverRuns == pc[Service] = "running" => m_socketJobs[cursor] \notin removed

\* The asserts of lockJobList and unlockJobList: the caller has the lock that
\* it is about to pass on or to release.
LocksOwned ==
  \A t \in Threads :
    /\ pc[t] \in {"unblock", "lock"} => lockLocker = t
    /\ pc[t] \in {"edit", "unlock", "poll", "next", "running", "cleanup"}
         => listLocker = t

\* While no thread has the list, the service thread is told to work iff there
\* is an entry, so that it neither sleeps through a socket nor spins.
JobsReadyOK == listLocker = NoThread => m_jobsReady = (m_socketJobs # <<>>)

\* Each socket has one entry at most, and a socket with a job has one: the
\* service thread frees only entries whose job is gone.
EntriesHaveJobs ==
  /\ \A i, j \in DOMAIN m_socketJobs : m_socketJobs[i] = m_socketJobs[j] => i = j
  /\ \A s \in Sockets : job[s] # NoJob => s \in InList
  /\ pc[Service] = "unlock" => LivePlaces = DOMAIN m_socketJobs

\* The locks, the flag and the two tables of jobs agree, and the cursors are
\* inside their lists.
ListsOK == MuxTypeOK /\ LocksOwned /\ JobsReadyOK /\ EntriesHaveJobs

\* lockJobListLock: "once it returns, only the calling thread will be able to
\* lock the job list after any current lock is released": a user that has it
\* completes its call, though the service thread polls without a timeout.
LockKeepsPromise == \A t \in Users : pc[t] = "unblock" ~> pc[t] = "idle"

\* A job that was added is polled or replaced: the service thread is woken and
\* makes its poll entries anew.
AddedIsPolled ==
  \A s \in Sockets, j \in Jobs :
    job[s] = j ~> \/ job[s] # j
                  \/ \E i \in DOMAIN pfds : pfds[i] = [socket |-> s, job |-> j]

(* What the documentation says, and the code does not always do *)

\* ISocketMultiplexerJob::run "can, however, add or remove jobs for other
\* sockets": the thread that waits for the list is not the one that has it.
NoSelfWait == ~(pc[Service] = "lock" /\ listLocker = Service)

=============================================================================
