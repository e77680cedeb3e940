---------------------------- MODULE EventTimers -----------------------------
(***************************************************************************)
(* The timers of EventQueue (lib/base/EventQueue.cpp): each counts down    *)
(* the time that the stopwatch m_time shows between two checks.  Time is   *)
(* counted in units; a clock read twice may show two different times.      *)
(***************************************************************************)
EXTENDS Integers, FiniteSets, Functions

CONSTANTS
  Timers,     \* addresses of timers
  Durations,  \* their possible durations
  MaxTime,    \* bound on the clock
  MaxLost,    \* bound on the time that passes between two readings of it
  NoTimer     \* no timer

ASSUME DurationsAssumption == Durations \subseteq Nat \ {0}
ASSUME TimeAssumption == MaxTime \in Nat /\ MaxLost \in Nat
ASSUME NoTimerAssumption == NoTimer \notin Timers

VARIABLES
  now,           \* the clock
  mark,          \* when the stopwatch m_time was reset last
  m_timers,      \* timers allocated
  m_timerQueue,  \* timer -> what it has left to count, its duration, its kind
  event,         \* the last timer event: the timer and m_count, and (history)
                 \* when it was and how long the timer had run
  since,         \* history: when a timer was made or last fired
  lost           \* history: time that no timer has counted

timerVars == <<now, mark, m_timers, m_timerQueue, event, since, lost>>

Records == [timeout : Durations, time : Int, oneShot : BOOLEAN]
Queued == DOMAIN m_timerQueue

TimersTypeOK ==
  /\ now \in 0..MaxTime
  /\ mark \in 0..now
  /\ m_timers \subseteq Timers
  /\ Queued \subseteq m_timers
  /\ \A t \in Queued : m_timerQueue[t] \in Records
  /\ event \in [timer : Timers \cup {NoTimer}, count : Nat, at : 0..now,
               ran : 0..now]
  /\ since \in [Timers -> 0..now]
  /\ lost \in 0..MaxLost

\* What m_time.getTime() returns.
Elapsed == now - mark

\* Fault for TimersOK: the time on the stopwatch is not added.
Fault_FirstTime(d) == d

\* "initial duration is requested duration plus whatever's on the clock"
FirstTime(d) == d + Elapsed

\* newTimer and newOneShotTimer.
NewTimer(t, d, oneShot) ==
  /\ t \notin m_timers
  /\ m_timers' = m_timers \cup {t}
  /\ m_timerQueue' = [u \in Queued \cup {t} |->
       IF u = t THEN [timeout |-> d, time |-> FirstTime(d), oneShot |-> oneShot]
       ELSE m_timerQueue[u]]
  /\ since' = [since EXCEPT ![t] = now]
  /\ UNCHANGED <<now, mark, event, lost>>

DeleteTimer(t) ==
  /\ t \in m_timers
  /\ m_timers' = m_timers \ {t}
  /\ m_timerQueue' = Restrict(m_timerQueue, Queued \ {t})
  /\ UNCHANGED <<now, mark, event, since, lost>>

\* The queue after the elapsed time has been subtracted from every timer.
Countdown == [t \in Queued |-> [m_timerQueue[t] EXCEPT !.time = @ - Elapsed]]

\* Fault for FiringOK: any expired timer will do.
Fault_Tops(queue) == {t \in DOMAIN queue : queue[t].time <= 0}

\* The timers that m_timerQueue.top() may be.
Tops(queue) == {t \in DOMAIN queue :
                  \A u \in DOMAIN queue : queue[t].time <= queue[u].time}

\* m_count in Timer::fillEvent, for a timer that has expired.
Count(r) == (r.timeout - r.time) \div r.timeout

\* A timer that is not a one-shot is put back with its whole duration.
Reinsert(queue, t) ==
  IF queue[t].oneShot THEN Restrict(queue, DOMAIN queue \ {t})
  ELSE [queue EXCEPT ![t].time = queue[t].timeout]

\* Fault for DueFires: the early return is always taken.
Fault_HasTimerExpired(later) ==
  /\ Queued # {}
  /\ now' = later
  /\ mark' = later
  /\ lost' = lost + later - now
  /\ m_timerQueue' = Countdown
  /\ UNCHANGED <<m_timers, event, since>>

\* hasTimerExpired: the clock is read by getTime() and, later, by reset().
HasTimerExpired(later) ==
  /\ Queued # {}
  /\ now' = later
  /\ mark' = later
  /\ lost' = lost + later - now
  /\ \/ /\ \A t \in Queued : Countdown[t].time > 0
        /\ m_timerQueue' = Countdown
        /\ UNCHANGED <<event, since>>
     \/ \E t \in Tops(Countdown) :
          /\ Countdown[t].time <= 0
          /\ event' = [timer |-> t, count |-> Count(Countdown[t]), at |-> now,
                       ran |-> now - since[t]]
          /\ m_timerQueue' = Reinsert(Countdown, t)
          /\ since' = [since EXCEPT ![t] = now]
  /\ UNCHANGED m_timers

Tick ==
  /\ now < MaxTime
  /\ now' = now + 1
  /\ UNCHANGED <<mark, m_timers, m_timerQueue, event, since, lost>>

-----------------------------------------------------------------------------
TimersInit ==
  /\ now = 0
  /\ mark = 0
  /\ m_timers = {}
  /\ m_timerQueue = [t \in {} |-> 0]
  /\ event = [timer |-> NoTimer, count |-> 0, at |-> 0, ran |-> 0]
  /\ since = [t \in Timers |-> 0]
  /\ lost = 0

Check ==
  \E later \in now..MaxTime :
    /\ lost + later - now <= MaxLost
    /\ HasTimerExpired(later)

TimersNext ==
  \/ \E t \in Timers, d \in Durations, oneShot \in BOOLEAN : NewTimer(t, d, oneShot)
  \/ \E t \in Timers : DeleteTimer(t)
  \/ Check
  \/ Tick

TimersSpec == TimersInit /\ [][TimersNext]_timerVars

\* loop() calls hasTimerExpired again and again while the buffer is empty.
FairTimersSpec == TimersSpec /\ WF_timerVars(Check)

-----------------------------------------------------------------------------
(* Properties *)

\* No timer fires before its duration has passed since it was made or last
\* fired, whatever was on the stopwatch when it was made and however late the
\* other timers are served, nor later by more than the time that is lost
\* between getTime() and reset(): what it has left to count is what is missing.
CountdownExact ==
  \A t \in Queued :
    LET missing == m_timerQueue[t].timeout - (now - since[t])
    IN  m_timerQueue[t].time - Elapsed \in missing..(missing + lost)

\* That, and the variables have their types.
TimersOK == TimersTypeOK /\ CountdownExact

\* hasTimerExpired: an event is for a timer that nothing else has been waiting
\* longer than, so that a short timer cannot keep a long one from firing.
LongestDueFirst ==
  [][event' # event => \A t \in Queued :
       Countdown[t].time >= Countdown[event'.timer].time]_timerVars

\* m_count "indicates how many events for the timer would have been put on the
\* queue": at least one, and never more than fit into the time since the last.
CountNotAhead ==
  [][event' # event =>
       /\ event'.count >= 1
       /\ event'.count * m_timerQueue[event'.timer].timeout <= event'.ran]_timerVars

\* What fires, and what its event says, is right.
FiringOK == LongestDueFirst /\ CountNotAhead

\* A timer whose time is over by the clock, the time lost aside, fires or is
\* deleted: it never waits behind the others for good.
Due(t) == t \in Queued /\ now - since[t] >= m_timerQueue[t].timeout + MaxLost

DueFires == \A t \in Timers : Due(t) ~> ~Due(t)

=============================================================================
