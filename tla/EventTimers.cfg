SPECIFICATION FairTimersSpec
CONSTANTS
  Timers = {t1, t2}
  Durations = {1, 3}
  MaxTime = 6
  MaxLost = 1
  NoTimer = NoTimer
INVARIANTS
  TimersOK
PROPERTIES
  FiringOK
  
CHECK_DEADLOCK FALSE
