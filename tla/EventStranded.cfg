SPECIFICATION Spec
CONSTANTS
  Main = Main
  Posters = {t1}
  SignalThreads = {}
  MaxPosts <- MCFew
  HasTimers = FALSE
  NoEvent = NoEvent
INVARIANT PendingDrained
CHECK_DEADLOCK FALSE
