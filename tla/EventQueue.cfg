SPECIFICATION FairSpec
CONSTANTS
  Main = Main
  Posters = {t1, t2}
  SignalThreads = {t2}
  MaxPosts <- MCFew
  HasTimers = TRUE
  NoEvent = NoEvent
INVARIANTS
  TablesOK
  EveryEventKept
  OrderKept
PROPERTIES
  PostedDelivered
  ShutdownSeen
CHECK_DEADLOCK FALSE
