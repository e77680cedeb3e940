SPECIFICATION MuxFairSpec
CONSTANTS
  Service = Service
  Users = {u1, u2}
  Sockets = {s1, s2}
  Jobs = {j1}
  NoJob = NoJob
  NoThread = NoThread
  MaxCalls = 4
INVARIANTS
  PollMatchesJobs
  RemovedNeverRuns
  ListsOK
PROPERTIES
  LockKeepsPromise
  AddedIsPolled
CHECK_DEADLOCK FALSE
