SPECIFICATION NestedSpec
CONSTANTS
  Service = Service
  Users = {u1}
  Sockets = {s1, s2}
  Jobs = {j1}
  NoJob = NoJob
  NoThread = NoThread
  MaxCalls = 2
INVARIANT NoSelfWait
CHECK_DEADLOCK FALSE
