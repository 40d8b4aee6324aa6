SPECIFICATION FairSpec
CONSTANTS
  Sandboxes = {s1, s2}
  s1 = s1
  s2 = s2
  i1 = i1
  NoSandbox = NoSandbox
  Main = Main
  Expiring = {s1}
  Mounting = {s2}
  Guarded = {s2}
  Threads = {i1}
  MaxTime = 2
  MaxRestarts = 1
  MaxFailures = 1
  Env = {"async", "queryFail", "expireFail", "deleteFail", "provisionFail"}
PROPERTY TrackingDropped
PROPERTY PendingResolved
CHECK_DEADLOCK FALSE
