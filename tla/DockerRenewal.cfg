SPECIFICATION Spec
CONSTANTS
  Sandboxes = {s1}
  s1 = s1
  i1 = i1
  NoSandbox = NoSandbox
  Main = Main
  Expiring = {s1}
  Mounting = {}
  Guarded = {}
  Threads = {i1}
  MaxTime = 3
  MaxRestarts = 1
  MaxFailures = 0
  Env = {"renew"}
INVARIANT PromiseKept
CHECK_DEADLOCK FALSE
