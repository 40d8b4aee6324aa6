SPECIFICATION Spec
CONSTANTS
  Sandboxes = {s1, s2, s3}
  s1 = s1
  s2 = s2
  s3 = s3
  i1 = i1
  NoSandbox = NoSandbox
  Main = Main
  Expiring = {s1}
  Mounting = {s2, s3}
  Guarded = {}
  Threads = {i1}
  MaxTime = 3
  MaxRestarts = 1
  MaxFailures = 0
  Env = {"renew"}
INVARIANT RenewalInForce
INVARIANT MountHeld
INVARIANT MountsCounted
CHECK_DEADLOCK FALSE
