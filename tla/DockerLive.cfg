SPECIFICATION FairSpec
CONSTANTS
  Sandboxes = {s1}
  s1 = s1
  i1 = i1
  i2 = i2
  NoSandbox = NoSandbox
  Main = Main
  Expiring = {s1}
  Mounting = {s1}
  Guarded = {s1}
  Threads = {i1, i2}
  MaxTime = 3
  MaxRestarts = 1
  MaxFailures = 0
  Env = {"async", "renew", "get"}
INVARIANT TypeOK
INVARIANT ExpiryArmed
INVARIANT ProvisioningVisible
PROPERTY ExpiredTerminated
PROPERTY SidecarCollected
CHECK_DEADLOCK FALSE
