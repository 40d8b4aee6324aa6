SPECIFICATION FairSpec
CONSTANTS
  Pods = {p1, p2, p3}
  Sandboxes = {a}
  TaskSandboxes = {}
  NoSandbox = NoSandbox
  BufferMin = 0
  BufferMax = 1
  PoolMin = 0
  PoolMax = 2
  MaxReplicas = 1
  MaxRevision = 2
  MaxFaults = 0
  Env = {"lagPods"}
PROPERTY HeldPodsKept
PROPERTY SandboxServed
PROPERTY TemplateRolledOut
CHECK_DEADLOCK FALSE
