SPECIFICATION Spec
CONSTANTS
  Pods = {p1, p2}
  Sandboxes = {a, b}
  TaskSandboxes = {a, b}
  NoSandbox = NoSandbox
  BufferMin = 0
  BufferMax = 1
  PoolMin = 0
  PoolMax = 2
  MaxReplicas = 1
  MaxRevision = 1
  MaxFaults = 0
  Env = {"lagPods", "lagSbx"}
INVARIANT ExclusiveAllocation
INVARIANT StatusAccurate
PROPERTY HeldPodsKept
SYMMETRY Symmetry
CHECK_DEADLOCK FALSE
