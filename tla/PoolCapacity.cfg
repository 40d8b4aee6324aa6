SPECIFICATION Spec
CONSTANTS
  Pods = {p1, p2}
  Sandboxes = {a}
  TaskSandboxes = {}
  NoSandbox = NoSandbox
  BufferMin = 0
  BufferMax = 1
  PoolMin = 0
  PoolMax = 1
  MaxReplicas = 1
  MaxRevision = 1
  MaxFaults = 2
  Env = {"lagPool", "lagPods", "lagSbx", "persistFail", "patchFail", "resize", "crash",
         "podCallFail", "podLoss", "createUnknown"}
INVARIANT TypeOK
INVARIANT CapacityRespected
INVARIANT CreationsTracked
PROPERTY NoUpdateLost
SYMMETRY Symmetry
CHECK_DEADLOCK FALSE
