SPECIFICATION Spec
CONSTANTS
  Tasks = {t1, t2}
  Pods = {p1, p2}
  t1 = t1
  t2 = t2
  p1 = p1
  p2 = p2
  Foreign = Foreign
  NoPod = NoPod
  NoTask = NoTask
  PolicyRelease = FALSE
  MaxRestarts = 1
  Env = {"late", "reuse", "podLoss"}
SYMMETRY Symmetry
INVARIANT OnePodPerTaskNode
INVARIANT RetainKeepsPods
CHECK_DEADLOCK FALSE
