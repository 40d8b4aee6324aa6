SPECIFICATION Spec
CONSTANTS
  Tasks = {t1, t2}
  Pods = {p1, p2}
  t1 = t1
  t2 = t2
  p1 = p1
  p2 = p2
  Foreign = Foreign
  NoPod = NoPod
  NoTask = NoTask
  PolicyRelease = TRUE
  MaxRestarts = 0
  Env = {"loss"}
SYMMETRY Symmetry
INVARIANT TasksStoppedFirst
CHECK_DEADLOCK FALSE
