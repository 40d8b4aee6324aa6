SPECIFICATION FairSpec
CONSTANTS
  Tasks = {t1, t2}
  Pods = {p1, p2}
  t1 = t1
  t2 = t2
  p1 = p1
  p2 = p2
  Foreign = Foreign
  NoPod = NoPod
  NoTask = NoTask
  PolicyRelease = TRUE
  MaxRestarts = 1
  Env = {"patchFail"}
INVARIANT TypeOK
INVARIANT ReleasedPodsIdle
INVARIANT TasksStoppedFirst
PROPERTY DeletionCompletes
PROPERTY CompletedReleased
PROPERTY AssignedStarted
PROPERTY NoRerun
CHECK_DEADLOCK FALSE
