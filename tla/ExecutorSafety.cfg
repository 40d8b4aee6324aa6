SPECIFICATION Spec
CONSTANTS
  Tasks = {t1, t2}
  t1 = t1
  t2 = t2
  NoName = NoName
  MaxStarts = 2
  MaxRestarts = 1
  Env = {"timeout", "startFail"}
SYMMETRY Symmetry
INVARIANT TypeOK
INVARIANT OneActiveTask
INVARIANT DeletionDurable
INVARIANT ShimsTracked
