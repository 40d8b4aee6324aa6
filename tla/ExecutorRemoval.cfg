SPECIFICATION FairSpec
CONSTANTS
  Tasks = {t1}
  t1 = t1
  NoName = NoName
  MaxStarts = 2
  MaxRestarts = 0
  Env = {"timeout", "storeFail", "startFail"}
PROPERTY DeletedTaskRemoved
PROPERTY ExitCodeReported
