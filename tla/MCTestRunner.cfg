CONSTANTS
  suite1 = suite1
  suite2 = suite2
  example1 = example1
  example2 = example2
  w1 = w1
  w2 = w2
  Break = Break
  Jobs <- MCJobs
  Suites = {suite1, suite2}
  Skipped = {suite2}
  Workers = {w1, w2}
  SpawnMayFail = TRUE
  Translate = TRUE
SPECIFICATION FairSpec
INVARIANTS TypeOK NoJobLost WorkersStayForWork ExitCodeHonest
PROPERTY Terminates
CHECK_DEADLOCK FALSE
