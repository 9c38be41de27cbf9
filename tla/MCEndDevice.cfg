CONSTANTS
  NumPackets = 3
  Confirmed = TRUE
  AppFlag = FALSE
  CopyFlags = {TRUE}
  EdgeSize = FALSE
  MaxNumbTx = 3
  TxTime = 1
  DutyWait = 12
  Delay1 = 2
  Delay2 = 4
  Window = 1
  AckTimeouts = {2, 4}
  Contents = {"ack", "other"}
  Durations = {2, 5}
  GapArrivals = FALSE
  Asserts = TRUE
  NumNoise = 0
SPECIFICATION FairSpec
INVARIANTS TypeOK NoAbort RadioWillSleep WindowsUndisturbed OneProcedure AttemptsCounted ReportedOnce
PROPERTY EventuallyReported
CHECK_DEADLOCK FALSE
