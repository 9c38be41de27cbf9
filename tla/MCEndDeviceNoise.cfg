CONSTANTS
  NumPackets = 1
  Confirmed = TRUE
  AppFlag = FALSE
  CopyFlags = {TRUE}
  EdgeSize = FALSE
  MaxNumbTx = 2
  TxTime = 1
  DutyWait = 12
  Delay1 = 2
  Delay2 = 4
  Window = 1
  AckTimeouts = {2, 4}
  Contents = {"ack", "data", "other"}
  Durations = {2, 5}
  GapArrivals = TRUE
  Asserts = FALSE
  NumNoise = 2
SPECIFICATION Spec
INVARIANTS AttemptsBounded ReportedOnce
CHECK_DEADLOCK FALSE
