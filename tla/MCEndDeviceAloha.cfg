CONSTANTS
  NumPackets = 1
  Confirmed = TRUE
  AppFlag = FALSE
  CopyFlags = {TRUE}
  EdgeSize = FALSE
  MaxNumbTx = 4
  TxTime = 1
  DutyWait = 0
  Delay1 = 4
  Delay2 = 8
  Window = 1
  AckTimeouts = {4, 12}
  Contents = {"ack", "data", "other"}
  Durations = {2, 5, 14}
  GapArrivals = TRUE
  Asserts = TRUE
  NumNoise = 0
SPECIFICATION Spec
INVARIANT AttemptsBounded
PROPERTY AckTimeoutRespected
CHECK_DEADLOCK FALSE
