CONSTANTS
  NumPackets = 2
  Confirmed = TRUE
  AppFlag = FALSE
  CopyFlags = {TRUE}
  EdgeSize = FALSE
  MaxNumbTx = 2
  TxTime = 1
  DutyWait = 0
  Delay1 = 4
  Delay2 = 8
  Window = 1
  AckTimeouts = {4, 12}
  Contents = {"ack", "data", "other"}
  Durations = {2, 5}
  GapArrivals = FALSE
  Asserts = TRUE
  NumNoise = 0
SPECIFICATION Spec
INVARIANT AttemptsBounded
CHECK_DEADLOCK FALSE
