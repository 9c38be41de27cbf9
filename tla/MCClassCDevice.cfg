CONSTANTS
  NumPackets = 2
  Confirmed = TRUE
  AppFlag = FALSE
  CopyFlags = {TRUE}
  EdgeSize = FALSE
  MaxNumbTx = 2
  TxTime = 2
  DutyWait = 0
  Delay1 = 4
  Delay2 = 10
  Window = 2
  AckTimeouts = {4}
  Contents = {"ack", "data", "other"}
  Durations = {1, 5}
  GapArrivals = FALSE
  Asserts = TRUE
  NumNoise = 1
SPECIFICATION ClassCSpec
INVARIANT AcknowledgedNotFailed
CHECK_DEADLOCK FALSE
