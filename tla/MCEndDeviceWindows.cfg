CONSTANTS
  NumPackets = 2
  Confirmed = TRUE
  AppFlag = FALSE
  CopyFlags = {FALSE}
  EdgeSize = FALSE
  MaxNumbTx = 2
  TxTime = 1
  DutyWait = 10
  Delay1 = 2
  Delay2 = 4
  Window = 1
  AckTimeouts = {2, 4}
  Contents = {"ack", "data", "other"}
  Durations = {2, 3}
  GapArrivals = FALSE
  Asserts = TRUE
  NumNoise = 0
SPECIFICATION FairSpec
PROPERTY TransmissionOpensWindows
CHECK_DEADLOCK FALSE
