CONSTANTS
  low = low
  high = high
  NoBand = NoBand
  NumChannels = 3
  Bands = {low, high}
  DutyInverse <- MCDutyInverse
  MaxPower <- MCMaxPower
  InitChannel <- MCInitChannel
  NumRates = 3
  Dbm <- MCDbm
  NumOffsets = 6
  Airs = {2}
  Rests = {0, 2}
  Rates = {0, 2, 3}
  TxPowers = {0, 1, 3}
  Masks <- MCMasks
  NewIndices = {0, 3}
  NewChannels <- MCNewChannels
  DutyCycles = {50, 100}
  Offsets = {6}
  NumSends = 3
  NumCommands = 2
  Horizon = 6
SPECIFICATION FairSpec
INVARIANTS TypeOK SomeChannelEnabled NullOnlyAfterCommand
PROPERTIES NoOverlap PostponedEnds
CHECK_DEADLOCK FALSE
