CONSTANTS
  d1 = d1
  d2 = d2
  Devices = {d1, d2}
  Confirmed = {d1}
  ClassC = {d2}
  Gateways = {1, 2}
  Powers = {1, 2}
  EqualPowers = FALSE
  LinkChecks = {d2}
  MinGap = 3
  CounterSize = 256
  AirTime = 2
  NumUplinks <- MCTwo
  DutyWait <- MCDutyWait
SPECIFICATION FairSpec
INVARIANTS TypeOK LastIsLatest RepliesInWindow RepliesAdvance AllGatewaysCounted
PROPERTIES UsedWhenPossible BestGatewayUsed ReplyResolved
