CONSTANTS
  d1 = d1
  d2 = d2
  Devices = {d1}
  Confirmed = {}
  ClassC = {}
  Gateways = {1, 2}
  Powers = {1, 2}
  EqualPowers = FALSE
  LinkChecks = {}
  MinGap = 3
  CounterSize = 2
  AirTime = 2
  NumUplinks <- MCThree
  DutyWait <- MCDutyWait
SPECIFICATION Spec
INVARIANTS LastIsLatest
