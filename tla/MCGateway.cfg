CONSTANTS
  s1 = s1
  s2 = s2
  s3 = s3
  s4 = s4
  d1 = d1
  d2 = d2
  d3 = d3
  narrow = narrow
  wide = wide
  NoEvent = NoEvent
  NumPaths = 2
  Signals = {s1, s2, s3, s4}
  Interferers = {s4}
  Downlinks = {d1, d2, d3}
  Bands = {narrow, wide}
  UnlimitedBands = {wide}
  BandOf <- MCBandOf
SPECIFICATION FairSpec
INVARIANTS TypeOK PathsMatchEvents HalfDuplex FlagNeverStuck OneTransmissionPerBand
PROPERTIES OneOutcome ReceptionEnds ImplementsPool
CHECK_DEADLOCK FALSE
