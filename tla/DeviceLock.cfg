SPECIFICATION FairSpec
CONSTANTS
  a = a
  b = b
  c = c
  e = e
  d1 = d1
  d2 = d2
  d3 = d3
  Workers = {a, b, c, e}
  Devices = {d1, d2, d3}
  Accel <- MCAccel
  Mortal = {a}
  None = None
INVARIANTS
  MutualExclusion
  NothingRaised
  SameOrderEverywhere
  IInv
PROPERTIES
  BlockedOnlyByTheDead
  ImplementsDeviceMutex
CHECK_DEADLOCK FALSE
