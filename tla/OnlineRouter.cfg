SPECIFICATION FairSpec
CONSTANTS
  Requests = {r1, r2}
  MaxCalls = 4
  Lost = Lost
INVARIANTS
  NothingRaised
PROPERTIES
  ImplementsModelGate
  EveryRequestServed
CHECK_DEADLOCK FALSE
