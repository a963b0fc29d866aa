SPECIFICATION FairSpec
CONSTANTS
  Workers = {m, p, x}
  Master = m
  Peer = p
  Ports = {p1, p2, p3}
  None = None
  Doubtful = {x}
  Loads <- SmallLoads
INVARIANTS
  PortsExclusive
  JoinsItsMaster
PROPERTIES
  SyncCallsReturn
  ImplementsMessageLink
CHECK_DEADLOCK FALSE
