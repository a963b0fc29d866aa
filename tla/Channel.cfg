SPECIFICATION ChannelFairSpec
CONSTANTS
  k1 = k1
  k2 = k2
  eager = eager
  waiting = waiting
  None = None
  Workers = {eager, waiting}
  Keys = {k1, k2}
  Calls = {1, 2, 3, 4}
  Requests <- MCRequests
  MaxSize = 1
  Offers <- MCDisciplined
INVARIANTS
  EachCallItsOwn
  NoAnswerAstray
  PutsInOrder
PROPERTIES
  EventLoopNotStuck
CHECK_DEADLOCK FALSE
