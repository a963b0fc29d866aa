SPECIFICATION FairSpec
CONSTANTS
  InstanceNum = 3
  LendNum = 1
  Share = 1
  GroupSize = 2
  NMinibatches = 3
  Policies <- BothOrNone
INVARIANTS
  AssertionsHold
  ReleasedIsIdle
PROPERTIES
  StepEnds
  ImplementsGroupPool
CHECK_DEADLOCK FALSE
