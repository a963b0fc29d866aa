SPECIFICATION FairSpec
CONSTANTS
  ActorDp = 2
  ActorMP = 1
  RolloutDp = 6
  RolloutMP = 1
  InferenceDp = 1
  InferenceMP = 2
  NMinibatches = 4
  GroupSize = 1
  BatchSize = 32
  MaxRunning = 3
  UsePreProcess = TRUE
  UseWait = TRUE
INVARIANTS
  IInv
  GpusNotShared
PROPERTIES
  MigrationLeavesRoom
  ImplementsPool
  StepEnds
