SPECIFICATION Spec
CONSTANTS
  ActorDp = 2
  ActorMP = 1
  RolloutDp = 4
  RolloutMP = 1
  InferenceDp = 1
  InferenceMP = 2
  NMinibatches = 3
  GroupSize = 1
  BatchSize = 24
  MaxRunning = 3
  UsePreProcess = FALSE
  UseWait = FALSE
INVARIANTS
  NotSharedWithWork
  NothingRaised
