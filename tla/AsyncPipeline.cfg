SPECIFICATION FairSpec
CONSTANTS
  StageNum = 2
  NChunkSteps = 2
  Capacities = {2, 3}
  MinBufferSize = 3
  MaxSteps = 2
  MaxEpochs = 3
INVARIANTS
  ActionsForTheStep
  RecordsOfOneStep
  BufferHoldsLatest
PROPERTIES
  RunEnds
CHECK_DEADLOCK FALSE
