SPECIFICATION FairSpec
CONSTANTS
  Ranks = {r1, r2}
  Share = 4
  Modes <- MCModes
INVARIANTS
  StopTogether
  EachResultOnce
PROPERTIES
  InferenceEnds
