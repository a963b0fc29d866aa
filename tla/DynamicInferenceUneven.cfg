SPECIFICATION Spec
CONSTANTS
  Ranks = {r1, r2}
  Share = 4
  Modes <- MCModesUneven
INVARIANTS
  StopTogether
