SPECIFICATION Spec
CONSTANTS
  Requests = {r1}
  MaxCalls = 2
  Lost = Lost
INVARIANT LoadedWhilePaused
