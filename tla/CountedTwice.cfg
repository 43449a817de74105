SPECIFICATION Spec
CONSTANTS
  TicksPerMilli = 2
  Identity = {1}
  BlastRadius = {1}
  MaxPerWindow = 2
  Window = 4
  MaxTracked = 1
  MaxNow = 9
  MaxCalls = 2
  MaxFaults = 0
  MaxLag = 1
  MaxAge = 2
INVARIANT NeverCountedTwice
