SPECIFICATION Spec
CONSTANTS
  TicksPerMilli = 2
  Identity = {1}
  BlastRadius = {2}
  MaxPerWindow = 3
  Window = 4
  MaxTracked = 1
  MaxNow = 6
  MaxCalls = 1
  MaxFaults = 0
  MaxLag = 0
  MaxAge = 0
INVARIANT SeenCountInFull
