SPECIFICATION Spec
CONSTANTS
  TicksPerMilli = 2
  Identity = {1, 2}
  BlastRadius = {2}
  MaxPerWindow = 3
  Window = 4
  MaxTracked = 1
  MaxNow = 8
  MaxCalls = 2
  MaxFaults = 1
  MaxLag = 1
  MaxAge = 2
INVARIANTS TypeOK StoreAndMapsBounded OwnAdmissionsCount OnlyAdmissionsCount SeenAdmissionsCount
PROPERTY Converges
