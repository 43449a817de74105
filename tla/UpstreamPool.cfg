SPECIFICATION Spec
CONSTANTS
  Conn = {c1, c2}
  NTargets = 3
  Strategies = {"RoundRobin", "Random", "LeastConnections"}
  Cooldown = 1
  MaxAttempts = 3
  MaxNow = 1
INVARIANTS TypeOK ActiveCountsLive FailsOnlyAfterAll HealthyTriedFirst RoundRobinBalanced
PROPERTIES AttemptEnds
CHECK_DEADLOCK FALSE
