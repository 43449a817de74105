CONSTANTS
  Conn = {c1, c2}
  Identity = {1, 2}
  Action <- MCAction
  Policies <- MCPolicies
  MaxAsked = 5
  MaxNow = 3
SPECIFICATION Spec
SYMMETRY ConnSymmetry
INVARIANTS TypeOK ForwardedWithinBudgets
CHECK_DEADLOCK FALSE
