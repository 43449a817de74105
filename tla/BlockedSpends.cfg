CONSTANTS
  Conn = {c1, c2}
  Identity = {1, 2}
  Action <- MCAction
  Policies <- MCPolicies
  MaxAsked = 4
  MaxNow = 3
SPECIFICATION Spec
INVARIANT BlockedSpendsNothing
CHECK_DEADLOCK FALSE
