CONSTANTS
  Identity = {1, 2, 3}
  Action <- MCAction
  Policed = {"lock"}
  MaxPerRequest = 3
  MaxPerWindow = 2
  Window = 1
  MaxTracked = 2
  MaxNow = 3
SPECIFICATION Spec
INVARIANTS TypeOK TrackedBounded IndexCoversTracked WindowKeepsRecent WindowBudget
PROPERTY BudgetSpec
