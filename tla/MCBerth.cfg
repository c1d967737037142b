SPECIFICATION MCSpec
CONSTANTS
  UNSET = UNSET
  INFINITY = 1000000
  WORD = 2097152
  Database <- MCDatabase
  Projects <- MCProjects
  Params <- MCParams
  Jobs = {"all", "part", "pack", "solve"}
  ROUNDS = 2
  EXCHANGES = 2
INVARIANTS BerthInv CostInv ReadBackVerified
PROPERTIES BestOnlyImproves EndsUnlessStuck
