SPECIFICATION RuntimeSpec
CONSTANTS
  Samples = {s1, s2}
  Calls = {c1}
  DeclCalls = {}
  Requests = {}
  Inputs = {}
  Keys = {k1}
  Policy <- VerifyPolicy
  Null = Null
  MaxBatch = 1
  MaxEffects = 10
  MaxAttempts = 6
  MaxMutations = 2
  MaxCrashes = 1
  MaxErrors = 0
  MaxRetries = 2
  UserCancels = FALSE
  FreshCalls = TRUE
PROPERTIES TurnEnds
