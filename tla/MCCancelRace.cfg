SPECIFICATION RuntimeSpec
CONSTANTS
  Samples = {s1}
  Calls = {c1}
  DeclCalls = {}
  Requests = {}
  Inputs = {}
  Keys = {k1}
  Policy <- ChangePolicy
  Null = Null
  MaxBatch = 1
  MaxEffects = 10
  MaxAttempts = 6
  MaxMutations = 2
  MaxCrashes = 0
  MaxErrors = 0
  MaxRetries = 2
  UserCancels = TRUE
  FreshCalls = TRUE
PROPERTIES CancelEnds
