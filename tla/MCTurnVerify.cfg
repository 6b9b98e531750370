SPECIFICATION RuntimeSpec
CONSTANTS
  Samples = {s1, s2}
  Calls = {c1, d1}
  DeclCalls = {d1}
  Requests = {}
  Inputs = {}
  Keys = {k1}
  Policy <- FullPolicy
  Null = Null
  MaxBatch = 2
  MaxEffects = 10
  MaxAttempts = 6
  MaxMutations = 2
  MaxCrashes = 1
  MaxErrors = 0
  MaxRetries = 1
  UserCancels = TRUE
  FreshCalls = TRUE
PROPERTIES NeverHangs ImplementsKernel AcceptedCompletes
