SPECIFICATION RuntimeSpec
CONSTANTS
  Samples = {s1}
  Calls = {c1}
  DeclCalls = {}
  Requests = {r1}
  Inputs = {}
  Keys = {k1}
  Policy <- ChangePolicy
  Null = Null
  MaxBatch = 1
  MaxEffects = 10
  MaxAttempts = 6
  MaxMutations = 2
  MaxCrashes = 2
  MaxErrors = 1
  MaxRetries = 2
  UserCancels = TRUE
  FreshCalls = TRUE
PROPERTIES NeverHangs ImplementsKernel TurnEnds CancelStops
