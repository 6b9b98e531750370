SPECIFICATION LaneSpec
CHECK_DEADLOCK FALSE
CONSTANTS
  Samples = {s1}
  Calls = {c1, c2}
  DeclCalls = {}
  Requests = {r1}
  Inputs = {i1}
  Keys = {k1}
  Policy <- StrictPolicy
  Null = Null
  MaxBatch = 2
  MaxEffects = 4
  MaxAttempts = 2
  MaxMutations = 1
INVARIANTS TypeOK Validate EffectsOwned MustPassVerified
