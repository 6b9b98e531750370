SPECIFICATION RuntimeSpec
CONSTANTS
  Samples = {s1}
  Calls = {c1, c2}
  DeclCalls = {}
  Requests = {r1}
  Inputs = {}
  Keys = {k1}
  Policy <- ChangePolicy
  Null = Null
  MaxBatch = 2
  MaxEffects = 10
  MaxAttempts = 6
  MaxMutations = 2
  MaxCrashes = 1
  MaxErrors = 1
  MaxRetries = 2
  UserCancels = TRUE
  FreshCalls = TRUE
SYMMETRY Symmetry
INVARIANTS ProcTypeOK RegistryAgrees NoOrphanTool FilesAsDecided UserWorkKept
PROPERTIES FilesSettledOnce
