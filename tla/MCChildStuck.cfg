CONSTANTS
  a1 = a1
  a2 = a2
  c1 = c1
  c2 = c2
  None = None
  Agents <- OneAgent
  Callers <- OneCaller
  MaxTokens = 5
  MaxParallel = 2
  Asks <- Three
  Outcomes <- CheapAndOverdrawn
  MaxTurns = 1
  MaxFaults = 1
SPECIFICATION Spec
PROPERTY SettlementRecovers
CHECK_DEADLOCK FALSE
