CONSTANTS
  a1 = a1
  a2 = a2
  c1 = c1
  c2 = c2
  None = None
  Agents <- TwoAgents
  Callers <- TwoCallers
  MaxTokens = 5
  MaxParallel = 2
  Asks <- OneShares
  Outcomes <- CheapAndOverdrawn
  MaxTurns = 2
  MaxFaults = 1
SPECIFICATION Spec
INVARIANT TypeOK
INVARIANT FlightExact
INVARIANT LedgerExact
INVARIANT NoLeak
INVARIANT TreeBudget
INVARIANT ChargedOnce
PROPERTY NotAbandoned
PROPERTY WaitReturns
CHECK_DEADLOCK FALSE
