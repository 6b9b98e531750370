CONSTANTS
  s1 = s1
  i1 = i1
  None = None
  Starts <- OneStart
  Items <- OneItem
  Outcomes = {"completed"}
  Buffer = 2
  MaxFaults = 2
SPECIFICATION Spec
INVARIANT TypeOK
INVARIANT OneTerminal
INVARIANT NothingForgotten
INVARIANT RowAgreesWithLog
INVARIANT WithdrawSettled
PROPERTY NoRerun
 
PROPERTY OutcomeTold
PROPERTY KeepsContract
CHECK_DEADLOCK FALSE
