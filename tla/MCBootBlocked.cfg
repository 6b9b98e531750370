CONSTANTS
  s1 = s1
  i1 = i1
  None = None
  Starts <- OneStart
  Items <- NoItem
  Outcomes = {"completed"}
  Buffer = 2
  MaxFaults = 2
SPECIFICATION Spec
PROPERTY Boots
CHECK_DEADLOCK FALSE
