SPECIFICATION Spec
CHECK_DEADLOCK FALSE
SYMMETRY AlikeTurns
CONSTANTS
  f1 = f1
  f2 = f2
  t1 = t1
  t2 = t2
  a = a
  Files = {f1, f2}
  Turns = {t1, t2}
  Base <- OneFile
  Writes = {b, Absent}
  UserData = {u}
  Absent = Absent
  Null = Null
  MaxVersion <- TwiceAndOnce
  MaxFaults = 2
INVARIANT RestoresAbandoned
