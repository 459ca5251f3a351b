CONSTANTS
  n1 = n1
  n2 = n2
  f1 = f1
  f2 = f2
  f3 = f3
  Nodes = {n1, n2}
  Fences = {f1, f2, f3}
  Callers = {t1}
  None = None
  DefaultNodes = 1
  ExtraNodes = 1
  Faults = {"grow", "getfd", "copy"}
  MaxTime = 0
SPECIFICATION FairSpec
CONSTRAINT InOrder
PROPERTIES TimelineSpec 
CHECK_DEADLOCK FALSE
