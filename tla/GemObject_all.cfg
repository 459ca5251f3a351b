CONSTANTS
  t1 = t1
  t2 = t2
  f1 = f1
  f2 = f2
  Own = Own
  Imp = Imp
  None = None
  Threads <- MCThreads
  Files <- MCFiles
  MaxUses = 2
  MaxMarks = 2
  MaxFaults = 1
SPECIFICATION Spec
SYMMETRY Symmetry
INVARIANTS PinsExact UsedIsUnpagable RefsExact
CHECK_DEADLOCK FALSE
