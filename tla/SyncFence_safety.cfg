CONSTANTS
  Nodes = {n1, n2}
  Fences = {f1, f2, f3}
  Callers = {t1, t2}
  None = None
  DefaultNodes = 1
  ExtraNodes = 1
  Faults = {"alloc", "grow", "getfd", "copy"}
  MaxTime = 0
SPECIFICATION Spec
CONSTRAINT LeakBound
SYMMETRY AllSymmetry
INVARIANTS NodeRefs ArrayFits MergeLosesNothing NoLostWakeup OpenIsLive
CHECK_DEADLOCK FALSE
