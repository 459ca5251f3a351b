CONSTANTS
  f1 = f1
  f2 = f2
  f3 = f3
  c1 = c1
  c2 = c2
  c3 = c3
  Objects = {o1, o2}
  Fences = {f1, f2, f3}
  Contexts = {c1, c2, c3}
  ContextOf <- TwoOfOne
  NoFence = NoFence
  NoObject = NoObject
SPECIFICATION FairSpec
INVARIANTS ToldOnceWhenDone RefsExact NoLockCycle
PROPERTY AllSignaledIsTold
CHECK_DEADLOCK FALSE
