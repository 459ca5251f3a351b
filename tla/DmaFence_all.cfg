CONSTANTS
  f1 = f1
  f2 = f2
  e1 = e1
  e2 = e2
  Fences = {f1, f2}
  Waiters = {w1}
  Engines = {e1}
  EngineOf <- OneRing
  NoFence = NoFence
  Nobody = Nobody
  MaxFreezes = 1
SPECIFICATION Spec
CONSTRAINT InOrder
INVARIANTS RefsAccounted NoUseAfterFree ArmedIsTracked WakeupPending
PROPERTIES PromiseSpec FreezeCompletes BackIsSignaled
CHECK_DEADLOCK FALSE
