CONSTANTS
  SpinLocks = {"s", "t"}
  PlainLocks = {"p"}
  YieldLocks = {"y"}
  MaxDepth = 2
  MaxHeld = 2
  HandlerWork = 3
SPECIFICATION Spec
INVARIANTS
  TypeOK
  FlagRestored
PROPERTIES
  ImplementsMutex
  SpinEnds
