SPECIFICATION Spec
CONSTANTS
  Settings <- NotedDeassert
  HoldTicks = 2
  KernelTicks = 3
  MaxInFlight = 1
INVARIANTS
  NoLostAssertNotified
