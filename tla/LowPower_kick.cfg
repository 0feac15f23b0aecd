SPECIFICATION Spec
CONSTANTS
  Settings <- QuietDeassert
  HoldTicks = 2
  KernelTicks = 3
  MaxInFlight = 1
PROPERTIES
  HoldsWhileKicked
