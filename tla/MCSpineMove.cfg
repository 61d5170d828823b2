SPECIFICATION Spec
CONSTANTS
  Ticks = 2
  LastX = 32
  MinHold = 2
  Horizon = 44
INVARIANTS Pace Withdrawn
PROPERTIES ReachTheEnd KeepsSpineLaw
