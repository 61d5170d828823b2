SPECIFICATION Spec
CONSTANTS
  Keys <- MCKeys
  Settings <- PulledOut
PROPERTY WaitEnds
