SPECIFICATION PlaySpec
CONSTANTS
  Keys <- AllKeys
  SpineStops <- EndStops
  Beyond <- OneBuild
  Scenarios <- LowExit
INVARIANTS Controllable
