SPECIFICATION PlaySpec
CONSTANTS
  Keys <- AllKeys
  SpineStops <- EndStops
  Beyond <- OneBuild
  Scenarios <- Release
PROPERTIES Settles HeldRestartEnds
