SPECIFICATION PlaySpec
CONSTANTS
  Keys <- AllKeys
  SpineStops <- EndStops
  Beyond <- AllCells
  Scenarios <- WholeGame
INVARIANTS TypeOK DeathShown JumpBudget FaithfulPicture
PROPERTIES NoFreeAscent LifeStartsSafe SpinesHeldBack RefinesFlow StalePictureLastsOneFrame NoWallEntry OverrunHarmless
