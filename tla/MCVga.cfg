SPECIFICATION SceneSpec
CONSTANTS
  H_TOTAL = 800
  V_TOTAL = 525
  Words <- SomeWords
  SpinePlaces <- SomePlaces
  Moments <- FewMoments
INVARIANTS Registered PictureIsMap FreeMarioClear TouchKills LettersWhole
PROPERTIES ScansOut
