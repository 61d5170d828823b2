SPECIFICATION Spec
CONSTANTS
  HALF = 3
  LAST = 9
  WRAP = 7
  LOW = 1
  SONG = 2
INVARIANTS SetUpInOrder WordsWhole
PROPERTIES MusicPlays
