SPECIFICATION Spec
CONSTANTS
  MinStep = 2
  MaxStep = 5
  Hold = 2
  Cells <- SomeCells
  Script <- SetUpAndPoll
  PressAt = {"between"}
INVARIANTS NoContention Executable
PROPERTIES Implements
