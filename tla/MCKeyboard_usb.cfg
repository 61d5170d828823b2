SPECIFICATION Spec
CONSTANTS
  Keys <- MCKeys
  Settings <- WildOrCalm
INVARIANTS Fresh SetUpFirst
PROPERTIES PollsReturn Followed
