SPECIFICATION Spec
CONSTANTS
  Keys <- MCKeys
  Settings <- WithRetries
PROPERTY CalledAgain
