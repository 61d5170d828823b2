SPECIFICATION BoundsSpec
CONSTANTS
  L = 4
  Depth = 3
  Threshold = 1
  Clock = TRUE
  Timeout = 2
  INT_MAX = 4
  Unplug = TRUE
  OutMax = 7
  InMax = 5
  Calls = {"write", "read", "close", "ioctl"}
  Instances <- Line
INVARIANTS NoLostInterrupt FifoFits
PROPERTIES InOrderOut InOrderIn AllSent ReadsEnd CallsEnd
