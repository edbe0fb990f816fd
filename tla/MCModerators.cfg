SPECIFICATION ModerationSpec
CONSTANTS
  Node = {n1, n2}
  Channel = {main}
  Classes = {{"CHN_ADDCHANNEL", "CHN_MODERATE"}}
  DefaultMaxLineout = 1
  MinMaxLineout = 1
  MaxMaxLineout = 1
  Limits = {}
  LineoutBound = 1
INVARIANT GivenModerates
CHECK_DEADLOCK FALSE
