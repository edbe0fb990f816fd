CONSTANTS
  c_nodes_used = 1
  MayCommand <- ZeroCommandsZero
  ClassTimes <- OneUser
  Gifts <- TwoMinutes
  LOGIN_PROMPT_TIMEOUT = 3
  TIMEOUT_WARNING_TIME = 2
  MAX_SLEEP = 2
  MaxLeft = 4
  Actions <- AllActions
  Horizon = 1
SPECIFICATION FairSpec
PROPERTIES
  TimeIsUp
  LoginPromptEnds
