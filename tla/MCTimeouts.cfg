CONSTANTS
  c_nodes_used = 2
  MayCommand <- ZeroCommandsOne
  ClassTimes <- GodAndUser
  Gifts <- OneMinute
  LOGIN_PROMPT_TIMEOUT = 1
  TIMEOUT_WARNING_TIME = 1
  MAX_SLEEP = 1
  MaxLeft = 1
  Actions <- OnlyKill
  Horizon = 0
SPECIFICATION Spec
INVARIANTS
  TypeOK
  Punctual
