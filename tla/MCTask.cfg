CONSTANTS
  OS_MAX_TASKS_NUM = 4
  UserTasks = 3
  UserPriority <- MCUserPriority
  Delays = {1, 2}
  Resources = {}
  NULL = NULL
  HeapGarbage = NULL
SPECIFICATION TaskSpec
INVARIANT TaskTypeOK
INVARIANT RunnerIsReady
PROPERTY DispatchesHighest
PROPERTY RoundRobin
PROPERTY DelayExpires
