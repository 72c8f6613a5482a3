CONSTANTS
  s1 = s1
  s2 = s2
  OS_MAX_TASKS_NUM = 4
  UserTasks = 3
  UserPriority <- MCUserPriority
  Delays = {1}
  Semaphores = {s1, s2}
  Resources = {s1, s2}
  InitialCount <- MCInitialCount
  MaxCount <- MCMaxCount
  TaskGives = {s1, s2}
  CallbackGives = {s2}
  NULL = NULL
  HeapGarbage = NULL
SPECIFICATION SemFairSpec
INVARIANT SemTypeOK
INVARIANT NoStrandedPermit
PROPERTY TopWaiterServed
