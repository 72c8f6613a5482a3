CONSTANTS
  OS_MAX_TASKS_NUM = 4
  UserTasks = 3
  UserPriority <- MCUserPriority
  Delays = {1}
  Mutexes = {m1, m2}
  Resources = {m1, m2}
  m1 = m1
  m2 = m2
  MaxDepth = 2
  NULL = NULL
  HeapGarbage = m1
SPECIFICATION MutexSpec
INVARIANT MutexTypeOK
INVARIANT NoStaleBoost
INVARIANT NoLostMutexWakeup
INVARIANT InheritsOrPending
PROPERTY ImplementsLock
