CONSTANTS
  OS_MAX_TASKS_NUM = 5
  UserTasks = 4
  UserPriority <- MCUserPriority
  Delays = {1}
  Mutexes = {m1}
  Resources = {m1}
  m1 = m1
  uart_mutex = m1
  MaxDepth = 2
  NULL = NULL
  HeapGarbage = NULL
  Printers = {0, 2, 3}
  LineLength = 2
  WRAP = 3
SPECIFICATION PrintFairSpec
PROPERTY LinesWhole
PROPERTY NoUnboundedInversion
