CONSTANTS
  OS_MAX_TASKS_NUM = 4
  UserTasks = 3
  UserPriority <- MCUserPriority
  Delays = {1}
  Queues = {q1}
  Resources = {q1}
  q1 = q1
  MaxItems <- MCMaxItems
  Items = {a, b}
  a = a
  b = b
  Nodes = {n1, n2, n3}
  n1 = n1
  n2 = n2
  n3 = n3
  Senders = {0, 2}
  Receivers = {1, 2}
  NULL = NULL
  HeapGarbage = NULL
SYMMETRY Interchangeable
SPECIFICATION QueueSpec
INVARIANT QueueInv
PROPERTY FifoUntilRace
INVARIANT NoStrandedItem
INVARIANT NobodyOutranksRunner
