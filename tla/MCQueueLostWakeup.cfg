CONSTANTS
  OS_MAX_TASKS_NUM = 4
  UserTasks = 2
  UserPriority <- MCUserPriority
  Delays = {1}
  Queues = {q1}
  Resources = {q1}
  q1 = q1
  MaxItems <- MCMaxItemsOne
  Items = {a, b}
  a = a
  b = b
  Nodes = {n1, n2, n3}
  n1 = n1
  n2 = n2
  n3 = n3
  Senders = {1}
  Receivers = {0}
  NULL = NULL
  HeapGarbage = NULL
SYMMETRY Interchangeable
SPECIFICATION QueueSpec
INVARIANT NoMutualWait
