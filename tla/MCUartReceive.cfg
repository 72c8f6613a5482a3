CONSTANTS
  OS_MAX_TASKS_NUM = 3
  UserTasks = 2
  UserPriority <- MCUserPriority
  Delays = {1}
  Resources = {}
  NULL = NULL
  HeapGarbage = NULL
  Bytes = {b1, cr}
  b1 = b1
  cr = cr
  Terminators = {cr}
  RINGBUFFER_SIZE = 3
  TIMEOUT = 1
  MaxChars = 2
  Reader = 0
  Poller = 1
SPECIFICATION UartSpec
INVARIANT UartInv
PROPERTY RingIsFifo
PROPERTY PollEnds
