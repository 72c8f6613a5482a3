CONSTANTS
  ArenaSize = 18
  HEADER = 2
  ALIGN = 1
  MPU_ALIGN = 2
  WORD = 1024
  Sizes = {5}
  Clients = {main, app}
  Main = main
  App = app
  main = main
  app = app
  OS_MAX_TASKS_NUM = 3
  TCB = 4
  WORD_BYTES = 4
  StackPool = 352
  STACK_ALIGN = 32
  FRAME = 64
  StackSizes = {24, 28}
  IdleStack = 28
  Depths = {0, 16}
SPECIFICATION StacksSpec
CHECK_DEADLOCK FALSE
INVARIANT BlocksTile
INVARIANT FindsRoom
INVARIANT StacksInv
INVARIANT CreationAllOrNothing
INVARIANT GuardFollows
PROPERTY ImplementsArena
PROPERTY HighWaterHolds
