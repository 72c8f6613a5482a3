CONSTANTS
  NUM_PHILOSOPHER = 3
  OS_MAX_TASKS_NUM = 5
  UserTasks = 4
  UserPriority <- MCUserPriority
  Delays = {1, 2}
  Mutexes <- MCForks
  Resources <- MCForks
  MaxDepth = 2
  NULL = NULL
  HeapGarbage = NULL
SPECIFICATION PhilFairSpec
INVARIANT NeighboursExclude
INVARIANT SomePhilosopherMoves
PROPERTY MealsGoOn
