CONSTANTS
  ArenaSize = 12
  HEADER = 2
  ALIGN = 2
  MPU_ALIGN = 4
  WORD = 256
  Sizes = {1, 3}
  Clients = {c1, c2}
  c2 = c2
  c1 = c1
SPECIFICATION HeapSpec
PROPERTY ImplementsArena
