CONSTANTS
  pool_size = 40
  TLSF_HEADER_SIZE = 2
  TLSF_ALIGN = 2
  TLSF_MIN_BLOCK_SIZE = 4
  TLSF_FLI_COUNT = 4
  TLSF_SLI_LOG2 = 1
  TLSF_OFFSET = 2
  Sizes = {0, 1, 5, 9, 39}
SPECIFICATION TlsfSpec
INVARIANT TlsfInv
INVARIANT IndexExact
INVARIANT GoodFit
PROPERTY TlsfImplementsArena
