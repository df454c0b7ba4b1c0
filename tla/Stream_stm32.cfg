\* The STM32WBA55 shape, scaled from 68/64: first chunk one unit longer than
\* a block, padding added by the hardware.
CONSTANTS
  Sessions = {s1, s2}
  PayloadSizes = {0, 1, 4, 7}
  Payloads <- MCPayloads
  FIRST_CHUNK_SIZE = 5
  SHA2SHORT_BLOCK_SIZE = 4
  SEND_PADDING = FALSE
  HASH_WRAPPER_MAX_BLOCKSIZE = 5
  LENGTH_OFFSET = 2
  LENGTH_BYTES = 2
  MaxMessage = 13
SPECIFICATION Spec
SYMMETRY SessionSymmetry
INVARIANTS TypeOK StreamIntegrity ChunkDiscipline SliceInBounds
PROPERTY HashPromise
