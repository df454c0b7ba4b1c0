\* The nRF54L15, scaled from 64/64: no special first chunk, padding sent by the
\* caller.  The length field takes half a block, so the padding itself crosses
\* block boundaries.
CONSTANTS
  Sessions = {s1, s2}
  PayloadSizes = {0, 1, 6}
  Payloads <- MCPayloads
  FIRST_CHUNK_SIZE = 4
  SHA2SHORT_BLOCK_SIZE = 4
  SEND_PADDING = TRUE
  HASH_WRAPPER_MAX_BLOCKSIZE = 5
  LENGTH_OFFSET = 2
  LENGTH_BYTES = 2
  MaxMessage = 7
  MAX_DESCRIPTOR_CHAIN_LEN = 6
SPECIFICATION NrfFairSpec
INVARIANTS StreamIntegrity ChunkDiscipline
PROPERTIES ChipPromise CallsReturn
