\* Release build; HMAC computations may be continued after other computations.
CONSTANTS
  HashIds = {}
  HmacIds = {m1, m2}
  ChunkSizes = {1, 4, 6, 10}
  KeySizes = {1, 11}
  Chunks <- MCChunks
  KeyData <- MCKeyData
  WORD_SIZE = 2
  BLOCK_WORDS = 2
  HMAC_MAX_BLOCK_SIZE = 6
  UPDATE_MULTICHUNK = TRUE
  DEBUG_ASSERTIONS = FALSE
  Overlap = TRUE
  MaxMessage = 10
SPECIFICATION Spec
INVARIANT MacPromise
