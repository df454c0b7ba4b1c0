\* Debug build; two hash computations, one chunk per call, no HMAC.
CONSTANTS
  HashIds = {h1, h2}
  HmacIds = {m1, m2}
  ChunkSizes = {1, 4, 6}
  KeySizes = {}
  Chunks <- MCChunks
  KeyData <- MCKeyData
  WORD_SIZE = 2
  BLOCK_WORDS = 2
  HMAC_MAX_BLOCK_SIZE = 6
  UPDATE_MULTICHUNK = TRUE
  DEBUG_ASSERTIONS = TRUE
  Overlap = FALSE
  MaxMessage = 10
SPECIFICATION Spec
INVARIANT NoPanic
