\* Words of 2 bytes, blocks of 2 words: chunks of 6 and then 4 bytes.  Release
\* build; hash computations interleave, an HMAC computation is not disturbed.  The
\* long key leaves exactly one chunk to finalize.
CONSTANTS
  HashIds = {h1, h2}
  HmacIds = {m1, m2}
  ChunkSizes = {1, 4, 6, 10}
  KeySizes = {1, 10}
  Chunks <- MCChunks
  KeyData <- MCKeyData
  WORD_SIZE = 2
  BLOCK_WORDS = 2
  HMAC_MAX_BLOCK_SIZE = 6
  UPDATE_MULTICHUNK = TRUE
  DEBUG_ASSERTIONS = FALSE
  Overlap = FALSE
  MaxMessage = 10
SPECIFICATION Spec
SYMMETRY IdSymmetry
INVARIANTS TypeOK MacPromise NoPanic
PROPERTY HashContract
