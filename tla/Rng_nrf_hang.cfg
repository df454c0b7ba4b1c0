\* The nRF54L15 alone: the comment of its try_fill_bytes.
CONSTANTS
  Platforms = {"nrf54l15"}
  WORD_SIZE = 2
  MAX_SEED_RETRIES = 2
  WaitTries = 3
  MaxClockErrors = 2
  MAX_TRNG_RESTARTS = 2
  FifoDepth = 3
  Lengths = {2, 7}
SPECIFICATION RngFairSpec
PROPERTY NrfFillEnds
CHECK_DEADLOCK FALSE
