\* STM32: two retries, three polls of wait_for.  nRF: two restarts, a FIFO of
\* three words.  Words have 2 bytes: dst takes one word, or four of which the
\* last one is cut, more than the FIFO holds.
CONSTANTS
  Platforms = {"stm32wba55", "nrf54l15"}
  WORD_SIZE = 2
  MAX_SEED_RETRIES = 2
  WaitTries = 3
  MaxClockErrors = 2
  MAX_TRNG_RESTARTS = 2
  FifoDepth = 3
  Lengths = {2, 7}
SPECIFICATION RngFairSpec
INVARIANTS RngTypeOK FirstWordDiscarded NoUnderrun
PROPERTY EveryFillEnds
CHECK_DEADLOCK FALSE
