\* Blocks of 4 bytes with nonces of 2: messages of 0 to 2 blocks with a partial
\* last block, additional data that ends in, at and behind a block.
CONSTANTS
  Platforms <- MCPlatforms
  BLOCK = 4
  NONCE_LEN = 2
  TAG_LEN = 2
  MAX_DESCRIPTOR_CHAIN_LEN = 6
  HEADER_BUF = 12
  MSG_BUF = 8
  AEAD_BUFFER = 5
  GCM_NONCE_LEN = 1
  GCM_TAG_LEN = 4
  MessageLengths = {0, 3, 4, 7}
  NonceLengths = {2}
  TagLengths = {2}
  Calls <- MCCalls
  Offered <- MCOffered
SPECIFICATION Spec
INVARIANTS HardwareAtRest NrfFailureContained
PROPERTY AeadPromise
