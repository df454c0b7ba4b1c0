\* Callers that pass nonces and tags of the wrong length; a panic ends the program.
CONSTANTS
  Platforms <- MCBoards
  BLOCK = 4
  NONCE_LEN = 2
  TAG_LEN = 2
  MAX_DESCRIPTOR_CHAIN_LEN = 6
  HEADER_BUF = 12
  MSG_BUF = 8
  AEAD_BUFFER = 5
  GCM_NONCE_LEN = 1
  GCM_TAG_LEN = 4
  MessageLengths = {0, 3}
  NonceLengths = {1, 2, 3}
  TagLengths = {1, 2, 4}
  Calls <- MCCalls
  Offered <- MCOffered
SPECIFICATION Spec
INVARIANT LengthsChecked
CHECK_DEADLOCK FALSE
