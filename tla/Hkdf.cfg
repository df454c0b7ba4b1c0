\* Digests of 2 bytes, blocks of 4, at most 3 digests of output: every length
\* from 0 to one more than the limit, and a counter that wraps one digest behind
\* the limit.
CONSTANTS
  Platforms <- MCPlatforms
  HashLen = 2
  DIGEST_LEN = 2
  SHA2SHORT_BLOCK_SIZE = 4
  MaxBlocks = 3
  COUNTER_VALUES = 4
  Salts <- MCSalts
  Ikms <- MCIkms
  Infos <- MCInfos
  BytesOf <- MCBytesOf
  OkmLengths = {0, 1, 2, 3, 4, 5, 6, 7}
  NoSalt = "none"
  ZeroSalt = "zero"
SPECIFICATION ProvidersFairSpec
INVARIANTS OkmIsRfc PosInBounds KeyMaterialIsRfc
PROPERTY ExpandReturns
