\* P-256 numbers of eight one-bit words over the field of order 199; the group has
\* 191 elements, so that both limits are below 256 and differ.
CONSTANTS
  P256_B = 64
  P256_N = 191
  P256_G <- MCG
  MontPrime <- MCMontPrime
  MontA <- MCMontA
  MontBase <- MCMontBase
  Platforms <- MCPlatforms
  Parties <- MCParties
  NoKey = NoKey
  RandomBytes <- MCRandomBytes
  SecretBytes <- MCSecretBytes
  OfferedBytes <- MCOfferedBytes
SPECIFICATION Spec
INVARIANTS Agreement KeysRoundTrip NrfKeysDecoded PkeScalarErased
PROPERTIES DhPromise
