------------------------------ MODULE Rfc2104 -------------------------------
(***************************************************************************)
(* HMAC as RFC 2104 defines it, on bytes.  The hash is ideal: a byte of a  *)
(* digest is the message hashed and a position; a byte that was XORed      *)
(* remembers with what.                                                    *)
(***************************************************************************)
EXTENDS Naturals, Sequences

CONSTANTS
  DIGEST_LEN,            \* bytes of a digest, 32
  SHA2SHORT_BLOCK_SIZE   \* bytes of a block of the hash, 64

Byte(n) == [of |-> {}, n |-> n, with |-> {}]

Hash(s) == [k \in 1 .. DIGEST_LEN |-> [of |-> {s}, n |-> k, with |-> {}]]

Xored(s, pad) ==
  [k \in 1 .. Len(s) |->
     [s[k] EXCEPT !.with = IF pad \in @ THEN @ \ {pad} ELSE @ \cup {pad}]]

ZeroFilled(s, n) == [k \in 1 .. n |-> IF k <= Len(s) THEN s[k] ELSE Byte(0)]

\* H(K XOR opad, H(K XOR ipad, text))
RfcHmac(key, text) ==
  LET short == IF Len(key) <= SHA2SHORT_BLOCK_SIZE THEN key ELSE Hash(key)
      K == ZeroFilled(short, SHA2SHORT_BLOCK_SIZE)
  IN  Hash(Xored(K, "opad") \o Hash(Xored(K, "ipad") \o text))
=============================================================================
