-------------------------------- MODULE Ccm --------------------------------
(***************************************************************************)
(* AES-CCM as RFC 3610 defines it, the helper both drivers share           *)
(* (embedded-cal/src/util/aesccm.rs), AES-GCM as NIST SP 800-38D defines   *)
(* it, and the lengths of the COSE algorithms: 1 and 3 are AES-GCM with    *)
(* 128 and 256 bit keys, 10 and 11 are AES-CCM-16-64-128 and -256.         *)
(*                                                                         *)
(* AES is ideal.  A byte is a number and the set of key stream bytes it    *)
(* was XORed with; a MAC is represented by its key, its nonce and the      *)
(* bytes of the blocks it runs over.                                       *)
(***************************************************************************)
EXTENDS Naturals, Sequences, SequencesExt

CONSTANTS
  BLOCK,      \* bytes of an AES block, 16
  NONCE_LEN,  \* nonce_length() of the algorithms, 13
  TAG_LEN,    \* tag_length() of the algorithms, 8
  GCM_NONCE_LEN,  \* the same for AES-GCM: 12
  GCM_TAG_LEN     \* and 16

\* A block takes the length of the additional data and more; B0 has room for the
\* flags and a length field of up to 8 bytes.
ASSUME CcmAssumption ==
  /\ BLOCK \in Nat /\ NONCE_LEN \in Nat /\ TAG_LEN \in Nat
  /\ BLOCK > 2
  /\ NONCE_LEN + 1 < BLOCK /\ BLOCK - 1 - NONCE_LEN <= 8
  /\ TAG_LEN % 2 = 0 /\ TAG_LEN >= 2 /\ TAG_LEN <= BLOCK

Byte(n) == [v |-> n, ks |-> {}]

\* n in len bytes, big endian; higher bytes are cut.
BigEndian(n, len) ==
  [k \in 1 .. len |-> Byte((n \div 256 ^ (len - k)) % 256)]

Zeros(n) == [i \in 1 .. n |-> Byte(0)]

Padded(n) == ((n + (BLOCK - 1)) \div BLOCK) * BLOCK

ZeroPadded(s) == s \o Zeros(Padded(Len(s)) - Len(s))

Xor(byte, k) ==
  [byte EXCEPT !.ks = IF k \in @ THEN @ \ {k} ELSE @ \cup {k}]

\* Counter mode from position p on: encrypts and decrypts.
Crypt(key, nonce, p, s) ==
  [i \in 1 .. Len(s) |-> Xor(s[i], [key |-> key, nonce |-> nonce, at |-> p + i])]

-----------------------------------------------------------------------------
(* The reference *)

RfcB0(nonce, msg_len, a_len) ==
  LET L == BLOCK - 1 - NONCE_LEN
  IN  <<Byte((IF a_len > 0 THEN 64 ELSE 0) + 8 * ((TAG_LEN - 2) \div 2) + (L - 1))>>
        \o nonce \o BigEndian(msg_len, L)

\* The encoding for less than 0xFF00 bytes of additional data.
RfcHeader(aad) == IF aad = << >> THEN << >> ELSE BigEndian(Len(aad), 2) \o aad

RfcMac(key, nonce, aad, message) ==
  [key |-> key, nonce |-> nonce,
   input |-> RfcB0(nonce, Len(message), Len(aad))
               \o ZeroPadded(RfcHeader(aad)) \o ZeroPadded(message)]

-----------------------------------------------------------------------------
(* util/aesccm.rs *)

\* The length field takes what the nonce leaves.
build_b0(nonce, msg_len, a_len, tag_len) ==
  LET l == BLOCK - 1 - Len(nonce)
      flags == (l - 1) + 8 * ((tag_len - 2) \div 2)
  IN  <<Byte(IF a_len > 0 THEN flags + 64 ELSE flags)>>
        \o nonce \o BigEndian(msg_len, l)

\* Where it panics: a nonce that leaves no byte for the length (an underflow,
\* caught in a debug build) or more bytes than a u64 has.
B0Panics(nonce) ==
  \/ BLOCK - 1 - Len(nonce) < 1
  \/ BLOCK - 1 - Len(nonce) > 8

\* The nonce an engine finds in B0: the flags tell the width of the length.
NonceOf(b0) == SubSeq(b0, 2, BLOCK - 1 - (b0[1].v % 8))

-----------------------------------------------------------------------------
(* Either algorithm *)

GcmAlgorithms == {1, 3}
CcmAlgorithms == {10, 11}

\* The tag covers the additional data, the ciphertext and both lengths.
GcmMac(key, nonce, aad, aad_len, crypted) ==
  [key |-> key, nonce |-> nonce,
   input |-> ZeroPadded(aad) \o ZeroPadded(crypted)
               \o BigEndian(aad_len, 2) \o BigEndian(Len(crypted), 2)]

nonce_length(alg) == IF alg \in GcmAlgorithms THEN GCM_NONCE_LEN ELSE NONCE_LEN
tag_length(alg) == IF alg \in GcmAlgorithms THEN GCM_TAG_LEN ELSE TAG_LEN

\* The MAC of a plaintext and its ciphertext under either algorithm.
Mac(key, nonce, aad, plain, crypted) ==
  IF key.alg \in GcmAlgorithms THEN GcmMac(key, nonce, aad, Len(aad), crypted)
                               ELSE RfcMac(key, nonce, aad, plain)

Tag(key, mac) == {[mac |-> mac, len |-> tag_length(key.alg)]}
=============================================================================
