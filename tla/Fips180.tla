------------------------------ MODULE Fips180 ------------------------------
(***************************************************************************)
(* The message padding of FIPS 180-4, 5.1.1: a one bit, the least number   *)
(* of zeros that leaves room for the length field at the end of a block,   *)
(* and the length in bits.  The reference that the padding in the code is  *)
(* compared with.                                                          *)
(*                                                                         *)
(* SHA-256 is an ideal hash here: a digest is represented by the padded    *)
(* message the compression function runs over, so that two digests are     *)
(* equal exactly when the messages are.                                    *)
(***************************************************************************)
EXTENDS Naturals, Sequences

CONSTANTS
  SHA2SHORT_BLOCK_SIZE,  \* block size, 64
  LENGTH_OFFSET,         \* where the length field starts in a block, 56
  LENGTH_BYTES           \* size of the length field, 8

\* Arithmetic that the provers' libraries lack: a power is a number.
ASSUME PowerAssumption ==
  \A j \in 0 .. LENGTH_BYTES - 1 : 256 ^ j \in Nat \ {0}

\* The length in bits of n bytes, big endian in LENGTH_BYTES bytes.
LengthField(n) ==
  [k \in 1 .. LENGTH_BYTES |->
     ((8 * n) \div 256 ^ (LENGTH_BYTES - k)) % 256]

ZeroBytes(n) ==
  CHOOSE k \in 0 .. SHA2SHORT_BLOCK_SIZE - 1 :
    (n + 1 + k) % SHA2SHORT_BLOCK_SIZE = LENGTH_OFFSET

Padding(n) ==
  <<128>> \o [k \in 1 .. ZeroBytes(n) |-> 0] \o LengthField(n)

Digest(m) == m \o Padding(Len(m))
=============================================================================
