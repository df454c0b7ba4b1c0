---------------------------- MODULE MCStm32Hash ----------------------------
(***************************************************************************)
(* Instances of Stm32Hash.  The driver never looks at a byte: bytes tell   *)
(* their position and the length of the call that carried them.            *)
(***************************************************************************)
EXTENDS Stm32Hash, TLC

CONSTANTS
  ChunkSizes,  \* the lengths passed to update and finalize
  KeySizes     \* the lengths of HMAC keys

MCChunks == {[i \in 1 .. n |-> 10 * n + i] : n \in ChunkSizes}

MCKeyData == {[i \in 1 .. n |-> 100 + i] : n \in KeySizes}

IdSymmetry == Permutations(HashIds) \cup Permutations(HmacIds)
=============================================================================
