---------------------------- MODULE MCSha2Stream ----------------------------
(***************************************************************************)
(* Instances of Sha2Stream.  The code never looks at a byte, so a payload  *)
(* carries bytes that tell their position and the payload's length: any    *)
(* loss, repetition or exchange of bytes changes the stream.               *)
(***************************************************************************)
EXTENDS Sha2Stream, TLC

CONSTANT PayloadSizes  \* the lengths passed to update

MCPayloads == {[i \in 1 .. n |-> 10 * n + i] : n \in PayloadSizes}

SessionSymmetry == Permutations(Sessions)
=============================================================================
