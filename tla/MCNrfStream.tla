---------------------------- MODULE MCNrfStream -----------------------------
(***************************************************************************)
(* Instances of NrfStream, with payloads as in MCSha2Stream.               *)
(***************************************************************************)
EXTENDS NrfStream

CONSTANT PayloadSizes

MCPayloads == {[i \in 1 .. n |-> 10 * n + i] : n \in PayloadSizes}
=============================================================================
