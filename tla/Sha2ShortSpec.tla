--------------------------- MODULE Sha2ShortSpec ---------------------------
(***************************************************************************)
(* The behaviours of a Sha2Short back-end whose callers keep the length    *)
(* rules of Sha2Short: the specification a hardware driver has to          *)
(* implement.  Instances are independent of each other and calls on them   *)
(* interleave in any order.                                                *)
(***************************************************************************)
EXTENDS Sha2Short

CONSTANTS
  Chunks,            \* the byte sequences a caller may pass
  UPDATE_MULTICHUNK  \* TRUE if consecutive chunks may be passed together

contractVars == <<absorbed, hashed, broken>>

\* Lengths update accepts after n bytes.
ChunkAccepted(n, len) ==
  \/ len = ChunkSize(n)
  \/ /\ UPDATE_MULTICHUNK
     /\ len > ChunkSize(n)
     /\ (len - ChunkSize(n)) % SHA2SHORT_BLOCK_SIZE = 0

ContractInit ==
  /\ absorbed = [s \in Sessions |-> << >>]
  /\ hashed = [s \in Sessions |-> {}]
  /\ broken = FALSE

\* The accepted calls; one with several chunks stands for that many updates.
Update(s, d) ==
  /\ ChunkAccepted(Len(absorbed[s]), Len(d))
  /\ absorbed' = [absorbed EXCEPT ![s] = @ \o d]
  /\ UNCHANGED <<hashed, broken>>

Finalize(s, d) ==
  /\ LastChunkAccepted(Len(absorbed[s]), Len(d))
  /\ finalize(s, d)

ContractNext ==
  \E s \in Sessions :
    \/ init(s)
    \/ \E d \in Chunks : Update(s, d) \/ Finalize(s, d)
    \/ \E t \in Sessions : clone(s, t)

Contract == ContractInit /\ [][ContractNext]_contractVars
=============================================================================
