------------------------------ MODULE NrfStream -----------------------------
(***************************************************************************)
(* The software-demo Extender's hash states (Sha2Stream) on the hash       *)
(* engine of the nRF54L15 (NrfHash): every chunk the Extender hands over   *)
(* goes through the CryptoMaster, which works while the call polls.  One   *)
(* engine serves all states; what belongs to a state is kept in it.        *)
(***************************************************************************)
EXTENDS Sha2Stream

CONSTANT MAX_DESCRIPTOR_CHAIN_LEN

\* What impl Sha2Short for Nrf54l15Cal declares.
ASSUME NrfAssumption == SEND_PADDING = TRUE

VARIABLES
  state, dma,   \* see NrfHash
  sending,      \* TRUE while update of the back-end polls
  target        \* what finalize of the back-end returned: {} before

chipVars == <<state, dma, sending, target>>
nrfVars == <<vars, chipVars>>

Chip == INSTANCE NrfHash

NrfInit ==
  /\ Init
  /\ state = [s \in Sessions |-> {}]
  /\ target = [s \in Sessions |-> {}]
  /\ sending = FALSE
  /\ Chip!DmaInit

\* A chunk is complete: the back-end starts the DMA, and returns after it.
Send ==
  LET n == FillBytes
      buffer_max == BufferMax(written[cur])
  IN  /\ pc \in {"update", "padding"} /\ ~sending
      /\ written_in_buffer + n >= buffer_max
      /\ Chip!UpdateStart(cur, SubSeq(Filled(n), 1, buffer_max))
      /\ sending' = TRUE
      /\ UNCHANGED <<vars, target>>

Sent ==
  /\ sending
  /\ Chip!UpdateEnd(cur)
  /\ FillAndSend
  /\ sending' = FALSE
  /\ UNCHANGED target

Returned ==
  /\ FinalizeBackend
  /\ target' = [target EXCEPT ![cur] = Chip!finalize(cur)]
  /\ UNCHANGED <<state, dma, sending>>

NrfCallStep ==
  \/ FillAndReturn /\ UNCHANGED chipVars
  \/ Send
  \/ Sent
  \/ Returned

Hardware == Chip!Dma /\ UNCHANGED <<vars, state, sending, target>>

NrfNext ==
  \/ \E s \in Sessions :
       \/ /\ HashInit(s)
          /\ Chip!init(s)
          /\ target' = [target EXCEPT ![s] = {}]
          /\ UNCHANGED <<dma, sending>>
       \/ \E d \in Payloads : Update(s, d) /\ UNCHANGED chipVars
       \/ Finalize(s) /\ UNCHANGED chipVars
       \/ \E t \in Sessions :
            /\ Clone(s, t)
            /\ Chip!clone(s, t)
            /\ target' = [target EXCEPT ![t] = {}]
            /\ UNCHANGED <<dma, sending>>
       \/ Drop(s) /\ UNCHANGED chipVars
  \/ NrfCallStep
  \/ Hardware

NrfSpec == NrfInit /\ [][NrfNext]_nrfVars

\* A call runs on until it returns, and the DMA ends what it was told to do.
NrfFairSpec == NrfSpec /\ WF_nrfVars(NrfCallStep) /\ WF_nrfVars(Hardware)

-----------------------------------------------------------------------------
(* Properties *)

(***************************************************************************)
(* The HashProvider promise down to the chip: the bytes finalize copies    *)
(* from the state are the digest of exactly what this state was fed,       *)
(* although all states share one engine, intermediate states travel        *)
(* through the DMA, and the buffer they return to is zero before.          *)
(***************************************************************************)
ChipDigests ==
  INSTANCE HashSpec
    WITH out <- [s \in Sessions |->
                   {IF v.iv = "sha256" THEN v.bytes ELSE << >> : v \in target[s]}]

ChipPromise == ChipDigests!Spec
=============================================================================
