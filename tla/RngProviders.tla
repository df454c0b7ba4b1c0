---------------------------- MODULE RngProviders ----------------------------
(***************************************************************************)
(* The two hardware random number generators behind one trait,             *)
(* rand_core::TryRng with Error = Infallible: a platform is chosen once,   *)
(* and its driver and its peripheral run.                                  *)
(***************************************************************************)
EXTENDS Stm32Rng

CONSTANTS
  Platforms,          \* the providers to look at
  MAX_TRNG_RESTARTS,  \* of the nRF54L15, 3
  FifoDepth           \* words its FIFO holds

ASSUME ProvidersAssumption ==
  /\ Platforms \subseteq {"stm32wba55", "nrf54l15"}
  /\ MAX_TRNG_RESTARTS \in Nat
  /\ FifoDepth \in Nat \ {0}

VARIABLES
  platform,                                \* the provider of this run
  fsm, fifolevel, underrun,                \* the nRF54L15: its TRNG
  nrfPc, nrfLeft, restarts, level          \* and its driver

nrfVars == <<fsm, fifolevel, underrun, nrfPc, nrfLeft, restarts, level>>
rngProviderVars == <<platform, vars, nrfVars>>

Nrf == INSTANCE NrfRng WITH pc <- nrfPc, left <- nrfLeft

-----------------------------------------------------------------------------

RngInit == platform \in Platforms /\ Init /\ Nrf!Init

Stm32Does(A) == platform = "stm32wba55" /\ A /\ UNCHANGED <<platform, nrfVars>>

NrfDoes(A) == platform = "nrf54l15" /\ A /\ UNCHANGED <<platform, vars>>

RngNext == Stm32Does(Next) \/ NrfDoes(Nrf!Next)

\* The fairness each of the two specifications states, for the platform that
\* runs.
RngFairSpec ==
  /\ RngInit /\ [][RngNext]_rngProviderVars
  /\ WF_rngProviderVars(Stm32Does(Driver))
  /\ WF_rngProviderVars(Stm32Does(Produce))
  /\ WF_rngProviderVars(NrfDoes(Nrf!Driver))
  /\ WF_rngProviderVars(NrfDoes(Nrf!Fill))

-----------------------------------------------------------------------------
(* Properties *)

\* Both drivers keep to their locals' ranges: in particular neither counts
\* past the retries it grants itself, and both polls stay bounded.
RngTypeOK == TypeOK /\ Nrf!TypeOK

(***************************************************************************)
(* The draining loop of the nRF54L15 pops only words that are there,       *)
(* though it relies on a level read before the first pop and the TRNG may  *)
(* fail meanwhile.                                                         *)
(***************************************************************************)
NoUnderrun == Nrf!NoUnderrun

(***************************************************************************)
(* On both platforms a call of new or try_fill_bytes ends, with bytes or   *)
(* with a panic, however many errors the source has and whenever they      *)
(* strike.  The one exception: the TRNG of the nRF54L15 fails after its    *)
(* state was checked and before a word arrived.                            *)
(***************************************************************************)
EveryFillEnds ==
  /\ platform = "stm32wba55" => FillEnds
  /\ platform = "nrf54l15" => Nrf!EndsOrHangs

(***************************************************************************)
(* What the comment in the nRF54L15's try_fill_bytes wants of the check of *)
(* the FSM state: that a call does not hang when the TRNG enters ERROR.    *)
(***************************************************************************)
NrfFillEnds == Nrf!FillEnds
=============================================================================
