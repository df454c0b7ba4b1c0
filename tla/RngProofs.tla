----------------------------- MODULE RngProofs ------------------------------
(***************************************************************************)
(* Proofs about the two random number generators (RngProviders): their     *)
(* types, that the first word after a conditioning reset never reaches a   *)
(* caller of the STM32WBA55, and that the nRF54L15 pops no word that is    *)
(* not there.                                                              *)
(***************************************************************************)
EXTENDS RngProviders, TLAPS

-----------------------------------------------------------------------------
(* The STM32WBA55 *)

\* Where the driver is once init_rng has seen a word of the new conditioning.
Conditioned == {"discard", "ready", "poll", "read"}

(***************************************************************************)
(* What holds at every register access: a word in DR is not the one that   *)
(* is still to come; after the reset CONDRST stays off until the next seed *)
(* error is recovered from; between the check and the end of init_rng the  *)
(* first word has been produced (or a seed error makes the check panic),   *)
(* and behind init_rng DR does not hold it any more.                       *)
(***************************************************************************)
FirstWordInv ==
  /\ dr # "none" => ~fresh
  /\ pc \in Conditioned \cup {"wait_first", "check_first"} => condrst = "off"
  /\ pc = "check_first" => ~fresh \/ seis
  /\ pc \in Conditioned => ~fresh
  /\ pc \in {"ready", "poll", "read"} => dr # "first"
  /\ "first" \notin got

\* The local seed_errors passes its limit only on the way into the panic.
RetryInv == pc # "panicked" => seed_errors <= MAX_SEED_RETRIES

Stm32Inv == TypeOK /\ RetryInv /\ FirstWordInv

-----------------------------------------------------------------------------
(* The nRF54L15 *)

(***************************************************************************)
(* The level the draining loop counts down is never more than what is in   *)
(* the FIFO: nothing but the loop takes words out of it, and a soft reset, *)
(* which flushes it, happens outside of the loop only.                     *)
(***************************************************************************)
DrainInv ==
  /\ nrfPc = "drain" => level > 0 /\ level <= fifolevel
  /\ underrun = FALSE

RestartInv == nrfPc # "panicked" => restarts <= MAX_TRNG_RESTARTS

NrfInv == Nrf!TypeOK /\ RestartInv /\ DrainInv

RngInv == Stm32Inv /\ NrfInv

-----------------------------------------------------------------------------
(* Take: the bytes copied from one word *)

\* A word never gives more bytes than dst wants.
LEMMA TakeBounds ==
  ASSUME left \in Nat
  PROVE  Take \in Nat /\ Take <= left
BY RngAssumption DEF Take

\* try_fill_bytes takes no more words in one round than are left to fill.
LEMMA NrfTakeBounds ==
  ASSUME nrfLeft \in Nat
  PROVE  Nrf!Take \in Nat /\ Nrf!Take <= nrfLeft
BY RngAssumption DEF Nrf!Take

-----------------------------------------------------------------------------
(* Every step keeps the invariants *)

\* new starts with a conditioning reset under way and nothing in DR.
LEMMA Stm32InitInv == Init => Stm32Inv
<1> SUFFICES ASSUME Init PROVE Stm32Inv
  OBVIOUS
<1>1. clockErrors \in 0 .. MaxClockErrors /\ tries \in 0 .. WaitTries - 1
  BY RngAssumption DEF Init
<1>2. seed_errors \in 0 .. MAX_SEED_RETRIES + 1 /\ RetryInv
  BY RngAssumption DEF Init, RetryInv
<1>3. left \in Nat
  BY DEF Init
<1>4. TypeOK
  BY <1>1, <1>2, <1>3, Zenon DEF Init, TypeOK
<1>5. FirstWordInv
  BY DEF Init, FirstWordInv, Conditioned
<1> QED
  BY <1>2, <1>4, <1>5 DEF Stm32Inv

\* The peripheral's own steps.
LEMMA PeripheralKeepsInv ==
  ASSUME Stm32Inv, Reset \/ Produce \/ SeedError \/ ClockError
  PROVE  Stm32Inv'
<1> USE RngAssumption DEF Stm32Inv, TypeOK, RetryInv, FirstWordInv, Conditioned,
                          rngVars, drvVars
<1>1. CASE Reset
  <2>1. seis' \in BOOLEAN /\ ceis' \in BOOLEAN /\ fresh' \in BOOLEAN
    BY <1>1, Zenon DEF Reset, TakeCondrst
  <2> QED
    BY <1>1, <2>1 DEF Reset, TakeCondrst
<1>2. CASE Produce
  BY <1>2 DEF Produce
<1>3. CASE SeedError
  BY <1>3 DEF SeedError
<1>4. CASE ClockError
  BY <1>4 DEF ClockError
<1> QED
  BY <1>1, <1>2, <1>3, <1>4

\* init_rng: three polls, the check and the read that discards the word.
LEMMA InitRngKeepsInv ==
  ASSUME Stm32Inv, InitRng
  PROVE  Stm32Inv'
<1> USE RngAssumption DEF Stm32Inv, TypeOK, RetryInv, FirstWordInv, Conditioned,
                          rngVars, drvVars
<1>1. CASE WaitCondrstOn
  BY <1>1 DEF WaitCondrstOn, Wait
<1>2. CASE WaitCondrstOff
  BY <1>2 DEF WaitCondrstOff, Wait
<1>3. CASE WaitFirst
  BY <1>3 DEF WaitFirst, Wait
<1>4. CASE CheckFirst
  BY <1>4 DEF CheckFirst
<1>5. CASE Discard
  BY <1>5 DEF Discard
<1> QED
  BY <1>1, <1>2, <1>3, <1>4, <1>5 DEF InitRng

\* try_fill_bytes: one iteration of its loop.
LEMMA FillKeepsInv ==
  ASSUME Stm32Inv,
         \/ PollSeedError \/ PollClockError \/ PollReady \/ ReadWord
         \/ \E n \in Lengths : FillBytes(n)
  PROVE  Stm32Inv'
<1> USE RngAssumption DEF Stm32Inv, TypeOK, RetryInv, FirstWordInv, Conditioned,
                          rngVars, drvVars
<1>1. CASE PollSeedError
  <2>1. CASE seed_errors + 1 > MAX_SEED_RETRIES
    BY <1>1, <2>1 DEF PollSeedError
  <2>2. CASE ~(seed_errors + 1 > MAX_SEED_RETRIES)
    <3>1. seis' = FALSE /\ seis' \in BOOLEAN
      BY <1>1, <2>2, Zenon DEF PollSeedError
    <3> QED
      BY <1>1, <2>2, <3>1 DEF PollSeedError
  <2> QED
    BY <2>1, <2>2
<1>2. CASE PollClockError
  BY <1>2 DEF PollClockError
<1>3. CASE PollReady
  BY <1>3 DEF PollReady
<1>4. CASE ReadWord
  <2>1. left' \in Nat
    BY <1>4, TakeBounds DEF ReadWord
  <2>2. got' \subseteq {"first", "good", "zero"} /\ "first" \notin got'
    BY <1>4 DEF ReadWord
  <2> QED
    BY <1>4, <2>1, <2>2 DEF ReadWord
<1>5. ASSUME NEW n \in Lengths, FillBytes(n) PROVE Stm32Inv'
  BY <1>5 DEF FillBytes
<1> QED
  BY <1>1, <1>2, <1>3, <1>4, <1>5

\* The steps of the other platform leave this one's variables alone.
LEMMA Stm32StutterInv ==
  ASSUME Stm32Inv, UNCHANGED vars
  PROVE  Stm32Inv'
BY DEF vars, rngVars, drvVars, Stm32Inv, TypeOK, RetryInv, FirstWordInv, Conditioned

\* new of the nRF54L15 starts with an empty FIFO.
LEMMA NrfInitInv == Nrf!Init => NrfInv
<1> SUFFICES ASSUME Nrf!Init PROVE NrfInv
  OBVIOUS
<1>1. /\ fifolevel \in 0 .. FifoDepth /\ level \in 0 .. FifoDepth /\ nrfLeft \in Nat
      /\ restarts \in 0 .. MAX_TRNG_RESTARTS + 1 /\ RestartInv
  BY ProvidersAssumption DEF Nrf!Init, RestartInv
<1>2. Nrf!TypeOK
  BY <1>1, Zenon DEF Nrf!Init, Nrf!TypeOK
<1>3. DrainInv
  BY Zenon DEF Nrf!Init, DrainInv
<1> QED
  BY <1>1, <1>2, <1>3 DEF NrfInv

\* The TRNG's own steps and those of new and try_fill_bytes.
LEMMA NrfKeepsInv ==
  ASSUME NrfInv, Nrf!Next
  PROVE  NrfInv'
<1> USE RngAssumption, ProvidersAssumption
    DEF NrfInv, Nrf!TypeOK, RestartInv, DrainInv, Nrf!trngVars
<1>1. CASE Nrf!Fill
  BY <1>1 DEF Nrf!Fill
<1>2. CASE Nrf!Fail
  BY <1>2 DEF Nrf!Fail
<1>3. CASE Nrf!DiscardFirst
  BY <1>3 DEF Nrf!DiscardFirst
<1>4. CASE Nrf!CheckError
  BY <1>4 DEF Nrf!CheckError
<1>5. CASE Nrf!CheckOk
  BY <1>5 DEF Nrf!CheckOk
<1>6. CASE Nrf!WaitFifo
  BY <1>6 DEF Nrf!WaitFifo
<1>7. CASE Nrf!DrainWord
  <2>1. nrfLeft' \in Nat
    BY <1>7, NrfTakeBounds DEF Nrf!DrainWord
  <2>2. fifolevel > 0 /\ fifolevel' = fifolevel - 1 /\ underrun' = FALSE
    BY <1>7 DEF Nrf!DrainWord
  <2> QED
    BY <1>7, <2>1, <2>2 DEF Nrf!DrainWord
<1>8. ASSUME NEW n \in Lengths, Nrf!FillBytes(n) PROVE NrfInv'
  BY <1>8 DEF Nrf!FillBytes
<1> QED
  BY <1>1, <1>2, <1>3, <1>4, <1>5, <1>6, <1>7, <1>8 DEF Nrf!Next, Nrf!Driver

\* A step that changes nothing on the nRF54L15 keeps its invariant.
LEMMA NrfStutterInv ==
  ASSUME NrfInv, UNCHANGED nrfVars
  PROVE  NrfInv'
BY DEF nrfVars, NrfInv, Nrf!TypeOK, RestartInv, DrainInv

-----------------------------------------------------------------------------
(* The theorems *)

\* The inductive invariant holds for every number of retries, polls and FIFO
\* words and for buffers of any length.
THEOREM RngInvariant == RngFairSpec => []RngInv
<1>1. RngInit => RngInv
  BY Stm32InitInv, NrfInitInv DEF RngInit, RngInv
<1>2. RngInv /\ [RngNext]_rngProviderVars => RngInv'
  <2> SUFFICES ASSUME RngInv, [RngNext]_rngProviderVars PROVE RngInv'
    OBVIOUS
  <2>0. Stm32Inv /\ NrfInv
    BY DEF RngInv
  <2>1. CASE Stm32Does(Next)
    <3>1. Next /\ UNCHANGED nrfVars
      BY <2>1 DEF Stm32Does
    <3>2. Stm32Inv'
      BY <2>0, <3>1, PeripheralKeepsInv, InitRngKeepsInv, FillKeepsInv DEF Next, Driver
    <3> QED
      BY <2>0, <3>1, <3>2, NrfStutterInv DEF RngInv
  <2>2. CASE NrfDoes(Nrf!Next)
    <3>1. Nrf!Next /\ UNCHANGED vars
      BY <2>2 DEF NrfDoes
    <3> QED
      BY <2>0, <3>1, NrfKeepsInv, Stm32StutterInv DEF RngInv
  <2>3. CASE UNCHANGED rngProviderVars
    <3>1. UNCHANGED vars /\ UNCHANGED nrfVars
      BY <2>3 DEF rngProviderVars
    <3> QED
      BY <2>0, <3>1, NrfStutterInv, Stm32StutterInv DEF RngInv
  <2> QED
    BY <2>1, <2>2, <2>3 DEF RngNext
<1> QED
  BY <1>1, <1>2, PTL DEF RngFairSpec

\* Neither driver counts past the retries it grants itself, and wait_for stays
\* within its polls.
THEOREM RngTypes == RngFairSpec => []RngTypeOK
<1>1. RngInv => RngTypeOK
  BY DEF RngInv, Stm32Inv, NrfInv, RngTypeOK
<1> QED
  BY <1>1, RngInvariant, PTL

\* No order of seed errors, clock errors, words and register accesses lets the
\* first word after a conditioning reset of the STM32WBA55 reach a caller.
THEOREM FirstWordNeverUsed == RngFairSpec => []FirstWordDiscarded
<1>1. RngInv => FirstWordDiscarded
  BY DEF RngInv, Stm32Inv, FirstWordInv, FirstWordDiscarded
<1> QED
  BY <1>1, RngInvariant, PTL

\* The draining loop of the nRF54L15 pops only words that are there.
THEOREM FifoNeverUnderruns == RngFairSpec => []NoUnderrun
<1>1. RngInv => NoUnderrun
  BY DEF RngInv, NrfInv, DrainInv, NoUnderrun, Nrf!NoUnderrun
<1> QED
  BY <1>1, RngInvariant, PTL
=============================================================================
