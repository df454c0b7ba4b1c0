----------------------------- MODULE AeadProofs -----------------------------
(***************************************************************************)
(* Proofs about AeadProviders, for every platform, every set of calls and  *)
(* every size of the drivers' buffers: between two calls the hardware is   *)
(* at rest, a failed decryption on the nRF54L15 leaves nothing unverified  *)
(* behind, and every call with arguments of the right lengths is AES-CCM   *)
(* or AES-GCM of these arguments, for messages and additional data of any  *)
(* length that fits into the drivers' buffers.                             *)
(***************************************************************************)
EXTENDS AeadProviders, SequenceTheorems, TLAPS

-----------------------------------------------------------------------------
(* The inductive invariant *)

StmPhases == {"init", "header_start", "header", "payload_start", "payload"}
NrfPhases == {"build", "wait"}

\* A call is in progress exactly in the phases of some provider.
PcInv ==
  /\ pc \in {"idle", "panicked", "collect", "library"} \cup StmPhases \cup NrfPhases
  /\ busy = (pc \notin {"idle", "panicked"})

\* The AES peripheral is in the phase the driver is in, and enabled only from
\* the header phase to the end of the payload phase.
AesInv ==
  /\ DOMAIN aes = DOMAIN Stm!PowerOn
  /\ aes.misused = FALSE
  /\ pc = "header" => aes.en = TRUE /\ aes.gcmph = "header"
  /\ pc = "payload" => aes.en = TRUE /\ aes.gcmph = "payload"
  /\ pc \notin {"header", "payload_start", "payload"} => aes.en = FALSE

\* The DMA runs only while a call polls, and the bits it runs with are polled.
DmaInv ==
  /\ DOMAIN dma = {"status", "stream", "sizes", "filled", "final"}
  /\ dma.status \subseteq Nrf!Polled
  /\ pc # "wait" => dma.status = {}

OnNrf == platform = [adapter |-> "none", base |-> "nrf54l15"]

\* On the nRF54L15 alone only its driver runs, and the caller's buffer is as it
\* was handed over while a call runs and after one that failed.
BufferInv ==
  OnNrf =>
    /\ pc \in {"idle", "panicked"} \cup NrfPhases
    /\ pc \in NrfPhases \/ result.status = "DecryptionFailed" => message = call.message

AeadInv == PcInv /\ AesInv /\ DmaInv /\ BufferInv

-----------------------------------------------------------------------------
(* Each step keeps it *)

USE DEF StmPhases, NrfPhases

\* At the start both engines rest and no call is open.
LEMMA InitAead == Init => AeadInv
<1> SUFFICES ASSUME Init PROVE AeadInv
  OBVIOUS
<1>1. pc = "idle" /\ aes = Stm!PowerOn /\ result = [status |-> "pending", tag |-> {}]
  BY DEF Init, Stm!StmInit
<1>2. PcInv
  <2>1. busy = FALSE
    BY Zenon DEF Init
  <2> QED
    BY <1>1, <2>1 DEF PcInv
<1>3. AesInv
  BY <1>1 DEF AesInv, Stm!PowerOn
<1>4. DmaInv
  BY DEF Init, Nrf!DmaInit, DmaInv, Nrf!Polled
<1>5. BufferInv
  BY <1>1 DEF BufferInv
<1> QED
  BY <1>2, <1>3, <1>4, <1>5 DEF AeadInv

\* A call begins with its arguments, in the first phase of its provider.
LEMMA BeginAead ==
  ASSUME AeadInv, NEW c, pc = "idle", UNCHANGED <<platform, aes, dma>>,
         ~busy, busy' = TRUE, call' = c, message' = c.message,
         pc' \in {"init", "build", "collect", "library"},
         OnNrf => pc' = "build"
  PROVE  AeadInv'
<1>1. PcInv'
  BY DEF PcInv
<1>2. AesInv'
  BY DEF AeadInv, AesInv
<1>3. DmaInv'
  BY DEF AeadInv, DmaInv
<1>4. BufferInv'
  BY DEF BufferInv, OnNrf
<1> QED
  BY <1>1, <1>2, <1>3, <1>4 DEF AeadInv

\* On the nRF54L15 alone every call goes to its driver.
LEMMA OnlyNrf ==
  ASSUME OnNrf, NEW n, NEW v \in Variants(n)
  PROVE  Provider(v) = "nrf54l15"
<1>1. platform.adapter = "none" /\ platform.base = "nrf54l15"
  BY DEF OnNrf
<1>2. v = "direct"
  BY <1>1 DEF Variants, from_cose_number, OwnAlgorithms
<1> QED
  BY <1>1, <1>2 DEF Provider

\* A call begins on the provider its key belongs to; the other engine rests.
LEMMA StartAead ==
  ASSUME AeadInv, Start, UNCHANGED platform
  PROVE  AeadInv'
<1> DEFINE Begins(c, v) ==
        \/ Provider(v) = "stm32wba55" /\ Stm!Start(c) /\ UNCHANGED <<dma, rustcryptoVars>>
        \/ Provider(v) = "nrf54l15" /\ Nrf!Start(c) /\ UNCHANGED <<stmVars, rustcryptoVars>>
        \/ Provider(v) = "rustcrypto" /\ Rustcrypto!Start(c) /\ UNCHANGED <<stmVars, dma>>
        \/ Provider(v) = "libcrux" /\ Libcrux!Start(c)
             /\ UNCHANGED <<stmVars, dma, rustcryptoVars>>
<1>0. PICK c \in Offered[platform.adapter] : \E v \in Variants(c.key.alg) : Begins(c, v)
  BY Zenon DEF Start
<1>1. PICK v \in Variants(c.key.alg) : Begins(c, v)
  BY <1>0, Zenon
<1>2. OnNrf => Provider(v) = "nrf54l15"
  BY OnlyNrf
<1>3. CASE Provider(v) = "stm32wba55" /\ Stm!Start(c) /\ UNCHANGED <<dma, rustcryptoVars>>
  BY <1>2, <1>3, BeginAead DEF Stm!Start, Stm!Begin, Stm!stmVars
<1>4. CASE Provider(v) = "nrf54l15" /\ Nrf!Start(c) /\ UNCHANGED <<stmVars, rustcryptoVars>>
  BY <1>2, <1>4, BeginAead DEF Nrf!Start, Nrf!Begin, stmVars
<1>5. CASE Provider(v) = "rustcrypto" /\ Rustcrypto!Start(c) /\ UNCHANGED <<stmVars, dma>>
  BY <1>2, <1>5, BeginAead DEF Rustcrypto!Start, Rustcrypto!Begin, stmVars
<1>6. CASE Provider(v) = "libcrux" /\ Libcrux!Start(c)
             /\ UNCHANGED <<stmVars, dma, rustcryptoVars>>
  BY <1>2, <1>6, BeginAead DEF Libcrux!Start, Libcrux!Begin, stmVars
<1> QED
  BY <1>1, <1>3, <1>4, <1>5, <1>6

\* A step of the STM32 driver leaves the phase, the enable bit and the misuse
\* flag of the peripheral as AesInv wants them.
LEMMA StmAes ==
  ASSUME AesInv, Stm!StmStep
  PROVE  AesInv'
<1>0. /\ DOMAIN aes = {"en", "gcmph", "mode", "keysize", "keyr", "ivr", "npblb",
                       "mac", "ctr", "misused"}
      /\ DOMAIN Stm!PowerOn = DOMAIN aes
  BY DEF AesInv, Stm!PowerOn
<1>1. CASE Stm!InitPhase
  <2>1. CASE Stm!B0Panics(call.nonce)
    <3>1. aes' = Stm!Configured(aes) /\ pc' = "panicked"
      BY <1>1, <2>1 DEF Stm!InitPhase, Stm!InitPanic
    <3>2. DOMAIN aes' = DOMAIN aes /\ aes'.en = FALSE /\ aes'.misused = aes.misused
      BY <1>0, <3>1 DEF Stm!Configured
    <3> QED
      BY <1>0, <3>1, <3>2 DEF AesInv
  <2>2. CASE ~Stm!B0Panics(call.nonce)
    <3> DEFINE b0 == Stm!build_b0(call.nonce, Len(message), Stm!ALen(call.aad), TAG_LEN)
               a == [Stm!Configured(aes) EXCEPT !.ivr = b0,
                                                !.keyr = Stm!WriteKey(@, call.key)]
    <3>1. aes' = Stm!StartMac(a) /\ pc' \in {"header_start", "payload_start"}
      BY <1>1, <2>2 DEF Stm!InitPhase, Stm!InitDone
    <3>2. DOMAIN a = DOMAIN aes
      BY <1>0 DEF Stm!Configured
    <3> HIDE DEF a
    <3>3. DOMAIN aes' = DOMAIN aes /\ aes'.en = FALSE /\ aes'.misused = FALSE
      BY <1>0, <3>1, <3>2 DEF Stm!StartMac
    <3> QED
      BY <1>0, <3>1, <3>3 DEF AesInv
  <2> QED
    BY <2>1, <2>2
<1>2. CASE Stm!HeaderStart
  BY <1>0, <1>2 DEF Stm!HeaderStart, AesInv
<1>3. ASSUME NEW b, pc = "header", aes' = Stm!TakeHeader(aes, b)
      PROVE  /\ DOMAIN aes' = DOMAIN aes /\ aes'.en = TRUE /\ aes'.gcmph = "header"
             /\ aes'.misused = FALSE
  <2>1. DOMAIN aes' = DOMAIN aes /\ aes'.gcmph = aes.gcmph
    BY <1>0, <1>3 DEF Stm!TakeHeader
  <2>2. aes'.en = aes.en
    BY <1>0, <1>3 DEF Stm!TakeHeader
  <2>3. aes'.misused = (aes.misused \/ ~aes.en \/ aes.gcmph # "header")
    BY <1>0, <1>3 DEF Stm!TakeHeader
  <2> QED
    BY <1>3, <2>1, <2>2, <2>3 DEF AesInv
<1>4. CASE Stm!HeaderFill
  <2>1. pc = "header" /\ pc' = "header"
    BY <1>4 DEF Stm!HeaderFill
  <2>2. \/ \E b : aes' = Stm!TakeHeader(aes, b)
        \/ aes' = aes
    BY <1>4 DEF Stm!HeaderFill
  <2> QED
    BY <1>0, <1>3, <2>1, <2>2 DEF AesInv
<1>5. CASE Stm!HeaderEnd
  <2>1. pc = "header" /\ pc' = "payload_start"
    BY <1>5 DEF Stm!HeaderEnd
  <2>2. \/ \E b : aes' = Stm!TakeHeader(aes, b)
        \/ aes' = aes
    BY <1>5 DEF Stm!HeaderEnd
  <2> QED
    BY <1>0, <1>3, <2>1, <2>2 DEF AesInv
<1>6. CASE Stm!PayloadStart
  BY <1>0, <1>6 DEF Stm!PayloadStart, AesInv
<1>7. CASE Stm!PayloadBlock
  <2>1. pc = "payload" /\ pc' = "payload"
    BY <1>7 DEF Stm!PayloadBlock
  <2>2. PICK b : aes' = Stm!TakePayload(Stm!WithNpblb(aes), b)
    BY <1>7 DEF Stm!PayloadBlock
  <2> DEFINE a == Stm!WithNpblb(aes)
  <2>3. DOMAIN a = DOMAIN aes /\ a.gcmph = aes.gcmph
    BY <1>0 DEF Stm!WithNpblb
  <2>4. a.en = aes.en /\ a.misused = aes.misused
    BY <1>0 DEF Stm!WithNpblb
  <2> HIDE DEF a
  <2>5. aes' = Stm!TakePayload(a, b)
    BY <2>2 DEF a
  <2>6. DOMAIN aes' = DOMAIN a /\ aes'.gcmph = a.gcmph
    BY <1>0, <2>3, <2>5 DEF Stm!TakePayload
  <2>7. aes'.en = a.en
    BY <1>0, <2>3, <2>5 DEF Stm!TakePayload
  <2>8. aes'.misused = (a.misused \/ ~a.en \/ a.gcmph # "payload")
    BY <1>0, <2>3, <2>5 DEF Stm!TakePayload
  <2>9. aes.en = TRUE /\ aes.gcmph = "payload" /\ aes.misused = FALSE
    BY <2>1 DEF AesInv
  <2> QED
    BY <1>0, <2>1, <2>3, <2>4, <2>6, <2>7, <2>8, <2>9 DEF AesInv
<1>8. CASE Stm!FinalPhase
  <2>1. pc' = "idle" /\ aes' = [aes EXCEPT !.gcmph = "final", !.en = FALSE,
                                          !.mac = << >>, !.ctr = 0]
    BY <1>8 DEF Stm!FinalPhase
  <2> QED
    BY <1>0, <2>1 DEF AesInv
<1> QED
  BY <1>1, <1>2, <1>4, <1>5, <1>6, <1>7, <1>8 DEF Stm!StmStep

\* A step of the STM32 driver.
LEMMA StmAead ==
  ASSUME AeadInv, Stm!StmStep, UNCHANGED <<platform, dma>>
  PROVE  AeadInv'
<1>1. /\ pc \in StmPhases
      /\ \/ pc' \in StmPhases /\ busy' = busy
         \/ pc' \in {"idle", "panicked"} /\ busy' = FALSE
  BY DEF Stm!StmStep, Stm!InitPhase, Stm!InitPanic, Stm!InitDone, Stm!HeaderStart,
         Stm!HeaderFill, Stm!HeaderEnd, Stm!PayloadStart, Stm!PayloadBlock,
         Stm!FinalPhase, Stm!aeadVars
<1>2. PcInv'
  BY <1>1 DEF AeadInv, PcInv
<1>3. AesInv'
  BY StmAes DEF AeadInv
<1>4. DmaInv'
  BY <1>1 DEF AeadInv, DmaInv
<1>5. BufferInv'
  BY <1>1 DEF AeadInv, BufferInv, OnNrf
<1> QED
  BY <1>2, <1>3, <1>4, <1>5 DEF AeadInv

\* The steps of the DMA and of the driver on the nRF54L15.
LEMMA NrfAead ==
  ASSUME AeadInv, Nrf!NrfStep, UNCHANGED <<platform, stmVars>>
  PROVE  AeadInv'
<1>0. UNCHANGED aes
  BY DEF stmVars
<1>1. CASE Nrf!Build
  <2>1. pc = "build"
    BY <1>1 DEF Nrf!Build
  <2>2. CASE Nrf!BuildPanics
    <3>1. pc' = "panicked" /\ busy' = FALSE /\ UNCHANGED <<call, message, dma>>
          /\ result' = [status |-> "panicked", tag |-> {}]
      BY <1>1, <2>2 DEF Nrf!Build, Nrf!Panic
    <3> QED
      BY <1>0, <2>1, <3>1 DEF AeadInv, PcInv, AesInv, DmaInv, BufferInv, OnNrf
  <2>3. CASE ~Nrf!BuildPanics
    <3>1. /\ pc' = "wait" /\ UNCHANGED <<busy, call, message, result>>
          /\ \E in, out, stream : Nrf!StartDma(in, out, stream)
      BY <1>1, <2>3 DEF Nrf!Build, Nrf!aeadVars
    <3>2. DmaInv'
      BY <3>1 DEF Nrf!StartDma, DmaInv, Nrf!Polled
    <3> QED
      BY <1>0, <2>1, <3>1, <3>2 DEF AeadInv, PcInv, AesInv, BufferInv, OnNrf
  <2> QED
    BY <2>2, <2>3
<1>2. CASE Nrf!Dma /\ UNCHANGED <<Nrf!aeadVars, pc>>
  <2>0. UNCHANGED <<busy, call, message, result, pc>>
    BY <1>2 DEF Nrf!aeadVars
  <2>1. DOMAIN dma' = DOMAIN dma /\ dma'.status \subseteq Nrf!Polled /\ dma.status # {}
    <3>0. DOMAIN dma = {"status", "stream", "sizes", "filled", "final"}
          /\ dma.status \subseteq Nrf!Polled
      BY DEF AeadInv, DmaInv
    <3>1. CASE Nrf!Fetch
      BY <3>0, <3>1 DEF Nrf!Fetch
    <3>2. CASE Nrf!PushWait
      BY <3>0, <3>2 DEF Nrf!PushWait, Nrf!Polled
    <3>3. CASE Nrf!Push
      <4> DEFINE st == (dma.status \ {"pushbusy", "pushwaitingfifo"})
                         \cup (IF Len(dma.sizes) = 1 THEN {} ELSE {"pushbusy"})
                 rest == SubSeq(dma.stream, Head(dma.sizes) + 1, Len(dma.stream))
                 full == Append(dma.filled, SubSeq(dma.stream, 1, Head(dma.sizes)))
      <4>1. dma' = [dma EXCEPT !.status = st, !.stream = rest,
                               !.sizes = Tail(dma.sizes), !.filled = full]
        BY <3>3 DEF Nrf!Push
      <4>2. st \subseteq Nrf!Polled /\ dma.status # {}
        BY <3>0, <3>3 DEF Nrf!Polled, Nrf!Push
      <4> HIDE DEF st, rest, full
      <4> QED
        BY <3>0, <4>1, <4>2
    <3> QED
      BY <1>2, <3>1, <3>2, <3>3 DEF Nrf!Dma
  <2>2. pc = "wait"
    BY <2>1 DEF AeadInv, DmaInv
  <2> QED
    BY <1>0, <2>0, <2>1, <2>2 DEF AeadInv, PcInv, AesInv, DmaInv, BufferInv, OnNrf
<1>3. CASE Nrf!Finish
  <2>1. /\ pc = "wait" /\ pc' = "idle" /\ busy' = FALSE /\ UNCHANGED <<call, dma>>
        /\ dma.status \cap Nrf!Polled = {}
    BY <1>3 DEF Nrf!Finish, Nrf!PollingEnds
  <2>2. result'.status = "DecryptionFailed" => message' = message
    BY <1>3 DEF Nrf!Finish
  <2>3. DmaInv'
    BY <2>1 DEF AeadInv, DmaInv
  <2>4. BufferInv'
    BY <2>1, <2>2 DEF AeadInv, BufferInv, OnNrf
  <2> QED
    BY <1>0, <2>1, <2>3, <2>4 DEF AeadInv, PcInv, AesInv
<1> QED
  BY <1>1, <1>2, <1>3 DEF Nrf!NrfStep

\* The steps of the two extenders.
LEMMA ExtenderAead ==
  ASSUME AeadInv, Rustcrypto!RustcryptoStep \/ Libcrux!LibraryCall,
         UNCHANGED <<platform, stmVars, dma>>
  PROVE  AeadInv'
<1>1. UNCHANGED aes
  BY DEF stmVars
<1>2. /\ pc \in {"collect", "library"}
      /\ \/ pc' = pc /\ busy' = busy
         \/ pc' \in {"idle", "panicked"} /\ busy' = FALSE
  BY DEF Rustcrypto!RustcryptoStep, Rustcrypto!CollectSlice, Rustcrypto!LibraryCall,
         Rustcrypto!Panic, Libcrux!LibraryCall
<1> QED
  BY <1>1, <1>2 DEF AeadInv, PcInv, AesInv, DmaInv, BufferInv, OnNrf

-----------------------------------------------------------------------------
(* Theorems *)

\* The inductive invariant holds in every reachable state.
THEOREM AeadInvariant == Spec => []AeadInv
<1>1. Init => AeadInv
  BY InitAead
<1>2. AeadInv /\ [Next]_vars => AeadInv'
  <2> SUFFICES ASSUME AeadInv, [Next]_vars PROVE AeadInv'
    OBVIOUS
  <2>1. CASE Next
    <3>1. CASE Start
      BY <2>1, <3>1, StartAead DEF Next
    <3>2. CASE Step
      BY <2>1, <3>2, StmAead, NrfAead, ExtenderAead DEF Next, Step
    <3> QED
      BY <2>1, <3>1, <3>2 DEF Next
  <2>2. CASE UNCHANGED vars
    BY <2>2 DEF vars, stmVars, AeadInv, PcInv, AesInv, DmaInv, BufferInv, OnNrf
  <2> QED
    BY <2>1, <2>2
<1> QED
  BY <1>1, <1>2, PTL DEF Spec

\* On every platform, when no call is in progress the DMA does not write and the
\* AES peripheral is disabled; no block ever came to it in the wrong phase.
THEOREM HardwareRests == Spec => []HardwareAtRest
<1>1. AeadInv => HardwareAtRest
  BY DEF AeadInv, PcInv, AesInv, DmaInv, HardwareAtRest
<1> QED
  BY <1>1, AeadInvariant, PTL

\* A failed decryption on the nRF54L15 leaves the caller's buffer as it was.
THEOREM NrfFailuresContained == Spec => []NrfFailureContained
<1>1. AeadInv => NrfFailureContained
  BY DEF AeadInv, BufferInv, OnNrf, NrfFailureContained
<1> QED
  BY <1>1, AeadInvariant, PTL

HIDE DEF StmPhases, NrfPhases

-----------------------------------------------------------------------------
(* Whole blocks *)

Whole(n) == \E q \in Nat : n = q * BLOCK

\* Quotient and remainder of a number by the block size.
LEMMA BlockDivision ==
  ASSUME NEW a \in Nat
  PROVE  a \div BLOCK \in Nat /\ \E r \in 0 .. BLOCK - 1 : a = (a \div BLOCK) * BLOCK + r
<1> DEFINE B == BLOCK
<1>0. B \in Nat \ {0}
  BY CcmAssumption
<1> HIDE DEF B
<1>1. a % B = a - B * (a \div B)
  BY <1>0, Z3
<1>2. a \div B \in Nat /\ a % B \in 0 .. B - 1
  BY <1>0
<1>3. B * (a \div B) = (a \div B) * B
  BY <1>0, <1>2
<1>4. a = (a \div B) * B + (a % B)
  BY <1>0, <1>1, <1>2, <1>3
<1> QED
  BY <1>2, <1>4 DEF B

\* Two multiples of the block size that are less than a block apart are equal.
LEMMA WholeUnique ==
  ASSUME NEW m, NEW n, Whole(m), Whole(n), m < n + BLOCK, n < m + BLOCK
  PROVE  m = n
<1> DEFINE B == BLOCK
<1>0. B \in Nat \ {0}
  BY CcmAssumption
<1>1. PICK p \in Nat : m = p * B
  BY DEF Whole
<1>2. PICK q \in Nat : n = q * B
  BY DEF Whole
<1>a. m < n + B /\ n < m + B
  OBVIOUS
<1> HIDE DEF B
<1>3. (p - q) * B = p * B - q * B /\ (q - p) * B = q * B - p * B
  BY <1>0
<1>4. \A k \in Int : k >= 1 => k * B >= B
  BY <1>0
<1>b. p * B \in Int /\ q * B \in Int
  BY <1>0
<1>5. ~(p - q >= 1)
  BY <1>0, <1>1, <1>2, <1>3, <1>4, <1>a, <1>b
<1>6. ~(q - p >= 1)
  BY <1>0, <1>1, <1>2, <1>3, <1>4, <1>a, <1>b
<1>7. p = q
  BY <1>5, <1>6
<1> QED
  BY <1>1, <1>2, <1>7

\* Whole blocks are numbers, and add up to whole blocks.
LEMMA WholeFacts ==
  /\ Whole(0) /\ Whole(BLOCK)
  /\ \A m, n : Whole(m) /\ Whole(n) => m \in Nat /\ n \in Nat /\ Whole(m + n)
<1> DEFINE B == BLOCK
<1>0. B \in Nat \ {0}
  BY CcmAssumption
<1> HIDE DEF B
<1>1. 0 = 0 * B /\ B = 1 * B
  BY <1>0
<1>2. Whole(0) /\ Whole(B)
  BY <1>1 DEF Whole, B
<1>3. ASSUME NEW m, NEW n, Whole(m), Whole(n) PROVE m \in Nat /\ n \in Nat /\ Whole(m + n)
  <2>1. PICK p \in Nat : m = p * B
    BY <1>3 DEF Whole, B
  <2>2. PICK q \in Nat : n = q * B
    BY <1>3 DEF Whole, B
  <2>3. p * B \in Nat /\ q * B \in Nat /\ (p + q) * B = p * B + q * B
    BY <1>0
  <2>4. m + n = (p + q) * B /\ p + q \in Nat
    BY <2>1, <2>2, <2>3
  <2> QED
    BY <2>1, <2>2, <2>3, <2>4 DEF Whole, B
<1> QED
  BY <1>2, <1>3 DEF B

\* Padding goes to the next whole block.
LEMMA PaddedFacts ==
  ASSUME NEW n \in Nat
  PROVE  Padded(n) \in Nat /\ Whole(Padded(n)) /\ n <= Padded(n) /\ Padded(n) < n + BLOCK
<1> DEFINE B == BLOCK
           a == n + (B - 1)
           q == a \div B
           x == q * B
<1>0. B \in Nat \ {0}
  BY CcmAssumption
<1>1. a \in Nat
  BY <1>0
<1>2. q \in Nat /\ \E r \in 0 .. B - 1 : a = q * B + r
  BY <1>1, BlockDivision
<1>3. PICK r \in 0 .. B - 1 : a = x + r
  BY <1>2
<1>4. Padded(n) = x
  BY DEF Padded
<1>5. x \in Nat
  BY <1>0, <1>2
<1>6. Whole(x)
  BY <1>2 DEF Whole
<1>7. a = n + (B - 1)
  OBVIOUS
<1> HIDE DEF x, a, B
<1>8. n <= x /\ x < n + B
  BY <1>0, <1>3, <1>5, <1>7
<1> QED
  BY <1>4, <1>5, <1>6, <1>8 DEF B

\* A whole number of blocks in front does not change the padding.
LEMMA PaddedAfter ==
  ASSUME NEW m, NEW n \in Nat, Whole(m)
  PROVE  Padded(m + n) = m + Padded(n)
<1>1. m \in Nat /\ BLOCK \in Nat
  BY WholeFacts, CcmAssumption
<1>2. Padded(n) \in Nat /\ Whole(Padded(n)) /\ n <= Padded(n) /\ Padded(n) < n + BLOCK
  BY PaddedFacts
<1>3. Padded(m + n) \in Nat /\ Whole(Padded(m + n)) /\ m + n <= Padded(m + n)
      /\ Padded(m + n) < (m + n) + BLOCK
  <2>1. m + n \in Nat
    BY <1>1
  <2> QED
    BY <2>1, PaddedFacts
<1>4. Whole(m + Padded(n))
  BY <1>2, WholeFacts
<1>5. Padded(m + n) < (m + Padded(n)) + BLOCK /\ m + Padded(n) < Padded(m + n) + BLOCK
  BY <1>1, <1>2, <1>3
<1> QED
  BY <1>3, <1>4, <1>5, WholeUnique

\* Whole blocks are not padded, a part of a block becomes a block.
LEMMA PaddedCases ==
  /\ \A m : Whole(m) => Padded(m) = m
  /\ \A c \in 1 .. BLOCK : Padded(c) = BLOCK
<1>0. BLOCK \in Nat \ {0}
  BY CcmAssumption
<1>1. ASSUME NEW m, Whole(m) PROVE Padded(m) = m
  <2>1. m \in Nat
    BY <1>1, WholeFacts
  <2>2. Padded(m) \in Nat /\ Whole(Padded(m)) /\ m <= Padded(m) /\ Padded(m) < m + BLOCK
    BY <2>1, PaddedFacts
  <2>3. m < Padded(m) + BLOCK
    BY <1>0, <2>1, <2>2
  <2> QED
    BY <1>1, <2>2, <2>3, WholeUnique
<1>2. ASSUME NEW c \in 1 .. BLOCK PROVE Padded(c) = BLOCK
  <2>1. Padded(c) \in Nat /\ Whole(Padded(c)) /\ c <= Padded(c) /\ Padded(c) < c + BLOCK
    BY PaddedFacts
  <2>2. Padded(c) < BLOCK + BLOCK /\ BLOCK < Padded(c) + BLOCK
    BY <1>0, <2>1
  <2> QED
    BY <2>1, <2>2, WholeUnique, WholeFacts
<1> QED
  BY <1>1, <1>2

-----------------------------------------------------------------------------
(* Padded sequences *)

\* What ZeroPadded returns.
LEMMA ZeroPaddedFacts ==
  ASSUME NEW S, NEW s \in Seq(S), Byte(0) \in S
  PROVE  /\ ZeroPadded(s) \in Seq(S)
         /\ Len(ZeroPadded(s)) = Padded(Len(s))
         /\ \A i \in 1 .. Padded(Len(s)) :
              ZeroPadded(s)[i] = IF i <= Len(s) THEN s[i] ELSE Byte(0)
<1> DEFINE n == Len(s)
           m == Padded(n) - n
           z == Zeros(m)
<1>1. n \in Nat
  BY LenProperties
<1>2. m \in Nat /\ Padded(n) = n + m /\ Padded(n) \in Nat
  BY <1>1, PaddedFacts
<1> HIDE DEF m, n
<1>3. z \in Seq(S) /\ Len(z) = m /\ \A i \in 1 .. m : z[i] = Byte(0)
  <2>1. z = [i \in 1 .. m |-> Byte(0)]
    BY DEF Zeros
  <2>2. z \in [1 .. m -> S]
    BY <2>1
  <2>3. z \in Seq(S)
    BY <1>2, <2>2, SeqDef
  <2> HIDE DEF z
  <2> QED
    BY <1>2, <2>1, <2>2, <2>3, LenProperties
<1>4. ZeroPadded(s) = s \o z
  BY DEF ZeroPadded, m, n
<1> HIDE DEF z
<1>5. /\ s \o z \in Seq(S) /\ Len(s \o z) = n + m
      /\ \A i \in 1 .. n + m : (s \o z)[i] = IF i <= n THEN s[i] ELSE z[i - n]
  BY <1>3, ConcatProperties DEF n
<1>6. \A i \in 1 .. n + m : i <= n \/ i - n \in 1 .. m
  BY <1>1, <1>2
<1> QED
  BY <1>2, <1>3, <1>4, <1>5, <1>6 DEF n

\* Whole blocks in front of what is padded stay what they are.
LEMMA ZeroPaddedAfter ==
  ASSUME NEW S, NEW x \in Seq(S), NEW y \in Seq(S), Byte(0) \in S, Whole(Len(x))
  PROVE  ZeroPadded(x \o y) = x \o ZeroPadded(y)
<1> DEFINE z == Zeros(Padded(Len(y)) - Len(y))
<1>1. Len(x) \in Nat /\ Len(y) \in Nat
  BY LenProperties
<1>2. x \o y \in Seq(S) /\ Len(x \o y) = Len(x) + Len(y)
  BY ConcatProperties
<1>3. Padded(Len(x) + Len(y)) = Len(x) + Padded(Len(y)) /\ Padded(Len(y)) \in Nat
      /\ Len(y) <= Padded(Len(y))
  BY <1>1, PaddedAfter, PaddedFacts
<1>4. Padded(Len(x \o y)) - Len(x \o y) = Padded(Len(y)) - Len(y)
  BY <1>1, <1>2, <1>3
<1>5. ZeroPadded(x \o y) = (x \o y) \o z /\ ZeroPadded(y) = y \o z
  BY <1>4 DEF ZeroPadded
<1>6. z \in Seq(S)
  <2> DEFINE m == Padded(Len(y)) - Len(y)
  <2>1. m \in Nat /\ z = [i \in 1 .. m |-> Byte(0)]
    BY <1>1, <1>3 DEF Zeros
  <2>2. z \in [1 .. m -> S]
    BY <2>1
  <2> HIDE DEF z, m
  <2> QED
    BY <2>1, <2>2, SeqDef
<1> HIDE DEF z
<1> QED
  BY <1>5, <1>6, ConcatAssociative

\* Whole blocks are not padded.
LEMMA ZeroPaddedWhole ==
  ASSUME NEW S, NEW x \in Seq(S), Byte(0) \in S, Whole(Len(x))
  PROVE  ZeroPadded(x) = x
<1>1. Len(x) \in Nat /\ Padded(Len(x)) = Len(x)
  BY LenProperties, PaddedCases
<1>2. ZeroPadded(x) \in Seq(S) /\ Len(ZeroPadded(x)) = Len(x)
      /\ \A i \in 1 .. Len(x) : ZeroPadded(x)[i] = x[i]
  BY <1>1, ZeroPaddedFacts
<1> QED
  BY <1>2, SeqEqual

-----------------------------------------------------------------------------
(* Items of the additional data *)

\* Induction, for a property given as a set.
LEMMA SetInduction ==
  ASSUME NEW N, 0 \in N, \A n \in Nat : n \in N => n + 1 \in N
  PROVE  Nat \subseteq N
<1> SUFFICES ASSUME Nat \ N # {} PROVE FALSE
  OBVIOUS
<1>1. PICK m \in Nat \ N : \A k \in Nat \ N : m <= k
  BY CcmAssumption, Nrf!LeastNumber
<1>2. m # 0 /\ m - 1 \in Nat
  BY <1>1
<1>3. m - 1 \in N
  BY <1>1, <1>2
<1>4. (m - 1) + 1 \in N
  BY <1>2, <1>3
<1> QED
  BY <1>1, <1>2, <1>4

\* H has what the first i items have together.
Sums(H, seqs) ==
  /\ H = [i \in 0 .. Len(seqs) |-> H[i]]
  /\ H[0] = << >>
  /\ \A i \in 1 .. Len(seqs) : H[i] = H[i - 1] \o seqs[i]

\* The recursive function inside FlattenSeq.
Flattens(F, seqs) ==
  F = [i \in 1 .. Len(seqs) |-> IF i = 1 THEN seqs[i] ELSE F[i - 1] \o seqs[i]]

\* FlattenSeq computes the last of the sums.
LEMMA FlatIs ==
  ASSUME NEW S, NEW seqs \in Seq(Seq(S)), NEW H, Sums(H, seqs)
  PROVE  FlattenSeq(seqs) = H[Len(seqs)]
<1> DEFINE n == Len(seqs)
           F == CHOOSE G : Flattens(G, seqs)
<1>0. n \in Nat
  BY LenProperties
<1>1. CASE n = 0
  <2>1. seqs = << >>
    BY <1>1, EmptySeq
  <2>2. FlattenSeq(seqs) = seqs
    BY <1>1 DEF FlattenSeq
  <2> QED
    BY <1>1, <2>1, <2>2 DEF Sums
<1>2. CASE n # 0
  <2>1. FlattenSeq(seqs) = F[n]
    BY <1>2 DEF FlattenSeq, Flattens
  <2> DEFINE G == [i \in 1 .. n |-> H[i]]
  <2>2. H[1] = seqs[1]
    <3>1. 1 \in 1 .. n /\ 1 - 1 = 0
      BY <1>0, <1>2
    <3>2. H[1] = << >> \o seqs[1] /\ seqs[1] \in Seq(S)
      BY <3>1, ElementOfSeq DEF Sums
    <3> QED
      BY <3>2, ConcatEmptySeq
  <2>3. Flattens(G, seqs)
    <3>1. ASSUME NEW i \in 1 .. n
          PROVE  G[i] = IF i = 1 THEN seqs[i] ELSE G[i - 1] \o seqs[i]
      <4>1. CASE i = 1
        BY <2>2, <4>1
      <4>2. CASE i # 1
        <5>1. i - 1 \in 1 .. n
          BY <1>0, <4>2
        <5> QED
          BY <4>2, <5>1 DEF Sums
      <4> QED
        BY <4>1, <4>2
    <3>2. G = [i \in 1 .. n |-> G[i]]
      OBVIOUS
    <3> HIDE DEF G
    <3> QED
      BY <3>1, <3>2 DEF Flattens
  <2>4. Flattens(F, seqs)
    BY <2>3
  <2> HIDE DEF F, G
  <2> DEFINE N == {i \in Nat : i + 1 \in 1 .. n => F[i + 1] = H[i + 1]}
  <2>5. \A i \in 1 .. n : F[i] = IF i = 1 THEN seqs[i] ELSE F[i - 1] \o seqs[i]
    BY <2>4 DEF Flattens
  <2>6. 0 \in N
    BY <1>0, <2>2, <2>5
  <2>7. ASSUME NEW i \in Nat, i \in N PROVE i + 1 \in N
    <3>1. ASSUME (i + 1) + 1 \in 1 .. n PROVE F[(i + 1) + 1] = H[(i + 1) + 1]
      <4> DEFINE k == (i + 1) + 1
      <4>1. k \in 1 .. n /\ k # 1 /\ k - 1 = i + 1 /\ i + 1 \in 1 .. n
        BY <1>0, <3>1
      <4>2. F[i + 1] = H[i + 1]
        BY <2>7, <4>1
      <4>3. F[k] = F[k - 1] \o seqs[k]
        BY <2>5, <4>1
      <4>4. H[k] = H[k - 1] \o seqs[k]
        BY <4>1 DEF Sums
      <4> QED
        BY <4>1, <4>2, <4>3, <4>4
    <3> QED
      BY <3>1
  <2>8. Nat \subseteq N
    <3> HIDE DEF N
    <3> QED
      BY <2>6, <2>7, SetInduction
  <2>9. n - 1 \in Nat /\ (n - 1) + 1 = n /\ n \in 1 .. n
    BY <1>0, <1>2
  <2>10. F[n] = H[n]
    BY <2>8, <2>9
  <2> QED
    BY <2>1, <2>10
<1> QED
  BY <1>1, <1>2

\* The same up to item m.
SumsTo(H, seqs, S, m) ==
  /\ H = [i \in 0 .. m |-> H[i]]
  /\ H[0] = << >>
  /\ \A i \in 1 .. m : H[i] = H[i - 1] \o seqs[i]
  /\ \A i \in 0 .. m : H[i] \in Seq(S)

\* One more item.
LEMMA SumsExtend ==
  ASSUME NEW S, NEW seqs \in Seq(Seq(S)), NEW m \in Nat, m + 1 <= Len(seqs),
         NEW H, SumsTo(H, seqs, S, m)
  PROVE  \E J : SumsTo(J, seqs, S, m + 1)
<1> DEFINE x == H[m] \o seqs[m + 1]
           J == [i \in 0 .. m + 1 |-> IF i = m + 1 THEN x ELSE H[i]]
<1>0. m + 1 \in 1 .. Len(seqs) /\ m \in 0 .. m /\ 0 \in 0 .. m /\ m + 1 \in 0 .. m + 1
      /\ \A i \in 0 .. m : i \in 0 .. m + 1 /\ i # m + 1
  BY LenProperties
<1>1. H[m] \in Seq(S) /\ seqs[m + 1] \in Seq(S)
  BY <1>0, ElementOfSeq DEF SumsTo
<1>2. x \in Seq(S)
  BY <1>1, ConcatProperties
<1>3. x = H[m] \o seqs[m + 1]
  OBVIOUS
<1> HIDE DEF x
<1>4. J[m + 1] = x /\ \A i \in 0 .. m : J[i] = H[i]
  BY <1>0
<1>5. J = [i \in 0 .. m + 1 |-> J[i]]
  OBVIOUS
<1> HIDE DEF J
<1>6. J[0] = << >>
  BY <1>0, <1>4 DEF SumsTo
<1>7. ASSUME NEW i \in 1 .. m + 1 PROVE J[i] = J[i - 1] \o seqs[i]
  <2>1. CASE i = m + 1
    <3>1. i - 1 = m
      BY <2>1
    <3> QED
      BY <1>0, <1>3, <1>4, <2>1, <3>1
  <2>2. CASE i # m + 1
    <3>1. i \in 1 .. m /\ i \in 0 .. m /\ i - 1 \in 0 .. m
      BY <2>2
    <3>2. H[i] = H[i - 1] \o seqs[i]
      BY <3>1 DEF SumsTo
    <3> QED
      BY <1>4, <3>1, <3>2
  <2> QED
    BY <2>1, <2>2
<1>8. ASSUME NEW i \in 0 .. m + 1 PROVE J[i] \in Seq(S)
  <2>1. i = m + 1 \/ i \in 0 .. m
    OBVIOUS
  <2> QED
    BY <1>2, <1>4, <2>1 DEF SumsTo
<1>9. SumsTo(J, seqs, S, m + 1)
  BY <1>5, <1>6, <1>7, <1>8 DEF SumsTo
<1> QED
  BY <1>9

\* Every list of items has its sums.
LEMMA SumsExist ==
  ASSUME NEW S, NEW seqs \in Seq(Seq(S))
  PROVE  \E H : Sums(H, seqs) /\ \A i \in 0 .. Len(seqs) : H[i] \in Seq(S)
<1> DEFINE n == Len(seqs)
           Some(m) == \E H : SumsTo(H, seqs, S, m)
           N == {m \in Nat : m <= n => Some(m)}
<1>0. n \in Nat
  BY LenProperties
<1>1. Some(0)
  <2> DEFINE H == [i \in 0 .. 0 |-> << >>]
  <2>1. /\ H = [i \in 0 .. 0 |-> H[i]] /\ H[0] = << >>
        /\ \A i \in 1 .. 0 : H[i] = H[i - 1] \o seqs[i]
    OBVIOUS
  <2>2. << >> \in Seq(S)
    BY EmptySeq
  <2>3. \A i \in 0 .. 0 : H[i] \in Seq(S)
    BY <2>2
  <2>4. SumsTo(H, seqs, S, 0)
    BY <2>1, <2>3 DEF SumsTo
  <2> QED
    BY <2>4
<1>2. ASSUME NEW m \in Nat, m + 1 <= n, Some(m) PROVE Some(m + 1)
  BY <1>2, SumsExtend
<1> HIDE DEF Some
<1>3. \A m \in Nat : m \in N => m + 1 \in N
  BY <1>0, <1>2
<1>4. 0 \in N
  BY <1>1
<1>5. n \in N
  <2> HIDE DEF N
  <2> QED
    BY <1>0, <1>3, <1>4, SetInduction
<1>6. Some(n)
  BY <1>0, <1>5
<1>7. PICK H : SumsTo(H, seqs, S, n)
  BY <1>6 DEF Some
<1>8. Sums(H, seqs) /\ \A i \in 0 .. n : H[i] \in Seq(S)
  BY <1>7 DEF Sums, SumsTo
<1> QED
  BY <1>8

\* Nothing together is nothing; what the items have together is bytes.
LEMMA FlatEmpty == FlattenSeq(<< >>) = << >>
<1>1. Len(<< >>) = 0
  OBVIOUS
<1> QED
  BY <1>1 DEF FlattenSeq

\* The items together are a sequence of their elements.
LEMMA FlatType ==
  ASSUME NEW S, NEW seqs \in Seq(Seq(S))
  PROVE  FlattenSeq(seqs) \in Seq(S)
<1>1. PICK H : Sums(H, seqs) /\ \A i \in 0 .. Len(seqs) : H[i] \in Seq(S)
  BY SumsExist
<1>2. FlattenSeq(seqs) = H[Len(seqs)]
  BY <1>1, FlatIs
<1> QED
  BY <1>1, <1>2, LenProperties

\* The first item comes first.
LEMMA FlatHead ==
  ASSUME NEW S, NEW x \in Seq(S), NEW seqs \in Seq(Seq(S))
  PROVE  FlattenSeq(<<x>> \o seqs) = x \o FlattenSeq(seqs)
<1> DEFINE n == Len(seqs)
           all == <<x>> \o seqs
<1>0. n \in Nat
  BY LenProperties
<1>1. <<x>> \in Seq(Seq(S)) /\ Len(<<x>>) = 1 /\ <<x>>[1] = x
  OBVIOUS
<1>2. /\ all \in Seq(Seq(S)) /\ Len(all) = 1 + n
      /\ \A i \in 1 .. 1 + n : all[i] = IF i <= 1 THEN x ELSE seqs[i - 1]
  <2>1. /\ all \in Seq(Seq(S)) /\ Len(all) = 1 + n
        /\ \A i \in 1 .. 1 + n : all[i] = IF i <= 1 THEN <<x>>[i] ELSE seqs[i - 1]
    BY <1>1, ConcatProperties
  <2>2. \A i \in 1 .. 1 + n : i <= 1 => i = 1
    BY <1>0
  <2> QED
    BY <1>1, <2>1, <2>2
<1> HIDE DEF all, n
<1>3. PICK H : Sums(H, seqs) /\ \A i \in 0 .. n : H[i] \in Seq(S)
  BY SumsExist DEF n
<1>4. FlattenSeq(seqs) = H[n]
  BY <1>3, FlatIs DEF n
<1>a. /\ H[0] = << >>
      /\ \A i \in 1 .. n : H[i] = H[i - 1] \o seqs[i]
  BY <1>3 DEF Sums, n
<1> DEFINE J == [i \in 0 .. 1 + n |-> IF i = 0 THEN << >> ELSE x \o H[i - 1]]
<1>5. /\ J = [i \in 0 .. 1 + n |-> J[i]] /\ J[0] = << >>
      /\ \A i \in 1 .. 1 + n : J[i] = x \o H[i - 1]
  BY <1>0
<1> HIDE DEF J
<1>6. ASSUME NEW i \in 1 .. 1 + n PROVE J[i] = J[i - 1] \o all[i]
  <2>1. CASE i = 1
    <3>0. i - 1 = 0 /\ 1 \in 1 .. 1 + n /\ 1 - 1 = 0
      BY <1>0, <2>1
    <3>1. J[1] = x \o H[0] /\ all[1] = x
      <4>1. J[1] = x \o H[1 - 1]
        BY <1>5, <3>0
      <4>2. all[1] = IF 1 <= 1 THEN x ELSE seqs[1 - 1]
        BY <1>2, <3>0
      <4> QED
        BY <3>0, <4>1, <4>2
    <3>2. x \o << >> = x /\ << >> \o x = x
      BY ConcatEmptySeq
    <3> QED
      BY <1>5, <1>a, <2>1, <3>0, <3>1, <3>2
  <2>2. CASE i # 1
    <3> DEFINE k == i - 1
               a == H[k - 1]
               b == seqs[k]
    <3>1. k \in 1 .. n /\ k \in 1 .. 1 + n /\ k - 1 \in 0 .. n /\ k \in 0 .. n /\ ~(i <= 1)
      BY <1>0, <2>2
    <3>2. J[i] = x \o H[k] /\ all[i] = b
      BY <1>2, <1>5, <3>1
    <3>3. J[k] = x \o a
      BY <1>5, <3>1
    <3>4. H[k] = a \o b
      BY <1>a, <3>1
    <3>5. a \in Seq(S) /\ b \in Seq(S)
      BY <1>3, <3>1, ElementOfSeq DEF n
    <3>6. J[i] = x \o (a \o b) /\ J[i - 1] = x \o a
      BY <3>2, <3>3, <3>4
    <3> HIDE DEF a, b, k
    <3>7. x \o (a \o b) = (x \o a) \o b
      BY <3>5, ConcatAssociative
    <3> QED
      BY <3>2, <3>6, <3>7
  <2> QED
    BY <2>1, <2>2
<1>7. Sums(J, all)
  BY <1>2, <1>5, <1>6 DEF Sums
<1>8. FlattenSeq(all) = J[1 + n]
  BY <1>2, <1>7, FlatIs
<1>9. J[1 + n] = x \o H[n]
  <2>1. 1 + n \in 1 .. 1 + n /\ (1 + n) - 1 = n
    BY <1>0
  <2> QED
    BY <1>5, <2>1
<1> QED
  BY <1>4, <1>8, <1>9 DEF all

-----------------------------------------------------------------------------
(* Bytes *)

\* The bytes that callers hand over.
Given ==
  UNION {Range(c.nonce) \cup Range(c.message) \cup UNION {Range(x) : x \in Range(c.aad)} :
           c \in Calls}

\* They and the encoded numbers.
Octets ==
  Given \cup {Byte(n) : n \in Nat}
        \cup {BigEndian(n, len)[k] : n \in Nat, len \in Nat, k \in Nat}

\* They and what a call makes of them.
Bytes ==
  Octets \cup {Xor(b, [key |-> c.key, nonce |-> c.nonce, at |-> p]) :
                 b \in Octets, c \in Calls, p \in Nat}

\* An encoded number has the bytes it was given.
LEMMA BigEndianFacts ==
  ASSUME NEW n \in Nat, NEW len \in Nat
  PROVE  BigEndian(n, len) \in Seq(Octets) /\ Len(BigEndian(n, len)) = len
<1> DEFINE s == BigEndian(n, len)
<1>1. s = [k \in 1 .. len |-> Byte((n \div 256 ^ (len - k)) % 256)]
  BY DEF BigEndian
<1>2. \A k \in Nat : s[k] \in Octets
  BY DEF Octets
<1> HIDE DEF s
<1>3. s \in [1 .. len -> Octets]
  <2>1. \A k \in 1 .. len : k \in Nat
    OBVIOUS
  <2>2. DOMAIN s = 1 .. len /\ s = [k \in DOMAIN s |-> s[k]]
    BY <1>1
  <2> QED
    BY <1>2, <2>1, <2>2
<1>4. s \in Seq(Octets)
  BY <1>3, SeqDef
<1> QED
  BY <1>3, <1>4, LenProperties DEF s

\* A sequence of elements that all are in a set.
LEMMA SliceIn ==
  ASSUME NEW s, IsSlice(s), NEW S, Range(s) \subseteq S
  PROVE  s \in Seq(S)
  BY SeqMonotonic DEF IsSlice

\* The arguments of a call are sequences of bytes.
LEMMA CallBytes ==
  ASSUME NEW c \in Calls
  PROVE  /\ c.nonce \in Seq(Octets) /\ c.message \in Seq(Octets)
         /\ c.aad \in Seq(Seq(Octets))
         /\ FlattenSeq(c.aad) \in Seq(Octets)
<1>1. IsCall(c)
  BY CallAssumption
<1>2. Range(c.nonce) \subseteq Octets /\ Range(c.message) \subseteq Octets
  BY DEF Octets, Given
<1>3. \A x \in Range(c.aad) : Range(x) \subseteq Octets
  BY DEF Octets, Given
<1>4. c.nonce \in Seq(Octets) /\ c.message \in Seq(Octets)
  BY <1>1, <1>2, SliceIn DEF IsCall
<1>5. Range(c.aad) \subseteq Seq(Octets)
  BY <1>1, <1>3, SliceIn DEF IsCall
<1>6. c.aad \in Seq(Seq(Octets))
  BY <1>1, <1>5, SliceIn DEF IsCall
<1> QED
  BY <1>4, <1>6, FlatType

\* Zero is a byte, and all of these are.
LEMMA OctetFacts ==
  /\ Byte(0) \in Octets /\ Byte(0) \in Bytes
  /\ Octets \subseteq Bytes
  /\ \A s \in Seq(Octets) : s \in Seq(Bytes)
<1>1. Byte(0) \in Octets /\ Octets \subseteq Bytes
  BY DEF Octets, Bytes
<1> QED
  BY <1>1, SeqMonotonic

\* Encryption and decryption go byte by byte.
LEMMA CryptFacts ==
  ASSUME NEW c \in Calls, NEW p \in Nat, NEW s \in Seq(Octets)
  PROVE  /\ Crypt(c.key, c.nonce, p, s) \in Seq(Bytes)
         /\ Len(Crypt(c.key, c.nonce, p, s)) = Len(s)
         /\ \A i \in 1 .. Len(s) :
              Crypt(c.key, c.nonce, p, s)[i]
                = Xor(s[i], [key |-> c.key, nonce |-> c.nonce, at |-> p + i])
<1> DEFINE n == Len(s)
           e(i) == Xor(s[i], [key |-> c.key, nonce |-> c.nonce, at |-> p + i])
           t == Crypt(c.key, c.nonce, p, s)
<1>1. n \in Nat
  BY LenProperties
<1>2. \A i \in 1 .. n : e(i) \in Bytes
  <2>1. ASSUME NEW i \in 1 .. n PROVE e(i) \in Bytes
    <3>1. s[i] \in Octets /\ p + i \in Nat
      BY ElementOfSeq
    <3> QED
      BY <3>1 DEF Bytes
  <2> QED
    BY <2>1
<1>3. t = [i \in 1 .. n |-> e(i)]
  BY DEF Crypt
<1> HIDE DEF e, t, n
<1>4. t \in [1 .. n -> Bytes] /\ \A i \in 1 .. n : t[i] = e(i)
  BY <1>2, <1>3
<1>5. t \in Seq(Bytes)
  BY <1>1, <1>4, SeqDef
<1>6. Len(t) = n
  BY <1>1, <1>4, <1>5, LenProperties
<1> QED
  BY <1>4, <1>5, <1>6 DEF e, t, n

\* A call of AES-CCM whose nonce has the right length: B0 is one block, the
\* driver's is that of RFC 3610, and the engine finds the nonce in it.
LEMMA B0Facts ==
  ASSUME NEW c \in Calls, c.key.alg \in CcmAlgorithms, RightLengths(c),
         NEW n \in Nat, NEW a \in Nat
  PROVE  /\ RfcB0(c.nonce, n, a) \in Seq(Octets)
         /\ Len(RfcB0(c.nonce, n, a)) = BLOCK
         /\ build_b0(c.nonce, n, a, TAG_LEN) = RfcB0(c.nonce, n, a)
         /\ NonceOf(RfcB0(c.nonce, n, a)) = c.nonce
         /\ ~B0Panics(c.nonce)
<1> DEFINE l == BLOCK - 1 - NONCE_LEN
           t == (TAG_LEN - 2) \div 2
           f == (IF a > 0 THEN 64 ELSE 0) + 8 * t + (l - 1)
           len == BigEndian(n, l)
           b0 == RfcB0(c.nonce, n, a)
<1>0. BLOCK \in Nat /\ NONCE_LEN \in Nat /\ l \in 1 .. 8 /\ BLOCK = 1 + NONCE_LEN + l
  BY CcmAssumption
<1>1. Len(c.nonce) = NONCE_LEN
  BY DEF RightLengths, nonce_length, CcmAlgorithms, GcmAlgorithms
<1>2. t \in Nat
  BY CcmAssumption
<1>a. l = BLOCK - 1 - NONCE_LEN
  OBVIOUS
<1> HIDE DEF t, l
<1>3. f \in Nat /\ f % 8 = l - 1
  BY <1>0, <1>2
<1>4. b0 = (<<Byte(f)>> \o c.nonce) \o len
  BY <1>a DEF RfcB0, t
<1>5. build_b0(c.nonce, n, a, TAG_LEN) = b0
  <2> DEFINE g == (l - 1) + 8 * t
  <2>1. (IF a > 0 THEN g + 64 ELSE g) = f
    BY <1>0, <1>2
  <2>2. build_b0(c.nonce, n, a, TAG_LEN)
          = (<<Byte(IF a > 0 THEN g + 64 ELSE g)>> \o c.nonce) \o len
    BY <1>1, <1>a DEF build_b0, t
  <2> QED
    BY <1>4, <2>1, <2>2
<1> HIDE DEF f
<1>6. Byte(f) \in Octets /\ Byte(f).v = f
  <2>1. Byte(f) \in {Byte(k) : k \in Nat}
    BY <1>3
  <2>2. Byte(f).v = f
    BY DEF Byte
  <2> QED
    BY <2>1, <2>2 DEF Octets
<1>7. c.nonce \in Seq(Octets) /\ len \in Seq(Octets) /\ Len(len) = l
  BY <1>0, CallBytes, BigEndianFacts
<1> DEFINE h == <<Byte(f)>>
           x == h \o c.nonce
<1>8. h \in Seq(Octets) /\ Len(h) = 1 /\ h[1] = Byte(f)
  BY <1>6
<1> HIDE DEF h, len
<1>9. /\ x \in Seq(Octets) /\ Len(x) = 1 + NONCE_LEN
      /\ \A i \in 1 .. 1 + NONCE_LEN : x[i] = IF i <= 1 THEN h[i] ELSE c.nonce[i - 1]
  <2>1. /\ x \in Seq(Octets) /\ Len(x) = Len(h) + Len(c.nonce)
        /\ \A i \in 1 .. Len(h) + Len(c.nonce) :
             x[i] = IF i <= Len(h) THEN h[i] ELSE c.nonce[i - Len(h)]
    BY <1>7, <1>8, ConcatProperties
  <2> HIDE DEF x
  <2> QED
    BY <1>1, <1>8, <2>1
<1> HIDE DEF x
<1>10. /\ x \o len \in Seq(Octets) /\ Len(x \o len) = (1 + NONCE_LEN) + l
       /\ \A i \in 1 .. (1 + NONCE_LEN) + l :
            (x \o len)[i] = IF i <= 1 + NONCE_LEN THEN x[i] ELSE len[i - (1 + NONCE_LEN)]
  <2>1. /\ x \o len \in Seq(Octets) /\ Len(x \o len) = Len(x) + Len(len)
        /\ \A i \in 1 .. Len(x) + Len(len) :
             (x \o len)[i] = IF i <= Len(x) THEN x[i] ELSE len[i - Len(x)]
    BY <1>7, <1>9, ConcatProperties
  <2> QED
    BY <1>7, <1>9, <2>1
<1> HIDE DEF b0
<1>11. b0 = x \o len
  BY <1>4 DEF x, h
<1>12. Len(b0) = BLOCK /\ b0 \in Seq(Octets)
  BY <1>0, <1>10, <1>11
<1>13. \A i \in 1 .. BLOCK : i <= 1 + NONCE_LEN => b0[i] = IF i <= 1 THEN h[i] ELSE c.nonce[i - 1]
  BY <1>0, <1>9, <1>10, <1>11
<1>14. b0[1] = Byte(f)
  <2>1. 1 \in 1 .. BLOCK /\ 1 <= 1 + NONCE_LEN /\ 1 <= 1
    BY <1>0
  <2> QED
    BY <1>8, <1>13, <2>1
<1>15. NonceOf(b0) = SubSeq(b0, 2, 1 + NONCE_LEN)
  <2>1. BLOCK - 1 - (b0[1].v % 8) = 1 + NONCE_LEN
    BY <1>0, <1>3, <1>6, <1>14
  <2> QED
    BY <2>1 DEF NonceOf
<1>16. SubSeq(b0, 2, 1 + NONCE_LEN) = c.nonce
  <2> DEFINE m == 1 + NONCE_LEN
             s == SubSeq(b0, 2, m)
  <2>1. m \in Nat /\ m >= 1 /\ 2 \in Int /\ m \in Int /\ m = NONCE_LEN + 1
        /\ \A i \in 2 .. m : i \in 1 .. Len(b0)
    BY <1>0, <1>12
  <2>2. \A i \in 2 .. m : b0[i] \in Octets
    BY <1>12, <2>1, ElementOfSeq
  <2> HIDE DEF m
  <2>3. /\ s \in Seq(Octets) /\ Len(s) = (IF 2 <= m THEN m - 2 + 1 ELSE 0)
        /\ \A i \in 1 .. m - 2 + 1 : s[i] = b0[2 + i - 1]
    BY <2>1, <2>2, SubSeqProperties
  <2> HIDE DEF s
  <2>4. Len(s) = NONCE_LEN
    BY <1>0, <2>1, <2>3
  <2>5. ASSUME NEW i \in 1 .. NONCE_LEN PROVE s[i] = c.nonce[i]
    <3>1. i \in 1 .. m - 2 + 1 /\ 2 + i - 1 = i + 1 /\ i + 1 \in 1 .. BLOCK
          /\ i + 1 <= 1 + NONCE_LEN /\ ~(i + 1 <= 1) /\ (i + 1) - 1 = i
      BY <1>0, <2>1
    <3>2. s[i] = b0[i + 1]
      BY <2>3, <3>1
    <3>3. b0[i + 1] = c.nonce[(i + 1) - 1]
      BY <1>13, <3>1
    <3> QED
      BY <3>1, <3>2, <3>3
  <2>6. s = c.nonce
    BY <1>1, <1>7, <2>3, <2>4, <2>5, SeqEqual
  <2> QED
    BY <2>6 DEF s, m
<1>17. ~B0Panics(c.nonce)
  BY <1>0, <1>1 DEF B0Panics
<1> QED
  BY <1>5, <1>12, <1>15, <1>16, <1>17 DEF b0

-----------------------------------------------------------------------------
(* The operators of Ccm are the same in every driver *)

\* In the STM32 driver.
LEMMA StmOps ==
  /\ \A n : Stm!Zeros(n) = Zeros(n)
  /\ \A s : Stm!ZeroPadded(s) = ZeroPadded(s)
  /\ \A k, n, p, s : Stm!Crypt(k, n, p, s) = Crypt(k, n, p, s)
  /\ \A n, len : Stm!BigEndian(n, len) = BigEndian(n, len)
  /\ \A n, m, a, t : Stm!build_b0(n, m, a, t) = build_b0(n, m, a, t)
  /\ \A b : Stm!NonceOf(b) = NonceOf(b)
  /\ \A n : Stm!B0Panics(n) <=> B0Panics(n)
  /\ \A s : Stm!FlattenSeq(s) = FlattenSeq(s)
<1>1. \A n : Stm!Zeros(n) = Zeros(n)
  BY DEF Stm!Zeros, Zeros, Stm!Byte, Byte
<1>2. \A n : Stm!Padded(n) = Padded(n)
  BY DEF Stm!Padded, Padded
<1>3. \A s : Stm!ZeroPadded(s) = ZeroPadded(s)
  BY <1>1, <1>2 DEF Stm!ZeroPadded, ZeroPadded
<1>4. \A k, n, p, s : Stm!Crypt(k, n, p, s) = Crypt(k, n, p, s)
  BY Zenon DEF Stm!Crypt, Crypt, Stm!Xor, Xor
<1>5. \A n, len : Stm!BigEndian(n, len) = BigEndian(n, len)
  BY Zenon DEF Stm!BigEndian, BigEndian, Stm!Byte, Byte
<1>6. \A n, m, a, t : Stm!build_b0(n, m, a, t) = build_b0(n, m, a, t)
  BY <1>5, Zenon DEF Stm!build_b0, build_b0, Stm!Byte, Byte
<1>7. \A b : Stm!NonceOf(b) = NonceOf(b)
  BY Zenon DEF Stm!NonceOf, NonceOf
<1>8. \A s : Stm!FlattenSeq(s) = FlattenSeq(s)
  BY Zenon DEF Stm!FlattenSeq, FlattenSeq
<1>9. \A n : Stm!B0Panics(n) <=> B0Panics(n)
  BY Zenon DEF Stm!B0Panics, B0Panics
<1> QED
  BY <1>1, <1>3, <1>4, <1>5, <1>6, <1>7, <1>8, <1>9

-----------------------------------------------------------------------------
(* The call in progress *)

Aad == FlattenSeq(call.aad)
B0 == RfcB0(call.nonce, Len(call.message), Len(Aad))
Out == Crypt(call.key, call.nonce, 0, call.message)
Plain == IF call.op = "encrypt" THEN call.message ELSE Out
Crypted == IF call.op = "encrypt" THEN Out ELSE call.message
HeaderBlocks == B0 \o ZeroPadded(RfcHeader(Aad))

\* A call of AES-CCM with a nonce and a tag of the right length that fits into the
\* buffers.
CcmCall ==
  call \in Calls /\ RightLengths(call) /\ Fits(call) /\ call.key.alg \in CcmAlgorithms

\* The header and the texts of the call are bytes, the header is whole blocks.
LEMMA CallFacts ==
  ASSUME CcmCall
  PROVE  /\ Len(call.message) \in Nat /\ call.message \in Seq(Octets)
         /\ Aad \in Seq(Octets) /\ call.aad \in Seq(Seq(Octets))
         /\ B0 \in Seq(Octets) /\ Len(B0) = BLOCK /\ NonceOf(B0) = call.nonce
         /\ build_b0(call.nonce, Len(call.message), Len(Aad), TAG_LEN) = B0
         /\ ~B0Panics(call.nonce)
         /\ RfcHeader(Aad) \in Seq(Octets)
         /\ Out \in Seq(Bytes) /\ Len(Out) = Len(call.message)
         /\ Plain \in Seq(Bytes) /\ Len(Plain) = Len(call.message)
         /\ HeaderBlocks \in Seq(Octets)
<1>1. call \in Calls /\ RightLengths(call) /\ call.key.alg \in CcmAlgorithms
  BY DEF CcmCall
<1>2. call.message \in Seq(Octets) /\ Aad \in Seq(Octets) /\ call.aad \in Seq(Seq(Octets))
  BY <1>1, CallBytes DEF Aad
<1>3. Len(call.message) \in Nat /\ Len(Aad) \in Nat
  BY <1>2, LenProperties
<1>4. /\ B0 \in Seq(Octets) /\ Len(B0) = BLOCK /\ NonceOf(B0) = call.nonce
      /\ build_b0(call.nonce, Len(call.message), Len(Aad), TAG_LEN) = B0
      /\ ~B0Panics(call.nonce)
  BY <1>1, <1>3, B0Facts DEF B0
<1>5. RfcHeader(Aad) \in Seq(Octets)
  <2>1. BigEndian(Len(Aad), 2) \in Seq(Octets)
    BY <1>3, BigEndianFacts
  <2>2. BigEndian(Len(Aad), 2) \o Aad \in Seq(Octets) /\ << >> \in Seq(Octets)
    BY <1>2, <2>1, ConcatProperties, EmptySeq
  <2> QED
    BY <2>2 DEF RfcHeader
<1>6. Out \in Seq(Bytes) /\ Len(Out) = Len(call.message)
  <2>1. 0 \in Nat
    OBVIOUS
  <2> QED
    BY <1>1, <1>2, <2>1, CryptFacts DEF Out
<1>7. Plain \in Seq(Bytes) /\ Len(Plain) = Len(call.message)
  BY <1>2, <1>6, OctetFacts DEF Plain
<1>8. HeaderBlocks \in Seq(Octets)
  <2>1. ZeroPadded(RfcHeader(Aad)) \in Seq(Octets)
    BY <1>5, ZeroPaddedFacts, OctetFacts
  <2> QED
    BY <1>4, <2>1, ConcatProperties DEF HeaderBlocks
<1> QED
  BY <1>2, <1>3, <1>4, <1>5, <1>6, <1>7, <1>8

\* The call returns what the specification says.
Returned ==
  LET tag == Tag(call.key, Mac(call.key, call.nonce, Aad, Plain, Crypted))
  IN  /\ busy /\ ~busy' /\ call' = call
      /\ \/ /\ call.op = "encrypt" /\ message' = Out
            /\ result' = [status |-> "Ok", tag |-> tag]
         \/ /\ call.op = "decrypt" /\ result'.tag = {}
            /\ IF call.tag = tag THEN result'.status = "Ok" /\ message' = Out
                                 ELSE result'.status = "DecryptionFailed"

\* The operators of Ccm in AeadSpec.
LEMMA InterfaceOps ==
  /\ \A k, n, p, s : Interface!Crypt(k, n, p, s) = Crypt(k, n, p, s)
  /\ \A s : Interface!FlattenSeq(s) = FlattenSeq(s)
  /\ \A k, n, a, p, c : Interface!Mac(k, n, a, p, c) = Mac(k, n, a, p, c)
  /\ \A k, m : Interface!Tag(k, m) = Tag(k, m)
<1>1. \A k, n, p, s : Interface!Crypt(k, n, p, s) = Crypt(k, n, p, s)
  BY Zenon DEF Interface!Crypt, Crypt, Interface!Xor, Xor
<1>2. \A s : Interface!FlattenSeq(s) = FlattenSeq(s)
  BY Zenon DEF Interface!FlattenSeq, FlattenSeq
<1>3. \A n, len : Interface!BigEndian(n, len) = BigEndian(n, len)
  BY Zenon DEF Interface!BigEndian, BigEndian, Interface!Byte, Byte
<1>4. \A s : Interface!ZeroPadded(s) = ZeroPadded(s)
  BY Zenon DEF Interface!ZeroPadded, ZeroPadded, Interface!Zeros, Zeros, Interface!Padded,
               Padded, Interface!Byte, Byte
<1>5. \A n, m, a : Interface!RfcB0(n, m, a) = RfcB0(n, m, a)
  BY <1>3, Zenon DEF Interface!RfcB0, RfcB0, Interface!Byte, Byte
<1>6. \A a : Interface!RfcHeader(a) = RfcHeader(a)
  BY <1>3, Zenon DEF Interface!RfcHeader, RfcHeader
<1>7. \A k, n, a, m : Interface!RfcMac(k, n, a, m) = RfcMac(k, n, a, m)
  BY <1>4, <1>5, <1>6, Zenon DEF Interface!RfcMac, RfcMac
<1>8. \A k, n, a, l, c : Interface!GcmMac(k, n, a, l, c) = GcmMac(k, n, a, l, c)
  BY <1>3, <1>4, Zenon DEF Interface!GcmMac, GcmMac
<1>9. Interface!GcmAlgorithms = GcmAlgorithms
  BY DEF Interface!GcmAlgorithms, GcmAlgorithms
<1>10. \A k, n, a, p, c : Interface!Mac(k, n, a, p, c) = Mac(k, n, a, p, c)
  BY <1>7, <1>8, <1>9, Zenon DEF Interface!Mac, Mac
<1>11. \A k, m : Interface!Tag(k, m) = Tag(k, m)
  BY <1>9, Zenon DEF Interface!Tag, Tag, Interface!tag_length, tag_length
<1> QED
  BY <1>1, <1>2, <1>10, <1>11

\* Such a return is a step of AeadSpec.
LEMMA ReturnSimulates ==
  ASSUME Returned, call \in Calls
  PROVE  Interface!Return
<1> DEFINE tag == Tag(call.key, Mac(call.key, call.nonce, Aad, Plain, Crypted))
           out == Interface!Crypt(call.key, call.nonce, 0, call.message)
           aad == Interface!FlattenSeq(call.aad)
<1>1. busy /\ ~busy' /\ call' = call
  BY DEF Returned
<1>2. out = Out /\ aad = Aad
  BY InterfaceOps DEF Out, Aad
<1>3. (IF busy' THEN call'.message ELSE message') = message'
  BY <1>1
<1>4. CASE /\ call.op = "encrypt" /\ message' = Out
           /\ result' = [status |-> "Ok", tag |-> tag]
  <2>1. Interface!Tag(call.key, Interface!Mac(call.key, call.nonce, aad, call.message, message')) = tag
    BY <1>2, <1>4, InterfaceOps DEF Plain, Crypted
  <2>2. Interface!Encrypted
    BY <1>2, <1>3, <1>4, <2>1 DEF Interface!Encrypted
  <2> QED
    BY <1>1, <2>2 DEF Interface!Return
<1>5. CASE /\ call.op = "decrypt" /\ result'.tag = {}
           /\ IF call.tag = tag THEN result'.status = "Ok" /\ message' = Out
                                ELSE result'.status = "DecryptionFailed"
  <2>1. Interface!Tag(call.key, Interface!Mac(call.key, call.nonce, aad, out, call.message)) = tag
    BY <1>2, <1>5, InterfaceOps DEF Plain, Crypted
  <2>2. Interface!Decrypted
    BY <1>2, <1>3, <1>5, <2>1 DEF Interface!Decrypted
  <2> QED
    BY <1>1, <2>2 DEF Interface!Return
<1> QED
  BY <1>4, <1>5 DEF Returned

-----------------------------------------------------------------------------
(* The STM32: what the peripheral has run over *)

\* The registers are those of the call.
Loaded ==
  /\ Stm!KeyInUse(aes) = call.key
  /\ aes.ivr = B0
  /\ aes.mode = call.op

\* Behind B0 the MAC takes whole blocks of the header; what is left of it is in the
\* block being filled and in the items.
InHeader ==
  /\ Aad # << >>
  /\ aes.mac \in Seq(Octets) /\ block \in Seq(Octets) /\ items \in Seq(Seq(Octets))
  /\ Whole(Len(aes.mac)) /\ Len(block) < BLOCK
  /\ (aes.mac \o block) \o FlattenSeq(items) = B0 \o RfcHeader(Aad)

\* The first msg_offset bytes are done.
InPayload ==
  /\ msg_offset \in 0 .. Len(call.message)
  /\ aes.ctr = Padded(msg_offset)
  /\ msg_offset < Len(call.message) => Whole(msg_offset) /\ aes.npblb = 0
  /\ message = [i \in 1 .. Len(call.message) |->
                  IF i <= msg_offset THEN Out[i] ELSE call.message[i]]
  /\ aes.mac = HeaderBlocks \o ZeroPadded(SubSeq(Plain, 1, msg_offset))

StmInv ==
  /\ pc \in {"header_start", "header", "payload_start", "payload"} => Loaded
  /\ pc \in {"header_start", "header", "payload_start"} => aes.npblb = 0 /\ aes.ctr = 0
  /\ pc = "header_start" => Aad # << >> /\ aes.mac = B0
  /\ pc = "header" => InHeader
  /\ pc = "payload_start" => aes.mac = HeaderBlocks
  /\ pc = "payload" => InPayload

AesFields ==
  {"en", "gcmph", "mode", "keysize", "keyr", "ivr", "npblb", "mac", "ctr", "misused"}

\* Without additional data the header is B0.
LEMMA NoHeader ==
  ASSUME CcmCall, Aad = << >>
  PROVE  HeaderBlocks = B0
<1>1. RfcHeader(Aad) = << >>
  BY DEF RfcHeader
<1>2. << >> \in Seq(Octets) /\ Len(<< >>) = 0 /\ Whole(0) /\ Byte(0) \in Octets
  BY EmptySeq, WholeFacts, OctetFacts
<1>3. ZeroPadded(<< >>) = << >>
  BY <1>2, ZeroPaddedWhole
<1>4. B0 \in Seq(Octets)
  BY CallFacts
<1> QED
  BY <1>1, <1>3, <1>4, ConcatEmptySeq DEF HeaderBlocks

\* The init phase: the key of the call is the one in use whatever the registers
\* held, and the MAC starts with B0.
LEMMA InitPhaseStm ==
  ASSUME CcmCall, DOMAIN aes = AesFields, message = call.message, Stm!InitPhase
  PROVE  /\ StmInv'
         /\ pc' \in {"header_start", "payload_start"}
<1> DEFINE b0 == Stm!build_b0(call.nonce, Len(message), Stm!ALen(call.aad), TAG_LEN)
           keyr == Stm!WriteKey(Stm!Configured(aes).keyr, call.key)
           is11 == (call.key.alg = 11)
           a0 == Stm!Configured(aes)
           a == [a0 EXCEPT !.ivr = b0, !.keyr = Stm!WriteKey(@, call.key)]
<1>1. /\ aes' = Stm!StartMac(a) /\ UNCHANGED <<busy, call, message, result>>
      /\ pc' = IF Stm!ALen(call.aad) > 0 THEN "header_start" ELSE "payload_start"
  <2>1. ~Stm!B0Panics(call.nonce)
    BY CallFacts, StmOps
  <2> QED
    BY <2>1 DEF Stm!InitPhase, Stm!InitDone, Stm!aeadVars
<1>2. Stm!ALen(call.aad) = Len(Aad)
  BY StmOps DEF Stm!ALen, Aad
<1>3. b0 = B0
  BY <1>2, StmOps, CallFacts
<1>4. /\ DOMAIN a0 = AesFields /\ a0.mode = call.op
      /\ a0.npblb = 0
  BY DEF Stm!Configured, AesFields
<1>5. a0.keysize = is11 /\ a0.keyr = aes.keyr
  BY DEF Stm!Configured, AesFields
<1> HIDE DEF a0, b0
<1>6. DOMAIN a = AesFields /\ a.mode = call.op /\ a.npblb = 0 /\ a.ivr = b0
      /\ a.keyr = Stm!WriteKey(aes.keyr, call.key) /\ a.keysize = is11
  BY <1>4, <1>5 DEF AesFields
<1> HIDE DEF a
<1>7. /\ aes'.mode = call.op /\ aes'.npblb = 0 /\ aes'.ivr = b0
      /\ aes'.keyr = Stm!WriteKey(aes.keyr, call.key) /\ aes'.keysize = is11
      /\ aes'.mac = b0 /\ aes'.ctr = 0
  BY <1>1, <1>6 DEF Stm!StartMac, AesFields
<1>8. Stm!KeyInUse(aes') = call.key
  <2>0. IsCall(call) /\ call.key.alg \in {10, 11}
    BY CallAssumption DEF CcmCall, CcmAlgorithms
  <2>1. call.key = [alg |-> call.key.alg, bytes |-> call.key.bytes]
    BY <2>0 DEF IsCall
  <2>2. CASE call.key.alg = 11
    <3>1. aes'.keysize = TRUE /\ aes'.keyr = call.key.bytes
      BY <1>7, <2>2 DEF Stm!WriteKey
    <3> QED
      BY <2>1, <2>2, <3>1 DEF Stm!KeyInUse
  <2>3. CASE call.key.alg = 10
    <3>1. aes'.keysize = FALSE /\ aes'.keyr[2] = call.key.bytes[2]
      <4>1. call.key.alg # 11
        BY <2>3
      <4>2. aes'.keysize = FALSE
        BY <1>7, <4>1
      <4>3. aes'.keyr = <<aes.keyr[1], call.key.bytes[2]>>
        BY <1>7, <4>1 DEF Stm!WriteKey
      <4> QED
        BY <4>2, <4>3
    <3>2. call.key.bytes = <<"none", call.key.bytes[2]>>
      BY <2>0, <2>3 DEF IsCall
    <3>3. Stm!KeyInUse(aes') = [alg |-> 10, bytes |-> <<"none", call.key.bytes[2]>>]
      BY <3>1 DEF Stm!KeyInUse
    <3> QED
      BY <2>1, <2>3, <3>2, <3>3
  <2> QED
    BY <2>0, <2>2, <2>3
<1>9. Loaded'
  BY <1>1, <1>3, <1>7, <1>8 DEF Loaded, B0, Aad, Stm!KeyInUse
<1>10. aes'.mac = B0' /\ B0' = B0 /\ Aad' = Aad /\ HeaderBlocks' = HeaderBlocks
  BY <1>1, <1>3, <1>7 DEF B0, Aad, HeaderBlocks
<1>11. Len(Aad) \in Nat /\ Aad \in Seq(Octets)
  BY CallFacts, LenProperties
<1>12. CASE Len(Aad) > 0
  <2>1. pc' = "header_start" /\ Aad # << >>
    BY <1>1, <1>2, <1>12, EmptySeq
  <2> QED
    BY <1>7, <1>9, <1>10, <2>1 DEF StmInv
<1>13. CASE ~(Len(Aad) > 0)
  <2>1. pc' = "payload_start"
    BY <1>1, <1>2, <1>13
  <2>2. Aad = << >>
    BY <1>11, <1>13, EmptySeq
  <2>3. aes'.mac = HeaderBlocks'
    BY <1>10, <2>2, NoHeader
  <2> QED
    BY <1>7, <1>9, <2>1, <2>3 DEF StmInv
<1> QED
  BY <1>12, <1>13

\* The header phase begins with the length of the additional data.
LEMMA HeaderStartStm ==
  ASSUME CcmCall, DOMAIN aes = AesFields, StmInv, Stm!HeaderStart
  PROVE  StmInv' /\ pc' = "header"
<1>1. /\ pc = "header_start" /\ pc' = "header"
      /\ aes' = [aes EXCEPT !.gcmph = "header", !.en = TRUE]
      /\ items' = call.aad /\ block' = Stm!BigEndian(Stm!ALen(call.aad), 2)
      /\ UNCHANGED <<busy, call, message, result>>
  BY DEF Stm!HeaderStart, Stm!aeadVars
<1>2. Loaded /\ aes.npblb = 0 /\ aes.ctr = 0 /\ Aad # << >> /\ aes.mac = B0
  BY <1>1 DEF StmInv
<1>3. /\ aes'.npblb = 0 /\ aes'.ctr = 0 /\ aes'.mac = B0 /\ aes'.mode = aes.mode
      /\ aes'.ivr = aes.ivr /\ aes'.keyr = aes.keyr /\ aes'.keysize = aes.keysize
  BY <1>1, <1>2 DEF AesFields
<1>4. B0' = B0 /\ Aad' = Aad
  BY <1>1 DEF B0, Aad
<1>5. Loaded'
  BY <1>1, <1>2, <1>3, <1>4 DEF Loaded, Stm!KeyInUse
<1>6. block' = BigEndian(Len(Aad), 2)
  BY <1>1, StmOps DEF Stm!ALen, Aad
<1>7. /\ B0 \in Seq(Octets) /\ Len(B0) = BLOCK /\ Aad \in Seq(Octets)
      /\ call.aad \in Seq(Seq(Octets)) /\ Len(Aad) \in Nat
  BY CallFacts, LenProperties
<1>8. block' \in Seq(Octets) /\ Len(block') = 2
  BY <1>6, <1>7, BigEndianFacts
<1>9. RfcHeader(Aad) = block' \o Aad
  BY <1>2, <1>6 DEF RfcHeader
<1>10. (B0 \o block') \o Aad = B0 \o (block' \o Aad)
  BY <1>7, <1>8, ConcatAssociative
<1>11. FlattenSeq(items') = Aad
  BY <1>1 DEF Aad
<1>12. Whole(Len(B0)) /\ 2 < BLOCK
  BY <1>7, WholeFacts, CcmAssumption
<1>13. InHeader'
  BY <1>1, <1>2, <1>3, <1>4, <1>7, <1>8, <1>9, <1>10, <1>11, <1>12 DEF InHeader
<1> QED
  BY <1>1, <1>3, <1>5, <1>13 DEF StmInv

IsText(s) == s \in Seq(Octets)

\* Appending is associative.
LEMMA Assoc ==
  \A a, b, c : IsText(a) /\ IsText(b) /\ IsText(c) => a \o (b \o c) = (a \o b) \o c
<1>1. ASSUME NEW a \in Seq(Octets), NEW b \in Seq(Octets), NEW c \in Seq(Octets)
      PROVE  (a \o b) \o c = a \o (b \o c)
  BY ConcatAssociative
<1> QED
  BY <1>1 DEF IsText

\* What is appended is text.
LEMMA AppendText ==
  \A a, b : IsText(a) /\ IsText(b) => IsText(a \o b)
  BY ConcatProperties DEF IsText

FiveTexts(m, b, s, t, f) == IsText(m) /\ IsText(b) /\ IsText(s) /\ IsText(t) /\ IsText(f)

\* A block that was filled from the items is moved behind what the MAC took: the
\* whole stays the same.
LEMMA HeaderMoves ==
  ASSUME NEW m, NEW b, NEW s, NEW t, NEW f, FiveTexts(m, b, s, t, f)
  PROVE  (m \o (b \o s)) \o (t \o f) = (m \o b) \o ((s \o t) \o f)
<1>0. IsText(m) /\ IsText(b) /\ IsText(s) /\ IsText(t) /\ IsText(f)
  BY DEF FiveTexts
<1> DEFINE x == m \o b
           y == t \o f
<1>1. m \o (b \o s) = x \o s
  BY <1>0, Assoc
<1>2. s \o y = (s \o t) \o f
  BY <1>0, Assoc
<1>3. IsText(x) /\ IsText(y)
  BY <1>0, AppendText
<1> HIDE DEF x, y
<1>a. IsText(x) /\ IsText(s) /\ IsText(y)
  BY <1>0, <1>3
<1>4. x \o (s \o y) = (x \o s) \o y
  BY <1>a, Assoc
<1>5. (m \o (b \o s)) \o y = x \o ((s \o t) \o f)
  BY <1>1, <1>2, <1>4
<1> QED
  BY <1>5 DEF x, y

\* A slice is its first n bytes and the others.
LEMMA SliceSplit ==
  ASSUME NEW S, NEW s \in Seq(S), NEW n \in 0 .. Len(s)
  PROVE  /\ SubSeq(s, 1, n) \in Seq(S) /\ Len(SubSeq(s, 1, n)) = n
         /\ SubSeq(s, n + 1, Len(s)) \in Seq(S)
         /\ SubSeq(s, 1, n) \o SubSeq(s, n + 1, Len(s)) = s
<1>0. Len(s) \in Nat
  BY LenProperties
<1>1. \A i \in 1 .. Len(s) : s[i] \in S
  BY ElementOfSeq
<1>2. SubSeq(s, 1, n) \in Seq(S) /\ Len(SubSeq(s, 1, n)) = n
  <2>1. \A i \in 1 .. n : s[i] \in S
    BY <1>0, <1>1
  <2>2. /\ SubSeq(s, 1, n) \in Seq(S)
        /\ Len(SubSeq(s, 1, n)) = IF 1 <= n THEN n - 1 + 1 ELSE 0
    BY <1>0, <2>1, SubSeqProperties
  <2> QED
    BY <2>2
<1>3. SubSeq(s, n + 1, Len(s)) \in Seq(S)
  <2>1. \A i \in n + 1 .. Len(s) : s[i] \in S
    BY <1>0, <1>1
  <2> QED
    BY <1>0, <2>1, SubSeqProperties
<1>4. SubSeq(s, 1, n) \o SubSeq(s, n + 1, Len(s)) = SubSeq(s, 1, Len(s))
  <2>1. 1 \in 1 .. Len(s) + 1 /\ n \in 1 - 1 .. Len(s) /\ Len(s) \in n .. Len(s)
    BY <1>0
  <2> QED
    BY <2>1, ConcatAdjacentSubSeq
<1> QED
  BY <1>2, <1>3, <1>4, SubSeqFull

\* The bytes an iteration takes from the items, and what remains of them.
Taken == SubSeq(Head(items), 1, Stm!HeaderBytes)
Left ==
  (IF Stm!HeaderBytes < Len(Head(items))
    THEN <<SubSeq(Head(items), Stm!HeaderBytes + 1, Len(Head(items)))>>
    ELSE << >>) \o Tail(items)

\* Nothing is lost or comes twice in an iteration.
LEMMA HeaderFillData ==
  ASSUME InHeader, items # << >>
  PROVE  /\ block \o Taken \in Seq(Octets) /\ Len(block \o Taken) <= BLOCK
         /\ Left \in Seq(Seq(Octets))
         /\ (aes.mac \o (block \o Taken)) \o FlattenSeq(Left) = B0 \o RfcHeader(Aad)
<1> DEFINE n == Stm!HeaderBytes
           s == Taken
           left == Left
           slice == Head(items)
           rest == Tail(items)
           t == SubSeq(slice, n + 1, Len(slice))
           first == IF n < Len(slice) THEN <<t>> ELSE << >>
<1>0. BLOCK \in Nat /\ Len(block) \in Nat /\ Len(block) < BLOCK
  BY CcmAssumption, LenProperties DEF InHeader
<1>1. slice \in Seq(Octets) /\ rest \in Seq(Seq(Octets)) /\ items = <<slice>> \o rest
  BY HeadTailProperties DEF InHeader
<1>2. Len(slice) \in Nat /\ n \in 0 .. Len(slice) /\ n <= BLOCK - Len(block)
  <2>1. Len(slice) \in Nat
    BY <1>1, LenProperties
  <2>2. n = IF Len(slice) < BLOCK - Len(block) THEN Len(slice) ELSE BLOCK - Len(block)
    BY DEF Stm!HeaderBytes
  <2> HIDE DEF slice
  <2> QED
    BY <1>0, <2>1, <2>2
<1>3. s = SubSeq(slice, 1, n) /\ left = first \o rest
  BY DEF Taken, Left
<1> HIDE DEF slice, rest, n, s, left
<1>4. /\ s \in Seq(Octets) /\ Len(s) = n /\ t \in Seq(Octets) /\ s \o t = slice
  <2>1. slice \in Seq(Octets) /\ n \in 0 .. Len(slice)
    BY <1>1, <1>2
  <2>2. /\ SubSeq(slice, 1, n) \in Seq(Octets) /\ Len(SubSeq(slice, 1, n)) = n
        /\ t \in Seq(Octets) /\ SubSeq(slice, 1, n) \o t = slice
    BY <2>1, SliceSplit
  <2> QED
    BY <1>3, <2>2
<1>5. FlattenSeq(left) = t \o FlattenSeq(rest) /\ left \in Seq(Seq(Octets))
  <2>1. CASE n < Len(slice)
    <3>1. first = <<t>>
      BY <2>1
    <3> HIDE DEF first, t
    <3>2. <<t>> \in Seq(Seq(Octets))
      BY <1>4
    <3> QED
      BY <1>1, <1>3, <1>4, <3>1, <3>2, FlatHead, ConcatProperties
  <2>2. CASE ~(n < Len(slice))
    <3>1. first = << >> /\ n = Len(slice)
      BY <1>2, <2>2
    <3>2. t = << >>
      BY <1>2, <3>1, SubSeqEmpty
    <3>3. left = rest
      BY <1>1, <1>3, <3>1, ConcatEmptySeq
    <3>4. FlattenSeq(rest) \in Seq(Octets)
      BY <1>1, FlatType
    <3> HIDE DEF t, first
    <3> QED
      BY <1>1, <3>2, <3>3, <3>4, ConcatEmptySeq
  <2> QED
    BY <2>1, <2>2
<1> HIDE DEF t
<1>6. FlattenSeq(items) = (s \o t) \o FlattenSeq(rest)
  BY <1>1, <1>4, FlatHead
<1>7. FlattenSeq(rest) \in Seq(Octets)
  BY <1>1, FlatType
<1>8. aes.mac \in Seq(Octets) /\ block \in Seq(Octets)
  BY DEF InHeader
<1>9. (aes.mac \o (block \o s)) \o (t \o FlattenSeq(rest))
        = (aes.mac \o block) \o ((s \o t) \o FlattenSeq(rest))
  <2> DEFINE m == aes.mac
             f == FlattenSeq(rest)
  <2>1. FiveTexts(m, block, s, t, f)
    BY <1>4, <1>7, <1>8 DEF IsText, FiveTexts
  <2> HIDE DEF m, f
  <2>2. (m \o (block \o s)) \o (t \o f) = (m \o block) \o ((s \o t) \o f)
    BY <2>1, HeaderMoves
  <2> QED
    BY <2>2 DEF m, f
<1>10. block \o s \in Seq(Octets) /\ Len(block \o s) = Len(block) + n
  BY <1>4, <1>8, ConcatProperties
<1>11. Len(block) + n <= BLOCK
  BY <1>0, <1>2
<1> QED
  BY <1>5, <1>6, <1>9, <1>10, <1>11 DEF InHeader, s, left

\* Only the MAC moves in the header phase.
LEMMA TakesHeader ==
  ASSUME DOMAIN aes = AesFields, NEW b, aes' = Stm!TakeHeader(aes, b)
  PROVE  /\ aes'.mac = aes.mac \o b
         /\ aes'.npblb = aes.npblb /\ aes'.ctr = aes.ctr /\ aes'.mode = aes.mode
         /\ aes'.ivr = aes.ivr /\ aes'.keyr = aes.keyr /\ aes'.keysize = aes.keysize
<1> DEFINE mis == aes.misused \/ ~aes.en \/ aes.gcmph # "header"
<1>1. aes' = [aes EXCEPT !.mac = aes.mac \o b, !.misused = mis]
  BY DEF Stm!TakeHeader
<1> HIDE DEF mis
<1> QED
  BY <1>1 DEF AesFields

\* The registers of the call stay loaded while other fields change.
LEMMA LoadedStays ==
  ASSUME Loaded, call' = call, aes'.mode = aes.mode, aes'.ivr = aes.ivr,
         aes'.keyr = aes.keyr, aes'.keysize = aes.keysize
  PROVE  Loaded'
  BY DEF Loaded, Stm!KeyInUse, B0, Aad

\* An iteration over the items.
LEMMA HeaderFillStm ==
  ASSUME CcmCall, DOMAIN aes = AesFields, StmInv, Stm!HeaderFill
  PROVE  StmInv' /\ pc' = "header"
<1> DEFINE left == Left
           filled == block \o Taken
<1>1. /\ pc = "header" /\ pc' = "header" /\ items # << >> /\ items' = left
      /\ UNCHANGED <<busy, call, message, result>>
      /\ IF Len(filled) = BLOCK
           THEN aes' = Stm!TakeHeader(aes, filled) /\ block' = << >>
           ELSE block' = filled /\ aes' = aes
  BY DEF Stm!HeaderFill, Stm!aeadVars, Left, Taken
<1>2. InHeader /\ Loaded /\ aes.npblb = 0 /\ aes.ctr = 0
  BY <1>1 DEF StmInv
<1>3. /\ filled \in Seq(Octets) /\ Len(filled) <= BLOCK /\ left \in Seq(Seq(Octets))
      /\ (aes.mac \o filled) \o FlattenSeq(left) = B0 \o RfcHeader(Aad)
  BY <1>1, <1>2, HeaderFillData
<1> HIDE DEF filled, left
<1>4. aes.mac \in Seq(Octets) /\ Whole(Len(aes.mac)) /\ Aad # << >>
  BY <1>2 DEF InHeader
<1>5. B0' = B0 /\ Aad' = Aad
  BY <1>1 DEF B0, Aad
<1>0. BLOCK \in Nat /\ BLOCK > 2 /\ Len(filled) \in Nat
  BY <1>3, CcmAssumption, LenProperties
<1>6. CASE Len(filled) = BLOCK
  <2>1. /\ aes'.mac = aes.mac \o filled /\ block' = << >>
        /\ aes'.npblb = aes.npblb /\ aes'.ctr = aes.ctr /\ aes'.mode = aes.mode
        /\ aes'.ivr = aes.ivr /\ aes'.keyr = aes.keyr /\ aes'.keysize = aes.keysize
    BY <1>1, <1>6, TakesHeader
  <2>2. Loaded'
    BY <1>1, <1>2, <2>1, LoadedStays
  <2>3. aes'.mac \in Seq(Octets) /\ Len(aes'.mac) = Len(aes.mac) + BLOCK
    BY <1>3, <1>4, <1>6, <2>1, ConcatProperties, ZenonT(30)
  <2>4. Whole(Len(aes'.mac))
    BY <1>4, <2>3, WholeFacts
  <2>5. aes'.mac \o block' = aes.mac \o filled /\ block' \in Seq(Octets) /\ Len(block') = 0
    BY <2>1, <2>3, ConcatEmptySeq, EmptySeq
  <2>6. (aes'.mac \o block') \o FlattenSeq(items') = B0' \o RfcHeader(Aad')
    BY <1>1, <1>3, <1>5, <2>5
  <2>7. Aad' # << >> /\ items' \in Seq(Seq(Octets)) /\ Len(block') < BLOCK
    BY <1>0, <1>1, <1>3, <1>4, <1>5, <2>5
  <2>8. InHeader'
    BY <2>3, <2>4, <2>5, <2>6, <2>7 DEF InHeader
  <2> QED
    BY <1>1, <1>2, <2>1, <2>2, <2>8 DEF StmInv
<1>7. CASE Len(filled) # BLOCK
  <2>1. block' = filled /\ aes' = aes /\ Len(filled) < BLOCK
    BY <1>0, <1>1, <1>3, <1>7
  <2>2. Loaded'
    BY <1>1, <1>2, <2>1, LoadedStays
  <2>3. InHeader'
    BY <1>1, <1>3, <1>4, <1>5, <2>1 DEF InHeader
  <2> QED
    BY <1>1, <1>2, <2>1, <2>2, <2>3 DEF StmInv
<1> QED
  BY <1>6, <1>7

\* The end of the header: a partial block is padded.
LEMMA HeaderEndStm ==
  ASSUME CcmCall, DOMAIN aes = AesFields, StmInv, Stm!HeaderEnd
  PROVE  StmInv' /\ pc' = "payload_start"
<1>1. /\ pc = "header" /\ pc' = "payload_start" /\ items = << >>
      /\ UNCHANGED <<busy, call, message, result>>
      /\ aes' = IF block = << >> THEN aes ELSE Stm!TakeHeader(aes, ZeroPadded(block))
  BY StmOps DEF Stm!HeaderEnd, Stm!aeadVars
<1>2. InHeader /\ Loaded /\ aes.npblb = 0 /\ aes.ctr = 0
  BY <1>1 DEF StmInv
<1>3. aes.mac \in Seq(Octets) /\ block \in Seq(Octets) /\ Whole(Len(aes.mac))
  BY <1>2 DEF InHeader
<1>4. aes.mac \o block = B0 \o RfcHeader(Aad)
  <2>1. (aes.mac \o block) \o << >> = aes.mac \o block
    <3>1. aes.mac \o block \in Seq(Octets)
      BY <1>3, ConcatProperties
    <3> QED
      BY <3>1, ConcatEmptySeq
  <2> QED
    BY <1>1, <1>2, <2>1, FlatEmpty DEF InHeader
<1>5. aes.mac \o ZeroPadded(block) = HeaderBlocks
  <2>1. ZeroPadded(aes.mac \o block) = aes.mac \o ZeroPadded(block)
    BY <1>3, ZeroPaddedAfter, OctetFacts
  <2>2. B0 \in Seq(Octets) /\ Whole(Len(B0)) /\ RfcHeader(Aad) \in Seq(Octets)
    BY CallFacts, WholeFacts
  <2>3. ZeroPadded(B0 \o RfcHeader(Aad)) = HeaderBlocks
    BY <2>2, ZeroPaddedAfter, OctetFacts DEF HeaderBlocks
  <2> QED
    BY <1>4, <2>1, <2>3
<1>6. /\ aes'.mac = aes.mac \o ZeroPadded(block)
      /\ aes'.npblb = aes.npblb /\ aes'.ctr = aes.ctr /\ aes'.mode = aes.mode
      /\ aes'.ivr = aes.ivr /\ aes'.keyr = aes.keyr /\ aes'.keysize = aes.keysize
  <2>1. CASE block = << >>
    <3>1. ZeroPadded(<< >>) = << >>
      <4>1. << >> \in Seq(Octets) /\ Len(<< >>) = 0 /\ Whole(0) /\ Byte(0) \in Octets
        BY EmptySeq, WholeFacts, OctetFacts
      <4> QED
        BY <4>1, ZeroPaddedWhole
    <3> QED
      BY <1>1, <1>3, <2>1, <3>1, ConcatEmptySeq
  <2>2. CASE block # << >>
    <3>1. aes' = Stm!TakeHeader(aes, ZeroPadded(block))
      BY <1>1, <2>2
    <3> QED
      BY <3>1, TakesHeader
  <2> QED
    BY <2>1, <2>2
<1>7. Loaded'
  BY <1>1, <1>2, <1>6, LoadedStays
<1>8. HeaderBlocks' = HeaderBlocks
  BY <1>1 DEF HeaderBlocks, B0, Aad
<1> QED
  BY <1>1, <1>2, <1>5, <1>6, <1>7, <1>8 DEF StmInv

\* A part of a sequence.
LEMMA PartFacts ==
  ASSUME NEW S, NEW s \in Seq(S), NEW o \in Nat, NEW c \in Nat, o + c <= Len(s)
  PROVE  /\ SubSeq(s, o + 1, o + c) \in Seq(S) /\ Len(SubSeq(s, o + 1, o + c)) = c
         /\ \A i \in 1 .. c : SubSeq(s, o + 1, o + c)[i] = s[o + i]
<1> DEFINE t == SubSeq(s, o + 1, o + c)
<1>0. Len(s) \in Nat
  BY LenProperties
<1>1. \A i \in o + 1 .. o + c : s[i] \in S
  <2>1. \A i \in o + 1 .. o + c : i \in 1 .. Len(s)
    BY <1>0
  <2> QED
    BY <2>1, ElementOfSeq
<1>2. o + 1 \in Int /\ o + c \in Int
  OBVIOUS
<1>3. /\ t \in Seq(S) /\ Len(t) = IF o + 1 <= o + c THEN (o + c) - (o + 1) + 1 ELSE 0
      /\ \A i \in 1 .. (o + c) - (o + 1) + 1 : t[i] = s[(o + 1) + i - 1]
  BY <1>1, <1>2, SubSeqProperties
<1> HIDE DEF t
<1>4. Len(t) = c /\ \A i \in 1 .. c : t[i] = s[o + i]
  <2>1. (o + c) - (o + 1) + 1 = c
    OBVIOUS
  <2>2. \A i \in 1 .. c : (o + 1) + i - 1 = o + i
    OBVIOUS
  <2>3. Len(t) = c
    BY <1>3
  <2> QED
    BY <1>3, <2>1, <2>2, <2>3
<1> QED
  BY <1>3, <1>4 DEF t

\* A block of the peripheral's output is a block of the call's output.
LEMMA OutputPiece ==
  ASSUME CcmCall, NEW o \in Nat, NEW c \in 1 .. BLOCK, o + c <= Len(call.message),
         NEW b \in Seq(Octets), Len(b) = BLOCK,
         \A i \in 1 .. c : b[i] = call.message[o + i]
  PROVE  /\ Crypt(call.key, call.nonce, o, b) \in Seq(Bytes)
         /\ Len(Crypt(call.key, call.nonce, o, b)) = BLOCK
         /\ \A i \in 1 .. c : Crypt(call.key, call.nonce, o, b)[i] = Out[o + i]
<1> DEFINE u == Crypt(call.key, call.nonce, o, b)
           x(j) == [key |-> call.key, nonce |-> call.nonce, at |-> j]
<1>0. /\ call \in Calls /\ call.message \in Seq(Octets) /\ Len(call.message) \in Nat
      /\ BLOCK \in Nat /\ 0 \in Nat
  BY CallFacts, CcmAssumption DEF CcmCall
<1>1. /\ u \in Seq(Bytes) /\ Len(u) = BLOCK
      /\ \A i \in 1 .. BLOCK : u[i] = Xor(b[i], x(o + i))
  BY <1>0, CryptFacts
<1>2. \A j \in 1 .. Len(call.message) : Out[j] = Xor(call.message[j], x(0 + j))
  BY <1>0, CryptFacts DEF Out
<1> HIDE DEF u
<1>3. ASSUME NEW i \in 1 .. c PROVE u[i] = Out[o + i]
  <2>1. i \in 1 .. BLOCK /\ o + i \in 1 .. Len(call.message) /\ 0 + (o + i) = o + i
    BY <1>0
  <2>2. Out[o + i] = Xor(call.message[o + i], x(0 + (o + i)))
    BY <1>2, <2>1
  <2>3. u[i] = Xor(call.message[o + i], x(o + i))
    BY <1>1, <2>1
  <2> QED
    BY <2>1, <2>2, <2>3
<1> QED
  BY <1>1, <1>3 DEF u

\* The padded block of the message.
LEMMA InputPiece ==
  ASSUME CcmCall, NEW o \in Nat, NEW c \in 1 .. BLOCK, o + c <= Len(call.message),
         NEW b, b = ZeroPadded(SubSeq(call.message, o + 1, o + c))
  PROVE  /\ b \in Seq(Octets) /\ Len(b) = BLOCK
         /\ \A i \in 1 .. c : b[i] = call.message[o + i]
<1> DEFINE s == SubSeq(call.message, o + 1, o + c)
<1>0. call.message \in Seq(Octets) /\ BLOCK \in Nat /\ c \in Nat
  BY CallFacts, CcmAssumption
<1>1. s \in Seq(Octets) /\ Len(s) = c /\ \A i \in 1 .. c : s[i] = call.message[o + i]
  BY <1>0, PartFacts
<1>2. Padded(c) = BLOCK
  BY PaddedCases
<1>3. b = ZeroPadded(s)
  OBVIOUS
<1> HIDE DEF s
<1>4. /\ b \in Seq(Octets) /\ Len(b) = Padded(Len(s))
      /\ \A i \in 1 .. Padded(Len(s)) : b[i] = IF i <= Len(s) THEN s[i] ELSE Byte(0)
  BY <1>1, <1>3, ZeroPaddedFacts, OctetFacts
<1>5. \A i \in 1 .. c : i \in 1 .. BLOCK /\ i <= c
  BY <1>0
<1> QED
  BY <1>1, <1>2, <1>4, <1>5

\* What the MAC takes of a block is the block of the plaintext, padded: when
\* decrypting NPBLB masks what the peripheral deciphered behind the message.
LEMMA MaskedPiece ==
  ASSUME CcmCall, NEW o \in Nat, NEW c \in 1 .. BLOCK, o + c <= Len(call.message),
         NEW b, b = ZeroPadded(SubSeq(call.message, o + 1, o + c)),
         NEW a, a.npblb = IF call.op = "decrypt" THEN BLOCK - c ELSE 0,
         NEW u, u = Crypt(call.key, call.nonce, o, b),
         NEW x, x = IF call.op = "encrypt" THEN b ELSE u,
         call.op \in {"encrypt", "decrypt"}
  PROVE  Stm!Masked(a, x) = ZeroPadded(SubSeq(Plain, o + 1, o + c))
<1>0. BLOCK \in Nat /\ c \in Nat /\ c <= BLOCK
  BY CcmAssumption
<1>1. b \in Seq(Octets) /\ Len(b) = BLOCK /\ \A i \in 1 .. c : b[i] = call.message[o + i]
  BY InputPiece
<1>2. Stm!Masked(a, x) = SubSeq(x, 1, BLOCK - a.npblb) \o Zeros(a.npblb)
  BY StmOps DEF Stm!Masked
<1>3. CASE call.op = "encrypt"
  <2>1. a.npblb = 0 /\ x = b /\ Plain = call.message /\ BLOCK - 0 = BLOCK
    BY <1>0, <1>3 DEF Plain
  <2>2. SubSeq(b, 1, BLOCK) = b
    BY <1>1, SubSeqFull
  <2>3. Zeros(0) = << >>
    BY DEF Zeros
  <2>4. b \o << >> = b
    BY <1>1, ConcatEmptySeq
  <2> QED
    BY <1>2, <2>1, <2>2, <2>3, <2>4
<1>4. CASE call.op = "decrypt"
  <2> DEFINE s == SubSeq(Out, o + 1, o + c)
             v == SubSeq(u, 1, c)
  <2>1. a.npblb = BLOCK - c /\ x = u /\ Plain = Out /\ BLOCK - (BLOCK - c) = c
    BY <1>0, <1>4 DEF Plain
  <2>2. u \in Seq(Bytes) /\ Len(u) = BLOCK /\ \A i \in 1 .. c : u[i] = Out[o + i]
    BY <1>1, OutputPiece
  <2>3. Out \in Seq(Bytes) /\ Len(Out) = Len(call.message)
    BY CallFacts
  <2>4. s \in Seq(Bytes) /\ Len(s) = c /\ \A i \in 1 .. c : s[i] = Out[o + i]
    BY <1>0, <2>3, PartFacts
  <2>5. v \in Seq(Bytes) /\ Len(v) = c /\ \A i \in 1 .. c : v[i] = u[i]
    <3>1. 0 \in Nat /\ 0 + c <= Len(u) /\ 0 + 1 = 1 /\ 0 + c = c
      BY <1>0, <2>2
    <3>2. /\ SubSeq(u, 0 + 1, 0 + c) \in Seq(Bytes) /\ Len(SubSeq(u, 0 + 1, 0 + c)) = c
          /\ \A i \in 1 .. c : SubSeq(u, 0 + 1, 0 + c)[i] = u[0 + i]
      BY <1>0, <2>2, <3>1, PartFacts
    <3>3. \A i \in 1 .. c : 0 + i = i
      BY <1>0
    <3> QED
      BY <3>1, <3>2, <3>3
  <2> HIDE DEF s, v
  <2>6. v = s
    BY <2>2, <2>4, <2>5, SeqEqual
  <2>7. ZeroPadded(s) = s \o Zeros(BLOCK - c)
    BY <2>4, PaddedCases DEF ZeroPadded
  <2>8. Stm!Masked(a, x) = v \o Zeros(BLOCK - c)
    BY <1>2, <2>1 DEF v
  <2> QED
    BY <2>1, <2>6, <2>7, <2>8 DEF s
<1> QED
  BY <1>3, <1>4

\* The padded block behind what the MAC has taken.
LEMMA MacAdvances ==
  ASSUME CcmCall, NEW o \in Nat, NEW c \in Nat, o + c <= Len(call.message), Whole(o)
  PROVE  (HeaderBlocks \o ZeroPadded(SubSeq(Plain, 1, o)))
            \o ZeroPadded(SubSeq(Plain, o + 1, o + c))
           = HeaderBlocks \o ZeroPadded(SubSeq(Plain, 1, o + c))
<1> DEFINE h == HeaderBlocks
           p == SubSeq(Plain, 1, o)
           q == SubSeq(Plain, o + 1, o + c)
           z == ZeroPadded(q)
<1>1. h \in Seq(Bytes) /\ Plain \in Seq(Bytes) /\ Len(Plain) = Len(call.message)
      /\ Len(Plain) \in Nat
  BY CallFacts, OctetFacts
<1>2. p \in Seq(Bytes) /\ Len(p) = o
  <2>1. 0 \in Nat /\ 0 + o <= Len(Plain) /\ 0 + 1 = 1 /\ 0 + o = o
    BY <1>1
  <2>2. /\ SubSeq(Plain, 0 + 1, 0 + o) \in Seq(Bytes) /\ Len(SubSeq(Plain, 0 + 1, 0 + o)) = o
    BY <1>1, <2>1, PartFacts
  <2> QED
    BY <2>1, <2>2
<1>3. q \in Seq(Bytes)
  BY <1>1, PartFacts
<1>4. SubSeq(Plain, 1, o + c) = p \o q
  <2>1. 1 \in 1 .. Len(Plain) + 1 /\ o \in 1 - 1 .. Len(Plain) /\ o + c \in o .. Len(Plain)
    BY <1>1
  <2> QED
    BY <1>1, <2>1, ConcatAdjacentSubSeq
<1> HIDE DEF h, p, q
<1>5. ZeroPadded(p) = p /\ ZeroPadded(p \o q) = p \o z
  BY <1>2, <1>3, OctetFacts, ZeroPaddedWhole, ZeroPaddedAfter
<1>6. z \in Seq(Bytes)
  BY <1>3, OctetFacts, ZeroPaddedFacts
<1> HIDE DEF z
<1>7. (h \o p) \o z = h \o (p \o z)
  BY <1>1, <1>2, <1>6, ConcatAssociative
<1>8. (h \o ZeroPadded(p)) \o z = h \o ZeroPadded(p \o q)
  BY <1>5, <1>7
<1> QED
  BY <1>4, <1>8 DEF h, p, q, z

\* The payload phase begins with the message as it was handed over.
LEMMA PayloadStartStm ==
  ASSUME CcmCall, DOMAIN aes = AesFields, StmInv, message = call.message, Stm!PayloadStart
  PROVE  StmInv' /\ pc' = "payload"
<1>1. /\ pc = "payload_start" /\ pc' = "payload" /\ msg_offset' = 0
      /\ aes' = [aes EXCEPT !.gcmph = "payload", !.en = TRUE]
      /\ UNCHANGED <<busy, call, message, result>>
  BY DEF Stm!PayloadStart, Stm!aeadVars
<1>2. Loaded /\ aes.npblb = 0 /\ aes.ctr = 0 /\ aes.mac = HeaderBlocks
  BY <1>1 DEF StmInv
<1>3. /\ aes'.npblb = 0 /\ aes'.ctr = 0 /\ aes'.mac = HeaderBlocks /\ aes'.mode = aes.mode
      /\ aes'.ivr = aes.ivr /\ aes'.keyr = aes.keyr /\ aes'.keysize = aes.keysize
  BY <1>1, <1>2 DEF AesFields
<1>4. Loaded'
  BY <1>1, <1>2, <1>3, LoadedStays
<1>5. HeaderBlocks' = HeaderBlocks /\ Plain' = Plain /\ Out' = Out
  BY <1>1 DEF HeaderBlocks, B0, Aad, Plain, Out
<1>6. Len(call.message) \in Nat /\ HeaderBlocks \in Seq(Octets) /\ call.message \in Seq(Octets)
  BY CallFacts
<1>7. Whole(0) /\ Padded(0) = 0
  BY WholeFacts, PaddedCases
<1>8. HeaderBlocks \o ZeroPadded(SubSeq(Plain, 1, 0)) = HeaderBlocks
  <2>1. SubSeq(Plain, 1, 0) = << >>
    BY SubSeqEmpty
  <2>2. << >> \in Seq(Octets) /\ Len(<< >>) = 0 /\ Byte(0) \in Octets
    BY EmptySeq, OctetFacts
  <2>3. ZeroPadded(<< >>) = << >>
    BY <1>7, <2>2, ZeroPaddedWhole
  <2> QED
    BY <1>6, <2>1, <2>3, ConcatEmptySeq
<1>9. message = [i \in 1 .. Len(call.message) |-> IF i <= 0 THEN Out[i] ELSE call.message[i]]
  <2>1. call.message \in [1 .. Len(call.message) -> Octets]
    BY <1>6, LenProperties
  <2>2. call.message = [i \in 1 .. Len(call.message) |-> call.message[i]]
    BY <2>1
  <2>3. \A i \in 1 .. Len(call.message) : ~(i <= 0)
    BY <1>6
  <2> QED
    BY <2>2, <2>3
<1>10. InPayload'
  BY <1>1, <1>3, <1>5, <1>6, <1>7, <1>8, <1>9 DEF InPayload
<1> QED
  BY <1>1, <1>4, <1>10 DEF StmInv

\* The fields of the peripheral after a block of the payload.
LEMMA TakesPayload ==
  ASSUME DOMAIN aes = AesFields, NEW b, NEW a, a = Stm!WithNpblb(aes),
         aes' = Stm!TakePayload(a, b)
  PROVE  /\ DOMAIN a = AesFields
         /\ a.npblb = IF call.op = "decrypt" /\ Stm!Chunk < BLOCK
                        THEN BLOCK - Stm!Chunk ELSE aes.npblb
         /\ aes'.npblb = a.npblb
         /\ aes'.mac = aes.mac \o Stm!Masked(a, IF aes.mode = "encrypt" THEN b
                                                 ELSE Stm!Output(a, b))
         /\ aes'.ctr = aes.ctr + BLOCK
         /\ aes'.mode = aes.mode /\ aes'.ivr = aes.ivr
         /\ aes'.keyr = aes.keyr /\ aes'.keysize = aes.keysize
         /\ Stm!Output(a, b)
              = Crypt(Stm!KeyInUse(aes), NonceOf(aes.ivr), aes.ctr, b)
<1>1. /\ DOMAIN a = AesFields
      /\ a.npblb = IF call.op = "decrypt" /\ Stm!Chunk < BLOCK
                     THEN BLOCK - Stm!Chunk ELSE aes.npblb
      /\ a.mac = aes.mac /\ a.ctr = aes.ctr /\ a.mode = aes.mode /\ a.ivr = aes.ivr
      /\ a.keyr = aes.keyr /\ a.keysize = aes.keysize
  <2>1. CASE call.op = "decrypt" /\ Stm!Chunk < BLOCK
    <3>1. a = [aes EXCEPT !.npblb = BLOCK - Stm!Chunk]
      BY <2>1 DEF Stm!WithNpblb
    <3> QED
      BY <2>1, <3>1 DEF AesFields
  <2>2. CASE ~(call.op = "decrypt" /\ Stm!Chunk < BLOCK)
    <3>1. a = aes
      BY <2>2 DEF Stm!WithNpblb
    <3> QED
      BY <2>2, <3>1
  <2> QED
    BY <2>1, <2>2
<1> DEFINE mac == a.mac \o Stm!Masked(a, IF a.mode = "encrypt" THEN b ELSE Stm!Output(a, b))
           mis == a.misused \/ ~a.en \/ a.gcmph # "payload"
<1>2. aes' = [a EXCEPT !.mac = mac, !.ctr = a.ctr + BLOCK, !.misused = mis]
  BY DEF Stm!TakePayload
<1>3. Stm!Output(a, b) = Crypt(Stm!KeyInUse(a), NonceOf(a.ivr), a.ctr, b)
  BY StmOps DEF Stm!Output
<1>4. Stm!KeyInUse(a) = Stm!KeyInUse(aes)
  BY <1>1 DEF Stm!KeyInUse
<1> HIDE DEF mac, mis
<1>5. /\ aes'.npblb = a.npblb /\ aes'.mac = mac /\ aes'.ctr = a.ctr + BLOCK
      /\ aes'.mode = a.mode /\ aes'.ivr = a.ivr
      /\ aes'.keyr = a.keyr /\ aes'.keysize = a.keysize
  BY <1>1, <1>2 DEF AesFields
<1>6. mac = aes.mac \o Stm!Masked(a, IF aes.mode = "encrypt" THEN b ELSE Stm!Output(a, b))
  BY <1>1 DEF mac
<1> QED
  BY <1>1, <1>3, <1>4, <1>5, <1>6

\* The bytes a step of the payload phase takes.
LEMMA ChunkFacts ==
  ASSUME CcmCall, InPayload, msg_offset < Len(message)
  PROVE  /\ Len(message) = Len(call.message)
         /\ Stm!Chunk \in 1 .. BLOCK
         /\ msg_offset \in Nat /\ msg_offset + Stm!Chunk <= Len(call.message)
         /\ msg_offset + Stm!Chunk < Len(call.message) => Stm!Chunk = BLOCK
         /\ Whole(msg_offset) /\ aes.npblb = 0 /\ aes.ctr = msg_offset
         /\ SubSeq(message, msg_offset + 1, msg_offset + Stm!Chunk)
              = SubSeq(call.message, msg_offset + 1, msg_offset + Stm!Chunk)
<1> DEFINE o == msg_offset
           c == Stm!Chunk
           n == Len(call.message)
<1>0. n \in Nat /\ call.message \in Seq(Octets) /\ BLOCK \in Nat /\ BLOCK > 2
      /\ Out \in Seq(Bytes) /\ Len(Out) = n
  BY CallFacts, CcmAssumption
<1>1. message = [i \in 1 .. n |-> IF i <= o THEN Out[i] ELSE call.message[i]] /\ o \in 0 .. n
  BY DEF InPayload
<1>2. Len(message) = n /\ message \in Seq(Bytes)
  <2>1. ASSUME NEW i \in 1 .. n PROVE message[i] \in Bytes
    <3>1. Out[i] \in Bytes /\ call.message[i] \in Bytes
      BY <1>0, ElementOfSeq, OctetFacts
    <3> QED
      BY <1>1, <3>1
  <2>2. message \in [1 .. n -> Bytes]
    BY <1>1, <2>1
  <2>3. message \in Seq(Bytes)
    BY <1>0, <2>2, SeqDef
  <2> QED
    BY <1>0, <2>2, <2>3, LenProperties
<1>3. c = IF n - o < BLOCK THEN n - o ELSE BLOCK
  BY <1>2 DEF Stm!Chunk
<1>a. o < n /\ o \in Nat
  BY <1>0, <1>1, <1>2
<1> HIDE DEF c, n, o
<1>4. c \in 1 .. BLOCK /\ o + c <= n /\ (o + c < n => c = BLOCK) /\ c \in Nat
  BY <1>0, <1>3, <1>a
<1>5. Whole(o) /\ aes.npblb = 0 /\ aes.ctr = o
  <2>1. Whole(o) /\ aes.npblb = 0 /\ aes.ctr = Padded(o)
    BY <1>a DEF InPayload, n, o
  <2> QED
    BY <2>1, PaddedCases
<1>6. SubSeq(message, o + 1, o + c) = SubSeq(call.message, o + 1, o + c)
  <2> DEFINE s == SubSeq(message, o + 1, o + c)
             t == SubSeq(call.message, o + 1, o + c)
  <2>1. call.message \in Seq(Bytes) /\ o + c <= Len(message) /\ o + c <= Len(call.message)
    BY <1>0, <1>2, <1>4, OctetFacts DEF n
  <2>2. s \in Seq(Bytes) /\ Len(s) = c /\ \A i \in 1 .. c : s[i] = message[o + i]
    BY <1>2, <1>4, <1>a, <2>1, PartFacts
  <2>3. t \in Seq(Bytes) /\ Len(t) = c /\ \A i \in 1 .. c : t[i] = call.message[o + i]
    BY <1>2, <1>4, <1>a, <2>1, PartFacts
  <2> HIDE DEF s, t
  <2>4. ASSUME NEW i \in 1 .. c PROVE s[i] = t[i]
    <3>1. o + i \in 1 .. n /\ ~(o + i <= o)
      BY <1>0, <1>4, <1>a
    <3>2. message[o + i] = call.message[o + i]
      BY <1>1, <3>1
    <3> QED
      BY <2>2, <2>3, <3>2
  <2>5. s = t
    BY <2>2, <2>3, <2>4, SeqEqual
  <2> QED
    BY <2>5 DEF s, t
<1> QED
  BY <1>2, <1>4, <1>5, <1>6, <1>a DEF c, n, o

\* A block of the payload.
LEMMA PayloadBlockStm ==
  ASSUME CcmCall, DOMAIN aes = AesFields, StmInv, Stm!PayloadBlock
  PROVE  StmInv' /\ pc' = "payload"
<1> DEFINE o == msg_offset
           c == Stm!Chunk
           n == Len(call.message)
           b == ZeroPadded(SubSeq(call.message, o + 1, o + c))
           a == Stm!WithNpblb(aes)
           u == Crypt(call.key, call.nonce, o, b)
<1>1. pc = "payload" /\ pc' = "payload" /\ msg_offset < Len(message)
      /\ UNCHANGED <<busy, call, result>>
  BY DEF Stm!PayloadBlock
<1>2. InPayload /\ Loaded
  BY <1>1 DEF StmInv
<1>3. /\ Len(message) = n /\ c \in 1 .. BLOCK
      /\ o \in Nat /\ o + c <= n /\ (o + c < n => c = BLOCK)
      /\ Whole(o) /\ aes.npblb = 0 /\ aes.ctr = o
      /\ SubSeq(message, o + 1, o + c) = SubSeq(call.message, o + 1, o + c)
  BY <1>1, <1>2, ChunkFacts
<1>4. b = Stm!ZeroPadded(SubSeq(message, o + 1, o + c))
  BY <1>3, StmOps
<1>5. /\ aes' = Stm!TakePayload(a, b) /\ msg_offset' = o + c
      /\ message' = [i \in 1 .. Len(message) |->
                       IF i \in o + 1 .. o + c THEN Stm!Output(a, b)[i - o] ELSE message[i]]
  BY <1>4 DEF Stm!PayloadBlock
<1>6. /\ a.npblb = IF call.op = "decrypt" /\ c < BLOCK THEN BLOCK - c ELSE aes.npblb
      /\ aes'.npblb = a.npblb
      /\ aes'.mac = aes.mac \o Stm!Masked(a, IF aes.mode = "encrypt" THEN b
                                              ELSE Stm!Output(a, b))
      /\ aes'.ctr = aes.ctr + BLOCK
      /\ aes'.mode = aes.mode /\ aes'.ivr = aes.ivr
      /\ aes'.keyr = aes.keyr /\ aes'.keysize = aes.keysize
      /\ Stm!Output(a, b) = Crypt(Stm!KeyInUse(aes), NonceOf(aes.ivr), aes.ctr, b)
  BY <1>5, TakesPayload
<1>7. Stm!Output(a, b) = u /\ aes.mode = call.op
  BY <1>2, <1>3, <1>6, CallFacts DEF Loaded
<1>8. n \in Nat /\ BLOCK \in Nat /\ c \in Nat /\ call.op \in {"encrypt", "decrypt"}
  <2>1. IsCall(call)
    BY CallAssumption DEF CcmCall
  <2>2. call.op \in {"encrypt", "decrypt"}
    BY <2>1 DEF IsCall
  <2>3. n \in Nat
    BY CallFacts
  <2>4. c \in Nat /\ BLOCK \in Nat
    BY <1>3, CcmAssumption
  <2> QED
    BY <2>2, <2>3, <2>4
<1>b. Len(b) = BLOCK /\ b \in Seq(Octets) /\ \A i \in 1 .. c : b[i] = call.message[o + i]
  BY <1>3, InputPiece
<1> HIDE DEF a, b, u, c, o, n
<1>9. a.npblb = IF call.op = "decrypt" THEN BLOCK - c ELSE 0
  BY <1>3, <1>6, <1>8
<1>10. \A i \in 1 .. c : u[i] = Out[o + i]
  BY <1>3, <1>b, OutputPiece DEF u, n
<1>11. message' = [i \in 1 .. n |-> IF i <= o + c THEN Out[i] ELSE call.message[i]]
  <2>1. message' = [i \in 1 .. n |-> IF i \in o + 1 .. o + c THEN u[i - o] ELSE message[i]]
    BY <1>3, <1>5, <1>7
  <2>2. message = [i \in 1 .. n |-> IF i <= o THEN Out[i] ELSE call.message[i]]
    BY <1>2 DEF InPayload, n, o
  <2>3. ASSUME NEW i \in 1 .. n
        PROVE  (IF i \in o + 1 .. o + c THEN u[i - o] ELSE message[i])
                 = IF i <= o + c THEN Out[i] ELSE call.message[i]
    <3>1. CASE i \in o + 1 .. o + c
      <4>1. i - o \in 1 .. c /\ o + (i - o) = i /\ i <= o + c
        BY <1>3, <1>8, <3>1
      <4>2. u[i - o] = Out[o + (i - o)]
        BY <1>10, <4>1
      <4> QED
        BY <3>1, <4>1, <4>2
    <3>2. CASE i \notin o + 1 .. o + c
      <4>1. (i <= o + c) <=> (i <= o)
        BY <1>3, <1>8, <3>2
      <4>2. message[i] = IF i <= o THEN Out[i] ELSE call.message[i]
        BY <2>2
      <4> QED
        BY <3>2, <4>1, <4>2
    <3> QED
      BY <3>1, <3>2
  <2> QED
    BY <2>1, <2>3
<1>12. aes'.mac = HeaderBlocks \o ZeroPadded(SubSeq(Plain, 1, o + c))
  <2> DEFINE x == IF call.op = "encrypt" THEN b ELSE u
  <2>1. aes'.mac = aes.mac \o Stm!Masked(a, x)
    BY <1>6, <1>7
  <2>2. aes.mac = HeaderBlocks \o ZeroPadded(SubSeq(Plain, 1, o))
    BY <1>2 DEF InPayload, o
  <2>3. Stm!Masked(a, x) = ZeroPadded(SubSeq(Plain, o + 1, o + c))
    BY <1>3, <1>8, <1>9, MaskedPiece DEF b, u, n
  <2>4. (HeaderBlocks \o ZeroPadded(SubSeq(Plain, 1, o)))
            \o ZeroPadded(SubSeq(Plain, o + 1, o + c))
           = HeaderBlocks \o ZeroPadded(SubSeq(Plain, 1, o + c))
    BY <1>3, <1>8, MacAdvances DEF n
  <2> QED
    BY <2>1, <2>2, <2>3, <2>4
<1>13. aes'.ctr = Padded(o + c)
  <2>1. Padded(o + c) = o + Padded(c) /\ Padded(c) = BLOCK
    BY <1>3, <1>8, PaddedAfter, PaddedCases
  <2> QED
    BY <1>3, <1>6, <2>1
<1>14. o + c < n => Whole(o + c) /\ aes'.npblb = 0
  <2>1. ASSUME o + c < n PROVE Whole(o + c) /\ aes'.npblb = 0
    <3>1. c = BLOCK
      BY <1>3, <2>1
    <3>2. Whole(o + BLOCK)
      BY <1>3, WholeFacts
    <3>3. aes'.npblb = 0
      BY <1>6, <1>8, <1>9, <3>1
    <3> QED
      BY <3>1, <3>2, <3>3
  <2> QED
    BY <2>1
<1>15. HeaderBlocks' = HeaderBlocks /\ Plain' = Plain /\ Out' = Out
  BY <1>1 DEF HeaderBlocks, B0, Aad, Plain, Out
<1>16. o + c \in 0 .. n
  BY <1>3, <1>8
<1>17. InPayload'
  BY <1>1, <1>5, <1>11, <1>12, <1>13, <1>14, <1>15, <1>16 DEF InPayload, n
<1>18. Loaded'
  BY <1>1, <1>2, <1>6, LoadedStays
<1> QED
  BY <1>1, <1>17, <1>18 DEF StmInv

\* The final phase returns what the specification says.
LEMMA FinalPhaseStm ==
  ASSUME CcmCall, StmInv, aes.misused = FALSE, busy = TRUE, Stm!FinalPhase
  PROVE  StmInv' /\ pc' = "idle" /\ Returned
<1> DEFINE n == Len(call.message)
           mac == RfcMac(call.key, call.nonce, Aad, Plain)
<1>1. /\ pc = "payload" /\ pc' = "idle" /\ busy' = FALSE /\ call' = call /\ message' = message
      /\ msg_offset >= Len(message)
      /\ result' =
           IF call.op = "encrypt"
             THEN [status |-> "Ok", tag |-> {[mac |-> Stm!TagBlock(aes), len |-> TAG_LEN]}]
             ELSE [status |-> IF Stm!TagsMatch(call.tag) THEN "Ok" ELSE "DecryptionFailed",
                   tag |-> {}]
  BY DEF Stm!FinalPhase
<1>2. InPayload /\ Loaded
  BY <1>1 DEF StmInv
<1>3. /\ n \in Nat /\ Plain \in Seq(Bytes) /\ Len(Plain) = n /\ Out \in Seq(Bytes) /\ Len(Out) = n
      /\ NonceOf(B0) = call.nonce
  BY CallFacts
<1>4. message = [i \in 1 .. n |-> IF i <= msg_offset THEN Out[i] ELSE call.message[i]]
      /\ msg_offset \in 0 .. n
  BY <1>2 DEF InPayload
<1>5. msg_offset = n
  <2>1. Len(message) = n
    BY <1>3, <1>4
  <2> QED
    BY <1>1, <1>3, <1>4, <2>1
<1>6. message = Out
  <2>1. Out \in [1 .. n -> Bytes]
    BY <1>3, LenProperties
  <2>2. Out = [i \in 1 .. n |-> Out[i]]
    BY <2>1
  <2>3. \A i \in 1 .. n : i <= n
    BY <1>3
  <2> QED
    BY <1>4, <1>5, <2>2, <2>3
<1>7. aes.mac = HeaderBlocks \o ZeroPadded(Plain)
  <2>1. SubSeq(Plain, 1, n) = Plain
    BY <1>3, SubSeqFull
  <2> QED
    BY <1>2, <1>5, <2>1 DEF InPayload
<1>8. Stm!TagBlock(aes) = mac
  <2>1. mac = [key |-> call.key, nonce |-> call.nonce,
               input |-> (B0 \o ZeroPadded(RfcHeader(Aad))) \o ZeroPadded(Plain)]
    BY <1>3 DEF RfcMac, B0
  <2>2. Stm!TagBlock(aes) = [key |-> call.key, nonce |-> call.nonce, input |-> aes.mac]
    BY <1>2, <1>3, StmOps DEF Stm!TagBlock, Loaded
  <2> QED
    BY <1>7, <2>1, <2>2 DEF HeaderBlocks
<1>9. Tag(call.key, Mac(call.key, call.nonce, Aad, Plain, Crypted))
        = {[mac |-> mac, len |-> TAG_LEN]}
  <2>1. call.key.alg \notin GcmAlgorithms
    BY DEF CcmCall, CcmAlgorithms, GcmAlgorithms
  <2> QED
    BY <2>1 DEF Tag, Mac, tag_length
<1>10. IsCall(call)
  BY CallAssumption DEF CcmCall
<1> HIDE DEF mac
<1>11. CASE call.op = "encrypt"
  <2>1. result' = [status |-> "Ok", tag |-> {[mac |-> mac, len |-> TAG_LEN]}]
    BY <1>1, <1>8, <1>11
  <2>2. message' = Out
    BY <1>1, <1>6
  <2> QED
    BY <1>1, <1>9, <1>11, <2>1, <2>2 DEF Returned, StmInv
<1>12. CASE call.op = "decrypt"
  <2>1. result' = [status |-> IF Stm!TagsMatch(call.tag) THEN "Ok" ELSE "DecryptionFailed",
                   tag |-> {}]
    BY <1>1, <1>12
  <2>2. Stm!TagsMatch(call.tag) <=> call.tag = {[mac |-> mac, len |-> TAG_LEN]}
    BY <1>8 DEF Stm!TagsMatch
  <2>3. message' = Out
    BY <1>1, <1>6
  <2> QED
    BY <1>1, <1>9, <1>12, <2>1, <2>2, <2>3 DEF Returned, StmInv
<1> QED
  BY <1>10, <1>11, <1>12 DEF IsCall

-----------------------------------------------------------------------------
(* RustCrypto: what the buffer has collected *)

\* The buffer has its size; its first cursor bytes and the items left are the
\* additional data, whatever an earlier call left behind them.
RcInv ==
  /\ aead_buffer \in Seq(Octets) /\ Len(aead_buffer) = AEAD_BUFFER
  /\ pc # "collect" => cursor = 0
  /\ pc = "collect" =>
       /\ cursor \in 0 .. AEAD_BUFFER /\ slices \in Seq(Seq(Octets))
       /\ SubSeq(aead_buffer, 1, cursor) \o FlattenSeq(slices) = Aad

\* The operators of Ccm in RustcryptoAead.
LEMMA RcOps ==
  /\ \A n : Rustcrypto!Zeros(n) = Zeros(n)
  /\ \A k, n, p, s : Rustcrypto!Crypt(k, n, p, s) = Crypt(k, n, p, s)
  /\ \A k, n, a, m : Rustcrypto!RfcMac(k, n, a, m) = RfcMac(k, n, a, m)
  /\ \A k, m : Rustcrypto!Tag(k, m) = Tag(k, m)
  /\ \A a : Rustcrypto!nonce_length(a) = nonce_length(a)
  /\ \A a : Rustcrypto!tag_length(a) = tag_length(a)
<1>0. \A n : Rustcrypto!Zeros(n) = Zeros(n)
  BY Zenon DEF Rustcrypto!Zeros, Zeros, Rustcrypto!Byte, Byte
<1>1. \A k, n, p, s : Rustcrypto!Crypt(k, n, p, s) = Crypt(k, n, p, s)
  BY Zenon DEF Rustcrypto!Crypt, Crypt, Rustcrypto!Xor, Xor
<1>3. \A n, len : Rustcrypto!BigEndian(n, len) = BigEndian(n, len)
  BY Zenon DEF Rustcrypto!BigEndian, BigEndian, Rustcrypto!Byte, Byte
<1>4. \A s : Rustcrypto!ZeroPadded(s) = ZeroPadded(s)
  BY <1>0, Zenon DEF Rustcrypto!ZeroPadded, ZeroPadded, Rustcrypto!Padded, Padded
<1>5. \A n, m, a : Rustcrypto!RfcB0(n, m, a) = RfcB0(n, m, a)
  BY <1>3, Zenon DEF Rustcrypto!RfcB0, RfcB0, Rustcrypto!Byte, Byte
<1>6. \A a : Rustcrypto!RfcHeader(a) = RfcHeader(a)
  BY <1>3, Zenon DEF Rustcrypto!RfcHeader, RfcHeader
<1>7. \A k, n, a, m : Rustcrypto!RfcMac(k, n, a, m) = RfcMac(k, n, a, m)
  BY <1>4, <1>5, <1>6, Zenon DEF Rustcrypto!RfcMac, RfcMac
<1>9. Rustcrypto!GcmAlgorithms = GcmAlgorithms
  BY DEF Rustcrypto!GcmAlgorithms, GcmAlgorithms
<1>10. \A a : Rustcrypto!nonce_length(a) = nonce_length(a)
  BY <1>9, Zenon DEF Rustcrypto!nonce_length, nonce_length
<1>11. \A a : Rustcrypto!tag_length(a) = tag_length(a)
  BY <1>9, Zenon DEF Rustcrypto!tag_length, tag_length
<1>12. \A k, m : Rustcrypto!Tag(k, m) = Tag(k, m)
  BY <1>11, Zenon DEF Rustcrypto!Tag, Tag
<1> QED
  BY <1>0, <1>1, <1>7, <1>10, <1>11, <1>12

\* The first part of two.
LEMMA FirstPart ==
  ASSUME NEW S, NEW x \in Seq(S), NEW y \in Seq(S)
  PROVE  SubSeq(x \o y, 1, Len(x)) = x
<1> DEFINE z == x \o y
           n == Len(x)
           w == SubSeq(z, 1, n)
<1>1. z \in Seq(S) /\ Len(z) = n + Len(y) /\ n \in Nat /\ Len(y) \in Nat
  BY ConcatProperties, LenProperties
<1>2. \A i \in 1 .. n : z[i] = x[i]
  <2>1. \A i \in 1 .. n + Len(y) : z[i] = IF i <= n THEN x[i] ELSE y[i - n]
    BY ConcatProperties
  <2>2. \A i \in 1 .. n : i \in 1 .. n + Len(y) /\ i <= n
    BY <1>1
  <2> QED
    BY <2>1, <2>2
<1> HIDE DEF z
<1>3. z \in Seq(S) /\ 0 \in Nat /\ n \in Nat /\ 0 + n <= Len(z)
  BY <1>1
<1>4. w \in Seq(S) /\ Len(w) = n /\ \A i \in 1 .. n : w[i] = z[i]
  <2>1. /\ SubSeq(z, 0 + 1, 0 + n) \in Seq(S) /\ Len(SubSeq(z, 0 + 1, 0 + n)) = n
        /\ \A i \in 1 .. n : SubSeq(z, 0 + 1, 0 + n)[i] = z[0 + i]
    BY <1>3, PartFacts
  <2>2. SubSeq(z, 0 + 1, 0 + n) = w /\ \A i \in 1 .. n : 0 + i = i
    BY <1>1
  <2> QED
    BY <2>1, <2>2
<1> HIDE DEF w
<1>5. \A i \in 1 .. Len(w) : w[i] = x[i]
  BY <1>2, <1>4
<1>6. w = x
  BY <1>4, <1>5, SeqEqual
<1> QED
  BY <1>6 DEF w, z

FourTexts(p, s, q, f) == IsText(p) /\ IsText(s) /\ IsText(q) /\ IsText(f)

\* s was copied behind p.
Copied(p, s, q, f) ==
  /\ IsText((p \o s) \o q)
  /\ Len((p \o s) \o q) = Len(p) + Len(s) + Len(q)
  /\ SubSeq((p \o s) \o q, 1, Len(p) + Len(s)) \o f = p \o (s \o f)

\* What is copied behind the first bytes of the buffer is part of them then.
LEMMA BufferTakes ==
  ASSUME NEW p, NEW s, NEW q, NEW f, FourTexts(p, s, q, f)
  PROVE  Copied(p, s, q, f)
<1> DEFINE x == p \o s
<1>0. IsText(p) /\ IsText(s) /\ IsText(q) /\ IsText(f)
  BY DEF FourTexts
<1>1. IsText(x) /\ Len(x) = Len(p) + Len(s)
  BY <1>0, ConcatProperties DEF IsText
<1>2. p \o (s \o f) = x \o f
  BY <1>0, Assoc
<1> HIDE DEF x
<1>3. SubSeq(x \o q, 1, Len(x)) = x /\ IsText(x \o q) /\ Len(x \o q) = Len(x) + Len(q)
  BY <1>0, <1>1, FirstPart, ConcatProperties DEF IsText
<1> QED
  BY <1>1, <1>2, <1>3 DEF x, Copied

\* An item is collected; the buffer has room for it.
LEMMA CollectRc ==
  ASSUME CcmCall, RcInv, Rustcrypto!CollectSlice
  PROVE  /\ RcInv' /\ pc = "collect" /\ pc' = "collect"
         /\ UNCHANGED <<busy, call, message, result>>
<1> DEFINE slice == Head(slices)
           rest == Tail(slices)
           upto == cursor + Len(slice)
           p == SubSeq(aead_buffer, 1, cursor)
           q == SubSeq(aead_buffer, upto + 1, AEAD_BUFFER)
           f == FlattenSeq(rest)
<1>1. /\ pc = "collect" /\ slices # << >>
      /\ IF upto > AEAD_BUFFER THEN Rustcrypto!Panic
         ELSE /\ aead_buffer' = (p \o slice) \o q /\ cursor' = upto /\ slices' = rest
              /\ UNCHANGED <<busy, call, message, result, pc>>
  BY DEF Rustcrypto!CollectSlice
<1>2. /\ aead_buffer \in Seq(Octets) /\ Len(aead_buffer) = AEAD_BUFFER
      /\ cursor \in 0 .. AEAD_BUFFER /\ slices \in Seq(Seq(Octets))
      /\ p \o FlattenSeq(slices) = Aad
  BY <1>1 DEF RcInv
<1>3. slice \in Seq(Octets) /\ rest \in Seq(Seq(Octets)) /\ slices = <<slice>> \o rest
  BY <1>1, <1>2, HeadTailProperties
<1> HIDE DEF slice, rest
<1>4. f \in Seq(Octets) /\ FlattenSeq(slices) = slice \o f
  BY <1>3, FlatHead, FlatType
<1>5. p \in Seq(Octets) /\ Len(p) = cursor
  <2>1. cursor \in 0 .. Len(aead_buffer)
    BY <1>2
  <2> QED
    BY <1>2, <2>1, SliceSplit
<1> HIDE DEF p, f
<1>6. Len(slice) \in Nat /\ Len(f) \in Nat /\ AEAD_BUFFER \in Nat /\ cursor \in Nat
  BY <1>2, <1>3, <1>4, LenProperties, BufferAssumption
<1>7. upto + Len(f) = Len(Aad)
  <2>1. slice \o f \in Seq(Octets) /\ Len(slice \o f) = Len(slice) + Len(f)
    BY <1>3, <1>4, ConcatProperties
  <2>2. Len(p \o (slice \o f)) = Len(p) + Len(slice \o f)
    BY <1>5, <2>1, ConcatProperties
  <2> QED
    BY <1>2, <1>4, <1>5, <1>6, <2>1, <2>2
<1>8. Len(Aad) <= AEAD_BUFFER
  BY DEF CcmCall, Fits, Aad
<1>9. upto <= AEAD_BUFFER /\ upto \in 0 .. Len(aead_buffer)
  BY <1>2, <1>6, <1>7, <1>8
<1>10. q \in Seq(Octets) /\ Len(q) = AEAD_BUFFER - upto
  <2>1. upto + (AEAD_BUFFER - upto) = AEAD_BUFFER /\ upto \in Nat /\ AEAD_BUFFER - upto \in Nat
    BY <1>6, <1>9
  <2> DEFINE d == AEAD_BUFFER - upto
  <2>2. d \in Nat /\ upto \in Nat /\ upto + d <= Len(aead_buffer) /\ upto + d = AEAD_BUFFER
    BY <1>2, <2>1
  <2> HIDE DEF d
  <2>3. /\ SubSeq(aead_buffer, upto + 1, upto + d) \in Seq(Octets)
        /\ Len(SubSeq(aead_buffer, upto + 1, upto + d)) = d
    BY <1>2, <2>2, PartFacts
  <2> QED
    BY <2>2, <2>3 DEF d
<1> HIDE DEF q
<1>11. FourTexts(p, slice, q, f)
  BY <1>3, <1>4, <1>5, <1>10 DEF IsText, FourTexts
<1>12. /\ IsText((p \o slice) \o q)
       /\ Len((p \o slice) \o q) = Len(p) + Len(slice) + Len(q)
       /\ SubSeq((p \o slice) \o q, 1, Len(p) + Len(slice)) \o f = p \o (slice \o f)
  <2>1. Copied(p, slice, q, f)
    BY <1>11, BufferTakes
  <2> QED
    BY <2>1, Zenon DEF Copied
<1>13. /\ aead_buffer' = (p \o slice) \o q /\ cursor' = upto /\ slices' = rest
       /\ UNCHANGED <<busy, call, message, result, pc>>
  <2>1. ~(upto > AEAD_BUFFER)
    BY <1>6, <1>9
  <2> QED
    BY <1>1, <2>1
<1>14. Len(aead_buffer') = AEAD_BUFFER
  <2>1. Len(aead_buffer') = Len(p) + Len(slice) + Len(q)
    BY <1>12, <1>13
  <2>2. cursor + Len(slice) + (AEAD_BUFFER - (cursor + Len(slice))) = AEAD_BUFFER
    BY <1>6
  <2> QED
    BY <1>5, <1>10, <2>1, <2>2
<1>15. SubSeq(aead_buffer', 1, cursor') \o FlattenSeq(slices') = Aad
  BY <1>2, <1>4, <1>5, <1>12, <1>13 DEF f
<1>16. Aad' = Aad
  BY <1>13 DEF Aad
<1>17. aead_buffer' \in Seq(Octets) /\ cursor' \in 0 .. AEAD_BUFFER /\ slices' \in Seq(Seq(Octets))
  BY <1>2, <1>3, <1>9, <1>12, <1>13 DEF IsText
<1>18. RcInv'
  BY <1>1, <1>13, <1>14, <1>15, <1>16, <1>17 DEF RcInv
<1> QED
  BY <1>1, <1>13, <1>18

\* The tag of a call of AES-CCM.
LEMMA CcmTag ==
  ASSUME CcmCall
  PROVE  Tag(call.key, Mac(call.key, call.nonce, Aad, Plain, Crypted))
           = Tag(call.key, RfcMac(call.key, call.nonce, Aad, Plain))
<1>1. call.key.alg \notin GcmAlgorithms
  BY DEF CcmCall, CcmAlgorithms, GcmAlgorithms
<1> QED
  BY <1>1 DEF Mac

\* The library gets the additional data and returns what the specification says.
LEMMA LibraryRc ==
  ASSUME CcmCall, RcInv, busy = TRUE, message = call.message, Rustcrypto!LibraryCall
  PROVE  RcInv' /\ pc' = "idle" /\ Returned
<1> DEFINE tag == Tag(call.key, RfcMac(call.key, call.nonce, Aad, Plain))
           out == Rustcrypto!Crypt(call.key, call.nonce, 0, message)
           plain == IF call.op = "encrypt" THEN message ELSE out
           rctag == Rustcrypto!Tag(call.key,
                      Rustcrypto!RfcMac(call.key, call.nonce, Rustcrypto!AadLinear, plain))
<1>1. pc = "collect" /\ slices = << >>
  BY DEF Rustcrypto!LibraryCall
<1>2. ~Rustcrypto!LengthMismatch
  BY RcOps DEF Rustcrypto!LengthMismatch, CcmCall, RightLengths
<1>3. Rustcrypto!AadLinear = Aad
  <2>1. SubSeq(aead_buffer, 1, cursor) \o << >> = Aad
    BY <1>1, FlatEmpty DEF RcInv
  <2>2. cursor \in 0 .. Len(aead_buffer) /\ aead_buffer \in Seq(Octets)
    BY <1>1 DEF RcInv
  <2>3. SubSeq(aead_buffer, 1, cursor) \in Seq(Octets)
    BY <2>2, SliceSplit
  <2> QED
    BY <2>1, <2>3, ConcatEmptySeq DEF Rustcrypto!AadLinear
<1>4. out = Out /\ plain = Plain /\ rctag = tag
  <2>1. out = Out
    BY RcOps DEF Out
  <2>2. plain = Plain
    BY <2>1 DEF Plain
  <2> QED
    BY <1>3, <2>1, <2>2, RcOps
<1>5. /\ IF call.op = "encrypt"
           THEN message' = out /\ result' = [status |-> "Ok", tag |-> rctag]
           ELSE IF call.tag = rctag
             THEN message' = out /\ result' = [status |-> "Ok", tag |-> {}]
             ELSE result' = [status |-> "DecryptionFailed", tag |-> {}]
      /\ busy' = FALSE /\ pc' = "idle" /\ cursor' = 0
      /\ UNCHANGED <<call, aead_buffer, slices>>
  BY <1>2 DEF Rustcrypto!LibraryCall
<1>6. RcInv'
  BY <1>5 DEF RcInv
<1>7. call.op \in {"encrypt", "decrypt"}
  BY CallAssumption DEF CcmCall, IsCall
<1> HIDE DEF out, rctag, plain, tag
<1>8. Tag(call.key, Mac(call.key, call.nonce, Aad, Plain, Crypted)) = tag
  BY CcmTag DEF tag
<1>9. Returned
  BY <1>4, <1>5, <1>7, <1>8 DEF Returned
<1> QED
  BY <1>5, <1>6, <1>9

-----------------------------------------------------------------------------
(* libcrux: the additional data as it is handed over *)

\* The last item comes last.
LEMMA FlatLast ==
  ASSUME NEW S, NEW seqs \in Seq(Seq(S)), NEW x \in Seq(S)
  PROVE  FlattenSeq(seqs \o <<x>>) = FlattenSeq(seqs) \o x
<1> DEFINE n == Len(seqs)
           all == seqs \o <<x>>
<1>0. n \in Nat
  BY LenProperties
<1>1. <<x>> \in Seq(Seq(S)) /\ Len(<<x>>) = 1 /\ <<x>>[1] = x
  OBVIOUS
<1>2. /\ all \in Seq(Seq(S)) /\ Len(all) = n + 1
      /\ \A i \in 1 .. n + 1 : all[i] = IF i <= n THEN seqs[i] ELSE x
  <2>1. /\ all \in Seq(Seq(S)) /\ Len(all) = n + 1
        /\ \A i \in 1 .. n + 1 : all[i] = IF i <= n THEN seqs[i] ELSE <<x>>[i - n]
    BY <1>1, ConcatProperties
  <2>2. \A i \in 1 .. n + 1 : ~(i <= n) => i - n = 1
    BY <1>0
  <2> QED
    BY <1>1, <2>1, <2>2
<1> HIDE DEF all, n
<1>3. PICK H : Sums(H, seqs) /\ \A i \in 0 .. n : H[i] \in Seq(S)
  BY SumsExist DEF n
<1>4. FlattenSeq(seqs) = H[n]
  BY <1>3, FlatIs DEF n
<1>a. /\ H[0] = << >>
      /\ \A i \in 1 .. n : H[i] = H[i - 1] \o seqs[i]
  BY <1>3 DEF Sums, n
<1> DEFINE y == H[n] \o x
           J == [i \in 0 .. n + 1 |-> IF i <= n THEN H[i] ELSE y]
<1>b. y = H[n] \o x
  OBVIOUS
<1> HIDE DEF y
<1>5. /\ J = [i \in 0 .. n + 1 |-> J[i]] /\ J[n + 1] = y
      /\ \A i \in 0 .. n : J[i] = H[i]
  BY <1>0
<1> HIDE DEF J
<1>6. ASSUME NEW i \in 1 .. n + 1 PROVE J[i] = J[i - 1] \o all[i]
  <2>1. CASE i <= n
    <3>1. i \in 1 .. n /\ i \in 0 .. n /\ i - 1 \in 0 .. n
      BY <1>0, <2>1
    <3>2. all[i] = seqs[i]
      BY <1>2, <2>1
    <3>3. J[i] = H[i] /\ J[i - 1] = H[i - 1] /\ H[i] = H[i - 1] \o seqs[i]
      BY <1>5, <1>a, <3>1
    <3> QED
      BY <3>2, <3>3
  <2>2. CASE ~(i <= n)
    <3>1. i = n + 1 /\ i - 1 = n /\ n \in 0 .. n
      BY <1>0, <2>2
    <3>2. all[i] = x
      BY <1>2, <2>2
    <3>3. J[i] = y /\ J[i - 1] = H[n]
      BY <1>5, <3>1
    <3> QED
      BY <1>b, <3>2, <3>3
  <2> QED
    BY <2>1, <2>2
<1>7. J[0] = << >>
  <2>1. 0 \in 0 .. n
    BY <1>0
  <2> QED
    BY <1>5, <1>a, <2>1
<1>8. Sums(J, all)
  BY <1>2, <1>5, <1>6, <1>7 DEF Sums
<1>9. FlattenSeq(all) = J[n + 1]
  BY <1>2, <1>8, FlatIs
<1> QED
  BY <1>4, <1>5, <1>9, <1>b DEF all

\* The two recursive functions of flatten: the number of bytes in the first items,
\* and those of them that are not empty.
Counts(L, aad) ==
  L = [n \in 0 .. Len(aad) |-> IF n = 0 THEN 0 ELSE L[n - 1] + Len(aad[n])]

Kept(x) == IF x = << >> THEN << >> ELSE <<x>>

Chunks(C, aad) ==
  C = [n \in 0 .. Len(aad) |-> IF n = 0 THEN << >> ELSE C[n - 1] \o Kept(aad[n])]

\* The announced number of bytes is theirs.
LEMMA CountsIs ==
  ASSUME NEW S, NEW aad \in Seq(Seq(S))
  PROVE  (CHOOSE L : Counts(L, aad))[Len(aad)] = Len(FlattenSeq(aad))
<1> DEFINE n == Len(aad)
           L == CHOOSE G : Counts(G, aad)
<1>0. n \in Nat /\ \A i \in 1 .. n : aad[i] \in Seq(S)
  BY LenProperties, ElementOfSeq
<1>1. PICK H : Sums(H, aad) /\ \A i \in 0 .. n : H[i] \in Seq(S)
  BY SumsExist
<1>2. FlattenSeq(aad) = H[n]
  BY <1>1, FlatIs
<1>3. H[0] = << >> /\ \A i \in 1 .. n : H[i] = H[i - 1] \o aad[i]
  BY <1>1 DEF Sums
<1>4. Len(H[0]) = 0 /\ \A i \in 1 .. n : Len(H[i]) = Len(H[i - 1]) + Len(aad[i])
  <2>1. ASSUME NEW i \in 1 .. n PROVE Len(H[i]) = Len(H[i - 1]) + Len(aad[i])
    <3>1. i - 1 \in 0 .. n
      BY <1>0
    <3>2. H[i - 1] \in Seq(S) /\ aad[i] \in Seq(S)
      BY <1>0, <1>1, <3>1
    <3>3. H[i] = H[i - 1] \o aad[i]
      BY <1>3
    <3> DEFINE h == H[i - 1]
               a == aad[i]
    <3>4. h \in Seq(S) /\ a \in Seq(S) /\ H[i] = h \o a
      BY <3>2, <3>3
    <3> HIDE DEF h, a
    <3>5. Len(H[i]) = Len(h) + Len(a)
      BY <3>4, ConcatProperties
    <3> QED
      BY <3>5 DEF h, a
  <2> QED
    BY <1>3, <2>1
<1> DEFINE G == [i \in 0 .. n |-> Len(H[i])]
<1>5. Counts(G, aad)
  <2>1. ASSUME NEW i \in 0 .. n
        PROVE  G[i] = IF i = 0 THEN 0 ELSE G[i - 1] + Len(aad[i])
    <3>1. CASE i = 0
      BY <1>4, <3>1
    <3>2. CASE i # 0
      <4>1. i \in 1 .. n /\ i - 1 \in 0 .. n
        BY <1>0, <3>2
      <4> QED
        BY <1>4, <3>2, <4>1
    <3> QED
      BY <3>1, <3>2
  <2>2. G = [i \in 0 .. n |-> G[i]]
    OBVIOUS
  <2> HIDE DEF G
  <2> QED
    BY <2>1, <2>2 DEF Counts
<1>6. Counts(L, aad)
  BY <1>5
<1> HIDE DEF L, G
<1>7. \A i \in 0 .. n : L[i] = IF i = 0 THEN 0 ELSE L[i - 1] + Len(aad[i])
  BY <1>6 DEF Counts
<1> DEFINE N == {i \in Nat : i <= n => L[i] = Len(H[i])}
<1>8. 0 \in N
  BY <1>0, <1>4, <1>7
<1>9. ASSUME NEW i \in Nat, i \in N PROVE i + 1 \in N
  <2>1. ASSUME i + 1 <= n PROVE L[i + 1] = Len(H[i + 1])
    <3> DEFINE k == i + 1
    <3>1. k \in 1 .. n /\ k \in 0 .. n /\ k # 0 /\ k - 1 = i /\ i <= n
      BY <1>0, <2>1
    <3>2. L[i] = Len(H[i])
      BY <1>9, <3>1
    <3>3. L[k] = L[k - 1] + Len(aad[k])
      BY <1>7, <3>1
    <3>4. Len(H[k]) = Len(H[k - 1]) + Len(aad[k])
      BY <1>4, <3>1
    <3> QED
      BY <3>1, <3>2, <3>3, <3>4
  <2> QED
    BY <2>1
<1>10. n \in N
  <2> HIDE DEF N
  <2> QED
    BY <1>0, <1>8, <1>9, SetInduction
<1> QED
  BY <1>0, <1>2, <1>10 DEF L

\* The items that are not empty are the same bytes as all items.
LEMMA ChunksIs ==
  ASSUME NEW S, NEW aad \in Seq(Seq(S))
  PROVE  FlattenSeq((CHOOSE C : Chunks(C, aad))[Len(aad)]) = FlattenSeq(aad)
<1> DEFINE n == Len(aad)
           C == CHOOSE G : Chunks(G, aad)
           E == [i \in 1 .. n |-> Kept(aad[i])]
<1>0. n \in Nat /\ \A i \in 1 .. n : aad[i] \in Seq(S)
  BY LenProperties, ElementOfSeq
<1>1. E \in Seq(Seq(Seq(S))) /\ Len(E) = n /\ \A i \in 1 .. n : E[i] = Kept(aad[i])
  <2>1. ASSUME NEW x \in Seq(S) PROVE Kept(x) \in Seq(Seq(S))
    BY EmptySeq DEF Kept
  <2>2. E \in [1 .. n -> Seq(Seq(S))]
    BY <1>0, <2>1
  <2>3. \A i \in 1 .. n : E[i] = Kept(aad[i])
    OBVIOUS
  <2> DEFINE T == Seq(Seq(S))
  <2>4. E \in [1 .. n -> T]
    BY <2>2
  <2> HIDE DEF E, T
  <2>5. E \in Seq(T)
    BY <1>0, <2>4, SeqDef
  <2>6. Len(E) = n
    BY <1>0, <2>4, <2>5, LenProperties
  <2> QED
    BY <2>3, <2>5, <2>6 DEF T
<1> HIDE DEF E
<1>2. PICK J : Sums(J, E) /\ \A i \in 0 .. n : J[i] \in Seq(Seq(S))
  BY <1>1, SumsExist
<1>3. J = [i \in 0 .. n |-> J[i]] /\ J[0] = << >> /\ \A i \in 1 .. n : J[i] = J[i - 1] \o Kept(aad[i])
  BY <1>1, <1>2 DEF Sums
<1>4. Chunks(J, aad)
  <2>1. ASSUME NEW i \in 0 .. n
        PROVE  J[i] = IF i = 0 THEN << >> ELSE J[i - 1] \o Kept(aad[i])
    <3>1. i = 0 \/ i \in 1 .. n
      BY <1>0
    <3> QED
      BY <1>3, <3>1
  <2> QED
    BY <1>3, <2>1 DEF Chunks
<1>5. Chunks(C, aad)
  BY <1>4
<1> HIDE DEF C
<1>6. Sums(C, E)
  <2>1. C = [i \in 0 .. n |-> IF i = 0 THEN << >> ELSE C[i - 1] \o Kept(aad[i])]
    BY <1>5 DEF Chunks
  <2>2. C = [i \in 0 .. n |-> C[i]]
    BY <2>1
  <2>3. \A i \in 0 .. n : C[i] = IF i = 0 THEN << >> ELSE C[i - 1] \o Kept(aad[i])
    BY <2>1
  <2>4. C[0] = << >>
    BY <1>0, <2>3
  <2>5. ASSUME NEW i \in 1 .. n PROVE C[i] = C[i - 1] \o E[i]
    <3>1. i \in 0 .. n /\ i # 0
      BY <1>0
    <3> QED
      BY <1>1, <2>3, <3>1
  <2> QED
    BY <1>1, <2>2, <2>4, <2>5 DEF Sums
<1>7. C[n] = J[n]
  <2>1. FlattenSeq(E) = C[Len(E)]
    BY <1>1, <1>6, FlatIs
  <2>2. FlattenSeq(E) = J[Len(E)]
    BY <1>1, <1>2, FlatIs
  <2> QED
    BY <1>1, <2>1, <2>2
<1>8. PICK H : Sums(H, aad) /\ \A i \in 0 .. n : H[i] \in Seq(S)
  BY SumsExist
<1>9. H[0] = << >> /\ \A i \in 1 .. n : H[i] = H[i - 1] \o aad[i]
  BY <1>8 DEF Sums
<1> DEFINE N == {i \in Nat : i <= n => FlattenSeq(J[i]) = H[i]}
<1>10. 0 \in N
  BY <1>3, <1>9, FlatEmpty
<1>11. ASSUME NEW i \in Nat, i \in N PROVE i + 1 \in N
  <2>1. ASSUME i + 1 <= n PROVE FlattenSeq(J[i + 1]) = H[i + 1]
    <3> DEFINE k == i + 1
               a == aad[k]
               j == J[i]
               h == H[i]
    <3>1. k \in 1 .. n /\ k - 1 = i /\ i \in 0 .. n /\ i <= n
      BY <1>0, <2>1
    <3>2. J[k] = j \o Kept(a) /\ H[k] = h \o a /\ FlattenSeq(j) = h
      BY <1>3, <1>9, <1>11, <3>1
    <3>3. a \in Seq(S) /\ j \in Seq(Seq(S)) /\ h \in Seq(S)
      BY <1>0, <1>2, <1>8, <3>1
    <3> HIDE DEF k, a, j, h
    <3>4. CASE a = << >>
      <4>1. Kept(a) = << >>
        BY <3>4 DEF Kept
      <4>2. j \o << >> = j /\ h \o << >> = h
        BY <3>3, ConcatEmptySeq
      <4> QED
        BY <3>2, <3>4, <4>1, <4>2 DEF k
    <3>5. CASE a # << >>
      <4>1. Kept(a) = <<a>>
        BY <3>5 DEF Kept
      <4>2. FlattenSeq(j \o <<a>>) = FlattenSeq(j) \o a
        BY <3>3, FlatLast
      <4> QED
        BY <3>2, <4>1, <4>2 DEF k
    <3> QED
      BY <3>4, <3>5
  <2> QED
    BY <2>1
<1>12. n \in N
  <2> HIDE DEF N
  <2> QED
    BY <1>0, <1>10, <1>11, SetInduction
<1>13. FlattenSeq(J[n]) = H[n] /\ FlattenSeq(aad) = H[n]
  BY <1>0, <1>8, <1>12, FlatIs
<1> QED
  BY <1>7, <1>13 DEF C

\* The operators of Ccm in LibcruxAead.
LEMMA LibcruxOps ==
  /\ \A s : Libcrux!FlattenSeq(s) = FlattenSeq(s)
  /\ \A k, n, p, s : Libcrux!Crypt(k, n, p, s) = Crypt(k, n, p, s)
  /\ \A k, n, a, l, c : Libcrux!GcmMac(k, n, a, l, c) = GcmMac(k, n, a, l, c)
  /\ \A k, m : Libcrux!Tag(k, m) = Tag(k, m)
  /\ \A a : Libcrux!nonce_length(a) = nonce_length(a)
  /\ \A a : Libcrux!tag_length(a) = tag_length(a)
<1>0. \A s : Libcrux!FlattenSeq(s) = FlattenSeq(s)
  BY Zenon DEF Libcrux!FlattenSeq, FlattenSeq
<1>1. \A k, n, p, s : Libcrux!Crypt(k, n, p, s) = Crypt(k, n, p, s)
  BY Zenon DEF Libcrux!Crypt, Crypt, Libcrux!Xor, Xor
<1>2. \A n, len : Libcrux!BigEndian(n, len) = BigEndian(n, len)
  BY Zenon DEF Libcrux!BigEndian, BigEndian, Libcrux!Byte, Byte
<1>3. \A s : Libcrux!ZeroPadded(s) = ZeroPadded(s)
  BY Zenon DEF Libcrux!ZeroPadded, ZeroPadded, Libcrux!Zeros, Zeros, Libcrux!Padded,
               Padded, Libcrux!Byte, Byte
<1>4. \A k, n, a, l, c : Libcrux!GcmMac(k, n, a, l, c) = GcmMac(k, n, a, l, c)
  BY <1>2, <1>3, Zenon DEF Libcrux!GcmMac, GcmMac
<1>5. Libcrux!GcmAlgorithms = GcmAlgorithms
  BY DEF Libcrux!GcmAlgorithms, GcmAlgorithms
<1>6. \A a : Libcrux!nonce_length(a) = nonce_length(a)
  BY <1>5, Zenon DEF Libcrux!nonce_length, nonce_length
<1>7. \A a : Libcrux!tag_length(a) = tag_length(a)
  BY <1>5, Zenon DEF Libcrux!tag_length, tag_length
<1>8. \A k, m : Libcrux!Tag(k, m) = Tag(k, m)
  BY <1>7, Zenon DEF Libcrux!Tag, Tag
<1> QED
  BY <1>0, <1>1, <1>4, <1>6, <1>7, <1>8

\* The adapter hands over the bytes of all items and announces their number.
LEMMA FlattenIs ==
  ASSUME NEW S, NEW aad \in Seq(Seq(S))
  PROVE  /\ Libcrux!flatten(aad).len = Len(FlattenSeq(aad))
         /\ Libcrux!flatten(aad).inner = FlattenSeq(aad)
<1> DEFINE L == CHOOSE G : Counts(G, aad)
           C == CHOOSE G : Chunks(G, aad)
<1>1. Libcrux!flatten(aad) = [len |-> L[Len(aad)], inner |-> Libcrux!FlattenSeq(C[Len(aad)])]
  BY DEF Libcrux!flatten, Counts, Chunks, Kept
<1>2. L[Len(aad)] = Len(FlattenSeq(aad))
  BY CountsIs
<1>3. FlattenSeq(C[Len(aad)]) = FlattenSeq(aad)
  BY ChunksIs
<1> HIDE DEF L, C
<1> QED
  BY <1>1, <1>2, <1>3, LibcruxOps

\* A call of AES-GCM with a nonce and a tag of the right length.
GcmCall == call \in Calls /\ RightLengths(call) /\ call.key.alg \in GcmAlgorithms

\* The library returns what the specification says.
LEMMA LibraryLibcrux ==
  ASSUME GcmCall, busy = TRUE, message = call.message, Libcrux!LibraryCall
  PROVE  pc' = "idle" /\ Returned
<1> DEFINE tag == Tag(call.key, GcmMac(call.key, call.nonce, Aad, Len(Aad), Crypted))
           out == Libcrux!Crypt(call.key, call.nonce, 0, message)
           aad == Libcrux!flatten(call.aad)
           crypted == IF call.op = "encrypt" THEN out ELSE message
           lctag == Libcrux!Tag(call.key,
                      Libcrux!GcmMac(call.key, call.nonce, aad.inner, aad.len, crypted))
<1>1. ~Libcrux!LengthMismatch
  BY LibcruxOps DEF Libcrux!LengthMismatch, GcmCall, RightLengths
<1>2. aad.inner = Aad /\ aad.len = Len(Aad)
  <2>1. call.aad \in Seq(Seq(Octets))
    BY CallBytes DEF GcmCall
  <2> QED
    BY <2>1, FlattenIs DEF Aad
<1>3. out = Out /\ crypted = Crypted /\ lctag = tag
  <2>1. out = Out
    BY LibcruxOps DEF Out
  <2>2. crypted = Crypted
    BY <2>1 DEF Crypted
  <2> QED
    BY <1>2, <2>1, <2>2, LibcruxOps
<1>4. /\ busy' = FALSE /\ call' = call /\ pc' = "idle"
      /\ IF call.op = "encrypt"
           THEN message' = out /\ result' = [status |-> "Ok", tag |-> lctag]
           ELSE IF call.tag = lctag
             THEN message' = out /\ result' = [status |-> "Ok", tag |-> {}]
             ELSE result' = [status |-> "DecryptionFailed", tag |-> {}]
  BY <1>1 DEF Libcrux!LibraryCall
<1>5. call.op \in {"encrypt", "decrypt"}
  BY CallAssumption DEF GcmCall, IsCall
<1> HIDE DEF out, lctag, crypted, tag, aad
<1>6. Tag(call.key, Mac(call.key, call.nonce, Aad, Plain, Crypted)) = tag
  BY DEF GcmCall, Mac, tag
<1>7. Returned
  BY <1>3, <1>4, <1>5, <1>6 DEF Returned
<1> QED
  BY <1>4, <1>7

-----------------------------------------------------------------------------
(* The nRF54L15: what the engine delivers *)

\* The operators of Ccm in NrfCcm.
LEMMA NrfOps ==
  /\ \A n : Nrf!Byte(n) = Byte(n)
  /\ \A n : Nrf!Padded(n) = Padded(n)
  /\ \A s : Nrf!ZeroPadded(s) = ZeroPadded(s)
  /\ \A k, n, p, s : Nrf!Crypt(k, n, p, s) = Crypt(k, n, p, s)
  /\ \A n, len : Nrf!BigEndian(n, len) = BigEndian(n, len)
  /\ \A n, m, a, t : Nrf!build_b0(n, m, a, t) = build_b0(n, m, a, t)
  /\ \A b : Nrf!NonceOf(b) = NonceOf(b)
  /\ \A n : Nrf!B0Panics(n) <=> B0Panics(n)
  /\ \A s : Nrf!FlattenSeq(s) = FlattenSeq(s)
<1>0. \A n : Nrf!Byte(n) = Byte(n)
  BY Zenon DEF Nrf!Byte, Byte
<1>1. \A n : Nrf!Padded(n) = Padded(n)
  BY Zenon DEF Nrf!Padded, Padded
<1>2. \A s : Nrf!ZeroPadded(s) = ZeroPadded(s)
  BY <1>0, <1>1, Zenon DEF Nrf!ZeroPadded, ZeroPadded, Nrf!Zeros, Zeros
<1>3. \A k, n, p, s : Nrf!Crypt(k, n, p, s) = Crypt(k, n, p, s)
  BY Zenon DEF Nrf!Crypt, Crypt, Nrf!Xor, Xor
<1>4. \A n, len : Nrf!BigEndian(n, len) = BigEndian(n, len)
  BY <1>0, Zenon DEF Nrf!BigEndian, BigEndian
<1>5. \A n, m, a, t : Nrf!build_b0(n, m, a, t) = build_b0(n, m, a, t)
  BY <1>0, <1>4, Zenon DEF Nrf!build_b0, build_b0
<1>6. \A b : Nrf!NonceOf(b) = NonceOf(b)
  BY Zenon DEF Nrf!NonceOf, NonceOf
<1>7. \A s : Nrf!FlattenSeq(s) = FlattenSeq(s)
  BY Zenon DEF Nrf!FlattenSeq, FlattenSeq
<1>8. \A n : Nrf!B0Panics(n) <=> B0Panics(n)
  BY Zenon DEF Nrf!B0Panics, B0Panics
<1> QED
  BY <1>0, <1>1, <1>2, <1>3, <1>4, <1>5, <1>6, <1>7, <1>8

\* What one descriptor has for an input.
One(input, d) == IF d.to = input THEN <<d>> ELSE << >>

\* The descriptors for an input, one after the other.
LEMMA ForAppend ==
  ASSUME NEW D, NEW chain \in Seq(D), NEW d \in D, NEW input
  PROVE  Nrf!For(input, chain \o <<d>>) = Nrf!For(input, chain) \o One(input, d)
<1> DEFINE n == Len(chain)
           all == chain \o <<d>>
           E == [k \in 1 .. n |-> One(input, chain[k])]
           F == [k \in 1 .. Len(all) |-> One(input, all[k])]
           x == One(input, d)
<1>0. n \in Nat /\ \A k \in 1 .. n : chain[k] \in D
  BY LenProperties, ElementOfSeq
<1>1. <<d>> \in Seq(D) /\ Len(<<d>>) = 1 /\ <<d>>[1] = d
  OBVIOUS
<1>2. /\ Len(all) = n + 1
      /\ \A k \in 1 .. n + 1 : all[k] = IF k <= n THEN chain[k] ELSE d
  <2>1. /\ Len(all) = n + 1
        /\ \A k \in 1 .. n + 1 : all[k] = IF k <= n THEN chain[k] ELSE <<d>>[k - n]
    BY <1>1, ConcatProperties
  <2>2. \A k \in 1 .. n + 1 : ~(k <= n) => k - n = 1
    BY <1>0
  <2> QED
    BY <1>1, <2>1, <2>2
<1>3. Nrf!For(input, chain) = FlattenSeq(E) /\ Nrf!For(input, all) = FlattenSeq(F)
  BY NrfOps DEF Nrf!For, One
<1>4. x \in Seq(D) /\ \A k \in 1 .. n : One(input, chain[k]) \in Seq(D)
  <2>1. ASSUME NEW y \in D PROVE One(input, y) \in Seq(D)
    BY EmptySeq DEF One
  <2> QED
    BY <1>0, <2>1
<1> HIDE DEF all, x, n
<1>5. E \in Seq(Seq(D)) /\ Len(E) = n /\ \A k \in 1 .. n : E[k] = One(input, chain[k])
  <2>1. E \in [1 .. n -> Seq(D)] /\ \A k \in 1 .. n : E[k] = One(input, chain[k])
    BY <1>4
  <2> DEFINE T == Seq(D)
  <2>2. E \in [1 .. n -> T]
    BY <2>1
  <2> HIDE DEF E, T
  <2>3. E \in Seq(T)
    BY <1>0, <2>2, SeqDef
  <2>4. Len(E) = n
    BY <1>0, <2>2, <2>3, LenProperties
  <2> QED
    BY <2>1, <2>3, <2>4 DEF T
<1> HIDE DEF E
<1>6. F = E \o <<x>>
  <2>1. <<x>> \in Seq(Seq(D)) /\ Len(<<x>>) = 1 /\ <<x>>[1] = x
    BY <1>4
  <2>2. /\ E \o <<x>> \in Seq(Seq(D)) /\ Len(E \o <<x>>) = n + 1
        /\ \A k \in 1 .. n + 1 : (E \o <<x>>)[k] = IF k <= n THEN E[k] ELSE <<x>>[k - n]
    BY <1>5, <2>1, ConcatProperties
  <2> DEFINE G == E \o <<x>>
  <2>3. G = [k \in 1 .. n + 1 |-> G[k]]
    <3>1. G \in Seq(Seq(D)) /\ Len(G) = n + 1
      BY <2>2
    <3> HIDE DEF G
    <3>2. G \in [1 .. n + 1 -> Seq(D)]
      BY <3>1, LenProperties
    <3> QED
      BY <3>2
  <2>4. ASSUME NEW k \in 1 .. n + 1 PROVE G[k] = One(input, all[k])
    <3>1. CASE k <= n
      <4>1. k \in 1 .. n
        BY <1>0, <3>1
      <4>2. G[k] = E[k] /\ all[k] = chain[k]
        BY <1>2, <2>2, <3>1
      <4> QED
        BY <1>5, <4>1, <4>2
    <3>2. CASE ~(k <= n)
      <4>1. k - n = 1
        BY <1>0, <3>2
      <4>2. G[k] = x /\ all[k] = d
        BY <1>2, <2>1, <2>2, <3>2, <4>1
      <4> QED
        BY <4>2 DEF x
    <3> QED
      BY <3>1, <3>2
  <2> HIDE DEF G
  <2>5. G = [k \in 1 .. n + 1 |-> One(input, all[k])]
    BY <2>3, <2>4
  <2> QED
    BY <1>2, <2>5 DEF G
<1>7. FlattenSeq(E \o <<x>>) = FlattenSeq(E) \o x
  BY <1>4, <1>5, FlatLast
<1> QED
  BY <1>3, <1>6, <1>7 DEF all, x

HeaderText == B0 \o RfcHeader(Aad)

\* The descriptors of the call.
CfgDesc == [to |-> "cfg", data |-> call.op, ign |-> 0]
KeyDesc == [to |-> "key", data |-> call.key, ign |-> 0]
AadDesc == [to |-> "aad", data |-> ZeroPadded(HeaderText),
            ign |-> Padded(Len(HeaderText)) - Len(HeaderText)]
TextDesc == [to |-> "data", data |-> ZeroPadded(call.message),
             ign |-> Padded(Len(call.message)) - Len(call.message)]
TagDesc == [to |-> "data", data |-> {x.mac : x \in call.tag}, ign |-> BLOCK - TAG_LEN]

Descs == {CfgDesc, KeyDesc, AadDesc, TextDesc, TagDesc}
Base == <<CfgDesc, KeyDesc, AadDesc>>
Texts == IF call.message = << >> THEN << >> ELSE <<TextDesc>>
Tags == IF call.op = "encrypt" THEN << >> ELSE <<TagDesc>>
Chain == (Base \o Texts) \o Tags

\* The header the driver builds.
LEMMA HeaderDataIs ==
  ASSUME CcmCall, message = call.message
  PROVE  Nrf!HeaderData = HeaderText
<1>1. Nrf!Aad = Aad
  BY NrfOps DEF Nrf!Aad, Aad
<1>2. Nrf!HeaderData = build_b0(call.nonce, Len(call.message), Len(Aad), TAG_LEN)
        \o (IF Aad = << >> THEN << >> ELSE BigEndian(Len(Aad), 2) \o Aad)
  BY <1>1, NrfOps DEF Nrf!HeaderData
<1> QED
  BY <1>2, CallFacts DEF HeaderText, RfcHeader

\* The chain the driver builds.
LEMMA InputChainIs ==
  ASSUME CcmCall, message = call.message
  PROVE  Nrf!InputChain = Chain
<1>1. Nrf!HeaderData = HeaderText
  BY HeaderDataIs
<1>2. Nrf!Padding(HeaderText) = Padded(Len(HeaderText)) - Len(HeaderText)
      /\ Nrf!Padding(message) = Padded(Len(call.message)) - Len(call.message)
  BY NrfOps DEF Nrf!Padding
<1>3. Nrf!ZeroPadded(HeaderText) = ZeroPadded(HeaderText)
      /\ Nrf!ZeroPadded(message) = ZeroPadded(call.message)
  BY NrfOps
<1>4. Nrf!MacOf(call.tag) = {x.mac : x \in call.tag}
  BY DEF Nrf!MacOf
<1> QED
  BY <1>1, <1>2, <1>3, <1>4, Zenon DEF Nrf!InputChain, Chain, Base, Texts, Tags, CfgDesc,
     KeyDesc, AadDesc, TextDesc, TagDesc

\* Three elements, one after the other.
LEMMA ThreeElements ==
  ASSUME NEW x, NEW y, NEW z
  PROVE  <<x, y, z>> = (<<x>> \o <<y>>) \o <<z>>
<1> DEFINE S == {x, y, z}
           p == <<x>> \o <<y>>
           q == p \o <<z>>
           t == <<x, y, z>>
<1>1. x \in S /\ y \in S /\ z \in S
  OBVIOUS
<1>2. <<x>> \in Seq(S) /\ <<y>> \in Seq(S) /\ <<z>> \in Seq(S)
      /\ Len(<<x>>) = 1 /\ Len(<<y>>) = 1 /\ Len(<<z>>) = 1
      /\ <<x>>[1] = x /\ <<y>>[1] = y /\ <<z>>[1] = z
  OBVIOUS
<1>3. t \in Seq(S) /\ Len(t) = 3 /\ t[1] = x /\ t[2] = y /\ t[3] = z
  OBVIOUS
<1> HIDE DEF S
<1>4. p \in Seq(S) /\ Len(p) = 2 /\ p[1] = x /\ p[2] = y
  <2>1. /\ p \in Seq(S) /\ Len(p) = 1 + 1
        /\ \A i \in 1 .. 1 + 1 : p[i] = IF i <= 1 THEN <<x>>[i] ELSE <<y>>[i - 1]
    BY <1>2, ConcatProperties
  <2>2. p[1] = <<x>>[1] /\ p[2] = <<y>>[2 - 1]
    BY <2>1
  <2> QED
    BY <1>2, <2>1, <2>2
<1> HIDE DEF p
<1>5. q \in Seq(S) /\ Len(q) = 3 /\ q[1] = x /\ q[2] = y /\ q[3] = z
  <2> DEFINE w == <<z>>
  <2>0. w \in Seq(S) /\ Len(w) = 1
    BY <1>2
  <2> HIDE DEF w
  <2>3. /\ p \o w \in Seq(S) /\ Len(p \o w) = Len(p) + Len(w)
        /\ \A i \in 1 .. Len(p) + Len(w) :
             (p \o w)[i] = IF i <= Len(p) THEN p[i] ELSE w[i - Len(p)]
    BY <1>4, <2>0, ConcatProperties
  <2>1. /\ q \in Seq(S) /\ Len(q) = 2 + 1
        /\ \A i \in 1 .. 2 + 1 : q[i] = IF i <= 2 THEN p[i] ELSE <<z>>[i - 2]
    BY <1>4, <2>0, <2>3 DEF w
  <2>2. q[1] = p[1] /\ q[2] = p[2] /\ q[3] = <<z>>[3 - 2]
    BY <2>1
  <2> QED
    BY <1>2, <1>4, <2>1, <2>2
<1> HIDE DEF q, t
<1>6. \A i \in 1 .. Len(t) : t[i] = q[i]
  <2>1. \A i \in 1 .. 3 : i = 1 \/ i = 2 \/ i = 3
    OBVIOUS
  <2> QED
    BY <1>3, <1>5, <2>1
<1>7. t = q
  BY <1>3, <1>5, <1>6, SeqEqual
<1> QED
  BY <1>7 DEF t, q, p

\* The parts of the chain.
LEMMA ChainType ==
  /\ Base \in Seq(Descs) /\ Len(Base) = 3 /\ Base = (<<CfgDesc>> \o <<KeyDesc>>) \o <<AadDesc>>
  /\ Texts \in Seq(Descs) /\ Len(Texts) <= 1
  /\ Tags \in Seq(Descs) /\ Len(Tags) <= 1
  /\ Base \o Texts \in Seq(Descs) /\ Chain \in Seq(Descs) /\ Chain # << >> /\ Len(Chain) <= 5
<1> DEFINE D == Descs
<1>1. CfgDesc \in D /\ KeyDesc \in D /\ AadDesc \in D /\ TextDesc \in D /\ TagDesc \in D
  BY DEF Descs
<1> HIDE DEF D
<1>2. Base \in Seq(D) /\ Len(Base) = 3
  BY <1>1 DEF Base
<1>a. Base = (<<CfgDesc>> \o <<KeyDesc>>) \o <<AadDesc>>
  BY ThreeElements DEF Base
<1>3. Texts \in Seq(D) /\ Len(Texts) \in 0 .. 1
  BY <1>1 DEF Texts
<1>4. Tags \in Seq(D) /\ Len(Tags) \in 0 .. 1
  BY <1>1 DEF Tags
<1>5. Base \o Texts \in Seq(D) /\ Len(Base \o Texts) = 3 + Len(Texts)
  <2>1. Texts \in Seq(D)
    BY <1>3
  <2>2. Base \o Texts \in Seq(D) /\ Len(Base \o Texts) = Len(Base) + Len(Texts)
    BY <1>2, <2>1, ConcatProperties
  <2> QED
    BY <1>2, <2>2
<1>6. Chain \in Seq(D) /\ Len(Chain) = (3 + Len(Texts)) + Len(Tags)
  BY <1>4, <1>5, ConcatProperties DEF Chain
<1>7. Len(Chain) \in 3 .. 5
  <2> DEFINE p == Len(Texts)
             q == Len(Tags)
  <2>1. p \in 0 .. 1 /\ q \in 0 .. 1 /\ Len(Chain) = (3 + p) + q
    BY <1>3, <1>4, <1>6
  <2> HIDE DEF p, q
  <2> QED
    BY <2>1
<1>8. Chain # << >>
  BY <1>7, EmptySeq
<1>9. Len(Texts) <= 1 /\ Len(Tags) <= 1 /\ Len(Chain) <= 5
  <2> DEFINE p == Len(Texts)
             q == Len(Tags)
             r == Len(Chain)
  <2>1. p \in 0 .. 1 /\ q \in 0 .. 1 /\ r \in 3 .. 5
    BY <1>3, <1>4, <1>7
  <2> HIDE DEF p, q, r
  <2>2. p <= 1 /\ q <= 1 /\ r <= 5
    BY <2>1
  <2> QED
    BY <2>2 DEF p, q, r
<1> QED
  BY <1>2, <1>3, <1>4, <1>5, <1>6, <1>8, <1>9, <1>a DEF D

\* What the chain has for each input of the engine.
LEMMA ChainFor ==
  /\ Nrf!For("cfg", Chain) = <<CfgDesc>>
  /\ Nrf!For("key", Chain) = <<KeyDesc>>
  /\ Nrf!For("aad", Chain) = <<AadDesc>>
  /\ Nrf!For("data", Chain) = Texts \o Tags
<1> DEFINE D == Descs
           e == << >>
           c == CfgDesc
           k == KeyDesc
           a == AadDesc
           t == TextDesc
           g == TagDesc
<1>1. c \in D /\ k \in D /\ a \in D /\ t \in D /\ g \in D
  BY DEF Descs
<1>2. c.to = "cfg" /\ k.to = "key" /\ a.to = "aad" /\ t.to = "data" /\ g.to = "data"
  BY DEF CfgDesc, KeyDesc, AadDesc, TextDesc, TagDesc
<1>3. ASSUME NEW i \in {"cfg", "key", "aad", "data"}
      PROVE  Nrf!For(i, Chain)
               = (((One(i, c) \o One(i, k)) \o One(i, a))
                    \o (IF call.message = << >> THEN << >> ELSE One(i, t)))
                    \o (IF call.op = "encrypt" THEN << >> ELSE One(i, g))
  <2> HIDE DEF D, c, k, a, t, g
  <2>0. ASSUME NEW x \in D PROVE One(i, x) \in Seq(D)
    BY EmptySeq DEF One
  <2> DEFINE f1 == One(i, c)
             f2 == f1 \o One(i, k)
             f3 == f2 \o One(i, a)
             f4 == f3 \o (IF call.message = << >> THEN << >> ELSE One(i, t))
             f5 == f4 \o (IF call.op = "encrypt" THEN << >> ELSE One(i, g))
  <2>1. e \in Seq(D) /\ Nrf!For(i, e) = << >> /\ e \o <<c>> = <<c>>
    <3>1. Len(e) = 0
      OBVIOUS
    <3>2. [j \in 1 .. Len(e) |-> One(i, e[j])] = << >>
      BY <3>1
    <3>3. Nrf!For(i, e) = FlattenSeq(<< >>)
      BY <3>2, NrfOps DEF Nrf!For, One
    <3>4. <<c>> \in Seq(D)
      BY <1>1
    <3> QED
      BY <3>3, <3>4, FlatEmpty, ConcatEmptySeq, EmptySeq
  <2>2. Nrf!For(i, <<c>>) = f1 /\ <<c>> \in Seq(D)
    <3>1. Nrf!For(i, e \o <<c>>) = Nrf!For(i, e) \o One(i, c)
      BY <1>1, <2>1, ForAppend
    <3>2. << >> \o One(i, c) = One(i, c)
      BY <1>1, <2>0, ConcatEmptySeq
    <3>3. <<c>> \in Seq(D)
      BY <1>1
    <3> QED
      BY <2>1, <3>1, <3>2, <3>3
  <2>3. Nrf!For(i, <<c>> \o <<k>>) = f2 /\ <<c>> \o <<k>> \in Seq(D)
    <3>1. Nrf!For(i, <<c>> \o <<k>>) = Nrf!For(i, <<c>>) \o One(i, k)
      BY <1>1, <2>2, ForAppend
    <3>2. <<k>> \in Seq(D)
      BY <1>1
    <3> QED
      BY <2>2, <3>1, <3>2, ConcatProperties
  <2> DEFINE ck == <<c>> \o <<k>>
             cka == ck \o <<a>>
  <2>4. ck \in Seq(D) /\ Nrf!For(i, ck) = f2
    BY <2>3
  <2> HIDE DEF ck, f2
  <2>5. Nrf!For(i, cka) = f3
    BY <1>1, <2>4, ForAppend
  <2>6. cka = Base /\ Base \in Seq(D) /\ Base \o Texts \in Seq(D)
    BY ChainType DEF ck, c, k, a, D
  <2>7. f3 \in Seq(D)
    <3>1. f2 \in Seq(D)
      BY <1>1, <2>0, ConcatProperties DEF f2
    <3> QED
      BY <1>1, <2>0, <3>1, ConcatProperties
  <2> HIDE DEF cka, f3
  <2>8. Nrf!For(i, Base \o Texts) = f4
    <3>1. CASE call.message = << >>
      <4>1. Base \o Texts = Base /\ f3 \o << >> = f3
        BY <2>6, <2>7, <3>1, ConcatEmptySeq DEF Texts
      <4> QED
        BY <2>5, <2>6, <3>1, <4>1
    <3>2. CASE call.message # << >>
      <4>1. Texts = <<t>>
        BY <3>2 DEF Texts, t
      <4>2. Nrf!For(i, Base \o <<t>>) = Nrf!For(i, Base) \o One(i, t)
        BY <1>1, <2>6, ForAppend
      <4> QED
        BY <2>5, <2>6, <3>2, <4>1, <4>2
    <3> QED
      BY <3>1, <3>2
  <2>9. f4 \in Seq(D)
    <3>1. (IF call.message = << >> THEN << >> ELSE One(i, t)) \in Seq(D)
      BY <1>1, <2>0, EmptySeq
    <3> QED
      BY <2>7, <3>1, ConcatProperties
  <2> HIDE DEF f4
  <2>10. Nrf!For(i, Chain) = f5
    <3>1. CASE call.op = "encrypt"
      <4>1. Chain = Base \o Texts /\ f4 \o << >> = f4
        <5>1. Tags = << >>
          BY <3>1 DEF Tags
        <5> QED
          BY <2>6, <2>9, <5>1, ConcatEmptySeq DEF Chain
      <4> QED
        BY <2>8, <3>1, <4>1
    <3>2. CASE call.op # "encrypt"
      <4>1. Tags = <<g>>
        BY <3>2 DEF Tags, g
      <4>2. Nrf!For(i, (Base \o Texts) \o <<g>>) = Nrf!For(i, Base \o Texts) \o One(i, g)
        BY <1>1, <2>6, ForAppend
      <4> QED
        BY <2>8, <3>2, <4>1, <4>2 DEF Chain
    <3> QED
      BY <3>1, <3>2
  <2> QED
    BY <2>10 DEF f2, f3, f4
<1>4. /\ << >> \o << >> = << >> /\ <<c>> \o << >> = <<c>> /\ <<k>> \o << >> = <<k>>
      /\ << >> \o <<k>> = <<k>> /\ << >> \o <<a>> = <<a>> /\ <<a>> \o << >> = <<a>>
      /\ << >> \o Texts = Texts
  <2>1. << >> \in Seq(D) /\ <<c>> \in Seq(D) /\ <<k>> \in Seq(D) /\ <<a>> \in Seq(D)
    BY <1>1
  <2>2. Texts \in Seq(D)
    BY ChainType
  <2> HIDE DEF D
  <2> QED
    BY <2>1, <2>2, ConcatEmptySeq
<1> HIDE DEF c, k, a, t, g, D
<1>5. /\ One("cfg", c) = <<c>> /\ One("cfg", k) = << >> /\ One("cfg", a) = << >>
      /\ One("cfg", t) = << >> /\ One("cfg", g) = << >>
  BY <1>2 DEF One
<1>6. /\ One("key", c) = << >> /\ One("key", k) = <<k>> /\ One("key", a) = << >>
      /\ One("key", t) = << >> /\ One("key", g) = << >>
  BY <1>2 DEF One
<1>7. /\ One("aad", c) = << >> /\ One("aad", k) = << >> /\ One("aad", a) = <<a>>
      /\ One("aad", t) = << >> /\ One("aad", g) = << >>
  BY <1>2 DEF One
<1>8. /\ One("data", c) = << >> /\ One("data", k) = << >> /\ One("data", a) = << >>
      /\ One("data", t) = <<t>> /\ One("data", g) = <<g>>
  BY <1>2 DEF One
<1>9. Nrf!For("cfg", Chain) = <<c>>
  <2>1. Nrf!For("cfg", Chain) = (((<<c>> \o << >>) \o << >>) \o << >>) \o << >>
    BY <1>3, <1>5
  <2> QED
    BY <1>4, <2>1
<1>10. Nrf!For("key", Chain) = <<k>>
  <2>1. Nrf!For("key", Chain) = (((<< >> \o <<k>>) \o << >>) \o << >>) \o << >>
    BY <1>3, <1>6
  <2> QED
    BY <1>4, <2>1
<1>11. Nrf!For("aad", Chain) = <<a>>
  <2>1. Nrf!For("aad", Chain) = (((<< >> \o << >>) \o <<a>>) \o << >>) \o << >>
    BY <1>3, <1>7
  <2> QED
    BY <1>4, <2>1
<1>12. Nrf!For("data", Chain) = Texts \o Tags
  <2>1. Nrf!For("data", Chain) = (((<< >> \o << >>) \o << >>) \o Texts) \o Tags
    BY <1>3, <1>8 DEF Texts, Tags, t, g
  <2> QED
    BY <1>4, <2>1
<1> QED
  BY <1>9, <1>10, <1>11, <1>12 DEF c, k, a

\* Without the bytes to be ignored it is what was padded.
LEMMA ValidIs ==
  ASSUME NEW s \in Seq(Octets)
  PROVE  SubSeq(ZeroPadded(s), 1, Len(ZeroPadded(s)) - (Padded(Len(s)) - Len(s))) = s
<1> DEFINE n == Len(s)
           m == Padded(n) - n
           z == Zeros(m)
<1>1. n \in Nat /\ Padded(n) \in Nat /\ n <= Padded(n)
  BY LenProperties, PaddedFacts
<1>2. Len(ZeroPadded(s)) = Padded(n)
  BY OctetFacts, ZeroPaddedFacts
<1>3. Padded(n) - m = n /\ m \in Nat
  BY <1>1
<1>4. z \in Seq(Octets)
  <2>1. z \in [1 .. m -> Octets]
    BY OctetFacts DEF Zeros
  <2> HIDE DEF z
  <2> QED
    BY <1>3, <2>1, SeqDef
<1>5. ZeroPadded(s) = s \o z
  BY DEF ZeroPadded
<1> HIDE DEF z
<1>6. SubSeq(s \o z, 1, n) = s
  BY <1>4, FirstPart
<1> QED
  BY <1>2, <1>3, <1>5, <1>6

\* The header: its blocks begin with B0.
LEMMA HeaderTextFacts ==
  ASSUME CcmCall
  PROVE  /\ HeaderText \in Seq(Octets)
         /\ ZeroPadded(HeaderText) = HeaderBlocks
         /\ Len(HeaderBlocks) = Padded(Len(HeaderText))
         /\ SubSeq(HeaderBlocks, 1, BLOCK) = B0
<1>1. B0 \in Seq(Octets) /\ Len(B0) = BLOCK /\ RfcHeader(Aad) \in Seq(Octets)
  BY CallFacts
<1>2. HeaderText \in Seq(Octets)
  BY <1>1, ConcatProperties DEF HeaderText
<1>3. Whole(Len(B0))
  BY <1>1, WholeFacts
<1>4. ZeroPadded(HeaderText) = HeaderBlocks
  BY <1>1, <1>3, OctetFacts, ZeroPaddedAfter DEF HeaderText, HeaderBlocks
<1>5. Len(ZeroPadded(HeaderText)) = Padded(Len(HeaderText))
  BY <1>2, OctetFacts, ZeroPaddedFacts
<1>6. SubSeq(HeaderBlocks, 1, BLOCK) = B0
  <2>1. ZeroPadded(RfcHeader(Aad)) \in Seq(Octets)
    BY <1>1, OctetFacts, ZeroPaddedFacts
  <2>2. SubSeq(B0 \o ZeroPadded(RfcHeader(Aad)), 1, Len(B0)) = B0
    BY <1>1, <2>1, FirstPart
  <2> QED
    BY <1>1, <2>2 DEF HeaderBlocks
<1> QED
  BY <1>2, <1>4, <1>5, <1>6

\* What the engine delivers for the call: the tag block is the MAC, or when
\* decrypting nothing but zeros exactly if the tag was right.
NrfMac == RfcMac(call.key, call.nonce, Aad, Plain)
TagLeft ==
  IF call.op = "encrypt" THEN {NrfMac} ELSE {m \in {NrfMac} : {x.mac : x \in call.tag} # {m}}
HeaderOut == [i \in 1 .. Padded(Len(HeaderText)) |-> Nrf!HeaderByte]
TextOut == [i \in 1 .. Padded(Len(call.message)) |-> Nrf!DataByte(ZeroPadded(Out)[i])]
TagOut == [i \in 1 .. BLOCK |-> [kind |-> "tag", byte |-> Byte(0), mac |-> TagLeft]]

\* The text that the data descriptors carry.
LEMMA TextIs ==
  ASSUME CcmCall
  PROVE  Nrf!FlattenSeq([k \in 1 .. Len(Texts) |-> Nrf!Valid(Texts[k])]) = call.message
<1>1. call.message \in Seq(Octets)
  BY CallFacts
<1>2. CASE call.message = << >>
  <2>1. Texts = << >> /\ Len(Texts) = 0
    BY <1>2 DEF Texts
  <2>2. [k \in 1 .. Len(Texts) |-> Nrf!Valid(Texts[k])] = << >>
    BY <2>1
  <2> QED
    BY <1>2, <2>2, NrfOps, FlatEmpty
<1>3. CASE call.message # << >>
  <2> DEFINE m == call.message
             t == TextDesc
             v == Nrf!Valid(t)
  <2>1. Texts = <<t>> /\ Len(Texts) = 1 /\ Texts[1] = t
    BY <1>3 DEF Texts
  <2>2. v = m
    <3>1. t.data = ZeroPadded(m) /\ t.ign = Padded(Len(m)) - Len(m)
      BY DEF TextDesc
    <3>2. v = SubSeq(t.data, 1, Len(t.data) - t.ign)
      BY DEF Nrf!Valid
    <3> HIDE DEF t, m, v
    <3>3. m \in Seq(Octets)
      BY <1>1 DEF m
    <3> QED
      BY <3>1, <3>2, <3>3, ValidIs
  <2> HIDE DEF v
  <2>3. [k \in 1 .. Len(Texts) |-> Nrf!Valid(Texts[k])] = <<v>>
    <3>1. [k \in 1 .. 1 |-> v] = <<v>>
      OBVIOUS
    <3>2. \A k \in 1 .. 1 : Nrf!Valid(Texts[k]) = v
      BY <2>1 DEF v
    <3> QED
      BY <2>1, <3>1, <3>2
  <2>4. FlattenSeq(<<v>>) = v
    <3>1. v \in Seq(Octets) /\ << >> \in Seq(Seq(Octets)) /\ <<v>> \in Seq(Seq(Octets))
      BY <1>1, <2>2, EmptySeq
    <3>2. <<v>> \o << >> = <<v>> /\ v \o << >> = v
      BY <3>1, ConcatEmptySeq
    <3>3. FlattenSeq(<<v>> \o << >>) = v \o FlattenSeq(<< >>)
      BY <3>1, FlatHead
    <3> QED
      BY <3>2, <3>3, FlatEmpty
  <2> QED
    BY <2>2, <2>3, <2>4, NrfOps
<1> QED
  BY <1>2, <1>3

\* When decrypting the last data descriptor is the tag and the others are text.
LEMMA DataIs ==
  /\ call.op # "encrypt" =>
       /\ Nrf!Front(Texts \o Tags) = Texts
       /\ Nrf!Last(Texts \o Tags).data = {x.mac : x \in call.tag}
  /\ call.op = "encrypt" => Texts \o Tags = Texts
<1> DEFINE D == Descs
           t == Texts
           g == TagDesc
           s == t \o <<g>>
           n == Len(t)
<1>1. t \in Seq(D) /\ g \in D
  BY ChainType DEF Descs
<1>2. g.data = {x.mac : x \in call.tag}
  BY DEF TagDesc
<1>3. ASSUME call.op # "encrypt" PROVE Tags = <<g>>
  BY <1>3 DEF Tags
<1>4. ASSUME call.op = "encrypt" PROVE t \o Tags = t
  <2>1. Tags = << >>
    BY <1>4 DEF Tags
  <2> QED
    BY <1>1, <2>1, ConcatEmptySeq
<1> HIDE DEF D, t, g
<1>5. n \in Nat /\ <<g>> \in Seq(D) /\ Len(<<g>>) = 1 /\ <<g>>[1] = g
  BY <1>1, LenProperties
<1>6. Len(s) = n + 1 /\ s[n + 1] = g
  <2>1. Len(s) = n + 1
        /\ \A i \in 1 .. n + 1 : s[i] = IF i <= n THEN t[i] ELSE <<g>>[i - n]
    BY <1>1, <1>5, ConcatProperties
  <2>2. n + 1 \in 1 .. n + 1 /\ ~(n + 1 <= n) /\ (n + 1) - n = 1
    BY <1>5
  <2>3. s[n + 1] = <<g>>[(n + 1) - n]
    BY <2>1, <2>2
  <2> QED
    BY <1>5, <2>1, <2>2, <2>3
<1>7. SubSeq(s, 1, n) = t
  BY <1>1, <1>5, FirstPart
<1> HIDE DEF s
<1>8. Nrf!Front(s) = t /\ Nrf!Last(s) = g
  <2>1. Len(s) - 1 = n
    BY <1>5, <1>6
  <2> QED
    BY <1>6, <1>7, <2>1 DEF Nrf!Front, Nrf!Last
<1> QED
  BY <1>2, <1>3, <1>4, <1>8 DEF s, t

\* The engine's output for the chain of the call.
LEMMA EngineIs ==
  ASSUME CcmCall
  PROVE  Nrf!Engine(Chain) = (HeaderOut \o TextOut) \o TagOut
<1> DEFINE To(i) == Nrf!For(i, Chain)
           op == To("cfg")[1].data
           key == To("key")[1].data
           header == To("aad")[1]
           texts == IF op = "encrypt" THEN To("data") ELSE Nrf!Front(To("data"))
           text == Nrf!FlattenSeq([k \in 1 .. Len(texts) |-> Nrf!Valid(texts[k])])
           nonce == Nrf!NonceOf(SubSeq(header.data, 1, BLOCK))
           out == Nrf!Crypt(key, nonce, 0, text)
           mac == [key |-> key, nonce |-> nonce,
                   input |-> Nrf!ZeroPadded(Nrf!Valid(header))
                               \o Nrf!ZeroPadded(IF op = "encrypt" THEN text ELSE out)]
           tag == IF op = "encrypt" THEN {mac}
                  ELSE {m \in {mac} : Nrf!Last(To("data")).data # {m}}
           tagged == [kind |-> "tag", byte |-> Nrf!Byte(0), mac |-> tag]
<1>1. Nrf!Engine(Chain) =
        ([i \in 1 .. Len(header.data) |-> Nrf!HeaderByte]
           \o [i \in 1 .. Nrf!Padded(Len(text)) |-> Nrf!DataByte(Nrf!ZeroPadded(out)[i])])
          \o [i \in 1 .. BLOCK |-> tagged]
  BY DEF Nrf!Engine
<1>2. op = call.op /\ key = call.key /\ header = AadDesc
  BY ChainFor DEF CfgDesc, KeyDesc
<1>3. texts = Texts
  BY <1>2, ChainFor, DataIs
<1>4. text = call.message
  BY <1>3, TextIs
<1>5. header.data = HeaderBlocks /\ header.ign = Padded(Len(HeaderText)) - Len(HeaderText)
      /\ Len(header.data) = Padded(Len(HeaderText))
  BY <1>2, HeaderTextFacts DEF AadDesc
<1>6. nonce = call.nonce
  BY <1>5, HeaderTextFacts, CallFacts, NrfOps
<1>7. out = Out
  BY <1>2, <1>4, <1>6, NrfOps DEF Out
<1>8. Nrf!Valid(header) = HeaderText
  <2> DEFINE h == HeaderText
  <2>1. h \in Seq(Octets) /\ header.data = ZeroPadded(h)
    BY <1>5, HeaderTextFacts
  <2>2. Nrf!Valid(header) = SubSeq(header.data, 1, Len(header.data) - header.ign)
    BY DEF Nrf!Valid
  <2> HIDE DEF h, header
  <2> QED
    BY <1>5, <2>1, <2>2, ValidIs DEF h
<1> HIDE DEF text, texts, out, nonce
<1>9. mac = NrfMac
  <2>1. (IF op = "encrypt" THEN text ELSE out) = Plain
    BY <1>2, <1>4, <1>7 DEF Plain
  <2>2. mac = [key |-> call.key, nonce |-> call.nonce, input |-> HeaderBlocks \o ZeroPadded(Plain)]
    BY <1>2, <1>6, <1>8, <2>1, HeaderTextFacts, NrfOps
  <2>3. Len(Plain) = Len(call.message)
    BY CallFacts
  <2>4. NrfMac = [key |-> call.key, nonce |-> call.nonce,
                  input |-> (B0 \o ZeroPadded(RfcHeader(Aad))) \o ZeroPadded(Plain)]
    BY <2>3 DEF NrfMac, RfcMac, B0
  <2> QED
    BY <2>2, <2>4 DEF HeaderBlocks
<1> HIDE DEF mac
<1>10. tag = TagLeft
  <2>1. CASE call.op = "encrypt"
    BY <1>2, <1>9, <2>1 DEF TagLeft
  <2>2. CASE call.op # "encrypt"
    <3>1. Nrf!Last(To("data")).data = {x.mac : x \in call.tag}
      BY <2>2, ChainFor, DataIs
    <3> QED
      BY <1>2, <1>9, <2>2, <3>1 DEF TagLeft
  <2> QED
    BY <2>1, <2>2
<1> HIDE DEF tag
<1>11. [i \in 1 .. Len(header.data) |-> Nrf!HeaderByte] = HeaderOut
  BY <1>5 DEF HeaderOut
<1>12. [i \in 1 .. Nrf!Padded(Len(text)) |-> Nrf!DataByte(Nrf!ZeroPadded(out)[i])] = TextOut
  BY <1>4, <1>7, NrfOps DEF TextOut
<1>13. [i \in 1 .. BLOCK |-> tagged] = TagOut
  BY <1>10, NrfOps DEF TagOut
<1> HIDE DEF header, tagged
<1> QED
  BY <1>1, <1>11, <1>12, <1>13

-----------------------------------------------------------------------------
(* The nRF54L15: what the DMA has written *)

\* Two elements, one after the other.
LEMMA TwoElements ==
  ASSUME NEW x, NEW y
  PROVE  <<x, y>> = <<x>> \o <<y>>
<1> DEFINE S == {x, y}
           p == <<x>> \o <<y>>
           t == <<x, y>>
<1>1. x \in S /\ y \in S
  OBVIOUS
<1>2. <<x>> \in Seq(S) /\ <<y>> \in Seq(S)
      /\ Len(<<x>>) = 1 /\ Len(<<y>>) = 1 /\ <<x>>[1] = x /\ <<y>>[1] = y
  OBVIOUS
<1>3. t \in Seq(S) /\ Len(t) = 2 /\ t[1] = x /\ t[2] = y
  OBVIOUS
<1> HIDE DEF S
<1>4. p \in Seq(S) /\ Len(p) = 2 /\ p[1] = x /\ p[2] = y
  <2>1. /\ p \in Seq(S) /\ Len(p) = 1 + 1
        /\ \A i \in 1 .. 1 + 1 : p[i] = IF i <= 1 THEN <<x>>[i] ELSE <<y>>[i - 1]
    BY <1>2, ConcatProperties
  <2>2. p[1] = <<x>>[1] /\ p[2] = <<y>>[2 - 1]
    BY <2>1
  <2> QED
    BY <1>2, <2>1, <2>2
<1> HIDE DEF p, t
<1>5. \A i \in 1 .. Len(t) : t[i] = p[i]
  <2>1. \A i \in 1 .. 2 : i = 1 \/ i = 2
    OBVIOUS
  <2> QED
    BY <1>3, <1>4, <2>1
<1>6. t = p
  BY <1>3, <1>4, <1>5, SeqEqual
<1> QED
  BY <1>6 DEF t, p

\* One item is itself.
LEMMA FlatOne ==
  ASSUME NEW S, NEW v \in Seq(S)
  PROVE  FlattenSeq(<<v>>) = v
<1>1. << >> \in Seq(Seq(S)) /\ <<v>> \in Seq(Seq(S))
  BY EmptySeq
<1>2. <<v>> \o << >> = <<v>> /\ v \o << >> = v
  BY <1>1, ConcatEmptySeq
<1>3. FlattenSeq(<<v>> \o << >>) = v \o FlattenSeq(<< >>)
  BY <1>1, FlatHead
<1> QED
  BY <1>2, <1>3, FlatEmpty

\* The output buffers and their sizes.
OutBytes == Range(HeaderOut) \cup Range(TextOut) \cup Range(TagOut)
Parts ==
  IF call.message = << >> THEN <<HeaderOut, TagOut>> ELSE <<HeaderOut, TextOut, TagOut>>
Sizes(parts) == [i \in 1 .. Len(parts) |-> Len(parts[i])]

\* The buffers are sequences of what the engine delivers.
LEMMA BufferTypes ==
  ASSUME CcmCall
  PROVE  /\ HeaderOut \in Seq(OutBytes) /\ Len(HeaderOut) = Padded(Len(HeaderText))
         /\ TextOut \in Seq(OutBytes) /\ Len(TextOut) = Padded(Len(call.message))
         /\ TagOut \in Seq(OutBytes) /\ Len(TagOut) = BLOCK
<1>1. Padded(Len(HeaderText)) \in Nat /\ Padded(Len(call.message)) \in Nat /\ BLOCK \in Nat
  <2>1. Len(HeaderText) \in Nat /\ Len(call.message) \in Nat
    BY HeaderTextFacts, CallFacts, LenProperties
  <2> QED
    BY <2>1, PaddedFacts, CcmAssumption
<1>2. ASSUME NEW n \in Nat, NEW f, DOMAIN f = 1 .. n, f = [i \in DOMAIN f |-> f[i]],
             NEW S, Range(f) \subseteq S
      PROVE  f \in Seq(S) /\ Len(f) = n
  <2>1. \A i \in 1 .. n : f[i] \in S
    BY <1>2 DEF Range
  <2>2. f \in [1 .. n -> S]
    BY <1>2, <2>1
  <2>3. f \in Seq(S)
    BY <2>2, SeqDef
  <2> QED
    BY <2>2, <2>3, LenProperties
<1>3. /\ DOMAIN HeaderOut = 1 .. Padded(Len(HeaderText))
      /\ HeaderOut = [i \in DOMAIN HeaderOut |-> HeaderOut[i]]
  BY DEF HeaderOut
<1>4. /\ DOMAIN TextOut = 1 .. Padded(Len(call.message))
      /\ TextOut = [i \in DOMAIN TextOut |-> TextOut[i]]
  BY DEF TextOut
<1>5. DOMAIN TagOut = 1 .. BLOCK /\ TagOut = [i \in DOMAIN TagOut |-> TagOut[i]]
  BY DEF TagOut
<1>6. Range(HeaderOut) \subseteq OutBytes /\ Range(TextOut) \subseteq OutBytes
      /\ Range(TagOut) \subseteq OutBytes
  BY DEF OutBytes
<1>7. HeaderOut \in Seq(OutBytes) /\ Len(HeaderOut) = Padded(Len(HeaderText))
  BY <1>1, <1>2, <1>3, <1>6
<1>8. TextOut \in Seq(OutBytes) /\ Len(TextOut) = Padded(Len(call.message))
  BY <1>1, <1>2, <1>4, <1>6
<1>9. TagOut \in Seq(OutBytes) /\ Len(TagOut) = BLOCK
  BY <1>1, <1>2, <1>5, <1>6
<1> QED
  BY <1>7, <1>8, <1>9

\* The buffers take exactly what the engine delivers.
LEMMA PartsFacts ==
  ASSUME CcmCall
  PROVE  /\ Parts \in Seq(Seq(OutBytes)) /\ Parts # << >> /\ Len(Parts) \in 2 .. 3
         /\ FlattenSeq(Parts) = (HeaderOut \o TextOut) \o TagOut
<1> DEFINE S == OutBytes
           h == HeaderOut
           t == TextOut
           g == TagOut
<1>1. h \in Seq(S) /\ t \in Seq(S) /\ g \in Seq(S)
  BY BufferTypes
<1>2. call.message = << >> => t = << >>
  <2>1. ASSUME call.message = << >> PROVE t = << >>
    <3>1. Len(call.message) = 0
      BY <2>1
    <3>2. Padded(0) = 0
      BY WholeFacts, PaddedCases
    <3>3. Len(t) = 0
      BY <3>1, <3>2, BufferTypes
    <3> QED
      BY <1>1, <3>3, EmptySeq
  <2> QED
    BY <2>1
<1>3. Parts = IF call.message = << >> THEN <<h, g>> ELSE <<h, t, g>>
  BY DEF Parts
<1> HIDE DEF S, h, t, g
<1>4. /\ <<h>> \in Seq(Seq(S)) /\ <<t>> \in Seq(Seq(S)) /\ <<g>> \in Seq(Seq(S))
      /\ Len(<<h>>) = 1 /\ Len(<<t>>) = 1 /\ Len(<<g>>) = 1
  BY <1>1
<1>5. CASE call.message = << >>
  <2>1. Parts = <<h>> \o <<g>> /\ Len(Parts) = 2
    BY <1>3, <1>5, TwoElements
  <2>2. Parts \in Seq(Seq(S))
    BY <1>4, <2>1, ConcatProperties
  <2>3. FlattenSeq(<<h>> \o <<g>>) = FlattenSeq(<<h>>) \o g
    BY <1>1, <1>4, FlatLast
  <2>4. FlattenSeq(<<h>>) = h
    BY <1>1, FlatOne
  <2>5. h \o t = h
    BY <1>1, <1>2, <1>5, ConcatEmptySeq
  <2>6. FlattenSeq(Parts) = (h \o t) \o g
    BY <2>1, <2>3, <2>4, <2>5
  <2>7. Parts # << >> /\ Len(Parts) \in 2 .. 3
    <3>1. Len(Parts) \in 2 .. 3 /\ Len(Parts) # 0
      BY <2>1
    <3> QED
      BY <3>1, EmptySeq
  <2> QED
    BY <2>2, <2>6, <2>7 DEF S, h, t, g
<1>6. CASE call.message # << >>
  <2> DEFINE ht == <<h>> \o <<t>>
  <2>1. Parts = ht \o <<g>> /\ Len(Parts) = 3
    BY <1>3, <1>6, ThreeElements
  <2>2. ht \in Seq(Seq(S))
    BY <1>4, ConcatProperties
  <2>3. FlattenSeq(ht) = FlattenSeq(<<h>>) \o t
    BY <1>1, <1>4, FlatLast
  <2> HIDE DEF ht
  <2>4. Parts \in Seq(Seq(S))
    BY <1>4, <2>1, <2>2, ConcatProperties
  <2>5. FlattenSeq(ht \o <<g>>) = FlattenSeq(ht) \o g
    BY <1>1, <2>2, FlatLast
  <2>6. FlattenSeq(<<h>>) = h
    BY <1>1, FlatOne
  <2>7. FlattenSeq(Parts) = (h \o t) \o g
    BY <2>1, <2>3, <2>5, <2>6
  <2>8. Parts # << >> /\ Len(Parts) \in 2 .. 3
    <3>1. Len(Parts) \in 2 .. 3 /\ Len(Parts) # 0
      BY <2>1
    <3> QED
      BY <3>1, EmptySeq
  <2> QED
    BY <2>4, <2>7, <2>8 DEF S, h, t, g
<1> QED
  BY <1>5, <1>6

\* The sizes in the output chain.
LEMMA OutputChainIs ==
  ASSUME CcmCall, message = call.message
  PROVE  /\ Nrf!OutputChain = Sizes(Parts)
         /\ Nrf!OutputChain \in Seq(Nat) /\ Nrf!OutputChain # << >>
         /\ Len(Nrf!OutputChain) = Len(Parts)
<1> DEFINE a == Len(HeaderOut)
           b == Len(TextOut)
           c == Len(TagOut)
           o == Nrf!OutputChain
<1>1. /\ a = Padded(Len(HeaderText)) /\ b = Padded(Len(call.message)) /\ c = BLOCK
      /\ a \in Nat /\ b \in Nat /\ c \in Nat
  BY BufferTypes, LenProperties
<1>2. o = (<<a>> \o (IF call.message = << >> THEN << >> ELSE <<b>>)) \o <<c>>
  BY <1>1, HeaderDataIs, NrfOps DEF Nrf!OutputChain
<1>3. Parts = IF call.message = << >> THEN <<HeaderOut, TagOut>>
              ELSE <<HeaderOut, TextOut, TagOut>>
  BY DEF Parts
<1>4. CASE call.message = << >>
  <2>1. <<a>> \o << >> = <<a>>
    <3>1. <<a>> \in Seq(Nat)
      BY <1>1
    <3> QED
      BY <3>1, ConcatEmptySeq
  <2>2. o = <<a, c>>
    BY <1>2, <1>4, <2>1, TwoElements
  <2>3. Len(Parts) = 2 /\ Parts[1] = HeaderOut /\ Parts[2] = TagOut
    BY <1>3, <1>4
  <2> HIDE DEF o, a, b, c
  <2>4. o \in Seq(Nat) /\ Len(o) = 2 /\ o[1] = a /\ o[2] = c
    BY <1>1, <2>2
  <2>5. \A i \in 1 .. 2 : o[i] = Len(Parts[i])
    <3>1. \A i \in 1 .. 2 : i = 1 \/ i = 2
      OBVIOUS
    <3> QED
      BY <2>3, <2>4, <3>1 DEF a, c
  <2>6. o = [i \in 1 .. 2 |-> o[i]]
    <3>1. o \in [1 .. 2 -> Nat]
      BY <2>4, LenProperties
    <3> QED
      BY <3>1
  <2>7. o = Sizes(Parts)
    BY <2>3, <2>5, <2>6 DEF Sizes
  <2>8. o # << >>
    <3>1. Len(o) # 0
      BY <2>4
    <3> QED
      BY <3>1
  <2> QED
    BY <2>3, <2>4, <2>7, <2>8 DEF o
<1>5. CASE call.message # << >>
  <2>1. o = <<a, b, c>>
    <3>1. o = (<<a>> \o <<b>>) \o <<c>>
      BY <1>2, <1>5
    <3> HIDE DEF o, a, b, c
    <3>2. <<a, b, c>> = (<<a>> \o <<b>>) \o <<c>>
      BY ThreeElements
    <3> QED
      BY <3>1, <3>2, Zenon
  <2>2. Len(Parts) = 3 /\ Parts[1] = HeaderOut /\ Parts[2] = TextOut /\ Parts[3] = TagOut
    BY <1>3, <1>5
  <2> HIDE DEF o, a, b, c
  <2>3. o \in Seq(Nat) /\ Len(o) = 3 /\ o[1] = a /\ o[2] = b /\ o[3] = c
    BY <1>1, <2>1
  <2>4. \A i \in 1 .. 3 : o[i] = Len(Parts[i])
    <3>1. \A i \in 1 .. 3 : i = 1 \/ i = 2 \/ i = 3
      OBVIOUS
    <3> QED
      BY <2>2, <2>3, <3>1 DEF a, b, c
  <2>5. o = [i \in 1 .. 3 |-> o[i]]
    <3>1. o \in [1 .. 3 -> Nat]
      BY <2>3, LenProperties
    <3> QED
      BY <3>1
  <2>6. o = Sizes(Parts)
    BY <2>2, <2>4, <2>5 DEF Sizes
  <2>7. o # << >>
    <3>1. Len(o) # 0
      BY <2>3
    <3> QED
      BY <3>1
  <2> QED
    BY <2>2, <2>3, <2>6, <2>7 DEF o
<1> QED
  BY <1>4, <1>5

\* The first buffers are filled; what the engine still has to deliver fills the
\* others, and the DMA goes on until there are none.
PushBits == {"pushbusy", "pushwaitingfifo"}

Delivered(done, rest) ==
  /\ done \in Seq(Seq(OutBytes)) /\ rest \in Seq(Seq(OutBytes))
  /\ done \o rest = Parts
  /\ dma.filled = done
  /\ dma.sizes = Sizes(rest)
  /\ dma.stream = FlattenSeq(rest)
  /\ dma.status \cap PushBits = {} <=> rest = << >>

NrfInv ==
  pc = "wait" => dma.final = TRUE /\ \E done, rest : Delivered(done, rest)

\* No panic, and the DMA is started on what the engine will deliver.
LEMMA BuildNrf ==
  ASSUME CcmCall, message = call.message, Nrf!Build
  PROVE  /\ NrfInv' /\ pc = "build" /\ pc' = "wait"
         /\ UNCHANGED <<busy, call, message, result>>
<1> DEFINE i == Nrf!InputChain
           o == Nrf!OutputChain
<1>1. i = Chain /\ i \in Seq(Descs) /\ i # << >> /\ Len(i) <= 5
  BY InputChainIs, ChainType
<1>2. /\ o = Sizes(Parts) /\ o \in Seq(Nat) /\ o # << >>
      /\ Len(o) = Len(Parts)
  BY OutputChainIs
<1>3. ~Nrf!BuildPanics
  <2>1. Nrf!Aad = Aad
    BY NrfOps DEF Nrf!Aad, Aad
  <2>2. Fits(call)
    BY DEF CcmCall
  <2>3. /\ BLOCK + 2 + Len(Aad) <= HEADER_BUF
        /\ Len(call.message) <= MSG_BUF
    BY <2>2 DEF Fits, Aad
  <2>4. ~(BLOCK + 2 + Len(Nrf!Aad) > HEADER_BUF) /\ ~(Len(message) > MSG_BUF)
    <3>1. BLOCK \in Nat /\ HEADER_BUF \in Nat /\ MSG_BUF \in Nat
      BY CcmAssumption, BufferAssumption
    <3>2. Len(Aad) \in Nat /\ Len(call.message) \in Nat
      BY CallFacts, LenProperties
    <3> QED
      BY <2>1, <2>3, <3>1, <3>2
  <2>5. \A x \in call.tag : ~(x.len < TAG_LEN)
    <3>1. \A x \in call.tag : x.len = tag_length(call.key.alg)
      BY DEF CcmCall, RightLengths
    <3>2. tag_length(call.key.alg) = TAG_LEN
      BY DEF CcmCall, CcmAlgorithms, GcmAlgorithms, tag_length
    <3>3. ~(TAG_LEN < TAG_LEN)
      BY CcmAssumption
    <3> QED
      BY <3>1, <3>2, <3>3
  <2>6. ~Nrf!PushPanics(i)
    <3>1. Len(i) \in Nat /\ Len(i) <= 5
      BY <1>1, LenProperties
    <3> HIDE DEF i
    <3> QED
      BY <3>1, BufferAssumption DEF Nrf!PushPanics
  <2>7. ~Nrf!PushPanics(o)
    <3>1. Len(o) \in 2 .. 3
      BY <1>2, PartsFacts
    <3> DEFINE l == Len(o)
    <3>2. l \in 2 .. 3
      BY <3>1
    <3> HIDE DEF o, l
    <3>3. ~(l > MAX_DESCRIPTOR_CHAIN_LEN)
      BY <3>2, BufferAssumption
    <3> QED
      BY <3>3 DEF Nrf!PushPanics, l
  <2>8. ~Nrf!B0Panics(call.nonce)
    BY CallFacts, NrfOps
  <2> QED
    BY <2>4, <2>5, <2>6, <2>7, <2>8 DEF Nrf!BuildPanics
<1>4. /\ pc = "build" /\ pc' = "wait" /\ UNCHANGED <<busy, call, message, result>>
      /\ \E in \in {Nrf!Followed(i, {})} :
           Nrf!StartDma(in, Nrf!Followed(o, {}), Nrf!Engine(in.jobs))
  BY <1>3 DEF Nrf!Build, Nrf!aeadVars
<1> HIDE DEF i, o
<1>5. Nrf!Followed(i, {}) = [jobs |-> i, final |-> TRUE]
  BY <1>1, CcmAssumption, Nrf!DmaFindsTheJobs
<1>6. Nrf!Followed(o, {}) = [jobs |-> o, final |-> TRUE]
  BY <1>2, CcmAssumption, Nrf!DmaFindsTheJobs
<1> DEFINE s == (HeaderOut \o TextOut) \o TagOut
<1>7. Nrf!Engine(i) = s
  BY <1>1, EngineIs
<1> HIDE DEF s
<1>8. dma' = [status |-> {"fetchbusy", "pushbusy"}, stream |-> s, sizes |-> o,
              filled |-> << >>, final |-> TRUE]
  <2> DEFINE in == [jobs |-> i, final |-> TRUE]
             out == [jobs |-> o, final |-> TRUE]
  <2>1. Nrf!StartDma(in, out, Nrf!Engine(in.jobs))
    BY <1>4, <1>5, <1>6
  <2>2. in.jobs = i /\ out.jobs = o
    OBVIOUS
  <2>3. (in.final /\ out.final) = TRUE
    OBVIOUS
  <2>4. dma' = [status |-> {"fetchbusy", "pushbusy"}, stream |-> Nrf!Engine(in.jobs),
                sizes |-> out.jobs, filled |-> << >>, final |-> in.final /\ out.final]
    BY <2>1 DEF Nrf!StartDma
  <2> HIDE DEF in, out
  <2> QED
    BY <1>7, <2>2, <2>3, <2>4, Zenon
<1>9. Parts' = Parts /\ OutBytes' = OutBytes
  BY <1>4 DEF Parts, OutBytes, HeaderOut, TextOut, TagOut, HeaderText, TagLeft, NrfMac, B0, Aad,
              Out, Plain
<1>10. Parts \in Seq(Seq(OutBytes)) /\ Parts # << >> /\ FlattenSeq(Parts) = s
  BY PartsFacts DEF s
<1>11. Delivered(<< >>, Parts)'
  <2>1. << >> \in Seq(Seq(OutBytes)) /\ << >> \o Parts = Parts
    BY <1>10, EmptySeq, ConcatEmptySeq
  <2>2. dma'.status \cap PushBits # {}
    BY <1>8 DEF PushBits
  <2>3. dma'.filled = << >> /\ dma'.sizes = Sizes(Parts) /\ dma'.stream = FlattenSeq(Parts)
    BY <1>2, <1>8, <1>10
  <2> HIDE DEF PushBits
  <2> QED
    BY <1>9, <1>10, <2>1, <2>2, <2>3 DEF Delivered
<1>12. dma'.final = TRUE
  BY <1>8
<1>13. NrfInv'
  BY <1>4, <1>11, <1>12 DEF NrfInv
<1> QED
  BY <1>4, <1>13

\* The second part of two.
LEMMA SecondPart ==
  ASSUME NEW S, NEW x \in Seq(S), NEW y \in Seq(S)
  PROVE  SubSeq(x \o y, Len(x) + 1, Len(x \o y)) = y
<1> DEFINE z == x \o y
           n == Len(x)
           m == Len(y)
           w == SubSeq(z, n + 1, n + m)
<1>1. z \in Seq(S) /\ Len(z) = n + m /\ n \in Nat /\ m \in Nat
  BY ConcatProperties, LenProperties
<1>2. \A i \in 1 .. m : z[n + i] = y[i]
  <2>1. \A i \in 1 .. n + m : z[i] = IF i <= n THEN x[i] ELSE y[i - n]
    BY ConcatProperties
  <2>2. \A i \in 1 .. m : n + i \in 1 .. n + m /\ ~(n + i <= n) /\ (n + i) - n = i
    BY <1>1
  <2> QED
    BY <2>1, <2>2
<1> HIDE DEF z, n, m
<1>3. z \in Seq(S) /\ n \in Nat /\ m \in Nat /\ n + m <= Len(z)
  BY <1>1
<1>4. w \in Seq(S) /\ Len(w) = m /\ \A i \in 1 .. m : w[i] = z[n + i]
  BY <1>3, PartFacts
<1> HIDE DEF w
<1>5. \A i \in 1 .. Len(w) : w[i] = y[i]
  BY <1>2, <1>4
<1>6. w = y
  BY <1>4, <1>5, SeqEqual DEF m
<1> QED
  BY <1>1, <1>6 DEF w, z, n, m

\* The output buffers depend on the call only.
LEMMA PartsStay ==
  ASSUME call' = call
  PROVE  Parts' = Parts /\ OutBytes' = OutBytes
  BY DEF Parts, OutBytes, HeaderOut, TextOut, TagOut, HeaderText, TagLeft, NrfMac, B0, Aad,
         Out, Plain

\* The first of the remaining buffers is what the stream begins with.
Pushed(S, done, rest, stream, sizes) ==
  /\ Tail(rest) \in Seq(Seq(S)) /\ Append(done, Head(rest)) \in Seq(Seq(S))
  /\ Append(done, Head(rest)) \o Tail(rest) = done \o rest
  /\ SubSeq(stream, 1, Head(sizes)) = Head(rest)
  /\ SubSeq(stream, Head(sizes) + 1, Len(stream)) = FlattenSeq(Tail(rest))
  /\ Tail(sizes) = Sizes(Tail(rest))
  /\ Len(sizes) = 1 <=> Tail(rest) = << >>

\* The next buffer is filled with what the engine delivers for it.
LEMMA PushData ==
  ASSUME NEW S, NEW done \in Seq(Seq(S)), NEW rest \in Seq(Seq(S)), rest # << >>,
         NEW stream, stream = FlattenSeq(rest), NEW sizes, sizes = Sizes(rest)
  PROVE  Pushed(S, done, rest, stream, sizes)
<1> DEFINE r == Head(rest)
           t == Tail(rest)
           n == Len(rest)
<1>1. /\ r \in Seq(S) /\ t \in Seq(Seq(S)) /\ rest = <<r>> \o t
      /\ Len(t) = n - 1 /\ \A i \in 1 .. Len(t) : t[i] = rest[i + 1]
      /\ r = rest[1]
  BY HeadTailProperties, SMTT(15)
<1>2. n \in Nat /\ n >= 1
  BY EmptySeq, LenProperties
<1> HIDE DEF r, t
<1>3. FlattenSeq(rest) = r \o FlattenSeq(t) /\ FlattenSeq(t) \in Seq(S)
  BY <1>1, FlatHead, FlatType
<1>4. sizes \in Seq(Nat) /\ Len(sizes) = n /\ \A i \in 1 .. n : sizes[i] = Len(rest[i])
  <2>1. \A i \in 1 .. n : Len(rest[i]) \in Nat
    BY ElementOfSeq, LenProperties
  <2>2. sizes \in [1 .. n -> Nat] /\ \A i \in 1 .. n : sizes[i] = Len(rest[i])
    BY <2>1 DEF Sizes
  <2> HIDE DEF n
  <2>3. sizes \in Seq(Nat)
    BY <1>2, <2>2, SeqDef
  <2> QED
    BY <1>2, <2>2, <2>3, LenProperties
<1> HIDE DEF n
<1>5. sizes # << >>
  <2>1. Len(sizes) # 0
    BY <1>2, <1>4
  <2> QED
    BY <2>1
<1>6. /\ Head(sizes) = sizes[1] /\ Tail(sizes) \in Seq(Nat) /\ Len(Tail(sizes)) = n - 1
      /\ \A i \in 1 .. Len(Tail(sizes)) : Tail(sizes)[i] = sizes[i + 1]
  BY <1>4, <1>5, HeadTailProperties
<1>7. Head(sizes) = Len(r)
  <2>1. 1 \in 1 .. n
    BY <1>2
  <2> QED
    BY <1>1, <1>4, <1>6, <2>1
<1>8. /\ SubSeq(r \o FlattenSeq(t), 1, Len(r)) = r
      /\ SubSeq(r \o FlattenSeq(t), Len(r) + 1, Len(r \o FlattenSeq(t))) = FlattenSeq(t)
  <2>1. SubSeq(r \o FlattenSeq(t), 1, Len(r)) = r
    BY <1>1, <1>3, FirstPart
  <2>2. SubSeq(r \o FlattenSeq(t), Len(r) + 1, Len(r \o FlattenSeq(t))) = FlattenSeq(t)
    BY <1>1, <1>3, SecondPart
  <2> QED
    BY <2>1, <2>2
<1>9. Tail(sizes) = Sizes(t)
  <2> DEFINE u == Tail(sizes)
  <2>1. u \in [1 .. n - 1 -> Nat]
    BY <1>6, LenProperties
  <2>2. u = [i \in 1 .. n - 1 |-> u[i]]
    BY <2>1
  <2>3. ASSUME NEW i \in 1 .. n - 1 PROVE u[i] = Len(t[i])
    <3>1. i + 1 \in 1 .. n /\ i \in 1 .. Len(t) /\ i \in 1 .. Len(u)
      BY <1>1, <1>2, <1>6
    <3>2. u[i] = sizes[i + 1] /\ t[i] = rest[i + 1] /\ sizes[i + 1] = Len(rest[i + 1])
      BY <1>1, <1>4, <1>6, <3>1
    <3> QED
      BY <3>2
  <2> HIDE DEF u
  <2>4. u = [i \in 1 .. Len(t) |-> Len(t[i])]
    BY <1>1, <2>2, <2>3
  <2> QED
    BY <2>4 DEF u, Sizes
<1>10. Len(sizes) = 1 <=> t = << >>
  <2>1. Len(t) = 0 <=> t = << >>
    BY <1>1, EmptySeq
  <2> DEFINE l == Len(t)
             k == Len(sizes)
  <2>2. l = n - 1 /\ k = n /\ (l = 0 <=> t = << >>)
    BY <1>1, <1>4, <2>1
  <2> HIDE DEF l, k
  <2>3. k = 1 <=> l = 0
    BY <1>2, <2>2
  <2> QED
    BY <2>2, <2>3 DEF k
<1>11. Append(done, r) \in Seq(Seq(S)) /\ Append(done, r) \o t = done \o rest
  <2>1. <<r>> \in Seq(Seq(S))
    BY <1>1
  <2>2. Append(done, r) = done \o <<r>>
    BY <1>1, AppendIsConcat
  <2>3. done \o <<r>> \in Seq(Seq(S))
    BY <2>1, ConcatProperties
  <2>4. (done \o <<r>>) \o t = done \o (<<r>> \o t)
    BY <1>1, <2>1, ConcatAssociative
  <2> QED
    BY <1>1, <2>2, <2>3, <2>4
<1>12. SubSeq(stream, 1, Head(sizes)) = r
       /\ SubSeq(stream, Head(sizes) + 1, Len(stream)) = FlattenSeq(t)
  BY <1>3, <1>7, <1>8
<1> QED
  BY <1>1, <1>9, <1>10, <1>11, <1>12 DEF r, t, Pushed

\* A step of the DMA.
LEMMA DmaNrf ==
  ASSUME NrfInv, pc = "wait", pc' = "wait", call' = call, Nrf!Dma,
         DOMAIN dma = {"status", "stream", "sizes", "filled", "final"}
  PROVE  NrfInv'
<1>0. dma.final = TRUE
  BY DEF NrfInv
<1>1. PICK done, rest : Delivered(done, rest)
  BY DEF NrfInv
<1>2. Parts' = Parts /\ OutBytes' = OutBytes
  BY PartsStay
<1>3. /\ done \in Seq(Seq(OutBytes)) /\ rest \in Seq(Seq(OutBytes)) /\ done \o rest = Parts
      /\ dma.filled = done /\ dma.sizes = Sizes(rest) /\ dma.stream = FlattenSeq(rest)
      /\ (dma.status \cap PushBits = {} <=> rest = << >>)
  BY <1>1 DEF Delivered
<1>4. ASSUME NEW st, dma' = [dma EXCEPT !.status = st],
             st \cap PushBits = {} <=> dma.status \cap PushBits = {}
      PROVE  NrfInv'
  <2>1. /\ dma'.filled = done /\ dma'.sizes = Sizes(rest) /\ dma'.stream = FlattenSeq(rest)
        /\ dma'.status = st
    BY <1>3, <1>4
  <2>2. dma'.final = TRUE
    BY <1>0, <1>4
  <2>3. Delivered(done, rest)'
    BY <1>2, <1>3, <1>4, <2>1 DEF Delivered, PushBits
  <2> QED
    BY <2>2, <2>3 DEF NrfInv
<1>5. CASE Nrf!Fetch
  <2> DEFINE st == dma.status \ {"fetchbusy"}
  <2>1. dma' = [dma EXCEPT !.status = st]
    BY <1>5 DEF Nrf!Fetch
  <2>2. st \cap PushBits = {} <=> dma.status \cap PushBits = {}
    BY DEF PushBits
  <2> HIDE DEF st
  <2> QED
    BY <1>4, <2>1, <2>2
<1>6. CASE Nrf!PushWait
  <2> DEFINE st == (dma.status \ {"pushbusy"}) \cup {"pushwaitingfifo"}
  <2>1. dma' = [dma EXCEPT !.status = st] /\ "pushbusy" \in dma.status
    BY <1>6 DEF Nrf!PushWait
  <2>2. st \cap PushBits = {} <=> dma.status \cap PushBits = {}
    BY <2>1 DEF PushBits
  <2> HIDE DEF st
  <2> QED
    BY <1>4, <2>1, <2>2
<1>7. CASE Nrf!Push
  <2> DEFINE sizes == dma.sizes
             stream == dma.stream
             n == Head(sizes)
             st == (dma.status \ {"pushbusy", "pushwaitingfifo"})
                     \cup (IF Len(sizes) = 1 THEN {} ELSE {"pushbusy"})
             more == SubSeq(stream, n + 1, Len(stream))
             next == SubSeq(stream, 1, n)
  <2>1. /\ dma' = [dma EXCEPT !.status = st, !.stream = more, !.sizes = Tail(sizes),
                              !.filled = Append(dma.filled, next)]
        /\ dma.status \cap PushBits # {}
    BY <1>7 DEF Nrf!Push, PushBits
  <2>2. rest # << >> /\ stream = FlattenSeq(rest) /\ sizes = Sizes(rest)
    BY <1>3, <2>1
  <2> DEFINE t == Tail(rest)
             full == Append(done, Head(rest))
  <2>3. st \cap PushBits = {} <=> Len(sizes) = 1
    BY DEF PushBits
  <2> HIDE DEF st, sizes, stream
  <2>4. /\ t \in Seq(Seq(OutBytes)) /\ full \in Seq(Seq(OutBytes))
        /\ full \o t = done \o rest
        /\ next = Head(rest) /\ more = FlattenSeq(t) /\ Tail(sizes) = Sizes(t)
        /\ (Len(sizes) = 1 <=> t = << >>)
    <3> DEFINE S == OutBytes
    <3>1. done \in Seq(Seq(S)) /\ rest \in Seq(Seq(S))
      BY <1>3
    <3> HIDE DEF S
    <3>2. Pushed(S, done, rest, stream, sizes)
      BY <2>2, <3>1, PushData
    <3> QED
      BY <3>2, Zenon DEF Pushed, S
  <2> HIDE DEF t, full, next, more, n
  <2>5. Append(dma.filled, next) = full
    BY <1>3, <2>4 DEF full
  <2>6. dma' = [dma EXCEPT !.status = st, !.stream = FlattenSeq(t), !.sizes = Sizes(t),
                           !.filled = full]
    BY <2>1, <2>4, <2>5
  <2>7. /\ dma'.filled = full /\ dma'.sizes = Sizes(t) /\ dma'.stream = FlattenSeq(t)
        /\ dma'.status = st
    BY <2>6
  <2>8. dma'.final = TRUE
    BY <1>0, <2>6
  <2>9. dma'.status \cap PushBits = {} <=> t = << >>
    BY <2>3, <2>4, <2>7
  <2>10. full \o t = Parts
    BY <1>3, <2>4
  <2>11. Delivered(full, t)'
    BY <1>2, <2>4, <2>7, <2>9, <2>10 DEF Delivered, PushBits
  <2> QED
    BY <2>8, <2>11 DEF NrfInv
<1> QED
  BY <1>5, <1>6, <1>7 DEF Nrf!Dma

\* When the polling loop ends every output buffer is filled.
LEMMA FinishReads ==
  ASSUME CcmCall, message = call.message, NrfInv, pc = "wait", Nrf!PollingEnds
  PROVE  /\ Nrf!FromEnd(0) = TagOut
         /\ call.message # << >> => Nrf!FromEnd(1) = TextOut
<1>1. PICK done, rest : Delivered(done, rest)
  BY DEF NrfInv
<1>2. dma.status \cap PushBits = {}
  BY DEF Nrf!PollingEnds, Nrf!Polled, PushBits
<1>3. rest = << >> /\ done \in Seq(Seq(OutBytes)) /\ done \o rest = Parts /\ dma.filled = done
  BY <1>1, <1>2 DEF Delivered
<1>4. dma.filled = Parts
  BY <1>3, ConcatEmptySeq
<1>5. Len(Nrf!OutputChain) = Len(Parts)
  BY OutputChainIs
<1>6. ASSUME NEW k \in 0 .. Len(Parts)
      PROVE  Nrf!FromEnd(k) = Parts[Len(Parts) - k]
  <2> DEFINE n == Len(Parts) - k
  <2>1. Len(Parts) \in Nat
    BY PartsFacts
  <2>2. n <= Len(dma.filled)
    BY <1>4, <2>1
  <2> DEFINE z == [i \in 1 .. Nrf!OutputChain[n] |-> Nrf!Unwritten]
  <2>3. Nrf!FromEnd(k) = Nrf!OutputBuffer(n, z)
    BY <1>5 DEF Nrf!FromEnd
  <2> HIDE DEF n, z
  <2>4. Nrf!OutputBuffer(n, z) = dma.filled[n]
    BY <2>2 DEF Nrf!OutputBuffer
  <2> QED
    BY <1>4, <2>3, <2>4 DEF n
<1>7. Parts = IF call.message = << >> THEN <<HeaderOut, TagOut>>
              ELSE <<HeaderOut, TextOut, TagOut>>
  BY DEF Parts
<1>8. CASE call.message = << >>
  <2>1. Len(Parts) = 2 /\ Parts[2] = TagOut
    BY <1>7, <1>8
  <2>2. Nrf!FromEnd(0) = Parts[2 - 0]
    BY <1>6, <2>1
  <2> QED
    BY <1>8, <2>1, <2>2
<1>9. CASE call.message # << >>
  <2>1. Len(Parts) = 3 /\ Parts[3] = TagOut /\ Parts[2] = TextOut
    BY <1>7, <1>9
  <2>2. Nrf!FromEnd(0) = Parts[3 - 0] /\ Nrf!FromEnd(1) = Parts[3 - 1]
    BY <1>6, <2>1
  <2> QED
    BY <2>1, <2>2
<1> QED
  BY <1>8, <1>9

\* The text in the buffer is the one of the specification.
LEMMA TextRead ==
  ASSUME CcmCall, message = call.message, call.message # << >> => Nrf!FromEnd(1) = TextOut
  PROVE  Nrf!Text = Out
<1> DEFINE n == Len(call.message)
<1>1. n \in Nat /\ Out \in Seq(Bytes) /\ Len(Out) = n /\ call.message \in Seq(Octets)
  BY CallFacts
<1>2. Nrf!Text = [i \in 1 .. n |-> Nrf!FromEnd(1)[i].byte]
  BY DEF Nrf!Text
<1>3. Out = [i \in 1 .. n |-> Out[i]]
  <2>1. Out \in [1 .. n -> Bytes]
    BY <1>1, LenProperties
  <2> QED
    BY <2>1
<1>4. ASSUME NEW i \in 1 .. n PROVE Nrf!FromEnd(1)[i].byte = Out[i]
  <2>1. n <= Padded(n) /\ Padded(n) \in Nat
    BY <1>1, PaddedFacts
  <2>2. i \in 1 .. Padded(n) /\ i <= n
    BY <1>1, <2>1
  <2>3. call.message # << >>
    BY <1>1, EmptySeq
  <2>4. TextOut[i] = Nrf!DataByte(ZeroPadded(Out)[i])
    BY <2>2 DEF TextOut
  <2>5. ZeroPadded(Out)[i] = Out[i]
    <3>1. \A j \in 1 .. Padded(Len(Out)) :
            ZeroPadded(Out)[j] = IF j <= Len(Out) THEN Out[j] ELSE Byte(0)
      BY <1>1, OctetFacts, ZeroPaddedFacts
    <3> QED
      BY <1>1, <2>2, <3>1
  <2>6. Nrf!DataByte(Out[i]).byte = Out[i]
    BY DEF Nrf!DataByte
  <2> QED
    BY <2>3, <2>4, <2>5, <2>6
<1> HIDE DEF n
<1> QED
  BY <1>2, <1>3, <1>4

\* The tag block is zero exactly if the tag of the call is right.
LEMMA MacOkIs ==
  ASSUME CcmCall, Nrf!FromEnd(0) = TagOut, call.op = "decrypt"
  PROVE  Nrf!MacOk <=> call.tag = {[mac |-> NrfMac, len |-> TAG_LEN]}
<1>1. TAG_LEN \in Nat /\ BLOCK \in Nat /\ 1 <= TAG_LEN /\ TAG_LEN <= BLOCK
  BY CcmAssumption
<1>2. \A i \in 1 .. TAG_LEN : i \in 1 .. BLOCK
  BY <1>1
<1>3. \A i \in 1 .. BLOCK : TagOut[i].kind = "tag" /\ TagOut[i].mac = TagLeft
  BY DEF TagOut
<1>4. 1 \in 1 .. TAG_LEN
  BY <1>1
<1>5. Nrf!MacOk <=> TagLeft = {}
  BY <1>2, <1>3, <1>4 DEF Nrf!MacOk
<1>6. TagLeft = {m \in {NrfMac} : {x.mac : x \in call.tag} # {m}}
  BY DEF TagLeft
<1>7. TagLeft = {} <=> {x.mac : x \in call.tag} = {NrfMac}
  BY <1>6
<1>8. PICK x \in call.tag : call.tag = {x} /\ x = [mac |-> x.mac, len |-> x.len]
  BY CallAssumption DEF CcmCall, IsCall
<1>9. x.len = TAG_LEN
  BY DEF CcmCall, RightLengths, tag_length, CcmAlgorithms, GcmAlgorithms
<1>10. {y.mac : y \in call.tag} = {x.mac}
  BY <1>8
<1>11. {x.mac} = {NrfMac} <=> x.mac = NrfMac
  OBVIOUS
<1>12. x.mac = NrfMac <=> call.tag = {[mac |-> NrfMac, len |-> TAG_LEN]}
  <2>1. ASSUME x.mac = NrfMac PROVE call.tag = {[mac |-> NrfMac, len |-> TAG_LEN]}
    BY <1>8, <1>9, <2>1
  <2>2. ASSUME call.tag = {[mac |-> NrfMac, len |-> TAG_LEN]} PROVE x.mac = NrfMac
    <3>1. x = [mac |-> NrfMac, len |-> TAG_LEN]
      BY <2>2
    <3> QED
      BY <3>1
  <2> QED
    BY <2>1, <2>2
<1> QED
  BY <1>5, <1>7, <1>10, <1>11, <1>12

\* The end of the polling loop returns what the specification says.
LEMMA FinishNrf ==
  ASSUME CcmCall, busy = TRUE, message = call.message, NrfInv, Nrf!Finish
  PROVE  pc' = "idle" /\ Returned
<1> DEFINE tag == {[mac |-> NrfMac, len |-> TAG_LEN]}
<1>1. /\ pc = "wait" /\ Nrf!PollingEnds /\ pc' = "idle" /\ busy' = FALSE /\ call' = call
      /\ IF call.op = "encrypt"
           THEN /\ message' = Nrf!Text
                /\ result' = [status |-> "Ok",
                              tag |-> {[mac |-> m, len |-> TAG_LEN] :
                                         m \in Nrf!FromEnd(0)[1].mac}]
           ELSE /\ message' = IF Nrf!MacOk THEN Nrf!Text ELSE message
                /\ result' = [status |-> IF Nrf!MacOk THEN "Ok" ELSE "DecryptionFailed",
                              tag |-> {}]
  BY DEF Nrf!Finish
<1>2. Nrf!FromEnd(0) = TagOut /\ (call.message # << >> => Nrf!FromEnd(1) = TextOut)
  BY <1>1, FinishReads
<1>3. Nrf!Text = Out
  BY <1>2, TextRead
<1>4. Tag(call.key, Mac(call.key, call.nonce, Aad, Plain, Crypted)) = tag
  <2>1. tag_length(call.key.alg) = TAG_LEN
    BY DEF CcmCall, CcmAlgorithms, GcmAlgorithms, tag_length
  <2> QED
    BY <2>1, CcmTag DEF NrfMac, Tag
<1>5. call.op \in {"encrypt", "decrypt"}
  BY CallAssumption DEF CcmCall, IsCall
<1>6. CASE call.op = "encrypt"
  <2>1. 1 \in 1 .. BLOCK
    BY CcmAssumption
  <2>2. TagOut[1].mac = {NrfMac}
    BY <1>6, <2>1 DEF TagOut, TagLeft
  <2>3. {[mac |-> m, len |-> TAG_LEN] : m \in {NrfMac}} = tag
    OBVIOUS
  <2>4. result' = [status |-> "Ok", tag |-> tag] /\ message' = Out
    BY <1>1, <1>2, <1>3, <1>6, <2>2, <2>3
  <2> HIDE DEF tag
  <2> QED
    BY <1>1, <1>4, <1>6, <2>4 DEF Returned
<1>7. CASE call.op = "decrypt"
  <2>1. Nrf!MacOk <=> call.tag = tag
    BY <1>2, <1>7, MacOkIs
  <2>2. /\ message' = IF Nrf!MacOk THEN Out ELSE message
        /\ result' = [status |-> IF Nrf!MacOk THEN "Ok" ELSE "DecryptionFailed", tag |-> {}]
    BY <1>1, <1>3, <1>7
  <2> HIDE DEF tag
  <2>3. result'.tag = {} /\ IF call.tag = tag THEN result'.status = "Ok" /\ message' = Out
                            ELSE result'.status = "DecryptionFailed"
    BY <2>1, <2>2
  <2> QED
    BY <1>1, <1>4, <1>7, <2>3 DEF Returned
<1> QED
  BY <1>5, <1>6, <1>7

-----------------------------------------------------------------------------
(* Every provider together *)

\* A call is in the hands of a provider that has its algorithm, nothing has
\* panicked, and only the payload phase of the STM32 works in the caller's buffer.
CallInv ==
  /\ platform \in Platforms
  /\ call \in Calls
  /\ pc \in {"collect"} \cup StmPhases \cup NrfPhases => call.key.alg \in CcmAlgorithms
  /\ pc = "library" => call.key.alg \in GcmAlgorithms
  /\ pc # "panicked"
  /\ busy /\ pc # "payload" => message = call.message

PromiseInv == AeadInv /\ CallInv /\ StmInv /\ RcInv /\ NrfInv

\* A step is one of AeadSpec or not to be seen.
Simulated == Interface!AeadNext \/ UNCHANGED Interface!aeadVars

\* The boards are asked for AES-CCM only.
LEMMA BaseHasCcm ==
  ASSUME NEW n, BaseAlgorithms(n) # {}, platform \in Platforms
  PROVE  n \in CcmAlgorithms
<1>1. platform.base \in {"empty", "stm32wba55", "nrf54l15"}
  BY PlatformAssumption
<1>2. CASE platform.base = "stm32wba55"
  BY <1>2 DEF BaseAlgorithms, Stm!from_cose_number, Stm!CcmAlgorithms, CcmAlgorithms
<1>3. CASE platform.base = "nrf54l15"
  BY <1>3 DEF BaseAlgorithms, Nrf!from_cose_number, Nrf!CcmAlgorithms, CcmAlgorithms
<1>4. CASE platform.base = "empty"
  BY <1>4 DEF BaseAlgorithms
<1> QED
  BY <1>1, <1>2, <1>3, <1>4

\* A key goes to a provider that has its algorithm, whatever the extender and its
\* base prefer.
LEMMA Routed ==
  ASSUME platform \in Platforms, NEW n, NEW v \in Variants(n)
  PROVE  /\ Provider(v) \in {"stm32wba55", "nrf54l15", "rustcrypto"} => n \in CcmAlgorithms
         /\ Provider(v) = "libcrux" => n \in GcmAlgorithms
<1>1. /\ platform.adapter \in {"none", "libcrux", "rustcrypto"}
      /\ platform.base \in {"empty", "stm32wba55", "nrf54l15"}
  BY PlatformAssumption
<1>2. v \in from_cose_number(n) \/ (v = "own" /\ n \in OwnAlgorithms)
  BY DEF Variants
<1>3. CASE platform.adapter = "rustcrypto"
  <2>1. OwnAlgorithms = CcmAlgorithms
    BY <1>3 DEF OwnAlgorithms, Rustcrypto!OwnAlgorithms, Rustcrypto!CcmAlgorithms, CcmAlgorithms
  <2>2. v \in from_cose_number(n) => \/ v = "own" /\ n \in CcmAlgorithms
                                     \/ v = "direct" /\ BaseAlgorithms(n) # {}
    BY <1>3 DEF from_cose_number, Rustcrypto!from_cose_number, Rustcrypto!OwnAlgorithms,
                Rustcrypto!CcmAlgorithms, CcmAlgorithms
  <2> QED
    BY <1>1, <1>2, <1>3, <2>1, <2>2, BaseHasCcm DEF Provider
<1>4. CASE platform.adapter = "libcrux"
  <2>1. OwnAlgorithms = GcmAlgorithms
    BY <1>4 DEF OwnAlgorithms, Libcrux!OwnAlgorithms, Libcrux!GcmAlgorithms, GcmAlgorithms
  <2>2. v \in from_cose_number(n) => \/ v = "own" /\ n \in GcmAlgorithms
                                     \/ v = "direct" /\ BaseAlgorithms(n) # {}
    BY <1>4 DEF from_cose_number, Libcrux!from_cose_number, Libcrux!OwnAlgorithms,
                Libcrux!GcmAlgorithms, GcmAlgorithms
  <2> QED
    BY <1>1, <1>2, <1>4, <2>1, <2>2, BaseHasCcm DEF Provider
<1>5. CASE platform.adapter = "none"
  <2>1. OwnAlgorithms = {}
    BY <1>5 DEF OwnAlgorithms
  <2>2. v \in from_cose_number(n) => v = "direct" /\ BaseAlgorithms(n) # {}
    BY <1>5 DEF from_cose_number
  <2> QED
    BY <1>1, <1>2, <1>5, <2>1, <2>2, BaseHasCcm DEF Provider
<1> QED
  BY <1>1, <1>3, <1>4, <1>5

\* At the start nothing is collected and no call is open.
LEMMA InitPromise ==
  ASSUME Init
  PROVE  PromiseInv /\ Interface!AeadInit
<1>1. AeadInv
  BY InitAead
<1>2. pc = "idle" /\ busy = FALSE
  <2>1. pc = "idle"
    BY DEF Init, Stm!StmInit
  <2>2. busy = FALSE
    BY Zenon DEF Init
  <2> QED
    BY <2>1, <2>2
<1>3. /\ platform \in Platforms /\ call \in {CHOOSE c \in Calls : TRUE}
      /\ message = call.message /\ result = [status |-> "pending", tag |-> {}]
      /\ aead_buffer = Rustcrypto!Zeros(AEAD_BUFFER) /\ cursor = 0
  BY Zenon DEF Init, Rustcrypto!RustcryptoInit
<1>4. call \in Calls
  <2>1. (CHOOSE c \in Calls : TRUE) \in Calls
    BY CallAssumption, Zenon
  <2> QED
    BY <1>3, <2>1, Zenon
<1>5. CallInv
  BY <1>2, <1>3, <1>4 DEF CallInv, StmPhases, NrfPhases
<1>6. StmInv /\ NrfInv
  BY <1>2 DEF StmInv, NrfInv
<1>7. RcInv
  <2>1. aead_buffer = Zeros(AEAD_BUFFER)
    BY <1>3, RcOps
  <2>2. aead_buffer \in Seq(Octets) /\ Len(aead_buffer) = AEAD_BUFFER
    <3>1. AEAD_BUFFER \in Nat /\ Byte(0) \in Octets
      BY BufferAssumption, OctetFacts
    <3>2. aead_buffer \in [1 .. AEAD_BUFFER -> Octets]
      BY <2>1, <3>1 DEF Zeros
    <3>3. aead_buffer \in Seq(Octets)
      BY <3>1, <3>2, SeqDef
    <3> QED
      BY <3>1, <3>2, <3>3, LenProperties
  <2> QED
    BY <1>2, <1>3, <2>2 DEF RcInv
<1>8. Interface!AeadInit
  BY <1>2, <1>3, <1>4 DEF Interface!AeadInit, Interface!Pending
<1> QED
  BY <1>1, <1>5, <1>6, <1>7, <1>8 DEF PromiseInv

\* A call begins in the first phase of its provider, whose invariant knows nothing
\* yet of what the registers and buffers hold.
LEMMA BeginPromise ==
  ASSUME PromiseInv, AeadInv', NEW c \in Calls,
         pc = "idle", UNCHANGED <<platform, aead_buffer, cursor>>,
         ~busy, busy' = TRUE, call' = c, message' = c.message,
         result' = [status |-> "pending", tag |-> {}],
         \/ pc' \in {"init", "build"} /\ c.key.alg \in CcmAlgorithms
         \/ pc' = "collect" /\ c.key.alg \in CcmAlgorithms /\ slices' = c.aad
         \/ pc' = "library" /\ c.key.alg \in GcmAlgorithms
  PROVE  PromiseInv' /\ Interface!AeadNext
<1>1. CallInv'
  BY DEF PromiseInv, CallInv, StmPhases, NrfPhases
<1>2. StmInv' /\ NrfInv'
  BY DEF StmInv, NrfInv
<1>3. RcInv'
  <2>1. aead_buffer \in Seq(Octets) /\ Len(aead_buffer) = AEAD_BUFFER /\ cursor = 0
    BY DEF PromiseInv, RcInv
  <2>2. aead_buffer' \in Seq(Octets) /\ Len(aead_buffer') = AEAD_BUFFER /\ cursor' = 0
    BY <2>1
  <2>3. ASSUME pc' = "collect"
        PROVE  /\ cursor' \in 0 .. AEAD_BUFFER /\ slices' \in Seq(Seq(Octets))
               /\ SubSeq(aead_buffer', 1, cursor') \o FlattenSeq(slices') = Aad'
    <3>1. slices' = c.aad /\ c.aad \in Seq(Seq(Octets)) /\ FlattenSeq(c.aad) \in Seq(Octets)
      BY <2>3, CallBytes
    <3>2. SubSeq(aead_buffer', 1, 0) = << >>
      BY <2>2
    <3>3. Aad' = FlattenSeq(c.aad)
      BY DEF Aad
    <3>4. << >> \o FlattenSeq(c.aad) = FlattenSeq(c.aad)
      BY <3>1, ConcatEmptySeq
    <3>5. 0 \in 0 .. AEAD_BUFFER
      BY BufferAssumption
    <3>6. SubSeq(aead_buffer', 1, cursor') \o FlattenSeq(slices') = Aad'
      BY <2>2, <3>1, <3>2, <3>3, <3>4
    <3> QED
      BY <2>2, <3>1, <3>5, <3>6
  <2> QED
    BY <2>2, <2>3, Zenon DEF RcInv
<1>4. Interface!AeadNext
  <2>1. (IF busy' THEN call'.message ELSE message') = c.message
    BY Zenon
  <2> QED
    BY <2>1 DEF Interface!AeadNext, Interface!Begin, Interface!Pending
<1> QED
  BY <1>1, <1>2, <1>3, <1>4 DEF PromiseInv

\* A call begins on the provider its key belongs to.
LEMMA StartPromise ==
  ASSUME PromiseInv, Start, UNCHANGED platform
  PROVE  PromiseInv' /\ Interface!AeadNext
<1> DEFINE Begins(c, v) ==
        \/ Provider(v) = "stm32wba55" /\ Stm!Start(c) /\ UNCHANGED <<dma, rustcryptoVars>>
        \/ Provider(v) = "nrf54l15" /\ Nrf!Start(c) /\ UNCHANGED <<stmVars, rustcryptoVars>>
        \/ Provider(v) = "rustcrypto" /\ Rustcrypto!Start(c) /\ UNCHANGED <<stmVars, dma>>
        \/ Provider(v) = "libcrux" /\ Libcrux!Start(c)
             /\ UNCHANGED <<stmVars, dma, rustcryptoVars>>
<1>0. PICK c \in Offered[platform.adapter] : \E v \in Variants(c.key.alg) : Begins(c, v)
  BY Zenon DEF Start
<1>1. PICK v \in Variants(c.key.alg) : Begins(c, v)
  BY <1>0, Zenon
<1>2. platform \in Platforms /\ AeadInv'
  BY StartAead DEF PromiseInv, CallInv
<1>3. /\ Provider(v) \in {"stm32wba55", "nrf54l15", "rustcrypto"} => c.key.alg \in CcmAlgorithms
      /\ Provider(v) = "libcrux" => c.key.alg \in GcmAlgorithms
  BY <1>2, Routed
<1>4. c \in Calls
  <2>1. platform.adapter \in {"none", "libcrux", "rustcrypto"}
    BY <1>2, PlatformAssumption
  <2> QED
    BY <2>1, CallAssumption
<1>5. CASE Provider(v) = "stm32wba55" /\ Stm!Start(c) /\ UNCHANGED <<dma, rustcryptoVars>>
  BY <1>2, <1>3, <1>4, <1>5, BeginPromise
    DEF Stm!Start, Stm!Begin, Stm!Pending, rustcryptoVars
<1>6. CASE Provider(v) = "nrf54l15" /\ Nrf!Start(c) /\ UNCHANGED <<stmVars, rustcryptoVars>>
  BY <1>2, <1>3, <1>4, <1>6, BeginPromise
    DEF Nrf!Start, Nrf!Begin, Nrf!Pending, rustcryptoVars
<1>7. CASE Provider(v) = "rustcrypto" /\ Rustcrypto!Start(c) /\ UNCHANGED <<stmVars, dma>>
  BY <1>2, <1>3, <1>4, <1>7, BeginPromise
    DEF Rustcrypto!Start, Rustcrypto!Begin, Rustcrypto!Pending
<1>8. CASE Provider(v) = "libcrux" /\ Libcrux!Start(c)
             /\ UNCHANGED <<stmVars, dma, rustcryptoVars>>
  BY <1>2, <1>3, <1>4, <1>8, BeginPromise
    DEF Libcrux!Start, Libcrux!Begin, Libcrux!Pending, rustcryptoVars
<1> QED
  BY <1>1, <1>5, <1>6, <1>7, <1>8

\* A call that returns what it should leaves the provider idle.
LEMMA ReturnPromise ==
  ASSUME PromiseInv, Returned, pc' = "idle", UNCHANGED platform, AeadInv', RcInv'
  PROVE  PromiseInv' /\ Simulated
<1>1. call' = call /\ ~busy'
  BY DEF Returned
<1>2. CallInv'
  BY <1>1 DEF PromiseInv, CallInv, StmPhases, NrfPhases
<1>3. StmInv' /\ NrfInv'
  BY DEF StmInv, NrfInv
<1>4. Interface!Return
  BY ReturnSimulates DEF PromiseInv, CallInv
<1> QED
  BY <1>2, <1>3, <1>4 DEF PromiseInv, Simulated, Interface!AeadNext

\* The buffer of the RustCrypto extender while another provider works.
LEMMA BufferRests ==
  ASSUME RcInv, pc # "collect", pc' # "collect", UNCHANGED rustcryptoVars
  PROVE  RcInv'
  BY DEF RcInv, rustcryptoVars

\* A step inside a call is not to be seen.
LEMMA InsideCall ==
  ASSUME busy = TRUE, UNCHANGED <<busy, call, result>>
  PROVE  Simulated
<1>1. (IF busy THEN call.message ELSE message) = call.message
  OBVIOUS
<1>2. (IF busy' THEN call'.message ELSE message') = call.message
  OBVIOUS
<1> QED
  BY <1>1, <1>2 DEF Simulated, Interface!aeadVars

\* A step of the STM32 driver.
LEMMA StmPromise ==
  ASSUME \A c \in Calls : RightLengths(c) /\ Fits(c),
         PromiseInv, Stm!StmStep, UNCHANGED <<platform, dma, rustcryptoVars>>
  PROVE  PromiseInv' /\ Simulated
<1>1. pc \in StmPhases
  BY DEF Stm!StmStep, Stm!InitPhase, Stm!HeaderStart, Stm!HeaderFill, Stm!HeaderEnd,
         Stm!PayloadStart, Stm!PayloadBlock, Stm!FinalPhase, StmPhases
<1>2. CcmCall
  BY <1>1 DEF PromiseInv, CallInv, CcmCall
<1>9. ~Stm!B0Panics(call.nonce)
  BY <1>2, CallFacts, StmOps
<1>10. \/ pc' \in StmPhases /\ UNCHANGED <<busy, call, result>>
       \/ pc' = "idle" /\ Stm!FinalPhase
  BY <1>9 DEF Stm!StmStep, Stm!InitPhase, Stm!InitDone, Stm!HeaderStart, Stm!HeaderFill,
         Stm!HeaderEnd, Stm!PayloadStart, Stm!PayloadBlock, Stm!FinalPhase,
         Stm!aeadVars, StmPhases
<1>3. DOMAIN aes = AesFields /\ aes.misused = FALSE
  BY DEF PromiseInv, AeadInv, AesInv, Stm!PowerOn, AesFields
<1>4. busy = TRUE
  BY <1>1 DEF PromiseInv, AeadInv, PcInv, StmPhases
<1>5. AeadInv'
  BY StmAead DEF PromiseInv
<1>6. RcInv' /\ NrfInv'
  BY <1>1, <1>10, BufferRests DEF PromiseInv, NrfInv, StmPhases
<1>7. StmInv /\ (pc # "payload" => message = call.message)
  BY <1>4 DEF PromiseInv, CallInv
<1>8. ASSUME StmInv', pc' \in StmPhases, UNCHANGED <<busy, call, result>>,
             pc' # "payload" => message' = call.message
      PROVE  PromiseInv' /\ Simulated
  <2>1. Simulated
    BY <1>4, <1>8, InsideCall
  <2>2. CallInv'
    BY <1>2, <1>8 DEF PromiseInv, CallInv, CcmCall, StmPhases, NrfPhases
  <2> QED
    BY <1>5, <1>6, <1>8, <2>1, <2>2 DEF PromiseInv
<1>11. CASE Stm!InitPhase
  <2>1. pc = "init" /\ UNCHANGED <<busy, call, message, result>>
    BY <1>9, <1>11 DEF Stm!InitPhase, Stm!InitDone, Stm!aeadVars
  <2>2. StmInv' /\ pc' \in {"header_start", "payload_start"}
    BY <1>2, <1>3, <1>7, <1>11, <2>1, InitPhaseStm
  <2> QED
    BY <1>7, <1>8, <2>1, <2>2 DEF StmPhases
<1>12. CASE Stm!HeaderStart
  <2>1. pc = "header_start" /\ UNCHANGED <<busy, call, message, result>>
    BY <1>12 DEF Stm!HeaderStart, Stm!aeadVars
  <2>2. StmInv' /\ pc' = "header"
    BY <1>2, <1>3, <1>7, <1>12, HeaderStartStm
  <2> QED
    BY <1>7, <1>8, <2>1, <2>2 DEF StmPhases
<1>13. CASE Stm!HeaderFill
  <2>1. pc = "header" /\ UNCHANGED <<busy, call, message, result>>
    BY <1>13 DEF Stm!HeaderFill, Stm!aeadVars
  <2>2. StmInv' /\ pc' = "header"
    BY <1>2, <1>3, <1>7, <1>13, HeaderFillStm
  <2> QED
    BY <1>7, <1>8, <2>1, <2>2 DEF StmPhases
<1>14. CASE Stm!HeaderEnd
  <2>1. pc = "header" /\ UNCHANGED <<busy, call, message, result>>
    BY <1>14 DEF Stm!HeaderEnd, Stm!aeadVars
  <2>2. StmInv' /\ pc' = "payload_start"
    BY <1>2, <1>3, <1>7, <1>14, HeaderEndStm
  <2> QED
    BY <1>7, <1>8, <2>1, <2>2 DEF StmPhases
<1>15. CASE Stm!PayloadStart
  <2>1. pc = "payload_start" /\ UNCHANGED <<busy, call, message, result>>
    BY <1>15 DEF Stm!PayloadStart, Stm!aeadVars
  <2>2. StmInv' /\ pc' = "payload"
    BY <1>2, <1>3, <1>7, <1>15, <2>1, PayloadStartStm
  <2> QED
    BY <1>8, <2>1, <2>2 DEF StmPhases
<1>16. CASE Stm!PayloadBlock
  <2>1. UNCHANGED <<busy, call, result>>
    BY <1>16 DEF Stm!PayloadBlock
  <2>2. StmInv' /\ pc' = "payload"
    BY <1>2, <1>3, <1>7, <1>16, PayloadBlockStm
  <2> QED
    BY <1>8, <2>1, <2>2 DEF StmPhases
<1>17. CASE Stm!FinalPhase
  <2>1. StmInv' /\ pc' = "idle" /\ Returned
    BY <1>2, <1>3, <1>4, <1>7, <1>17, FinalPhaseStm
  <2> QED
    BY <1>5, <1>6, <2>1, ReturnPromise
<1> QED
  BY <1>11, <1>12, <1>13, <1>14, <1>15, <1>16, <1>17 DEF Stm!StmStep

\* A step of the driver on the nRF54L15 or of its DMA.
LEMMA NrfPromise ==
  ASSUME \A c \in Calls : RightLengths(c) /\ Fits(c),
         PromiseInv, Nrf!NrfStep, UNCHANGED <<platform, stmVars, rustcryptoVars>>
  PROVE  PromiseInv' /\ Simulated
<1>1. AeadInv'
  BY NrfAead DEF PromiseInv
<1>2. ASSUME pc \in NrfPhases
      PROVE  CcmCall /\ busy = TRUE /\ message = call.message
  <2>1. busy = TRUE
    BY <1>2 DEF PromiseInv, AeadInv, PcInv, NrfPhases
  <2> QED
    BY <1>2, <2>1 DEF PromiseInv, CallInv, CcmCall, NrfPhases
<1>3. ASSUME NrfInv', pc \in NrfPhases, pc' = "wait",
             UNCHANGED <<busy, call, message, result>>
      PROVE  PromiseInv' /\ Simulated
  <2>1. Simulated
    BY <1>2, <1>3, InsideCall
  <2>2. CallInv'
    BY <1>2, <1>3 DEF PromiseInv, CallInv, CcmCall, StmPhases, NrfPhases
  <2>3. RcInv' /\ StmInv'
    BY <1>3, BufferRests DEF PromiseInv, StmInv, NrfPhases
  <2> QED
    BY <1>1, <1>3, <2>1, <2>2, <2>3 DEF PromiseInv
<1>4. CASE Nrf!Build
  <2>1. pc = "build"
    BY <1>4 DEF Nrf!Build
  <2>2. NrfInv' /\ pc' = "wait" /\ UNCHANGED <<busy, call, message, result>>
    BY <1>2, <1>4, <2>1, BuildNrf DEF NrfPhases
  <2> QED
    BY <1>3, <2>1, <2>2 DEF NrfPhases
<1>5. CASE Nrf!Dma /\ UNCHANGED <<Nrf!aeadVars, pc>>
  <2>1. UNCHANGED <<busy, call, message, result, pc>>
    BY <1>5 DEF Nrf!aeadVars
  <2>2. dma.status # {}
    BY <1>5 DEF Nrf!Dma, Nrf!Fetch, Nrf!PushWait, Nrf!Push
  <2>3. /\ pc = "wait" /\ NrfInv
        /\ DOMAIN dma = {"status", "stream", "sizes", "filled", "final"}
    BY <2>2 DEF PromiseInv, AeadInv, DmaInv
  <2>4. NrfInv'
    BY <1>5, <2>1, <2>3, DmaNrf
  <2> QED
    BY <1>3, <2>1, <2>3, <2>4 DEF NrfPhases
<1>6. CASE Nrf!Finish
  <2>1. pc = "wait" /\ NrfInv
    BY <1>6 DEF Nrf!Finish, PromiseInv
  <2>2. pc' = "idle" /\ Returned
    BY <1>2, <1>6, <2>1, FinishNrf DEF NrfPhases
  <2>3. RcInv'
    BY <2>1, <2>2, BufferRests DEF PromiseInv
  <2> QED
    BY <1>1, <2>2, <2>3, ReturnPromise
<1> QED
  BY <1>4, <1>5, <1>6 DEF Nrf!NrfStep

\* A step of one of the extenders.
LEMMA ExtenderPromise ==
  ASSUME \A c \in Calls : RightLengths(c) /\ Fits(c),
         PromiseInv, UNCHANGED <<platform, stmVars, dma>>,
         \/ Rustcrypto!RustcryptoStep
         \/ Libcrux!LibraryCall /\ UNCHANGED rustcryptoVars
  PROVE  PromiseInv' /\ Simulated
<1>1. AeadInv'
  BY ExtenderAead DEF PromiseInv
<1>2. ASSUME pc \in {"collect", "library"}
      PROVE  busy = TRUE /\ message = call.message
  <2>1. busy = TRUE
    BY <1>2 DEF PromiseInv, AeadInv, PcInv
  <2> QED
    BY <1>2, <2>1 DEF PromiseInv, CallInv
<1>3. ASSUME pc = "collect"
      PROVE  CcmCall
  BY <1>3 DEF PromiseInv, CallInv, CcmCall
<1>4. CASE Rustcrypto!CollectSlice
  <2>1. pc = "collect" /\ RcInv
    BY <1>4 DEF Rustcrypto!CollectSlice, PromiseInv
  <2>2. RcInv' /\ pc' = "collect" /\ UNCHANGED <<busy, call, message, result>>
    BY <1>3, <1>4, <2>1, CollectRc
  <2>3. Simulated
    BY <1>2, <2>1, <2>2, InsideCall
  <2>4. CallInv'
    BY <1>2, <2>1, <2>2 DEF PromiseInv, CallInv, StmPhases, NrfPhases
  <2>5. StmInv' /\ NrfInv'
    BY <2>2 DEF StmInv, NrfInv
  <2> QED
    BY <1>1, <2>2, <2>3, <2>4, <2>5 DEF PromiseInv
<1>5. CASE Rustcrypto!LibraryCall
  <2>1. pc = "collect" /\ RcInv
    BY <1>5 DEF Rustcrypto!LibraryCall, PromiseInv
  <2>2. RcInv' /\ pc' = "idle" /\ Returned
    BY <1>2, <1>3, <1>5, <2>1, LibraryRc
  <2> QED
    BY <1>1, <2>2, ReturnPromise
<1>6. CASE Libcrux!LibraryCall /\ UNCHANGED rustcryptoVars
  <2>1. pc = "library"
    BY <1>6 DEF Libcrux!LibraryCall
  <2>2. GcmCall
    BY <2>1 DEF PromiseInv, CallInv, GcmCall
  <2>3. pc' = "idle" /\ Returned
    BY <1>2, <1>6, <2>1, <2>2, LibraryLibcrux
  <2>4. RcInv'
    BY <1>6, <2>1, <2>3, BufferRests DEF PromiseInv
  <2> QED
    BY <1>1, <2>3, <2>4, ReturnPromise
<1> QED
  BY <1>4, <1>5, <1>6 DEF Rustcrypto!RustcryptoStep

\* Every step keeps the invariant and is a step of AeadSpec or not to be seen.
LEMMA StepPromise ==
  ASSUME \A c \in Calls : RightLengths(c) /\ Fits(c), PromiseInv, [Next]_vars
  PROVE  PromiseInv' /\ Simulated
<1>1. CASE Start /\ UNCHANGED platform
  BY <1>1, StartPromise DEF Simulated
<1>2. CASE Step /\ UNCHANGED platform
  <2>1. CASE Stm!StmStep /\ UNCHANGED <<dma, rustcryptoVars>>
    BY <1>2, <2>1, StmPromise
  <2>2. CASE Nrf!NrfStep /\ UNCHANGED <<stmVars, rustcryptoVars>>
    BY <1>2, <2>2, NrfPromise
  <2>3. CASE Rustcrypto!RustcryptoStep /\ UNCHANGED <<stmVars, dma>>
    BY <1>2, <2>3, ExtenderPromise
  <2>4. CASE Libcrux!LibraryCall /\ UNCHANGED <<stmVars, dma, rustcryptoVars>>
    BY <1>2, <2>4, ExtenderPromise
  <2> QED
    BY <1>2, <2>1, <2>2, <2>3, <2>4 DEF Step
<1>3. CASE UNCHANGED vars
  <2>1. UNCHANGED <<platform, busy, call, message, result, pc, dma>>
        /\ UNCHANGED <<aes, items, block, msg_offset>>
        /\ UNCHANGED <<aead_buffer, cursor, slices>>
    BY <1>3 DEF vars, stmVars, rustcryptoVars
  <2>2. AeadInv'
    BY <2>1 DEF PromiseInv, AeadInv, PcInv, AesInv, DmaInv, BufferInv, OnNrf
  <2>3. CallInv'
    BY <2>1 DEF PromiseInv, CallInv
  <2>4. StmInv'
    BY <2>1, Zenon DEF PromiseInv, StmInv, Loaded, InHeader, InPayload, Aad, B0, Out, Plain,
                HeaderBlocks, Stm!KeyInUse
  <2>5. RcInv'
    BY <2>1 DEF PromiseInv, RcInv, Aad
  <2>6. NrfInv'
    <3>1. Parts' = Parts /\ OutBytes' = OutBytes
      BY <2>1, PartsStay
    <3>2. NrfInv /\ pc' = pc /\ dma' = dma
      BY <2>1 DEF PromiseInv
    <3>3. ASSUME NEW done, NEW rest, Delivered(done, rest)
          PROVE  Delivered(done, rest)'
      BY <3>1, <3>2, <3>3 DEF Delivered
    <3> QED
      BY <3>2, <3>3, Zenon DEF NrfInv
  <2>7. Simulated
    BY <2>1, Zenon DEF Simulated, Interface!aeadVars
  <2> QED
    BY <2>2, <2>3, <2>4, <2>5, <2>6, <2>7 DEF PromiseInv
<1> QED
  BY <1>1, <1>2, <1>3 DEF Next

\* Both boards and both extenders keep the promise of AeadProvider: on every
\* platform, whatever calls came before, encrypt_in_place and decrypt_in_place are
\* those of RFC 3610 or SP 800-38D, for any split of the additional data, and none of
\* them panics.  Nonce and tag must have the lengths the trait asks for.
THEOREM PromiseKept ==
  ASSUME \A c \in Calls : RightLengths(c) /\ Fits(c)
  PROVE  Spec => AeadPromise
<1>1. Init => PromiseInv /\ Interface!AeadInit
  BY InitPromise
<1>2. PromiseInv /\ [Next]_vars => PromiseInv' /\ [Interface!AeadNext]_(Interface!aeadVars)
  BY StepPromise DEF Simulated
<1> QED
  BY <1>1, <1>2, PTL DEF Spec, AeadPromise, Interface!Spec
=============================================================================
