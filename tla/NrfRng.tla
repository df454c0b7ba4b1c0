------------------------------- MODULE NrfRng -------------------------------
(***************************************************************************)
(* The nRF54L15 random number generator: try_fill_bytes                    *)
(* (embedded-cal-nrf54l15/src/try_rng.rs) against the CRACEN TRNG, which   *)
(* fills a FIFO on its own until a health test fails.  A read of a         *)
(* register is one step; the TRNG may change between any two of them.      *)
(***************************************************************************)
EXTENDS Naturals

CONSTANTS
  WORD_SIZE,          \* bytes of a FIFO word, 4
  MAX_TRNG_RESTARTS,  \* 3
  FifoDepth,          \* words the FIFO holds
  Lengths             \* the lengths of dst that callers pass

VARIABLES
  fsm,        \* STATUS.STATE: "STARTUP", "FILLFIFO" or "ERROR"
  fifolevel,  \* words in the FIFO
  underrun,   \* history: the FIFO was read when empty
  pc,         \* where the driver is
  left,       \* dst.len()
  restarts,   \* local of the same name
  level       \* local of the same name, counted down by the draining loop

trngVars == <<fsm, fifolevel>>
vars == <<trngVars, underrun, pc, left, restarts, level>>

-----------------------------------------------------------------------------
(* The TRNG (external) *)

Fill ==
  /\ fsm # "ERROR" /\ fifolevel < FifoDepth
  /\ fsm' = "FILLFIFO"
  /\ fifolevel' = fifolevel + 1
  /\ UNCHANGED <<underrun, pc, left, restarts, level>>

\* A health test fails: the FIFO stops refilling until a soft reset.
Fail ==
  /\ fsm # "ERROR"
  /\ fsm' = "ERROR"
  /\ UNCHANGED <<fifolevel, underrun, pc, left, restarts, level>>

-----------------------------------------------------------------------------
(* new: the first word of the FIFO is thrown away *)

DiscardFirst ==
  /\ pc = "new" /\ fifolevel > 0
  /\ fifolevel' = fifolevel - 1
  /\ pc' = "ready"
  /\ UNCHANGED <<fsm, underrun, left, restarts, level>>

-----------------------------------------------------------------------------
(* try_fill_bytes *)

FillBytes(n) ==
  /\ pc = "ready"
  /\ pc' = "check"
  /\ left' = n
  /\ restarts' = 0
  /\ UNCHANGED <<trngVars, underrun, level>>

CheckError_ForgetsGivingUp ==
  /\ pc = "check" /\ fsm = "ERROR"
  /\ restarts' = restarts + 1
  /\ fsm' = "STARTUP" /\ fifolevel' = 0
  /\ UNCHANGED <<underrun, pc, left, level>>

\* The FSM is in ERROR: count, give up or pulse softrst, which flushes the
\* FIFO and starts over.
CheckError ==
  /\ pc = "check" /\ fsm = "ERROR"
  /\ restarts' = restarts + 1
  /\ IF restarts + 1 > MAX_TRNG_RESTARTS
       THEN pc' = "panicked" /\ UNCHANGED trngVars
       ELSE fsm' = "STARTUP" /\ fifolevel' = 0 /\ UNCHANGED pc
  /\ UNCHANGED <<underrun, left, level>>

CheckOk ==
  /\ pc = "check" /\ fsm # "ERROR"
  /\ pc' = "wait"
  /\ UNCHANGED <<trngVars, underrun, left, restarts, level>>

\* The loop that waits for the FIFO looks at nothing but its level.
WaitFifo ==
  /\ pc = "wait" /\ fifolevel > 0
  /\ level' = fifolevel
  /\ pc' = "drain"
  /\ UNCHANGED <<trngVars, underrun, left, restarts>>

Take == IF left < WORD_SIZE THEN left ELSE WORD_SIZE

DrainWord_ForgetsLevel ==
  /\ pc = "drain"
  /\ fifolevel' = IF fifolevel = 0 THEN 0 ELSE fifolevel - 1
  /\ underrun' = (underrun \/ fifolevel = 0)
  /\ left' = left - Take
  /\ pc' = IF left = Take THEN "ready" ELSE "drain"
  /\ UNCHANGED <<fsm, restarts, level>>

\* One iteration of the draining loop; it ends with dst or with level.
DrainWord ==
  /\ pc = "drain"
  /\ fifolevel' = IF fifolevel = 0 THEN 0 ELSE fifolevel - 1
  /\ underrun' = (underrun \/ fifolevel = 0)
  /\ left' = left - Take
  /\ level' = level - 1
  /\ pc' = IF left = Take THEN "ready" ELSE IF level = 1 THEN "check" ELSE "drain"
  /\ UNCHANGED <<fsm, restarts>>

Driver == DiscardFirst \/ CheckError \/ CheckOk \/ WaitFifo \/ DrainWord

-----------------------------------------------------------------------------

\* new has enabled the TRNG.
Init ==
  /\ fsm = "STARTUP"
  /\ fifolevel = 0
  /\ underrun = FALSE
  /\ pc = "new"
  /\ left = 0
  /\ restarts = 0
  /\ level = 0

Next ==
  \/ Fill \/ Fail
  \/ Driver
  \/ \E n \in Lengths : FillBytes(n)

\* A call runs on the caller's CPU, and a TRNG without an error fills its
\* FIFO.
FairSpec == Init /\ [][Next]_vars /\ WF_vars(Driver) /\ WF_vars(Fill)

-----------------------------------------------------------------------------
(* Properties *)

TypeOK ==
  /\ fsm \in {"STARTUP", "FILLFIFO", "ERROR"}
  /\ fifolevel \in 0 .. FifoDepth
  /\ underrun \in BOOLEAN
  /\ pc \in {"new", "ready", "check", "wait", "drain", "panicked"}
  /\ left \in Nat
  /\ restarts \in 0 .. MAX_TRNG_RESTARTS + 1
  /\ level \in 0 .. FifoDepth

(***************************************************************************)
(* The draining loop pops only words that are there, though it relies on a *)
(* level read before the first pop and the TRNG may fail meanwhile.        *)
(***************************************************************************)
NoUnderrun == ~underrun

\* Stuck in a loop that waits for a FIFO that nothing fills any more.
Hung == pc \in {"new", "wait"} /\ fsm = "ERROR" /\ fifolevel = 0

(***************************************************************************)
(* A call ends, with bytes or a panic, unless the TRNG fails after the     *)
(* state was checked and before a word arrived: this is the only hang.     *)
(***************************************************************************)
EndsOrHangs == pc # "ready" ~> (pc \in {"ready", "panicked"} \/ Hung)

(***************************************************************************)
(* What the comment in try_fill_bytes wants of the check of the FSM state: *)
(* that a call does not hang when the TRNG enters ERROR.                   *)
(***************************************************************************)
FillEnds == pc = "check" ~> pc \in {"ready", "panicked"}
=============================================================================
