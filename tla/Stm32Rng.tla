------------------------------ MODULE Stm32Rng ------------------------------
(***************************************************************************)
(* The STM32WBA55 random number generator: init_rng and try_fill_bytes     *)
(* (embedded-cal-stm32wba55/src/lib.rs, try_rng.rs) polling a peripheral   *)
(* that runs on its own.  A read of a register is one step; the peripheral *)
(* may change between any two of them.                                     *)
(*                                                                         *)
(* The peripheral is external.  A random word is represented by its        *)
(* quality: "first" for the first one after a conditioning reset, which    *)
(* must not be used, "good" for the later ones; "zero" is what DR reads    *)
(* when it holds no word.                                                  *)
(***************************************************************************)
EXTENDS Naturals

CONSTANTS
  WORD_SIZE,         \* bytes of a word, 4
  MAX_SEED_RETRIES,  \* 3
  WaitTries,         \* polls of wait_for before it panics, 1000
  Lengths,           \* the lengths of dst that callers pass
  MaxClockErrors     \* bound: clock errors of the peripheral

ASSUME RngAssumption ==
  /\ WORD_SIZE \in Nat \ {0} /\ MAX_SEED_RETRIES \in Nat
  /\ WaitTries \in Nat \ {0} /\ MaxClockErrors \in Nat
  /\ Lengths \subseteq Nat \ {0}

VARIABLES
  condrst,      \* CR.CONDRST as the peripheral sees it
  seis,         \* SR.SEIS, latched seed error
  ceis,         \* SR.CEIS, latched clock error
  dr,           \* DR: "none" (SR.DRDY = 0), "first" or "good"
  fresh,        \* no word was produced since the conditioning reset
  clockErrors,  \* clock errors so far
  pc,           \* where the driver is
  tries,        \* polls made by wait_for
  left,         \* dst.len() in try_fill_bytes
  seed_errors,  \* its local of the same name
  got           \* history: qualities of the words copied to callers

rngVars == <<condrst, seis, ceis, dr, fresh, clockErrors>>
drvVars == <<pc, tries, left, seed_errors, got>>
vars == <<rngVars, drvVars>>

-----------------------------------------------------------------------------
(* The peripheral (external) *)

TakeCondrst ==
  \/ condrst = "asserting" /\ condrst' = "on" /\ dr' = "none" /\ fresh' = TRUE
  \/ condrst = "deasserting" /\ condrst' = "off" /\ UNCHANGED <<dr, fresh>>

Reset == TakeCondrst /\ UNCHANGED <<seis, ceis, clockErrors, drvVars>>

Produce ==
  /\ condrst = "off" /\ ~seis /\ dr = "none"
  /\ dr' = IF fresh THEN "first" ELSE "good"
  /\ fresh' = FALSE
  /\ UNCHANGED <<condrst, seis, ceis, clockErrors, drvVars>>

SeedError ==
  /\ condrst # "on" /\ ~seis
  /\ seis' = TRUE
  /\ dr' = "none"
  /\ UNCHANGED <<condrst, ceis, fresh, clockErrors, drvVars>>

\* Clock errors are not detected during conditioning (CR.CED).
ClockError ==
  /\ condrst \notin {"asserting", "on"}
  /\ clockErrors < MaxClockErrors /\ ~ceis
  /\ ceis' = TRUE
  /\ clockErrors' = clockErrors + 1
  /\ UNCHANGED <<condrst, seis, dr, fresh, drvVars>>

-----------------------------------------------------------------------------
(* init_rng, called by new and after a seed error *)

\* wait_for: poll until cond, panic after WaitTries polls.
Wait(here, cond, next) ==
  /\ pc = here
  /\ IF cond THEN pc' = next /\ tries' = 0
     ELSE IF tries + 1 < WaitTries THEN tries' = tries + 1 /\ UNCHANGED pc
     ELSE pc' = "panicked" /\ UNCHANGED tries
  /\ UNCHANGED <<left, seed_errors, got>>

WaitCondrstOn ==
  /\ Wait("wait_on", condrst = "on", "wait_off")
  /\ condrst' = IF condrst = "on" THEN "deasserting" ELSE condrst
  /\ UNCHANGED <<seis, ceis, dr, fresh, clockErrors>>

\* The seed error latched during the reset is cleared.
WaitCondrstOff ==
  /\ Wait("wait_off", condrst = "off", "wait_first")
  /\ seis' = (seis /\ condrst # "off")
  /\ UNCHANGED <<condrst, ceis, dr, fresh, clockErrors>>

WaitFirst ==
  /\ Wait("wait_first", dr # "none" \/ seis, "check_first")
  /\ UNCHANGED rngVars

CheckFirst ==
  /\ pc = "check_first"
  /\ pc' = IF seis THEN "panicked" ELSE "discard"
  /\ UNCHANGED <<rngVars, tries, left, seed_errors, got>>

Discard_ForgetsRead ==
  /\ pc = "discard"
  /\ pc' = IF left = 0 THEN "ready" ELSE "poll"
  /\ UNCHANGED <<rngVars, tries, left, seed_errors, got>>

\* The first word is read and thrown away; new or the loop goes on.
Discard ==
  /\ pc = "discard"
  /\ dr' = "none"
  /\ pc' = IF left = 0 THEN "ready" ELSE "poll"
  /\ UNCHANGED <<condrst, seis, ceis, fresh, clockErrors, tries, left,
                 seed_errors, got>>

InitRng == WaitCondrstOn \/ WaitCondrstOff \/ WaitFirst \/ CheckFirst \/ Discard

-----------------------------------------------------------------------------
(* try_fill_bytes *)

FillBytes(n) ==
  /\ pc = "ready"
  /\ pc' = "poll"
  /\ left' = n
  /\ seed_errors' = 0
  /\ UNCHANGED <<rngVars, tries, got>>

PollSeedError_ForgetsCount ==
  /\ pc = "poll" /\ seis
  /\ pc' = "wait_on"
  /\ seis' = FALSE
  /\ condrst' = "asserting"
  /\ UNCHANGED <<ceis, dr, fresh, clockErrors, tries, left, seed_errors, got>>

\* SEIS: count, give up or clear the flag and start init_rng again.
PollSeedError ==
  /\ pc = "poll" /\ seis
  /\ seed_errors' = seed_errors + 1
  /\ IF seed_errors + 1 > MAX_SEED_RETRIES
       THEN pc' = "panicked" /\ UNCHANGED <<seis, condrst>>
       ELSE pc' = "wait_on" /\ seis' = FALSE /\ condrst' = "asserting"
  /\ UNCHANGED <<ceis, dr, fresh, clockErrors, tries, left, got>>

PollClockError ==
  /\ pc = "poll" /\ ~seis /\ ceis
  /\ ceis' = FALSE
  /\ UNCHANGED <<condrst, seis, dr, fresh, clockErrors, drvVars>>

PollReady ==
  /\ pc = "poll" /\ ~seis /\ ~ceis /\ dr # "none"
  /\ pc' = "read"
  /\ UNCHANGED <<rngVars, tries, left, seed_errors, got>>

Take == IF left < WORD_SIZE THEN left ELSE WORD_SIZE

ReadWord ==
  /\ pc = "read"
  /\ got' = got \cup {IF dr = "none" THEN "zero" ELSE dr}
  /\ dr' = "none"
  /\ left' = left - Take
  /\ seed_errors' = 0
  /\ pc' = IF left = Take THEN "ready" ELSE "poll"
  /\ UNCHANGED <<condrst, seis, ceis, fresh, clockErrors, tries>>

Driver ==
  InitRng \/ PollSeedError \/ PollClockError \/ PollReady \/ ReadWord

-----------------------------------------------------------------------------

\* new has enabled the clock and written CR; its init_rng is under way.
Init ==
  /\ condrst = "asserting"
  /\ seis = FALSE
  /\ ceis = FALSE
  /\ dr = "none"
  /\ fresh = TRUE
  /\ clockErrors = 0
  /\ pc = "wait_on"
  /\ tries = 0
  /\ left = 0
  /\ seed_errors = 0
  /\ got = {}

Next ==
  \/ Reset \/ Produce \/ SeedError \/ ClockError
  \/ Driver
  \/ \E n \in Lengths : FillBytes(n)

Spec == Init /\ [][Next]_vars

\* A call runs on the caller's CPU, and a peripheral without an error
\* produces words.  Nothing is assumed of how often seed errors happen.
FairSpec == Spec /\ WF_vars(Driver) /\ WF_vars(Produce)

-----------------------------------------------------------------------------
(* Properties *)

TypeOK ==
  /\ condrst \in {"asserting", "on", "deasserting", "off"}
  /\ seis \in BOOLEAN /\ ceis \in BOOLEAN /\ fresh \in BOOLEAN
  /\ dr \in {"none", "first", "good"}
  /\ clockErrors \in 0 .. MaxClockErrors
  /\ pc \in {"wait_on", "wait_off", "wait_first", "check_first", "discard",
             "ready", "poll", "read", "panicked"}
  /\ tries \in 0 .. WaitTries - 1
  /\ left \in Nat
  /\ seed_errors \in 0 .. MAX_SEED_RETRIES + 1
  /\ got \subseteq {"first", "good", "zero"}

(***************************************************************************)
(* The first word after a conditioning reset never reaches a caller, even  *)
(* when a seed error strikes between the check and the read that discards  *)
(* it, or while an earlier one is being recovered from.                    *)
(***************************************************************************)
FirstWordDiscarded == "first" \notin got

(***************************************************************************)
(* try_fill_bytes and init_rng return or panic, however many seed errors   *)
(* the source has and whenever they strike: no path spins forever.         *)
(***************************************************************************)
FillEnds == pc # "ready" ~> pc \in {"ready", "panicked"}
=============================================================================
