--------------------------- MODULE HashPeripheral ---------------------------
(***************************************************************************)
(* The STM32WBA55 HASH peripheral as its driver uses it (external: RM0493, *)
(* quoted in embedded-cal-stm32wba55/src/lib.rs).  One record holds what   *)
(* the registers hold:                                                     *)
(*   mode    CR.MODE, "hash" or "hmac"                                     *)
(*   inner   in HMAC mode, the key block taken before the message          *)
(*   words   the words written to DIN since INIT or the last DCAL          *)
(*   intact  FALSE once a context was saved where the core cannot pause:   *)
(*           its digest is worthless                                       *)
(* SHA-256 and HMAC are ideal: a digest is represented by its input.       *)
(***************************************************************************)
EXTENDS Naturals, Sequences

CONSTANTS
  WORD_SIZE,   \* bytes of a word, 4
  BLOCK_WORDS  \* words of a block, 16

\* SR.NBWE.  The input FIFO is one word longer than a block, so that the first
\* partial computation starts one word late: 17 words, then 16 each time.
\* A DCAL that completes a phase starts over.
Nbwe(hw) ==
  LET n == Len(hw.words)
  IN  IF n <= BLOCK_WORDS
        THEN (BLOCK_WORDS + 1) - n
        ELSE BLOCK_WORDS - ((n - 1) % BLOCK_WORDS)

\* The core can be suspended only when a partial computation has just ended.
Pausable(hw) ==
  LET n == Len(hw.words)
  IN  n = 0 \/ (n > BLOCK_WORDS /\ (n - 1) % BLOCK_WORDS = 0)

\* CR written with INIT set.
Reset(mode) ==
  [mode |-> mode, inner |-> << >>, words |-> << >>, intact |-> TRUE]

\* Writes to DIN.
Din(hw, words) == [hw EXCEPT !.words = @ \o words]

\* The bytes of words of which the last one has nblw valid bytes, 0 for all.
Bytes(words, nblw) ==
  LET len == Len(words) * WORD_SIZE - (IF nblw = 0 THEN 0 ELSE WORD_SIZE - nblw)
  IN  [i \in 1 .. len |->
         words[((i - 1) \div WORD_SIZE) + 1][((i - 1) % WORD_SIZE) + 1]]

\* DCAL after the message in hash mode: what the digest is the digest of.
HashDigest(hw, nblw) ==
  [intact |-> hw.intact, message |-> Bytes(hw.words, nblw)]

\* DCAL after the key in HMAC mode: the message follows.
KeyTaken(hw) == [hw EXCEPT !.inner = hw.words, !.words = << >>]

\* DCAL after the message and again after the outer key.
HmacDigest(hw, nblw, outer) ==
  [intact |-> hw.intact /\ hw.mode = "hmac", inner |-> hw.inner,
   message |-> Bytes(hw.words, nblw), outer |-> outer]

\* After a digest the core waits for the next message.
Done(hw) == [hw EXCEPT !.words = << >>]

\* Reading CSR, STR and IMR, and writing them back under a mode.
SaveContext(hw) == [hw EXCEPT !.intact = @ /\ Pausable(hw)]

Resume(ctx, mode) == [ctx EXCEPT !.mode = mode]
=============================================================================
