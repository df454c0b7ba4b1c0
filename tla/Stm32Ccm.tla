------------------------------ MODULE Stm32Ccm ------------------------------
(***************************************************************************)
(* The AeadProvider of the STM32WBA55 (embedded-cal-stm32wba55/src/        *)
(* aead.rs): the four phases of CCM on the AES peripheral, whose registers *)
(* keep what the previous call left in them.  An iteration of a loop is    *)
(* one step.                                                               *)
(***************************************************************************)
EXTENDS AeadSpec

VARIABLES
  pc,          \* phase of the call in progress
  aes,         \* the peripheral
  items,       \* run_header_phase: what is left of the additional data
  block,       \* run_header_phase: the block being filled
  msg_offset   \* run_payload_phase: local of the same name

stmVars == <<aes, items, block, msg_offset>>

-----------------------------------------------------------------------------
(* The AES peripheral (external).  keyr holds the upper and the lower half *)
(* of the key registers; mac is what the MAC has run over, ctr the number  *)
(* of payload bytes; misused is set by a block that came when the phase    *)
(* does not take one.                                                      *)

PowerOn ==
  [en |-> FALSE, gcmph |-> "init", mode |-> "encrypt", keysize |-> FALSE,
   keyr |-> <<"none", "none">>, ivr |-> << >>, npblb |-> 0,
   mac |-> << >>, ctr |-> 0, misused |-> FALSE]

\* The key in use: AES-128 looks at the lower half only.
KeyInUse(a) ==
  IF a.keysize THEN [alg |-> 11, bytes |-> a.keyr]
  ELSE [alg |-> 10, bytes |-> <<"none", a.keyr[2]>>]

\* The last NPBLB bytes of a block do not count for the MAC.
Masked(a, b) == SubSeq(b, 1, BLOCK - a.npblb) \o Zeros(a.npblb)

\* EN in the init phase: the MAC starts with B0; EN is cleared at the end.
StartMac(a) ==
  [a EXCEPT !.mac = a.ivr, !.ctr = 0, !.en = FALSE, !.misused = FALSE]

TakeHeader(a, b) ==
  [a EXCEPT !.mac = @ \o b, !.misused = @ \/ ~a.en \/ a.gcmph # "header"]

Output(a, b) == Crypt(KeyInUse(a), NonceOf(a.ivr), a.ctr, b)

TakePayload(a, b) ==
  [a EXCEPT
     !.mac = @ \o Masked(a, IF a.mode = "encrypt" THEN b ELSE Output(a, b)),
     !.ctr = @ + BLOCK,
     !.misused = @ \/ ~a.en \/ a.gcmph # "payload"]

\* The tag block of the final phase; worthless after a misuse.
TagBlock(a) ==
  [key |-> KeyInUse(a), nonce |-> NonceOf(a.ivr),
   input |-> IF a.misused THEN << >> ELSE a.mac]

-----------------------------------------------------------------------------
(* The driver *)

StmInit ==
  /\ pc = "idle"
  /\ aes = PowerOn
  /\ items = << >>
  /\ block = << >>
  /\ msg_offset = 0

\* The algorithm, as a set: empty for None.
from_cose_number(n) == {n} \cap CcmAlgorithms

Start(c) ==
  /\ pc = "idle"
  /\ Begin(c)
  /\ pc' = "init"
  /\ UNCHANGED stmVars

ALen(aad) == Len(FlattenSeq(aad))

\* write_key_128 leaves the upper half alone.
WriteKey(keyr, key) ==
  IF key.alg = 11 THEN key.bytes ELSE <<keyr[1], key.bytes[2]>>

Configured_ForgetsNpblb(a) ==
  [a EXCEPT !.en = FALSE, !.keysize = (call.key.alg = 11), !.mode = call.op,
            !.gcmph = "init"]

\* CR with EN off.
Configured(a) ==
  [a EXCEPT !.en = FALSE, !.keysize = (call.key.alg = 11), !.mode = call.op,
            !.gcmph = "init", !.npblb = 0]

InitPanic ==
  /\ aes' = Configured(aes)
  /\ pc' = "panicked"
  /\ busy' = FALSE
  /\ result' = [status |-> "panicked", tag |-> {}]
  /\ UNCHANGED <<call, message>>

InitDone ==
  /\ aes' = StartMac([Configured(aes) EXCEPT
                        !.ivr = build_b0(call.nonce, Len(message),
                                         ALen(call.aad), TAG_LEN),
                        !.keyr = WriteKey(@, call.key)])
  /\ pc' = IF ALen(call.aad) > 0 THEN "header_start" ELSE "payload_start"
  /\ UNCHANGED aeadVars

\* B0 is built when CR is written and before the key is.
InitPhase ==
  /\ pc = "init"
  /\ IF B0Panics(call.nonce) THEN InitPanic ELSE InitDone
  /\ UNCHANGED <<items, block, msg_offset>>

HeaderStart ==
  /\ pc = "header_start"
  /\ aes' = [aes EXCEPT !.gcmph = "header", !.en = TRUE]
  /\ items' = call.aad
  /\ block' = BigEndian(ALen(call.aad), 2)
  /\ pc' = "header"
  /\ UNCHANGED <<aeadVars, msg_offset>>

\* n: what is left of the slice or of the block.
HeaderBytes ==
  LET left == Len(Head(items))
  IN  IF left < BLOCK - Len(block) THEN left ELSE BLOCK - Len(block)

\* An iteration over a slice; a full block is fed and a new one begun.
HeaderFill ==
  LET n == HeaderBytes
      slice == Head(items)
      filled == block \o SubSeq(slice, 1, n)
  IN  /\ pc = "header" /\ items # << >>
      /\ items' = (IF n < Len(slice) THEN <<SubSeq(slice, n + 1, Len(slice))>>
                   ELSE << >>) \o Tail(items)
      /\ IF Len(filled) = BLOCK
           THEN aes' = TakeHeader(aes, filled) /\ block' = << >>
           ELSE block' = filled /\ UNCHANGED aes
      /\ UNCHANGED <<aeadVars, pc, msg_offset>>

\* A partial last block is fed with zeros behind it.
HeaderEnd ==
  /\ pc = "header" /\ items = << >>
  /\ aes' = IF block = << >> THEN aes ELSE TakeHeader(aes, ZeroPadded(block))
  /\ block' = << >>
  /\ pc' = "payload_start"
  /\ UNCHANGED <<aeadVars, items, msg_offset>>

PayloadStart ==
  /\ pc = "payload_start"
  /\ aes' = [aes EXCEPT !.gcmph = "payload", !.en = TRUE]
  /\ msg_offset' = 0
  /\ pc' = "payload"
  /\ UNCHANGED <<aeadVars, items, block>>

Chunk ==
  IF Len(message) - msg_offset < BLOCK THEN Len(message) - msg_offset ELSE BLOCK

\* NPBLB is set for a partial last block, when decrypting.
WithNpblb(a) ==
  IF call.op = "decrypt" /\ Chunk < BLOCK
    THEN [a EXCEPT !.npblb = BLOCK - Chunk] ELSE a

PayloadBlock ==
  LET from == msg_offset + 1
      upto == msg_offset + Chunk
      b == ZeroPadded(SubSeq(message, from, upto))
      a == WithNpblb(aes)
  IN  /\ pc = "payload" /\ msg_offset < Len(message)
      /\ aes' = TakePayload(a, b)
      /\ message' = [i \in 1 .. Len(message) |->
                       IF i \in from .. upto
                         THEN Output(a, b)[i - msg_offset] ELSE message[i]]
      /\ msg_offset' = upto
      /\ UNCHANGED <<busy, call, result, pc, items, block>>

\* tags_match: the same length and the same bytes.
TagsMatch(tag) == tag = {[mac |-> TagBlock(aes), len |-> TAG_LEN]}

FinalPhase ==
  /\ pc = "payload" /\ msg_offset >= Len(message)
  /\ aes' = [aes EXCEPT !.gcmph = "final", !.en = FALSE, !.mac = << >>, !.ctr = 0]
  /\ result' =
       IF call.op = "encrypt"
         THEN [status |-> "Ok",
               tag |-> {[mac |-> TagBlock(aes), len |-> TAG_LEN]}]
         ELSE [status |-> IF TagsMatch(call.tag) THEN "Ok" ELSE "DecryptionFailed",
               tag |-> {}]
  /\ busy' = FALSE
  /\ pc' = "idle"
  /\ UNCHANGED <<call, message, items, block, msg_offset>>

StmStep ==
  \/ InitPhase
  \/ HeaderStart \/ HeaderFill \/ HeaderEnd
  \/ PayloadStart \/ PayloadBlock
  \/ FinalPhase
=============================================================================
