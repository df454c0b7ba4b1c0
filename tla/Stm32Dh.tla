------------------------------- MODULE Stm32Dh ------------------------------
(***************************************************************************)
(* The DhProvider of the STM32WBA55 (dh.rs) and the PKA it multiplies on:  *)
(* operands are laid out in the PKA's RAM, the PKA computes, the driver    *)
(* polls.  The offsets are the real ones; words that are zero are not in   *)
(* pka.ram.  What may fail with ImportError is a set, empty if it does.    *)
(***************************************************************************)
EXTENDS P256, TLC

VARIABLE pka    \* [ram, busy]

RAM_N_LEN == 0
RAM_P_LEN == 2
RAM_A_SIGN == 4
RAM_A == 6
RAM_POINT_Y == 28
RAM_B == 72
RAM_POINT_X == 94      \* also the result's
RAM_RESULT_Y == 116
RAM_N == 738
RAM_P == 802
RAM_K == 936
PKA_RAM_WORDS == 667

P256_COEF_A_MAGNITUDE == 3
Negative == 1

\* `new` waits until the PKA has erased its RAM.
PkaInit == pka = [ram |-> ZeroRam, busy |-> FALSE]

-----------------------------------------------------------------------------
(* DhAlgorithm and keys *)

from_cose_ecdh(n) == IF n = 1 THEN {"P256"} ELSE {}

\* One draw of the random number generator; empty if the loop goes on.
generate_visible(curve, random) ==
  LET w == bytes_to_words(random)
  IN  IF w # 0 /\ ~ge(w, P256_ORDER) THEN {random} ELSE {}

import_secretkey_bytes(curve, secret) == {s \in {secret} : Len(s) = Size["P256"]}

import_publickey_bytes(curve, data) ==
  {[x |-> data, y |-> y] :
     y \in IF Len(data) = Size["P256"] THEN p256_recover_y[data] ELSE {}}

-----------------------------------------------------------------------------
(* PKA RAM *)

\* pka_write_field and pka_read_field
Field(start, words) == [a \in start .. start + 7 |-> Word(words, a - start)]

ReadField(ram, start) == LeValue([i \in 1 .. 8 |-> RamWord(ram, start + i - 1)])

pka_zero_ram(ram) == Restrict(ram, {a \in DOMAIN ram : a >= PKA_RAM_WORDS})

OperandWrites(scalar, x, y) ==
  (RAM_N_LEN :> 8) @@ (RAM_P_LEN :> 8) @@ (RAM_A_SIGN :> Negative)
    @@ Field(RAM_A, P256_COEF_A_MAGNITUDE) @@ Field(RAM_B, B) @@ Field(RAM_P, P)
    @@ Field(RAM_N, P256_ORDER) @@ Field(RAM_POINT_X, x) @@ Field(RAM_POINT_Y, y)
    @@ Field(RAM_K, scalar)

-----------------------------------------------------------------------------
(* The driver: up to START, and from the end of BUSY to the return *)

PkaStart(scalar, x, y) ==
  pka' = [ram |-> WriteWords(pka_zero_ram(pka.ram), OperandWrites(scalar, x, y)),
          busy |-> TRUE]

PkaResult_InputY ==
  [x |-> ReadField(pka.ram, RAM_POINT_X), y |-> ReadField(pka.ram, RAM_POINT_Y)]

PkaResult ==
  [x |-> ReadField(pka.ram, RAM_POINT_X), y |-> ReadField(pka.ram, RAM_RESULT_Y)]

PkaFinish ==
  /\ ~pka.busy
  /\ pka' = [pka EXCEPT !.ram = pka_zero_ram(@)]

\* shared_secret and public_key.
MultiplyStart(curve, scalar, point) ==
  PkaStart(bytes_to_words(scalar), bytes_to_words(point.x), bytes_to_words(point.y))

MultiplyResult(curve) ==
  [x |-> words_to_bytes(PkaResult.x), y |-> words_to_bytes(PkaResult.y)]

BasePoint(curve) == [x |-> words_to_bytes(P256_GX), y |-> words_to_bytes(P256_GY)]

-----------------------------------------------------------------------------
(* The PKA (external) *)

\* An operand is read up to the two words behind it, which must be zero.
Operand(start) ==
  ReadField(pka.ram, start)
    + RADIX * (RamWord(pka.ram, start + 8) + RamWord(pka.ram, start + 9))

PkaConfigured ==
  /\ RamWord(pka.ram, RAM_N_LEN) = 8
  /\ RamWord(pka.ram, RAM_P_LEN) = 8
  /\ RamWord(pka.ram, RAM_A_SIGN) = Negative
  /\ Operand(RAM_A) = 3
  /\ Operand(RAM_B) = P256_B
  /\ Operand(RAM_P) = P256_P
  /\ Operand(RAM_N) = P256_N

\* Computes on the curve its RAM describes; with other parameters the result
\* area keeps what it holds.
PkaCompute ==
  LET r == EcMul[Operand(RAM_K), <<Operand(RAM_POINT_X), Operand(RAM_POINT_Y)>>]
  IN
  /\ pka.busy
  /\ pka' = [busy |-> FALSE,
             ram |-> IF PkaConfigured
                       THEN WriteWords(pka.ram, Field(RAM_POINT_X, r[1])
                                                  @@ Field(RAM_RESULT_Y, r[2]))
                       ELSE pka.ram]
=============================================================================
