-------------------------------- MODULE P256 --------------------------------
(***************************************************************************)
(* util/p256.rs: the P-256 field arithmetic of the hardware back-ends, and *)
(* the RAM of their public key engines.                                    *)
(*                                                                         *)
(* Eight words [u32; 8] are the number they stand for, below RADIX; a loop *)
(* that carries from word to word leaves a number and what is carried out  *)
(* of the topmost word.                                                    *)
(***************************************************************************)
EXTENDS Curves, Functions

RADIX == W^8

P == P256_P
P256_ORDER == P256_N
B == P256_B
P256_GX == P256_G[1]
P256_GY == P256_G[2]
P256_GX_BYTES == BeDigits(P256_GX, 8)
P256_GY_BYTES == BeDigits(P256_GY, 8)
SQRT_EXP == (P + 1) \div 4

\* The most significant word is the first one of the bytes and the last one of
\* the words.
bytes_to_words(b) == BeValue(b)
words_to_bytes(w) == BeDigits(w, 8)
Word(w, i) == (w \div W^i) % W

ge(a, b) == a >= b

sub256(a, b) == (a - b) % RADIX

add_mod(a, b) ==
  LET r == (a + b) % RADIX
      carry == (a + b) \div RADIX
  IN  IF carry > 0 \/ ge(r, P) THEN sub256(r, P) ELSE r

\* The value of the accumulators of words 0 to 7, for a product of 16 words.
Accumulated[t \in Nat] ==
  LET c(i) == Word(t, i) IN
    (c(0) + c(8) + c(9) - c(11) - c(12) - c(13) - c(14))
      + W   * (c(1) + c(9) + c(10) - c(12) - c(13) - c(14) - c(15))
      + W^2 * (c(2) + c(10) + c(11) - c(13) - c(14) - c(15))
      + W^3 * (c(3) + 2 * c(11) + 2 * c(12) + c(13) - c(15) - c(8) - c(9))
      + W^4 * (c(4) + 2 * c(12) + 2 * c(13) + c(14) - c(9) - c(10))
      + W^5 * (c(5) + 2 * c(13) + 2 * c(14) + c(15) - c(10) - c(11))
      + W^6 * (c(6) + 3 * c(14) + 2 * c(15) + c(13) - c(8) - c(9))
      + W^7 * (c(7) + 3 * c(15) + c(8) - c(10) - c(11) - c(12) - c(13))

ABSORB_ROUNDS_One == 1
ABSORB_ROUNDS == 4

SUBTRACTIONS == 2

\* What is carried out stands for multiples of RADIX, and RADIX is
\* W^7 - W^6 - W^3 + 1 modulo p.
Absorbed[v \in Int, rounds \in Nat] ==
  LET adj == v \div RADIX IN
  IF rounds = 0 \/ adj = 0 THEN v
  ELSE Absorbed[(v % RADIX) + adj - adj * W^3 - adj * W^6 + adj * W^7, rounds - 1]

Subtracted[r \in Nat, n \in Nat] ==
  IF n = 0 \/ ~ge(r, P) THEN r ELSE Subtracted[sub256(r, P), n - 1]

reduce_p256(t) == Subtracted[Absorbed[Accumulated[t], ABSORB_ROUNDS] % RADIX, SUBTRACTIONS]

mul_mod(a, b) == reduce_p256(a * b)

\* Square and multiply from the least significant bit on.
PowLoop[result \in Nat, base \in Nat, exp \in Nat, bits \in Nat] ==
  IF bits = 0 THEN result
  ELSE PowLoop[IF Word(exp, 0) # 0 THEN mul_mod(result, base) ELSE result,
               mul_mod(base, base), exp \div W, bits - 1]

pow_mod(base, exp, bits) == PowLoop[1, base, exp, bits]

Coordinates == [1 .. 8 -> 0 .. W - 1]

\* The y coordinate as a set: empty for ImportError.
p256_recover_y[x_bytes \in Coordinates] ==
  LET x   == bytes_to_words(x_bytes)
      a   == sub256(P, 3)
      x3  == mul_mod(mul_mod(x, x), x)
      rhs == add_mod(add_mod(x3, mul_mod(a, x)), B)
      y   == pow_mod(rhs, SQRT_EXP, 8)
  IN  IF ge(x, P) \/ mul_mod(y, y) # rhs THEN {} ELSE {words_to_bytes(y)}

-----------------------------------------------------------------------------
(* The RAM of a public key engine, as a function of the words that are not  *)
(* zero.                                                                    *)

ZeroRam == [a \in {} |-> 0]

RamWord(ram, a) == IF a \in DOMAIN ram THEN ram[a] ELSE 0

WriteWords(ram, writes) ==
  LET all == [a \in DOMAIN writes \cup DOMAIN ram |->
                IF a \in DOMAIN writes THEN writes[a] ELSE ram[a]]
  IN  Restrict(all, {a \in DOMAIN all : all[a] # 0})
=============================================================================
