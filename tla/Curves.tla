------------------------------- MODULE Curves -------------------------------
(***************************************************************************)
(* What the standards say of the three curves, at reduced size: scalar     *)
(* multiplication on a short Weierstrass curve y^2 = x^3 - 3x + b (P-256), *)
(* and the functions X25519 and X448 of RFC 7748 with the decoding of      *)
(* their arguments.  Nothing here is code of this repository: it is what   *)
(* the engines and libraries compute, and what the results are held        *)
(* against.                                                                *)
(*                                                                         *)
(* A 32-bit word becomes one bit.  A P-256 number keeps its eight words,   *)
(* an X25519 number has as many (its prime leaves the topmost bit unused), *)
(* an X448 number is longer.  Byte strings are sequences of these digits.  *)
(***************************************************************************)
EXTENDS Integers, Sequences, SequencesExt

CONSTANTS
  P256_B, P256_N,      \* the coefficient b and the order of the group
  P256_G,              \* the generator <<x, y>>
  MontPrime, MontA,    \* prime and coefficient A of "X25519" and "X448"
  MontBase             \* the u-coordinate of their base points

W == 2

P256_P == W^8 - W^7 + W^6 + W^3 - 1

Size == [P256 |-> 8, X25519 |-> 8, X448 |-> 10]

LeNumber[s \in Seq(Nat)] == IF s = << >> THEN 0 ELSE Head(s) + W * LeNumber[Tail(s)]

LeValue(s) == LeNumber[s]

BeValue(s) == LeValue(Reverse(s))

LeDigits(v, n) == [i \in 1 .. n |-> (v \div W^(i - 1)) % W]

BeDigits(v, n) == Reverse(LeDigits(v, n))

\* P-256 numbers are big-endian, those of RFC 7748 little-endian.
Value(curve, s) == IF curve = "P256" THEN BeValue(s) ELSE LeValue(s)
Bytes(curve, v) ==
  IF curve = "P256" THEN BeDigits(v, Size[curve]) ELSE LeDigits(v, Size[curve])

Power(b, e, p) ==
  LET pow[n \in 0 .. e] ==
        IF n = 0 THEN 1
        ELSE LET half == pow[n \div 2]
             IN  (half * half * (IF n % 2 = 1 THEN b ELSE 1)) % p
  IN  pow[e]

ModInverse(z, p) == Power(z, p - 2, p)

-----------------------------------------------------------------------------
(* P-256; << >> is the point at infinity. *)

CurveRhs(x) == (x * x * x - 3 * x + P256_B) % P256_P

\* The square roots of the right hand side.
Roots[x \in Nat] ==
  LET rhs == CurveRhs(x) IN {y \in 0 .. P256_P - 1 : (y * y) % P256_P = rhs}

OnCurve(x) == x < P256_P /\ Roots[x] # {}

\* One of the two points with coordinate x.
Lift(x) == <<x, CHOOSE y \in Roots[x] : TRUE>>

EvenLift(x) ==
  <<x, CHOOSE y \in Roots[x] : y % 2 = 0>>

Chord(p, q, slope) ==
  LET m == slope % P256_P
      x == (m * m - p[1] - q[1]) % P256_P
  IN  <<x, (m * (p[1] - x) - p[2]) % P256_P>>

EcAdd[p \in Seq(Int), q \in Seq(Int)] ==
  CASE p = << >> -> q
    [] q = << >> -> p
    [] p # << >> /\ q # << >> /\ p[1] # q[1] ->
         Chord(p, q, (q[2] - p[2]) * ModInverse((q[1] - p[1]) % P256_P, P256_P))
    [] p # << >> /\ p = q /\ p[2] # 0 ->
         Chord(p, q, (3 * p[1] * p[1] - 3) * ModInverse((2 * p[2]) % P256_P, P256_P))
    [] OTHER -> << >>

EcMul[k \in Nat, p \in Seq(Int)] ==
  CASE k = 0 -> << >>
    [] k % 2 = 1 -> EcAdd[p, EcMul[k - 1, p]]
    [] OTHER -> EcMul[k \div 2, EcAdd[p, p]]

-----------------------------------------------------------------------------
(* RFC 7748, section 5 *)

\* One step of the ladder; the swaps are folded into the choice of the operand
\* that is doubled.
LadderStep(s, bit, x1, p, a24) ==
  LET x2 == s[IF bit = 1 THEN 3 ELSE 1]
      z2 == s[IF bit = 1 THEN 4 ELSE 2]
      x3 == s[IF bit = 1 THEN 1 ELSE 3]
      z3 == s[IF bit = 1 THEN 2 ELSE 4]
      aa == ((x2 + z2) * (x2 + z2)) % p
      bb == ((x2 - z2) * (x2 - z2)) % p
      e  == (aa - bb) % p
      da == ((x3 - z3) * (x2 + z2)) % p
      cb == ((x3 + z3) * (x2 - z2)) % p
      double == <<(aa * bb) % p, (e * ((aa + a24 * e) % p)) % p>>
      sum == <<((da + cb) * (da + cb)) % p, (x1 * (((da - cb) * (da - cb)) % p)) % p>>
  IN  IF bit = 1 THEN sum \o double ELSE double \o sum

Ladder(k, u, p, a, bits) ==
  LET s[i \in 0 .. bits] ==
        IF i = 0 THEN <<1, 0, u % p, 1>>
        ELSE LadderStep(s[i - 1], (k \div 2^(bits - i)) % 2, u % p, p, (a - 2) \div 4)
      final == s[bits]
  IN  (final[1] * ModInverse(final[2], p)) % p

MontMul(curve, k, u) == Ladder(k, u, MontPrime[curve], MontA[curve], Size[curve])

\* decodeScalar25519 and decodeScalar448, decodeUCoordinate.
DecodeScalar(curve, v) ==
  LET top == 2^Size[curve] IN
  CASE curve = "P256"   -> v
    [] curve = "X25519" -> ((v - (v % 8)) % (top \div 4)) + (top \div 4)
    [] curve = "X448"   -> ((v - (v % 4)) % (top \div 2)) + (top \div 2)

DecodeU(curve, v) ==
  IF curve = "X25519" THEN v % 2^(Size[curve] - 1) ELSE v

-----------------------------------------------------------------------------
(* Diffie-Hellman on a curve: numbers, not byte strings *)

ValidScalar(curve, k) ==
  IF curve = "P256" THEN k \in 1 .. P256_N - 1 ELSE k = DecodeScalar(curve, k)

ValidU(curve, u) == curve = "P256" => OnCurve(u)

SharedX(curve, k, u) ==
  IF curve = "P256" THEN EcMul[k, Lift(u)][1] ELSE MontMul(curve, k, u)

PublicX(curve, k) ==
  IF curve = "P256" THEN EcMul[k, P256_G][1] ELSE MontMul(curve, k, MontBase[curve])

\* The reduced curves are curves: the generator is on its curve and has the
\* order of the group, no multiple of it before that is the neutral element.
ASSUME CurveAssumption ==
  /\ P256_P % 4 = 3
  /\ (P256_G[2] * P256_G[2]) % P256_P = CurveRhs(P256_G[1])
  /\ EcMul[P256_N, P256_G] = << >>
  /\ \A k \in 1 .. P256_N - 1 : EcMul[k, P256_G] # << >>

ASSUME MontAssumption ==
  /\ \A c \in {"X25519", "X448"} :
       /\ MontPrime[c] \in Nat /\ MontA[c] \in Nat /\ MontBase[c] \in Nat
       /\ MontPrime[c] > 2 /\ MontPrime[c] < W^Size[c]
       /\ MontA[c] % 4 = 2
  /\ 2 * MontPrime["X25519"] < W^Size["X25519"]

\* Arithmetic that is not built into the provers.
ASSUME PowerAssumption ==
  W^0 = 1 /\ \A i \in 0 .. 9 : W^(i + 1) = W * W^i
=============================================================================
