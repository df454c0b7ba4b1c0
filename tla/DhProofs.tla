------------------------------ MODULE DhProofs ------------------------------
(***************************************************************************)
(* Proofs about the DhProviders: no secret key stays in the nRF54L15's     *)
(* public key engine, and its keys are decoded as their types say.         *)
(***************************************************************************)
EXTENDS DhProviders, SequenceTheorems, NaturalsInduction, WellFoundedInduction, TLAPS

-----------------------------------------------------------------------------
(* Induction over the numbers *)

\* Every set of numbers has a least one.
LEMMA LeastNumber ==
  ASSUME NEW N, N \subseteq Nat, N # {}
  PROVE  \E m \in N : \A k \in N : m <= k
<1> DEFINE R == OpToRel(<, Nat)
<1>1. \A x \in Nat, y \in Nat : y < x => <<y, x>> \in R
  BY DEF OpToRel
<1>2. IsWellFoundedOn(R, Nat)
  BY NatLessThanWellFounded, Zenon
<1> HIDE DEF R
<1>3. PICK m \in N : \A y \in N : ~(<<y, m>> \in R)
  BY <1>2, WFMin
<1>4. ASSUME NEW k \in N PROVE m <= k
  <2>1. m \in Nat /\ k \in Nat
    OBVIOUS
  <2>2. ~(k < m)
    BY <1>1, <1>3, <2>1
  <2> QED
    BY <2>1, <2>2
<1> QED
  BY <1>4

\* Induction, for a property given as a set.
LEMMA SetInduction ==
  ASSUME NEW N, 0 \in N, \A n \in Nat : n \in N => n + 1 \in N
  PROVE  Nat \subseteq N
<1> SUFFICES ASSUME Nat \ N # {} PROVE FALSE
  OBVIOUS
<1>1. PICK m \in Nat \ N : \A k \in Nat \ N : m <= k
  BY LeastNumber
<1>2. m # 0 /\ m - 1 \in Nat
  BY <1>1
<1> QED
  BY <1>1, <1>2

-----------------------------------------------------------------------------
(* Numbers from digits *)

\* A function over 1 .. n is a sequence.
LEMMA FunctionIsSeq ==
  ASSUME NEW S, NEW n \in Nat, NEW f \in [1 .. n -> S]
  PROVE  f \in Seq(S) /\ Len(f) = n /\ DOMAIN f = 1 .. n
OBVIOUS

\* A sequence is the function from positions to its items.
LEMMA SeqIsFunction ==
  ASSUME NEW S, NEW s \in Seq(S)
  PROVE  s = [i \in 1 .. Len(s) |-> s[i]]
OBVIOUS

Rest(f, s) == IF s = << >> THEN 0 ELSE Head(s) + W * f[Tail(s)]

UpTo(n) == {s \in Seq(Nat) : Len(s) <= n}

\* f reads the digit strings of at most n digits as LeNumber does.
Reads(f, n) == f = [s \in UpTo(n) |-> Rest(f, s)]

\* What follows the first digit is shorter.
LEMMA TailShorter ==
  ASSUME NEW n \in Nat, NEW s \in UpTo(n + 1), s # << >>
  PROVE  Tail(s) \in UpTo(n) /\ Len(Tail(s)) = Len(s) - 1
BY DEF UpTo

\* Such functions exist, by induction on n.
LEMMA ReadsExists == \A n \in Nat : \E f : Reads(f, n)
<1> DEFINE N == {n \in Nat : \E f : Reads(f, n)}
<1>1. 0 \in N
  <2>1. \A s \in UpTo(0) : s = << >>
    BY DEF UpTo
  <2>2. Reads([s \in UpTo(0) |-> 0], 0)
    BY <2>1 DEF Reads, Rest
  <2> QED
    BY <2>2
<1>2. ASSUME NEW n \in Nat, n \in N PROVE n + 1 \in N
  <2>1. PICK f : Reads(f, n)
    BY <1>2
  <2> DEFINE g == [s \in UpTo(n + 1) |-> Rest(f, s)]
  <2>2. \A s \in UpTo(n) : g[s] = f[s]
    <3>1. UpTo(n) \subseteq UpTo(n + 1)
      BY DEF UpTo
    <3>2. \A s \in UpTo(n) : f[s] = Rest(f, s)
      BY <2>1 DEF Reads
    <3> QED
      BY <3>1, <3>2
  <2>3. \A s \in UpTo(n + 1) : g[s] = Rest(f, s)
    OBVIOUS
  <2>4. g = [s \in UpTo(n + 1) |-> g[s]]
    OBVIOUS
  <2> HIDE DEF g
  <2>5. \A s \in UpTo(n + 1) : Rest(f, s) = Rest(g, s)
    BY <2>2, TailShorter DEF Rest
  <2>6. Reads(g, n + 1)
    BY <2>3, <2>4, <2>5 DEF Reads
  <2> QED
    BY <2>6
<1> HIDE DEF N
<1>3. Nat \subseteq N
  BY <1>1, <1>2, SetInduction
<1> QED
  BY <1>3 DEF N

\* They agree.
LEMMA ReadsAgree ==
  ASSUME NEW f, NEW g, NEW n \in Nat, NEW m \in Nat, Reads(f, n), Reads(g, m),
         NEW s \in Seq(Nat), Len(s) <= n, Len(s) <= m
  PROVE  f[s] = g[s]
<1> DEFINE Good(k) == \A t \in Seq(Nat) : Len(t) = k /\ k <= n /\ k <= m => f[t] = g[t]
           N == {k \in Nat : Good(k)}
<1>1. \A t \in Seq(Nat) : Len(t) <= n => f[t] = Rest(f, t)
  BY DEF Reads, UpTo
<1>2. \A t \in Seq(Nat) : Len(t) <= m => g[t] = Rest(g, t)
  BY DEF Reads, UpTo
<1>3. 0 \in N
  <2>1. \A t \in Seq(Nat) : Len(t) = 0 => t = << >>
    OBVIOUS
  <2> QED
    BY <1>1, <1>2, <2>1 DEF Rest
<1>4. ASSUME NEW k \in Nat, k \in N PROVE k + 1 \in N
  <2>1. ASSUME NEW t \in Seq(Nat), Len(t) = k + 1, k + 1 <= n, k + 1 <= m
        PROVE  f[t] = g[t]
    <3>1. t # << >> /\ Tail(t) \in Seq(Nat) /\ Len(Tail(t)) = k
      BY <2>1
    <3>2. Good(k)
      BY <1>4
    <3>3. k <= n /\ k <= m
      BY <2>1
    <3>4. f[Tail(t)] = g[Tail(t)]
      BY <3>1, <3>2, <3>3
    <3> QED
      BY <1>1, <1>2, <2>1, <3>1, <3>4 DEF Rest
  <2> QED
    BY <2>1
<1> HIDE DEF N
<1>5. Nat \subseteq N
  BY <1>3, <1>4, SetInduction
<1>6. Len(s) \in Nat
  OBVIOUS
<1> QED
  BY <1>5, <1>6 DEF N

\* LeNumber satisfies its recursive definition.
LEMMA LeNumberUnfolds ==
  ASSUME NEW s \in Seq(Nat)
  PROVE  LeNumber[s] = Rest(LeNumber, s)
<1> DEFINE Some(n) == CHOOSE f : Reads(f, n)
           F == [t \in Seq(Nat) |-> Some(Len(t))[t]]
<1>1. \A n \in Nat : Reads(Some(n), n)
  BY ReadsExists
<1> HIDE DEF Some
<1>2. ASSUME NEW t \in Seq(Nat) PROVE F[t] = Rest(F, t)
  <2>1. Len(t) \in Nat /\ t \in UpTo(Len(t))
    BY DEF UpTo
  <2>2. F[t] = Rest(Some(Len(t)), t)
    BY <1>1, <2>1 DEF Reads
  <2>3. CASE t = << >>
    BY <2>2, <2>3 DEF Rest
  <2>4. CASE t # << >>
    <3>1. Tail(t) \in Seq(Nat) /\ Len(Tail(t)) \in Nat /\ Len(Tail(t)) <= Len(t)
      BY <2>4
    <3> DEFINE r == Tail(t)
               n == Len(t)
               m == Len(r)
    <3>2. Reads(Some(n), n) /\ Reads(Some(m), m) /\ n \in Nat /\ m \in Nat
      BY <1>1, <2>1, <3>1
    <3>3. r \in Seq(Nat) /\ Len(r) <= n /\ Len(r) <= m
      BY <3>1
    <3> HIDE DEF n, r
    <3>4. Some(n)[r] = Some(m)[r]
      BY <3>2, <3>3, ReadsAgree, Zenon
    <3> USE DEF n, r
    <3> QED
      BY <2>2, <2>4, <3>1, <3>4 DEF Rest
  <2> QED
    BY <2>3, <2>4
<1>3. F = [t \in Seq(Nat) |-> F[t]]
  OBVIOUS
<1> HIDE DEF F
<1> DEFINE IsLe(f) == f = [t \in Seq(Nat) |-> Rest(f, t)]
<1>4. IsLe(F)
  BY <1>2, <1>3
<1>5. LeNumber = CHOOSE f : IsLe(f)
  BY DEF LeNumber, Rest
<1> HIDE DEF IsLe
<1>6. IsLe(LeNumber)
  BY <1>4, <1>5
<1> QED
  BY <1>6 DEF IsLe

\* The digits after the first k ones.
Suffix(s, k) == [i \in 1 .. Len(s) - k |-> s[i + k]]

\* One digit is read.
LEMMA OneDigit ==
  ASSUME NEW s \in Seq(Nat), NEW k \in 0 .. Len(s) - 1
  PROVE  LeNumber[Suffix(s, k)] = s[k + 1] + 2 * LeNumber[Suffix(s, k + 1)]
<1> DEFINE t == Suffix(s, k)
           n == Len(s) - k
<1>0. n \in Nat /\ n > 0 /\ k \in Nat /\ Len(s) \in Nat
  OBVIOUS
<1>1. t \in Seq(Nat) /\ Len(t) = n /\ t # << >> /\ Head(t) = s[k + 1]
  <2>1. \A i \in 1 .. n : s[i + k] \in Nat
    BY <1>0
  <2>2. t \in [1 .. n -> Nat] /\ t[1] = s[k + 1]
    BY <1>0, <2>1 DEF Suffix
  <2> HIDE DEF t, n
  <2> QED
    BY <1>0, <2>2
<1>2. Tail(t) = Suffix(s, k + 1)
  <2>1. \A i \in 1 .. n - 1 : t[i + 1] = s[i + (k + 1)]
    BY <1>0 DEF Suffix
  <2>2. Suffix(s, k + 1) = [i \in 1 .. n - 1 |-> s[i + (k + 1)]]
    BY <1>0 DEF Suffix
  <2>3. Tail(t) = [i \in 1 .. n - 1 |-> t[i + 1]]
    <3> HIDE DEF t, n
    <3>1. /\ Tail(t) \in Seq(Nat) /\ Len(Tail(t)) = n - 1
          /\ \A i \in 1 .. n - 1 : Tail(t)[i] = t[i + 1]
      BY <1>0, <1>1, HeadTailProperties
    <3>2. Tail(t) = [i \in 1 .. n - 1 |-> Tail(t)[i]]
      BY <3>1, SeqIsFunction
    <3> QED
      BY <3>1, <3>2
  <2> HIDE DEF t, n
  <2> QED
    BY <2>1, <2>2, <2>3
<1> HIDE DEF t
<1>3. LeNumber[t] = Rest(LeNumber, t)
  BY <1>1, LeNumberUnfolds
<1> QED
  BY <1>1, <1>2, <1>3 DEF Rest, W, t

\* Nothing is left to read.
LEMMA NoDigit ==
  ASSUME NEW s \in Seq(Nat)
  PROVE  LeNumber[s] = LeNumber[Suffix(s, 0)] /\ LeNumber[Suffix(s, Len(s))] = 0
<1>1. Suffix(s, 0) = s /\ Suffix(s, Len(s)) = << >>
  BY DEF Suffix
<1>2. LeNumber[<< >>] = Rest(LeNumber, << >>)
  <2>1. << >> \in Seq(Nat)
    OBVIOUS
  <2> QED
    BY <2>1, LeNumberUnfolds
<1>3. Rest(LeNumber, << >>) = 0
  BY DEF Rest
<1> QED
  BY <1>1, <1>2, <1>3

\* The value of eight digits.
LEMMA EightDigits ==
  ASSUME NEW s \in [1 .. 8 -> 0 .. 1]
  PROVE  LeNumber[s] = s[1] + 2 * s[2] + 4 * s[3] + 8 * s[4] + 16 * s[5] + 32 * s[6]
                         + 64 * s[7] + 128 * s[8]
<1> DEFINE r(k) == LeNumber[Suffix(s, k)]
<1>1. s \in Seq(Nat) /\ Len(s) = 8
  <2>1. s \in [1 .. 8 -> Nat]
    OBVIOUS
  <2> QED
    BY <2>1, FunctionIsSeq, ZenonT(30)
<1>2. r(8) = 0 /\ LeNumber[s] = r(0)
  BY <1>1, NoDigit
<1>3. ASSUME NEW k \in 0 .. 7 PROVE r(k) = s[k + 1] + 2 * r(k + 1)
  <2>1. k \in 0 .. Len(s) - 1
    BY <1>1
  <2> QED
    BY <1>1, <2>1, OneDigit
<1> HIDE DEF r
<1>4. \A k \in 1 .. 8 : s[k] \in Nat
  OBVIOUS
<1>5. r(7) = s[8]
  BY <1>2, <1>3, <1>4
<1>6. r(6) = s[7] + 2 * s[8]
  BY <1>3, <1>4, <1>5
<1>7. r(5) = s[6] + 2 * s[7] + 4 * s[8]
  BY <1>3, <1>4, <1>6
<1>8. r(4) = s[5] + 2 * s[6] + 4 * s[7] + 8 * s[8]
  BY <1>3, <1>4, <1>7
<1>9. r(3) = s[4] + 2 * s[5] + 4 * s[6] + 8 * s[7] + 16 * s[8]
  BY <1>3, <1>4, <1>8
<1>10. r(2) = s[3] + 2 * s[4] + 4 * s[5] + 8 * s[6] + 16 * s[7] + 32 * s[8]
  BY <1>3, <1>4, <1>9
<1>11. r(1) = s[2] + 2 * s[3] + 4 * s[4] + 8 * s[5] + 16 * s[6] + 32 * s[7] + 64 * s[8]
  BY <1>3, <1>4, <1>10
<1>12. r(0) = s[1] + 2 * r(1)
  BY <1>3
<1> QED
  BY <1>2, <1>4, <1>11, <1>12

\* The value of ten digits.
LEMMA TenDigits ==
  ASSUME NEW s \in [1 .. 10 -> 0 .. 1]
  PROVE  \E m \in 0 .. 127 :
           LeNumber[s] = s[1] + 2 * s[2] + 4 * m + 512 * s[10]
<1> DEFINE r(k) == LeNumber[Suffix(s, k)]
<1>1. s \in Seq(Nat) /\ Len(s) = 10
  <2>1. s \in [1 .. 10 -> Nat]
    OBVIOUS
  <2> QED
    BY <2>1, FunctionIsSeq, ZenonT(30)
<1>2. r(10) = 0 /\ LeNumber[s] = r(0)
  BY <1>1, NoDigit
<1>3. ASSUME NEW k \in 0 .. 9 PROVE r(k) = s[k + 1] + 2 * r(k + 1)
  <2>1. k \in 0 .. Len(s) - 1
    BY <1>1
  <2> QED
    BY <1>1, <2>1, OneDigit
<1> HIDE DEF r
<1>4. \A k \in 1 .. 10 : s[k] \in 0 .. 1
  OBVIOUS
<1> DEFINE t == s[10]
<1>5. r(9) = t /\ t \in 0 .. 1
  BY <1>2, <1>3, <1>4
<1> HIDE DEF t
<1>6. \E m \in 0 .. 1 : r(8) = m + 2 * t
  BY <1>3, <1>4, <1>5
<1>7. \E m \in 0 .. 3 : r(7) = m + 4 * t
  BY <1>3, <1>4, <1>5, <1>6
<1>8. \E m \in 0 .. 7 : r(6) = m + 8 * t
  BY <1>3, <1>4, <1>5, <1>7
<1>9. \E m \in 0 .. 15 : r(5) = m + 16 * t
  BY <1>3, <1>4, <1>5, <1>8
<1>10. \E m \in 0 .. 31 : r(4) = m + 32 * t
  BY <1>3, <1>4, <1>5, <1>9
<1>11. \E m \in 0 .. 63 : r(3) = m + 64 * t
  BY <1>3, <1>4, <1>5, <1>10
<1>12. \E m \in 0 .. 127 : r(2) = m + 128 * t
  BY <1>3, <1>4, <1>5, <1>11
<1>13. PICK m \in 0 .. 127 : r(2) = m + 128 * t
  BY <1>12
<1>14. r(1) = s[2] + 2 * r(2) /\ r(0) = s[1] + 2 * r(1) /\ s[1] \in 0 .. 1 /\ s[2] \in 0 .. 1
  BY <1>3, <1>4
<1>15. r(0) = s[1] + 2 * s[2] + 4 * m + 512 * t
  BY <1>5, <1>13, <1>14
<1> QED
  BY <1>2, <1>15 DEF t

-----------------------------------------------------------------------------
(* Decoding *)

\* The powers of two that occur.
LEMMA Powers == 2^0 = 1 /\ 2^1 = 2 /\ 2^2 = 4 /\ 2^3 = 8 /\ 2^4 = 16 /\ 2^5 = 32 /\ 2^6 = 64
                  /\ 2^7 = 128 /\ 2^8 = 256 /\ 2^9 = 512 /\ 2^10 = 1024
<1> DEFINE p(i) == 2^i
<1>1. p(0) = 1 /\ \A i \in 0 .. 9 : p(i + 1) = 2 * p(i)
  BY PowerAssumption DEF W
<1> HIDE DEF p
<1>2. /\ p(1) = 2 * p(0) /\ p(2) = 2 * p(1) /\ p(3) = 2 * p(2) /\ p(4) = 2 * p(3)
      /\ p(5) = 2 * p(4) /\ p(6) = 2 * p(5) /\ p(7) = 2 * p(6) /\ p(8) = 2 * p(7)
      /\ p(9) = 2 * p(8) /\ p(10) = 2 * p(9)
  BY <1>1
<1>3. /\ p(0) = 1 /\ p(1) = 2 /\ p(2) = 4 /\ p(3) = 8 /\ p(4) = 16 /\ p(5) = 32 /\ p(6) = 64
      /\ p(7) = 128 /\ p(8) = 256 /\ p(9) = 512 /\ p(10) = 1024
  BY <1>1, <1>2
<1> QED
  BY <1>3 DEF p

\* The clamped scalars of X25519 and X448 are the ones RFC 7748 decodes to
\* themselves.
LEMMA ClampedDecoded ==
  ASSUME NEW curve \in {"P256", "X25519", "X448"}, NEW k \in [1 .. Size[curve] -> 0 .. 1]
  PROVE  LET c == Nrf!Clamped(curve, k) IN
         /\ c \in [1 .. Size[curve] -> 0 .. 1]
         /\ Value(curve, c) = DecodeScalar(curve, Value(curve, c))
<1> DEFINE c == Nrf!Clamped(curve, k)
           v == Value(curve, c)
<1>1. CASE curve = "P256"
  BY <1>1 DEF Nrf!Clamped, DecodeScalar
<1>2. CASE curve = "X25519"
  <2>1. k \in [1 .. 8 -> 0 .. 1] /\ Len(k) = 8
    BY <1>2 DEF Size
  <2>2. c = [i \in 1 .. 8 |-> IF i \in {1, 2, 3, 8} THEN 0 ELSE IF i \in {7} THEN 1 ELSE k[i]]
    BY <1>2, <2>1 DEF Nrf!Clamped, Nrf!clamp_x25519, Nrf!WithBits
  <2>0. \A i \in 1 .. 8 : k[i] \in 0 .. 1
    BY <2>1
  <2>3. c \in [1 .. 8 -> 0 .. 1] /\ c[1] = 0 /\ c[2] = 0 /\ c[3] = 0 /\ c[8] = 0 /\ c[7] = 1
    <3> HIDE DEF c
    <3> QED
      BY <2>0, <2>2
  <2> HIDE DEF c
  <2>4. v = 8 * c[4] + 16 * c[5] + 32 * c[6] + 64
    BY <1>2, <2>3, EightDigits DEF Value, LeValue
  <2> DEFINE m == c[4] + 2 * c[5] + 4 * c[6]
  <2>5. m \in 0 .. 7 /\ v = 8 * m + 64
    BY <2>3, <2>4
  <2> HIDE DEF m, v
  <2>6. DecodeScalar(curve, v) = ((v - (v % 8)) % 64) + 64
    BY <1>2, Powers DEF DecodeScalar, Size
  <2>7. v % 8 = 0 /\ v % 64 = 8 * m
    BY <2>5
  <2>8. DecodeScalar(curve, v) = v
    BY <2>5, <2>6, <2>7
  <2> QED
    BY <1>2, <2>3, <2>8 DEF Size, c, v
<1>3. CASE curve = "X448"
  <2>1. k \in [1 .. 10 -> 0 .. 1] /\ Len(k) = 10
    BY <1>3 DEF Size
  <2>2. c = [i \in 1 .. 10 |-> IF i \in {1, 2} THEN 0 ELSE IF i \in {10} THEN 1 ELSE k[i]]
    BY <1>3, <2>1 DEF Nrf!Clamped, Nrf!clamp_x448, Nrf!WithBits
  <2>0. \A i \in 1 .. 10 : k[i] \in 0 .. 1
    BY <2>1
  <2>3. c \in [1 .. 10 -> 0 .. 1] /\ c[1] = 0 /\ c[2] = 0 /\ c[10] = 1
    <3> HIDE DEF c
    <3> QED
      BY <2>0, <2>2
  <2> HIDE DEF c
  <2>4. PICK m \in 0 .. 127 : v = 4 * m + 512
    <3>1. v = LeNumber[c]
      BY <1>3 DEF Value, LeValue
    <3>2. \E m \in 0 .. 127 : LeNumber[c] = c[1] + 2 * c[2] + 4 * m + 512 * c[10]
      <4>1. c \in [1 .. 10 -> 0 .. 1]
        BY <2>3
      <4> QED
        BY <4>1, TenDigits, ZenonT(40)
    <3> QED
      BY <2>3, <3>1, <3>2
  <2> HIDE DEF v
  <2>6. DecodeScalar(curve, v) = ((v - (v % 4)) % 512) + 512
    BY <1>3, Powers DEF DecodeScalar, Size
  <2>7. v % 4 = 0 /\ v % 512 = 4 * m
    BY <2>4
  <2>8. DecodeScalar(curve, v) = v
    BY <2>4, <2>6, <2>7
  <2> QED
    BY <1>3, <2>3, <2>8 DEF Size, c, v
<1> QED
  BY <1>1, <1>2, <1>3

\* A coordinate of X25519 whose topmost bit is clear is decoded.
LEMMA ClearTopDecoded ==
  ASSUME NEW x \in [1 .. 8 -> 0 .. 1], x[8] = 0
  PROVE  Value("X25519", x) = DecodeU("X25519", Value("X25519", x))
<1> DEFINE v == Value("X25519", x)
<1>1. v = x[1] + 2 * x[2] + 4 * x[3] + 8 * x[4] + 16 * x[5] + 32 * x[6] + 64 * x[7]
  BY EightDigits DEF Value, LeValue
<1>2. v \in 0 .. 127
  BY <1>1
<1> HIDE DEF v
<1>3. DecodeU("X25519", v) = v % 128
  BY Powers DEF DecodeU, Size
<1>4. v % 128 = v
  BY <1>2
<1> QED
  BY <1>3, <1>4 DEF v

-----------------------------------------------------------------------------
(* The ladder yields a number below the prime *)

\* A remainder.
LEMMA ModRange ==
  ASSUME NEW x \in Int, NEW p \in Nat, p > 0
  PROVE  x % p \in Int /\ x % p \in 0 .. p - 1
OBVIOUS

\* A product of numbers is a number.
LEMMA ProductInt ==
  ASSUME NEW x \in Int, NEW y \in Int
  PROVE  x * y \in Int
OBVIOUS

PowStep(f, b, n, p) ==
  IF n = 0 THEN 1
  ELSE LET half == f[n \div 2] IN (half * half * (IF n % 2 = 1 THEN b ELSE 1)) % p

IsPow(f, b, e, p) == f = [n \in 0 .. e |-> PowStep(f, b, n, p)]

\* Half of a positive number is smaller.
LEMMA HalfSmaller ==
  ASSUME NEW n \in Nat, n # 0
  PROVE  n \div 2 \in 0 .. n - 1
OBVIOUS

\* The recursion of Power defines a function, by induction on the exponent.
LEMMA PowExists ==
  ASSUME NEW b, NEW p
  PROVE  \A e \in Nat : \E f : IsPow(f, b, e, p)
<1> DEFINE N == {e \in Nat : \E f : IsPow(f, b, e, p)}
<1>1. 0 \in N
  <2>1. IsPow([n \in 0 .. 0 |-> 1], b, 0, p)
    BY DEF IsPow, PowStep
  <2> QED
    BY <2>1
<1>2. ASSUME NEW e \in Nat, e \in N PROVE e + 1 \in N
  <2>1. PICK f : IsPow(f, b, e, p)
    BY <1>2
  <2> DEFINE g == [n \in 0 .. e + 1 |-> PowStep(f, b, n, p)]
  <2>2. \A n \in 0 .. e : g[n] = f[n]
    <3>1. \A n \in 0 .. e : f[n] = PowStep(f, b, n, p) /\ n \in 0 .. e + 1
      BY <2>1 DEF IsPow
    <3> QED
      BY <3>1
  <2>3. \A n \in 0 .. e + 1 : g[n] = PowStep(f, b, n, p)
    OBVIOUS
  <2>4. g = [n \in 0 .. e + 1 |-> g[n]]
    OBVIOUS
  <2> HIDE DEF g
  <2>5. ASSUME NEW n \in 0 .. e + 1 PROVE PowStep(f, b, n, p) = PowStep(g, b, n, p)
    <3>1. CASE n = 0
      BY <3>1 DEF PowStep
    <3>2. CASE n # 0
      <4>1. n \div 2 \in 0 .. e
        BY <3>2, HalfSmaller
      <4>2. f[n \div 2] = g[n \div 2]
        BY <2>2, <4>1
      <4> QED
        BY <3>2, <4>2, Zenon DEF PowStep
    <3> QED
      BY <3>1, <3>2
  <2>6. IsPow(g, b, e + 1, p)
    BY <2>3, <2>4, <2>5 DEF IsPow
  <2> QED
    BY <2>6
<1> HIDE DEF N
<1>3. Nat \subseteq N
  BY <1>1, <1>2, SetInduction
<1> QED
  BY <1>3 DEF N

\* A power is a number, by induction on the exponent.
LEMMA PowerInt ==
  ASSUME NEW b \in Int, NEW e \in Nat, NEW p \in Nat, p > 0
  PROVE  Nrf!Power(b, e, p) \in Int
<1> DEFINE pow == CHOOSE f : IsPow(f, b, e, p)
           N == {n \in 0 .. e : pow[n] \notin Int}
<1>1. IsPow(pow, b, e, p)
  BY PowExists
<1>2. Nrf!Power(b, e, p) = pow[e]
  BY DEF Nrf!Power, IsPow, PowStep
<1> HIDE DEF pow
<1>3. SUFFICES ASSUME N # {} PROVE FALSE
  BY <1>2
<1>4. PICK n \in N : \A k \in N : n <= k
  <2>1. N \subseteq Nat
    OBVIOUS
  <2> HIDE DEF N
  <2> QED
    BY <1>3, <2>1, LeastNumber
<1>5. n \in 0 .. e /\ pow[n] \notin Int /\ pow[n] = PowStep(pow, b, n, p)
  BY <1>1, <1>4 DEF IsPow
<1>6. n # 0
  BY <1>5 DEF PowStep
<1> DEFINE h == n \div 2
           half == pow[h]
<1>7. h \in 0 .. e /\ h < n
  BY <1>5, <1>6, HalfSmaller
<1> HIDE DEF h
<1>8. half \in Int
  BY <1>4, <1>7
<1> DEFINE x == half * half * (IF n % 2 = 1 THEN b ELSE 1)
<1>9. pow[n] = x % p
  BY <1>5, <1>6 DEF PowStep, h
<1> HIDE DEF half
<1>10. x \in Int
  BY <1>8, ProductInt
<1> HIDE DEF x
<1> QED
  BY <1>5, <1>9, <1>10, ModRange

\* Two pairs one after the other.
LEMMA PairsJoined ==
  ASSUME NEW a \in Int, NEW b \in Int, NEW c \in Int, NEW d \in Int
  PROVE  <<a, b>> \o <<c, d>> = <<a, b, c, d>>
<1> DEFINE s == <<a, b>>
           t == <<c, d>>
           u == <<a, b, c, d>>
<1>1. s \in Seq(Int) /\ t \in Seq(Int) /\ Len(s) = 2 /\ Len(t) = 2 /\ u \in Seq(Int) /\ Len(u) = 4
  OBVIOUS
<1>2. \A i \in 1 .. 4 : (s \o t)[i] = u[i]
  BY <1>1
<1>3. s \o t \in Seq(Int) /\ Len(s \o t) = 4
  BY <1>1
<1> HIDE DEF s, t, u
<1>4. s \o t = u
  BY <1>1, <1>2, <1>3, SeqEqual
<1> QED
  BY <1>4, Zenon DEF s, t, u

Quadruples == Int \X Int \X Int \X Int

\* A step of the ladder takes four numbers to four numbers.
LEMMA LadderStepInt ==
  ASSUME NEW s \in Quadruples, NEW bit, NEW x1 \in Int, NEW p \in Nat, p > 0, NEW a24 \in Int
  PROVE  Nrf!LadderStep(s, bit, x1, p, a24) \in Quadruples
<1> DEFINE x2 == s[IF bit = 1 THEN 3 ELSE 1]
           z2 == s[IF bit = 1 THEN 4 ELSE 2]
           x3 == s[IF bit = 1 THEN 1 ELSE 3]
           z3 == s[IF bit = 1 THEN 2 ELSE 4]
           aa == ((x2 + z2) * (x2 + z2)) % p
           bb == ((x2 - z2) * (x2 - z2)) % p
           e  == (aa - bb) % p
           da == ((x3 - z3) * (x2 + z2)) % p
           cb == ((x3 + z3) * (x2 - z2)) % p
           d1 == (aa * bb) % p
           d2 == (e * ((aa + a24 * e) % p)) % p
           s1 == ((da + cb) * (da + cb)) % p
           s2 == (x1 * (((da - cb) * (da - cb)) % p)) % p
<1>1. Nrf!LadderStep(s, bit, x1, p, a24) =
        IF bit = 1 THEN <<s1, s2>> \o <<d1, d2>> ELSE <<d1, d2>> \o <<s1, s2>>
  BY DEF Nrf!LadderStep
<1>2. x2 \in Int /\ z2 \in Int /\ x3 \in Int /\ z3 \in Int
  BY DEF Quadruples
<1> HIDE DEF x2, z2, x3, z3
<1>3. aa \in Int /\ bb \in Int /\ da \in Int /\ cb \in Int
  <2>1. /\ x2 + z2 \in Int /\ x2 - z2 \in Int
        /\ x3 + z3 \in Int /\ x3 - z3 \in Int
    BY <1>2
  <2> QED
    BY <2>1, ProductInt, ModRange
<1> HIDE DEF aa, bb, da, cb
<1>4. e \in Int
  BY <1>3, ModRange
<1> HIDE DEF e
<1>5. d1 \in Int
  BY <1>3, ModRange, ProductInt
<1>6. d2 \in Int
  <2>1. aa + a24 * e \in Int
    BY <1>3, <1>4
  <2> QED
    BY <1>4, <2>1, ModRange, ProductInt
<1>7. s1 \in Int /\ s2 \in Int
  <2>1. da + cb \in Int /\ da - cb \in Int
    BY <1>3
  <2> QED
    BY <2>1, ModRange, ProductInt
<1> HIDE DEF d1, d2, s1, s2
<1>8. /\ <<s1, s2>> \o <<d1, d2>> = <<s1, s2, d1, d2>>
      /\ <<d1, d2>> \o <<s1, s2>> = <<d1, d2, s1, s2>>
  BY <1>5, <1>6, <1>7, PairsJoined
<1> QED
  BY <1>1, <1>5, <1>6, <1>7, <1>8 DEF Quadruples

LadderAt(s, i, k, u, p, a, bits) ==
  IF i = 0 THEN <<1, 0, u % p, 1>>
  ELSE Nrf!LadderStep(s[i - 1], (k \div 2^(bits - i)) % 2, u % p, p, (a - 2) \div 4)

IsLadder(s, n, k, u, p, a, bits) ==
  s = [i \in 0 .. n |-> LadderAt(s, i, k, u, p, a, bits)]

\* The recursion of Ladder defines a function, by induction on its last step.
LEMMA LadderExists ==
  ASSUME NEW k, NEW u, NEW p, NEW a, NEW bits
  PROVE  \A n \in Nat : \E s : IsLadder(s, n, k, u, p, a, bits)
<1> DEFINE At(s, i) == LadderAt(s, i, k, u, p, a, bits)
           Is(s, n) == IsLadder(s, n, k, u, p, a, bits)
           N == {n \in Nat : \E s : Is(s, n)}
<1>1. 0 \in N
  <2>1. Is([i \in 0 .. 0 |-> <<1, 0, u % p, 1>>], 0)
    BY DEF IsLadder, LadderAt
  <2> QED
    BY <2>1
<1>2. ASSUME NEW n \in Nat, n \in N PROVE n + 1 \in N
  <2>1. PICK s : Is(s, n)
    BY <1>2
  <2> DEFINE t == [i \in 0 .. n + 1 |-> At(s, i)]
  <2>2. \A i \in 0 .. n : t[i] = s[i]
    <3>1. \A i \in 0 .. n : s[i] = At(s, i) /\ i \in 0 .. n + 1
      BY <2>1 DEF IsLadder
    <3> HIDE DEF At
    <3> QED
      BY <3>1
  <2>3. \A i \in 0 .. n + 1 : t[i] = At(s, i)
    OBVIOUS
  <2>4. t = [i \in 0 .. n + 1 |-> t[i]]
    OBVIOUS
  <2> HIDE DEF t
  <2>5. ASSUME NEW i \in 0 .. n + 1 PROVE At(s, i) = At(t, i)
    <3>1. CASE i = 0
      BY <3>1 DEF LadderAt
    <3>2. CASE i # 0
      <4>1. i - 1 \in 0 .. n
        BY <3>2
      <4>2. s[i - 1] = t[i - 1]
        BY <2>2, <4>1
      <4> QED
        BY <3>2, <4>2, Zenon DEF LadderAt
    <3> QED
      BY <3>1, <3>2
  <2>6. Is(t, n + 1)
    <3> HIDE DEF At
    <3>1. t = [i \in 0 .. n + 1 |-> At(t, i)]
      BY <2>3, <2>4, <2>5
    <3> QED
      BY <3>1 DEF IsLadder, At
  <2> QED
    BY <2>6
<1> HIDE DEF N
<1>3. Nat \subseteq N
  BY <1>1, <1>2, SetInduction
<1> QED
  BY <1>3 DEF N

\* The result of the ladder is below the prime.
LEMMA LadderBelow ==
  ASSUME NEW k, NEW u \in Int, NEW p \in Nat, p > 2, NEW a \in Int, NEW bits \in Nat
  PROVE  Nrf!Ladder(k, u, p, a, bits) \in 0 .. p - 1
<1> DEFINE At(s, i) == LadderAt(s, i, k, u, p, a, bits)
           Is(s) == IsLadder(s, bits, k, u, p, a, bits)
           l == CHOOSE s : Is(s)
           N == {i \in 0 .. bits : l[i] \notin Quadruples}
           final == l[bits]
<1>1. Is(l)
  <2>1. \E s : Is(s)
    BY LadderExists
  <2> HIDE DEF Is
  <2> QED
    BY <2>1
<1>2. Nrf!Ladder(k, u, p, a, bits) = (final[1] * Nrf!ModInverse(final[2], p)) % p
  BY DEF Nrf!Ladder, IsLadder, LadderAt
<1> HIDE DEF l
<1>3. \A i \in 0 .. bits : l[i] = At(l, i)
  BY <1>1 DEF IsLadder
<1> HIDE DEF Is
<1>4. N = {}
  <2> SUFFICES ASSUME N # {} PROVE FALSE
    OBVIOUS
  <2>1. PICK i \in N : \A j \in N : i <= j
    <3>1. N \subseteq Nat
      OBVIOUS
    <3> HIDE DEF N
    <3> QED
      BY <3>1, LeastNumber
  <2>2. i \in 0 .. bits /\ l[i] \notin Quadruples
    BY <2>1
  <2>3. u % p \in Int /\ (a - 2) \div 4 \in Int
    <3>1. a - 2 \in Int
      OBVIOUS
    <3>2. (a - 2) \div 4 \in Int
      BY <3>1
    <3> QED
      BY <3>2, ModRange
  <2>4. CASE i = 0
    <3>1. l[i] = <<1, 0, u % p, 1>>
      BY <1>3, <2>2, <2>4 DEF LadderAt
    <3> QED
      BY <2>2, <2>3, <3>1 DEF Quadruples
  <2>5. CASE i # 0
    <3>1. i - 1 \in 0 .. bits /\ i - 1 \notin N
      BY <2>1, <2>2, <2>5
    <3>2. l[i - 1] \in Quadruples
      BY <3>1
    <3>3. l[i] = Nrf!LadderStep(l[i - 1], (k \div 2^(bits - i)) % 2, u % p, p, (a - 2) \div 4)
      BY <1>3, <2>2, <2>5 DEF LadderAt
    <3> DEFINE x1 == u % p
               a24 == (a - 2) \div 4
               bit == (k \div 2^(bits - i)) % 2
    <3> HIDE DEF x1, a24, bit
    <3>4. Nrf!LadderStep(l[i - 1], bit, x1, p, a24) \in Quadruples
      <4>1. x1 \in Int /\ a24 \in Int
        BY <2>3 DEF x1, a24
      <4> QED
        BY <3>2, <4>1, LadderStepInt
    <3> QED
      BY <2>2, <3>3, <3>4 DEF x1, a24, bit
  <2> QED
    BY <2>4, <2>5
<1>5. final \in Quadruples
  BY <1>4
<1> HIDE DEF final
<1>6. final[1] \in Int /\ final[2] \in Int
  BY <1>5 DEF Quadruples
<1>7. Nrf!ModInverse(final[2], p) \in Int
  <2>1. p - 2 \in Nat /\ p > 0
    OBVIOUS
  <2> QED
    BY <1>6, <2>1, PowerInt DEF Nrf!ModInverse
<1> DEFINE x == final[1] * Nrf!ModInverse(final[2], p)
<1>8. x \in Int
  BY <1>6, <1>7, ProductInt
<1> HIDE DEF x
<1> QED
  BY <1>2, <1>8, ModRange DEF x

-----------------------------------------------------------------------------
(* The invariant *)

AlgOk(alg) ==
  /\ alg \in [via : {"own", "direct"}, curve : {"P256", "X25519", "X448"}]
  /\ platform.adapter = "none" => alg.via = "direct"

\* The parts of a key that depend on its bytes.
NrfScalar(curve, k) ==
  /\ k \in [1 .. Size[curve] -> 0 .. 1]
  /\ Value(curve, k) = DecodeScalar(curve, Value(curve, k))

NrfCoordinate(curve, x) ==
  /\ Len(x) = Size[curve]
  /\ curve = "X25519" => x \in [1 .. 8 -> 0 .. 1] /\ x[8] = 0

SecretOk(sk) ==
  sk # NoKey =>
    AlgOk(sk.alg) /\ (Provider(sk.alg) = "nrf54l15" => NrfScalar(sk.alg.curve, sk.bytes))

PublicOk(pk) ==
  pk # NoKey =>
    AlgOk(pk.alg) /\ (Provider(pk.alg) = "nrf54l15" => NrfCoordinate(pk.alg.curve, pk.x))

KeysInv ==
  /\ DOMAIN secret = PartySet /\ DOMAIN public = PartySet
  /\ \A p \in PartySet : SecretOk(secret[p]) /\ PublicOk(public[p])
  /\ PublicOk(peer)

\* The digits of a public key that is to be imported.
OfferOk(alg, bytes) ==
  Provider(alg) = "nrf54l15" /\ alg.curve = "X25519" => bytes \in Seq(0 .. 1)

CallInv ==
  /\ platform \in Platforms
  /\ pc \in {"idle", "call", "engine"}
  /\ pc = "idle" => call = NoCall
  /\ call.op = "generate" => pc = "call" /\ AlgOk(call.alg) /\ call.who \in PartySet
  /\ call.op = "import_secretkey_bytes" =>
       pc = "call" /\ AlgOk(call.alg) /\ call.who \in PartySet /\ call.bytes \in Seq(0 .. 1)
  /\ call.op = "import_publickey_bytes" =>
       pc = "call" /\ AlgOk(call.alg) /\ OfferOk(call.alg, call.bytes)
  /\ call.op \in {"public_key", "shared_secret"} =>
       call.who \in PartySet /\ secret[call.who] # NoKey
  /\ call.op = "shared_secret" =>
       Theirs # NoKey /\ (call.with = NoKey \/ call.with \in PartySet)

\* The call that waits for the engine of the nRF54L15.
InUse == pc = "engine" /\ Provider(secret[call.who].alg) = "nrf54l15"
InUseCurve == secret[call.who].alg.curve

ScalarSlot == 1024 .. 1151

\* Where the scalar is, for each of the curves.
ScalarWords(curve) == IF curve = "P256" THEN 1144 .. 1151 ELSE 1024 .. 1024 + Size[curve] - 1

\* An X25519 multiplication has its operands, or its result.
X25519Started ==
  /\ pke.command = [op |-> "MONTGOMERY_PTMUL", size |-> 8, curve |-> "CURVE25519",
                    edwards |-> FALSE, swapbytes |-> FALSE]
  /\ pke.pointers = [a |-> 6, b |-> 8, c |-> 10]
  /\ \A a \in 768 .. 775 : RamWord(pke.ram, a) \in 0 .. 1

X25519Ended ==
  /\ \A a \in 1280 .. 1287 : RamWord(pke.ram, a) \in 0 .. 1
  /\ RamWord(pke.ram, 1287) = 0

EngineInv ==
  /\ pke = [ram |-> pke.ram, busy |-> pke.busy, command |-> pke.command,
            pointers |-> pke.pointers]
  /\ pke.busy \in BOOLEAN
  /\ pc = "engine" =>
       Multiplies /\ Provider(secret[call.who].alg) \in {"stm32wba55", "nrf54l15"}
  /\ pke.busy => InUse /\ pke.pointers.c = 10 /\ pke.command.size \in 0 .. 128
  /\ \A a \in ScalarSlot :
       RamWord(pke.ram, a) = 0 \/ (InUse /\ a \in ScalarWords(InUseCurve))
  /\ InUse /\ InUseCurve = "X25519" => IF pke.busy THEN X25519Started ELSE X25519Ended

DhInv == KeysInv /\ CallInv /\ EngineInv

-----------------------------------------------------------------------------
(* Algorithms and keys *)

CurveSet == {"P256", "X25519", "X448"}

\* The algorithms a program can name are the ones of the providers.
LEMMA AlgorithmsOk ==
  ASSUME platform \in Platforms, NEW alg \in Algorithms
  PROVE  AlgOk(alg)
<1> DEFINE Direct == [via : {"direct"}, curve : CurveSet]
           All == [via : {"own", "direct"}, curve : CurveSet]
<1>1. /\ platform.adapter \in {"none", "libcrux", "rustcrypto"}
      /\ platform.base \in {"empty", "stm32wba55", "nrf54l15"}
  BY PlatformAssumption
<1>2. \A n \in {1, 4, 5} : BaseCurves(n) \subseteq CurveSet
  BY <1>1 DEF BaseCurves, EmptyCurves, Stm!from_cose_ecdh, Nrf!from_cose_ecdh, CurveSet
<1>3. Libcrux!OwnVariants \subseteq All /\ Rustcrypto!OwnVariants \subseteq All
  BY DEF Libcrux!OwnVariants, Rustcrypto!OwnVariants, CurveSet
<1>4. ASSUME NEW n \in {1, 4, 5}, NEW a \in from_cose_ecdh(n)
      PROVE  a \in All /\ (platform.adapter = "none" => a \in Direct)
  <2> DEFINE base == BaseCurves(n)
             D == {[via |-> "direct", curve |-> c] : c \in base}
  <2>1. D \subseteq Direct
    BY <1>2
  <2>2. Libcrux!from_cose_ecdh(n, base) \subseteq Direct \cup Libcrux!OwnVariants
    BY <2>1 DEF Libcrux!from_cose_ecdh
  <2>3. Rustcrypto!from_cose_ecdh(n, base) \subseteq Direct \cup Rustcrypto!OwnVariants
    BY <2>1 DEF Rustcrypto!from_cose_ecdh
  <2> HIDE DEF base, D
  <2>4. Direct \subseteq All
    OBVIOUS
  <2>5. CASE platform.adapter = "libcrux"
    BY <1>3, <1>4, <2>2, <2>4, <2>5 DEF from_cose_ecdh, base
  <2>6. CASE platform.adapter = "rustcrypto"
    BY <1>3, <1>4, <2>3, <2>4, <2>6 DEF from_cose_ecdh, base
  <2>7. CASE platform.adapter = "none"
    BY <1>4, <2>1, <2>4, <2>7 DEF from_cose_ecdh, base, D
  <2> QED
    BY <1>1, <2>5, <2>6, <2>7
<1>5. \A a \in OwnVariants : a \in All /\ platform.adapter # "none"
  BY <1>1, <1>3 DEF OwnVariants
<1>6. alg \in All /\ (platform.adapter = "none" => alg \in Direct)
  <2>1. alg \in OwnVariants \/ \E n \in {1, 4, 5} : alg \in from_cose_ecdh(n)
    <3>1. \A S : alg \in UNION {from_cose_ecdh(n) : n \in S} => \E n \in S : alg \in from_cose_ecdh(n)
      BY Zenon
    <3>2. alg \in UNION {from_cose_ecdh(n) : n \in {1, 4, 5}} \/ alg \in OwnVariants
      BY Zenon DEF Algorithms
    <3> QED
      BY <3>1, <3>2, Zenon
  <2> HIDE DEF All, Direct
  <2> QED
    BY <1>4, <1>5, <2>1
<1> QED
  BY <1>6 DEF AlgOk, CurveSet

\* The names of the sizes.
LEMMA Sizes ==
  /\ Size["P256"] = 8 /\ Size["X25519"] = 8 /\ Size["X448"] = 10
  /\ Nrf!Size["P256"] = 8 /\ Nrf!Size["X25519"] = 8 /\ Nrf!Size["X448"] = 10
BY DEF Size, Nrf!Size

\* A key the nRF54L15 made of a draw of the random number generator.
LEMMA NrfDrawn ==
  ASSUME NEW alg, AlgOk(alg), Provider(alg) = "nrf54l15",
         NEW r \in RandomBytes[alg.curve], NEW b \in Drawn(alg, r)
  PROVE  NrfScalar(alg.curve, b)
<1>1. alg.curve \in CurveSet
  BY DEF AlgOk, CurveSet
<1>2. r \in [1 .. Size[alg.curve] -> 0 .. 1]
  BY <1>1, BytesAssumption DEF CurveSet, W
<1>3. b \in Nrf!generate_visible(alg.curve, r)
  BY DEF Drawn
<1>4. b = Nrf!Clamped(alg.curve, r)
  BY <1>3 DEF Nrf!generate_visible
<1> QED
  BY <1>1, <1>2, <1>4, ClampedDecoded DEF NrfScalar, CurveSet

\* A key the nRF54L15 imported.
LEMMA NrfImported ==
  ASSUME NEW alg, AlgOk(alg), Provider(alg) = "nrf54l15",
         NEW bytes \in Seq(0 .. 1), NEW b \in Secrets(alg, bytes)
  PROVE  NrfScalar(alg.curve, b)
<1>1. alg.curve \in CurveSet
  BY DEF AlgOk, CurveSet
<1>2. b \in Nrf!import_secretkey_bytes(alg.curve, bytes)
  BY DEF Secrets
<1>3. Len(bytes) = Nrf!Size[alg.curve] /\ b = Nrf!Clamped(alg.curve, bytes)
  BY <1>2 DEF Nrf!import_secretkey_bytes
<1>4. Nrf!Size[alg.curve] = Size[alg.curve]
  BY <1>1, Sizes DEF CurveSet
<1>5. bytes \in [1 .. Size[alg.curve] -> 0 .. 1]
  BY <1>3, <1>4
<1> QED
  BY <1>1, <1>3, <1>5, ClampedDecoded DEF NrfScalar, CurveSet

\* A public key the nRF54L15 imported.
LEMMA NrfPointImported ==
  ASSUME NEW alg, AlgOk(alg), Provider(alg) = "nrf54l15",
         NEW bytes, OfferOk(alg, bytes), NEW p \in Points(alg, bytes)
  PROVE  NrfCoordinate(alg.curve, p.x)
<1>1. alg.curve \in CurveSet
  BY DEF AlgOk, CurveSet
<1>2. p \in Nrf!import_publickey_bytes(alg.curve, bytes)
  BY DEF Points
<1>3. Nrf!Size[alg.curve] = Size[alg.curve]
  BY <1>1, Sizes DEF CurveSet
<1>4. Len(bytes) = Size[alg.curve]
  <2> SUFFICES ASSUME Len(bytes) # Nrf!Size[alg.curve] PROVE FALSE
    BY <1>3
  <2>1. Nrf!import_publickey_bytes(alg.curve, bytes) = {}
    BY DEF Nrf!import_publickey_bytes
  <2> QED
    BY <1>2, <2>1
<1>5. CASE alg.curve # "X25519"
  <2>1. p.x = bytes
    BY <1>1, <1>2, <1>3, <1>4, <1>5 DEF Nrf!import_publickey_bytes, CurveSet
  <2> QED
    BY <1>4, <1>5, <2>1 DEF NrfCoordinate
<1>6. CASE alg.curve = "X25519"
  <2>1. bytes \in Seq(0 .. 1) /\ Len(bytes) = 8
    BY <1>4, <1>6, Sizes DEF OfferOk
  <2>2. p.x = Nrf!mask_u_x25519(bytes)
    BY <1>2, <1>3, <1>4, <1>6 DEF Nrf!import_publickey_bytes
  <2>3. p.x = [i \in 1 .. 8 |-> IF i \in {8} THEN 0 ELSE bytes[i]]
    BY <2>1, <2>2 DEF Nrf!mask_u_x25519, Nrf!WithBits
  <2>4. \A i \in 1 .. 8 : bytes[i] \in 0 .. 1
    <3>1. \A i \in 1 .. Len(bytes) : bytes[i] \in 0 .. 1
      BY <2>1, ElementOfSeq
    <3> QED
      BY <2>1, <3>1
  <2>5. p.x \in [1 .. 8 -> 0 .. 1] /\ p.x[8] = 0
    BY <2>3, <2>4
  <2>6. Len(p.x) = 8
    BY <2>5, FunctionIsSeq
  <2> QED
    BY <1>6, <2>5, <2>6, Sizes DEF NrfCoordinate
<1> QED
  BY <1>5, <1>6

-----------------------------------------------------------------------------
(* The RAM of the engine *)

\* A word is the one written last.
LEMMA WrittenWord ==
  ASSUME NEW ram, NEW addr \in Nat, NEW data, Len(data) \in Nat, NEW a \in Nat
  PROVE  RamWord(Nrf!write_pke_le(ram, addr, data), a) =
           IF a \in addr .. addr + Len(data) - 1 THEN data[a - addr + 1] ELSE RamWord(ram, a)
BY DEF RamWord, Nrf!write_pke_le, Nrf!WriteWords, Restrict, Nrf!Restrict

\* The addresses that occur.
LEMMA Addresses ==
  /\ Nrf!slot_addr(Nrf!SLOT_SCALAR) = 1144
  /\ Nrf!slot_addr(Nrf!SLOT_POINT_X) = 1656
  /\ Nrf!slot_addr(Nrf!SLOT_POINT_Y) = 1784
  /\ Nrf!slot_addr(Nrf!SLOT_RESULT_X) = 1400
  /\ Nrf!slot_addr(Nrf!SLOT_RESULT_Y) = 1528
  /\ Nrf!montgomery_slot_addr(0) = 0
  /\ Nrf!montgomery_slot_addr(1) = 128
  /\ Nrf!montgomery_slot_addr(Nrf!MG_SLOT_U) = 768
  /\ Nrf!montgomery_slot_addr(Nrf!MG_SLOT_K) = 1024
  /\ Nrf!montgomery_slot_addr(Nrf!MG_SLOT_OUT) = 1280
BY Sizes DEF Nrf!slot_addr, Nrf!montgomery_slot_addr, Nrf!SLOT_SCALAR, Nrf!SLOT_POINT_X,
     Nrf!SLOT_POINT_Y, Nrf!SLOT_RESULT_X, Nrf!SLOT_RESULT_Y, Nrf!MG_SLOT_U, Nrf!MG_SLOT_K,
     Nrf!MG_SLOT_OUT, Nrf!SLOT_SIZE, Nrf!P256_SLOT_OFFSET

\* The digits of a number.
LEMMA DigitsLength ==
  ASSUME NEW v, NEW n \in Nat
  PROVE  Len(Nrf!LeDigits(v, n)) = n /\ Len(Nrf!BeDigits(v, n)) = n
<1>1. Len(Nrf!LeDigits(v, n)) = n
  BY DEF Nrf!LeDigits
<1>2. Len(Nrf!BeDigits(v, n)) = n
  BY <1>1 DEF Nrf!BeDigits, Nrf!Reverse
<1> QED
  BY <1>1, <1>2

\* The digits of a number below 2^8, and the topmost one of a number below 2^7.
LEMMA DigitsOf ==
  ASSUME NEW v \in Nat
  PROVE  /\ Nrf!LeDigits(v, 8) \in [1 .. 8 -> 0 .. 1]
         /\ v < 128 => Nrf!LeDigits(v, 8)[8] = 0
<1> DEFINE d == Nrf!LeDigits(v, 8)
<1>1. d = [i \in 1 .. 8 |-> (v \div 2^(i - 1)) % 2]
  BY DEF Nrf!LeDigits, Nrf!W
<1>2. ASSUME NEW i \in 1 .. 8 PROVE (v \div 2^(i - 1)) % 2 \in 0 .. 1
  <2>1. \/ i - 1 = 0 \/ i - 1 = 1 \/ i - 1 = 2 \/ i - 1 = 3 \/ i - 1 = 4 \/ i - 1 = 5
           \/ i - 1 = 6 \/ i - 1 = 7
    OBVIOUS
  <2> DEFINE j == i - 1
  <2> HIDE DEF j
  <2>2. 2^j \in {1, 2, 4, 8, 16, 32, 64, 128}
    <3>1. j = 0 \/ j = 1 \/ j = 2 \/ j = 3 \/ j = 4 \/ j = 5 \/ j = 6 \/ j = 7
      BY <2>1 DEF j
    <3> DEFINE p(x) == 2^x
    <3>2. /\ p(0) = 1 /\ p(1) = 2 /\ p(2) = 4 /\ p(3) = 8 /\ p(4) = 16 /\ p(5) = 32
          /\ p(6) = 64 /\ p(7) = 128
      BY Powers
    <3> HIDE DEF p
    <3>3. p(j) \in {1, 2, 4, 8, 16, 32, 64, 128}
      BY <3>1, <3>2
    <3> QED
      BY <3>3 DEF p
  <2>3. (v \div 2^j) % 2 \in 0 .. 1
    BY <2>2
  <2> QED
    BY <2>3 DEF j
<1>3. v < 128 => (v \div 128) % 2 = 0
  OBVIOUS
<1>4. d[8] = (v \div 128) % 2
  BY <1>1, Powers
<1> QED
  BY <1>1, <1>2, <1>3, <1>4

-----------------------------------------------------------------------------
(* Parts of the steps *)

\* The keys do not change.
LEMMA KeysSame ==
  ASSUME KeysInv, platform' = platform, secret' = secret, public' = public, peer' = peer
  PROVE  KeysInv'
BY DEF KeysInv, SecretOk, PublicOk, AlgOk, Provider

\* A call returns.
LEMMA CallReturned ==
  ASSUME CallInv, platform' = platform, pc' = "idle", call' = NoCall
  PROVE  CallInv'
BY DEF CallInv, NoCall

\* Between calls and before it is started the engine holds no scalar.
LEMMA EngineAtRest ==
  ASSUME EngineInv, pc # "engine"
  PROVE  ~InUse /\ pke.busy = FALSE /\ \A a \in ScalarSlot : RamWord(pke.ram, a) = 0
<1>1. ~InUse
  BY DEF InUse
<1>2. ~pke.busy /\ pke.busy \in BOOLEAN
  BY <1>1 DEF EngineInv
<1>3. pke.busy = FALSE
  BY <1>2, Zenon
<1>4. \A a \in ScalarSlot : RamWord(pke.ram, a) = 0
  BY <1>1 DEF EngineInv
<1> QED
  BY <1>1, <1>3, <1>4

\* It is not started.
LEMMA EngineStaysAtRest ==
  ASSUME EngineInv, pc # "engine", pc' # "engine", pke' = pke
  PROVE  EngineInv'
<1>1. ~InUse' /\ pke'.busy = FALSE /\ \A a \in ScalarSlot : RamWord(pke'.ram, a) = 0
  BY EngineAtRest DEF InUse
<1>2. pke' = [ram |-> pke'.ram, busy |-> pke'.busy, command |-> pke'.command,
              pointers |-> pke'.pointers]
  BY Zenon DEF EngineInv
<1>3. pke'.busy \in BOOLEAN /\ ~pke'.busy
  BY <1>1, Zenon
<1> QED
  BY <1>1, <1>2, <1>3 DEF EngineInv

\* What ends at once leaves the engine alone.
LEMMA ReturnsAtRest ==
  ASSUME CallInv, EngineInv, pc # "engine", platform' = platform, pke' = pke,
         pc' = "idle", call' = NoCall
  PROVE  CallInv' /\ EngineInv'
BY CallReturned, EngineStaysAtRest

-----------------------------------------------------------------------------
(* The steps *)

\* The initial states.
LEMMA DhInit ==
  ASSUME Init
  PROVE  DhInv
<1>1. KeysInv
  BY DEF Init, KeysInv, SecretOk, PublicOk
<1>2. CallInv
  BY DEF Init, CallInv, NoCall
<1>3. EngineInv
  <2>1. /\ pke.busy = FALSE /\ pke.ram = Nrf!ZeroRam /\ pc = "idle"
        /\ pke = [ram |-> pke.ram, busy |-> pke.busy, command |-> pke.command,
                  pointers |-> pke.pointers]
    BY DEF Init, Nrf!PkeInit
  <2>2. \A a \in ScalarSlot : RamWord(pke.ram, a) = 0
    BY <2>1 DEF RamWord, Nrf!ZeroRam
  <2>3. pke.busy \in BOOLEAN /\ ~pke.busy
    BY <2>1, Zenon
  <2> QED
    BY <2>1, <2>2, <2>3 DEF EngineInv, InUse
<1> QED
  BY <1>1, <1>2, <1>3 DEF DhInv

\* A program makes a call.
LEMMA ProgramStep ==
  ASSUME DhInv, Program
  PROVE  DhInv'
<1> USE DEF DhInv
<1>1. \E c : Call(c)
  BY Zenon DEF Program, MakesKeys, ImportsPeer, DerivesShared
<1>2. /\ pc = "idle" /\ pc' = "call" /\ platform' = platform /\ pke' = pke
      /\ secret' = secret /\ public' = public /\ peer' = peer
  BY <1>1 DEF Call, keys
<1>3. KeysInv'
  BY <1>2, KeysSame
<1>4. EngineInv'
  BY <1>2, EngineStaysAtRest
<1>5. platform \in Platforms
  BY DEF CallInv
<1>6. CallInv'
  <2> SUFFICES
        /\ call'.op = "generate" => AlgOk(call'.alg) /\ call'.who \in PartySet
        /\ call'.op = "import_secretkey_bytes" =>
             AlgOk(call'.alg) /\ call'.who \in PartySet /\ call'.bytes \in Seq(0 .. 1)
        /\ call'.op = "import_publickey_bytes" =>
             AlgOk(call'.alg) /\ OfferOk(call'.alg, call'.bytes)
        /\ call'.op \in {"public_key", "shared_secret"} =>
             call'.who \in PartySet /\ secret[call'.who] # NoKey
        /\ call'.op = "shared_secret" =>
             /\ (IF call'.with = NoKey THEN peer ELSE public[call'.with]) # NoKey
             /\ call'.with = NoKey \/ call'.with \in PartySet
    BY <1>2, <1>5 DEF CallInv, Theirs, AlgOk, OfferOk, Provider
  <2>1. ASSUME NEW p \in PartySet, MakesKeys(p)
        PROVE  \/ \E alg \in Algorithms :
                    \/ call' = [op |-> "generate", who |-> p, alg |-> alg]
                    \/ \E b \in SecretBytes[alg.curve] :
                         call' = [op |-> "import_secretkey_bytes", who |-> p, alg |-> alg,
                                  bytes |-> b]
               \/ secret[p] # NoKey /\ call' = [op |-> "public_key", who |-> p]
    BY <2>1 DEF MakesKeys, Call
  <2>2. ASSUME NEW alg \in Algorithms
        PROVE  /\ AlgOk(alg)
               /\ SecretBytes[alg.curve] \subseteq Seq(0 .. 1)
               /\ OfferedBytes[alg.curve] \subseteq Seq(0 .. 1)
    <3>1. AlgOk(alg)
      BY <1>5, AlgorithmsOk
    <3>2. alg.curve \in {"P256", "X25519", "X448"}
      BY <3>1 DEF AlgOk
    <3> QED
      BY <3>1, <3>2, BytesAssumption DEF W
  <2>3. CASE \E p \in PartySet : MakesKeys(p)
    BY <2>1, <2>2, <2>3
  <2>4. CASE ImportsPeer
    <3> DEFINE q == Other(Turn)
    <3>1. q \in PartySet
      BY DEF Other, PartySet
    <3> HIDE DEF q
    <3>2. CASE /\ public[q] # NoKey
               /\ call' = [op |-> "import_publickey_bytes", alg |-> public[q].alg,
                           bytes |-> public[q].x]
      <4>1. PublicOk(public[q])
        BY <3>1 DEF KeysInv
      <4>2. AlgOk(public[q].alg)
        BY <3>2, <4>1 DEF PublicOk
      <4>3. OfferOk(public[q].alg, public[q].x)
        <5> SUFFICES ASSUME Provider(public[q].alg) = "nrf54l15", public[q].alg.curve = "X25519"
                     PROVE  public[q].x \in Seq(0 .. 1)
          BY DEF OfferOk
        <5>1. public[q].x \in [1 .. 8 -> 0 .. 1]
          BY <3>2, <4>1 DEF PublicOk, NrfCoordinate
        <5> QED
          BY <5>1, FunctionIsSeq
      <4> QED
        BY <3>2, <4>2, <4>3
    <3>3. CASE \E alg \in Algorithms : \E b \in OfferedBytes[alg.curve] :
                 call' = [op |-> "import_publickey_bytes", alg |-> alg, bytes |-> b]
      BY <2>2, <3>3 DEF OfferOk
    <3> QED
      BY <2>4, <3>2, <3>3 DEF ImportsPeer, Call, export_publickey_bytes, q
  <2>5. CASE DerivesShared
    <3> DEFINE p == Turn
    <3>1. p \in PartySet /\ Other(p) \in PartySet
      BY DEF Other, PartySet, Turn
    <3> HIDE DEF p
    <3>2. PICK q \in {NoKey, Other(p)} :
            /\ secret[p] # NoKey
            /\ IF q = NoKey THEN peer # NoKey ELSE public[q] # NoKey
            /\ call' = [op |-> "shared_secret", who |-> p, with |-> q]
      BY <2>5 DEF DerivesShared, Call, p
    <3> QED
      BY <3>1, <3>2
  <2> QED
    BY <2>3, <2>4, <2>5 DEF Program
<1> QED
  BY <1>3, <1>4, <1>6

\* A secret key is stored.
LEMMA SecretStored ==
  ASSUME KeysInv, platform' = platform, public' = public, peer' = peer,
         NEW p \in PartySet, NEW sk, SecretOk(sk), secret' = [secret EXCEPT ![p] = sk]
  PROVE  KeysInv'
<1>1. \A q \in PartySet : SecretOk(secret'[q])
  BY DEF KeysInv
<1>2. DOMAIN secret' = PartySet
  BY DEF KeysInv
<1> QED
  BY <1>1, <1>2 DEF KeysInv, SecretOk, PublicOk, AlgOk, Provider

\* generate_visible
LEMMA GenerateStep ==
  ASSUME DhInv, Generate
  PROVE  DhInv'
<1>1. /\ call.op = "generate" /\ platform' = platform /\ pke' = pke
      /\ pc' = "idle" /\ call' = NoCall /\ public' = public /\ peer' = peer
  BY DEF Generate, Return
<1>2. pc # "engine" /\ AlgOk(call.alg) /\ call.who \in PartySet
  BY <1>1 DEF DhInv, CallInv
<1>3. CallInv' /\ EngineInv'
  BY <1>1, <1>2, ReturnsAtRest DEF DhInv
<1>4. PICK r \in RandomBytes[call.alg.curve] : \E b \in Drawn(call.alg, r) :
        secret' = [secret EXCEPT ![call.who] = [alg |-> call.alg, bytes |-> b]]
  BY DEF Generate
<1>5. PICK b \in Drawn(call.alg, r) :
        secret' = [secret EXCEPT ![call.who] = [alg |-> call.alg, bytes |-> b]]
  BY <1>4
<1>6. SecretOk([alg |-> call.alg, bytes |-> b])
  BY <1>2, NrfDrawn DEF SecretOk
<1>7. KeysInv'
  BY <1>1, <1>2, <1>5, <1>6, SecretStored DEF DhInv
<1> QED
  BY <1>3, <1>7 DEF DhInv

\* import_secretkey_bytes
LEMMA ImportSecretStep ==
  ASSUME DhInv, ImportSecret
  PROVE  DhInv'
<1>1. /\ call.op = "import_secretkey_bytes" /\ platform' = platform /\ pke' = pke
      /\ pc' = "idle" /\ call' = NoCall /\ public' = public /\ peer' = peer
  BY DEF ImportSecret, Return
<1>2. /\ pc # "engine" /\ AlgOk(call.alg) /\ call.who \in PartySet
      /\ call.bytes \in Seq(0 .. 1)
  BY <1>1 DEF DhInv, CallInv
<1>3. CallInv' /\ EngineInv'
  BY <1>1, <1>2, ReturnsAtRest DEF DhInv
<1>4. CASE secret' = secret
  BY <1>1, <1>3, <1>4, KeysSame DEF DhInv
<1>5. CASE \E b \in Secrets(call.alg, call.bytes) :
             secret' = [secret EXCEPT ![call.who] = [alg |-> call.alg, bytes |-> b]]
  <2>1. PICK b \in Secrets(call.alg, call.bytes) :
          secret' = [secret EXCEPT ![call.who] = [alg |-> call.alg, bytes |-> b]]
    BY <1>5
  <2>2. SecretOk([alg |-> call.alg, bytes |-> b])
    BY <1>2, NrfImported DEF SecretOk
  <2>3. KeysInv'
    BY <1>1, <1>2, <2>1, <2>2, SecretStored DEF DhInv
  <2> QED
    BY <1>3, <2>3 DEF DhInv
<1> QED
  BY <1>4, <1>5 DEF ImportSecret, import_secretkey_bytes

\* import_publickey_bytes
LEMMA ImportPublicStep ==
  ASSUME DhInv, ImportPublic
  PROVE  DhInv'
<1>1. /\ call.op = "import_publickey_bytes" /\ platform' = platform /\ pke' = pke
      /\ pc' = "idle" /\ call' = NoCall /\ public' = public /\ secret' = secret
  BY DEF ImportPublic, Return
<1>2. pc # "engine" /\ AlgOk(call.alg) /\ OfferOk(call.alg, call.bytes)
  BY <1>1 DEF DhInv, CallInv
<1>3. CallInv' /\ EngineInv'
  BY <1>1, <1>2, ReturnsAtRest DEF DhInv
<1>4. CASE peer' = peer
  BY <1>1, <1>3, <1>4, KeysSame DEF DhInv
<1>5. CASE \E p \in Points(call.alg, call.bytes) : peer' = Point(call.alg, p)
  <2>1. PICK p \in Points(call.alg, call.bytes) : peer' = Point(call.alg, p)
    BY <1>5
  <2>2. peer'.alg = call.alg /\ peer'.x = p.x
    BY <2>1 DEF Point
  <2>3. PublicOk(peer')
    BY <1>2, <2>2, NrfPointImported DEF PublicOk
  <2>4. KeysInv'
    BY <1>1, <2>3 DEF DhInv, KeysInv, SecretOk, PublicOk, AlgOk, Provider
  <2> QED
    BY <1>3, <2>4 DEF DhInv
<1> QED
  BY <1>4, <1>5 DEF ImportPublic, import_publickey_bytes

\* The keys are for different algorithms.
LEMMA IncompatibleStep ==
  ASSUME DhInv, Incompatible
  PROVE  DhInv'
<1>1. /\ platform' = platform /\ pke' = pke /\ pc' = "idle" /\ call' = NoCall
      /\ public' = public /\ secret' = secret /\ peer' = peer
  BY DEF Incompatible, Return, keys
<1>2. pc # "engine"
  BY DEF Incompatible, DhInv, EngineInv, Multiplies
<1> QED
  BY <1>1, <1>2, ReturnsAtRest, KeysSame DEF DhInv

\* The result of a multiplication is stored.
LEMMA ProductKeys ==
  ASSUME DhInv, Multiplies, NEW p, Product(p),
         Provider(secret[call.who].alg) = "nrf54l15" =>
           NrfCoordinate(secret[call.who].alg.curve, p.x)
  PROVE  KeysInv'
<1> DEFINE sk == secret[call.who]
<1>1. platform' = platform /\ secret' = secret /\ peer' = peer
  BY DEF Product
<1>2. call.who \in PartySet /\ sk # NoKey
  BY DEF Multiplies, DhInv, CallInv
<1>3. CASE call.op = "public_key"
  <2>1. public' = [public EXCEPT ![call.who] = Point(sk.alg, p)]
    BY <1>3 DEF Product
  <2> DEFINE pk == Point(sk.alg, p)
  <2>2. pk.alg = sk.alg /\ pk.x = p.x
    BY DEF Point
  <2>3. AlgOk(sk.alg)
    BY <1>2 DEF DhInv, KeysInv, SecretOk
  <2>4. PublicOk(pk)
    BY <2>2, <2>3 DEF PublicOk
  <2> HIDE DEF pk
  <2>5. \A q \in PartySet : PublicOk(public'[q])
    BY <2>1, <2>4 DEF DhInv, KeysInv, pk
  <2>6. DOMAIN public' = PartySet
    BY <2>1 DEF DhInv, KeysInv
  <2> QED
    BY <1>1, <2>5, <2>6 DEF DhInv, KeysInv, SecretOk, PublicOk, AlgOk, Provider
<1>4. CASE call.op # "public_key"
  BY <1>1, <1>4, KeysSame DEF Product, DhInv
<1> QED
  BY <1>3, <1>4

\* A library multiplies.
LEMMA OwnMultiplyStep ==
  ASSUME DhInv, OwnMultiply
  PROVE  DhInv'
<1>1. PICK p : Product(p)
  BY DEF OwnMultiply
<1>2. Provider(secret[call.who].alg) \in {"libcrux", "rustcrypto"} /\ Multiplies /\ pke' = pke
  BY DEF OwnMultiply
<1>3. pc # "engine"
  BY <1>2 DEF DhInv, EngineInv
<1>4. platform' = platform /\ pc' = "idle" /\ call' = NoCall
  BY <1>1 DEF Product, Return
<1>5. KeysInv'
  BY <1>1, <1>2, ProductKeys
<1> QED
  BY <1>2, <1>3, <1>4, <1>5, ReturnsAtRest DEF DhInv

\* A call that multiplies goes on doing so while nothing but pc changes.
LEMMA StillMultiplies ==
  ASSUME Multiplies, platform' = platform, call' = call, secret' = secret, public' = public,
         peer' = peer
  PROVE  Multiplies'
<1>1. CASE call.op = "public_key"
  BY <1>1 DEF Multiplies
<1>2. CASE call.op = "shared_secret" /\ Compatible(secret[call.who], Theirs)
  <2>1. Compatible(secret[call.who], Theirs)'
    BY <1>2 DEF Compatible, Theirs, Libcrux!Compatible, Rustcrypto!Compatible
  <2> QED
    BY <1>2, <2>1 DEF Multiplies
<1> QED
  BY <1>1, <1>2 DEF Multiplies

\* The call still waits, or begins to wait, for the engine.
LEMMA CallWaits ==
  ASSUME DhInv, Multiplies, platform' = platform, call' = call, secret' = secret,
         public' = public, peer' = peer, pc' = "engine"
  PROVE  CallInv' /\ KeysInv'
<1>1. call.op \in {"public_key", "shared_secret"}
  BY DEF Multiplies
<1>2. CallInv'
  BY <1>1 DEF DhInv, CallInv, Theirs
<1> QED
  BY <1>2, KeysSame DEF DhInv

\* The operands of the nRF54L15's multiplication are as long as its curve says.
LEMMA NrfOperands ==
  ASSUME DhInv, On("nrf54l15")
  PROVE  LET sk == secret[call.who]
             curve == sk.alg.curve IN
         /\ curve \in CurveSet
         /\ sk.bytes \in [1 .. Size[curve] -> 0 .. 1]
         /\ Len(Factor.x) = Size[curve]
         /\ curve = "X25519" => Factor.x \in [1 .. 8 -> 0 .. 1]
<1> DEFINE sk == secret[call.who]
           curve == sk.alg.curve
<1>1. Multiplies /\ Provider(sk.alg) = "nrf54l15"
  BY DEF On
<1>2. call.who \in PartySet /\ sk # NoKey
  BY <1>1 DEF Multiplies, DhInv, CallInv
<1>3. AlgOk(sk.alg) /\ NrfScalar(curve, sk.bytes)
  BY <1>1, <1>2 DEF DhInv, KeysInv, SecretOk
<1>4. curve \in CurveSet /\ sk.bytes \in [1 .. Size[curve] -> 0 .. 1]
  BY <1>3 DEF AlgOk, CurveSet, NrfScalar
<1>5. CASE call.op = "public_key"
  <2>1. Factor = Nrf!BasePoint(curve)
    BY <1>1, <1>5 DEF Factor, BasePoint
  <2>2. CASE curve = "P256"
    <3>1. Factor.x = Nrf!BeDigits(Nrf!P256_GX, 8)
      BY <2>1, <2>2 DEF Nrf!BasePoint, Nrf!P256_GX_BYTES
    <3>2. Len(Nrf!BeDigits(Nrf!P256_GX, 8)) = 8
      BY DigitsLength
    <3> QED
      BY <1>4, <2>2, <3>1, <3>2, Sizes
  <2>3. CASE curve = "X25519"
    <3>1. Factor.x = Nrf!LeDigits(MontBase["X25519"], 8)
      BY <2>1, <2>3 DEF Nrf!BasePoint
    <3>2. Factor.x \in [1 .. 8 -> 0 .. 1]
      BY <3>1, MontAssumption, DigitsOf
    <3>3. Len(Nrf!LeDigits(MontBase["X25519"], 8)) = 8
      BY DigitsLength
    <3> QED
      BY <1>4, <2>3, <3>1, <3>2, <3>3, Sizes
  <2>4. CASE curve = "X448"
    <3>1. Factor.x = Nrf!LeDigits(MontBase["X448"], 10)
      BY <2>1, <2>4 DEF Nrf!BasePoint
    <3>2. Len(Nrf!LeDigits(MontBase["X448"], 10)) = 10
      BY DigitsLength
    <3> QED
      BY <1>4, <2>4, <3>1, <3>2, Sizes
  <2> QED
    BY <1>4, <2>2, <2>3, <2>4 DEF CurveSet
<1>6. CASE call.op = "shared_secret"
  <2>1. Factor = Theirs /\ Theirs # NoKey /\ Compatible(sk, Theirs)
    BY <1>1, <1>6 DEF Factor, Multiplies, DhInv, CallInv
  <2>2. PublicOk(Theirs)
    BY <1>6 DEF Theirs, DhInv, CallInv, KeysInv
  <2>3. AlgOk(Theirs.alg)
    BY <2>1, <2>2 DEF PublicOk
  <2>4. /\ platform.adapter \in {"none", "libcrux", "rustcrypto"}
        /\ platform.base \in {"empty", "stm32wba55", "nrf54l15"}
    BY PlatformAssumption DEF DhInv, CallInv
  <2>5. sk.alg.via = "direct" /\ platform.base = "nrf54l15"
    BY <1>1, <1>3, <2>4 DEF Provider, AlgOk
  <2>6. Theirs.alg.via = "direct" /\ Theirs.alg.curve = curve
    BY <2>1, <2>3, <2>4, <2>5 DEF Compatible, Libcrux!Compatible, Rustcrypto!Compatible, AlgOk
  <2>7. Provider(Theirs.alg) = "nrf54l15"
    BY <2>5, <2>6 DEF Provider
  <2>8. NrfCoordinate(curve, Factor.x)
    BY <2>1, <2>2, <2>6, <2>7 DEF PublicOk
  <2> QED
    BY <1>4, <2>8 DEF NrfCoordinate
<1> QED
  BY <1>1, <1>5, <1>6 DEF Multiplies

\* The engine is started with its operands.
LEMMA StartOnNrf ==
  ASSUME DhInv, pc = "call", On("nrf54l15"),
         Nrf!MultiplyStart(secret[call.who].alg.curve, secret[call.who].bytes, Factor),
         platform' = platform, call' = call, secret' = secret, public' = public, peer' = peer,
         pc' = "engine"
  PROVE  EngineInv'
<1> DEFINE sk == secret[call.who]
           curve == sk.alg.curve
           k == sk.bytes
           x == Factor.x
<1>1. Multiplies /\ Provider(sk.alg) = "nrf54l15"
  BY DEF On
<1>2. Multiplies' /\ Provider(secret[call.who].alg)' = "nrf54l15"
  BY <1>1, StillMultiplies DEF Provider
<1>3. \A a \in ScalarSlot : RamWord(pke.ram, a) = 0
  BY EngineAtRest DEF DhInv
<1>4. /\ curve \in CurveSet /\ k \in [1 .. Size[curve] -> 0 .. 1]
      /\ Len(x) = Size[curve] /\ (curve = "X25519" => x \in [1 .. 8 -> 0 .. 1])
  BY NrfOperands
<1>5. Size[curve] \in {8, 10} /\ (curve \in {"P256", "X25519"} => Size[curve] = 8)
  BY <1>4, Sizes DEF CurveSet
<1>6. Len(k) = Size[curve]
  BY <1>4, <1>5, FunctionIsSeq
<1>7. Nrf!MultiplyStart(curve, k, Factor)
  OBVIOUS
<1>8. InUse' /\ InUseCurve' = curve
  BY <1>2 DEF InUse, InUseCurve
<1>9. CASE curve = "P256"
  <2> DEFINE r1 == Nrf!write_pke_le(pke.ram, 1144, k)
             r2 == Nrf!write_pke_le(r1, 1656, x)
             r3 == Nrf!write_pke_le(r2, 1784, Factor.y)
  <2>1. pke' = [command |-> [op |-> "ECC_MULT", size |-> 8, curve |-> "P256",
                             edwards |-> FALSE, swapbytes |-> TRUE],
                ram |-> r3,
                pointers |-> [a |-> 12, b |-> 8, c |-> 10], busy |-> TRUE]
    BY <1>7, <1>9, Addresses, Sizes DEF Nrf!MultiplyStart, Nrf!P256Start, Nrf!SLOT_POINT_X,
       Nrf!SLOT_SCALAR, Nrf!SLOT_RESULT_X
  <2>2. ASSUME NEW a \in ScalarSlot, a \notin 1144 .. 1151 PROVE RamWord(r3, a) = 0
    <3>1. a \in Nat /\ a < 1656 /\ a < 1784 /\ a \notin 1144 .. 1144 + Len(k) - 1
      BY <1>5, <1>6, <1>9, <2>2 DEF ScalarSlot
    <3> HIDE DEF r1, r2, r3
    <3>2. RamWord(r1, a) = RamWord(pke.ram, a)
      BY <3>1, WrittenWord DEF r1
    <3>3. RamWord(r2, a) = RamWord(r1, a)
      BY <3>1, WrittenWord DEF r2
    <3>4. RamWord(r3, a) = RamWord(r2, a)
      BY <3>1, WrittenWord DEF r3
    <3> QED
      BY <1>3, <2>2, <3>2, <3>3, <3>4
  <2> HIDE DEF r3
  <2>3. /\ pke'.ram = r3 /\ pke'.busy = TRUE /\ pke'.pointers.c = 10
        /\ pke'.command.size \in 0 .. 128
        /\ pke' = [ram |-> pke'.ram, busy |-> pke'.busy, command |-> pke'.command,
                   pointers |-> pke'.pointers]
    BY <2>1
  <2>4. pke'.busy \in BOOLEAN
    BY <2>3, Zenon
  <2> QED
    BY <1>2, <1>8, <1>9, <2>2, <2>3, <2>4 DEF EngineInv, ScalarWords
<1>10. CASE curve # "P256"
  <2> DEFINE p1 == Nrf!write_pke_le(pke.ram, 0, Nrf!X448_PRIME_P)
             p2 == Nrf!write_pke_le(p1, 128, Nrf!X448_COEFF_A)
             p3 == IF curve = "X448" THEN p2 ELSE pke.ram
             p4 == Nrf!write_pke_le(p3, 768, x)
             p5 == Nrf!write_pke_le(p4, 1024, k)
  <2>1. pke' = [command |-> [op |-> "MONTGOMERY_PTMUL", size |-> Nrf!Size[curve],
                             curve |-> IF curve = "X448" THEN "NOACCEL" ELSE "CURVE25519",
                             edwards |-> curve = "X448", swapbytes |-> FALSE],
                ram |-> p5,
                pointers |-> [a |-> 6, b |-> 8, c |-> 10], busy |-> TRUE]
    BY <1>7, <1>10, Addresses DEF Nrf!MultiplyStart, Nrf!MontgomeryStart, Nrf!MG_SLOT_U,
       Nrf!MG_SLOT_K, Nrf!MG_SLOT_OUT
  <2>2. Nrf!Size[curve] = Size[curve]
    BY <1>4, Sizes DEF CurveSet
  <2>3. Len(Nrf!X448_PRIME_P) = 10 /\ Len(Nrf!X448_COEFF_A) = 10
    <3>1. /\ Len(Nrf!LeDigits(MontPrime["X448"], 10)) = 10
          /\ Len(Nrf!LeDigits(MontA["X448"], 10)) = 10
      BY DigitsLength
    <3> QED
      BY <3>1, Sizes DEF Nrf!X448_PRIME_P, Nrf!X448_COEFF_A
  <2> HIDE DEF p1, p2, p4, p5
  <2>4. ASSUME NEW a \in ScalarSlot PROVE RamWord(p4, a) = 0
    <3>1. /\ a \in Nat /\ a \notin 0 .. 0 + Len(Nrf!X448_PRIME_P) - 1
          /\ a \notin 128 .. 128 + Len(Nrf!X448_COEFF_A) - 1
          /\ a \notin 768 .. 768 + Len(x) - 1
      BY <1>4, <1>5, <2>3 DEF ScalarSlot
    <3>2. RamWord(p1, a) = RamWord(pke.ram, a)
      BY <3>1, WrittenWord DEF p1
    <3>3. RamWord(p2, a) = RamWord(p1, a)
      BY <3>1, WrittenWord DEF p2
    <3>4. RamWord(p4, a) = RamWord(p3, a)
      BY <3>1, WrittenWord DEF p4
    <3> QED
      BY <1>3, <3>2, <3>3, <3>4
  <2>5. ASSUME NEW a \in ScalarSlot, a \notin 1024 .. 1024 + Size[curve] - 1
        PROVE  RamWord(p5, a) = 0
    <3>1. a \in Nat
      BY DEF ScalarSlot
    <3> QED
      BY <1>6, <2>4, <2>5, <3>1, WrittenWord, SMTT(15) DEF p5
  <2>6. /\ pke'.ram = p5 /\ pke'.busy = TRUE /\ pke'.pointers.c = 10
        /\ pke'.command.size \in 0 .. 128
        /\ pke' = [ram |-> pke'.ram, busy |-> pke'.busy, command |-> pke'.command,
                   pointers |-> pke'.pointers]
    <3> DEFINE cmd == [op |-> "MONTGOMERY_PTMUL", size |-> Nrf!Size[curve],
                       curve |-> IF curve = "X448" THEN "NOACCEL" ELSE "CURVE25519",
                       edwards |-> curve = "X448", swapbytes |-> FALSE]
               ptr == [a |-> 6, b |-> 8, c |-> 10]
    <3>1. pke' = [command |-> cmd, ram |-> p5, pointers |-> ptr, busy |-> TRUE]
      BY <2>1, Zenon
    <3>2. cmd.size = Size[curve] /\ ptr.c = 10
      BY <2>2
    <3> HIDE DEF cmd, ptr
    <3>3. /\ pke'.ram = p5 /\ pke'.busy = TRUE /\ pke'.pointers = ptr /\ pke'.command = cmd
          /\ pke' = [ram |-> pke'.ram, busy |-> pke'.busy, command |-> pke'.command,
                     pointers |-> pke'.pointers]
      BY <3>1
    <3> QED
      BY <1>5, <3>2, <3>3
  <2>7. pke'.busy \in BOOLEAN /\ pke'.busy
    BY <2>6, Zenon
  <2>8. ASSUME curve = "X25519" PROVE X25519Started'
    <3>1. pke'.command = [op |-> "MONTGOMERY_PTMUL", size |-> 8, curve |-> "CURVE25519",
                          edwards |-> FALSE, swapbytes |-> FALSE]
      <4>1. (curve = "X448") = FALSE
        <5>1. curve # "X448"
          BY <2>8
        <5> QED
          BY <5>1, Zenon
      <4>2. pke'.command = [op |-> "MONTGOMERY_PTMUL", size |-> 8, curve |-> "CURVE25519",
                            edwards |-> curve = "X448", swapbytes |-> FALSE]
        BY <1>5, <2>1, <2>2, <2>8
      <4> QED
        BY <4>1, <4>2, Zenon
    <3>2. pke'.pointers = [a |-> 6, b |-> 8, c |-> 10]
      BY <2>1
    <3>3. ASSUME NEW a \in 768 .. 775 PROVE RamWord(p5, a) \in 0 .. 1
      <4>1. /\ a \in Nat /\ a \notin 1024 .. 1024 + Len(k) - 1
            /\ a \in 768 .. 768 + Len(x) - 1 /\ a - 768 + 1 \in 1 .. 8
        BY <1>4, <1>5, <1>6, <2>8
      <4>2. RamWord(p5, a) = RamWord(p4, a)
        BY <4>1, WrittenWord DEF p5
      <4>3. RamWord(p4, a) = x[a - 768 + 1]
        BY <4>1, WrittenWord DEF p4
      <4>4. x \in [1 .. 8 -> 0 .. 1]
        BY <1>4, <2>8
      <4> HIDE DEF x
      <4> QED
        BY <4>1, <4>2, <4>3, <4>4
    <3> QED
      BY <2>6, <3>1, <3>2, <3>3 DEF X25519Started
  <2> HIDE DEF p3
  <2> QED
    BY <1>2, <1>8, <1>10, <2>5, <2>6, <2>7, <2>8 DEF EngineInv, ScalarWords
<1> QED
  BY <1>9, <1>10

\* A multiplication is started on an engine.
LEMMA StartOnEngineStep ==
  ASSUME DhInv, StartOnEngine
  PROVE  DhInv'
<1>1. /\ platform' = platform /\ call' = call /\ secret' = secret /\ public' = public
      /\ peer' = peer /\ pc = "call" /\ pc' = "engine"
  BY DEF StartOnEngine, keys
<1>2. Multiplies
  BY DEF StartOnEngine, On
<1>3. CallInv' /\ KeysInv'
  BY <1>1, <1>2, CallWaits
<1>4. CASE On("nrf54l15") /\ Nrf!MultiplyStart(secret[call.who].alg.curve,
                                              secret[call.who].bytes, Factor)
  BY <1>1, <1>3, <1>4, StartOnNrf DEF DhInv
<1>5. CASE On("stm32wba55") /\ pke' = pke
  <2>1. Provider(secret[call.who].alg)' = "stm32wba55" /\ Multiplies'
    BY <1>1, <1>2, <1>5, StillMultiplies DEF On, Provider
  <2>2. ~InUse' /\ pke'.busy = FALSE /\ \A a \in ScalarSlot : RamWord(pke'.ram, a) = 0
    BY <1>1, <1>5, <2>1, EngineAtRest DEF InUse, DhInv
  <2>3. pke' = [ram |-> pke'.ram, busy |-> pke'.busy, command |-> pke'.command,
                pointers |-> pke'.pointers]
    BY <1>5, Zenon DEF EngineInv, DhInv
  <2>4. pke'.busy \in BOOLEAN /\ ~pke'.busy
    BY <2>2, Zenon
  <2>5. EngineInv'
    BY <2>1, <2>2, <2>3, <2>4 DEF EngineInv
  <2> QED
    BY <1>3, <2>5 DEF DhInv
<1> QED
  BY <1>4, <1>5 DEF StartOnEngine

\* The result is read and the scalar is erased.
LEMMA FinishOnEngineStep ==
  ASSUME DhInv, FinishOnEngine
  PROVE  DhInv'
<1> DEFINE sk == secret[call.who]
           curve == sk.alg.curve
<1>1. PICK p : Product(p)
  BY DEF FinishOnEngine
<1>2. platform' = platform /\ pc = "engine" /\ pc' = "idle" /\ call' = NoCall
  BY <1>1 DEF FinishOnEngine, Product, Return
<1>3. CallInv' /\ ~InUse'
  BY <1>2, CallReturned DEF DhInv, InUse
<1>4. Multiplies /\ curve \in CurveSet
  <2>1. Multiplies
    BY DEF FinishOnEngine, On
  <2>2. call.who \in PartySet /\ sk # NoKey
    BY <2>1 DEF Multiplies, DhInv, CallInv
  <2> QED
    BY <2>1, <2>2 DEF DhInv, KeysInv, SecretOk, AlgOk, CurveSet
<1>5. CASE On("stm32wba55") /\ (\E q : Product(q)) /\ pke' = pke
  <2>1. Provider(sk.alg) = "stm32wba55"
    BY <1>5 DEF On
  <2>2. KeysInv'
    BY <1>1, <1>4, <2>1, ProductKeys
  <2>3. ~InUse /\ ~pke.busy /\ pke.busy \in BOOLEAN
    BY <2>1 DEF DhInv, EngineInv, InUse
  <2>4. \A a \in ScalarSlot : RamWord(pke.ram, a) = 0
    BY <2>3 DEF DhInv, EngineInv
  <2>5. pke' = [ram |-> pke'.ram, busy |-> pke'.busy, command |-> pke'.command,
                pointers |-> pke'.pointers]
    BY <1>5, Zenon DEF EngineInv, DhInv
  <2>6. EngineInv'
    BY <1>2, <1>3, <1>5, <2>3, <2>4, <2>5 DEF EngineInv
  <2> QED
    BY <1>3, <2>2, <2>6 DEF DhInv
<1>6. CASE On("nrf54l15") /\ Nrf!PkeFinish(curve) /\ Product(Nrf!MultiplyResult(curve))
  <2> DEFINE r == Nrf!MultiplyResult(curve)
  <2>1. Provider(sk.alg) = "nrf54l15" /\ InUse /\ InUseCurve = curve
    BY <1>2, <1>6 DEF On, InUse, InUseCurve
  <2>2. Nrf!Size[curve] = Size[curve] /\ Size[curve] \in {8, 10}
    BY <1>4, Sizes DEF CurveSet
  <2>3. ~pke.busy
    BY <1>6 DEF Nrf!PkeFinish
  <2>4. NrfCoordinate(curve, r.x)
    <3> DEFINE addr == IF curve = "P256" THEN 1400 ELSE 1280
    <3>1. r.x = [i \in 1 .. Size[curve] |-> Nrf!RamWord(pke.ram, addr + i - 1)]
      <4>1. CASE curve = "P256"
        BY <2>2, <4>1, Addresses DEF Nrf!MultiplyResult, Nrf!read_pke_le
      <4>2. CASE curve # "P256"
        BY <2>2, <4>2, Addresses DEF Nrf!MultiplyResult, Nrf!read_pke_le
      <4> QED
        BY <4>1, <4>2
    <3>2. Len(r.x) = Size[curve]
      BY <2>2, <3>1
    <3>3. ASSUME curve = "X25519" PROVE r.x \in [1 .. 8 -> 0 .. 1] /\ r.x[8] = 0
      <4>1. X25519Ended
        BY <2>1, <2>3, <3>3 DEF DhInv, EngineInv
      <4>2. Nrf!RamWord(pke.ram, 1287) = 0
        BY <4>1 DEF X25519Ended, RamWord, Nrf!RamWord
      <4>3. ASSUME NEW i \in 1 .. 8 PROVE Nrf!RamWord(pke.ram, 1280 + i - 1) \in 0 .. 1
        <5>1. 1280 + i - 1 \in 1280 .. 1287
          OBVIOUS
        <5> QED
          BY <4>1, <5>1 DEF X25519Ended, RamWord, Nrf!RamWord
      <4>4. r.x = [i \in 1 .. 8 |-> Nrf!RamWord(pke.ram, 1280 + i - 1)]
        BY <3>1, <3>3, Sizes
      <4> HIDE DEF r
      <4> QED
        BY <4>2, <4>3, <4>4
    <3> QED
      BY <3>2, <3>3 DEF NrfCoordinate
  <2>5. KeysInv'
    BY <1>4, <1>6, <2>4, ProductKeys
  <2> DEFINE addr == IF curve = "P256" THEN 1144 ELSE 1024
             zeros == [i \in 1 .. Size[curve] |-> 0]
             ram == Nrf!write_pke_le(pke.ram, addr, zeros)
  <2>6. pke' = [pke EXCEPT !.ram = ram]
    BY <1>6, <2>2, Addresses DEF Nrf!PkeFinish, Nrf!ZeroWords
  <2> HIDE DEF ram
  <2>7. ASSUME NEW a \in ScalarSlot PROVE RamWord(ram, a) = 0
    <3>1. a \in Nat /\ Len(zeros) = Size[curve]
      BY <2>2 DEF ScalarSlot
    <3>2. RamWord(pke.ram, a) = 0 \/ a \in addr .. addr + Size[curve] - 1
      BY <2>1, <2>2, <2>7, Sizes DEF DhInv, EngineInv, ScalarWords
    <3> addr \in Nat
      OBVIOUS
    <3> \A i \in 1 .. Size[curve] : zeros[i] = 0
      OBVIOUS
    <3> HIDE DEF addr, zeros
    <3>3. CASE a \in addr .. addr + Size[curve] - 1
      <4>0. a \in addr .. addr + Len(zeros) - 1 /\ Len(zeros) \in Nat
        BY <2>2, <3>1, <3>3
      <4>1. RamWord(ram, a) = zeros[a - addr + 1]
        BY <3>1, <4>0, WrittenWord DEF ram
      <4>2. a - addr + 1 \in 1 .. Size[curve]
        BY <2>2, <3>1, <3>3
      <4> QED
        BY <4>1, <4>2
    <3>4. CASE a \notin addr .. addr + Size[curve] - 1
      <4>0. a \notin addr .. addr + Len(zeros) - 1 /\ Len(zeros) \in Nat
        BY <2>2, <3>1, <3>4
      <4>1. RamWord(ram, a) = RamWord(pke.ram, a)
        BY <3>1, <4>0, WrittenWord, ZenonT(30) DEF ram
      <4> QED
        BY <3>2, <3>4, <4>1
    <3> QED
      BY <3>3, <3>4
  <2>8. /\ pke'.ram = ram /\ pke'.busy = pke.busy
        /\ pke' = [ram |-> pke'.ram, busy |-> pke'.busy, command |-> pke'.command,
                   pointers |-> pke'.pointers]
    <3>1. pke = [ram |-> pke.ram, busy |-> pke.busy, command |-> pke.command,
                 pointers |-> pke.pointers]
      BY DEF DhInv, EngineInv
    <3> QED
      BY <2>6, <3>1
  <2>9. pke'.busy \in BOOLEAN /\ ~pke'.busy
    BY <2>3, <2>8 DEF DhInv, EngineInv
  <2>10. EngineInv'
    BY <1>2, <1>3, <2>7, <2>8, <2>9 DEF EngineInv
  <2> QED
    BY <1>3, <2>5, <2>10 DEF DhInv
<1> QED
  BY <1>5, <1>6 DEF FinishOnEngine

\* The engine writes its result behind the operands.
LEMMA OutputBehind ==
  ASSUME NEW ram, NEW slot \in {10, 11}, NEW v, NEW a \in Nat, a < 1280,
         pke.command.size \in 0 .. 128
  PROVE  RamWord(Nrf!Output(ram, slot, v), a) = RamWord(ram, a)
<1> DEFINE addr == Nrf!OperandAddr(slot)
           data == IF pke.command.swapbytes THEN Nrf!BeDigits(v, pke.command.size)
                                            ELSE Nrf!LeDigits(v, pke.command.size)
<1>1. addr \in Nat /\ addr >= 1280
  BY DEF Nrf!OperandAddr, Nrf!SLOT_SIZE
<1>2. Nrf!Output(ram, slot, v) = Nrf!write_pke_le(ram, addr, data)
  BY DEF Nrf!Output
<1>3. Len(data) \in Nat
  OBVIOUS
<1> HIDE DEF addr, data
<1>4. a \notin addr .. addr + Len(data) - 1
  BY <1>1, <1>3
<1> QED
  BY <1>1, <1>2, <1>3, <1>4, WrittenWord

\* The engine leaves its operands, the scalar among them, where they are.
LEMMA OperandsStay ==
  ASSUME pke.command.size \in 0 .. 128, pke.pointers.c = 10, NEW a \in Nat, a < 1280
  PROVE  RamWord(Nrf!PkeOutput, a) = RamWord(pke.ram, a)
<1> DEFINE o1 == Nrf!Output(pke.ram, 10, Nrf!PkePoint[1])
           o2 == Nrf!Output(o1, 11, Nrf!PkePoint[2])
           o3(k, u, p, c) == Nrf!Output(pke.ram, 10, Nrf!Ladder(k, u, p, c, pke.command.size))
<1>1. \/ Nrf!PkeOutput = o2
      \/ \E k, u, p, c : Nrf!PkeOutput = o3(k, u, p, c)
      \/ Nrf!PkeOutput = pke.ram
  <2>1. CASE pke.command.op = "ECC_MULT"
    <3>1. pke.pointers.c + 1 = 11
      OBVIOUS
    <3> QED
      BY <2>1, <3>1 DEF Nrf!PkeOutput
  <2>2. CASE pke.command.op # "ECC_MULT"
    BY <2>2 DEF Nrf!PkeOutput
  <2> QED
    BY <2>1, <2>2
<1>2. RamWord(o2, a) = RamWord(o1, a) /\ RamWord(o1, a) = RamWord(pke.ram, a)
  BY OutputBehind
<1>3. \A k, u, p, c : RamWord(o3(k, u, p, c), a) = RamWord(pke.ram, a)
  BY OutputBehind
<1> HIDE DEF o1, o2, o3
<1> QED
  BY <1>1, <1>2, <1>3

\* The result of X25519 is a number of 7 bits.
LEMMA X25519Output ==
  ASSUME X25519Started
  PROVE  /\ \A a \in 1280 .. 1287 : RamWord(Nrf!PkeOutput, a) \in 0 .. 1
         /\ RamWord(Nrf!PkeOutput, 1287) = 0
<1> DEFINE prime == MontPrime["X25519"]
           k == Nrf!Operand(8)
           u == Nrf!Operand(6)
           v == Nrf!Ladder(k, u, prime, MontA["X25519"], 8)
           d == Nrf!LeDigits(v, 8)
<1>1. /\ pke.command.op = "MONTGOMERY_PTMUL" /\ pke.command.size = 8
      /\ pke.command.curve = "CURVE25519" /\ pke.command.edwards = FALSE
      /\ pke.command.swapbytes = FALSE
      /\ pke.pointers.a = 6 /\ pke.pointers.b = 8 /\ pke.pointers.c = 10
  BY DEF X25519Started
<1>2. prime \in Nat /\ prime > 2 /\ prime < 128 /\ MontA["X25519"] \in Nat
  <2>1. W^Size["X25519"] = 256
    BY Powers, Sizes DEF W
  <2> QED
    BY <2>1, MontAssumption
<1>3. Nrf!OperandAddr(6) = 768 /\ Nrf!OperandAddr(10) = 1280
  BY <1>1 DEF Nrf!OperandAddr, Nrf!SLOT_SIZE
<1>4. u \in Nat
  <2> DEFINE s == Nrf!read_pke_le(768, 8)
  <2>1. s = [i \in 1 .. 8 |-> RamWord(pke.ram, 768 + i - 1)]
    BY DEF Nrf!read_pke_le, Nrf!RamWord, RamWord
  <2>2. ASSUME NEW i \in 1 .. 8 PROVE RamWord(pke.ram, 768 + i - 1) \in 0 .. 1
    <3>1. 768 + i - 1 \in 768 .. 775
      OBVIOUS
    <3> QED
      BY <3>1 DEF X25519Started
  <2> HIDE DEF s
  <2>3. s \in [1 .. 8 -> 0 .. 1]
    BY <2>1, <2>2
  <2>4. u = Nrf!LeNumber[s]
    BY <1>1, <1>3 DEF Nrf!Operand, Nrf!LeValue, s
  <2>5. Nrf!LeNumber = LeNumber
    BY Zenon DEF Nrf!LeNumber, LeNumber, Nrf!W, W
  <2>6. \A i \in 1 .. 8 : s[i] \in Nat
    BY <2>3
  <2>7. LeNumber[s] \in Nat
    <3>1. LeNumber[s] = s[1] + 2 * s[2] + 4 * s[3] + 8 * s[4] + 16 * s[5] + 32 * s[6]
                          + 64 * s[7] + 128 * s[8]
      BY <2>3, EightDigits
    <3>2. /\ s[1] \in Nat /\ s[2] \in Nat /\ s[3] \in Nat /\ s[4] \in Nat
          /\ s[5] \in Nat /\ s[6] \in Nat /\ s[7] \in Nat /\ s[8] \in Nat
      BY <2>6
    <3> QED
      BY <3>1, <3>2
  <2> QED
    BY <2>4, <2>5, <2>7
<1> HIDE DEF k, u
<1>5. v \in 0 .. prime - 1
  BY <1>2, <1>4, LadderBelow
<1>6. Nrf!PkeOutput = Nrf!Output(pke.ram, 10, v)
  <2>1. (pke.command.curve = "NOACCEL") = FALSE
    <3>1. pke.command.curve # "NOACCEL"
      BY <1>1
    <3> QED
      BY <3>1, Zenon
  <2>2. pke.command.edwards = (pke.command.curve = "NOACCEL")
    BY <1>1, <2>1, Zenon
  <2> QED
    BY <1>1, <1>2, <2>1, <2>2 DEF Nrf!PkeOutput, k, u
<1> HIDE DEF v
<1>7. Nrf!PkeOutput = Nrf!write_pke_le(pke.ram, 1280, d)
  BY <1>1, <1>3, <1>6 DEF Nrf!Output
<1>8. d \in [1 .. 8 -> 0 .. 1] /\ d[8] = 0 /\ Len(d) = 8
  BY <1>2, <1>5, DigitsOf, DigitsLength
<1> HIDE DEF d
<1>9. ASSUME NEW a \in 1280 .. 1287 PROVE RamWord(Nrf!PkeOutput, a) = d[a - 1280 + 1]
  <2>1. a \in Nat /\ a \in 1280 .. 1280 + Len(d) - 1
    BY <1>8
  <2> QED
    BY <1>7, <2>1, WrittenWord
<1>10. ASSUME NEW a \in 1280 .. 1287 PROVE d[a - 1280 + 1] \in 0 .. 1
  BY <1>8
<1>11. RamWord(Nrf!PkeOutput, 1287) = d[8]
  BY <1>9
<1> QED
  BY <1>8, <1>9, <1>10, <1>11

\* An engine computes.
LEMMA HardwareStep ==
  ASSUME DhInv, Hardware
  PROVE  DhInv'
<1>1. /\ platform' = platform /\ call' = call /\ secret' = secret /\ public' = public
      /\ peer' = peer /\ pc' = pc
  BY DEF Hardware, keys
<1>2. KeysInv'
  BY <1>1, KeysSame DEF DhInv
<1>3. CallInv'
  BY <1>1 DEF DhInv, CallInv, Theirs, AlgOk, OfferOk, Provider
<1>4. /\ InUse' <=> InUse
      /\ InUseCurve' = InUseCurve
      /\ (Provider(secret[call.who].alg))' = Provider(secret[call.who].alg)
  BY <1>1 DEF InUse, InUseCurve, Provider
<1>5. pc' = "engine" => Multiplies' /\ Provider(secret[call.who].alg)' \in {"stm32wba55", "nrf54l15"}
  BY <1>1, <1>4, StillMultiplies DEF DhInv, EngineInv
<1>6. CASE pke' = pke
  BY <1>2, <1>3, <1>4, <1>5, <1>6 DEF DhInv, EngineInv, X25519Started, X25519Ended
<1>7. CASE Nrf!PkeCompute
  <2>1. pke.busy /\ pke' = [pke EXCEPT !.busy = FALSE, !.ram = Nrf!PkeOutput]
    BY <1>7 DEF Nrf!PkeCompute
  <2>2. InUse /\ pke.pointers.c = 10 /\ pke.command.size \in 0 .. 128
    BY <2>1 DEF DhInv, EngineInv
  <2>3. /\ pke'.ram = Nrf!PkeOutput /\ pke'.busy = FALSE
        /\ pke' = [ram |-> pke'.ram, busy |-> pke'.busy, command |-> pke'.command,
                   pointers |-> pke'.pointers]
    <3>1. pke = [ram |-> pke.ram, busy |-> pke.busy, command |-> pke.command,
                 pointers |-> pke.pointers]
      BY DEF DhInv, EngineInv
    <3> QED
      BY <2>1, <3>1
  <2>4. pke'.busy \in BOOLEAN /\ ~pke'.busy
    BY <2>3, Zenon
  <2>5. ASSUME NEW a \in ScalarSlot
        PROVE  RamWord(pke'.ram, a) = 0 \/ (InUse' /\ a \in ScalarWords(InUseCurve'))
    <3>1. a \in Nat /\ a < 1280
      BY DEF ScalarSlot
    <3>2. RamWord(pke'.ram, a) = RamWord(pke.ram, a)
      BY <2>2, <2>3, <3>1, OperandsStay
    <3> QED
      BY <1>4, <3>2 DEF DhInv, EngineInv
  <2>6. InUseCurve = "X25519" => X25519Ended'
    <3>1. SUFFICES ASSUME InUseCurve = "X25519" PROVE X25519Ended'
      OBVIOUS
    <3>2. X25519Started
      BY <2>1, <2>2, <3>1 DEF DhInv, EngineInv
    <3> QED
      BY <2>3, <3>2, X25519Output DEF X25519Ended
  <2>7. EngineInv'
    BY <1>4, <1>5, <2>3, <2>4, <2>5, <2>6 DEF EngineInv
  <2> QED
    BY <1>2, <1>3, <2>7 DEF DhInv
<1> QED
  BY <1>6, <1>7 DEF Hardware

-----------------------------------------------------------------------------
(* The theorems *)

\* Every step of the providers keeps the invariant.
LEMMA DhStep ==
  ASSUME DhInv, [Next]_vars
  PROVE  DhInv'
<1>1. CASE UNCHANGED vars
  <2>1. /\ platform' = platform /\ call' = call /\ secret' = secret /\ public' = public
        /\ peer' = peer /\ pc' = pc /\ pke' = pke
    BY <1>1 DEF vars, keys
  <2>2. KeysInv'
    BY <2>1, KeysSame DEF DhInv
  <2>3. CallInv'
    BY <2>1 DEF DhInv, CallInv, Theirs, AlgOk, OfferOk, Provider
  <2>4. /\ InUse' <=> InUse
        /\ InUseCurve' = InUseCurve
        /\ (Provider(secret[call.who].alg))' = Provider(secret[call.who].alg)
    BY <2>1 DEF InUse, InUseCurve, Provider
  <2>5. pc' = "engine" => Multiplies'
    BY <2>1, StillMultiplies DEF DhInv, EngineInv
  <2>6. EngineInv'
    BY <2>1, <2>4, <2>5 DEF DhInv, EngineInv, X25519Started, X25519Ended
  <2> QED
    BY <2>2, <2>3, <2>6 DEF DhInv
<1>2. CASE Program
  BY <1>2, ProgramStep
<1>3. CASE Driver
  BY <1>3, GenerateStep, ImportSecretStep, ImportPublicStep, IncompatibleStep, OwnMultiplyStep,
     StartOnEngineStep, FinishOnEngineStep DEF Driver
<1>4. CASE Hardware
  BY <1>4, HardwareStep
<1> QED
  BY <1>1, <1>2, <1>3, <1>4 DEF Next, Ended

\* The providers keep the invariant: keys of the nRF54L15 are well formed, the
\* scalar is in the engine only while a call waits for it.
THEOREM DhInvariant == Spec => []DhInv
<1>1. Init => DhInv
  BY DhInit
<1>2. DhInv /\ [Next]_vars => DhInv'
  BY DhStep
<1> QED
  BY <1>1, <1>2, PTL DEF Spec

\* The nRF54L15's public key engine holds no secret key between calls: after
\* any sequence of calls, on any of the three curves, shared_secret and
\* public_key have zeroed every word of the scalar they wrote.
THEOREM ScalarNeverLeft == Spec => []PkeScalarErased
<1>1. DhInv => PkeScalarErased
  <2> SUFFICES ASSUME DhInv, pc = "idle",
                      NEW a \in Nrf!SLOT_SCALAR * Nrf!SLOT_SIZE
                                  .. (Nrf!SLOT_SCALAR + 1) * Nrf!SLOT_SIZE - 1
               PROVE  RamWord(pke.ram, a) = 0
    BY DEF PkeScalarErased
  <2>1. a \in ScalarSlot
    BY DEF ScalarSlot, Nrf!SLOT_SCALAR, Nrf!SLOT_SIZE
  <2> QED
    BY <2>1, EngineAtRest DEF DhInv
<1> QED
  BY <1>1, DhInvariant, PTL

\* The type invariants of the nRF54L15's keys: secret keys are clamped, public
\* keys have no unused bit set, whether they were imported or computed by the
\* engine.
THEOREM NrfKeysAreDecoded == Spec => []NrfKeysDecoded
<1>1. DhInv => NrfKeysDecoded
  <2> SUFFICES ASSUME DhInv PROVE NrfKeysDecoded
    OBVIOUS
  <2>1. ASSUME NEW p \in PartySet, secret[p] # NoKey, Provider(secret[p].alg) = "nrf54l15"
        PROVE  LET v == Value(secret[p].alg.curve, secret[p].bytes)
               IN  v = DecodeScalar(secret[p].alg.curve, v)
    BY <2>1 DEF DhInv, KeysInv, SecretOk, NrfScalar
  <2>2. ASSUME NEW pk, PublicOk(pk), pk # NoKey, Provider(pk.alg) = "nrf54l15"
        PROVE  LET v == Value(pk.alg.curve, pk.x) IN v = DecodeU(pk.alg.curve, v)
    <3>1. NrfCoordinate(pk.alg.curve, pk.x)
      BY <2>2 DEF PublicOk
    <3>2. CASE pk.alg.curve = "X25519"
      BY <3>1, <3>2, ClearTopDecoded DEF NrfCoordinate
    <3>3. CASE pk.alg.curve # "X25519"
      BY <3>3 DEF DecodeU
    <3> QED
      BY <3>2, <3>3
  <2>3. \A pk \in {public[p] : p \in PartySet} \cup {peer} : PublicOk(pk)
    BY DEF DhInv, KeysInv
  <2> QED
    BY <2>1, <2>2, <2>3 DEF NrfKeysDecoded
<1> QED
  BY <1>1, DhInvariant, PTL
=============================================================================
