-------------------------- MODULE Sha2StreamProofs --------------------------
(***************************************************************************)
(* Proofs about Sha2Stream, for every block size, first chunk size and     *)
(* padding convention that its assumptions allow, any number of states and *)
(* messages of any length.                                                 *)
(***************************************************************************)
EXTENDS Sha2Stream, SequenceTheorems, Integers, TLAPS

-----------------------------------------------------------------------------
(* Remainders modulo the block size *)

\* Quotient and remainder of a number of bytes by the block size.
LEMMA BlockDivision ==
  ASSUME NEW a \in Nat
  PROVE  \E q \in Nat : \E m \in 0 .. SHA2SHORT_BLOCK_SIZE - 1 :
           m = (a % SHA2SHORT_BLOCK_SIZE) /\ a = SHA2SHORT_BLOCK_SIZE * q + m
  <1> DEFINE B == SHA2SHORT_BLOCK_SIZE
  <1>0. B \in Nat \ {0}
    BY SizesAssumption
  <1> HIDE DEF B
  <1>1. (a % B) = a - B * (a \div B)
    BY <1>0, Z3
  <1>2. a \div B \in Nat /\ (a % B) \in 0 .. B - 1
    BY <1>0
  <1>3. a = B * (a \div B) + (a % B)
    BY <1>0, <1>1, <1>2
  <1>4. \E q \in Nat : \E m \in 0 .. B - 1 : m = (a % B) /\ a = B * q + m
    BY <1>2, <1>3
  <1> QED
    BY <1>4 DEF B

\* A remainder is determined by any quotient that leaves one in range.
LEMMA BlockRemainder ==
  ASSUME NEW a \in Nat, NEW q \in Nat, NEW r \in 0 .. SHA2SHORT_BLOCK_SIZE - 1,
         a = SHA2SHORT_BLOCK_SIZE * q + r
  PROVE  (a % SHA2SHORT_BLOCK_SIZE) = r
  <1> DEFINE B == SHA2SHORT_BLOCK_SIZE
  <1>0. B \in Nat \ {0}
    BY SizesAssumption
  <1>1. PICK p \in Nat, m \in 0 .. B - 1 : m = (a % B) /\ a = B * p + m
    BY BlockDivision
  <1>a. r \in 0 .. B - 1 /\ a = B * q + r
    OBVIOUS
  <1> HIDE DEF B
  <1>2. B * (p - q) = B * p - B * q /\ B * (q - p) = B * q - B * p
    BY <1>0
  <1>3. \A k \in Int : k >= 1 => B * k >= B
    BY <1>0
  <1>4. ~(p - q >= 1)
    BY <1>0, <1>1, <1>a, <1>2, <1>3
  <1>5. ~(q - p >= 1)
    BY <1>0, <1>1, <1>a, <1>2, <1>3
  <1>6. p = q
    BY <1>1, <1>4, <1>5
  <1>7. m = r
    BY <1>0, <1>1, <1>a, <1>6
  <1> QED
    BY <1>1, <1>7 DEF B

\* Adding bytes that stay inside the block adds to the remainder.
LEMMA RemainderAdvances ==
  ASSUME NEW a \in Nat, NEW f \in Nat,
         (a % SHA2SHORT_BLOCK_SIZE) + f < SHA2SHORT_BLOCK_SIZE
  PROVE  ((a + f) % SHA2SHORT_BLOCK_SIZE) = (a % SHA2SHORT_BLOCK_SIZE) + f
  <1> DEFINE B == SHA2SHORT_BLOCK_SIZE
  <1>0. B \in Nat \ {0}
    BY SizesAssumption
  <1>1. PICK p \in Nat, m \in 0 .. B - 1 : m = (a % B) /\ a = B * p + m
    BY BlockDivision
  <1>2. a + f = B * p + (m + f) /\ m + f \in 0 .. B - 1
    BY <1>0, <1>1
  <1> QED
    BY <1>0, <1>1, <1>2, BlockRemainder

\* Adding the bytes that complete the block resets the remainder.
LEMMA RemainderWraps ==
  ASSUME NEW a \in Nat, NEW f \in Nat,
         (a % SHA2SHORT_BLOCK_SIZE) + f = SHA2SHORT_BLOCK_SIZE
  PROVE  ((a + f) % SHA2SHORT_BLOCK_SIZE) = 0
  <1> DEFINE B == SHA2SHORT_BLOCK_SIZE
  <1>0. B \in Nat \ {0}
    BY SizesAssumption
  <1>1. PICK p \in Nat, m \in 0 .. B - 1 : m = (a % B) /\ a = B * p + m
    BY BlockDivision
  <1> DEFINE x == B * p
             y == B * (p + 1)
  <1>2. y = x + B /\ x \in Nat
    BY <1>0
  <1>3. m \in Nat /\ m + f = B /\ a = x + m
    BY <1>0, <1>1
  <1>4. a + f \in Nat /\ p + 1 \in Nat /\ 0 \in 0 .. B - 1
    BY <1>0
  <1> HIDE DEF x, y
  <1>5. a + f = y + 0
    BY <1>0, <1>2, <1>3
  <1> QED
    BY <1>4, <1>5, BlockRemainder DEF y

-----------------------------------------------------------------------------
(* The fill level computed from `written' *)

\* The level is below the size of the chunk being collected, which fits the
\* buffer: the slices of update are in bounds.
LEMMA LevelBounds ==
  ASSUME NEW w \in Nat
  PROVE  /\ InBuffer(w) \in Nat
         /\ BufferMax(w) \in Nat
         /\ InBuffer(w) < BufferMax(w)
         /\ BufferMax(w) <= HASH_WRAPPER_MAX_BLOCKSIZE
         /\ InBuffer(w) <= w
  <1>1. CASE w < FIRST_CHUNK_SIZE
    BY <1>1, BackendAssumption, BufferAssumption DEF InBuffer, BufferMax
  <1>2. CASE ~(w < FIRST_CHUNK_SIZE)
    <2> DEFINE a == w - FIRST_CHUNK_SIZE
    <2>1. a \in Nat /\ a <= w
      BY <1>2, BackendAssumption
    <2>2. InBuffer(w) = (a % SHA2SHORT_BLOCK_SIZE)
          /\ BufferMax(w) = SHA2SHORT_BLOCK_SIZE
      BY <1>2 DEF InBuffer, BufferMax
    <2> HIDE DEF a
    <2>3. (a % SHA2SHORT_BLOCK_SIZE) \in 0 .. SHA2SHORT_BLOCK_SIZE - 1
      BY <2>1, SizesAssumption
    <2>4. (a % SHA2SHORT_BLOCK_SIZE) <= a
      BY <2>1, SizesAssumption
    <2> QED
      BY <2>1, <2>2, <2>3, <2>4, SizesAssumption, BufferAssumption
  <1> QED
    BY <1>1, <1>2

\* Bytes that leave the chunk incomplete raise the level by their number.
LEMMA LevelAdvances ==
  ASSUME NEW w \in Nat, NEW n \in Nat, InBuffer(w) + n < BufferMax(w)
  PROVE  InBuffer(w + n) = InBuffer(w) + n
  <1>1. CASE w < FIRST_CHUNK_SIZE
    BY <1>1, BackendAssumption DEF InBuffer, BufferMax
  <1>2. CASE ~(w < FIRST_CHUNK_SIZE)
    <2> DEFINE a == w - FIRST_CHUNK_SIZE
    <2>1. a \in Nat /\ (w + n) - FIRST_CHUNK_SIZE = a + n
      BY <1>2, BackendAssumption
    <2>2. ~(w + n < FIRST_CHUNK_SIZE)
      BY <1>2, BackendAssumption
    <2>3. /\ InBuffer(w) = (a % SHA2SHORT_BLOCK_SIZE)
          /\ InBuffer(w + n) = ((a + n) % SHA2SHORT_BLOCK_SIZE)
          /\ BufferMax(w) = SHA2SHORT_BLOCK_SIZE
      BY <1>2, <2>1, <2>2 DEF InBuffer, BufferMax
    <2> HIDE DEF a
    <2> QED
      BY <2>1, <2>3, RemainderAdvances
  <1> QED
    BY <1>1, <1>2

\* Bytes that complete the chunk reset the level.
LEMMA LevelWraps ==
  ASSUME NEW w \in Nat, NEW n \in Nat, InBuffer(w) + n = BufferMax(w)
  PROVE  InBuffer(w + n) = 0
  <1>1. CASE w < FIRST_CHUNK_SIZE
    <2>1. w + n = FIRST_CHUNK_SIZE
      BY <1>1 DEF InBuffer, BufferMax
    <2>2. InBuffer(FIRST_CHUNK_SIZE) = (0 % SHA2SHORT_BLOCK_SIZE)
      BY BackendAssumption DEF InBuffer
    <2>3. (0 % SHA2SHORT_BLOCK_SIZE) = 0
      BY SizesAssumption
    <2> QED
      BY <2>1, <2>2, <2>3
  <1>2. CASE ~(w < FIRST_CHUNK_SIZE)
    <2> DEFINE a == w - FIRST_CHUNK_SIZE
    <2>1. a \in Nat /\ (w + n) - FIRST_CHUNK_SIZE = a + n
      BY <1>2, BackendAssumption
    <2>2. ~(w + n < FIRST_CHUNK_SIZE)
      BY <1>2, BackendAssumption
    <2>3. /\ InBuffer(w) = (a % SHA2SHORT_BLOCK_SIZE)
          /\ InBuffer(w + n) = ((a + n) % SHA2SHORT_BLOCK_SIZE)
          /\ BufferMax(w) = SHA2SHORT_BLOCK_SIZE
      BY <1>2, <2>1, <2>2 DEF InBuffer, BufferMax
    <2> HIDE DEF a
    <2> QED
      BY <2>1, <2>3, RemainderWraps
  <1> QED
    BY <1>1, <1>2

-----------------------------------------------------------------------------
(* The padding *)

\* The number of zeros the code computes is in range and puts the length
\* field at its offset.
LEMMA ZeroPadAligns ==
  ASSUME NEW n \in Nat
  PROVE  /\ ZeroPad(n) \in 0 .. SHA2SHORT_BLOCK_SIZE - 1
         /\ ((n + 1 + ZeroPad(n)) % SHA2SHORT_BLOCK_SIZE) = LENGTH_OFFSET
  <1> DEFINE B == SHA2SHORT_BLOCK_SIZE
             a == n + 1
             rem == a % B
             z == ZeroPad(n)
  <1>0. B \in Nat \ {0} /\ LENGTH_OFFSET \in 1 .. B - 1 /\ a \in Nat
    BY SizesAssumption
  <1>1. z = IF rem <= LENGTH_OFFSET THEN LENGTH_OFFSET - rem
            ELSE LENGTH_OFFSET + (B - rem)
    BY DEF ZeroPad
  <1>2. rem \in 0 .. B - 1
    BY <1>0
  <1>3. z \in 0 .. B - 1
    BY <1>0, <1>1, <1>2
  <1>4. CASE rem <= LENGTH_OFFSET
    <2>1. rem + z = LENGTH_OFFSET /\ z \in Nat
      BY <1>0, <1>1, <1>2, <1>4
    <2>2. (a % SHA2SHORT_BLOCK_SIZE) + z < SHA2SHORT_BLOCK_SIZE
      BY <2>1, <1>0
    <2> HIDE DEF z, a
    <2>3. ((a + z) % B) = rem + z
      BY <1>0, <2>1, <2>2, RemainderAdvances
    <2> QED
      BY <1>3, <2>1, <2>3 DEF z, a
  <1>5. CASE ~(rem <= LENGTH_OFFSET)
    <2> DEFINE f == B - rem
    <2>1. f \in Nat /\ rem + f = B /\ z = f + LENGTH_OFFSET
      BY <1>0, <1>1, <1>2, <1>5
    <2> HIDE DEF z, a, f
    <2>2. ((a + f) % B) = 0
      BY <1>0, <2>1, RemainderWraps
    <2>3. ((a + f) % SHA2SHORT_BLOCK_SIZE) + LENGTH_OFFSET < SHA2SHORT_BLOCK_SIZE
      BY <1>0, <2>2
    <2>4. a + f \in Nat /\ LENGTH_OFFSET \in Nat
      BY <1>0, <2>1
    <2>5. ((a + f + LENGTH_OFFSET) % B) = LENGTH_OFFSET
      BY <1>0, <2>2, <2>3, <2>4, RemainderAdvances
    <2>6. a + f + LENGTH_OFFSET = a + z
      BY <1>0, <2>1
    <2> QED
      BY <1>3, <2>5, <2>6 DEF z, a
  <1> QED
    BY <1>4, <1>5

\* The zeros the code computes are the ones FIPS 180-4 asks for.
LEMMA ZeroPadIsFips ==
  ASSUME NEW n \in Nat
  PROVE  ZeroPad(n) = ZeroBytes(n)
  <1> DEFINE B == SHA2SHORT_BLOCK_SIZE
             a == n + 1
             good(k) == ((a + k) % B) = LENGTH_OFFSET
  <1>0. B \in Nat \ {0} /\ LENGTH_OFFSET \in 1 .. B - 1 /\ a \in Nat
    BY SizesAssumption
  <1>1. ZeroPad(n) \in 0 .. B - 1 /\ good(ZeroPad(n))
    BY ZeroPadAligns
  <1>2. ASSUME NEW k \in 0 .. B - 1, NEW l \in 0 .. B - 1, good(k), good(l), k < l
        PROVE  FALSE
    <2> DEFINE x == a + k
               y == a + l
               d == l - k
    <2>1. x \in Nat /\ y = x + d /\ d \in 1 .. B - 1
      BY <1>0, <1>2
    <2>2. (x % B) = LENGTH_OFFSET /\ (y % B) = LENGTH_OFFSET
      BY <1>2
    <2> HIDE DEF x, y, d
    <2>3. CASE LENGTH_OFFSET + d < B
      <3>0. d \in Nat /\ (x % B) + d < B
        BY <1>0, <2>1, <2>2, <2>3
      <3>1. ((x + d) % B) = LENGTH_OFFSET + d
        BY <2>1, <2>2, <3>0, RemainderAdvances
      <3> QED
        BY <1>0, <2>1, <2>2, <3>1
    <2>4. CASE ~(LENGTH_OFFSET + d < B)
      <3> DEFINE e == B - LENGTH_OFFSET
                 g == d - e
      <3>1. e \in Nat /\ g \in Nat /\ d = e + g /\ g < LENGTH_OFFSET
        BY <1>0, <2>1, <2>4
      <3>2. (x % B) + e = B
        BY <1>0, <2>2
      <3> HIDE DEF e, g
      <3>3. ((x + e) % B) = 0
        BY <2>1, <3>1, <3>2, RemainderWraps
      <3>4. x + e \in Nat /\ ((x + e) % B) + g < B
        BY <1>0, <2>1, <3>1, <3>3
      <3>5. ((x + e + g) % B) = g
        BY <1>0, <3>1, <3>3, <3>4, RemainderAdvances
      <3>6. x + e + g = y
        BY <1>0, <2>1, <3>1
      <3> QED
        BY <1>0, <2>2, <3>1, <3>5, <3>6
    <2> QED
      BY <2>3, <2>4
  <1>3. \A k \in 0 .. B - 1 : good(k) => k = ZeroPad(n)
    <2> SUFFICES ASSUME NEW k \in 0 .. B - 1, good(k), k # ZeroPad(n)
                 PROVE  FALSE
      OBVIOUS
    <2> HIDE DEF good, B
    <2>1. k < ZeroPad(n) \/ ZeroPad(n) < k
      BY <1>0, <1>1
    <2> QED
      BY <1>1, <1>2, <2>1
  <1>4. ZeroBytes(n) = CHOOSE k \in 0 .. B - 1 : good(k)
    BY DEF ZeroBytes
  <1> HIDE DEF good, B
  <1> QED
    BY <1>1, <1>3, <1>4

\* The padding the code sends is the padding of FIPS 180-4.
LEMMA PaddingIsFips ==
  ASSUME NEW n \in Nat
  PROVE  sha256_padding(n) = Padding(n)
  <1>1. LenBytesBe(n) = LengthField(n)
    <2>1. n * 8 = 8 * n
      OBVIOUS
    <2> QED
      BY <2>1 DEF LenBytesBe, LengthField
  <1> QED
    BY <1>1, ZeroPadIsFips DEF sha256_padding, Padding

\* The padding is a byte sequence that fills the last block exactly.
LEMMA PaddingFillsBlock ==
  ASSUME NEW n \in Nat
  PROVE  /\ sha256_padding(n) \in Seq(Nat)
         /\ n + Len(sha256_padding(n)) >= SHA2SHORT_BLOCK_SIZE
         /\ ((n + Len(sha256_padding(n))) % SHA2SHORT_BLOCK_SIZE) = 0
  <1> DEFINE B == SHA2SHORT_BLOCK_SIZE
             z == ZeroPad(n)
             zeros == [k \in 1 .. z |-> 0]
             x == n + 1 + z
  <1>0. /\ B \in Nat \ {0} /\ LENGTH_OFFSET \in Nat /\ LENGTH_BYTES \in Nat \ {0}
        /\ LENGTH_OFFSET + LENGTH_BYTES = B
    BY SizesAssumption
  <1>1. z \in Nat /\ x \in Nat /\ (x % B) = LENGTH_OFFSET
    BY <1>0, ZeroPadAligns
  <1>2. LenBytesBe(n) \in Seq(Nat) /\ Len(LenBytesBe(n)) = LENGTH_BYTES
    <2>1. \A k \in 1 .. LENGTH_BYTES : LENGTH_BYTES - k \in 0 .. LENGTH_BYTES - 1
      BY <1>0
    <2>2. \A k \in 1 .. LENGTH_BYTES :
            ((n * 8) \div 256 ^ (LENGTH_BYTES - k)) % 256 \in Nat
      BY <2>1, PowerAssumption
    <2> QED
      BY <1>0, <2>2 DEF LenBytesBe
  <1> HIDE DEF z
  <1>3. zeros \in Seq(Nat) /\ Len(zeros) = z
    BY <1>1
  <1>4. <<128>> \in Seq(Nat) /\ Len(<<128>>) = 1
    OBVIOUS
  <1>5. sha256_padding(n) = (<<128>> \o zeros) \o LenBytesBe(n)
    BY DEF sha256_padding, z
  <1> HIDE DEF zeros
  <1>6. sha256_padding(n) \in Seq(Nat)
        /\ Len(sha256_padding(n)) = 1 + z + LENGTH_BYTES
    BY <1>0, <1>1, <1>2, <1>3, <1>4, <1>5
  <1>7. n + Len(sha256_padding(n)) = x + LENGTH_BYTES
    BY <1>0, <1>1, <1>6
  <1>8. (x % B) + LENGTH_BYTES = B
    BY <1>0, <1>1
  <1> HIDE DEF x
  <1>9. ((x + LENGTH_BYTES) % B) = 0
    BY <1>0, <1>1, <1>8, RemainderWraps
  <1>10. (x % B) <= x
    BY <1>0, <1>1
  <1>11. x + LENGTH_BYTES >= B
    BY <1>0, <1>1, <1>8, <1>10
  <1> QED
    BY <1>6, <1>7, <1>9, <1>11

-----------------------------------------------------------------------------
(* One iteration of the loop *)

\* Concatenation of byte sequences is associative.
LEMMA BytesRegroup ==
  \A r \in Seq(Nat), s \in Seq(Nat), t \in Seq(Nat) :
    (r \o s) \o t = r \o (s \o t)
  BY ConcatAssociative, SMTT(30)

\* Copying n bytes behind the fill level moves them from the input to the
\* buffer and changes nothing in the order of the stream.
LEMMA FillKeepsOrder ==
  ASSUME NEW M \in Nat, NEW b \in 0 .. M, NEW buf \in [1 .. M -> Nat],
         NEW d \in Seq(Nat), NEW n \in 0 .. Len(d), b + n <= M
  PROVE  SubSeq([i \in 1 .. M |-> IF i \in b + 1 .. b + n
                                    THEN d[i - b] ELSE buf[i]], 1, b + n)
             \o SubSeq(d, n + 1, Len(d))
           = SubSeq(buf, 1, b) \o d
  <1> DEFINE f == [i \in 1 .. M |-> IF i \in b + 1 .. b + n
                                      THEN d[i - b] ELSE buf[i]]
  <1>0. \A i \in 1 .. M :
          f[i] = IF i \in b + 1 .. b + n THEN d[i - b] ELSE buf[i]
    OBVIOUS
  <1>1. f \in [1 .. M -> Nat]
    <2>1. \A i \in b + 1 .. b + n : i - b \in 1 .. Len(d)
      OBVIOUS
    <2> QED
      BY <2>1
  <1> HIDE DEF f
  <1> DEFINE s == SubSeq(f, 1, b + n)
             t == SubSeq(d, n + 1, Len(d))
             u == SubSeq(buf, 1, b)
  <1>2. s \in Seq(Nat) /\ Len(s) = b + n /\ \A i \in 1 .. b + n : s[i] = f[i]
    BY <1>1
  <1>3. /\ t \in Seq(Nat) /\ Len(t) = Len(d) - n
        /\ \A i \in 1 .. Len(d) - n : t[i] = d[n + i]
    OBVIOUS
  <1>4. u \in Seq(Nat) /\ Len(u) = b /\ \A i \in 1 .. b : u[i] = buf[i]
    OBVIOUS
  <1>5. Len(d) \in Nat /\ n \in Nat /\ b \in Nat
    OBVIOUS
  <1> HIDE DEF s, t, u
  <1>6. /\ s \o t \in Seq(Nat) /\ Len(s \o t) = b + Len(d)
        /\ \A i \in 1 .. b + Len(d) :
             (s \o t)[i] = IF i <= b + n THEN s[i] ELSE t[i - (b + n)]
    <2>1. Len(s) + Len(t) = b + Len(d)
      BY <1>2, <1>3, <1>5
    <2>2. /\ s \o t \in Seq(Nat) /\ Len(s \o t) = Len(s) + Len(t)
          /\ \A i \in 1 .. Len(s) + Len(t) :
               (s \o t)[i] = IF i <= Len(s) THEN s[i] ELSE t[i - Len(s)]
      <3>1. s \in Seq(Nat) /\ t \in Seq(Nat)
        BY <1>2, <1>3
      <3> QED
        BY <3>1, ConcatProperties
    <2>3. Len(s) = b + n
      BY <1>2
    <2> QED
      BY <2>1, <2>2, <2>3, Zenon
  <1>7. /\ u \o d \in Seq(Nat) /\ Len(u \o d) = b + Len(d)
        /\ \A i \in 1 .. b + Len(d) :
             (u \o d)[i] = IF i <= b THEN u[i] ELSE d[i - b]
    <2>1. u \in Seq(Nat) /\ Len(u) = b
      BY <1>4
    <2>2. /\ u \o d \in Seq(Nat) /\ Len(u \o d) = Len(u) + Len(d)
          /\ \A i \in 1 .. Len(u) + Len(d) :
               (u \o d)[i] = IF i <= Len(u) THEN u[i] ELSE d[i - Len(u)]
      BY <2>1, ConcatProperties
    <2> QED
      BY <2>1, <2>2, Zenon
  <1>a. ASSUME NEW i \in 1 .. b + Len(d)
        PROVE  (s \o t)[i] = (u \o d)[i]
    <2>1. CASE i <= b
      <3>1. i \in 1 .. b /\ i \in 1 .. b + n /\ i \in 1 .. M
            /\ ~(i \in b + 1 .. b + n) /\ i <= b + n
        BY <1>5, <2>1
      <3>2. f[i] = buf[i]
        BY <1>0, <3>1
      <3> QED
        BY <1>2, <1>4, <1>6, <1>7, <2>1, <3>1, <3>2
    <2>2. CASE b < i /\ i <= b + n
      <3>1. i \in b + 1 .. b + n /\ i \in 1 .. b + n /\ i \in 1 .. M /\ ~(i <= b)
        BY <1>5, <2>2
      <3>2. f[i] = d[i - b]
        BY <1>0, <3>1
      <3> QED
        BY <1>2, <1>6, <1>7, <2>2, <3>1, <3>2
    <2>3. CASE b + n < i
      <3>1. /\ i - (b + n) \in 1 .. Len(d) - n /\ n + (i - (b + n)) = i - b
            /\ ~(i <= b + n) /\ ~(i <= b)
        BY <1>5, <2>3
      <3> QED
        BY <1>3, <1>6, <1>7, <3>1
    <2>4. i <= b \/ (b < i /\ i <= b + n) \/ b + n < i
      BY <1>5
    <2> QED
      BY <2>1, <2>2, <2>3, <2>4, Zenon
  <1>8. s \o t = u \o d
    BY <1>6, <1>7, <1>a, SeqEqual
  <1> QED
    BY <1>8 DEF s, t, u, f

-----------------------------------------------------------------------------
(* The inductive invariant *)

IndInv == TypeOK /\ Levels /\ CallState /\ StreamIntegrity /\ ChunkDiscipline

\* In the initial state no hash state exists.
LEMMA InitInv == Init => IndInv
  <1> SUFFICES ASSUME Init PROVE IndInv
    OBVIOUS
  <1>1. TypeOK
    <2>1. << >> \in Seq(Nat) /\ {} \in SUBSET Seq(Nat)
      OBVIOUS
    <2>2. 0 \in 0 .. HASH_WRAPPER_MAX_BLOCKSIZE
      BY BufferAssumption
    <2> QED
      BY <2>1, <2>2 DEF Init, TypeOK
  <1>2. Levels /\ CallState /\ StreamIntegrity /\ ChunkDiscipline
    BY DEF Init, Levels, CallState, StreamIntegrity, ChunkDiscipline
  <1> QED
    BY <1>1, <1>2 DEF IndInv

\* init starts a state that has taken nothing and buffers nothing.
LEMMA HashInitInv ==
  ASSUME IndInv, NEW s \in Sessions, HashInit(s)
  PROVE  IndInv'
  <1> USE DEF IndInv, HashInit, Backend!init, callVars
  <1>0. InBuffer(0) = 0
    BY SizesAssumption, BackendAssumption DEF InBuffer
  <1>1. TypeOK'
    BY BufferAssumption DEF TypeOK
  <1>2. Levels'
    BY <1>0 DEF Levels, TypeOK
  <1>3. CallState' /\ ChunkDiscipline'
    BY DEF CallState, ChunkDiscipline
  <1>4. StreamIntegrity'
    <2> SUFFICES ASSUME NEW t \in live'
                 PROVE  (absorbed[t] \o SubSeq(buffer[t], 1, Buffered(t))
                          \o Pending(t) = Stream(t))'
      BY DEF StreamIntegrity
    <2>1. Buffered(t)' = InBuffer(written'[t]) /\ Pending(t)' = << >>
          /\ Stream(t)' = fed'[t]
      BY DEF Buffered, Pending, Stream, InCall
    <2>2. CASE t = s
      <3>1. absorbed'[t] = << >> /\ fed'[t] = << >> /\ written'[t] = 0
        BY <2>2 DEF TypeOK
      <3>2. SubSeq(buffer'[t], 1, 0) = << >>
        BY SubSeqEmpty
      <3>3. << >> \o << >> \o << >> = << >>
        BY ConcatEmptySeq, EmptySeq
      <3> QED
        BY <1>0, <2>1, <3>1, <3>2, <3>3
    <2>3. CASE t # s
      <3>1. t \in live /\ absorbed'[t] = absorbed[t] /\ fed'[t] = fed[t]
            /\ written'[t] = written[t] /\ buffer'[t] = buffer[t]
        BY <2>3 DEF TypeOK
      <3>2. Buffered(t) = InBuffer(written[t]) /\ Pending(t) = << >>
            /\ Stream(t) = fed[t]
        BY DEF Buffered, Pending, Stream, InCall
      <3> QED
        BY <2>1, <3>1, <3>2 DEF StreamIntegrity
    <2> QED
      BY <2>2, <2>3
  <1> QED
    BY <1>1, <1>2, <1>3, <1>4

\* A clone satisfies whatever its original does.
LEMMA CloneInv ==
  ASSUME IndInv, NEW s \in Sessions, NEW t \in Sessions, Clone(s, t)
  PROVE  IndInv'
  <1> USE DEF IndInv, Clone, Backend!clone, callVars
  <1>1. TypeOK'
    BY DEF TypeOK
  <1>2. \A x \in live' : \E y \in live :
          /\ absorbed'[x] = absorbed[y] /\ fed'[x] = fed[y]
          /\ written'[x] = written[y] /\ buffer'[x] = buffer[y]
    BY DEF TypeOK
  <1>3. Levels'
    BY <1>2 DEF Levels
  <1>4. CallState' /\ ChunkDiscipline'
    BY DEF CallState, ChunkDiscipline
  <1>5. StreamIntegrity'
    <2> SUFFICES ASSUME NEW x \in live'
                 PROVE  (absorbed[x] \o SubSeq(buffer[x], 1, Buffered(x))
                          \o Pending(x) = Stream(x))'
      BY DEF StreamIntegrity
    <2>1. PICK y \in live :
            /\ absorbed'[x] = absorbed[y] /\ fed'[x] = fed[y]
            /\ written'[x] = written[y] /\ buffer'[x] = buffer[y]
      BY <1>2
    <2>2. Buffered(x)' = InBuffer(written'[x]) /\ Pending(x)' = << >>
          /\ Stream(x)' = fed'[x]
      BY DEF Buffered, Pending, Stream, InCall
    <2>3. Buffered(y) = InBuffer(written[y]) /\ Pending(y) = << >>
          /\ Stream(y) = fed[y]
      BY DEF Buffered, Pending, Stream, InCall
    <2> QED
      BY <2>1, <2>2, <2>3 DEF StreamIntegrity
  <1> QED
    BY <1>1, <1>3, <1>4, <1>5

\* Dropping a state leaves the others alone.
LEMMA DropInv ==
  ASSUME IndInv, NEW s \in Sessions, Drop(s)
  PROVE  IndInv'
  <1> USE DEF IndInv, Drop, callVars, backendVars
  <1>1. TypeOK'
    BY DEF TypeOK
  <1>2. Levels' /\ CallState' /\ ChunkDiscipline'
    BY DEF Levels, CallState, ChunkDiscipline
  <1>3. StreamIntegrity'
    BY DEF StreamIntegrity, Buffered, Pending, Stream, InCall
  <1> QED
    BY <1>1, <1>2, <1>3

\* Between calls, a state holds exactly the stream it was fed.
LEMMA IdleStream ==
  ASSUME IndInv, pc = "idle", NEW s \in live
  PROVE  /\ absorbed[s] \in Seq(Nat) /\ written[s] \in Nat
         /\ buffer[s] \in [1 .. HASH_WRAPPER_MAX_BLOCKSIZE -> Nat]
         /\ fed[s] \in Seq(Nat)
         /\ InBuffer(written[s]) \in 0 .. HASH_WRAPPER_MAX_BLOCKSIZE
         /\ SubSeq(buffer[s], 1, InBuffer(written[s])) \in Seq(Nat)
         /\ absorbed[s] \o SubSeq(buffer[s], 1, InBuffer(written[s])) = fed[s]
         /\ Len(fed[s]) = written[s]
  <1> DEFINE b == InBuffer(written[s])
             held == SubSeq(buffer[s], 1, b)
  <1>1. /\ absorbed[s] \in Seq(Nat) /\ written[s] \in Nat /\ fed[s] \in Seq(Nat)
        /\ buffer[s] \in [1 .. HASH_WRAPPER_MAX_BLOCKSIZE -> Nat]
    BY DEF IndInv, TypeOK
  <1>2. b \in 0 .. HASH_WRAPPER_MAX_BLOCKSIZE
    <2>1. /\ b \in Nat /\ BufferMax(written[s]) \in Nat
          /\ b < BufferMax(written[s])
          /\ BufferMax(written[s]) <= HASH_WRAPPER_MAX_BLOCKSIZE
      BY <1>1, LevelBounds
    <2> QED
      BY <2>1, BufferAssumption
  <1> HIDE DEF b
  <1>3. held \in Seq(Nat) /\ Len(held) = b
    <2>0. \A i \in 1 .. b : i \in 1 .. HASH_WRAPPER_MAX_BLOCKSIZE
      BY <1>2, BufferAssumption
    <2>1. \A i \in 1 .. b : buffer[s][i] \in Nat
      BY <1>1, <2>0
    <2>2. b \in Int /\ 1 \in Int /\ (IF 1 <= b THEN b - 1 + 1 ELSE 0) = b
      BY <1>2, BufferAssumption
    <2> QED
      BY <2>1, <2>2, SubSeqProperties
  <1>4. absorbed[s] \o held \o << >> = fed[s]
    BY DEF IndInv, StreamIntegrity, Buffered, Pending, Stream, InCall, b
  <1>5. absorbed[s] \o held = fed[s]
    <2> HIDE DEF held
    <2> QED
      BY <1>1, <1>3, <1>4, ConcatProperties, ConcatEmptySeq
  <1>6. Len(absorbed[s]) + b = written[s]
    BY DEF IndInv, Levels, b
  <1> HIDE DEF held
  <1>7. Len(fed[s]) = written[s]
    BY <1>1, <1>3, <1>5, <1>6, ConcatProperties
  <1> QED
    BY <1>1, <1>2, <1>3, <1>5, <1>7 DEF b, held

\* update recomputes the level from `written' and appends its input to the
\* stream.
LEMMA UpdateInv ==
  ASSUME IndInv, NEW s \in Sessions, NEW d \in Payloads, Update(s, d)
  PROVE  IndInv'
  <1> USE DEF Update, stateVars, backendVars
  <1>0. s \in live /\ d \in Seq(Nat)
    BY InputAssumption
  <1> DEFINE b == InBuffer(written[s])
             held == SubSeq(buffer[s], 1, b)
  <1>1. /\ absorbed[s] \in Seq(Nat) /\ fed[s] \in Seq(Nat) /\ held \in Seq(Nat)
        /\ b \in 0 .. HASH_WRAPPER_MAX_BLOCKSIZE
        /\ absorbed[s] \o held = fed[s]
    BY <1>0, IdleStream
  <1>2. TypeOK'
    <2>1. fed[s] \o d \in Seq(Nat)
      BY <1>0, <1>1, ConcatProperties
    <2> QED
      BY <1>0, <1>1, <2>1 DEF IndInv, TypeOK
  <1>3. Levels' /\ ChunkDiscipline'
    BY DEF IndInv, Levels, ChunkDiscipline
  <1>4. CallState'
    BY <1>0 DEF IndInv, CallState, TypeOK
  <1>5. StreamIntegrity'
    <2> SUFFICES ASSUME NEW t \in live
                 PROVE  (absorbed[t] \o SubSeq(buffer[t], 1, Buffered(t))
                          \o Pending(t) = Stream(t))'
      BY DEF StreamIntegrity
    <2>1. CASE t = s
      <3>1. Buffered(t)' = b /\ Pending(t)' = d /\ Stream(t)' = fed[s] \o d
        BY <2>1 DEF Buffered, Pending, Stream, InCall, IndInv, TypeOK
      <3> QED
        BY <1>1, <2>1, <3>1
    <2>2. CASE t # s
      <3>1. Buffered(t)' = InBuffer(written[t]) /\ Pending(t)' = << >>
            /\ Stream(t)' = fed[t]
        BY <2>2 DEF Buffered, Pending, Stream, InCall, IndInv, TypeOK
      <3>2. Buffered(t) = InBuffer(written[t]) /\ Pending(t) = << >>
            /\ Stream(t) = fed[t]
        BY DEF Buffered, Pending, Stream, InCall
      <3> QED
        BY <3>1, <3>2 DEF IndInv, StreamIntegrity
    <2> QED
      BY <2>1, <2>2
  <1> QED
    BY <1>2, <1>3, <1>4, <1>5 DEF IndInv

\* finalize appends the padding, computed from `written', which is the length
\* of the message.
LEMMA FinalizeInv ==
  ASSUME IndInv, NEW s \in Sessions, Finalize(s)
  PROVE  IndInv'
  <1> USE DEF Finalize, stateVars, backendVars
  <1>0. s \in live
    OBVIOUS
  <1> DEFINE b == InBuffer(written[s])
             held == SubSeq(buffer[s], 1, b)
  <1>1. /\ absorbed[s] \in Seq(Nat) /\ fed[s] \in Seq(Nat) /\ held \in Seq(Nat)
        /\ written[s] \in Nat /\ b \in 0 .. HASH_WRAPPER_MAX_BLOCKSIZE
        /\ absorbed[s] \o held = fed[s]
        /\ Len(fed[s]) = written[s]
    BY <1>0, IdleStream
  <1>2. TypeOK'
    <2>1. sha256_padding(written[s]) \in Seq(Nat) /\ << >> \in Seq(Nat)
      BY <1>1, PaddingFillsBlock, EmptySeq
    <2>2. data' \in Seq(Nat) /\ pc' \in {"idle", "update", "padding", "finalize"}
      BY <2>1
    <2> QED
      BY <1>0, <1>1, <2>2 DEF IndInv, TypeOK
  <1>3. Levels' /\ ChunkDiscipline'
    BY DEF IndInv, Levels, ChunkDiscipline
  <1>4. CallState'
    BY <1>0 DEF IndInv, CallState
  <1>5. StreamIntegrity'
    <2> SUFFICES ASSUME NEW t \in live
                 PROVE  (absorbed[t] \o SubSeq(buffer[t], 1, Buffered(t))
                          \o Pending(t) = Stream(t))'
      BY DEF StreamIntegrity
    <2>1. CASE t = s /\ SEND_PADDING
      <3>1. /\ Buffered(t)' = b /\ Pending(t)' = sha256_padding(written[s])
            /\ Stream(t)' = fed[s] \o sha256_padding(Len(fed[s]))
        BY <2>1 DEF Buffered, Pending, Stream, InCall
      <3> QED
        BY <1>1, <2>1, <3>1
    <2>2. CASE t = s /\ ~SEND_PADDING
      <3>1. Buffered(t)' = b /\ Pending(t)' = << >> /\ Stream(t)' = fed[s]
        BY <2>2 DEF Buffered, Pending, Stream, InCall
      <3>2. fed[s] \o << >> = fed[s]
        BY <1>1, ConcatEmptySeq
      <3> QED
        BY <1>1, <2>2, <3>1, <3>2
    <2>3. CASE t # s
      <3>1. Buffered(t)' = InBuffer(written[t]) /\ Pending(t)' = << >>
            /\ Stream(t)' = fed[t]
        BY <2>3 DEF Buffered, Pending, Stream, InCall
      <3>2. Buffered(t) = InBuffer(written[t]) /\ Pending(t) = << >>
            /\ Stream(t) = fed[t]
        BY DEF Buffered, Pending, Stream, InCall
      <3> QED
        BY <3>1, <3>2 DEF IndInv, StreamIntegrity
    <2> QED
      BY <2>1, <2>2, <2>3
  <1> QED
    BY <1>2, <1>3, <1>4, <1>5 DEF IndInv

\* What a call in progress knows of the state it works on.
LEMMA CallFacts ==
  ASSUME IndInv, pc # "idle"
  PROVE  /\ cur \in live /\ cur \in Sessions
         /\ absorbed[cur] \in Seq(Nat) /\ written[cur] \in Nat
         /\ fed[cur] \in Seq(Nat) /\ data \in Seq(Nat)
         /\ buffer[cur] \in [1 .. HASH_WRAPPER_MAX_BLOCKSIZE -> Nat]
         /\ written_in_buffer = InBuffer(written[cur])
         /\ written_in_buffer \in 0 .. HASH_WRAPPER_MAX_BLOCKSIZE
         /\ SubSeq(buffer[cur], 1, written_in_buffer) \in Seq(Nat)
         /\ Len(SubSeq(buffer[cur], 1, written_in_buffer)) = written_in_buffer
         /\ absorbed[cur] \o SubSeq(buffer[cur], 1, written_in_buffer) \o data
              = Stream(cur)
         /\ Len(absorbed[cur]) + written_in_buffer = written[cur]
  <1>1. /\ cur \in live /\ cur \in Sessions
        /\ absorbed[cur] \in Seq(Nat) /\ written[cur] \in Nat
        /\ fed[cur] \in Seq(Nat) /\ data \in Seq(Nat)
        /\ buffer[cur] \in [1 .. HASH_WRAPPER_MAX_BLOCKSIZE -> Nat]
        /\ written_in_buffer = InBuffer(written[cur])
        /\ written_in_buffer \in 0 .. HASH_WRAPPER_MAX_BLOCKSIZE
    BY DEF IndInv, TypeOK, CallState
  <1>2. \A i \in 1 .. written_in_buffer : buffer[cur][i] \in Nat
    <2>1. \A i \in 1 .. written_in_buffer : i \in 1 .. HASH_WRAPPER_MAX_BLOCKSIZE
      BY <1>1, BufferAssumption
    <2> QED
      BY <1>1, <2>1
  <1>3. /\ SubSeq(buffer[cur], 1, written_in_buffer) \in Seq(Nat)
        /\ Len(SubSeq(buffer[cur], 1, written_in_buffer)) = written_in_buffer
    <2>1. written_in_buffer \in Int /\ 1 \in Int
          /\ (IF 1 <= written_in_buffer THEN written_in_buffer - 1 + 1 ELSE 0)
               = written_in_buffer
      BY <1>1, BufferAssumption
    <2> QED
      BY <1>2, <2>1, SubSeqProperties
  <1>4. Buffered(cur) = written_in_buffer /\ Pending(cur) = data
    BY DEF Buffered, Pending, InCall
  <1>5. absorbed[cur] \o SubSeq(buffer[cur], 1, written_in_buffer) \o data
          = Stream(cur)
    BY <1>1, <1>4 DEF IndInv, StreamIntegrity
  <1>6. Len(absorbed[cur]) + written_in_buffer = written[cur]
    BY <1>1 DEF IndInv, Levels
  <1> QED
    BY <1>1, <1>3, <1>5, <1>6

\* After message and padding the buffer is empty: nothing is lost when
\* finalize resets its written_in_buffer.
LEMMA PaddedLevel ==
  ASSUME NEW n \in Nat, SEND_PADDING
  PROVE  InBuffer(n + Len(sha256_padding(n))) = 0
  <1> DEFINE B == SHA2SHORT_BLOCK_SIZE
             w == n + Len(sha256_padding(n))
  <1>0. B \in Nat \ {0} /\ FIRST_CHUNK_SIZE \in {0, B}
    BY SizesAssumption, BackendAssumption
  <1>1. w \in Nat /\ w >= B /\ (w % B) = 0
    <2>1. sha256_padding(n) \in Seq(Nat) /\ w >= B /\ (w % B) = 0
      BY PaddingFillsBlock
    <2>2. Len(sha256_padding(n)) \in Nat
      BY <2>1, LenProperties
    <2> QED
      BY <2>1, <2>2
  <1> HIDE DEF w
  <1>2. InBuffer(w) = ((w - FIRST_CHUNK_SIZE) % B)
    BY <1>0, <1>1 DEF InBuffer
  <1>3. CASE FIRST_CHUNK_SIZE = 0
    BY <1>1, <1>2, <1>3 DEF w
  <1>4. CASE FIRST_CHUNK_SIZE = B
    <2>1. PICK q \in Nat : w = B * q
      <3>1. PICK q \in Nat, m \in 0 .. B - 1 : m = (w % B) /\ w = B * q + m
        BY <1>1, BlockDivision
      <3>2. B * q \in Nat
        BY <1>0
      <3> QED
        BY <1>1, <3>1, <3>2
    <2>2. q # 0
      BY <1>0, <1>1, <2>1
    <2>3. q - 1 \in Nat /\ B * (q - 1) = B * q - B /\ B * (q - 1) \in Nat
      BY <1>0, <2>2
    <2>4. w - B \in Nat /\ w - B = B * (q - 1) + 0 /\ 0 \in 0 .. B - 1
      BY <1>0, <1>1, <2>1, <2>3
    <2>5. ((w - B) % B) = 0
      BY <2>3, <2>4, BlockRemainder
    <2> QED
      BY <1>2, <1>4, <2>5 DEF w
  <1> QED
    BY <1>0, <1>3, <1>4

\* The chunk being collected is the one the back-end expects next.
LEMMA ChunkMatches ==
  ASSUME NEW w \in Nat, NEW a \in Nat, a + InBuffer(w) = w
  PROVE  BufferMax(w) = Backend!ChunkSize(a)
  <1>1. CASE w < FIRST_CHUNK_SIZE
    <2>1. a = 0 /\ FIRST_CHUNK_SIZE # 0
      BY <1>1, BackendAssumption DEF InBuffer
    <2> QED
      BY <1>1, <2>1 DEF BufferMax, Backend!ChunkSize
  <1>2. CASE ~(w < FIRST_CHUNK_SIZE)
    <2> DEFINE x == w - FIRST_CHUNK_SIZE
    <2>1. x \in Nat /\ InBuffer(w) = (x % SHA2SHORT_BLOCK_SIZE)
      BY <1>2, BackendAssumption DEF InBuffer
    <2>2. (x % SHA2SHORT_BLOCK_SIZE) \in Nat /\ (x % SHA2SHORT_BLOCK_SIZE) <= x
      <3> HIDE DEF x
      <3> QED
        BY <2>1, SizesAssumption
    <2>3. InBuffer(w) \in Nat /\ InBuffer(w) <= w - FIRST_CHUNK_SIZE
      BY <2>1, <2>2
    <2>4. a # 0 \/ FIRST_CHUNK_SIZE = 0
      BY <2>3, BackendAssumption
    <2> QED
      BY <1>2, <2>4 DEF BufferMax, Backend!ChunkSize
  <1> QED
    BY <1>1, <1>2

\* What one iteration of the loop in update moves, and where it ends.
LEMMA FillFacts ==
  ASSUME IndInv, pc \in {"update", "padding"}
  PROVE  /\ FillBytes \in 0 .. Len(data)
         /\ BufferMax(written[cur]) \in Nat
         /\ BufferMax(written[cur]) <= HASH_WRAPPER_MAX_BLOCKSIZE
         /\ written_in_buffer + FillBytes <= BufferMax(written[cur])
         /\ written_in_buffer + FillBytes < BufferMax(written[cur])
              => FillBytes = Len(data)
         /\ Filled(FillBytes) \in [1 .. HASH_WRAPPER_MAX_BLOCKSIZE -> Nat]
         /\ SubSeq(data, FillBytes + 1, Len(data)) \in Seq(Nat)
         /\ SubSeq(Filled(FillBytes), 1, written_in_buffer + FillBytes) \in Seq(Nat)
         /\ Len(SubSeq(Filled(FillBytes), 1, written_in_buffer + FillBytes))
              = written_in_buffer + FillBytes
         /\ SubSeq(Filled(FillBytes), 1, written_in_buffer + FillBytes)
              \o SubSeq(data, FillBytes + 1, Len(data))
              = SubSeq(buffer[cur], 1, written_in_buffer) \o data
  <1> DEFINE M == HASH_WRAPPER_MAX_BLOCKSIZE
             b == written_in_buffer
             n == FillBytes
             f == Filled(n)
             max == BufferMax(written[cur])
  <1>1. /\ written[cur] \in Nat /\ data \in Seq(Nat) /\ b = InBuffer(written[cur])
        /\ b \in 0 .. M /\ buffer[cur] \in [1 .. M -> Nat] /\ Len(data) \in Nat
    BY CallFacts
  <1>2. max \in Nat /\ b < max /\ max <= M /\ M \in Nat /\ b \in Nat
    BY <1>1, LevelBounds, BufferAssumption
  <1>3. n = IF Len(data) > max - b THEN max - b ELSE Len(data)
    BY DEF FillBytes
  <1> HIDE DEF max, n
  <1>4. n \in 0 .. Len(data) /\ b + n <= max /\ (b + n < max => n = Len(data))
    BY <1>1, <1>2, <1>3, SMTT(30)
  <1>5. f = [i \in 1 .. M |-> IF i \in b + 1 .. b + n
                                THEN data[i - b] ELSE buffer[cur][i]]
    BY DEF Filled
  <1>6. b + n <= M /\ b + n \in Nat
    BY <1>1, <1>2, <1>4
  <1> HIDE DEF f
  <1>7. /\ f \in [1 .. M -> Nat]
        /\ SubSeq(f, 1, b + n) \o SubSeq(data, n + 1, Len(data))
             = SubSeq(buffer[cur], 1, b) \o data
    <2>1. /\ M \in Nat /\ b \in 0 .. M /\ buffer[cur] \in [1 .. M -> Nat]
          /\ data \in Seq(Nat) /\ n \in 0 .. Len(data) /\ b + n <= M
      BY <1>1, <1>2, <1>4, <1>6
    <2>2. \A i \in b + 1 .. b + n : i - b \in 1 .. Len(data)
      <3>1. b \in Int /\ n \in Int /\ Len(data) \in Int /\ n <= Len(data)
        BY <1>1, <1>2, <1>4
      <3> HIDE DEF b
      <3> QED
        BY <3>1
    <2>3. f \in [1 .. M -> Nat]
      BY <1>5, <2>1, <2>2
    <2> HIDE DEF M, b
    <2>4. SubSeq([i \in 1 .. M |-> IF i \in b + 1 .. b + n
                                    THEN data[i - b] ELSE buffer[cur][i]], 1, b + n)
              \o SubSeq(data, n + 1, Len(data))
            = SubSeq(buffer[cur], 1, b) \o data
      BY <2>1, FillKeepsOrder, Zenon
    <2>5. SubSeq(f, 1, b + n) \o SubSeq(data, n + 1, Len(data))
             = SubSeq(buffer[cur], 1, b) \o data
      BY <1>5, <2>4, Zenon
    <2> QED
      BY <2>3, <2>5
  <1>8. SubSeq(f, 1, b + n) \in Seq(Nat) /\ Len(SubSeq(f, 1, b + n)) = b + n
    <2>1. \A i \in 1 .. b + n : i \in 1 .. M
      BY <1>2, <1>6
    <2>2. \A i \in 1 .. b + n : f[i] \in Nat
      BY <1>7, <2>1
    <2>a. ASSUME NEW x \in Nat
          PROVE  x \in Int /\ 1 \in Int /\ (IF 1 <= x THEN x - 1 + 1 ELSE 0) = x
      OBVIOUS
    <2>3. b + n \in Int /\ 1 \in Int
          /\ (IF 1 <= b + n THEN (b + n) - 1 + 1 ELSE 0) = b + n
      BY <1>6, <2>a
    <2> QED
      BY <2>2, <2>3, SubSeqProperties
  <1>9. SubSeq(data, n + 1, Len(data)) \in Seq(Nat)
    BY <1>1, <1>4
  <1> QED
    BY <1>2, <1>4, <1>7, <1>8, <1>9 DEF max, n, f

\* A step of the running call leaves the streams of the other states alone.
LEMMA OthersKeepStream ==
  ASSUME IndInv, NEW t \in live, t # cur, cur' = cur,
         absorbed'[t] = absorbed[t], buffer'[t] = buffer[t],
         written'[t] = written[t], fed'[t] = fed[t]
  PROVE  (absorbed[t] \o SubSeq(buffer[t], 1, Buffered(t)) \o Pending(t)
            = Stream(t))'
  <1>1. /\ Buffered(t)' = InBuffer(written[t]) /\ Pending(t)' = << >>
        /\ Stream(t)' = fed[t]
    BY DEF Buffered, Pending, Stream, InCall
  <1>2. /\ Buffered(t) = InBuffer(written[t]) /\ Pending(t) = << >>
        /\ Stream(t) = fed[t]
    BY DEF Buffered, Pending, Stream, InCall
  <1> QED
    BY <1>1, <1>2 DEF IndInv, StreamIntegrity

\* The iteration that leaves the chunk incomplete took all of the input.
LEMMA FillAndReturnInv ==
  ASSUME IndInv, FillAndReturn
  PROVE  IndInv'
  <1> DEFINE b == written_in_buffer
             n == FillBytes
             f == Filled(n)
             w == written[cur]
             held == SubSeq(f, 1, b + n)
  <1>0. /\ pc \in {"update", "padding"} /\ b + n < BufferMax(w)
        /\ buffer' = [buffer EXCEPT ![cur] = f]
        /\ data' = SubSeq(data, n + 1, Len(data))
        /\ written' = [written EXCEPT ![cur] = @ + n]
        /\ live' = live /\ cur' = cur /\ fed' = fed
        /\ absorbed' = absorbed /\ hashed' = hashed /\ broken' = broken
        /\ \/ pc = "update" /\ pc' = "idle" /\ written_in_buffer' = b + n
           \/ pc = "padding" /\ pc' = "finalize" /\ written_in_buffer' = 0
    BY DEF FillAndReturn, Fill, backendVars
  <1>1. /\ cur \in live /\ cur \in Sessions /\ absorbed[cur] \in Seq(Nat)
        /\ w \in Nat /\ fed[cur] \in Seq(Nat) /\ data \in Seq(Nat)
        /\ b = InBuffer(w) /\ b \in 0 .. HASH_WRAPPER_MAX_BLOCKSIZE
        /\ Len(absorbed[cur]) + b = w
    BY <1>0, CallFacts
  <1>2. /\ SubSeq(buffer[cur], 1, b) \in Seq(Nat)
        /\ absorbed[cur] \o SubSeq(buffer[cur], 1, b) \o data = Stream(cur)
    BY <1>0, CallFacts
  <1>3. /\ n \in 0 .. Len(data) /\ BufferMax(w) \in Nat
        /\ BufferMax(w) <= HASH_WRAPPER_MAX_BLOCKSIZE
        /\ b + n < BufferMax(w) => n = Len(data)
        /\ f \in [1 .. HASH_WRAPPER_MAX_BLOCKSIZE -> Nat]
        /\ held \in Seq(Nat) /\ Len(held) = b + n
        /\ held \o SubSeq(data, n + 1, Len(data)) = SubSeq(buffer[cur], 1, b) \o data
    BY <1>0, FillFacts
  <1> HIDE DEF b, n, f, w, held
  <1>4. n \in Nat /\ b \in Nat /\ w + n \in Nat /\ b + n \in Nat
        /\ b + n \in 0 .. HASH_WRAPPER_MAX_BLOCKSIZE
    BY <1>0, <1>1, <1>3, LenProperties, BufferAssumption
  <1>a. Len(absorbed[cur]) + (b + n) = w + n
    <2> DEFINE a == Len(absorbed[cur])
    <2>1. a \in Nat /\ a + b = w
      BY <1>1, LenProperties
    <2> HIDE DEF a
    <2>2. a + (b + n) = w + n
      BY <1>4, <2>1
    <2> QED
      BY <2>2 DEF a
  <1>5. data' = << >>
    BY <1>0, <1>1, <1>3, <1>4
  <1>6. InBuffer(w + n) = b + n
    BY <1>0, <1>1, <1>4, LevelAdvances
  <1>7. written'[cur] = w + n /\ buffer'[cur] = f
    BY <1>0, <1>1 DEF IndInv, TypeOK, w
  <1>8. absorbed[cur] \o held = Stream(cur)
    <2>1. held \o << >> = SubSeq(buffer[cur], 1, b) \o data
      BY <1>0, <1>3, <1>5
    <2>2. held = SubSeq(buffer[cur], 1, b) \o data
      BY <1>3, <2>1, ConcatEmptySeq
    <2> DEFINE x == SubSeq(buffer[cur], 1, b)
               a == absorbed[cur]
    <2>3. a \in Seq(Nat) /\ x \in Seq(Nat) /\ data \in Seq(Nat)
          /\ held = x \o data /\ (a \o x) \o data = Stream(cur)
      BY <1>1, <1>2, <2>2
    <2> HIDE DEF x, a
    <2>4. (a \o x) \o data = a \o (x \o data)
      BY <2>3, BytesRegroup, Zenon
    <2>5. a \o held = Stream(cur)
      BY <2>3, <2>4, Zenon
    <2> QED
      BY <2>5 DEF a
  <1>9. pc = "padding" => b + n = 0
    <2> SUFFICES ASSUME pc = "padding" PROVE b + n = 0
      OBVIOUS
    <2>1. SEND_PADDING
      BY DEF IndInv, CallState
    <2>2. Stream(cur) = fed[cur] \o sha256_padding(Len(fed[cur]))
      BY <2>1 DEF Stream, InCall
    <2>3. Len(fed[cur]) \in Nat
      BY <1>1, LenProperties
    <2>4. sha256_padding(Len(fed[cur])) \in Seq(Nat)
      BY <2>3, PaddingFillsBlock
    <2>5. Len(Stream(cur)) = Len(fed[cur]) + Len(sha256_padding(Len(fed[cur])))
      BY <1>1, <2>2, <2>4, ConcatProperties
    <2>6. Len(absorbed[cur] \o held) = Len(absorbed[cur]) + Len(held)
      BY <1>1, <1>3, ConcatProperties
    <2>7. Len(Stream(cur)) = w + n
      BY <1>3, <1>8, <1>a, <2>6, Zenon
    <2>8. InBuffer(w + n) = 0
      BY <2>1, <2>3, <2>5, <2>7, PaddedLevel
    <2> QED
      BY <1>6, <2>8
  <1>10. TypeOK'
    <2>1. written' \in [Sessions -> Nat]
      BY <1>0, <1>1, <1>4 DEF IndInv, TypeOK, w
    <2>2. buffer' \in [Sessions -> [1 .. HASH_WRAPPER_MAX_BLOCKSIZE -> Nat]]
      BY <1>0, <1>1, <1>3 DEF IndInv, TypeOK
    <2>3. data' \in Seq(Nat)
      BY <1>5, EmptySeq
    <2>4. written_in_buffer' \in 0 .. HASH_WRAPPER_MAX_BLOCKSIZE
      BY <1>0, <1>4, BufferAssumption
    <2> QED
      BY <1>0, <2>1, <2>2, <2>3, <2>4 DEF IndInv, TypeOK
  <1>11. Levels'
    <2> SUFFICES ASSUME NEW t \in live
                 PROVE  Len(absorbed[t]) + InBuffer(written'[t]) = written'[t]
      BY <1>0 DEF Levels
    <2>1. CASE t = cur
      BY <1>6, <1>7, <1>a, <2>1
    <2>2. CASE t # cur
      BY <1>0, <2>2 DEF IndInv, Levels, TypeOK
    <2> QED
      BY <2>1, <2>2
  <1>12. CallState'
    <2>1. CASE pc = "update"
      BY <1>0, <2>1 DEF CallState
    <2>2. CASE pc = "padding"
      <3>1. pc' = "finalize" /\ written_in_buffer' = 0 /\ SEND_PADDING
        BY <1>0, <2>2 DEF IndInv, CallState
      <3>2. InBuffer(written'[cur]) = 0
        BY <1>6, <1>7, <1>9, <2>2
      <3> QED
        BY <1>0, <1>1, <1>5, <3>1, <3>2 DEF CallState
    <2> QED
      BY <1>0, <2>1, <2>2
  <1>13. StreamIntegrity'
    <2> SUFFICES ASSUME NEW t \in live
                 PROVE  (absorbed[t] \o SubSeq(buffer[t], 1, Buffered(t))
                          \o Pending(t) = Stream(t))'
      BY <1>0 DEF StreamIntegrity
    <2>1. CASE t = cur
      <3>1. Buffered(t)' = b + n
        BY <1>0, <1>6, <1>7, <1>9, <2>1 DEF Buffered, InCall
      <3>2. Pending(t)' = << >>
        BY <1>5 DEF Pending
      <3>3. Stream(t)' = Stream(cur)
        BY <1>0, <2>1 DEF Stream, InCall, IndInv, CallState
      <3>4. absorbed'[t] = absorbed[cur] /\ SubSeq(buffer'[t], 1, b + n) = held
        BY <1>0, <1>7, <2>1 DEF held
      <3>5. absorbed[cur] \o held \in Seq(Nat)
        BY <1>1, <1>3, ConcatProperties
      <3>6. (absorbed[cur] \o held) \o << >> = Stream(cur)
        BY <1>8, <3>5, ConcatEmptySeq
      <3> QED
        BY <3>1, <3>2, <3>3, <3>4, <3>6
    <2>2. CASE t # cur
      <3>1. buffer'[t] = buffer[t] /\ written'[t] = written[t]
        BY <1>0, <2>2 DEF IndInv, TypeOK
      <3> QED
        BY <1>0, <2>2, <3>1, OthersKeepStream
    <2> QED
      BY <2>1, <2>2
  <1>14. ChunkDiscipline'
    BY <1>0 DEF IndInv, ChunkDiscipline
  <1> QED
    BY <1>10, <1>11, <1>12, <1>13, <1>14 DEF IndInv

\* The iteration that completes a chunk hands the back-end the chunk it
\* expects, and the stream moves on by that chunk.
LEMMA FillAndSendInv ==
  ASSUME IndInv, FillAndSend
  PROVE  IndInv'
  <1> DEFINE b == written_in_buffer
             n == FillBytes
             f == Filled(n)
             w == written[cur]
             max == BufferMax(w)
             chunk == SubSeq(f, 1, max)
             rest == SubSeq(data, n + 1, Len(data))
             a == absorbed[cur]
  <1>0. /\ pc \in {"update", "padding"} /\ b + n >= max
        /\ buffer' = [buffer EXCEPT ![cur] = f]
        /\ data' = rest
        /\ written' = [written EXCEPT ![cur] = @ + n]
        /\ live' = live /\ cur' = cur /\ fed' = fed /\ pc' = pc
        /\ absorbed' = [absorbed EXCEPT ![cur] = @ \o chunk]
        /\ hashed' = hashed
        /\ broken' = (broken \/ Len(chunk) # Backend!ChunkSize(Len(a)))
        /\ written_in_buffer' = 0
    BY DEF FillAndSend, Fill, Backend!update
  <1>1. /\ cur \in live /\ cur \in Sessions /\ a \in Seq(Nat)
        /\ w \in Nat /\ data \in Seq(Nat) /\ b \in Nat
        /\ b = InBuffer(w) /\ Len(a) + b = w
    BY <1>0, CallFacts
  <1>2. /\ SubSeq(buffer[cur], 1, b) \in Seq(Nat)
        /\ (a \o SubSeq(buffer[cur], 1, b)) \o data = Stream(cur)
    BY <1>0, CallFacts
  <1>3. /\ n \in 0 .. Len(data) /\ max \in Nat /\ b + n <= max
        /\ f \in [1 .. HASH_WRAPPER_MAX_BLOCKSIZE -> Nat]
        /\ rest \in Seq(Nat)
    BY <1>0, FillFacts
  <1>4. /\ SubSeq(f, 1, b + n) \in Seq(Nat)
        /\ Len(SubSeq(f, 1, b + n)) = b + n
        /\ SubSeq(f, 1, b + n) \o rest = SubSeq(buffer[cur], 1, b) \o data
    BY <1>0, FillFacts
  <1> HIDE DEF b, n, f, w, max, rest, a
  <1>5. n \in Nat /\ b + n = max
    BY <1>0, <1>1, <1>3, LenProperties
  <1>6. chunk \in Seq(Nat) /\ Len(chunk) = max
        /\ chunk \o rest = SubSeq(buffer[cur], 1, b) \o data
    BY <1>4, <1>5
  <1> HIDE DEF chunk
  <1>7. InBuffer(w + n) = 0 /\ w + n \in Nat
    <2>1. w \in Nat /\ n \in Nat /\ InBuffer(w) + n = BufferMax(w)
      BY <1>1, <1>5 DEF max
    <2> QED
      BY <2>1, LevelWraps
  <1>8. Len(a) \in Nat /\ Len(a) + max = w + n
    <2> DEFINE l == Len(a)
    <2>1. l \in Nat /\ l + b = w
      BY <1>1, LenProperties
    <2> HIDE DEF l
    <2>2. b \in Nat /\ w \in Nat /\ n \in Nat /\ b + n = max
      BY <1>1, <1>5
    <2>3. l + (b + n) = w + n
      BY <2>1, <2>2
    <2> QED
      BY <2>1, <2>2, <2>3 DEF l
  <1>9. /\ a \o chunk \in Seq(Nat) /\ Len(a \o chunk) = w + n
        /\ (a \o chunk) \o rest = Stream(cur)
    <2>1. a \o chunk \in Seq(Nat) /\ Len(a \o chunk) = Len(a) + Len(chunk)
      BY <1>1, <1>6, ConcatProperties
    <2> DEFINE x == SubSeq(buffer[cur], 1, b)
    <2>2. x \in Seq(Nat) /\ chunk \o rest = x \o data
          /\ (a \o x) \o data = Stream(cur)
      BY <1>2, <1>6
    <2> HIDE DEF x
    <2>3. (a \o chunk) \o rest = a \o (chunk \o rest)
      BY <1>1, <1>3, <1>6, BytesRegroup
    <2>4. (a \o x) \o data = a \o (x \o data)
      BY <1>1, <2>2, BytesRegroup
    <2>5. (a \o chunk) \o rest = Stream(cur)
      BY <2>2, <2>3, <2>4, Zenon
    <2>6. Len(a \o chunk) = w + n
      BY <1>6, <1>8, <2>1, Zenon
    <2> QED
      BY <2>1, <2>5, <2>6
  <1>10. /\ written'[cur] = w + n /\ absorbed'[cur] = a \o chunk
         /\ \A t \in Sessions : t # cur =>
              /\ buffer'[t] = buffer[t] /\ written'[t] = written[t]
              /\ absorbed'[t] = absorbed[t]
    BY <1>0, <1>1 DEF IndInv, TypeOK, w, a
  <1>11. TypeOK'
    <2>1. written' \in [Sessions -> Nat]
      BY <1>0, <1>1, <1>7 DEF IndInv, TypeOK, w
    <2>2. buffer' \in [Sessions -> [1 .. HASH_WRAPPER_MAX_BLOCKSIZE -> Nat]]
      BY <1>0, <1>1, <1>3 DEF IndInv, TypeOK
    <2>3. absorbed' \in [Sessions -> Seq(Nat)]
      BY <1>0, <1>1, <1>9 DEF IndInv, TypeOK, a
    <2>4. written_in_buffer' \in 0 .. HASH_WRAPPER_MAX_BLOCKSIZE
      BY <1>0, BufferAssumption
    <2>5. broken' \in BOOLEAN
      BY <1>0
    <2> QED
      BY <1>0, <1>3, <2>1, <2>2, <2>3, <2>4, <2>5 DEF IndInv, TypeOK
  <1>12. Levels'
    <2> SUFFICES ASSUME NEW t \in live
                 PROVE  Len(absorbed'[t]) + InBuffer(written'[t]) = written'[t]
      BY <1>0 DEF Levels
    <2>1. CASE t = cur
      BY <1>7, <1>9, <1>10, <2>1
    <2>2. CASE t # cur
      BY <1>10, <2>2 DEF IndInv, Levels, TypeOK
    <2> QED
      BY <2>1, <2>2
  <1>13. CallState'
    BY <1>0, <1>1, <1>7, <1>10 DEF IndInv, CallState
  <1>14. StreamIntegrity'
    <2> SUFFICES ASSUME NEW t \in live
                 PROVE  (absorbed[t] \o SubSeq(buffer[t], 1, Buffered(t))
                          \o Pending(t) = Stream(t))'
      BY <1>0 DEF StreamIntegrity
    <2>1. CASE t = cur
      <3>1. /\ Buffered(t)' = 0 /\ Pending(t)' = rest
            /\ Stream(t)' = Stream(cur)
        BY <1>0, <2>1 DEF Buffered, Pending, Stream, InCall
      <3>2. SubSeq(buffer'[t], 1, 0) = << >>
        OBVIOUS
      <3>3. (a \o chunk) \o << >> = a \o chunk
        BY <1>9, ConcatEmptySeq
      <3>4. ((a \o chunk) \o << >>) \o rest = Stream(cur)
        BY <1>9, <3>3, Zenon
      <3> QED
        BY <1>10, <2>1, <3>1, <3>2, <3>4
    <2>2. CASE t # cur
      <3>1. t \in Sessions
        BY DEF IndInv, TypeOK
      <3> QED
        BY <1>0, <1>10, <2>2, <3>1, OthersKeepStream
    <2> QED
      BY <2>1, <2>2
  <1>15. ChunkDiscipline'
    <2>1. max = Backend!ChunkSize(Len(a))
      BY <1>1, <1>8, ChunkMatches DEF max
    <2> QED
      BY <1>0, <1>6, <2>1 DEF IndInv, ChunkDiscipline
  <1> QED
    BY <1>11, <1>12, <1>13, <1>14, <1>15 DEF IndInv

\* finalize hands over what is left, less than a chunk.
LEMMA FinalizeBackendInv ==
  ASSUME IndInv, FinalizeBackend
  PROVE  IndInv'
  <1> DEFINE last == SubSeq(buffer[cur], 1, written_in_buffer)
  <1>0. /\ pc = "finalize" /\ pc' = "idle" /\ live' = live \ {cur}
        /\ UNCHANGED <<written, buffer, cur, data, written_in_buffer, fed, absorbed>>
        /\ hashed' = [hashed EXCEPT ![cur] = {absorbed[cur] \o last}]
        /\ broken' = (broken \/ ~Backend!LastChunkAccepted(Len(absorbed[cur]), Len(last)))
    BY DEF FinalizeBackend, Backend!finalize
  <1>1. /\ cur \in live /\ cur \in Sessions /\ absorbed[cur] \in Seq(Nat)
        /\ written[cur] \in Nat /\ last \in Seq(Nat)
        /\ written_in_buffer = InBuffer(written[cur])
        /\ Len(last) = written_in_buffer
        /\ Len(absorbed[cur]) + written_in_buffer = written[cur]
    BY <1>0, CallFacts
  <1> HIDE DEF last
  <1>2. TypeOK'
    <2>1. absorbed[cur] \o last \in Seq(Nat)
      BY <1>1, ConcatProperties
    <2>2. hashed' \in [Sessions -> SUBSET Seq(Nat)]
      BY <1>0, <1>1, <2>1 DEF IndInv, TypeOK
    <2> QED
      BY <1>0, <2>2 DEF IndInv, TypeOK
  <1>3. Levels'
    BY <1>0 DEF IndInv, Levels
  <1>4. CallState'
    BY <1>0 DEF CallState
  <1>5. StreamIntegrity'
    <2> SUFFICES ASSUME NEW t \in live, t # cur
                 PROVE  (absorbed[t] \o SubSeq(buffer[t], 1, Buffered(t))
                          \o Pending(t) = Stream(t))'
      BY <1>0 DEF StreamIntegrity
    <2> QED
      BY <1>0, OthersKeepStream
  <1>6. ChunkDiscipline'
    <2>1. Backend!LastChunkAccepted(Len(absorbed[cur]), Len(last))
      <3>1. CASE SEND_PADDING
        <4>1. written_in_buffer = 0
          BY <1>0, <3>1 DEF IndInv, CallState
        <4> QED
          BY <1>1, <3>1, <4>1 DEF Backend!LastChunkAccepted
      <3>2. CASE ~SEND_PADDING
        <4>1. Len(absorbed[cur]) \in Nat
          BY <1>1, LenProperties
        <4>2. BufferMax(written[cur]) = Backend!ChunkSize(Len(absorbed[cur]))
          BY <1>1, <4>1, ChunkMatches
        <4>3. written_in_buffer < BufferMax(written[cur])
          BY <1>1, LevelBounds
        <4> QED
          BY <1>1, <3>2, <4>2, <4>3 DEF Backend!LastChunkAccepted
      <3> QED
        BY <3>1, <3>2
    <2> QED
      BY <1>0, <2>1 DEF IndInv, ChunkDiscipline
  <1> QED
    BY <1>2, <1>3, <1>4, <1>5, <1>6 DEF IndInv

\* A step that changes nothing preserves the invariant.
LEMMA StutterInv ==
  ASSUME IndInv, UNCHANGED vars
  PROVE  IndInv'
  BY DEF IndInv, vars, stateVars, backendVars, callVars, TypeOK, Levels,
         CallState, StreamIntegrity, ChunkDiscipline, Buffered, Pending, Stream,
         InCall

\* IndInv holds in every state of every execution: one case per operation of
\* the Extender's HashProvider.
THEOREM Inductive == Spec => []IndInv
  <1>1. Init => IndInv
    BY InitInv
  <1>2. IndInv /\ [Next]_vars => IndInv'
    <2> SUFFICES ASSUME IndInv, [Next]_vars PROVE IndInv'
      OBVIOUS
    <2>1. ASSUME NEW s \in Sessions, HashInit(s) PROVE IndInv'
      BY <2>1, HashInitInv
    <2>2. ASSUME NEW s \in Sessions, NEW d \in Payloads, Update(s, d) PROVE IndInv'
      BY <2>2, UpdateInv
    <2>3. ASSUME NEW s \in Sessions, Finalize(s) PROVE IndInv'
      BY <2>3, FinalizeInv
    <2>4. ASSUME NEW s \in Sessions, NEW t \in Sessions, Clone(s, t) PROVE IndInv'
      BY <2>4, CloneInv
    <2>5. ASSUME NEW s \in Sessions, Drop(s) PROVE IndInv'
      BY <2>5, DropInv
    <2>6. CASE FillAndReturn
      BY <2>6, FillAndReturnInv
    <2>7. CASE FillAndSend
      BY <2>7, FillAndSendInv
    <2>8. CASE FinalizeBackend
      BY <2>8, FinalizeBackendInv
    <2>9. CASE UNCHANGED vars
      BY <2>9, StutterInv
    <2> QED
      BY <2>1, <2>2, <2>3, <2>4, <2>5, <2>6, <2>7, <2>8, <2>9 DEF Next, CallStep
  <1> QED
    BY <1>1, <1>2, PTL DEF Spec

\* The fields of a HashState keep their types; the fill level stays within
\* the buffer.
THEOREM TypeCorrect == Spec => []TypeOK
  <1>1. IndInv => TypeOK
    BY DEF IndInv
  <1> QED
    BY <1>1, Inductive, PTL

\* No byte of any stream is lost, repeated, reordered or taken from a
\* different state, whatever the chunk sizes of the back-end.
THEOREM StreamsIntact == Spec => []StreamIntegrity
  <1>1. IndInv => StreamIntegrity
    BY DEF IndInv
  <1> QED
    BY <1>1, Inductive, PTL

\* The back-end never receives a chunk it has to refuse.
THEOREM ChunksAccepted == Spec => []ChunkDiscipline
  <1>1. IndInv => ChunkDiscipline
    BY DEF IndInv
  <1> QED
    BY <1>1, Inductive, PTL

\* The slices that update takes of the buffer are well-formed and within it.
THEOREM SlicesInBounds == Spec => []SliceInBounds
  <1>1. IndInv => SliceInBounds
    <2> SUFFICES ASSUME IndInv, pc \in {"update", "padding"}
                 PROVE  /\ written_in_buffer <= BufferMax(written[cur])
                        /\ BufferMax(written[cur]) <= HASH_WRAPPER_MAX_BLOCKSIZE
      BY DEF SliceInBounds
    <2>1. written[cur] \in Nat /\ written_in_buffer = InBuffer(written[cur])
      BY CallFacts
    <2>2. /\ InBuffer(written[cur]) < BufferMax(written[cur])
          /\ InBuffer(written[cur]) \in Nat /\ BufferMax(written[cur]) \in Nat
          /\ BufferMax(written[cur]) <= HASH_WRAPPER_MAX_BLOCKSIZE
      BY <2>1, LevelBounds
    <2> QED
      BY <2>1, <2>2
  <1> QED
    BY <1>1, Inductive, PTL

-----------------------------------------------------------------------------
(* The Extender implements the HashProvider promise *)

\* What the back-end hashes at the end is the padded message.
LEMMA FinalInput ==
  ASSUME IndInv, pc = "finalize"
  PROVE  FullInput(absorbed[cur] \o SubSeq(buffer[cur], 1, written_in_buffer))
           = Digest(fed[cur])
  <1> DEFINE m == absorbed[cur] \o SubSeq(buffer[cur], 1, written_in_buffer)
  <1>1. /\ absorbed[cur] \in Seq(Nat) /\ fed[cur] \in Seq(Nat)
        /\ SubSeq(buffer[cur], 1, written_in_buffer) \in Seq(Nat)
        /\ m \o data = Stream(cur)
    BY CallFacts
  <1>2. data = << >>
    BY DEF IndInv, CallState
  <1>3. m \in Seq(Nat)
    BY <1>1, ConcatProperties
  <1> HIDE DEF m
  <1>4. m = Stream(cur)
    BY <1>1, <1>2, <1>3, ConcatEmptySeq
  <1>5. CASE SEND_PADDING
    <2>1. Stream(cur) = fed[cur] \o sha256_padding(Len(fed[cur]))
      BY <1>5 DEF Stream, InCall
    <2>2. Len(fed[cur]) \in Nat
      BY <1>1, LenProperties
    <2>3. sha256_padding(Len(fed[cur])) = Padding(Len(fed[cur]))
      BY <2>2, PaddingIsFips
    <2> QED
      BY <1>4, <1>5, <2>1, <2>3 DEF FullInput, Digest, m
  <1>6. CASE ~SEND_PADDING
    <2>1. Stream(cur) = fed[cur]
      BY <1>6 DEF Stream
    <2> QED
      BY <1>4, <1>6, <2>1 DEF FullInput, m
  <1> QED
    BY <1>5, <1>6

\* The digests that callers have seen, as the promise records them.
Digests == [s \in Sessions |-> {FullInput(m) : m \in hashed[s]}]

\* Every step of the Extender is a step of the promise or invisible to its
\* callers.
LEMMA StepSimulates ==
  ASSUME IndInv, [Next]_vars
  PROVE  [Promise!SpecNext]_(Promise!specVars)
  <1>0. hashed \in [Sessions -> SUBSET Seq(Nat)]
    BY DEF IndInv, TypeOK
  <1>1. ASSUME NEW s \in Sessions, HashInit(s) PROVE Promise!Start(s)
    <2>1. Digests' = [Digests EXCEPT ![s] = {}]
      BY <1>0, <1>1 DEF HashInit, Backend!init, Digests
    <2> QED
      BY <1>1, <2>1 DEF HashInit, Promise!Start, Digests
  <1>2. ASSUME NEW s \in Sessions, NEW d \in Payloads, Update(s, d)
        PROVE  Promise!Feed(s, d)
    BY <1>2 DEF Update, Promise!Feed, stateVars, backendVars
  <1>3. ASSUME NEW s \in Sessions, Finalize(s)
        PROVE  UNCHANGED Promise!specVars
    BY <1>3 DEF Finalize, Promise!specVars, stateVars, backendVars
  <1>4. ASSUME NEW s \in Sessions, NEW t \in Sessions, Clone(s, t)
        PROVE  Promise!Copy(s, t)
    <2>1. Digests' = [Digests EXCEPT ![t] = {}]
      BY <1>0, <1>4 DEF Clone, Backend!clone, Digests
    <2> QED
      BY <1>4, <2>1 DEF Clone, Promise!Copy, Digests
  <1>5. ASSUME NEW s \in Sessions, Drop(s) PROVE Promise!Abandon(s)
    BY <1>5 DEF Drop, Promise!Abandon, backendVars
  <1>6. ASSUME FillAndReturn PROVE UNCHANGED Promise!specVars
    BY <1>6 DEF FillAndReturn, Fill, Promise!specVars, backendVars
  <1>7. ASSUME FillAndSend PROVE UNCHANGED Promise!specVars
    BY <1>7 DEF FillAndSend, Fill, Backend!update, Promise!specVars
  <1>8. ASSUME FinalizeBackend PROVE \E s \in Sessions : Promise!Finish(s)
    <2>1. cur \in live /\ cur \in Sessions /\ pc = "finalize"
      BY <1>8, CallFacts DEF FinalizeBackend
    <2> DEFINE m == absorbed[cur] \o SubSeq(buffer[cur], 1, written_in_buffer)
    <2>2. FullInput(m) = Digest(fed[cur])
      BY <2>1, FinalInput
    <2>3. hashed' = [hashed EXCEPT ![cur] = {m}]
      BY <1>8 DEF FinalizeBackend, Backend!finalize
    <2> HIDE DEF m
    <2>4. Digests' = [Digests EXCEPT ![cur] = {Digest(fed[cur])}]
      BY <1>0, <2>1, <2>2, <2>3 DEF Digests
    <2>5. Promise!Digest(fed[cur]) = Digest(fed[cur])
      BY DEF Promise!Digest, Digest, Promise!Padding, Padding,
             Promise!ZeroBytes, ZeroBytes, Promise!LengthField, LengthField
    <2>6. PICK s \in Sessions : s = cur
      BY <2>1
    <2>7. Promise!Finish(s)
      BY <1>8, <2>1, <2>4, <2>5, <2>6 DEF FinalizeBackend, Promise!Finish, Digests
    <2> QED
      BY <2>7
  <1>9. ASSUME UNCHANGED vars PROVE UNCHANGED Promise!specVars
    BY <1>9 DEF vars, stateVars, backendVars, Promise!specVars
  <1>10. CASE \E s \in Sessions :
                \/ HashInit(s) \/ (\E d \in Payloads : Update(s, d))
                \/ (\E t \in Sessions : Clone(s, t)) \/ Drop(s)
    <2>1. Promise!SpecNext
      BY <1>1, <1>2, <1>4, <1>5, <1>10, Zenon DEF Promise!SpecNext
    <2> QED
      BY <2>1
  <1>11. CASE FinalizeBackend
    <2>1. Promise!SpecNext
      BY <1>8, <1>11, Zenon DEF Promise!SpecNext
    <2> QED
      BY <2>1
  <1>12. CASE \/ \E s \in Sessions : Finalize(s)
              \/ FillAndReturn \/ FillAndSend \/ UNCHANGED vars
    <2>1. UNCHANGED Promise!specVars
      BY <1>3, <1>6, <1>7, <1>9, <1>12, Zenon
    <2> QED
      BY <2>1
  <1> QED
    BY <1>10, <1>11, <1>12, Zenon DEF Next, CallStep

\* The Extender implements the promise of HashProvider: a digest handed out
\* is the digest of exactly the bytes fed to its state, however they were
\* cut and whatever other states did in between.
THEOREM KeepsPromise == Spec => HashPromise
  <1>1. Init => Promise!SpecInit
    BY DEF Init, Promise!SpecInit
  <1>2. IndInv /\ [Next]_vars => [Promise!SpecNext]_(Promise!specVars)
    BY StepSimulates
  <1> QED
    BY <1>1, <1>2, Inductive, PTL DEF Spec, HashPromise, Promise!Spec
=============================================================================
