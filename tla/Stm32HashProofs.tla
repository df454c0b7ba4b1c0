-------------------------- MODULE Stm32HashProofs ---------------------------
(***************************************************************************)
(* Proofs about Stm32Hash, for every word and block size, any number of    *)
(* computations, chunks and keys of any length.  The promise for HashState *)
(* holds whatever takes turns with it.  What is proved of HMAC needs that  *)
(* Overlap is FALSE, and that nothing panics that the build is a release.  *)
(***************************************************************************)
EXTENDS Stm32Hash, SequenceTheorems, Integers, TLAPS

-----------------------------------------------------------------------------
(* The inductive invariant *)

Word == [1 .. WORD_SIZE -> Nat]

\* Words after which the core can be suspended.
Suspendable(words) ==
  /\ words \in Seq(Word)
  /\ words = << >> \/ (Len(words) > BLOCK_WORDS /\ (Len(words) - 1) % BLOCK_WORDS = 0)

\* The peripheral in the middle of a hash and of an HMAC computation.
HashCore(words) == [mode |-> "hash", inner |-> << >>, words |-> words, intact |-> TRUE]
HmacCore(key, words) == [mode |-> "hmac", inner |-> key, words |-> words, intact |-> TRUE]

\* The words a saved context stands for.
WordsOf(ctx) == IF ctx = {} THEN << >> ELSE (CHOOSE c \in ctx : TRUE).words

\* The saved context of a hash computation: none before the first chunk.
HashContext(ctx) ==
  /\ Suspendable(WordsOf(ctx))
  /\ ctx = IF WordsOf(ctx) = << >> THEN {} ELSE {HashCore(WordsOf(ctx))}

HashInv ==
  /\ context = [s \in Ids |-> context[s]]
  /\ hashed = [s \in HashIds |-> hashed[s]]
  /\ \A s \in HashIds : HashContext(context[s])
  /\ \A s \in HashIds \cap live : hashed[s] = {}

\* What HMAC computation s looks like on the peripheral, what its buffer has to
\* collect before that takes a block, and what a running update has left.
Running(s) == pc = "hmac_update" /\ s = cur
Core(s) == IF Running(s) /\ wrote_blocks THEN {hw} ELSE context[s]
Room(words) == IF words = << >> THEN FIRST_CHUNK_SIZE ELSE SHA2SHORT_BLOCK_SIZE
Left(s) == IF Running(s) THEN remaining ELSE << >>

(***************************************************************************)
(* A live HMAC computation is that of its key, which the peripheral took,  *)
(* and of its message: what the peripheral took, what is buffered and what *)
(* is left make up the message.  Once it has written blocks it is the user *)
(* of the peripheral, which then shows the fill level of this computation. *)
(***************************************************************************)
StateOf(s, core, buffered, key, ask, left, u, level) ==
  LET words == WordsOf(core) IN
  /\ Suspendable(words)
  /\ core = {HmacCore(ExpectedKey(ask.key), words)}
  /\ key = ExpectedKey(ask.key)
  /\ Len(buffered) < Room(words)
  /\ Bytes(words, 0) \o buffered \o left = ask.message
  /\ words # << >> => u = {s}
  /\ s \in u => level = words

HmacState(s) ==
  StateOf(s, Core(s), buf[s], key_block[s], asked[s], Left(s), user, hw.words)

HmacTypes ==
  /\ live \subseteq Ids
  /\ pc \in {"idle", "sha256_of", "hmac_update"}
  /\ cur \in HmacIds
  /\ wrote_blocks \in BOOLEAN
  /\ remaining \in Seq(Nat)
  /\ buf \in [HmacIds -> Seq(Nat)]
  /\ key_block = [s \in HmacIds |-> key_block[s]]
  /\ asked \in [HmacIds -> [key : Seq(Nat), message : Seq(Nat)]]
  /\ hw.words \in Seq(Word) /\ hw.mode \in {"hash", "hmac"}
  /\ hw = [mode |-> hw.mode, inner |-> hw.inner, words |-> hw.words, intact |-> TRUE]

UserInv ==
  /\ user = {} \/ \E u \in Ids \cup {"abandoned"} : user = {u}
  /\ user \cap HmacIds \subseteq live
  /\ user = {} /\ pc # "sha256_of" => hw.words = << >>

\* While a long key is hashed no HMAC computation has blocks in the peripheral.
KeyInv ==
  pc = "sha256_of" =>
    /\ cur \notin live
    /\ user \cap HmacIds = {}
    /\ asked[cur].message = << >>
    /\ Len(asked[cur].key) > SHA2SHORT_BLOCK_SIZE
    /\ HashContext(instance)
    /\ Bytes(WordsOf(instance), 0) \o remaining = asked[cur].key

StatesInv ==
  /\ \A s \in HmacIds \cap live : HmacState(s)
  /\ \A s \in HmacIds \ live : context[s] = {} /\ buf[s] = << >>
  /\ pc = "hmac_update" => /\ cur \in live
                           /\ user \subseteq {cur}
                           /\ wrote_blocks => context[cur] = {}

HmacInv ==
  /\ HmacTypes
  /\ UserInv
  /\ KeyInv
  /\ StatesInv
  /\ panicked \in BOOLEAN
  /\ ~DEBUG_ASSERTIONS => ~panicked

-----------------------------------------------------------------------------
(* Quotients and remainders *)

\* The quotient and the remainder of a number.
LEMMA Divided ==
  ASSUME NEW H \in Nat \ {0}, NEW a \in Nat
  PROVE  /\ a \div H \in Nat /\ a % H \in 0 .. H - 1
         /\ a = (a \div H) * H + (a % H)
<1>1. a % H = a - H * (a \div H)
  BY Z3
<1>2. a \div H \in Nat /\ a % H \in 0 .. H - 1
  OBVIOUS
<1>3. H * (a \div H) = (a \div H) * H
  BY <1>2
<1> QED
  BY <1>1, <1>2, <1>3

\* They are determined by any quotient that leaves a remainder in range.
LEMMA Division ==
  ASSUME NEW H \in Nat \ {0}, NEW b \in Nat, NEW r \in 0 .. H - 1
  PROVE  (b * H + r) \div H = b /\ (b * H + r) % H = r
<1> DEFINE a == b * H + r
           q == a \div H
           m == a % H
<1>1. a \in Nat
  OBVIOUS
<1>a. a = b * H + r
  OBVIOUS
<1> HIDE DEF a
<1>2. q \in Nat /\ m \in 0 .. H - 1 /\ a = q * H + m
  BY <1>1, Divided
<1> HIDE DEF q, m
<1>3. (q - b) * H = q * H - b * H /\ (b - q) * H = b * H - q * H
      /\ q * H \in Int /\ b * H \in Int
  BY <1>2
<1>4. \A k \in Int : k >= 1 => k * H >= H
  OBVIOUS
<1>5. ~(q - b >= 1)
  BY <1>a, <1>2, <1>3, <1>4
<1>6. ~(b - q >= 1)
  BY <1>a, <1>2, <1>3, <1>4
<1>7. q = b
  BY <1>2, <1>5, <1>6
<1>8. m = r
  BY <1>a, <1>2, <1>3, <1>7
<1> QED
  BY <1>7, <1>8 DEF q, m, a

\* The quotient of what is below a multiple.
LEMMA QuotientBelow ==
  ASSUME NEW H \in Nat \ {0}, NEW a \in Nat, NEW n \in Nat, a < n * H
  PROVE  a \div H < n
<1> DEFINE q == a \div H
<1>1. q \in Nat /\ q * H <= a
  BY Divided
<1> HIDE DEF q
<1>2. SUFFICES ASSUME q >= n PROVE FALSE
  BY <1>1 DEF q
<1>3. (q - n) * H >= 0 /\ (q - n) * H = q * H - n * H
      /\ q * H \in Int /\ n * H \in Int
  BY <1>1, <1>2
<1> QED
  BY <1>1, <1>3

\* As many words as n bytes take, of which the last may be partial.
LEMMA WordsForBytes ==
  ASSUME NEW n \in Nat
  PROVE  LET p == (n + (WORD_SIZE - 1)) \div WORD_SIZE
         IN  /\ p \in Nat
             /\ p * WORD_SIZE
                  - (IF n % WORD_SIZE = 0 THEN 0 ELSE WORD_SIZE - (n % WORD_SIZE)) = n
             /\ n % WORD_SIZE = 0 => p = n \div WORD_SIZE
<1> DEFINE H == WORD_SIZE
           p == (n + (H - 1)) \div H
           q == n \div H
           m == n % H
<1>0. H \in Nat \ {0}
  BY PeripheralAssumption
<1> HIDE DEF H
<1>1. q \in Nat /\ m \in 0 .. H - 1 /\ n = q * H + m
  BY <1>0, Divided
<1> HIDE DEF q, m
<1>2. CASE m = 0
  <2>1. n + (H - 1) = q * H + (H - 1) /\ H - 1 \in 0 .. H - 1
    BY <1>0, <1>1, <1>2
  <2>2. p = q
    BY <1>0, <1>1, <2>1, Division
  <2> HIDE DEF p
  <2>3. p * H - 0 = n
    BY <1>0, <1>1, <1>2, <2>2
  <2> QED
    BY <1>1, <1>2, <2>2, <2>3 DEF p, q, m, H
<1>3. CASE m # 0
  <2>1. n + (H - 1) = (q + 1) * H + (m - 1) /\ m - 1 \in 0 .. H - 1 /\ q + 1 \in Nat
    <3>1. (q + 1) * H = q * H + H /\ q * H \in Int
      BY <1>0, <1>1
    <3> HIDE DEF p
    <3> QED
      BY <1>0, <1>1, <1>3, <3>1
  <2>2. p = q + 1
    BY <1>0, <2>1, Division
  <2> HIDE DEF p
  <2>3. p * H - (H - m) = n
    <3>1. p * H = q * H + H /\ q * H \in Int
      BY <1>0, <1>1, <2>2
    <3> QED
      BY <1>0, <1>1, <3>1
  <2> QED
    BY <1>1, <1>3, <2>2, <2>3 DEF p, q, m, H
<1> QED
  BY <1>2, <1>3

-----------------------------------------------------------------------------
(* Bytes and words *)

\* A function on 1 .. n is a sequence of length n.
LEMMA FunctionIsSeq ==
  ASSUME NEW S, NEW n \in Nat, NEW f \in [1 .. n -> S]
  PROVE  f \in Seq(S) /\ Len(f) = n
<1>1. f \in Seq(S)
  BY SeqDef
<1> QED
  BY <1>1, LenProperties

\* The words written at the end are words.
LEMMA PaddedWordsAreWords ==
  ASSUME NEW d \in Seq(Nat)
  PROVE  /\ PaddedWords(d) \in Seq(Word)
         /\ Len(PaddedWords(d)) = (Len(d) + (WORD_SIZE - 1)) \div WORD_SIZE
         /\ \A k \in 1 .. Len(PaddedWords(d)) : \A j \in 1 .. WORD_SIZE :
              PaddedWords(d)[k][j] = LET i == (k - 1) * WORD_SIZE + j
                                     IN  IF i <= Len(d) THEN d[i] ELSE 0
<1> DEFINE H == WORD_SIZE
           p == (Len(d) + (H - 1)) \div H
           At(k, j) == LET i == (k - 1) * H + j IN IF i <= Len(d) THEN d[i] ELSE 0
           P == [k \in 1 .. p |-> [j \in 1 .. H |-> At(k, j)]]
<1>0. H \in Nat \ {0} /\ Len(d) \in Nat
  BY PeripheralAssumption, LenProperties
<1>1. p \in Nat
  BY <1>0, WordsForBytes
<1>2. P = PaddedWords(d)
  BY DEF PaddedWords
<1>3. ASSUME NEW k \in 1 .. p, NEW j \in 1 .. H PROVE At(k, j) \in Nat
  <2> DEFINE i == (k - 1) * H + j
  <2>1. k - 1 \in Nat /\ j \in Nat /\ j >= 1
    BY <1>0, <1>1, <1>3
  <2>2. (k - 1) * H \in Nat
    BY <1>0, <2>1
  <2>3. i \in Nat /\ i >= 1
    BY <2>1, <2>2
  <2> HIDE DEF i
  <2>4. (IF i <= Len(d) THEN d[i] ELSE 0) \in Nat
    BY <1>0, <2>3, ElementOfSeq
  <2> QED
    BY <2>4 DEF i
<1> HIDE DEF At, p
<1>4. ASSUME NEW k \in 1 .. p PROVE P[k] \in Word
  <2>1. [j \in 1 .. H |-> At(k, j)] \in [1 .. H -> Nat]
    BY <1>3
  <2> QED
    BY <1>4, <2>1 DEF Word
<1>5. P \in [1 .. p -> Word]
  BY <1>4
<1>6. \A k \in 1 .. p : \A j \in 1 .. H : P[k][j] = At(k, j)
  OBVIOUS
<1> HIDE DEF P
<1>7. P \in Seq(Word) /\ Len(P) = p
  BY <1>1, <1>5, FunctionIsSeq
<1> QED
  BY <1>2, <1>6, <1>7 DEF At, p, H

\* Of whole words only, nothing is padded.
LEMMA FullWordsArePadded ==
  ASSUME NEW d \in Seq(Nat), Len(d) % WORD_SIZE = 0
  PROVE  FullWords(d) = PaddedWords(d) /\ Len(PaddedWords(d)) * WORD_SIZE = Len(d)
<1> DEFINE H == WORD_SIZE
           n == Len(d)
           p == n \div H
<1>0. H \in Nat \ {0} /\ n \in Nat
  BY PeripheralAssumption, LenProperties
<1>1. p \in Nat /\ p * H = n /\ (n + (H - 1)) \div H = p
  <2>1. p \in Nat /\ n = p * H + (n % H)
    BY <1>0, Divided
  <2>2. (n + (H - 1)) \div H = p
    BY <1>0, WordsForBytes
  <2>3. p * H \in Nat
    BY <1>0, <2>1
  <2> QED
    BY <2>1, <2>2, <2>3
<1>2. ASSUME NEW k \in 1 .. p
      PROVE  SubSeq(d, (k - 1) * H + 1, k * H)
               = [j \in 1 .. H |-> LET i == (k - 1) * H + j IN IF i <= n THEN d[i] ELSE 0]
  <2> DEFINE a == (k - 1) * H
             b == k * H
  <2>1. k \in Nat /\ k >= 1 /\ k <= p /\ k - 1 \in Nat
    BY <1>1, <1>2
  <2>2. a \in Nat /\ b = a + H
    BY <1>0, <2>1
  <2>3. b <= n
    <3>1. (p - k) * H >= 0 /\ (p - k) * H = p * H - k * H /\ k * H \in Int
      BY <1>0, <1>1, <2>1
    <3> QED
      BY <1>0, <1>1, <3>1
  <2> HIDE DEF a, b, n, p
  <2>4. SubSeq(d, a + 1, b) = [j \in 1 .. H |-> d[a + j]]
    <3>1. \A i \in a + 1 .. b : i \in 1 .. Len(d)
      BY <1>0, <2>2, <2>3 DEF n
    <3>2. \A i \in a + 1 .. b : d[i] \in Nat
      BY <3>1, ElementOfSeq
    <3>3. a + 1 \in Int /\ b \in Int /\ a + 1 <= b /\ b - (a + 1) + 1 = H
      BY <1>0, <2>2
    <3>4. /\ SubSeq(d, a + 1, b) \in Seq(Nat) /\ Len(SubSeq(d, a + 1, b)) = H
          /\ \A j \in 1 .. H : SubSeq(d, a + 1, b)[j] = d[(a + 1) + j - 1]
      BY <3>2, <3>3, SubSeqProperties
    <3>5. \A j \in 1 .. H : (a + 1) + j - 1 = a + j
      BY <1>0, <2>2
    <3>6. SubSeq(d, a + 1, b) \in [1 .. H -> Nat]
      BY <3>4, LenProperties
    <3> QED
      BY <3>4, <3>5, <3>6
  <2>5. \A j \in 1 .. H : a + j <= n
    BY <1>0, <2>2, <2>3
  <2> QED
    BY <2>4, <2>5 DEF a, b
<1> HIDE DEF p
<1>3. FullWords(d) = [k \in 1 .. p |-> SubSeq(d, (k - 1) * H + 1, k * H)]
  BY DEF FullWords, p
<1>4. PaddedWords(d) = [k \in 1 .. p |-> [j \in 1 .. H |->
                          LET i == (k - 1) * H + j IN IF i <= n THEN d[i] ELSE 0]]
  BY <1>1 DEF PaddedWords
<1>5. Len(PaddedWords(d)) = p
  BY <1>1, PaddedWordsAreWords
<1> QED
  BY <1>1, <1>2, <1>3, <1>4, <1>5

\* The bytes of whole words are bytes.
LEMMA BytesAreBytes ==
  ASSUME NEW words \in Seq(Word)
  PROVE  /\ Bytes(words, 0) \in Seq(Nat) /\ Len(Bytes(words, 0)) = Len(words) * WORD_SIZE
         /\ \A i \in 1 .. Len(words) * WORD_SIZE :
              Bytes(words, 0)[i]
                = words[((i - 1) \div WORD_SIZE) + 1][((i - 1) % WORD_SIZE) + 1]
<1> DEFINE H == WORD_SIZE
           n == Len(words)
           At(i) == words[((i - 1) \div H) + 1][((i - 1) % H) + 1]
           F == [i \in 1 .. n * H |-> At(i)]
<1>0. H \in Nat \ {0} /\ n \in Nat
  BY PeripheralAssumption, LenProperties
<1>1. n * H \in Nat /\ n * H - 0 = n * H
  BY <1>0
<1>2. Bytes(words, 0) = F
  BY <1>1 DEF Bytes
<1>3. ASSUME NEW i \in 1 .. n * H PROVE At(i) \in Nat
  <2>1. i - 1 \in Nat /\ i - 1 < n * H
    BY <1>1, <1>3
  <2>2. (i - 1) \div H \in Nat /\ (i - 1) % H \in 0 .. H - 1
    BY <1>0, <2>1, Divided
  <2>3. (i - 1) \div H < n
    BY <1>0, <2>1, QuotientBelow
  <2> DEFINE q == (i - 1) \div H
             r == (i - 1) % H
  <2> HIDE DEF q, r
  <2>4. q + 1 \in 1 .. n /\ r + 1 \in 1 .. H
    BY <1>0, <2>2, <2>3 DEF q, r
  <2>5. words[q + 1] \in Word
    BY <2>4, ElementOfSeq
  <2>6. words[q + 1][r + 1] \in Nat
    BY <2>4, <2>5 DEF Word
  <2> QED
    BY <2>6 DEF q, r
<1> HIDE DEF At
<1>4. F \in [1 .. n * H -> Nat]
  BY <1>3
<1>5. \A i \in 1 .. n * H : F[i] = At(i)
  OBVIOUS
<1> HIDE DEF F
<1>6. F \in Seq(Nat) /\ Len(F) = n * H
  BY <1>1, <1>4, FunctionIsSeq
<1> QED
  BY <1>2, <1>5, <1>6 DEF At

\* What the peripheral makes of words, and of the bytes written behind them.
LEMMA BytesAppend ==
  ASSUME NEW words \in Seq(Word), NEW d \in Seq(Nat)
  PROVE  /\ words \o PaddedWords(d) \in Seq(Word)
         /\ Bytes(words \o PaddedWords(d), Len(d) % WORD_SIZE) = Bytes(words, 0) \o d
<1> DEFINE H == WORD_SIZE
           n == Len(words)
           P == PaddedWords(d)
           p == Len(P)
           V == words \o P
           x == IF Len(d) % H = 0 THEN 0 ELSE H - (Len(d) % H)
           At(i) == V[((i - 1) \div H) + 1][((i - 1) % H) + 1]
           total == n * H + Len(d)
           R == Bytes(words, 0) \o d
<1>0. H \in Nat \ {0} /\ n \in Nat /\ Len(d) \in Nat
  BY PeripheralAssumption, LenProperties
<1>1. /\ P \in Seq(Word) /\ p = (Len(d) + (H - 1)) \div H
      /\ \A k \in 1 .. p : \A j \in 1 .. H :
           P[k][j] = LET i == (k - 1) * H + j IN IF i <= Len(d) THEN d[i] ELSE 0
  BY PaddedWordsAreWords
<1> HIDE DEF P
<1>2. p \in Nat /\ p * H - x = Len(d)
  BY <1>0, <1>1, WordsForBytes
<1>3. /\ V \in Seq(Word) /\ Len(V) = n + p
      /\ \A k \in 1 .. n + p : V[k] = IF k <= n THEN words[k] ELSE P[k - n]
  BY <1>1, ConcatProperties
<1> HIDE DEF V
<1>4. x \in Nat /\ Len(d) <= p * H /\ Len(V) * H - x = total /\ total \in Nat
  <2>1. x \in Nat
    BY <1>0, Divided
  <2>2. (n + p) * H = n * H + p * H /\ n * H \in Nat /\ p * H \in Nat
    BY <1>0, <1>2
  <2> DEFINE A == n * H
             C == p * H
  <2>3. A \in Nat /\ C \in Nat /\ Len(V) * H = A + C /\ C - x = Len(d) /\ total = A + Len(d)
    BY <1>2, <1>3, <2>2
  <2> HIDE DEF x, A, C, total
  <2>4. Len(d) <= C /\ Len(V) * H - x = total /\ total \in Nat
    BY <1>0, <2>1, <2>3
  <2> QED
    BY <2>1, <2>4 DEF C
<1>5. Bytes(V, Len(d) % H) = [i \in 1 .. total |-> At(i)]
  <2>1. Bytes(V, Len(d) % H) = [i \in 1 .. Len(V) * H - x |-> At(i)]
    BY DEF Bytes
  <2> QED
    BY <1>4, <2>1
<1>6. /\ R \in Seq(Nat) /\ Len(R) = total
      /\ \A i \in 1 .. total : R[i] = IF i <= n * H THEN Bytes(words, 0)[i] ELSE d[i - n * H]
  <2> DEFINE B0 == Bytes(words, 0)
  <2>1. B0 \in Seq(Nat) /\ Len(B0) = n * H
    BY BytesAreBytes
  <2> HIDE DEF B0
  <2>2. /\ B0 \o d \in Seq(Nat) /\ Len(B0 \o d) = Len(B0) + Len(d)
        /\ \A i \in 1 .. Len(B0) + Len(d) :
             (B0 \o d)[i] = IF i <= Len(B0) THEN B0[i] ELSE d[i - Len(B0)]
    BY <2>1, ConcatProperties
  <2> QED
    BY <2>1, <2>2 DEF B0
<1> HIDE DEF R, x, total
<1>7. ASSUME NEW i \in 1 .. total PROVE At(i) = R[i]
  <2>0. i \in Nat /\ i >= 1 /\ i <= total /\ i - 1 \in Nat /\ n * H \in Nat
    BY <1>0, <1>4, <1>7
  <2>1. CASE i <= n * H
    <3> DEFINE q == (i - 1) \div H
               r == (i - 1) % H
    <3>0. i - 1 < n * H
      BY <2>0, <2>1
    <3>1. q \in Nat /\ q < n
      BY <1>0, <2>0, <3>0, Divided, QuotientBelow
    <3> HIDE DEF q, r
    <3>2. V[q + 1] = words[q + 1]
      BY <1>0, <1>2, <1>3, <3>1
    <3>3. At(i) = V[q + 1][r + 1]
      BY DEF q, r
    <3>4. R[i] = words[q + 1][r + 1]
      BY <1>6, <2>0, <2>1, BytesAreBytes DEF q, r
    <3> QED
      BY <3>2, <3>3, <3>4
  <2>2. CASE i > n * H
    <3> DEFINE e == i - n * H
               q == (e - 1) \div H
               r == (e - 1) % H
    <3>1. e \in 1 .. Len(d) /\ e - 1 \in Nat /\ e - 1 < p * H /\ p * H \in Nat
      BY <1>0, <1>2, <1>4, <2>0, <2>2 DEF total
    <3>2. i - 1 = n * H + (e - 1)
      BY <2>0
    <3> HIDE DEF e
    <3>3. q \in Nat /\ r \in 0 .. H - 1 /\ e - 1 = q * H + r /\ q < p
      BY <1>0, <1>2, <3>1, Divided, QuotientBelow
    <3> HIDE DEF q, r
    <3>4. i - 1 = (n + q) * H + r /\ n + q \in Nat
      <4> DEFINE nH == n * H
                 qH == q * H
      <4>1. (n + q) * H = nH + qH /\ qH \in Nat /\ nH \in Nat /\ n + q \in Nat
        BY <1>0, <3>3
      <4>2. i - 1 = nH + (e - 1) /\ e - 1 = qH + r /\ r \in Int
        BY <3>2, <3>3, <1>0
      <4> HIDE DEF nH, qH
      <4>3. i - 1 = (nH + qH) + r
        BY <4>1, <4>2
      <4> QED
        BY <4>1, <4>3
    <3>5. (i - 1) \div H = n + q /\ (i - 1) % H = r
      BY <1>0, <3>3, <3>4, Division
    <3>6. V[n + q + 1] = P[q + 1] /\ q + 1 \in 1 .. p /\ r + 1 \in 1 .. H
      BY <1>0, <1>2, <1>3, <3>3
    <3>7. ((q + 1) - 1) * H + (r + 1) = e
      <4>1. (q + 1) - 1 = q /\ q * H \in Nat
        BY <1>0, <3>3
      <4> QED
        BY <1>0, <3>1, <3>3, <4>1
    <3>8. P[q + 1][r + 1] = d[e]
      <4>1. P[q + 1][r + 1] = LET k == ((q + 1) - 1) * H + (r + 1)
                              IN  IF k <= Len(d) THEN d[k] ELSE 0
        BY <1>1, <3>6
      <4>2. e <= Len(d)
        BY <3>1
      <4> QED
        BY <3>7, <4>1, <4>2
    <3>9. At(i) = d[e]
      BY <3>5, <3>6, <3>8
    <3>10. R[i] = d[e]
      BY <1>6, <2>0, <2>2 DEF e
    <3> QED
      BY <3>9, <3>10
  <2> QED
    BY <2>0, <2>1, <2>2
<1> HIDE DEF At
<1>8. R = [i \in 1 .. total |-> R[i]]
  BY <1>6, LenProperties
<1>9. Bytes(V, Len(d) % H) = R
  BY <1>5, <1>7, <1>8
<1> QED
  BY <1>3, <1>9 DEF V, P, R

\* The same for whole words.
LEMMA BytesAppendFull ==
  ASSUME NEW words \in Seq(Word), NEW d \in Seq(Nat), Len(d) % WORD_SIZE = 0
  PROVE  /\ words \o FullWords(d) \in Seq(Word)
         /\ FullWords(d) \in Seq(Word)
         /\ Len(words \o FullWords(d)) = Len(words) + Len(FullWords(d))
         /\ Len(FullWords(d)) * WORD_SIZE = Len(d)
         /\ Bytes(words \o FullWords(d), 0) = Bytes(words, 0) \o d
BY BytesAppend, FullWordsArePadded, PaddedWordsAreWords, ConcatProperties

-----------------------------------------------------------------------------
(* Where the core can be suspended *)

\* At such a place NBWE asks for what Room says, and a context is sound.
LEMMA LevelOfWords ==
  ASSUME NEW words, Suspendable(words), NEW h, h.words = words
  PROVE  /\ Nbwe(h) * WORD_SIZE = Room(words)
         /\ Pausable(h)
         /\ Room(words) \in Nat /\ Room(words) > 0
         /\ Room(words) <= FIRST_CHUNK_SIZE
         /\ Room(words) <= HMAC_MAX_BLOCK_SIZE
<1> DEFINE n == Len(words)
           B == BLOCK_WORDS
<1>0. /\ B \in Nat \ {0} /\ WORD_SIZE \in Nat \ {0} /\ n \in Nat
      /\ HMAC_MAX_BLOCK_SIZE \in Nat /\ FIRST_CHUNK_SIZE <= HMAC_MAX_BLOCK_SIZE
  BY PeripheralAssumption, LenProperties DEF Suspendable, Word
<1>1. /\ B * WORD_SIZE \in Nat /\ B * WORD_SIZE > 0
      /\ (B + 1) * WORD_SIZE = B * WORD_SIZE + WORD_SIZE
  <2> HIDE DEF B
  <2> QED
    BY <1>0
<1>2. FIRST_CHUNK_SIZE = (B + 1) * WORD_SIZE /\ SHA2SHORT_BLOCK_SIZE = B * WORD_SIZE
  BY DEF FIRST_CHUNK_SIZE, SHA2SHORT_BLOCK_SIZE
<1>3. /\ Room(words) \in Nat /\ Room(words) > 0
      /\ Room(words) <= FIRST_CHUNK_SIZE
      /\ Room(words) <= HMAC_MAX_BLOCK_SIZE
  <2> DEFINE b == B * WORD_SIZE
  <2>1. b \in Nat /\ b > 0 /\ FIRST_CHUNK_SIZE = b + WORD_SIZE /\ SHA2SHORT_BLOCK_SIZE = b
    BY <1>1, <1>2
  <2> HIDE DEF b
  <2> QED
    BY <1>0, <2>1 DEF Room
<1>4. Nbwe(h) * WORD_SIZE = Room(words) /\ Pausable(h)
  <2>1. CASE words = << >>
    <3>1. n = 0 /\ n <= B /\ (B + 1) - n = B + 1
      BY <1>0, <2>1
    <3> QED
      BY <1>2, <2>1, <3>1 DEF Nbwe, Pausable, Room
  <2>2. CASE words # << >>
    <3>1. n > B /\ (n - 1) % B = 0
      BY <2>2 DEF Suspendable
    <3>2. ~(n <= B) /\ B - 0 = B
      BY <1>0, <3>1
    <3> QED
      BY <1>2, <2>2, <3>1, <3>2 DEF Nbwe, Pausable, Room
  <2> QED
    BY <2>1, <2>2
<1> QED
  BY <1>3, <1>4

\* Whole chunks lead from such a place to another one.
LEMMA ChunksSuspend ==
  ASSUME NEW words, Suspendable(words), NEW d \in Seq(Nat), NEW k \in Nat,
         Len(d) = Room(words) + k * SHA2SHORT_BLOCK_SIZE
  PROVE  /\ Len(d) % WORD_SIZE = 0
         /\ Suspendable(words \o FullWords(d))
         /\ words \o FullWords(d) # << >>
<1> DEFINE n == Len(words)
           B == BLOCK_WORDS
           H == WORD_SIZE
           m == IF words = << >> THEN (B + 1) + k * B ELSE B + k * B
           W == words \o FullWords(d)
<1>0. B \in Nat \ {0} /\ H \in Nat \ {0} /\ n \in Nat /\ words \in Seq(Word)
  BY PeripheralAssumption, LenProperties DEF Suspendable
<1>1. k * B \in Nat /\ m \in Nat
  BY <1>0
<1>2. Len(d) = m * H
  <2>1. k * (B * H) = (k * B) * H /\ (B + k * B) * H = B * H + (k * B) * H
        /\ ((B + 1) + k * B) * H = (B + 1) * H + (k * B) * H
    <3> HIDE DEF B, H
    <3> QED
      BY <1>0, <1>1
  <2> QED
    BY <2>1 DEF Room, FIRST_CHUNK_SIZE, SHA2SHORT_BLOCK_SIZE
<1> HIDE DEF B, H, m
<1>3. Len(d) % H = 0
  <2>1. m * H + 0 = m * H /\ 0 \in 0 .. H - 1
    BY <1>0, <1>1
  <2> QED
    BY <1>0, <1>1, <1>2, <2>1, Division
<1>4. /\ FullWords(d) \in Seq(Word) /\ Len(FullWords(d)) * H = m * H
      /\ W \in Seq(Word) /\ Len(W) = n + Len(FullWords(d))
  BY <1>0, <1>2, <1>3, BytesAppendFull DEF H
<1>5. Len(FullWords(d)) = m
  <2>1. Len(FullWords(d)) \in Nat
    BY <1>4, LenProperties
  <2> DEFINE l == Len(FullWords(d))
  <2> HIDE DEF l
  <2>2. (l * H + 0) \div H = l /\ (m * H + 0) \div H = m
    BY <1>0, <1>1, <2>1, Division DEF l
  <2>3. l * H + 0 = m * H + 0
    BY <1>4 DEF l
  <2> QED
    BY <2>2, <2>3 DEF l
<1> HIDE DEF W
<1>6. Len(W) > B /\ (Len(W) - 1) % B = 0
  <2>1. CASE words = << >>
    <3>1. n = 0 /\ Len(W) - 1 = (1 + k) * B + 0 /\ Len(W) > B
      <4>1. n = 0 /\ m = (B + 1) + k * B
        BY <2>1 DEF m
      <4>2. (1 + k) * B = B + k * B
        BY <1>0
      <4> QED
        BY <1>0, <1>1, <1>4, <1>5, <4>1, <4>2
    <3>2. 1 + k \in Nat /\ 0 \in 0 .. B - 1
      BY <1>0
    <3>3. ((1 + k) * B + 0) % B = 0
      BY <1>0, <3>2, Division
    <3> QED
      BY <3>1, <3>3
  <2>2. CASE words # << >>
    <3> DEFINE t == (n - 1) \div B
    <3>1. n > B /\ (n - 1) % B = 0
      BY <2>2 DEF Suspendable, B
    <3>2. n - 1 \in Nat
      BY <1>0, <3>1
    <3>3. t \in Nat /\ n - 1 = t * B + 0
      BY <1>0, <3>1, <3>2, Divided
    <3> HIDE DEF t
    <3>4. Len(W) - 1 = (t + 1 + k) * B + 0 /\ Len(W) > B
      <4>1. m = B + k * B
        BY <2>2 DEF m
      <4>2. (t + 1 + k) * B = t * B + B + k * B /\ t * B \in Nat
        BY <1>0, <3>3
      <4> DEFINE tb == t * B
                 kb == k * B
      <4>3. /\ tb \in Nat /\ kb \in Nat /\ n - 1 = tb /\ m = B + kb
            /\ (t + 1 + k) * B = tb + B + kb /\ Len(W) = n + m
        BY <1>0, <1>1, <1>4, <1>5, <3>3, <4>1, <4>2
      <4> HIDE DEF tb, kb
      <4> QED
        BY <1>0, <3>1, <4>3
    <3>5. t + 1 + k \in Nat /\ 0 \in 0 .. B - 1
      BY <1>0, <3>3
    <3>6. ((t + 1 + k) * B + 0) % B = 0
      BY <1>0, <3>5, Division
    <3> QED
      BY <3>4, <3>6
  <2> QED
    BY <2>1, <2>2
<1>7. W # << >>
  BY <1>0, <1>6
<1> QED
  BY <1>3, <1>4, <1>6, <1>7 DEF Suspendable, W, B, H

\* The empty sequence of words stands for the empty message.
LEMMA NoWords ==
  /\ Suspendable(<< >>)
  /\ Bytes(<< >>, 0) = << >>
<1>1. << >> \in Seq(Word) /\ Len(<< >>) = 0
  OBVIOUS
<1>2. Bytes(<< >>, 0) \in Seq(Nat) /\ Len(Bytes(<< >>, 0)) = 0 * WORD_SIZE
  BY <1>1, BytesAreBytes
<1>3. 0 * WORD_SIZE = 0
  BY PeripheralAssumption
<1> QED
  BY <1>1, <1>2, <1>3, EmptySeq DEF Suspendable

-----------------------------------------------------------------------------
(* Operations on the peripheral *)

\* Assignments to fields of the peripheral's record.
LEMMA FieldsAssigned ==
  ASSUME NEW m, NEW k, NEW w, NEW i, NEW x, NEW r,
         r = [mode |-> m, inner |-> k, words |-> w, intact |-> i]
  PROVE  /\ [r EXCEPT !.words = x] = [mode |-> m, inner |-> k, words |-> x, intact |-> i]
         /\ [r EXCEPT !.mode = x] = [mode |-> x, inner |-> k, words |-> w, intact |-> i]
         /\ [r EXCEPT !.intact = x] = [mode |-> m, inner |-> k, words |-> w, intact |-> x]
         /\ [r EXCEPT !.inner = x] = [mode |-> m, inner |-> x, words |-> w, intact |-> i]
<1>1. [r EXCEPT !.words = x] = [mode |-> m, inner |-> k, words |-> x, intact |-> i]
  OBVIOUS
<1>2. [r EXCEPT !.mode = x] = [mode |-> x, inner |-> k, words |-> w, intact |-> i]
  OBVIOUS
<1>3. [r EXCEPT !.intact = x] = [mode |-> m, inner |-> k, words |-> w, intact |-> x]
  OBVIOUS
<1>4. [r EXCEPT !.inner = x] = [mode |-> m, inner |-> x, words |-> w, intact |-> i]
  OBVIOUS
<1> QED
  BY <1>1, <1>2, <1>3, <1>4

\* Writing words, saving the context at a place where that is sound, and
\* restoring it, in either mode.
LEMMA CoreSteps ==
  ASSUME NEW key, NEW w, NEW v
  PROVE  /\ Reset("hash") = HashCore(<< >>)
         /\ Reset("hmac") = HmacCore(<< >>, << >>)
         /\ Din(HashCore(w), v) = HashCore(w \o v)
         /\ Din(HmacCore(key, w), v) = HmacCore(key, w \o v)
         /\ Resume(HashCore(w), "hash") = HashCore(w)
         /\ Resume(HmacCore(key, w), "hmac") = HmacCore(key, w)
         /\ KeyTaken(HmacCore(key, w)) = HmacCore(w, << >>)
         /\ Done(HashCore(w)) = HashCore(<< >>)
         /\ Done(HmacCore(key, w)) = HmacCore(key, << >>)
         /\ Suspendable(w) => /\ SaveContext(HashCore(w)) = HashCore(w)
                              /\ SaveContext(HmacCore(key, w)) = HmacCore(key, w)
<1>0. PICK t : t = TRUE
  OBVIOUS
<1>1. /\ \A x : HashCore(x) = [mode |-> "hash", inner |-> << >>, words |-> x, intact |-> t]
      /\ \A k, x : HmacCore(k, x) = [mode |-> "hmac", inner |-> k, words |-> x, intact |-> t]
  BY <1>0, Zenon DEF HashCore, HmacCore
<1>2. /\ HashCore(w).words = w /\ HashCore(w).intact = t
      /\ HmacCore(key, w).words = w /\ HmacCore(key, w).intact = t
  BY <1>1
<1>3. Reset("hash") = HashCore(<< >>) /\ Reset("hmac") = HmacCore(<< >>, << >>)
  BY Zenon DEF Reset, HashCore, HmacCore
<1>4. Din(HashCore(w), v) = HashCore(w \o v) /\ Din(HmacCore(key, w), v) = HmacCore(key, w \o v)
  <2> DEFINE x == w \o v
  <2>1. Din(HashCore(w), v) = [HashCore(w) EXCEPT !.words = x]
    BY <1>2, Zenon DEF Din
  <2>2. Din(HmacCore(key, w), v) = [HmacCore(key, w) EXCEPT !.words = x]
    BY <1>2, Zenon DEF Din
  <2> HIDE DEF x
  <2>3. [HashCore(w) EXCEPT !.words = x] = HashCore(x)
    BY <1>1, FieldsAssigned
  <2>4. [HmacCore(key, w) EXCEPT !.words = x] = HmacCore(key, x)
    BY <1>1, FieldsAssigned
  <2> QED
    BY <2>1, <2>2, <2>3, <2>4, Zenon DEF x
<1>5. Resume(HashCore(w), "hash") = HashCore(w)
  BY <1>1, FieldsAssigned DEF Resume
<1>6. Resume(HmacCore(key, w), "hmac") = HmacCore(key, w)
  BY <1>1, FieldsAssigned DEF Resume
<1>7. KeyTaken(HmacCore(key, w)) = HmacCore(w, << >>)
  <2>1. KeyTaken(HmacCore(key, w)) = [HmacCore(key, w) EXCEPT !.inner = w, !.words = << >>]
    BY <1>2, Zenon DEF KeyTaken
  <2>2. [HmacCore(key, w) EXCEPT !.inner = w, !.words = << >>]
          = [[HmacCore(key, w) EXCEPT !.inner = w] EXCEPT !.words = << >>]
    BY Zenon
  <2>3. [HmacCore(key, w) EXCEPT !.inner = w] = HmacCore(w, w)
    BY <1>1, FieldsAssigned
  <2>4. [HmacCore(w, w) EXCEPT !.words = << >>] = HmacCore(w, << >>)
    BY <1>1, FieldsAssigned
  <2> QED
    BY <2>1, <2>2, <2>3, <2>4, Zenon
<1>8. Done(HashCore(w)) = HashCore(<< >>)
  BY <1>1, FieldsAssigned DEF Done
<1>9. Done(HmacCore(key, w)) = HmacCore(key, << >>)
  BY <1>1, FieldsAssigned DEF Done
<1>10. ASSUME Suspendable(w)
       PROVE  /\ SaveContext(HashCore(w)) = HashCore(w)
              /\ SaveContext(HmacCore(key, w)) = HmacCore(key, w)
  <2>1. Pausable(HashCore(w)) /\ Pausable(HmacCore(key, w))
    BY <1>2, <1>10, LevelOfWords
  <2>2. /\ (HashCore(w).intact /\ Pausable(HashCore(w))) = t
        /\ (HmacCore(key, w).intact /\ Pausable(HmacCore(key, w))) = t
    BY <1>0, <1>2, <2>1, Zenon DEF Pausable
  <2>3. [HashCore(w) EXCEPT !.intact = t] = HashCore(w)
    BY <1>1, FieldsAssigned
  <2>4. [HmacCore(key, w) EXCEPT !.intact = t] = HmacCore(key, w)
    BY <1>1, FieldsAssigned
  <2>5. /\ SaveContext(HashCore(w)) = [HashCore(w) EXCEPT !.intact = t]
        /\ SaveContext(HmacCore(key, w)) = [HmacCore(key, w) EXCEPT !.intact = t]
    BY <2>2, Zenon DEF SaveContext
  <2> QED
    BY <2>3, <2>4, <2>5, Zenon
<1> QED
  BY <1>3, <1>4, <1>5, <1>6, <1>7, <1>8, <1>9, <1>10

\* A context is restored to the words it stands for.
LEMMA Restored ==
  ASSUME NEW ctx, HashContext(ctx)
  PROVE  /\ ReinitAndRestore(ctx) = HashCore(WordsOf(ctx))
         /\ Suspendable(WordsOf(ctx))
<1>1. CASE ctx = {}
  BY <1>1, CoreSteps DEF HashContext, WordsOf, ReinitAndRestore
<1>2. CASE ctx # {}
  <2> DEFINE w == WordsOf(ctx)
  <2>1. w # << >> /\ ctx = {HashCore(w)} /\ Suspendable(w)
    BY <1>2 DEF HashContext
  <2> HIDE DEF w
  <2>2. (CHOOSE c \in ctx : TRUE) = HashCore(w)
    BY <2>1
  <2>3. ReinitAndRestore(ctx) = Resume(HashCore(w), "hash")
    BY <1>2, <2>2 DEF ReinitAndRestore
  <2> QED
    BY <2>1, <2>3, CoreSteps DEF w
<1> QED
  BY <1>1, <1>2

\* The context that a chunk leaves behind.
LEMMA SavedContext ==
  ASSUME NEW w, Suspendable(w), w # << >>
  PROVE  HashContext({HashCore(w)}) /\ WordsOf({HashCore(w)}) = w
<1>1. WordsOf({HashCore(w)}) = w
  <2>1. (CHOOSE c \in {HashCore(w)} : TRUE) = HashCore(w)
    OBVIOUS
  <2>2. HashCore(w).words = w
    BY DEF HashCore
  <2> QED
    BY <2>1, <2>2 DEF WordsOf
<1> QED
  BY <1>1 DEF HashContext

\* Chunks that a context takes.
LEMMA ChunkTaken ==
  ASSUME NEW ctx, HashContext(ctx), NEW d \in Seq(Nat), NEW k \in Nat,
         Len(d) = Room(WordsOf(ctx)) + k * SHA2SHORT_BLOCK_SIZE
  PROVE  LET w == WordsOf(ctx) \o FullWords(d)
             h == Din(ReinitAndRestore(ctx), FullWords(d))
         IN  /\ h = HashCore(w) /\ SaveContext(h) = h
             /\ w \in Seq(Word)
             /\ HashContext({SaveContext(h)}) /\ WordsOf({SaveContext(h)}) = w
             /\ Bytes(w, 0) = Bytes(WordsOf(ctx), 0) \o d
<1> DEFINE u == WordsOf(ctx)
           w == u \o FullWords(d)
           h == Din(ReinitAndRestore(ctx), FullWords(d))
<1>1. ReinitAndRestore(ctx) = HashCore(u) /\ Suspendable(u)
  BY Restored
<1> HIDE DEF u
<1>2. Len(d) % WORD_SIZE = 0 /\ Suspendable(w) /\ w # << >>
  BY <1>1, ChunksSuspend DEF u
<1>3. Bytes(w, 0) = Bytes(u, 0) \o d
  BY <1>1, <1>2, BytesAppendFull DEF Suspendable
<1>4. h = HashCore(w)
  BY <1>1, CoreSteps
<1> HIDE DEF w, h
<1>5. SaveContext(h) = h
  BY <1>2, <1>4, CoreSteps
<1>6. HashContext({h}) /\ WordsOf({h}) = w
  BY <1>2, <1>4, SavedContext
<1>7. w \in Seq(Word)
  BY <1>2 DEF Suspendable
<1> QED
  BY <1>3, <1>4, <1>5, <1>6, <1>7 DEF u, w, h

\* The digest of a context and the bytes written last.
LEMMA DigestTaken ==
  ASSUME NEW ctx, HashContext(ctx), NEW d \in Seq(Nat)
  PROVE  LET h == Din(ReinitAndRestore(ctx), PaddedWords(d))
         IN  /\ h = HashCore(WordsOf(ctx) \o PaddedWords(d))
             /\ HashDigest(h, LastWordBytes(d))
                  = [intact |-> TRUE, message |-> Bytes(WordsOf(ctx), 0) \o d]
<1> DEFINE u == WordsOf(ctx)
           w == u \o PaddedWords(d)
           h == Din(ReinitAndRestore(ctx), PaddedWords(d))
<1>1. ReinitAndRestore(ctx) = HashCore(u) /\ Suspendable(u)
  BY Restored
<1> HIDE DEF u
<1>2. h = HashCore(w)
  BY <1>1, CoreSteps
<1>3. Bytes(w, LastWordBytes(d)) = Bytes(u, 0) \o d
  BY <1>1, BytesAppend DEF Suspendable, LastWordBytes
<1> HIDE DEF w, h
<1>4. h.words = w
  BY <1>2 DEF HashCore
<1>5. h.intact = TRUE
  BY <1>2, Zenon DEF HashCore
<1>6. HashDigest(h, LastWordBytes(d)) = [intact |-> TRUE, message |-> Bytes(u, 0) \o d]
  BY <1>3, <1>4, <1>5 DEF HashDigest
<1> QED
  BY <1>2, <1>6 DEF u, w, h

-----------------------------------------------------------------------------
(* The promise for HashState *)

\* Absorbed and the digests of Contract, as functions of a context and a digest.
AbsorbedOf(ctx) ==
  IF ctx = {} THEN << >>
  ELSE LET c == CHOOSE x \in ctx : TRUE
       IN  IF c.intact THEN Bytes(c.words, 0) ELSE CORRUPT

DigestOf(d) == IF d.intact THEN d.message ELSE CORRUPT

\* The variables of Contract.
absorbedBar == [s \in HashIds |-> Absorbed(s)]
hashedBar == [s \in HashIds |-> {DigestOf(d) : d \in hashed[s]}]

\* What a context has absorbed, and the chunk it takes next.
LEMMA AbsorbedBytes ==
  ASSUME NEW ctx, HashContext(ctx)
  PROVE  /\ AbsorbedOf(ctx) = Bytes(WordsOf(ctx), 0)
         /\ AbsorbedOf(ctx) \in Seq(Nat)
         /\ Contract!ChunkSize(Len(AbsorbedOf(ctx))) = Room(WordsOf(ctx))
<1> DEFINE u == WordsOf(ctx)
<1>1. Suspendable(u) /\ ctx = IF u = << >> THEN {} ELSE {HashCore(u)}
  BY DEF HashContext
<1>2. AbsorbedOf(ctx) = Bytes(u, 0)
  <2>1. CASE u = << >>
    BY <1>1, <2>1, NoWords DEF AbsorbedOf
  <2>2. CASE u # << >>
    <3> HIDE DEF u
    <3>1. ctx # {} /\ (CHOOSE x \in ctx : TRUE) = HashCore(u)
      BY <1>1, <2>2
    <3>2. HashCore(u).words = u
      BY DEF HashCore
    <3>3. HashCore(u).intact = TRUE
      BY Zenon DEF HashCore
    <3> QED
      BY <3>1, <3>2, <3>3 DEF AbsorbedOf
  <2> QED
    BY <2>1, <2>2
<1> HIDE DEF u
<1>3. Bytes(u, 0) \in Seq(Nat) /\ Len(Bytes(u, 0)) = Len(u) * WORD_SIZE
  BY <1>1, BytesAreBytes DEF Suspendable
<1>4. Len(u) * WORD_SIZE = 0 <=> u = << >>
  <2>1. Len(u) \in Nat /\ (Len(u) = 0 <=> u = << >>)
    BY <1>1, EmptySeq, LenProperties DEF Suspendable
  <2> QED
    BY <2>1, PeripheralAssumption
<1>5. Contract!ChunkSize(Len(AbsorbedOf(ctx))) = Room(u)
  <2>1. FIRST_CHUNK_SIZE # 0
    BY PeripheralAssumption DEF FIRST_CHUNK_SIZE
  <2> QED
    BY <1>2, <1>3, <1>4, <2>1 DEF Contract!ChunkSize, Room
<1> QED
  BY <1>2, <1>3, <1>5 DEF u

\* The lengths that update accepts are whole chunks.
LEMMA AcceptedChunks ==
  ASSUME NEW ctx, HashContext(ctx), NEW d \in Seq(Nat),
         Contract!ChunkAccepted(Len(AbsorbedOf(ctx)), Len(d))
  PROVE  \E k \in Nat : Len(d) = Room(WordsOf(ctx)) + k * SHA2SHORT_BLOCK_SIZE
<1> DEFINE R == Room(WordsOf(ctx))
           b == SHA2SHORT_BLOCK_SIZE
           l == Len(d)
<1>0. b \in Nat \ {0} /\ R \in Nat /\ l \in Nat
  <2>1. b \in Nat \ {0}
    BY PeripheralAssumption DEF SHA2SHORT_BLOCK_SIZE
  <2>2. Suspendable(WordsOf(ctx))
    BY DEF HashContext
  <2>3. R \in Nat
    <3> PICK h : h.words = WordsOf(ctx)
      <4> DEFINE hh == [words |-> WordsOf(ctx)]
      <4>1. hh.words = WordsOf(ctx)
        OBVIOUS
      <4> HIDE DEF hh
      <4> QED
        BY <4>1
    <3> QED
      BY <2>2, LevelOfWords
  <2> QED
    BY <2>1, <2>3, LenProperties
<1>1. l = R \/ (l > R /\ (l - R) % b = 0)
  BY AbsorbedBytes DEF Contract!ChunkAccepted
<1> HIDE DEF R, b, l
<1>2. CASE l = R
  <2>1. 0 * b = 0
    BY <1>0
  <2>2. l = R + 0 * b
    BY <1>0, <1>2, <2>1
  <2> QED
    BY <2>2 DEF R, b, l
<1>3. CASE l > R /\ (l - R) % b = 0
  <2> DEFINE k == (l - R) \div b
  <2>1. l - R \in Nat
    BY <1>0, <1>3
  <2>2. k \in Nat /\ l - R = k * b + 0
    BY <1>0, <1>3, <2>1, Divided
  <2> HIDE DEF k
  <2>3. l = R + k * b
    <3>1. k * b \in Nat
      BY <1>0, <2>2
    <3> QED
      BY <1>0, <2>2, <3>1
  <2> QED
    BY <2>2, <2>3 DEF R, b, l
<1> QED
  BY <1>1, <1>2, <1>3

\* One HashState changes: its context to c and its digest to m.
LEMMA HashStateChanges ==
  ASSUME HashInv, NEW s \in HashIds, NEW c, NEW m, HashContext(c),
         context' = [context EXCEPT ![s] = c],
         hashed' = [hashed EXCEPT ![s] = m],
         live' \cap HashIds \subseteq live \cup {s},
         s \in live' => m = {}
  PROVE  /\ HashInv'
         /\ absorbedBar' = [absorbedBar EXCEPT ![s] = Bytes(WordsOf(c), 0)]
         /\ hashedBar' = [hashedBar EXCEPT ![s] = {DigestOf(d) : d \in m}]
<1>0. s \in Ids
  BY DEF Ids
<1>1. /\ context' = [t \in Ids |-> context'[t]] /\ hashed' = [t \in HashIds |-> hashed'[t]]
      /\ context'[s] = c /\ hashed'[s] = m
      /\ \A t \in Ids : t # s => context'[t] = context[t]
      /\ \A t \in HashIds : t # s => hashed'[t] = hashed[t]
  BY <1>0 DEF HashInv
<1>2. \A t \in HashIds : HashContext(context'[t])
  BY <1>1 DEF HashInv, Ids
<1>3. \A t \in HashIds \cap live' : hashed'[t] = {}
  BY <1>1 DEF HashInv
<1>4. HashInv'
  BY <1>1, <1>2, <1>3 DEF HashInv
<1>5. absorbedBar' = [t \in HashIds |-> AbsorbedOf(context'[t])]
  BY DEF absorbedBar, Absorbed, AbsorbedOf
<1>6. absorbedBar = [t \in HashIds |-> AbsorbedOf(context[t])]
  BY DEF absorbedBar, Absorbed, AbsorbedOf
<1>7. AbsorbedOf(c) = Bytes(WordsOf(c), 0)
  BY AbsorbedBytes
<1>8. hashedBar' = [t \in HashIds |-> {DigestOf(d) : d \in hashed'[t]}]
  BY DEF hashedBar
<1>9. \A t \in HashIds : t # s => AbsorbedOf(context'[t]) = AbsorbedOf(context[t])
  BY <1>1 DEF Ids
<1>10. absorbedBar' = [absorbedBar EXCEPT ![s] = Bytes(WordsOf(c), 0)]
  BY <1>1, <1>5, <1>6, <1>7, <1>9
<1>11. hashedBar' = [hashedBar EXCEPT ![s] = {DigestOf(d) : d \in m}]
  BY <1>1, <1>8 DEF hashedBar
<1> QED
  BY <1>4, <1>10, <1>11

\* A step that leaves every HashState alone.
LEMMA HashStatesKept ==
  ASSUME HashInv, hashed' = hashed, live' \cap HashIds \subseteq live,
         context' = [t \in Ids |-> context'[t]],
         \A t \in HashIds : context'[t] = context[t]
  PROVE  HashInv' /\ UNCHANGED Contract!contractVars
<1>1. HashInv'
  BY DEF HashInv
<1>2. absorbedBar' = absorbedBar
  <2>1. absorbedBar' = [t \in HashIds |-> AbsorbedOf(context'[t])]
    BY DEF absorbedBar, Absorbed, AbsorbedOf
  <2>2. absorbedBar = [t \in HashIds |-> AbsorbedOf(context[t])]
    BY DEF absorbedBar, Absorbed, AbsorbedOf
  <2> QED
    BY <2>1, <2>2
<1>3. hashedBar' = hashedBar
  BY DEF hashedBar
<1> QED
  BY <1>1, <1>2, <1>3 DEF Contract!contractVars, absorbedBar, hashedBar, DigestOf

\* init of a HashState.
LEMMA HashInitStep ==
  ASSUME HashInv, NEW s \in HashIds, HashInit(s)
  PROVE  HashInv' /\ Contract!ContractNext
<1>1. HashContext({}) /\ WordsOf({}) = << >>
  BY NoWords DEF HashContext, WordsOf
<1>2. /\ context' = [context EXCEPT ![s] = {}] /\ hashed' = [hashed EXCEPT ![s] = {}]
      /\ live' \cap HashIds \subseteq live \cup {s}
  BY DEF HashInit
<1>3. /\ HashInv' /\ absorbedBar' = [absorbedBar EXCEPT ![s] = << >>]
      /\ hashedBar' = [hashedBar EXCEPT ![s] = {DigestOf(d) : d \in {}}]
  BY <1>1, <1>2, HashStateChanges, NoWords, ZenonT(30)
<1>4. hashedBar' = [hashedBar EXCEPT ![s] = {}]
  BY <1>3
<1>5. Contract!init(s)
  BY <1>3, <1>4 DEF Contract!init, absorbedBar, hashedBar, DigestOf
<1> QED
  BY <1>3, <1>5 DEF Contract!ContractNext

\* clone of a HashState.
LEMMA HashCloneStep ==
  ASSUME HashInv, NEW s \in HashIds, NEW t \in HashIds, HashClone(s, t)
  PROVE  HashInv' /\ Contract!ContractNext
<1>1. HashContext(context[s])
  BY DEF HashInv
<1>2. /\ context' = [context EXCEPT ![t] = context[s]] /\ hashed' = [hashed EXCEPT ![t] = {}]
      /\ live' \cap HashIds \subseteq live \cup {t}
  BY DEF HashClone
<1>3. /\ HashInv' /\ absorbedBar' = [absorbedBar EXCEPT ![t] = Bytes(WordsOf(context[s]), 0)]
      /\ hashedBar' = [hashedBar EXCEPT ![t] = {DigestOf(d) : d \in {}}]
  BY <1>1, <1>2, HashStateChanges
<1>4. hashedBar' = [hashedBar EXCEPT ![t] = {}]
  BY <1>3
<1>5. Bytes(WordsOf(context[s]), 0) = absorbedBar[s]
  BY <1>1, AbsorbedBytes DEF absorbedBar, Absorbed, AbsorbedOf
<1>6. absorbedBar' = [absorbedBar EXCEPT ![t] = absorbedBar[s]]
  BY <1>3, <1>5
<1>7. Contract!clone(s, t)
  BY <1>4, <1>6 DEF Contract!clone, absorbedBar, hashedBar, DigestOf
<1> QED
  BY <1>3, <1>7 DEF Contract!ContractNext

\* update of a HashState, whether the assertion holds or not.
LEMMA HashUpdateStep ==
  ASSUME HashInv, NEW s \in HashIds, NEW d \in Chunks, HashUpdate(s, d)
  PROVE  HashInv' /\ [Contract!ContractNext]_(Contract!contractVars)
<1>1. CASE ~AssertHolds(d)
  <2>1. /\ hashed' = hashed /\ live' = live /\ context' = context
    BY <1>1 DEF HashUpdate, Panic
  <2> QED
    BY <2>1, HashStatesKept DEF HashInv
<1>2. CASE AssertHolds(d)
  <2> DEFINE ctx == context[s]
             h == Din(ReinitAndRestore(ctx), FullWords(d))
  <2>1. HashContext(ctx) /\ d \in Seq(Nat)
    BY CallerAssumption DEF HashInv
  <2>2. /\ hw' = h
        /\ context' = [context EXCEPT ![s] = {SaveContext(hw')}]
        /\ hashed' = hashed /\ live' = live /\ s \in live
    BY <1>2 DEF HashUpdate
  <2>3. absorbedBar[s] = AbsorbedOf(ctx) /\ Absorbed(s) = AbsorbedOf(ctx)
    BY DEF absorbedBar, Absorbed, AbsorbedOf
  <2>4. Contract!ChunkAccepted(Len(AbsorbedOf(ctx)), Len(d))
    BY <2>3 DEF HashUpdate
  <2> HIDE DEF ctx
  <2>5. PICK k \in Nat : Len(d) = Room(WordsOf(ctx)) + k * SHA2SHORT_BLOCK_SIZE
    BY <2>1, <2>4, AcceptedChunks
  <2> DEFINE c == {SaveContext(h)}
  <2>6. HashContext(c) /\ Bytes(WordsOf(c), 0) = Bytes(WordsOf(ctx), 0) \o d
    BY <2>1, <2>5, ChunkTaken
  <2>7. context' = [context EXCEPT ![s] = c]
    BY <2>2
  <2> HIDE DEF c, h
  <2>8. /\ hashed' = [hashed EXCEPT ![s] = hashed[s]] /\ hashed[s] = {}
        /\ live' \cap HashIds \subseteq live \cup {s}
    BY <2>2 DEF HashInv
  <2>9. HashInv' /\ absorbedBar' = [absorbedBar EXCEPT ![s] = Bytes(WordsOf(c), 0)]
    BY <2>6, <2>7, <2>8, HashStateChanges
  <2>10. absorbedBar' = [absorbedBar EXCEPT ![s] = absorbedBar[s] \o d]
    BY <2>1, <2>3, <2>6, <2>9, AbsorbedBytes
  <2>11. hashedBar' = hashedBar
    BY <2>2 DEF hashedBar
  <2>12. Contract!ChunkAccepted(Len(absorbedBar[s]), Len(d))
    BY <2>3, <2>4
  <2>13. Contract!Update(s, d)
    BY <2>10, <2>11, <2>12 DEF Contract!Update, absorbedBar, hashedBar, DigestOf
  <2> QED
    BY <2>9, <2>13 DEF Contract!ContractNext
<1> QED
  BY <1>1, <1>2

\* finalize of a HashState.
LEMMA HashFinalizeStep ==
  ASSUME HashInv, NEW s \in HashIds, NEW d \in Chunks, HashFinalize(s, d)
  PROVE  HashInv' /\ Contract!ContractNext
<1> DEFINE ctx == context[s]
           h == Din(ReinitAndRestore(ctx), PaddedWords(d))
           digest == HashDigest(h, LastWordBytes(d))
           m == {digest}
<1>1. HashContext(ctx) /\ d \in Seq(Nat)
  BY CallerAssumption DEF HashInv
<1>2. /\ hashed' = [hashed EXCEPT ![s] = m]
      /\ context' = context /\ live' = live \ {s}
  BY DEF HashFinalize
<1>3. absorbedBar[s] = AbsorbedOf(ctx) /\ Absorbed(s) = AbsorbedOf(ctx)
  BY DEF absorbedBar, Absorbed, AbsorbedOf
<1>4. Contract!LastChunkAccepted(Len(absorbedBar[s]), Len(d))
  BY <1>3 DEF HashFinalize
<1>5. digest = [intact |-> TRUE, message |-> Bytes(WordsOf(ctx), 0) \o d]
  BY <1>1, DigestTaken
<1>6. context' = [context EXCEPT ![s] = ctx]
  BY <1>2 DEF HashInv
<1> HIDE DEF ctx, digest
<1>7. /\ HashInv' /\ absorbedBar' = [absorbedBar EXCEPT ![s] = Bytes(WordsOf(ctx), 0)]
      /\ hashedBar' = [hashedBar EXCEPT ![s] = {DigestOf(x) : x \in m}]
  <2>1. s \notin live' /\ live' \cap HashIds \subseteq live \cup {s}
    BY <1>2
  <2> HIDE DEF m
  <2> QED
    BY <1>1, <1>2, <1>6, <2>1, HashStateChanges
<1>8. DigestOf(digest) = absorbedBar[s] \o d
  <2>1. digest.message = Bytes(WordsOf(ctx), 0) \o d
    BY <1>5
  <2>2. digest.intact = TRUE
    BY <1>5, Zenon
  <2>3. DigestOf(digest) = digest.message
    BY <2>2 DEF DigestOf
  <2> QED
    BY <1>1, <1>3, <2>1, <2>3, AbsorbedBytes
<1>9. hashedBar' = [hashedBar EXCEPT ![s] = {absorbedBar[s] \o d}]
  <2>1. {DigestOf(x) : x \in m} = {absorbedBar[s] \o d}
    BY <1>8
  <2> QED
    BY <1>7, <2>1
<1>10. absorbedBar' = absorbedBar
  BY <1>2 DEF absorbedBar, Absorbed
<1>11. Contract!Finalize(s, d)
  BY <1>4, <1>9, <1>10
     DEF Contract!Finalize, Contract!finalize, absorbedBar, hashedBar, DigestOf
<1> QED
  BY <1>7, <1>11 DEF Contract!ContractNext

\* A state that goes out of scope: for a HashState this is init, which sets
\* what a dropped state has already.
LEMMA DropStep ==
  ASSUME HashInv, NEW s \in Ids, Drop(s)
  PROVE  HashInv' /\ [Contract!ContractNext]_(Contract!contractVars)
<1>1. context' = [context EXCEPT ![s] = {}] /\ hashed' = hashed /\ live' = live \ {s} /\ s \in live
  BY DEF Drop, Forget
<1>2. CASE s \in HashIds
  <2>1. HashContext({}) /\ WordsOf({}) = << >>
    BY NoWords DEF HashContext, WordsOf
  <2>2. hashed' = [hashed EXCEPT ![s] = {}] /\ live' \cap HashIds \subseteq live \cup {s}
    BY <1>1, <1>2 DEF HashInv
  <2>a. context' = [context EXCEPT ![s] = {}]
    BY <1>1
  <2>3. /\ HashInv' /\ absorbedBar' = [absorbedBar EXCEPT ![s] = << >>]
        /\ hashedBar' = [hashedBar EXCEPT ![s] = {DigestOf(d) : d \in {}}]
    BY <1>2, <2>a, <2>1, <2>2, HashStateChanges, NoWords, ZenonT(30)
  <2>4. hashedBar' = [hashedBar EXCEPT ![s] = {}]
    BY <2>3
  <2>5. Contract!init(s)
    BY <2>3, <2>4 DEF Contract!init, absorbedBar, hashedBar, DigestOf
  <2> QED
    BY <1>2, <2>3, <2>5 DEF Contract!ContractNext
<1>3. CASE s \notin HashIds
  <2>1. \A t \in HashIds : context'[t] = context[t]
    BY <1>1, <1>3 DEF HashInv, Ids
  <2>2. context' = [t \in Ids |-> context'[t]]
    BY <1>1 DEF HashInv
  <2> QED
    BY <1>1, <2>1, <2>2, HashStatesKept
<1> QED
  BY <1>2, <1>3

\* What HMAC computations do leaves every HashState alone.
LEMMA HmacStepsKeepHashes ==
  ASSUME HashInv, NEW s \in HmacIds, cur \in HmacIds,
         \/ \E key \in KeyData : LoadShortKey(s, key) \/ LoadLongKey(s, key)
         \/ \E d \in Chunks : HmacUpdate(s, d)
         \/ HmacFinalize(s)
         \/ \E t \in HmacIds : HmacClone(s, t)
         \/ CallStep
  PROVE  HashInv' /\ UNCHANGED Contract!contractVars
<1>1. /\ hashed' = hashed
      /\ live' = live \/ \E t \in HmacIds : live' = live \cup {t} \/ live' = live \ {t}
  BY DEF LoadShortKey, LoadLongKey, HmacUpdate, HmacFinalize, HmacClone, CallStep, TakeKey,
         Sha256OfUpdate, Sha256OfFinalize, HmacFill, HmacReturn, Panic
<1>2. \/ context' = context
      \/ \E t \in HmacIds : \E c : context' = [context EXCEPT ![t] = c]
  <2> DEFINE Changed == \/ context' = context
                        \/ \E t \in HmacIds : \E c : context' = [context EXCEPT ![t] = c]
  <2>1. ASSUME NEW key, LoadShortKey(s, key) \/ LoadLongKey(s, key) PROVE Changed
    BY <2>1 DEF LoadShortKey, LoadLongKey, TakeKey
  <2>2. ASSUME NEW d, HmacUpdate(s, d) PROVE Changed
    BY <2>2 DEF HmacUpdate
  <2>3. ASSUME HmacFinalize(s) PROVE Changed
    BY <2>3 DEF HmacFinalize, Forget
  <2>4. ASSUME NEW t \in HmacIds, HmacClone(s, t) PROVE Changed
    BY <2>4 DEF HmacClone
  <2>5. ASSUME Sha256OfUpdate PROVE Changed
    BY <2>5 DEF Sha256OfUpdate, Panic
  <2>6. ASSUME Sha256OfFinalize PROVE Changed
    BY <2>6 DEF Sha256OfFinalize, TakeKey
  <2>7. ASSUME HmacFill PROVE Changed
    BY <2>7 DEF HmacFill, Panic
  <2>8. ASSUME HmacReturn PROVE Changed
    BY <2>8 DEF HmacReturn
  <2> QED
    BY <2>1, <2>2, <2>3, <2>4, <2>5, <2>6, <2>7, <2>8 DEF CallStep
<1>3. live' \cap HashIds \subseteq live
  BY <1>1, CallerAssumption
<1>4. /\ context' = [t \in Ids |-> context'[t]]
      /\ \A t \in HashIds : context'[t] = context[t]
  BY <1>2, CallerAssumption DEF HashInv, Ids
<1> QED
  BY <1>1, <1>3, <1>4, HashStatesKept

\* The inductive invariant of the HashStates, with the steps of Contract.
LEMMA HashNext ==
  ASSUME HashInv, cur \in HmacIds, [Next]_vars
  PROVE  HashInv' /\ [Contract!ContractNext]_(Contract!contractVars) /\ cur' \in HmacIds
<1>1. cur' \in HmacIds
  BY DEF Next, vars, callVars, HashInit, HashUpdate, HashFinalize, HashClone, LoadShortKey,
         LoadLongKey, HmacUpdate, HmacFinalize, HmacClone, Drop, CallStep, Sha256OfUpdate,
         Sha256OfFinalize, HmacFill, HmacReturn, Panic
<1>2. CASE UNCHANGED vars
  <2>1. context' = context /\ hashed' = hashed /\ live' = live
    BY <1>2 DEF vars
  <2> QED
    BY <1>1, <2>1, HashStatesKept DEF HashInv
<1>3. ASSUME NEW s \in HashIds,
             \/ HashInit(s)
             \/ \E d \in Chunks : HashUpdate(s, d) \/ HashFinalize(s, d)
             \/ \E t \in HashIds : HashClone(s, t)
      PROVE  HashInv' /\ [Contract!ContractNext]_(Contract!contractVars)
  BY <1>3, HashInitStep, HashUpdateStep, HashFinalizeStep, HashCloneStep
<1>4. ASSUME NEW s \in Ids, Drop(s)
      PROVE  HashInv' /\ [Contract!ContractNext]_(Contract!contractVars)
  BY <1>4, DropStep
<1>5. ASSUME NEW s \in HmacIds,
             \/ \E key \in KeyData : LoadShortKey(s, key) \/ LoadLongKey(s, key)
             \/ \E d \in Chunks : HmacUpdate(s, d)
             \/ HmacFinalize(s)
             \/ \E t \in HmacIds : HmacClone(s, t)
             \/ CallStep
      PROVE  HashInv' /\ [Contract!ContractNext]_(Contract!contractVars)
  BY <1>5, HmacStepsKeepHashes
<1> QED
  BY <1>1, <1>2, <1>3, <1>4, <1>5 DEF Next

\* A HashState takes its chunks at places where the peripheral can be
\* suspended, so that what it saves and restores is its own words: whatever
\* else uses the peripheral in between, in every build.
THEOREM HashStatesSound == Spec => [](HashInv /\ cur \in HmacIds)
<1>1. Init => HashInv /\ cur \in HmacIds
  <2>1. HashContext({})
    BY NoWords DEF HashContext, WordsOf
  <2> QED
    BY <2>1 DEF Init, HashInv, Ids
<1>2. HashInv /\ cur \in HmacIds /\ [Next]_vars => (HashInv /\ cur \in HmacIds)'
  BY HashNext
<1> QED
  BY <1>1, <1>2, PTL DEF Spec

(***************************************************************************)
(* The driver is a Sha2Short back-end, for any number of HashStates and of *)
(* HMAC computations between their calls, in debug and release builds, and *)
(* even where HMAC computations disturb each other.                        *)
(***************************************************************************)
THEOREM DriverKeepsContract == Spec => HashContract
<1>1. Init => Contract!ContractInit
  BY DEF Init, Contract!ContractInit, Absorbed, Ids
<1>2. HashInv /\ cur \in HmacIds /\ [Next]_vars => [Contract!ContractNext]_(Contract!contractVars)
  BY HashNext
<1> QED
  BY <1>1, <1>2, HashStatesSound, PTL DEF Spec, HashContract, Contract!Contract

-----------------------------------------------------------------------------
(* HMAC computations *)

\* Slices of three parts.
LEMMA Regrouped ==
  ASSUME NEW a \in Seq(Nat), NEW b \in Seq(Nat), NEW c \in Seq(Nat)
  PROVE  (a \o b) \o c = a \o (b \o c)
BY ConcatAssociative

\* The part of a slice up to a position, and the rest.
LEMMA SplitAt ==
  ASSUME NEW d \in Seq(Nat), NEW n \in Nat, n <= Len(d)
  PROVE  LET a == SubSeq(d, 1, n)
             b == SubSeq(d, n + 1, Len(d))
         IN  /\ a \in Seq(Nat) /\ Len(a) = n
             /\ b \in Seq(Nat) /\ Len(b) = Len(d) - n
             /\ a \o b = d
<1>0. Len(d) \in Nat
  BY LenProperties
<1>1. \A i \in 1 .. Len(d) : d[i] \in Nat
  BY ElementOfSeq
<1>2. SubSeq(d, 1, n) \in Seq(Nat) /\ Len(SubSeq(d, 1, n)) = n
  <2>1. \A i \in 1 .. n : d[i] \in Nat
    BY <1>0, <1>1
  <2>2. /\ SubSeq(d, 1, n) \in Seq(Nat)
        /\ Len(SubSeq(d, 1, n)) = IF 1 <= n THEN n - 1 + 1 ELSE 0
    BY <2>1, SubSeqProperties
  <2> QED
    BY <2>2
<1>3. SubSeq(d, n + 1, Len(d)) \in Seq(Nat) /\ Len(SubSeq(d, n + 1, Len(d))) = Len(d) - n
  <2>1. \A i \in n + 1 .. Len(d) : d[i] \in Nat
    BY <1>0, <1>1
  <2>2. /\ SubSeq(d, n + 1, Len(d)) \in Seq(Nat)
        /\ Len(SubSeq(d, n + 1, Len(d)))
             = IF n + 1 <= Len(d) THEN Len(d) - (n + 1) + 1 ELSE 0
    BY <1>0, <2>1, SubSeqProperties
  <2> QED
    BY <1>0, <2>2
<1>4. SubSeq(d, 1, n) \o SubSeq(d, n + 1, Len(d)) = SubSeq(d, 1, Len(d))
  <2>1. 1 \in 1 .. Len(d) + 1 /\ n \in 1 - 1 .. Len(d) /\ Len(d) \in n .. Len(d)
    BY <1>0
  <2> QED
    BY <2>1, ConcatAdjacentSubSeq
<1>5. SubSeq(d, 1, Len(d)) = d
  BY SubSeqFull
<1> QED
  BY <1>2, <1>3, <1>4, <1>5

\* The key block is a sequence.
LEMMA KeyIsSeq ==
  ASSUME NEW key \in Seq(Nat)
  PROVE  << >> \o ExpectedKey(key) = ExpectedKey(key)
<1> DEFINE b == SHA2SHORT_BLOCK_SIZE
           P == [i \in 1 .. b |-> IF i <= Len(key) THEN key[i] ELSE 0]
<1>0. b \in Nat /\ Len(key) \in Nat
  BY PeripheralAssumption, LenProperties DEF SHA2SHORT_BLOCK_SIZE
<1>1. P \in Seq(Nat)
  <2> HIDE DEF b
  <2>1. \A i \in 1 .. b : (IF i <= Len(key) THEN key[i] ELSE 0) \in Nat
    BY <1>0, ElementOfSeq
  <2>2. P \in [1 .. b -> Nat]
    BY <2>1
  <2> QED
    BY <1>0, <2>2, FunctionIsSeq
<1> HIDE DEF P
<1>2. PaddedWords(P) \in Seq(Word)
  BY <1>1, PaddedWordsAreWords
<1>3. PaddedKey(key) \in Seq(Word)
  BY <1>2 DEF PaddedKey, P
<1>4. \A x : HashedKey(x) \in Seq({x})
  BY DEF HashedKey
<1>5. \E S : ExpectedKey(key) \in Seq(S)
  BY <1>3, <1>4 DEF ExpectedKey
<1> QED
  BY <1>5, ConcatEmptySeq

\* A computation without blocks in the peripheral is not affected by what the
\* peripheral does for others.
LEMMA AtRest ==
  ASSUME NEW s, NEW core, NEW b, NEW kb, NEW a, NEW left, NEW u, NEW l, NEW v, NEW m,
         StateOf(s, core, b, kb, a, left, u, l), s \notin u, s \notin v
  PROVE  StateOf(s, core, b, kb, a, left, v, m) /\ WordsOf(core) = << >>
BY DEF StateOf

\* A computation that a step does not touch.
LEMMA OthersKept ==
  ASSUME NEW t, HmacState(t), ~Running(t), ~(Running(t)'),
         context'[t] = context[t], buf'[t] = buf[t],
         key_block'[t] = key_block[t], asked'[t] = asked[t],
         \/ user' = user /\ hw'.words = hw.words
         \/ t \notin user /\ t \notin user'
  PROVE  HmacState(t)'
<1>1. Core(t) = context[t] /\ Left(t) = << >> /\ Core(t)' = context[t] /\ Left(t)' = << >>
  BY DEF Core, Left
<1>2. StateOf(t, context[t], buf[t], key_block[t], asked[t], << >>, user, hw.words)
  BY <1>1 DEF HmacState
<1>3. StateOf(t, context[t], buf[t], key_block[t], asked[t], << >>, user', hw'.words)
  BY <1>2, AtRest
<1>4. HmacState(t)'
        = StateOf(t, Core(t)', buf'[t], key_block'[t], asked'[t], Left(t)', user', hw'.words)
  BY DEF HmacState
<1> QED
  BY <1>1, <1>3, <1>4

\* The state of a computation whose key was loaded.
LEMMA FreshState ==
  ASSUME NEW s, NEW key \in Seq(Nat), NEW u, NEW l, s \notin u
  PROVE  StateOf(s, {HmacCore(ExpectedKey(key), << >>)}, << >>, ExpectedKey(key),
                 [key |-> key, message |-> << >>], << >>, u, l)
<1> DEFINE K == ExpectedKey(key)
           ask == [key |-> key, message |-> << >>]
           core == {HmacCore(K, << >>)}
<1>1. ask.key = key /\ ask.message = << >>
  OBVIOUS
<1>2. WordsOf(core) = << >>
  <2>1. (CHOOSE c \in core : TRUE) = HmacCore(K, << >>)
    OBVIOUS
  <2>2. HmacCore(K, << >>).words = << >>
    BY DEF HmacCore
  <2> QED
    BY <2>1, <2>2 DEF WordsOf
<1>3. Len(<< >>) = 0 /\ 0 < Room(<< >>)
  <2>1. [words |-> << >>].words = << >>
    OBVIOUS
  <2> QED
    BY <2>1, NoWords, LevelOfWords
<1>4. Bytes(<< >>, 0) \o << >> \o << >> = << >>
  BY NoWords
<1> HIDE DEF ask
<1> QED
  BY <1>1, <1>2, <1>3, <1>4, NoWords DEF StateOf, ask

\* The peripheral's record in either mode.
HwTyped(h) ==
  /\ h.words \in Seq(Word) /\ h.mode \in {"hash", "hmac"}
  /\ h = [mode |-> h.mode, inner |-> h.inner, words |-> h.words, intact |-> TRUE]

\* A computation in either mode is such a record.
LEMMA CoreIsTyped ==
  ASSUME NEW w \in Seq(Word), NEW K
  PROVE  HwTyped(HashCore(w)) /\ HwTyped(HmacCore(K, w))
<1>1. /\ HashCore(w).mode = "hash" /\ HashCore(w).inner = << >> /\ HashCore(w).words = w
      /\ HmacCore(K, w).mode = "hmac" /\ HmacCore(K, w).inner = K /\ HmacCore(K, w).words = w
  BY DEF HashCore, HmacCore
<1>2. HashCore(w) = [mode |-> HashCore(w).mode, inner |-> HashCore(w).inner,
                     words |-> HashCore(w).words, intact |-> TRUE]
  BY <1>1, Zenon DEF HashCore
<1>3. HmacCore(K, w) = [mode |-> HmacCore(K, w).mode, inner |-> HmacCore(K, w).inner,
                        words |-> HmacCore(K, w).words, intact |-> TRUE]
  BY <1>1, Zenon DEF HmacCore
<1> QED
  BY <1>1, <1>2, <1>3 DEF HwTyped

\* Without Overlap only computation s may have blocks in the peripheral.
LEMMA Alone ==
  ASSUME Overlap = FALSE, NEW s, Undisturbed(s)
  PROVE  user \cap HmacIds \subseteq {s}
BY DEF Undisturbed

\* The end of load_from_keydata: a new computation joins, the peripheral rests.
LEMMA KeyIsTaken ==
  ASSUME HashInv, HmacInv, NEW s \in HmacIds, s \notin live, NEW key \in Seq(Nat),
         user \cap HmacIds = {}, pc # "hmac_update",
         TakeKey(s, ExpectedKey(key)),
         pc' = "idle", cur' \in HmacIds, remaining' \in Seq(Nat),
         wrote_blocks' = wrote_blocks,
         asked' = [asked EXCEPT ![s] = [key |-> key, message |-> << >>]]
  PROVE  HmacInv'
<1> DEFINE K == ExpectedKey(key)
<1>1. hw' = HmacCore(K, << >>)
  <2>1. Reset("hmac") = HmacCore(<< >>, << >>)
    BY CoreSteps
  <2>2. Din(HmacCore(<< >>, << >>), K) = HmacCore(<< >>, K)
    <3>1. Din(HmacCore(<< >>, << >>), K) = HmacCore(<< >>, << >> \o K)
      BY CoreSteps
    <3> QED
      BY <3>1, KeyIsSeq
  <2>3. KeyTaken(HmacCore(<< >>, K)) = HmacCore(K, << >>)
    BY CoreSteps
  <2> QED
    BY <2>1, <2>2, <2>3 DEF TakeKey
<1>2. /\ context' = [context EXCEPT ![s] = {HmacCore(K, << >>)}]
      /\ key_block' = [key_block EXCEPT ![s] = K]
      /\ buf' = [buf EXCEPT ![s] = << >>]
      /\ live' = live \cup {s} /\ user' = {} /\ panicked' = panicked
  <2>1. SaveContext(HmacCore(K, << >>)) = HmacCore(K, << >>)
    BY CoreSteps, NoWords
  <2> QED
    BY <1>1, <2>1 DEF TakeKey
<1> HIDE DEF K
<1>3. HwTyped(hw') /\ hw'.words = << >>
  <2>1. << >> \in Seq(Word)
    OBVIOUS
  <2> QED
    BY <1>1, <2>1, CoreIsTyped DEF HmacCore
<1>4. HmacTypes'
  <2>1. s \in Ids /\ live' \subseteq Ids
    BY <1>2 DEF HmacInv, HmacTypes, Ids
  <2>a. << >> \in Seq(Nat) /\ buf \in [HmacIds -> Seq(Nat)]
    BY DEF HmacInv, HmacTypes
  <2>b. buf' \in [HmacIds -> Seq(Nat)]
    BY <1>2, <2>a
  <2>c. key_block = [t \in HmacIds |-> key_block[t]]
    BY DEF HmacInv, HmacTypes
  <2>d. DOMAIN key_block' = HmacIds
    BY <1>2, <2>c
  <2>2. key_block' = [t \in HmacIds |-> key_block'[t]]
    BY <1>2, <2>c, <2>d
  <2>3. asked' \in [HmacIds -> [key : Seq(Nat), message : Seq(Nat)]]
    BY DEF HmacInv, HmacTypes
  <2>4. wrote_blocks' \in BOOLEAN
    BY Zenon DEF HmacInv, HmacTypes
  <2> QED
    BY <1>3, <2>1, <2>b, <2>2, <2>3, <2>4 DEF HmacTypes, HwTyped
<1>5. UserInv'
  BY <1>2, <1>3 DEF UserInv
<1>6. KeyInv'
  BY DEF KeyInv
<1>7. StatesInv'
  <2>1. ASSUME NEW t \in HmacIds \cap live' PROVE HmacState(t)'
    <3>1. CASE t = s
      <4>1. Core(s)' = {HmacCore(K, << >>)} /\ Left(s)' = << >> /\ buf'[s] = << >>
            /\ key_block'[s] = K /\ asked'[s] = [key |-> key, message |-> << >>]
        BY <1>2 DEF Core, Left, Running, HashInv, HmacInv, HmacTypes, Ids
      <4>2. HmacState(s)'
              = StateOf(s, Core(s)', buf'[s], key_block'[s], asked'[s], Left(s)', user', hw'.words)
        BY DEF HmacState
      <4>3. s \notin user'
        BY <1>2
      <4> QED
        BY <3>1, <4>1, <4>2, <4>3, FreshState DEF K
    <3>2. CASE t # s
      <4>1. t \in live /\ HmacState(t) /\ t \notin user /\ t \notin user'
        BY <1>2, <2>1, <3>2 DEF HmacInv, StatesInv
      <4>2. ~Running(t) /\ ~(Running(t)')
        BY DEF Running
      <4>3. context'[t] = context[t] /\ buf'[t] = buf[t]
            /\ key_block'[t] = key_block[t] /\ asked'[t] = asked[t]
        BY <1>2, <3>2 DEF HashInv, HmacInv, HmacTypes, Ids
      <4> QED
        BY <4>1, <4>2, <4>3, OthersKept
    <3> QED
      BY <3>1, <3>2
  <2>2. \A t \in HmacIds \ live' : context'[t] = {} /\ buf'[t] = << >>
    BY <1>2 DEF HmacInv, StatesInv, HashInv, HmacTypes, Ids
  <2> QED
    BY <2>1, <2>2 DEF StatesInv
<1>8. panicked' \in BOOLEAN /\ (~DEBUG_ASSERTIONS => ~panicked')
  BY <1>2, Zenon DEF HmacInv
<1> QED
  BY <1>4, <1>5, <1>6, <1>7, <1>8 DEF HmacInv

\* A short key is loaded at once.
LEMMA LoadShortKeyInv ==
  ASSUME HashInv, HmacInv, Overlap = FALSE, NEW s \in HmacIds, NEW key \in KeyData,
         LoadShortKey(s, key)
  PROVE  HmacInv'
<1>1. key \in Seq(Nat)
  BY CallerAssumption
<1>2. ExpectedKey(key) = PaddedKey(key)
  <2>1. ~(Len(key) > SHA2SHORT_BLOCK_SIZE)
    <3>1. Len(key) \in Nat /\ SHA2SHORT_BLOCK_SIZE \in Nat
      BY <1>1, LenProperties, PeripheralAssumption DEF SHA2SHORT_BLOCK_SIZE
    <3> QED
      BY <3>1 DEF LoadShortKey
  <2> QED
    BY <2>1 DEF ExpectedKey
<1>3. s \notin live /\ user \cap HmacIds = {}
  BY Alone DEF LoadShortKey, HmacInv, UserInv
<1>4. TakeKey(s, ExpectedKey(key))
  BY <1>2 DEF LoadShortKey
<1>5. /\ pc # "hmac_update" /\ pc' = "idle" /\ cur' \in HmacIds /\ remaining' \in Seq(Nat)
      /\ wrote_blocks' = wrote_blocks
      /\ asked' = [asked EXCEPT ![s] = [key |-> key, message |-> << >>]]
  BY DEF LoadShortKey, Idle, callVars, HmacInv, HmacTypes
<1> QED
  BY <1>1, <1>3, <1>4, <1>5, KeyIsTaken

\* A long key is hashed first.
LEMMA LoadLongKeyInv ==
  ASSUME HashInv, HmacInv, Overlap = FALSE, NEW s \in HmacIds, NEW key \in KeyData,
         LoadLongKey(s, key)
  PROVE  HmacInv'
<1>1. key \in Seq(Nat)
  BY CallerAssumption
<1>2. s \notin live /\ user \cap HmacIds = {} /\ pc = "idle"
  BY Alone DEF LoadLongKey, Idle, HmacInv, UserInv
<1>3. /\ pc' = "sha256_of" /\ cur' = s /\ remaining' = key /\ instance' = {}
      /\ asked' = [asked EXCEPT ![s] = [key |-> key, message |-> << >>]]
      /\ UNCHANGED <<hw, panicked, user, live, context, hashed, buf, key_block, wrote_blocks>>
      /\ Len(key) > SHA2SHORT_BLOCK_SIZE
  BY DEF LoadLongKey
<1>4. HmacTypes'
  <2>1. asked' \in [HmacIds -> [key : Seq(Nat), message : Seq(Nat)]]
    BY <1>1, <1>3 DEF HmacInv, HmacTypes
  <2>2. wrote_blocks' \in BOOLEAN
    BY <1>3, Zenon DEF HmacInv, HmacTypes
  <2>3. HwTyped(hw')
    BY <1>3 DEF HmacInv, HmacTypes, HwTyped
  <2> QED
    BY <1>1, <1>3, <2>1, <2>2, <2>3 DEF HmacInv, HmacTypes, HwTyped
<1>5. UserInv'
  BY <1>3 DEF HmacInv, UserInv
<1>6. KeyInv'
  <2>1. asked'[s].key = key /\ asked'[s].message = << >>
    BY <1>3 DEF HmacInv, HmacTypes
  <2>2. HashContext({}) /\ WordsOf({}) = << >>
    BY NoWords DEF HashContext, WordsOf
  <2>3. Bytes(<< >>, 0) \o key = key
    BY <1>1, NoWords, ConcatEmptySeq
  <2> QED
    BY <1>2, <1>3, <2>1, <2>2, <2>3 DEF KeyInv
<1>7. StatesInv'
  <2>1. ASSUME NEW t \in HmacIds \cap live' PROVE HmacState(t)'
    <3>1. t # s /\ t \in live /\ HmacState(t)
      BY <1>2, <1>3, <2>1 DEF HmacInv, StatesInv
    <3>2. ~Running(t) /\ ~(Running(t)')
      BY <1>2, <1>3 DEF Running
    <3>3. context'[t] = context[t] /\ buf'[t] = buf[t]
          /\ key_block'[t] = key_block[t] /\ asked'[t] = asked[t]
          /\ user' = user /\ hw'.words = hw.words
      BY <1>3, <3>1 DEF HmacInv, HmacTypes
    <3> QED
      BY <3>1, <3>2, <3>3, OthersKept
  <2>2. \A t \in HmacIds \ live' : context'[t] = {} /\ buf'[t] = << >>
    BY <1>3 DEF HmacInv, StatesInv
  <2> QED
    BY <1>3, <2>1, <2>2 DEF StatesInv
<1>8. panicked' \in BOOLEAN /\ (~DEBUG_ASSERTIONS => ~panicked')
  BY <1>3, Zenon DEF HmacInv
<1> QED
  BY <1>4, <1>5, <1>6, <1>7, <1>8 DEF HmacInv

\* A step that changes at most panicked.
LEMMA PanicInv ==
  ASSUME HashInv, HmacInv, panicked' \in BOOLEAN, ~DEBUG_ASSERTIONS => ~panicked',
         UNCHANGED <<hw, user, live, context, hashed, hmacVars, callVars>>
  PROVE  HmacInv'
<1>1. /\ hw' = hw /\ user' = user /\ live' = live /\ context' = context
      /\ buf' = buf /\ key_block' = key_block /\ asked' = asked /\ pc' = pc /\ cur' = cur
      /\ remaining' = remaining /\ wrote_blocks' = wrote_blocks /\ instance' = instance
  BY DEF hmacVars, callVars
<1>2. HmacTypes' /\ UserInv' /\ KeyInv'
  BY <1>1, Zenon DEF HmacInv, HmacTypes, UserInv, KeyInv
<1>3. StatesInv'
  BY <1>1, Zenon DEF HmacInv, StatesInv, HmacState, Core, Left, Running
<1> QED
  BY <1>2, <1>3, Zenon DEF HmacInv

\* A step that does not panic keeps what is known of panicked.
LEMMA NotPanicked ==
  ASSUME HmacInv, panicked' = panicked
  PROVE  panicked' \in BOOLEAN /\ (~DEBUG_ASSERTIONS => ~panicked')
BY Zenon DEF HmacInv

\* A step between calls that leaves the HMAC computations alone.
LEMMA QuietStep ==
  ASSUME HashInv, HmacInv, pc = "idle", UNCHANGED <<panicked, hmacVars, callVars>>,
         live' \subseteq Ids, live' \cap HmacIds = live \cap HmacIds,
         \A t \in HmacIds : context'[t] = context[t],
         HwTyped(hw'),
         user' = {} \/ \E u \in Ids \cup {"abandoned"} : user' = {u},
         user' = {} => hw'.words = << >>,
         \/ user' = user /\ hw'.words = hw.words
         \/ user \cap HmacIds = {} /\ user' \cap HmacIds = {}
  PROVE  HmacInv'
<1>1. /\ buf' = buf /\ key_block' = key_block /\ asked' = asked /\ pc' = pc /\ cur' = cur
      /\ remaining' = remaining /\ wrote_blocks' = wrote_blocks /\ panicked' = panicked
  BY DEF hmacVars, callVars
<1>2. HmacTypes'
  <2>1. wrote_blocks' \in BOOLEAN
    BY <1>1, Zenon DEF HmacInv, HmacTypes
  <2> QED
    BY <1>1, <2>1 DEF HmacInv, HmacTypes, HwTyped
<1>3. UserInv'
  <2>1. user' \cap HmacIds \subseteq live'
    BY DEF HmacInv, UserInv
  <2> QED
    BY <2>1 DEF UserInv
<1>4. KeyInv'
  BY <1>1 DEF KeyInv
<1>5. StatesInv'
  <2>1. ASSUME NEW t \in HmacIds \cap live' PROVE HmacState(t)'
    <3>1. t \in live /\ HmacState(t)
      BY <2>1 DEF HmacInv, StatesInv
    <3>2. ~Running(t) /\ ~(Running(t)')
      BY <1>1 DEF Running
    <3>3. context'[t] = context[t] /\ buf'[t] = buf[t]
          /\ key_block'[t] = key_block[t] /\ asked'[t] = asked[t]
      BY <1>1
    <3> QED
      BY <3>1, <3>2, <3>3, OthersKept
  <2>2. \A t \in HmacIds \ live' : context'[t] = {} /\ buf'[t] = << >>
    BY <1>1 DEF HmacInv, StatesInv
  <2> QED
    BY <1>1, <2>1, <2>2 DEF StatesInv
<1>6. panicked' \in BOOLEAN /\ (~DEBUG_ASSERTIONS => ~panicked')
  BY <1>1, NotPanicked
<1> QED
  BY <1>2, <1>3, <1>4, <1>5, <1>6 DEF HmacInv

\* A HashState's calls.
LEMMA HashStepsInv ==
  ASSUME HashInv, HmacInv, Overlap = FALSE, NEW s \in HashIds,
         \/ HashInit(s)
         \/ \E d \in Chunks : HashUpdate(s, d) \/ HashFinalize(s, d)
         \/ \E t \in HashIds : HashClone(s, t)
  PROVE  HmacInv'
<1>0. s \in Ids /\ s \notin HmacIds
  BY CallerAssumption DEF Ids
<1>1. ASSUME NEW t \in HashIds, HashInit(t) \/ \E x \in HashIds : HashClone(x, t)
      PROVE  HmacInv'
  <2>0. t \in Ids /\ t \notin HmacIds
    BY CallerAssumption DEF Ids
  <2>1. /\ pc = "idle" /\ UNCHANGED <<panicked, hmacVars, callVars>>
        /\ live' = live \cup {t} /\ hw' = hw /\ user' = user
        /\ \E c : context' = [context EXCEPT ![t] = c]
    BY <1>1 DEF HashInit, HashClone, Idle
  <2>2. \A x \in HmacIds : context'[x] = context[x]
    BY <2>0, <2>1 DEF HashInv, Ids
  <2>3. HwTyped(hw')
    BY <2>1 DEF HwTyped, HmacInv, HmacTypes
  <2>4. /\ live' \subseteq Ids /\ live' \cap HmacIds = live \cap HmacIds
        /\ user' = {} \/ \E u \in Ids \cup {"abandoned"} : user' = {u}
        /\ user' = {} => hw'.words = << >>
        /\ user' = user /\ hw'.words = hw.words
    BY <2>0, <2>1 DEF HmacInv, UserInv, HmacTypes
  <2> QED
    BY <2>1, <2>2, <2>3, <2>4, QuietStep
<1>2. ASSUME NEW d \in Chunks, HashUpdate(s, d) PROVE HmacInv'
  <2>1. CASE ~AssertHolds(d)
    <3>1. panicked' = TRUE /\ UNCHANGED <<hw, user, live, context, hashed, hmacVars, callVars>>
      BY <1>2, <2>1 DEF HashUpdate, Panic
    <3>2. DEBUG_ASSERTIONS
      BY <2>1 DEF AssertHolds
    <3>a. panicked' = TRUE
      BY <3>1
    <3>b. panicked' \in BOOLEAN
      BY <3>a, Zenon
    <3>3. panicked' \in BOOLEAN /\ (~DEBUG_ASSERTIONS => ~panicked')
      BY <3>b, <3>2, Zenon
    <3> QED
      BY <3>1, <3>3, PanicInv
  <2>2. CASE AssertHolds(d)
    <3> DEFINE h == Din(ReinitAndRestore(context[s]), FullWords(d))
               w == WordsOf(context[s]) \o FullWords(d)
    <3>1. /\ pc = "idle" /\ hw' = h /\ user' = {s} /\ live' = live
          /\ context' = [context EXCEPT ![s] = {SaveContext(hw')}]
          /\ UNCHANGED <<panicked, hmacVars, callVars>>
      BY <1>2, <2>2 DEF HashUpdate, Idle
    <3>2. HashContext(context[s]) /\ d \in Seq(Nat) /\ Absorbed(s) = AbsorbedOf(context[s])
      BY CallerAssumption DEF HashInv, Absorbed, AbsorbedOf
    <3>3. Contract!ChunkAccepted(Len(AbsorbedOf(context[s])), Len(d))
      BY <1>2, <3>2 DEF HashUpdate
    <3>4. PICK k \in Nat : Len(d) = Room(WordsOf(context[s])) + k * SHA2SHORT_BLOCK_SIZE
      BY <3>2, <3>3, AcceptedChunks
    <3>5. h = HashCore(w) /\ w \in Seq(Word)
      BY <3>2, <3>4, ChunkTaken
    <3> HIDE DEF h, w
    <3>6. HwTyped(hw')
      BY <3>1, <3>5, CoreIsTyped
    <3>7. \A t \in HmacIds : context'[t] = context[t]
      BY <1>0, <3>1 DEF HashInv, Ids
    <3>a. user \cap HmacIds = {}
      BY <1>0, <1>2, Alone, ZenonT(30) DEF HashUpdate
    <3>8. user \cap HmacIds = {} /\ user' \cap HmacIds = {}
      BY <1>0, <3>1, <3>a
    <3>9. live' \subseteq Ids
      BY <3>1 DEF HmacInv, HmacTypes
    <3> QED
      BY <1>0, <3>1, <3>6, <3>7, <3>8, <3>9, QuietStep
  <2> QED
    BY <2>1, <2>2
<1>3. ASSUME NEW d \in Chunks, HashFinalize(s, d) PROVE HmacInv'
  <2> DEFINE h == Din(ReinitAndRestore(context[s]), PaddedWords(d))
  <2>1. /\ pc = "idle" /\ hw' = Done(h) /\ user' = {} /\ live' = live \ {s}
        /\ context' = context /\ UNCHANGED <<panicked, hmacVars, callVars>>
    BY <1>3 DEF HashFinalize, Idle
  <2>2. HashContext(context[s]) /\ d \in Seq(Nat)
    BY CallerAssumption DEF HashInv
  <2>3. h = HashCore(WordsOf(context[s]) \o PaddedWords(d))
    BY <2>2, DigestTaken
  <2>4. hw' = HashCore(<< >>)
    BY <2>1, <2>3, CoreSteps
  <2>5. HwTyped(hw') /\ hw'.words = << >>
    <3>1. << >> \in Seq(Word)
      OBVIOUS
    <3> QED
      BY <2>4, <3>1, CoreIsTyped DEF HashCore
  <2>6. user \cap HmacIds = {}
    BY <1>0, <1>3, Alone, ZenonT(30) DEF HashFinalize
  <2>7. live' \subseteq Ids /\ live' \cap HmacIds = live \cap HmacIds
    BY <1>0, <2>1 DEF HmacInv, HmacTypes
  <2> HIDE DEF h
  <2> QED
    BY <2>1, <2>5, <2>6, <2>7, QuietStep
<1> QED
  BY <1>1, <1>2, <1>3

\* Between two chunks of a long key.
LEMMA Sha256OfUpdateInv ==
  ASSUME HashInv, HmacInv, Sha256OfUpdate
  PROVE  HmacInv'
<1> DEFINE n == Sha256OfChunk
           chunk == SubSeq(remaining, 1, n)
           rest == SubSeq(remaining, n + 1, Len(remaining))
           u == WordsOf(instance)
<1>0. /\ pc = "sha256_of" /\ cur \notin live /\ user \cap HmacIds = {}
      /\ HashContext(instance) /\ remaining \in Seq(Nat) /\ cur \in HmacIds
      /\ Bytes(u, 0) \o remaining = asked[cur].key /\ Len(remaining) > n
  BY DEF Sha256OfUpdate, HmacInv, KeyInv, HmacTypes
<1>1. CASE ~AssertHolds(chunk)
  <2>1. panicked' = TRUE /\ UNCHANGED <<hw, user, live, context, hashed, hmacVars, callVars>>
    BY <1>1 DEF Sha256OfUpdate, Panic
  <2>2. DEBUG_ASSERTIONS
    BY <1>1 DEF AssertHolds
  <2>3. panicked' \in BOOLEAN /\ (~DEBUG_ASSERTIONS => ~panicked')
    BY <2>1, <2>2, Zenon
  <2> QED
    BY <2>1, <2>3, PanicInv
<1>2. CASE AssertHolds(chunk)
  <2> DEFINE h == Din(ReinitAndRestore(instance), FullWords(chunk))
             w == u \o FullWords(chunk)
  <2>1. /\ hw' = h /\ instance' = {SaveContext(hw')} /\ remaining' = rest
        /\ UNCHANGED <<panicked, user, live, context, hashed, hmacVars, pc, cur, wrote_blocks>>
    BY <1>2 DEF Sha256OfUpdate
  <2>2. n = Room(u) /\ Suspendable(u)
    BY <1>0 DEF Sha256OfChunk, Room, HashContext, WordsOf
  <2>3. n \in Nat /\ n <= Len(remaining) /\ n = Room(u) + 0 * SHA2SHORT_BLOCK_SIZE
    <3>1. [words |-> u].words = u
      OBVIOUS
    <3>2. Room(u) \in Nat
      <4> HIDE DEF u
      <4> QED
        BY <2>2, <3>1, LevelOfWords
    <3>3. SHA2SHORT_BLOCK_SIZE \in Nat /\ Len(remaining) \in Nat
      BY <1>0, PeripheralAssumption, LenProperties DEF SHA2SHORT_BLOCK_SIZE
    <3> HIDE DEF n, u
    <3> QED
      BY <1>0, <2>2, <3>2, <3>3
  <2>4. /\ chunk \in Seq(Nat) /\ Len(chunk) = n /\ rest \in Seq(Nat) /\ chunk \o rest = remaining
    BY <1>0, <2>3, SplitAt
  <2> HIDE DEF n, chunk, rest
  <2>5. /\ h = HashCore(w) /\ w \in Seq(Word)
        /\ HashContext({SaveContext(h)}) /\ WordsOf({SaveContext(h)}) = w
        /\ Bytes(w, 0) = Bytes(u, 0) \o chunk
    <3>1. Len(chunk) = Room(WordsOf(instance)) + 0 * SHA2SHORT_BLOCK_SIZE /\ 0 \in Nat
      BY <2>3, <2>4
    <3>2. HashContext(instance) /\ chunk \in Seq(Nat)
      BY <1>0, <2>4
    <3> QED
      BY <3>1, <3>2, ChunkTaken
  <2>6. Bytes(w, 0) \o rest = asked[cur].key
    <3> DEFINE B == Bytes(u, 0)
    <3>1. B \in Seq(Nat)
      BY <2>2, BytesAreBytes DEF Suspendable
    <3> HIDE DEF B
    <3>2. (B \o chunk) \o rest = B \o (chunk \o rest)
      BY <2>4, <3>1, Regrouped
    <3> QED
      BY <1>0, <2>4, <2>5, <3>2 DEF B
  <2> HIDE DEF h, w, u
  <2>7. HwTyped(hw')
    BY <2>1, <2>5, CoreIsTyped
  <2>8. HmacTypes'
    <3>1. wrote_blocks' \in BOOLEAN
      BY <2>1, Zenon DEF HmacInv, HmacTypes
    <3> QED
      BY <2>1, <2>4, <2>7, <3>1 DEF HmacInv, HmacTypes, HwTyped, hmacVars
  <2>9. UserInv'
    BY <1>0, <2>1 DEF HmacInv, UserInv
  <2>10. KeyInv'
    <3>1. instance' = {SaveContext(h)} /\ asked' = asked /\ cur' = cur /\ live' = live
          /\ user' = user /\ remaining' = rest
      BY <2>1 DEF hmacVars
    <3> QED
      BY <1>0, <2>5, <2>6, <3>1 DEF HmacInv, KeyInv
  <2>11. StatesInv'
    <3>1. ASSUME NEW t \in HmacIds \cap live' PROVE HmacState(t)'
      <4>1. t \in live /\ HmacState(t) /\ t \notin user /\ t \notin user'
        BY <1>0, <2>1, <3>1 DEF HmacInv, StatesInv
      <4>2. ~Running(t) /\ ~(Running(t)')
        BY <1>0, <2>1 DEF Running
      <4>3. context'[t] = context[t] /\ buf'[t] = buf[t]
            /\ key_block'[t] = key_block[t] /\ asked'[t] = asked[t]
        BY <2>1 DEF hmacVars
      <4> QED
        BY <4>1, <4>2, <4>3, OthersKept
    <3>2. \A t \in HmacIds \ live' : context'[t] = {} /\ buf'[t] = << >>
      BY <2>1 DEF HmacInv, StatesInv, hmacVars
    <3> QED
      BY <1>0, <2>1, <3>1, <3>2 DEF StatesInv
  <2>12. panicked' \in BOOLEAN /\ (~DEBUG_ASSERTIONS => ~panicked')
    BY <2>1, Zenon DEF HmacInv
  <2> QED
    BY <2>8, <2>9, <2>10, <2>11, <2>12 DEF HmacInv
<1> QED
  BY <1>1, <1>2

\* The digest of a long key is that of the whole key.
LEMMA Sha256OfFinalizeInv ==
  ASSUME HashInv, HmacInv, Sha256OfFinalize
  PROVE  HmacInv'
<1> DEFINE key == asked[cur].key
           digest == HashDigest(Din(ReinitAndRestore(instance), PaddedWords(remaining)),
                                LastWordBytes(remaining))
<1>0. /\ pc = "sha256_of" /\ cur \notin live /\ user \cap HmacIds = {}
      /\ HashContext(instance) /\ remaining \in Seq(Nat) /\ cur \in HmacIds
      /\ Bytes(WordsOf(instance), 0) \o remaining = key
      /\ asked[cur].message = << >> /\ Len(key) > SHA2SHORT_BLOCK_SIZE
  BY DEF Sha256OfFinalize, HmacInv, KeyInv, HmacTypes
<1>1. key \in Seq(Nat) /\ asked[cur] = [key |-> key, message |-> << >>]
  BY <1>0 DEF HmacInv, HmacTypes
<1>2. digest = [intact |-> TRUE, message |-> key]
  BY <1>0, DigestTaken
<1>3. TakeKey(cur, HashedKey(digest))
  BY DEF Sha256OfFinalize
<1>4. ExpectedKey(key) = HashedKey(digest)
  <2> HIDE DEF key, digest
  <2> QED
    BY <1>0, <1>2 DEF ExpectedKey
<1>5. /\ pc' = "idle" /\ cur' = cur /\ remaining' = << >> /\ wrote_blocks' = wrote_blocks
      /\ asked' = asked
  BY DEF Sha256OfFinalize
<1>6. asked' = [asked EXCEPT ![cur] = [key |-> key, message |-> << >>]]
  <2>1. asked = [asked EXCEPT ![cur] = asked[cur]]
    BY <1>0 DEF HmacInv, HmacTypes
  <2> QED
    BY <1>1, <1>5, <2>1
<1>7. remaining' \in Seq(Nat) /\ pc # "hmac_update" /\ cur' \in HmacIds
  BY <1>0, <1>5
<1> HIDE DEF key, digest
<1> QED
  BY <1>0, <1>1, <1>3, <1>4, <1>5, <1>6, <1>7, KeyIsTaken

\* A call of update begins: the message grows by what is left to take.
LEMMA HmacUpdateInv ==
  ASSUME HashInv, HmacInv, Overlap = FALSE, NEW s \in HmacIds, NEW d \in Chunks,
         HmacUpdate(s, d)
  PROVE  HmacInv'
<1>1. d \in Seq(Nat)
  BY CallerAssumption
<1>2. pc = "idle" /\ s \in live /\ user \subseteq {s} /\ HmacState(s)
  BY DEF HmacUpdate, Idle, HmacInv, StatesInv
<1>3. /\ pc' = "hmac_update" /\ cur' = s /\ remaining' = d /\ wrote_blocks' = FALSE
      /\ asked' = [asked EXCEPT ![s].message = @ \o d]
      /\ UNCHANGED <<hw, panicked, user, live, context, hashed, buf, key_block, instance>>
  BY DEF HmacUpdate
<1>4. /\ asked[s] \in [key : Seq(Nat), message : Seq(Nat)] /\ buf[s] \in Seq(Nat)
      /\ asked'[s].key = asked[s].key /\ asked'[s].message = asked[s].message \o d
  BY <1>3 DEF HmacInv, HmacTypes
<1>5. HmacTypes'
  <2>1. asked[s].message \o d \in Seq(Nat)
    BY <1>1, <1>4, ConcatProperties
  <2>2. asked' \in [HmacIds -> [key : Seq(Nat), message : Seq(Nat)]]
    <3> DEFINE x == asked[s].message \o d
    <3>1. asked' = [asked EXCEPT ![s].message = x]
      BY <1>3
    <3> HIDE DEF x
    <3> QED
      BY <2>1, <3>1 DEF HmacInv, HmacTypes, x
  <2>3. wrote_blocks' \in BOOLEAN
    BY <1>3, Zenon
  <2>4. HwTyped(hw')
    BY <1>3 DEF HmacInv, HmacTypes, HwTyped
  <2> QED
    BY <1>1, <1>3, <2>2, <2>3, <2>4 DEF HmacInv, HmacTypes, HwTyped
<1>6. UserInv'
  BY <1>2, <1>3 DEF HmacInv, UserInv
<1>7. KeyInv'
  BY <1>3 DEF KeyInv
<1>8. HmacState(s)'
  <2>1. Core(s) = context[s] /\ Left(s) = << >>
    BY <1>2 DEF Core, Left, Running
  <2>2. Core(s)' = context[s] /\ Left(s)' = d
    BY <1>3 DEF Core, Left, Running
  <2>3. StateOf(s, context[s], buf[s], key_block[s], asked[s], << >>, user, hw.words)
    BY <1>2, <2>1 DEF HmacState
  <2>4. StateOf(s, context[s], buf[s], key_block[s], asked'[s], d, user, hw.words)
    <3> DEFINE B == Bytes(WordsOf(context[s]), 0)
    <3>1. B \in Seq(Nat)
      BY <2>3, BytesAreBytes DEF StateOf, Suspendable
    <3>2. B \o buf[s] \o << >> = asked[s].message
      BY <2>3 DEF StateOf
    <3> HIDE DEF B
    <3>3. B \o buf[s] \in Seq(Nat)
      BY <1>4, <3>1, ConcatProperties
    <3>4. B \o buf[s] \o << >> = B \o buf[s]
      BY <3>3, ConcatEmptySeq
    <3>5. B \o buf[s] \o d = asked'[s].message
      BY <1>4, <3>2, <3>4
    <3> QED
      BY <1>4, <2>3, <3>5 DEF StateOf, B
  <2>5. HmacState(s)'
          = StateOf(s, Core(s)', buf'[s], key_block'[s], asked'[s], Left(s)', user', hw'.words)
    BY DEF HmacState
  <2> QED
    BY <1>3, <2>2, <2>4, <2>5
<1>9. StatesInv'
  <2>1. ASSUME NEW t \in HmacIds \cap live', t # s PROVE HmacState(t)'
    <3>1. t \in live /\ HmacState(t)
      BY <1>3, <2>1 DEF HmacInv, StatesInv
    <3>2. ~Running(t) /\ ~(Running(t)')
      BY <1>2, <1>3, <2>1 DEF Running
    <3>3. context'[t] = context[t] /\ buf'[t] = buf[t]
          /\ key_block'[t] = key_block[t] /\ asked'[t] = asked[t]
          /\ user' = user /\ hw'.words = hw.words
      BY <1>3, <2>1 DEF HmacInv, HmacTypes
    <3> QED
      BY <3>1, <3>2, <3>3, OthersKept
  <2>2. \A t \in HmacIds \ live' : context'[t] = {} /\ buf'[t] = << >>
    BY <1>3 DEF HmacInv, StatesInv
  <2> QED
    BY <1>2, <1>3, <1>8, <2>1, <2>2 DEF StatesInv
<1>10. panicked' \in BOOLEAN /\ (~DEBUG_ASSERTIONS => ~panicked')
  BY <1>3, NotPanicked
<1> QED
  BY <1>5, <1>6, <1>7, <1>9, <1>10 DEF HmacInv

\* The state of the computation that update works on, in terms of the peripheral.
LEMMA RunningState ==
  ASSUME HashInv, HmacInv, pc = "hmac_update"
  PROVE  LET words == WordsOf(Core(cur))
             core == HmacCore(ExpectedKey(asked[cur].key), words)
         IN  /\ cur \in HmacIds \cap live
             /\ StateOf(cur, Core(cur), buf[cur], key_block[cur], asked[cur], remaining,
                        user, hw.words)
             /\ hw.words = words
             /\ wrote_blocks => hw = core /\ context[cur] = {}
             /\ ~wrote_blocks => context[cur] = {core}
<1> DEFINE words == WordsOf(Core(cur))
           core == HmacCore(ExpectedKey(asked[cur].key), words)
<1>1. cur \in HmacIds \cap live /\ HmacState(cur) /\ user \subseteq {cur}
      /\ (wrote_blocks => context[cur] = {})
  BY DEF HmacInv, StatesInv, HmacTypes
<1>2. Left(cur) = remaining
  BY DEF Left, Running
<1>3. StateOf(cur, Core(cur), buf[cur], key_block[cur], asked[cur], remaining, user, hw.words)
  BY <1>1, <1>2 DEF HmacState
<1>4. hw.words = words
  <2>1. CASE user = {}
    <3>1. hw.words = << >>
      BY <2>1 DEF HmacInv, UserInv
    <3>2. words = << >>
      BY <1>3, <2>1 DEF StateOf
    <3> QED
      BY <3>1, <3>2
  <2>2. CASE user # {}
    <3>1. cur \in user
      BY <1>1, <2>2
    <3> QED
      BY <1>3, <3>1 DEF StateOf
  <2> QED
    BY <2>1, <2>2
<1>5. Core(cur) = {core}
  BY <1>3 DEF StateOf
<1>6. wrote_blocks => hw = core
  <2>1. wrote_blocks => Core(cur) = {hw}
    BY DEF Core, Running
  <2> HIDE DEF core
  <2> QED
    BY <1>5, <2>1
<1>7. ~wrote_blocks => context[cur] = {core}
  <2>1. ~wrote_blocks => Core(cur) = context[cur]
    BY DEF Core, Running
  <2> HIDE DEF core
  <2> QED
    BY <1>5, <2>1
<1> HIDE DEF words, core
<1> QED
  BY <1>1, <1>3, <1>4, <1>6, <1>7 DEF words, core

\* update returns: the context it saves is the peripheral's.
LEMMA HmacReturnInv ==
  ASSUME HashInv, HmacInv, HmacReturn
  PROVE  HmacInv'
<1> DEFINE words == WordsOf(Core(cur))
           core == HmacCore(ExpectedKey(asked[cur].key), words)
<1>1. /\ pc = "hmac_update" /\ remaining = << >> /\ pc' = "idle" /\ wrote_blocks' = FALSE
      /\ context' = IF wrote_blocks THEN [context EXCEPT ![cur] = {SaveContext(hw)}] ELSE context
      /\ UNCHANGED <<hw, panicked, user, live, hashed, hmacVars, cur, remaining, instance>>
  BY DEF HmacReturn
<1>2. /\ cur \in HmacIds \cap live
      /\ StateOf(cur, Core(cur), buf[cur], key_block[cur], asked[cur], remaining, user, hw.words)
      /\ wrote_blocks => hw = core
      /\ ~wrote_blocks => context[cur] = {core}
  BY <1>1, RunningState
<1>3. Suspendable(words) /\ Core(cur) = {core}
  BY <1>2 DEF StateOf
<1>4. SaveContext(core) = core
  BY <1>3, CoreSteps
<1> HIDE DEF words, core
<1>5. context'[cur] = Core(cur) /\ \A t \in HmacIds : t # cur => context'[t] = context[t]
  <2>1. cur \in Ids /\ context = [t \in Ids |-> context[t]]
    BY <1>2 DEF HashInv, Ids
  <2>2. CASE wrote_blocks
    BY <1>1, <1>2, <1>3, <1>4, <2>1, <2>2 DEF Ids
  <2>3. CASE ~wrote_blocks
    BY <1>1, <1>2, <1>3, <2>1, <2>3
  <2> QED
    BY <2>2, <2>3
<1>6. HmacTypes'
  <2>1. wrote_blocks' \in BOOLEAN
    BY <1>1, Zenon
  <2>2. HwTyped(hw')
    BY <1>1 DEF HmacInv, HmacTypes, HwTyped
  <2> QED
    BY <1>1, <2>1, <2>2 DEF HmacInv, HmacTypes, HwTyped, hmacVars
<1>7. UserInv'
  BY <1>1 DEF HmacInv, UserInv
<1>8. KeyInv'
  BY <1>1 DEF KeyInv
<1>9. HmacState(cur)'
  <2>1. Core(cur)' = Core(cur) /\ Left(cur)' = remaining
    <3>1. Core(cur)' = context'[cur]
      BY <1>1 DEF Core, Running
    <3>2. Left(cur)' = << >>
      BY <1>1 DEF Left, Running
    <3> QED
      BY <1>1, <1>5, <3>1, <3>2
  <2>2. HmacState(cur)'
          = StateOf(cur', Core(cur)', buf'[cur'], key_block'[cur'], asked'[cur'], Left(cur)',
                    user', hw'.words)
    BY DEF HmacState
  <2> QED
    BY <1>1, <1>2, <2>1, <2>2 DEF hmacVars
<1>10. StatesInv'
  <2>1. ASSUME NEW t \in HmacIds \cap live', t # cur PROVE HmacState(t)'
    <3>1. t \in live /\ HmacState(t)
      BY <1>1, <2>1 DEF HmacInv, StatesInv
    <3>2. ~Running(t) /\ ~(Running(t)')
      BY <1>1, <2>1 DEF Running
    <3>3. context'[t] = context[t] /\ buf'[t] = buf[t]
          /\ key_block'[t] = key_block[t] /\ asked'[t] = asked[t]
          /\ user' = user /\ hw'.words = hw.words
      BY <1>1, <1>5, <2>1 DEF hmacVars
    <3> QED
      BY <3>1, <3>2, <3>3, OthersKept
  <2>2. \A t \in HmacIds \ live' : context'[t] = {} /\ buf'[t] = << >>
    BY <1>1, <1>2, <1>5 DEF HmacInv, StatesInv, hmacVars
  <2>3. \A t \in HmacIds \cap live' : HmacState(t)'
    <3>1. cur' = cur
      BY <1>1
    <3> QED
      BY <1>9, <2>1, <3>1
  <2> QED
    BY <1>1, <2>2, <2>3 DEF StatesInv
<1>11. panicked' \in BOOLEAN /\ (~DEBUG_ASSERTIONS => ~panicked')
  BY <1>1, NotPanicked
<1> QED
  BY <1>6, <1>7, <1>8, <1>10, <1>11 DEF HmacInv

\* One iteration of update takes what fits; there is always room for a byte,
\* and never more than the buffer holds.
LEMMA FillLengths ==
  ASSUME HashInv, HmacInv, pc = "hmac_update", remaining # << >>
  PROVE  LET room == Room(WordsOf(Core(cur)))
             a == SubSeq(remaining, 1, Take)
             b == SubSeq(remaining, Take + 1, Len(remaining))
         IN  /\ HmacBlockSize = room /\ ~FillPanics
             /\ a \in Seq(Nat) /\ b \in Seq(Nat) /\ a \o b = remaining
             /\ buf[cur] \o a \in Seq(Nat)
             /\ Len(buf[cur] \o a) <= room
<1> DEFINE words == WordsOf(Core(cur))
           room == Room(words)
           l == Len(buf[cur])
           r == Len(remaining)
<1>1. /\ cur \in HmacIds /\ hw.words = words
      /\ StateOf(cur, Core(cur), buf[cur], key_block[cur], asked[cur], remaining, user, hw.words)
  BY RunningState
<1>2. Suspendable(words) /\ l < room
  BY <1>1 DEF StateOf
<1>3. buf[cur] \in Seq(Nat) /\ remaining \in Seq(Nat) /\ l \in Nat /\ r \in Nat
  BY <1>1, LenProperties DEF HmacInv, HmacTypes
<1>4. HmacBlockSize = room /\ room \in Nat /\ room <= HMAC_MAX_BLOCK_SIZE
  <2> HIDE DEF words
  <2> QED
    BY <1>1, <1>2, LevelOfWords DEF HmacBlockSize
<1> HIDE DEF words, room
<1>5. HMAC_MAX_BLOCK_SIZE \in Nat
  BY PeripheralAssumption
<1>6. Space = room - l
  BY <1>2, <1>3, <1>4 DEF Space
<1>7. Take \in Nat /\ Take <= r /\ l + Take <= room
  <2>1. Take = IF r < Space THEN r ELSE Space
    BY DEF Take
  <2> HIDE DEF l, r
  <2>2. Space \in Nat /\ l + Space = room
    BY <1>2, <1>3, <1>4, <1>6
  <2> QED
    BY <1>2, <1>3, <1>4, <2>1, <2>2
<1>8. ~FillPanics
  BY <1>2, <1>3, <1>4, <1>5, <1>7 DEF FillPanics
<1> DEFINE a == SubSeq(remaining, 1, Take)
           b == SubSeq(remaining, Take + 1, Len(remaining))
<1>9. a \in Seq(Nat) /\ Len(a) = Take /\ b \in Seq(Nat) /\ a \o b = remaining
  BY <1>3, <1>7, SplitAt
<1> HIDE DEF a, b
<1>10. buf[cur] \o a \in Seq(Nat) /\ Len(buf[cur] \o a) = l + Take
  BY <1>3, <1>9, ConcatProperties
<1> QED
  BY <1>4, <1>7, <1>8, <1>9, <1>10 DEF words, room, a, b

\* An iteration of update: it fills the buffer, or completes a block, which
\* leaves the peripheral where it can be suspended.
LEMMA HmacFillInv ==
  ASSUME HashInv, HmacInv, HmacFill
  PROVE  HmacInv'
<1> DEFINE words == WordsOf(Core(cur))
           K == ExpectedKey(asked[cur].key)
           a == SubSeq(remaining, 1, Take)
           b == SubSeq(remaining, Take + 1, Len(remaining))
           filled == buf[cur] \o a
           B == Bytes(words, 0)
<1>1. pc = "hmac_update" /\ remaining # << >>
  BY DEF HmacFill
<1>2. /\ cur \in HmacIds \cap live /\ hw.words = words
      /\ StateOf(cur, Core(cur), buf[cur], key_block[cur], asked[cur], remaining, user, hw.words)
      /\ wrote_blocks => hw = HmacCore(K, words) /\ context[cur] = {}
      /\ ~wrote_blocks => context[cur] = {HmacCore(K, words)}
  BY <1>1, RunningState
<1>3. /\ HmacBlockSize = Room(words) /\ ~FillPanics
      /\ a \in Seq(Nat) /\ b \in Seq(Nat) /\ a \o b = remaining
      /\ filled \in Seq(Nat) /\ Len(filled) <= Room(words)
  BY <1>1, FillLengths
<1>4. /\ remaining' = b
      /\ UNCHANGED <<panicked, live, hashed, key_block, asked, pc, cur, instance>>
      /\ IF Len(filled) = Room(words)
           THEN /\ hw' = Din(RestoreHmac, FullWords(filled))
                /\ context' = [context EXCEPT ![cur] = IF wrote_blocks THEN @ ELSE {}]
                /\ buf' = [buf EXCEPT ![cur] = << >>]
                /\ wrote_blocks' = TRUE
                /\ user' = {cur}
           ELSE /\ buf' = [buf EXCEPT ![cur] = filled]
                /\ UNCHANGED <<hw, context, wrote_blocks, user>>
  BY <1>3 DEF HmacFill
<1>5. Suspendable(words) /\ buf[cur] \in Seq(Nat) /\ B \in Seq(Nat)
      /\ Core(cur) = {HmacCore(K, words)} /\ key_block[cur] = K
      /\ B \o buf[cur] \o remaining = asked[cur].message
      /\ (words # << >> => user = {cur})
  <2>1. Suspendable(words)
    BY <1>2 DEF StateOf
  <2>2. B \in Seq(Nat)
    BY <2>1, BytesAreBytes DEF Suspendable
  <2>3. buf[cur] \in Seq(Nat)
    BY <1>2 DEF HmacInv, HmacTypes
  <2> QED
    BY <1>2, <2>1, <2>2, <2>3 DEF StateOf
<1> HIDE DEF words, K, a, b
<1>6. B \o filled \o b = asked[cur].message
  <2> HIDE DEF B
  <2>1. B \o filled \o b = B \o (filled \o b)
    BY <1>3, <1>5, Regrouped, ZenonT(30) DEF filled
  <2>2. filled \o b = buf[cur] \o (a \o b)
    BY <1>3, <1>5, Regrouped, ZenonT(30)
  <2>3. B \o (buf[cur] \o remaining) = B \o buf[cur] \o remaining
    <3>1. remaining \in Seq(Nat)
      BY DEF HmacInv, HmacTypes
    <3> QED
      BY <1>5, <3>1, Regrouped
  <2> QED
    BY <1>3, <1>5, <2>1, <2>2, <2>3
<1> HIDE DEF filled
<1>7. \* The parts of the invariant that both branches establish alike.
      ASSUME HwTyped(hw'), wrote_blocks' \in BOOLEAN, user' \subseteq {cur},
             user' = {} => hw'.words = << >>,
             buf' \in [HmacIds -> Seq(Nat)], \A t \in HmacIds : t # cur => buf'[t] = buf[t],
             \A t \in HmacIds : t # cur => context'[t] = context[t],
             wrote_blocks' => context'[cur] = {},
             StateOf(cur, Core(cur)', buf'[cur], key_block[cur], asked[cur], b, user', hw'.words)
      PROVE  HmacInv'
  <2>1. HmacTypes'
    BY <1>3, <1>4, <1>7 DEF HmacInv, HmacTypes, HwTyped
  <2>2. UserInv'
    BY <1>2, <1>4, <1>7 DEF HmacInv, UserInv, Ids
  <2>3. KeyInv'
    BY <1>1, <1>4 DEF KeyInv
  <2>4. StatesInv'
    <3>1. HmacState(cur)'
      <4>1. Left(cur)' = b
        BY <1>1, <1>4 DEF Left, Running
      <4>2. HmacState(cur)'
              = StateOf(cur', Core(cur)', buf'[cur'], key_block'[cur'], asked'[cur'], Left(cur)',
                        user', hw'.words)
        BY DEF HmacState
      <4> QED
        BY <1>4, <1>7, <4>1, <4>2
    <3>2. ASSUME NEW t \in HmacIds \cap live', t # cur PROVE HmacState(t)'
      <4>1. t \in live /\ HmacState(t) /\ t \notin user /\ t \notin user'
        BY <1>1, <1>4, <1>7, <3>2 DEF HmacInv, StatesInv
      <4>2. ~Running(t) /\ ~(Running(t)')
        BY <1>4, <3>2 DEF Running
      <4>3. context'[t] = context[t] /\ buf'[t] = buf[t]
            /\ key_block'[t] = key_block[t] /\ asked'[t] = asked[t]
        BY <1>4, <1>7, <3>2
      <4> QED
        BY <4>1, <4>2, <4>3, OthersKept
    <3>3. \A t \in HmacIds \ live' : context'[t] = {} /\ buf'[t] = << >>
      BY <1>2, <1>4, <1>7 DEF HmacInv, StatesInv
    <3>4. \A t \in HmacIds \cap live' : HmacState(t)'
      <4>1. cur' = cur
        BY <1>4
      <4> QED
        BY <3>1, <3>2, <4>1
    <3>5. cur' \in live' /\ user' \subseteq {cur'} /\ (wrote_blocks' => context'[cur'] = {})
      BY <1>2, <1>4, <1>7
    <3> QED
      BY <3>3, <3>4, <3>5 DEF StatesInv
  <2>5. panicked' \in BOOLEAN /\ (~DEBUG_ASSERTIONS => ~panicked')
    BY <1>4, NotPanicked
  <2> QED
    BY <2>1, <2>2, <2>3, <2>4, <2>5 DEF HmacInv
<1>8. cur \in Ids /\ context = [t \in Ids |-> context[t]] /\ HmacIds \subseteq Ids
      /\ buf \in [HmacIds -> Seq(Nat)]
  BY <1>2 DEF HashInv, Ids, HmacInv, HmacTypes
<1>9. CASE Len(filled) = Room(words)
  <2> DEFINE v == words \o FullWords(filled)
  <2>1. /\ hw' = Din(RestoreHmac, FullWords(filled))
        /\ context' = [context EXCEPT ![cur] = IF wrote_blocks THEN @ ELSE {}]
        /\ buf' = [buf EXCEPT ![cur] = << >>]
        /\ wrote_blocks' = TRUE /\ user' = {cur}
    BY <1>4, <1>9
  <2>2. RestoreHmac = HmacCore(K, words)
    <3>1. CASE wrote_blocks
      BY <1>2, <3>1 DEF RestoreHmac
    <3>2. CASE ~wrote_blocks
      <4>1. (CHOOSE c \in context[cur] : TRUE) = HmacCore(K, words) /\ context[cur] # {}
        BY <1>2, <3>2
      <4>2. RestoreHmac = Resume(HmacCore(K, words), "hmac")
        BY <3>2, <4>1 DEF RestoreHmac
      <4> QED
        BY <4>2, CoreSteps
    <3> QED
      BY <3>1, <3>2
  <2>3. hw' = HmacCore(K, v)
    BY <2>1, <2>2, CoreSteps
  <2>4. Len(filled) % WORD_SIZE = 0 /\ Suspendable(v) /\ v # << >>
    <3>1. Len(filled) = Room(words) + 0 * SHA2SHORT_BLOCK_SIZE /\ 0 \in Nat
      <4>1. SHA2SHORT_BLOCK_SIZE \in Nat /\ Len(filled) \in Nat
        BY <1>3, PeripheralAssumption, LenProperties DEF SHA2SHORT_BLOCK_SIZE
      <4> QED
        BY <1>9, <4>1
    <3> QED
      BY <1>3, <1>5, <3>1, ChunksSuspend
  <2>5. Bytes(v, 0) = B \o filled
    BY <1>3, <1>5, <2>4, BytesAppendFull DEF Suspendable
  <2> HIDE DEF v, B
  <2>6. /\ HwTyped(hw') /\ hw'.words = v
        /\ context'[cur] = {} /\ buf'[cur] = << >>
        /\ \A t \in HmacIds : t # cur => context'[t] = context[t] /\ buf'[t] = buf[t]
        /\ buf' \in [HmacIds -> Seq(Nat)]
    <3>1. HwTyped(hw')
      BY <2>3, <2>4, CoreIsTyped DEF Suspendable
    <3>2. hw'.words = v
      BY <2>3 DEF HmacCore
    <3>3. context'[cur] = {}
      BY <1>2, <1>8, <2>1
    <3>4. \A t \in HmacIds : t # cur => context'[t] = context[t] /\ buf'[t] = buf[t]
      BY <1>8, <2>1
    <3>5. << >> \in Seq(Nat)
      OBVIOUS
    <3>6. buf' \in [HmacIds -> Seq(Nat)] /\ buf'[cur] = << >>
      BY <1>2, <1>8, <2>1, <3>5
    <3> QED
      BY <3>1, <3>2, <3>3, <3>4, <3>6
  <2>7. Core(cur)' = {hw'}
    BY <1>1, <1>4, <2>1 DEF Core, Running
  <2>8. StateOf(cur, {HmacCore(K, v)}, << >>, key_block[cur], asked[cur], b, {cur}, v)
    <3>1. WordsOf({HmacCore(K, v)}) = v
      <4>1. (CHOOSE c \in {HmacCore(K, v)} : TRUE) = HmacCore(K, v)
        OBVIOUS
      <4>2. HmacCore(K, v).words = v
        BY DEF HmacCore
      <4> QED
        BY <4>1, <4>2 DEF WordsOf
    <3>2. Len(<< >>) < Room(v)
      <4>1. [words |-> v].words = v
        OBVIOUS
      <4>2. Room(v) \in Nat /\ Room(v) > 0
        BY <2>4, <4>1, LevelOfWords
      <4> QED
        BY <4>2
    <3>3. Bytes(v, 0) \o << >> \o b = asked[cur].message
      <4>1. B \o filled \in Seq(Nat)
        BY <1>3, <1>5, ConcatProperties
      <4>2. Bytes(v, 0) \o << >> = Bytes(v, 0)
        BY <2>5, <4>1, ConcatEmptySeq
      <4> QED
        BY <1>6, <2>5, <4>2
    <3>4. K = ExpectedKey(asked[cur].key) /\ key_block[cur] = K
      BY <1>5 DEF K
    <3> QED
      BY <2>4, <3>1, <3>2, <3>3, <3>4 DEF StateOf
  <2>9. StateOf(cur, Core(cur)', buf'[cur], key_block[cur], asked[cur], b, user', hw'.words)
    BY <2>1, <2>3, <2>6, <2>7, <2>8
  <2>10. wrote_blocks' \in BOOLEAN /\ user' \subseteq {cur} /\ user' # {}
    BY <2>1
  <2> QED
    BY <1>7, <2>6, <2>9, <2>10
<1>10. CASE Len(filled) # Room(words)
  <2>1. /\ buf' = [buf EXCEPT ![cur] = filled] /\ hw' = hw /\ context' = context
        /\ wrote_blocks' = wrote_blocks /\ user' = user
    BY <1>4, <1>10
  <2>2. buf' \in [HmacIds -> Seq(Nat)] /\ buf'[cur] = filled
        /\ \A t \in HmacIds : t # cur => buf'[t] = buf[t]
    BY <1>2, <1>3, <1>8, <2>1
  <2>3. HwTyped(hw')
    BY <2>1 DEF HmacInv, HmacTypes, HwTyped
  <2>4. wrote_blocks' \in BOOLEAN
    BY <2>1, Zenon DEF HmacInv, HmacTypes
  <2>5. user' \subseteq {cur} /\ (user' = {} => hw'.words = << >>)
    BY <1>1, <2>1 DEF HmacInv, StatesInv, UserInv
  <2>6. Core(cur)' = Core(cur)
    BY <1>1, <1>4, <2>1 DEF Core, Running
  <2>7. Len(filled) < Room(words)
    <3>1. Len(filled) \in Nat
      BY <1>3, LenProperties
    <3>2. Room(words) \in Nat
      <4>1. [words |-> words].words = words
        OBVIOUS
      <4> QED
        BY <1>5, <4>1, LevelOfWords
    <3> QED
      BY <1>3, <1>10, <3>1, <3>2
  <2>8. StateOf(cur, Core(cur), filled, key_block[cur], asked[cur], b, user, hw.words)
    BY <1>2, <1>6, <2>7 DEF StateOf, words, B
  <2>9. StateOf(cur, Core(cur)', buf'[cur], key_block[cur], asked[cur], b, user', hw'.words)
    BY <2>1, <2>2, <2>6, <2>8
  <2>10. wrote_blocks' => context'[cur] = {}
    BY <1>2, <2>1
  <2> QED
    BY <1>7, <2>1, <2>2, <2>3, <2>4, <2>5, <2>9, <2>10
<1> QED
  BY <1>9, <1>10

\* What finalize has on the peripheral, and the MAC it gives.
LEMMA FinalState ==
  ASSUME HashInv, HmacInv, pc = "idle", NEW s \in HmacIds \cap live
  PROVE  /\ \E w \in Seq(Word) :
               Finalizing(s) = HmacCore(ExpectedKey(asked[s].key), w)
         /\ Mac(s) = Expected(asked[s])
<1> DEFINE words == WordsOf(context[s])
           K == ExpectedKey(asked[s].key)
           w == words \o PaddedWords(buf[s])
<1>1. StateOf(s, context[s], buf[s], key_block[s], asked[s], << >>, user, hw.words)
  <2>1. Core(s) = context[s] /\ Left(s) = << >>
    BY DEF Core, Left, Running
  <2> QED
    BY <2>1 DEF HmacInv, StatesInv, HmacState
<1>2. /\ Suspendable(words) /\ context[s] = {HmacCore(K, words)} /\ key_block[s] = K
      /\ Bytes(words, 0) \o buf[s] \o << >> = asked[s].message
  BY <1>1 DEF StateOf
<1>3. buf[s] \in Seq(Nat)
  BY DEF HmacInv, HmacTypes
<1> HIDE DEF words, K
<1>4. (CHOOSE c \in context[s] : TRUE) = HmacCore(K, words) /\ context[s] # {}
  BY <1>2
<1>5. Finalizing(s) = HmacCore(K, w)
  <2>1. Finalizing(s) = Din(Resume(HmacCore(K, words), "hmac"), PaddedWords(buf[s]))
    BY <1>4 DEF Finalizing
  <2> QED
    BY <2>1, CoreSteps
<1>6. w \in Seq(Word) /\ Bytes(w, LastWordBytes(buf[s])) = Bytes(words, 0) \o buf[s]
  BY <1>2, <1>3, BytesAppend DEF Suspendable, LastWordBytes
<1>7. Bytes(words, 0) \o buf[s] = asked[s].message
  <2> DEFINE B == Bytes(words, 0)
  <2>1. B \in Seq(Nat)
    BY <1>2, BytesAreBytes DEF Suspendable
  <2> HIDE DEF B
  <2>2. B \o buf[s] \in Seq(Nat)
    BY <1>3, <2>1, ConcatProperties
  <2>3. B \o buf[s] \o << >> = B \o buf[s]
    BY <2>2, ConcatEmptySeq
  <2> QED
    BY <1>2, <2>3 DEF B
<1> HIDE DEF w
<1>8. HmacCore(K, w).words = w /\ HmacCore(K, w).inner = K /\ HmacCore(K, w).mode = "hmac"
  BY DEF HmacCore
<1>9. (HmacCore(K, w).intact /\ HmacCore(K, w).mode = "hmac") = TRUE
  <2>1. HmacCore(K, w).intact = TRUE
    BY Zenon DEF HmacCore
  <2> QED
    BY <1>8, <2>1, Zenon
<1>10. Mac(s) = [intact |-> TRUE, inner |-> K, message |-> asked[s].message, outer |-> K]
  BY <1>2, <1>5, <1>6, <1>7, <1>8, <1>9, Zenon DEF Mac, HmacDigest
<1>11. Mac(s) = Expected(asked[s])
  BY <1>10, Zenon DEF Expected, K
<1> QED
  BY <1>5, <1>6, <1>11 DEF K

\* A computation that ends: the others keep their state.
LEMMA ForgetStates ==
  ASSUME HashInv, HmacInv, pc = "idle", pc' = "idle", NEW s \in HmacIds, Forget(s),
         live' = live \ {s},
         \/ user' = user /\ hw' = hw
         \/ user \cap HmacIds \subseteq {s} /\ user' \cap HmacIds = {}
  PROVE  /\ StatesInv' /\ buf' \in [HmacIds -> Seq(Nat)]
         /\ key_block' = [t \in HmacIds |-> key_block'[t]]
         /\ asked' \in [HmacIds -> [key : Seq(Nat), message : Seq(Nat)]]
<1>1. /\ context' = [context EXCEPT ![s] = {}]
      /\ buf' = [buf EXCEPT ![s] = << >>]
      /\ key_block' = [key_block EXCEPT ![s] = << >>]
      /\ asked' = [asked EXCEPT ![s] = [key |-> << >>, message |-> << >>]]
  BY DEF Forget
<1>2. s \in Ids /\ context = [t \in Ids |-> context[t]] /\ HmacIds \subseteq Ids
      /\ buf \in [HmacIds -> Seq(Nat)] /\ key_block = [t \in HmacIds |-> key_block[t]]
      /\ asked \in [HmacIds -> [key : Seq(Nat), message : Seq(Nat)]]
  BY DEF HashInv, Ids, HmacInv, HmacTypes
<1>3. /\ << >> \in Seq(Nat)
      /\ [key |-> << >>, message |-> << >>] \in [key : Seq(Nat), message : Seq(Nat)]
  OBVIOUS
<1>4. buf' \in [HmacIds -> Seq(Nat)]
  BY <1>1, <1>2, <1>3
<1>5. asked' \in [HmacIds -> [key : Seq(Nat), message : Seq(Nat)]]
  BY <1>1, <1>2, <1>3
<1>6. key_block' = [t \in HmacIds |-> key_block'[t]]
  <2>1. DOMAIN key_block' = HmacIds
    BY <1>1, <1>2
  <2> QED
    BY <1>1, <1>2, <2>1
<1>7. ASSUME NEW t \in HmacIds \cap live' PROVE HmacState(t)'
  <2>1. t \in live /\ t # s /\ HmacState(t)
    BY <1>7 DEF HmacInv, StatesInv
  <2>2. ~Running(t) /\ ~(Running(t)')
    BY DEF Running
  <2>3. context'[t] = context[t] /\ buf'[t] = buf[t]
        /\ key_block'[t] = key_block[t] /\ asked'[t] = asked[t]
    BY <1>1, <1>2, <2>1
  <2>4. \/ user' = user /\ hw'.words = hw.words
        \/ t \notin user /\ t \notin user'
    BY <1>7, <2>1
  <2> QED
    BY <2>1, <2>2, <2>3, <2>4, OthersKept
<1>8. \A t \in HmacIds \ live' : context'[t] = {} /\ buf'[t] = << >>
  BY <1>1, <1>2 DEF HmacInv, StatesInv
<1>9. StatesInv'
  BY <1>7, <1>8 DEF StatesInv
<1> QED
  BY <1>4, <1>5, <1>6, <1>9

\* finalize frees the peripheral.
LEMMA HmacFinalizeInv ==
  ASSUME HashInv, HmacInv, Overlap = FALSE, NEW s \in HmacIds, HmacFinalize(s)
  PROVE  HmacInv'
<1>1. /\ pc = "idle" /\ s \in HmacIds \cap live /\ hw' = Done(Finalizing(s)) /\ live' = live \ {s}
      /\ user' = {} /\ Forget(s) /\ user \cap HmacIds \subseteq {s}
      /\ UNCHANGED <<panicked, hashed, callVars>>
  BY Alone DEF HmacFinalize, Idle
<1>2. pc' = pc /\ cur' = cur /\ remaining' = remaining /\ wrote_blocks' = wrote_blocks
      /\ panicked' = panicked
  BY <1>1 DEF callVars
<1>3. PICK w \in Seq(Word) : Finalizing(s) = HmacCore(ExpectedKey(asked[s].key), w)
  BY <1>1, FinalState
<1>4. hw' = HmacCore(ExpectedKey(asked[s].key), << >>)
  BY <1>1, <1>3, CoreSteps
<1>5. HwTyped(hw') /\ hw'.words = << >>
  <2>1. << >> \in Seq(Word)
    OBVIOUS
  <2> QED
    BY <1>4, <2>1, CoreIsTyped DEF HmacCore
<1>6. user' \cap HmacIds = {}
  BY <1>1
<1>7. /\ StatesInv' /\ buf' \in [HmacIds -> Seq(Nat)]
      /\ key_block' = [t \in HmacIds |-> key_block'[t]]
      /\ asked' \in [HmacIds -> [key : Seq(Nat), message : Seq(Nat)]]
  BY <1>1, <1>2, <1>6, ForgetStates
<1>8. HmacTypes'
  <2>1. wrote_blocks' \in BOOLEAN
    BY <1>2, Zenon DEF HmacInv, HmacTypes
  <2> QED
    BY <1>1, <1>2, <1>5, <1>7, <2>1 DEF HmacInv, HmacTypes, HwTyped
<1>9. UserInv' /\ KeyInv'
  BY <1>1, <1>2, <1>5 DEF UserInv, KeyInv
<1>10. panicked' \in BOOLEAN /\ (~DEBUG_ASSERTIONS => ~panicked')
  BY <1>2, NotPanicked
<1> QED
  BY <1>7, <1>8, <1>9, <1>10 DEF HmacInv

\* A state that goes out of scope may leave its blocks in the peripheral; they
\* are nobody's then.
LEMMA DropInv ==
  ASSUME HashInv, HmacInv, NEW s \in Ids, Drop(s)
  PROVE  HmacInv'
<1>1. /\ pc = "idle" /\ s \in live /\ live' = live \ {s} /\ hw' = hw
      /\ user' = IF user = {s} THEN {"abandoned"} ELSE user
      /\ UNCHANGED <<panicked, hashed, callVars>>
  BY DEF Drop, Idle
<1>2. pc' = pc /\ cur' = cur /\ remaining' = remaining /\ wrote_blocks' = wrote_blocks
      /\ panicked' = panicked
  BY <1>1 DEF callVars
<1>3. HwTyped(hw')
  BY <1>1 DEF HmacInv, HmacTypes, HwTyped
<1>4. "abandoned" \notin HmacIds
  BY CallerAssumption
<1>5. UserInv'
  BY <1>1, <1>2, <1>4 DEF HmacInv, UserInv
<1>6. CASE s \in HmacIds
  <2>1. Forget(s)
    BY <1>6 DEF Drop
  <2>2. \/ user' = user /\ hw' = hw
        \/ user \cap HmacIds \subseteq {s} /\ user' \cap HmacIds = {}
    BY <1>1, <1>4
  <2>3. /\ StatesInv' /\ buf' \in [HmacIds -> Seq(Nat)]
        /\ key_block' = [t \in HmacIds |-> key_block'[t]]
        /\ asked' \in [HmacIds -> [key : Seq(Nat), message : Seq(Nat)]]
    BY <1>1, <1>2, <1>6, <2>1, <2>2, ForgetStates
  <2>4. HmacTypes'
    <3>1. wrote_blocks' \in BOOLEAN
      BY <1>2, Zenon DEF HmacInv, HmacTypes
    <3> QED
      BY <1>1, <1>2, <1>3, <2>3, <3>1 DEF HmacInv, HmacTypes, HwTyped
  <2>5. KeyInv'
    BY <1>1, <1>2 DEF KeyInv
  <2>6. panicked' \in BOOLEAN /\ (~DEBUG_ASSERTIONS => ~panicked')
    BY <1>2, NotPanicked
  <2> QED
    BY <1>5, <2>3, <2>4, <2>5, <2>6 DEF HmacInv
<1>7. CASE s \notin HmacIds
  <2>1. context' = [context EXCEPT ![s] = {}] /\ UNCHANGED hmacVars
    BY <1>7 DEF Drop
  <2>2. \A t \in HmacIds : context'[t] = context[t]
    BY <1>7, <2>1 DEF HashInv, Ids
  <2>3. live' \subseteq Ids /\ live' \cap HmacIds = live \cap HmacIds
    BY <1>1, <1>7 DEF HmacInv, HmacTypes
  <2>4. /\ user' = {} \/ \E u \in Ids \cup {"abandoned"} : user' = {u}
        /\ user' = {} => hw'.words = << >>
    BY <1>1, <1>2, <1>5 DEF UserInv
  <2>5. \/ user' = user /\ hw'.words = hw.words
        \/ user \cap HmacIds = {} /\ user' \cap HmacIds = {}
    BY <1>1, <1>4, <1>7
  <2> QED
    BY <1>1, <1>3, <2>1, <2>2, <2>3, <2>4, <2>5, QuietStep
<1> QED
  BY <1>6, <1>7

\* A clone is made of a computation without blocks in the peripheral.
LEMMA HmacCloneInv ==
  ASSUME HashInv, HmacInv, Overlap = FALSE, NEW s \in HmacIds, NEW t \in HmacIds,
         HmacClone(s, t)
  PROVE  HmacInv'
<1>1. /\ pc = "idle" /\ s \in live /\ t \notin live /\ live' = live \cup {t} /\ s \notin user
      /\ context' = [context EXCEPT ![t] = context[s]]
      /\ buf' = [buf EXCEPT ![t] = buf[s]]
      /\ key_block' = [key_block EXCEPT ![t] = key_block[s]]
      /\ asked' = [asked EXCEPT ![t] = asked[s]]
      /\ UNCHANGED <<hw, panicked, user, hashed, callVars>>
  BY DEF HmacClone, Idle
<1>2. pc' = pc /\ cur' = cur /\ remaining' = remaining /\ wrote_blocks' = wrote_blocks
      /\ panicked' = panicked /\ hw' = hw /\ user' = user
  BY <1>1 DEF callVars
<1>3. t \in Ids /\ context = [x \in Ids |-> context[x]] /\ HmacIds \subseteq Ids
      /\ buf \in [HmacIds -> Seq(Nat)] /\ key_block = [x \in HmacIds |-> key_block[x]]
      /\ asked \in [HmacIds -> [key : Seq(Nat), message : Seq(Nat)]]
  BY DEF HashInv, Ids, HmacInv, HmacTypes
<1>4. HmacTypes'
  <2>1. wrote_blocks' \in BOOLEAN
    BY <1>2, Zenon DEF HmacInv, HmacTypes
  <2>2. HwTyped(hw')
    BY <1>2 DEF HmacInv, HmacTypes, HwTyped
  <2>3. buf' \in [HmacIds -> Seq(Nat)]
    BY <1>1, <1>3
  <2>4. asked' \in [HmacIds -> [key : Seq(Nat), message : Seq(Nat)]]
    BY <1>1, <1>3
  <2>5. key_block' = [x \in HmacIds |-> key_block'[x]]
    <3>1. DOMAIN key_block' = HmacIds
      BY <1>1, <1>3
    <3> QED
      BY <1>1, <1>3, <3>1
  <2>6. live' \subseteq Ids
    BY <1>1, <1>3 DEF HmacInv, HmacTypes
  <2> QED
    BY <1>2, <2>1, <2>2, <2>3, <2>4, <2>5, <2>6 DEF HmacInv, HmacTypes, HwTyped
<1>5. UserInv'
  BY <1>1, <1>2 DEF HmacInv, UserInv
<1>6. KeyInv'
  BY <1>1, <1>2 DEF KeyInv
<1>7. StatesInv'
  <2>1. ASSUME NEW x \in HmacIds \cap live' PROVE HmacState(x)'
    <3>1. CASE x = t
      <4>1. Core(s) = context[s] /\ Left(s) = << >>
        BY <1>1 DEF Core, Left, Running
      <4>2. StateOf(s, context[s], buf[s], key_block[s], asked[s], << >>, user, hw.words)
        BY <1>1, <4>1 DEF HmacInv, StatesInv, HmacState
      <4>3. t \notin user
        BY <1>1 DEF HmacInv, UserInv
      <4>4. StateOf(t, context[s], buf[s], key_block[s], asked[s], << >>, user, hw.words)
        BY <1>1, <4>2, <4>3 DEF StateOf
      <4>5. Core(t)' = context[s] /\ Left(t)' = << >> /\ buf'[t] = buf[s]
            /\ key_block'[t] = key_block[s] /\ asked'[t] = asked[s]
        BY <1>1, <1>2, <1>3 DEF Core, Left, Running
      <4>6. HmacState(t)'
              = StateOf(t, Core(t)', buf'[t], key_block'[t], asked'[t], Left(t)', user', hw'.words)
        BY DEF HmacState
      <4> QED
        BY <1>2, <3>1, <4>4, <4>5, <4>6
    <3>2. CASE x # t
      <4>1. x \in live /\ HmacState(x)
        BY <1>1, <2>1, <3>2 DEF HmacInv, StatesInv
      <4>2. ~Running(x) /\ ~(Running(x)')
        BY <1>1, <1>2 DEF Running
      <4>3. context'[x] = context[x] /\ buf'[x] = buf[x]
            /\ key_block'[x] = key_block[x] /\ asked'[x] = asked[x]
            /\ user' = user /\ hw'.words = hw.words
        BY <1>1, <1>2, <1>3, <3>2
      <4> QED
        BY <4>1, <4>2, <4>3, OthersKept
    <3> QED
      BY <3>1, <3>2
  <2>2. \A x \in HmacIds \ live' : context'[x] = {} /\ buf'[x] = << >>
    BY <1>1, <1>3 DEF HmacInv, StatesInv
  <2> QED
    BY <1>1, <1>2, <2>1, <2>2 DEF StatesInv
<1>8. panicked' \in BOOLEAN /\ (~DEBUG_ASSERTIONS => ~panicked')
  BY <1>2, NotPanicked
<1> QED
  BY <1>4, <1>5, <1>6, <1>7, <1>8 DEF HmacInv

-----------------------------------------------------------------------------
(* The theorems about HMAC *)

\* The driver starts with no computation.
LEMMA HmacInit ==
  ASSUME Init
  PROVE  HmacInv
<1>1. hw = HashCore(<< >>)
  BY CoreSteps DEF Init
<1>2. HwTyped(hw) /\ hw.words = << >>
  <2>1. << >> \in Seq(Word)
    OBVIOUS
  <2> QED
    BY <1>1, <2>1, CoreIsTyped DEF HashCore
<1>3. HmacTypes
  <2>1. wrote_blocks \in BOOLEAN
    BY Zenon DEF Init
  <2>2. << >> \in Seq(Nat) /\ remaining \in Seq(Nat)
    BY DEF Init
  <2> QED
    BY <1>2, <2>1, <2>2 DEF Init, HmacTypes, HwTyped
<1>4. UserInv /\ KeyInv
  BY <1>2 DEF Init, UserInv, KeyInv
<1>5. StatesInv
  BY DEF Init, StatesInv, Ids
<1>6. panicked \in BOOLEAN /\ (~DEBUG_ASSERTIONS => ~panicked)
  BY Zenon DEF Init
<1> QED
  BY <1>3, <1>4, <1>5, <1>6 DEF HmacInv

\* Every step keeps the invariant.
LEMMA HmacNext ==
  ASSUME HashInv, HmacInv, Overlap = FALSE, [Next]_vars
  PROVE  HmacInv'
<1>1. CASE UNCHANGED vars
  <2>1. panicked' = panicked
        /\ UNCHANGED <<hw, user, live, context, hashed, hmacVars, callVars>>
    BY <1>1 DEF vars
  <2> QED
    BY <2>1, NotPanicked, PanicInv
<1>2. ASSUME NEW s \in HashIds,
             \/ HashInit(s)
             \/ \E d \in Chunks : HashUpdate(s, d) \/ HashFinalize(s, d)
             \/ \E t \in HashIds : HashClone(s, t)
      PROVE  HmacInv'
  BY <1>2, HashStepsInv
<1>3. ASSUME NEW s \in HmacIds,
             \/ \E key \in KeyData : LoadShortKey(s, key) \/ LoadLongKey(s, key)
             \/ \E d \in Chunks : HmacUpdate(s, d)
             \/ HmacFinalize(s)
             \/ \E t \in HmacIds : HmacClone(s, t)
      PROVE  HmacInv'
  BY <1>3, LoadShortKeyInv, LoadLongKeyInv, HmacUpdateInv, HmacFinalizeInv, HmacCloneInv
<1>4. ASSUME NEW s \in Ids, Drop(s) PROVE HmacInv'
  BY <1>4, DropInv
<1>5. ASSUME CallStep PROVE HmacInv'
  BY <1>5, Sha256OfUpdateInv, Sha256OfFinalizeInv, HmacFillInv, HmacReturnInv DEF CallStep
<1> QED
  BY <1>1, <1>2, <1>3, <1>4, <1>5 DEF Next

(***************************************************************************)
(* Callers who do not let HMAC computations take turns with others find    *)
(* every HmacState of the driver in order: what its context, its buffer    *)
(* and the bytes still to take stand for is its key and its message, and   *)
(* the fill level that update reads from the peripheral is its own.        *)
(***************************************************************************)
THEOREM HmacStatesSound ==
  ASSUME Overlap = FALSE
  PROVE  Spec => [](HashInv /\ HmacInv)
<1>1. Init => HmacInv
  BY HmacInit
<1>2. HashInv /\ HmacInv /\ [Next]_vars => HmacInv'
  BY HmacNext
<1> QED
  BY <1>1, <1>2, HashStatesSound, PTL DEF Spec

\* finalize of an HmacState returns the MAC of the key loaded and the message
\* fed, keys longer than a block and clones included, in either build.
THEOREM MacsCorrect ==
  ASSUME Overlap = FALSE
  PROVE  Spec => []MacPromise
<1>1. HashInv /\ HmacInv => MacPromise
  BY FinalState DEF MacPromise, Idle
<1> QED
  BY <1>1, HmacStatesSound, PTL

\* In a release build no slice of the driver fails: HmacState.buf has room for
\* what the peripheral's fill level asks for.
THEOREM DriverNeverPanics ==
  ASSUME Overlap = FALSE, DEBUG_ASSERTIONS = FALSE
  PROVE  Spec => []NoPanic
<1>1. HmacInv => NoPanic
  BY DEF HmacInv, NoPanic
<1> QED
  BY <1>1, HmacStatesSound, PTL

\* The registers, contexts and buffers have their types: in particular every
\* word in the peripheral and in a context is complete, and no buffer is
\* longer than the array that holds it.
THEOREM DriverTypes ==
  ASSUME Overlap = FALSE
  PROVE  Spec => []TypeOK
<1>1. ASSUME HashInv, HmacInv PROVE TypeOK
  <2>1. \A w \in Seq(Word) : \A k \in 1 .. Len(w) : Len(w[k]) = WORD_SIZE
    <3> SUFFICES ASSUME NEW w \in Seq(Word), NEW k \in 1 .. Len(w)
                 PROVE  Len(w[k]) = WORD_SIZE
      OBVIOUS
    <3>1. w[k] \in Word
      BY ElementOfSeq
    <3> QED
      BY <3>1, PeripheralAssumption, FunctionIsSeq DEF Word
  <2>2. ASSUME NEW s \in Ids, NEW c \in context[s] PROVE c.words \in Seq(Word)
    <3>1. CASE s \in HashIds
      <4> DEFINE w == WordsOf(context[s])
      <4>1. Suspendable(w) /\ context[s] = IF w = << >> THEN {} ELSE {HashCore(w)}
        BY <1>1, <3>1 DEF HashInv, HashContext
      <4> HIDE DEF w
      <4>2. c = HashCore(w)
        BY <2>2, <4>1
      <4>3. HashCore(w).words = w
        BY DEF HashCore
      <4> QED
        BY <4>1, <4>2, <4>3 DEF Suspendable
    <3>2. CASE s \notin HashIds
      <4> DEFINE w == WordsOf(Core(s))
                 K == ExpectedKey(asked[s].key)
      <4>1. s \in HmacIds /\ s \in live
        BY <1>1, <2>2, <3>2 DEF HmacInv, StatesInv, Ids
      <4>2. Suspendable(w) /\ Core(s) = {HmacCore(K, w)}
        BY <1>1, <4>1 DEF HmacInv, StatesInv, HmacState, StateOf
      <4>3. context[s] = Core(s)
        BY <1>1, <2>2, <4>1 DEF HmacInv, StatesInv, Core, Running
      <4> HIDE DEF w, K
      <4>4. c = HmacCore(K, w)
        BY <2>2, <4>2, <4>3
      <4>5. HmacCore(K, w).words = w
        BY DEF HmacCore
      <4> QED
        BY <4>2, <4>4, <4>5 DEF Suspendable
    <3> QED
      BY <3>1, <3>2
  <2>3. \A c \in {hw} \cup UNION {context[s] : s \in Ids} :
          \A k \in 1 .. Len(c.words) : Len(c.words[k]) = WORD_SIZE
    <3>1. \A c \in {hw} \cup UNION {context[s] : s \in Ids} : c.words \in Seq(Word)
      BY <1>1, <2>2 DEF HmacInv, HmacTypes
    <3> QED
      BY <2>1, <3>1
  <2>4. ASSUME NEW s \in HmacIds PROVE Len(buf[s]) <= HMAC_MAX_BLOCK_SIZE
    <3>0. buf[s] \in Seq(Nat) /\ Len(buf[s]) \in Nat /\ HMAC_MAX_BLOCK_SIZE \in Nat
      BY <1>1, LenProperties, PeripheralAssumption DEF HmacInv, HmacTypes
    <3>1. CASE s \in live
      <4> DEFINE w == WordsOf(Core(s))
      <4>1. Suspendable(w) /\ Len(buf[s]) < Room(w)
        BY <1>1, <3>1 DEF HmacInv, StatesInv, HmacState, StateOf
      <4> HIDE DEF w
      <4>2. [words |-> w].words = w
        OBVIOUS
      <4>3. Room(w) \in Nat /\ Room(w) <= HMAC_MAX_BLOCK_SIZE
        BY <4>1, <4>2, LevelOfWords
      <4> QED
        BY <3>0, <4>1, <4>3
    <3>2. CASE s \notin live
      <4>1. buf[s] = << >>
        BY <1>1, <3>2 DEF HmacInv, StatesInv
      <4> QED
        BY <3>0, <4>1
    <3> QED
      BY <3>1, <3>2
  <2>5. hw.intact \in BOOLEAN
    <3>1. hw = [mode |-> hw.mode, inner |-> hw.inner, words |-> hw.words, intact |-> TRUE]
      BY <1>1, Zenon DEF HmacInv, HmacTypes
    <3>a. PICK r : r = [mode |-> hw.mode, inner |-> hw.inner, words |-> hw.words, intact |-> TRUE]
      OBVIOUS
    <3>b. r.intact = TRUE
      BY <3>a, Zenon
    <3>2. hw.intact = TRUE
      BY <3>1, <3>a, <3>b, Zenon
    <3> QED
      BY <3>2, Zenon
  <2>6. hw.mode \in {"hash", "hmac"} /\ live \subseteq Ids
        /\ pc \in {"idle", "sha256_of", "hmac_update"} /\ cur \in HmacIds
    BY <1>1 DEF HmacInv, HmacTypes
  <2>7. user \subseteq Ids \cup {"abandoned"}
    BY <1>1 DEF HmacInv, UserInv
  <2>8. panicked \in BOOLEAN /\ wrote_blocks \in BOOLEAN
    BY <1>1, Zenon DEF HmacInv, HmacTypes
  <2> QED
    BY <2>3, <2>4, <2>5, <2>6, <2>7, <2>8, Zenon DEF TypeOK
<1> QED
  BY <1>1, HmacStatesSound, PTL
=============================================================================
