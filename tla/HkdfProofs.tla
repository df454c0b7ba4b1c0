----------------------------- MODULE HkdfProofs -----------------------------
(***************************************************************************)
(* Proofs about HKDF (Hkdf) and about the HMACs it runs on                 *)
(* (HkdfProviders): for every digest length, number of blocks, argument    *)
(* and length of the output key material.                                  *)
(***************************************************************************)
EXTENDS HkdfProviders, SequenceTheorems, NaturalsInduction,
        WellFoundedInduction, Integers, TLAPS

-----------------------------------------------------------------------------
(* Blocks of HashLen bytes *)

\* The quotient and the remainder of byte r of block b.
LEMMA BlockOfByte ==
  ASSUME NEW b \in Nat, NEW r \in 0 .. HashLen - 1
  PROVE  /\ (b * HashLen + r) \div HashLen = b
         /\ (b * HashLen + r) % HashLen = r
<1> DEFINE H == HashLen
           a == b * H + r
           q == a \div H
           m == a % H
<1>0. H \in Nat \ {0} /\ r \in 0 .. H - 1
  BY HkdfAssumption
<1> HIDE DEF H
<1>1. a \in Nat
  BY <1>0
<1>a. a = b * H + r
  OBVIOUS
<1> HIDE DEF a
<1>2. m = a - H * q
  BY <1>0, <1>1, Z3
<1>3. q \in Nat /\ m \in 0 .. H - 1
  BY <1>0, <1>1
<1> HIDE DEF q, m
<1>4. H * (q - b) = H * q - H * b /\ H * (b - q) = H * b - H * q /\ b * H = H * b
  BY <1>0, <1>3
<1>5. \A k \in Int : k >= 1 => H * k >= H
  BY <1>0
<1>6. ~(q - b >= 1)
  BY <1>0, <1>1, <1>a, <1>2, <1>3, <1>4, <1>5
<1>7. ~(b - q >= 1)
  BY <1>0, <1>1, <1>a, <1>2, <1>3, <1>4, <1>5
<1>8. q = b
  BY <1>3, <1>6, <1>7
<1>9. m = r
  BY <1>0, <1>1, <1>a, <1>2, <1>3, <1>4, <1>8
<1> QED
  BY <1>8, <1>9 DEF q, m, a, H

\* Blocks end where the next one begins, and more blocks are more bytes.
LEMMA BlockBounds ==
  ASSUME NEW b \in Nat
  PROVE  /\ b * HashLen \in Nat
         /\ (b + 1) * HashLen = b * HashLen + HashLen
         /\ \A c \in Nat : b * HashLen < c * HashLen => b < c
<1> DEFINE H == HashLen
<1>0. H \in Nat \ {0}
  BY HkdfAssumption
<1> HIDE DEF H
<1>1. b * H \in Nat /\ (b + 1) * H = b * H + H
  BY <1>0
<1>2. ASSUME NEW c \in Nat, b * H < c * H, ~(b < c) PROVE FALSE
  <2>1. b - c \in Nat
    BY <1>2
  <2>2. (b - c) * H >= 0
    BY <1>0, <2>1
  <2>3. (b - c) * H = b * H - c * H
    BY <1>0
  <2>4. b * H \in Int /\ c * H \in Int
    BY <1>0
  <2> HIDE <2>1
  <2> QED
    BY <1>2, <2>2, <2>3, <2>4
<1> QED
  BY <1>1, <1>2 DEF H

-----------------------------------------------------------------------------
(* The loop of hkdf_expand *)

(***************************************************************************)
(* b iterations are done: t is T(b), the chain of the counters 1 to b,     *)
(* t_len says so, pos is at the end of block b or of okm, and block b was  *)
(* wanted.                                                                 *)
(***************************************************************************)
AtBlock(b) ==
  /\ t = [k \in 1 .. b |-> k]
  /\ t_len = (IF b = 0 THEN 0 ELSE HashLen)
  /\ pos = (IF b * HashLen <= Len(okm) THEN b * HashLen ELSE Len(okm))

\* okm is a buffer.
OkmInv == Len(okm) \in Nat /\ okm = [p \in 1 .. Len(okm) |-> okm[p]]

LoopInv ==
  pc = "expand" =>
    /\ result # "Ok"
    /\ Len(okm) <= MaxBlocks * HashLen
    /\ \E b \in Nat : AtBlock(b)

HkdfInv == OkmInv /\ LoopInv /\ info \in Infos /\ OkmIsRfc

\* The length of a sequence that is written as a function.
LEMMA LenOfFunction ==
  ASSUME NEW n \in Nat, NEW f, f = [k \in 1 .. n |-> f[k]]
  PROVE  Len(f) = n /\ f \in Seq({f[k] : k \in 1 .. n})
<1>1. f \in [1 .. n -> {f[k] : k \in 1 .. n}]
  BY Zenon
<1>2. f \in Seq({f[k] : k \in 1 .. n})
  BY <1>1, SeqDef
<1> QED
  BY <1>1, <1>2, LenProperties

\* Before the first call there is no output to be right about.
LEMMA HkdfInitInv == Init => HkdfInv
BY DEF Init, HkdfInv, OkmInv, LoopInv, OkmIsRfc

\* hkdf_extract replaces the pseudorandom key between expands.
LEMMA ExtractInv ==
  ASSUME HkdfInv, NEW salt, NEW ikm, HkdfExtract(salt, ikm)
  PROVE  HkdfInv'
BY DEF HkdfExtract, HkdfInv, OkmInv, LoopInv, OkmIsRfc

\* hkdf_expand checks the length and starts at block 0.
LEMMA ExpandInv ==
  ASSUME HkdfInv, NEW i \in Infos, NEW len \in OkmLengths, HkdfExpand(i, len)
  PROVE  HkdfInv'
<1>0. len \in Nat /\ HashLen \in Nat \ {0}
  BY HkdfAssumption
<1>1. CASE TooLong(len)
  BY <1>1 DEF HkdfExpand, HkdfInv, OkmInv, LoopInv, OkmIsRfc
<1>2. CASE ~TooLong(len)
  <2>1. okm' = [p \in 1 .. len |-> << >>] /\ t' = << >> /\ t_len' = 0 /\ pos' = 0
        /\ result' = "none"
    BY <1>2 DEF HkdfExpand
  <2>2. Len(okm') = len /\ okm' = [p \in 1 .. len |-> okm'[p]]
    BY <1>0, <2>1, LenOfFunction
  <2>3. OkmInv'
    BY <1>0, <2>2 DEF OkmInv
  <2>4. AtBlock(0)'
    <3>1. 0 * HashLen = 0
      BY <1>0
    <3> QED
      BY <1>0, <2>1, <2>2, <3>1 DEF AtBlock
  <2>5. len <= MaxBlocks * HashLen
    BY <1>0, <1>2, HkdfAssumption DEF TooLong
  <2>6. LoopInv'
    BY <2>1, <2>2, <2>4, <2>5 DEF LoopInv
  <2>7. OkmIsRfc'
    BY <2>1 DEF OkmIsRfc
  <2> QED
    BY <2>3, <2>6, <2>7 DEF HkdfExpand, HkdfInv
<1> QED
  BY <1>1, <1>2

(***************************************************************************)
(* One iteration: it computes block b + 1 with the counter b + 1, which    *)
(* did not wrap, from T(b), and writes bytes of that block only.           *)
(***************************************************************************)
LEMMA BlockFacts ==
  ASSUME HkdfInv, ExpandBlock
  PROVE  \E b \in Nat :
           /\ AtBlock(b) /\ AtBlock(b + 1)'
           /\ b < MaxBlocks /\ Counter = b + 1 /\ pos = b * HashLen
           /\ Take \in 1 .. HashLen /\ pos + Take <= Len(okm)
           /\ \A p \in pos + 1 .. pos + Take :
                (p - 1) \div HashLen = b /\ (p - 1) % HashLen = p - pos - 1
<1>0. HashLen \in Nat \ {0} /\ MaxBlocks \in Nat /\ COUNTER_VALUES \in Nat
      /\ MaxBlocks < COUNTER_VALUES
  BY HkdfAssumption
<1>1. Len(okm) \in Nat
  BY DEF HkdfInv, OkmInv
<1>2. PICK b \in Nat : AtBlock(b)
  BY DEF HkdfInv, LoopInv, ExpandBlock
<1>3. pos = b * HashLen /\ pos < Len(okm)
  BY <1>1, <1>2 DEF AtBlock, ExpandBlock
<1>4. pos \in Nat /\ (b + 1) * HashLen = pos + HashLen
  BY <1>3, BlockBounds
<1>5. b < MaxBlocks
  <2>1. b * HashLen < MaxBlocks * HashLen
    <3>1. Len(okm) <= MaxBlocks * HashLen
      BY DEF HkdfInv, LoopInv, ExpandBlock
    <3>2. MaxBlocks * HashLen \in Nat
      BY <1>0, BlockBounds
    <3> HIDE DEF HkdfInv
    <3> QED
      BY <1>1, <1>3, <1>4, <3>1, <3>2
  <2> QED
    BY <1>0, <2>1, BlockBounds
<1>6. Counter = b + 1
  <2>1. 0 \in 0 .. HashLen - 1
    BY <1>0
  <2>2. (b * HashLen + 0) \div HashLen = b
    BY <2>1, BlockOfByte
  <2>3. b * HashLen + 0 = pos
    BY <1>3, <1>4
  <2>4. b + 1 \in 0 .. COUNTER_VALUES - 1
    BY <1>0, <1>5
  <2>5. (b + 1) % COUNTER_VALUES = b + 1
    BY <1>0, <2>4
  <2> QED
    BY <2>2, <2>3, <2>5 DEF Counter
<1>7. /\ Take \in 1 .. HashLen /\ pos + Take <= Len(okm)
      /\ pos + Take = IF pos + HashLen <= Len(okm) THEN pos + HashLen ELSE Len(okm)
  <2>1. CASE Len(okm) - pos < HashLen
    <3>1. Take = Len(okm) - pos
      BY <2>1 DEF Take
    <3> QED
      BY <1>0, <1>1, <1>3, <1>4, <2>1, <3>1
  <2>2. CASE ~(Len(okm) - pos < HashLen)
    <3>1. Take = HashLen
      BY <2>2 DEF Take
    <3> QED
      BY <1>0, <1>1, <1>3, <1>4, <2>2, <3>1
  <2> QED
    BY <2>1, <2>2
<1>8. ASSUME NEW p \in pos + 1 .. pos + Take
      PROVE  (p - 1) \div HashLen = b /\ (p - 1) % HashLen = p - pos - 1
  <2>1. p - pos - 1 \in 0 .. HashLen - 1
    BY <1>0, <1>4, <1>7
  <2>2. b * HashLen + (p - pos - 1) = p - 1
    BY <1>3, <1>4, <1>7
  <2>3. /\ (b * HashLen + (p - pos - 1)) \div HashLen = b
        /\ (b * HashLen + (p - pos - 1)) % HashLen = p - pos - 1
    BY <2>1, BlockOfByte
  <2> QED
    BY <2>2, <2>3
<1>9. AtBlock(b + 1)'
  <2>1. t' = [k \in 1 .. b + 1 |-> k]
    <3>1. (IF t_len > 0 THEN t ELSE << >>) = [k \in 1 .. b |-> k]
      <4>1. CASE b = 0
        BY <1>2, <4>1 DEF AtBlock
      <4>2. CASE b # 0
        BY <1>0, <1>2, <4>2 DEF AtBlock
      <4> QED
        BY <4>1, <4>2
    <3>2. Append([k \in 1 .. b |-> k], b + 1) = [k \in 1 .. b + 1 |-> k]
      <4> DEFINE c == [k \in 1 .. b |-> k]
                 d == [k \in 1 .. b + 1 |-> k]
      <4>1. c \in [1 .. b -> Nat] /\ d \in [1 .. b + 1 -> Nat]
        OBVIOUS
      <4>2. c \in Seq(Nat) /\ Len(c) = b /\ d \in Seq(Nat) /\ Len(d) = b + 1
        BY <4>1, SeqDef, LenProperties
      <4>3. \A k \in 1 .. b : c[k] = k
        OBVIOUS
      <4>4. \A k \in 1 .. b + 1 : d[k] = k
        OBVIOUS
      <4> HIDE DEF c, d
      <4>5. Append(c, b + 1) \in Seq(Nat) /\ Len(Append(c, b + 1)) = b + 1
            /\ \A k \in 1 .. b + 1 : Append(c, b + 1)[k] = k
        BY <4>2, <4>3
      <4>6. Append(c, b + 1) = d
        BY <4>2, <4>4, <4>5, SeqEqual
      <4> QED
        BY <4>6 DEF c, d
    <3> QED
      BY <1>6, <3>1, <3>2 DEF ExpandBlock, Chained
  <2>2. t_len' = HashLen /\ pos' = pos + Take
    BY DEF ExpandBlock
  <2>3. Len(okm') = Len(okm)
    <3>1. okm' = [p \in 1 .. Len(okm) |-> okm'[p]]
      BY DEF ExpandBlock
    <3> QED
      BY <1>1, <3>1, LenOfFunction
  <2> QED
    BY <1>4, <1>7, <2>1, <2>2, <2>3 DEF AtBlock
<1> QED
  BY <1>2, <1>3, <1>5, <1>6, <1>7, <1>8, <1>9

\* An iteration of the loop of hkdf_expand leads from one block to the next.
LEMMA BlockInv ==
  ASSUME HkdfInv, ExpandBlock
  PROVE  HkdfInv'
<1>1. PICK b \in Nat :
        /\ AtBlock(b) /\ AtBlock(b + 1)'
        /\ b < MaxBlocks /\ Counter = b + 1 /\ pos = b * HashLen
        /\ Take \in 1 .. HashLen /\ pos + Take <= Len(okm)
        /\ \A p \in pos + 1 .. pos + Take :
             (p - 1) \div HashLen = b /\ (p - 1) % HashLen = p - pos - 1
  BY BlockFacts
<1>2. OkmInv' /\ Len(okm') = Len(okm) /\ Len(okm) \in Nat
  <2>1. okm' = [p \in 1 .. Len(okm) |-> okm'[p]] /\ Len(okm) \in Nat
    BY DEF ExpandBlock, HkdfInv, OkmInv
  <2> QED
    BY <2>1, LenOfFunction DEF OkmInv
<1>3. LoopInv'
  <2>1. b + 1 \in Nat
    OBVIOUS
  <2> QED
    BY <1>1, <1>2, <2>1 DEF LoopInv, ExpandBlock, HkdfInv
<1>4. prk' = prk /\ info' = info /\ pc' = "expand" /\ result' = result /\ pc = "expand"
      /\ pos' = pos + Take
  BY DEF ExpandBlock
<1>5. result # "Ok"
  BY <1>4 DEF HkdfInv, LoopInv
<1>6. ASSUME NEW p \in 1 .. pos' PROVE okm'[p] = RfcByte(p)'
  <2>0. pos \in Nat /\ p \in 1 .. Len(okm)
    BY <1>1, <1>2, <1>4, <1>6, BlockBounds, HkdfAssumption
  <2>1. CASE p \in 1 .. pos
    <3>1. okm[p] = RfcByte(p)
      BY <1>4, <2>1 DEF HkdfInv, OkmIsRfc
    <3>2. okm'[p] = okm[p]
      BY <2>0, <2>1 DEF ExpandBlock
    <3> QED
      BY <1>4, <3>1, <3>2 DEF RfcByte
  <2>2. CASE p \in pos + 1 .. pos + Take
    <3>1. okm'[p] = <<prk, info, t', p - pos>>
      BY <2>0, <2>2 DEF ExpandBlock
    <3>2. (p - 1) \div HashLen = b /\ (p - 1) % HashLen = p - pos - 1
      BY <1>1, <2>2
    <3>3. (p - pos - 1) + 1 = p - pos
      BY <2>0
    <3>4. t' = [k \in 1 .. b + 1 |-> k]
      BY <1>1 DEF AtBlock
    <3> QED
      BY <1>4, <3>1, <3>2, <3>3, <3>4 DEF RfcByte
  <2> QED
    BY <1>1, <1>4, <1>6, <2>0, <2>1, <2>2, HkdfAssumption
<1> QED
  BY <1>2, <1>3, <1>4, <1>5, <1>6 DEF HkdfInv, OkmIsRfc

\* All of okm is behind pos when the loop ends.
LEMMA ReturnInv ==
  ASSUME HkdfInv, ExpandReturn
  PROVE  HkdfInv' /\ pos = Len(okm)
<1>1. PICK b \in Nat : AtBlock(b)
  BY DEF HkdfInv, LoopInv, ExpandReturn
<1>2. pos = Len(okm)
  BY <1>1, BlockBounds DEF AtBlock, HkdfInv, OkmInv, ExpandReturn
<1>3. \A p \in 1 .. Len(okm) : okm[p] = RfcByte(p)
  BY <1>2 DEF HkdfInv, OkmIsRfc, ExpandReturn
<1>4. OkmIsRfc'
  BY <1>3 DEF ExpandReturn, OkmIsRfc, RfcByte
<1> QED
  BY <1>2, <1>4 DEF ExpandReturn, HkdfInv, OkmInv, LoopInv

\* A step that changes nothing keeps the invariant.
LEMMA HkdfStutterInv ==
  ASSUME HkdfInv, UNCHANGED vars
  PROVE  HkdfInv'
BY DEF vars, HkdfInv, OkmInv, LoopInv, AtBlock, OkmIsRfc, RfcByte

\* hkdf_extract and hkdf_expand keep the invariant.
THEOREM HkdfInvariant == Spec => []HkdfInv
<1>1. HkdfInv /\ [Next]_vars => HkdfInv'
  BY ExtractInv, ExpandInv, BlockInv, ReturnInv, HkdfStutterInv DEF Next
<1> QED
  BY <1>1, HkdfInitInv, PTL DEF Spec

\* The steps with bytes are steps of the blanket implementation.
THEOREM ProvidersRunHkdf == ProvidersFairSpec => Spec
<1>1. ProvidersInit => Init
  BY DEF ProvidersInit
<1>2. [ProvidersNext]_providerVars => [Next]_vars
  <2> SUFFICES ASSUME [ProvidersNext]_providerVars PROVE [Next]_vars
    OBVIOUS
  <2>1. CASE ProvidersNext
    BY <2>1 DEF ProvidersNext, Next, Extract, Expand, Block, Returned
  <2>2. CASE UNCHANGED providerVars
    BY <2>2 DEF providerVars
  <2> QED
    BY <2>1, <2>2
<1> QED
  BY <1>1, <1>2, PTL DEF ProvidersFairSpec, Spec

\* The bytes behind pos are those of RFC 5869 at every iteration, and all of
\* okm is when hkdf_expand returns Ok: the counter does not wrap.
THEOREM OkmCorrect == ProvidersFairSpec => []OkmIsRfc
<1>1. HkdfInv => OkmIsRfc
  BY DEF HkdfInv
<1> QED
  BY <1>1, HkdfInvariant, ProvidersRunHkdf, PTL

\* The slice okm[pos..pos + take] is in bounds in every iteration.
THEOREM PosStaysInBounds == ProvidersFairSpec => []PosInBounds
<1>1. HkdfInv => PosInBounds
  <2> SUFFICES ASSUME HkdfInv, pc = "expand"
               PROVE  pos <= Len(okm) /\ (pos < Len(okm) => pos % HashLen = 0)
    BY DEF PosInBounds
  <2>1. PICK b \in Nat : AtBlock(b)
    BY DEF HkdfInv, LoopInv
  <2>2. Len(okm) \in Nat /\ b * HashLen \in Nat
    BY BlockBounds DEF HkdfInv, OkmInv
  <2>3. pos <= Len(okm) /\ (pos < Len(okm) => pos = b * HashLen + 0)
    BY <2>1, <2>2 DEF AtBlock
  <2>4. 0 \in 0 .. HashLen - 1
    BY HkdfAssumption
  <2>5. (b * HashLen + 0) % HashLen = 0
    BY <2>4, BlockOfByte
  <2> QED
    BY <2>3, <2>5
<1> QED
  BY <1>1, HkdfInvariant, ProvidersRunHkdf, PTL

-----------------------------------------------------------------------------
(* The HMACs *)

IsSeq(s) == s \in Seq({s[k] : k \in 1 .. Len(s)})

\* Sequences of any elements concatenate associatively.
LEMMA SeqConcat ==
  ASSUME NEW a, NEW b, NEW c, IsSeq(a), IsSeq(b), IsSeq(c)
  PROVE  /\ IsSeq(a \o b) /\ Len(a \o b) = Len(a) + Len(b)
         /\ (a \o b) \o c = a \o (b \o c)
         /\ << >> \o a = a /\ a \o << >> = a
<1> DEFINE Of(s) == {s[k] : k \in 1 .. Len(s)}
           S == Of(a) \cup Of(b) \cup Of(c)
<1>1. a \in Seq(S) /\ b \in Seq(S) /\ c \in Seq(S)
  <2>1. a \in Seq(Of(a)) /\ b \in Seq(Of(b)) /\ c \in Seq(Of(c))
    BY DEF IsSeq
  <2>2. Of(a) \subseteq S /\ Of(b) \subseteq S /\ Of(c) \subseteq S
    OBVIOUS
  <2> HIDE DEF Of, S
  <2> QED
    BY <2>1, <2>2, SeqMonotonic
<1> HIDE DEF S
<1>2. a \o b \in Seq(S) /\ Len(a \o b) = Len(a) + Len(b)
  BY <1>1, ConcatProperties
<1>3. a \o b \in [1 .. Len(a \o b) -> S] /\ Len(a \o b) \in Nat
  BY <1>2, LenProperties
<1>4. (a \o b) = [k \in 1 .. Len(a \o b) |-> (a \o b)[k]]
  BY <1>3
<1>5. IsSeq(a \o b)
  BY <1>3, <1>4, LenOfFunction, ZenonT(30) DEF IsSeq
<1> QED
  BY <1>1, <1>2, <1>5, ConcatAssociative, ConcatEmptySeq

\* A digest, a key block and a padded key are sequences of their lengths.
LEMMA HashIsSeq ==
  ASSUME NEW s
  PROVE  IsSeq(Hash(s)) /\ Len(Hash(s)) = HashLen
<1>1. DIGEST_LEN \in Nat /\ DIGEST_LEN = HashLen
  BY LengthAssumption, HkdfAssumption
<1>2. Hash(s) = [k \in 1 .. DIGEST_LEN |-> Hash(s)[k]]
  BY DEF Hash
<1> QED
  BY <1>1, <1>2, LenOfFunction DEF IsSeq

\* A key XORed with a pad is a sequence.
LEMMA XoredIsSeq ==
  ASSUME NEW s, Len(s) \in Nat, NEW pad
  PROVE  IsSeq(Xored(s, pad))
<1>1. Xored(s, pad) = [k \in 1 .. Len(s) |-> Xored(s, pad)[k]]
  BY DEF Xored
<1> QED
  BY <1>1, LenOfFunction DEF IsSeq

\* The key block has the length of a block, whatever the key.
LEMMA KeyBlockIsSeq ==
  ASSUME NEW key
  PROVE  Len(KeyBlock(key)) = SHA2SHORT_BLOCK_SIZE
<1>1. KeyBlock(key) = [k \in 1 .. SHA2SHORT_BLOCK_SIZE |-> KeyBlock(key)[k]]
  BY DEF KeyBlock, ZeroFilled
<1> QED
  BY <1>1, LengthAssumption, LenOfFunction

\* An HMAC state is what was fed to it: key block and data.
SoftState(key, data) ==
  [inner |-> Xored(KeyBlock(key), "ipad") \o data, outer_key |-> Xored(KeyBlock(key), "opad")]

\* The software HMAC is RFC 2104's, for keys up to and above a block.
LEMMA SoftHmacIsRfc ==
  ASSUME NEW key, IsSeq(key), NEW data
  PROVE  finalize(SoftState(key, data)) = RfcHmac(key, data)
<1>0. Len(key) \in Nat /\ SHA2SHORT_BLOCK_SIZE \in Nat
  BY LengthAssumption, LenProperties DEF IsSeq
<1>1. (IF Len(key) > SHA2SHORT_BLOCK_SIZE THEN Hash(key) ELSE key)
      = (IF Len(key) <= SHA2SHORT_BLOCK_SIZE THEN key ELSE Hash(key))
  BY <1>0
<1>2. KeyBlock(key) = ZeroFilled(IF Len(key) <= SHA2SHORT_BLOCK_SIZE THEN key ELSE Hash(key),
                                 SHA2SHORT_BLOCK_SIZE)
  BY <1>1 DEF KeyBlock
<1> QED
  BY <1>2 DEF finalize, SoftState, RfcHmac

\* The base of the RustCrypto extender is the same code.
LEMMA SameBase ==
  /\ \A key : Rustcrypto!Base!load_from_keydata(key) = load_from_keydata(key)
  /\ \A key : Rustcrypto!Base!init(key) = init(key)
  /\ \A state, data : Rustcrypto!Base!update(state, data) = update(state, data)
  /\ \A state : Rustcrypto!Base!finalize(state) = finalize(state)
  /\ \A key, text : Rustcrypto!RfcHmac(key, text) = RfcHmac(key, text)
<1>1. \A s : Rustcrypto!Base!Hash(s) = Hash(s) /\ Rustcrypto!Hash(s) = Hash(s)
  BY DEF Rustcrypto!Base!Hash, Rustcrypto!Hash, Hash
<1>2. \A s, pad : Rustcrypto!Base!Xored(s, pad) = Xored(s, pad)
                  /\ Rustcrypto!Xored(s, pad) = Xored(s, pad)
  BY DEF Rustcrypto!Base!Xored, Rustcrypto!Xored, Xored
<1>3. \A s, n : Rustcrypto!Base!ZeroFilled(s, n) = ZeroFilled(s, n)
                /\ Rustcrypto!ZeroFilled(s, n) = ZeroFilled(s, n)
  BY DEF Rustcrypto!Base!ZeroFilled, Rustcrypto!ZeroFilled, ZeroFilled,
         Rustcrypto!Base!Byte, Rustcrypto!Byte, Byte
<1>4. \A key : Rustcrypto!Base!KeyBlock(key) = KeyBlock(key)
  BY <1>1, <1>3 DEF Rustcrypto!Base!KeyBlock, KeyBlock
<1>5. \A key : Rustcrypto!Base!load_from_keydata(key) = load_from_keydata(key)
  BY <1>2, <1>4 DEF Rustcrypto!Base!load_from_keydata, load_from_keydata
<1>6. \A state, data : Rustcrypto!Base!update(state, data) = update(state, data)
  BY DEF Rustcrypto!Base!update, update
<1>7. \A state : Rustcrypto!Base!finalize(state) = finalize(state)
  BY <1>1 DEF Rustcrypto!Base!finalize, finalize
<1>8. \A key, text : Rustcrypto!RfcHmac(key, text) = RfcHmac(key, text)
  BY <1>1, <1>2, <1>3 DEF Rustcrypto!RfcHmac, RfcHmac
<1> QED
  BY <1>5, <1>6, <1>7, <1>8 DEF Rustcrypto!Base!init, init

\* What from_cose_number finds for HMAC 256/256 on the platform.
Via == IF platform.base = "empty" THEN "own" ELSE "direct"

\* The state of the platform's HMAC after a key and data.
MacState(key, data) ==
  IF platform.adapter = "none" THEN SoftState(key, data)
  ELSE IF Via = "own" THEN [via |-> "own", state |-> [key |-> key, text |-> data]]
  ELSE [via |-> "direct", state |-> SoftState(key, data)]

\* In software-demo a state collects the inner key and the data fed to it.
LEMMA SoftUpdates ==
  ASSUME NEW key
  PROVE  /\ load_from_keydata(key) = SoftState(key, << >>)
         /\ \A data, more : IsSeq(data) /\ IsSeq(more) =>
              update(SoftState(key, data), more) = SoftState(key, data \o more)
<1>1. IsSeq(Xored(KeyBlock(key), "ipad"))
  BY KeyBlockIsSeq, XoredIsSeq, LengthAssumption
<1>2. load_from_keydata(key) = SoftState(key, << >>)
  BY <1>1, SeqConcat DEF load_from_keydata, SoftState
<1>3. ASSUME NEW data, NEW more, IsSeq(data), IsSeq(more)
      PROVE  update(SoftState(key, data), more) = SoftState(key, data \o more)
  <2>1. (Xored(KeyBlock(key), "ipad") \o data) \o more
        = Xored(KeyBlock(key), "ipad") \o (data \o more)
    BY <1>1, <1>3, SeqConcat
  <2> DEFINE x == Xored(KeyBlock(key), "ipad") \o data
             y == Xored(KeyBlock(key), "opad")
  <2>2. SoftState(key, data) = [inner |-> x, outer_key |-> y]
    BY DEF SoftState
  <2>3. SoftState(key, data \o more) = [inner |-> x \o more, outer_key |-> y]
    BY <2>1 DEF SoftState
  <2> HIDE DEF x, y
  <2>4. update(SoftState(key, data), more) \in [inner : {x \o more}, outer_key : {y}]
    BY <2>2 DEF update
  <2> QED
    BY <2>3, <2>4
<1> QED
  BY <1>2, <1>3

\* init_with_keydata, update and finalize on every platform.
LEMMA KeyedState ==
  ASSUME NEW key
  PROVE  Keyed(key) = MacState(key, << >>)
<1>1. CASE platform.adapter = "none"
  BY <1>1, SoftUpdates DEF Keyed, Loaded, init, MacState
<1>2. CASE platform.adapter # "none"
  <2>1. (CHOOSE v \in Rustcrypto!from_cose_number(5, BaseAlgorithms(5)) : TRUE) = Via
    <3>1. Rustcrypto!from_cose_number(5, BaseAlgorithms(5)) = {Via}
      BY DEF Rustcrypto!from_cose_number, BaseAlgorithms, from_cose_number, Via
    <3> QED
      BY <3>1
  <2>2. Loaded(key) = Rustcrypto!load_from_keydata(Via, key)
    BY <1>2, <2>1 DEF Loaded
  <2>3. CASE Via = "own"
    BY <1>2, <2>2, <2>3 DEF Keyed, MacState, Rustcrypto!load_from_keydata, Rustcrypto!init
  <2>4. CASE Via = "direct"
    <3>1. Loaded(key) = [via |-> "direct", state |-> SoftState(key, << >>)]
      BY <2>2, <2>4, SameBase, SoftUpdates DEF Rustcrypto!load_from_keydata
    <3> QED
      BY <1>2, <2>4, <3>1, SameBase DEF Keyed, MacState, Rustcrypto!init, init
  <2> QED
    BY <2>3, <2>4 DEF Via
<1> QED
  BY <1>1, <1>2

\* update appends to the data of a state, on every platform.
LEMMA UpdatedState ==
  ASSUME NEW key, NEW data, NEW more, IsSeq(data), IsSeq(more)
  PROVE  Updated(MacState(key, data), more) = MacState(key, data \o more)
<1>1. CASE platform.adapter = "none"
  BY <1>1, SoftUpdates DEF Updated, MacState
<1>2. CASE platform.adapter # "none" /\ Via = "own"
  <2> DEFINE r == [via |-> "own", state |-> [key |-> key, text |-> data]]
             s == [via |-> "own", state |-> [key |-> key, text |-> data \o more]]
  <2>1. MacState(key, data) = r /\ MacState(key, data \o more) = s
    BY <1>2 DEF MacState
  <2>2. [r EXCEPT !.state.text = @ \o more] = s
    <3>1. r.state = [key |-> key, text |-> data]
      OBVIOUS
    <3>2. [r.state EXCEPT !.text = data \o more] \in [key : {key}, text : {data \o more}]
      BY <3>1
    <3>3. [r.state EXCEPT !.text = data \o more] = [key |-> key, text |-> data \o more]
      <4>1. \A u, v, z : u \in [key : {v}, text : {z}] => u = [key |-> v, text |-> z]
        OBVIOUS
      <4> QED
        BY <3>2, <4>1, Zenon
    <3>4. [r EXCEPT !.state.text = @ \o more]
          = [r EXCEPT !.state = [r.state EXCEPT !.text = data \o more]]
      OBVIOUS
    <3> DEFINE inner == [r.state EXCEPT !.text = data \o more]
    <3> HIDE DEF inner
    <3>5. [r EXCEPT !.state = inner] \in [via : {"own"}, state : {inner}]
      OBVIOUS
    <3>6. [r EXCEPT !.state = inner] = [via |-> "own", state |-> inner]
      BY <3>5
    <3> QED
      BY <3>3, <3>4, <3>6 DEF inner
  <2>3. r.via = "own"
    OBVIOUS
  <2> HIDE DEF r, s
  <2> QED
    BY <1>2, <2>1, <2>2, <2>3 DEF Updated, Rustcrypto!update
<1>3. CASE platform.adapter # "none" /\ Via = "direct"
  <2> DEFINE s == SoftState(key, data)
  <2>1. MacState(key, data) = [via |-> "direct", state |-> s]
    BY <1>3 DEF MacState
  <2>2. Rustcrypto!Base!update(s, more) = SoftState(key, data \o more)
    BY SameBase, SoftUpdates
  <2> HIDE DEF s
  <2>3. Updated(MacState(key, data), more)
        = [via |-> "direct", state |-> Rustcrypto!Base!update(s, more)]
    BY <1>3, <2>1 DEF Updated, Rustcrypto!update
  <2> QED
    BY <1>3, <2>2, <2>3 DEF MacState
<1> QED
  BY <1>1, <1>2, <1>3 DEF Via

\* finalize of a state is RFC 2104 of its key and data, on every platform.
LEMMA FinalizedState ==
  ASSUME NEW key, IsSeq(key), NEW data
  PROVE  Finalized(MacState(key, data)) = RfcHmac(key, data)
<1>1. CASE platform.adapter = "none"
  BY <1>1, SoftHmacIsRfc DEF Finalized, MacState
<1>2. CASE platform.adapter # "none" /\ Via = "own"
  BY <1>2, SameBase DEF Finalized, MacState, Rustcrypto!finalize
<1>3. CASE platform.adapter # "none" /\ Via = "direct"
  BY <1>3, SameBase, SoftHmacIsRfc DEF Finalized, MacState, Rustcrypto!finalize
<1> QED
  BY <1>1, <1>2, <1>3 DEF Via

\* hmac_with_keydata is HMAC of RFC 2104, for keys of any length, on the
\* software HMAC and on the RustCrypto extender over it or over nothing.
THEOREM HmacIsRfc ==
  ASSUME NEW key, IsSeq(key), NEW data, IsSeq(data)
  PROVE  Hmac(key, data) = RfcHmac(key, data)
<1>1. IsSeq(<< >>)
  BY EmptySeq DEF IsSeq
<1>2. << >> \o data = data
  BY SeqConcat
<1> QED
  BY <1>1, <1>2, KeyedState, UpdatedState, FinalizedState DEF Hmac

-----------------------------------------------------------------------------
(* T(0), T(1), ... of RFC 5869 *)

\* Every set of numbers has a least one.
LEMMA LeastNumber ==
  ASSUME NEW N, N \subseteq Nat, N # {}
  PROVE  \E m \in N : \A k \in N : m <= k
<1> DEFINE R == OpToRel(<, Nat)
<1>1. \A x \in Nat, y \in Nat : y < x => <<y, x>> \in R
  BY DEF OpToRel
<1>2. IsWellFoundedOn(R, Nat)
  BY NatLessThanWellFounded, Zenon
<1> HIDE DEF R
<1>3. PICK m \in N : \A y \in N : ~(<<y, m>> \in R)
  BY <1>2, WFMin
<1>4. ASSUME NEW k \in N PROVE m <= k
  <2>1. m \in Nat /\ k \in Nat
    OBVIOUS
  <2>2. ~(k < m)
    BY <1>1, <1>3, <2>1
  <2> QED
    BY <2>1, <2>2
<1> QED
  BY <1>4

\* Induction over the numbers, for a property given as a set.
LEMMA SetInduction ==
  ASSUME NEW N, 0 \in N, \A n \in Nat : n \in N => n + 1 \in N
  PROVE  Nat \subseteq N
<1> SUFFICES ASSUME Nat \ N # {} PROVE FALSE
  OBVIOUS
<1>1. PICK m \in Nat \ N : \A k \in Nat \ N : m <= k
  BY LeastNumber
<1>2. m # 0 /\ m - 1 \in Nat
  BY <1>1
<1> QED
  BY <1>1, <1>2

\* RfcT for a pseudorandom key and the bytes of an info.
TOf(key, inf, n) ==
  LET T[i \in 0 .. n] ==
        IF i = 0 THEN << >> ELSE RfcHmac(key, T[i - 1] \o inf \o <<Byte(i)>>)
  IN  T

IsT(F, key, inf, n) ==
  F = [i \in 0 .. n |->
         IF i = 0 THEN << >> ELSE RfcHmac(key, F[i - 1] \o inf \o <<Byte(i)>>)]

\* RFC 5869's recursion defines T(0) to T(n) for every n, by induction on n.
LEMMA TExists ==
  ASSUME NEW key, NEW inf
  PROVE  \A n \in Nat : \E F : IsT(F, key, inf, n)
<1> DEFINE N == {n \in Nat : \E F : IsT(F, key, inf, n)}
           mac(F, i) == RfcHmac(key, F[i - 1] \o inf \o <<Byte(i)>>)
<1>1. 0 \in N
  <2>1. IsT([i \in 0 .. 0 |-> << >>], key, inf, 0)
    BY DEF IsT
  <2> QED
    BY <2>1
<1>2. ASSUME NEW n \in Nat, n \in N PROVE n + 1 \in N
  <2>1. PICK F : IsT(F, key, inf, n)
    BY <1>2
  <2> DEFINE G == [i \in 0 .. n + 1 |-> IF i = n + 1 THEN mac(F, n + 1) ELSE F[i]]
  <2>2. \A i \in 0 .. n : F[i] = IF i = 0 THEN << >> ELSE mac(F, i)
    BY <2>1 DEF IsT
  <2>3. \A i \in 0 .. n : G[i] = F[i]
    BY <1>2
  <2>4. ASSUME NEW i \in 0 .. n + 1
        PROVE  G[i] = IF i = 0 THEN << >> ELSE mac(G, i)
    <3>1. CASE i = 0
      <4>1. 0 \in 0 .. n
        OBVIOUS
      <4> HIDE DEF G, mac
      <4>2. G[0] = F[0] /\ F[0] = << >>
        BY <2>2, <2>3, <4>1
      <4> QED
        BY <3>1, <4>2
    <3>2. CASE i \in 1 .. n + 1
      <4>1. i - 1 \in 0 .. n
        BY <3>2
      <4>2. G[i - 1] = F[i - 1]
        BY <2>3, <4>1
      <4>3. G[i] = mac(F, i)
        BY <2>2, <2>3, <3>2
      <4> HIDE DEF G
      <4>4. mac(G, i) = mac(F, i)
        BY <4>2
      <4>5. i # 0
        BY <3>2
      <4> HIDE DEF mac
      <4> QED
        BY <4>3, <4>4, <4>5
    <3> QED
      BY <3>1, <3>2
  <2>5. G = [i \in 0 .. n + 1 |-> G[i]]
    OBVIOUS
  <2> HIDE DEF G
  <2>6. IsT(G, key, inf, n + 1)
    BY <2>4, <2>5 DEF IsT
  <2> QED
    BY <2>6
<1> HIDE DEF N
<1>3. Nat \subseteq N
  BY <1>1, <1>2, SetInduction
<1> QED
  BY <1>3 DEF N

\* The recursive definition of T(i) is met.
LEMMA TUnfolds ==
  ASSUME NEW key, NEW inf, NEW n \in Nat
  PROVE  /\ TOf(key, inf, n)[0] = << >>
         /\ \A i \in 1 .. n : TOf(key, inf, n)[i] =
              RfcHmac(key, TOf(key, inf, n)[i - 1] \o inf \o <<Byte(i)>>)
<1> DEFINE T == TOf(key, inf, n)
<1>1. T = CHOOSE F : IsT(F, key, inf, n)
  BY DEF TOf, IsT
<1> HIDE DEF T
<1>2. IsT(T, key, inf, n)
  BY <1>1, TExists
<1>3. /\ T[0] = << >>
      /\ \A i \in 1 .. n : T[i] = RfcHmac(key, T[i - 1] \o inf \o <<Byte(i)>>)
  BY <1>2 DEF IsT
<1> QED
  BY <1>3 DEF T

-----------------------------------------------------------------------------
(* The bytes of the keys *)

\* A part of a slice.
LEMMA SubSeqIsSeq ==
  ASSUME NEW s, IsSeq(s), NEW m \in 1 .. Len(s) + 1, NEW n \in 0 .. Len(s)
  PROVE  /\ IsSeq(SubSeq(s, m, n))
         /\ Len(SubSeq(s, m, n)) = IF m <= n THEN n - m + 1 ELSE 0
         /\ \A i \in 1 .. n - m + 1 : SubSeq(s, m, n)[i] = s[m + i - 1]
<1> DEFINE S == {s[k] : k \in 1 .. Len(s)}
           u == SubSeq(s, m, n)
<1>1. s \in Seq(S) /\ Len(s) \in Nat
  BY LenProperties DEF IsSeq
<1>2. \A i \in m .. n : s[i] \in S
  BY <1>1
<1> HIDE DEF S
<1>3. /\ u \in Seq(S)
      /\ Len(u) = IF m <= n THEN n - m + 1 ELSE 0
      /\ \A i \in 1 .. n - m + 1 : u[i] = s[m + i - 1]
  BY <1>1, <1>2, SubSeqProperties
<1> HIDE DEF u
<1>4. u \in [1 .. Len(u) -> S] /\ Len(u) \in Nat
  BY <1>3, LenProperties
<1>5. u = [k \in 1 .. Len(u) |-> u[k]]
  BY <1>4
<1>6. IsSeq(u)
  BY <1>4, <1>5, LenOfFunction DEF IsSeq
<1> QED
  BY <1>3, <1>6 DEF u

\* What HMAC returns has the length of a digest.
LEMMA RfcHmacIsSeq ==
  ASSUME NEW key, NEW text
  PROVE  IsSeq(RfcHmac(key, text)) /\ Len(RfcHmac(key, text)) = HashLen
<1>1. PICK s : RfcHmac(key, text) = Hash(s)
  BY DEF RfcHmac
<1> QED
  BY <1>1, HashIsSeq

\* t of hkdf_expand has room for a digest, and starts with zeros for the salt.
LEMMA MaxLenBufFacts ==
  /\ IsSeq(MaxLenBuf) /\ Len(MaxLenBuf) >= HashLen /\ Len(MaxLenBuf) \in Nat
  /\ ZeroSaltBytes = [k \in 1 .. HashLen |-> Byte(0)]
  /\ IsSeq(ZeroSaltBytes)
<1> DEFINE n == IF platform.adapter = "none" THEN MAX_LEN ELSE Rustcrypto!MAX_LEN
<1>1. n \in Nat /\ n >= HashLen /\ HashLen \in Nat \ {0}
  BY LengthAssumption, HkdfAssumption DEF MAX_LEN, Rustcrypto!MAX_LEN
<1>2. MaxLenBuf = [k \in 1 .. n |-> Byte(0)]
  BY DEF MaxLenBuf
<1> HIDE DEF n
<1>3. MaxLenBuf = [k \in 1 .. n |-> MaxLenBuf[k]] /\ \A k \in 1 .. n : MaxLenBuf[k] = Byte(0)
  BY <1>2
<1>4. Len(MaxLenBuf) = n /\ IsSeq(MaxLenBuf)
  BY <1>1, <1>3, LenOfFunction DEF IsSeq
<1> DEFINE z == [k \in 1 .. HashLen |-> Byte(0)]
           u == SubSeq(MaxLenBuf, 1, HashLen)
<1>5. /\ IsSeq(u) /\ Len(u) = HashLen
      /\ \A k \in 1 .. HashLen : u[k] = Byte(0)
  <2>1. /\ IsSeq(u)
        /\ Len(u) = IF 1 <= HashLen THEN HashLen - 1 + 1 ELSE 0
        /\ \A k \in 1 .. HashLen - 1 + 1 : u[k] = MaxLenBuf[1 + k - 1]
    BY <1>1, <1>4, SubSeqIsSeq
  <2> HIDE DEF u
  <2>2. \A k \in 1 .. HashLen : k \in 1 .. HashLen - 1 + 1 /\ 1 + k - 1 = k /\ k \in 1 .. n
    BY <1>1
  <2>3. \A k \in 1 .. HashLen : u[k] = Byte(0)
    BY <1>3, <2>1, <2>2
  <2> QED
    BY <1>1, <2>1, <2>3
<1>6. u = z
  <2>1. u \in [1 .. HashLen -> {u[k] : k \in 1 .. HashLen}]
    BY <1>5, LenProperties DEF IsSeq
  <2> HIDE DEF u
  <2> QED
    BY <1>5, <2>1
<1> QED
  BY <1>1, <1>4, <1>5, <1>6 DEF ZeroSaltBytes

T == TOf(prkBytes, BytesOf[info], MaxBlocks)

\* The byte at p of the output key material.
TByte(p) == T[((p - 1) \div HashLen) + 1][((p - 1) % HashLen) + 1]

(***************************************************************************)
(* prkBytes is the pseudorandom key; in the loop t holds T of the blocks   *)
(* done, in a buffer that may be longer, and okm behind pos what RFC 5869  *)
(* wants.                                                                  *)
(***************************************************************************)
OkmBytesInv == Len(okmBytes) = Len(okm) /\ okmBytes = [k \in 1 .. Len(okm) |-> okmBytes[k]]

BytesInv ==
  /\ prkBytes = RfcPrk
  /\ pc = "expand" =>
       /\ OkmBytesInv
       /\ IsSeq(tBytes) /\ Len(tBytes) >= HashLen
       /\ t_len > 0 => SubSeq(tBytes, 1, HashLen) = T[Len(t)]
       /\ \A p \in 1 .. pos : okmBytes[p] = TByte(p)
  /\ result = "Ok" => OkmBytesInv /\ \A p \in 1 .. Len(okm) : okmBytes[p] = TByte(p)

\* The bytes the program starts with are those of HMAC of zeros.
LEMMA BytesInitInv == ProvidersInit => BytesInv
<1> SUFFICES ASSUME ProvidersInit PROVE BytesInv
  OBVIOUS
<1>1. prkBytes = RfcHmac(ZeroSaltBytes, ZeroSaltBytes)
  BY MaxLenBufFacts, HmacIsRfc DEF ProvidersInit
<1>2. prk.key = ZeroSalt /\ prk.data = ZeroSalt
  BY DEF ProvidersInit, Init
<1>3. prkBytes = RfcPrk
  BY <1>1, <1>2, MaxLenBufFacts DEF RfcPrk, RfcBytes
<1> QED
  BY <1>3 DEF BytesInv, ProvidersInit, Init

\* The bytes of a pseudorandom key are HMAC of the salt's bytes and the input's.
LEMMA ExtractBytesInv ==
  ASSUME HkdfInv, BytesInv, NEW salt \in Salts \cup {NoSalt}, NEW ikm \in Ikms,
         Extract(salt, ikm)
  PROVE  BytesInv'
<1>1. pc' = "idle" /\ result' = "none" /\ prk' = [key |-> Salt(salt), data |-> ikm]
      /\ prkBytes' = Hmac(SaltBytes(salt), BytesOf[ikm])
  BY DEF Extract, HkdfExtract
<1>2. ikm # ZeroSalt /\ IsSeq(BytesOf[ikm])
  BY HkdfAssumption, BytesAssumption DEF IsSeq
<1>3. SaltBytes(salt) = RfcBytes(Salt(salt)) /\ IsSeq(SaltBytes(salt))
  <2>1. CASE Salt(salt) = ZeroSalt
    BY <2>1, MaxLenBufFacts DEF SaltBytes, RfcBytes
  <2>2. CASE Salt(salt) # ZeroSalt
    <3>1. Salt(salt) = salt /\ salt \in Salts
      BY <2>2 DEF Salt
    <3> QED
      BY <2>2, <3>1, BytesAssumption DEF SaltBytes, RfcBytes, IsSeq
  <2> QED
    BY <2>1, <2>2
<1>4. prkBytes' = RfcHmac(RfcBytes(Salt(salt)), RfcBytes(ikm))
  BY <1>1, <1>2, <1>3, HmacIsRfc DEF RfcBytes
<1>5. prk'.key = Salt(salt) /\ prk'.data = ikm
  BY <1>1
<1>6. prkBytes' = RfcPrk'
  BY <1>4, <1>5 DEF RfcPrk, RfcBytes
<1> QED
  BY <1>1, <1>6 DEF BytesInv

\* No byte of the output is written when hkdf_expand begins.
LEMMA ExpandBytesInv ==
  ASSUME HkdfInv, BytesInv, NEW i \in Infos, NEW len \in OkmLengths, Expand(i, len)
  PROVE  BytesInv'
<1>0. len \in Nat
  BY HkdfAssumption
<1>1. prk' = prk /\ prkBytes' = prkBytes /\ platform' = platform
  BY DEF Expand, HkdfExpand
<1>2. prkBytes' = RfcPrk'
  BY <1>1 DEF BytesInv, RfcPrk, RfcBytes
<1>3. CASE TooLong(len)
  <2>1. pc' = "idle" /\ result' = "OutputTooLong"
    BY <1>3 DEF Expand, HkdfExpand
  <2> QED
    BY <1>2, <2>1 DEF BytesInv
<1>4. CASE ~TooLong(len)
  <2>1. okm' = [p \in 1 .. len |-> << >>] /\ t_len' = 0 /\ pos' = 0 /\ result' = "none"
    BY <1>4 DEF Expand, HkdfExpand
  <2>2. Len(okm') = len
    <3>1. okm' = [p \in 1 .. len |-> okm'[p]]
      BY <2>1
    <3> QED
      BY <1>0, <3>1, LenOfFunction
  <2>3. OkmBytesInv'
    <3>1. okmBytes' = [k \in 1 .. len |-> okmBytes'[k]]
      BY DEF Expand
    <3> QED
      BY <1>0, <2>2, <3>1, LenOfFunction DEF OkmBytesInv
  <2>4. IsSeq(tBytes') /\ Len(tBytes') >= HashLen
    BY MaxLenBufFacts DEF Expand
  <2> QED
    BY <1>2, <2>1, <2>3, <2>4 DEF BytesInv
<1> QED
  BY <1>3, <1>4

\* The updates of an iteration give T of the next block.
LEMMA BlockMacIsT ==
  ASSUME HkdfInv, BytesInv, pc = "expand",
         NEW b \in Nat, AtBlock(b), b < MaxBlocks, Counter = b + 1
  PROVE  /\ BlockMac = T[b + 1]
         /\ IsSeq(T[b + 1]) /\ Len(T[b + 1]) = HashLen
<1>0. HashLen \in Nat \ {0} /\ MaxBlocks \in Nat
  BY HkdfAssumption
<1> DEFINE inf == BytesOf[info]
           one == <<Byte(b + 1)>>
           prev == IF t_len > 0 THEN SubSeq(tBytes, 1, t_len) ELSE << >>
<1>1. IsSeq(inf) /\ IsSeq(one) /\ IsSeq(<< >>)
  <2>1. IsSeq(inf)
    BY BytesAssumption DEF HkdfInv, IsSeq
  <2>2. one = [k \in 1 .. 1 |-> one[k]]
    OBVIOUS
  <2>3. IsSeq(one)
    BY <2>2, LenOfFunction DEF IsSeq
  <2> QED
    BY <2>1, <2>3, EmptySeq DEF IsSeq
<1>2. T[0] = << >> /\ T[b + 1] = RfcHmac(prkBytes, T[b] \o inf \o one)
  <2>1. b + 1 \in 1 .. MaxBlocks /\ (b + 1) - 1 = b
    BY <1>0
  <2>2. T[b + 1] = RfcHmac(prkBytes, T[(b + 1) - 1] \o inf \o one)
    BY <1>0, <2>1, TUnfolds DEF T
  <2>3. T[0] = << >>
    BY <1>0, TUnfolds DEF T
  <2> QED
    BY <2>1, <2>2, <2>3
<1>3. prev = T[b] /\ IsSeq(prev)
  <2>1. CASE b = 0
    <3>1. t_len = 0
      BY <2>1 DEF AtBlock
    <3> QED
      BY <1>1, <1>2, <2>1, <3>1
  <2>2. CASE b # 0
    <3>1. t_len = HashLen /\ t_len > 0
      BY <1>0, <2>2 DEF AtBlock
    <3>2. Len(t) = b
      <4>1. t = [k \in 1 .. b |-> t[k]]
        BY DEF AtBlock
      <4> QED
        BY <4>1, LenOfFunction
    <3>3. prev = SubSeq(tBytes, 1, HashLen) /\ prev = T[b]
      BY <3>1, <3>2 DEF BytesInv
    <3>4. Len(tBytes) \in Nat /\ HashLen <= Len(tBytes) /\ IsSeq(tBytes)
      BY LenProperties DEF BytesInv, IsSeq
    <3>5. 1 \in 1 .. Len(tBytes) + 1 /\ HashLen \in 0 .. Len(tBytes)
      BY <1>0, <3>4
    <3>6. IsSeq(SubSeq(tBytes, 1, HashLen))
      BY <3>4, <3>5, SubSeqIsSeq
    <3> QED
      BY <3>3, <3>6
  <2> QED
    BY <2>1, <2>2
<1>4. IsSeq(prkBytes)
  BY RfcHmacIsSeq DEF BytesInv, RfcPrk
<1> HIDE DEF inf, one
<1>5. (IF t_len > 0 THEN Updated(Keyed(prkBytes), SubSeq(tBytes, 1, t_len)) ELSE Keyed(prkBytes))
      = MacState(prkBytes, prev)
  <2>1. CASE t_len > 0
    <3>1. << >> \o prev = prev
      BY <1>3, SeqConcat
    <3>2. prev = SubSeq(tBytes, 1, t_len)
      BY <2>1
    <3> HIDE DEF prev
    <3> DEFINE none == << >>
    <3>a. IsSeq(none) /\ none \o prev = prev
      BY <1>1, <3>1
    <3> HIDE DEF none
    <3>b. Updated(MacState(prkBytes, none), prev) = MacState(prkBytes, none \o prev)
      BY <1>3, <3>a, UpdatedState
    <3>3. Updated(MacState(prkBytes, << >>), prev) = MacState(prkBytes, prev)
      BY <3>a, <3>b DEF none
    <3> QED
      BY <2>1, <3>2, <3>3, KeyedState
  <2>2. CASE ~(t_len > 0)
    BY <2>2, KeyedState
  <2> QED
    BY <2>1, <2>2
<1>6. BlockMac = Finalized(Updated(Updated(MacState(prkBytes, prev), inf), one))
  BY <1>5 DEF BlockMac, inf, one
<1> HIDE DEF prev
<1>7. Updated(MacState(prkBytes, prev), inf) = MacState(prkBytes, prev \o inf)
  BY <1>1, <1>3, UpdatedState
<1>8. IsSeq(prev \o inf)
  BY <1>1, <1>3, SeqConcat
<1>9. BlockMac = RfcHmac(prkBytes, (prev \o inf) \o one)
  BY <1>1, <1>4, <1>6, <1>7, <1>8, UpdatedState, FinalizedState
<1> QED
  BY <1>2, <1>3, <1>9, RfcHmacIsSeq

\* An iteration of hkdf_expand writes the bytes of the block that RFC 5869 names.
LEMMA BlockBytesInv ==
  ASSUME HkdfInv, BytesInv, Block
  PROVE  BytesInv'
<1>0. HashLen \in Nat \ {0} /\ MaxBlocks \in Nat /\ ExpandBlock /\ pc = "expand"
  BY HkdfAssumption DEF Block, ExpandBlock
<1>1. PICK b \in Nat :
        /\ AtBlock(b) /\ AtBlock(b + 1)'
        /\ b < MaxBlocks /\ Counter = b + 1 /\ pos = b * HashLen
        /\ Take \in 1 .. HashLen /\ pos + Take <= Len(okm)
        /\ \A p \in pos + 1 .. pos + Take :
             (p - 1) \div HashLen = b /\ (p - 1) % HashLen = p - pos - 1
  BY <1>0, BlockFacts
<1>2. prk' = prk /\ info' = info /\ prkBytes' = prkBytes /\ pc' = "expand"
      /\ pos' = pos + Take /\ t_len' = HashLen /\ result' = result
  BY DEF Block, ExpandBlock
<1>3. T' = T /\ prkBytes' = RfcPrk'
  BY <1>2 DEF T, BytesInv, RfcPrk, RfcBytes
<1> DEFINE mac == T[b + 1]
           rest == SubSeq(tBytes, HashLen + 1, Len(tBytes))
<1>4. BlockMac = mac /\ IsSeq(mac) /\ Len(mac) = HashLen
  BY <1>0, <1>1, BlockMacIsT
<1>5. tBytes' = mac \o rest
  BY <1>4 DEF Block
<1> HIDE DEF mac
<1>6. IsSeq(rest) /\ Len(rest) \in Nat
  <2>1. Len(tBytes) \in Nat /\ HashLen <= Len(tBytes) /\ IsSeq(tBytes)
    BY <1>0, LenProperties DEF BytesInv, IsSeq
  <2>2. HashLen + 1 \in 1 .. Len(tBytes) + 1 /\ Len(tBytes) \in 0 .. Len(tBytes)
    BY <1>0, <2>1
  <2>3. IsSeq(rest)
    BY <2>1, <2>2, SubSeqIsSeq
  <2> HIDE DEF rest
  <2> QED
    BY <2>3, LenProperties DEF IsSeq
<1> HIDE DEF rest
<1>7. /\ IsSeq(tBytes') /\ Len(tBytes') >= HashLen
      /\ \A k \in 1 .. HashLen : tBytes'[k] = mac[k]
      /\ SubSeq(tBytes', 1, HashLen) = mac
  <2> DEFINE all == mac \o rest
             S == {mac[k] : k \in 1 .. Len(mac)} \cup {rest[k] : k \in 1 .. Len(rest)}
  <2>1. mac \in Seq(S) /\ rest \in Seq(S)
    <3>1. {mac[k] : k \in 1 .. Len(mac)} \subseteq S /\ {rest[k] : k \in 1 .. Len(rest)} \subseteq S
      OBVIOUS
    <3> HIDE DEF S
    <3> QED
      BY <1>4, <1>6, <3>1, SeqMonotonic DEF IsSeq
  <2> HIDE DEF S
  <2>2. IsSeq(all) /\ Len(all) = HashLen + Len(rest)
    BY <1>4, <1>6, SeqConcat
  <2>3. \A k \in 1 .. HashLen : all[k] = mac[k]
    BY <1>0, <1>4, <1>6, <2>1, ConcatProperties
  <2> HIDE DEF all
  <2> DEFINE u == SubSeq(all, 1, HashLen)
  <2>4. /\ IsSeq(u) /\ Len(u) = HashLen /\ \A k \in 1 .. HashLen : u[k] = mac[k]
    <3>1. 1 \in 1 .. Len(all) + 1 /\ HashLen \in 0 .. Len(all)
      BY <1>0, <1>6, <2>2
    <3>2. /\ IsSeq(u)
          /\ Len(u) = IF 1 <= HashLen THEN HashLen - 1 + 1 ELSE 0
          /\ \A k \in 1 .. HashLen - 1 + 1 : u[k] = all[1 + k - 1]
      BY <2>2, <3>1, SubSeqIsSeq
    <3> HIDE DEF u
    <3>3. \A k \in 1 .. HashLen : k \in 1 .. HashLen - 1 + 1 /\ 1 + k - 1 = k
      BY <1>0
    <3>4. \A k \in 1 .. HashLen : u[k] = mac[k]
      BY <2>3, <3>2, <3>3
    <3> QED
      BY <1>0, <3>2, <3>4
  <2> HIDE DEF u
  <2>5. u \in [1 .. HashLen -> {u[k] : k \in 1 .. HashLen}]
        /\ mac \in [1 .. HashLen -> {mac[k] : k \in 1 .. HashLen}]
    BY <1>4, <2>4, LenProperties DEF IsSeq
  <2>6. u = mac
    <3>1. u = [k \in 1 .. HashLen |-> u[k]] /\ mac = [k \in 1 .. HashLen |-> mac[k]]
      BY <2>5
    <3> QED
      BY <2>4, <3>1
  <2>7. Len(all) >= HashLen
    BY <1>0, <1>6, <2>2
  <2> QED
    BY <1>5, <2>2, <2>3, <2>6, <2>7 DEF all, u
<1>8. Len(t') = b + 1
  <2>1. t' = [k \in 1 .. b + 1 |-> t'[k]] /\ b + 1 \in Nat
    BY <1>1 DEF AtBlock
  <2> QED
    BY <2>1, LenOfFunction
<1>9. Len(okm') = Len(okm) /\ Len(okm) \in Nat
  <2>1. okm' = [p \in 1 .. Len(okm) |-> okm'[p]] /\ Len(okm) \in Nat
    BY <1>0 DEF ExpandBlock, HkdfInv, OkmInv
  <2> QED
    BY <2>1, LenOfFunction
<1>10. OkmBytesInv' /\ Len(okmBytes) = Len(okm)
  <2>1. Len(okmBytes) = Len(okm)
    BY <1>0 DEF BytesInv, OkmBytesInv
  <2>2. okmBytes' = [k \in 1 .. Len(okm) |-> okmBytes'[k]]
    BY <2>1 DEF Block
  <2> QED
    BY <1>9, <2>1, <2>2, LenOfFunction DEF OkmBytesInv
<1>11. result # "Ok"
  BY <1>0 DEF HkdfInv, LoopInv
<1>12. ASSUME NEW p \in 1 .. pos' PROVE okmBytes'[p] = TByte(p)'
  <2>0. pos \in Nat /\ p \in 1 .. Len(okmBytes)
    BY <1>0, <1>1, <1>2, <1>9, <1>10, <1>12, BlockBounds
  <2>1. CASE p \in 1 .. pos
    <3>1. okmBytes[p] = TByte(p)
      BY <1>0, <2>1 DEF BytesInv
    <3>2. okmBytes'[p] = okmBytes[p]
      BY <2>0, <2>1 DEF Block
    <3> QED
      BY <1>3, <3>1, <3>2 DEF TByte
  <2>2. CASE p \in pos + 1 .. pos + Take
    <3>1. okmBytes'[p] = tBytes'[p - pos]
      BY <2>0, <2>2 DEF Block
    <3>2. (p - 1) \div HashLen = b /\ (p - 1) % HashLen = p - pos - 1
      BY <1>1, <2>2
    <3>3. (p - pos - 1) + 1 = p - pos /\ p - pos \in 1 .. HashLen
      BY <1>0, <1>1, <2>0, <2>2
    <3>4. tBytes'[p - pos] = mac[p - pos]
      BY <1>7, <3>3
    <3> QED
      BY <1>3, <3>1, <3>2, <3>3, <3>4 DEF TByte, mac
  <2> QED
    BY <1>1, <1>2, <1>12, <2>0, <2>1, <2>2, <1>0
<1>13. t_len' > 0 => SubSeq(tBytes', 1, HashLen) = T'[Len(t')]
  BY <1>3, <1>7, <1>8 DEF mac
<1> QED
  BY <1>2, <1>3, <1>7, <1>10, <1>11, <1>12, <1>13 DEF BytesInv

\* The return of hkdf_expand leaves the bytes alone.
LEMMA ReturnedBytesInv ==
  ASSUME HkdfInv, BytesInv, Returned
  PROVE  BytesInv'
<1>1. pos = Len(okm)
  BY ReturnInv DEF Returned
<1>2. /\ prk' = prk /\ info' = info /\ okm' = okm /\ prkBytes' = prkBytes
      /\ okmBytes' = okmBytes /\ pc = "expand" /\ pc' = "idle"
  BY DEF Returned, ExpandReturn, byteVars
<1>3. T' = T /\ prkBytes' = RfcPrk'
  BY <1>2 DEF T, BytesInv, RfcPrk, RfcBytes
<1>4. OkmBytesInv'
  BY <1>2 DEF BytesInv, OkmBytesInv
<1>5. \A p \in 1 .. Len(okm) : okmBytes[p] = TByte(p)
  BY <1>1, <1>2 DEF BytesInv
<1>6. \A p \in 1 .. Len(okm') : okmBytes'[p] = TByte(p)'
  BY <1>2, <1>3, <1>5 DEF TByte
<1> QED
  BY <1>2, <1>3, <1>4, <1>6 DEF BytesInv

\* A step that changes nothing keeps the bytes.
LEMMA BytesStutterInv ==
  ASSUME BytesInv, UNCHANGED providerVars
  PROVE  BytesInv'
<1>1. /\ prk' = prk /\ info' = info /\ okm' = okm /\ pc' = pc /\ t' = t /\ t_len' = t_len
      /\ pos' = pos /\ result' = result /\ prkBytes' = prkBytes /\ tBytes' = tBytes
      /\ okmBytes' = okmBytes
  BY DEF providerVars, vars, byteVars
<1>2. T' = T /\ RfcPrk' = RfcPrk /\ (OkmBytesInv' <=> OkmBytesInv)
  BY <1>1 DEF T, RfcPrk, RfcBytes, OkmBytesInv
<1>3. \A p : TByte(p)' = TByte(p)
  BY <1>2 DEF TByte
<1> QED
  BY <1>1, <1>2, <1>3 DEF BytesInv

\* The invariant of the bytes, on that of the loop.
THEOREM BytesInvariant == ProvidersFairSpec => [](HkdfInv /\ BytesInv)
<1>1. ProvidersInit => HkdfInv /\ BytesInv
  BY HkdfInitInv, BytesInitInv DEF ProvidersInit
<1>2. HkdfInv /\ BytesInv /\ [ProvidersNext]_providerVars => BytesInv'
  BY ExtractBytesInv, ExpandBytesInv, BlockBytesInv, ReturnedBytesInv, BytesStutterInv
     DEF ProvidersNext
<1> QED
  BY <1>1, <1>2, HkdfInvariant, ProvidersRunHkdf, PTL DEF ProvidersFairSpec

\* On every platform the keys are those of RFC 5869 over RFC 2104, byte by
\* byte, for arguments and outputs of any length.
THEOREM KeysAreRfc == ProvidersFairSpec => []KeyMaterialIsRfc
<1>1. HkdfInv /\ BytesInv => KeyMaterialIsRfc
  <2> SUFFICES ASSUME HkdfInv, BytesInv PROVE KeyMaterialIsRfc
    OBVIOUS
  <2>1. prkBytes = RfcPrk
    BY DEF BytesInv
  <2>2. RfcT(MaxBlocks) = T
    BY <2>1 DEF RfcT, T, TOf
  <2>3. result = "Ok" => \A p \in 1 .. Len(okmBytes) : okmBytes[p] = TByte(p)
    BY DEF BytesInv, OkmBytesInv
  <2> QED
    BY <2>1, <2>2, <2>3 DEF KeyMaterialIsRfc, TByte
<1> QED
  BY <1>1, BytesInvariant, PTL
=============================================================================
