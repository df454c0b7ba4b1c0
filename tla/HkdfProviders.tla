--------------------------- MODULE HkdfProviders ----------------------------
(***************************************************************************)
(* The blanket HkdfProvider (Hkdf) on the HMAC of the software-demo        *)
(* Extender and on that of the RustCrypto extender, over the former or     *)
(* over nothing: the steps of Hkdf, with the bytes its locals really hold. *)
(***************************************************************************)
EXTENDS Hkdf, SoftHmac

CONSTANTS
  Platforms,   \* set of [adapter, base]
  BytesOf      \* the bytes of a salt, an input key material or an info

\* debug_assert in hkdf_expand: HmacSha256.len() is the length of a digest.
ASSUME LengthAssumption == HashLen = DIGEST_LEN /\ SHA2SHORT_BLOCK_SIZE \in Nat

\* Arguments are slices.
ASSUME BytesAssumption ==
  \A x \in Salts \cup Ikms \cup Infos :
    BytesOf[x] \in Seq({BytesOf[x][k] : k \in 1 .. Len(BytesOf[x])})

VARIABLES
  platform,        \* where the program runs
  prkBytes,        \* what hkdf_extract returned
  tBytes, okmBytes \* t and okm of hkdf_expand

byteVars == <<prkBytes, tBytes, okmBytes>>
providerVars == <<platform, vars, byteVars>>

Rustcrypto == INSTANCE RustcryptoHmac

-----------------------------------------------------------------------------
(* The HmacProvider of the platform *)

\* EmptyCal has no algorithm.
BaseAlgorithms(n) == IF platform.base = "empty" THEN {} ELSE from_cose_number(n)

\* HMAC 256/256
Loaded(key) ==
  IF platform.adapter = "none" THEN load_from_keydata(key)
  ELSE Rustcrypto!load_from_keydata(
         CHOOSE v \in Rustcrypto!from_cose_number(5, BaseAlgorithms(5)) : TRUE, key)

\* init_with_keydata of the trait
Keyed(key) ==
  IF platform.adapter = "none" THEN init(Loaded(key)) ELSE Rustcrypto!init(Loaded(key))

Updated(state, data) ==
  IF platform.adapter = "none" THEN update(state, data) ELSE Rustcrypto!update(state, data)

Finalized(state) ==
  IF platform.adapter = "none" THEN finalize(state) ELSE Rustcrypto!finalize(state)

\* hmac_with_keydata of the trait
Hmac(key, data) == Finalized(Updated(Keyed(key), data))

\* MaxLenBuf::default(), which may be longer than a digest.
MaxLenBuf ==
  [k \in 1 .. IF platform.adapter = "none" THEN MAX_LEN ELSE Rustcrypto!MAX_LEN |-> Byte(0)]

-----------------------------------------------------------------------------
(* HKDF *)

ZeroSaltBytes == SubSeq(MaxLenBuf, 1, HashLen)

SaltBytes(salt) == IF Salt(salt) = ZeroSalt THEN ZeroSaltBytes ELSE BytesOf[salt]

ProvidersInit ==
  /\ platform \in Platforms
  /\ Init
  /\ prkBytes = Hmac(ZeroSaltBytes, ZeroSaltBytes)
  /\ tBytes = MaxLenBuf
  /\ okmBytes = << >>

Extract(salt, ikm) ==
  /\ HkdfExtract(salt, ikm)
  /\ prkBytes' = Hmac(SaltBytes(salt), BytesOf[ikm])
  /\ UNCHANGED <<platform, tBytes, okmBytes>>

\* The buffer comes from the caller.
Expand(i, len) ==
  /\ HkdfExpand(i, len)
  /\ tBytes' = MaxLenBuf
  /\ okmBytes' = [k \in 1 .. len |-> Byte(0)]
  /\ UNCHANGED <<platform, prkBytes>>

\* The updates of one iteration.
BlockMac ==
  LET keyed == Keyed(prkBytes)
      chained == IF t_len > 0 THEN Updated(keyed, SubSeq(tBytes, 1, t_len)) ELSE keyed
  IN  Finalized(Updated(Updated(chained, BytesOf[info]), <<Byte(Counter)>>))

Block ==
  /\ ExpandBlock
  /\ \E mac \in {BlockMac} :
       tBytes' = mac \o SubSeq(tBytes, HashLen + 1, Len(tBytes))
  /\ okmBytes' = [k \in 1 .. Len(okmBytes) |->
                    IF k \in pos + 1 .. pos + Take THEN tBytes'[k - pos] ELSE okmBytes[k]]
  /\ UNCHANGED <<platform, prkBytes>>

Returned == ExpandReturn /\ UNCHANGED <<platform, byteVars>>

ProvidersNext ==
  \/ \E salt \in Salts \cup {NoSalt}, ikm \in Ikms : Extract(salt, ikm)
  \/ \E i \in Infos, len \in OkmLengths : Expand(i, len)
  \/ Block
  \/ Returned

ProvidersFairSpec ==
  /\ ProvidersInit /\ [][ProvidersNext]_providerVars
  /\ WF_providerVars(Block \/ Returned)

-----------------------------------------------------------------------------
(* Properties *)

\* PRK and T(i) of RFC 5869 on the HMAC of RFC 2104.
RfcBytes(arg) == IF arg = ZeroSalt THEN [k \in 1 .. HashLen |-> Byte(0)] ELSE BytesOf[arg]

RfcPrk == RfcHmac(RfcBytes(prk.key), RfcBytes(prk.data))

RfcT(upto) ==
  LET T[i \in 0 .. upto] ==
        IF i = 0 THEN << >> ELSE RfcHmac(RfcPrk, T[i - 1] \o BytesOf[info] \o <<Byte(i)>>)
  IN  T

(***************************************************************************)
(* On every platform the keys are those of RFC 5869 over RFC 2104, byte by *)
(* byte: for salts shorter than, as long as and longer than a block of the *)
(* hash, no salt, output keys used as HMAC keys in turn, data fed in       *)
(* several pieces, and buffers longer than a digest.                       *)
(***************************************************************************)
KeyMaterialIsRfc ==
  /\ prkBytes = RfcPrk
  /\ result = "Ok" =>
       \E T \in {RfcT(MaxBlocks)} : \A p \in 1 .. Len(okmBytes) :
         okmBytes[p] = T[((p - 1) \div HashLen) + 1][((p - 1) % HashLen) + 1]
=============================================================================
