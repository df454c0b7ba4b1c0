---------------------------- MODULE DhProviders -----------------------------
(***************************************************************************)
(* DhProvider of the two boards and of the libcrux and RustCrypto          *)
(* extenders on top of one of them (or of nothing), and a program in which *)
(* two parties make keys, exchange them and derive a shared secret.        *)
(***************************************************************************)
EXTENDS P256

CONSTANTS
  Platforms,      \* set of [adapter, base]
  Parties,        \* <<the party that starts, the other one>>
  NoKey,
  RandomBytes,    \* what the random number generator returns, by curve
  SecretBytes,    \* the secrets a program imports, by curve
  OfferedBytes    \* the public keys that come from outside, by curve

ASSUME PlatformAssumption ==
  Platforms \subseteq [adapter : {"none", "libcrux", "rustcrypto"},
                       base : {"empty", "stm32wba55", "nrf54l15"}]

ASSUME BytesAssumption ==
  \A c \in {"P256", "X25519", "X448"} :
    /\ RandomBytes[c] \subseteq [1 .. Size[c] -> 0 .. W - 1]
    /\ SecretBytes[c] \subseteq Seq(0 .. W - 1)
    /\ OfferedBytes[c] \subseteq Seq(0 .. W - 1)

VARIABLES
  platform,
  pc,                             \* "idle", in a "call", waiting for the "engine"
  call, result,                   \* the call, the status of the last one
  secret, public, peer, shared,   \* key objects
  pka, pke                        \* the engines

keys == <<secret, public, peer, shared>>
vars == <<platform, pc, call, result, keys, pka, pke>>

Stm == INSTANCE Stm32Dh
Nrf == INSTANCE NrfDh
Libcrux == INSTANCE LibcruxDh
Rustcrypto == INSTANCE RustcryptoDh

NoCall == [op |-> "none"]

First == Parties[1]
Second == Parties[2]
PartySet == {First, Second}

-----------------------------------------------------------------------------
(* The calls of an extender go to its own code or to its base. *)

\* EmptyCal has no algorithm, so that none of its operations can be called.
EmptyCurves(n) == {}

BaseCurves(n) ==
  CASE platform.base = "stm32wba55" -> Stm!from_cose_ecdh(n)
    [] platform.base = "nrf54l15"   -> Nrf!from_cose_ecdh(n)
    [] platform.base = "empty"      -> EmptyCurves(n)

from_cose_ecdh(n) ==
  CASE platform.adapter = "libcrux"    -> Libcrux!from_cose_ecdh(n, BaseCurves(n))
    [] platform.adapter = "rustcrypto" -> Rustcrypto!from_cose_ecdh(n, BaseCurves(n))
    [] platform.adapter = "none"       -> {[via |-> "direct", curve |-> c] : c \in BaseCurves(n)}

\* A program can also name a variant of the extender itself.
OwnVariants ==
  CASE platform.adapter = "libcrux"    -> Libcrux!OwnVariants
    [] platform.adapter = "rustcrypto" -> Rustcrypto!OwnVariants
    [] platform.adapter = "none"       -> {}

Algorithms == (UNION {from_cose_ecdh(n) : n \in {1, 4, 5}}) \cup OwnVariants

Provider(alg) == IF alg.via = "own" THEN platform.adapter ELSE platform.base

\* One draw of generate_visible: the empty set if it is rejected.
Drawn(alg, random) ==
  CASE Provider(alg) = "libcrux"    -> Libcrux!generate_visible(alg.curve, random)
    [] Provider(alg) = "rustcrypto" -> Rustcrypto!generate_visible(alg.curve, random)
    [] Provider(alg) = "stm32wba55" -> Stm!generate_visible(alg.curve, random)
    [] Provider(alg) = "nrf54l15"   -> Nrf!generate_visible(alg.curve, random)

Secrets(alg, bytes) ==
  CASE Provider(alg) = "libcrux"    -> Libcrux!import_secretkey_bytes(alg.curve, bytes)
    [] Provider(alg) = "rustcrypto" -> Rustcrypto!import_secretkey_bytes(alg.curve, bytes)
    [] Provider(alg) = "stm32wba55" -> Stm!import_secretkey_bytes(alg.curve, bytes)
    [] Provider(alg) = "nrf54l15"   -> Nrf!import_secretkey_bytes(alg.curve, bytes)

Points(alg, bytes) ==
  CASE Provider(alg) = "libcrux"    -> Libcrux!import_publickey_bytes(alg.curve, bytes)
    [] Provider(alg) = "rustcrypto" -> Rustcrypto!import_publickey_bytes(alg.curve, bytes)
    [] Provider(alg) = "stm32wba55" -> Stm!import_publickey_bytes(alg.curve, bytes)
    [] Provider(alg) = "nrf54l15"   -> Nrf!import_publickey_bytes(alg.curve, bytes)

\* Key objects; the compact representation of a point is its x coordinate.
import_secretkey_bytes(alg, bytes) == {[alg |-> alg, bytes |-> b] : b \in Secrets(alg, bytes)}

export_secretkey_bytes(sk) == sk.bytes

Point(alg, p) == [alg |-> alg, x |-> p.x, y |-> p.y]

import_publickey_bytes(alg, bytes) == {Point(alg, p) : p \in Points(alg, bytes)}

export_publickey_bytes(pk) == pk.x

-----------------------------------------------------------------------------
(* The calls of a program *)

Call(c) ==
  /\ pc = "idle"
  /\ pc' = "call"
  /\ call' = c
  /\ UNCHANGED <<platform, result, keys, pka, pke>>

\* A party's own key pair; the second party waits for the first one.
MakesKeys(p) ==
  /\ peer = NoKey
  /\ p = First \/ public[First] # NoKey
  /\ \/ /\ secret[p] = NoKey
        /\ \E alg \in Algorithms :
             \/ Call([op |-> "generate", who |-> p, alg |-> alg])
             \/ \E b \in SecretBytes[alg.curve] :
                  Call([op |-> "import_secretkey_bytes", who |-> p, alg |-> alg, bytes |-> b])
     \/ /\ secret[p] # NoKey /\ public[p] = NoKey
        /\ Call([op |-> "public_key", who |-> p])

\* Shared secrets are derived in turn.
Turn == IF shared[First] = NoKey THEN First ELSE Second
Other(p) == IF p = First THEN Second ELSE First

ImportsPeer ==
  LET p == Turn
      q == Other(p)
  IN
  \/ /\ public[q] # NoKey /\ secret[p] # NoKey /\ shared[p] = NoKey
     /\ Call([op |-> "import_publickey_bytes", alg |-> public[q].alg,
              bytes |-> export_publickey_bytes(public[q])])
  \/ /\ secret[First] # NoKey /\ public[First] = NoKey /\ peer = NoKey
     /\ \E alg \in Algorithms : \E b \in OfferedBytes[alg.curve] :
          Call([op |-> "import_publickey_bytes", alg |-> alg, bytes |-> b])

\* With the key as imported, or with the other party's key object.
DerivesShared ==
  LET p == Turn IN
  /\ shared[p] = NoKey /\ secret[p] # NoKey
  /\ \E q \in {NoKey, Other(p)} :
       /\ IF q = NoKey THEN peer # NoKey ELSE public[q] # NoKey
       /\ Call([op |-> "shared_secret", who |-> p, with |-> q])

Program == (\E p \in PartySet : MakesKeys(p)) \/ ImportsPeer \/ DerivesShared

Theirs == IF call.with = NoKey THEN peer ELSE public[call.with]

-----------------------------------------------------------------------------
(* Calls that end at once *)

Return(status) == pc' = "idle" /\ call' = NoCall /\ result' = status

\* Draws until one is accepted.
Generate ==
  /\ call.op = "generate"
  /\ \E r \in RandomBytes[call.alg.curve] : \E b \in Drawn(call.alg, r) :
       secret' = [secret EXCEPT ![call.who] = [alg |-> call.alg, bytes |-> b]]
  /\ Return("Ok")
  /\ UNCHANGED <<platform, public, peer, shared, pka, pke>>

ImportSecret ==
  LET sks == import_secretkey_bytes(call.alg, call.bytes) IN
  /\ call.op = "import_secretkey_bytes"
  /\ \/ /\ \E sk \in sks : secret' = [secret EXCEPT ![call.who] = sk]
        /\ Return("Ok")
     \/ /\ sks = {}
        /\ Return("ImportError")
        /\ UNCHANGED secret
  /\ UNCHANGED <<platform, public, peer, shared, pka, pke>>

ImportPublic ==
  LET pks == import_publickey_bytes(call.alg, call.bytes) IN
  /\ call.op = "import_publickey_bytes"
  /\ \/ /\ \E pk \in pks : peer' = pk
        /\ Return("Ok")
     \/ /\ pks = {}
        /\ Return("ImportError")
        /\ UNCHANGED peer
  /\ UNCHANGED <<platform, secret, public, shared, pka, pke>>

\* What the extender compares, then its base.
Compatible(sk, pk) ==
  /\ CASE platform.adapter = "libcrux"    -> Libcrux!Compatible(sk.alg, pk.alg)
       [] platform.adapter = "rustcrypto" -> Rustcrypto!Compatible(sk.alg, pk.alg)
       [] platform.adapter = "none"       -> TRUE
  /\ sk.alg.via = "direct" => sk.alg.curve = pk.alg.curve

Incompatible ==
  /\ call.op = "shared_secret"
  /\ ~Compatible(secret[call.who], Theirs)
  /\ Return("IncompatibleKeys")
  /\ UNCHANGED <<platform, keys, pka, pke>>

-----------------------------------------------------------------------------
(* Calls that multiply: by the library, or on the base's engine *)

\* The libraries know the base points.
BasePoint(alg) ==
  CASE Provider(alg) = "stm32wba55" -> Stm!BasePoint(alg.curve)
    [] OTHER -> Nrf!BasePoint(alg.curve)

Factor == IF call.op = "public_key" THEN BasePoint(secret[call.who].alg) ELSE Theirs

Multiplies ==
  \/ call.op = "public_key"
  \/ call.op = "shared_secret" /\ Compatible(secret[call.who], Theirs)

\* The result is a public key or, by its x coordinate, a shared secret.
Product(p) ==
  /\ IF call.op = "public_key"
       THEN /\ public' = [public EXCEPT ![call.who] = Point(secret[call.who].alg, p)]
            /\ UNCHANGED shared
       ELSE /\ shared' = [shared EXCEPT ![call.who] = [raw |-> p.x, theirs |-> Theirs]]
            /\ UNCHANGED public
  /\ Return("Ok")
  /\ UNCHANGED <<platform, secret, peer>>

OwnMultiply ==
  LET sk == secret[call.who] IN
  /\ Multiplies
  /\ \/ /\ Provider(sk.alg) = "libcrux"
        /\ Product(Libcrux!Multiplied(sk.alg.curve, sk.bytes, Factor))
     \/ /\ Provider(sk.alg) = "rustcrypto"
        /\ Product(Rustcrypto!Multiplied(sk.alg.curve, sk.bytes, Factor))
  /\ UNCHANGED <<pka, pke>>

On(base) == Multiplies /\ Provider(secret[call.who].alg) = base

\* The call waits for the engine.
StartOnEngine ==
  LET sk == secret[call.who] IN
  /\ pc = "call"
  /\ \/ /\ On("stm32wba55")
        /\ Stm!MultiplyStart(sk.alg.curve, sk.bytes, Factor)
        /\ UNCHANGED pke
     \/ /\ On("nrf54l15")
        /\ Nrf!MultiplyStart(sk.alg.curve, sk.bytes, Factor)
        /\ UNCHANGED pka
  /\ pc' = "engine"
  /\ UNCHANGED <<platform, call, result, keys>>

FinishOnEngine ==
  LET curve == secret[call.who].alg.curve IN
  /\ pc = "engine"
  /\ \/ /\ On("stm32wba55")
        /\ Stm!PkaFinish
        /\ Product(Stm!MultiplyResult(curve))
        /\ UNCHANGED pke
     \/ /\ On("nrf54l15")
        /\ Nrf!PkeFinish(curve)
        /\ Product(Nrf!MultiplyResult(curve))
        /\ UNCHANGED pka

Hardware ==
  /\ \/ Stm!PkaCompute /\ UNCHANGED pke
     \/ Nrf!PkeCompute /\ UNCHANGED pka
  /\ UNCHANGED <<platform, pc, call, result, keys>>

-----------------------------------------------------------------------------

Init ==
  /\ platform \in Platforms
  /\ pc = "idle"
  /\ call = NoCall
  /\ result = "Ok"
  /\ secret = [p \in PartySet |-> NoKey]
  /\ public = [p \in PartySet |-> NoKey]
  /\ peer = NoKey
  /\ shared = [p \in PartySet |-> NoKey]
  /\ Stm!PkaInit
  /\ Nrf!PkeInit

Driver ==
  \/ Generate
  \/ ImportSecret
  \/ ImportPublic
  \/ Incompatible
  \/ OwnMultiply
  \/ StartOnEngine
  \/ FinishOnEngine

\* A program may end between calls, and only there.
Ended == pc = "idle" /\ UNCHANGED vars

Next == Program \/ Driver \/ Hardware \/ Ended

Spec == Init /\ [][Next]_vars

-----------------------------------------------------------------------------
(* Properties *)

AbsSecret(sk) ==
  IF sk = NoKey THEN NoKey
  ELSE [alg |-> sk.alg, k |-> DecodeScalar(sk.alg.curve, Value(sk.alg.curve, sk.bytes))]

AbsPublic(pk) ==
  IF pk = NoKey THEN NoKey
  ELSE [alg |-> pk.alg, u |-> DecodeU(pk.alg.curve, Value(pk.alg.curve, pk.x))]

AbsShared(ss) ==
  IF ss = NoKey THEN NoKey ELSE Value(ss.theirs.alg.curve, ss.raw)

Interface ==
  INSTANCE DhSpec WITH
    Parties <- PartySet,
    busy <- pc # "idle",
    secret <- [p \in PartySet |-> AbsSecret(secret[p])],
    public <- [p \in PartySet |-> AbsPublic(public[p])],
    peer <- AbsPublic(peer),
    shared <- [p \in PartySet |-> AbsShared(shared[p])]

(***************************************************************************)
(* Every platform is a DhProvider: fresh keys are in range, exactly the    *)
(* encodings of points are accepted as public keys, public keys and shared *)
(* secrets are those of the standards, and only keys of different          *)
(* algorithms are incompatible.  What an earlier call left in an engine's  *)
(* RAM must not show.                                                      *)
(***************************************************************************)
DhPromise == Interface!Spec

(***************************************************************************)
(* Two parties that used each other's public key have the same secret,     *)
(* whichever square root the import of a compact P-256 key picked, and     *)
(* whether the key object or its exported bytes were used                  *)
(* (test_dh_selftest).                                                     *)
(***************************************************************************)
Agreement ==
  shared[First] # NoKey /\ shared[Second] # NoKey
    /\ export_publickey_bytes(shared[First].theirs) = export_publickey_bytes(public[Second])
    /\ export_publickey_bytes(shared[Second].theirs) = export_publickey_bytes(public[First])
    => shared[First].raw = shared[Second].raw

(***************************************************************************)
(* A key that was exported is accepted again and is then the same key:     *)
(* export(import(export(import(x)))) of testvectors/src/dh/mod.rs for      *)
(* secret keys, and the same for public keys, also for computed ones.      *)
(***************************************************************************)
KeysRoundTrip ==
  /\ \A p \in PartySet :
       secret[p] # NoKey =>
         import_secretkey_bytes(secret[p].alg, export_secretkey_bytes(secret[p])) = {secret[p]}
  /\ \A pk \in {public[p] : p \in PartySet} \cup {peer} :
       pk # NoKey =>
         \E again \in import_publickey_bytes(pk.alg, export_publickey_bytes(pk)) :
           export_publickey_bytes(again) = export_publickey_bytes(pk)

(***************************************************************************)
(* The type invariants of the nRF54L15's SecretKey and PublicKey: scalars  *)
(* are clamped, unused bits of public keys are clear - also in a key the   *)
(* engine computed, which the code leaves open in a FIXME.                 *)
(***************************************************************************)
NrfKeysDecoded ==
  /\ \A sk \in {secret[p] : p \in PartySet} :
       sk # NoKey /\ Provider(sk.alg) = "nrf54l15" =>
         LET v == Value(sk.alg.curve, sk.bytes) IN v = DecodeScalar(sk.alg.curve, v)
  /\ \A pk \in {public[p] : p \in PartySet} \cup {peer} :
       pk # NoKey /\ Provider(pk.alg) = "nrf54l15" =>
         LET v == Value(pk.alg.curve, pk.x) IN v = DecodeU(pk.alg.curve, v)

(***************************************************************************)
(* The nRF54L15 engine's RAM does not hold a secret key between calls.     *)
(***************************************************************************)
PkeScalarErased ==
  pc = "idle" =>
    \A a \in Nrf!SLOT_SCALAR * Nrf!SLOT_SIZE .. (Nrf!SLOT_SCALAR + 1) * Nrf!SLOT_SIZE - 1 :
      RamWord(pke.ram, a) = 0

(***************************************************************************)
(* The STM32WBA55 PKA's RAM does not hold a secret key between calls: what *)
(* the comment in pka_ecc_mult says of its last step.                      *)
(***************************************************************************)
PkaScalarErased ==
  pc = "idle" => \A i \in 0 .. 7 : RamWord(pka.ram, Stm!RAM_K + i) = 0
=============================================================================
