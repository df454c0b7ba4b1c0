---------------------------- MODULE RustcryptoDh ----------------------------
(***************************************************************************)
(* What the RustCrypto extender adds to the DhProvider of its base         *)
(* (embedded-cal-rustcrypto/src/dh.rs): P-256 and X25519, as far as the    *)
(* base lacks them.  A variant is [via, curve], the base's ones are        *)
(* "direct".                                                               *)
(***************************************************************************)
EXTENDS Curves

OwnVariants == {[via |-> "own", curve |-> c] : c \in {"P256", "X25519"}}

\* The base's implementation is preferred.
from_cose_ecdh(n, base) ==
  IF base # {} THEN {[via |-> "direct", curve |-> c] : c \in base}
  ELSE {a \in OwnVariants : a.curve = CASE n = 1 -> "P256" [] n = 4 -> "X25519"
                                        [] OTHER -> "none"}

\* p256 draws until a scalar is in range, x25519_dalek takes any bytes.
generate_visible(curve, random) ==
  {s \in {random} : curve = "P256" => ValidScalar("P256", BeValue(s))}

import_secretkey_bytes(curve, secret) ==
  {s \in {secret} : /\ Len(s) = Size[curve]
                    /\ curve = "P256" => ValidScalar("P256", BeValue(s))}

Unused(curve) == [i \in 1 .. Size[curve] |-> 0]

\* `decompress' with an even y coordinate; any bytes are an X25519 key.
import_publickey_bytes(curve, data) ==
  IF Len(data) # Size[curve] THEN {}
  ELSE CASE curve = "X25519" -> {[x |-> data, y |-> Unused(curve)]}
         [] curve = "P256" /\ OnCurve(BeValue(data)) ->
              {[x |-> data, y |-> BeDigits(EvenLift(BeValue(data))[2], Size["P256"])]}
         [] OTHER -> {}

\* Keys of one variant; the base then looks at its algorithms.
Compatible(sk, pk) == sk.via = pk.via /\ (sk.via = "own" => sk.curve = pk.curve)

\* diffie_hellman and public_key: x25519_dalek decodes its arguments itself.
Multiplied(curve, secret, public) ==
  IF curve = "P256"
    THEN LET r == EcMul[BeValue(secret), <<BeValue(public.x), BeValue(public.y)>>]
         IN  [x |-> BeDigits(r[1], Size[curve]), y |-> BeDigits(r[2], Size[curve])]
    ELSE [x |-> LeDigits(MontMul(curve, DecodeScalar(curve, LeValue(secret)),
                                 DecodeU(curve, LeValue(public.x))), Size[curve]),
          y |-> Unused(curve)]
=============================================================================
