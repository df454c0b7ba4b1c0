------------------------------ MODULE LibcruxDh -----------------------------
(***************************************************************************)
(* What the libcrux extender adds to the DhProvider of its base            *)
(* (embedded-cal-libcrux/src/dh.rs): P-256, if the base lacks it.  A       *)
(* variant is [via, curve], the base's ones are "direct".                  *)
(***************************************************************************)
EXTENDS Curves

OwnVariants == {[via |-> "own", curve |-> "P256"]}

\* The base's implementation is preferred.
from_cose_ecdh(n, base) ==
  IF base # {} THEN {[via |-> "direct", curve |-> c] : c \in base}
  ELSE IF n = 1 THEN OwnVariants
  ELSE {}

\* generate_secret and validate_secret of the library take the same scalars.
generate_visible(curve, rand) ==
  {s \in {rand} : ValidScalar("P256", BeValue(s))}

import_secretkey_bytes(curve, secret) ==
  {s \in {secret} : Len(s) = Size["P256"] /\ ValidScalar("P256", BeValue(s))}

\* The point with the even y coordinate, if there is one.
import_publickey_bytes(curve, data) ==
  IF Len(data) # Size["P256"] \/ ~OnCurve(BeValue(data)) THEN {}
  ELSE {[x |-> data, y |-> BeDigits(EvenLift(BeValue(data))[2], Size["P256"])]}

\* Two own keys or two of the base; the base then looks at its algorithms.
Compatible(sk, pk) == sk.via = pk.via

\* derive_ecdh and secret_to_public
Multiplied(curve, secret, public) ==
  LET r == EcMul[BeValue(secret), <<BeValue(public.x), BeValue(public.y)>>]
  IN  [x |-> BeDigits(r[1], Size["P256"]), y |-> BeDigits(r[2], Size["P256"])]
=============================================================================
