--------------------------- MODULE RustcryptoHmac ---------------------------
(***************************************************************************)
(* The HmacProvider of the RustCrypto extender                             *)
(* (embedded-cal-rustcrypto/src/hmac.rs): the base's HMAC if it has one -  *)
(* here the software-demo Extender's - and the library's otherwise.  A     *)
(* key or state is [via, ...], the base's ones are "direct".               *)
(***************************************************************************)
EXTENDS Rfc2104

Base == INSTANCE SoftHmac

MAX_LEN == 2 * DIGEST_LEN   \* 64, for digests of 32

\* The base's implementation is preferred.
from_cose_number(n, base) ==
  IF base # {} THEN {"direct"} ELSE {v \in {"own"} : n = 5}

load_from_keydata(via, key) ==
  IF via = "own" THEN [via |-> "own", state |-> [key |-> key, text |-> << >>]]
                 ELSE [via |-> "direct", state |-> Base!load_from_keydata(key)]

init(key) ==
  IF key.via = "own" THEN key ELSE [key EXCEPT !.state = Base!init(@)]

update(state, data) ==
  IF state.via = "own" THEN [state EXCEPT !.state.text = @ \o data]
                       ELSE [state EXCEPT !.state = Base!update(@, data)]

finalize(state) ==
  IF state.via = "own" THEN RfcHmac(state.state.key, state.state.text)
                       ELSE Base!finalize(state.state)
=============================================================================
