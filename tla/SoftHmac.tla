------------------------------ MODULE SoftHmac ------------------------------
(***************************************************************************)
(* The HmacProvider the software-demo Extender builds from a HashProvider  *)
(* (software-demo/src/hmac.rs).  A hash state is the bytes it was fed:     *)
(* that its digest is theirs is the HashProvider's promise.                *)
(***************************************************************************)
EXTENDS Rfc2104

MAX_LEN == DIGEST_LEN

\* The algorithm, as a set: empty for None.
from_cose_number(n) == {v \in {"HmacSha256"} : n = 5}

KeyBlock_HashesFullBlock(key) ==
  ZeroFilled(IF Len(key) >= SHA2SHORT_BLOCK_SIZE THEN Hash(key) ELSE key,
             SHA2SHORT_BLOCK_SIZE)

\* key_block: a longer key is hashed first.
KeyBlock(key) ==
  ZeroFilled(IF Len(key) > SHA2SHORT_BLOCK_SIZE THEN Hash(key) ELSE key,
             SHA2SHORT_BLOCK_SIZE)

load_from_keydata(key) ==
  [inner |-> Xored(KeyBlock(key), "ipad"), outer_key |-> Xored(KeyBlock(key), "opad")]

init(key) == key

update(state, data) == [state EXCEPT !.inner = @ \o data]

finalize(state) == Hash(state.outer_key \o Hash(state.inner))
=============================================================================
