--------------------------- MODULE RustcryptoAead ---------------------------
(***************************************************************************)
(* What the RustCrypto extender adds to the AeadProvider of its base       *)
(* (embedded-cal-rustcrypto/src/aead.rs, collect_aad in lib.rs), in a      *)
(* build without "alloc": AES-CCM as far as the base lacks it.  The        *)
(* library wants the additional data in one piece; it is collected in a    *)
(* buffer of the provider, which keeps what earlier calls left in it.  An  *)
(* item of the additional data is one step.                                *)
(***************************************************************************)
EXTENDS AeadSpec

CONSTANT AEAD_BUFFER  \* size of aead_buffer, 1024

VARIABLES
  pc,
  aead_buffer,
  cursor, slices                \* collect_aad: local, the items left

collectVars == <<aead_buffer, cursor, slices>>

RustcryptoInit ==
  /\ aead_buffer = Zeros(AEAD_BUFFER)
  /\ cursor = 0
  /\ slices = << >>

OwnAlgorithms == CcmAlgorithms

\* The base's implementation is preferred.
from_cose_number(n, base) ==
  IF base # {} THEN {"direct"} ELSE {v \in {"own"} : n \in OwnAlgorithms}

Start(c) ==
  /\ pc = "idle"
  /\ Begin(c)
  /\ pc' = "collect"
  /\ slices' = c.aad
  /\ UNCHANGED <<aead_buffer, cursor>>

Panic ==
  /\ pc' = "panicked"
  /\ busy' = FALSE
  /\ result' = [status |-> "panicked", tag |-> {}]
  /\ UNCHANGED <<call, message, collectVars>>

\* aead_buffer[cursor..][..slice.len()]
CollectSlice ==
  LET slice == Head(slices)
      upto == cursor + Len(slice)
  IN  /\ pc = "collect" /\ slices # << >>
      /\ IF upto > AEAD_BUFFER THEN Panic
         ELSE /\ aead_buffer' = SubSeq(aead_buffer, 1, cursor) \o slice
                                  \o SubSeq(aead_buffer, upto + 1, AEAD_BUFFER)
              /\ cursor' = upto
              /\ slices' = Tail(slices)
              /\ UNCHANGED <<busy, call, message, result, pc>>

AadLinear == SubSeq(aead_buffer, 1, cursor)

\* The `expect's on nonce and tag.
LengthMismatch ==
  \/ Len(call.nonce) # nonce_length(call.key.alg)
  \/ \E x \in call.tag : x.len # tag_length(call.key.alg)

\* encrypt_inout_detached or decrypt_inout_detached; what the library leaves
\* in the buffer when it fails is its own affair.
LibraryCall ==
  LET out == Crypt(call.key, call.nonce, 0, message)
      plain == IF call.op = "encrypt" THEN message ELSE out
      tag == Tag(call.key, RfcMac(call.key, call.nonce, AadLinear, plain))
  IN
  /\ pc = "collect" /\ slices = << >>
  /\ IF LengthMismatch THEN Panic
     ELSE /\ IF call.op = "encrypt"
               THEN message' = out /\ result' = [status |-> "Ok", tag |-> tag]
               ELSE IF call.tag = tag
                 THEN message' = out /\ result' = [status |-> "Ok", tag |-> {}]
                 ELSE /\ message' \in {message, out, Zeros(Len(message))}
                      /\ result' = [status |-> "DecryptionFailed", tag |-> {}]
          /\ busy' = FALSE
          /\ pc' = "idle"
          /\ cursor' = 0
          /\ UNCHANGED <<call, aead_buffer, slices>>

RustcryptoStep == CollectSlice \/ LibraryCall
=============================================================================
