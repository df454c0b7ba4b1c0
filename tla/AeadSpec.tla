------------------------------ MODULE AeadSpec ------------------------------
(***************************************************************************)
(* What an AeadProvider promises (embedded-cal/src/aead.rs), for AES-CCM   *)
(* and AES-GCM: a call encrypts in place and returns the tag, or decrypts  *)
(* in place and says whether the tag was right, for any split of the       *)
(* additional data into items.                                             *)
(***************************************************************************)
EXTENDS Ccm

CONSTANT Calls  \* calls: [op, key, nonce, message, aad, tag]

VARIABLES
  busy,     \* a call is in progress
  call,     \* the call in progress, or the last one
  message,  \* the caller's buffer
  result    \* of the last call: [status, tag]

aeadVars == <<busy, call, message, result>>

Pending == [status |-> "pending", tag |-> {}]

AeadInit ==
  /\ busy = FALSE
  /\ call \in Calls
  /\ message = call.message
  /\ result = Pending

Begin(c) ==
  /\ ~busy
  /\ busy' = TRUE
  /\ call' = c
  /\ message' = c.message
  /\ result' = Pending

Encrypted ==
  /\ call.op = "encrypt"
  /\ message' = Crypt(call.key, call.nonce, 0, call.message)
  /\ result' = [status |-> "Ok",
                tag |-> Tag(call.key, Mac(call.key, call.nonce, FlattenSeq(call.aad),
                                          call.message, message'))]

\* After a failure the buffer may hold anything.
Decrypted ==
  LET plain == Crypt(call.key, call.nonce, 0, call.message)
      mac == Mac(call.key, call.nonce, FlattenSeq(call.aad), plain, call.message)
  IN  /\ call.op = "decrypt"
      /\ result'.tag = {}
      /\ IF call.tag = Tag(call.key, mac)
           THEN result'.status = "Ok" /\ message' = plain
           ELSE result'.status = "DecryptionFailed"

Return ==
  /\ busy
  /\ ~busy'
  /\ UNCHANGED call
  /\ Encrypted \/ Decrypted

AeadNext == (call' \in Calls /\ Begin(call')) \/ Return

Spec == AeadInit /\ [][AeadNext]_aeadVars
=============================================================================
