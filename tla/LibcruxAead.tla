---------------------------- MODULE LibcruxAead -----------------------------
(***************************************************************************)
(* What the libcrux extender adds to the AeadProvider of its base          *)
(* (embedded-cal-libcrux/src/aead.rs): AES-GCM.  The library takes the     *)
(* additional data as an iterator over bytes that also announces their     *)
(* number.                                                                 *)
(***************************************************************************)
EXTENDS AeadSpec

VARIABLE pc  \* where the call in progress is

OwnAlgorithms == GcmAlgorithms

\* Its own implementation is preferred.
from_cose_number(n, base) ==
  IF n \in OwnAlgorithms THEN {"own"} ELSE {v \in {"direct"} : base # {}}

Start(c) ==
  /\ pc = "idle"
  /\ Begin(c)
  /\ pc' = "library"

\* AadAdapter: the items are gone through twice, for the number of bytes and for
\* the bytes of those that are not empty.
flatten(aad) ==
  LET len[n \in 0 .. Len(aad)] == IF n = 0 THEN 0 ELSE len[n - 1] + Len(aad[n])
      non_empty_chunks[n \in 0 .. Len(aad)] ==
        IF n = 0 THEN << >>
        ELSE non_empty_chunks[n - 1] \o (IF aad[n] = << >> THEN << >> ELSE <<aad[n]>>)
  IN  [len |-> len[Len(aad)], inner |-> FlattenSeq(non_empty_chunks[Len(aad)])]

\* The library knows both lengths from its arguments.
LengthMismatch ==
  \/ Len(call.nonce) # nonce_length(call.key.alg)
  \/ \E x \in call.tag : x.len # tag_length(call.key.alg)

\* An error of the library panics or is DecryptionFailed.
LibraryCall ==
  LET out == Crypt(call.key, call.nonce, 0, message)
      aad == flatten(call.aad)
      crypted == IF call.op = "encrypt" THEN out ELSE message
      tag == Tag(call.key, GcmMac(call.key, call.nonce, aad.inner, aad.len, crypted))
  IN
  /\ pc = "library"
  /\ busy' = FALSE
  /\ UNCHANGED call
  /\ IF call.op = "encrypt"
       THEN IF LengthMismatch
         THEN /\ pc' = "panicked"
              /\ result' = [status |-> "panicked", tag |-> {}]
              /\ UNCHANGED message
         ELSE /\ pc' = "idle"
              /\ result' = [status |-> "Ok", tag |-> tag]
              /\ message' = out
       ELSE /\ pc' = "idle"
            /\ IF ~LengthMismatch /\ call.tag = tag
                 THEN message' = out /\ result' = [status |-> "Ok", tag |-> {}]
                 ELSE /\ message' \in {message, out, Zeros(Len(message))}
                      /\ result' = [status |-> "DecryptionFailed", tag |-> {}]
=============================================================================
