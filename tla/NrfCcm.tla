------------------------------- MODULE NrfCcm -------------------------------
(***************************************************************************)
(* The AeadProvider of the nRF54L15 (embedded-cal-nrf54l15/src/aead.rs): a *)
(* call describes its buffers to the CryptoMaster in an input and an       *)
(* output chain, starts the DMA and polls its status.  The DMA writes the  *)
(* output buffers while the driver polls.                                  *)
(***************************************************************************)
EXTENDS AeadSpec, CryptoMaster

CONSTANTS
  HEADER_BUF,                \* size of header_buf, 288
  MSG_BUF                    \* size of msg_in_buf and ct_buf, 256

VARIABLE pc  \* where the call in progress is

-----------------------------------------------------------------------------
(* The AES engine (external).  It delivers a byte per header byte, the     *)
(* text, and a tag block: the MAC, or when decrypting its XOR with the     *)
(* expected tag.  A byte of an output buffer is told by its kind.          *)

Unwritten == [kind |-> "zero", byte |-> Byte(0), mac |-> {}]

HeaderByte == [kind |-> "header", byte |-> Byte(0), mac |-> {}]

DataByte(b) == [kind |-> "data", byte |-> b, mac |-> {}]

Valid(d) == SubSeq(d.data, 1, Len(d.data) - d.ign)

\* What a chain has for one of the engine's inputs.
For(input, chain) ==
  FlattenSeq([k \in 1 .. Len(chain) |->
                IF chain[k].to = input THEN <<chain[k]>> ELSE << >>])

\* What the engine delivers for an input chain.  When decrypting, the last
\* data descriptor is the expected tag.
Engine(chain) ==
  LET To(input) == For(input, chain)
      op == To("cfg")[1].data
      key == To("key")[1].data
      header == To("aad")[1]
      texts == IF op = "encrypt" THEN To("data") ELSE Front(To("data"))
      text == FlattenSeq([k \in 1 .. Len(texts) |-> Valid(texts[k])])
      nonce == NonceOf(SubSeq(header.data, 1, BLOCK))
      out == Crypt(key, nonce, 0, text)
      mac == [key |-> key, nonce |-> nonce,
              input |-> ZeroPadded(Valid(header))
                          \o ZeroPadded(IF op = "encrypt" THEN text ELSE out)]
      tag == IF op = "encrypt" THEN {mac}
             ELSE {m \in {mac} : Last(To("data")).data # {m}}
  IN  [i \in 1 .. Len(header.data) |-> HeaderByte]
        \o [i \in 1 .. Padded(Len(text)) |-> DataByte(ZeroPadded(out)[i])]
        \o [i \in 1 .. BLOCK |-> [kind |-> "tag", byte |-> Byte(0), mac |-> tag]]

-----------------------------------------------------------------------------
(* The driver *)

\* The algorithm, as a set: empty for None.
from_cose_number(n) == {n} \cap CcmAlgorithms

Start(c) ==
  /\ pc = "idle"
  /\ Begin(c)
  /\ pc' = "build"
  /\ UNCHANGED dma

Aad == FlattenSeq(call.aad)

\* header_buf[..header_data_len]
HeaderData ==
  build_b0(call.nonce, Len(message), Len(Aad), TAG_LEN)
    \o (IF Aad = << >> THEN << >> ELSE BigEndian(Len(Aad), 2) \o Aad)

Padding(s) == Padded(Len(s)) - Len(s)

MacOf(tag) == {x.mac : x \in tag}

InputChain ==
  <<[to |-> "cfg", data |-> call.op, ign |-> 0],
    [to |-> "key", data |-> call.key, ign |-> 0],
    [to |-> "aad", data |-> ZeroPadded(HeaderData), ign |-> Padding(HeaderData)]>>
  \o (IF message = << >> THEN << >>
      ELSE <<[to |-> "data", data |-> ZeroPadded(message),
              ign |-> Padding(message)]>>)
  \o (IF call.op = "encrypt" THEN << >>
      ELSE <<[to |-> "data", data |-> MacOf(call.tag), ign |-> BLOCK - TAG_LEN]>>)

\* The sizes of the buffers: header_out_buf, the text, the tag.
OutputChain ==
  <<Padded(Len(HeaderData))>>
  \o (IF message = << >> THEN << >> ELSE <<Padded(Len(message))>>)
  \o <<BLOCK>>

\* Slices of the fixed buffers, of the tag, the nonce, and pushes beyond a chain's
\* end.
BuildPanics ==
  \/ BLOCK + 2 + Len(Aad) > HEADER_BUF
  \/ B0Panics(call.nonce)
  \/ Len(message) > MSG_BUF
  \/ \E x \in call.tag : x.len < TAG_LEN
  \/ PushPanics(InputChain)
  \/ PushPanics(OutputChain)

Panic ==
  /\ pc' = "panicked"
  /\ busy' = FALSE
  /\ result' = [status |-> "panicked", tag |-> {}]
  /\ UNCHANGED <<call, message, dma>>

Build ==
  /\ pc = "build"
  /\ IF BuildPanics THEN Panic
     ELSE /\ \E in \in {Followed(InputChain, {})} :
               StartDma(in, Followed(OutputChain, {}), Engine(in.jobs))
          /\ pc' = "wait"
          /\ UNCHANGED aeadVars

\* Output buffer k from the end.
FromEnd(k) ==
  LET n == Len(OutputChain) - k
  IN  OutputBuffer(n, [i \in 1 .. OutputChain[n] |-> Unwritten])

Text == [i \in 1 .. Len(message) |-> FromEnd(1)[i].byte]

\* mac_ok: the bytes of the tag's length are all zero.
MacOk == \A i \in 1 .. TAG_LEN : FromEnd(0)[i].kind # "header" /\ FromEnd(0)[i].mac = {}

Finish_WritesFirst ==
  /\ pc = "wait"
  /\ PollingEnds
  /\ pc' = "idle"
  /\ busy' = FALSE
  /\ message' = Text
  /\ result' =
       IF call.op = "encrypt"
         THEN [status |-> "Ok", tag |-> {[mac |-> m, len |-> TAG_LEN] : m \in FromEnd(0)[1].mac}]
         ELSE [status |-> IF MacOk THEN "Ok" ELSE "DecryptionFailed", tag |-> {}]
  /\ UNCHANGED <<call, dma>>

\* The polling loop has ended; the caller's buffer is written only if all is
\* well.
Finish ==
  /\ pc = "wait"
  /\ PollingEnds
  /\ pc' = "idle"
  /\ busy' = FALSE
  /\ IF call.op = "encrypt"
       THEN /\ message' = Text
            /\ result' = [status |-> "Ok",
                          tag |-> {[mac |-> m, len |-> TAG_LEN] :
                                     m \in FromEnd(0)[1].mac}]
       ELSE /\ message' = IF MacOk THEN Text ELSE message
            /\ result' = [status |-> IF MacOk THEN "Ok" ELSE "DecryptionFailed",
                          tag |-> {}]
  /\ UNCHANGED <<call, dma>>

NrfStep ==
  \/ Build
  \/ Dma /\ UNCHANGED <<aeadVars, pc>>
  \/ Finish
=============================================================================
