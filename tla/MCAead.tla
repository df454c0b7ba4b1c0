------------------------------- MODULE MCAead -------------------------------
(***************************************************************************)
(* Instances of AeadProviders: every message length with every list of     *)
(* additional data, for a short and a long key; decryption of what was     *)
(* encrypted, with the right tag, one for other additional data or a       *)
(* forged one.                                                             *)
(***************************************************************************)
EXTENDS AeadProviders

CONSTANTS
  MessageLengths,
  NonceLengths,   \* of AES-CCM calls
  TagLengths

MCBoards == {[adapter |-> "none", base |-> b] : b \in {"stm32wba55", "nrf54l15"}}

\* The libcrux and RustCrypto extenders alone and on a board.
MCPlatforms ==
  MCBoards \cup {[adapter |-> "rustcrypto", base |-> b] : b \in {"empty", "stm32wba55"}}
           \cup {[adapter |-> "libcrux", base |-> b] : b \in {"empty", "nrf54l15"}}

Text(n, base) == [i \in 1 .. n |-> Byte(base + i)]

Aads ==
  {<< >>, <<Text(1, 20)>>, <<Text(2, 20)>>,
   <<Text(1, 20), << >>, Text(4, 30)>>}

MCKeys ==
  {[alg |-> 10, bytes |-> <<"none", "a">>], [alg |-> 11, bytes |-> <<"b", "c">>],
   [alg |-> 3, bytes |-> <<"d", "e">>]}

Encryptions ==
  {[op |-> "encrypt", key |-> k, nonce |-> Text(n, 10), message |-> Text(m, 0),
    aad |-> a, tag |-> {}] :
     k \in MCKeys, n \in NonceLengths \cup {GCM_NONCE_LEN}, m \in MessageLengths, a \in Aads}

Sound(e) ==
  Len(e.nonce) \in IF e.key.alg \in GcmAlgorithms THEN {GCM_NONCE_LEN} ELSE NonceLengths

TagFor(e, aad, len) ==
  {[mac |-> Mac(e.key, e.nonce, FlattenSeq(aad), e.message,
                Crypt(e.key, e.nonce, 0, e.message)), len |-> len]}

\* The ciphertext of e, with the tag computed for some additional data.
Decryption(e, aad, len) ==
  [e EXCEPT !.op = "decrypt",
            !.message = Crypt(e.key, e.nonce, 0, e.message),
            !.tag = TagFor(e, aad, len)]

TagLengthsOf(e) == IF e.key.alg \in GcmAlgorithms THEN {GCM_TAG_LEN} ELSE TagLengths

MCCalls ==
  LET es == {e \in Encryptions : Sound(e)} IN
  es \cup UNION {{Decryption(e, a, n) : a \in {<< >>, <<Text(1, 20)>>, e.aad},
                                        n \in TagLengthsOf(e)} : e \in es}

\* On the boards one message length suffices for the long key, which takes
\* other key registers and nothing else.  An extender forwards, or hands over to
\* a library in one step: one message length and one key of each algorithm are
\* enough.
MCOffered ==
  [a \in {"none", "rustcrypto", "libcrux"} |->
     {c \in Calls :
        CASE a = "none"       -> c.key.alg = 10 \/ (c.key.alg = 11 /\ Len(c.message) = 3)
          [] a = "rustcrypto" -> c.key.alg = 10 /\ Len(c.message) = 3
          [] a = "libcrux"    -> c.key.alg \in {3, 10} /\ Len(c.message) = 3}]
=============================================================================
