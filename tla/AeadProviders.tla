--------------------------- MODULE AeadProviders ---------------------------
(***************************************************************************)
(* The AeadProviders of the two boards and of the RustCrypto and libcrux   *)
(* extenders on top of one of them (or of nothing) behind the one trait: a *)
(* program runs on one of the platforms and makes one AEAD call after the  *)
(* other.                                                                  *)
(***************************************************************************)
EXTENDS Ccm

CONSTANTS
  Platforms,                 \* set of [adapter, base]
  Calls,                     \* the calls a program makes
  Offered,                   \* those it makes on a platform, by its adapter
  MAX_DESCRIPTOR_CHAIN_LEN,
  HEADER_BUF,
  MSG_BUF,
  AEAD_BUFFER

\* header_buf and msg_in_buf are whole blocks; a chain takes the descriptors of a
\* call.
ASSUME BufferAssumption ==
  /\ HEADER_BUF \in Nat /\ MSG_BUF \in Nat /\ AEAD_BUFFER \in Nat
  /\ HEADER_BUF % BLOCK = 0
  /\ MSG_BUF % BLOCK = 0
  /\ MAX_DESCRIPTOR_CHAIN_LEN \in Nat /\ MAX_DESCRIPTOR_CHAIN_LEN >= 5

ASSUME PlatformAssumption ==
  Platforms \subseteq [adapter : {"none", "libcrux", "rustcrypto"},
                       base : {"empty", "stm32wba55", "nrf54l15"}]

IsSlice(s) == s \in Seq(Range(s))

\* A call as the types of AeadProvider allow it: an encryption without a tag or a
\* decryption with one, of byte slices, under a key of its algorithm.  AES-128
\* has the lower half of a key only.
IsCall(c) ==
  /\ \/ c.op = "encrypt" /\ c.tag = {}
     \/ c.op = "decrypt" /\ \E x \in c.tag : c.tag = {x} /\ x = [mac |-> x.mac, len |-> x.len]
  /\ c.key = [alg |-> c.key.alg, bytes |-> c.key.bytes]
  /\ c.key.alg \in GcmAlgorithms \cup CcmAlgorithms
  /\ c.key.alg = 10 => c.key.bytes = <<"none", c.key.bytes[2]>>
  /\ IsSlice(c.nonce) /\ IsSlice(c.message)
  /\ IsSlice(c.aad) /\ \A x \in Range(c.aad) : IsSlice(x)

ASSUME CallAssumption ==
  /\ Calls # {}
  /\ \A c \in Calls : IsCall(c)
  /\ \A a \in {"none", "libcrux", "rustcrypto"} : Offered[a] \subseteq Calls

\* Nonce and tag have the lengths of the algorithm, as the "Panics" sections of
\* AeadProvider ask.
RightLengths(c) ==
  /\ Len(c.nonce) = nonce_length(c.key.alg)
  /\ \A x \in c.tag : x.len = tag_length(c.key.alg)

\* The message and the additional data fit into the buffers of the drivers.
Fits(c) ==
  /\ BLOCK + 2 + Len(FlattenSeq(c.aad)) <= HEADER_BUF
  /\ Len(c.message) <= MSG_BUF
  /\ Len(FlattenSeq(c.aad)) <= AEAD_BUFFER

VARIABLES
  platform,                       \* where the program runs
  busy, call, message, result,    \* the calls
  pc,
  aes, items, block, msg_offset,  \* STM32
  dma,                            \* nRF
  aead_buffer, cursor, slices     \* RustCrypto

stmVars == <<aes, items, block, msg_offset>>
rustcryptoVars == <<aead_buffer, cursor, slices>>
vars == <<platform, busy, call, message, result, pc, stmVars, dma, rustcryptoVars>>

Stm == INSTANCE Stm32Ccm
Nrf == INSTANCE NrfCcm
Rustcrypto == INSTANCE RustcryptoAead
Libcrux == INSTANCE LibcruxAead

Interface ==
  INSTANCE AeadSpec WITH message <- IF busy THEN call.message ELSE message

-----------------------------------------------------------------------------
(* The calls of an extender go to its own code or to its base. *)

BaseAlgorithms(n) ==
  CASE platform.base = "stm32wba55" -> Stm!from_cose_number(n)
    [] platform.base = "nrf54l15"   -> Nrf!from_cose_number(n)
    [] platform.base = "empty"      -> {}

from_cose_number(n) ==
  CASE platform.adapter = "rustcrypto" -> Rustcrypto!from_cose_number(n, BaseAlgorithms(n))
    [] platform.adapter = "libcrux"    -> Libcrux!from_cose_number(n, BaseAlgorithms(n))
    [] platform.adapter = "none"       -> {v \in {"direct"} : BaseAlgorithms(n) # {}}

\* A program can also name a variant of the extender itself.
OwnAlgorithms ==
  CASE platform.adapter = "rustcrypto" -> Rustcrypto!OwnAlgorithms
    [] platform.adapter = "libcrux"    -> Libcrux!OwnAlgorithms
    [] platform.adapter = "none"       -> {}

Variants(n) == from_cose_number(n) \cup {v \in {"own"} : n \in OwnAlgorithms}

Provider(v) == IF v = "own" THEN platform.adapter ELSE platform.base

-----------------------------------------------------------------------------

Init ==
  /\ platform \in Platforms
  /\ busy = FALSE
  /\ call \in {CHOOSE c \in Calls : TRUE}
  /\ message = call.message
  /\ result = [status |-> "pending", tag |-> {}]
  /\ Stm!StmInit
  /\ Nrf!DmaInit
  /\ Rustcrypto!RustcryptoInit

Start ==
  \E c \in Offered[platform.adapter] : \E v \in Variants(c.key.alg) :
    \/ Provider(v) = "stm32wba55" /\ Stm!Start(c) /\ UNCHANGED <<dma, rustcryptoVars>>
    \/ Provider(v) = "nrf54l15" /\ Nrf!Start(c) /\ UNCHANGED <<stmVars, rustcryptoVars>>
    \/ Provider(v) = "rustcrypto" /\ Rustcrypto!Start(c) /\ UNCHANGED <<stmVars, dma>>
    \/ Provider(v) = "libcrux" /\ Libcrux!Start(c)
         /\ UNCHANGED <<stmVars, dma, rustcryptoVars>>

Step ==
  \/ Stm!StmStep /\ UNCHANGED <<dma, rustcryptoVars>>
  \/ Nrf!NrfStep /\ UNCHANGED <<stmVars, rustcryptoVars>>
  \/ Rustcrypto!RustcryptoStep /\ UNCHANGED <<stmVars, dma>>
  \/ Libcrux!LibraryCall /\ UNCHANGED <<stmVars, dma, rustcryptoVars>>

Next == (Start \/ Step) /\ UNCHANGED platform

Spec == Init /\ [][Next]_vars

-----------------------------------------------------------------------------
(* Properties *)

(***************************************************************************)
(* Every call is AES-CCM or AES-GCM of its own arguments: the text and the *)
(* tag are those of the standards, decryption succeeds exactly if the tag  *)
(* is right, and nothing panics.  Registers and buffers left over from the *)
(* previous call, the way the additional data is cut into items, partial   *)
(* blocks and a DMA that is still writing must not show.                   *)
(***************************************************************************)
AeadPromise == Interface!Spec

(***************************************************************************)
(* The "Panics" sections of AeadProvider: a call with a nonce or a tag of  *)
(* another length than the algorithm's does not return.                    *)
(***************************************************************************)
LengthsChecked ==
  ~busy /\ result.status \in {"Ok", "DecryptionFailed"} => RightLengths(call)

(***************************************************************************)
(* While the driver works on something else than the call's own buffers -  *)
(* between calls - the DMA does not write any more, and the AES peripheral *)
(* is disabled and was never given a block its phase does not take.        *)
(***************************************************************************)
HardwareAtRest ==
  /\ ~busy => dma.status = {} /\ ~aes.en
  /\ ~aes.misused

(***************************************************************************)
(* A failed decryption on the nRF54L15 leaves nothing unverified in the    *)
(* caller's buffer, as the "Implementation guidance" of decrypt_in_place   *)
(* asks: the DMA decrypts into a buffer of the driver.                     *)
(***************************************************************************)
NrfFailureContained ==
  platform = [adapter |-> "none", base |-> "nrf54l15"] /\ ~busy
    /\ result.status = "DecryptionFailed" => message = call.message
=============================================================================
