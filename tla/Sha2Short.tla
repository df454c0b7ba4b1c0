----------------------------- MODULE Sha2Short -----------------------------
(***************************************************************************)
(* The plumbing contract between the code that buffers hash input and a    *)
(* SHA-2 back-end (embedded-cal/src/plumbing/hash/sha2short.rs).           *)
(*                                                                         *)
(* A back-end takes a message in chunks: the first one has                 *)
(* FIRST_CHUNK_SIZE bytes (if that is not 0), every later one has the      *)
(* block size.  What is left over is passed to finalize.  A caller that    *)
(* breaks these rules makes the back-end panic or compute a wrong digest:  *)
(* either way `broken' is set and the contract promises nothing any more.  *)
(***************************************************************************)
EXTENDS Naturals, Sequences

CONSTANTS
  Sessions,              \* identities of the hash states a program holds
  FIRST_CHUNK_SIZE,      \* size of the first chunk, 0 if it is not special
  SHA2SHORT_BLOCK_SIZE,  \* the SHA-2 block size (64)
  SEND_PADDING           \* TRUE if the caller has to send the padding

VARIABLES
  absorbed,  \* absorbed[s]: the bytes instance s took through update
  hashed,    \* hashed[s]: {m} once finalize of s hashed m, {} before
  broken     \* TRUE once a caller violated the length rules

(***************************************************************************)
(* Length of the one chunk update accepts after n bytes.                   *)
(***************************************************************************)
ChunkSize(n) ==
  IF n = 0 /\ FIRST_CHUNK_SIZE # 0
    THEN FIRST_CHUNK_SIZE ELSE SHA2SHORT_BLOCK_SIZE

(***************************************************************************)
(* Bytes finalize accepts as last chunk after n bytes: nothing if the      *)
(* padding was sent, otherwise less than what update would have taken.     *)
(***************************************************************************)
LastChunkAccepted(n, len) ==
  IF SEND_PADDING THEN len = 0 ELSE len < ChunkSize(n)

init(s) ==
  /\ absorbed' = [absorbed EXCEPT ![s] = << >>]
  /\ hashed' = [hashed EXCEPT ![s] = {}]
  /\ UNCHANGED broken

update(s, data) ==
  /\ absorbed' = [absorbed EXCEPT ![s] = @ \o data]
  /\ broken' = (broken \/ Len(data) # ChunkSize(Len(absorbed[s])))
  /\ UNCHANGED hashed

finalize(s, last_chunk) ==
  /\ hashed' = [hashed EXCEPT ![s] = {absorbed[s] \o last_chunk}]
  /\ broken' =
       (broken \/ ~LastChunkAccepted(Len(absorbed[s]), Len(last_chunk)))
  /\ UNCHANGED absorbed

\* State is Clone: the copy continues on its own from where s is.
clone(s, t) ==
  /\ absorbed' = [absorbed EXCEPT ![t] = absorbed[s]]
  /\ hashed' = [hashed EXCEPT ![t] = {}]
  /\ UNCHANGED broken
=============================================================================
