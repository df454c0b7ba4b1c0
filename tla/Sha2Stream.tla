----------------------------- MODULE Sha2Stream -----------------------------
(***************************************************************************)
(* The software-demo Extender's SHA-256 HashProvider                       *)
(* (embedded-cal-software-demo/src/hash.rs): it cuts the byte stream of    *)
(* any number of independent hash states into the chunks that a Sha2Short  *)
(* back-end demands, keeps the rest in a per-state buffer, and adds the    *)
(* padding where the back-end does not.                                    *)
(*                                                                         *)
(* `&mut self' serialises the calls: one call runs at a time, but calls    *)
(* on different states may follow each other in any order.  One iteration  *)
(* of the loop in update is one step.                                      *)
(***************************************************************************)
EXTENDS Fips180

CONSTANTS
  Sessions,                    \* identities of the HashState values
  Payloads,                    \* the byte sequences passed to update
  FIRST_CHUNK_SIZE,            \* of the back-end: 68 (STM32), 64 (others)
  SEND_PADDING,                \* of the back-end: FALSE only on STM32
  HASH_WRAPPER_MAX_BLOCKSIZE,  \* size of the buffer in a state: 68
  MaxMessage                   \* bound: longest message a state is fed

(***************************************************************************)
(* The conditions under which the code is right.  The first three are      *)
(* facts of SHA-256.  Nothing in the code asserts the other two, a         *)
(* back-end has to be declared so that they hold: the state's buffer must  *)
(* hold a chunk (the FIXME on HashState), and a back-end that wants the    *)
(* padding sent must take it all through update.                           *)
(***************************************************************************)
ASSUME SizesAssumption ==
  /\ SHA2SHORT_BLOCK_SIZE \in Nat \ {0}
  /\ LENGTH_BYTES \in Nat \ {0}
  /\ LENGTH_OFFSET \in Nat \ {0}
  /\ LENGTH_OFFSET + LENGTH_BYTES = SHA2SHORT_BLOCK_SIZE

ASSUME BackendAssumption ==
  /\ FIRST_CHUNK_SIZE \in Nat
  /\ SEND_PADDING \in BOOLEAN
  /\ SEND_PADDING => FIRST_CHUNK_SIZE \in {0, SHA2SHORT_BLOCK_SIZE}

ASSUME BufferAssumption ==
  /\ HASH_WRAPPER_MAX_BLOCKSIZE \in Nat
  /\ FIRST_CHUNK_SIZE <= HASH_WRAPPER_MAX_BLOCKSIZE
  /\ SHA2SHORT_BLOCK_SIZE <= HASH_WRAPPER_MAX_BLOCKSIZE

ASSUME InputAssumption ==
  /\ Sessions # {}
  /\ \A d \in Payloads : d \in Seq(Nat)
  /\ MaxMessage \in Nat

VARIABLES
  live,              \* states in existence
  written,           \* HashState::Sha256.written
  buffer,            \* HashState::Sha256.buffer
  absorbed,          \* back-end: bytes taken by HashState::Sha256.instance
  hashed,            \* back-end: bytes hashed by Sha2Short::finalize
  broken,            \* back-end: the caller broke the chunk rules
  pc,                \* where the call in progress is
  cur,               \* the state it works on
  data,              \* its local `data': what is left of the input
  written_in_buffer, \* its local of the same name
  fed                \* history: the bytes passed to update since init

backendVars == <<absorbed, hashed, broken>>
stateVars == <<live, written, buffer>>
callVars == <<pc, cur, data, written_in_buffer>>
vars == <<stateVars, backendVars, callVars, fed>>

Backend == INSTANCE Sha2Short

-----------------------------------------------------------------------------
(* Pure parts.  A definition whose name says what it forgets is a mistake   *)
(* the properties below must catch; it stands before the one it distorts.   *)

InBuffer_ForgetsModulus(w) == w

InBuffer_ForgetsFirstChunk(w) == w % SHA2SHORT_BLOCK_SIZE

InBuffer(w) ==
  IF w < FIRST_CHUNK_SIZE THEN w
  ELSE (w - FIRST_CHUNK_SIZE) % SHA2SHORT_BLOCK_SIZE

BufferMax_ForgetsFirstChunk(w) == SHA2SHORT_BLOCK_SIZE

BufferMax(w) ==
  IF w < FIRST_CHUNK_SIZE THEN FIRST_CHUNK_SIZE ELSE SHA2SHORT_BLOCK_SIZE

\* zero_pad in sha2_padding
ZeroPad(msg_len) ==
  LET rem == (msg_len + 1) % SHA2SHORT_BLOCK_SIZE
  IN  IF rem <= LENGTH_OFFSET
        THEN LENGTH_OFFSET - rem
        ELSE LENGTH_OFFSET + (SHA2SHORT_BLOCK_SIZE - rem)

\* The tail of bit_len.to_be_bytes(): the length in bits, big endian.
LenBytesBe(msg_len) ==
  LET bit_len == msg_len * 8
  IN  [k \in 1 .. LENGTH_BYTES |->
         (bit_len \div 256 ^ (LENGTH_BYTES - k)) % 256]

sha256_padding(msg_len) ==
  <<128>> \o [k \in 1 .. ZeroPad(msg_len) |-> 0] \o LenBytesBe(msg_len)

-----------------------------------------------------------------------------
(* Steps *)

Init ==
  /\ live = {}
  /\ written = [s \in Sessions |-> 0]
  /\ buffer = [s \in Sessions |-> [i \in 1 .. HASH_WRAPPER_MAX_BLOCKSIZE |-> 0]]
  /\ absorbed = [s \in Sessions |-> << >>]
  /\ hashed = [s \in Sessions |-> {}]
  /\ broken = FALSE
  /\ pc = "idle"
  /\ cur \in Sessions
  /\ data = << >>
  /\ written_in_buffer = 0
  /\ fed = [s \in Sessions |-> << >>]

HashInit(s) ==
  /\ pc = "idle"
  /\ s \notin live
  /\ live' = live \cup {s}
  /\ written' = [written EXCEPT ![s] = 0]
  /\ buffer' =
       [buffer EXCEPT ![s] = [i \in 1 .. HASH_WRAPPER_MAX_BLOCKSIZE |-> 0]]
  /\ Backend!init(s)
  /\ fed' = [fed EXCEPT ![s] = << >>]
  /\ UNCHANGED callVars

Update(s, d) ==
  /\ pc = "idle"
  /\ s \in live
  /\ Len(fed[s]) + Len(d) <= MaxMessage
  /\ pc' = "update"
  /\ cur' = s
  /\ data' = d
  /\ written_in_buffer' = InBuffer(written[s])
  /\ fed' = [fed EXCEPT ![s] = @ \o d]
  /\ UNCHANGED <<stateVars, backendVars>>

\* fill_bytes
FillBytes ==
  LET room == BufferMax(written[cur]) - written_in_buffer
  IN  IF Len(data) > room THEN room ELSE Len(data)

Filled_ForgetsOffset(n) ==
  [i \in 1 .. HASH_WRAPPER_MAX_BLOCKSIZE |->
     IF i \in 1 .. n THEN data[i] ELSE buffer[cur][i]]

Filled(n) ==
  [i \in 1 .. HASH_WRAPPER_MAX_BLOCKSIZE |->
     IF i \in written_in_buffer + 1 .. written_in_buffer + n
       THEN data[i - written_in_buffer] ELSE buffer[cur][i]]

Fill(n) ==
  /\ pc \in {"update", "padding"}
  /\ buffer' = [buffer EXCEPT ![cur] = Filled(n)]
  /\ data' = SubSeq(data, n + 1, Len(data))
  /\ written' = [written EXCEPT ![cur] = @ + n]
  /\ UNCHANGED <<live, cur, fed>>

\* The iteration that leaves the chunk incomplete: update returns, to its
\* caller or, if it was sending the padding, to finalize, which resets its
\* own written_in_buffer.
FillAndReturn ==
  LET n == FillBytes
  IN  /\ Fill(n)
      /\ written_in_buffer + n < BufferMax(written[cur])
      /\ \/ /\ pc = "update"
            /\ pc' = "idle"
            /\ written_in_buffer' = written_in_buffer + n
         \/ /\ pc = "padding"
            /\ pc' = "finalize"
            /\ written_in_buffer' = 0
      /\ UNCHANGED backendVars

\* The iteration that completes a chunk and hands it to the back-end.
FillAndSend ==
  LET n == FillBytes
      buffer_max == BufferMax(written[cur])
  IN  /\ Fill(n)
      /\ written_in_buffer + n >= buffer_max
      /\ Backend!update(cur, SubSeq(Filled(n), 1, buffer_max))
      /\ written_in_buffer' = 0
      /\ UNCHANGED pc

Finalize_ForgetsPadding(s) ==
  /\ pc = "idle"
  /\ s \in live
  /\ cur' = s
  /\ written_in_buffer' = InBuffer(written[s])
  /\ pc' = "finalize"
  /\ data' = << >>
  /\ UNCHANGED <<stateVars, backendVars, fed>>

Finalize(s) ==
  /\ pc = "idle"
  /\ s \in live
  /\ cur' = s
  /\ written_in_buffer' = InBuffer(written[s])
  /\ IF SEND_PADDING
       THEN pc' = "padding" /\ data' = sha256_padding(written[s])
       ELSE pc' = "finalize" /\ data' = << >>
  /\ UNCHANGED <<stateVars, backendVars, fed>>

\* The end of finalize: the back-end gets the last chunk, the state is gone.
FinalizeBackend ==
  /\ pc = "finalize"
  /\ Backend!finalize(cur, SubSeq(buffer[cur], 1, written_in_buffer))
  /\ pc' = "idle"
  /\ live' = live \ {cur}
  /\ UNCHANGED <<written, buffer, cur, data, written_in_buffer, fed>>

Clone_ForgetsBuffer(s, t) ==
  /\ pc = "idle"
  /\ s \in live
  /\ t \notin live
  /\ live' = live \cup {t}
  /\ written' = [written EXCEPT ![t] = written[s]]
  /\ Backend!clone(s, t)
  /\ fed' = [fed EXCEPT ![t] = fed[s]]
  /\ UNCHANGED <<buffer, callVars>>

Clone(s, t) ==
  /\ pc = "idle"
  /\ s \in live
  /\ t \notin live
  /\ live' = live \cup {t}
  /\ written' = [written EXCEPT ![t] = written[s]]
  /\ buffer' = [buffer EXCEPT ![t] = buffer[s]]
  /\ Backend!clone(s, t)
  /\ fed' = [fed EXCEPT ![t] = fed[s]]
  /\ UNCHANGED callVars

\* A caller may drop a state without finalizing it.
Drop(s) ==
  /\ pc = "idle"
  /\ s \in live
  /\ live' = live \ {s}
  /\ UNCHANGED <<written, buffer, backendVars, callVars, fed>>

CallStep == FillAndReturn \/ FillAndSend \/ FinalizeBackend

Next ==
  \/ \E s \in Sessions :
       \/ HashInit(s)
       \/ \E d \in Payloads : Update(s, d)
       \/ Finalize(s)
       \/ \E t \in Sessions : Clone(s, t)
       \/ Drop(s)
  \/ CallStep

Spec == Init /\ [][Next]_vars

\* A call, once made, runs on the caller's CPU until it returns.
FairSpec == Spec /\ WF_vars(CallStep)

-----------------------------------------------------------------------------
(* Properties *)

TypeOK ==
  /\ live \subseteq Sessions
  /\ written \in [Sessions -> Nat]
  /\ buffer \in [Sessions -> [1 .. HASH_WRAPPER_MAX_BLOCKSIZE -> Nat]]
  /\ absorbed \in [Sessions -> Seq(Nat)]
  /\ hashed \in [Sessions -> SUBSET Seq(Nat)]
  /\ broken \in BOOLEAN
  /\ pc \in {"idle", "update", "padding", "finalize"}
  /\ cur \in Sessions
  /\ data \in Seq(Nat)
  /\ written_in_buffer \in 0 .. HASH_WRAPPER_MAX_BLOCKSIZE
  /\ fed \in [Sessions -> Seq(Nat)]

InCall(s) == s = cur /\ pc # "idle"

\* What the back-end has to see of s in total, as far as it is known yet.
Stream(s) ==
  IF InCall(s) /\ pc \in {"padding", "finalize"} /\ SEND_PADDING
    THEN fed[s] \o sha256_padding(Len(fed[s])) ELSE fed[s]

Buffered(s) == IF InCall(s) THEN written_in_buffer ELSE InBuffer(written[s])

Pending(s) == IF InCall(s) THEN data ELSE << >>

(***************************************************************************)
(* No byte is lost, repeated, reordered or taken from another state or     *)
(* from stale buffer content: what the back-end took, then what the buffer *)
(* is believed to hold, then what the running call has not looked at yet,  *)
(* is always the stream fed to this state, at every iteration of the loop  *)
(* in update and between calls, when the fill level is only recomputed     *)
(* from `written'.                                                         *)
(***************************************************************************)
StreamIntegrity ==
  \A s \in live :
    absorbed[s] \o SubSeq(buffer[s], 1, Buffered(s)) \o Pending(s) = Stream(s)

\* The two facts that make the level recomputed from `written' the right one:
\* the back-end took whole chunks, and a running call agrees with its state.
Levels ==
  \A s \in live : Len(absorbed[s]) + InBuffer(written[s]) = written[s]

CallState ==
  pc # "idle" =>
    /\ cur \in live
    /\ written_in_buffer = InBuffer(written[cur])
    /\ pc = "padding" => SEND_PADDING
    /\ pc = "finalize" => data = << >>
    /\ pc = "finalize" /\ SEND_PADDING => written_in_buffer = 0

(***************************************************************************)
(* The back-end never sees a chunk of a size it did not ask for: the first *)
(* chunk and the later ones have their declared sizes, finalize gets less  *)
(* than a chunk, and nothing at all when the padding had to be sent (the   *)
(* asserts of hash_plumbing.rs and the "Panics" section of Sha2Short).     *)
(***************************************************************************)
ChunkDiscipline == ~broken

(***************************************************************************)
(* update slices `buffer[written_in_buffer..buffer_max]': the slice must   *)
(* be well-formed and inside the array, or the call panics.                *)
(***************************************************************************)
SliceInBounds ==
  pc \in {"update", "padding"} =>
    /\ written_in_buffer <= BufferMax(written[cur])
    /\ BufferMax(written[cur]) <= HASH_WRAPPER_MAX_BLOCKSIZE

(***************************************************************************)
(* The HashProvider promise: what finalize returns is the digest of        *)
(* exactly the bytes fed to that state.  A back-end that is not sent the   *)
(* padding adds it itself.                                                 *)
(***************************************************************************)
FullInput(m) == IF SEND_PADDING THEN m ELSE Digest(m)

Promise ==
  INSTANCE HashSpec
    WITH out <- [s \in Sessions |-> {FullInput(m) : m \in hashed[s]}]

HashPromise == Promise!Spec

(***************************************************************************)
(* Every call returns: the loop of update, whose exit is in its middle,    *)
(* ends for every combination of fill level and input length, and so does  *)
(* the padding of finalize.                                                *)
(***************************************************************************)
CallsReturn == pc # "idle" ~> pc = "idle"
=============================================================================
