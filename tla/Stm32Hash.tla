----------------------------- MODULE Stm32Hash -----------------------------
(***************************************************************************)
(* The STM32WBA55 driver's users of the HASH peripheral                    *)
(* (embedded-cal-stm32wba55/src/lib.rs): the Sha2Short back-end and the    *)
(* HmacProvider.  There is one peripheral; every open computation keeps a  *)
(* suspended context of it and restores that context when it is continued. *)
(*                                                                         *)
(* A call has the peripheral to itself.  Calls that write to it a fixed    *)
(* number of times are one step; the loops of HMAC update and sha256_of    *)
(* take one step per iteration.                                            *)
(***************************************************************************)
EXTENDS HashPeripheral

CONSTANTS
  HashIds,              \* identities of HashState values
  HmacIds,              \* identities of HmacState values
  Chunks,               \* the byte sequences callers pass
  KeyData,              \* the HMAC keys callers load
  HMAC_MAX_BLOCK_SIZE,  \* size of HmacState.buf, 68
  UPDATE_MULTICHUNK,    \* of this back-end: TRUE
  DEBUG_ASSERTIONS,     \* TRUE for a debug build
  Overlap,              \* TRUE: HMAC computations may take turns with others
  MaxMessage            \* bound: longest message of a computation

SHA2SHORT_BLOCK_SIZE == BLOCK_WORDS * WORD_SIZE

FIRST_CHUNK_SIZE == (BLOCK_WORDS + 1) * WORD_SIZE

\* A subtraction of usize that wraps in a release build; the width is only
\* named so that the wrapped value exceeds every length.
USIZE_VALUES == 2 ^ 16

ASSUME PeripheralAssumption ==
  /\ WORD_SIZE \in Nat \ {0}
  /\ BLOCK_WORDS \in Nat \ {0}
  /\ HMAC_MAX_BLOCK_SIZE \in Nat /\ HMAC_MAX_BLOCK_SIZE >= FIRST_CHUNK_SIZE

ASSUME CallerAssumption ==
  /\ HashIds \cap HmacIds = {} /\ "abandoned" \notin HashIds \cup HmacIds
  /\ DEBUG_ASSERTIONS \in BOOLEAN /\ Overlap \in BOOLEAN
  /\ UPDATE_MULTICHUNK \in BOOLEAN /\ MaxMessage \in Nat
  /\ \A d \in Chunks \cup KeyData : d \in Seq(Nat)

VARIABLES
  hw,            \* the peripheral
  panicked,      \* an assertion, a subtraction or a slice failed
  user,          \* history: the computation with blocks in the peripheral:
                 \* {}, {id}, or {"abandoned"}
  live,          \* HashState and HmacState values in existence
  context,       \* their saved context: {} for None, {c} for Some(c)
  hashed,        \* what finalize of a HashState returned: {} or {digest}
  buf,           \* HmacState.buf[..buf_len]
  key_block,     \* HmacState.key_block, as words
  asked,         \* history: the key loaded and the message fed to an HmacState
  pc,            \* where the call in progress is
  cur,           \* the HmacState it works on
  remaining,     \* its local of the same name
  wrote_blocks,  \* its local of the same name
  instance       \* sha256_of: the context of its local HashState

callVars == <<pc, cur, remaining, wrote_blocks, instance>>
hmacVars == <<buf, key_block, asked>>
vars == <<hw, panicked, user, live, context, hashed, hmacVars, callVars>>

Ids == HashIds \cup HmacIds

-----------------------------------------------------------------------------
(* Helpers.  A definition whose name says what it forgets, keeps, skips or  *)
(* ignores is a mistake the properties below must catch; it stands before   *)
(* the one it distorts.                                                     *)

FullWords_SkipsAByte(d) ==
  [k \in 1 .. (Len(d) \div WORD_SIZE) |->
     SubSeq(d, (k - 1) * WORD_SIZE + 2, k * WORD_SIZE)]

\* data.as_chunks::<WORD_SIZE>().0: whole words only.
FullWords(d) ==
  [k \in 1 .. (Len(d) \div WORD_SIZE) |->
     SubSeq(d, (k - 1) * WORD_SIZE + 1, k * WORD_SIZE)]

\* The words written at the end: the last one is filled up with zeros.
PaddedWords(d) ==
  [k \in 1 .. ((Len(d) + (WORD_SIZE - 1)) \div WORD_SIZE) |->
     [j \in 1 .. WORD_SIZE |->
        LET i == (k - 1) * WORD_SIZE + j IN IF i <= Len(d) THEN d[i] ELSE 0]]

\* The value of STR.NBLW in bytes.
LastWordBytes_ForgetsPartial(d) == 0

LastWordBytes(d) == Len(d) % WORD_SIZE

Panic ==
  /\ panicked' = TRUE
  /\ UNCHANGED <<hw, user, live, context, hashed, hmacVars, callVars>>

Idle == pc = "idle" /\ ~panicked

\* Without Overlap a caller completes an HMAC computation that has blocks in
\* the peripheral before it does anything else with the peripheral, and feeds
\* an HMAC computation only when no other one has blocks in it.
Undisturbed(s) == Overlap \/ user \cap HmacIds \subseteq {s}

-----------------------------------------------------------------------------
(* Sha2Short *)

ReinitAndRestore_KeepsPeripheral(ctx) ==
  IF ctx = {} THEN hw ELSE Resume(CHOOSE c \in ctx : TRUE, "hash")

\* Reinitialise, then restore the context if there is one.
ReinitAndRestore(ctx) ==
  IF ctx = {} THEN Reset("hash") ELSE Resume(CHOOSE c \in ctx : TRUE, "hash")

AssertHolds(d) == DEBUG_ASSERTIONS => Len(d) = Nbwe(hw) * WORD_SIZE

\* Stands for the bytes behind a worthless context: no message has it.
CORRUPT == <<256>>

Absorbed(s) ==
  IF context[s] = {} THEN << >>
  ELSE LET c == CHOOSE x \in context[s] : TRUE
       IN  IF c.intact THEN Bytes(c.words, 0) ELSE CORRUPT

Contract ==
  INSTANCE Sha2ShortSpec
    WITH Sessions <- HashIds,
         SEND_PADDING <- FALSE,
         absorbed <- [s \in HashIds |-> Absorbed(s)],
         hashed <- [s \in HashIds |->
                      {IF d.intact THEN d.message ELSE CORRUPT :
                         d \in hashed[s]}],
         broken <- FALSE

HashInit(s) ==
  /\ Idle
  /\ s \in HashIds \ live
  /\ live' = live \cup {s}
  /\ context' = [context EXCEPT ![s] = {}]
  /\ hashed' = [hashed EXCEPT ![s] = {}]
  /\ UNCHANGED <<hw, panicked, user, hmacVars, callVars>>

\* The caller passes chunks as the back-end's constants ask for them.
HashUpdate(s, d) ==
  /\ Idle /\ Undisturbed(s)
  /\ s \in HashIds \cap live
  /\ Contract!ChunkAccepted(Len(Absorbed(s)), Len(d))
  /\ Len(Absorbed(s)) + Len(d) <= MaxMessage
  /\ IF AssertHolds(d)
       THEN /\ hw' = Din(ReinitAndRestore(context[s]), FullWords(d))
            /\ context' = [context EXCEPT ![s] = {SaveContext(hw')}]
            /\ user' = {s}
            /\ UNCHANGED <<panicked, live, hashed, hmacVars, callVars>>
       ELSE Panic

HashFinalize(s, d) ==
  /\ Idle /\ Undisturbed(s)
  /\ s \in HashIds \cap live
  /\ Contract!LastChunkAccepted(Len(Absorbed(s)), Len(d))
  /\ LET h == Din(ReinitAndRestore(context[s]), PaddedWords(d))
     IN  /\ hashed' = [hashed EXCEPT ![s] = {HashDigest(h, LastWordBytes(d))}]
         /\ hw' = Done(h)
  /\ live' = live \ {s}
  /\ user' = {}
  /\ UNCHANGED <<panicked, context, hmacVars, callVars>>

HashClone(s, t) ==
  /\ Idle
  /\ s \in HashIds \cap live
  /\ t \in HashIds \ live
  /\ live' = live \cup {t}
  /\ context' = [context EXCEPT ![t] = context[s]]
  /\ hashed' = [hashed EXCEPT ![t] = {}]
  /\ UNCHANGED <<hw, panicked, user, hmacVars, callVars>>

-----------------------------------------------------------------------------
(* HmacProvider: loading a key *)

\* The key as one block: zeros behind a short key.
PaddedKey(key) ==
  PaddedWords([i \in 1 .. SHA2SHORT_BLOCK_SIZE |->
                 IF i <= Len(key) THEN key[i] ELSE 0])

\* A long key is replaced by its digest, represented by what was hashed.
HashedKey(digest) == <<digest>>

\* The rest of load_from_keydata: the peripheral takes the inner key, and its
\* context becomes that of the new state.
TakeKey(s, block) ==
  /\ hw' = KeyTaken(Din(Reset("hmac"), block))
  /\ context' = [context EXCEPT ![s] = {SaveContext(hw')}]
  /\ key_block' = [key_block EXCEPT ![s] = block]
  /\ buf' = [buf EXCEPT ![s] = << >>]
  /\ live' = live \cup {s}
  /\ user' = {}
  /\ UNCHANGED <<panicked, hashed>>

LoadShortKey(s, key) ==
  /\ Idle /\ Undisturbed(s)
  /\ s \in HmacIds \ live
  /\ Len(key) <= SHA2SHORT_BLOCK_SIZE
  /\ TakeKey(s, PaddedKey(key))
  /\ asked' = [asked EXCEPT ![s] = [key |-> key, message |-> << >>]]
  /\ UNCHANGED callVars

LoadLongKey(s, key) ==
  /\ Idle /\ Undisturbed(s)
  /\ s \in HmacIds \ live
  /\ Len(key) > SHA2SHORT_BLOCK_SIZE
  /\ pc' = "sha256_of"
  /\ cur' = s
  /\ remaining' = key
  /\ instance' = {}
  /\ asked' = [asked EXCEPT ![s] = [key |-> key, message |-> << >>]]
  /\ UNCHANGED <<hw, panicked, user, live, context, hashed, buf, key_block,
                 wrote_blocks>>

\* The loop of sha256_of: whole chunks while more than a chunk is left.
Sha256OfChunk ==
  IF instance = {} THEN FIRST_CHUNK_SIZE ELSE SHA2SHORT_BLOCK_SIZE

Sha256OfUpdate ==
  LET chunk == SubSeq(remaining, 1, Sha256OfChunk)
  IN  /\ pc = "sha256_of" /\ ~panicked
      /\ Len(remaining) > Sha256OfChunk
      /\ IF AssertHolds(chunk)
           THEN /\ hw' = Din(ReinitAndRestore(instance), FullWords(chunk))
                /\ instance' = {SaveContext(hw')}
                /\ remaining' =
                     SubSeq(remaining, Sha256OfChunk + 1, Len(remaining))
                /\ UNCHANGED <<panicked, user, live, context, hashed, hmacVars,
                               pc, cur, wrote_blocks>>
           ELSE Panic

\* The rest is hashed and the digest taken as the key.
Sha256OfFinalize ==
  LET h == Din(ReinitAndRestore(instance), PaddedWords(remaining))
  IN  /\ pc = "sha256_of" /\ ~panicked
      /\ Len(remaining) <= Sha256OfChunk
      /\ TakeKey(cur, HashedKey(HashDigest(h, LastWordBytes(remaining))))
      /\ pc' = "idle"
      /\ remaining' = << >>
      /\ instance' = {}
      /\ UNCHANGED <<asked, cur, wrote_blocks>>

-----------------------------------------------------------------------------
(* HmacProvider: the message.  init only turns the key into a state. *)

HmacUpdate(s, d) ==
  /\ Idle /\ Undisturbed(s)
  /\ Overlap \/ user \subseteq {s}
  /\ s \in HmacIds \cap live
  /\ Len(asked[s].message) + Len(d) <= MaxMessage
  /\ pc' = "hmac_update"
  /\ cur' = s
  /\ remaining' = d
  /\ wrote_blocks' = FALSE
  /\ asked' = [asked EXCEPT ![s].message = @ \o d]
  /\ UNCHANGED <<hw, panicked, user, live, context, hashed, buf, key_block,
                 instance>>

\* hmac_block_size: read before the context is restored.
HmacBlockSize == Nbwe(hw) * WORD_SIZE

\* space: an unsigned subtraction.
Space ==
  IF Len(buf[cur]) <= HmacBlockSize
    THEN HmacBlockSize - Len(buf[cur])
    ELSE USIZE_VALUES - (Len(buf[cur]) - HmacBlockSize)

Take_IgnoresSpace == Len(remaining)

Take == IF Len(remaining) < Space THEN Len(remaining) ELSE Space

\* The subtraction overflows in a debug build; the slice exceeds the array.
FillPanics ==
  \/ DEBUG_ASSERTIONS /\ Len(buf[cur]) > HmacBlockSize
  \/ Len(buf[cur]) + Take > HMAC_MAX_BLOCK_SIZE

\* The context is taken when the first block of this call is written.
RestoreHmac ==
  IF ~wrote_blocks /\ context[cur] # {}
    THEN Resume(CHOOSE c \in context[cur] : TRUE, "hmac") ELSE hw

\* One iteration of the loop in update.
HmacFill ==
  LET filled == buf[cur] \o SubSeq(remaining, 1, Take)
  IN  /\ pc = "hmac_update" /\ ~panicked
      /\ remaining # << >>
      /\ IF FillPanics
           THEN Panic
           ELSE /\ remaining' = SubSeq(remaining, Take + 1, Len(remaining))
                /\ IF Len(filled) = HmacBlockSize
                     THEN /\ hw' = Din(RestoreHmac, FullWords(filled))
                          /\ context' = [context EXCEPT ![cur] =
                                            IF wrote_blocks THEN @ ELSE {}]
                          /\ buf' = [buf EXCEPT ![cur] = << >>]
                          /\ wrote_blocks' = TRUE
                          /\ user' = {cur}
                     ELSE /\ buf' = [buf EXCEPT ![cur] = filled]
                          /\ UNCHANGED <<hw, context, wrote_blocks, user>>
                /\ UNCHANGED <<panicked, live, hashed, key_block, asked, pc,
                               cur, instance>>

\* The end of update: the context is saved if a block was written.
HmacReturn ==
  /\ pc = "hmac_update" /\ ~panicked
  /\ remaining = << >>
  /\ context' = IF wrote_blocks
                  THEN [context EXCEPT ![cur] = {SaveContext(hw)}] ELSE context
  /\ pc' = "idle"
  /\ wrote_blocks' = FALSE
  /\ UNCHANGED <<hw, panicked, user, live, hashed, hmacVars, cur, remaining,
                 instance>>

\* The peripheral when finalize has written the last words.
Finalizing(s) ==
  Din(IF context[s] = {} THEN hw
      ELSE Resume(CHOOSE c \in context[s] : TRUE, "hmac"),
      PaddedWords(buf[s]))

\* The MAC finalize reads after it wrote the outer key.
Mac(s) == HmacDigest(Finalizing(s), LastWordBytes(buf[s]), key_block[s])

\* The values of an HmacState that does not exist any more.
Forget(s) ==
  /\ context' = [context EXCEPT ![s] = {}]
  /\ buf' = [buf EXCEPT ![s] = << >>]
  /\ key_block' = [key_block EXCEPT ![s] = << >>]
  /\ asked' = [asked EXCEPT ![s] = [key |-> << >>, message |-> << >>]]

\* The caller gets Mac(s).
HmacFinalize(s) ==
  /\ Idle /\ Undisturbed(s)
  /\ s \in HmacIds \cap live
  /\ hw' = Done(Finalizing(s))
  /\ live' = live \ {s}
  /\ user' = {}
  /\ Forget(s)
  /\ UNCHANGED <<panicked, hashed, callVars>>

HmacClone(s, t) ==
  /\ Idle
  /\ Overlap \/ user \cap {s} = {}
  /\ s \in HmacIds \cap live
  /\ t \in HmacIds \ live
  /\ live' = live \cup {t}
  /\ context' = [context EXCEPT ![t] = context[s]]
  /\ buf' = [buf EXCEPT ![t] = buf[s]]
  /\ key_block' = [key_block EXCEPT ![t] = key_block[s]]
  /\ asked' = [asked EXCEPT ![t] = asked[s]]
  /\ UNCHANGED <<hw, panicked, user, hashed, callVars>>

\* A state goes out of scope.
Drop(s) ==
  /\ Idle
  /\ s \in live
  /\ live' = live \ {s}
  /\ user' = IF user = {s} THEN {"abandoned"} ELSE user
  /\ IF s \in HmacIds
       THEN Forget(s)
       ELSE context' = [context EXCEPT ![s] = {}] /\ UNCHANGED hmacVars
  /\ UNCHANGED <<hw, panicked, hashed, callVars>>

-----------------------------------------------------------------------------

Init ==
  /\ hw = Reset("hash")
  /\ panicked = FALSE
  /\ user = {}
  /\ live = {}
  /\ context = [s \in Ids |-> {}]
  /\ hashed = [s \in HashIds |-> {}]
  /\ buf = [s \in HmacIds |-> << >>]
  /\ key_block = [s \in HmacIds |-> << >>]
  /\ asked = [s \in HmacIds |-> [key |-> << >>, message |-> << >>]]
  /\ pc = "idle"
  /\ cur \in HmacIds
  /\ remaining = << >>
  /\ wrote_blocks = FALSE
  /\ instance = {}

CallStep == Sha256OfUpdate \/ Sha256OfFinalize \/ HmacFill \/ HmacReturn

Next ==
  \/ \E s \in HashIds :
       \/ HashInit(s)
       \/ \E d \in Chunks : HashUpdate(s, d) \/ HashFinalize(s, d)
       \/ \E t \in HashIds : HashClone(s, t)
  \/ \E s \in HmacIds :
       \/ \E key \in KeyData : LoadShortKey(s, key) \/ LoadLongKey(s, key)
       \/ \E d \in Chunks : HmacUpdate(s, d)
       \/ HmacFinalize(s)
       \/ \E t \in HmacIds : HmacClone(s, t)
  \/ \E s \in Ids : Drop(s)
  \/ CallStep

Spec == Init /\ [][Next]_vars

-----------------------------------------------------------------------------
(* Properties *)

TypeOK ==
  /\ hw.mode \in {"hash", "hmac"} /\ hw.intact \in BOOLEAN
  /\ panicked \in BOOLEAN
  /\ user \subseteq Ids \cup {"abandoned"} /\ live \subseteq Ids
  /\ \A c \in {hw} \cup UNION {context[s] : s \in Ids} :
       \A k \in 1 .. Len(c.words) : Len(c.words[k]) = WORD_SIZE
  /\ \A s \in HmacIds : Len(buf[s]) <= HMAC_MAX_BLOCK_SIZE
  /\ pc \in {"idle", "sha256_of", "hmac_update"}
  /\ cur \in HmacIds
  /\ wrote_blocks \in BOOLEAN

(***************************************************************************)
(* The driver is a Sha2Short back-end: each HashState's digest is that of  *)
(* its own chunks, though all states share one peripheral that other       *)
(* states, HMAC computations and key hashing use between any two calls.    *)
(***************************************************************************)
HashContract == Contract!Contract

\* RFC 2104 for ideal hashes.
ExpectedKey(key) ==
  IF Len(key) > SHA2SHORT_BLOCK_SIZE
    THEN HashedKey([intact |-> TRUE, message |-> key]) ELSE PaddedKey(key)

Expected(a) ==
  [intact |-> TRUE, inner |-> ExpectedKey(a.key), message |-> a.message,
   outer |-> ExpectedKey(a.key)]

(***************************************************************************)
(* Whenever finalize is called on an HmacState, the MAC it returns is that *)
(* of the key that was loaded and the message that was fed to this state.  *)
(***************************************************************************)
MacPromise ==
  Idle => \A s \in HmacIds \cap live : Mac(s) = Expected(asked[s])

(***************************************************************************)
(* No debug_assert, subtraction or slice of the driver fails.              *)
(***************************************************************************)
NoPanic == ~panicked
=============================================================================
