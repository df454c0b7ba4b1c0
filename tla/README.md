# Verification of embedded-cal

embedded-cal is a Rust crypto abstraction layer for microcontrollers: traits for
hashing, HMAC, HKDF, AEAD, Diffie-Hellman and random numbers, back-ends that
implement them on hardware (STM32WBA55, nRF54L15) or with libraries (libcrux,
RustCrypto), and an Extender that builds full algorithms from a back-end's partial
"plumbing". This directory holds TLA+ models of it, the TLC configurations that
check them, and TLAPS proofs. `PROJECT.json` lists components, runs, mutants, the
map from definitions to source lines, findings, hazards and theorems.

    tlc -workers 2 -config Stream_stm32.cfg MCSha2Stream
    tlc -workers 2 -config Dh.cfg MCDh
    for m in Sha2Stream Stm32Hash NrfStream Hkdf Rng Aead Dh; do tlapm ${m}Proofs.tla; done
    tlapm CryptoMaster.tla

## Inventory

Every operation takes `&mut self`, so calls are serialised: there is no
preemption inside a provider. What makes the code hard is elsewhere:

* **Interleaved computations.** ARCHITECTURE.md:58-64 promises that a computation
  may be left incomplete and continued after another of the same kind. Hash and
  HMAC states are values that can be cloned, dropped and continued in any order,
  while the peripheral behind them exists once.
* **Hardware that runs on its own.** Random number generators fail or produce a word
  between any two register reads of the driver; a DMA writes buffers while the driver
  polls three status bits.
* **Memories that outlive a call.** Registers of the AES peripheral, operand RAMs of
  the public key engines and a buffer of the RustCrypto extender keep what an earlier
  call, for another key or curve, left in them.
* **Boundaries.** A first chunk of 68 bytes and later ones of 64, padding that just
  fits a block, a last word that is partly valid, a block counter in a `u8`.
* **Unbounded polling.** Several loops wait for a flag without a limit.

| Component | State | Operations | What makes it correct | Module |
|---|---|---|---|---|
| `HashProvider` (embedded-cal/src/hash.rs) | states of callers | init, update, finalize, clone | a digest is that of exactly the bytes fed | `HashSpec`, `Fips180` |
| `Sha2Short` plumbing (plumbing/hash) | instance | init, update, finalize, clone | chunk sizes; instances are independent | `Sha2Short`, `Sha2ShortSpec` |
| Extender hash (software-demo/src/hash.rs) | written, buffer, instance | init, update, finalize, clone | no byte lost, chunk rules kept, FIPS padding, calls return | `Sha2Stream` |
| Extender HMAC (software-demo/src/hmac.rs) | inner and outer hash state | load, init, update, finalize | RFC 2104 over the hash promise | `SoftHmac`, `Rfc2104` |
| HKDF (embedded-cal/src/hkdf.rs) | locals of a call | extract, expand | RFC 5869 output, bounds, counter | `Hkdf`, `HkdfProviders` |
| STM32 HASH (stm32wba55/src/lib.rs) | one peripheral; contexts in `HashState`, `HmacState` | Sha2Short, HmacProvider, sha256_of | refines the Sha2Short contract; MACs; no panic | `HashPeripheral`, `Stm32Hash` |
| STM32 RNG (stm32wba55/src/try_rng.rs, lib.rs) | peripheral flags; retry count | init_rng, try_fill_bytes | first word discarded; calls end | `Stm32Rng` |
| AEAD trait (embedded-cal/src/aead.rs) | none | encrypt, decrypt in place | AES-CCM or AES-GCM of the call's own arguments | `AeadSpec`, `Ccm` |
| STM32 AES-CCM (stm32wba55/src/aead.rs) | AES peripheral, registers kept between calls | encrypt, decrypt | phase order, partial blocks, no stale register | `Stm32Ccm` |
| DH trait (embedded-cal/src/dh.rs) | keys of the caller | generate, import, export, public key, shared secret | SEC 1 and RFC 7748 on the keys given | `DhSpec`, `Curves` |
| STM32 PKA (stm32wba55/src/dh.rs) | PKA RAM | key generation, import, shared secret | no operand of an earlier operation used; scalar erased | `Stm32Dh` |
| nRF RNG (nrf54l15/src/try_rng.rs) | FIFO, FSM; restart count | new, try_fill_bytes | no empty FIFO popped; calls end | `NrfRng` |
| nRF CryptoMaster (nrf54l15/src/{lib,descriptor,aead}.rs) | descriptor chains, DMA; intermediate hash states | hash update, encrypt, decrypt | buffers in bounds; output complete on return; calls return | `CryptoMaster`, `NrfHash`, `NrfCcm` |
| nRF PKE (nrf54l15/src/dh.rs) | PKE RAM slots | X25519, X448, P-256 | operand slots, clamping, scalar erased | `NrfDh` |
| libcrux extender | none of its own | AES-GCM, P-256; selection between own and base algorithm | a key stays with its implementation | `LibcruxAead`, `LibcruxDh` |
| RustCrypto extender | buffer for additional data | AES-CCM, HMAC, P-256, X25519; selection | the same; nothing of an earlier call in the buffer's used part | `RustcryptoAead`, `RustcryptoHmac`, `RustcryptoDh` |
| Empty provider, rand adapter, accessors | none | - | type level | empty: a base without algorithms; others not modelled |
| P-256 and B0 helpers (embedded-cal/src/util) | none | modular arithmetic, B0 block | equal to a reference | `P256` (words of one bit), `Ccm` |

Interaction: callers use the Extender's `HashProvider`; the Extender (`Sha2Stream`)
calls a back-end through `Sha2Short`; the STM32 driver (`Stm32Hash`) and the nRF
driver (`NrfHash`) are such back-ends. They meet in one contract: `Sha2Stream` is proved
never to break the chunk rules, and `Stm32Hash` to keep the contract for callers that
keep them; `NrfStream` puts `Sha2Stream` directly on `NrfHash`. `Hkdf` is a client of any
`HmacProvider`, `HkdfProviders` puts it on two of them. The extenders wrap a base
provider and prefer one side per algorithm number; `AeadProviders`, `DhProviders` and
`HkdfProviders` choose a platform, a pair of adapter and base, and run a program on it.

The **hazards** of the code, each at its line with the properties that would catch
it, are listed in `PROJECT.json`.

## Modules and how they correspond to the code

**`Fips180`** is the reference for padding (FIPS 180-4, 5.1.1), stated with `CHOOSE`
and not with the code's case distinction. SHA-256 is ideal: a digest is represented
by the padded message.

**`HashSpec`** is the abstract promise of a `HashProvider`: states are started, fed,
finished, copied and abandoned independently, `out[s]` is the digest of `fed[s]`.

**`Sha2Short`** has the operators of the plumbing trait as seen by its caller; a wrong
chunk length sets `broken`. **`Sha2ShortSpec`** makes it a specification of a
back-end whose callers keep the rules; `UPDATE_MULTICHUNK` is a parameter.

**`Sha2Stream`** is `HashState::Sha256` of the Extender. `written`, `buffer` have the
code's names; `absorbed`, `hashed` are the back-end's; `fed` is history. A step is
one iteration of the loop in `update`, so that invariants hold at every iteration:
`Update` starts the call and recomputes the fill level from `written` (`InBuffer`),
`FillAndSend` is an iteration that hands a chunk over, `FillAndReturn` the one that
leaves. `Finalize` computes the padding and runs it through the same loop (`pc =
"padding"`) if the back-end wants it sent, `FinalizeBackend` ends the call.
`HashState::Direct` only forwards and is left out.

**`HashPeripheral`** (external) is the HASH peripheral as the driver uses it: the
number of words it expects (NBWE), when it can be suspended, what DCAL yields,
context save and restore. **`Stm32Hash`** is the driver: the `Sha2Short` operations
(`HashInit`, `HashUpdate`, `HashFinalize`, `HashClone`), `load_from_keydata`
(`LoadShortKey`; `LoadLongKey` with the loop of `sha256_of`), HMAC `update`
(`HmacUpdate`, one `HmacFill` per iteration, `HmacReturn`), `finalize`, clone and
drop. A `Context` is a copy of the peripheral. Two parameters select what is asked:
`DEBUG_ASSERTIONS` is the build, and with `Overlap = FALSE` callers complete an HMAC
computation that has blocks in the peripheral before they use the peripheral for
something else and do not feed one while another computation has blocks in it.
`user` is the history variable this needs; it influences nothing else.

**`Stm32Rng`** and **`NrfRng`** make every register read of the driver a step and let
the peripheral act between any two of them. In `Stm32Rng`, a word is represented by
its quality: the first one after a conditioning reset must not be used. A read of an
empty data register yields `"zero"`.

**`Hkdf`** is the blanket `HkdfProvider`; one iteration of the loop of `hkdf_expand` is
one step. HMAC is ideal, T(i) is the chain of counters that led to it, and an
output byte is key, info, chain and position. **`HkdfProviders`** superposes on these
steps the bytes the locals really hold (`prkBytes`, `tBytes`, `okmBytes`), computed by
the HMAC of the platform: **`SoftHmac`** (the Extender's) or **`RustcryptoHmac`** (its own,
or forwarded). **`Rfc2104`** is the reference; a byte is a number, or a position in the
digest of a message, and the pads it was XORed with.

**`Ccm`** has RFC 3610 as the reference and `build_b0`, byte by byte; `B0Panics` are the nonces
that leave it no byte for the length, or more than eight. A byte is a number
and the set of key stream bytes it was XORed with, a MAC is its key, nonce and input.
It also has NIST SP 800-38D and the lengths of the COSE algorithms. **`AeadSpec`** is the
promise of the AEAD trait; the drivers extend it for the variables of a call and for `Begin`. **`Stm32Ccm`** runs the phases on the AES peripheral, one step
per loop iteration (`HeaderFill`, `PayloadBlock`); its registers survive the call.
**`NrfCcm`** builds the chains (`InputChain`, `OutputChain`) and polls the DMA; an output
buffer that is not filled yet still holds its zeros. **`RustcryptoAead`** collects the
additional data in its buffer, an item a step, and calls a library; **`LibcruxAead`** has
AES-GCM. **`AeadProviders`** composes them: a program runs on one platform and makes one
call after the other; `Variants` are the ways a key for an algorithm number can be
loaded, `Provider` is the code that serves it.

**`CryptoMaster`** is the DMA and descriptor.rs. `DescriptorChain` and `update_links` build
a chain with its pointers and its DMATAG_LAST, which the tags 35, 99 and 32 of the hash
already carry when they are pushed (`TaggedLast`, `OutputTaggedLast`) and those of the AES do
not. `Followed` is what a fetcher that
follows the pointers meets and whether it comes to an end, and `Fetch`, `PushWait` and `Push` go on while the driver polls
(`Polled`). **`NrfHash`** is the Sha2Short back-end on it: `UpdateStart` builds and starts the
chains, `UpdateEnd` stores the state that came back. **`NrfStream`** extends `Sha2Stream` and
splits each chunk it hands over into `Send` and `Sent`.

**`Curves`** is the reference for the three curves. **`P256`** is util/p256.rs: numbers of
eight words, with the carries of the loops, and an engine's RAM of which only the
words that are not zero are kept. **`Stm32Dh`** and **`NrfDh`** are the drivers with their
engines: one step writes the operands and starts the engine, one lets the engine compute,
one reads the result and erases. The offsets in the PKA's RAM are the real ones.
**`LibcruxDh`** and **`RustcryptoDh`** are what the extenders add. **`DhSpec`** is the promise.
**`DhProviders`** is a program for two parties after test_dh_selftest
(testvectors/src/dh/mod.rs): each makes or imports a secret key, computes the public one,
takes the other's as an object or re-imported from its bytes, or offered bytes, and
computes a shared secret. Where an operation can fail it is a set, empty for an error.

**`RngProviders`** runs one of the two generators; the platform is chosen once.

A definition named `X_ForgetsY` (or `_Skips`, `_Ignores`, `_Keeps`, `_Strict...`)
before a definition `X` is a plausible mistake in `X`. No specification uses it; it
serves to see the property fail (`mutants` in `PROJECT.json`).

### What is assumed of hardware

* HASH: NBWE is 17 after INIT and after a DCAL that completes a phase or a digest,
  then 16 each time (the comment at stm32wba55/src/lib.rs:395-396 and the constants
  68 and 64). The core can be suspended only when NBWE words have just been
  consumed. A context that was saved then and is restored resumes exactly there.
* STM32 RNG: a seed error latches SEIS and empties DR; no words are produced while it
  is set; clock errors are detected only outside conditioning and their number is
  bounded.
* CRACEN TRNG: `ERROR` stops the refill and leaves the FIFO as it is, until a soft
  reset, which flushes it (comment at nrf54l15/src/try_rng.rs:31-36).

* AES: EN is cleared at the end of the init phase; the last NPBLB bytes of a payload
  block do not count for the MAC, in either direction; AES-128 uses the lower key
  registers only.
* PKA and PKE compute the product of the scalar and the point their RAM holds when they
  are started, whoever wrote it, and set busy until then. The PKE finds its operands
  through the slot pointers; the PKA finds the curve's parameters in its RAM.
* CryptoMaster: the fetcher follows `next` until the end mark; the engine finalizes when it
  saw DMATAG_LAST; without it, or in a chain that does not end with the mark, output is never
  complete. The engine delivers a byte per header byte, the text and a tag block
  (comment at nrf54l15/src/aead.rs:134-136 and 212-213); one of the three status bits is
  set until the last output buffer is written (comment at nrf54l15/src/lib.rs:212-215).

## Runs

| Run | What it shows | Instance |
|---|---|---|
| `stream_stm32` | types, no byte lost or exchanged, chunk rules, slices in bounds, digests as promised | two states, chunks 5 then 4, messages up to 13 bytes in calls of 0, 1, 4, 7 |
| `stream_nrf` | the Extender on the nRF's hash engine: padding sent, intermediate states through the DMA, digests as promised; every call returns | two states, chunks of 4, length field of 2 bytes, messages up to 7 |
| `stm32_hash` | the driver implements `Sha2ShortSpec`, MACs are right without overlap, nothing panics in a release build | words of 2 bytes, blocks of 2 words (chunks 6 then 4), two hash and two HMAC states, keys of 1 byte and of 10, which leaves exactly one chunk to finalize |
| `stm32_hmac_overlap` | **violation**: two HMAC computations taking turns yield a wrong MAC | two HMAC states, release build |
| `stm32_hash_debug` | **violation**: a debug build panics on the first chunk of a second hash | two hash states |
| `rng` | STM32: the first word after a reset never reaches a caller. nRF: no empty FIFO is popped. Every call ends in all cases but one | STM32: two retries, three polls; nRF: two restarts, FIFO of three words; one or four words |
| `rng_nrf_hang` | **violation**: the remaining case; the call never returns | nRF only |
| `hkdf` | output is RFC 5869's at every iteration, byte for byte on three platforms; bounds, termination | digests of 2 bytes, blocks of 4, at most 3 digests, all lengths 0..7, salts of 1, 4 and 5 bytes and none |
| `aead` | six platforms implement `AeadSpec`; hardware is at rest between calls; a failed decryption on the nRF touches nothing | blocks of 4 bytes, messages of 0, 3, 4, 7, four shapes of additional data, two key sizes, right and wrong tags |
| `aead_lengths` | **violation**: a call with a nonce of the wrong length returns | both boards |
| `dh` | eight platforms implement `DhSpec`; parties agree; exported keys are accepted again; nRF keys are decoded and its engine keeps no secret | see below |
| `dh_pka_ram` | **violation**: the scalar is still in the PKA's RAM after a call | STM32 |

**Why the bounds are enough.** The code compares lengths with the block and chunk
sizes and never looks at a byte. Scaling 68/64 to 5/4 (or 6/4) keeps the relation of
the two and every residue; messages of `stream_stm32` cover an incomplete first chunk,
an exact one, and one and two blocks behind it; those of `stream_nrf` reach two chunks, and a
third with the padding. The long key of `stm32_hash` is a first chunk and a block: the loop of
`sha256_of` must stop with a full chunk left. Two states suffice for every interference because
a state can only be disturbed through the one peripheral, which remembers nothing
but its last user. In `aead` a call follows every other call, which is all a register
can remember; the buffers of the nRF are filled to their documented limit (255 of 256
bytes, scaled to 7 of 8), and so is the buffer of the RustCrypto extender (5 bytes).
In `stream_nrf` the length field takes half a block, so the
padding itself crosses a block. In `hkdf` the counter wraps at 4 and the limit is 3
blocks, as 256 and 255.

In `dh` a 32-bit word becomes one bit. P-256 keeps its eight words: the prime is the
value of the same expression, 2^8 - 2^7 + 2^6 + 2^3 - 1 = 199, so that the reduction has
the same terms, and b = 64 gives a group of prime order 191; both limits lie below 256
and differ. X25519 is over 2^7 - 1 with the topmost bit unused, X448 over 2^10 - 2^5 - 1.
Scalars are at and around the limits; coordinates include points, non-points, 0, p and
255, and some for which the absorption of a carry takes a second round. Multiples of the order as imported scalars are left out: the
product is no point, and neither code nor docs say what then.

Lengths of random requests cover one word, several, and a cut
last word; more than the FIFO holds on the nRF. Payload bytes tell their position
and their call, so that any loss or exchange shows. `SYMMETRY` is used for state
identities, in runs without liveness properties.

**Fairness.** `FairSpec` assumes weak fairness of the call in progress: it runs on the
caller's CPU and `&mut self` keeps others out. Both generators' specifications also
assume that a peripheral without an error goes on producing words. Nothing is
assumed of how often errors strike; STM32 clock errors are bounded
(`MaxClockErrors`) because the code clears them without a limit. The DMA of the nRF is
weakly fair with the call that polls it.

**Deadlock** is not checked in the RNG runs and in `aead_lengths`: a panic ends the
program. In the others it is; in `dh` a program may stop between calls only (`Ended`), so the
check shows that no call gets stuck.

## Findings

1. `stm32_hmac_overlap`, stm32wba55/src/lib.rs:297. HMAC `update` reads NBWE to learn
   its block size before it restores its own context (line 308); the value is that of
   the last user of the peripheral.
2. `stm32_hash_debug`, stm32wba55/src/lib.rs:387. The debug assertion of
   `Sha2Short::update` reads NBWE before `reinit_and_restore`. For the same reason it
   rejects several chunks at once, which `UPDATE_MULTICHUNK` (line 375) announces.
3. `rng_nrf_hang`, nrf54l15/src/try_rng.rs:67. The FSM state is checked before the
   loop that waits for the FIFO and not in it.

4. `aead_lengths`, embedded-cal/src/util/aesccm.rs:9. The trait announces panics for
   nonces and tags of the wrong length (aead.rs:34-36, 52-55); neither hardware provider
   checks the nonce, and the nRF provider ignores what follows the eighth byte of a tag.

5. `dh_pka_ram`, stm32wba55/src/dh.rs:158. `pka_zero_ram` ends at word 667, the scalar is
   at word 936.

Observations without a run: `AeadAlgorithm::eq` of the libcrux extender is false for two
equal AesCcm variants (libcrux/src/aead.rs, `PartialEq`), which contradicts its `Eq`;
the DH trait's documentation expects imports and exports "in EC2-style format", with and
without compression (embedded-cal/src/dh.rs:26-28), which no method offers; the comment at nrf54l15/src/dh.rs:112 calls the
coefficient A "a24".

The passing runs state what holds beside them: `stm32_hash` that the release build is
right for hash states in any order and for HMAC without overlap, `rng` that
finding 3 is the only way to hang.

## Proofs

The runs fix sizes, lengths and the number of states; the theorems hold for all of them.
A module `XProofs` proves about module `X` (`RngProofs` about `RngProviders`,
`AeadProofs` about `AeadProviders`, `DhProofs` about `DhProviders`). Each has an inductive
invariant, one lemma per action that it is kept, and the theorems that follow.
`CryptoMaster` has what both of its drivers need to know of descriptor chains.

| Module | Theorem | States |
|---|---|---|
| `Sha2StreamProofs` | `Inductive` | `Spec => []IndInv` |
| | `TypeCorrect`, `StreamsIntact`, `ChunksAccepted`, `SlicesInBounds` | `[]` of `TypeOK`, `StreamIntegrity`, `ChunkDiscipline`, `SliceInBounds` |
| | `KeepsPromise` | `Spec => HashPromise`: every step is a step of `HashSpec` or a stutter |
| `Stm32HashProofs` | `HashStatesSound` | `Spec => []HashInv`, whatever takes turns |
| | `DriverKeepsContract` | `Spec => HashContract`: the driver implements `Sha2ShortSpec` |
| | `HmacStatesSound` | `Spec => []HmacInv`, if `Overlap = FALSE` |
| | `MacsCorrect`, `DriverTypes` | `[]MacPromise`, `[]TypeOK`, if `Overlap = FALSE` |
| | `DriverNeverPanics` | `[]NoPanic`, if also `DEBUG_ASSERTIONS = FALSE` |
| `CryptoMaster` | `DmaFindsTheJobs` | the fetcher meets the jobs pushed, in order, the last one tagged, whichever others were when they were pushed, and then the end |
| `NrfStreamProofs` | `ChipRunsExtender` | `NrfSpec => Spec`: the chip implements `Sha2Stream` |
| | `ChipStreamsIntact`, `ChipChunksAccepted` | `StreamIntegrity` and `ChunkDiscipline` carry over |
| | `ChipInvariant`, `ChipKeepsPromise` | `[]ChipInv`; `NrfFairSpec => ChipPromise` |
| `HkdfProofs` | `OkmCorrect`, `PosStaysInBounds` | `[]OkmIsRfc`, `[]PosInBounds` |
| | `HmacIsRfc` | both software HMACs are RFC 2104 |
| | `KeysAreRfc` | `[]KeyMaterialIsRfc`, byte by byte |
| `RngProofs` | `RngTypes`, `FirstWordNeverUsed`, `FifoNeverUnderruns` | `[]` of `RngTypeOK`, `FirstWordDiscarded`, `NoUnderrun` |
| `AeadProofs` | `AeadInvariant`, `HardwareRests`, `NrfFailuresContained` | `[]` of `AeadInv`, `HardwareAtRest`, `NrfFailureContained` |
| | `PromiseKept` | `Spec => AeadPromise`, if every call has the right lengths and fits: every step is a step of `AeadSpec` or a stutter |
| `DhProofs` | `DhInvariant` | `Spec => []DhInv` |
| | `ScalarNeverLeft`, `NrfKeysAreDecoded` | `[]` of `PkeScalarErased`, `NrfKeysDecoded` |

**Assumptions** are named, in the modules that declare the constants, and evaluated by
TLC in the runs. `Sha2Stream`: `SizesAssumption` (the length field ends a block),
`BackendAssumption` (a back-end that wants the padding sent has no special first
chunk), `BufferAssumption` (the buffer holds a chunk: the FIXME at
software-demo/src/hash.rs:222-225; nothing in the code asserts it), `InputAssumption`, and
`PowerAssumption` (a power of 256 is a positive number; a fact of arithmetic the
provers do not have). `Stm32Hash`: `PeripheralAssumption` (words and blocks are not
empty; HMAC's buffer holds a first chunk, as 68 does) and `CallerAssumption` (hash and HMAC
states are different values). `NrfStream`: `NrfAssumption` (this back-end wants the
padding sent). `Hkdf`: `HkdfAssumption` (the limit of blocks is below the values of the
counter, 255 and 256) and, in `HkdfProviders`, `LengthAssumption` (HKDF's and HMAC's
digest are as long) and `BytesAssumption` (arguments are byte sequences). Generators:
`RngAssumption`, `ProvidersAssumption` (limits are numbers, the FIFO has room). AEAD:
`CcmAssumption` in `Ccm` (B0 has room for flags, nonce and a length field; tags are of even length and no
longer than a block), and in `AeadProviders` `BufferAssumption` (staging buffers are whole
blocks, a chain takes five descriptors), `PlatformAssumption` and `CallAssumption` (calls
are what the types of the trait allow). DH: `PlatformAssumption` and `BytesAssumption` (digits
are digits, the generator fills a key) in `DhProviders`; `MontAssumption` (a Montgomery prime is
shorter than the curve's operands, X25519's by a bit) and `PowerAssumption` in `Curves`.

`PromiseKept` has two hypotheses. `RightLengths`: nonce and tag have the algorithm's lengths;
finding 4 is what happens otherwise. `Fits`: message and additional data fit into the buffers
of the drivers, 256, 288 and 1024 bytes; beyond them the nRF driver and the RustCrypto extender
panic (the STM32 driver has no such buffers; the hypothesis is the same for all platforms). The
calls of the run `aead` meet both. The reference's header is RFC 3610's for less than 0xFF00
bytes of additional data, the only one the drivers encode (a hazard with a note).

### The arguments

**`Sha2Stream`.** `IndInv` is `TypeOK /\ Levels /\ CallState /\ StreamIntegrity /\
ChunkDiscipline`. `StreamIntegrity` is not inductive by itself, because the code does
not store the fill level but recomputes it from `written`: `Levels` says that the
back-end took exactly `written` minus that level, which makes the level right, and
`CallState` that the running call's level agrees with it and that after the padding
was sent nothing is left. The lemmas go from arithmetic (`LevelBounds`,
`LevelAdvances`, `LevelWraps`: how the level moves when n bytes are added),
through the padding (`PaddingIsFips`: the code's case distinction is the `CHOOSE` of the
standard; `PaddingFillsBlock`: after it the level is 0) to one lemma per action.
`KeepsPromise` maps `out` to the padded messages the back-end hashed; the step that
needs `IndInv` is `FinalizeBackend`, where the hashed bytes must be the digest of `fed`.

**`Stm32Hash`.** A context saved at the wrong moment is worthless, and nothing in the
driver's state says when it was saved. `HashInv` does: the words a `HashState`'s context
stands for are none or those after which the core can be suspended (`Suspendable`: a
first chunk and whole blocks), the only places where the contract lets chunks end. It
needs no hypothesis on callers or build, because `reinit_and_restore` puts the
peripheral into the state's own context before a word is written; so the contract is kept even where HMAC computations spoil each other.
For HMAC, `HmacInv` says of every live state that the words the peripheral took, the
bytes in `buf` and what a running `update` has left make up the message (`StateOf`), that `buf`
is shorter than the core's next block, and that a state with blocks in the peripheral is its
`user`, whose fill level NBWE then shows. The last part is what finding 1 takes away:
`update` chooses its block size from NBWE before it restores, so `Overlap = FALSE` is
necessary, and `stm32_hmac_overlap` shows that. In the same way `DriverNeverPanics`
is for release builds because of finding 2. `KeyInv` covers the time in which a long key is
being hashed.

**`NrfStream`.** `ChipRunsExtender` is a step simulation: the DMA's steps change nothing of
the Extender, and `Sent` is its `FillAndSend`. So `IndInv` holds on the chip. `ChipInv` adds
that an intermediate state is SHA-256 of what the back-end absorbed (`StatesInv`), that
what was copied out is that of what was hashed (`TargetsInv`), and that the DMA
is in one of the stages of the chunk being sent or is done, with the awaited output
complete (`DmaInv`); the driver leaves its polling loop in the second case only.
`DmaFindsTheJobs` is an induction along the chain.

**`Hkdf`.** `HkdfInv` says that `pos` is a whole number b of digests or the end, `t` the chain
of the counters 1..b, which the limit `MaxBlocks` keeps from wrapping. `BytesInv` says
the same of the bytes: `tBytes` is T(b) of RFC 5869, and below `pos` `okmBytes` has its bytes.
`HmacIsRfc` follows the states of the inner and outer hash through init, update and
finalize, with keys shorter than, as long as and longer than a block.

**Generators.** `FirstWordInv` follows the first word through the steps of `init_rng`: behind its
check the word was produced, or a seed error will make the check panic, and behind the read that discards it `DR`
does not hold it. It is inductive because a word
in `DR` was always produced after the last reset. `DrainInv`: the local copy
`level` is never more than the FIFO holds, because only the loop pops and only
a reset outside of it flushes.

**AEAD.** `AeadInv` is enough for the hardware: `AesInv` relates the driver's phase to the peripheral's
EN and GCMPH, `DmaInv` says the DMA is busy only while `wait` polls and only with bits it polls,
`BufferInv` that the nRF driver writes the caller's buffer in the step that has seen the right tag.

For `PromiseKept` it is `PromiseInv`, which says of every provider how far its computation has come:

* `StmInv`. From the init phase on, key, B0 and mode in the registers are the call's, whatever a
  previous call left (`Loaded`: NPBLB is cleared, and AES-128 does not look at the key half that is left over). In the header
  phase, what the MAC has run over, the block being filled and the items left are together B0
  and the header, and the MAC has whole blocks (`InHeader`). In the payload phase the first
  `msg_offset` bytes are done, all but the last block are whole, and the
  MAC has the header and the zero-padded plain text up to there (`InPayload`), which for a partial last
  block is what NPBLB is for.
* `NrfInv`. The engine's output is three buffers' worth of bytes, `Parts`; those filled so far, and the
  sizes and bytes to come, are a split of `Parts`, and no push bit is set exactly if nothing is to come
  (`Delivered`). `EngineIs` computes that output from the input chain, which
  the engine meets as pushed by `DmaFindsTheJobs`; the driver leaves its loop only when
  the DMA is done (`FinishReads`).
* `RcInv`. The used part of `aead_buffer` and the items left are the additional data, and `cursor` is 0 between calls.
* libcrux: `FlattenIs`, the adapter's two passes over the items agree with their concatenation.
* `CallInv`. A call is with a provider that has its algorithm (`Routed`: for all pairs of extender and
  base), nothing has panicked, and only the STM32's payload phase works in the caller's buffer.

A returning step is `AeadSpec`'s `Return` (`ReturnSimulates`), all others inside a call are stutters.

**DH.** `DhInv` is `KeysInv /\ CallInv /\ EngineInv`. `EngineInv` says that a word of the PKE's scalar
slot is zero, or a call is waiting for the engine and the word is among those that call wrote and will erase
(`ScalarWords`): P-256 writes from the slot's end and the Montgomery curves from its start, so erasing with another
curve's range would leave words behind. `KeysInv` says that secret keys of the nRF are clamped and coordinates
have their unused bit clear; it needs of the engine that what it returns for X25519 is below
2^255, hence `X25519Started` and `X25519Ended`. The digits of little-endian numbers are
related to their values by `EightDigits` and `TenDigits`.

**Induction over data.** Some facts are about recursive functions: a chain of jobs followed to its
end, the chain of T(i), the concatenation of items. They are proved without an induction scheme: `LeastNumber`
(every non-empty set of numbers has a least element) comes from the well-foundedness of < on the naturals; applied to the set of
counterexamples it gives a number n whose predecessor is none. A recursive function is defined for all its
arguments by the same argument (`Follows`, `IsT`).

**Only model-checked**:

* liveness (`CallsReturn`, `EveryFillEnds`, `ExpandReturns`), which the prover does not
  support under fairness;
* `DhPromise`, `Agreement` and `KeysRoundTrip`: they rest on the arithmetic of the concrete
  curves and on the group law, which TLC evaluates and the provers do not have.

## Plan

Done: all components above, modelled and checked; every safety property of the passing runs proved
but those named above. Left, in this order: `DhPromise` and `Agreement` under the group law
as a named assumption on `EcMul` and on the Montgomery ladder, which would leave to TLC only
that the concrete curves satisfy it; the hazards of `PROJECT.json` that have a note instead of a property.

## Not modelled

Cryptographic primitives (compression function, field arithmetic of the PKE
microcode, library calls of libcrux and RustCrypto): ideal in the models, covered by
the repository's test vectors. The hash states of the libcrux and RustCrypto extenders
and `HashState::Direct`: every call is forwarded to a library or to the base without any
state beside. The AES-CCM variants of the libcrux extender, which no algorithm number
selects, and the `alloc` build of the RustCrypto extender. The wait for the CTR-DRBG
before a PKE operation (nrf54l15/src/dh.rs:219), which nothing in this code starts. The debug assertions on the
PKE's error flags (nrf54l15/src/dh.rs:263, 333): the engine is modelled without errors. A buffer of the
Extender that does not hold a first chunk (the FIXME at software-demo/src/hash.rs:222): `BufferAssumption`
names what the code takes for granted. Clock and peripheral construction and drop, beyond the
generators' start-up. Accessor traits, error types and the rand adapter: type level or
forwarding. The 32-bit overflow of `written` after 4 GiB: the
model's counter is unbounded (a hazard with a note). Secret
zeroisation outside the engines' RAM.
