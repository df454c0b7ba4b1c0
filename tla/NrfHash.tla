------------------------------- MODULE NrfHash ------------------------------
(***************************************************************************)
(* The Sha2Short back-end of the nRF54L15 (lib.rs): an update sends the    *)
(* intermediate state, if there is one, and the chunks through the         *)
(* CryptoMaster and keeps the state that comes back.                       *)
(*                                                                         *)
(* SHA-256 is ideal: an intermediate state is the initial value and the    *)
(* bytes compressed since.                                                 *)
(***************************************************************************)
EXTENDS CryptoMaster

CONSTANT Sessions

VARIABLE state  \* HashState.state of each instance: {} for None

Compressed(iv, bytes) == [iv |-> iv, bytes |-> bytes]

\* `new_state' before the DMA has written it.
Zeroed == Compressed("zero", << >>)

\* Jobs by the role their dmatag gives them.
Job(role, content) == [role |-> role, content |-> content]

InputJobs_ForgetsState(s, data) == <<Job("cfg", "sha256"), Job("data", data)>>

InputJobs(s, data) ==
  <<Job("cfg", "sha256")>>
    \o (IF state[s] = {} THEN << >> ELSE <<Job("state", state[s])>>)
    \o <<Job("data", data)>>

\* One buffer of one unit, the state.
OutputJobs == <<1>>

\* The tags of the state (99), the data (35) and the output (32) have the bit of
\* DMATAG_LAST already, that of the configuration (19) has not.
TaggedLast(jobs) == {i \in DOMAIN jobs : jobs[i].role # "cfg"}
OutputTaggedLast == {1}

\* The hash engine (external): starts from the state it is given or, without
\* one, from the initial value of the configured algorithm.
HashEngine(jobs) ==
  LET To(role) == {jobs[i].content : i \in {k \in 1 .. Len(jobs) : jobs[k].role = role}}
      The(role) == CHOOSE content \in To(role) : TRUE
      from == IF To("state") = {} THEN Compressed(The("cfg"), << >>)
              ELSE CHOOSE v \in The("state") : TRUE
  IN  <<Compressed(from.iv, from.bytes \o The("data"))>>

-----------------------------------------------------------------------------
(* Sha2Short *)

init(s) == state' = [state EXCEPT ![s] = {}]

\* update, up to the start of the DMA and after the polling loop, when the
\* local buffer goes.
UpdateStart(s, data) ==
  /\ \E in \in {Followed(InputJobs(s, data), TaggedLast(InputJobs(s, data)))} :
       StartDma(in, Followed(OutputJobs, OutputTaggedLast), HashEngine(in.jobs))
  /\ UNCHANGED state

UpdateEnd(s) ==
  /\ PollingEnds
  /\ state' = [state EXCEPT ![s] = {OutputBuffer(1, <<Zeroed>>)[1]}]
  /\ dma' = [dma EXCEPT !.filled = << >>]

\* finalize: what it copies to `target'; nothing if unwrap panics.
finalize(s) == state[s]

clone(s, t) == state' = [state EXCEPT ![t] = state[s]]
=============================================================================
