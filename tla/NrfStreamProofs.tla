-------------------------- MODULE NrfStreamProofs ---------------------------
(***************************************************************************)
(* Proofs about the Extender's hash states on the nRF54L15 (NrfStream):    *)
(* the steps with the DMA are steps of the Extender, and what the chip     *)
(* hands out is the digest of what the state was fed.                      *)
(***************************************************************************)
EXTENDS NrfStream, Sha2StreamProofs

-----------------------------------------------------------------------------
(* The chip implements the Extender *)

\* Every step with the chip is a step of the Extender or invisible to it: the
\* DMA works while the call waits.
THEOREM ChipRunsExtender == NrfSpec => Spec
<1>1. NrfInit => Init
  BY DEF NrfInit
<1>2. [NrfNext]_nrfVars => [Next]_vars
  <2> SUFFICES ASSUME [NrfNext]_nrfVars PROVE [Next]_vars
    OBVIOUS
  <2>1. CASE \E s \in Sessions :
               \/ HashInit(s) \/ (\E d \in Payloads : Update(s, d)) \/ Finalize(s)
               \/ (\E t \in Sessions : Clone(s, t)) \/ Drop(s)
    BY <2>1 DEF Next
  <2>2. CASE NrfCallStep
    BY <2>2 DEF NrfCallStep, Send, Sent, Returned, Next, CallStep
  <2>3. CASE Hardware \/ UNCHANGED nrfVars
    BY <2>3 DEF Hardware, nrfVars
  <2> QED
    BY <2>1, <2>2, <2>3 DEF NrfNext
<1> QED
  BY <1>1, <1>2, PTL DEF NrfSpec, Spec

\* On the chip, too, no byte of a stream is lost, repeated or misplaced.
THEOREM ChipStreamsIntact == NrfFairSpec => []StreamIntegrity
<1>1. NrfFairSpec => NrfSpec
  BY PTL DEF NrfFairSpec
<1> QED
  BY <1>1, ChipRunsExtender, StreamsIntact, PTL

\* The chip never receives a chunk that makes its asserts fail.
THEOREM ChipChunksAccepted == NrfFairSpec => []ChunkDiscipline
<1>1. NrfFairSpec => NrfSpec
  BY PTL DEF NrfFairSpec
<1> QED
  BY <1>1, ChipRunsExtender, ChunksAccepted, PTL

-----------------------------------------------------------------------------
(* What the chip computes *)

\* The state SHA-256 is in after some bytes.
After(bytes) == Chip!Compressed("sha256", bytes)

\* The chunk the running call sends, and the state that has to come back.
Chunk == SubSeq(Filled(FillBytes), 1, BufferMax(written[cur]))
Awaited == After(absorbed[cur] \o Chunk)

\* A state holds what SHA-256 made of the bytes it absorbed, None before the
\* first chunk.
StatesInv ==
  state = [s \in Sessions |-> IF absorbed[s] = << >> THEN {} ELSE {After(absorbed[s])}]

\* A digest that was handed out is the one of the bytes that were hashed.
TargetsInv == target = [s \in Sessions |-> {After(m) : m \in hashed[s]}]

(***************************************************************************)
(* The DMA is at rest unless a call polls.  While one polls, its chunk is  *)
(* still the one that was sent, and either the pusher is busy or waits and *)
(* the engine delivers what is awaited, or all is done and it is in the    *)
(* buffer.                                                                 *)
(***************************************************************************)
Working ==
  /\ dma.status \subseteq Chip!Polled
  /\ dma.status \cap {"pushbusy", "pushwaitingfifo"} # {}
  /\ dma.stream = <<Awaited>> /\ dma.sizes = <<1>> /\ dma.filled = << >>
  /\ dma.final = TRUE

Done == dma.status = {} /\ dma.filled = <<<<Awaited>>>>

DmaInv ==
  /\ DOMAIN dma = {"status", "stream", "sizes", "filled", "final"}
  /\ sending \in BOOLEAN
  /\ ~sending => dma.status = {}
  /\ sending => /\ pc \in {"update", "padding"}
                /\ written_in_buffer + FillBytes >= BufferMax(written[cur])
                /\ Working \/ Done

ChipInv == StatesInv /\ TargetsInv /\ DmaInv

\* Appending one element to a tuple of one.
LEMMA PairIsTuple ==
  ASSUME NEW a, NEW b
  PROVE  <<a>> \o <<b>> = <<a, b>>
<1> DEFINE S == {a, b}
           p == <<a>> \o <<b>>
           q == <<a, b>>
<1>1. <<a>> \in Seq(S) /\ <<b>> \in Seq(S) /\ q \in Seq(S)
  OBVIOUS
<1>2. p \in Seq(S)
  BY <1>1, ConcatProperties
<1>3. Len(p) = 2 /\ Len(q) = 2 /\ p[1] = q[1] /\ p[2] = q[2]
  OBVIOUS
<1> HIDE DEF S, p, q
<1> QED
  <2>1. \A i \in 1 .. Len(p) : p[i] = q[i]
    BY <1>3
  <2>2. p = q
    BY <1>1, <1>2, <1>3, <2>1, SeqEqual
  <2> QED
    BY <2>2 DEF p, q

\* Appending one element to a tuple of two.
LEMMA TripleIsTuple ==
  ASSUME NEW a, NEW b, NEW c
  PROVE  <<a, b>> \o <<c>> = <<a, b, c>>
<1> DEFINE S == {a, b, c}
           p == <<a, b>> \o <<c>>
           q == <<a, b, c>>
<1>1. <<a, b>> \in Seq(S) /\ <<c>> \in Seq(S) /\ q \in Seq(S)
  OBVIOUS
<1>2. p \in Seq(S)
  BY <1>1, ConcatProperties
<1>3. Len(p) = 3 /\ Len(q) = 3 /\ p[1] = q[1] /\ p[2] = q[2] /\ p[3] = q[3]
  OBVIOUS
<1> HIDE DEF S, p, q
<1> QED
  <2>1. \A i \in 1 .. Len(p) : p[i] = q[i]
    BY <1>3
  <2>2. p = q
    BY <1>1, <1>2, <1>3, <2>1, SeqEqual
  <2> QED
    BY <2>2 DEF p, q

\* The hash engine continues from the state it is sent and else from the
\* initial value of SHA-256.
LEMMA EngineContinues ==
  ASSUME StatesInv, NEW s \in Sessions, absorbed[s] \in Seq(Nat), NEW d \in Seq(Nat)
  PROVE  /\ \A tagged : Chip!Followed(Chip!InputJobs(s, d), tagged)
              = [jobs |-> Chip!InputJobs(s, d), final |-> TRUE]
         /\ Chip!HashEngine(Chip!InputJobs(s, d)) = <<After(absorbed[s] \o d)>>
<1> DEFINE cfg == Chip!Job("cfg", "sha256")
           sta == Chip!Job("state", state[s])
           dat == Chip!Job("data", d)
           jobs == Chip!InputJobs(s, d)
           To(role) == {jobs[i].content : i \in {k \in 1 .. Len(jobs) : jobs[k].role = role}}
           The(role) == CHOOSE content \in To(role) : TRUE
           from == IF To("state") = {} THEN Chip!Compressed(The("cfg"), << >>)
                   ELSE CHOOSE v \in The("state") : TRUE
<1>1. /\ cfg.role = "cfg" /\ cfg.content = "sha256"
      /\ sta.role = "state" /\ sta.content = state[s]
      /\ dat.role = "data" /\ dat.content = d
  BY DEF Chip!Job
<1>2. Chip!HashEngine(jobs) = <<Chip!Compressed(from.iv, from.bytes \o The("data"))>>
  BY DEF Chip!HashEngine
<1>3. CASE absorbed[s] = << >>
  <2>1. state[s] = {}
    BY <1>3 DEF StatesInv
  <2>2. jobs = <<cfg, dat>>
    <3>1. jobs = <<cfg>> \o << >> \o <<dat>>
      BY <2>1 DEF Chip!InputJobs
    <3> HIDE DEF cfg, dat, jobs
    <3>2. <<cfg>> \in Seq({cfg})
      OBVIOUS
    <3>3. <<cfg>> \o << >> = <<cfg>>
      BY <3>2, ConcatEmptySeq
    <3> QED
      BY <3>1, <3>3, PairIsTuple
  <2> HIDE DEF cfg, sta, dat
  <2>3. jobs \in Seq({cfg, dat}) /\ jobs # << >> /\ Len(jobs) = 2
        /\ jobs[1] = cfg /\ jobs[2] = dat
    BY <2>2
  <2>4. \A tagged : Chip!Followed(jobs, tagged) = [jobs |-> jobs, final |-> TRUE]
    BY <2>3, Chip!DmaFindsTheJobs
  <2> HIDE DEF jobs
  <2>5. To("state") = {} /\ To("cfg") = {"sha256"} /\ To("data") = {d}
    BY <1>1, <2>3
  <2>6. The("cfg") = "sha256" /\ The("data") = d
    BY <2>5
  <2> HIDE DEF To, The
  <2>7. from.iv = "sha256" /\ from.bytes = << >>
    BY <2>5, <2>6 DEF Chip!Compressed
  <2>8. << >> \o d = d /\ absorbed[s] \o d = d
    BY <1>3, ConcatEmptySeq
  <2> QED
    BY <1>2, <2>4, <2>6, <2>7, <2>8 DEF After, jobs
<1>4. CASE absorbed[s] # << >>
  <2>1. state[s] = {After(absorbed[s])}
    BY <1>4 DEF StatesInv
  <2>2. jobs = <<cfg, sta, dat>>
    <3>1. jobs = <<cfg>> \o <<sta>> \o <<dat>>
      BY <2>1 DEF Chip!InputJobs
    <3> HIDE DEF cfg, sta, dat, jobs
    <3>2. <<cfg>> \o <<sta>> = <<cfg, sta>>
      BY PairIsTuple
    <3> QED
      BY <3>1, <3>2, TripleIsTuple
  <2> HIDE DEF cfg, sta, dat
  <2>3. jobs \in Seq({cfg, sta, dat}) /\ jobs # << >> /\ Len(jobs) = 3
        /\ jobs[1] = cfg /\ jobs[2] = sta /\ jobs[3] = dat
    BY <2>2
  <2>4. \A tagged : Chip!Followed(jobs, tagged) = [jobs |-> jobs, final |-> TRUE]
    BY <2>3, Chip!DmaFindsTheJobs
  <2> HIDE DEF jobs
  <2>5. To("state") = {state[s]} /\ To("data") = {d}
    BY <1>1, <2>3
  <2>6. The("state") = state[s] /\ The("data") = d
    BY <2>5
  <2> HIDE DEF To, The
  <2>7. from = After(absorbed[s])
    BY <2>1, <2>5, <2>6
  <2> HIDE DEF from
  <2>8. from.iv = "sha256" /\ from.bytes = absorbed[s]
    BY <2>7 DEF After, Chip!Compressed
  <2> QED
    BY <1>2, <2>4, <2>6, <2>8 DEF After, jobs
<1> QED
  BY <1>3, <1>4

\* The chunk of a call is a chunk.
LEMMA ChunkFacts ==
  ASSUME IndInv, pc \in {"update", "padding"},
         written_in_buffer + FillBytes >= BufferMax(written[cur])
  PROVE  /\ cur \in Sessions /\ absorbed[cur] \in Seq(Nat)
         /\ Chunk \in Seq(Nat) /\ absorbed[cur] \o Chunk \in Seq(Nat)
         /\ absorbed[cur] \o Chunk # << >>
<1>1. /\ cur \in Sessions /\ absorbed[cur] \in Seq(Nat) /\ written[cur] \in Nat
      /\ written_in_buffer = InBuffer(written[cur])
  BY CallFacts
<1>2. /\ FillBytes \in 0 .. Len(data) /\ BufferMax(written[cur]) \in Nat
      /\ written_in_buffer + FillBytes <= BufferMax(written[cur])
      /\ SubSeq(Filled(FillBytes), 1, written_in_buffer + FillBytes) \in Seq(Nat)
      /\ Len(SubSeq(Filled(FillBytes), 1, written_in_buffer + FillBytes))
           = written_in_buffer + FillBytes
  BY FillFacts
<1>3. InBuffer(written[cur]) \in Nat /\ InBuffer(written[cur]) < BufferMax(written[cur])
      /\ Len(data) \in Nat
  BY <1>1, LevelBounds, CallFacts, LenProperties
<1>4. written_in_buffer + FillBytes = BufferMax(written[cur]) /\ BufferMax(written[cur]) > 0
  BY <1>1, <1>2, <1>3
<1>5. Chunk \in Seq(Nat) /\ Len(Chunk) > 0
  BY <1>2, <1>4 DEF Chunk
<1>6. Chunk # << >>
  BY <1>5
<1> QED
  BY <1>1, <1>5, <1>6, ConcatProperties, ConcatEqualIffEmpty

\* At the start no chunk is under way and the DMA rests.
LEMMA ChipInitInv == NrfInit => ChipInv
<1> SUFFICES ASSUME NrfInit PROVE ChipInv
  OBVIOUS
<1>1. StatesInv
  BY DEF NrfInit, Init, StatesInv
<1>2. TargetsInv
  BY DEF NrfInit, Init, TargetsInv
<1>3. DOMAIN dma = {"status", "stream", "sizes", "filled", "final"} /\ dma.status = {}
  BY DEF NrfInit, Chip!DmaInit
<1>4. sending = FALSE /\ sending \in BOOLEAN
  BY Zenon DEF NrfInit
<1> QED
  BY <1>1, <1>2, <1>3, <1>4 DEF ChipInv, DmaInv

-----------------------------------------------------------------------------
(* Each step keeps ChipInv *)

\* No DMA runs between calls, and a step that starts none leaves it at rest.
LEMMA AtRest ==
  ASSUME DmaInv, ~sending, UNCHANGED <<dma, sending>>
  PROVE  DmaInv'
<1>1. sending' = sending /\ dma' = dma
  OBVIOUS
<1>2. sending' \in BOOLEAN /\ ~sending'
  <2>1. sending \in BOOLEAN
    BY Zenon DEF DmaInv
  <2>2. sending' \in BOOLEAN
    BY <1>1, <2>1
  <2>3. ~sending'
    BY <1>1, <2>1
  <2> QED
    BY <2>2, <2>3
<1>3. dma'.status = {} /\ DOMAIN dma' = {"status", "stream", "sizes", "filled", "final"}
  BY <1>1 DEF DmaInv
<1> QED
  BY <1>2, <1>3 DEF DmaInv

\* A step that leaves what was absorbed and hashed, and the chip, as it is.
LEMMA ChipUntouched ==
  ASSUME ChipInv, ~sending, UNCHANGED <<chipVars, absorbed, hashed>>
  PROVE  ChipInv'
<1>1. UNCHANGED <<state, dma, sending, target, absorbed, hashed>>
  BY DEF chipVars
<1>2. DmaInv'
  BY <1>1, AtRest DEF ChipInv
<1>3. StatesInv'
  BY <1>1 DEF ChipInv, StatesInv
<1>4. TargetsInv'
  BY <1>1 DEF ChipInv, TargetsInv
<1> QED
  BY <1>2, <1>3, <1>4 DEF ChipInv

\* A new state has no intermediate state and no digest.
LEMMA InitKeepsChip ==
  ASSUME IndInv, ChipInv, NEW s \in Sessions, HashInit(s), Chip!init(s),
         target' = [target EXCEPT ![s] = {}], UNCHANGED <<dma, sending>>
  PROVE  ChipInv'
<1>1. ~sending
  BY DEF HashInit, ChipInv, DmaInv
<1>2. DmaInv'
  BY <1>1, AtRest DEF ChipInv
<1>3. absorbed \in [Sessions -> Seq(Nat)] /\ hashed \in [Sessions -> SUBSET Seq(Nat)]
  BY DEF IndInv, TypeOK
<1>4. StatesInv'
  BY <1>3 DEF HashInit, Backend!init, Chip!init, ChipInv, StatesInv
<1>5. TargetsInv'
  BY <1>3 DEF HashInit, Backend!init, ChipInv, TargetsInv
<1> QED
  BY <1>2, <1>4, <1>5 DEF ChipInv

\* A clone continues from the state of its original, and has no digest.
LEMMA CloneKeepsChip ==
  ASSUME IndInv, ChipInv, NEW s \in Sessions, NEW t \in Sessions,
         Clone(s, t), Chip!clone(s, t),
         target' = [target EXCEPT ![t] = {}], UNCHANGED <<dma, sending>>
  PROVE  ChipInv'
<1>1. ~sending
  BY DEF Clone, ChipInv, DmaInv
<1>2. DmaInv'
  BY <1>1, AtRest DEF ChipInv
<1>3. absorbed \in [Sessions -> Seq(Nat)] /\ hashed \in [Sessions -> SUBSET Seq(Nat)]
  BY DEF IndInv, TypeOK
<1>4. StatesInv'
  BY <1>3 DEF Clone, Backend!clone, Chip!clone, ChipInv, StatesInv
<1>5. TargetsInv'
  BY <1>3 DEF Clone, Backend!clone, ChipInv, TargetsInv
<1> QED
  BY <1>2, <1>4, <1>5 DEF ChipInv

\* Steps of the Extender alone: the start of a call, the drop of a state, an
\* iteration that leaves its chunk incomplete.
LEMMA ExtenderKeepsChip ==
  ASSUME IndInv, ChipInv, UNCHANGED chipVars,
         \/ \E s \in Sessions : \/ \E d \in Payloads : Update(s, d)
                                \/ Finalize(s)
                                \/ Drop(s)
         \/ FillAndReturn
  PROVE  ChipInv'
<1>1. UNCHANGED <<absorbed, hashed>>
  BY DEF Update, Finalize, Drop, FillAndReturn, backendVars
<1>2. ~sending
  <2>1. CASE pc = "idle"
    BY <2>1 DEF ChipInv, DmaInv
  <2>2. CASE FillAndReturn
    <3>1. /\ pc \in {"update", "padding"}
          /\ written_in_buffer + FillBytes < BufferMax(written[cur])
      BY <2>2 DEF FillAndReturn, Fill
    <3>2. /\ FillBytes \in 0 .. Len(data) /\ BufferMax(written[cur]) \in Nat
          /\ written_in_buffer \in 0 .. HASH_WRAPPER_MAX_BLOCKSIZE /\ Len(data) \in Nat
      BY <3>1, FillFacts, CallFacts, LenProperties
    <3>3. ~(written_in_buffer + FillBytes >= BufferMax(written[cur]))
      BY <3>1, <3>2, BufferAssumption
    <3> QED
      BY <3>3 DEF ChipInv, DmaInv
  <2> QED
    BY <2>1, <2>2 DEF Update, Finalize, Drop
<1> QED
  BY <1>1, <1>2, ChipUntouched

\* The DMA is started with the chunk, and with the state of this session.
LEMMA SendKeepsChip ==
  ASSUME IndInv, ChipInv, Send
  PROVE  ChipInv'
<1>1. /\ pc \in {"update", "padding"}
      /\ written_in_buffer + FillBytes >= BufferMax(written[cur])
  BY DEF Send
<1>2. UNCHANGED <<vars, target, state>>
  BY DEF Send, Chip!UpdateStart
<1>3. UNCHANGED <<pc, cur, data, written, written_in_buffer, buffer, absorbed, hashed>>
  BY <1>2 DEF vars, stateVars, backendVars, callVars
<1>4. /\ cur \in Sessions /\ absorbed[cur] \in Seq(Nat) /\ Chunk \in Seq(Nat)
  BY <1>1, ChunkFacts
<1>5. /\ \A tagged : Chip!Followed(Chip!InputJobs(cur, Chunk), tagged)
           = [jobs |-> Chip!InputJobs(cur, Chunk), final |-> TRUE]
      /\ Chip!HashEngine(Chip!InputJobs(cur, Chunk)) = <<Awaited>>
  BY <1>4, EngineContinues DEF ChipInv, Awaited
<1>6. \A tagged : Chip!Followed(Chip!OutputJobs, tagged) = [jobs |-> <<1>>, final |-> TRUE]
  <2>1. <<1>> \in Seq({1}) /\ <<1>> # << >>
    OBVIOUS
  <2> QED
    BY <2>1, Chip!DmaFindsTheJobs DEF Chip!OutputJobs
<1> DEFINE in == Chip!Followed(Chip!InputJobs(cur, Chunk),
                               Chip!TaggedLast(Chip!InputJobs(cur, Chunk)))
           of == Chip!Followed(Chip!OutputJobs, Chip!OutputTaggedLast)
<1>7. Chip!StartDma(in, of, Chip!HashEngine(in.jobs))
  BY DEF Send, Chip!UpdateStart, Chunk
<1>8. dma' = [status |-> {"fetchbusy", "pushbusy"}, stream |-> <<Awaited>>,
              sizes |-> <<1>>, filled |-> << >>, final |-> (TRUE /\ TRUE)]
  <2>1. Chip!StartDma(in, of, Chip!HashEngine(in.jobs))
    BY <1>7
  <2>2. in.jobs = Chip!InputJobs(cur, Chunk) /\ of.jobs = <<1>>
    BY <1>5, <1>6
  <2>3. in.final = TRUE /\ of.final = TRUE
    <3>1. \A j : [jobs |-> j, final |-> TRUE].final = TRUE
      BY Zenon
    <3>2. \E j, k : in = [jobs |-> j, final |-> TRUE] /\ of = [jobs |-> k, final |-> TRUE]
      BY <1>5, <1>6, Zenon
    <3> HIDE DEF in, of
    <3> QED
      BY <3>1, <3>2, Zenon
  <2>4. Chip!HashEngine(in.jobs) = <<Awaited>>
    BY <1>5, <2>2
  <2> HIDE DEF in, of
  <2> QED
    BY <2>1, <2>2, <2>3, <2>4 DEF Chip!StartDma
<1>9. Chunk' = Chunk /\ Awaited' = Awaited /\ FillBytes' = FillBytes
  BY <1>3 DEF Awaited, Chunk, FillBytes, Filled
<1>10. Working'
  <2>1. /\ dma'.status = {"fetchbusy", "pushbusy"} /\ dma'.stream = <<Awaited>>
        /\ dma'.sizes = <<1>> /\ dma'.filled = << >>
    BY <1>8
  <2>2. dma'.final = TRUE
    BY <1>8, Zenon
  <2> QED
    BY <1>9, <2>1, <2>2 DEF Working, Chip!Polled
<1>11. DOMAIN dma' = {"status", "stream", "sizes", "filled", "final"}
  BY <1>8
<1>12. sending' /\ sending' \in BOOLEAN
  BY Zenon DEF Send
<1>13. DmaInv'
  BY <1>1, <1>3, <1>9, <1>10, <1>11, <1>12 DEF DmaInv
<1> QED
  BY <1>2, <1>3, <1>13 DEF ChipInv, StatesInv, TargetsInv

\* The DMA steps only while a call polls, and ends with the awaited state in
\* the call's buffer.
LEMMA HardwareKeepsChip ==
  ASSUME ChipInv, Hardware
  PROVE  ChipInv'
<1>1. UNCHANGED <<vars, state, sending, target>> /\ Chip!Dma
  BY DEF Hardware
<1>2. UNCHANGED <<pc, cur, data, written, written_in_buffer, buffer, absorbed, hashed>>
  BY <1>1 DEF vars, stateVars, backendVars, callVars
<1>3. Awaited' = Awaited /\ FillBytes' = FillBytes
  BY <1>2 DEF Awaited, Chunk, FillBytes, Filled
<1>4. dma.status # {}
  BY <1>1 DEF Chip!Dma, Chip!Fetch, Chip!PushWait, Chip!Push
<1>5. sending /\ Working
  BY <1>4 DEF ChipInv, DmaInv, Done
<1>6. DOMAIN dma = {"status", "stream", "sizes", "filled", "final"}
  BY DEF ChipInv, DmaInv
<1>7. ASSUME NEW st, dma' = [dma EXCEPT !.status = st], st \subseteq Chip!Polled,
             st \cap {"pushbusy", "pushwaitingfifo"} # {}
      PROVE  Working' /\ DOMAIN dma' = DOMAIN dma
  <2>1. /\ dma'.status = st /\ dma'.stream = dma.stream /\ dma'.sizes = dma.sizes
        /\ dma'.filled = dma.filled /\ DOMAIN dma' = DOMAIN dma
    BY <1>6, <1>7
  <2>2. dma'.final = dma.final
    BY <1>6, <1>7
  <2> QED
    BY <1>3, <1>5, <1>7, <2>1, <2>2 DEF Working, Chip!Polled
<1>8. (Working \/ Done)' /\ DOMAIN dma' = DOMAIN dma
  <2>1. CASE Chip!Fetch
    BY <1>5, <1>7, <2>1 DEF Chip!Fetch, Working, Chip!Polled
  <2>2. CASE Chip!PushWait
    BY <1>5, <1>7, <2>2 DEF Chip!PushWait, Working, Chip!Polled
  <2>3. CASE Chip!Push
    <3>1. /\ Len(dma.sizes) = 1 /\ Head(dma.sizes) = 1 /\ "fetchbusy" \notin dma.status
          /\ Len(dma.sizes) = 1 => "fetchbusy" \notin dma.status
      BY <1>5, <2>3 DEF Chip!Push, Working
    <3>2. (dma.status \ {"pushbusy", "pushwaitingfifo"}) \cup {} = {}
      BY <1>5, <3>1 DEF Working, Chip!Polled
    <3>3. Append(dma.filled, SubSeq(dma.stream, 1, 1)) = <<<<Awaited>>>>
      <4> HIDE DEF Awaited
      <4>1. ASSUME NEW a PROVE SubSeq(<<a>>, 1, 1) = <<a>>
        <5>1. <<a>> \in Seq({a}) /\ Len(<<a>>) = 1
          OBVIOUS
        <5> QED
          BY <5>1, SubSeqFull
      <4>2. \A a : Append(<< >>, a) = <<a>>
        OBVIOUS
      <4> QED
        BY <1>5, <4>1, <4>2 DEF Working
    <3> DEFINE st == (dma.status \ {"pushbusy", "pushwaitingfifo"})
                       \cup (IF Len(dma.sizes) = 1 THEN {} ELSE {"pushbusy"})
               rest == SubSeq(dma.stream, Head(dma.sizes) + 1, Len(dma.stream))
               full == Append(dma.filled, SubSeq(dma.stream, 1, Head(dma.sizes)))
    <3>4. dma' = [dma EXCEPT !.status = st, !.stream = rest,
                             !.sizes = Tail(dma.sizes), !.filled = full]
      BY <2>3 DEF Chip!Push
    <3>5. st = {} /\ full = <<<<Awaited>>>>
      BY <3>1, <3>2, <3>3
    <3> HIDE DEF st, rest, full
    <3>6. dma'.status = {} /\ dma'.filled = <<<<Awaited>>>> /\ DOMAIN dma' = DOMAIN dma
      BY <1>6, <3>4, <3>5
    <3> QED
      BY <1>3, <3>6 DEF Done
  <2> QED
    BY <1>1, <2>1, <2>2, <2>3 DEF Chip!Dma
<1>9. sending' = sending /\ sending' \in BOOLEAN
  <2>1. sending \in BOOLEAN
    BY Zenon DEF ChipInv, DmaInv
  <2> QED
    BY <1>1, <2>1
<1>10. DmaInv'
  <2>1. sending' => /\ (pc \in {"update", "padding"})'
                    /\ (written_in_buffer + FillBytes >= BufferMax(written[cur]))'
    BY <1>2, <1>3, <1>9 DEF ChipInv, DmaInv
  <2> QED
    BY <1>5, <1>6, <1>8, <1>9, <2>1 DEF DmaInv
<1> QED
  BY <1>1, <1>2, <1>10 DEF ChipInv, StatesInv, TargetsInv

\* After the polling loop the state is what SHA-256 makes of all the bytes,
\* those absorbed before and the chunk.
LEMMA SentKeepsChip ==
  ASSUME IndInv, ChipInv, Sent
  PROVE  ChipInv'
<1>1. /\ pc \in {"update", "padding"} /\ sending
      /\ written_in_buffer + FillBytes >= BufferMax(written[cur])
  BY DEF Sent, ChipInv, DmaInv
<1>2. /\ cur \in Sessions /\ absorbed[cur] \in Seq(Nat)
      /\ absorbed[cur] \o Chunk # << >>
  BY <1>1, ChunkFacts
<1>3. dma.status \cap Chip!Polled = {} /\ (Working \/ Done)
  BY <1>1 DEF Sent, Chip!UpdateEnd, Chip!PollingEnds, ChipInv, DmaInv
<1>4. Done
  BY <1>3 DEF Working
<1>5. Chip!OutputBuffer(1, <<Chip!Zeroed>>)[1] = Awaited
  <2>1. \A a, z : 1 <= Len(<<<<a>>>>) /\ <<<<a>>>>[1][1] = a
    OBVIOUS
  <2> QED
    BY <1>4, <2>1 DEF Done, Chip!OutputBuffer
<1>6. state' = [state EXCEPT ![cur] = {Awaited}]
  BY <1>5 DEF Sent, Chip!UpdateEnd
<1>7. absorbed' = [absorbed EXCEPT ![cur] = absorbed[cur] \o Chunk] /\ hashed' = hashed
  BY DEF Sent, FillAndSend, Backend!update, Chunk
<1>8. absorbed \in [Sessions -> Seq(Nat)]
  BY DEF IndInv, TypeOK
<1>9. StatesInv'
  <2> DEFINE m == absorbed[cur] \o Chunk
  <2>1. m # << >> /\ state' = [state EXCEPT ![cur] = {After(m)}]
        /\ absorbed' = [absorbed EXCEPT ![cur] = m]
    BY <1>2, <1>6, <1>7 DEF Awaited
  <2> HIDE DEF m
  <2> QED
    BY <1>2, <1>8, <2>1 DEF ChipInv, StatesInv
<1>10. TargetsInv'
  BY <1>7 DEF Sent, ChipInv, TargetsInv
<1>11. /\ DOMAIN dma' = {"status", "stream", "sizes", "filled", "final"}
       /\ dma'.status = {}
  <2>1. dma' = [dma EXCEPT !.filled = << >>]
    BY DEF Sent, Chip!UpdateEnd
  <2>2. DOMAIN dma = {"status", "stream", "sizes", "filled", "final"}
    BY DEF ChipInv, DmaInv
  <2> QED
    BY <1>4, <2>1, <2>2 DEF Done
<1>12. ~sending' /\ sending' \in BOOLEAN
  BY Zenon DEF Sent
<1> QED
  BY <1>9, <1>10, <1>11, <1>12 DEF ChipInv, DmaInv

\* finalize hands out the state: with the padding sent, it has absorbed at
\* least a block, and unwrap does not panic.
LEMMA ReturnedKeepsChip ==
  ASSUME IndInv, ChipInv, Returned
  PROVE  ChipInv'
<1>1. pc = "finalize" /\ UNCHANGED <<state, dma, sending>>
  BY DEF Returned, FinalizeBackend
<1>2. ~sending
  BY <1>1 DEF ChipInv, DmaInv
<1>3. /\ cur \in Sessions /\ absorbed[cur] \in Seq(Nat) /\ fed[cur] \in Seq(Nat)
      /\ SubSeq(buffer[cur], 1, written_in_buffer) \in Seq(Nat)
      /\ Len(SubSeq(buffer[cur], 1, written_in_buffer)) = written_in_buffer
  BY <1>1, CallFacts
<1>4. SubSeq(buffer[cur], 1, written_in_buffer) = << >>
  <2>1. written_in_buffer = 0
    BY <1>1, NrfAssumption DEF IndInv, CallState
  <2> QED
    BY <1>3, <2>1, EmptySeq
<1>5. absorbed[cur] \o << >> = absorbed[cur]
  BY <1>3, ConcatEmptySeq
<1>6. absorbed[cur] = Digest(fed[cur])
  BY <1>1, <1>4, <1>5, FinalInput, NrfAssumption DEF FullInput
<1>7. absorbed[cur] # << >>
  <2>1. Digest(fed[cur]) = fed[cur] \o sha256_padding(Len(fed[cur]))
    BY <1>3, LenProperties, PaddingIsFips DEF Digest
  <2>2. /\ sha256_padding(Len(fed[cur])) \in Seq(Nat)
        /\ Len(fed[cur]) + Len(sha256_padding(Len(fed[cur]))) >= SHA2SHORT_BLOCK_SIZE
    BY <1>3, LenProperties, PaddingFillsBlock
  <2>3. Len(absorbed[cur]) >= SHA2SHORT_BLOCK_SIZE
    <3> DEFINE p == sha256_padding(Len(fed[cur]))
    <3>1. p \in Seq(Nat) /\ absorbed[cur] = fed[cur] \o p
      BY <1>6, <2>1, <2>2
    <3> HIDE DEF p
    <3>2. Len(absorbed[cur]) = Len(fed[cur]) + Len(p)
      BY <1>3, <3>1, ConcatProperties
    <3> QED
      BY <2>2, <3>2 DEF p
  <2>4. Len(absorbed[cur]) # 0
    BY <2>3, SizesAssumption
  <2> QED
    BY <2>4
<1>8. hashed' = [hashed EXCEPT ![cur] = {absorbed[cur]}] /\ absorbed' = absorbed
  BY <1>4, <1>5 DEF Returned, FinalizeBackend, Backend!finalize
<1>9. target' = [target EXCEPT ![cur] = {After(absorbed[cur])}]
  BY <1>3, <1>7 DEF Returned, Chip!finalize, ChipInv, StatesInv
<1>10. hashed \in [Sessions -> SUBSET Seq(Nat)]
  BY DEF IndInv, TypeOK
<1>11. TargetsInv'
  <2> DEFINE m == absorbed[cur]
  <2>1. hashed' = [hashed EXCEPT ![cur] = {m}] /\ target' = [target EXCEPT ![cur] = {After(m)}]
    BY <1>8, <1>9
  <2> HIDE DEF m
  <2> QED
    BY <1>3, <1>10, <2>1 DEF ChipInv, TargetsInv
<1>12. StatesInv'
  BY <1>1, <1>8 DEF ChipInv, StatesInv
<1> QED
  BY <1>1, <1>2, <1>11, <1>12, AtRest DEF ChipInv

\* Every step keeps the invariant.
LEMMA ChipStepInv ==
  ASSUME IndInv, ChipInv, [NrfNext]_nrfVars
  PROVE  ChipInv'
<1>1. CASE UNCHANGED nrfVars
  <2>1. UNCHANGED <<vars, chipVars>>
    BY <1>1 DEF nrfVars
  <2>2. UNCHANGED <<pc, cur, data, written, written_in_buffer, buffer, absorbed, hashed>>
        /\ UNCHANGED <<state, dma, target>>
    BY <2>1 DEF vars, stateVars, backendVars, callVars, chipVars
  <2>3. Awaited' = Awaited /\ FillBytes' = FillBytes
    BY <2>2 DEF Awaited, Chunk, FillBytes, Filled
  <2>4. sending' = sending /\ sending \in BOOLEAN
    <3>1. sending' = sending
      BY <2>1 DEF chipVars
    <3>2. sending \in BOOLEAN
      BY Zenon DEF ChipInv, DmaInv
    <3> QED
      BY <3>1, <3>2
  <2>5. CASE ~sending
    BY <2>1, <2>2, <2>5, ChipUntouched
  <2>6. CASE sending
    <3>1. sending' /\ sending' \in BOOLEAN
      BY <2>4, <2>6
    <3>2. (Working \/ Done)'
      BY <2>2, <2>3, <2>6 DEF ChipInv, DmaInv, Working, Done
    <3>3. DmaInv'
      BY <2>2, <2>3, <2>6, <3>1, <3>2 DEF ChipInv, DmaInv
    <3> QED
      BY <2>2, <3>3 DEF ChipInv, StatesInv, TargetsInv
  <2> QED
    BY <2>5, <2>6
<1>2. CASE \E s \in Sessions :
             /\ HashInit(s)
             /\ Chip!init(s)
             /\ target' = [target EXCEPT ![s] = {}]
             /\ UNCHANGED <<dma, sending>>
  BY <1>2, InitKeepsChip
<1>3. CASE \E s, t \in Sessions :
             /\ Clone(s, t)
             /\ Chip!clone(s, t)
             /\ target' = [target EXCEPT ![t] = {}]
             /\ UNCHANGED <<dma, sending>>
  BY <1>3, CloneKeepsChip
<1>4. CASE /\ UNCHANGED chipVars
           /\ \/ \E s \in Sessions : \/ \E d \in Payloads : Update(s, d)
                                     \/ Finalize(s)
                                     \/ Drop(s)
              \/ FillAndReturn
  BY <1>4, ExtenderKeepsChip
<1>5. CASE Send \/ Sent \/ Returned \/ Hardware
  BY <1>5, SendKeepsChip, SentKeepsChip, ReturnedKeepsChip, HardwareKeepsChip
<1> QED
  BY <1>1, <1>2, <1>3, <1>4, <1>5, Zenon DEF NrfNext, NrfCallStep

-----------------------------------------------------------------------------
(* Theorems *)

\* The inductive invariant of the chip: every state holds what SHA-256 made of
\* the bytes it absorbed, and the DMA is busy for the polling call or at rest.
THEOREM ChipInvariant == NrfSpec => [](IndInv /\ ChipInv)
<1>1. NrfSpec => []IndInv
  BY ChipRunsExtender, Inductive, PTL
<1>2. NrfInit => ChipInv
  BY ChipInitInv
<1>3. IndInv /\ ChipInv /\ [NrfNext]_nrfVars => ChipInv'
  BY ChipStepInv
<1> QED
  BY <1>1, <1>2, <1>3, PTL DEF NrfSpec

\* The digests that callers have seen of the chip.
ChipOut ==
  [s \in Sessions |-> {IF v.iv = "sha256" THEN v.bytes ELSE << >> : v \in target[s]}]

\* They are the ones the Extender promised.
LEMMA ChipOutIsPromised ==
  ASSUME TargetsInv, hashed \in [Sessions -> SUBSET Seq(Nat)]
  PROVE  ChipOut = Digests
<1>1. \A m : After(m).iv = "sha256" /\ After(m).bytes = m
  BY DEF After, Chip!Compressed
<1>2. ASSUME NEW s \in Sessions
      PROVE  {IF v.iv = "sha256" THEN v.bytes ELSE << >> : v \in target[s]}
               = {FullInput(m) : m \in hashed[s]}
  <2>1. target[s] = {After(m) : m \in hashed[s]}
    BY <1>2 DEF TargetsInv
  <2>2. \A m : FullInput(m) = m
    BY NrfAssumption DEF FullInput
  <2> HIDE DEF After, FullInput
  <2> QED
    BY <1>1, <2>1, <2>2
<1> QED
  BY <1>2 DEF ChipOut, Digests

\* A step that keeps the promise for the Extender keeps it for the chip.
LEMMA ChipStepSimulates ==
  ASSUME ChipOut = Digests, (ChipOut = Digests)',
         [Promise!SpecNext]_(Promise!specVars)
  PROVE  [ChipDigests!SpecNext]_(ChipDigests!specVars)
<1>0. ChipOut' = Digests'
  OBVIOUS
<1>1. ASSUME NEW s \in Sessions, Promise!Start(s) PROVE ChipDigests!Start(s)
  <2>1. Digests' = [Digests EXCEPT ![s] = {}]
    BY <1>1 DEF Promise!Start, Digests
  <2>2. ChipOut' = [ChipOut EXCEPT ![s] = {}]
    BY <1>0, <2>1
  <2> QED
    BY <1>1, <2>2 DEF Promise!Start, ChipDigests!Start, ChipOut
<1>2. ASSUME NEW s \in Sessions, NEW d \in Payloads, Promise!Feed(s, d)
      PROVE  ChipDigests!Feed(s, d)
  <2>1. Digests' = Digests
    BY <1>2 DEF Promise!Feed, Digests
  <2>2. ChipOut' = ChipOut
    BY <1>0, <2>1
  <2> QED
    BY <1>2, <2>2 DEF Promise!Feed, ChipDigests!Feed, ChipOut
<1>3. ASSUME NEW s \in Sessions, Promise!Finish(s) PROVE ChipDigests!Finish(s)
  <2>1. ChipDigests!Digest(fed[s]) = Promise!Digest(fed[s])
    BY DEF Promise!Digest, ChipDigests!Digest, Promise!Padding, ChipDigests!Padding,
           Promise!ZeroBytes, ChipDigests!ZeroBytes,
           Promise!LengthField, ChipDigests!LengthField
  <2>2. Digests' = [Digests EXCEPT ![s] = {Promise!Digest(fed[s])}]
    BY <1>3 DEF Promise!Finish, Digests
  <2>3. ChipOut' = [ChipOut EXCEPT ![s] = {ChipDigests!Digest(fed[s])}]
    BY <1>0, <2>1, <2>2
  <2> QED
    BY <1>3, <2>3 DEF Promise!Finish, ChipDigests!Finish, ChipOut
<1>4. ASSUME NEW s \in Sessions, NEW t \in Sessions, Promise!Copy(s, t)
      PROVE  ChipDigests!Copy(s, t)
  <2>1. Digests' = [Digests EXCEPT ![t] = {}]
    BY <1>4 DEF Promise!Copy, Digests
  <2>2. ChipOut' = [ChipOut EXCEPT ![t] = {}]
    BY <1>0, <2>1
  <2> QED
    BY <1>4, <2>2 DEF Promise!Copy, ChipDigests!Copy, ChipOut
<1>5. ASSUME NEW s \in Sessions, Promise!Abandon(s) PROVE ChipDigests!Abandon(s)
  <2>1. Digests' = Digests
    BY <1>5 DEF Promise!Abandon, Digests
  <2>2. ChipOut' = ChipOut
    BY <1>0, <2>1
  <2> QED
    BY <1>5, <2>2 DEF Promise!Abandon, ChipDigests!Abandon, ChipOut
<1>6. ASSUME UNCHANGED Promise!specVars PROVE UNCHANGED ChipDigests!specVars
  <2>1. Digests' = Digests /\ live' = live /\ fed' = fed
    BY <1>6 DEF Promise!specVars, Digests
  <2>2. ChipOut' = ChipOut
    BY <1>0, <2>1
  <2> QED
    BY <2>1, <2>2 DEF ChipDigests!specVars, ChipOut
<1>7. CASE Promise!SpecNext
  <2>1. ChipDigests!SpecNext
    BY <1>1, <1>2, <1>3, <1>4, <1>5, <1>7, Zenon DEF Promise!SpecNext, ChipDigests!SpecNext
  <2> QED
    BY <2>1
<1>8. CASE UNCHANGED Promise!specVars
  <2>1. UNCHANGED ChipDigests!specVars
    BY <1>6, <1>8
  <2> QED
    BY <2>1
<1> QED
  BY <1>7, <1>8

\* The HashProvider promise down to the chip: the bytes finalize copies from a
\* state are the digest of exactly what that state was fed, for any number of
\* states, any messages and any timing of the DMA.
THEOREM ChipKeepsPromise == NrfFairSpec => ChipPromise
<1>1. NrfFairSpec => NrfSpec
  BY PTL DEF NrfFairSpec
<1>2. NrfInit => ChipDigests!SpecInit
  <2> SUFFICES ASSUME NrfInit PROVE ChipDigests!SpecInit
    OBVIOUS
  <2>1. live = {} /\ fed = [s \in Sessions |-> << >>] /\ target = [s \in Sessions |-> {}]
    BY DEF NrfInit, Init
  <2>2. ChipOut = [s \in Sessions |-> {}]
    BY <2>1 DEF ChipOut
  <2> QED
    BY <2>1, <2>2 DEF ChipDigests!SpecInit, ChipOut
<1>3. IndInv /\ ChipInv => ChipOut = Digests
  BY ChipOutIsPromised DEF IndInv, TypeOK, ChipInv
<1>4. NrfSpec => [](ChipOut = Digests)
  BY <1>3, ChipInvariant, PTL
<1>5. NrfSpec => [][Promise!SpecNext]_(Promise!specVars)
  BY ChipRunsExtender, KeepsPromise, PTL DEF HashPromise, Promise!Spec
<1>6. (ChipOut = Digests) /\ (ChipOut = Digests)' /\ [Promise!SpecNext]_(Promise!specVars)
        => [ChipDigests!SpecNext]_(ChipDigests!specVars)
  BY ChipStepSimulates
<1> QED
  BY <1>1, <1>2, <1>4, <1>5, <1>6, PTL DEF NrfSpec, ChipPromise, ChipDigests!Spec
=============================================================================
