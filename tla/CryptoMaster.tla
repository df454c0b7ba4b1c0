---------------------------- MODULE CryptoMaster ----------------------------
(***************************************************************************)
(* The CryptoMaster of the nRF54L15 and its descriptor chains              *)
(* (descriptor.rs, execute_cryptomaster_dma in lib.rs): a driver pushes    *)
(* descriptors to an input and an output chain, the chains are linked just *)
(* before use, and the driver polls the status while the DMA follows the   *)
(* links, feeds the engine and fills the output buffers.  That it finds    *)
(* the jobs of a chain is proved here, for the drivers that use it.        *)
(***************************************************************************)
EXTENDS Integers, Sequences, SequenceTheorems, NaturalsInduction, WellFoundedInduction,
        TLAPS

CONSTANT MAX_DESCRIPTOR_CHAIN_LEN  \* 6

VARIABLE dma  \* status bits, the bytes the engine has not delivered yet, the
              \* sizes of the output buffers not yet filled, the filled ones,
              \* and whether the engine was told to finalize, by chains that
              \* have an end

-----------------------------------------------------------------------------
(* Descriptor chains.  Descriptor i is at address i + 1; 1 ends a chain.   *)

NULL == 0
LAST_DESC_PTR == 1
Address(i) == i + 1

\* `last' is bit 5 of the dmatag, DMATAG_LAST.
Descriptor(job, last) == [job |-> job, next |-> NULL, last |-> last]

update_links_ForgetsEnd(descs) ==
  [i \in DOMAIN descs |->
     [descs[i] EXCEPT !.next = IF i = Len(descs) THEN @ ELSE Address(i + 1),
                      !.last = @ \/ i = Len(descs)]]

\* `next' of each descriptor, DMATAG_LAST on the final one.
update_links(descs) ==
  [i \in DOMAIN descs |->
     [descs[i] EXCEPT !.next = IF i = Len(descs) THEN LAST_DESC_PTR ELSE Address(i + 1),
                      !.last = @ \/ i = Len(descs)]]

\* DescriptorChain::new, then push for each job; push panics on a full chain.
\* tagged: the jobs that are pushed with DMATAG_LAST in their tag.
DescriptorChain(jobs, tagged) ==
  [i \in 1 .. Len(jobs) |-> Descriptor(jobs[i], i \in tagged)]

PushPanics(jobs) == Len(jobs) > MAX_DESCRIPTOR_CHAIN_LEN

\* What the DMA finds from first() on: the jobs, and if one says it is the last
\* and the chain has an end.  There is no descriptor at NULL.
Followed(jobs, tagged) ==
  LET descs == update_links(DescriptorChain(jobs, tagged))
      from[a \in NULL .. Address(Len(jobs))] ==
        IF a <= LAST_DESC_PTR THEN << >>
        ELSE <<descs[a - 1]>> \o from[descs[a - 1].next]
      found == from[Address(1)]
  IN  [jobs |-> [i \in 1 .. Len(found) |-> found[i].job],
       final |-> /\ \E i \in 1 .. Len(found) : found[i].last
                 /\ found[Len(found)].next = LAST_DESC_PTR]

-----------------------------------------------------------------------------
(* execute_cryptomaster_dma *)

DmaInit ==
  dma = [status |-> {}, stream |-> << >>, sizes |-> << >>, filled |-> << >>,
         final |-> FALSE]

\* `stream' is what the engine delivers for the input jobs found.
StartDma(in, out, stream) ==
  dma' = [status |-> {"fetchbusy", "pushbusy"}, stream |-> stream,
          sizes |-> out.jobs, filled |-> << >>, final |-> in.final /\ out.final]

Polled_ForgetsFifo == {"fetchbusy", "pushbusy"}

Polled == {"fetchbusy", "pushbusy", "pushwaitingfifo"}

PollingEnds == dma.status \cap Polled = {}

\* Output buffer n; its initial zeros if the DMA has not filled it.
OutputBuffer(n, zeros) == IF n <= Len(dma.filled) THEN dma.filled[n] ELSE zeros

-----------------------------------------------------------------------------
(* The DMA (external) *)

Fetch ==
  /\ "fetchbusy" \in dma.status
  /\ dma' = [dma EXCEPT !.status = @ \ {"fetchbusy"}]

\* The pusher has nothing to write yet.
PushWait ==
  /\ "pushbusy" \in dma.status
  /\ dma' = [dma EXCEPT !.status = (@ \ {"pushbusy"}) \cup {"pushwaitingfifo"}]

\* It fills the next output buffer; the last one needs all of the input and an
\* engine that was told to finalize.
Push ==
  LET n == Head(dma.sizes)
      last == Len(dma.sizes) = 1
  IN  /\ dma.status \cap {"pushbusy", "pushwaitingfifo"} # {}
      /\ last => "fetchbusy" \notin dma.status /\ dma.final
      /\ dma' = [dma EXCEPT
                   !.status = (@ \ {"pushbusy", "pushwaitingfifo"})
                                \cup (IF last THEN {} ELSE {"pushbusy"}),
                   !.stream = SubSeq(@, n + 1, Len(@)),
                   !.sizes = Tail(@),
                   !.filled = Append(@, SubSeq(dma.stream, 1, n))]

Dma == Fetch \/ PushWait \/ Push

-----------------------------------------------------------------------------
(* What the DMA finds in a chain, for chains of any length *)

\* Every set of numbers has a least one.
LEMMA LeastNumber ==
  ASSUME NEW N, N \subseteq Nat, N # {}
  PROVE  \E m \in N : \A k \in N : m <= k
<1> DEFINE R == OpToRel(<, Nat)
<1>1. \A x \in Nat, y \in Nat : y < x => <<y, x>> \in R
  BY DEF OpToRel
<1>2. IsWellFoundedOn(R, Nat)
  BY NatLessThanWellFounded, Zenon
<1> HIDE DEF R
<1>3. PICK m \in N : \A y \in N : ~(<<y, m>> \in R)
  BY <1>2, WFMin
<1>4. ASSUME NEW k \in N PROVE m <= k
  <2>1. m \in Nat /\ k \in Nat
    OBVIOUS
  <2>2. ~(k < m)
    BY <1>1, <1>3, <2>1
  <2> QED
    BY <2>1, <2>2
<1> QED
  BY <1>4

\* The linked chain of a sequence of jobs.
Linked(jobs, tagged) == update_links(DescriptorChain(jobs, tagged))

\* F maps an address to what the DMA finds from there on.
Follows(F, jobs, tagged) ==
  F = [a \in 0 .. Len(jobs) + 1 |->
         IF a <= 1 THEN << >>
         ELSE <<Linked(jobs, tagged)[a - 1]>> \o F[Linked(jobs, tagged)[a - 1].next]]

\* update_links makes each descriptor point to the next one and the last one
\* end the chain.
LEMMA LinkedFacts ==
  ASSUME NEW S, NEW jobs \in Seq(S), NEW tagged
  PROVE  /\ \E D : Linked(jobs, tagged) \in Seq(D)
         /\ Len(Linked(jobs, tagged)) = Len(jobs)
         /\ \A i \in 1 .. Len(jobs) : Linked(jobs, tagged)[i].job = jobs[i]
         /\ \A i \in 1 .. Len(jobs) :
              Linked(jobs, tagged)[i].next = IF i = Len(jobs) THEN 1 ELSE i + 2
         /\ \A i \in 1 .. Len(jobs) : i = Len(jobs) => Linked(jobs, tagged)[i].last = TRUE
<1> DEFINE n == Len(jobs)
           chain == DescriptorChain(jobs, tagged)
           L == Linked(jobs, tagged)
<1>1. n \in Nat
  BY LenProperties
<1>2. /\ chain = [i \in 1 .. n |-> [job |-> jobs[i], next |-> 0, last |-> i \in tagged]]
      /\ DOMAIN chain = 1 .. n
  BY DEF DescriptorChain, Descriptor, NULL
<1>3. chain \in Seq({chain[i] : i \in 1 .. n}) /\ Len(chain) = n
  <2>1. chain \in [1 .. n -> {chain[i] : i \in 1 .. n}]
    BY <1>2
  <2> HIDE DEF chain, n
  <2>2. chain \in Seq({chain[i] : i \in 1 .. n})
    BY <1>1, <2>1, SeqDef
  <2> QED
    BY <1>1, <2>1, <2>2, LenProperties
<1>4. \A i \in 1 .. n : chain[i] = [job |-> jobs[i], next |-> 0, last |-> i \in tagged]
  BY <1>2
<1> HIDE DEF chain
<1>5. L = [i \in 1 .. n |->
             [chain[i] EXCEPT !.next = IF i = n THEN 1 ELSE (i + 1) + 1,
                             !.last = @ \/ i = n]]
  BY <1>2, <1>3 DEF Linked, update_links, LAST_DESC_PTR, Address, chain
<1> HIDE DEF L, n
<1>6. L \in Seq({L[i] : i \in 1 .. n}) /\ Len(L) = n
  <2>1. L \in [1 .. n -> {L[i] : i \in 1 .. n}]
    BY <1>5
  <2>2. L \in Seq({L[i] : i \in 1 .. n})
    BY <1>1, <2>1, SeqDef
  <2> QED
    BY <1>1, <2>1, <2>2, LenProperties
<1>7. ASSUME NEW i \in 1 .. n
      PROVE  /\ L[i].job = jobs[i]
             /\ L[i].next = IF i = n THEN 1 ELSE i + 2
             /\ i = n => L[i].last = TRUE
  <2> DEFINE d == chain[i]
             nx == IF i = n THEN 1 ELSE (i + 1) + 1
             la == d.last \/ i = n
  <2>1. d = [job |-> jobs[i], next |-> 0, last |-> i \in tagged]
    BY <1>4
  <2>2. L[i] = [d EXCEPT !.next = nx, !.last = la]
    BY <1>5
  <2>3. nx = IF i = n THEN 1 ELSE i + 2
    BY <1>1
  <2> HIDE DEF d, nx
  <2>4. L[i].job = jobs[i] /\ L[i].next = nx
    BY <2>1, <2>2
  <2>5. L[i].last = la
    BY <2>1, <2>2
  <2>6. la => la = TRUE
    BY Zenon
  <2> QED
    BY <2>3, <2>4, <2>5, <2>6 DEF la
<1> QED
  BY <1>6, <1>7 DEF L, n

\* From the address of descriptor k on, the DMA finds descriptors k and later.
LEMMA ChainFollowed ==
  ASSUME NEW S, NEW jobs \in Seq(S), NEW tagged, NEW F, Follows(F, jobs, tagged)
  PROVE  \A k \in 1 .. Len(jobs) : F[k + 1] = SubSeq(Linked(jobs, tagged), k, Len(jobs))
<1> DEFINE n == Len(jobs)
           L == Linked(jobs, tagged)
           Wrong == {j \in Nat : j < n /\ F[(n - j) + 1] # SubSeq(L, n - j, n)}
<1>0. n \in Nat
  BY LenProperties
<1>a. PICK D : L \in Seq(D)
  BY LinkedFacts
<1>1. Len(L) = n /\ \A i \in 1 .. n : L[i].next = IF i = n THEN 1 ELSE i + 2
  BY LinkedFacts
<1>2. /\ F[1] = << >>
      /\ \A k \in 1 .. n : F[k + 1] = <<L[k]>> \o F[L[k].next]
  <2>1. F[1] = << >>
    BY <1>0 DEF Follows
  <2>2. ASSUME NEW k \in 1 .. n PROVE F[k + 1] = <<L[k]>> \o F[L[k].next]
    <3>1. k + 1 \in 0 .. n + 1 /\ ~(k + 1 <= 1) /\ (k + 1) - 1 = k
      BY <1>0
    <3>2. F[k + 1] = IF k + 1 <= 1 THEN << >>
                     ELSE <<L[(k + 1) - 1]>> \o F[L[(k + 1) - 1].next]
      BY <3>1 DEF Follows
    <3> QED
      BY <3>1, <3>2
  <2> QED
    BY <2>1, <2>2
<1> HIDE DEF n, L
<1>3. ASSUME Wrong # {} PROVE FALSE
  <2>1. PICK j \in Wrong : \A i \in Wrong : j <= i
    BY <1>3, LeastNumber
  <2> DEFINE k == n - j
  <2>a. j \in Nat /\ j < n /\ k \in 1 .. n
    BY <1>0, <2>1
  <2>2. F[k + 1] # SubSeq(L, k, n)
    BY <2>1
  <2>3. F[k + 1] = <<L[k]>> \o F[L[k].next]
    BY <1>2, <2>a
  <2>4. SubSeq(L, k, n) = <<L[k]>> \o SubSeq(L, k + 1, n)
    BY <1>0, <1>1, <1>a, <2>a, SubSeqRecursiveFirst
  <2>5. CASE j = 0
    <3>1. k = n /\ L[k].next = 1
      BY <1>0, <1>1, <2>a, <2>5
    <3>2. SubSeq(L, k + 1, n) = << >>
      BY <1>0, <3>1, SubSeqEmpty
    <3> QED
      BY <1>2, <2>2, <2>3, <2>4, <3>1, <3>2
  <2>6. CASE j # 0
    <3>1. j - 1 \in Nat /\ j - 1 < n /\ ~(j <= j - 1)
      <4> HIDE DEF Wrong, k
      <4> QED
        BY <1>0, <2>6, <2>a
    <3>2. j - 1 \notin Wrong
      BY <2>1, <3>1
    <3>3. n - (j - 1) = k + 1 /\ (n - (j - 1)) + 1 = k + 2
      BY <1>0, <2>a
    <3>4. F[k + 2] = SubSeq(L, k + 1, n)
      BY <3>1, <3>2, <3>3
    <3>5. L[k].next = k + 2
      <4>1. k # n
        BY <1>0, <2>a, <2>6
      <4> QED
        BY <1>1, <2>a, <4>1
    <3> QED
      BY <2>2, <2>3, <2>4, <3>4, <3>5
  <2> QED
    BY <2>5, <2>6
<1>4. ASSUME NEW k \in 1 .. n PROVE F[k + 1] = SubSeq(L, k, n)
  <2>1. n - k \in Nat /\ n - k < n /\ n - (n - k) = k
    BY <1>0
  <2>2. n - k \notin Wrong
    BY <1>3
  <2> QED
    BY <2>1, <2>2
<1> QED
  BY <1>4 DEF n, L

\* Some function follows a chain: the definition of Followed is met.
LEMMA FollowsExists ==
  ASSUME NEW S, NEW jobs \in Seq(S), NEW tagged
  PROVE  \E F : Follows(F, jobs, tagged)
<1> DEFINE n == Len(jobs)
           L == Linked(jobs, tagged)
           F == [a \in 0 .. n + 1 |-> IF a <= 1 THEN << >> ELSE SubSeq(L, a - 1, n)]
<1>0. n \in Nat
  BY LenProperties
<1>a. PICK D : L \in Seq(D)
  BY LinkedFacts
<1>1. Len(L) = n /\ \A i \in 1 .. n : L[i].next = IF i = n THEN 1 ELSE i + 2
  BY LinkedFacts
<1> HIDE DEF n, L
<1>2. ASSUME NEW a \in 0 .. n + 1
      PROVE  F[a] = IF a <= 1 THEN << >> ELSE <<L[a - 1]>> \o F[L[a - 1].next]
  <2>1. CASE a <= 1
    BY <1>0, <2>1
  <2>2. CASE ~(a <= 1)
    <3> DEFINE k == a - 1
    <3>1. k \in 1 .. n /\ F[a] = SubSeq(L, k, n)
      BY <1>0, <2>2
    <3>2. SubSeq(L, k, n) = <<L[k]>> \o SubSeq(L, k + 1, n)
      BY <1>0, <1>1, <1>a, <3>1, SubSeqRecursiveFirst
    <3>3. F[L[k].next] = SubSeq(L, k + 1, n)
      <4>1. CASE k = n
        <5>1. L[k].next = 1 /\ F[1] = << >>
          BY <1>0, <1>1, <3>1, <4>1
        <5>2. SubSeq(L, k + 1, n) = << >>
          BY <1>0, <4>1, SubSeqEmpty
        <5> QED
          BY <5>1, <5>2
      <4>2. CASE k # n
        <5>1. L[k].next = k + 2
          BY <1>1, <3>1, <4>2
        <5>2. k + 2 \in 0 .. n + 1 /\ ~(k + 2 <= 1) /\ (k + 2) - 1 = k + 1
          BY <1>0, <3>1, <4>2
        <5>3. F[k + 2] = SubSeq(L, k + 1, n)
          BY <5>2
        <5> QED
          BY <5>1, <5>3
      <4> QED
        BY <4>1, <4>2
    <3> HIDE DEF F, k
    <3>4. F[a] = <<L[k]>> \o F[L[k].next]
      BY <3>1, <3>2, <3>3
    <3> QED
      BY <2>2, <3>4 DEF k
  <2> QED
    BY <2>1, <2>2
<1>3. F = [a \in 0 .. n + 1 |-> F[a]]
  OBVIOUS
<1> HIDE DEF F
<1>4. Follows(F, jobs, tagged)
  BY <1>2, <1>3 DEF Follows, n, L
<1> QED
  BY <1>4

\* The DMA finds the jobs that were pushed, in their order and no others, and
\* is told at the last one that it is the last, however many of the others were
\* tagged so when they were pushed: for chains of any length.
THEOREM DmaFindsTheJobs ==
  ASSUME NEW S, NEW jobs \in Seq(S), NEW tagged, jobs # << >>
  PROVE  Followed(jobs, tagged) = [jobs |-> jobs, final |-> TRUE]
<1> DEFINE n == Len(jobs)
           L == Linked(jobs, tagged)
           F == CHOOSE G : Follows(G, jobs, tagged)
           found == F[2]
<1>0. n \in Nat /\ n >= 1
  BY EmptySeq, LenProperties
<1>1. Followed(jobs, tagged) =
        [jobs  |-> [i \in 1 .. Len(found) |-> found[i].job],
         final |-> /\ \E i \in 1 .. Len(found) : found[i].last
                   /\ found[Len(found)].next = 1]
  BY DEF Followed, Follows, Linked, NULL, LAST_DESC_PTR, Address
<1>2. Follows(F, jobs, tagged)
  BY FollowsExists
<1>3. PICK D : L \in Seq(D)
  BY LinkedFacts
<1>4. /\ Len(L) = n
      /\ \A i \in 1 .. n : L[i].job = jobs[i]
      /\ \A i \in 1 .. n : L[i].next = IF i = n THEN 1 ELSE i + 2
      /\ \A i \in 1 .. n : i = n => L[i].last = TRUE
  BY LinkedFacts
<1> HIDE DEF F
<1>5. found = SubSeq(L, 1, n)
  BY <1>0, <1>2, ChainFollowed
<1> HIDE DEF found, L
<1>6. found = L
  BY <1>4, <1>5, <1>3, SubSeqFull
<1>7. [i \in 1 .. Len(found) |-> found[i].job] = jobs
  <2>1. jobs \in [1 .. n -> S]
    BY LenProperties
  <2>2. jobs = [i \in 1 .. n |-> jobs[i]]
    BY <2>1
  <2> HIDE DEF n
  <2> QED
    BY <1>4, <1>6, <2>2
<1>8. ((\E i \in 1 .. Len(found) : found[i].last) /\ found[Len(found)].next = 1) = TRUE
  <2>1. n \in 1 .. Len(found) /\ found[n].last /\ found[Len(found)].next = 1
    BY <1>0, <1>4, <1>6
  <2> QED
    BY <2>1
<1> QED
  BY <1>1, <1>7, <1>8
=============================================================================
