------------------------------ MODULE HashSpec ------------------------------
(***************************************************************************)
(* What a HashProvider promises (embedded-cal/src/hash.rs): every state    *)
(* hashes exactly the bytes it was fed, in order, however the feeding was  *)
(* cut into calls and whatever other states did in between.                *)
(***************************************************************************)
EXTENDS Fips180

CONSTANTS
  Sessions,   \* identities of the hash states a program holds
  Payloads,   \* the byte sequences a caller may pass to update
  MaxMessage  \* bound: longest message a state is fed

VARIABLES
  live,  \* the states that were initialised and not yet consumed
  fed,   \* fed[s]: the bytes passed to update since init
  out    \* out[s]: {d} once finalize returned the digest d, {} before

specVars == <<live, fed, out>>

-----------------------------------------------------------------------------

SpecInit ==
  /\ live = {}
  /\ fed = [s \in Sessions |-> << >>]
  /\ out = [s \in Sessions |-> {}]

Start(s) ==
  /\ s \notin live
  /\ live' = live \cup {s}
  /\ fed' = [fed EXCEPT ![s] = << >>]
  /\ out' = [out EXCEPT ![s] = {}]

Feed(s, d) ==
  /\ s \in live
  /\ Len(fed[s]) + Len(d) <= MaxMessage
  /\ fed' = [fed EXCEPT ![s] = @ \o d]
  /\ UNCHANGED <<live, out>>

Finish(s) ==
  /\ s \in live
  /\ live' = live \ {s}
  /\ out' = [out EXCEPT ![s] = {Digest(fed[s])}]
  /\ UNCHANGED fed

Copy(s, t) ==
  /\ s \in live
  /\ t \notin live
  /\ live' = live \cup {t}
  /\ fed' = [fed EXCEPT ![t] = fed[s]]
  /\ out' = [out EXCEPT ![t] = {}]

Abandon(s) ==
  /\ s \in live
  /\ live' = live \ {s}
  /\ UNCHANGED <<fed, out>>

SpecNext ==
  \/ \E s \in Sessions :
       \/ Start(s)
       \/ \E d \in Payloads : Feed(s, d)
       \/ Finish(s)
       \/ \E t \in Sessions : Copy(s, t)
       \/ Abandon(s)

Spec == SpecInit /\ [][SpecNext]_specVars
=============================================================================
