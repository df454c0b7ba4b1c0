------------------------------- MODULE DhSpec -------------------------------
(***************************************************************************)
(* What DhProvider promises (embedded-cal/src/dh.rs): a program makes one  *)
(* call after the other; keys are numbers of an algorithm, and a shared    *)
(* secret is what the curve's standard says.                               *)
(*                                                                         *)
(* An algorithm is [via, curve]: `via` tells an extender's own             *)
(* implementation from the one of its base, which are different            *)
(* algorithms.                                                             *)
(***************************************************************************)
EXTENDS Curves

CONSTANTS
  Parties,
  NoKey      \* where no key was made yet

VARIABLES
  busy, call, result,   \* the call in progress, the status of the last one
  secret,               \* each party's secret key: [alg, k]
  public,               \* each party's public key: [alg, u]
  peer,                 \* the public key imported last
  shared                \* each party's shared secret, a number

\* Between calls.
NoCall == [op |-> "none"]

vars == <<busy, call, result, secret, public, peer, shared>>

Init ==
  /\ busy = FALSE
  /\ call = NoCall
  /\ result = "Ok"
  /\ secret = [p \in Parties |-> NoKey]
  /\ public = [p \in Parties |-> NoKey]
  /\ peer = NoKey
  /\ shared = [p \in Parties |-> NoKey]

\* Any operation with any arguments.
Call ==
  /\ ~busy
  /\ busy' = TRUE
  /\ call'.op # "none"
  /\ UNCHANGED <<result, secret, public, peer, shared>>

\* A fresh secret key is in the range of the algorithm.
Generated ==
  /\ call.op = "generate"
  /\ result' = "Ok"
  /\ \E k \in 0 .. W^Size[call.alg.curve] - 1 :
       /\ ValidScalar(call.alg.curve, k)
       /\ secret' = [secret EXCEPT ![call.who] = [alg |-> call.alg, k |-> k]]
  /\ UNCHANGED <<public, peer, shared>>

\* Byte strings of the wrong length are refused.  A P-256 scalar out of range
\* may be refused or kept; anything else is a key.
SecretImported ==
  LET curve == call.alg.curve
      k == DecodeScalar(curve, Value(curve, call.bytes))
      fits == Len(call.bytes) = Size[curve]
  IN
  /\ call.op = "import_secretkey_bytes"
  /\ \/ /\ fits
        /\ result' = "Ok"
        /\ secret' = [secret EXCEPT ![call.who] = [alg |-> call.alg, k |-> k]]
     \/ /\ ~fits \/ ~ValidScalar(curve, k)
        /\ result' = "ImportError"
        /\ UNCHANGED secret
  /\ UNCHANGED <<public, peer, shared>>

\* Exactly the coordinates of points are public keys.
PublicImported ==
  LET curve == call.alg.curve
      u == DecodeU(curve, Value(curve, call.bytes))
  IN
  /\ call.op = "import_publickey_bytes"
  /\ IF Len(call.bytes) = Size[curve] /\ ValidU(curve, u)
       THEN result' = "Ok" /\ peer' = [alg |-> call.alg, u |-> u]
       ELSE result' = "ImportError" /\ UNCHANGED peer
  /\ UNCHANGED <<secret, public, shared>>

PublicComputed ==
  LET sk == secret[call.who] IN
  /\ call.op = "public_key"
  /\ result' = "Ok"
  /\ public' = [public EXCEPT ![call.who] =
                  [alg |-> sk.alg, u |-> PublicX(sk.alg.curve, sk.k)]]
  /\ UNCHANGED <<secret, peer, shared>>

\* The key the call names: the one imported last, or another party's.
Theirs == IF call.with = NoKey THEN peer ELSE public[call.with]

\* Errors are produced only if the keys are for different algorithms.
SharedComputed ==
  LET sk == secret[call.who] IN
  /\ call.op = "shared_secret"
  /\ IF sk.alg = Theirs.alg
       THEN /\ result' = "Ok"
            /\ shared' = [shared EXCEPT ![call.who] = SharedX(sk.alg.curve, sk.k, Theirs.u)]
       ELSE result' = "IncompatibleKeys" /\ UNCHANGED shared
  /\ UNCHANGED <<secret, public, peer>>

Return ==
  /\ busy
  /\ busy' = FALSE
  /\ call' = NoCall
  /\ \/ Generated
     \/ SecretImported
     \/ PublicImported
     \/ PublicComputed
     \/ SharedComputed

Next == Call \/ Return

Spec == Init /\ [][Next]_vars
=============================================================================
