-------------------------------- MODULE Hkdf --------------------------------
(***************************************************************************)
(* The blanket HkdfProvider of embedded-cal/src/hkdf.rs over any           *)
(* HmacProvider.  One iteration of the loop in hkdf_expand is one step.    *)
(*                                                                         *)
(* HMAC is ideal: equal outputs have equal inputs.  Within one call key    *)
(* and info are fixed, so T(i) is represented by the counters of the chain *)
(* of HMACs that led to it, and an output byte by key, info, chain and     *)
(* position in the HMAC output.                                            *)
(***************************************************************************)
EXTENDS Naturals, Sequences

CONSTANTS
  HashLen,        \* alg.len(), 32
  MaxBlocks,      \* 255
  COUNTER_VALUES, \* values of the counter's type u8, 256
  Salts,          \* salts callers pass
  Ikms,           \* input key materials callers pass
  Infos,          \* infos callers pass
  OkmLengths,     \* lengths of okm callers pass
  NoSalt,         \* salt = None
  ZeroSalt        \* HashLen zero bytes

ASSUME HkdfAssumption ==
  /\ HashLen \in Nat \ {0}
  /\ MaxBlocks \in Nat /\ COUNTER_VALUES \in Nat /\ MaxBlocks < COUNTER_VALUES
  /\ OkmLengths \subseteq Nat
  /\ NoSalt \notin Salts
  /\ ZeroSalt \notin Salts \cup Ikms   \* the names are distinct

VARIABLES
  pc,      \* "idle", "expand" (in the loop of hkdf_expand)
  prk,     \* the pseudorandom key: HMAC key and data of hkdf_extract
  info,    \* argument of hkdf_expand
  okm,     \* its output buffer
  t,       \* its local t: a chain of counters
  t_len,   \* its local of the same name
  pos,     \* its local of the same name
  result   \* of the last call: "none", "Ok" or "OutputTooLong"

vars == <<pc, prk, info, okm, t, t_len, pos, result>>

Init ==
  /\ pc = "idle"
  /\ prk = [key |-> ZeroSalt, data |-> ZeroSalt]
  /\ info \in Infos
  /\ okm = << >>
  /\ t = << >>
  /\ t_len = 0
  /\ pos = 0
  /\ result = "none"

Salt(salt) == IF salt = NoSalt THEN ZeroSalt ELSE salt

\* The value HMAC returns is represented by its key and its message.
HkdfExtract(salt, ikm) ==
  /\ pc = "idle"
  /\ prk' = [key |-> Salt(salt), data |-> ikm]
  /\ result' = "none"
  /\ UNCHANGED <<pc, info, okm, t, t_len, pos>>

TooLong(len) == len > MaxBlocks * HashLen

\* okm still holds what the caller left in it; t is a fresh buffer.
HkdfExpand(i, len) ==
  /\ pc = "idle"
  /\ info' = i
  /\ IF TooLong(len)
       THEN result' = "OutputTooLong" /\ UNCHANGED <<pc, okm, t, t_len, pos>>
       ELSE /\ pc' = "expand"
            /\ okm' = [p \in 1 .. len |-> << >>]
            /\ t' = << >>
            /\ t_len' = 0
            /\ pos' = 0
            /\ result' = "none"
  /\ UNCHANGED prk

\* counter: cast to u8.
Counter == ((pos \div HashLen) + 1) % COUNTER_VALUES

Chained_ForgetsPrevious == <<Counter>>

\* T(i) = HMAC-Hash(PRK, T(i-1) || info || i), without T(i-1) at first.
Chained == Append(IF t_len > 0 THEN t ELSE << >>, Counter)

Take_IgnoresEnd == HashLen

Take == IF Len(okm) - pos < HashLen THEN Len(okm) - pos ELSE HashLen

ExpandBlock ==
  /\ pc = "expand"
  /\ pos < Len(okm)
  /\ t' = Chained
  /\ t_len' = HashLen
  /\ okm' = [p \in 1 .. Len(okm) |->
               IF p \in pos + 1 .. pos + Take
                 THEN <<prk, info, t', p - pos>> ELSE okm[p]]
  /\ pos' = pos + Take
  /\ UNCHANGED <<pc, prk, info, result>>

ExpandReturn_StrictComparison ==
  /\ pc = "expand"
  /\ pos > Len(okm)
  /\ pc' = "idle"
  /\ result' = "Ok"
  /\ UNCHANGED <<prk, info, okm, t, t_len, pos>>

ExpandReturn ==
  /\ pc = "expand"
  /\ pos >= Len(okm)
  /\ pc' = "idle"
  /\ result' = "Ok"
  /\ UNCHANGED <<prk, info, okm, t, t_len, pos>>

Next ==
  \/ \E salt \in Salts \cup {NoSalt}, ikm \in Ikms : HkdfExtract(salt, ikm)
  \/ \E i \in Infos, len \in OkmLengths : HkdfExpand(i, len)
  \/ ExpandBlock
  \/ ExpandReturn

Spec == Init /\ [][Next]_vars

FairSpec == Spec /\ WF_vars(ExpandBlock \/ ExpandReturn)

-----------------------------------------------------------------------------
(* Properties *)

\* Byte p of the output key material as RFC 5869 defines it.
RfcByte(p) ==
  LET i == ((p - 1) \div HashLen) + 1
  IN  <<prk, info, [k \in 1 .. i |-> k], ((p - 1) % HashLen) + 1>>

(***************************************************************************)
(* The part of okm behind pos is, at every iteration, the prefix of        *)
(* T(1) || T(2) || ... that RFC 5869 asks for, and after Ok all of okm is: *)
(* the counter does not wrap, every block chains to the one before, the    *)
(* last block is cut.                                                      *)
(***************************************************************************)
OkmIsRfc ==
  /\ pc = "expand" => \A p \in 1 .. pos : okm[p] = RfcByte(p)
  /\ result = "Ok" => \A p \in 1 .. Len(okm) : okm[p] = RfcByte(p)

(***************************************************************************)
(* pos never passes the end of okm (the slice okm[pos..pos + take] would   *)
(* panic) and is at a block boundary whenever another block is computed.   *)
(***************************************************************************)
PosInBounds ==
  pc = "expand" =>
    /\ pos <= Len(okm)
    /\ pos < Len(okm) => pos % HashLen = 0

(***************************************************************************)
(* hkdf_expand returns for every length it accepts.                        *)
(***************************************************************************)
ExpandReturns == pc = "expand" ~> pc = "idle"
=============================================================================
