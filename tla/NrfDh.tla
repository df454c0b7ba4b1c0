-------------------------------- MODULE NrfDh -------------------------------
(***************************************************************************)
(* The DhProvider of the nRF54L15 (dh.rs, dh_plumbing.rs), the fixups of   *)
(* util/montgomery.rs and the CRACEN public key engine with its RAM of     *)
(* operand slots.  P-256 numbers sit at the end of a slot, those of X25519 *)
(* and X448 at its start; words that are zero are not in pke.ram.  What    *)
(* may fail with ImportError is a set, empty if it does.                   *)
(***************************************************************************)
EXTENDS P256

VARIABLE pke    \* [ram, command, pointers, busy]

SLOT_SIZE == 128
P256_SLOT_OFFSET == SLOT_SIZE - Size["P256"]

SLOT_SCALAR == 8
SLOT_POINT_X == 12
SLOT_POINT_Y == 13
SLOT_RESULT_X == 10
SLOT_RESULT_Y == 11
MG_SLOT_U == 6
MG_SLOT_K == 8
MG_SLOT_OUT == 10

slot_addr(slot) == slot * SLOT_SIZE + P256_SLOT_OFFSET
montgomery_slot_addr(slot) == slot * SLOT_SIZE

X448_PRIME_P == LeDigits(MontPrime["X448"], Size["X448"])
X448_COEFF_A == LeDigits(MontA["X448"], Size["X448"])

PkeInit ==
  pke = [ram |-> ZeroRam, busy |-> FALSE,
         command |-> [op |-> "none", size |-> 0, curve |-> "none", edwards |-> FALSE,
                      swapbytes |-> FALSE],
         pointers |-> [a |-> 0, b |-> 0, c |-> 0]]

-----------------------------------------------------------------------------
(* util/montgomery.rs, on the bits of a little-endian byte string *)

\* The bits at the places in `clear` become 0, those in `set` 1.
WithBits(k, clear, set) ==
  [i \in 1 .. Len(k) |-> IF i \in clear THEN 0 ELSE IF i \in set THEN 1 ELSE k[i]]

clamp_x25519(k) == WithBits(k, {1, 2, 3, Len(k)}, {Len(k) - 1})

clamp_x448(k) == WithBits(k, {1, 2}, {Len(k)})

mask_u_x25519_Identity(u) == u

mask_u_x25519(u) == WithBits(u, {Len(u)}, {})

-----------------------------------------------------------------------------
(* DhAlgorithm and keys *)

from_cose_ecdh(n) ==
  CASE n = 1 -> {"P256"} [] n = 4 -> {"X25519"} [] n = 5 -> {"X448"} [] OTHER -> {}

\* RFC 7748 scalars are clamped when they become a key.
Clamped(curve, scalar) ==
  CASE curve = "P256"   -> scalar
    [] curve = "X25519" -> clamp_x25519(scalar)
    [] curve = "X448"   -> clamp_x448(scalar)

\* One draw of the random number generator; empty if the loop goes on.
generate_visible(curve, random) ==
  LET w == bytes_to_words(random)
  IN  IF curve = "P256" /\ (w = 0 \/ ge(w, P256_ORDER)) THEN {}
      ELSE {Clamped(curve, random)}

import_secretkey_bytes(curve, secret) ==
  {Clamped(curve, s) : s \in {t \in {secret} : Len(t) = Size[curve]}}

\* The second coordinate of an RFC 7748 point.
Unused(curve) == [i \in 1 .. Size[curve] |-> 0]

import_publickey_bytes(curve, data) ==
  IF Len(data) # Size[curve] THEN {}
  ELSE CASE curve = "P256"   -> {[x |-> data, y |-> y] : y \in p256_recover_y[data]}
         [] curve = "X25519" -> {[x |-> mask_u_x25519(data), y |-> Unused(curve)]}
         [] curve = "X448"   -> {[x |-> data, y |-> Unused(curve)]}

BasePoint(curve) ==
  CASE curve = "P256"   -> [x |-> P256_GX_BYTES, y |-> P256_GY_BYTES]
    [] curve = "X25519" -> [x |-> LeDigits(MontBase[curve], 8), y |-> Unused(curve)]
    [] curve = "X448"   -> [x |-> LeDigits(MontBase[curve], 10), y |-> Unused(curve)]

-----------------------------------------------------------------------------
(* PKE RAM *)

write_pke_le(ram, addr, data) ==
  WriteWords(ram, [a \in addr .. addr + Len(data) - 1 |-> data[a - addr + 1]])

read_pke_le(addr, n) == [i \in 1 .. n |-> RamWord(pke.ram, addr + i - 1)]

ZeroWords(ram, addr, n) == write_pke_le(ram, addr, [i \in 1 .. n |-> 0])

-----------------------------------------------------------------------------
(* The driver: up to START (after wait_pk_ready), and from there on *)

P256Start(scalar, px, py) ==
  /\ ~pke.busy
  /\ pke' = [command |-> [op |-> "ECC_MULT", size |-> Size["P256"], curve |-> "P256",
                          edwards |-> FALSE, swapbytes |-> TRUE],
             ram |-> LET with_scalar == write_pke_le(pke.ram, slot_addr(SLOT_SCALAR), scalar)
                         with_x == write_pke_le(with_scalar, slot_addr(SLOT_POINT_X), px)
                     IN  write_pke_le(with_x, slot_addr(SLOT_POINT_Y), py),
             pointers |-> [a |-> SLOT_POINT_X, b |-> SLOT_SCALAR, c |-> SLOT_RESULT_X],
             busy |-> TRUE]

MontgomeryStart(curve, scalar, u_coord) ==
  LET with_prime == write_pke_le(pke.ram, montgomery_slot_addr(0), X448_PRIME_P)
      with_coeff == write_pke_le(with_prime, montgomery_slot_addr(1), X448_COEFF_A)
      with_params == IF curve = "X448" THEN with_coeff ELSE pke.ram
      with_u == write_pke_le(with_params, montgomery_slot_addr(MG_SLOT_U), u_coord)
  IN
  /\ ~pke.busy
  /\ pke' = [command |-> [op |-> "MONTGOMERY_PTMUL", size |-> Size[curve],
                          curve |-> IF curve = "X448" THEN "NOACCEL" ELSE "CURVE25519",
                          edwards |-> curve = "X448", swapbytes |-> FALSE],
             ram |-> write_pke_le(with_u, montgomery_slot_addr(MG_SLOT_K), scalar),
             pointers |-> [a |-> MG_SLOT_U, b |-> MG_SLOT_K, c |-> MG_SLOT_OUT],
             busy |-> TRUE]

\* NrfCurve::multiply_scalar_point
MultiplyStart(curve, k, point) ==
  IF curve = "P256" THEN P256Start(k, point.x, point.y)
                    ELSE MontgomeryStart(curve, k, point.x)

MultiplyResult(curve) ==
  IF curve = "P256"
    THEN [x |-> read_pke_le(slot_addr(SLOT_RESULT_X), Size[curve]),
          y |-> read_pke_le(slot_addr(SLOT_RESULT_Y), Size[curve])]
    ELSE [x |-> read_pke_le(montgomery_slot_addr(MG_SLOT_OUT), Size[curve]),
          y |-> Unused(curve)]

\* Zeroes the scalar.
PkeFinish_StartOfSlot(curve) ==
  /\ ~pke.busy
  /\ pke' = [pke EXCEPT !.ram =
       ZeroWords(@, montgomery_slot_addr(SLOT_SCALAR), Size[curve])]

PkeFinish(curve) ==
  /\ ~pke.busy
  /\ pke' = [pke EXCEPT !.ram =
       ZeroWords(@, IF curve = "P256" THEN slot_addr(SLOT_SCALAR)
                                      ELSE montgomery_slot_addr(MG_SLOT_K), Size[curve])]

-----------------------------------------------------------------------------
(* The engine (external) *)

\* Operands are as long as the command says, and swapped ones sit at the end.
OperandAddr(slot) ==
  slot * SLOT_SIZE + (IF pke.command.swapbytes THEN SLOT_SIZE - pke.command.size ELSE 0)

Operand(slot) ==
  LET s == read_pke_le(OperandAddr(slot), pke.command.size)
  IN  IF pke.command.swapbytes THEN BeValue(s) ELSE LeValue(s)

Output(ram, slot, v) ==
  write_pke_le(ram, OperandAddr(slot),
               IF pke.command.swapbytes THEN BeDigits(v, pke.command.size)
                                        ELSE LeDigits(v, pke.command.size))

PkePoint ==
  LET ptr == pke.pointers
  IN  EcMul[Operand(ptr.b), <<Operand(ptr.a), Operand(ptr.a + 1)>>]

\* Selects the curve by the command; a curve it does not know by the
\* parameters in slots 0 and 1, the result area keeping what it holds if they
\* make no sense.
PkeOutput ==
  LET ptr == pke.pointers
      cmd == pke.command
      prime == IF cmd.curve = "NOACCEL" THEN Operand(0) ELSE MontPrime["X25519"]
      a == IF cmd.curve = "NOACCEL" THEN Operand(1) ELSE MontA["X25519"]
      edwards == cmd.curve = "NOACCEL"
  IN
  CASE cmd.op = "ECC_MULT" ->
         Output(Output(pke.ram, ptr.c, PkePoint[1]), ptr.c + 1, PkePoint[2])
    [] cmd.op = "MONTGOMERY_PTMUL" /\ cmd.edwards = edwards /\ prime > 2 ->
         Output(pke.ram, ptr.c, Ladder(Operand(ptr.b), Operand(ptr.a), prime, a, cmd.size))
    [] OTHER -> pke.ram

PkeCompute ==
  /\ pke.busy
  /\ pke' = [pke EXCEPT !.busy = FALSE, !.ram = PkeOutput]
=============================================================================
