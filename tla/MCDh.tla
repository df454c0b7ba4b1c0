-------------------------------- MODULE MCDh --------------------------------
(***************************************************************************)
(* Instances of DhProviders: the boards alone, the extenders alone and on  *)
(* a board; random and imported secrets at and between the limits; P-256   *)
(* coordinates of points and others, at the limits and such that the field *)
(* arithmetic needs each of its carries and subtractions.                  *)
(***************************************************************************)
EXTENDS DhProviders

MCPlatforms ==
  {[adapter |-> a, base |-> b] :
     a \in {"libcrux", "rustcrypto"}, b \in {"empty", "stm32wba55", "nrf54l15"}}
  \cup {[adapter |-> "none", base |-> b] : b \in {"stm32wba55", "nrf54l15"}}

MCStm32Only == {[adapter |-> "none", base |-> "stm32wba55"]}

MCParties == <<"Alice", "Bob">>

\* A curve of prime order over the field of P-256 at eight words of one bit,
\* curves over 2^7 - 1 and 2^10 - 2^5 - 1 for the other two.
MCG == Lift(CHOOSE x \in 1 .. P256_P - 1 : OnCurve(x))
MCMontPrime == [X25519 |-> 127, X448 |-> 991]
MCMontA == [X25519 |-> 38, X448 |-> 42]
MCMontBase == [X25519 |-> 9, X448 |-> 5]

MCRandomBytes ==
  [P256   |-> {BeDigits(v, 8) : v \in {0, 1, P256_N - 1, P256_N}},
   X25519 |-> {LeDigits(167, 8)},
   X448   |-> {LeDigits(315, 10)}]

MCSecretBytes ==
  [P256   |-> {BeDigits(v, 8) : v \in {77, P256_N + 3}} \cup {LeDigits(315, 10)},
   X25519 |-> {LeDigits(v, 8) : v \in {88, 255}} \cup {LeDigits(315, 10)},
   X448   |-> {LeDigits(v, 10) : v \in {1, 516}} \cup {LeDigits(77, 8)}]

MCCoordinates ==
  {0, 1, 2, 6, 16, 23, 34, 61, 67, 81, 118, 170, P256_P - 1, P256_P, 255}

MCOfferedBytes ==
  [P256   |-> {BeDigits(v, 8) : v \in MCCoordinates} \cup {<<1, 0>>},
   X25519 |-> {LeDigits(v, 8) : v \in {3, 127, 200}} \cup {LeDigits(3, 10)},
   X448   |-> {LeDigits(v, 10) : v \in {3, 1000}} \cup {LeDigits(3, 8)}]
=============================================================================
