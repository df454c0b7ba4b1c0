------------------------------- MODULE MCHkdf -------------------------------
(***************************************************************************)
(* Instances of HkdfProviders: salts below, at and above a block.          *)
(***************************************************************************)
EXTENDS HkdfProviders

Text(n, base) == [k \in 1 .. n |-> Byte(base + k)]

MCPlatforms ==
  {[adapter |-> "none", base |-> "software-demo"],
   [adapter |-> "rustcrypto", base |-> "software-demo"],
   [adapter |-> "rustcrypto", base |-> "empty"]}

MCSalts == {"short", "block", "long"}
MCIkms == {"ikm"}
MCInfos == {"empty", "info"}

MCBytesOf ==
  [short |-> Text(1, 10),
   block |-> Text(SHA2SHORT_BLOCK_SIZE, 20),
   long  |-> Text(SHA2SHORT_BLOCK_SIZE + 1, 30),
   ikm   |-> Text(2, 40),
   empty |-> << >>,
   info  |-> Text(1, 50)]
=============================================================================
