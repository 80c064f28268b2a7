----------------------------- MODULE MCPubkeyToken -----------------------------
(***************************************************************************)
(* Instances of PubkeyToken for TLC.                                       *)
(***************************************************************************)
EXTENDS PubkeyToken

CONSTANTS k1, miner, alice
===============================================================================
