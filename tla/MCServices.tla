------------------------------- MODULE MCServices -------------------------------
(***************************************************************************)
(* Instances of Services for TLC.                                          *)
(***************************************************************************)
EXTENDS Services

CONSTANTS faucet, alice, bob, nobody
===============================================================================
