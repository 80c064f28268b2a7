--------------------------------- MODULE MCVest ---------------------------------
(***************************************************************************)
(* Instances of Vest for TLC.                                              *)
(***************************************************************************)
EXTENDS Vest

CONSTANTS vest, alice, bob, flon, usdt
===============================================================================
