-------------------------------- MODULE MCRedpack --------------------------------
(***************************************************************************)
(* Instances of Redpack for TLC.                                           *)
(***************************************************************************)
EXTENDS Redpack

CONSTANTS redpack, alice, bob, carol, flon, usdt

\* FLON has 8 decimals, the other one 1.
MCMinUnit == [a \in Assets |-> IF a = flon THEN 100 ELSE 10]
===============================================================================
