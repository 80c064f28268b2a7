------------------------------- MODULE MCAirdrop -------------------------------
(***************************************************************************)
(* Instances of Airdrop for TLC.                                           *)
(***************************************************************************)
EXTENDS Airdrop, TLC

CONSTANTS airdrop, alice, flon, usdt

MCBankCode == [a \in Assets |-> a]

MCQuotas == {[single_claim |-> 2, allocated |-> 3]}

MCWindows == {[start |-> 0, end |-> 0], [start |-> 0, end |-> 1]}

\* The two tokens play the same part.
Symmetry == Permutations({flon, usdt})
===============================================================================
