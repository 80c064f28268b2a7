--------------------------------- MODULE Custody ---------------------------------
(***************************************************************************)
(* What a contract that keeps tokens for others promises, without how it   *)
(* does so.  It owes amounts to claims; a claim is whatever the contract   *)
(* keeps an amount in: an issue, a packet, a wallet.  Tokens come in       *)
(* because somebody is owed them, go out because somebody is owed them no  *)
(* longer, and a claim may pass to another one.                            *)
(***************************************************************************)
EXTENDS Sums

CONSTANTS
  Assets,
  NumClaims,   \* claims are numbered
  Assignable   \* whether a claim may pass to another one

VARIABLES
  held,        \* what the contract owns, by asset
  owed         \* what it owes, by claim and asset

vars == <<held, owed>>

Claims == 1 .. NumClaims

Balanced == \A a \in Assets : held[a] = SumTo([i \in Claims |-> owed[i][a]], NumClaims)

Init ==
  /\ held = [a \in Assets |-> 0]
  /\ owed = [i \in Claims |-> [a \in Assets |-> 0]]

\* Some of one asset comes in.  Nobody is owed less for it.
Deposit ==
  /\ \E a \in Assets : /\ held'[a] > held[a]
                       /\ \A b \in Assets \ {a} : held'[b] = held[b]
  /\ \A i \in Claims, a \in Assets : owed'[i][a] >= owed[i][a]
  /\ Balanced'

\* Claims are paid, in part or in whole.  Nobody is owed more for it.
Payout ==
  /\ \A i \in Claims, a \in Assets : owed'[i][a] <= owed[i][a]
  /\ Balanced'

\* One claim passes to one other, in part or in whole.
Assign ==
  /\ Assignable
  /\ held' = held
  /\ \E i, j \in Claims :
       /\ \A k \in Claims \ {i, j} : owed'[k] = owed[k]
       /\ \A a \in Assets : owed'[i][a] <= owed[i][a] /\ owed'[j][a] >= owed[j][a]
  /\ Balanced'

Next == Deposit \/ Payout \/ Assign

Spec == Init /\ [][Next]_vars

===============================================================================
