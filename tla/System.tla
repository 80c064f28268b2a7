--------------------------------- MODULE System ---------------------------------
(***************************************************************************)
(* What the contracts use of the system contract `flon`, which is not part *)
(* of this repository: newaccount and buygas, sent together.               *)
(***************************************************************************)
EXTENDS Integers

\* newaccount refuses a name that is taken; buygas is paid out of the creating
\* contract's own tokens and refuses to buy nothing.
CanCreate(accounts, name, balance, quant) ==
  /\ name \notin accounts
  /\ quant > 0 /\ quant <= balance

\* The gas of an account, after some was bought for it.
GasBought(gas, name, quant) ==
  [n \in DOMAIN gas \cup {name} |->
    IF n = name THEN quant + (IF n \in DOMAIN gas THEN gas[n] ELSE 0) ELSE gas[n]]

===============================================================================
