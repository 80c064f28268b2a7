-------------------------------- MODULE Creator --------------------------------
(***************************************************************************)
(* flon.creator: its administrator has accounts created, with some gas     *)
(* each, paid by the contract.                                             *)
(***************************************************************************)
EXTENDS System

CONSTANTS
  Names,      \* account names
  Admins,     \* arguments of init
  GasQuants   \* arguments of setgasquant

VARIABLES
  accounts,   \* the accounts that exist on the chain
  gas,        \* the gas bought for accounts
  gstate,     \* the global singleton
  balance     \* the tokens of the contract

GlobalRow == [admin : Names, gas_quant : Int]

TypeOK == gstate \in GlobalRow /\ balance \in Nat

\* `init`, by the contract or the administrator.
SetGlobal(admin) ==
  /\ gstate' = [gstate EXCEPT !.admin = admin]
  /\ UNCHANGED <<accounts, gas, balance>>

SetGasQuant(quant) ==
  /\ gstate' = [gstate EXCEPT !.gas_quant = quant]
  /\ UNCHANGED <<accounts, gas, balance>>

\* A mistake: the gas is forgotten.
NewAccount_NoGas(acct) ==
  /\ gstate.admin \in accounts
  /\ acct \notin accounts
  /\ accounts' = accounts \cup {acct}
  /\ UNCHANGED <<gas, gstate, balance>>

\* The administrator signs, so it has to exist.
NewAccount(acct) ==
  /\ gstate.admin \in accounts
  /\ CanCreate(accounts, acct, balance, gstate.gas_quant)
  /\ accounts' = accounts \cup {acct}
  /\ gas' = GasBought(gas, acct, gstate.gas_quant)
  /\ balance' = balance - gstate.gas_quant
  /\ UNCHANGED gstate

Next ==
  \/ \E a \in Admins : SetGlobal(a)
  \/ \E a \in Names : NewAccount(a)
  \/ \E q \in GasQuants : SetGasQuant(q)

===============================================================================
