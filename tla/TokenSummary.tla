------------------------------ MODULE TokenSummary ------------------------------
(***************************************************************************)
(* tokensummary: the list of tokens, by bank and symbol, of which view     *)
(* shows the balances of an account.  The primary key the rows compute has *)
(* 128 bits; a multi_index has keys of 64 and keeps the lower half, which  *)
(* is the symbol code.  view is read-only and not modelled.                *)
(***************************************************************************)
EXTENDS Tables

CONSTANTS
  Names,      \* account names
  Admins,     \* arguments of init
  Codes       \* symbol codes

VARIABLES
  accounts,   \* the accounts that exist on the chain
  admin,      \* of the global singleton
  tokencfg    \* table tokencfg, by the 64 bits of the key that are kept

TokenRow == [bank : Names, code : Codes]

TypeOK == admin \in Names /\ IsTable(tokencfg, Codes, TokenRow)

\* The upper and the lower half: (bank << 64) | code.
make_tokencfg_pk(bank, code) == <<bank, code>>

\* What the uint64_t parameters of the table functions make of a key.
Low64(pk) == pk[2]

Key(bank, code) == Low64(make_tokencfg_pk(bank, code))

Listed == {<<tokencfg[k].bank, tokencfg[k].code>> : k \in DOMAIN tokencfg}

\* `init`
SetAdmin(new_admin) ==
  /\ admin' = new_admin
  /\ UNCHANGED <<accounts, tokencfg>>

HasAdmin == admin \in accounts

MayList(bank, code) == bank \in accounts /\ Key(bank, code) \notin DOMAIN tokencfg

AddToken(bank, code) ==
  /\ HasAdmin
  /\ MayList(bank, code)
  /\ tokencfg' = Put(tokencfg, Key(bank, code), [bank |-> bank, code |-> code])
  /\ UNCHANGED <<accounts, admin>>

DelToken(bank, code) ==
  /\ HasAdmin
  /\ Key(bank, code) \in DOMAIN tokencfg
  /\ tokencfg' = Drop(tokencfg, {Key(bank, code)})
  /\ UNCHANGED <<accounts, admin>>

Next ==
  \/ \E a \in Admins : SetAdmin(a)
  \/ \E b \in Names, c \in Codes : AddToken(b, c) \/ DelToken(b, c)

===============================================================================
