--------------------------------- MODULE Faucet ---------------------------------
(***************************************************************************)
(* flon.faucet: opens an account with some gas and a first grant, and      *)
(* grants an existing account the same amount once a day.  Anybody may     *)
(* ask for anybody.  A block comes every half second, which is the unit of *)
(* the clock; the contract compares whole seconds.                         *)
(***************************************************************************)
EXTENDS Tables, System, Sequences

CONSTANTS
  Names,       \* account names
  Self,        \* flon.faucet
  Grant,       \* what is granted (10 FLON)
  Gas,         \* the gas a new account gets
  DaySeconds   \* DAY_SECONDS

VARIABLES
  accounts,    \* the accounts that exist on the chain
  gas,         \* the gas bought for accounts
  rows,        \* table accounts of the contract: owner to updated_at
  granted,     \* the times of the grants of an account, a history
  balance,     \* the tokens of the contract
  now          \* current_time_point, in half seconds

TypeOK ==
  /\ IsTable(rows, Names, Nat)
  /\ granted \in [Names -> Seq(Nat)] /\ balance \in Nat

\* time_point_sec drops what is below a second.
Sec(t) == t \div 2

\* A mistake: half a second more or less is taken for a second.
MayUpdate_Rounded(account) ==
  account \in DOMAIN rows => (now - rows[account] + 1) \div 2 >= DaySeconds

MayUpdate(account) ==
  account \in DOMAIN rows => Sec(now) - Sec(rows[account]) >= DaySeconds

\* A mistake: the next day counts from the end of the last one, not from the grant, so
\* that days nobody asked on are made up for all at once.
_update_account_MakesUp(account) ==
  rows' = Put(rows, account,
              IF account \in DOMAIN rows THEN rows[account] + 2 * DaySeconds ELSE now)

_update_account(account) == rows' = Put(rows, account, now)

Granted(account) == granted' = [granted EXCEPT ![account] = Append(@, now)]

\* A mistake: the gas is not taken off before the grant is compared.
MayOpen_Each(account) == CanCreate(accounts, account, balance, Gas) /\ Grant <= balance

\* newaccount, buygas and the transfer of the grant, one after the other.
MayOpen(account) == CanCreate(accounts, account, balance, Gas) /\ Grant <= balance - Gas

Active(account) ==
  /\ MayOpen(account)
  /\ MayUpdate(account)
  /\ accounts' = accounts \cup {account}
  /\ gas' = GasBought(gas, account, Gas)
  /\ balance' = balance - (Gas + Grant)
  /\ _update_account(account) /\ Granted(account)
  /\ UNCHANGED now

Claim(account) ==
  /\ account \in accounts \ {Self}
  /\ Grant <= balance
  /\ MayUpdate(account)
  /\ balance' = balance - Grant
  /\ _update_account(account) /\ Granted(account)
  /\ UNCHANGED <<accounts, gas, now>>

Next == \E a \in Names : Active(a) \/ Claim(a)

\* From any grant of an account to the n-th after it, n days go by on the clock, which
\* has 2 * DaySeconds halves of a second a day, but for one half second at most: cutting
\* off to seconds may open a day early by that, and the halves gained do not add up,
\* whoever asked, however often, and however long nobody asked before.
OneGrantADay ==
  \A a \in Names : \A i, j \in DOMAIN granted[a] :
    i < j => granted[a][j] - granted[a][i] >= 2 * DaySeconds * (j - i) - 1

===============================================================================
