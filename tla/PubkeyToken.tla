------------------------------ MODULE PubkeyToken ------------------------------
(***************************************************************************)
(* pubkey.token: takes deposits for public keys.  With a signature of the  *)
(* key, a miner opens an account with the deposit or moves it to one, and  *)
(* keeps a fee.                                                            *)
(***************************************************************************)
EXTENDS Tables, System

CONSTANTS
  Keys,         \* public keys
  Names,        \* account names
  Genesis,      \* the accounts there are before
  Quantities,   \* amounts that are deposited
  Gas,          \* what buygas costs (1000000)
  miner_fee,    \* of the global singleton, which no action changes
  Funding,      \* tokens the contract has without a deposit
  MaxHeld,      \* bound on the tokens of the contract
  MaxTime       \* bound on the clock

VARIABLES
  last_idx,     \* of the global singleton
  pkaccts,      \* table pkaccts
  accounts,     \* the accounts that exist on the chain
  gas,          \* the gas bought for accounts
  held,         \* the tokens of the contract
  now           \* current_time_point

vars == <<last_idx, pkaccts, accounts, gas, held, now>>

Row == [pubkey : Keys, quantity : Nat, last_recv_at : Nat]

\* What a key signs: hash_account of an account and a time.
Signatures == [pubkey : Keys, acct : Names, at : 0..MaxTime]

Init ==
  /\ last_idx = 0 /\ pkaccts = Empty
  /\ accounts = Genesis /\ gas = [n \in Genesis |-> Gas]
  /\ held = Funding /\ now = 0

\* The index by.pubkey hashes the serialized key, the actions hash the bytes the key has
\* in memory: a variant, with its padding, which is longer.
sha256pk(pubkey) == <<"packed", pubkey>>
HashInMemory(pubkey) == <<"in memory", pubkey>>

\* idx.find: the rows whose index is the hash that is looked for.
Found(pubkey) ==
  {id \in DOMAIN pkaccts : sha256pk(pkaccts[id].pubkey) = HashInMemory(pubkey)}

\* transfer: on an unknown key a new row, else more in the row that is there.
OnTransfer(pubkey, quantity) ==
  /\ IF Found(pubkey) = {}
     THEN /\ last_idx' = last_idx + 1
          /\ pkaccts' = Put(pkaccts, last_idx + 1,
                            [pubkey |-> pubkey, quantity |-> quantity, last_recv_at |-> now])
     ELSE \E id \in Found(pubkey) :
            /\ pkaccts' = [pkaccts EXCEPT ![id].quantity = @ + quantity, ![id].last_recv_at = now]
            /\ UNCHANGED last_idx
  /\ held' = held + quantity
  /\ UNCHANGED <<accounts, gas, now>>

\* The checks that newaccount and move share.
MayTake(id, pubkey, acct, sig) ==
  /\ id \in Found(pubkey)
  /\ pkaccts[id].quantity >= miner_fee
  /\ sig = [pubkey |-> pubkey, acct |-> acct, at |-> pkaccts[id].last_recv_at]

\* The fee to the miner and the rest to the account, and the row is gone.
Taken(id) ==
  /\ pkaccts' = Drop(pkaccts, {id})
  /\ UNCHANGED <<last_idx, now>>

\* The gas is not taken off what the new account gets: the contract pays it.
NewAccount(pubkey, acct, sig) ==
  \E id \in DOMAIN pkaccts :
    /\ MayTake(id, pubkey, acct, sig)
    /\ CanCreate(accounts, acct, held, Gas)
    /\ pkaccts[id].quantity <= held - Gas
    /\ accounts' = accounts \cup {acct}
    /\ gas' = GasBought(gas, acct, Gas)
    /\ held' = held - Gas - pkaccts[id].quantity
    /\ Taken(id)

Move(pubkey, acct, sig) ==
  \E id \in DOMAIN pkaccts :
    /\ acct \in accounts
    /\ MayTake(id, pubkey, acct, sig)
    /\ pkaccts[id].quantity <= held
    /\ held' = held - pkaccts[id].quantity
    /\ Taken(id)
    /\ UNCHANGED <<accounts, gas>>

Tick ==
  /\ now < MaxTime
  /\ now' = now + 1
  /\ UNCHANGED <<last_idx, pkaccts, accounts, gas, held>>

Next ==
  \/ \E k \in Keys, q \in Quantities : held + q <= MaxHeld /\ OnTransfer(k, q)
  \/ \E k \in Keys, a \in Names, s \in Signatures : NewAccount(k, a, s) \/ Move(k, a, s)
  \/ Tick

Spec == Init /\ [][Next]_vars

\* Miners live on the fees, and submit every signature.
FairSpec ==
  /\ Spec
  /\ \A k \in Keys, a \in Names, s \in Signatures :
       WF_vars(NewAccount(k, a, s)) /\ WF_vars(Move(k, a, s))

-------------------------------------------------------------------------------
(* Properties. *)

\* What the usage comment of newaccount says it does, when a miner submits it: a key with
\* a deposit that pays the fee, at a contract that has the gas, gets its account.
DepositOpensAccount ==
  \A a \in Names :
    (/\ a \notin accounts
     /\ \E id \in DOMAIN pkaccts :
          pkaccts[id].quantity >= miner_fee /\ held >= pkaccts[id].quantity + Gas)
    ~> (a \in accounts \/ DOMAIN pkaccts = {})

===============================================================================
