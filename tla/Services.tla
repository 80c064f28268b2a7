-------------------------------- MODULE Services --------------------------------
(***************************************************************************)
(* Four contracts that meet in the set of accounts of the chain.           *)
(* flon.creator and flon.faucet add accounts to it, each aborting on names *)
(* the other has created; the faucet pays whoever created an account;      *)
(* flon.applybp takes profiles, and tokensummary takes banks, of accounts  *)
(* that exist.                                                             *)
(***************************************************************************)
EXTENDS Integers, FiniteSets

CONSTANTS
  Names,       \* account names
  Nobody,      \* the empty name
  Genesis,     \* the accounts there are before
  FaucetName,  \* flon.faucet
  Admins,      \* the administrators the contracts may get
  Grant, Gas, DaySeconds, GasQuants,
  Infos, Codes,
  Budget,      \* the tokens flon.creator and flon.faucet are given at the start
  MaxTime      \* bound on the clock

ASSUME ServicesAssumption ==
  /\ FaucetName \in Genesis /\ Genesis \subseteq Names /\ Admins \subseteq Names /\ Nobody \notin Names
  /\ Grant \in Nat \ {0} /\ Gas \in Nat \ {0} /\ DaySeconds \in Nat \ {0}
  /\ GasQuants \subseteq Int /\ Budget \in Nat /\ MaxTime \in Nat

VARIABLES
  accounts, gas, now,
  cgstate, cbalance,          \* flon.creator
  rows, granted, fbalance,    \* flon.faucet
  badmin, producers,          \* flon.applybp
  tadmin, tokencfg            \* tokensummary

cvars == <<cgstate, cbalance>>
fvars == <<rows, granted, fbalance>>
bvars == <<badmin, producers>>
tvars == <<tadmin, tokencfg>>
vars  == <<accounts, gas, now, cvars, fvars, bvars, tvars>>

C == INSTANCE Creator WITH gstate <- cgstate, balance <- cbalance
F == INSTANCE Faucet WITH Self <- FaucetName, balance <- fbalance
B == INSTANCE Applybp WITH admin <- badmin
T == INSTANCE TokenSummary WITH admin <- tadmin

Init ==
  /\ accounts = Genesis /\ now = 0
  /\ gas = [n \in Genesis |-> Gas]
  /\ cgstate \in [admin : Admins, gas_quant : GasQuants] /\ cbalance = Budget
  /\ rows = B!Empty /\ granted = [n \in Names |-> <<>>] /\ fbalance = Budget
  /\ badmin = Nobody /\ producers = B!Empty
  /\ tadmin \in Admins /\ tokencfg = B!Empty

CreatorStep == C!Next /\ UNCHANGED <<now, fvars, bvars, tvars>>
FaucetStep  == F!Next /\ UNCHANGED <<cvars, bvars, tvars>>
ApplyStep   == B!Next /\ UNCHANGED <<gas, now, cvars, fvars, tvars>>
SummaryStep == T!Next /\ UNCHANGED <<gas, now, cvars, fvars, bvars>>

Tick ==
  /\ now < MaxTime
  /\ now' = now + 1
  /\ UNCHANGED <<accounts, gas, cvars, fvars, bvars, tvars>>

Next == CreatorStep \/ FaucetStep \/ ApplyStep \/ SummaryStep \/ Tick

Spec == Init /\ [][Next]_vars

-------------------------------------------------------------------------------
(* Properties. *)

\* The rows hold what the C++ types and the checks promise.
TypeOK ==
  /\ accounts \subseteq Names /\ now \in Nat
  /\ gas \in [DOMAIN gas -> Nat]
  /\ C!TypeOK /\ F!TypeOK /\ B!TypeOK /\ T!TypeOK

\* Any n + 1 grants of an account are n days apart, less half a second at most, from the
\* first to the last of them: see Faucet.
OneGrantADay == F!OneGrantADay

\* Whoever creates it, an account has gas from the step on in which it exists: none is
\* left without because a contract ran out of tokens halfway.
EveryAccountHasGas == \A n \in accounts : n \in DOMAIN gas /\ gas[n] > 0

\* A profile never goes, keeps its status when it is rewritten, and keeps what it says
\* when its status is set; it belongs to an account that exists.
ProfilesAreKept ==
  [][\A o \in DOMAIN producers :
       /\ o \in DOMAIN producers' /\ o \in accounts
       /\ \/ producers'[o].status = producers[o].status
          \/ producers'[o].info = producers[o].info /\ badmin \in accounts]_vars

\* The comment on the key says that it is composed of bank and symbol: deltoken takes
\* the token it names off the list, and no other.
DelTokenErasesIt ==
  [][\A b \in Names, c \in Codes :
       T!DelToken(b, c) => <<b, c>> \in T!Listed /\ T!Listed' = T!Listed \ {<<b, c>>}]_vars

===============================================================================
