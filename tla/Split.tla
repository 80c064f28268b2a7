---------------------------------- MODULE Split ----------------------------------
(***************************************************************************)
(* flon.split: a plan names receivers and their rates; tokens sent with    *)
(* the memo plan:<id> are divided by the rates and paid out at once        *)
(* (auto), or booked in wallets, one per plan and receiver, from which     *)
(* anybody may have them paid out to the receiver (manual).                *)
(*                                                                         *)
(* As in Vest, an action of the contract is one step, guarded by all its   *)
(* checks; an inline claimall is part of the action that sends it.         *)
(* Accounts are numbered in the order of their names, which is the order   *)
(* of the rows of a wallet table.                                          *)
(***************************************************************************)
EXTENDS Tables, Sums, Sequences, FiniteSets

CONSTANTS
  NumAccounts,  \* accounts of the chain
  Self,         \* flon.split
  Assets,       \* token contract and symbol
  PCT_BOOST,    \* the rates of a plan add up to it
  Word,         \* 2^64, the modulus of a product of uint64_t
  MaxAmount,    \* asset::max_amount
  Batch,        \* wallets emptied by one claimall, 20
  Limits,       \* min_count and max_count an administrator may set
  Quantities,   \* amounts sent
  MaxPlans,     \* bound on the plan ids used
  MaxConf       \* bound on the receivers of a plan

ASSUME SplitAssumption ==
  /\ NumAccounts \in Nat /\ Self \in 1 .. NumAccounts
  /\ PCT_BOOST \in Nat \ {0} /\ Word \in Nat \ {0} /\ MaxAmount \in Nat
  /\ Batch \in Nat \ {0} /\ MaxPlans \in Nat /\ MaxConf \in Nat
  /\ Limits \subseteq Nat
  /\ Quantities \subseteq 1 .. MaxAmount

VARIABLES
  gstate,   \* the global singleton
  plans,    \* table plans
  wallets,  \* for each plan id, the table wallets of that scope
  held      \* what the token contracts say the contract owns, by asset

vars == <<gstate, plans, wallets, held>>

Accounts == 1 .. NumAccounts
PlanIds  == 1 .. MaxPlans

GlobalRow == [min_split_count : Nat, max_split_count : Nat, last_plan_id : Nat]

Unit == [token_receiver : Accounts, token_split_amount : 1 .. PCT_BOOST]
Confs == UNION {[1 .. n -> Unit] : n \in 1 .. MaxConf}

PlanRow == [creator : Accounts, split_conf : Confs, split_type : {"auto", "manual"}]

\* The map of balances of a wallet; an asset that is not in the map has 0.
Balances == [Assets -> Nat]

Init ==
  /\ gstate = [min_split_count |-> 2, max_split_count |-> 10, last_plan_id |-> 0]
  /\ plans = Empty
  /\ wallets = [p \in PlanIds |-> Empty]
  /\ held = [a \in Assets |-> 0]

-------------------------------------------------------------------------------
(* Plans. *)

\* `init`.
SetGlobal(min_count, max_count) ==
  /\ min_count >= 1 /\ max_count <= 50
  /\ gstate' = [gstate EXCEPT !.min_split_count = min_count, !.max_split_count = max_count]
  /\ UNCHANGED <<plans, wallets, held>>

Rates(conf) == [i \in DOMAIN conf |-> conf[i].token_split_amount]

Distinct(conf) ==
  \A i, j \in DOMAIN conf : conf[i].token_receiver = conf[j].token_receiver => i = j

check_rate(conf) == Distinct(conf) /\ SumTo(Rates(conf), Len(conf)) = PCT_BOOST

RatedConfs == {conf \in Confs : check_rate(conf)}

ConfOk(conf) ==
  /\ Len(conf) \in gstate.min_split_count .. gstate.max_split_count
  /\ conf \in RatedConfs

Type(is_auto) == IF is_auto THEN "auto" ELSE "manual"

\* A mistake: the counter is incremented after it is read.
AddPlan_ReadsFirst(owner, conf, is_auto) ==
  /\ ConfOk(conf)
  /\ gstate.last_plan_id < MaxPlans
  /\ gstate' = [gstate EXCEPT !.last_plan_id = @ + 1]
  /\ plans' = Put(plans, gstate.last_plan_id,
       [creator |-> owner, split_conf |-> conf, split_type |-> Type(is_auto)])
  /\ UNCHANGED <<wallets, held>>

AddPlan(owner, conf, is_auto) ==
  /\ ConfOk(conf)
  /\ gstate.last_plan_id < MaxPlans
  /\ LET id == gstate.last_plan_id + 1
     IN /\ gstate' = [gstate EXCEPT !.last_plan_id = id]
        /\ plans' = Put(plans, id,
             [creator |-> owner, split_conf |-> conf, split_type |-> Type(is_auto)])
  /\ UNCHANGED <<wallets, held>>

-------------------------------------------------------------------------------
(* Payment out of the wallets. *)

\* What the contract owns after the wallets of the owners S of plan p were paid.
Total(p, S, a) ==
  SumTo([o \in Accounts |-> IF o \in S THEN wallets[p][o][a] ELSE 0], NumAccounts)
HeldLess(p, S) == [a \in Assets |-> held[a] - Total(p, S, a)]

\* A transfer of the contract to itself is refused, and one of more than it owns.
CanPay(p, S) == Self \notin S /\ \A a \in Assets : Total(p, S, a) <= held[a]

\* A mistake: the row stays when its balances are cleared in the copy only.
PayOut_Keeps(p, S) ==
  /\ CanPay(p, S)
  /\ held' = HeldLess(p, S)
  /\ UNCHANGED wallets

PayOut(p, S) ==
  /\ CanPay(p, S)
  /\ held' = HeldLess(p, S)
  /\ wallets' = [wallets EXCEPT ![p] = Drop(@, S)]

Claim(p, owner) ==
  /\ p \in DOMAIN plans
  /\ owner \in DOMAIN wallets[p]
  /\ \E a \in Assets : wallets[p][owner][a] > 0
  /\ PayOut(p, {owner})
  /\ UNCHANGED <<gstate, plans>>

\* _empty_wallets: the first Batch wallets in the order of their owners.
FirstBatch(p) ==
  {o \in DOMAIN wallets[p] : Cardinality({k \in DOMAIN wallets[p] : k < o}) < Batch}

ClaimAll(p) ==
  /\ p \in DOMAIN plans
  /\ DOMAIN wallets[p] # {}
  /\ PayOut(p, FirstBatch(p))
  /\ UNCHANGED <<gstate, plans>>

\* Turning a plan to auto pays one batch of its wallets; if that fails, so does
\* the edit.
EditPlan(owner, p, conf, is_auto) ==
  /\ p \in DOMAIN plans /\ plans[p].creator = owner
  /\ ConfOk(conf)
  /\ plans' = [plans EXCEPT ![p].split_conf = conf, ![p].split_type = Type(is_auto)]
  /\ IF is_auto /\ DOMAIN wallets[p] # {}
       THEN PayOut(p, FirstBatch(p))
       ELSE UNCHANGED <<wallets, held>>
  /\ UNCHANGED gstate

-------------------------------------------------------------------------------
(* Division. *)

\* A mistake: rounding up.
Portion_Up(quantity, rate) == (((quantity * rate) % Word) + PCT_BOOST - 1) \div PCT_BOOST

\* The product of an int64_t and a uint64_t is a uint64_t.
Portion(quantity, rate) == ((quantity * rate) % Word) \div PCT_BOOST

\* The portions in the order of the plan: the loop ends at the first empty one.
Portions(conf, quantity) ==
  [i \in DOMAIN conf |->
     IF \A j \in 1 .. i : Portion(quantity, conf[j].token_split_amount) > 0
       THEN Portion(quantity, conf[i].token_split_amount) ELSE 0]

LeftOver(conf, quantity) == quantity - SumTo(Portions(conf, quantity), Len(conf))

\* What each account is paid or booked: its portion, and the first receiver what
\* is left over.
Credit(conf, quantity) ==
  [o \in Accounts |->
     SumTo([i \in DOMAIN conf |->
              IF conf[i].token_receiver = o THEN Portions(conf, quantity)[i] ELSE 0],
           Len(conf))
     + IF conf[1].token_receiver = o THEN LeftOver(conf, quantity) ELSE 0]

\* The tokens pass through: they come and go in one transaction.
PayAtOnce(credit) ==
  /\ credit[Self] = 0
  /\ UNCHANGED <<wallets, held>>

\* A mistake: a wallet that exists is overwritten.
Booked_Overwrites(wallet, asset, amount) == [wallet EXCEPT ![asset] = amount]

Booked(wallet, asset, amount) == [wallet EXCEPT ![asset] = @ + amount]

\* A mistake: an empty portion is booked too.
Receivers_All(credit) == {o \in Accounts : credit[o] >= 0}

Receivers(credit) == {o \in Accounts : credit[o] > 0}

NoBalance == [a \in Assets |-> 0]

\* _add_wallet for everybody who is credited; asset::operator+= bounds a balance.
Book(p, credit, asset, quantity) ==
  LET old(o) == IF o \in DOMAIN wallets[p] THEN wallets[p][o] ELSE NoBalance
      paid   == Receivers(credit)
  IN  /\ \A o \in paid : old(o)[asset] + credit[o] <= MaxAmount
      /\ wallets' = [wallets EXCEPT ![p] =
           [o \in DOMAIN wallets[p] \cup paid |->
              IF o \in paid THEN Booked(old(o), asset, credit[o]) ELSE wallets[p][o]]]
      /\ held' = [held EXCEPT ![asset] = @ + quantity]

\* A transfer with the memo "plan:<id>", or "plan:<id>:<boost>", whose boost is not
\* used.
Split(from, p, asset, quantity) ==
  /\ from # Self
  /\ p \in DOMAIN plans
  /\ LET conf == plans[p].split_conf
     IN /\ LeftOver(conf, quantity) >= 0
        /\ IF plans[p].split_type = "auto"
             THEN PayAtOnce(Credit(conf, quantity))
             ELSE Book(p, Credit(conf, quantity), asset, quantity)
  /\ UNCHANGED <<gstate, plans>>

\* A list of receivers that check_rate refuses makes no step.
Next ==
  \/ \E m, n \in Limits : SetGlobal(m, n)
  \/ \E o \in Accounts, c \in RatedConfs, b \in BOOLEAN : AddPlan(o, c, b)
  \/ \E o \in Accounts, p \in PlanIds, c \in RatedConfs, b \in BOOLEAN : EditPlan(o, p, c, b)
  \/ \E p \in PlanIds, o \in Accounts : Claim(p, o)
  \/ \E p \in PlanIds : ClaimAll(p)
  \/ \E f \in Accounts, p \in PlanIds, a \in Assets, q \in Quantities : Split(f, p, a, q)

Spec == Init /\ [][Next]_vars

\* The owner of a wallet has every reason to claim it.
Fairness == \A p \in PlanIds, o \in Accounts : WF_vars(Claim(p, o))

FairSpec == Spec /\ Fairness

-------------------------------------------------------------------------------
(* Properties. *)

\* The rows hold what the C++ types and the checks promise.
TypeOK ==
  /\ gstate \in GlobalRow
  /\ IsTable(plans, PlanIds, PlanRow)
  /\ wallets = [p \in PlanIds |-> wallets[p]]
  /\ \A p \in PlanIds : IsTable(wallets[p], Accounts, Balances)
  /\ held \in [Assets -> Nat]

BookedOf(p, a) ==
  [o \in Accounts |-> IF o \in DOMAIN wallets[p] THEN wallets[p][o][a] ELSE 0]

\* The contract owns of every asset exactly what the wallets of all the plans say:
\* plans edited between two payments, wallets emptied in batches, portions rounded
\* down, tokens paid at once in between.
Solvent ==
  \A a \in Assets :
    held[a] = SumTo([p \in PlanIds |-> SumTo(BookedOf(p, a), NumAccounts)], MaxPlans)

\* What is owed to each wallet; those of plan p come after those of plan p - 1.
Owed ==
  [i \in 1 .. MaxPlans * NumAccounts |-> [a \in Assets |->
     BookedOf(((i - 1) \div NumAccounts) + 1, a)[((i - 1) % NumAccounts) + 1]]]

Custodian == INSTANCE Custody
  WITH NumClaims <- MaxPlans * NumAccounts, Assignable <- FALSE, owed <- Owed

\* flon.split is a custodian: dividing an amount takes from no wallet, paying a batch of
\* wallets adds to none, and editing a plan does neither.
ImplementsCustody == Custodian!Spec

\* A wallet can be claimed: its plan exists, so that claim finds it, and at least
\* one balance in it is positive.
WalletsClaimable ==
  \A p \in PlanIds : \A o \in DOMAIN wallets[p] :
    /\ p \in DOMAIN plans
    /\ \E a \in Assets : wallets[p][o][a] > 0

\* Whatever the amount, no division of it among the receivers of a plan hands out
\* more than came in (the check on the remaining quantity never fails, even where
\* the product wraps around), and all of it is handed out.
DividesExactly ==
  \A p \in DOMAIN plans : \A q \in 1 .. MaxAmount :
    LET conf == plans[p].split_conf
    IN /\ LeftOver(conf, q) >= 0
       /\ SumTo(Credit(conf, q), NumAccounts) = q

\* A wallet of anybody but the contract itself is paid in the end.
WalletIsPaid ==
  \A p \in PlanIds, o \in Accounts \ {Self} :
    o \in DOMAIN wallets[p] ~> o \notin DOMAIN wallets[p]

\* Every receiver is credited its rate of what came in, rounded down.
RateIsHonoured ==
  \A p \in DOMAIN plans : \A q \in 1 .. MaxAmount :
    LET conf == plans[p].split_conf
    IN \A i \in DOMAIN conf :
         Credit(conf, q)[conf[i].token_receiver]
           >= (q * conf[i].token_split_amount) \div PCT_BOOST

===============================================================================
