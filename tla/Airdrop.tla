-------------------------------- MODULE Airdrop --------------------------------
(***************************************************************************)
(* flon.airdrop: a plan has a window of time and, for each of some tokens, *)
(* what one claim pays and what is left of its quota.  An oracle claims    *)
(* for a beneficiary: all tokens of the plan are paid, or none.  Quotas    *)
(* are numbers the administrator sets; nothing relates them to what the    *)
(* contract owns, which comes by plain transfers that run no code here.    *)
(*                                                                         *)
(* A token here is an extended symbol: contract, code and precision.  The  *)
(* list of allowed tokens is searched by contract and code only, so a plan *)
(* may hold a token of the wrong precision, of which nobody owns anything. *)
(***************************************************************************)
EXTENDS Tables, FiniteSets

CONSTANTS
  Accounts,    \* the accounts that exist on the chain
  Self,        \* flon.airdrop
  Assets,      \* extended symbols
  Issued,      \* those that exist: the others have the wrong precision
  BankCode,    \* for each asset, its contract and code without the precision
  Oracles,     \* the accounts that init and addoracle name
  Quotas,      \* arguments of setclaim: records of single_claim and allocated
  Windows,     \* arguments of addplan and setplan: records of start and end
  MaxHeld,     \* bound on the balance of a token
  MaxPlans,    \* bound on plan ids
  MaxTokens,   \* bound on token ids
  MaxCount,    \* bound on the claims of one plan
  MaxTime      \* bound on the clock

ASSUME AirdropAssumption ==
  /\ Self \in Accounts /\ Issued \subseteq Assets /\ Oracles \subseteq Accounts
  /\ Quotas \subseteq [single_claim : Int, allocated : Int]
  /\ Windows \subseteq [start : Nat, end : Nat]
  /\ MaxHeld \in Nat /\ MaxPlans \in Nat /\ MaxTokens \in Nat /\ MaxCount \in Nat
  /\ MaxTime \in Nat

VARIABLES
  gstate,   \* the global singleton
  tokens,   \* table tokens: by id, the contract and code allowed
  plans,    \* table plans, by id
  quota,    \* by plan and token, what was allocated and how often it was claimed since
  now,      \* current_time_point
  held      \* what the token contracts say the contract owns, by asset

vars == <<gstate, tokens, plans, quota, now, held>>

Codes     == {BankCode[a] : a \in Assets}
GlobalRow == [oracles : SUBSET Accounts, last_plan_id : Nat, last_token_id : Nat]
ClaimConf == [single_claim : Nat \ {0}, available : Nat]
PlanIds   == 1 .. MaxPlans

Init ==
  /\ gstate = [oracles |-> {}, last_plan_id |-> 0, last_token_id |-> 0]
  /\ tokens = Empty /\ plans = Empty
  /\ quota = [p \in PlanIds |-> Empty]
  /\ now = 0
  /\ held = [a \in Assets |-> 0]

-------------------------------------------------------------------------------
(* Administration, by the administrator or the contract itself. *)

\* `init`: both counters start again, whatever is in the tables.
SetGlobal(oracles) ==
  /\ gstate' = [oracles |-> oracles, last_plan_id |-> 0, last_token_id |-> 0]
  /\ UNCHANGED <<tokens, plans, quota, now, held>>

AddOracle(oracle) ==
  /\ oracle \in Accounts \ gstate.oracles
  /\ gstate' = [gstate EXCEPT !.oracles = @ \cup {oracle}]
  /\ UNCHANGED <<tokens, plans, quota, now, held>>

DelOracle(oracle) ==
  /\ oracle \in gstate.oracles
  /\ gstate' = [gstate EXCEPT !.oracles = @ \ {oracle}]
  /\ UNCHANGED <<tokens, plans, quota, now, held>>

\* A mistake: the counter is trusted to be past all rows.
FreeKey_Trusted(table, key, max) == key <= max

\* emplace aborts on a key in use.
FreeKey(table, key, max) == key <= max /\ key \notin DOMAIN table

Allowed(code) == \E i \in DOMAIN tokens : tokens[i] = code

AddToken(code) ==
  /\ ~ Allowed(code)
  /\ LET id == gstate.last_token_id + 1
     IN /\ FreeKey(tokens, id, MaxTokens)
        /\ tokens' = Put(tokens, id, code)
        /\ gstate' = [gstate EXCEPT !.last_token_id = id]
  /\ UNCHANGED <<plans, quota, now, held>>

\* The plans keep their claims of the token.
DelToken(code) ==
  /\ Allowed(code)
  /\ \E i \in DOMAIN tokens : tokens[i] = code /\ tokens' = Drop(tokens, {i})
  /\ UNCHANGED <<gstate, plans, quota, now, held>>

AddPlan(window) ==
  /\ window.start <= window.end
  /\ LET id == gstate.last_plan_id + 1
     IN /\ FreeKey(plans, id, MaxPlans)
        /\ plans' = Put(plans, id, [start |-> window.start, end |-> window.end,
                                    claims |-> Empty, claimed_cnt |-> 0])
        /\ gstate' = [gstate EXCEPT !.last_plan_id = id]
  /\ UNCHANGED <<tokens, quota, now, held>>

\* Any of the two ends may be left as it is.
SetPlan(plan_id, started_at, ended_at) ==
  /\ plan_id \in DOMAIN plans
  /\ started_at <= ended_at
  /\ plans' = [plans EXCEPT ![plan_id].start = started_at, ![plan_id].end = ended_at]
  /\ UNCHANGED <<gstate, tokens, quota, now, held>>

DelPlan(plan_id) ==
  /\ plan_id \in DOMAIN plans
  /\ plans' = Drop(plans, {plan_id})
  /\ quota' = [quota EXCEPT ![plan_id] = Empty]
  /\ UNCHANGED <<gstate, tokens, now, held>>

\* Sets a quota anew, also one that was claimed from.
SetClaim(plan_id, asset, input) ==
  /\ input.single_claim > 0 /\ input.allocated >= input.single_claim
  /\ Allowed(BankCode[asset])
  /\ plan_id \in DOMAIN plans
  /\ plans' = [plans EXCEPT ![plan_id].claims =
       Put(@, asset, [single_claim |-> input.single_claim, available |-> input.allocated])]
  /\ quota' = [quota EXCEPT ![plan_id] =
       Put(@, asset, [allocated |-> input.allocated, times |-> 0])]
  /\ UNCHANGED <<gstate, tokens, now, held>>

\* Aborts on no token the plan does not have.
DelClaim(plan_id, asset) ==
  /\ plan_id \in DOMAIN plans
  /\ plans' = [plans EXCEPT ![plan_id].claims = Drop(@, {asset})]
  /\ quota' = [quota EXCEPT ![plan_id] = Drop(@, {asset})]
  /\ UNCHANGED <<gstate, tokens, now, held>>

-------------------------------------------------------------------------------
(* Claims. *)

\* A mistake: always the full amount.
Payment_Full(conf) == conf.single_claim

\* What is left, if that is less than the amount of one claim.
Payment(conf) ==
  IF conf.available >= conf.single_claim THEN conf.single_claim ELSE conf.available

\* A mistake: tokens without a quota are passed over.
Sendable_Skip(conf, asset) == Payment(conf) <= held[asset]

\* The token contract refuses a transfer of nothing, and the claim with it.
Sendable(conf, asset) == Payment(conf) > 0 /\ Payment(conf) <= held[asset]

Claim(plan_id, claimer, beneficiary) ==
  /\ claimer \in gstate.oracles
  /\ beneficiary \in Accounts \ {Self}
  /\ plan_id \in DOMAIN plans
  /\ LET plan == plans[plan_id]
     IN /\ plan.start <= now /\ now <= plan.end
        /\ DOMAIN plan.claims # {}
        /\ \A a \in DOMAIN plan.claims : Sendable(plan.claims[a], a)
        /\ plan.claimed_cnt < MaxCount
        /\ plans' = [plans EXCEPT
             ![plan_id].claims = [a \in DOMAIN @ |->
                [single_claim |-> @[a].single_claim, available |-> @[a].available - Payment(@[a])]],
             ![plan_id].claimed_cnt = @ + 1]
        /\ held' = [a \in Assets |->
             held[a] - (IF a \in DOMAIN plan.claims THEN Payment(plan.claims[a]) ELSE 0)]
  /\ quota' = [quota EXCEPT ![plan_id] =
       [a \in DOMAIN @ |-> [allocated |-> @[a].allocated, times |-> @[a].times + 1]]]
  /\ UNCHANGED <<gstate, tokens, now>>

\* Anybody may send tokens to the contract; it has no handler for it.
Fund(asset, amount) ==
  /\ asset \in Issued /\ amount > 0
  /\ held[asset] + amount <= MaxHeld
  /\ held' = [held EXCEPT ![asset] = @ + amount]
  /\ UNCHANGED <<gstate, tokens, plans, quota, now>>

Tick ==
  /\ now < MaxTime
  /\ now' = now + 1
  /\ UNCHANGED <<gstate, tokens, plans, quota, held>>

-------------------------------------------------------------------------------
AdminStep ==
  \/ \E S \in SUBSET Oracles : SetGlobal(S)
  \/ \E o \in Oracles : AddOracle(o) \/ DelOracle(o)
  \/ \E c \in Codes : AddToken(c) \/ DelToken(c)

PlanStep ==
  \/ \E w \in Windows : AddPlan(w)
  \/ \E p \in DOMAIN plans, w \in Windows :
       \/ SetPlan(p, w.start, w.end)
       \/ SetPlan(p, plans[p].start, w.end)
       \/ SetPlan(p, w.start, plans[p].end)
  \/ \E p \in PlanIds : DelPlan(p)
  \/ \E p \in PlanIds, a \in Assets, q \in Quotas : SetClaim(p, a, q)
  \/ \E p \in PlanIds, a \in Assets : DelClaim(p, a)

Next ==
  \/ AdminStep
  \/ PlanStep
  \/ \E p \in PlanIds, o \in Oracles, b \in Accounts : Claim(p, o, b)
  \/ \E a \in Assets, n \in 1 .. MaxHeld : Fund(a, n)
  \/ Tick

Spec == Init /\ [][Next]_vars

-------------------------------------------------------------------------------
(* Properties. *)

\* The rows hold what the C++ types and the checks promise: no quota is overdrawn.
TypeOK ==
  /\ gstate \in GlobalRow
  /\ IsTable(tokens, 1 .. MaxTokens, Codes)
  /\ DOMAIN plans \subseteq PlanIds
  /\ \A p \in DOMAIN plans :
       /\ plans[p] \in [start : Nat, end : Nat, claims : [DOMAIN plans[p].claims -> ClaimConf],
                        claimed_cnt : Nat]
       /\ DOMAIN plans[p].claims \subseteq Assets
       /\ plans[p].start <= plans[p].end
  /\ now \in Nat
  /\ held \in [Assets -> Nat]

\* After n claims since its quota was set, a token of a plan has paid n full amounts,
\* or all of its quota, and the last claim was not an empty one.
QuotaIsKept ==
  \A p \in DOMAIN plans : \A a \in DOMAIN plans[p].claims :
    LET conf  == plans[p].claims[a]
        total == quota[p][a].allocated
        n     == quota[p][a].times
    IN /\ conf.available =
            IF n * conf.single_claim <= total THEN total - n * conf.single_claim ELSE 0
       /\ (n - 1) * conf.single_claim < total

\* A claim that is counted has paid every token of its plan, out of the balance and
\* out of the quota alike: no claimer gets one token and not the other.
EveryTokenIsPaid ==
  [][\A p \in DOMAIN plans \cap DOMAIN plans' :
       plans'[p].claimed_cnt > plans[p].claimed_cnt =>
         \A a \in DOMAIN plans[p].claims :
           LET paid == plans[p].claims[a].available - plans'[p].claims[a].available
           IN  paid > 0 /\ held'[a] = held[a] - paid]_vars

\* The claims of a plan stay counted as long as it exists: init may set the counter of
\* plans back, but no plan added later takes the place of one that is there.
ClaimsStayCounted ==
  [][\A p \in DOMAIN plans \cap DOMAIN plans' :
       plans'[p].claimed_cnt >= plans[p].claimed_cnt]_vars

===============================================================================
