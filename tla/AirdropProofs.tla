------------------------------ MODULE AirdropProofs ------------------------------
(***************************************************************************)
(* Proofs about Airdrop for every value of its constants: the types, that  *)
(* quotas are kept, that a claim pays every token of its plan, and that    *)
(* claims stay counted.                                                    *)
(***************************************************************************)
EXTENDS Airdrop, TableTheorems, TLAPS

\* A plan that is in order.
PlanOK(plan) ==
  /\ plan \in [start : Nat, end : Nat, claims : [DOMAIN plan.claims -> ClaimConf],
               claimed_cnt : Nat]
  /\ DOMAIN plan.claims \subseteq Assets
  /\ plan.start <= plan.end

\* What is left of a token, after n claims of one amount each, of what was allocated.
Left(conf, used) ==
  /\ conf.available =
       IF used.times * conf.single_claim <= used.allocated
         THEN used.allocated - used.times * conf.single_claim ELSE 0
  /\ (used.times - 1) * conf.single_claim < used.allocated

\* The history of a plan tells what is left of each of its tokens.
QuotaOK(plan, history) ==
  \A a \in DOMAIN plan.claims :
    /\ a \in DOMAIN history /\ history[a] \in [allocated : Nat, times : Nat]
    /\ Left(plan.claims[a], history[a])

Plans ==
  /\ DOMAIN plans \subseteq PlanIds /\ DOMAIN quota = PlanIds
  /\ \A p \in DOMAIN plans : PlanOK(plans[p]) /\ QuotaOK(plans[p], quota[p])

Rest ==
  /\ gstate \in GlobalRow /\ IsTable(tokens, 1 .. MaxTokens, Codes)
  /\ now \in Nat /\ held \in [Assets -> Nat]

\* The inductive invariant.
Inv == Plans /\ Rest

\* The constants, one fact each, for the provers.
LEMMA ConstTypes ==
  /\ Oracles \subseteq Accounts /\ PlanIds \subseteq Nat /\ MaxTokens \in Nat
  /\ \A w \in Windows : w.start \in Nat /\ w.end \in Nat
  /\ \A q \in Quotas : q.single_claim \in Int /\ q.allocated \in Int
BY AirdropAssumption DEF PlanIds

LEMMA InvIsMore == Inv => TypeOK /\ QuotaIsKept
<1>1. Inv => TypeOK
  BY DEF Inv, Plans, Rest, PlanOK, TypeOK
<1>2. Inv => QuotaIsKept
  BY DEF Inv, Plans, QuotaOK, Left, QuotaIsKept
<1> QED BY <1>1, <1>2

-------------------------------------------------------------------------------
(* Quotas. *)

\* A quota that is set anew is in order.
LEMMA FreshQuota ==
  ASSUME NEW c \in Nat \ {0}, NEW t \in Nat, t >= c
  PROVE  Left([single_claim |-> c, available |-> t], [allocated |-> t, times |-> 0])
<1>1. 0 * c = 0 /\ (0 - 1) * c = 0 - c
  BY SMT
<1> QED BY <1>1 DEF Left

\* One more claim, of a full amount or of the rest.
LEMMA NextClaim ==
  ASSUME NEW conf \in ClaimConf, NEW used \in [allocated : Nat, times : Nat],
         Left(conf, used), Payment(conf) > 0
  PROVE  /\ Payment(conf) \in Nat /\ conf.available - Payment(conf) \in Nat
         /\ Left([single_claim |-> conf.single_claim, available |-> conf.available - Payment(conf)],
                 [allocated |-> used.allocated, times |-> used.times + 1])
<1> DEFINE c == conf.single_claim
           v == conf.available
           t == used.allocated
           n == used.times
           m == n * c
<1>1. c \in Nat \ {0} /\ v \in Nat /\ t \in Nat /\ n \in Nat
  BY DEF ClaimConf
<1>2. m \in Nat /\ (n - 1) * c = m - c /\ (n + 1) * c = m + c /\ ((n + 1) - 1) * c = m
  BY <1>1, SMT
<1>3. v = (IF m <= t THEN t - m ELSE 0) /\ Payment(conf) = (IF v >= c THEN c ELSE v)
  BY DEF Left, Payment
<1>4. m < t
  <2> HIDE DEF m, c, v, t
  <2> QED BY <1>1, <1>2, <1>3
<1>5. Payment(conf) \in Nat /\ v - Payment(conf) \in Nat
  <2> HIDE DEF m, c, v, t
  <2> QED BY <1>1, <1>3
<1>6. v - Payment(conf) = IF m + c <= t THEN t - (m + c) ELSE 0
  <2> HIDE DEF m, c, v, t
  <2> QED BY <1>1, <1>2, <1>3, <1>4
<1> DEFINE conf2 == [single_claim |-> c, available |-> v - Payment(conf)]
           used2 == [allocated |-> t, times |-> n + 1]
<1>7. /\ conf2.available = v - Payment(conf) /\ conf2.single_claim = c
      /\ used2.times = n + 1 /\ used2.allocated = t
  BY DEF ClaimConf
<1> HIDE DEF conf2, used2
<1>8. Left(conf2, used2)
  <2> HIDE DEF m, c, v, t, n
  <2> QED BY <1>2, <1>4, <1>6, <1>7 DEF Left
<1> QED BY <1>5, <1>8 DEF conf2, used2

-------------------------------------------------------------------------------
(* The steps. *)

\* One plan is written, and its history with it.
Written(p, plan, history) ==
  /\ DOMAIN plans' = DOMAIN plans \cup {p}
  /\ plans'[p] = plan /\ \A k \in DOMAIN plans \ {p} : plans'[k] = plans[k]
  /\ DOMAIN quota' = DOMAIN quota
  /\ quota'[p] = history /\ \A k \in PlanIds \ {p} : quota'[k] = quota[k]

LEMMA WrittenKeeps ==
  ASSUME Plans, NEW p \in PlanIds, NEW plan, NEW history,
         PlanOK(plan), QuotaOK(plan, history), Written(p, plan, history)
  PROVE  Plans'
<1>1. DOMAIN plans' \subseteq PlanIds /\ DOMAIN quota' = PlanIds
  BY DEF Plans, Written
<1>2. ASSUME NEW k \in DOMAIN plans'
      PROVE  PlanOK(plans'[k]) /\ QuotaOK(plans'[k], quota'[k])
  <2>1. CASE k = p
    BY <2>1 DEF Written
  <2>2. CASE k # p
    <3>1. /\ k \in DOMAIN plans /\ k \in PlanIds
          /\ plans'[k] = plans[k] /\ quota'[k] = quota[k]
      BY <1>1, <2>2 DEF Written
    <3> QED BY <3>1 DEF Plans
  <2> QED BY <2>1, <2>2
<1>3. \A k \in DOMAIN plans' : (PlanOK(plans[k]) /\ QuotaOK(plans[k], quota[k]))'
  BY <1>2 DEF PlanOK, QuotaOK, Left, ClaimConf
<1> QED BY <1>1, <1>3 DEF Plans

LEMMA AdminKeeps ==
  ASSUME Inv, AdminStep
  PROVE  UNCHANGED <<plans, quota, held>> /\ Rest'
<1>1. ASSUME NEW S \in SUBSET Oracles, SetGlobal(S)
      PROVE  UNCHANGED <<plans, quota, held>> /\ Rest'
  BY <1>1, ConstTypes DEF SetGlobal, Inv, Rest, GlobalRow, IsTable, Empty
<1>2. ASSUME NEW o \in Oracles, AddOracle(o)
      PROVE  UNCHANGED <<plans, quota, held>> /\ Rest'
  BY <1>2, ConstTypes DEF AddOracle, Inv, Rest, GlobalRow, IsTable
<1>3. ASSUME NEW o \in Oracles, DelOracle(o)
      PROVE  UNCHANGED <<plans, quota, held>> /\ Rest'
  BY <1>3 DEF DelOracle, Inv, Rest, GlobalRow, IsTable
<1>4. ASSUME NEW c \in Codes, AddToken(c)
      PROVE  UNCHANGED <<plans, quota, held>> /\ Rest'
  <2> DEFINE id == gstate.last_token_id + 1
  <2>1. id \in 1 .. MaxTokens /\ id \in Nat
    BY <1>4, ConstTypes DEF AddToken, FreeKey, Inv, Rest, GlobalRow
  <2>2. gstate' = [gstate EXCEPT !.last_token_id = id] /\ tokens' = Put(tokens, id, c)
    BY <1>4 DEF AddToken
  <2>3. gstate' \in GlobalRow
    <3> HIDE DEF id
    <3> QED BY <2>1, <2>2 DEF Inv, Rest, GlobalRow
  <2>4. IsTable(tokens', 1 .. MaxTokens, Codes)
    <3> HIDE DEF id
    <3> QED BY <2>1, <2>2, PutTyped DEF Inv, Rest
  <2> QED BY <1>4, <2>3, <2>4 DEF AddToken, Inv, Rest
<1>5. ASSUME NEW c \in Codes, DelToken(c)
      PROVE  UNCHANGED <<plans, quota, held>> /\ Rest'
  <2>1. PICK i \in DOMAIN tokens : tokens' = Drop(tokens, {i})
    BY <1>5 DEF DelToken
  <2>2. IsTable(tokens', 1 .. MaxTokens, Codes)
    BY <2>1, DropTyped DEF Inv, Rest
  <2> QED BY <1>5, <2>2 DEF DelToken, Inv, Rest
<1> QED BY <1>1, <1>2, <1>3, <1>4, <1>5 DEF AdminStep

\* A plan gets an id that no row has.
LEMMA AddPlanKeeps ==
  ASSUME Inv, NEW w \in Windows, AddPlan(w)
  PROVE  /\ Inv'
         /\ \A p \in DOMAIN plans : p \in DOMAIN plans' /\ plans'[p] = plans[p]
<1> DEFINE id   == gstate.last_plan_id + 1
           plan == [start |-> w.start, end |-> w.end, claims |-> Empty, claimed_cnt |-> 0]
<1>1. id \in PlanIds /\ id \notin DOMAIN plans /\ id \in Nat
  BY ConstTypes DEF AddPlan, FreeKey, Inv, Rest, GlobalRow, PlanIds
<1>2. /\ gstate' = [gstate EXCEPT !.last_plan_id = id] /\ plans' = Put(plans, id, plan)
      /\ UNCHANGED <<tokens, quota, now, held>>
  BY DEF AddPlan
<1>3. PlanOK(plan) /\ QuotaOK(plan, quota[id])
  <2>1. w.start \in Nat /\ w.end \in Nat /\ w.start <= w.end
    BY ConstTypes DEF AddPlan
  <2> QED BY <2>1 DEF PlanOK, QuotaOK, Empty
<1> HIDE DEF id, plan
<1>4. Written(id, plan, quota[id])
  BY <1>1, <1>2 DEF Put, Written
<1>5. Plans'
  BY <1>1, <1>3, <1>4, WrittenKeeps DEF Inv
<1>6. Rest'
  BY <1>1, <1>2 DEF Inv, Rest, GlobalRow
<1>7. \A p \in DOMAIN plans : p \in DOMAIN plans' /\ plans'[p] = plans[p]
  BY <1>1, <1>4 DEF Written
<1> QED BY <1>5, <1>6, <1>7 DEF Inv

\* What a step other than a claim does to the claims that are counted.
Counted == \A p \in DOMAIN plans \cap DOMAIN plans' :
             plans'[p].claimed_cnt = plans[p].claimed_cnt

\* A plan that is written with its count of claims as it was.
LEMMA WrittenCounts ==
  ASSUME Inv, NEW p \in DOMAIN plans, NEW plan, NEW history, PlanOK(plan),
         QuotaOK(plan, history), Written(p, plan, history),
         UNCHANGED <<gstate, tokens, now, held>>,
         plan.claimed_cnt = plans[p].claimed_cnt
  PROVE  Inv' /\ Counted
<1>1. p \in PlanIds
  BY DEF Inv, Plans
<1>2. Plans'
  BY <1>1, WrittenKeeps DEF Inv
<1>3. Rest'
  BY DEF Inv, Rest
<1>4. Counted
  BY DEF Counted, Written
<1> QED BY <1>2, <1>3, <1>4 DEF Inv

LEMMA SetPlanKeeps ==
  ASSUME Inv, NEW p \in PlanIds, NEW s \in Nat, NEW e \in Nat, SetPlan(p, s, e)
  PROVE  Inv' /\ Counted
<1> DEFINE plan == [plans[p] EXCEPT !.start = s, !.end = e]
<1>1. /\ p \in DOMAIN plans /\ s <= e /\ PlanOK(plans[p]) /\ QuotaOK(plans[p], quota[p])
      /\ plans' = [plans EXCEPT ![p].start = s, ![p].end = e]
      /\ UNCHANGED <<gstate, tokens, quota, now, held>>
  BY DEF SetPlan, Inv, Plans
<1>2. plans' = [plans EXCEPT ![p] = plan]
  BY <1>1
<1>3. /\ plan.claims = plans[p].claims /\ plan.claimed_cnt = plans[p].claimed_cnt
      /\ PlanOK(plan)
  BY <1>1 DEF PlanOK
<1> HIDE DEF plan
<1>4. QuotaOK(plan, quota[p])
  BY <1>1, <1>3 DEF QuotaOK
<1>5. Written(p, plan, quota[p])
  BY <1>1, <1>2 DEF Written
<1> QED BY <1>1, <1>3, <1>4, <1>5, WrittenCounts

LEMMA DelPlanKeeps ==
  ASSUME Inv, NEW p \in PlanIds, DelPlan(p)
  PROVE  Inv' /\ Counted
<1>1. /\ DOMAIN plans' = DOMAIN plans \ {p}
      /\ \A k \in DOMAIN plans' : plans'[k] = plans[k]
  BY DEF DelPlan, Drop
<1>2. DOMAIN quota' = PlanIds /\ \A k \in PlanIds \ {p} : quota'[k] = quota[k]
  BY DEF DelPlan, Inv, Plans
<1>3. \A k \in DOMAIN plans' : PlanOK(plans'[k]) /\ QuotaOK(plans'[k], quota'[k])
  BY <1>1, <1>2 DEF Inv, Plans
<1>4. \A k \in DOMAIN plans' : (PlanOK(plans[k]) /\ QuotaOK(plans[k], quota[k]))'
  BY <1>3 DEF PlanOK, QuotaOK, Left, ClaimConf
<1>5. Plans'
  BY <1>1, <1>2, <1>4 DEF Inv, Plans
<1>6. Rest'
  BY DEF DelPlan, Inv, Rest
<1> QED BY <1>1, <1>5, <1>6 DEF Inv, Counted

LEMMA SetClaimKeeps ==
  ASSUME Inv, NEW p \in PlanIds, NEW a \in Assets, NEW q \in Quotas, SetClaim(p, a, q)
  PROVE  Inv' /\ Counted
<1> DEFINE conf    == [single_claim |-> q.single_claim, available |-> q.allocated]
           used    == [allocated |-> q.allocated, times |-> 0]
           claims  == Put(plans[p].claims, a, conf)
           plan    == [plans[p] EXCEPT !.claims = claims]
           history == Put(quota[p], a, used)
<1>1. /\ p \in DOMAIN plans /\ PlanOK(plans[p]) /\ QuotaOK(plans[p], quota[p])
      /\ plans' = [plans EXCEPT ![p] = plan] /\ quota' = [quota EXCEPT ![p] = history]
      /\ DOMAIN quota = PlanIds
      /\ UNCHANGED <<gstate, tokens, now, held>>
  BY DEF SetClaim, Inv, Plans
<1>2. /\ conf \in ClaimConf /\ used \in [allocated : Nat, times : Nat] /\ Left(conf, used)
  <2>1. q.single_claim \in Nat \ {0} /\ q.allocated \in Nat /\ q.allocated >= q.single_claim
    BY ConstTypes DEF SetClaim
  <2> QED BY <2>1, FreshQuota DEF ClaimConf
<1> HIDE DEF conf, used
<1>3. /\ DOMAIN claims = DOMAIN plans[p].claims \cup {a}
      /\ \A k \in DOMAIN claims : claims[k] = IF k = a THEN conf ELSE plans[p].claims[k]
      /\ claims = [k \in DOMAIN claims |-> claims[k]]
  BY DEF Put
<1>4. /\ DOMAIN history = DOMAIN quota[p] \cup {a}
      /\ \A k \in DOMAIN history : history[k] = IF k = a THEN used ELSE quota[p][k]
  BY DEF Put
<1> HIDE DEF claims, history
<1>5. claims \in [DOMAIN claims -> ClaimConf] /\ DOMAIN claims \subseteq Assets
  BY <1>1, <1>2, <1>3 DEF PlanOK
<1>6. PlanOK(plan) /\ plan.claims = claims /\ plan.claimed_cnt = plans[p].claimed_cnt
  BY <1>1, <1>5 DEF PlanOK
<1> HIDE DEF plan
<1>7. QuotaOK(plan, history)
  BY <1>1, <1>2, <1>3, <1>4, <1>6 DEF QuotaOK
<1>8. Written(p, plan, history)
  BY <1>1 DEF Written
<1> QED BY <1>1, <1>6, <1>7, <1>8, WrittenCounts

LEMMA DelClaimKeeps ==
  ASSUME Inv, NEW p \in PlanIds, NEW a \in Assets, DelClaim(p, a)
  PROVE  Inv' /\ Counted
<1> DEFINE claims  == Drop(plans[p].claims, {a})
           plan    == [plans[p] EXCEPT !.claims = claims]
           history == Drop(quota[p], {a})
<1>1. /\ p \in DOMAIN plans /\ PlanOK(plans[p]) /\ QuotaOK(plans[p], quota[p])
      /\ plans' = [plans EXCEPT ![p] = plan] /\ quota' = [quota EXCEPT ![p] = history]
      /\ DOMAIN quota = PlanIds
      /\ UNCHANGED <<gstate, tokens, now, held>>
  BY DEF DelClaim, Inv, Plans
<1>2. /\ DOMAIN claims = DOMAIN plans[p].claims \ {a}
      /\ \A k \in DOMAIN claims : claims[k] = plans[p].claims[k]
      /\ claims = [k \in DOMAIN claims |-> claims[k]]
  BY DEF Drop
<1>3. /\ DOMAIN history = DOMAIN quota[p] \ {a}
      /\ \A k \in DOMAIN history : history[k] = quota[p][k]
  BY DEF Drop
<1> HIDE DEF claims, history
<1>4. claims \in [DOMAIN claims -> ClaimConf] /\ DOMAIN claims \subseteq Assets
  BY <1>1, <1>2 DEF PlanOK
<1>5. PlanOK(plan) /\ plan.claims = claims /\ plan.claimed_cnt = plans[p].claimed_cnt
  BY <1>1, <1>4 DEF PlanOK
<1> HIDE DEF plan
<1>6. QuotaOK(plan, history)
  BY <1>1, <1>2, <1>3, <1>5 DEF QuotaOK
<1>7. Written(p, plan, history)
  BY <1>1 DEF Written
<1> QED BY <1>1, <1>5, <1>6, <1>7, WrittenCounts

\* A claim pays every token of its plan and no other, and is counted.
Paid(p) ==
  /\ p \in DOMAIN plans /\ p \in DOMAIN plans'
  /\ plans'[p].claimed_cnt = plans[p].claimed_cnt + 1
  /\ \A k \in DOMAIN plans \ {p} : plans'[k] = plans[k]
  /\ \A a \in DOMAIN plans[p].claims :
       LET paid == plans[p].claims[a].available - plans'[p].claims[a].available
       IN  paid > 0 /\ held'[a] = held[a] - paid

LEMMA ClaimKeeps ==
  ASSUME Inv, NEW p \in PlanIds, NEW o \in Oracles, NEW b \in Accounts, Claim(p, o, b)
  PROVE  Inv' /\ Paid(p)
<1> DEFINE old     == plans[p].claims
           new     == [a \in DOMAIN old |->
                         [single_claim |-> old[a].single_claim,
                          available |-> old[a].available - Payment(old[a])]]
           count   == plans[p].claimed_cnt + 1
           plan    == [plans[p] EXCEPT !.claims = new, !.claimed_cnt = count]
           history == [a \in DOMAIN quota[p] |->
                         [allocated |-> quota[p][a].allocated, times |-> quota[p][a].times + 1]]
<1>1. /\ p \in DOMAIN plans /\ PlanOK(plans[p]) /\ QuotaOK(plans[p], quota[p])
      /\ DOMAIN quota = PlanIds
  BY DEF Claim, Inv, Plans
<1>2. plans' = [plans EXCEPT ![p] = plan]
  <2>1. plans' = [plans EXCEPT ![p].claims = new, ![p].claimed_cnt = @ + 1]
    BY DEF Claim
  <2> HIDE DEF old, new
  <2> QED BY <1>1, <2>1 DEF PlanOK
<1>3. quota' = [quota EXCEPT ![p] = history]
  BY DEF Claim
<1>4. /\ UNCHANGED <<gstate, tokens, now>>
      /\ held' = [a \in Assets |-> held[a] - (IF a \in DOMAIN old THEN Payment(old[a]) ELSE 0)]
      /\ \A a \in DOMAIN old : Payment(old[a]) > 0 /\ Payment(old[a]) <= held[a]
  BY DEF Claim, Sendable
<1>5. ASSUME NEW a \in DOMAIN old
      PROVE  /\ old[a] \in ClaimConf /\ new[a] \in ClaimConf /\ a \in Assets
             /\ a \in DOMAIN history /\ history[a] \in [allocated : Nat, times : Nat]
             /\ Left(new[a], history[a])
             /\ Payment(old[a]) \in Nat
             /\ new[a].available = old[a].available - Payment(old[a])
             /\ old[a].available \in Nat
  <2> DEFINE c == old[a]
             u == quota[p][a]
  <2>1. /\ c \in ClaimConf /\ a \in Assets /\ a \in DOMAIN quota[p] /\ Left(c, u)
        /\ u \in [allocated : Nat, times : Nat]
    BY <1>1 DEF PlanOK, QuotaOK
  <2>2. new[a] = [single_claim |-> c.single_claim, available |-> c.available - Payment(c)]
    OBVIOUS
  <2>3. a \in DOMAIN history /\ history[a] = [allocated |-> u.allocated, times |-> u.times + 1]
    BY <2>1
  <2>4. Payment(c) > 0
    BY <1>4
  <2> HIDE DEF c, u, new, history
  <2>5. /\ Payment(c) \in Nat /\ c.available - Payment(c) \in Nat
        /\ Left([single_claim |-> c.single_claim, available |-> c.available - Payment(c)],
                [allocated |-> u.allocated, times |-> u.times + 1])
    BY <2>1, <2>4, NextClaim
  <2>6. new[a] \in ClaimConf /\ new[a].available = c.available - Payment(c)
        /\ c.available \in Nat
    BY <2>1, <2>2, <2>5 DEF ClaimConf
  <2>7. history[a] \in [allocated : Nat, times : Nat]
    BY <2>1, <2>3
  <2>8. Left(new[a], history[a])
    BY <2>2, <2>3, <2>5
  <2> QED BY <2>1, <2>3, <2>5, <2>6, <2>7, <2>8 DEF c
<1>6. plan.claims = new /\ plan.claimed_cnt = plans[p].claimed_cnt + 1
  BY <1>1 DEF PlanOK
<1>7. DOMAIN new = DOMAIN old /\ new = [a \in DOMAIN new |-> new[a]]
  OBVIOUS
<1>8. PlanOK(plan)
  <2>1. new \in [DOMAIN new -> ClaimConf] /\ DOMAIN new \subseteq Assets
    <3> HIDE DEF new, history
    <3> QED BY <1>5, <1>7
  <2>2. plan.claims = new /\ count \in Nat
    BY <1>1 DEF PlanOK
  <2>3. /\ plan.start = plans[p].start /\ plan.end = plans[p].end
        /\ plan \in [start : Nat, end : Nat, claims : [DOMAIN new -> ClaimConf], claimed_cnt : Nat]
    <3> HIDE DEF new, old, count
    <3> QED BY <1>1, <2>1, <2>2 DEF PlanOK
  <2> HIDE DEF new, old, plan
  <2> QED BY <1>1, <2>1, <2>2, <2>3 DEF PlanOK
<1> HIDE DEF plan, history, new
<1>9. QuotaOK(plan, history)
  BY <1>5, <1>6, <1>7 DEF QuotaOK
<1>10. Written(p, plan, history)
  BY <1>1, <1>2, <1>3 DEF Written
<1>11. Plans'
  BY <1>8, <1>9, <1>10, WrittenKeeps DEF Inv
<1>12. held' \in [Assets -> Nat]
  <2>1. held \in [Assets -> Nat]
    BY DEF Inv, Rest
  <2>2. \A a \in Assets : held[a] - (IF a \in DOMAIN old THEN Payment(old[a]) ELSE 0) \in Nat
    <3> HIDE DEF old
    <3> QED BY <1>4, <1>5, <2>1
  <2> QED BY <1>4, <2>2
<1>13. Rest'
  BY <1>4, <1>12 DEF Inv, Rest
<1>14. Paid(p)
  <2>1. plans'[p] = plan /\ p \in DOMAIN plans' /\ \A k \in DOMAIN plans \ {p} : plans'[k] = plans[k]
    BY <1>10 DEF Written
  <2>2. ASSUME NEW a \in DOMAIN old
        PROVE  LET paid == old[a].available - plans'[p].claims[a].available
               IN  paid > 0 /\ held'[a] = held[a] - paid
    <3>1. plans'[p].claims[a].available = old[a].available - Payment(old[a])
      BY <1>5, <1>6, <2>1
    <3>2. held'[a] = held[a] - Payment(old[a]) /\ Payment(old[a]) > 0
      BY <1>4, <1>5
    <3>3. Payment(old[a]) \in Nat /\ old[a].available \in Nat
      BY <1>5
    <3> HIDE DEF old
    <3>4. old[a].available - plans'[p].claims[a].available = Payment(old[a])
      BY <3>1, <3>3
    <3> QED BY <3>2, <3>4
  <2> QED BY <1>1, <1>6, <2>1, <2>2 DEF Paid
<1> QED BY <1>11, <1>13, <1>14 DEF Inv

LEMMA FundKeeps ==
  ASSUME Inv, NEW a \in Assets, NEW n \in 1 .. MaxHeld, Fund(a, n)
  PROVE  Inv' /\ Counted
<1>1. UNCHANGED <<gstate, tokens, plans, quota, now>> /\ held' \in [Assets -> Nat]
  BY DEF Fund, Inv, Rest
<1>2. Plans'
  BY <1>1 DEF Inv, Plans, PlanOK, QuotaOK, Left
<1> QED BY <1>1, <1>2 DEF Inv, Rest, Counted

\* The effect of every step on the plans: counts stay, or one claim is paid.
LEMMA InvStep ==
  Inv /\ [Next]_vars => Inv' /\ (Counted \/ \E p \in PlanIds : Paid(p))
<1> SUFFICES ASSUME Inv, [Next]_vars
             PROVE  Inv' /\ (Counted \/ \E p \in PlanIds : Paid(p))
  OBVIOUS
<1>1. CASE AdminStep
  <2>1. UNCHANGED <<plans, quota, held>> /\ Rest'
    BY <1>1, AdminKeeps
  <2>2. Plans'
    BY <2>1 DEF Inv, Plans, PlanOK, QuotaOK, Left
  <2> QED BY <2>1, <2>2 DEF Inv, Counted
<1>2. CASE PlanStep
  <2>1. ASSUME NEW w \in Windows, AddPlan(w) PROVE Inv' /\ Counted
    BY <2>1, AddPlanKeeps DEF Counted
  <2>2. ASSUME NEW p \in DOMAIN plans, NEW w \in Windows,
               \/ SetPlan(p, w.start, w.end)
               \/ SetPlan(p, plans[p].start, w.end)
               \/ SetPlan(p, w.start, plans[p].end)
        PROVE  Inv' /\ Counted
    <3>1. p \in PlanIds /\ plans[p].start \in Nat /\ plans[p].end \in Nat
      BY DEF Inv, Plans, PlanOK
    <3>2. w.start \in Nat /\ w.end \in Nat
      BY ConstTypes
    <3> QED BY <2>2, <3>1, <3>2, SetPlanKeeps
  <2>3. ASSUME NEW p \in PlanIds, DelPlan(p) PROVE Inv' /\ Counted
    BY <2>3, DelPlanKeeps
  <2>4. ASSUME NEW p \in PlanIds, NEW a \in Assets, NEW q \in Quotas, SetClaim(p, a, q)
        PROVE  Inv' /\ Counted
    BY <2>4, SetClaimKeeps
  <2>5. ASSUME NEW p \in PlanIds, NEW a \in Assets, DelClaim(p, a) PROVE Inv' /\ Counted
    BY <2>5, DelClaimKeeps
  <2> QED BY <1>2, <2>1, <2>2, <2>3, <2>4, <2>5 DEF PlanStep
<1>3. ASSUME NEW p \in PlanIds, NEW o \in Oracles, NEW b \in Accounts, Claim(p, o, b)
      PROVE  Inv' /\ Paid(p)
  BY <1>3, ClaimKeeps
<1>4. ASSUME NEW a \in Assets, NEW n \in 1 .. MaxHeld, Fund(a, n)
      PROVE  Inv' /\ Counted
  BY <1>4, FundKeeps
<1>5. CASE Tick
  <2>1. UNCHANGED <<gstate, tokens, plans, quota, held>> /\ now' \in Nat
    BY <1>5 DEF Tick, Inv, Rest
  <2>2. Plans'
    BY <2>1 DEF Inv, Plans, PlanOK, QuotaOK, Left
  <2> QED BY <2>1, <2>2 DEF Inv, Rest, Counted
<1>6. CASE UNCHANGED vars
  <2>1. UNCHANGED <<gstate, tokens, plans, quota, now, held>>
    BY <1>6 DEF vars
  <2>2. Plans'
    BY <2>1 DEF Inv, Plans, PlanOK, QuotaOK, Left
  <2> QED BY <2>1, <2>2 DEF Inv, Rest, Counted
<1> QED BY <1>1, <1>2, <1>3, <1>4, <1>5, <1>6 DEF Next

LEMMA InvInit == Init => Inv
<1> SUFFICES ASSUME Init PROVE Inv
  OBVIOUS
<1>1. Plans
  BY DEF Init, Plans, Empty
<1>2. Rest
  BY DEF Init, Rest, GlobalRow, IsTable, Empty
<1> QED BY <1>1, <1>2 DEF Inv

LEMMA InvHolds == Spec => []Inv
<1>1. Init => Inv
  BY InvInit
<1>2. Inv /\ [Next]_vars => Inv'
  BY InvStep
<1> QED BY <1>1, <1>2, PTL DEF Spec

-------------------------------------------------------------------------------
(* The theorems. *)

\* The rows hold what the C++ types and the checks promise; no quota and no balance is
\* overdrawn.
THEOREM AirdropTypeCorrect == Spec => []TypeOK
BY InvHolds, InvIsMore, PTL

\* After n claims a token of a plan has paid n full amounts, or its whole quota, whatever
\* quotas, plans and tokens were set, set again and deleted in between.
THEOREM AirdropQuotaIsKept == Spec => []QuotaIsKept
BY InvHolds, InvIsMore, PTL

\* A claim that is counted has paid every token of its plan, out of balance and quota alike.
THEOREM AirdropEveryTokenIsPaid == Spec => EveryTokenIsPaid
<1> DEFINE Act == \A p \in DOMAIN plans \cap DOMAIN plans' :
                    plans'[p].claimed_cnt > plans[p].claimed_cnt =>
                      \A a \in DOMAIN plans[p].claims :
                        LET paid == plans[p].claims[a].available
                                      - plans'[p].claims[a].available
                        IN  paid > 0 /\ held'[a] = held[a] - paid
<1>1. Inv /\ [Next]_vars => Act
  <2> SUFFICES ASSUME Inv, [Next]_vars, NEW p \in DOMAIN plans \cap DOMAIN plans',
                      plans'[p].claimed_cnt > plans[p].claimed_cnt
               PROVE  \A a \in DOMAIN plans[p].claims :
                        LET paid == plans[p].claims[a].available
                                      - plans'[p].claims[a].available
                        IN  paid > 0 /\ held'[a] = held[a] - paid
    OBVIOUS
  <2>1. plans[p].claimed_cnt \in Nat
    BY DEF Inv, Plans, PlanOK
  <2>2. PICK k \in PlanIds : Paid(k)
    BY <2>1, InvStep DEF Counted
  <2>3. k = p
    BY <2>1, <2>2 DEF Paid
  <2> QED BY <2>2, <2>3 DEF Paid
<1>2. Spec => []Inv
  BY InvHolds
<1> QED BY <1>1, <1>2, PTL DEF Spec, EveryTokenIsPaid

\* No step takes back a claim of a plan that stays.
THEOREM AirdropClaimsStayCounted == Spec => ClaimsStayCounted
<1> DEFINE Act == \A p \in DOMAIN plans \cap DOMAIN plans' :
                    plans'[p].claimed_cnt >= plans[p].claimed_cnt
<1>1. Inv /\ [Next]_vars => Act
  <2> SUFFICES ASSUME Inv, [Next]_vars, NEW p \in DOMAIN plans \cap DOMAIN plans'
               PROVE  plans'[p].claimed_cnt >= plans[p].claimed_cnt
    OBVIOUS
  <2>1. plans[p].claimed_cnt \in Nat
    BY DEF Inv, Plans, PlanOK
  <2>2. CASE Counted
    BY <2>1, <2>2 DEF Counted
  <2>3. ASSUME NEW k \in PlanIds, Paid(k) PROVE plans'[p].claimed_cnt >= plans[p].claimed_cnt
    BY <2>1, <2>3 DEF Paid
  <2> QED BY <2>2, <2>3, InvStep
<1>2. Spec => []Inv
  BY InvHolds
<1> QED BY <1>1, <1>2, PTL DEF Spec, ClaimsStayCounted

===============================================================================
