------------------------------- MODULE VestProofs -------------------------------
(***************************************************************************)
(* Proofs about Vest, for every value of its constants.  The inductive     *)
(* invariant Inv joins the types, the plans that rows name, the balance of *)
(* each row and the two sums: the sums need the balance of the rows to     *)
(* know what a release or a refund takes off, and PlansExist to know from  *)
(* which plan and asset it goes.                                           *)
(***************************************************************************)
EXTENDS Vest, TableTheorems, TLAPS

\* The tables are empty before the first action.
LEMMA TypeInit == Init => TypeOK
BY VestAssumption DEF Init, TypeOK, GlobalRow, Empty, IsTable

\* Rounding yields an integer.
LEMMA MultiplyType ==
  ASSUME NEW a \in Nat, NEW b \in Int, NEW p \in Nat \ {0}
  PROVE  multiply_decimal64(a, b, p) \in Int
<1>1. 10 * a * b \in Int OBVIOUS
<1>2. (10 * a * b) \div p \in Int BY <1>1
<1> QED BY <1>2 DEF multiply_decimal64

\* What is due of an issue is an integer; the divisors of the schedule are not 0.
LEMMA TotalType ==
  ASSUME NEW issue \in IssueRow, NEW plan \in PlanRow, NEW t \in Nat
  PROVE  TotalUnlocked(issue, plan, t) \in Int
<1>1. UnlockedDays(issue, t) \in Int
  BY VestAssumption DEF UnlockedDays, IssueRow
<1>2. plan.unlock_interval_days \in Nat \ {0} /\ plan.unlock_times \in Nat \ {0}
  <2>1. plan.unlock_interval_days \in Intervals /\ plan.unlock_times \in Times
    BY DEF PlanRow
  <2>2. \A d \in 1 .. MaxLockDays : d \in Nat \ {0}
    BY VestAssumption
  <2> QED BY <2>1, <2>2, VestAssumption
<1>3. UnlockedTimes(issue, plan, t) \in Int
  BY <1>1, <1>2 DEF UnlockedTimes
<1>4. issue.issued \in Nat
  BY DEF IssueRow
<1>5. multiply_decimal64(issue.issued, UnlockedTimes(issue, plan, t), plan.unlock_times) \in Int
  BY <1>2, <1>3, <1>4, MultiplyType, Zenon
<1> QED BY <1>4, <1>5 DEF TotalUnlocked

\* What the proofs need of the step that releases a portion.
Released(i, p, total, due) ==
  /\ i \in DOMAIN issues /\ issues[i].plan_id = p /\ p \in DOMAIN plans
  /\ issues[i].status = "ongoing"
  /\ total <= issues[i].issued /\ due = total - issues[i].unlocked
  /\ held' = [held EXCEPT ![plans[p].asset] = @ - due]
  /\ plans' = [plans EXCEPT ![p].total_unlocked = @ + due]
  /\ issues' = [issues EXCEPT ![i].unlocked = total,
                              ![i].locked = issues[i].issued - total,
                              ![i].status = IF total = issues[i].issued
                                              THEN "finished" ELSE @]
  /\ UNCHANGED <<gstate, accounts, now, collected>>

\* A release writes a total no larger than the issued amount and pays out what
\* this adds to what was released before.
LEMMA UnlockRow ==
  ASSUME TypeOK, NEW i \in IssueIds, NEW p \in PlanIds, Unlock(i, p)
  PROVE  \E total, due \in Nat : Released(i, p, total, due)
<1> DEFINE total == TotalUnlocked(issues[i], plans[p], now)
           due == total - issues[i].unlocked
<1>1. issues[i] \in IssueRow /\ plans[p] \in PlanRow /\ now \in Nat
  BY DEF Unlock, TypeOK, IsTable
<1>2. total \in Int
  BY <1>1, TotalType
<1>3. total <= issues[i].issued /\ due > 0
  <2>1. CASE FullyDue(issues[i], plans[p], now)
    BY <1>1, <2>1 DEF Unlock, TotalUnlocked, IssueRow
  <2>2. CASE ~ FullyDue(issues[i], plans[p], now)
    BY <1>1, <1>2, <2>2 DEF Unlock, PartialReleaseOk, IssueRow
  <2> QED BY <2>1, <2>2
<1>4. due \in Nat /\ total \in Nat
  BY <1>1, <1>2, <1>3 DEF IssueRow
<1>5. /\ i \in DOMAIN issues /\ issues[i].plan_id = p /\ p \in DOMAIN plans
      /\ issues[i].status = "ongoing"
      /\ held' = [held EXCEPT ![plans[p].asset] = @ - due]
      /\ plans' = [plans EXCEPT ![p].total_unlocked = @ + due]
      /\ issues' = [issues EXCEPT ![i].unlocked = total,
                                  ![i].locked = issues[i].issued - total,
                                  ![i].status = IF total = issues[i].issued
                                                  THEN "finished" ELSE @]
      /\ UNCHANGED <<gstate, accounts, now, collected>>
  BY DEF Unlock
<1>6. Released(i, p, total, due)
  <2> HIDE DEF total
  <2> QED BY <1>3, <1>5 DEF Released
<1> HIDE DEF total, due
<1> QED BY <1>4, <1>6

\* Every action leaves well-typed rows behind.
LEMMA TypeStep == TypeOK /\ [Next]_vars => TypeOK'
<1> SUFFICES ASSUME TypeOK, [Next]_vars PROVE TypeOK'
  OBVIOUS
<1> USE DEF TypeOK
<1>1. ASSUME NEW r \in Accounts, NEW f \in Fees, SetGlobal(r, f) PROVE TypeOK'
  BY <1>1, VestAssumption DEF SetGlobal, GlobalRow
<1>2. ASSUME NEW o \in Accounts, NEW a \in Assets, NEW d \in Intervals, NEW n \in Times,
             AddPlan(o, a, d, n)
      PROVE  TypeOK'
  <2> DEFINE row == NewPlan(o, a, d, n)
  <2>1. PICK id \in PlanIds : /\ plans' = Put(plans, id, row)
                              /\ accounts' = Put(accounts, o, id)
                              /\ UNCHANGED <<gstate, issues, now, held, collected>>
    BY <1>2 DEF AddPlan
  <2>2. row \in PlanRow
    BY DEF PlanRow, PlanStatus, NewPlan
  <2> HIDE DEF row
  <2>3. IsTable(plans', PlanIds, PlanRow)
    BY <2>1, <2>2, PutTyped
  <2>4. IsTable(accounts', Accounts, PlanIds)
    BY <2>1, PutTyped
  <2> QED BY <2>1, <2>3, <2>4
<1>3. ASSUME NEW p \in PlanIds, NEW o \in Accounts, SetPlanOwner(p, o) PROVE TypeOK'
  BY <1>3 DEF SetPlanOwner, PlanRow, IsTable
<1>4. ASSUME NEW p \in PlanIds, NEW s \in PlanStatus, EnablePlan(p, s) PROVE TypeOK'
  BY <1>4 DEF EnablePlan, PlanRow, IsTable
<1>5. ASSUME NEW p, ActivatePlan(p) PROVE TypeOK'
  BY <1>5 DEF ActivatePlan, PlanRow, IsTable, GlobalRow, PlanStatus
<1>6. ASSUME NEW f \in Accounts, NEW r \in Accounts, NEW p \in PlanIds,
             NEW q \in Amounts, NEW d \in FirstDays, Issue(f, r, p, q, d)
      PROVE  TypeOK'
  <2>1. q \in Nat /\ d \in Nat /\ plans[p] \in PlanRow
    BY <1>6, VestAssumption DEF Amounts, Issue, IsTable
  <2>2. NewIssue(p, f, r, q, d, now) \in IssueRow
    BY <2>1 DEF NewIssue, IssueRow, IssueStatus
  <2>3. IsTable(issues', IssueIds, IssueRow)
    <3> DEFINE row == NewIssue(p, f, r, q, d, now)
    <3>1. PICK id \in IssueIds : issues' = Put(issues, id, row)
      BY <1>6 DEF Issue
    <3> HIDE DEF row
    <3> QED BY <2>2, <3>1, PutTyped DEF row
  <2>4. IsTable(plans', PlanIds, PlanRow)
    BY <1>6, <2>1 DEF Issue, PlanRow, IsTable
  <2>5. held' \in [Assets -> Int]
    <3>1. plans[p].asset \in Assets /\ held[plans[p].asset] + q \in Int
      BY <2>1 DEF PlanRow
    <3> QED BY <1>6, <3>1 DEF Issue
  <2> QED BY <1>6, <2>3, <2>4, <2>5 DEF Issue
<1>7. ASSUME NEW i \in IssueIds, NEW r \in Accounts, SetReceiver(i, r) PROVE TypeOK'
  BY <1>7 DEF SetReceiver, IssueRow, IsTable
<1>8. ASSUME NEW i \in IssueIds, NEW d \in FirstDays, SetFirstDays(i, d) PROVE TypeOK'
  BY <1>8, VestAssumption DEF SetFirstDays, IssueRow, IsTable
<1>9. ASSUME NEW i \in IssueIds, NEW r \in Accounts, NEW q \in Amounts, TransIssue(i, r, q)
      PROVE  TypeOK'
  <2> DEFINE issue == issues[i]
             handed == NewIssue(issue.plan_id, issue.issuer, r, q,
                                issue.first_unlock_days, issue.issued_at)
             kept == Kept(issue, q)
  <2>1. PICK n \in IssueIds :
          issues' = IF issue.locked = q THEN Drop(Put(issues, n, handed), {i})
                                        ELSE Put(Put(issues, n, handed), i, kept)
    BY <1>9 DEF TransIssue
  <2>2. issue \in IssueRow /\ q \in Nat /\ q <= issue.locked /\ q <= issue.issued
    BY <1>9, VestAssumption DEF TransIssue, MayHandOver, Amounts, IsTable
  <2>3. handed \in IssueRow
    BY <2>2 DEF NewIssue, IssueRow, IssueStatus
  <2>4. kept \in IssueRow
    <3>1. issue.issued - q \in Nat /\ issue.locked - q \in Nat
      BY <2>2 DEF IssueRow
    <3> QED BY <2>2, <3>1 DEF IssueRow, Kept
  <2> HIDE DEF issue, handed, kept
  <2>5. IsTable(Put(issues, n, handed), IssueIds, IssueRow)
    BY <2>3, PutTyped
  <2>6. IsTable(issues', IssueIds, IssueRow)
    BY <2>1, <2>4, <2>5, PutTyped, DropTyped
  <2> QED BY <1>9, <2>6 DEF TransIssue
<1>10. ASSUME NEW i \in IssueIds, NEW p \in PlanIds, NEW a \in Accounts, EndIssue(i, p, a)
       PROVE  TypeOK'
  BY <1>10 DEF EndIssue, PlanRow, IsTable, IssueRow, IssueStatus
<1>11. ASSUME NEW ids \in SUBSET IssueIds, DelFinIssues(ids) PROVE TypeOK'
  BY <1>11, DropTyped DEF DelFinIssues
<1>12. ASSUME NEW i \in IssueIds, NEW p \in PlanIds, Unlock(i, p) PROVE TypeOK'
  <2>1. PICK total, due \in Nat : Released(i, p, total, due)
    BY <1>12, UnlockRow
  <2>2. issues[i] \in IssueRow /\ plans[p] \in PlanRow
    BY <2>1 DEF IsTable, Released
  <2>3. issues[i].issued - total \in Nat
    BY <2>1, <2>2 DEF IssueRow, Released
  <2>4. IsTable(plans', PlanIds, PlanRow)
    BY <2>1 DEF PlanRow, IsTable, Released
  <2>5. IsTable(issues', IssueIds, IssueRow)
    BY <2>1, <2>3 DEF IssueRow, IssueStatus, IsTable, Released
  <2>6. held' \in [Assets -> Int]
    BY <2>1, <2>2 DEF PlanRow, Released
  <2> QED BY <2>1, <2>4, <2>5, <2>6 DEF Released
<1>13. ASSUME Tick PROVE TypeOK'
  BY <1>13 DEF Tick
<1>14. CASE UNCHANGED vars
  BY <1>14 DEF vars
<1>15. CASE PlanStep
  BY <1>15, <1>1, <1>2, <1>3, <1>4, <1>5 DEF PlanStep, PayPlanFee, PayLastPlanFee
<1>16. CASE IssueStep
  BY <1>16, <1>6, <1>7, <1>8, <1>9, <1>10, <1>11, <1>12 DEF IssueStep
<1> QED BY <1>13, <1>14, <1>15, <1>16 DEF Next

\* The rows stay within the types of the tables: no amount of an issue or of a
\* plan ever becomes negative.
THEOREM VestTypeCorrect == Spec => []TypeOK
<1>1. Init => TypeOK
  BY TypeInit
<1>2. TypeOK /\ [Next]_vars => TypeOK'
  BY TypeStep
<1> QED BY <1>1, <1>2, PTL DEF Spec

-------------------------------------------------------------------------------
(* Solvency. *)

\* What row i contributes to the obligations, and the plan it is counted under.
Weight(i) == IF IsOngoing(i) THEN issues[i].locked ELSE 0
PlanOf(i) == issues[i].plan_id

WeightsTyped ==
  /\ \A p \in PlanIds : LockedOfPlan(p) \in [1 .. MaxIssues -> Int]
  /\ \A a \in Assets : LockedOfAsset(a) \in [1 .. MaxIssues -> Int]
  /\ \A a \in Assets : \A i \in 1 .. MaxIssues : LockedOfAsset(a)[i] >= 0
  /\ \A p \in DOMAIN plans : p \in PlanIds /\ Net(p) \in Int

\* The amounts the sums range over are natural numbers.
LEMMA WeightTypes == TypeOK => WeightsTyped
<1> SUFFICES ASSUME TypeOK PROVE WeightsTyped
  OBVIOUS
<1>1. \A i \in DOMAIN issues : issues[i].locked \in Nat
  BY DEF TypeOK, IsTable, IssueRow
<1>2. \A p \in DOMAIN plans : p \in PlanIds /\ Net(p) \in Int
  BY DEF TypeOK, IsTable, PlanRow, Net
<1> QED BY <1>1, <1>2 DEF WeightsTyped, LockedOfPlan, LockedOfAsset, IsOngoing, IssueIds

\* A step rewrites the issue rows k and l (possibly the same row), both of plan
\* p, and moves the plan's totals and the balance by what it moves their weights.
RowsMoved(k, l, p, d) ==
  /\ DOMAIN plans' = DOMAIN plans
  /\ \A q \in DOMAIN plans : plans'[q].asset = plans[q].asset
  /\ \A q \in DOMAIN plans : Net(q)' = IF q = p THEN Net(q) + d ELSE Net(q)
  /\ held' = [held EXCEPT ![plans[p].asset] = @ + d]
  /\ \A i \in IssueIds : i # k /\ i # l =>
        /\ Weight(i)' = Weight(i)
        /\ IsOngoing(i)' = IsOngoing(i)
        /\ IsOngoing(i) => PlanOf(i)' = PlanOf(i)
  /\ \A i \in {k, l} : /\ IsOngoing(i) => PlanOf(i) = p
                       /\ IsOngoing(i)' => PlanOf(i)' = p
  /\ d = IF k = l THEN Weight(k)' - Weight(k)
                  ELSE Weight(k)' - Weight(k) + Weight(l)' - Weight(l)

\* A step that moves the locked amounts of at most two issues of one plan, and the
\* totals and the balance by as much, keeps both sums.
LEMMA MoveRows ==
  ASSUME TypeOK, TypeOK', PlansExist, PlansExist', PlanLedger, Solvent,
         NEW k \in IssueIds, NEW l \in IssueIds, NEW p \in DOMAIN plans, NEW d \in Int,
         RowsMoved(k, l, p, d)
  PROVE  PlanLedger' /\ Solvent'
<1> USE DEF RowsMoved
<1> DEFINE n == MaxIssues
<1>n. n \in Nat /\ IssueIds = 1 .. n
  BY VestAssumption DEF IssueIds
<1>t. \A i \in IssueIds : Weight(i) \in Int /\ Weight(i)' \in Int
  BY DEF TypeOK, IsTable, IssueRow, Weight, IsOngoing
<1>w. WeightsTyped /\ WeightsTyped'
  BY WeightTypes, PTL
<1>a. plans[p].asset \in Assets /\ held[plans[p].asset] \in Int
  BY DEF TypeOK, IsTable, PlanRow
\* The sum of any weighting that moves like the rows do.
<1>1. ASSUME NEW w \in [1 .. n -> Int], NEW u \in [1 .. n -> Int], NEW B \in BOOLEAN,
             \A i \in IssueIds : i # k /\ i # l => u[i] = w[i],
             \A i \in {k, l} : /\ w[i] = IF B THEN Weight(i) ELSE 0
                               /\ u[i] = IF B THEN Weight(i)' ELSE 0
      PROVE  SumTo(u, n) = SumTo(w, n) + (IF B THEN d ELSE 0) /\ SumTo(w, n) \in Int
  <2>1. SumTo(w, n) \in Int
    BY <1>n, <1>1, SumType
  <2>2. CASE k = l
    <3>1. SumTo(u, n) = SumTo(w, n) - w[k] + u[k]
      BY <1>n, <1>1, <2>2, SumOneRow
    <3> QED BY <1>1, <1>t, <2>1, <2>2, <3>1
  <2>3. CASE k # l
    <3>1. SumTo(u, n) = SumTo(w, n) - w[k] + u[k] - w[l] + u[l]
      BY <1>n, <1>1, <2>3, SumTwoRows
    <3> QED BY <1>1, <1>t, <2>1, <2>3, <3>1
  <2> QED BY <2>2, <2>3
<1>2. PlanLedger'
  <2> SUFFICES ASSUME NEW q \in DOMAIN plans
               PROVE  Net(q)' = SumTo(LockedOfPlan(q)', n)
    BY DEF PlanLedger
  <2> DEFINE w == LockedOfPlan(q)
             u == LockedOfPlan(q)'
  <2>1. w \in [1 .. n -> Int] /\ u \in [1 .. n -> Int]
    BY <1>w DEF WeightsTyped
  <2>2. \A i \in IssueIds : i # k /\ i # l => u[i] = w[i]
    BY DEF LockedOfPlan, Weight, PlanOf
  <2>3. \A i \in {k, l} : /\ w[i] = IF q = p THEN Weight(i) ELSE 0
                          /\ u[i] = IF q = p THEN Weight(i)' ELSE 0
    BY DEF LockedOfPlan, Weight, PlanOf
  <2>4. Net(q) = SumTo(w, n)
    BY DEF PlanLedger
  <2> HIDE DEF w, u
  <2>5. SumTo(u, n) = SumTo(w, n) + (IF q = p THEN d ELSE 0) /\ SumTo(w, n) \in Int
    <3>1. (q = p) \in BOOLEAN OBVIOUS
    <3> QED BY <1>1, <2>1, <2>2, <2>3, <3>1
  <2> QED BY <2>4, <2>5 DEF u
<1>3. Solvent'
  <2> SUFFICES ASSUME NEW a \in Assets
               PROVE  held'[a] = SumTo(LockedOfAsset(a)', n)
    BY DEF Solvent
  <2> DEFINE w == LockedOfAsset(a)
             u == LockedOfAsset(a)'
             B == plans[p].asset = a
  <2>1. w \in [1 .. n -> Int] /\ u \in [1 .. n -> Int]
    BY <1>w DEF WeightsTyped
  <2>2. \A i \in IssueIds : i # k /\ i # l => u[i] = w[i]
    <3>1. \A i \in IssueIds : IsOngoing(i) => PlanOf(i) \in DOMAIN plans
      BY DEF PlansExist, IsOngoing, PlanOf
    <3> QED BY <3>1 DEF LockedOfAsset, Weight, PlanOf
  <2>3. \A i \in {k, l} : /\ w[i] = IF B THEN Weight(i) ELSE 0
                          /\ u[i] = IF B THEN Weight(i)' ELSE 0
    BY DEF LockedOfAsset, Weight, PlanOf
  <2>4. held[a] = SumTo(w, n)
    BY DEF Solvent
  <2>5. held'[a] = held[a] + (IF B THEN d ELSE 0)
    BY <1>a DEF TypeOK
  <2>6. B \in BOOLEAN OBVIOUS
  <2> HIDE DEF w, u, B
  <2>7. SumTo(u, n) = SumTo(w, n) + (IF B THEN d ELSE 0) /\ SumTo(w, n) \in Int
    BY <1>1, <2>1, <2>2, <2>3, <2>6
  <2> QED BY <2>4, <2>5, <2>7 DEF u
<1> QED BY <1>2, <1>3

\* A step that moves no weight and no total; it may add a plan without issues.
LEMMA MoveNothing ==
  ASSUME TypeOK, TypeOK', PlansExist, PlanLedger, Solvent,
         DOMAIN plans \subseteq DOMAIN plans',
         \A q \in DOMAIN plans : plans'[q].asset = plans[q].asset /\ Net(q)' = Net(q),
         \A q \in DOMAIN plans' \ DOMAIN plans : Net(q)' = 0,
         held' = held,
         \A i \in IssueIds : /\ IsOngoing(i)' = IsOngoing(i)
                             /\ IsOngoing(i) => /\ PlanOf(i)' = PlanOf(i)
                                                /\ Weight(i)' = Weight(i)
  PROVE  PlanLedger' /\ Solvent'
<1>n. MaxIssues \in Nat /\ IssueIds = 1 .. MaxIssues
  BY VestAssumption DEF IssueIds
<1>w. WeightsTyped /\ WeightsTyped'
  BY WeightTypes, PTL
<1>p. \A i \in IssueIds : IsOngoing(i) => PlanOf(i) \in DOMAIN plans
  BY DEF PlansExist, IsOngoing, PlanOf
<1>1. \A q \in PlanIds : LockedOfPlan(q)' = LockedOfPlan(q)
  BY DEF LockedOfPlan, Weight, PlanOf
<1>2. \A a \in Assets : LockedOfAsset(a)' = LockedOfAsset(a)
  BY <1>p DEF LockedOfAsset, Weight, PlanOf
<1>3. ASSUME NEW q \in DOMAIN plans' PROVE Net(q)' = SumTo(LockedOfPlan(q)', MaxIssues)
  <2>1. q \in PlanIds
    BY <1>w DEF WeightsTyped
  <2>2. CASE q \in DOMAIN plans
    BY <1>1, <2>1, <2>2 DEF PlanLedger
  <2>3. CASE q \notin DOMAIN plans
    <3>1. \A i \in 1 .. MaxIssues : LockedOfPlan(q)[i] = 0
      BY <1>n, <1>p, <2>3 DEF LockedOfPlan, PlanOf
    <3>2. LockedOfPlan(q) \in [1 .. MaxIssues -> Int]
      BY <1>w, <2>1 DEF WeightsTyped
    <3>3. SumTo(LockedOfPlan(q), MaxIssues) = 0
      BY <1>n, <3>1, <3>2, SumOfZeros
    <3> QED BY <1>1, <2>1, <2>3, <3>3
  <2> QED BY <2>2, <2>3
<1> QED BY <1>2, <1>3 DEF PlanLedger, Solvent

\* The invariant of the contract.
Inv == TypeOK /\ PlansExist /\ IssueBalanced /\ PlanLedger /\ Solvent

\* What the proofs need of the step that hands q of issue i over as issue n.
HandedOver(i, q, n) ==
  /\ i \in DOMAIN issues /\ n \notin DOMAIN issues /\ n \in DOMAIN issues'
  /\ DOMAIN issues' \subseteq DOMAIN issues \cup {n}
  /\ \A j \in DOMAIN issues \ {i} : j \in DOMAIN issues' /\ issues'[j] = issues[j]
  /\ issues[i].status = "ongoing" /\ q <= issues[i].locked
  /\ issues'[n].plan_id = issues[i].plan_id
  /\ issues'[n].status = "ongoing"
  /\ issues'[n].issued = q /\ issues'[n].locked = q /\ issues'[n].unlocked = 0
  /\ i \in DOMAIN issues' <=> issues[i].locked # q
  /\ i \in DOMAIN issues' =>
       issues'[i] = [issues[i] EXCEPT !.issued = @ - q, !.locked = @ - q]

\* What a handover does to the two rows it writes.
LEMMA TransIssueRows ==
  ASSUME TypeOK, NEW i \in IssueIds, NEW r \in Accounts, NEW q \in Amounts, TransIssue(i, r, q)
  PROVE  \E n \in IssueIds \ {i} : HandedOver(i, q, n)
<1>1. i \in DOMAIN issues /\ issues[i].status = "ongoing" /\ q <= issues[i].locked
  BY DEF TransIssue, MayHandOver
<1> DEFINE issue == issues[i]
           handed == NewIssue(issue.plan_id, issue.issuer, r, q,
                              issue.first_unlock_days, issue.issued_at)
           kept == Kept(issue, q)
<1>2. PICK n \in IssueIds :
        /\ IsNextKey(issues, n)
        /\ issues' = IF issue.locked = q THEN Drop(Put(issues, n, handed), {i})
                                         ELSE Put(Put(issues, n, handed), i, kept)
  BY DEF TransIssue
<1>3. n \notin DOMAIN issues /\ n # i
  BY <1>1, <1>2, NextKeyIsNew DEF TypeOK, IsTable, IssueIds
<1>4. /\ handed.plan_id = issues[i].plan_id /\ handed.status = "ongoing"
      /\ handed.issued = q /\ handed.locked = q /\ handed.unlocked = 0
  BY DEF NewIssue
<1>5. /\ n \in DOMAIN issues' /\ issues'[n] = handed
      /\ DOMAIN issues' \subseteq DOMAIN issues \cup {n}
      /\ \A j \in DOMAIN issues \ {i} : j \in DOMAIN issues' /\ issues'[j] = issues[j]
      /\ i \in DOMAIN issues' <=> issues[i].locked # q
      /\ i \in DOMAIN issues' => issues'[i] = kept
  <2> HIDE DEF handed, kept
  <2> QED BY <1>1, <1>2, <1>3 DEF Put, Drop
<1> HIDE DEF handed, kept
<1> QED BY <1>1, <1>3, <1>4, <1>5 DEF HandedOver, kept, Kept

\* Every action keeps the plans that rows name: plans are never erased.
LEMMA PlansExistStep == TypeOK /\ PlansExist /\ [Next]_vars => PlansExist'
<1> SUFFICES ASSUME TypeOK, PlansExist, [Next]_vars PROVE PlansExist'
  OBVIOUS
<1> USE DEF PlansExist
<1>1. ASSUME NEW r \in Accounts, NEW f \in Fees, SetGlobal(r, f) PROVE PlansExist'
  BY <1>1 DEF SetGlobal
<1>2. ASSUME NEW o \in Accounts, NEW a \in Assets, NEW d \in Intervals, NEW n \in Times,
             AddPlan(o, a, d, n)
      PROVE  PlansExist'
  BY <1>2 DEF AddPlan, Put
<1>3. ASSUME NEW p \in PlanIds, NEW o \in Accounts, SetPlanOwner(p, o) PROVE PlansExist'
  BY <1>3 DEF SetPlanOwner
<1>4. ASSUME NEW p \in PlanIds, NEW s \in PlanStatus, EnablePlan(p, s) PROVE PlansExist'
  BY <1>4 DEF EnablePlan
<1>5. ASSUME NEW p, ActivatePlan(p) PROVE PlansExist'
  BY <1>5 DEF ActivatePlan
<1>6. ASSUME NEW f \in Accounts, NEW r \in Accounts, NEW p \in PlanIds,
             NEW q \in Amounts, NEW d \in FirstDays, Issue(f, r, p, q, d)
      PROVE  PlansExist'
  <2> DEFINE row == NewIssue(p, f, r, q, d, now)
  <2>1. PICK id \in IssueIds : issues' = Put(issues, id, row)
    BY <1>6 DEF Issue
  <2>2. row.plan_id = p
    BY DEF NewIssue
  <2> HIDE DEF row
  <2>3. p \in DOMAIN plans /\ DOMAIN plans' = DOMAIN plans /\ accounts' = accounts
    BY <1>6 DEF Issue
  <2> QED BY <2>1, <2>2, <2>3 DEF Put
<1>7. ASSUME NEW i \in IssueIds, NEW r \in Accounts, SetReceiver(i, r) PROVE PlansExist'
  BY <1>7 DEF SetReceiver
<1>8. ASSUME NEW i \in IssueIds, NEW d \in FirstDays, SetFirstDays(i, d) PROVE PlansExist'
  BY <1>8 DEF SetFirstDays
<1>9. ASSUME NEW i \in IssueIds, NEW r \in Accounts, NEW q \in Amounts, TransIssue(i, r, q)
      PROVE  PlansExist'
  <2>1. plans' = plans /\ accounts' = accounts
    BY <1>9 DEF TransIssue
  <2>2. PICK n \in IssueIds \ {i} : HandedOver(i, q, n)
    BY <1>9, TransIssueRows
  <2>3. \A j \in DOMAIN issues' : issues'[j].plan_id \in DOMAIN plans
    <3>1. \A j \in DOMAIN issues : issues[j] \in IssueRow
      BY DEF TypeOK, IsTable
    <3>2. i \in DOMAIN issues' => issues'[i].plan_id = issues[i].plan_id
      BY <2>2, <3>1 DEF HandedOver, IssueRow
    <3> QED BY <2>2, <3>2 DEF HandedOver
  <2> QED BY <2>1, <2>3
<1>10. ASSUME NEW i \in IssueIds, NEW p \in PlanIds, NEW a \in Accounts, EndIssue(i, p, a)
       PROVE  PlansExist'
  BY <1>10 DEF EndIssue
<1>11. ASSUME NEW ids \in SUBSET IssueIds, DelFinIssues(ids) PROVE PlansExist'
  BY <1>11 DEF DelFinIssues, Drop
<1>12. ASSUME NEW i \in IssueIds, NEW p \in PlanIds, Unlock(i, p) PROVE PlansExist'
  BY <1>12 DEF Unlock
<1>13. ASSUME Tick PROVE PlansExist'
  BY <1>13 DEF Tick
<1>14. CASE UNCHANGED vars
  BY <1>14 DEF vars
<1>15. CASE PlanStep
  BY <1>15, <1>1, <1>2, <1>3, <1>4, <1>5 DEF PlanStep, PayPlanFee, PayLastPlanFee
<1>16. CASE IssueStep
  BY <1>16, <1>6, <1>7, <1>8, <1>9, <1>10, <1>11, <1>12 DEF IssueStep
<1> QED BY <1>13, <1>14, <1>15, <1>16 DEF Next

\* Every action keeps issued = locked + unlocked on every row.
LEMMA BalancedStep == TypeOK /\ IssueBalanced /\ [Next]_vars => IssueBalanced'
<1> SUFFICES ASSUME TypeOK, IssueBalanced, [Next]_vars PROVE IssueBalanced'
  OBVIOUS
<1> USE DEF IssueBalanced
<1>0. \A i \in DOMAIN issues : issues[i] \in IssueRow
  BY DEF TypeOK, IsTable
<1>1. CASE PlanStep \/ Tick \/ UNCHANGED vars
  BY <1>1 DEF PlanStep, SetGlobal, AddPlan, SetPlanOwner, EnablePlan, ActivatePlan,
              PayPlanFee, PayLastPlanFee, Tick, vars
<1>2. ASSUME NEW f \in Accounts, NEW r \in Accounts, NEW p \in PlanIds,
             NEW q \in Amounts, NEW d \in FirstDays, Issue(f, r, p, q, d)
      PROVE  IssueBalanced'
  <2> DEFINE row == NewIssue(p, f, r, q, d, now)
  <2>1. PICK id \in IssueIds : issues' = Put(issues, id, row)
    BY <1>2 DEF Issue
  <2>2. row.issued = row.locked + row.unlocked /\ row.locked > 0
    BY VestAssumption DEF NewIssue, Amounts
  <2> HIDE DEF row
  <2> QED BY <2>1, <2>2 DEF Put
<1>3. ASSUME NEW i \in IssueIds, NEW r \in Accounts, SetReceiver(i, r) PROVE IssueBalanced'
  BY <1>0, <1>3 DEF SetReceiver, IssueRow
<1>4. ASSUME NEW i \in IssueIds, NEW d \in FirstDays, SetFirstDays(i, d) PROVE IssueBalanced'
  BY <1>0, <1>4 DEF SetFirstDays, IssueRow
<1>5. ASSUME NEW i \in IssueIds, NEW r \in Accounts, NEW q \in Amounts, TransIssue(i, r, q)
      PROVE  IssueBalanced'
  <2>1. q \in Nat \ {0}
    BY VestAssumption DEF Amounts
  <2>2. PICK n \in IssueIds \ {i} : HandedOver(i, q, n)
    BY <1>5, TransIssueRows
  <2> SUFFICES ASSUME NEW j \in DOMAIN issues'
               PROVE  /\ issues'[j].issued = issues'[j].locked + issues'[j].unlocked
                      /\ issues'[j].status = "ongoing" => issues'[j].locked > 0
    OBVIOUS
  <2>3. CASE j = n BY <2>1, <2>2, <2>3 DEF HandedOver
  <2>4. CASE j = i
    <3>1. /\ i \in DOMAIN issues /\ issues[i].locked # q /\ q <= issues[i].locked
          /\ issues[i].status = "ongoing"
          /\ issues'[i] = [issues[i] EXCEPT !.issued = @ - q, !.locked = @ - q]
      BY <2>2, <2>4 DEF HandedOver
    <3>2. /\ issues'[i].issued = issues[i].issued - q
          /\ issues'[i].locked = issues[i].locked - q
          /\ issues'[i].unlocked = issues[i].unlocked
      BY <1>0, <3>1 DEF IssueRow
    <3>3. issues[i].issued \in Nat /\ issues[i].locked \in Nat /\ issues[i].unlocked \in Nat
      BY <1>0, <3>1 DEF IssueRow
    <3>4. issues[i].issued = issues[i].locked + issues[i].unlocked
      BY <3>1
    <3> QED BY <2>1, <2>4, <3>1, <3>2, <3>3, <3>4
  <2>5. CASE j # i /\ j # n
    BY <2>2, <2>5 DEF HandedOver
  <2> QED BY <2>3, <2>4, <2>5
<1>6. ASSUME NEW i \in IssueIds, NEW p \in PlanIds, NEW a \in Accounts, EndIssue(i, p, a)
      PROVE  IssueBalanced'
  BY <1>0, <1>6 DEF EndIssue, IssueRow
<1>7. ASSUME NEW ids \in SUBSET IssueIds, DelFinIssues(ids) PROVE IssueBalanced'
  BY <1>7 DEF DelFinIssues, Drop
<1>8. ASSUME NEW i \in IssueIds, NEW p \in PlanIds, Unlock(i, p) PROVE IssueBalanced'
  <2>1. PICK total, due \in Nat : Released(i, p, total, due)
    BY <1>8, UnlockRow
  <2> QED BY <1>0, <2>1 DEF IssueRow, Released
<1>9. CASE IssueStep
  BY <1>9, <1>2, <1>3, <1>4, <1>5, <1>6, <1>7, <1>8 DEF IssueStep
<1> QED BY <1>1, <1>9 DEF Next

\* A step that moves no weight and no total; it may add a plan without issues.
NothingMoved ==
  /\ DOMAIN plans \subseteq DOMAIN plans'
  /\ \A q \in DOMAIN plans : plans'[q].asset = plans[q].asset /\ Net(q)' = Net(q)
  /\ \A q \in DOMAIN plans' \ DOMAIN plans : Net(q)' = 0
  /\ held' = held
  /\ \A i \in IssueIds : /\ IsOngoing(i)' = IsOngoing(i)
                         /\ IsOngoing(i) => /\ PlanOf(i)' = PlanOf(i)
                                            /\ Weight(i)' = Weight(i)

\* A step that moves the weight of one row, or weight from row k to row l.
Moved(k, l, p, d) ==
  /\ RowsMoved(k, l, p, d)
  /\ k # l => d = 0 /\ Weight(k)' <= Weight(k)

Effect ==
  \/ NothingMoved
  \/ \E k, l \in IssueIds, p \in DOMAIN plans, d \in Int : Moved(k, l, p, d)

\* What each action does to the rows, the totals and the balance.
LEMMA StepEffect == Inv /\ [Next]_vars => Effect
<1> SUFFICES ASSUME Inv, [Next]_vars PROVE Effect
  OBVIOUS
<1>t. TypeOK /\ TypeOK' /\ PlansExist /\ PlansExist' /\ PlanLedger /\ Solvent
  BY TypeStep, PlansExistStep DEF Inv
<1>r. /\ \A i \in DOMAIN issues : issues[i] \in IssueRow /\ i \in IssueIds
      /\ \A p \in DOMAIN plans : plans[p] \in PlanRow
  BY <1>t DEF TypeOK, IsTable
\* Steps that leave the rows' weights and the totals alone.
<1>1. CASE \/ \E r \in Accounts, f \in Fees : SetGlobal(r, f)
           \/ Tick \/ UNCHANGED vars
  <2>1. plans' = plans /\ issues' = issues /\ held' = held
    BY <1>1 DEF SetGlobal, Tick, vars
  <2> QED BY <1>t, <2>1 DEF Effect, NothingMoved, IsOngoing, PlanOf, Weight, Net
<1>2. ASSUME NEW o \in Accounts, NEW a \in Assets, NEW d \in Intervals, NEW n \in Times,
             AddPlan(o, a, d, n)
      PROVE  Effect
  <2> DEFINE row == NewPlan(o, a, d, n)
  <2>1. PICK id \in PlanIds : IsNextKey(plans, id) /\ plans' = Put(plans, id, row)
    BY <1>2 DEF AddPlan
  <2>2. id \notin DOMAIN plans
    BY <1>t, <2>1, NextKeyIsNew DEF TypeOK, IsTable, PlanIds
  <2>3. row.total_issued = 0 /\ row.total_unlocked = 0 /\ row.total_refunded = 0
    BY DEF NewPlan
  <2>4. issues' = issues /\ held' = held
    BY <1>2 DEF AddPlan
  <2> HIDE DEF row
  <2>5. /\ DOMAIN plans \subseteq DOMAIN plans' /\ DOMAIN plans' \ DOMAIN plans = {id}
        /\ plans'[id] = row /\ \A q \in DOMAIN plans : plans'[q] = plans[q]
    BY <2>1, <2>2 DEF Put
  <2>6. Net(id)' = 0 /\ \A q \in DOMAIN plans : Net(q)' = Net(q)
    BY <2>3, <2>5 DEF Net
  <2> QED BY <1>t, <2>4, <2>5, <2>6 DEF Effect, NothingMoved, IsOngoing, PlanOf, Weight
<1>3. ASSUME NEW p \in DOMAIN plans, NEW row,
             plans' = [plans EXCEPT ![p] = row], issues' = issues, held' = held,
             row.asset = plans[p].asset,
             row.total_issued = plans[p].total_issued,
             row.total_unlocked = plans[p].total_unlocked,
             row.total_refunded = plans[p].total_refunded
      PROVE  Effect
  <2>1. \A q \in DOMAIN plans : plans'[q].asset = plans[q].asset /\ Net(q)' = Net(q)
    BY <1>3 DEF Net
  <2> QED BY <1>t, <1>3, <2>1 DEF Effect, NothingMoved, IsOngoing, PlanOf, Weight
<1>4. ASSUME NEW p \in PlanIds, NEW o \in Accounts, SetPlanOwner(p, o)
      PROVE  Effect
  <2>1. p \in DOMAIN plans /\ plans' = [plans EXCEPT ![p] = [plans[p] EXCEPT !.owner = o]]
    BY <1>4 DEF SetPlanOwner
  <2>2. plans[p] \in PlanRow
    BY <1>r, <2>1
  <2> QED BY <1>3, <1>4, <2>1, <2>2 DEF SetPlanOwner, PlanRow
<1>5. ASSUME NEW p \in PlanIds, NEW s \in PlanStatus, EnablePlan(p, s)
      PROVE  Effect
  <2>1. p \in DOMAIN plans /\ plans' = [plans EXCEPT ![p] = [plans[p] EXCEPT !.status = s]]
    BY <1>5 DEF EnablePlan
  <2>2. plans[p] \in PlanRow
    BY <1>r, <2>1
  <2> QED BY <1>3, <1>5, <2>1, <2>2 DEF EnablePlan, PlanRow
<1>6. ASSUME NEW p, ActivatePlan(p)
      PROVE  Effect
  <2>1. p \in DOMAIN plans /\ plans' = [plans EXCEPT ![p] = [plans[p] EXCEPT !.status = "enabled"]]
    BY <1>6 DEF ActivatePlan
  <2>2. plans[p] \in PlanRow
    BY <1>r, <2>1
  <2> QED BY <1>3, <1>6, <2>1, <2>2 DEF ActivatePlan, PlanRow
<1>7. ASSUME NEW i \in DOMAIN issues, NEW row \in IssueRow,
             issues' = [issues EXCEPT ![i] = row], plans' = plans, held' = held,
             row.status = issues[i].status, row.plan_id = issues[i].plan_id,
             row.locked = issues[i].locked
      PROVE  Effect
  <2>1. \A j \in IssueIds : /\ IsOngoing(j)' = IsOngoing(j)
                            /\ IsOngoing(j) => /\ PlanOf(j)' = PlanOf(j)
                                               /\ Weight(j)' = Weight(j)
    BY <1>7 DEF IsOngoing, PlanOf, Weight
  <2> QED BY <1>t, <1>7, <2>1 DEF Effect, NothingMoved, Net
<1>8. ASSUME NEW i \in IssueIds, NEW r \in Accounts, SetReceiver(i, r)
      PROVE  Effect
  <2>1. i \in DOMAIN issues /\ issues' = [issues EXCEPT ![i] = [issues[i] EXCEPT !.receiver = r]]
    BY <1>8 DEF SetReceiver
  <2> QED BY <1>r, <1>7, <1>8, <2>1 DEF SetReceiver, IssueRow
<1>9. ASSUME NEW i \in IssueIds, NEW d \in FirstDays, SetFirstDays(i, d)
      PROVE  Effect
  <2>1. i \in DOMAIN issues /\ d \in Nat
        /\ issues' = [issues EXCEPT ![i] = [issues[i] EXCEPT !.first_unlock_days = d]]
    BY <1>9, VestAssumption DEF SetFirstDays
  <2> QED BY <1>r, <1>7, <1>9, <2>1 DEF SetFirstDays, IssueRow
<1>10. ASSUME NEW ids \in SUBSET IssueIds, DelFinIssues(ids)
       PROVE  Effect
  <2>1. \A j \in IssueIds : /\ IsOngoing(j)' = IsOngoing(j)
                            /\ IsOngoing(j) => /\ PlanOf(j)' = PlanOf(j)
                                               /\ Weight(j)' = Weight(j)
    BY <1>10 DEF DelFinIssues, Drop, IsOngoing, PlanOf, Weight
  <2> QED BY <1>t, <1>10, <2>1 DEF Effect, NothingMoved, Net, DelFinIssues
\* Steps that move weights.
<1>11. ASSUME NEW f \in Accounts, NEW r \in Accounts, NEW p \in PlanIds,
              NEW q \in Amounts, NEW d \in FirstDays, Issue(f, r, p, q, d)
       PROVE  Effect
  <2> DEFINE row == NewIssue(p, f, r, q, d, now)
  <2>1. PICK id \in IssueIds : IsNextKey(issues, id) /\ issues' = Put(issues, id, row)
    BY <1>11 DEF Issue
  <2>2. id \notin DOMAIN issues
    BY <1>t, <2>1, NextKeyIsNew DEF TypeOK, IsTable, IssueIds
  <2>3. row.plan_id = p /\ row.locked = q /\ row.status = "ongoing"
    BY DEF NewIssue
  <2>4. q \in Int /\ p \in DOMAIN plans
    BY <1>11 DEF Issue, Amounts
  <2> HIDE DEF row
  <2>5. /\ ~ IsOngoing(id) /\ IsOngoing(id)' /\ PlanOf(id)' = p
        /\ Weight(id) = 0 /\ Weight(id)' = q
    BY <2>1, <2>2, <2>3 DEF Put, IsOngoing, PlanOf, Weight
  <2>6. \A j \in IssueIds : j # id =>
            /\ Weight(j)' = Weight(j) /\ IsOngoing(j)' = IsOngoing(j)
            /\ IsOngoing(j) => PlanOf(j)' = PlanOf(j)
    BY <2>1 DEF Put, IsOngoing, PlanOf, Weight
  <2>7. plans' = [plans EXCEPT ![p] = [plans[p] EXCEPT !.total_issued = @ + q]]
    BY <1>11 DEF Issue
  <2>8. /\ DOMAIN plans' = DOMAIN plans
        /\ \A k \in DOMAIN plans : /\ plans'[k].asset = plans[k].asset
                                   /\ Net(k)' = IF k = p THEN Net(k) + q ELSE Net(k)
    BY <1>r, <2>4, <2>7 DEF Net, PlanRow
  <2>9. held' = [held EXCEPT ![plans[p].asset] = @ + q]
    BY <1>11 DEF Issue
  <2>10. q = Weight(id)' - Weight(id)
    BY <2>4, <2>5
  <2> SUFFICES RowsMoved(id, id, p, q)
    BY <1>t, <2>4 DEF Effect, Moved
  <2> QED BY <2>4, <2>5, <2>6, <2>8, <2>9, <2>10 DEF RowsMoved
<1>12. ASSUME NEW i \in IssueIds, NEW p \in PlanIds, NEW a \in Accounts, EndIssue(i, p, a)
       PROVE  Effect
  <2> DEFINE refund == issues[i].locked
             d == 0 - refund
  <2>1. /\ i \in DOMAIN issues /\ p \in DOMAIN plans /\ issues[i].plan_id = p
        /\ issues[i].status # "finished"
        /\ held' = [held EXCEPT ![plans[p].asset] = @ - refund]
        /\ plans' = [plans EXCEPT ![p] = [plans[p] EXCEPT !.total_refunded = @ + refund]]
        /\ issues' = [issues EXCEPT ![i] = [issues[i] EXCEPT !.status = "finished"]]
    BY <1>12 DEF EndIssue, MayEnd
  <2>2. issues[i] \in IssueRow /\ refund \in Int /\ d \in Int /\ plans[p] \in PlanRow
    BY <1>r, <2>1 DEF IssueRow
  <2>3. /\ IsOngoing(i) /\ ~ IsOngoing(i)' /\ PlanOf(i) = p
        /\ Weight(i) = refund /\ Weight(i)' = 0
    BY <2>1, <2>2 DEF IsOngoing, PlanOf, Weight, IssueRow, IssueStatus
  <2>4. \A j \in IssueIds : j # i =>
            /\ Weight(j)' = Weight(j) /\ IsOngoing(j)' = IsOngoing(j)
            /\ IsOngoing(j) => PlanOf(j)' = PlanOf(j)
    BY <2>1 DEF IsOngoing, PlanOf, Weight
  <2> HIDE DEF refund
  <2>5. /\ DOMAIN plans' = DOMAIN plans
        /\ \A k \in DOMAIN plans : /\ plans'[k].asset = plans[k].asset
                                   /\ Net(k)' = IF k = p THEN Net(k) + d ELSE Net(k)
    BY <1>r, <2>1, <2>2 DEF Net, PlanRow
  <2>6. held' = [held EXCEPT ![plans[p].asset] = @ + d]
    <3>1. plans[p].asset \in Assets /\ held[plans[p].asset] \in Int
      BY <1>t, <2>2 DEF PlanRow, TypeOK
    <3>2. held[plans[p].asset] - refund = held[plans[p].asset] + d
      BY <2>2, <3>1
    <3> QED BY <2>1, <3>2
  <2>7. d = Weight(i)' - Weight(i)
    BY <2>2, <2>3
  <2> HIDE DEF d
  <2> SUFFICES RowsMoved(i, i, p, d)
    BY <1>t, <2>1, <2>2 DEF Effect, Moved
  <2> QED BY <2>1, <2>2, <2>3, <2>4, <2>5, <2>6, <2>7 DEF RowsMoved
<1>13. ASSUME NEW i \in IssueIds, NEW p \in PlanIds, Unlock(i, p)
       PROVE  Effect
  <2>1. PICK total, due \in Nat : Released(i, p, total, due)
    BY <1>t, <1>13, UnlockRow
  <2> DEFINE d == 0 - due
  <2>2. /\ i \in DOMAIN issues /\ p \in DOMAIN plans /\ issues[i].plan_id = p
        /\ issues[i].status = "ongoing" /\ due = total - issues[i].unlocked
        /\ total <= issues[i].issued
        /\ held' = [held EXCEPT ![plans[p].asset] = @ - due]
        /\ plans' = [plans EXCEPT ![p] = [plans[p] EXCEPT !.total_unlocked = @ + due]]
    BY <2>1 DEF Released
  <2>3. issues[i] \in IssueRow /\ plans[p] \in PlanRow /\ d \in Int
    BY <1>r, <2>2
  <2>4. /\ DOMAIN issues' = DOMAIN issues
        /\ \A j \in DOMAIN issues : j # i => issues'[j] = issues[j]
        /\ issues'[i].locked = issues[i].issued - total
        /\ issues'[i].plan_id = p
        /\ issues'[i].status = IF total = issues[i].issued THEN "finished" ELSE "ongoing"
    BY <2>1, <2>2, <2>3 DEF Released, IssueRow
  <2>5. issues[i].issued = issues[i].locked + issues[i].unlocked
    BY <2>2 DEF Inv, IssueBalanced
  <2>6. /\ issues[i].issued \in Nat /\ issues[i].locked \in Nat /\ issues[i].unlocked \in Nat
    BY <2>3 DEF IssueRow
  <2>7. IsOngoing(i) /\ PlanOf(i) = p /\ PlanOf(i)' = p /\ Weight(i) = issues[i].locked
    BY <2>2, <2>4 DEF IsOngoing, PlanOf, Weight
  <2>8. Weight(i)' = issues[i].issued - total
    <3>1. CASE total = issues[i].issued
      BY <2>2, <2>4, <2>6, <3>1 DEF Weight, IsOngoing
    <3>2. CASE total # issues[i].issued
      BY <2>2, <2>4, <3>2 DEF Weight, IsOngoing
    <3> QED BY <3>1, <3>2
  <2>9. d = Weight(i)' - Weight(i)
    BY <2>2, <2>5, <2>6, <2>7, <2>8
  <2>10. \A j \in IssueIds : j # i =>
            /\ Weight(j)' = Weight(j) /\ IsOngoing(j)' = IsOngoing(j)
            /\ IsOngoing(j) => PlanOf(j)' = PlanOf(j)
    BY <2>4 DEF IsOngoing, PlanOf, Weight
  <2>11. /\ DOMAIN plans' = DOMAIN plans
         /\ \A k \in DOMAIN plans : /\ plans'[k].asset = plans[k].asset
                                    /\ Net(k)' = IF k = p THEN Net(k) + d ELSE Net(k)
    BY <1>r, <2>2, <2>3 DEF Net, PlanRow
  <2>12. held' = [held EXCEPT ![plans[p].asset] = @ + d]
    <3>1. plans[p].asset \in Assets /\ held[plans[p].asset] \in Int
      BY <1>t, <2>3 DEF PlanRow, TypeOK
    <3>2. held[plans[p].asset] - due = held[plans[p].asset] + d
      BY <3>1
    <3> QED BY <2>2, <3>2
  <2> HIDE DEF d
  <2> SUFFICES RowsMoved(i, i, p, d)
    BY <1>t, <2>2, <2>3 DEF Effect, Moved
  <2> QED BY <2>2, <2>3, <2>7, <2>9, <2>10, <2>11, <2>12 DEF RowsMoved
<1>14. ASSUME NEW i \in IssueIds, NEW r \in Accounts, NEW q \in Amounts, TransIssue(i, r, q)
       PROVE  Effect
  <2>1. PICK n \in IssueIds \ {i} : HandedOver(i, q, n)
    BY <1>t, <1>14, TransIssueRows
  <2> DEFINE p == issues[i].plan_id
  <2>2. /\ i \in DOMAIN issues /\ n \notin DOMAIN issues /\ n \in DOMAIN issues'
        /\ DOMAIN issues' \subseteq DOMAIN issues \cup {n}
        /\ \A j \in DOMAIN issues \ {i} : j \in DOMAIN issues' /\ issues'[j] = issues[j]
        /\ issues[i].status = "ongoing" /\ q <= issues[i].locked
        /\ issues'[n].plan_id = p /\ issues'[n].status = "ongoing" /\ issues'[n].locked = q
        /\ i \in DOMAIN issues' <=> issues[i].locked # q
    BY <2>1 DEF HandedOver
  <2>3. issues[i] \in IssueRow /\ issues[i].locked \in Int /\ q \in Int
    BY <1>r, <2>2 DEF IssueRow, Amounts
  <2>4. i \in DOMAIN issues' =>
          /\ issues'[i].locked = issues[i].locked - q
          /\ issues'[i].plan_id = p /\ issues'[i].status = "ongoing"
    BY <2>1, <2>2, <2>3 DEF HandedOver, IssueRow
  <2>5. p \in DOMAIN plans /\ plans' = plans /\ held' = held
    BY <1>t, <1>14, <2>2 DEF TransIssue, PlansExist
  <2>6. IsOngoing(i) /\ PlanOf(i) = p /\ Weight(i) = issues[i].locked
    BY <2>2 DEF IsOngoing, PlanOf, Weight
  <2>7. Weight(i)' = issues[i].locked - q
    <3>1. CASE i \in DOMAIN issues'
      BY <2>4, <3>1 DEF IsOngoing, Weight
    <3>2. CASE i \notin DOMAIN issues'
      BY <2>2, <2>3, <3>2 DEF IsOngoing, Weight
    <3> QED BY <3>1, <3>2
  <2>8. IsOngoing(i)' => PlanOf(i)' = p
    BY <2>4 DEF IsOngoing, PlanOf
  <2>9. ~ IsOngoing(n) /\ Weight(n) = 0 /\ IsOngoing(n)' /\ PlanOf(n)' = p /\ Weight(n)' = q
    BY <2>2 DEF IsOngoing, PlanOf, Weight
  <2>10. \A j \in IssueIds : j # i /\ j # n =>
            /\ Weight(j)' = Weight(j) /\ IsOngoing(j)' = IsOngoing(j)
            /\ IsOngoing(j) => PlanOf(j)' = PlanOf(j)
    BY <2>2 DEF IsOngoing, PlanOf, Weight
  <2>11. /\ DOMAIN plans' = DOMAIN plans
         /\ \A k \in DOMAIN plans : /\ plans'[k].asset = plans[k].asset
                                    /\ Net(k)' = IF k = p THEN Net(k) + 0 ELSE Net(k)
    <3>1. \A k \in DOMAIN plans : Net(k) \in Int
      BY <1>t, WeightTypes DEF WeightsTyped
    <3>2. \A k \in DOMAIN plans : Net(k)' = Net(k)
      BY <2>5 DEF Net
    <3> QED BY <2>5, <3>1, <3>2
  <2>12. held' = [held EXCEPT ![plans[p].asset] = @ + 0]
    <3>1. plans[p].asset \in Assets
      BY <1>r, <2>5 DEF PlanRow
    <3> QED BY <1>t, <2>5, <3>1 DEF TypeOK
  <2>13. 0 = Weight(i)' - Weight(i) + Weight(n)' - Weight(n) /\ 0 \in Int
    BY <2>3, <2>6, <2>7, <2>9
  <2>14. Weight(i)' <= Weight(i)
    BY <2>3, <2>6, <2>7 DEF Amounts
  <2> HIDE DEF p
  <2> SUFFICES RowsMoved(i, n, p, 0)
    BY <2>5, <2>13, <2>14 DEF Effect, Moved
  <2> QED BY <2>5, <2>6, <2>8, <2>9, <2>10, <2>11, <2>12, <2>13 DEF RowsMoved
<1>15. CASE PlanStep
  BY <1>15, <1>1, <1>2, <1>4, <1>5, <1>6 DEF PlanStep, PayPlanFee, PayLastPlanFee
<1>16. CASE IssueStep
  BY <1>16, <1>8, <1>9, <1>10, <1>11, <1>12, <1>13, <1>14 DEF IssueStep
<1> QED BY <1>1, <1>15, <1>16 DEF Next

\* The totals of the plans and the balance follow the rows in every step.
LEMMA LedgerStep == Inv /\ [Next]_vars => PlanLedger' /\ Solvent'
<1> SUFFICES ASSUME Inv, [Next]_vars PROVE PlanLedger' /\ Solvent'
  OBVIOUS
<1>1. TypeOK /\ TypeOK' /\ PlansExist /\ PlansExist' /\ PlanLedger /\ Solvent
  BY TypeStep, PlansExistStep DEF Inv
<1>2. CASE NothingMoved
  BY <1>1, <1>2, MoveNothing DEF NothingMoved
<1>3. ASSUME NEW k \in IssueIds, NEW l \in IssueIds, NEW p \in DOMAIN plans, NEW d \in Int,
             Moved(k, l, p, d)
      PROVE  PlanLedger' /\ Solvent'
  BY <1>1, <1>3, MoveRows DEF Moved
<1> QED BY <1>2, <1>3, StepEffect DEF Effect

\* The invariant is inductive.
LEMMA InvStep == Inv /\ [Next]_vars => Inv'
BY TypeStep, PlansExistStep, BalancedStep, LedgerStep DEF Inv

\* The invariant holds before the first action: all sums are over empty tables.
LEMMA InvInit == Init => Inv
<1> SUFFICES ASSUME Init PROVE Inv
  OBVIOUS
<1>1. TypeOK
  BY TypeInit
<1>2. plans = Empty /\ issues = Empty /\ accounts = Empty /\ held = [a \in Assets |-> 0]
  BY DEF Init
<1>3. PlansExist /\ IssueBalanced /\ PlanLedger
  BY <1>2 DEF PlansExist, IssueBalanced, PlanLedger, Empty
<1>4. Solvent
  <2> SUFFICES ASSUME NEW a \in Assets PROVE held[a] = SumTo(LockedOfAsset(a), MaxIssues)
    BY DEF Solvent
  <2>1. LockedOfAsset(a) \in [1 .. MaxIssues -> Int]
    BY <1>1, WeightTypes DEF WeightsTyped
  <2>2. \A i \in 1 .. MaxIssues : LockedOfAsset(a)[i] = 0
    BY <1>2 DEF LockedOfAsset, IsOngoing, IssueIds, Empty
  <2>3. SumTo(LockedOfAsset(a), MaxIssues) = 0
    BY <2>1, <2>2, SumOfZeros, VestAssumption
  <2> QED BY <1>2, <2>3
<1> QED BY <1>1, <1>3, <1>4 DEF Inv

\* The invariant holds always.
LEMMA InvHolds == Spec => []Inv
BY InvInit, InvStep, PTL DEF Spec

\* No find of the plan of an issue or of an accounts row ever misses.
THEOREM VestPlansExist == Spec => []PlansExist
BY InvHolds, PTL DEF Inv

\* Every issue row's amounts add up, through every release and handover.
THEOREM VestIssuesBalanced == Spec => []IssueBalanced
BY InvHolds, PTL DEF Inv

\* The running totals of every plan agree with its issue rows.
THEOREM VestPlanLedger == Spec => []PlanLedger
BY InvHolds, PTL DEF Inv

\* The contract owns of every asset exactly what its ongoing issues have locked.
THEOREM VestSolvent == Spec => []Solvent
BY InvHolds, PTL DEF Inv

\* The transfer that a release or a refund sends is never refused for want of
\* balance: the contract owns at least what each single ongoing issue has locked.
EveryLockCovered ==
  \A i \in DOMAIN issues :
    issues[i].status = "ongoing" => issues[i].locked <= held[plans[issues[i].plan_id].asset]

\* What unlock and endissue send is never refused for want of balance.
THEOREM VestEveryLockCovered == Spec => []EveryLockCovered
<1>1. Inv => EveryLockCovered
  <2> SUFFICES ASSUME Inv, NEW i \in DOMAIN issues, issues[i].status = "ongoing"
               PROVE  issues[i].locked <= held[plans[issues[i].plan_id].asset]
    BY DEF EveryLockCovered
  <2> DEFINE a == plans[issues[i].plan_id].asset
  <2>1. i \in IssueIds /\ a \in Assets
    BY DEF Inv, TypeOK, IsTable, PlansExist, PlanRow
  <2>2. LockedOfAsset(a)[i] = issues[i].locked
    BY <2>1 DEF LockedOfAsset, IsOngoing
  <2> HIDE DEF a
  <2>3. LockedOfAsset(a)[i] <= SumTo(LockedOfAsset(a), MaxIssues)
    <3>1. /\ LockedOfAsset(a) \in [1 .. MaxIssues -> Int]
          /\ \A j \in 1 .. MaxIssues : LockedOfAsset(a)[j] >= 0
      BY <2>1, WeightTypes DEF Inv, WeightsTyped
    <3> QED BY <2>1, <3>1, SumBounds, VestAssumption DEF IssueIds
  <2> QED BY <2>1, <2>2, <2>3 DEF Inv, Solvent, a
<1> QED BY <1>1, InvHolds, PTL

\* A finished issue is final, and no release is ever taken back.
THEOREM VestReleaseIsFinal == Spec => ReleaseIsFinal
<1>1. Inv /\ [Next]_vars => [ReleaseStep]_vars
  <2> SUFFICES ASSUME Inv, Next PROVE ReleaseStep
    OBVIOUS
  <2> USE DEF ReleaseStep
  <2>t. TypeOK /\ \A i \in DOMAIN issues : issues[i] \in IssueRow
    BY DEF Inv, TypeOK, IsTable
  <2>n. \A i \in DOMAIN issues : issues[i].unlocked \in Nat /\ issues[i].unlocked >= 0
    BY <2>t DEF IssueRow
  <2>1. CASE PlanStep \/ Tick
    <3>1. issues' = issues
      BY <2>1 DEF PlanStep, SetGlobal, AddPlan, SetPlanOwner, EnablePlan, ActivatePlan,
                  PayPlanFee, PayLastPlanFee, Tick
    <3> QED BY <2>n, <3>1
  <2>2. ASSUME NEW f \in Accounts, NEW r \in Accounts, NEW p \in PlanIds,
               NEW q \in Amounts, NEW d \in FirstDays, Issue(f, r, p, q, d)
        PROVE  ReleaseStep
    <3>1. PICK id \in IssueIds : IsNextKey(issues, id)
            /\ issues' = Put(issues, id, NewIssue(p, f, r, q, d, now))
      BY <2>2 DEF Issue
    <3>2. id \notin DOMAIN issues
      BY <2>t, <3>1, NextKeyIsNew DEF TypeOK, IsTable, IssueIds
    <3> QED BY <2>n, <3>1, <3>2 DEF Put
  <2>3. ASSUME NEW i \in IssueIds, NEW r \in Accounts, SetReceiver(i, r) PROVE ReleaseStep
    BY <2>t, <2>n, <2>3 DEF SetReceiver, IssueRow
  <2>4. ASSUME NEW i \in IssueIds, NEW d \in FirstDays, SetFirstDays(i, d) PROVE ReleaseStep
    BY <2>t, <2>n, <2>4 DEF SetFirstDays, IssueRow
  <2>5. ASSUME NEW i \in IssueIds, NEW r \in Accounts, NEW q \in Amounts, TransIssue(i, r, q)
        PROVE  ReleaseStep
    <3>1. PICK n \in IssueIds \ {i} : HandedOver(i, q, n)
      BY <2>t, <2>5, TransIssueRows
    <3>2. /\ i \in DOMAIN issues /\ n \notin DOMAIN issues
          /\ \A j \in DOMAIN issues \ {i} : issues'[j] = issues[j]
          /\ issues[i].status = "ongoing"
          /\ i \in DOMAIN issues' => issues'[i].unlocked = issues[i].unlocked
      BY <2>t, <3>1 DEF HandedOver, IssueRow
    <3> QED BY <2>n, <3>2
  <2>6. ASSUME NEW i \in IssueIds, NEW p \in PlanIds, NEW a \in Accounts, EndIssue(i, p, a)
        PROVE  ReleaseStep
    BY <2>t, <2>n, <2>6 DEF EndIssue, IssueRow
  <2>7. ASSUME NEW ids \in SUBSET IssueIds, DelFinIssues(ids) PROVE ReleaseStep
    BY <2>n, <2>7 DEF DelFinIssues, Drop
  <2>8. ASSUME NEW i \in IssueIds, NEW p \in PlanIds, Unlock(i, p) PROVE ReleaseStep
    <3>1. PICK total, due \in Nat : Released(i, p, total, due)
      BY <2>t, <2>8, UnlockRow
    <3>2. /\ i \in DOMAIN issues /\ issues[i].status = "ongoing"
          /\ \A j \in DOMAIN issues \ {i} : issues'[j] = issues[j]
          /\ issues'[i].unlocked = total /\ total >= issues[i].unlocked
      BY <2>t, <2>n, <3>1 DEF Released, IssueRow
    <3> QED BY <2>n, <3>2
  <2>9. CASE IssueStep
    BY <2>9, <2>2, <2>3, <2>4, <2>5, <2>6, <2>7, <2>8 DEF IssueStep
  <2> QED BY <2>1, <2>9 DEF Next
<1> QED BY <1>1, InvHolds, PTL DEF Spec, ReleaseIsFinal

\* A plan becomes usable only when its fee has been forwarded.
THEOREM VestActivationIsPaid == Spec => ActivationIsPaid
<1>1. Inv /\ [Next]_vars => [ActivationStep]_vars
  <2> SUFFICES ASSUME Inv, Next PROVE ActivationStep
    OBVIOUS
  <2> USE DEF ActivationStep
  <2>t. TypeOK /\ \A p \in DOMAIN plans : plans[p] \in PlanRow
    BY DEF Inv, TypeOK, IsTable
  <2>1. CASE Tick \/ \E r \in Accounts, f \in Fees : SetGlobal(r, f)
    BY <2>1 DEF Tick, SetGlobal
  <2>2. ASSUME NEW o \in Accounts, NEW a \in Assets, NEW d \in Intervals, NEW n \in Times,
               AddPlan(o, a, d, n)
        PROVE  ActivationStep
    <3>1. PICK id \in PlanIds : IsNextKey(plans, id) /\ \E row : plans' = Put(plans, id, row)
      BY <2>2 DEF AddPlan
    <3>2. id \notin DOMAIN plans
      BY <2>t, <3>1, NextKeyIsNew DEF TypeOK, IsTable, PlanIds
    <3>3. \A p \in DOMAIN plans : plans'[p] = plans[p]
      BY <3>1, <3>2 DEF Put
    <3> QED BY <2>2, <3>3 DEF AddPlan
  <2>3. ASSUME NEW p \in PlanIds, NEW o \in Accounts, SetPlanOwner(p, o) PROVE ActivationStep
    BY <2>t, <2>3 DEF SetPlanOwner, PlanRow
  <2>4. ASSUME NEW p \in PlanIds, NEW s \in PlanStatus, EnablePlan(p, s) PROVE ActivationStep
    BY <2>t, <2>4 DEF EnablePlan, PlanRow
  <2>5. ASSUME NEW p, ActivatePlan(p) PROVE ActivationStep
    BY <2>t, <2>5 DEF ActivatePlan, PlanRow, TypeOK, GlobalRow
  <2>6. CASE IssueStep
    <3>1. collected' = collected
      <4>1. ASSUME NEW f \in Accounts, NEW r \in Accounts, NEW q \in PlanIds,
                   NEW n \in Amounts, NEW d \in FirstDays, Issue(f, r, q, n, d)
            PROVE  collected' = collected
        BY <4>1 DEF Issue
      <4>2. ASSUME NEW i \in IssueIds, NEW r \in Accounts, NEW q \in Amounts,
                   TransIssue(i, r, q)
            PROVE  collected' = collected
        BY <4>2 DEF TransIssue
      <4>3. ASSUME NEW i \in IssueIds, NEW q \in PlanIds, NEW a \in Accounts, EndIssue(i, q, a)
            PROVE  collected' = collected
        BY <4>3 DEF EndIssue
      <4>4. ASSUME NEW i \in IssueIds, NEW q \in PlanIds, Unlock(i, q)
            PROVE  collected' = collected
        BY <4>4 DEF Unlock
      <4> QED BY <2>6, <4>1, <4>2, <4>3, <4>4
            DEF IssueStep, SetReceiver, SetFirstDays, DelFinIssues
    <3>2. \A p \in DOMAIN plans : plans'[p].status = plans[p].status
      <4>1. ASSUME NEW f \in Accounts, NEW r \in Accounts, NEW q \in PlanIds,
                   NEW n \in Amounts, NEW d \in FirstDays, Issue(f, r, q, n, d)
            PROVE  \A p \in DOMAIN plans : plans'[p].status = plans[p].status
        BY <2>t, <4>1 DEF Issue, PlanRow
      <4>2. ASSUME NEW i \in IssueIds, NEW q \in PlanIds, NEW a \in Accounts, EndIssue(i, q, a)
            PROVE  \A p \in DOMAIN plans : plans'[p].status = plans[p].status
        BY <2>t, <4>2 DEF EndIssue, PlanRow
      <4>3. ASSUME NEW i \in IssueIds, NEW q \in PlanIds, Unlock(i, q)
            PROVE  \A p \in DOMAIN plans : plans'[p].status = plans[p].status
        BY <2>t, <4>3 DEF Unlock, PlanRow
      <4> QED BY <2>6, <4>1, <4>2, <4>3
            DEF IssueStep, SetReceiver, SetFirstDays, TransIssue, DelFinIssues
    <3> QED BY <3>1, <3>2
  <2>7. CASE PlanStep
    BY <2>7, <2>1, <2>2, <2>3, <2>4, <2>5 DEF PlanStep, PayPlanFee, PayLastPlanFee
  <2> QED BY <2>1, <2>6, <2>7 DEF Next
<1> QED BY <1>1, InvHolds, PTL DEF Spec, ActivationIsPaid

-------------------------------------------------------------------------------
(* The refinement. *)

\* What is owed of one asset, as a table, is what the ongoing issues of it have locked;
\* so to be solvent is to be balanced as a custodian.
LEMMA SolventIsBalanced == Solvent => Custodian!Balanced
<1>1. \A a \in Assets : [i \in 1 .. MaxIssues |-> Owed[i][a]] = LockedOfAsset(a)
  BY DEF Owed, LockedOfAsset, IssueIds
<1>2. \A w, n : Custodian!SumTo(w, n) = SumTo(w, n)
  BY DEF SumTo, Custodian!SumTo
<1> QED BY <1>1, <1>2 DEF Solvent, Custodian!Balanced, Custodian!Claims

\* What a row is owed, by its weight.
LEMMA OwedWeight ==
  \A i \in IssueIds, a \in Assets :
    Owed[i][a] = IF IsOngoing(i) /\ plans[PlanOf(i)].asset = a THEN Weight(i) ELSE 0
BY DEF Owed, PlanOf, Weight

\* A step that moves nothing is a stutter of the custodian.
LEMMA NothingOwed ==
  ASSUME PlansExist, NothingMoved
  PROVE  UNCHANGED Custodian!vars
<1>1. \A i \in IssueIds : IsOngoing(i) => PlanOf(i) \in DOMAIN plans
  BY DEF PlansExist, IsOngoing, PlanOf
<1>2. \A i \in IssueIds : IsOngoing(i) =>
        plans'[PlanOf(i)'].asset = plans[PlanOf(i)].asset
  BY <1>1 DEF NothingMoved
<1>3. \A i \in IssueIds, a \in Assets : Owed'[i][a] = Owed[i][a]
  <2> SUFFICES ASSUME NEW i \in IssueIds, NEW a \in Assets PROVE Owed'[i][a] = Owed[i][a]
    OBVIOUS
  <2>1. Owed[i][a] = IF IsOngoing(i) /\ plans[PlanOf(i)].asset = a THEN Weight(i) ELSE 0
    BY OwedWeight
  <2>2. Owed'[i][a] = IF IsOngoing(i)' /\ plans'[PlanOf(i)'].asset = a THEN Weight(i)' ELSE 0
    BY DEF Owed, PlanOf, Weight
  <2>3. /\ IsOngoing(i)' = IsOngoing(i)
        /\ IsOngoing(i) => PlanOf(i)' = PlanOf(i) /\ Weight(i)' = Weight(i)
    BY DEF NothingMoved
  <2> QED BY <1>2, <2>1, <2>2, <2>3
<1>4. Owed' = Owed
  BY <1>3 DEF Owed
<1> QED BY <1>4 DEF Custodian!vars, NothingMoved

\* In a step that moves weight within plan p, a row is owed its weight of the asset of p,
\* if it is one of the two rows, and as much as before otherwise.
LEMMA OwedMoved ==
  ASSUME TypeOK, PlansExist, NEW k \in IssueIds, NEW l \in IssueIds, NEW p \in DOMAIN plans,
         NEW d \in Int, RowsMoved(k, l, p, d)
  PROVE  /\ \A i \in IssueIds \ {k, l} : Owed'[i] = Owed[i]
         /\ \A i \in {k, l}, a \in Assets :
              /\ Owed[i][a] = IF a = plans[p].asset THEN Weight(i) ELSE 0
              /\ Owed'[i][a] = IF a = plans[p].asset THEN Weight(i)' ELSE 0
<1>1. \A i \in IssueIds, a \in Assets :
        Owed[i][a] = IF IsOngoing(i) /\ plans[PlanOf(i)].asset = a THEN Weight(i) ELSE 0
  BY OwedWeight
<1>2. \A i \in IssueIds, a \in Assets :
        Owed'[i][a] = IF IsOngoing(i)' /\ plans'[PlanOf(i)'].asset = a THEN Weight(i)' ELSE 0
  BY DEF Owed, PlanOf, Weight
<1>3. \A i \in IssueIds : /\ ~ IsOngoing(i) => Weight(i) = 0
                          /\ ~ IsOngoing(i)' => Weight(i)' = 0
                          /\ IsOngoing(i) => PlanOf(i) \in DOMAIN plans
  BY DEF Weight, PlansExist, IsOngoing, PlanOf
<1>4. ASSUME NEW i \in IssueIds \ {k, l} PROVE Owed'[i] = Owed[i]
  <2>1. /\ Weight(i)' = Weight(i) /\ IsOngoing(i)' = IsOngoing(i)
        /\ IsOngoing(i) => PlanOf(i)' = PlanOf(i)
    BY <1>4 DEF RowsMoved
  <2>2. IsOngoing(i) => plans'[PlanOf(i)'].asset = plans[PlanOf(i)].asset
    BY <1>3, <2>1 DEF RowsMoved
  <2>3. \A a \in Assets : Owed'[i][a] = Owed[i][a]
    BY <1>1, <1>2, <2>1, <2>2
  <2> QED BY <2>3 DEF Owed
<1>5. ASSUME NEW i \in {k, l}, NEW a \in Assets
      PROVE  /\ Owed[i][a] = IF a = plans[p].asset THEN Weight(i) ELSE 0
             /\ Owed'[i][a] = IF a = plans[p].asset THEN Weight(i)' ELSE 0
  <2>1. /\ IsOngoing(i) => PlanOf(i) = p
        /\ IsOngoing(i)' => PlanOf(i)' = p
        /\ plans'[p].asset = plans[p].asset
    BY DEF RowsMoved
  <2> QED BY <1>1, <1>2, <1>3, <2>1
<1> QED BY <1>4, <1>5

\* Every step is a step of a custodian whose claims may pass on.
LEMMA CustodyStep ==
  Inv /\ Solvent' /\ TypeOK' /\ [Next]_vars => [Custodian!Next]_(Custodian!vars)
<1> SUFFICES ASSUME Inv, Solvent', TypeOK', [Next]_vars
             PROVE  [Custodian!Next]_(Custodian!vars)
  OBVIOUS
<1>1. Custodian!Balanced'
  BY SolventIsBalanced, PTL
<1>2. TypeOK /\ PlansExist
  BY DEF Inv
<1>3. CASE NothingMoved
  BY <1>2, <1>3, NothingOwed
<1>4. ASSUME NEW k \in IssueIds, NEW l \in IssueIds, NEW p \in DOMAIN plans, NEW d \in Int,
             Moved(k, l, p, d)
      PROVE  Custodian!Next
  <2>1. /\ \A i \in IssueIds \ {k, l} : Owed'[i] = Owed[i]
        /\ \A i \in {k, l}, a \in Assets :
             /\ Owed[i][a] = IF a = plans[p].asset THEN Weight(i) ELSE 0
             /\ Owed'[i][a] = IF a = plans[p].asset THEN Weight(i)' ELSE 0
    BY <1>2, <1>4, OwedMoved DEF Moved
  <2>2. \A i \in IssueIds : Weight(i) \in Int /\ Weight(i)' \in Int
    BY <1>2 DEF TypeOK, IsTable, IssueRow, Weight, IsOngoing
  <2>3. /\ plans[p].asset \in Assets /\ held[plans[p].asset] \in Int
        /\ held \in [Assets -> Int]
    BY <1>2 DEF TypeOK, IsTable, PlanRow
  <2>4. held' = [held EXCEPT ![plans[p].asset] = @ + d]
    BY <1>4 DEF Moved, RowsMoved
  <2>5. \A i \in IssueIds, a \in Assets : Owed[i][a] \in Int
    BY <1>2 DEF Owed, TypeOK, IsTable, IssueRow, IsOngoing
  <2>6. CASE k # l
    <3>1. d = 0 /\ Weight(k)' <= Weight(k) /\ Weight(l)' >= Weight(l)
      BY <1>4, <2>2, <2>6 DEF Moved, RowsMoved
    <3>2. held' = held
      BY <2>3, <2>4, <3>1
    <3>3. \A a \in Assets : Owed'[k][a] <= Owed[k][a] /\ Owed'[l][a] >= Owed[l][a]
      BY <2>1, <2>2, <3>1
    <3> QED BY <1>1, <2>1, <3>2, <3>3 DEF Custodian!Next, Custodian!Assign, Custodian!Claims, IssueIds
  <2>7. CASE k = l /\ d > 0
    <3>1. Weight(k)' >= Weight(k)
      BY <1>4, <2>2, <2>7 DEF Moved, RowsMoved
    <3>2. \A i \in IssueIds, a \in Assets : Owed'[i][a] >= Owed[i][a]
      BY <2>1, <2>2, <2>5, <2>7, <3>1
    <3>3. /\ held'[plans[p].asset] > held[plans[p].asset]
          /\ \A b \in Assets \ {plans[p].asset} : held'[b] = held[b]
      BY <2>3, <2>4, <2>7
    <3> QED BY <1>1, <2>3, <3>2, <3>3 DEF Custodian!Next, Custodian!Deposit, Custodian!Claims, IssueIds
  <2>8. CASE k = l /\ d <= 0
    <3>1. Weight(k)' <= Weight(k)
      BY <1>4, <2>2, <2>8 DEF Moved, RowsMoved
    <3>2. \A i \in IssueIds, a \in Assets : Owed'[i][a] <= Owed[i][a]
      BY <2>1, <2>2, <2>5, <2>8, <3>1
    <3> QED BY <1>1, <3>2 DEF Custodian!Next, Custodian!Payout, Custodian!Claims, IssueIds
  <2> QED BY <2>6, <2>7, <2>8
<1> QED BY <1>3, <1>4, StepEffect DEF Effect

\* flon.vest implements the abstract custodian.
THEOREM VestImplementsCustody == Spec => ImplementsCustody
<1>1. Init => Custodian!Init
  <2> SUFFICES ASSUME Init PROVE Custodian!Init
    OBVIOUS
  <2>1. issues = Empty /\ held = [a \in Assets |-> 0]
    BY DEF Init
  <2>2. Owed = [i \in 1 .. MaxIssues |-> [a \in Assets |-> 0]]
    BY <2>1 DEF Owed, IssueIds, IsOngoing, Empty
  <2> QED BY <2>1, <2>2 DEF Custodian!Init, Custodian!Claims
<1>2. Inv => Solvent /\ TypeOK
  BY DEF Inv
<1> QED BY <1>1, <1>2, CustodyStep, InvHolds, PTL DEF Spec, ImplementsCustody, Custodian!Spec

===============================================================================
