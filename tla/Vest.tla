---------------------------------- MODULE Vest ----------------------------------
(***************************************************************************)
(* flon.vest: an issuer deposits tokens for a receiver under a plan; the   *)
(* contract releases them to the receiver in unlock_times portions, one    *)
(* per unlock_interval_days, the first one first_unlock_days after the     *)
(* deposit; what is still locked can be refunded to the issuer, or handed  *)
(* by the receiver to someone else as an issue of its own.                 *)
(*                                                                         *)
(* A contract action is one transaction: it takes effect whole or, when    *)
(* one of its checks or of the token transfers it sends fails, not at all. *)
(* So each is one step here, guarded by all its checks.  require_auth of   *)
(* an account the caller names restricts nobody but the signer and leaves  *)
(* no trace in the guards.  A token is a member of Assets: the contract    *)
(* that issues it and its symbol.                                          *)
(***************************************************************************)
EXTENDS Tables, Sums

CONSTANTS
  Accounts,        \* the accounts that exist on the chain
  Self,            \* flon.vest
  DefaultReceiver, \* flon.fee, the fee_receiver before the first init
  Assets,          \* token contract and symbol
  SysAsset,        \* FLON of flon.token
  Fees,            \* the plan fees an administrator may set
  Intervals,       \* unlock_interval_days
  Times,           \* unlock_times
  FirstDays,       \* first_unlock_days
  MaxLockDays,     \* MAX_LOCK_DAYS
  DaySeconds,      \* DAY_SECONDS, in ticks of the clock
  MaxAmount,       \* asset::max_amount
  Int64Max,        \* the largest int64_t
  MaxPlans,        \* bound on the plan ids used
  MaxIssues,       \* bound on the issue ids used
  MaxTime          \* bound on the clock

ASSUME VestAssumption ==
  /\ Self \in Accounts /\ DefaultReceiver \in Accounts
  /\ SysAsset \in Assets
  /\ Fees \subseteq Int
  /\ Intervals \subseteq 1 .. MaxLockDays
  /\ Times \subseteq Nat \ {0}
  /\ FirstDays \subseteq 0 .. MaxLockDays
  /\ MaxLockDays \in Nat
  /\ DaySeconds \in Nat \ {0}
  /\ MaxAmount \in Nat /\ Int64Max \in Nat
  /\ MaxPlans \in Nat /\ MaxIssues \in Nat /\ MaxTime \in Nat

VARIABLES
  gstate,    \* the global singleton: [fee_receiver, plan_fee]
  plans,     \* table vestplans
  issues,    \* table vestissues
  accounts,  \* table accounts: owner to last_plan_id
  now,       \* current_time_point
  held,      \* what the token contracts say the contract owns, by asset
  collected  \* plan fees forwarded so far

vars == <<gstate, plans, issues, accounts, now, held, collected>>

PlanIds  == 1 .. MaxPlans
IssueIds == 1 .. MaxIssues
Amounts  == 1 .. MaxAmount

PlanStatus  == {"pending", "enabled", "disabled"}
IssueStatus == {"ongoing", "finished"}

GlobalRow == [fee_receiver : Accounts, plan_fee : Int]

PlanRow ==
  [owner : Accounts, asset : Assets, unlock_interval_days : Intervals,
   unlock_times : Times, total_issued : Nat, total_unlocked : Nat,
   total_refunded : Nat, status : PlanStatus]

IssueRow ==
  [plan_id : PlanIds, issuer : Accounts, receiver : Accounts, issued : Nat,
   locked : Nat, unlocked : Nat, first_unlock_days : Nat,
   status : IssueStatus, issued_at : Nat]

Init ==
  /\ gstate = [fee_receiver |-> DefaultReceiver, plan_fee |-> 0]
  /\ plans = Empty /\ issues = Empty /\ accounts = Empty
  /\ now = 0
  /\ held = [a \in Assets |-> 0]
  /\ collected = 0

-------------------------------------------------------------------------------
(* Plans. *)

\* `init`, the action that sets the global row.
SetGlobal(fee_receiver, plan_fee) ==
  /\ gstate' = [fee_receiver |-> fee_receiver, plan_fee |-> plan_fee]
  /\ UNCHANGED <<plans, issues, accounts, now, held, collected>>

\* A plan waits for its fee when there is one at the time it is added.
NewPlan(owner, asset, interval, times) ==
  [owner |-> owner, asset |-> asset, unlock_interval_days |-> interval,
   unlock_times |-> times, total_issued |-> 0, total_unlocked |-> 0, total_refunded |-> 0,
   status |-> IF gstate.plan_fee # 0 THEN "pending" ELSE "enabled"]

\* A mistake: the accounts row gets the key after the new plan's.
AddPlan_NamesNextKey(owner, asset, interval, times) ==
  \E id \in PlanIds :
    /\ IsNextKey(plans, id)
    /\ plans' = Put(plans, id, NewPlan(owner, asset, interval, times))
    /\ accounts' = Put(accounts, owner, id + 1)
    /\ UNCHANGED <<gstate, issues, now, held, collected>>

AddPlan(owner, asset, interval, times) ==
  \E id \in PlanIds :
    /\ IsNextKey(plans, id)
    /\ plans' = Put(plans, id, NewPlan(owner, asset, interval, times))
    /\ accounts' = Put(accounts, owner, id)
    /\ UNCHANGED <<gstate, issues, now, held, collected>>

SetPlanOwner(id, new_owner) ==
  /\ id \in DOMAIN plans
  /\ plans' = [plans EXCEPT ![id].owner = new_owner]
  /\ UNCHANGED <<gstate, issues, accounts, now, held, collected>>

\* A mistake: a plan whose fee is unpaid can be enabled.
EnablePlan_Pending(id, new_status) ==
  /\ id \in DOMAIN plans
  /\ new_status \in {"enabled", "disabled"} \ {plans[id].status}
  /\ plans' = [plans EXCEPT ![id].status = new_status]
  /\ UNCHANGED <<gstate, issues, accounts, now, held, collected>>

EnablePlan(id, new_status) ==
  /\ id \in DOMAIN plans
  /\ new_status \in {"enabled", "disabled"}
  /\ plans[id].status \notin {"pending", new_status}
  /\ plans' = [plans EXCEPT ![id].status = new_status]
  /\ UNCHANGED <<gstate, issues, accounts, now, held, collected>>

\* The `plan:` branch of ontransfer.  The fee arrives and is forwarded in the
\* same transaction, so what the contract holds does not change; the token
\* contract refuses a transfer to its sender.
ActivatePlan(id) ==
  /\ gstate.plan_fee > 0
  /\ id \in DOMAIN plans /\ plans[id].status = "pending"
  /\ gstate.fee_receiver # Self
  /\ plans' = [plans EXCEPT ![id].status = "enabled"]
  /\ collected' = collected + gstate.plan_fee
  /\ UNCHANGED <<gstate, issues, accounts, now, held>>

\* memo "plan:<id>": anybody may pay for any plan.
PayPlanFee(id) == ActivatePlan(id)

\* memo "plan:": the plan the payer's account row names.
PayLastPlanFee(from) ==
  /\ from # Self /\ from \in DOMAIN accounts
  /\ ActivatePlan(accounts[from])

-------------------------------------------------------------------------------
(* Issues. *)

\* The transfer action an action sends: refused when the contract itself is
\* the recipient, when nothing would move and when the balance is too small.
CanTransferOut(to, asset, quantity) ==
  /\ to # Self
  /\ quantity > 0
  /\ quantity <= held[asset]

NewIssue(plan_id, issuer, receiver, quantity, first_unlock_days, issued_at) ==
  [plan_id |-> plan_id, issuer |-> issuer, receiver |-> receiver,
   issued |-> quantity, locked |-> quantity, unlocked |-> 0,
   first_unlock_days |-> first_unlock_days, status |-> "ongoing",
   issued_at |-> issued_at]

\* The `issue:` branch of ontransfer.  asset::operator+= bounds total_issued.
Issue(from, receiver, plan_id, quantity, first_unlock_days) ==
  /\ from # Self
  /\ plan_id \in DOMAIN plans /\ plans[plan_id].status = "enabled"
  /\ first_unlock_days <= MaxLockDays
  /\ plans[plan_id].total_issued + quantity <= MaxAmount
  /\ plans' = [plans EXCEPT ![plan_id].total_issued = @ + quantity]
  /\ \E id \in IssueIds :
       /\ IsNextKey(issues, id)
       /\ issues' = Put(issues, id,
            NewIssue(plan_id, from, receiver, quantity, first_unlock_days, now))
  /\ held' = [held EXCEPT ![plans[plan_id].asset] = @ + quantity]
  /\ UNCHANGED <<gstate, accounts, now, collected>>

SetReceiver(id, receiver) ==
  /\ id \in DOMAIN issues
  /\ issues' = [issues EXCEPT ![id].receiver = receiver]
  /\ UNCHANGED <<gstate, plans, accounts, now, held, collected>>

SetFirstDays(id, days) ==
  /\ days <= MaxLockDays
  /\ id \in DOMAIN issues
  /\ issues' = [issues EXCEPT ![id].first_unlock_days = days]
  /\ UNCHANGED <<gstate, plans, accounts, now, held, collected>>

\* Mistakes: only the issued amount is compared; the status is not checked.
MayHandOver_OverLocked(issue, to_receiver, quantity) ==
  issue.status = "ongoing" /\ issue.receiver # to_receiver /\ quantity <= issue.issued
MayHandOver_AnyStatus(issue, to_receiver, quantity) ==
  /\ issue.receiver # to_receiver
  /\ quantity <= issue.locked /\ quantity <= issue.issued

MayHandOver(issue, to_receiver, quantity) ==
  /\ issue.status = "ongoing"
  /\ issue.receiver # to_receiver
  /\ quantity <= issue.locked /\ quantity <= issue.issued

\* A mistake: the issued amount of what is kept stays as it was.
Kept_Issued(issue, quantity) == [issue EXCEPT !.locked = @ - quantity]

Kept(issue, quantity) == [issue EXCEPT !.issued = @ - quantity, !.locked = @ - quantity]

\* The row of what is handed over keeps the terms and the date of the old one;
\* the old row is erased when nothing stays locked in it.
TransIssue(id, to_receiver, quantity) ==
  /\ id \in DOMAIN issues
  /\ MayHandOver(issues[id], to_receiver, quantity)
  /\ \E new_id \in IssueIds :
       LET issue  == issues[id]
           handed == NewIssue(issue.plan_id, issue.issuer, to_receiver, quantity,
                              issue.first_unlock_days, issue.issued_at)
       IN /\ IsNextKey(issues, new_id)
          /\ issues' = IF issue.locked = quantity
                         THEN Drop(Put(issues, new_id, handed), {id})
                         ELSE Put(Put(issues, new_id, handed), id, Kept(issue, quantity))
  /\ UNCHANGED <<gstate, plans, accounts, now, held, collected>>

\* A mistake: an issue that ended can be ended again.
MayEnd_Again(issue, as) == as \in {issue.issuer, Self}

\* `as` is the action's issuer parameter.
MayEnd(issue, as) == issue.status # "finished" /\ as \in {issue.issuer, Self}

\* What was locked goes back to the issuer; the row keeps the amount.
EndIssue(id, plan_id, as) ==
  /\ id \in DOMAIN issues /\ issues[id].plan_id = plan_id
  /\ MayEnd(issues[id], as)
  /\ plan_id \in DOMAIN plans /\ plans[plan_id].status = "enabled"
  /\ LET refund == issues[id].locked
         asset  == plans[plan_id].asset
     IN /\ CanTransferOut(issues[id].issuer, asset, refund)
        /\ held' = [held EXCEPT ![asset] = @ - refund]
        /\ plans' = [plans EXCEPT ![plan_id].total_refunded = @ + refund]
        /\ issues' = [issues EXCEPT ![id].status = "finished"]
  /\ UNCHANGED <<gstate, accounts, now, collected>>

\* A mistake: a row can be erased while it still has something locked.
DelFinIssues_AnyStatus(ids) ==
  /\ ids \subseteq DOMAIN issues
  /\ issues' = Drop(issues, ids)
  /\ UNCHANGED <<gstate, plans, accounts, now, held, collected>>

DelFinIssues(ids) ==
  /\ ids \subseteq DOMAIN issues
  /\ \A id \in ids : issues[id].status = "finished"
  /\ issues' = Drop(issues, ids)
  /\ UNCHANGED <<gstate, plans, accounts, now, held, collected>>

-------------------------------------------------------------------------------
(* Release. *)

\* multiply_decimal64, rounding half up, and the int64_t check it makes on the
\* product scaled by ten.
multiply_decimal64(a, b, precision) == ((10 * a * b) \div precision + 5) \div 10
MultiplyFits(a, b, precision) == (10 * a * b) \div precision <= Int64Max

UnlockedDays(issue, t) == (t - issue.issued_at) \div DaySeconds - issue.first_unlock_days

\* Portions due, counting the one due at the end of the first unlock days.
UnlockedTimes(issue, plan, t) ==
  LET days    == UnlockedDays(issue, t)
      periods == days \div plan.unlock_interval_days
  IN  1 + (IF periods < plan.unlock_times THEN periods ELSE plan.unlock_times)

\* A mistake: the last portion is computed like the others.
FullyDue_Strict(issue, plan, t) == UnlockedTimes(issue, plan, t) > plan.unlock_times

FullyDue(issue, plan, t) == UnlockedTimes(issue, plan, t) >= plan.unlock_times

TotalUnlocked(issue, plan, t) ==
  IF FullyDue(issue, plan, t)
    THEN issue.issued
    ELSE multiply_decimal64(issue.issued, UnlockedTimes(issue, plan, t), plan.unlock_times)

\* The assertion on a partial release.
PartialReleaseOk(issue, plan, t) ==
  /\ TotalUnlocked(issue, plan, t) >= issue.unlocked
  /\ issue.issued >= TotalUnlocked(issue, plan, t)

Unlock(id, plan_id) ==
  /\ id \in DOMAIN issues /\ issues[id].plan_id = plan_id
  /\ plan_id \in DOMAIN plans /\ plans[plan_id].status = "enabled"
  /\ issues[id].status = "ongoing"
  /\ UnlockedDays(issues[id], now) >= 0
  /\ LET issue == issues[id]
         plan  == plans[plan_id]
         total == TotalUnlocked(issue, plan, now)
         due   == total - issue.unlocked
     IN /\ \/ FullyDue(issue, plan, now)
           \/ /\ MultiplyFits(issue.issued, UnlockedTimes(issue, plan, now), plan.unlock_times)
              /\ PartialReleaseOk(issue, plan, now)
        /\ due > 0
        /\ CanTransferOut(issue.receiver, plan.asset, due)
        /\ held' = [held EXCEPT ![plan.asset] = @ - due]
        /\ plans' = [plans EXCEPT ![plan_id].total_unlocked = @ + due]
        /\ issues' = [issues EXCEPT ![id].unlocked = total,
                                    ![id].locked = issue.issued - total,
                                    ![id].status = IF total = issue.issued
                                                     THEN "finished" ELSE @]
  /\ UNCHANGED <<gstate, accounts, now, collected>>

Tick ==
  /\ now < MaxTime
  /\ now' = now + 1
  /\ UNCHANGED <<gstate, plans, issues, accounts, held, collected>>

-------------------------------------------------------------------------------

PlanStep ==
  \/ \E r \in Accounts, f \in Fees : SetGlobal(r, f)
  \/ \E o \in Accounts, a \in Assets, d \in Intervals, n \in Times : AddPlan(o, a, d, n)
  \/ \E p \in PlanIds, o \in Accounts : SetPlanOwner(p, o)
  \/ \E p \in PlanIds, s \in PlanStatus : EnablePlan(p, s)
  \/ \E p \in PlanIds : PayPlanFee(p)
  \/ \E a \in Accounts : PayLastPlanFee(a)

IssueStep ==
  \/ \E f, r \in Accounts, p \in PlanIds, q \in Amounts, d \in FirstDays : Issue(f, r, p, q, d)
  \/ \E i \in IssueIds, r \in Accounts : SetReceiver(i, r)
  \/ \E i \in IssueIds, d \in FirstDays : SetFirstDays(i, d)
  \/ \E i \in IssueIds, r \in Accounts, q \in Amounts : TransIssue(i, r, q)
  \/ \E i \in IssueIds, p \in PlanIds, a \in Accounts : EndIssue(i, p, a)
  \/ \E ids \in SUBSET IssueIds : DelFinIssues(ids)
  \/ \E i \in IssueIds, p \in PlanIds : Unlock(i, p)

Next == PlanStep \/ IssueStep \/ Tick

Spec == Init /\ [][Next]_vars

\* Any account may send unlock, and a receiver has every reason to; time passes.
Fairness ==
  /\ WF_vars(Tick)
  /\ \A i \in IssueIds : WF_vars(\E p \in PlanIds : Unlock(i, p))

FairSpec == Spec /\ Fairness

-------------------------------------------------------------------------------
(* Properties. *)

\* The rows hold what the C++ types and the checks promise, and no more plan is
\* named by an accounts row or an issue than exists.
TypeOK ==
  /\ gstate \in GlobalRow
  /\ IsTable(plans, PlanIds, PlanRow)
  /\ IsTable(issues, IssueIds, IssueRow)
  /\ IsTable(accounts, Accounts, PlanIds)
  /\ now \in Nat
  /\ held \in [Assets -> Int]
  /\ collected \in Nat

\* Every plan an issue or an accounts row names exists: plans are never erased
\* (delplan is commented out), so no find of a plan through a row can miss.
PlansExist ==
  /\ \A i \in DOMAIN issues : issues[i].plan_id \in DOMAIN plans
  /\ \A a \in DOMAIN accounts : accounts[a] \in DOMAIN plans

\* Through releases, handovers and the writes of unlock that recompute both
\* amounts, a row's issued amount is what is locked plus what was released, and
\* an ongoing row still has something to release.
IssueBalanced ==
  \A i \in DOMAIN issues :
    /\ issues[i].issued = issues[i].locked + issues[i].unlocked
    /\ issues[i].status = "ongoing" => issues[i].locked > 0

IsOngoing(i) == i \in DOMAIN issues /\ issues[i].status = "ongoing"

Net(p) == plans[p].total_issued - plans[p].total_unlocked - plans[p].total_refunded

LockedOfPlan(p) ==
  [i \in IssueIds |-> IF IsOngoing(i) /\ issues[i].plan_id = p THEN issues[i].locked ELSE 0]

LockedOfAsset(a) ==
  [i \in IssueIds |-> IF IsOngoing(i) /\ plans[issues[i].plan_id].asset = a
                        THEN issues[i].locked ELSE 0]

\* The three running totals of a plan, each kept by a different action, agree
\* with the issue rows: issued less released less refunded is what the plan's
\* ongoing issues have locked, whatever was handed over, ended or erased.
PlanLedger ==
  \A p \in DOMAIN plans : Net(p) = SumTo(LockedOfPlan(p), MaxIssues)

\* The contract owns of each asset exactly what the ongoing issues of all the
\* plans of that asset have locked: no release or refund spends what backs
\* another issue, and no fee is kept or paid out of deposits.
Solvent == \A a \in Assets : held[a] = SumTo(LockedOfAsset(a), MaxIssues)

\* What is owed to each issue.
Owed ==
  [i \in IssueIds |-> [a \in Assets |->
     IF IsOngoing(i) /\ plans[issues[i].plan_id].asset = a THEN issues[i].locked ELSE 0]]

Custodian == INSTANCE Custody WITH NumClaims <- MaxIssues, Assignable <- TRUE, owed <- Owed

\* flon.vest is a custodian: a deposit locks all of it, an unlock and an ended issue pay
\* what was locked, transissue passes it from one row to one other, and neither rows
\* erased and keys used again nor plans changed make anybody be owed more or less.
ImplementsCustody == Custodian!Spec

ActivationStep ==
  /\ \A p \in DOMAIN plans :
       plans[p].status = "pending" /\ plans'[p].status # "pending"
         => gstate.plan_fee > 0 /\ collected' = collected + gstate.plan_fee
  /\ collected' # collected
       => \E p \in DOMAIN plans : plans[p].status = "pending"
                                  /\ plans' = [plans EXCEPT ![p].status = "enabled"]

\* A plan leaves "pending" only in a step that forwards exactly the fee of the
\* moment, and such a step activates one pending plan and changes no other.
ActivationIsPaid == [][ActivationStep]_vars

ReleaseStep ==
  \A i \in DOMAIN issues \cap DOMAIN issues' :
    /\ issues'[i].unlocked >= issues[i].unlocked
    /\ issues[i].status = "finished" =>
         /\ issues'[i].status = "finished"
         /\ issues'[i].issued = issues[i].issued
         /\ issues'[i].locked = issues[i].locked

\* While a row lives, what was released is never taken back, and a finished
\* issue is never paid again, reopened or handed over.
ReleaseIsFinal == [][ReleaseStep]_vars

\* An ongoing issue all of whose portions are due, under an enabled plan.
FullyVested(i) ==
  /\ IsOngoing(i)
  /\ issues[i].receiver # Self
  /\ LET plan == plans[issues[i].plan_id]
         days == issues[i].first_unlock_days
                   + (plan.unlock_times - 1) * plan.unlock_interval_days
     IN plan.status = "enabled" /\ now - issues[i].issued_at >= days * DaySeconds

\* An issue that is fully vested is released in the end, unless its plan is
\* disabled, its receiver becomes the contract or its first days are put off:
\* rounding, earlier partial releases and handovers never leave it stuck.
VestedIsReleased == \A i \in IssueIds : FullyVested(i) ~> ~ FullyVested(i)

\* The assertion unlock makes on a partial release: what is due by now is no
\* less than what was released before and no more than what was issued.
UnlockAssertionHolds ==
  \A i \in DOMAIN issues :
    IsOngoing(i) /\ UnlockedDays(issues[i], now) >= 0
                 /\ ~ FullyDue(issues[i], plans[issues[i].plan_id], now)
      => PartialReleaseOk(issues[i], plans[issues[i].plan_id], now)

===============================================================================
