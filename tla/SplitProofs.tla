------------------------------- MODULE SplitProofs -------------------------------
(***************************************************************************)
(* Proofs about Split for every value of its constants: the types, the     *)
(* solvency of the contract, that every wallet can be claimed, that every  *)
(* division hands out exactly what came in, and that the contract          *)
(* implements the abstract custodian.                                      *)
(***************************************************************************)
EXTENDS Split, TableTheorems, SequenceTheorems, TLAPS

(* Division among the receivers of a plan. *)

\* The constants.
LEMMA ConstTypes ==
  /\ NumAccounts \in Nat /\ PCT_BOOST \in Nat \ {0} /\ Word \in Nat \ {0}
  /\ MaxPlans \in Nat /\ Quantities \subseteq Nat /\ Limits \subseteq Nat
  /\ Accounts = 1 .. NumAccounts /\ PlanIds = 1 .. MaxPlans
BY SplitAssumption DEF Accounts, PlanIds

\* A list of receivers is a sequence.
LEMMA ConfSeq ==
  ASSUME NEW conf \in Confs
  PROVE  /\ Len(conf) \in Nat \ {0} /\ DOMAIN conf = 1 .. Len(conf)
         /\ \A i \in 1 .. Len(conf) :
              conf[i].token_receiver \in Accounts /\ conf[i].token_split_amount \in Nat
<1>1. PICK n \in 1 .. MaxConf : conf \in [1 .. n -> Unit]
  BY DEF Confs
<1>2. n \in Nat \ {0}
  BY <1>1, ConstTypes
<1>3. conf \in Seq(Unit)
  BY <1>1, <1>2, SeqDef
<1>4. Len(conf) \in Nat /\ DOMAIN conf = 1 .. Len(conf) /\ conf \in [1 .. Len(conf) -> Unit]
  BY <1>3, LenProperties
<1>5. 1 \in DOMAIN conf
  BY <1>1, <1>2
<1> QED BY <1>4, <1>5, ConstTypes DEF Unit

\* A remainder, and a quotient by the number whose multiple it bounds.
LEMMA Remainder ==
  ASSUME NEW a \in Nat, NEW b \in Nat \ {0}
  PROVE  a % b \in Nat /\ a % b <= a
<1>1. a % b \in 0 .. (b - 1) /\ a = b * (a \div b) + (a % b) /\ a \div b \in Nat
  BY SMT
<1>2. b * (a \div b) \in Nat
  BY <1>1
<1> QED BY <1>1, <1>2

LEMMA Quotient ==
  ASSUME NEW a \in Nat, NEW b \in Nat \ {0}
  PROVE  a \div b \in Nat /\ b * (a \div b) <= a
BY SMT

\* A portion is at most its rate of the amount, even if the product wraps around.
LEMMA PortionBound ==
  ASSUME NEW q \in Nat, NEW rate \in Nat
  PROVE  Portion(q, rate) \in Nat /\ PCT_BOOST * Portion(q, rate) <= q * rate
<1> DEFINE x == q * rate
           y == x % Word
<1>1. x \in Nat
  OBVIOUS
<1>2. y \in Nat /\ y <= x
  BY <1>1, ConstTypes, Remainder
<1>3. Portion(q, rate) = y \div PCT_BOOST
  BY DEF Portion
<1> HIDE DEF y
<1>4. y \div PCT_BOOST \in Nat /\ PCT_BOOST * (y \div PCT_BOOST) <= y
  BY <1>2, ConstTypes, Quotient
<1> HIDE DEF x
<1>5. Portion(q, rate) \in Nat /\ PCT_BOOST * Portion(q, rate) <= y
  BY <1>3, <1>4
<1>6. PCT_BOOST * Portion(q, rate) \in Nat
  BY <1>5, ConstTypes
<1>7. PCT_BOOST * Portion(q, rate) <= x
  BY <1>1, <1>2, <1>5, <1>6
<1> QED BY <1>5, <1>7 DEF x

\* So is what a receiver gets, and none of it is negative.
LEMMA PortionsBound ==
  ASSUME NEW conf \in Confs, NEW q \in Nat
  PROVE  /\ Portions(conf, q) \in [1 .. Len(conf) -> Nat]
         /\ \A i \in 1 .. Len(conf) :
              PCT_BOOST * Portions(conf, q)[i] <= q * conf[i].token_split_amount
<1> DEFINE rate(i) == conf[i].token_split_amount
<1>1. DOMAIN conf = 1 .. Len(conf) /\ \A i \in 1 .. Len(conf) : rate(i) \in Nat
  BY ConfSeq
<1>2. ASSUME NEW i \in 1 .. Len(conf)
      PROVE  /\ Portions(conf, q)[i] \in {Portion(q, rate(i)), 0}
             /\ rate(i) \in Nat /\ q * rate(i) \in Nat
  BY <1>1 DEF Portions
<1>3. ASSUME NEW i \in 1 .. Len(conf)
      PROVE  Portions(conf, q)[i] \in Nat /\ PCT_BOOST * Portions(conf, q)[i] <= q * rate(i)
  <2>1. CASE Portions(conf, q)[i] = 0
    BY <1>2, <2>1, ConstTypes
  <2>2. CASE Portions(conf, q)[i] = Portion(q, rate(i))
    BY <1>2, <2>2, PortionBound
  <2> QED BY <1>2, <2>1, <2>2
<1>4. DOMAIN Portions(conf, q) = 1 .. Len(conf)
  BY <1>1 DEF Portions
<1>5. Portions(conf, q) \in [1 .. Len(conf) -> Nat]
  <2>1. Portions(conf, q) = [i \in 1 .. Len(conf) |-> Portions(conf, q)[i]]
    BY <1>1 DEF Portions
  <2> QED BY <1>3, <2>1
<1> QED BY <1>3, <1>5

\* The portions of a plan whose rates add up to PCT_BOOST are at most the amount.
LEMMA NothingTooMuch ==
  ASSUME NEW conf \in RatedConfs, NEW q \in Nat
  PROVE  LeftOver(conf, q) >= 0
<1> DEFINE n  == Len(conf)
           p  == Portions(conf, q)
           r  == Rates(conf)
           pp == [i \in 1 .. n |-> PCT_BOOST * p[i]]
           qr == [i \in 1 .. n |-> q * r[i]]
<1>1. conf \in Confs /\ SumTo(r, n) = PCT_BOOST
  BY DEF RatedConfs, check_rate
<1>2. n \in Nat /\ DOMAIN conf = 1 .. n /\ \A i \in 1 .. n : conf[i].token_split_amount \in Nat
  BY <1>1, ConfSeq
<1>3. p \in [1 .. n -> Nat] /\ r \in [1 .. n -> Nat]
  BY <1>1, <1>2, PortionsBound DEF Rates
<1>4. \A i \in 1 .. n : PCT_BOOST * p[i] <= q * r[i]
  BY <1>1, <1>2, PortionsBound DEF Rates
<1>5. LeftOver(conf, q) = q - SumTo(p, n)
  BY DEF LeftOver
<1> HIDE DEF n, p, r
<1>6. pp \in [1 .. n -> Int] /\ qr \in [1 .. n -> Int]
  BY <1>3, ConstTypes
<1>7. (\A i \in 1 .. n : pp[i] = PCT_BOOST * p[i]) /\ (\A i \in 1 .. n : qr[i] = q * r[i])
  OBVIOUS
<1> HIDE DEF pp, qr
<1>8. p \in [1 .. n -> Int] /\ r \in [1 .. n -> Int] /\ PCT_BOOST \in Int /\ q \in Int
  BY <1>3, ConstTypes
<1>9. SumTo(pp, n) = PCT_BOOST * SumTo(p, n)
  BY <1>2, <1>6, <1>7, <1>8, SumScale, Zenon
<1>10. SumTo(qr, n) = q * PCT_BOOST
  BY <1>1, <1>2, <1>6, <1>7, <1>8, SumScale, Zenon
<1>11. SumTo(pp, n) <= SumTo(qr, n)
  BY <1>2, <1>4, <1>6, <1>7, SumMonotone
<1>12. SumTo(p, n) \in Int
  BY <1>2, <1>8, SumType, Zenon
<1>13. ASSUME NEW s \in Int, PCT_BOOST * s <= q * PCT_BOOST PROVE s <= q
  <2>1. SUFFICES ASSUME s >= q + 1 PROVE FALSE
    OBVIOUS
  <2>2. \A a, b \in Int : \A c \in Nat : a >= b => c * a >= c * b
    BY SMT
  <2>3. PCT_BOOST * s >= PCT_BOOST * (q + 1)
    BY <2>1, <2>2, ConstTypes
  <2>4. PCT_BOOST * (q + 1) = q * PCT_BOOST + PCT_BOOST
    BY ConstTypes, SMT
  <2> QED BY <1>13, <2>3, <2>4, ConstTypes
<1>14. SumTo(p, n) <= q
  BY <1>9, <1>10, <1>11, <1>12, <1>13
<1> QED BY <1>5, <1>12, <1>14

\* What each receiver gets of the portions, account by account.
Shares(conf, q) ==
  [o \in 1 .. NumAccounts |-> [i \in 1 .. Len(conf) |->
     IF conf[i].token_receiver = o THEN Portions(conf, q)[i] ELSE 0]]

\* What is left over goes to the first receiver.
Bonus(conf, q) ==
  [o \in 1 .. NumAccounts |->
     IF conf[1].token_receiver = o THEN LeftOver(conf, q) ELSE 0]

\* The credit of an account is its shares and what is left over.
LEMMA CreditParts ==
  ASSUME NEW conf \in Confs, NEW q \in Nat
  PROVE  /\ Shares(conf, q) \in [1 .. NumAccounts -> [1 .. Len(conf) -> Int]]
         /\ \A o \in 1 .. NumAccounts : \A i \in 1 .. Len(conf) : Shares(conf, q)[o][i] >= 0
         /\ Bonus(conf, q) \in [1 .. NumAccounts -> Int]
         /\ LeftOver(conf, q) \in Int
         /\ \A o \in 1 .. NumAccounts :
              Credit(conf, q)[o] = SumTo(Shares(conf, q)[o], Len(conf)) + Bonus(conf, q)[o]
<1>1. Len(conf) \in Nat /\ DOMAIN conf = 1 .. Len(conf)
  BY ConfSeq
<1>2. Portions(conf, q) \in [1 .. Len(conf) -> Nat]
  BY PortionsBound
<1>3. Portions(conf, q) \in [1 .. Len(conf) -> Int]
  BY <1>2
<1>4. SumTo(Portions(conf, q), Len(conf)) \in Int
  BY <1>1, <1>3, SumType, Zenon
<1>5. LeftOver(conf, q) \in Int
  BY <1>4 DEF LeftOver
<1>6. /\ Shares(conf, q) \in [1 .. NumAccounts -> [1 .. Len(conf) -> Int]]
      /\ \A o \in 1 .. NumAccounts : \A i \in 1 .. Len(conf) : Shares(conf, q)[o][i] >= 0
  BY <1>2, <1>3 DEF Shares
<1>7. ASSUME NEW o \in 1 .. NumAccounts
      PROVE  Credit(conf, q)[o] = SumTo(Shares(conf, q)[o], Len(conf)) + Bonus(conf, q)[o]
  <2>1. Shares(conf, q)[o] = [i \in DOMAIN conf |->
           IF conf[i].token_receiver = o THEN Portions(conf, q)[i] ELSE 0]
    BY <1>1 DEF Shares
  <2>2. Bonus(conf, q)[o] = IF conf[1].token_receiver = o THEN LeftOver(conf, q) ELSE 0
    BY DEF Bonus
  <2>3. o \in Accounts
    BY ConstTypes
  <2> QED BY <2>1, <2>2, <2>3, Zenon DEF Credit
<1> QED BY <1>5, <1>6, <1>7 DEF Bonus

\* Credits are integers, and none is negative unless the left over is.
LEMMA CreditTyped ==
  ASSUME NEW conf \in Confs, NEW q \in Nat
  PROVE  /\ Credit(conf, q) \in [1 .. NumAccounts -> Int]
         /\ LeftOver(conf, q) >= 0 =>
              \A o \in 1 .. NumAccounts : Credit(conf, q)[o] >= 0
<1>1. Len(conf) \in Nat
  BY ConfSeq
<1>2. ASSUME NEW o \in 1 .. NumAccounts
      PROVE  /\ Credit(conf, q)[o] \in Int
             /\ LeftOver(conf, q) >= 0 => Credit(conf, q)[o] >= 0
  <2> DEFINE w == Shares(conf, q)[o]
             b == Bonus(conf, q)[o]
  <2>1. w \in [1 .. Len(conf) -> Int] /\ \A i \in 1 .. Len(conf) : w[i] >= 0
    BY CreditParts
  <2>2. b \in Int /\ (LeftOver(conf, q) >= 0 => b >= 0)
    BY CreditParts DEF Bonus
  <2>3. Credit(conf, q)[o] = SumTo(w, Len(conf)) + b
    BY CreditParts
  <2> HIDE DEF w, b
  <2>4. SumTo(w, Len(conf)) \in Int /\ SumTo(w, Len(conf)) >= 0
    BY <1>1, <2>1, SumType, SumNonnegative
  <2> QED BY <2>2, <2>3, <2>4
<1>3. Credit(conf, q) = [o \in 1 .. NumAccounts |-> Credit(conf, q)[o]]
  BY ConstTypes DEF Credit
<1> QED BY <1>2, <1>3

\* All that came in is credited to somebody, whoever the receivers are.
LEMMA AllIsCredited ==
  ASSUME NEW conf \in Confs, NEW q \in Nat
  PROVE  SumTo(Credit(conf, q), NumAccounts) = q
<1> DEFINE n == Len(conf)
           N == NumAccounts
           p == Portions(conf, q)
           m == Shares(conf, q)
           b == Bonus(conf, q)
           rows == [o \in 1 .. N |-> SumTo(m[o], n)]
           cols == [i \in 1 .. n |-> SumTo([o \in 1 .. N |-> m[o][i]], N)]
<1>1. /\ n \in Nat \ {0} /\ N \in Nat
      /\ p \in [1 .. n -> Nat] /\ m \in [1 .. N -> [1 .. n -> Int]]
      /\ b \in [1 .. N -> Int] /\ LeftOver(conf, q) \in Int
      /\ \A i \in 1 .. n : conf[i].token_receiver \in 1 .. N
  <2>1. n \in Nat \ {0} /\ \A i \in 1 .. n : conf[i].token_receiver \in 1 .. N
    BY ConfSeq, ConstTypes
  <2>2. p \in [1 .. n -> Nat]
    BY PortionsBound
  <2>3. m \in [1 .. N -> [1 .. n -> Int]] /\ b \in [1 .. N -> Int] /\ LeftOver(conf, q) \in Int
    BY CreditParts, Zenon
  <2> QED BY <2>1, <2>2, <2>3, ConstTypes
<1>2. \A o \in 1 .. N : Credit(conf, q)[o] = rows[o] + b[o]
  BY CreditParts
<1>3. ASSUME NEW i \in 1 .. n PROVE SumTo([o \in 1 .. N |-> m[o][i]], N) = p[i]
  <2> DEFINE w == [o \in 1 .. N |-> m[o][i]]
             r == conf[i].token_receiver
  <2>1. w \in [1 .. N -> Int] /\ r \in 1 .. N
    BY <1>1
  <2>2. w[r] = p[i] /\ \A o \in 1 .. N : o # r => w[o] = 0
    BY <2>1 DEF Shares
  <2> HIDE DEF w, r, N
  <2>3. SumTo(w, N) = w[r]
    BY <1>1, <2>1, <2>2, SumSingle
  <2> QED BY <2>2, <2>3 DEF w
<1>4. cols = p
  BY <1>1, <1>3
<1>5. SumTo(b, N) = LeftOver(conf, q)
  <2> DEFINE r == conf[1].token_receiver
  <2>1. r \in 1 .. N
    BY <1>1
  <2>2. b[r] = LeftOver(conf, q) /\ \A o \in 1 .. N : o # r => b[o] = 0
    BY <2>1 DEF Bonus
  <2> HIDE DEF b, r, N
  <2> QED BY <1>1, <2>1, <2>2, SumSingle
<1>6. LeftOver(conf, q) = q - SumTo(p, n)
  BY DEF LeftOver
<1>7. Credit(conf, q) \in [1 .. N -> Int]
  BY CreditTyped
<1> HIDE DEF n, N, p, m, b
<1>8. SumTo(rows, N) = SumTo(cols, n)
  BY <1>1, SumExchange
<1>9. rows \in [1 .. N -> Int]
  <2>1. ASSUME NEW o \in 1 .. N PROVE SumTo(m[o], n) \in Int
    <3>1. m[o] \in [1 .. n -> Int] /\ n \in Nat
      BY <1>1
    <3> QED BY <3>1, SumType
  <2> QED BY <2>1
<1> HIDE DEF rows, cols
<1>10. SumTo(Credit(conf, q), N) = SumTo(rows, N) + SumTo(b, N)
  BY <1>1, <1>2, <1>7, <1>9, SumAdd
<1>11. SumTo(rows, N) = SumTo(p, n) /\ SumTo(rows, N) \in Int
  BY <1>1, <1>4, <1>8, <1>9, SumType
<1> QED BY <1>5, <1>6, <1>10, <1>11 DEF N

\* Every division of any amount is exact.
LEMMA ExactDivision ==
  ASSUME NEW conf \in RatedConfs, NEW q \in Nat
  PROVE  LeftOver(conf, q) >= 0 /\ SumTo(Credit(conf, q), NumAccounts) = q
<1>1. conf \in Confs
  BY DEF RatedConfs
<1> QED BY <1>1, NothingTooMuch, AllIsCredited

-------------------------------------------------------------------------------
(* What a step does. *)

\* The wallets and the balance.
Ledger ==
  /\ wallets = [p \in PlanIds |-> wallets[p]]
  /\ \A p \in PlanIds : IsTable(wallets[p], Accounts, Balances)
  /\ held \in [Assets -> Nat]

\* The plans, whose rates check_rate has seen.
Plans ==
  /\ gstate \in GlobalRow
  /\ IsTable(plans, PlanIds, PlanRow)
  /\ \A p \in DOMAIN plans : plans[p].split_conf \in RatedConfs

\* A step pays wallets of one plan, or books the credits of one payment to one plan.
Paid(p, S) == S \subseteq DOMAIN wallets[p] /\ PayOut(p, S)

BookedPayment(p, a, q) ==
  /\ p \in DOMAIN plans
  /\ LeftOver(plans[p].split_conf, q) >= 0
  /\ Book(p, Credit(plans[p].split_conf, q), a, q)

\* No action changes the wallets in another way, and plans are never erased.
LEMMA StepEffects ==
  ASSUME Plans, [Next]_vars
  PROVE  /\ Plans' /\ DOMAIN plans \subseteq DOMAIN plans'
         /\ \/ UNCHANGED <<wallets, held>>
            \/ \E p \in PlanIds : \E S \in SUBSET DOMAIN wallets[p] : Paid(p, S)
            \/ \E p \in PlanIds, a \in Assets, q \in Quantities : BookedPayment(p, a, q)
<1> DEFINE Effect == \/ UNCHANGED <<wallets, held>>
                     \/ \E p \in PlanIds : \E S \in SUBSET DOMAIN wallets[p] : Paid(p, S)
                     \/ \E p \in PlanIds, a \in Assets, q \in Quantities : BookedPayment(p, a, q)
           Goal == Plans' /\ DOMAIN plans \subseteq DOMAIN plans' /\ Effect
<1>1. ASSUME NEW m \in Limits, NEW n \in Limits, SetGlobal(m, n) PROVE Goal
  <2>1. gstate' \in GlobalRow
    BY <1>1, ConstTypes DEF SetGlobal, Plans, GlobalRow
  <2> QED BY <1>1, <2>1 DEF SetGlobal, Plans
<1>2. ASSUME NEW o \in Accounts, NEW c \in RatedConfs, NEW b \in BOOLEAN, AddPlan(o, c, b)
      PROVE  Goal
  <2> DEFINE row == [creator |-> o, split_conf |-> c, split_type |-> Type(b)]
  <2>1. row \in PlanRow /\ row.split_conf = c
    BY DEF PlanRow, RatedConfs, Type
  <2>2. PICK id \in PlanIds : plans' = Put(plans, id, row)
    BY <1>2, ConstTypes DEF AddPlan, Plans, GlobalRow
  <2>3. gstate' \in GlobalRow /\ UNCHANGED <<wallets, held>>
    BY <1>2 DEF AddPlan, Plans, GlobalRow
  <2> HIDE DEF row
  <2>5. IsTable(plans', PlanIds, PlanRow) /\ DOMAIN plans' = DOMAIN plans \cup {id}
    <3>1. IsTable(plans, PlanIds, PlanRow)
      BY DEF Plans
    <3>2. IsTable(Put(plans, id, row), PlanIds, PlanRow)
      BY <2>1, <3>1, PutTyped
    <3>3. DOMAIN Put(plans, id, row) = DOMAIN plans \cup {id}
      BY DEF Put
    <3> QED BY <2>2, <3>2, <3>3
  <2>6. \A p \in DOMAIN plans' : plans'[p].split_conf \in RatedConfs
    BY <2>1, <2>2, <2>5 DEF Put, Plans
  <2> QED BY <2>3, <2>5, <2>6 DEF Plans
<1>3. ASSUME NEW o \in Accounts, NEW p \in PlanIds, NEW c \in RatedConfs, NEW b \in BOOLEAN,
             EditPlan(o, p, c, b)
      PROVE  Goal
  <2> DEFINE row == [plans[p] EXCEPT !.split_conf = c, !.split_type = Type(b)]
  <2>1. p \in DOMAIN plans /\ plans[p] \in PlanRow
    BY <1>3 DEF EditPlan, Plans, IsTable
  <2>2. row \in PlanRow /\ row.split_conf = c
    BY <2>1 DEF PlanRow, RatedConfs, Type
  <2>3. plans' = [plans EXCEPT ![p] = row] /\ UNCHANGED gstate
    BY <1>3, <2>1 DEF EditPlan, PlanRow
  <2>4. Effect
    BY <1>3 DEF EditPlan, Paid, FirstBatch
  <2> HIDE DEF row, Effect
  <2>5. IsTable(plans', PlanIds, PlanRow) /\ DOMAIN plans' = DOMAIN plans
    <3>1. IsTable(plans, PlanIds, PlanRow)
      BY DEF Plans
    <3> QED BY <2>1, <2>2, <2>3, <3>1, ModifyTyped, Zenon
  <2>6. \A k \in DOMAIN plans' : plans'[k].split_conf \in RatedConfs
    BY <2>1, <2>2, <2>3, <2>5 DEF Plans
  <2> QED BY <2>3, <2>4, <2>5, <2>6 DEF Plans
<1>4. ASSUME NEW p \in PlanIds, NEW o \in Accounts, Claim(p, o) PROVE Goal
  <2>1. Paid(p, {o}) /\ {o} \in SUBSET DOMAIN wallets[p] /\ UNCHANGED <<gstate, plans>>
    BY <1>4 DEF Claim, Paid
  <2> QED BY <2>1 DEF Plans
<1>5. ASSUME NEW p \in PlanIds, ClaimAll(p) PROVE Goal
  <2>1. /\ Paid(p, FirstBatch(p)) /\ FirstBatch(p) \in SUBSET DOMAIN wallets[p]
        /\ UNCHANGED <<gstate, plans>>
    BY <1>5 DEF ClaimAll, Paid, FirstBatch
  <2> QED BY <2>1 DEF Plans
<1>6. ASSUME NEW f \in Accounts, NEW p \in PlanIds, NEW a \in Assets, NEW q \in Quantities,
             Split(f, p, a, q)
      PROVE  Goal
  <2>1. Effect
    BY <1>6 DEF Split, PayAtOnce, BookedPayment
  <2> QED BY <1>6, <2>1 DEF Split, Plans
<1>7. CASE UNCHANGED vars
  BY <1>7 DEF vars, Plans
<1> QED BY <1>1, <1>2, <1>3, <1>4, <1>5, <1>6, <1>7 DEF Next

\* Paying wallets keeps the types of the ledger; no balance becomes negative.
LEMMA PaidTyped ==
  ASSUME Ledger, NEW p \in PlanIds, NEW S \in SUBSET DOMAIN wallets[p], Paid(p, S)
  PROVE  /\ Ledger'
         /\ wallets' = [wallets EXCEPT ![p] = Drop(wallets[p], S)]
         /\ \A a \in Assets : Total(p, S, a) \in Int /\ held'[a] = held[a] - Total(p, S, a)
<1>1. /\ wallets' = [wallets EXCEPT ![p] = Drop(wallets[p], S)]
      /\ held' = [a \in Assets |-> held[a] - Total(p, S, a)]
      /\ \A a \in Assets : Total(p, S, a) <= held[a]
  BY DEF Paid, PayOut, CanPay, HeldLess
<1>2. ASSUME NEW a \in Assets PROVE Total(p, S, a) \in Int
  <2> DEFINE w == [o \in 1 .. NumAccounts |-> IF o \in S THEN wallets[p][o][a] ELSE 0]
  <2>1. \A o \in S : wallets[p][o][a] \in Int
    BY DEF Ledger, IsTable, Balances
  <2>2. w \in [1 .. NumAccounts -> Int]
    BY <2>1
  <2>3. Total(p, S, a) = SumTo(w, NumAccounts)
    BY ConstTypes DEF Total
  <2> HIDE DEF w
  <2> QED BY <2>2, <2>3, ConstTypes, SumType
<1>3. ASSUME NEW a \in Assets PROVE held[a] - Total(p, S, a) \in Nat
  BY <1>1, <1>2 DEF Ledger
<1>4. held' \in [Assets -> Nat]
  BY <1>1, <1>3
<1>5. IsTable(Drop(wallets[p], S), Accounts, Balances)
  <2>1. IsTable(wallets[p], Accounts, Balances)
    BY DEF Ledger
  <2> QED BY <2>1, DropTyped, Zenon
<1>6. /\ wallets' = [k \in PlanIds |-> wallets'[k]]
      /\ \A k \in PlanIds : IsTable(wallets'[k], Accounts, Balances)
  BY <1>1, <1>5 DEF Ledger
<1> QED BY <1>1, <1>2, <1>4, <1>6 DEF Ledger

\* So does booking a payment: every balance of a wallet grows by a credit.
LEMMA BookedTypes ==
  ASSUME Plans, Ledger, NEW p \in PlanIds, NEW a \in Assets, NEW q \in Quantities,
         BookedPayment(p, a, q)
  PROVE  LET credit == Credit(plans[p].split_conf, q)
         IN /\ Ledger'
            /\ plans[p].split_conf \in Confs /\ q \in Nat
            /\ credit \in [1 .. NumAccounts -> Int] /\ \A o \in Accounts : credit[o] >= 0
            /\ held' = [held EXCEPT ![a] = @ + q]
            /\ \A k \in PlanIds : k # p => wallets'[k] = wallets[k]
            /\ DOMAIN wallets'[p] = DOMAIN wallets[p] \cup Receivers(credit)
            /\ \A o \in DOMAIN wallets[p] \ Receivers(credit) : wallets'[p][o] = wallets[p][o]
            /\ \A o \in Receivers(credit) :
                 wallets'[p][o] = [(IF o \in DOMAIN wallets[p] THEN wallets[p][o] ELSE NoBalance)
                                     EXCEPT ![a] = @ + credit[o]]
<1> DEFINE conf   == plans[p].split_conf
           credit == Credit(conf, q)
           paid   == Receivers(credit)
           old(o) == IF o \in DOMAIN wallets[p] THEN wallets[p][o] ELSE NoBalance
           wallet == [o \in DOMAIN wallets[p] \cup paid |->
                        IF o \in paid THEN Booked(old(o), a, credit[o]) ELSE wallets[p][o]]
<1>1. conf \in RatedConfs /\ conf \in Confs /\ q \in Nat
  BY ConstTypes DEF Plans, BookedPayment, RatedConfs
<1>2. LeftOver(conf, q) >= 0
  BY DEF BookedPayment
<1>3. credit \in [1 .. NumAccounts -> Int] /\ \A o \in Accounts : credit[o] >= 0
  BY <1>1, <1>2, CreditTyped, ConstTypes
<1>4. wallets' = [wallets EXCEPT ![p] = wallet] /\ held' = [held EXCEPT ![a] = @ + q]
  BY DEF BookedPayment, Book
<1>5. paid \subseteq Accounts /\ \A o \in paid : credit[o] \in Nat
  BY <1>3, ConstTypes DEF Receivers
<1> HIDE DEF conf, credit, paid
<1>6. IsTable(wallets[p], Accounts, Balances)
  BY DEF Ledger
<1>7. ASSUME NEW o \in paid
      PROVE  Booked(old(o), a, credit[o]) \in Balances
  <2>1. old(o) \in Balances
    BY <1>6 DEF IsTable, Balances, NoBalance
  <2>2. credit[o] \in Nat
    BY <1>5
  <2> HIDE DEF old
  <2> QED BY <2>1, <2>2 DEF Booked, Balances
<1>8. IsTable(wallet, Accounts, Balances)
  BY <1>5, <1>6, <1>7 DEF IsTable
<1>9. /\ wallets' = [k \in PlanIds |-> wallets'[k]]
      /\ \A k \in PlanIds : k # p => wallets'[k] = wallets[k]
      /\ wallets'[p] = wallet
  BY <1>4 DEF Ledger
<1>10. /\ DOMAIN wallet = DOMAIN wallets[p] \cup paid
       /\ \A o \in DOMAIN wallets[p] \ paid : wallet[o] = wallets[p][o]
       /\ \A o \in paid : wallet[o] = [old(o) EXCEPT ![a] = @ + credit[o]]
  BY DEF Booked
<1>11. held' \in [Assets -> Nat]
  BY <1>1, <1>4 DEF Ledger
<1> HIDE DEF wallet
<1>12. Ledger'
  BY <1>8, <1>9, <1>11 DEF Ledger
<1> QED BY <1>1, <1>3, <1>4, <1>9, <1>10, <1>12 DEF conf, credit, paid

-------------------------------------------------------------------------------
(* Solvency. *)

\* What is booked for each plan.
PlanSum(a) == [p \in PlanIds |-> SumTo(BookedOf(p, a), NumAccounts)]

SumsTyped ==
  \A a \in Assets :
    /\ \A p \in PlanIds : BookedOf(p, a) \in [1 .. NumAccounts -> Int]
    /\ PlanSum(a) \in [1 .. MaxPlans -> Int]

\* The sums are of integers.
LEMMA LedgerSums == Ledger => SumsTyped
<1> SUFFICES ASSUME Ledger, NEW a \in Assets
             PROVE  /\ \A p \in PlanIds : BookedOf(p, a) \in [1 .. NumAccounts -> Int]
                    /\ PlanSum(a) \in [1 .. MaxPlans -> Int]
  BY DEF SumsTyped
<1>1. ASSUME NEW p \in PlanIds PROVE BookedOf(p, a) \in [1 .. NumAccounts -> Int]
  <2>1. \A o \in DOMAIN wallets[p] : wallets[p][o][a] \in Int
    BY DEF Ledger, IsTable, Balances
  <2> QED BY <2>1, ConstTypes DEF BookedOf
<1>2. ASSUME NEW p \in PlanIds PROVE SumTo(BookedOf(p, a), NumAccounts) \in Int
  BY <1>1, ConstTypes, SumType
<1>3. PlanSum(a) \in [1 .. MaxPlans -> Int]
  BY <1>2, ConstTypes DEF PlanSum
<1> QED BY <1>1, <1>3

\* A step that changes the wallets of one plan, and the balance by as much, keeps the
\* contract solvent.
LEMMA MovePlan ==
  ASSUME Solvent, SumsTyped, SumsTyped', held \in [Assets -> Int], held' \in [Assets -> Int],
         NEW p \in PlanIds, \A k \in PlanIds : k # p => wallets'[k] = wallets[k],
         \A a \in Assets : held'[a] - held[a] = PlanSum(a)'[p] - PlanSum(a)[p]
  PROVE  Solvent'
<1> SUFFICES ASSUME NEW a \in Assets PROVE held'[a] = SumTo(PlanSum(a)', MaxPlans)
  BY DEF Solvent, PlanSum
<1> DEFINE w == PlanSum(a)
           u == PlanSum(a)'
<1>1. held[a] = SumTo(w, MaxPlans)
  BY DEF Solvent, PlanSum
<1>2. w \in [1 .. MaxPlans -> Int] /\ u \in [1 .. MaxPlans -> Int]
  BY DEF SumsTyped
<1>3. \A k \in 1 .. MaxPlans : k # p => u[k] = w[k]
  BY ConstTypes DEF PlanSum, BookedOf
<1>4. held'[a] - held[a] = u[p] - w[p] /\ p \in 1 .. MaxPlans /\ MaxPlans \in Nat
  BY ConstTypes
<1> HIDE DEF w, u
<1>5. SumTo(u, MaxPlans) = SumTo(w, MaxPlans) - w[p] + u[p]
  BY <1>2, <1>3, <1>4, SumOneRow, Zenon
<1>6. w[p] \in Int /\ u[p] \in Int /\ held[a] \in Int /\ held'[a] \in Int
  BY <1>2, <1>4
<1>7. held'[a] = SumTo(u, MaxPlans)
  BY <1>1, <1>4, <1>5, <1>6
<1> QED BY <1>7 DEF u

\* Paying wallets takes from the sum of their plan what it takes from the balance.
LEMMA PaidSolvent ==
  ASSUME Ledger, Solvent, NEW p \in PlanIds, NEW S \in SUBSET DOMAIN wallets[p], Paid(p, S)
  PROVE  Solvent'
<1>1. /\ Ledger' /\ wallets' = [wallets EXCEPT ![p] = Drop(wallets[p], S)]
      /\ \A a \in Assets : Total(p, S, a) \in Int /\ held'[a] = held[a] - Total(p, S, a)
  BY PaidTyped
<1>2. SumsTyped /\ SumsTyped'
  BY <1>1, LedgerSums, PTL
<1>3. wallets'[p] = Drop(wallets[p], S) /\ \A k \in PlanIds : k # p => wallets'[k] = wallets[k]
  BY <1>1 DEF Ledger
<1>4. ASSUME NEW a \in Assets
      PROVE  SumTo(BookedOf(p, a), NumAccounts)
               = SumTo(BookedOf(p, a)', NumAccounts) + Total(p, S, a)
  <2> DEFINE u == BookedOf(p, a)
             w == BookedOf(p, a)'
             v == [o \in 1 .. NumAccounts |-> IF o \in S THEN wallets[p][o][a] ELSE 0]
  <2>1. u \in [1 .. NumAccounts -> Int] /\ w \in [1 .. NumAccounts -> Int]
    BY <1>2 DEF SumsTyped
  <2>2. \A o \in DOMAIN wallets[p] : wallets[p][o][a] \in Int
    BY DEF Ledger, IsTable, Balances
  <2>3. v \in [1 .. NumAccounts -> Int]
    BY <2>2
  <2>4. \A o \in 1 .. NumAccounts : u[o] = w[o] + v[o]
    BY <1>3, <2>2, ConstTypes DEF BookedOf, Drop
  <2>5. Total(p, S, a) = SumTo(v, NumAccounts)
    BY ConstTypes DEF Total
  <2> HIDE DEF u, w, v
  <2>6. SumTo(u, NumAccounts) = SumTo(w, NumAccounts) + SumTo(v, NumAccounts)
    BY <2>1, <2>3, <2>4, ConstTypes, SumAdd
  <2> QED BY <2>5, <2>6 DEF u, w
<1>5. held \in [Assets -> Int] /\ held' \in [Assets -> Int]
  BY <1>1 DEF Ledger
<1>6. ASSUME NEW a \in Assets
      PROVE  held'[a] - held[a] = PlanSum(a)'[p] - PlanSum(a)[p]
  <2>1. PlanSum(a)[p] \in Int /\ PlanSum(a)'[p] \in Int
    BY <1>2, ConstTypes DEF SumsTyped
  <2>2. PlanSum(a)[p] = PlanSum(a)'[p] + Total(p, S, a)
    BY <1>4 DEF PlanSum
  <2>3. held[a] \in Int /\ Total(p, S, a) \in Int /\ held'[a] = held[a] - Total(p, S, a)
    BY <1>1, <1>5
  <2> QED BY <2>1, <2>2, <2>3
<1> QED BY <1>2, <1>3, <1>5, <1>6, MovePlan

\* Booking a payment adds its credit to what is booked for each account.
LEMMA BookedRows ==
  ASSUME Plans, Ledger, Solvent, NEW p \in PlanIds, NEW b \in Assets, NEW q \in Quantities,
         BookedPayment(p, b, q)
  PROVE  /\ Ledger' /\ held' = [held EXCEPT ![b] = @ + q] /\ q \in Nat
         /\ plans[p].split_conf \in Confs
         /\ \A k \in PlanIds : k # p => wallets'[k] = wallets[k]
         /\ \A o \in Accounts : Credit(plans[p].split_conf, q)[o] \in Nat
         /\ \A a \in Assets : \A o \in Accounts :
              BookedOf(p, a)'[o]
                = BookedOf(p, a)[o] + (IF a = b THEN Credit(plans[p].split_conf, q)[o] ELSE 0)
<1> DEFINE credit == Credit(plans[p].split_conf, q)
           paid   == Receivers(credit)
           old(o) == IF o \in DOMAIN wallets[p] THEN wallets[p][o] ELSE NoBalance
<1>1. /\ Ledger'
      /\ plans[p].split_conf \in Confs /\ q \in Nat
      /\ credit \in [1 .. NumAccounts -> Int] /\ \A o \in Accounts : credit[o] >= 0
      /\ held' = [held EXCEPT ![b] = @ + q]
      /\ \A k \in PlanIds : k # p => wallets'[k] = wallets[k]
      /\ DOMAIN wallets'[p] = DOMAIN wallets[p] \cup paid
      /\ \A o \in DOMAIN wallets[p] \ paid : wallets'[p][o] = wallets[p][o]
      /\ \A o \in paid : wallets'[p][o] = [old(o) EXCEPT ![b] = @ + credit[o]]
  BY BookedTypes
<1>2. SumsTyped /\ SumsTyped'
  BY <1>1, LedgerSums, PTL
<1>3. \A o \in Accounts : credit[o] \in Nat /\ (o \notin paid => credit[o] = 0)
  BY <1>1, ConstTypes DEF Receivers
<1>4. IsTable(wallets[p], Accounts, Balances)
  BY DEF Ledger
<1> HIDE DEF credit, paid
<1>5. ASSUME NEW a \in Assets, NEW o \in Accounts
      PROVE  BookedOf(p, a)'[o] = BookedOf(p, a)[o] + (IF a = b THEN credit[o] ELSE 0)
  <2>1. BookedOf(p, a)[o] = (IF o \in DOMAIN wallets[p] THEN wallets[p][o][a] ELSE 0)
    BY DEF BookedOf
  <2>2. BookedOf(p, a)'[o] = (IF o \in DOMAIN wallets'[p] THEN wallets'[p][o][a] ELSE 0)
    BY DEF BookedOf
  <2>3. BookedOf(p, a)[o] \in Int
    BY <1>2, ConstTypes DEF SumsTyped
  <2>4. CASE o \in paid
    <3>1. old(o)[a] = BookedOf(p, a)[o]
      BY <2>1 DEF NoBalance
    <3>2. old(o) \in Balances
      BY <1>4 DEF IsTable, Balances, NoBalance
    <3>3. wallets'[p][o] = [old(o) EXCEPT ![b] = @ + credit[o]]
      BY <1>1, <2>4
    <3> HIDE DEF old
    <3>4. wallets'[p][o][a] = IF a = b THEN old(o)[a] + credit[o] ELSE old(o)[a]
      BY <3>2, <3>3 DEF Balances
    <3>5. BookedOf(p, a)'[o] = wallets'[p][o][a]
      BY <1>1, <2>2, <2>4
    <3> QED BY <2>3, <3>1, <3>4, <3>5
  <2>5. CASE o \notin paid
    <3>1. BookedOf(p, a)'[o] = BookedOf(p, a)[o]
      BY <1>1, <2>1, <2>2, <2>5
    <3>2. credit[o] = 0
      BY <1>3, <2>5
    <3> QED BY <2>3, <3>1, <3>2
  <2> QED BY <2>4, <2>5
<1> QED BY <1>1, <1>3, <1>5 DEF credit

\* Booking a payment adds all of it to the sum of its plan.
LEMMA BookedSolvent ==
  ASSUME Plans, Ledger, Solvent, NEW p \in PlanIds, NEW b \in Assets, NEW q \in Quantities,
         BookedPayment(p, b, q)
  PROVE  Solvent'
<1> DEFINE credit == Credit(plans[p].split_conf, q)
<1>1. /\ Ledger' /\ held' = [held EXCEPT ![b] = @ + q] /\ q \in Nat
      /\ plans[p].split_conf \in Confs
      /\ \A k \in PlanIds : k # p => wallets'[k] = wallets[k]
      /\ \A a \in Assets : \A o \in Accounts :
           BookedOf(p, a)'[o] = BookedOf(p, a)[o] + (IF a = b THEN credit[o] ELSE 0)
  BY BookedRows
<1>2. SumsTyped /\ SumsTyped'
  BY <1>1, LedgerSums, PTL
<1>3. SumTo(credit, NumAccounts) = q /\ credit \in [1 .. NumAccounts -> Int]
  BY <1>1, AllIsCredited, CreditTyped
<1> HIDE DEF credit
<1>4. ASSUME NEW a \in Assets
      PROVE  PlanSum(a)'[p] = PlanSum(a)[p] + (IF a = b THEN q ELSE 0)
  <2> DEFINE w == BookedOf(p, a)
             u == BookedOf(p, a)'
  <2>1. w \in [1 .. NumAccounts -> Int] /\ u \in [1 .. NumAccounts -> Int]
    BY <1>2 DEF SumsTyped
  <2>2. \A o \in 1 .. NumAccounts : u[o] = w[o] + (IF a = b THEN credit[o] ELSE 0)
    BY <1>1, ConstTypes
  <2>3. PlanSum(a)[p] = SumTo(w, NumAccounts) /\ PlanSum(a)'[p] = SumTo(u, NumAccounts)
    BY DEF PlanSum
  <2> HIDE DEF w, u
  <2>4. SumTo(w, NumAccounts) \in Int
    BY <2>1, ConstTypes, SumType
  <2>5. CASE a = b
    <3>1. \A o \in 1 .. NumAccounts : u[o] = w[o] + credit[o]
      BY <2>2, <2>5
    <3>2. credit \in [1 .. NumAccounts -> Int] /\ NumAccounts \in Nat
      BY <1>3, ConstTypes
    <3>3. SumTo(u, NumAccounts) = SumTo(w, NumAccounts) + SumTo(credit, NumAccounts)
      BY <2>1, <3>1, <3>2, SumAdd
    <3> QED BY <1>3, <2>3, <2>5, <3>3
  <2>6. CASE a # b
    <3>1. \A o \in 1 .. NumAccounts : u[o] = w[o]
      BY <2>1, <2>2, <2>6
    <3>2. /\ u = [o \in 1 .. NumAccounts |-> u[o]]
          /\ w = [o \in 1 .. NumAccounts |-> w[o]]
      BY <2>1
    <3>3. u = w
      BY <3>1, <3>2
    <3> QED BY <2>3, <2>4, <2>6, <3>3
  <2> QED BY <2>5, <2>6
<1>5. held \in [Assets -> Int] /\ held' \in [Assets -> Int]
  BY <1>1 DEF Ledger
<1>6. ASSUME NEW a \in Assets
      PROVE  held'[a] - held[a] = PlanSum(a)'[p] - PlanSum(a)[p]
  <2>1. PlanSum(a)[p] \in Int /\ held[a] \in Int /\ q \in Int
    BY <1>1, <1>2, <1>5, ConstTypes DEF SumsTyped
  <2>2. held'[a] = held[a] + (IF a = b THEN q ELSE 0)
    BY <1>1, <1>5
  <2> QED BY <1>4, <2>1, <2>2
<1>7. \A k \in PlanIds : k # p => wallets'[k] = wallets[k]
  BY <1>1
<1> QED BY <1>2, <1>5, <1>6, <1>7, MovePlan

-------------------------------------------------------------------------------
(* The invariant. *)

Inv == Plans /\ Ledger /\ Solvent /\ WalletsClaimable

\* Wallets are booked for plans that exist, and never with nothing in them.
LEMMA ClaimableStep == Inv /\ [Next]_vars => WalletsClaimable'
<1> SUFFICES ASSUME Inv, [Next]_vars PROVE WalletsClaimable'
  OBVIOUS
<1>1. Plans /\ Ledger /\ WalletsClaimable /\ DOMAIN plans \subseteq DOMAIN plans'
  BY StepEffects DEF Inv
<1>2. CASE UNCHANGED <<wallets, held>>
  BY <1>1, <1>2 DEF WalletsClaimable
<1>3. ASSUME NEW p \in PlanIds, NEW S \in SUBSET DOMAIN wallets[p], Paid(p, S)
      PROVE  WalletsClaimable'
  <2>1. wallets' = [wallets EXCEPT ![p] = Drop(wallets[p], S)]
    BY <1>1, <1>3, PaidTyped
  <2> QED BY <1>1, <2>1 DEF WalletsClaimable, Drop, Ledger
<1>4. ASSUME NEW p \in PlanIds, NEW a \in Assets, NEW q \in Quantities, BookedPayment(p, a, q)
      PROVE  WalletsClaimable'
  <2> DEFINE credit == Credit(plans[p].split_conf, q)
             paid   == Receivers(credit)
             old(o) == IF o \in DOMAIN wallets[p] THEN wallets[p][o] ELSE NoBalance
  <2>1. /\ \A k \in PlanIds : k # p => wallets'[k] = wallets[k]
        /\ DOMAIN wallets'[p] = DOMAIN wallets[p] \cup paid
        /\ \A o \in DOMAIN wallets[p] \ paid : wallets'[p][o] = wallets[p][o]
        /\ \A o \in paid : wallets'[p][o] = [old(o) EXCEPT ![a] = @ + credit[o]]
        /\ credit \in [1 .. NumAccounts -> Int]
    BY <1>1, <1>4, BookedTypes
  <2>2. \A o \in paid : o \in Accounts /\ credit[o] \in Int /\ credit[o] > 0
    BY <2>1, ConstTypes DEF Receivers
  <2>3. IsTable(wallets[p], Accounts, Balances) /\ p \in DOMAIN plans
    BY <1>1, <1>4 DEF Ledger, BookedPayment
  <2> HIDE DEF credit, paid
  <2>4. ASSUME NEW o \in paid PROVE wallets'[p][o][a] > 0
    <3>1. old(o) \in Balances
      BY <2>3 DEF IsTable, Balances, NoBalance
    <3>2. wallets'[p][o] = [old(o) EXCEPT ![a] = @ + credit[o]]
      BY <2>1
    <3> HIDE DEF old
    <3>3. wallets'[p][o][a] = old(o)[a] + credit[o] /\ old(o)[a] \in Nat
      BY <3>1, <3>2 DEF Balances
    <3> QED BY <2>2, <3>3
  <2>5. ASSUME NEW k \in PlanIds, NEW o \in DOMAIN wallets'[k]
        PROVE  k \in DOMAIN plans /\ \E b \in Assets : wallets'[k][o][b] > 0
    <3>1. CASE k # p
      BY <1>1, <2>1, <3>1 DEF WalletsClaimable
    <3>2. CASE k = p /\ o \in paid
      BY <2>3, <2>4, <3>2
    <3>3. CASE k = p /\ o \in DOMAIN wallets[p] \ paid
      BY <1>1, <2>1, <2>3, <3>3 DEF WalletsClaimable
    <3> QED BY <2>1, <3>1, <3>2, <3>3
  <2> QED BY <1>1, <2>5 DEF WalletsClaimable
<1> QED BY <1>1, <1>2, <1>3, <1>4, StepEffects

\* Every step keeps the invariant.
LEMMA InvStep == Inv /\ [Next]_vars => Inv'
<1> SUFFICES ASSUME Inv, [Next]_vars PROVE Inv'
  OBVIOUS
<1>1. Plans /\ Ledger /\ Solvent /\ Plans' /\ WalletsClaimable'
  BY StepEffects, ClaimableStep DEF Inv
<1>2. CASE UNCHANGED <<wallets, held>>
  <2>1. Ledger' /\ Solvent'
    BY <1>1, <1>2 DEF Ledger, Solvent, BookedOf
  <2> QED BY <1>1, <2>1 DEF Inv
<1>3. ASSUME NEW p \in PlanIds, NEW S \in SUBSET DOMAIN wallets[p], Paid(p, S) PROVE Inv'
  <2>1. Ledger' /\ Solvent'
    BY <1>1, <1>3, PaidTyped, PaidSolvent
  <2> QED BY <1>1, <2>1 DEF Inv
<1>4. ASSUME NEW p \in PlanIds, NEW a \in Assets, NEW q \in Quantities, BookedPayment(p, a, q)
      PROVE  Inv'
  <2>1. Ledger' /\ Solvent'
    BY <1>1, <1>4, BookedTypes, BookedSolvent
  <2> QED BY <1>1, <2>1 DEF Inv
<1> QED BY <1>1, <1>2, <1>3, <1>4, StepEffects

\* There is nothing at first: no plan, no wallet, no balance.
LEMMA InvInit == Init => Inv
<1> SUFFICES ASSUME Init PROVE Inv
  OBVIOUS
<1>1. Plans
  BY ConstTypes DEF Init, Plans, GlobalRow, IsTable, Empty
<1>2. Ledger
  BY DEF Init, Ledger, IsTable, Empty
<1>3. WalletsClaimable
  BY DEF Init, WalletsClaimable, Empty
<1>4. Solvent
  <2> SUFFICES ASSUME NEW a \in Assets PROVE held[a] = SumTo(PlanSum(a), MaxPlans)
    BY DEF Solvent, PlanSum
  <2>1. ASSUME NEW p \in PlanIds PROVE SumTo(BookedOf(p, a), NumAccounts) = 0
    <3> DEFINE w == BookedOf(p, a)
    <3>1. w \in [1 .. NumAccounts -> Int] /\ \A o \in 1 .. NumAccounts : w[o] = 0
      BY ConstTypes DEF Init, BookedOf, Empty
    <3> HIDE DEF w
    <3>2. SumTo(w, NumAccounts) = 0
      BY <3>1, ConstTypes, SumOfZeros
    <3> QED BY <3>2 DEF w
  <2> DEFINE s == PlanSum(a)
  <2>2. s \in [1 .. MaxPlans -> Int] /\ \A p \in 1 .. MaxPlans : s[p] = 0
    BY <2>1, ConstTypes DEF PlanSum
  <2>3. held[a] = 0
    BY DEF Init
  <2> HIDE DEF s
  <2>4. SumTo(s, MaxPlans) = 0
    BY <2>2, ConstTypes, SumOfZeros
  <2> QED BY <2>3, <2>4 DEF s
<1> QED BY <1>1, <1>2, <1>3, <1>4 DEF Inv

\* The invariant holds always.
LEMMA InvHolds == Spec => []Inv
BY InvInit, InvStep, PTL DEF Spec

-------------------------------------------------------------------------------
(* The theorems. *)

\* Every row of every table keeps its type; in particular no balance becomes negative.
THEOREM SplitTypeCorrect == Spec => []TypeOK
<1>1. Inv => TypeOK
  BY DEF Inv, Plans, Ledger, TypeOK
<1> QED BY <1>1, InvHolds, PTL

\* The contract owns of every asset exactly what the wallets of all the plans say.
THEOREM SplitSolvent == Spec => []Solvent
<1>1. Inv => Solvent
  BY DEF Inv
<1> QED BY <1>1, InvHolds, PTL

\* Every wallet belongs to a plan that exists, and has something to claim.
THEOREM SplitWalletsClaimable == Spec => []WalletsClaimable
<1>1. Inv => WalletsClaimable
  BY DEF Inv
<1> QED BY <1>1, InvHolds, PTL

\* The plan of a wallet is there, and the balance covers any set of its wallets.
PayoutsGoOut ==
  \A p \in PlanIds : \A S \in SUBSET DOMAIN wallets[p] :
    /\ S # {} => p \in DOMAIN plans
    /\ Self \notin S => CanPay(p, S)

\* So with WalletsClaimable claim is refused to nobody but the contract itself, and
\* claimall, like the one that editplan sends, only where a wallet of the contract is in
\* the batch.
THEOREM SplitPayoutsGoOut == Spec => []PayoutsGoOut
<1>1. Inv => PayoutsGoOut
  <2> SUFFICES ASSUME Inv, NEW p \in PlanIds, NEW S \in SUBSET DOMAIN wallets[p]
               PROVE  /\ S # {} => p \in DOMAIN plans
                      /\ Self \notin S => CanPay(p, S)
    BY DEF PayoutsGoOut
  <2>1. S # {} => p \in DOMAIN plans
    BY DEF Inv, WalletsClaimable
  <2>2. ASSUME NEW a \in Assets PROVE Total(p, S, a) <= held[a]
    <3> DEFINE v == [o \in 1 .. NumAccounts |-> IF o \in S THEN wallets[p][o][a] ELSE 0]
               w == BookedOf(p, a)
               s == PlanSum(a)
    <3>1. \A o \in DOMAIN wallets[p] : wallets[p][o][a] \in Nat
      BY DEF Inv, Ledger, IsTable, Balances
    <3>2. v \in [1 .. NumAccounts -> Int] /\ w \in [1 .. NumAccounts -> Int]
      BY <3>1, LedgerSums DEF Inv, SumsTyped
    <3>3. \A o \in 1 .. NumAccounts : v[o] <= w[o]
      BY <3>1, ConstTypes DEF BookedOf
    <3>4. SumTo(v, NumAccounts) <= SumTo(w, NumAccounts)
      <4> HIDE DEF v, w
      <4> QED BY <3>2, <3>3, ConstTypes, SumMonotone
    <3>5. s \in [1 .. MaxPlans -> Int] /\ \A k \in 1 .. MaxPlans : s[k] >= 0
      <4>1. ASSUME NEW k \in PlanIds PROVE SumTo(BookedOf(k, a), NumAccounts) >= 0
        <5> DEFINE b == BookedOf(k, a)
        <5>1. \A o \in DOMAIN wallets[k] : wallets[k][o][a] \in Nat
          BY DEF Inv, Ledger, IsTable, Balances
        <5>2. b \in [1 .. NumAccounts -> Int] /\ \A o \in 1 .. NumAccounts : b[o] >= 0
          BY <5>1, LedgerSums, ConstTypes DEF Inv, SumsTyped, BookedOf
        <5> HIDE DEF b
        <5>3. SumTo(b, NumAccounts) >= 0
          BY <5>2, ConstTypes, SumBounds
        <5> QED BY <5>3 DEF b
      <4>2. s \in [1 .. MaxPlans -> Int]
        BY LedgerSums DEF Inv, SumsTyped
      <4> QED BY <4>1, <4>2, ConstTypes DEF PlanSum
    <3>6. s[p] <= SumTo(s, MaxPlans)
      <4> HIDE DEF s
      <4> QED BY <3>5, ConstTypes, SumBounds
    <3>7. s[p] = SumTo(w, NumAccounts) /\ held[a] = SumTo(s, MaxPlans)
      BY DEF Inv, Solvent, PlanSum
    <3>8. Total(p, S, a) = SumTo(v, NumAccounts)
      BY ConstTypes DEF Total
    <3>9. /\ SumTo(v, NumAccounts) \in Int /\ SumTo(w, NumAccounts) \in Int
          /\ SumTo(s, MaxPlans) \in Int
      <4> HIDE DEF v, w, s
      <4> QED BY <3>2, <3>5, ConstTypes, SumType
    <3> HIDE DEF v, w, s
    <3> QED BY <3>4, <3>6, <3>7, <3>8, <3>9
  <2> QED BY <2>1, <2>2 DEF CanPay
<1> QED BY <1>1, InvHolds, PTL

\* Every division of any amount by any plan hands out exactly what came in, for any
\* word size and any number that the rates add up to.
THEOREM SplitDividesExactly == Spec => []DividesExactly
<1>1. Inv => DividesExactly
  <2> SUFFICES ASSUME Inv, NEW p \in DOMAIN plans, NEW q \in 1 .. MaxAmount
               PROVE  /\ LeftOver(plans[p].split_conf, q) >= 0
                      /\ SumTo(Credit(plans[p].split_conf, q), NumAccounts) = q
    BY DEF DividesExactly
  <2>1. plans[p].split_conf \in RatedConfs /\ q \in Nat
    BY SplitAssumption DEF Inv, Plans
  <2> QED BY <2>1, ExactDivision
<1> QED BY <1>1, InvHolds, PTL

-------------------------------------------------------------------------------
(* The refinement. *)

\* Products are monotone.
LEMMA Product ==
  ASSUME NEW a \in Int, NEW b \in Int, NEW c \in Nat, a <= b
  PROVE  a * c <= b * c
BY SMT

\* The block and the place in it of a number.
LEMMA BlockRange ==
  ASSUME NEW r \in Nat, NEW n \in Nat \ {0}, NEW i \in 1 .. r * n
  PROVE  /\ ((i - 1) \div n) + 1 \in 1 .. r
         /\ ((i - 1) % n) + 1 \in 1 .. n
<1>1. PICK d \in Nat, e \in 0 .. (n - 1) :
        d = (i - 1) \div n /\ e = (i - 1) % n /\ i - 1 = d * n + e
  <2>1. r * n \in Nat /\ i - 1 \in Nat
    OBVIOUS
  <2> QED BY <2>1, SMT
<1>2. d < r
  <2>1. SUFFICES ASSUME r <= d PROVE FALSE
    OBVIOUS
  <2>2. r * n <= d * n
    BY <2>1, Product
  <2>3. r * n \in Nat /\ d * n \in Nat
    OBVIOUS
  <2> QED BY <1>1, <2>2, <2>3
<1> QED BY <1>1, <1>2

\* The number of a place in a block.
LEMMA BlockPlace ==
  ASSUME NEW n \in Nat \ {0}, NEW d \in Nat, NEW e \in 0 .. (n - 1)
  PROVE  (d * n + e) \div n = d /\ (d * n + e) % n = e
<1>1. PICK i \in Nat : i = d * n + e
  OBVIOUS
<1>2. PICK q \in Nat, m \in 0 .. (n - 1) : q = i \div n /\ m = i % n /\ i = q * n + m
  BY SMT
<1>3. q * n \in Nat /\ d * n \in Nat /\ (q + 1) * n = q * n + n /\ (d + 1) * n = d * n + n
  BY SMT
<1>4. ~ (q < d)
  <2>1. SUFFICES ASSUME q + 1 <= d PROVE FALSE
    OBVIOUS
  <2>2. (q + 1) * n <= d * n
    BY <2>1, Product
  <2> QED BY <1>1, <1>2, <1>3, <2>2
<1>5. ~ (d < q)
  <2>1. SUFFICES ASSUME d + 1 <= q PROVE FALSE
    OBVIOUS
  <2>2. (d + 1) * n <= q * n
    BY <2>1, Product
  <2> QED BY <1>1, <1>2, <1>3, <2>2
<1>6. q = d
  BY <1>4, <1>5
<1>7. m = e
  BY <1>1, <1>2, <1>3, <1>6
<1> QED BY <1>1, <1>2, <1>6, <1>7

NumWallets == MaxPlans * NumAccounts
PlanOf(i)  == ((i - 1) \div NumAccounts) + 1
OwnerOf(i) == ((i - 1) % NumAccounts) + 1

\* The numbers of the wallets.
LEMMA WalletNumbers ==
  /\ NumAccounts \in Nat \ {0} /\ NumWallets \in Nat
  /\ \A i \in 1 .. NumWallets : PlanOf(i) \in PlanIds /\ OwnerOf(i) \in Accounts
  /\ \A p \in PlanIds : \A o \in Accounts :
       PlanOf((p - 1) * NumAccounts + o) = p /\ OwnerOf((p - 1) * NumAccounts + o) = o
<1>1. NumAccounts \in Nat \ {0} /\ NumWallets \in Nat
  BY SplitAssumption DEF NumWallets
<1>2. ASSUME NEW i \in 1 .. NumWallets PROVE PlanOf(i) \in PlanIds /\ OwnerOf(i) \in Accounts
  BY <1>1, ConstTypes, BlockRange DEF NumWallets, PlanOf, OwnerOf
<1>3. ASSUME NEW p \in PlanIds, NEW o \in Accounts
      PROVE  /\ PlanOf((p - 1) * NumAccounts + o) = p
             /\ OwnerOf((p - 1) * NumAccounts + o) = o
  <2>1. PICK d \in Nat, e \in 0 .. (NumAccounts - 1) : d = p - 1 /\ e = o - 1
    BY <1>1, ConstTypes
  <2>2. (d * NumAccounts + e) \div NumAccounts = d /\ (d * NumAccounts + e) % NumAccounts = e
    BY <1>1, BlockPlace
  <2>3. ((p - 1) * NumAccounts + o) - 1 = d * NumAccounts + e
    <3>1. d * NumAccounts \in Nat /\ o \in Int
      BY <1>1, ConstTypes
    <3> QED BY <2>1, <3>1
  <2>4. d + 1 = p /\ e + 1 = o
    BY <2>1, <1>1, ConstTypes
  <2> QED BY <2>2, <2>3, <2>4 DEF PlanOf, OwnerOf
<1> QED BY <1>1, <1>2, <1>3

\* What is owed to a wallet is what is booked for it.
LEMMA OwedOf ==
  \A i \in 1 .. NumWallets, a \in Assets : Owed[i][a] = BookedOf(PlanOf(i), a)[OwnerOf(i)]
BY DEF Owed, NumWallets, PlanOf, OwnerOf

\* To be solvent is to be balanced as a custodian.
LEMMA SolventIsBalanced == Ledger /\ Solvent => Custodian!Balanced
<1> SUFFICES ASSUME Ledger, Solvent, NEW a \in Assets
             PROVE  held[a] = SumTo([i \in 1 .. NumWallets |-> Owed[i][a]], NumWallets)
  <2>1. \A w, n : Custodian!SumTo(w, n) = SumTo(w, n)
    BY DEF SumTo, Custodian!SumTo
  <2> QED BY <2>1 DEF Custodian!Balanced, Custodian!Claims, NumWallets
<1>1. PICK w : w = [i \in 1 .. NumWallets |-> Owed[i][a]]
  OBVIOUS
<1>2. PICK m : m = [p \in 1 .. MaxPlans |-> BookedOf(p, a)]
  OBVIOUS
<1>3. m \in [1 .. MaxPlans -> [1 .. NumAccounts -> Int]]
  BY <1>2, LedgerSums, ConstTypes DEF SumsTyped
<1>4. \A p \in PlanIds : \A o \in Accounts : BookedOf(p, a)[o] \in Int
  BY LedgerSums, ConstTypes DEF SumsTyped
<1>5. w \in [1 .. NumWallets -> Int]
  <2>1. ASSUME NEW i \in 1 .. NumWallets PROVE Owed[i][a] \in Int
    BY <1>4, OwedOf, WalletNumbers
  <2> QED BY <1>1, <2>1
<1>6. ASSUME NEW p \in 1 .. MaxPlans, NEW o \in 1 .. NumAccounts
      PROVE  m[p][o] = w[(p - 1) * NumAccounts + o]
  <2>1. PICK i : i = (p - 1) * NumAccounts + o
    OBVIOUS
  <2>2. i \in 1 .. NumWallets
    <3>1. PICK b \in Nat : b = (p - 1) * NumAccounts /\ b + NumAccounts = p * NumAccounts
      BY ConstTypes, SMT
    <3>2. p * NumAccounts <= NumWallets /\ p * NumAccounts \in Nat
      BY ConstTypes, Product DEF NumWallets
    <3> QED BY <2>1, <3>1, <3>2, WalletNumbers
  <2>3. PlanOf(i) = p /\ OwnerOf(i) = o
    BY <2>1, WalletNumbers, ConstTypes
  <2>4. w[i] = BookedOf(p, a)[o]
    BY <1>1, <2>2, <2>3, OwedOf
  <2> QED BY <1>2, <2>1, <2>4
<1>7. SumTo(w, NumWallets) = SumTo([p \in 1 .. MaxPlans |-> SumTo(m[p], NumAccounts)], MaxPlans)
  <2>1. NumWallets = MaxPlans * NumAccounts
    BY DEF NumWallets
  <2>2. \A p \in 1 .. MaxPlans : \A o \in 1 .. NumAccounts : m[p][o] = w[(p - 1) * NumAccounts + o]
    BY <1>6
  <2>3. MaxPlans \in Nat /\ NumAccounts \in Nat /\ NumWallets \in Nat
    BY WalletNumbers, ConstTypes
  <2> DEFINE sums == [p \in 1 .. MaxPlans |-> SumTo(m[p], NumAccounts)]
             blocks == /\ NumWallets = MaxPlans * NumAccounts
                       /\ \A p \in 1 .. MaxPlans : \A o \in 1 .. NumAccounts :
                            m[p][o] = w[(p - 1) * NumAccounts + o]
  <2>4. blocks => SumTo(w, NumWallets) = SumTo(sums, MaxPlans)
    BY <1>3, <1>5, <2>3, SumBlocks
  <2> QED BY <2>1, <2>2, <2>4, Zenon
<1>8. [p \in 1 .. MaxPlans |-> SumTo(m[p], NumAccounts)]
        = [p \in PlanIds |-> SumTo(BookedOf(p, a), NumAccounts)]
  BY <1>2, ConstTypes
<1> QED BY <1>1, <1>7, <1>8 DEF Solvent

\* Booking a payment adds to the balance of its asset only, and takes from no wallet.
LEMMA BookedGrows ==
  ASSUME Plans, Ledger, Solvent, NEW p \in PlanIds, NEW b \in Assets, NEW q \in Quantities,
         BookedPayment(p, b, q)
  PROVE  /\ held'[b] > held[b] /\ \A a \in Assets \ {b} : held'[a] = held[a]
         /\ \A k \in PlanIds, o \in Accounts, a \in Assets :
              BookedOf(k, a)'[o] >= BookedOf(k, a)[o]
<1> DEFINE credit == Credit(plans[p].split_conf, q)
<1>1. /\ held' = [held EXCEPT ![b] = @ + q]
      /\ \A k \in PlanIds : k # p => wallets'[k] = wallets[k]
      /\ \A o \in Accounts : credit[o] \in Nat
      /\ \A a \in Assets : \A o \in Accounts :
           BookedOf(p, a)'[o] = BookedOf(p, a)[o] + (IF a = b THEN credit[o] ELSE 0)
  BY BookedRows
<1>2. SumsTyped
  BY LedgerSums
<1> HIDE DEF credit
<1>3. ASSUME NEW k \in PlanIds, NEW o \in Accounts, NEW a \in Assets
      PROVE  BookedOf(k, a)'[o] >= BookedOf(k, a)[o]
  <2>1. BookedOf(k, a)[o] \in Int
    BY <1>2, ConstTypes DEF SumsTyped
  <2>2. CASE k = p
    BY <1>1, <2>1, <2>2
  <2>3. CASE k # p
    <3>1. BookedOf(k, a)'[o] = BookedOf(k, a)[o]
      BY <1>1, <2>3 DEF BookedOf
    <3> QED BY <2>1, <3>1
  <2> QED BY <2>2, <2>3
<1>4. held'[b] > held[b] /\ \A a \in Assets \ {b} : held'[a] = held[a]
  <2>1. q \in Nat \ {0} /\ held[b] \in Nat
    BY SplitAssumption DEF Ledger
  <2>2. held'[b] = held[b] + q /\ \A a \in Assets \ {b} : held'[a] = held[a]
    BY <1>1 DEF Ledger
  <2> QED BY <2>1, <2>2
<1> QED BY <1>3, <1>4

\* Every step is a step of a custodian whose claims do not pass on: a payment owes
\* more to wallets of its plan, a claim owes less, and no other step touches a wallet
\* or a token.
LEMMA CustodyStep == Inv /\ Inv' /\ [Next]_vars => [Custodian!Next]_(Custodian!vars)
<1> SUFFICES ASSUME Inv, Inv', [Next]_vars PROVE [Custodian!Next]_(Custodian!vars)
  OBVIOUS
<1>1. Custodian!Balanced' /\ Plans /\ Ledger /\ Solvent /\ SumsTyped /\ SumsTyped'
  BY SolventIsBalanced, LedgerSums, PTL DEF Inv
<1>2. \A i \in 1 .. NumWallets, a \in Assets :
        /\ PlanOf(i) \in PlanIds /\ OwnerOf(i) \in Accounts
        /\ Owed[i][a] = BookedOf(PlanOf(i), a)[OwnerOf(i)]
        /\ Owed'[i][a] = BookedOf(PlanOf(i), a)'[OwnerOf(i)]
  <2>1. \A i \in 1 .. NumWallets, a \in Assets :
          Owed'[i][a] = BookedOf(PlanOf(i), a)'[OwnerOf(i)]
    BY DEF Owed, NumWallets, PlanOf, OwnerOf
  <2> QED BY <2>1, WalletNumbers, OwedOf
<1>3. CASE UNCHANGED <<wallets, held>>
  BY <1>3 DEF Custodian!vars, Owed, BookedOf
<1>4. ASSUME NEW p \in PlanIds, NEW S \in SUBSET DOMAIN wallets[p], Paid(p, S)
      PROVE  Custodian!Payout
  <2>1. /\ wallets'[p] = Drop(wallets[p], S)
        /\ \A k \in PlanIds : k # p => wallets'[k] = wallets[k]
    <3>1. wallets' = [wallets EXCEPT ![p] = Drop(wallets[p], S)]
      BY <1>1, <1>4, PaidTyped
    <3> QED BY <1>1, <3>1 DEF Ledger
  <2>2. \A k \in PlanIds : \A o \in DOMAIN wallets[k] : \A a \in Assets : wallets[k][o][a] \in Nat
    BY <1>1 DEF Ledger, IsTable, Balances
  <2>3. ASSUME NEW k \in PlanIds, NEW o \in Accounts, NEW a \in Assets
        PROVE  BookedOf(k, a)'[o] <= BookedOf(k, a)[o]
    BY <2>1, <2>2 DEF BookedOf, Drop
  <2>4. \A i \in 1 .. NumWallets, a \in Assets : Owed'[i][a] <= Owed[i][a]
    BY <1>2, <2>3
  <2> QED BY <1>1, <2>4 DEF Custodian!Payout, Custodian!Claims, NumWallets
<1>5. ASSUME NEW p \in PlanIds, NEW b \in Assets, NEW q \in Quantities, BookedPayment(p, b, q)
      PROVE  Custodian!Deposit
  <2>1. /\ held'[b] > held[b] /\ \A a \in Assets \ {b} : held'[a] = held[a]
        /\ \A k \in PlanIds, o \in Accounts, a \in Assets :
             BookedOf(k, a)'[o] >= BookedOf(k, a)[o]
    BY <1>1, <1>5, BookedGrows
  <2>2. \A i \in 1 .. NumWallets, a \in Assets : Owed'[i][a] >= Owed[i][a]
    BY <1>2, <2>1
  <2> QED BY <1>1, <2>1, <2>2 DEF Custodian!Deposit, Custodian!Claims, NumWallets
<1> QED BY <1>1, <1>3, <1>4, <1>5, StepEffects DEF Custodian!Next

\* flon.split implements the abstract custodian.
THEOREM SplitImplementsCustody == Spec => ImplementsCustody
<1>1. Init => Custodian!Init
  <2> SUFFICES ASSUME Init PROVE Custodian!Init
    OBVIOUS
  <2>1. wallets = [p \in PlanIds |-> Empty] /\ held = [a \in Assets |-> 0]
    BY DEF Init
  <2>2. ASSUME NEW i \in 1 .. NumWallets, NEW a \in Assets
        PROVE  BookedOf(PlanOf(i), a)[OwnerOf(i)] = 0
    BY <2>1, WalletNumbers DEF BookedOf, Empty
  <2>3. Owed = [i \in 1 .. NumWallets |-> [a \in Assets |-> 0]]
    BY <2>2 DEF Owed, NumWallets, PlanOf, OwnerOf
  <2> QED BY <2>1, <2>3 DEF Custodian!Init, Custodian!Claims, NumWallets
<1> QED BY <1>1, CustodyStep, InvHolds, PTL DEF Spec, ImplementsCustody, Custodian!Spec

===============================================================================
