------------------------------ MODULE RedpackProofs ------------------------------
(***************************************************************************)
(* Proofs about Redpack for every value of its constants: the types, the   *)
(* solvency of the contract and the shares of a packet.  The invariant is  *)
(* per packet (PackOK): the amount left dominates a floor that a draw of   *)
(* up to twice the average, rounded down to whole units, cannot break.     *)
(***************************************************************************)
EXTENDS Redpack, TableTheorems, FiniteSetTheorems, TLAPS

(* Arithmetic of the shares. *)

\* Integer division by its product.
LEMMA Quotient ==
  ASSUME NEW q \in Nat, NEW c \in Nat \ {0}
  PROVE  /\ q \div c \in Nat
         /\ (q \div c) * c <= q
         /\ q < (q \div c + 1) * c
BY SMT

\* Products are monotone.
LEMMA Product ==
  ASSUME NEW a \in Int, NEW b \in Int, NEW c \in Nat, a <= b
  PROVE  a * c <= b * c /\ c * a <= c * b
BY SMT

\* A quotient is at least f when the dividend is at least f times the divisor.
LEMMA QuotientLow ==
  ASSUME NEW q \in Nat, NEW c \in Nat \ {0}, NEW f \in Nat, q >= f * c
  PROVE  q \div c >= f
<1>1. SUFFICES ASSUME q \div c + 1 <= f PROVE FALSE
  BY Quotient
<1>2. (q \div c + 1) * c <= f * c
  BY <1>1, Quotient, Product
<1> QED BY <1>2, Quotient

\* A quotient is below f when the dividend is below f times the divisor.
LEMMA QuotientHigh ==
  ASSUME NEW q \in Nat, NEW c \in Nat \ {0}, NEW f \in Nat, q < f * c
  PROVE  q \div c < f
<1>1. SUFFICES ASSUME f <= q \div c PROVE FALSE
  BY Quotient
<1>2. f * c <= (q \div c) * c
  BY <1>1, Quotient, Product
<1> QED BY <1>2, Quotient

\* Twice the average of two or more shares is no more than all of them.
LEMMA DoubleShare ==
  ASSUME NEW q \in Nat, NEW c \in Nat, c >= 2
  PROVE  2 * (q \div c) <= q
<1>1. 2 * (q \div c) <= c * (q \div c)
  BY Quotient, Product
<1> QED BY <1>1, Quotient

\* Taking at most twice the average, and at most f when the average is below f,
\* leaves f for each of the others but one.
LEMMA FloorKept ==
  ASSUME NEW q \in Nat, NEW c \in Nat, c >= 2, NEW f \in Nat, q >= f * (c - 1),
         NEW s \in Nat, s <= 2 * (q \div c), q < f * c => s <= f
  PROVE  q - s >= f * (c - 2)
<1>1. CASE q < f * c
  <2>1. f * (c - 1) - f = f * (c - 2) OBVIOUS
  <2> QED BY <1>1, <2>1
<1>2. CASE q >= f * c
  <2> DEFINE d == q \div c
  <2>1. d \in Nat /\ d >= f /\ d * c <= q
    BY <1>2, QuotientLow, Quotient
  <2> HIDE DEF d
  <2>2. f * (c - 2) <= d * (c - 2)
    BY <2>1, Product
  <2>3. d * (c - 2) = d * c - 2 * d
    BY <2>1
  <2> QED BY <2>1, <2>2, <2>3 DEF d
<1> QED BY <1>1, <1>2

\* The floor of a packet that counts in units of m.
FloorOf(m) == IF m = 1 THEN 2 ELSE m

\* A number of units drawn for the amount x is worth at most x.
LEMMA UnitsBound ==
  ASSUME NEW x \in Nat, NEW m \in {1, 10, 100}, NEW u \in 1 .. (x \div m)
  PROVE  u * m \in Nat /\ 0 < u * m /\ u * m <= x
<1>1. CASE m = 1 BY <1>1
<1>2. CASE m = 10 BY <1>2
<1>3. CASE m = 100 BY <1>3
<1> QED BY <1>1, <1>2, <1>3

\* When the average is below the floor, no draw exceeds the floor.
LEMMA UnitsFew ==
  ASSUME NEW d \in Nat, NEW m \in {1, 10, 100}, d < FloorOf(m), NEW u \in 1 .. ((d * 2) \div m)
  PROVE  u * m <= FloorOf(m)
<1>1. CASE m = 1 BY <1>1 DEF FloorOf
<1>2. CASE m = 10 BY <1>2 DEF FloorOf
<1>3. CASE m = 100 BY <1>3 DEF FloorOf
<1> QED BY <1>1, <1>2, <1>3

\* While the floor is kept and two shares are left, one unit can be drawn.
LEMMA UnitsExist ==
  ASSUME NEW q \in Nat, NEW c \in Nat, c >= 2, NEW m \in {1, 10, 100},
         q >= FloorOf(m) * (c - 1)
  PROVE  ((q \div c) * 2) \div m >= 1
<1> DEFINE d == q \div c
           h == IF m = 1 THEN 1 ELSE m \div 2
<1>1. h \in Nat /\ FloorOf(m) = 2 * h
  <2>1. CASE m = 1 BY <2>1 DEF FloorOf
  <2>2. CASE m = 10 BY <2>2 DEF FloorOf
  <2>3. CASE m = 100 BY <2>3 DEF FloorOf
  <2> QED BY <2>1, <2>2, <2>3
<1>2. h * c <= (2 * h) * (c - 1)
  <2>1. h * c <= h * (2 * (c - 1))
    BY <1>1, Product
  <2> QED BY <1>1, <2>1
<1>3. d \in Nat /\ d >= h
  BY <1>1, <1>2, QuotientLow, Quotient
<1> HIDE DEF d
<1>4. (d * 2) \div m >= 1
  <2>1. CASE m = 1 BY <2>1, <1>3
  <2>2. CASE m = 10 BY <2>2, <1>3
  <2>3. CASE m = 100 BY <2>3, <1>3
  <2> QED BY <2>1, <2>2, <2>3
<1> QED BY <1>4 DEF d

-------------------------------------------------------------------------------
(* One packet. *)

\* What holds of every packet on the table.
PackOK(pack) ==
  /\ pack.status = "finished" <=> pack.remaining_count = 0
  /\ pack.remaining_count = 0 => pack.remaining_quant = 0
  /\ pack.total_quant \div pack.total_count >= MinShare
  /\ KeepsFloor(pack)

\* The floor in terms of the unit.
LEMMA FloorType ==
  ASSUME NEW a \in Assets
  PROVE  /\ MinUnit[a] \in {1, 10, 100}
         /\ Floor(a) = FloorOf(MinUnit[a])
         /\ Floor(a) \in Nat /\ Floor(a) <= MinShare
<1>1. MinUnit[a] \in {1, 10, 100}
  BY UnitAssumption
<1> QED BY <1>1 DEF Floor, FloorOf, MinShare

\* The types of the inputs, one fact each, for the provers.
LEMMA InputTypes ==
  /\ NumCodes \in Nat /\ MaxClaims \in Nat
  /\ \A q \in Quantities : q \in Nat /\ q # 0
  /\ \A n \in Counts : n \in 1 .. 10000
  /\ \A i \in IdInputs : i \in Nat
  /\ \A h \in Hours : h \in Nat
<1>1. NumCodes \in Nat /\ MaxClaims \in Nat
  BY RedpackAssumption
<1>2. ASSUME NEW q \in Quantities PROVE q \in Nat /\ q # 0
  BY RedpackAssumption
<1>3. ASSUME NEW n \in Counts PROVE n \in 1 .. 10000
  BY RedpackAssumption
<1>4. ASSUME NEW i \in IdInputs PROVE i \in Nat
  BY RedpackAssumption
<1>5. ASSUME NEW h \in Hours PROVE h \in Nat
  BY RedpackAssumption
<1> QED BY <1>1, <1>2, <1>3, <1>4, <1>5

\* A packet just deposited is in order.
LEMMA NewPackOK ==
  ASSUME NEW id \in Nat, NEW t \in Types, NEW f \in Accounts, NEW d \in BOOLEAN,
         NEW a \in Assets, NEW q \in Quantities, NEW n \in Counts, EnoughPerShare(q, n),
         now \in Nat
  PROVE  /\ NewRedpack(id, t, f, d, a, q, n) \in RedpackRow
         /\ PackOK(NewRedpack(id, t, f, d, a, q, n))
<1> DEFINE pack == NewRedpack(id, t, f, d, a, q, n)
<1>1. q \in Nat /\ n \in Nat \ {0}
  <2>1. q \in Nat
    BY InputTypes
  <2>2. n \in 1 .. 10000
    BY InputTypes
  <2> QED BY <2>1, <2>2
<1>2. pack \in RedpackRow
  BY <1>1 DEF NewRedpack, RedpackRow
<1>3. (q \div n) \in Nat /\ (q \div n) * n <= q /\ q \div n >= MinShare
  BY <1>1, Quotient DEF EnoughPerShare
<1>4. q >= Floor(a) * (n - 1)
  <2>1. Floor(a) * n <= (q \div n) * n
    BY <1>1, <1>3, FloorType, Product DEF MinShare
  <2>2. Floor(a) * (n - 1) <= n * Floor(a)
    BY <1>1, FloorType, Product
  <2> QED BY <1>1, <1>3, <2>1, <2>2, FloorType
<1> QED BY <1>1, <1>2, <1>3, <1>4 DEF PackOK, KeepsFloor, NewRedpack

\* The shares that can be drawn while two or more are left.
LEMMA SharesOK ==
  ASSUME NEW pack \in RedpackRow, PackOK(pack), pack.remaining_count > 1
  PROVE  /\ Shares(pack) # {}
         /\ \A s \in Shares(pack) : s \in Nat /\ 0 < s /\ s <= pack.remaining_quant
<1> DEFINE q == pack.remaining_quant
           c == pack.remaining_count
           m == MinUnit[pack.asset]
           x == (q \div c) * 2
<1>1. /\ q \in Nat /\ c \in Nat /\ c >= 2 /\ c # 1 /\ pack.asset \in Assets
      /\ pack.total_quant \in Nat /\ pack.total_count \in Nat \ {0}
      /\ pack.assign_type \in Types
  BY DEF RedpackRow
<1>2. CASE pack.assign_type = "mean"
  <2> DEFINE s == pack.total_quant \div pack.total_count
  <2>1. Shares(pack) = {s}
    BY <1>1, <1>2 DEF Shares
  <2>2. s \in Nat /\ s >= 100 /\ q >= s * c
    BY <1>1, <1>2, Quotient DEF PackOK, KeepsFloor, MinShare
  <2> HIDE DEF s
  <2>3. 1 * s <= c * s
    BY <1>1, <2>2, Product
  <2> QED BY <1>1, <2>1, <2>2, <2>3
<1>3. CASE pack.assign_type # "mean"
  <2>1. Shares(pack) = {u * m : u \in 1 .. (x \div m)}
    BY <1>1, <1>3 DEF Shares, MaxUnits
  <2>2. m \in {1, 10, 100} /\ x \in Nat /\ x <= q
    <3>1. q \div c \in Nat /\ 2 * (q \div c) <= q
      BY <1>1, Quotient, DoubleShare
    <3>2. m \in {1, 10, 100}
      BY <1>1, FloorType
    <3> HIDE DEF q, c, m
    <3> QED BY <1>1, <3>1, <3>2
  <2>3. q >= FloorOf(m) * (c - 1)
    BY <1>1, <1>3, FloorType DEF PackOK, KeepsFloor
  <2>4. x \div m >= 1 /\ x \div m \in Nat
    BY <1>1, <2>2, <2>3, UnitsExist, Quotient
  <2> HIDE DEF q, c, m, x
  <2>5. \A u \in 1 .. (x \div m) : u * m \in Nat /\ 0 < u * m /\ u * m <= x
    BY <2>2, UnitsBound
  <2>6. 1 \in 1 .. (x \div m)
    BY <2>4
  <2> QED BY <1>1, <2>1, <2>2, <2>5, <2>6 DEF q
<1> QED BY <1>2, <1>3

\* Taking a share leaves the packet in order.
LEMMA OpenedOK ==
  ASSUME NEW pack \in RedpackRow, PackOK(pack), pack.remaining_count > 0,
         NEW s \in Shares(pack)
  PROVE  /\ s \in Nat /\ s <= pack.remaining_quant
         /\ Opened(pack, s) \in RedpackRow /\ PackOK(Opened(pack, s))
<1> DEFINE q == pack.remaining_quant
           c == pack.remaining_count
           a == pack.asset
           m == MinUnit[a]
           t == pack.total_quant \div pack.total_count
<1>1. /\ q \in Nat /\ c \in Nat /\ c > 0 /\ a \in Assets /\ t \in Nat
      /\ pack.assign_type \in Types
  BY Quotient DEF RedpackRow
<1>2. s \in Nat /\ s <= q
  <2>1. CASE c = 1
    BY <1>1, <2>1 DEF Shares
  <2>2. CASE c > 1
    BY <2>2, SharesOK
  <2> QED BY <1>1, <2>1, <2>2
<1>3. /\ Opened(pack, s) \in RedpackRow
      /\ Opened(pack, s).remaining_quant = q - s
      /\ Opened(pack, s).remaining_count = c - 1
      /\ Opened(pack, s).status = IF c = 1 THEN "finished" ELSE pack.status
      /\ Opened(pack, s).asset = a /\ Opened(pack, s).assign_type = pack.assign_type
      /\ Opened(pack, s).total_quant = pack.total_quant
      /\ Opened(pack, s).total_count = pack.total_count
  <2>1. q - s \in Nat /\ c - 1 \in Nat
    BY <1>1, <1>2
  <2>2. Opened(pack, s) = [pack EXCEPT !.remaining_quant = q - s,
                                       !.remaining_count = c - 1,
                                       !.status = IF c = 1 THEN "finished" ELSE @]
    BY DEF Opened
  <2>3. Opened(pack, s) \in RedpackRow
    BY <2>1, <2>2 DEF RedpackRow
  <2> QED BY <2>2, <2>3 DEF RedpackRow
<1>4. c = 1 => s = q
  BY DEF Shares
<1>5. KeepsFloor(Opened(pack, s))
  <2>1. CASE pack.assign_type = "mean"
    <3>1. q >= t * c
      BY <2>1 DEF PackOK, KeepsFloor
    <3>2. c # 1 => s = t
      BY <2>1 DEF Shares
    <3>3. q - s >= t * (c - 1)
      <4> HIDE DEF q, c, t
      <4>1. CASE c = 1 BY <1>1, <1>4, <4>1
      <4>2. CASE c # 1
        <5>1. t * c - t = t * (c - 1) BY <1>1
        <5> QED BY <1>1, <3>1, <3>2, <4>2, <5>1
      <4> QED BY <4>1, <4>2
    <3> QED BY <1>3, <2>1, <3>3 DEF KeepsFloor
  <2>2. CASE pack.assign_type # "mean"
    <3> DEFINE f == Floor(a)
    <3>1. f \in Nat /\ m \in {1, 10, 100} /\ f = FloorOf(m)
      BY <1>1, FloorType
    <3>2. q >= f * (c - 1)
      BY <2>2 DEF PackOK, KeepsFloor
    <3>3. q - s >= f * (c - 2)
      <4>1. CASE c = 1
        <5> HIDE DEF f
        <5> QED BY <1>1, <1>4, <3>1, <4>1
      <4>2. CASE c # 1
        <5>1. PICK u \in 1 .. (((q \div c) * 2) \div m) : s = u * m
          BY <2>2, <4>2 DEF Shares, MaxUnits
        <5>2. q \div c \in Nat /\ (q \div c) * 2 \in Nat
          BY <1>1, Quotient
        <5>3. s <= (q \div c) * 2
          BY <3>1, <5>1, <5>2, UnitsBound
        <5>4. q < f * c => s <= f
          <6> DEFINE d == q \div c
          <6>1. q < f * c => d < f
            BY <1>1, <3>1, QuotientHigh
          <6>2. d \in Nat /\ u \in 1 .. ((d * 2) \div m)
            BY <5>2
          <6> HIDE DEF d, f, q, c, m
          <6>3. d < FloorOf(m) => u * m <= FloorOf(m)
            BY <3>1, <6>2, UnitsFew
          <6> QED BY <3>1, <5>1, <6>1, <6>3
        <5> HIDE DEF f, q, c, m
        <5> QED BY <1>1, <1>2, <3>1, <3>2, <4>2, <5>2, <5>3, <5>4, FloorKept
      <4> QED BY <4>1, <4>2
    <3>4. (c - 1) - 1 = c - 2
      BY <1>1
    <3> QED BY <1>3, <2>2, <3>3, <3>4 DEF KeepsFloor
  <2> QED BY <2>1, <2>2
<1> QED BY <1>1, <1>2, <1>3, <1>4, <1>5 DEF PackOK

-------------------------------------------------------------------------------
(* What the steps do to the packets and the balances. *)

Deposited(c, pack) ==
  /\ c \in Codes \ DOMAIN redpacks
  /\ pack \in RedpackRow /\ PackOK(pack) /\ pack.remaining_quant > 0
  /\ redpacks' = Put(redpacks, c, pack)
  /\ held' = [held EXCEPT ![pack.asset] = @ + pack.remaining_quant]

Taken(c, s) ==
  /\ c \in DOMAIN redpacks /\ s \in Nat
  /\ Opened(redpacks[c], s) \in RedpackRow /\ PackOK(Opened(redpacks[c], s))
  /\ redpacks' = Put(redpacks, c, Opened(redpacks[c], s))
  /\ held' = [held EXCEPT ![redpacks[c].asset] = @ - s]

Removed(c) ==
  /\ c \in DOMAIN redpacks
  /\ redpacks' = Drop(redpacks, {c})
  /\ held' = [held EXCEPT ![redpacks[c].asset] = @ - redpacks[c].remaining_quant]

Packs == TypeOK /\ \A c \in DOMAIN redpacks : PackOK(redpacks[c])

\* A deposit puts one packet in order on the table.
LEMMA DepositEffect ==
  ASSUME Packs, NEW f \in Accounts, NEW c \in Codes, NEW t \in Types, NEW d \in BOOLEAN,
         NEW a \in Assets, NEW q \in Quantities, NEW n \in Counts,
         Deposit(f, c, t, d, a, q, n)
  PROVE  /\ \E pack \in RedpackRow : Deposited(c, pack)
         /\ globalidx' \in GlobalIdxRow /\ UNCHANGED <<gstate, tokenlist, claims, now>>
<1> DEFINE id == globalidx.last_redpack_id + 1
           pack == NewRedpack(id, t, f, d, a, q, n)
<1>1. id \in Nat /\ now \in Nat
  BY DEF Packs, TypeOK, GlobalIdxRow
<1>2. pack \in RedpackRow /\ PackOK(pack)
  BY <1>1, NewPackOK DEF Deposit
<1>3. pack.asset = a /\ pack.remaining_quant = q
  BY DEF NewRedpack
<1>6. q > 0
  BY InputTypes
<1>4. globalidx' \in GlobalIdxRow
  BY <1>1 DEF Deposit, Packs, TypeOK, GlobalIdxRow
<1>5. /\ c \notin DOMAIN redpacks
      /\ redpacks' = Put(redpacks, c, pack)
      /\ held' = [held EXCEPT ![a] = @ + q]
      /\ UNCHANGED <<gstate, tokenlist, claims, now>>
  BY DEF Deposit
<1> HIDE DEF pack
<1> QED BY <1>2, <1>3, <1>4, <1>5, <1>6 DEF Deposited

\* A claim takes one share out of one packet.
LEMMA ClaimEffect ==
  ASSUME Packs, NEW a \in Accounts, NEW c \in Codes, ClaimRedpack(a, c)
  PROVE  /\ \E s \in Nat : Taken(c, s)
         /\ globalidx' \in GlobalIdxRow /\ IsTable(claims', 1 .. MaxClaims, ClaimRow)
         /\ UNCHANGED <<gstate, tokenlist, now>>
<1> DEFINE pack == redpacks[c]
           id == globalidx.last_claim_id + 1
           row(s) == [redpack_id |-> pack.redpack_id, redpack_code |-> c,
                      claimer |-> a, quantity |-> s]
<1>1. pack \in RedpackRow /\ PackOK(pack) /\ pack.remaining_count > 0 /\ c \in DOMAIN redpacks
  BY DEF ClaimRedpack, Packs, TypeOK, IsTable
<1>2. PICK s \in Shares(pack) :
        /\ held' = [held EXCEPT ![pack.asset] = @ - s]
        /\ redpacks' = Put(redpacks, c, Opened(pack, s))
        /\ claims' = Put(claims, id, row(s))
  BY DEF ClaimRedpack
<1>3. s \in Nat /\ Opened(pack, s) \in RedpackRow /\ PackOK(Opened(pack, s))
  BY <1>1, OpenedOK
<1>4. id \in 1 .. MaxClaims /\ globalidx' \in GlobalIdxRow
  <2>1. globalidx \in [last_redpack_id : Nat, last_claim_id : Nat]
    BY Zenon DEF Packs, TypeOK, GlobalIdxRow
  <2>2. /\ id <= MaxClaims
        /\ globalidx' = [globalidx EXCEPT !.last_claim_id = id]
    BY Zenon DEF ClaimRedpack
  <2>3. id \in Nat /\ id >= 1
    BY <2>1
  <2> QED BY <2>1, <2>2, <2>3, InputTypes DEF GlobalIdxRow
<1>5. IsTable(claims', 1 .. MaxClaims, ClaimRow)
  <2>1. row(s) \in ClaimRow
    BY <1>1, <1>3 DEF ClaimRow, RedpackRow
  <2>2. IsTable(claims, 1 .. MaxClaims, ClaimRow)
    BY DEF Packs, TypeOK
  <2> HIDE DEF row, id
  <2> QED BY <1>2, <1>4, <2>1, <2>2, PutTyped
<1>6. Taken(c, s)
  BY <1>1, <1>2, <1>3 DEF Taken
<1> QED BY <1>3, <1>4, <1>5, <1>6 DEF ClaimRedpack

\* A cancellation removes one packet and pays out what it had left.
LEMMA CancelEffect ==
  ASSUME Packs, NEW c \in Codes, Cancel(c)
  PROVE  Removed(c) /\ UNCHANGED <<gstate, globalidx, tokenlist, claims, now>>
<1> DEFINE pack == redpacks[c]
<1>1. pack \in RedpackRow /\ PackOK(pack) /\ c \in DOMAIN redpacks /\ held \in [Assets -> Int]
  BY DEF Cancel, Expired, Packs, TypeOK, IsTable
<1>2. held' = [held EXCEPT ![pack.asset] = @ - pack.remaining_quant]
  <2>1. CASE RefundDue(pack)
    BY <2>1 DEF Cancel
  <2>2. CASE ~ RefundDue(pack)
    <3>1. pack.remaining_quant = 0
      BY <1>1, <2>2 DEF RefundDue, PackOK, RedpackRow
    <3>2. held' = held
      BY <2>2 DEF Cancel
    <3>3. pack.asset \in Assets /\ held[pack.asset] - 0 = held[pack.asset]
      BY <1>1 DEF RedpackRow
    <3> QED BY <1>1, <3>1, <3>2, <3>3
  <2> QED BY <2>1, <2>2
<1> QED BY <1>1, <1>2 DEF Cancel, Removed

\* Every step of the system is one of these, or leaves packets and balances alone.
LEMMA StepEffects ==
  ASSUME Packs, [Next]_vars
  PROVE  /\ \/ \E c \in Codes, pack \in RedpackRow : Deposited(c, pack)
            \/ \E c \in Codes, s \in Nat : Taken(c, s)
            \/ \E c \in Codes : Removed(c)
            \/ UNCHANGED <<redpacks, held>>
         /\ gstate' \in GlobalRow /\ globalidx' \in GlobalIdxRow
         /\ tokenlist' \subseteq Assets /\ now' \in Nat
         /\ IsTable(claims', 1 .. MaxClaims, ClaimRow)
<1> DEFINE Goal == /\ \/ \E c \in Codes, pack \in RedpackRow : Deposited(c, pack)
                      \/ \E c \in Codes, s \in Nat : Taken(c, s)
                      \/ \E c \in Codes : Removed(c)
                      \/ UNCHANGED <<redpacks, held>>
                   /\ gstate' \in GlobalRow /\ globalidx' \in GlobalIdxRow
                   /\ tokenlist' \subseteq Assets /\ now' \in Nat
                   /\ IsTable(claims', 1 .. MaxClaims, ClaimRow)
<1>0. /\ gstate \in GlobalRow /\ globalidx \in GlobalIdxRow /\ tokenlist \subseteq Assets
      /\ now \in Nat /\ IsTable(claims, 1 .. MaxClaims, ClaimRow)
  BY DEF Packs, TypeOK
<1>1. ASSUME NEW h \in Hours, SetGlobal(h) PROVE Goal
  <2>1. h \in Nat
    BY InputTypes
  <2> QED BY <1>0, <1>1, <2>1 DEF SetGlobal, GlobalRow
<1>2. ASSUME NEW a \in Assets, ListToken(a) \/ DelistToken(a) PROVE Goal
  BY <1>0, <1>2 DEF ListToken, DelistToken
<1>3. ASSUME NEW r \in IdInputs, NEW c \in IdInputs, SetGlobalIdx(r, c) PROVE Goal
  <2>1. r \in Nat /\ c \in Nat
    BY InputTypes
  <2>2. globalidx' \in GlobalIdxRow
    BY <1>0, <1>3, <2>1 DEF SetGlobalIdx, GlobalIdxRow
  <2> QED BY <1>0, <1>3, <2>2 DEF SetGlobalIdx
<1>4. ASSUME NEW f \in Accounts, NEW c \in Codes, NEW t \in Types, NEW d \in BOOLEAN,
             NEW a \in Assets, NEW q \in Quantities, NEW n \in Counts,
             Deposit(f, c, t, d, a, q, n)
      PROVE  Goal
  BY <1>0, <1>4, DepositEffect
<1>5. ASSUME NEW a \in Accounts, NEW c \in Codes, ClaimRedpack(a, c) PROVE Goal
  BY <1>0, <1>5, ClaimEffect
<1>6. ASSUME NEW c \in Codes, Cancel(c) PROVE Goal
  BY <1>0, <1>6, CancelEffect
<1>7. ASSUME NEW n \in 1 .. MaxClaims, DelClaims(n) PROVE Goal
  <2>1. PICK S : claims' = Drop(claims, S)
    BY <1>7 DEF DelClaims
  <2>2. IsTable(claims', 1 .. MaxClaims, ClaimRow)
    BY <1>0, <2>1, DropTyped
  <2> QED BY <1>0, <1>7, <2>2 DEF DelClaims
<1>8. CASE Tick
  BY <1>0, <1>8 DEF Tick
<1>9. CASE UNCHANGED vars
  BY <1>0, <1>9 DEF vars
<1> QED BY <1>1, <1>2, <1>3, <1>4, <1>5, <1>6, <1>7, <1>8, <1>9 DEF Next

\* The types and the order of the packets are kept by every step.
LEMMA PacksStep == Packs /\ [Next]_vars => Packs'
<1> SUFFICES ASSUME Packs, [Next]_vars PROVE Packs'
  OBVIOUS
<1>1. /\ gstate' \in GlobalRow /\ globalidx' \in GlobalIdxRow
      /\ tokenlist' \subseteq Assets /\ now' \in Nat
      /\ IsTable(claims', 1 .. MaxClaims, ClaimRow)
  BY StepEffects
<1>2. SUFFICES /\ IsTable(redpacks', Codes, RedpackRow)
               /\ held' \in [Assets -> Int]
               /\ \A k \in DOMAIN redpacks' : PackOK(redpacks'[k])
  BY <1>1 DEF Packs, TypeOK, PackOK
<1>3. /\ IsTable(redpacks, Codes, RedpackRow) /\ held \in [Assets -> Int]
      /\ \A k \in DOMAIN redpacks : PackOK(redpacks[k])
  BY DEF Packs, TypeOK
<1>4. ASSUME NEW c \in Codes, NEW pack \in RedpackRow, Deposited(c, pack)
      PROVE  <1>2!1
  <2>1. pack.asset \in Assets /\ held[pack.asset] + pack.remaining_quant \in Int
    BY <1>3 DEF RedpackRow
  <2>2. IsTable(redpacks', Codes, RedpackRow)
    BY <1>3, <1>4, PutTyped DEF Deposited
  <2> QED BY <1>3, <1>4, <2>1, <2>2 DEF Deposited, Put
<1>5. ASSUME NEW c \in Codes, NEW s \in Nat, Taken(c, s) PROVE <1>2!1
  <2>1. redpacks[c].asset \in Assets /\ held[redpacks[c].asset] - s \in Int
    BY <1>3, <1>5 DEF Taken, RedpackRow, IsTable
  <2>2. IsTable(redpacks', Codes, RedpackRow)
    BY <1>3, <1>5, PutTyped DEF Taken
  <2> QED BY <1>3, <1>5, <2>1, <2>2 DEF Taken, Put
<1>6. ASSUME NEW c \in Codes, Removed(c) PROVE <1>2!1
  <2>1. /\ redpacks[c].asset \in Assets
        /\ held[redpacks[c].asset] - redpacks[c].remaining_quant \in Int
    BY <1>3, <1>6 DEF Removed, RedpackRow, IsTable
  <2>2. IsTable(redpacks', Codes, RedpackRow)
    BY <1>3, <1>6, DropTyped DEF Removed
  <2> QED BY <1>3, <1>6, <2>1, <2>2 DEF Removed, Drop
<1> QED BY <1>3, <1>4, <1>5, <1>6, StepEffects

-------------------------------------------------------------------------------
(* Solvency. *)

LeftTyped == \A a \in Assets : LeftOf(a) \in [1 .. NumCodes -> Int]

\* What the packets have left is a table of integers.
LEMMA LeftTypes == TypeOK => LeftTyped
<1> SUFFICES ASSUME TypeOK, NEW a \in Assets PROVE LeftOf(a) \in [1 .. NumCodes -> Int]
  BY DEF LeftTyped
<1>1. \A c \in DOMAIN redpacks : redpacks[c].remaining_quant \in Int
  BY DEF TypeOK, IsTable, RedpackRow
<1> QED BY <1>1 DEF LeftOf, Codes

\* A step that moves what code c has left of asset b, and the balance, by d.
CodeMoved(c, b, d) ==
  /\ \A a \in Assets : \A k \in Codes : k # c => LeftOf(a)'[k] = LeftOf(a)[k]
  /\ \A a \in Assets : LeftOf(a)'[c] = LeftOf(a)[c] + (IF a = b THEN d ELSE 0)
  /\ held' = [held EXCEPT ![b] = @ + d]

\* Such a step keeps the contract solvent.
LEMMA MoveCode ==
  ASSUME Solvent, LeftTyped, LeftTyped', held \in [Assets -> Int],
         NEW c \in Codes, NEW b \in Assets, NEW d \in Int, CodeMoved(c, b, d)
  PROVE  Solvent'
<1> SUFFICES ASSUME NEW a \in Assets PROVE held'[a] = SumTo(LeftOf(a)', NumCodes)
  BY DEF Solvent
<1> DEFINE w == LeftOf(a)
           u == LeftOf(a)'
<1>1. /\ w \in [1 .. NumCodes -> Int] /\ u \in [1 .. NumCodes -> Int]
      /\ c \in 1 .. NumCodes /\ NumCodes \in Nat
      /\ \A j \in 1 .. NumCodes : j # c => u[j] = w[j]
      /\ u[c] = w[c] + (IF a = b THEN d ELSE 0)
      /\ held[a] = SumTo(w, NumCodes)
  <2>1. w \in [1 .. NumCodes -> Int] /\ u \in [1 .. NumCodes -> Int]
    BY DEF LeftTyped
  <2>2. c \in 1 .. NumCodes /\ NumCodes \in Nat
    BY InputTypes DEF Codes
  <2>3. \A j \in 1 .. NumCodes : j # c => u[j] = w[j]
    BY DEF CodeMoved, Codes
  <2>4. u[c] = w[c] + (IF a = b THEN d ELSE 0)
    BY DEF CodeMoved
  <2>5. held[a] = SumTo(w, NumCodes)
    BY DEF Solvent
  <2> QED BY <2>1, <2>2, <2>3, <2>4, <2>5
<1>2. held'[a] = held[a] + (IF a = b THEN d ELSE 0)
  BY DEF CodeMoved
<1> HIDE DEF w, u
<1>3. SumTo(u, NumCodes) = SumTo(w, NumCodes) - w[c] + u[c]
  BY <1>1, SumOneRow, Zenon
<1>4. SumTo(w, NumCodes) \in Int /\ w[c] \in Int
  BY <1>1
<1>5. held'[a] = SumTo(u, NumCodes)
  BY <1>1, <1>2, <1>3, <1>4
<1> QED BY <1>5 DEF u

Inv == Packs /\ Solvent

\* The contract is solvent after every step.
LEMMA SolventStep == Inv /\ [Next]_vars => Solvent'
<1> SUFFICES ASSUME Inv, [Next]_vars PROVE Solvent'
  OBVIOUS
<1>1. Packs /\ Packs' /\ Solvent /\ LeftTyped /\ LeftTyped'
  BY PacksStep, LeftTypes, PTL DEF Inv, Packs
<1>2. /\ IsTable(redpacks, Codes, RedpackRow) /\ held \in [Assets -> Int]
      /\ \A k \in DOMAIN redpacks :
           /\ k \in Codes /\ redpacks[k].asset \in Assets
           /\ redpacks[k].remaining_quant \in Nat
  BY <1>1 DEF Packs, TypeOK, IsTable, RedpackRow
<1>3. ASSUME NEW c \in Codes, NEW pack \in RedpackRow, Deposited(c, pack) PROVE Solvent'
  <2>1. pack.asset \in Assets /\ pack.remaining_quant \in Int
    BY DEF RedpackRow
  <2>2. CodeMoved(c, pack.asset, pack.remaining_quant)
    BY <1>2, <1>3, <2>1 DEF CodeMoved, Deposited, LeftOf, Put
  <2> QED BY <1>1, <1>2, <2>1, <2>2, MoveCode
<1>4. ASSUME NEW c \in Codes, NEW s \in Nat, Taken(c, s) PROVE Solvent'
  <2> DEFINE row == Opened(redpacks[c], s)
  <2>1. c \in DOMAIN redpacks /\ redpacks[c] \in RedpackRow
    BY <1>2, <1>4 DEF Taken, IsTable
  <2>2. row.asset = redpacks[c].asset /\ row.remaining_quant = redpacks[c].remaining_quant - s
    BY <2>1 DEF Opened, RedpackRow
  <2>3. /\ redpacks' = Put(redpacks, c, row)
        /\ held' = [held EXCEPT ![redpacks[c].asset] = @ - s]
    BY <1>4 DEF Taken
  <2> HIDE DEF row
  <2>4. CodeMoved(c, redpacks[c].asset, 0 - s)
    <3>1. \A a \in Assets : \A k \in Codes : k # c => LeftOf(a)'[k] = LeftOf(a)[k]
      BY <2>3 DEF LeftOf, Put
    <3>2. \A a \in Assets :
            LeftOf(a)'[c] = LeftOf(a)[c] + (IF a = redpacks[c].asset THEN 0 - s ELSE 0)
      BY <1>2, <2>1, <2>2, <2>3 DEF LeftOf, Put
    <3>3. held' = [held EXCEPT ![redpacks[c].asset] = @ + (0 - s)]
      <4>1. held[redpacks[c].asset] - s = held[redpacks[c].asset] + (0 - s)
        BY <1>2, <2>1
      <4> QED BY <2>3, <4>1
    <3> QED BY <3>1, <3>2, <3>3 DEF CodeMoved
  <2> QED BY <1>1, <1>2, <2>1, <2>4, MoveCode
<1>5. ASSUME NEW c \in Codes, Removed(c) PROVE Solvent'
  <2> DEFINE r == redpacks[c].remaining_quant
             b == redpacks[c].asset
  <2>1. c \in DOMAIN redpacks /\ b \in Assets /\ r \in Nat
    BY <1>2, <1>5 DEF Removed
  <2>2. CodeMoved(c, b, 0 - r)
    <3>1. \A a \in Assets : \A k \in Codes : k # c => LeftOf(a)'[k] = LeftOf(a)[k]
      BY <1>5 DEF LeftOf, Drop, Removed
    <3>2. \A a \in Assets : LeftOf(a)'[c] = LeftOf(a)[c] + (IF a = b THEN 0 - r ELSE 0)
      BY <1>2, <1>5, <2>1 DEF LeftOf, Drop, Removed
    <3>3. held' = [held EXCEPT ![b] = @ + (0 - r)]
      <4>1. held[b] - r = held[b] + (0 - r)
        BY <1>2, <2>1
      <4> QED BY <1>5, <4>1 DEF Removed
    <3> QED BY <3>1, <3>2, <3>3 DEF CodeMoved
  <2> QED BY <1>1, <1>2, <2>1, <2>2, MoveCode
<1>6. CASE UNCHANGED <<redpacks, held>>
  BY <1>1, <1>6 DEF Solvent, LeftOf
<1> QED BY <1>1, <1>3, <1>4, <1>5, <1>6, StepEffects

\* The invariant holds initially: no packet, and nothing held.
LEMMA InvInit == Init => Inv
<1> SUFFICES ASSUME Init PROVE Inv
  OBVIOUS
<1>1. Packs
  BY RedpackAssumption DEF Init, Packs, TypeOK, GlobalRow, GlobalIdxRow, IsTable, Empty
<1>2. Solvent
  <2> SUFFICES ASSUME NEW a \in Assets PROVE held[a] = SumTo(LeftOf(a), NumCodes)
    BY DEF Solvent
  <2>1. LeftOf(a) \in [1 .. NumCodes -> Int] /\ \A k \in 1 .. NumCodes : LeftOf(a)[k] = 0
    <3>1. DOMAIN redpacks = {}
      BY DEF Init, Empty
    <3>2. LeftOf(a) = [c \in Codes |-> 0]
      BY <3>1 DEF LeftOf
    <3> QED BY <3>2 DEF Codes
  <2>2. SumTo(LeftOf(a), NumCodes) = 0
    <3> DEFINE w == LeftOf(a)
    <3>1. w \in [1 .. NumCodes -> Int] /\ (\A k \in 1 .. NumCodes : w[k] = 0) /\ NumCodes \in Nat
      BY <2>1, InputTypes
    <3> HIDE DEF w
    <3>2. SumTo(w, NumCodes) = 0
      BY <3>1, SumOfZeros, Zenon
    <3> QED BY <3>2 DEF w
  <2> QED BY <2>2 DEF Init
<1> QED BY <1>1, <1>2 DEF Inv

\* The invariant holds always.
LEMMA InvHolds == Spec => []Inv
<1>1. Inv /\ [Next]_vars => Inv'
  BY PacksStep, SolventStep DEF Inv
<1> QED BY <1>1, InvInit, PTL DEF Spec

-------------------------------------------------------------------------------
(* The theorems. *)

\* Every row of every table keeps its type; in particular no amount and no number
\* of shares becomes negative.
THEOREM RedpackTypeCorrect == Spec => []TypeOK
BY InvHolds, PTL DEF Inv, Packs

\* The contract owns of every asset exactly what the packets of it have left.
THEOREM RedpackSolvent == Spec => []Solvent
BY InvHolds, PTL DEF Inv

\* Every packet keeps its floor, whatever is drawn.
THEOREM RedpackShareFloor == Spec => []ShareFloor
<1>1. Inv => ShareFloor
  BY DEF Inv, Packs, PackOK, ShareFloor
<1> QED BY <1>1, InvHolds, PTL

\* While two shares are left _rand has a unit to draw, so it never divides by
\* zero, and no draw exceeds what is left.
THEOREM RedpackNextShareExists == Spec => []NextShareExists
<1>1. Inv => NextShareExists
  <2> SUFFICES ASSUME Inv, NEW c \in DOMAIN redpacks, redpacks[c].remaining_count > 1
               PROVE  /\ Shares(redpacks[c]) # {}
                      /\ \A share \in Shares(redpacks[c]) :
                           0 < share /\ share <= redpacks[c].remaining_quant
    BY DEF NextShareExists
  <2>1. redpacks[c] \in RedpackRow /\ PackOK(redpacks[c])
    BY DEF Inv, Packs, TypeOK, IsTable
  <2> QED BY <2>1, SharesOK
<1> QED BY <1>1, InvHolds, PTL

\* A finished packet has no share and nothing of the deposit left.
THEOREM RedpackFinishedIsEmpty == Spec => []FinishedIsEmpty
<1>1. Inv => FinishedIsEmpty
  BY DEF Inv, Packs, PackOK, FinishedIsEmpty
<1> QED BY <1>1, InvHolds, PTL

-------------------------------------------------------------------------------
(* The refinement. *)

\* What is owed of one asset, as a table, is what the packets have left of it.
LEMMA OwedOf == \A a \in Assets : [c \in 1 .. NumCodes |-> Owed[c][a]] = LeftOf(a)
BY DEF Owed, LeftOf, Codes

\* To be solvent is to be balanced as a custodian.
LEMMA SolventIsBalanced == Solvent => Custodian!Balanced
<1>1. \A w, n : Custodian!SumTo(w, n) = SumTo(w, n)
  BY DEF SumTo, Custodian!SumTo
<1> QED BY <1>1, OwedOf DEF Solvent, Custodian!Balanced, Custodian!Claims

\* Every step is a step of a custodian whose claims do not pass on: a deposit owes more
\* to the code it is for, a claim and a refund owe less to one code, and no other step
\* touches a packet or a token.
LEMMA CustodyStep ==
  Inv /\ Solvent' /\ [Next]_vars => [Custodian!Next]_(Custodian!vars)
<1> SUFFICES ASSUME Inv, Solvent', [Next]_vars PROVE [Custodian!Next]_(Custodian!vars)
  OBVIOUS
<1>1. Custodian!Balanced'
  BY SolventIsBalanced, PTL
<1>2. /\ IsTable(redpacks, Codes, RedpackRow) /\ held \in [Assets -> Int]
      /\ \A k \in DOMAIN redpacks :
           /\ k \in Codes /\ redpacks[k].asset \in Assets
           /\ redpacks[k].remaining_quant \in Nat
  BY DEF Inv, Packs, TypeOK, IsTable, RedpackRow
<1>3. ASSUME NEW c \in Codes, NEW pack \in RedpackRow, Deposited(c, pack)
      PROVE  Custodian!Deposit
  <2>1. pack.asset \in Assets /\ pack.remaining_quant \in Nat /\ pack.remaining_quant > 0
    BY <1>3 DEF RedpackRow, Deposited
  <2>2. /\ held'[pack.asset] > held[pack.asset]
        /\ \A b \in Assets \ {pack.asset} : held'[b] = held[b]
    BY <1>2, <1>3, <2>1 DEF Deposited
  <2>3. \A k \in 1 .. NumCodes, a \in Assets : Owed'[k][a] >= Owed[k][a]
    BY <1>2, <1>3, <2>1 DEF Deposited, Owed, Put, Codes
  <2> QED BY <1>1, <2>1, <2>2, <2>3 DEF Custodian!Deposit, Custodian!Claims
<1>4. ASSUME NEW c \in Codes, NEW s \in Nat, Taken(c, s) PROVE Custodian!Payout
  <2>1. c \in DOMAIN redpacks /\ redpacks[c] \in RedpackRow
    BY <1>2, <1>4 DEF Taken, IsTable
  <2> DEFINE row == Opened(redpacks[c], s)
  <2>2. row.asset = redpacks[c].asset /\ row.remaining_quant <= redpacks[c].remaining_quant
    BY <2>1 DEF Opened, RedpackRow
  <2>3. redpacks' = Put(redpacks, c, row) /\ row.remaining_quant \in Nat
    BY <1>4 DEF Taken, RedpackRow
  <2> HIDE DEF row
  <2>4. \A k \in 1 .. NumCodes, a \in Assets : Owed'[k][a] <= Owed[k][a]
    BY <1>2, <2>1, <2>2, <2>3 DEF Owed, Put, Codes
  <2> QED BY <1>1, <2>4 DEF Custodian!Payout, Custodian!Claims
<1>5. ASSUME NEW c \in Codes, Removed(c) PROVE Custodian!Payout
  <2>1. \A k \in 1 .. NumCodes, a \in Assets : Owed'[k][a] <= Owed[k][a]
    BY <1>2, <1>5 DEF Removed, Owed, Drop, Codes
  <2> QED BY <1>1, <2>1 DEF Custodian!Payout, Custodian!Claims
<1>6. ASSUME UNCHANGED <<redpacks, held>> PROVE UNCHANGED Custodian!vars
  BY <1>6 DEF Custodian!vars, Owed
<1>7. \/ \E c \in Codes, pack \in RedpackRow : Deposited(c, pack)
      \/ \E c \in Codes, s \in Nat : Taken(c, s)
      \/ \E c \in Codes : Removed(c)
      \/ UNCHANGED <<redpacks, held>>
  BY StepEffects DEF Inv
<1> QED BY <1>3, <1>4, <1>5, <1>6, <1>7 DEF Custodian!Next

\* flon.redpack implements the abstract custodian.
THEOREM RedpackImplementsCustody == Spec => ImplementsCustody
<1>1. Init => Custodian!Init
  <2> SUFFICES ASSUME Init PROVE Custodian!Init
    OBVIOUS
  <2>1. redpacks = Empty /\ held = [a \in Assets |-> 0]
    BY DEF Init
  <2>2. Owed = [c \in 1 .. NumCodes |-> [a \in Assets |-> 0]]
    BY <2>1 DEF Owed, Codes, Empty
  <2> QED BY <2>1, <2>2 DEF Custodian!Init, Custodian!Claims
<1>2. Inv => Solvent
  BY DEF Inv
<1> QED BY <1>1, <1>2, CustodyStep, InvHolds, PTL DEF Spec, ImplementsCustody, Custodian!Spec

-------------------------------------------------------------------------------
(* The claim rows account for what left a packet. *)

\* No administrator sets the counter of packets back (setglobalidx could).
PacketIdsGrow == [][globalidx'.last_redpack_id >= globalidx.last_redpack_id]_vars

\* All packets and all claim rows have ids the counter has passed.
IdsPassed ==
  /\ \A c \in DOMAIN redpacks : redpacks[c].redpack_id <= globalidx.last_redpack_id
  /\ \A i \in DOMAIN claims : claims[i].redpack_id <= globalidx.last_redpack_id

Claimers(c) == {claims[i].claimer : i \in RowsOf(c)}

\* ClaimsAccounted for one packet.
Accounted(c) ==
  /\ redpacks[c].total_quant - redpacks[c].remaining_quant = SumTo(ClaimedOf(c), MaxClaims)
  /\ Cardinality(RowsOf(c)) = redpacks[c].total_count - redpacks[c].remaining_count
  /\ IsFiniteSet(Claimers(c))
  /\ Cardinality(Claimers(c)) = redpacks[c].total_count - redpacks[c].remaining_count

Books == IdsPassed /\ \A c \in DOMAIN redpacks : Accounted(c)

LEMMA BooksAreMore == Books => ClaimsAccounted
BY DEF Books, Accounted, ClaimsAccounted, Claimers

\* The rows of a packet, as a table of amounts.
LEMMA RowTypes ==
  ASSUME TypeOK, NEW c
  PROVE  /\ ClaimedOf(c) \in [1 .. MaxClaims -> Int]
         /\ RowsOf(c) \subseteq 1 .. MaxClaims /\ IsFiniteSet(RowsOf(c))
<1>1. \A i \in DOMAIN claims : i \in 1 .. MaxClaims /\ claims[i].quantity \in Nat
  BY DEF TypeOK, IsTable, ClaimRow
<1>2. RowsOf(c) \subseteq 1 .. MaxClaims /\ RowsOf(c) \subseteq DOMAIN claims
  BY <1>1 DEF RowsOf
<1>3. ClaimedOf(c) \in [1 .. MaxClaims -> Int]
  BY <1>1, <1>2 DEF ClaimedOf
<1>4. IsFiniteSet(1 .. MaxClaims)
  BY InputTypes, FS_Interval
<1>5. IsFiniteSet(RowsOf(c))
  BY <1>2, <1>4, FS_Subset
<1> QED BY <1>2, <1>3, <1>5

RowsTyped == \A c \in Codes : /\ ClaimedOf(c) \in [1 .. MaxClaims -> Int]
                              /\ RowsOf(c) \subseteq 1 .. MaxClaims

LEMMA RowsAreTyped == TypeOK => RowsTyped
BY RowTypes DEF RowsTyped

\* A packet whose amounts, counts and rows a step leaves as they are.
SameBooks(c) ==
  /\ c \in DOMAIN redpacks
  /\ redpacks'[c].total_quant = redpacks[c].total_quant
  /\ redpacks'[c].remaining_quant = redpacks[c].remaining_quant
  /\ redpacks'[c].total_count = redpacks[c].total_count
  /\ redpacks'[c].remaining_count = redpacks[c].remaining_count
  /\ RowsOf(c)' = RowsOf(c)
  /\ \A i \in RowsOf(c) : claims'[i] = claims[i]

LEMMA SameBooksKeep ==
  ASSUME NEW c, Accounted(c), SameBooks(c)
  PROVE  Accounted(c)'
<1>1. ClaimedOf(c)' = ClaimedOf(c)
  BY DEF SameBooks, ClaimedOf
<1>2. Claimers(c)' = Claimers(c)
  BY DEF SameBooks, Claimers
<1> QED BY <1>1, <1>2 DEF SameBooks, Accounted

\* A new packet has an id that no row has, and so no rows.
LEMMA DepositKeepsBooks ==
  ASSUME Packs, Packs', Books, NEW f \in Accounts, NEW c \in Codes, NEW t \in Types,
         NEW d \in BOOLEAN, NEW a \in Assets, NEW q \in Quantities, NEW n \in Counts,
         Deposit(f, c, t, d, a, q, n)
  PROVE  Books'
<1> DEFINE id == globalidx.last_redpack_id + 1
           pack == NewRedpack(id, t, f, d, a, q, n)
<1>1. /\ redpacks' = Put(redpacks, c, pack) /\ c \notin DOMAIN redpacks
      /\ globalidx' = [globalidx EXCEPT !.last_redpack_id = id] /\ claims' = claims
  BY DEF Deposit
<1>2. /\ globalidx.last_redpack_id \in Nat /\ globalidx'.last_redpack_id = id
      /\ \A k \in DOMAIN redpacks : redpacks[k].redpack_id \in Nat
      /\ \A i \in DOMAIN claims : claims[i].redpack_id \in Nat
  BY <1>1 DEF Packs, TypeOK, GlobalIdxRow, IsTable, RedpackRow, ClaimRow
<1>3. /\ pack.redpack_id = id /\ pack.total_quant = q /\ pack.remaining_quant = q
      /\ pack.total_count = n /\ pack.remaining_count = n /\ q \in Nat /\ n \in Nat
  <2>1. q \in Nat /\ n \in 1 .. 10000
    BY InputTypes
  <2> QED BY <2>1 DEF NewRedpack
<1> HIDE DEF pack
<1>4. /\ DOMAIN redpacks' = DOMAIN redpacks \cup {c} /\ redpacks'[c] = pack
      /\ \A k \in DOMAIN redpacks : redpacks'[k] = redpacks[k]
  BY <1>1 DEF Put
<1>5. IdsPassed'
  BY <1>1, <1>2, <1>3, <1>4 DEF Books, IdsPassed
<1>6. ASSUME NEW k \in DOMAIN redpacks PROVE Accounted(k)'
  <2>1. SameBooks(k)
    BY <1>1, <1>4 DEF SameBooks, RowsOf
  <2> QED BY <2>1, SameBooksKeep DEF Books
<1>7. Accounted(c)'
  <2>1. RowsOf(c)' = {}
    BY <1>1, <1>2, <1>3, <1>4 DEF RowsOf, Books, IdsPassed
  <2>2. Claimers(c)' = {}
    BY <2>1 DEF Claimers
  <2>3. IsFiniteSet({}) /\ Cardinality({}) = 0
    BY FS_EmptySet
  <2>4. SumTo(ClaimedOf(c)', MaxClaims) = 0
    <3> DEFINE w == ClaimedOf(c)'
    <3>1. w \in [1 .. MaxClaims -> Int] /\ \A i \in 1 .. MaxClaims : w[i] = 0
      BY <2>1 DEF ClaimedOf
    <3> HIDE DEF w
    <3>2. SumTo(w, MaxClaims) = 0
      BY <3>1, InputTypes, SumOfZeros
    <3> QED BY <3>2 DEF w
  <2>5. q - q = 0 /\ n - n = 0
    BY <1>3
  <2> QED BY <1>3, <1>4, <2>1, <2>2, <2>3, <2>4, <2>5 DEF Accounted
<1> QED BY <1>4, <1>5, <1>6, <1>7 DEF Books

\* A claim adds one row, of a claimer without one, with the share that is taken.
LEMMA ClaimKeepsBooks ==
  ASSUME Packs, Packs', Books, NEW a \in Accounts, NEW c \in Codes, ClaimRedpack(a, c)
  PROVE  Books'
<1> DEFINE pack == redpacks[c]
           id == globalidx.last_claim_id + 1
           row(s) == [redpack_id |-> pack.redpack_id, redpack_code |-> c,
                      claimer |-> a, quantity |-> s]
<1>1. pack \in RedpackRow /\ PackOK(pack) /\ pack.remaining_count > 0 /\ c \in DOMAIN redpacks
  BY DEF ClaimRedpack, Packs, TypeOK, IsTable
<1>2. PICK s \in Shares(pack) :
        /\ redpacks' = Put(redpacks, c, Opened(pack, s))
        /\ claims' = Put(claims, id, row(s))
  BY DEF ClaimRedpack
<1> DEFINE open == Opened(pack, s)
           new  == row(s)
<1>3. /\ id \notin DOMAIN claims /\ ~ AlreadyClaimed(a, c)
      /\ globalidx' = [globalidx EXCEPT !.last_claim_id = id]
  BY DEF ClaimRedpack
<1>4. s \in Nat
  BY <1>1, OpenedOK
<1>5. /\ open.redpack_id = pack.redpack_id
      /\ open.total_quant = pack.total_quant /\ open.total_count = pack.total_count
      /\ open.remaining_quant = pack.remaining_quant - s
      /\ open.remaining_count = pack.remaining_count - 1
      /\ pack.total_quant \in Int /\ pack.total_count \in Int
      /\ pack.remaining_quant \in Int /\ pack.remaining_count \in Int
  BY <1>1 DEF Opened, RedpackRow
<1>6. /\ new.redpack_id = pack.redpack_id /\ new.redpack_code = c
      /\ new.claimer = a /\ new.quantity = s
  OBVIOUS
<1> HIDE DEF open, new
<1>7. /\ DOMAIN redpacks' = DOMAIN redpacks /\ redpacks'[c] = open
      /\ \A k \in DOMAIN redpacks \ {c} : redpacks'[k] = redpacks[k]
  BY <1>1, <1>2 DEF Put, open
<1>8. /\ DOMAIN claims' = DOMAIN claims \cup {id} /\ claims'[id] = new
      /\ \A i \in DOMAIN claims : claims'[i] = claims[i]
  BY <1>2, <1>3 DEF Put, new
<1>9. globalidx'.last_redpack_id = globalidx.last_redpack_id
  BY <1>3 DEF Packs, TypeOK, GlobalIdxRow
<1> HIDE DEF id
<1>10. IdsPassed'
  <2>1. \A k \in DOMAIN redpacks : redpacks'[k].redpack_id = redpacks[k].redpack_id
    BY <1>5, <1>7
  <2>2. \A i \in DOMAIN claims' : claims'[i].redpack_id <= globalidx'.last_redpack_id
    BY <1>1, <1>6, <1>8, <1>9 DEF Books, IdsPassed
  <2> QED BY <1>7, <1>9, <2>1, <2>2 DEF Books, IdsPassed
<1>11. ASSUME NEW k \in DOMAIN redpacks, k # c PROVE Accounted(k)'
  <2>1. RowsOf(k)' = RowsOf(k)
    BY <1>3, <1>6, <1>7, <1>8, <1>11 DEF RowsOf
  <2>2. \A i \in RowsOf(k) : claims'[i] = claims[i]
    BY <1>8 DEF RowsOf
  <2>3. SameBooks(k)
    BY <1>7, <1>11, <2>1, <2>2 DEF SameBooks
  <2> QED BY <2>3, SameBooksKeep DEF Books
<1>12. Accounted(c)'
  <2>1. RowsOf(c)' = RowsOf(c) \cup {id} /\ id \notin RowsOf(c)
    BY <1>3, <1>5, <1>6, <1>7, <1>8 DEF RowsOf
  <2>2. Claimers(c)' = Claimers(c) \cup {a}
    <3>1. \A i \in RowsOf(c) : claims'[i] = claims[i]
      BY <1>8 DEF RowsOf
    <3> QED BY <1>6, <1>8, <2>1, <3>1 DEF Claimers
  <2>3. a \notin Claimers(c)
    BY <1>3 DEF AlreadyClaimed, Claimers, RowsOf
  <2>4. /\ IsFiniteSet(RowsOf(c)) /\ ClaimedOf(c) \in [1 .. MaxClaims -> Int]
        /\ RowsOf(c) \subseteq 1 .. MaxClaims
    BY RowTypes DEF Packs
  <2>5. ClaimedOf(c)' \in [1 .. MaxClaims -> Int] /\ RowsOf(c)' \subseteq 1 .. MaxClaims
    <3>1. RowsTyped'
      BY RowsAreTyped, PTL DEF Packs
    <3> QED BY <3>1 DEF RowsTyped
  <2>6. Cardinality(RowsOf(c)') = Cardinality(RowsOf(c)) + 1
    BY <2>1, <2>4, FS_AddElement
  <2>7. /\ IsFiniteSet(Claimers(c)')
        /\ Cardinality(Claimers(c)') = Cardinality(Claimers(c)) + 1
    BY <1>1, <2>2, <2>3, FS_AddElement DEF Books, Accounted
  <2>8. SumTo(ClaimedOf(c)', MaxClaims) = SumTo(ClaimedOf(c), MaxClaims) + s
    <3> DEFINE w == ClaimedOf(c)
               u == ClaimedOf(c)'
    <3>1. w \in [1 .. MaxClaims -> Int] /\ u \in [1 .. MaxClaims -> Int] /\ id \in 1 .. MaxClaims
      BY <2>1, <2>4, <2>5
    <3>2. w[id] = 0 /\ u[id] = s
      BY <1>6, <1>8, <2>1, <3>1 DEF ClaimedOf
    <3>3. \A j \in 1 .. MaxClaims : j # id => u[j] = w[j]
      <4>1. \A i \in RowsOf(c) : claims'[i] = claims[i]
        BY <1>8 DEF RowsOf
      <4> QED BY <2>1, <4>1 DEF ClaimedOf
    <3> HIDE DEF w, u
    <3>4. SumTo(u, MaxClaims) = SumTo(w, MaxClaims) - w[id] + u[id]
      <4>1. MaxClaims \in Nat
        BY InputTypes
      <4> QED BY <3>1, <3>3, <4>1, SumOneRow, Zenon
    <3>5. SumTo(w, MaxClaims) \in Int
      BY <3>1, InputTypes, SumType
    <3>6. SumTo(u, MaxClaims) = SumTo(w, MaxClaims) + s
      BY <1>4, <3>2, <3>4, <3>5
    <3> QED BY <3>6 DEF u, w
  <2> DEFINE sum == SumTo(ClaimedOf(c), MaxClaims)
             rows == Cardinality(RowsOf(c))
             names == Cardinality(Claimers(c))
             tq == pack.total_quant
             rq == pack.remaining_quant
             tc == pack.total_count
             rc == pack.remaining_count
  <2>9. tq - rq = sum /\ rows = tc - rc /\ names = tc - rc
    BY <1>1 DEF Books, Accounted
  <2>10. tq - (rq - s) = sum + s /\ rows + 1 = tc - (rc - 1) /\ names + 1 = tc - (rc - 1)
    <3>1. tq \in Int /\ rq \in Int /\ tc \in Int /\ rc \in Int
      BY <1>5
    <3> HIDE DEF sum, rows, names, tq, rq, tc, rc
    <3> QED BY <1>4, <2>9, <3>1
  <2> QED BY <1>5, <1>7, <2>6, <2>7, <2>8, <2>10 DEF Accounted
<1> QED BY <1>7, <1>10, <1>11, <1>12 DEF Books

\* A cancellation takes a packet and its books away; the others keep theirs.
LEMMA CancelKeepsBooks ==
  ASSUME Packs, Books, NEW c \in Codes, Cancel(c)
  PROVE  Books'
<1>1. /\ DOMAIN redpacks' = DOMAIN redpacks \ {c}
      /\ \A k \in DOMAIN redpacks' : redpacks'[k] = redpacks[k]
      /\ claims' = claims /\ globalidx' = globalidx
  BY DEF Cancel, Drop
<1>2. ASSUME NEW k \in DOMAIN redpacks' PROVE Accounted(k)'
  <2>1. SameBooks(k)
    BY <1>1 DEF SameBooks, RowsOf
  <2> QED BY <1>1, <2>1, SameBooksKeep DEF Books
<1> QED BY <1>1, <1>2 DEF Books, IdsPassed

\* delclaims erases no row of a packet on the table.
LEMMA DelClaimsKeepsBooks ==
  ASSUME Packs, Books, NEW n \in 1 .. MaxClaims, DelClaims(n)
  PROVE  Books'
<1>1. PICK S : claims' = Drop(claims, S) /\ \A i \in S : i \in DOMAIN claims /\ Orphan(i)
  <2> DEFINE orphans == {i \in DOMAIN claims : Orphan(i)}
             deleted == {i \in orphans : Cardinality({j \in orphans : j < i}) < n}
  <2>1. claims' = Drop(claims, deleted)
    BY DEF DelClaims
  <2>2. \A i \in deleted : i \in DOMAIN claims /\ Orphan(i)
    OBVIOUS
  <2> HIDE DEF deleted
  <2> QED BY <2>1, <2>2
<1>2. redpacks' = redpacks /\ globalidx' = globalidx
  BY DEF DelClaims
<1>3. /\ DOMAIN claims' = DOMAIN claims \ S
      /\ \A i \in DOMAIN claims' : claims'[i] = claims[i]
  BY <1>1 DEF Drop
<1>4. ASSUME NEW k \in DOMAIN redpacks PROVE Accounted(k)'
  <2>1. RowsOf(k) \cap S = {}
    BY <1>1 DEF RowsOf, Orphan
  <2>2. RowsOf(k)' = RowsOf(k)
    BY <1>2, <1>3, <2>1 DEF RowsOf
  <2>3. \A i \in RowsOf(k) : claims'[i] = claims[i]
    BY <1>3, <2>1 DEF RowsOf
  <2>4. SameBooks(k)
    BY <1>2, <2>2, <2>3 DEF SameBooks
  <2> QED BY <2>4, SameBooksKeep DEF Books
<1> QED BY <1>2, <1>3, <1>4 DEF Books, IdsPassed

\* A step that leaves the tables alone and does not set the counter back.
LEMMA IdleKeepsBooks ==
  ASSUME Packs, Packs', Books, UNCHANGED <<redpacks, claims>>,
         globalidx'.last_redpack_id >= globalidx.last_redpack_id
  PROVE  Books'
<1>1. /\ globalidx.last_redpack_id \in Nat /\ globalidx'.last_redpack_id \in Nat
      /\ \A k \in DOMAIN redpacks : redpacks[k].redpack_id \in Nat
      /\ \A i \in DOMAIN claims : claims[i].redpack_id \in Nat
  BY DEF Packs, TypeOK, GlobalIdxRow, IsTable, RedpackRow, ClaimRow
<1>2. IdsPassed'
  BY <1>1 DEF Books, IdsPassed
<1>3. ASSUME NEW k \in DOMAIN redpacks PROVE Accounted(k)'
  <2>1. SameBooks(k)
    BY DEF SameBooks, RowsOf
  <2> QED BY <2>1, SameBooksKeep DEF Books
<1> QED BY <1>2, <1>3 DEF Books

LEMMA BooksStep ==
  Packs /\ Packs' /\ Books /\ [Next]_vars
    /\ [globalidx'.last_redpack_id >= globalidx.last_redpack_id]_vars => Books'
<1> SUFFICES ASSUME Packs, Packs', Books, [Next]_vars,
                    [globalidx'.last_redpack_id >= globalidx.last_redpack_id]_vars
             PROVE  Books'
  OBVIOUS
<1>0. globalidx'.last_redpack_id >= globalidx.last_redpack_id
  BY DEF vars, Packs, TypeOK, GlobalIdxRow
<1>1. CASE \/ \E h \in Hours : SetGlobal(h)
           \/ \E a \in Assets : ListToken(a)
           \/ \E a \in Assets : DelistToken(a)
           \/ \E r, c \in IdInputs : SetGlobalIdx(r, c)
           \/ Tick
           \/ UNCHANGED vars
  <2>1. UNCHANGED <<redpacks, claims>>
    BY <1>1 DEF SetGlobal, ListToken, DelistToken, SetGlobalIdx, Tick, vars
  <2> QED BY <1>0, <2>1, IdleKeepsBooks
<1>2. ASSUME NEW f \in Accounts, NEW c \in Codes, NEW t \in Types, NEW d \in BOOLEAN,
             NEW a \in Assets, NEW q \in Quantities, NEW n \in Counts,
             Deposit(f, c, t, d, a, q, n)
      PROVE  Books'
  BY <1>2, DepositKeepsBooks
<1>3. ASSUME NEW a \in Accounts, NEW c \in Codes, ClaimRedpack(a, c) PROVE Books'
  BY <1>3, ClaimKeepsBooks
<1>4. ASSUME NEW c \in Codes, Cancel(c) PROVE Books'
  BY <1>4, CancelKeepsBooks
<1>5. ASSUME NEW n \in 1 .. MaxClaims, DelClaims(n) PROVE Books'
  BY <1>5, DelClaimsKeepsBooks
<1> QED BY <1>1, <1>2, <1>3, <1>4, <1>5 DEF Next

\* For every packet the claim rows account for what left it, whatever codes are used
\* again and rows erased, as long as no administrator sets the counter of packets back.
THEOREM RedpackClaimsAccounted == Spec /\ PacketIdsGrow => []ClaimsAccounted
<1>1. Init => Books
  BY DEF Init, Books, IdsPassed, Empty
<1>2. Inv => Packs
  BY DEF Inv
<1>3. Spec => []Packs
  BY <1>2, InvHolds, PTL
<1>4. Spec /\ PacketIdsGrow => []Books
  BY <1>1, <1>3, BooksStep, PTL DEF Spec, PacketIdsGrow
<1> QED BY <1>4, BooksAreMore, PTL

\* Only setglobalidx sets the counter of packets back, and not with the argument 0.
THEOREM RedpackIdsGrow == Spec /\ IdInputs \subseteq {0} => PacketIdsGrow
<1> SUFFICES ASSUME IdInputs \subseteq {0} PROVE Spec => PacketIdsGrow
  OBVIOUS
<1>1. Packs /\ [Next]_vars => [globalidx'.last_redpack_id >= globalidx.last_redpack_id]_vars
  <2> SUFFICES ASSUME Packs, Next PROVE globalidx'.last_redpack_id >= globalidx.last_redpack_id
    OBVIOUS
  <2>1. globalidx \in GlobalIdxRow /\ globalidx.last_redpack_id \in Nat
    BY DEF Packs, TypeOK, GlobalIdxRow
  <2>2. ASSUME NEW f \in Accounts, NEW c \in Codes, NEW t \in Types, NEW d \in BOOLEAN,
               NEW a \in Assets, NEW q \in Quantities, NEW n \in Counts,
               Deposit(f, c, t, d, a, q, n)
        PROVE  globalidx'.last_redpack_id >= globalidx.last_redpack_id
    BY <2>1, <2>2 DEF Deposit, GlobalIdxRow
  <2>3. ASSUME NEW a \in Accounts, NEW c \in Codes, ClaimRedpack(a, c)
        PROVE  globalidx'.last_redpack_id >= globalidx.last_redpack_id
    BY <2>1, <2>3 DEF ClaimRedpack, GlobalIdxRow
  <2>4. ASSUME NEW r \in IdInputs, NEW c \in IdInputs, SetGlobalIdx(r, c)
        PROVE  globalidx'.last_redpack_id >= globalidx.last_redpack_id
    BY <2>1, <2>4 DEF SetGlobalIdx
  <2>5. ASSUME globalidx' = globalidx
        PROVE  globalidx'.last_redpack_id >= globalidx.last_redpack_id
    BY <2>1, <2>5
  <2> QED BY <2>2, <2>3, <2>4, <2>5
          DEF Next, SetGlobal, ListToken, DelistToken, Cancel, DelClaims, Tick
<1>2. Inv => Packs
  BY DEF Inv
<1> QED BY <1>1, <1>2, InvHolds, PTL DEF Spec, PacketIdsGrow

-------------------------------------------------------------------------------
(* What is due goes out. *)

\* Who deposits is not the contract: its own transfers are not deposits.
CreatorsAreOthers == \A c \in DOMAIN redpacks : redpacks[c].creator # Self

\* No transfer of a claim or a refund can fail: neither for its amount, nor for want
\* of balance, nor because it would go to the contract itself.
PayoutsGoOut ==
  \A c \in DOMAIN redpacks :
    LET pack == redpacks[c]
    IN  /\ RefundDue(pack) => CanTransferOut(pack.creator, pack.asset, pack.remaining_quant)
        /\ pack.remaining_count > 0 /\ pack.remaining_quant > 0 =>
             \A share \in Shares(pack), a \in Accounts \ {Self} :
               /\ share <= pack.remaining_quant
               /\ CanTransferOut(a, pack.asset, share)

\* A packet keeps its creator, and a deposit of the contract's own is none.
LEMMA CreatorsStep == TypeOK /\ CreatorsAreOthers /\ [Next]_vars => CreatorsAreOthers'
<1> SUFFICES ASSUME TypeOK, CreatorsAreOthers, [Next]_vars
             PROVE  CreatorsAreOthers'
  OBVIOUS
<1> USE DEF CreatorsAreOthers
<1>1. ASSUME NEW f \in Accounts, NEW c \in Codes, NEW t \in Types, NEW d \in BOOLEAN,
             NEW a \in Assets, NEW q \in Quantities, NEW n \in Counts,
             Deposit(f, c, t, d, a, q, n)
      PROVE  CreatorsAreOthers'
  <2> DEFINE pack == NewRedpack(globalidx.last_redpack_id + 1, t, f, d, a, q, n)
  <2>1. f # Self /\ redpacks' = Put(redpacks, c, pack)
    BY <1>1 DEF Deposit
  <2>2. pack.creator = f
    BY DEF NewRedpack
  <2> HIDE DEF pack
  <2> QED BY <2>1, <2>2 DEF Put
<1>2. ASSUME NEW a \in Accounts, NEW c \in Codes, ClaimRedpack(a, c)
      PROVE  CreatorsAreOthers'
  <2>1. c \in DOMAIN redpacks /\ redpacks[c] \in RedpackRow
    BY <1>2 DEF ClaimRedpack, TypeOK, IsTable
  <2>2. PICK s : redpacks' = Put(redpacks, c, Opened(redpacks[c], s))
    BY <1>2 DEF ClaimRedpack
  <2>3. Opened(redpacks[c], s).creator = redpacks[c].creator
    BY <2>1 DEF Opened, RedpackRow
  <2> QED BY <2>1, <2>2, <2>3 DEF Put
<1>3. ASSUME NEW c \in Codes, Cancel(c) PROVE CreatorsAreOthers'
  BY <1>3 DEF Cancel, Drop
<1>4. CASE UNCHANGED redpacks
  BY <1>4
<1>5. \/ \E f \in Accounts, c \in Codes, t \in Types, d \in BOOLEAN, a \in Assets,
            q \in Quantities, n \in Counts : Deposit(f, c, t, d, a, q, n)
      \/ \E a \in Accounts, c \in Codes : ClaimRedpack(a, c)
      \/ \E c \in Codes : Cancel(c)
      \/ UNCHANGED redpacks
  BY DEF Next, vars, SetGlobal, ListToken, DelistToken, SetGlobalIdx, DelClaims, Tick
<1> QED BY <1>1, <1>2, <1>3, <1>4, <1>5

\* A packet has no more left than the contract owns of its asset.
LEMMA LeftIsOwned ==
  ASSUME Inv, NEW c \in DOMAIN redpacks
  PROVE  redpacks[c].remaining_quant <= held[redpacks[c].asset]
<1> DEFINE a == redpacks[c].asset
           w == LeftOf(a)
<1>1. c \in 1 .. NumCodes /\ a \in Assets /\ redpacks[c] \in RedpackRow
  BY DEF Inv, Packs, TypeOK, IsTable, RedpackRow, Codes
<1>2. w \in [1 .. NumCodes -> Int] /\ \A k \in 1 .. NumCodes : w[k] >= 0
  <2>1. \A k \in DOMAIN redpacks : redpacks[k].remaining_quant \in Nat
    BY DEF Inv, Packs, TypeOK, IsTable, RedpackRow
  <2> QED BY <2>1 DEF LeftOf, Codes
<1>3. w[c] = redpacks[c].remaining_quant
  BY <1>1 DEF LeftOf, Codes
<1>4. held[a] = SumTo(w, NumCodes)
  BY <1>1 DEF Inv, Solvent
<1> HIDE DEF w
<1>5. w[c] <= SumTo(w, NumCodes)
  BY <1>1, <1>2, InputTypes, SumBounds
<1> QED BY <1>3, <1>4, <1>5

\* Whatever was drawn, deposited, cancelled and erased before: the transfers of a claim
\* that claimredpack accepts and of a refund that is due are never refused.
THEOREM RedpackPayoutsGoOut == Spec => []PayoutsGoOut
<1>1. Init => CreatorsAreOthers
  BY DEF Init, Empty, CreatorsAreOthers
<1>2. Inv => TypeOK
  BY DEF Inv, Packs
<1>3. Inv /\ CreatorsAreOthers => PayoutsGoOut
  <2> SUFFICES ASSUME Inv, CreatorsAreOthers, NEW c \in DOMAIN redpacks
               PROVE
      LET pack == redpacks[c]
      IN  /\ RefundDue(pack) => CanTransferOut(pack.creator, pack.asset, pack.remaining_quant)
          /\ pack.remaining_count > 0 /\ pack.remaining_quant > 0 =>
               \A share \in Shares(pack), a \in Accounts \ {Self} :
                 /\ share <= pack.remaining_quant
                 /\ CanTransferOut(a, pack.asset, share)
    BY DEF PayoutsGoOut
  <2> DEFINE pack == redpacks[c]
  <2>1. /\ pack \in RedpackRow /\ PackOK(pack)
        /\ pack.remaining_quant \in Nat /\ pack.remaining_count \in Nat
        /\ held[pack.asset] \in Int
    BY DEF Inv, Packs, TypeOK, IsTable, RedpackRow
  <2>2. pack.remaining_quant <= held[pack.asset]
    BY LeftIsOwned
  <2>3. pack.creator # Self
    BY DEF CreatorsAreOthers
  <2>4. ASSUME RefundDue(pack)
        PROVE  CanTransferOut(pack.creator, pack.asset, pack.remaining_quant)
    BY <2>1, <2>2, <2>3, <2>4 DEF RefundDue, CanTransferOut
  <2>5. ASSUME pack.remaining_count > 0, pack.remaining_quant > 0,
               NEW share \in Shares(pack), NEW a \in Accounts \ {Self}
        PROVE  share <= pack.remaining_quant /\ CanTransferOut(a, pack.asset, share)
    <3>1. share \in Nat /\ 0 < share /\ share <= pack.remaining_quant
      <4>1. CASE pack.remaining_count = 1
        BY <2>1, <2>5, <4>1 DEF Shares
      <4>2. CASE pack.remaining_count > 1
        BY <2>1, <2>5, <4>2, SharesOK
      <4> QED BY <2>1, <2>5, <4>1, <4>2
    <3> HIDE DEF pack
    <3> QED BY <2>1, <2>2, <3>1 DEF CanTransferOut
  <2> QED BY <2>4, <2>5
<1> QED BY <1>1, <1>2, <1>3, CreatorsStep, InvHolds, PTL DEF Spec

===============================================================================
