---------------------------- MODULE PriceOracleProofs ----------------------------
(***************************************************************************)
(* Proofs about PriceOracle for every value of its constants: the types,   *)
(* that the map and the table tell the same price, what the band makes of  *)
(* it, and that ids tell rows apart.  A call loops over its prices; what a *)
(* step does is proved of the state after each round of the loop.          *)
(***************************************************************************)
EXTENDS PriceOracle, TableTheorems, TLAPS

\* The inductive invariant.
Inv == TypeOK /\ RowIsLatest

LEMMA ConstTypes ==
  /\ Int64Max \in Nat \ {0} /\ Word \in Nat \ {0} /\ Word = 2 * (Int64Max + 1)
  /\ \A a \in Amounts : a \in Int64 /\ a \in Int
<1>1. Int64Max \in Nat \ {0}
  BY PriceAssumption
<1>2. ASSUME NEW a \in Amounts PROVE a \in Int64 /\ a \in Int
  BY <1>1, PriceAssumption DEF Int64
<1> QED BY <1>1, <1>2 DEF Word

-------------------------------------------------------------------------------
(* Words and the band. *)

\* What is stored of an amount is a word, and is the amount itself if that is not negative.
LEMMA StoredWord ==
  ASSUME NEW a \in Amounts
  PROVE  Stored(a) \in Word64 /\ (a >= 0 => Stored(a) = a)
<1>1. a \in Int /\ a <= Int64Max /\ Word \in Nat \ {0} /\ Word = 2 * (Int64Max + 1)
      /\ Int64Max \in Nat
  BY ConstTypes DEF Int64
<1>2. a < Word
  BY <1>1
<1> HIDE DEF Word
<1> QED BY <1>1, <1>2 DEF Stored, Word64

\* Half and one and a half, rounded half up, both outside.
LEMMA Band ==
  ASSUME NEW v \in Nat, NEW a \in Int, InBand(v, a)
  PROVE  /\ v = 1 => FALSE
         /\ v = 2 => a = 2
         /\ v > 2 => a > 2
         /\ 15 * v <= Int64Max
<1>1. /\ (10 * v * 15) \div 10 <= Int64Max
      /\ a > ((10 * v * 5) \div 10 + 5) \div 10
      /\ a < ((10 * v * 15) \div 10 + 5) \div 10
  BY DEF InBand, MultiplyFits, multiply_decimal64
<1>2. (10 * v * 15) \div 10 = 15 * v /\ (10 * v * 5) \div 10 = 5 * v
  OBVIOUS
<1>3. a > (5 * v + 5) \div 10 /\ a < (15 * v + 5) \div 10
  BY <1>1, <1>2
<1>4. v = 1 => FALSE
  BY <1>3
<1>5. v = 2 => a = 2
  BY <1>3
<1>6. v > 2 => a > 2
  BY <1>3
<1> QED BY <1>1, <1>2, <1>4, <1>5, <1>6

-------------------------------------------------------------------------------
(* The loop. *)

\* What holds after every round: the types; the map and the table tell the same price; the
\* band and the ids, compared with what was there before the call.
Round(at) ==
  /\ at = [ok |-> at.ok, prices |-> at.prices, rows |-> at.rows]
  /\ IsTable(at.prices, Coins, Word64) /\ IsTable(at.rows, Coins, Row)
  /\ DOMAIN at.prices = DOMAIN prices
  /\ \A c \in DOMAIN prices :
       /\ at.prices[c] # 0 => c \in DOMAIN at.rows /\ Stored(at.rows[c].price) = at.prices[c]
       /\ prices[c] \in {1, 2} => at.prices[c] = prices[c]
       /\ prices[c] > 2 => at.prices[c] > 2
       /\ 15 * prices[c] > Int64Max => at.prices[c] = prices[c]
  /\ \A c \in DOMAIN rows :
       /\ c \in DOMAIN at.rows
       /\ at.rows[c] = rows[c] \/ at.rows[c].id > rows[c].id

\* Before the first round.
LEMMA FirstRound ==
  ASSUME Inv
  PROVE  Round([ok |-> TRUE, prices |-> prices, rows |-> rows])
BY DEF Inv, TypeOK, RowIsLatest, Round

\* One round.
LEMMA NextRound ==
  ASSUME Inv, NEW at, Round(at), NEW info \in InfoRow
  PROVE  Round(_updateprice(at, info))
<1> DEFINE coin == info.coin
           old  == at.prices[coin]
           new  == info.price
           row  == NextRow(at.rows, coin, new)
           next == _updateprice(at, info)
<1>1. coin \in Coins /\ new \in Amounts /\ new \in Int64 /\ new \in Int
  BY ConstTypes DEF InfoRow
<1>2. CASE ~ (/\ at.ok /\ coin \in DOMAIN at.prices
              /\ old # 0 => InBand(old, new))
  <2>1. next = [at EXCEPT !.ok = FALSE]
    BY <1>2 DEF _updateprice
  <2>2. at = [ok |-> at.ok, prices |-> at.prices, rows |-> at.rows]
    BY DEF Round
  <2>3. next = [ok |-> FALSE, prices |-> at.prices, rows |-> at.rows]
    <3> HIDE DEF next
    <3> QED BY <2>1, <2>2
  <2> HIDE DEF next
  <2>4. /\ next.prices = at.prices /\ next.rows = at.rows
        /\ next = [ok |-> next.ok, prices |-> next.prices, rows |-> next.rows]
    BY <2>3
  <2>5. Round(next)
    BY <2>4 DEF Round
  <2> QED BY <2>5 DEF next
<1>3. CASE /\ at.ok /\ coin \in DOMAIN at.prices
           /\ old # 0 => InBand(old, new)
  <2>1. next = [ok |-> TRUE, prices |-> Put(at.prices, coin, Stored(new)),
                rows |-> Put(at.rows, coin, row)]
    BY <1>3 DEF _updateprice, Mapped
  <2>2. /\ row \in Row /\ row.price = new
        /\ coin \in DOMAIN at.rows => row.id = at.rows[coin].id + 1
    <3>1. coin \in DOMAIN at.rows => at.rows[coin].id \in Nat
      BY DEF Round, IsTable, Row
    <3> QED BY <1>1, <3>1 DEF NextRow, Row
  <2>3. Stored(new) \in Word64 /\ (new >= 0 => Stored(new) = new)
    BY <1>1, StoredWord
  <2>4. /\ IsTable(at.prices, Coins, Word64) /\ IsTable(at.rows, Coins, Row)
        /\ DOMAIN at.prices = DOMAIN prices
    BY DEF Round
  <2> HIDE DEF next, row
  <2> DEFINE ps == Put(at.prices, coin, Stored(new))
             rs == Put(at.rows, coin, row)
  <2>5. IsTable(ps, Coins, Word64) /\ IsTable(rs, Coins, Row)
    BY <1>1, <2>2, <2>3, <2>4, PutTyped
  <2>6. /\ DOMAIN ps = DOMAIN prices /\ ps[coin] = Stored(new)
        /\ \A c \in DOMAIN prices \ {coin} : ps[c] = at.prices[c]
        /\ DOMAIN rs = DOMAIN at.rows \cup {coin} /\ rs[coin] = row
        /\ \A c \in DOMAIN at.rows \ {coin} : rs[c] = at.rows[c]
    BY <1>3, <2>4 DEF Put
  <2>7. next.prices = ps /\ next.rows = rs
        /\ next = [ok |-> next.ok, prices |-> next.prices, rows |-> next.rows]
    BY <2>1
  <2> HIDE DEF ps, rs
  <2>8. old \in Nat /\ (old # 0 => InBand(old, new))
    BY <1>3, <2>4, ConstTypes DEF IsTable, Word64
  <2>9. ASSUME NEW c \in DOMAIN prices
        PROVE  /\ ps[c] # 0 => c \in DOMAIN rs /\ Stored(rs[c].price) = ps[c]
               /\ prices[c] \in {1, 2} => ps[c] = prices[c]
               /\ prices[c] > 2 => ps[c] > 2
               /\ 15 * prices[c] > Int64Max => ps[c] = prices[c]
    <3>1. CASE c # coin
      BY <2>6, <3>1 DEF Round
    <3>2. CASE c = coin
      <4>1. c \in DOMAIN rs /\ Stored(rs[c].price) = ps[c]
        BY <2>2, <2>6, <3>2
      <4> DEFINE was == prices[c]
      <4>2. /\ was \in Nat /\ Int64Max \in Nat
            /\ was \in {1, 2} => old = was
            /\ was > 2 => old > 2
            /\ 15 * was > Int64Max => old = was
        BY <3>2, ConstTypes DEF Inv, TypeOK, IsTable, Word64, Round
      <4>3. ps[c] = Stored(new)
        BY <2>6, <3>2
      <4>4. /\ old = 1 => FALSE
            /\ old = 2 => new = 2
            /\ old > 2 => new > 2
            /\ old # 0 => 15 * old <= Int64Max
        BY <1>1, <2>8, Band
      <4>5. /\ was \in {1, 2} => Stored(new) = was
            /\ was > 2 => Stored(new) > 2
            /\ 15 * was > Int64Max => FALSE
        <5> HIDE DEF was, old, new
        <5> QED BY <1>1, <2>3, <2>8, <4>2, <4>4
      <4> QED BY <4>1, <4>3, <4>5
    <3> QED BY <3>1, <3>2
  <2>10. ASSUME NEW c \in DOMAIN rows
         PROVE  c \in DOMAIN rs /\ (rs[c] = rows[c] \/ rs[c].id > rows[c].id)
    <3>1. /\ c \in DOMAIN at.rows /\ (at.rows[c] = rows[c] \/ at.rows[c].id > rows[c].id)
          /\ at.rows[c].id \in Nat /\ rows[c].id \in Nat
      BY <2>4 DEF Round, Inv, TypeOK, IsTable, Row
    <3>2. CASE c # coin
      BY <2>6, <3>1, <3>2
    <3>3. CASE c = coin
      <4>1. rs[c].id = at.rows[c].id + 1 /\ at.rows[c].id >= rows[c].id
        BY <2>2, <2>6, <3>1, <3>3
      <4> QED BY <2>6, <3>1, <3>3, <4>1
    <3> QED BY <3>2, <3>3
  <2>11. Round(next)
    BY <2>5, <2>6, <2>7, <2>9, <2>10 DEF Round
  <2> QED BY <2>11 DEF next
<1> QED BY <1>2, <1>3

\* f is the state of the loop, round by round.
IsLoop(f, infos, n) ==
  f = [k \in 0..n |-> IF k = 0 THEN [ok |-> TRUE, prices |-> prices, rows |-> rows]
                               ELSE _updateprice(f[k - 1], infos[k])]

\* The loop runs to its end.
LEMMA LoopExists ==
  ASSUME NEW n \in Nat, NEW infos
  PROVE  \E f : IsLoop(f, infos, n)
<1> DEFINE Has(j) == \E f : IsLoop(f, infos, j)
           T == {j \in 0..n : ~ Has(j)}
<1>0. n \in 0..n
  OBVIOUS
<1>1. SUFFICES ASSUME T # {} PROVE FALSE
  BY <1>0
<1>2. PICK m \in T : \A k \in T : ~ (k < m)
  <2>1. T \subseteq Nat
    OBVIOUS
  <2> HIDE DEF T
  <2> QED BY <1>1, <2>1, LeastElement
<1> DEFINE start == [ok |-> TRUE, prices |-> prices, rows |-> rows]
<1>3. m # 0
  <2>1. IsLoop([k \in 0..0 |-> start], infos, 0)
    BY DEF IsLoop
  <2>2. Has(0)
    BY <2>1
  <2> QED BY <2>2
<1>4. m - 1 \in 0..n /\ ~ (m - 1 \in T) /\ m \in Nat
  BY <1>2, <1>3
<1>5. PICK f : IsLoop(f, infos, m - 1)
  BY <1>4
<1> DEFINE g == [k \in 0..m |-> IF k = m THEN _updateprice(f[m - 1], infos[m]) ELSE f[k]]
<1>6. ASSUME NEW k \in 0..m
      PROVE  g[k] = IF k = 0 THEN start ELSE _updateprice(g[k - 1], infos[k])
  <2>1. CASE k = m
    <3>1. m - 1 \in 0..m /\ m - 1 # m /\ g[m - 1] = f[m - 1]
      BY <1>3, <1>4
    <3> QED BY <1>3, <2>1, <3>1
  <2>2. CASE k # m
    <3>1. k \in 0..(m - 1)
      BY <1>4, <2>2
    <3>2. f[k] = IF k = 0 THEN start ELSE _updateprice(f[k - 1], infos[k])
      BY <1>5, <3>1 DEF IsLoop
    <3>3. g[k] = f[k] /\ (k # 0 => g[k - 1] = f[k - 1])
      BY <1>4, <3>1
    <3> HIDE DEF g
    <3> QED BY <3>2, <3>3
  <2> QED BY <2>1, <2>2
<1>7. IsLoop(g, infos, m)
  <2>1. g = [k \in 0..m |-> g[k]]
    OBVIOUS
  <2> HIDE DEF g
  <2> QED BY <1>6, <2>1 DEF IsLoop
<1>8. Has(m)
  BY <1>7
<1> QED BY <1>2, <1>8

\* What holds after every round holds at the end of the call.
LEMMA LoopEnds ==
  ASSUME Inv, NEW n \in Nat, NEW infos \in [1..n -> InfoRow], Len(infos) = n
  PROVE  Round(Updated(infos))
<1>1. PICK f : IsLoop(f, infos, n) /\ Updated(infos) = f[n]
  <2>1. \E f : IsLoop(f, infos, n)
    BY LoopExists
  <2> DEFINE after == CHOOSE f : IsLoop(f, infos, n)
  <2>2. IsLoop(after, infos, n)
    BY <2>1
  <2>3. Updated(infos) = after[n]
    BY DEF Updated, IsLoop
  <2> HIDE DEF after
  <2> QED BY <2>2, <2>3
<1> DEFINE T == {k \in 0..n : ~ Round(f[k])}
<1>2. SUFFICES ASSUME T # {} PROVE FALSE
  <2>1. n \in 0..n
    OBVIOUS
  <2> QED BY <1>1, <2>1
<1>3. PICK m \in T : \A k \in T : ~ (k < m)
  <2>1. T \subseteq Nat
    OBVIOUS
  <2> HIDE DEF T
  <2> QED BY <1>2, <2>1, LeastElement
<1>4. CASE m = 0
  <2>1. f[0] = [ok |-> TRUE, prices |-> prices, rows |-> rows]
    BY <1>1 DEF IsLoop
  <2>2. Round(f[0])
    BY <2>1, FirstRound
  <2> QED BY <1>3, <1>4, <2>2
<1>5. CASE m # 0
  <2>1. m \in 1..n /\ m - 1 \in 0..n /\ ~ (m - 1 \in T) /\ m \in 0..n
    BY <1>3, <1>5
  <2>2. Round(f[m - 1]) /\ infos[m] \in InfoRow
    BY <2>1
  <2>3. f[m] = _updateprice(f[m - 1], infos[m])
    BY <1>1, <1>5, <2>1 DEF IsLoop
  <2>4. Round(f[m])
    BY <2>2, <2>3, NextRound
  <2> QED BY <1>3, <2>4
<1> QED BY <1>4, <1>5

-------------------------------------------------------------------------------
(* The steps. *)

\* What a step does to the prices and rows that are there before and after it.
Moved ==
  /\ \A c \in DOMAIN prices \cap DOMAIN prices' :
       /\ prices[c] \in {1, 2} => prices'[c] = prices[c]
       /\ prices[c] > 2 => prices'[c] > 2
       /\ 15 * prices[c] > Int64Max => prices'[c] = prices[c]
  /\ \A c \in DOMAIN rows :
       c \in DOMAIN rows' /\ (rows'[c] # rows[c] => rows'[c].id > rows[c].id)

\* Every step keeps the invariant and moves prices and rows like that.
LEMMA InvStep == Inv /\ [Next]_vars => Inv' /\ Moved
<1> SUFFICES ASSUME Inv, [Next]_vars PROVE Inv' /\ Moved
  OBVIOUS
<1>0. /\ oracles \subseteq Accounts /\ IsTable(prices, Coins, Word64)
      /\ IsTable(rows, Coins, Row)
  BY DEF Inv, TypeOK
<1>1. ASSUME NEW o \in Accounts, AddOracle(o) \/ RemoveOracle(o) PROVE Inv' /\ Moved
  <2>1. oracles' \subseteq Accounts /\ prices' = prices /\ rows' = rows
    BY <1>0, <1>1 DEF AddOracle, RemoveOracle
  <2> QED BY <2>1, <1>0 DEF Inv, TypeOK, RowIsLatest, Moved, IsTable, Word64
<1>2. ASSUME NEW c \in Coins, AddCoin(c) PROVE Inv' /\ Moved
  <2>1. /\ prices' = Put(prices, c, 0) /\ c \notin DOMAIN prices
        /\ rows' = rows /\ oracles' = oracles
    BY <1>2 DEF AddCoin
  <2>2. 0 \in Word64
    BY ConstTypes DEF Word64
  <2>3. IsTable(prices', Coins, Word64)
    BY <1>0, <2>1, <2>2, PutTyped
  <2>4. /\ DOMAIN prices' = DOMAIN prices \cup {c} /\ prices'[c] = 0
        /\ \A d \in DOMAIN prices : prices'[d] = prices[d]
    BY <2>1 DEF Put
  <2>5. TypeOK'
    BY <1>0, <2>1, <2>3 DEF TypeOK
  <2>6. RowIsLatest'
    BY <2>1, <2>4 DEF Inv, RowIsLatest
  <2>7. Moved
    BY <2>1, <2>4 DEF Moved
  <2> QED BY <2>5, <2>6, <2>7 DEF Inv
<1>3. ASSUME NEW c \in Coins, RemoveCoin(c) PROVE Inv' /\ Moved
  <2>1. prices' = Drop(prices, {c}) /\ rows' = rows /\ oracles' = oracles
    BY <1>3 DEF RemoveCoin
  <2>2. IsTable(prices', Coins, Word64)
    BY <1>0, <2>1, DropTyped
  <2>3. /\ DOMAIN prices' = DOMAIN prices \ {c}
        /\ \A d \in DOMAIN prices' : prices'[d] = prices[d]
    BY <2>1 DEF Drop
  <2>4. TypeOK'
    BY <1>0, <2>1, <2>2 DEF TypeOK
  <2>5. RowIsLatest'
    BY <2>1, <2>3 DEF Inv, RowIsLatest
  <2>6. Moved
    BY <2>1, <2>3, <1>0, ConstTypes DEF Moved, IsTable, Word64
  <2> QED BY <2>4, <2>5, <2>6 DEF Inv
<1>4. ASSUME NEW o \in Accounts, NEW n \in 1..MaxInfos, NEW infos \in [1..n -> InfoRow],
             UpdatePrice(o, infos)
      PROVE  Inv' /\ Moved
  <2> DEFINE end == Updated(infos)
  <2>1. prices' = end.prices /\ rows' = end.rows /\ oracles' = oracles
    BY <1>4 DEF UpdatePrice
  <2>2. n \in Nat
    BY PriceAssumption
  <2>3. Len(infos) = n
    BY <2>2
  <2>4. Round(end)
    BY <2>2, <2>3, LoopEnds
  <2> HIDE DEF end
  <2>5. TypeOK'
    BY <1>0, <2>1, <2>4 DEF Round, TypeOK
  <2>6. RowIsLatest'
    BY <2>1, <2>4 DEF Round, RowIsLatest
  <2>7. Moved
    BY <2>1, <2>4 DEF Round, Moved
  <2> QED BY <2>5, <2>6, <2>7 DEF Inv
<1>5. CASE UNCHANGED vars
  <2>1. oracles' = oracles /\ prices' = prices /\ rows' = rows
    BY <1>5 DEF vars
  <2> QED BY <2>1, <1>0 DEF Inv, TypeOK, RowIsLatest, Moved, IsTable, Word64
<1> QED BY <1>1, <1>2, <1>3, <1>4, <1>5 DEF Next

LEMMA InvHolds == Spec => []Inv
<1>1. Init => Inv
  BY DEF Init, Inv, TypeOK, RowIsLatest, IsTable, Empty
<1>2. Inv /\ [Next]_vars => Inv'
  BY InvStep
<1> QED BY <1>1, <1>2, PTL DEF Spec

-------------------------------------------------------------------------------
(* The theorems. *)

\* The map holds words and the rows hold int64 amounts and positive ids, whatever is sent.
THEOREM PriceOracleTypeCorrect == Spec => []TypeOK
BY InvHolds, PTL DEF Inv

\* The map and the table tell the same price of every coin that has one.
THEOREM PriceOracleRowIsLatest == Spec => []RowIsLatest
BY InvHolds, PTL DEF Inv

\* 1 and 2 are never left, 3 and more never fall below 3, and no price above a fifteenth of
\* int64_t is changed, in calls of any length and for any width of the integers.
THEOREM PriceOracleBandTraps == Spec => BandTraps
<1>1. Inv /\ [Next]_vars => Moved
  BY InvStep
<1>2. Moved => \A c \in DOMAIN prices \cap DOMAIN prices' :
                 /\ prices[c] \in {1, 2} => prices'[c] = prices[c]
                 /\ prices[c] > 2 => prices'[c] > 2
                 /\ 15 * prices[c] > Int64Max => prices'[c] = prices[c]
  BY DEF Moved
<1> QED BY <1>1, <1>2, InvHolds, PTL DEF Spec, BandTraps

\* No row is changed in place, and no id comes back.
THEOREM PriceOracleIdsTellRowsApart == Spec => IdsTellRowsApart
<1>1. Inv /\ [Next]_vars => Moved
  BY InvStep
<1>2. Moved => \A c \in DOMAIN rows :
                 c \in DOMAIN rows' /\ (rows'[c] # rows[c] => rows'[c].id > rows[c].id)
  BY DEF Moved
<1> QED BY <1>1, <1>2, InvHolds, PTL DEF Spec, IdsTellRowsApart

===============================================================================
