---------------------------- MODULE ProxyswapProofs ----------------------------
(***************************************************************************)
(* Proofs about Proxyswap for every value of its constants: the types, the *)
(* ledger of each symbol, and that open orders are never rewritten.        *)
(***************************************************************************)
EXTENDS Proxyswap, TableTheorems, TLAPS

\* The constants, one fact each, for the provers.
LEMMA ConstTypes ==
  /\ NumAssets \in Nat /\ MaxOrders \in Nat /\ MaxAmount \in Nat
  /\ Assets = 1 .. NumAssets
  /\ \A n \in Amounts : n \in Nat \ {0}
  /\ \A n \in OrderIds : n \in Nat
  /\ \A a \in NameInputs : a \in Names
  /\ \A a \in Assets : SymbolOf[a] \in Symbols
BY ProxyswapAssumption DEF Assets, Amounts, Symbols

LEMMA PairInputTypes ==
  ASSUME NEW input \in PairInputs
  PROVE  /\ input.left \in Assets /\ input.right \in Assets
         /\ input.mini_left \in Quant /\ input.mini_right \in Quant
BY ProxyswapAssumption

-------------------------------------------------------------------------------
(* What a step does to orders and balances. *)

\* A token goes out: what the type invariant needs of it.
LEMMA TokenAmounts ==
  ASSUME TypeOK, NEW a \in Assets, NEW n \in Nat, n <= held[a]
  PROVE  [held EXCEPT ![a] = @ - n] \in [Assets -> Nat]
BY DEF TypeOK

\* The token that is looked up by a symbol of the pair has this symbol.
LEMMA ContractHasSymbol ==
  ASSUME NEW pair, NEW a \in {pair.left, pair.right}
  PROVE  /\ get_token_contract(pair, SymbolOf[a]) \in {pair.left, pair.right}
         /\ SymbolOf[get_token_contract(pair, SymbolOf[a])] = SymbolOf[a]
BY DEF get_token_contract

\* The orders and the balance before and after a step that may change one order and the
\* balance of one token.
OneOrder(i, a) ==
  /\ \A j \in (1 .. MaxOrders) \ {i} :
       /\ j \in DOMAIN orders' <=> j \in DOMAIN orders
       /\ j \in DOMAIN orders => orders'[j] = orders[j]
  /\ \A b \in Assets \ {a} : held'[b] = held[b]

\* The sums of the ledger are sums of integers.
SumsTyped ==
  \A s \in Symbols :
    HeldOf(s) \in [1 .. NumAssets -> Int] /\ OpenOf(s) \in [1 .. MaxOrders -> Int]

LEMMA LedgerSums == TypeOK => SumsTyped
<1> SUFFICES ASSUME TypeOK, NEW s \in Symbols
             PROVE  /\ HeldOf(s) \in [1 .. NumAssets -> Int]
                    /\ OpenOf(s) \in [1 .. MaxOrders -> Int]
  BY DEF SumsTyped
<1>1. HeldOf(s) \in [1 .. NumAssets -> Int]
  BY ConstTypes DEF HeldOf, TypeOK
<1>2. ASSUME NEW i \in 1 .. MaxOrders PROVE OpenOf(s)[i] \in Int
  BY DEF OpenOf, TypeOK, IsTable, OrderRow
<1>3. OpenOf(s) = [i \in 1 .. MaxOrders |-> OpenOf(s)[i]]
  BY DEF OpenOf
<1> QED BY <1>1, <1>2, <1>3

\* Both sums of the ledger move by what these two weigh.
LEMMA MoveLedger ==
  ASSUME TypeOK, TypeOK', NEW i \in 1 .. MaxOrders, NEW a \in Assets, OneOrder(i, a),
         NEW s \in Symbols
  PROVE  /\ SumTo(HeldOf(s)', NumAssets)
              = SumTo(HeldOf(s), NumAssets)
                  + (IF SymbolOf[a] = s THEN held'[a] - held[a] ELSE 0)
         /\ SumTo(OpenOf(s)', MaxOrders)
              = SumTo(OpenOf(s), MaxOrders) - OpenOf(s)[i] + OpenOf(s)'[i]
<1> DEFINE w == HeldOf(s)
           u == HeldOf(s)'
           v == OpenOf(s)
           x == OpenOf(s)'
<1>0. SumsTyped /\ SumsTyped'
  BY LedgerSums, PTL
<1>1. w \in [1 .. NumAssets -> Int] /\ v \in [1 .. MaxOrders -> Int]
  BY <1>0 DEF SumsTyped
<1>2. u \in [1 .. NumAssets -> Int] /\ x \in [1 .. MaxOrders -> Int]
  BY <1>0 DEF SumsTyped
<1>3. \A b \in 1 .. NumAssets : b # a => u[b] = w[b]
  BY ConstTypes DEF HeldOf, OneOrder
<1>4. \A j \in 1 .. MaxOrders : j # i => x[j] = v[j]
  BY DEF OpenOf, OneOrder
<1>5. /\ w[a] = IF SymbolOf[a] = s THEN held[a] ELSE 0
      /\ u[a] = IF SymbolOf[a] = s THEN held'[a] ELSE 0
  BY DEF HeldOf
<1>6. held[a] \in Int /\ held'[a] \in Int
  BY DEF TypeOK
<1>7. a \in 1 .. NumAssets /\ NumAssets \in Nat /\ MaxOrders \in Nat
  BY ConstTypes
<1> HIDE DEF w, u, v, x
<1>8. SumTo(u, NumAssets) = SumTo(w, NumAssets) - w[a] + u[a]
  BY <1>1, <1>2, <1>3, <1>7, SumOneRow
<1>9. SumTo(x, MaxOrders) = SumTo(v, MaxOrders) - v[i] + x[i]
  BY <1>1, <1>2, <1>4, <1>7, SumOneRow
<1>10. SumTo(w, NumAssets) \in Int
  BY <1>1, <1>7, SumType
<1>11. SumTo(u, NumAssets)
         = SumTo(w, NumAssets) + (IF SymbolOf[a] = s THEN held'[a] - held[a] ELSE 0)
  BY <1>5, <1>6, <1>8, <1>10
<1> QED BY <1>9, <1>11 DEF w, u, v, x

-------------------------------------------------------------------------------
(* Types. *)

\* An order is opened for a deposit, or settled from the balance of a token.
Opened(id, a, order) ==
  /\ order \in OrderRow /\ id \in 1 .. MaxOrders /\ id \notin DOMAIN orders
  /\ order.quant.symbol = SymbolOf[a]
  /\ orders' = Put(orders, id, order)
  /\ held' = [held EXCEPT ![a] = @ + order.quant.amount]
  /\ settled' = settled

Settled(id, a, paid) ==
  /\ id \in DOMAIN orders /\ id \in 1 .. MaxOrders
  /\ paid <= held[a]
  /\ orders' = Drop(orders, {id})
  /\ held' = [held EXCEPT ![a] = @ - paid]
  /\ settled' = [s \in Symbols |->
       settled[s] + (IF s = orders[id].quant.symbol THEN orders[id].quant.amount ELSE 0)
                  - (IF s = SymbolOf[a] THEN paid ELSE 0)]

Effect ==
  \/ \E id \in 1 .. MaxOrders, a \in Assets, order \in OrderRow : Opened(id, a, order)
  \/ \E id \in 1 .. MaxOrders, a \in Assets, paid \in Nat : Settled(id, a, paid)
  \/ UNCHANGED <<orders, held, settled>>

\* The global singleton and the pairs.
Administration == gstate \in GlobalRow /\ IsTable(pairs, TpCodes, PairRow)

\* An order on a pair, by the row of the pair.
LEMMA PairSides ==
  ASSUME TypeOK, NEW p \in DOMAIN pairs, NEW t \in Types
  PROVE  /\ pairs[p] \in PairRow
         /\ SideOf(pairs[p], t) \in {pairs[p].left, pairs[p].right}
         /\ OtherOf(pairs[p], t) \in {pairs[p].left, pairs[p].right}
         /\ pairs[p].left \in Assets /\ pairs[p].right \in Assets
BY DEF TypeOK, IsTable, PairRow, SideOf, OtherOf

\* Opening an order.
LEMMA DepositEffect ==
  ASSUME TypeOK, NEW f \in Accounts, NEW a \in Assets, NEW p \in TpCodes, NEW t \in Types,
         NEW n \in Amounts, Deposit(f, a, p, t, n)
  PROVE  Effect /\ Administration'
<1> DEFINE id == gstate.last_order_id + 1
           order == [owner |-> f, tpcode |-> p, type |-> t,
                     quant |-> [symbol |-> SymbolOf[a], amount |-> n]]
<1>1. id \in 1 .. MaxOrders /\ id \notin DOMAIN orders /\ id \in Nat
  BY DEF Deposit, FreeId, TypeOK, GlobalRow
<1>2. order \in OrderRow
  BY ConstTypes DEF OrderRow
<1>3. Opened(id, a, order)
  BY <1>1, <1>2 DEF Deposit, Opened
<1>4. gstate' = [gstate EXCEPT !.last_order_id = id] /\ pairs' = pairs
  BY DEF Deposit
<1>5. Administration'
  BY <1>1, <1>4 DEF Administration, TypeOK, GlobalRow
<1> QED BY <1>1, <1>2, <1>3, <1>5 DEF Effect

\* Filling an order.
LEMMA FinishEffect ==
  ASSUME TypeOK, NEW id \in 1 .. MaxOrders, NEW d \in Amounts, NEW f \in Amounts,
         FinishOrder(id, d, f)
  PROVE  Effect /\ Administration'
<1> DEFINE order == orders[id]
           pair  == pairs[order.tpcode]
           other == OtherOf(pair, order.type)
           asset == get_token_contract(pair, SymbolOf[other])
<1>1. id \in DOMAIN orders /\ order \in OrderRow /\ order.tpcode \in DOMAIN pairs
  BY DEF FinishOrder, Enabled, TypeOK, IsTable
<1>2. order.type \in Types
  BY <1>1 DEF OrderRow
<1>3. other \in {pair.left, pair.right} /\ pair.left \in Assets /\ pair.right \in Assets
  BY <1>1, <1>2, PairSides
<1>4. asset \in Assets /\ SymbolOf[asset] = SymbolOf[other]
  BY <1>3, ContractHasSymbol
<1>5. d + f \in Nat
  BY ConstTypes
<1>6. Settled(id, asset, d + f)
  BY <1>1, <1>4 DEF FinishOrder, Settled
<1>7. Administration'
  BY DEF Administration, FinishOrder, TypeOK
<1> QED BY <1>4, <1>5, <1>6, <1>7 DEF Effect

\* Refunding an order.
LEMMA CancelEffect ==
  ASSUME TypeOK, NEW id \in 1 .. MaxOrders, CancelOrder(id)
  PROVE  Effect /\ Administration'
<1> DEFINE order == orders[id]
           pair  == pairs[order.tpcode]
           side  == SideOf(pair, order.type)
           asset == get_token_contract(pair, order.quant.symbol)
           n     == order.quant.amount
<1>1. /\ id \in DOMAIN orders /\ order \in OrderRow /\ order.tpcode \in DOMAIN pairs
      /\ order.quant.symbol = SymbolOf[side]
  BY DEF CancelOrder, MayRefund, TypeOK, IsTable
<1>2. order.type \in Types /\ n \in Nat
  BY <1>1 DEF OrderRow
<1>3. side \in {pair.left, pair.right} /\ pair.left \in Assets /\ pair.right \in Assets
  BY <1>1, <1>2, PairSides
<1>4. asset \in Assets /\ SymbolOf[asset] = order.quant.symbol
  BY <1>1, <1>3, ContractHasSymbol
<1>5. settled' = [s \in Symbols |->
        settled[s] + (IF s = order.quant.symbol THEN n ELSE 0)
                   - (IF s = SymbolOf[asset] THEN n ELSE 0)]
  <2>1. settled' = settled /\ settled \in [Symbols -> Int]
    BY DEF CancelOrder, TypeOK
  <2>2. \A s \in Symbols : settled[s] \in Int
    BY <2>1
  <2>3. \A s \in Symbols :
          settled[s] = settled[s] + (IF s = order.quant.symbol THEN n ELSE 0)
                                  - (IF s = SymbolOf[asset] THEN n ELSE 0)
    BY <1>2, <1>4, <2>2
  <2> QED BY <2>1, <2>3
<1>6. Settled(id, asset, n)
  BY <1>1, <1>5 DEF CancelOrder, CanTransferOut, Settled
<1>7. Administration'
  BY DEF Administration, CancelOrder, TypeOK
<1> QED BY <1>2, <1>4, <1>6, <1>7 DEF Effect

\* Administration changes no order and no token.
LEMMA AdminEffect ==
  ASSUME TypeOK, AdminStep
  PROVE  Effect /\ Administration'
<1>1. gstate \in GlobalRow /\ IsTable(pairs, TpCodes, PairRow)
  BY DEF TypeOK
<1>2. ASSUME NEW a \in NameInputs, NEW o \in NameInputs, NEW f \in NameInputs,
             NEW n \in OrderIds, SetGlobal(a, o, f, n)
      PROVE  Effect /\ Administration'
  BY <1>1, <1>2, ConstTypes DEF SetGlobal, Effect, Administration, GlobalRow
<1>3. ASSUME NEW a \in NameInputs, SetAdmin(a) \/ SetOracle(a)
      PROVE  Effect /\ Administration'
  BY <1>1, <1>3, ConstTypes DEF SetAdmin, SetOracle, Effect, Administration, GlobalRow
<1>4. ASSUME NEW p \in TpCodes, NEW input \in PairInputs, AddTradPair(p, input)
      PROVE  Effect /\ Administration'
  <2> DEFINE row == [left |-> input.left, right |-> input.right,
                     mini_left |-> input.mini_left, mini_right |-> input.mini_right,
                     status |-> "enable"]
  <2>1. row \in PairRow
    BY PairInputTypes DEF PairRow
  <2>2. pairs' = Put(pairs, p, row) /\ UNCHANGED <<gstate, orders, held, settled>>
    BY <1>4 DEF AddTradPair
  <2> HIDE DEF row
  <2>3. IsTable(pairs', TpCodes, PairRow)
    BY <1>1, <2>1, <2>2, PutTyped
  <2> QED BY <1>1, <2>2, <2>3 DEF Effect, Administration
<1>5. ASSUME NEW p \in TpCodes, RmTradPair(p)
      PROVE  Effect /\ Administration'
  <2>1. pairs' = Drop(pairs, {p}) /\ UNCHANGED <<gstate, orders, held, settled>>
    BY <1>5 DEF RmTradPair
  <2>2. IsTable(pairs', TpCodes, PairRow)
    BY <1>1, <2>1, DropTyped
  <2> QED BY <1>1, <2>1, <2>2 DEF Effect, Administration
<1>6. ASSUME NEW p \in TpCodes, NEW status \in {"enable", "disable"}, SetPairStatus(p, status)
      PROVE  Effect /\ Administration'
  <2>1. /\ p \in DOMAIN pairs /\ pairs' = [pairs EXCEPT ![p].status = status]
        /\ UNCHANGED <<gstate, orders, held, settled>>
    BY <1>6 DEF SetPairStatus
  <2>2. pairs[p] \in PairRow
    BY <1>1, <2>1 DEF IsTable
  <2> DEFINE row == [pairs[p] EXCEPT !.status = status]
  <2>3. row \in PairRow
    BY <2>2 DEF PairRow
  <2>4. pairs' = [pairs EXCEPT ![p] = row] /\ p \in DOMAIN pairs
    BY <1>1, <2>1 DEF IsTable
  <2> HIDE DEF row
  <2>5. IsTable(pairs', TpCodes, PairRow)
    BY <1>1, <2>3, <2>4, ModifyTyped
  <2> QED BY <1>1, <2>1, <2>5 DEF Effect, Administration
<1> QED BY <1>2, <1>3, <1>4, <1>5, <1>6 DEF AdminStep, DisTradPair, EnabTradPair

\* Every step opens an order, settles one, or leaves orders and tokens alone.
LEMMA StepEffects == TypeOK /\ [Next]_vars => Effect /\ Administration'
<1> SUFFICES ASSUME TypeOK, [Next]_vars PROVE Effect /\ Administration'
  OBVIOUS
<1>1. CASE AdminStep
  BY <1>1, AdminEffect
<1>2. CASE OrderStep
  BY <1>2, DepositEffect, FinishEffect, CancelEffect DEF OrderStep
<1>3. CASE UNCHANGED vars
  BY <1>3 DEF vars, Effect, Administration, TypeOK
<1> QED BY <1>1, <1>2, <1>3 DEF Next

\* The types hold after every step.
LEMMA TypeStep == TypeOK /\ [Next]_vars => TypeOK'
<1> SUFFICES ASSUME TypeOK, [Next]_vars PROVE TypeOK'
  OBVIOUS
<1>0. /\ IsTable(orders, 1 .. MaxOrders, OrderRow)
      /\ held \in [Assets -> Nat] /\ settled \in [Symbols -> Int]
  BY DEF TypeOK
<1>1. Effect /\ Administration'
  BY StepEffects
<1>2. ASSUME NEW id \in 1 .. MaxOrders, NEW a \in Assets, NEW order \in OrderRow,
             Opened(id, a, order)
      PROVE  TypeOK'
  <2>1. IsTable(orders', 1 .. MaxOrders, OrderRow)
    BY <1>0, <1>2, PutTyped DEF Opened
  <2>2. held' \in [Assets -> Nat]
    BY <1>0, <1>2 DEF Opened, OrderRow
  <2> QED BY <1>0, <1>1, <1>2, <2>1, <2>2 DEF TypeOK, Administration, Opened
<1>3. ASSUME NEW id \in 1 .. MaxOrders, NEW a \in Assets, NEW paid \in Nat,
             Settled(id, a, paid)
      PROVE  TypeOK'
  <2>1. IsTable(orders', 1 .. MaxOrders, OrderRow)
    BY <1>0, <1>3, DropTyped DEF Settled
  <2>2. held' \in [Assets -> Nat]
    BY <1>3, TokenAmounts DEF Settled
  <2>3. orders[id].quant.amount \in Int
    BY <1>0, <1>3 DEF Settled, IsTable, OrderRow
  <2>4. settled' \in [Symbols -> Int]
    BY <1>0, <1>3, <2>3 DEF Settled
  <2> QED BY <1>1, <2>1, <2>2, <2>4 DEF TypeOK, Administration
<1>4. CASE UNCHANGED <<orders, held, settled>>
  BY <1>1, <1>4 DEF TypeOK, Administration
<1> QED BY <1>1, <1>2, <1>3, <1>4 DEF Effect

-------------------------------------------------------------------------------
(* The ledger. *)

\* Opening an order adds its deposit to what the orders of the symbol say, and to the
\* tokens of the symbol.
LEMMA OpenedLedger ==
  ASSUME TypeOK, TypeOK', LedgerBySymbol, NEW id \in 1 .. MaxOrders, NEW a \in Assets,
         NEW order \in OrderRow, Opened(id, a, order)
  PROVE  LedgerBySymbol'
<1> SUFFICES ASSUME NEW s \in Symbols
             PROVE  SumTo(HeldOf(s)', NumAssets) = SumTo(OpenOf(s)', MaxOrders) + settled'[s]
  BY DEF LedgerBySymbol
<1> DEFINE n == IF SymbolOf[a] = s THEN order.quant.amount ELSE 0
           tokens == SumTo(HeldOf(s), NumAssets)
           open   == SumTo(OpenOf(s), MaxOrders)
<1>1. OneOrder(id, a)
  BY DEF OneOrder, Opened, Put, TypeOK
<1>2. order.quant.amount \in Nat /\ held[a] \in Nat /\ settled[s] \in Int
  BY DEF OrderRow, TypeOK
<1>3. held'[a] = held[a] + order.quant.amount /\ settled' = settled
  BY DEF Opened, TypeOK
<1>4. OpenOf(s)[id] = 0 /\ OpenOf(s)'[id] = n
  BY DEF OpenOf, Opened, Put
<1>5. SumTo(HeldOf(s)', NumAssets) = tokens + n
  BY <1>1, <1>2, <1>3, MoveLedger
<1>6. SumTo(OpenOf(s)', MaxOrders) = open - OpenOf(s)[id] + OpenOf(s)'[id]
  BY <1>1, MoveLedger
<1>7. tokens = open + settled[s]
  BY DEF LedgerBySymbol
<1>8. tokens \in Int /\ open \in Int
  BY LedgerSums, ConstTypes, SumType DEF SumsTyped
<1> HIDE DEF tokens, open
<1> QED BY <1>2, <1>3, <1>4, <1>5, <1>6, <1>7, <1>8

\* Settling an order moves its deposit to what filled orders left, and takes from there
\* what was paid.
LEMMA SettledLedger ==
  ASSUME TypeOK, TypeOK', LedgerBySymbol, NEW id \in 1 .. MaxOrders, NEW a \in Assets,
         NEW paid \in Nat, Settled(id, a, paid)
  PROVE  LedgerBySymbol'
<1> SUFFICES ASSUME NEW s \in Symbols
             PROVE  SumTo(HeldOf(s)', NumAssets) = SumTo(OpenOf(s)', MaxOrders) + settled'[s]
  BY DEF LedgerBySymbol
<1> DEFINE n == IF s = orders[id].quant.symbol THEN orders[id].quant.amount ELSE 0
           m == IF s = SymbolOf[a] THEN paid ELSE 0
           tokens == SumTo(HeldOf(s), NumAssets)
           open   == SumTo(OpenOf(s), MaxOrders)
<1>1. OneOrder(id, a)
  BY DEF OneOrder, Settled, Drop, TypeOK
<1>2. n \in Int /\ m \in Int /\ held[a] \in Nat /\ settled[s] \in Int
  BY DEF OrderRow, TypeOK, Settled, IsTable
<1>3. held'[a] = held[a] - paid /\ settled'[s] = settled[s] + n - m
  BY DEF Settled, TypeOK
<1>4. OpenOf(s)[id] = n /\ OpenOf(s)'[id] = 0
  BY DEF OpenOf, Settled, Drop
<1>5. SumTo(HeldOf(s)', NumAssets) = tokens + (IF SymbolOf[a] = s THEN held'[a] - held[a] ELSE 0)
  BY <1>1, MoveLedger
<1>6. SumTo(OpenOf(s)', MaxOrders) = open - OpenOf(s)[id] + OpenOf(s)'[id]
  BY <1>1, MoveLedger
<1>7. tokens = open + settled[s]
  BY DEF LedgerBySymbol
<1>8. tokens \in Int /\ open \in Int
  BY LedgerSums, ConstTypes, SumType DEF SumsTyped
<1>9. (IF SymbolOf[a] = s THEN held'[a] - held[a] ELSE 0) = 0 - m
  BY <1>2, <1>3
<1> HIDE DEF tokens, open, n, m
<1> QED BY <1>2, <1>3, <1>4, <1>5, <1>6, <1>7, <1>8, <1>9

\* The inductive invariant.
Inv == TypeOK /\ LedgerBySymbol

LEMMA InvStep == Inv /\ [Next]_vars => Inv'
<1> SUFFICES ASSUME TypeOK, LedgerBySymbol, [Next]_vars PROVE TypeOK' /\ LedgerBySymbol'
  BY DEF Inv
<1>1. TypeOK'
  BY TypeStep
<1>2. CASE UNCHANGED <<orders, held, settled>>
  BY <1>1, <1>2 DEF LedgerBySymbol, HeldOf, OpenOf
<1>3. Effect
  BY StepEffects
<1> QED BY <1>1, <1>2, <1>3, OpenedLedger, SettledLedger DEF Effect

LEMMA InvInit == Init => Inv
<1> SUFFICES ASSUME Init PROVE Inv
  OBVIOUS
<1>1. TypeOK
  BY ProxyswapAssumption DEF Init, TypeOK, GlobalRow, Names, Empty, IsTable
<1>2. ASSUME NEW s \in Symbols
      PROVE  SumTo(HeldOf(s), NumAssets) = SumTo(OpenOf(s), MaxOrders) + settled[s]
  <2> DEFINE w == HeldOf(s)
             v == OpenOf(s)
  <2>1. w \in [1 .. NumAssets -> Int] /\ v \in [1 .. MaxOrders -> Int]
    BY <1>1, LedgerSums DEF SumsTyped
  <2>2. \A a \in 1 .. NumAssets : w[a] = 0
    BY ConstTypes DEF HeldOf, Init
  <2>3. \A i \in 1 .. MaxOrders : v[i] = 0
    BY DEF OpenOf, Init, Empty
  <2>4. NumAssets \in Nat /\ MaxOrders \in Nat /\ settled[s] = 0
    BY ConstTypes DEF Init
  <2> HIDE DEF w, v
  <2>5. SumTo(w, NumAssets) = 0 /\ SumTo(v, MaxOrders) = 0
    BY <2>1, <2>2, <2>3, <2>4, SumOfZeros
  <2> QED BY <2>4, <2>5 DEF w, v
<1> QED BY <1>1, <1>2 DEF Inv, LedgerBySymbol

\* The invariant holds always.
LEMMA InvHolds == Spec => []Inv
BY InvInit, InvStep, PTL DEF Spec

-------------------------------------------------------------------------------
(* The theorems. *)

\* Every row of every table keeps its type; in particular no token is overdrawn and
\* no order is for nothing.
THEOREM ProxyswapTypeCorrect == Spec => []TypeOK
BY InvHolds, PTL DEF Inv

\* Symbol by symbol, the tokens are the deposits of open orders and what filled ones left.
THEOREM ProxyswapLedger == Spec => []LedgerBySymbol
BY InvHolds, PTL DEF Inv

\* No open order is ever rewritten, whatever init makes of the counter.
THEOREM ProxyswapOrdersAreFixed == Spec => OrdersAreFixed
<1>1. TypeOK /\ [Next]_vars =>
        [\A id \in DOMAIN orders \cap DOMAIN orders' : orders'[id] = orders[id]]_vars
  <2> SUFFICES ASSUME TypeOK, [Next]_vars, NEW id \in DOMAIN orders \cap DOMAIN orders'
               PROVE  orders'[id] = orders[id]
    OBVIOUS
  <2>1. Effect
    BY StepEffects
  <2>2. ASSUME NEW i \in 1 .. MaxOrders, NEW a \in Assets, NEW order \in OrderRow,
               Opened(i, a, order)
        PROVE  orders'[id] = orders[id]
    BY <2>2 DEF Opened, Put
  <2>3. ASSUME NEW i \in 1 .. MaxOrders, NEW a \in Assets, NEW paid \in Nat,
               Settled(i, a, paid)
        PROVE  orders'[id] = orders[id]
    BY <2>3 DEF Settled, Drop
  <2> QED BY <2>1, <2>2, <2>3 DEF Effect
<1> QED BY <1>1, ProxyswapTypeCorrect, PTL DEF Spec, OrdersAreFixed

\* Where a symbol belongs to one token only, and fills have not paid out more of it than
\* the filled orders brought in, the deposit of every open order is there to be refunded.
RefundsCovered ==
  \A id \in DOMAIN orders, a \in Assets :
    /\ SymbolOf[a] = orders[id].quant.symbol
    /\ \A b \in Assets \ {a} : SymbolOf[b] # SymbolOf[a]
    /\ settled[SymbolOf[a]] >= 0
    => orders[id].quant.amount <= held[a]

\* So cancelorder can only be short of tokens after fills at a loss, or when the deposit
\* came in another token of the symbol.
THEOREM ProxyswapRefundsCovered == Spec => []RefundsCovered
<1>1. Inv => RefundsCovered
  <2> SUFFICES ASSUME TypeOK, LedgerBySymbol, NEW id \in DOMAIN orders, NEW a \in Assets,
                      SymbolOf[a] = orders[id].quant.symbol,
                      \A b \in Assets \ {a} : SymbolOf[b] # SymbolOf[a],
                      settled[SymbolOf[a]] >= 0
               PROVE  orders[id].quant.amount <= held[a]
    BY DEF Inv, RefundsCovered
  <2> DEFINE s == SymbolOf[a]
             w == HeldOf(s)
             v == OpenOf(s)
  <2>1. s \in Symbols /\ a \in 1 .. NumAssets /\ NumAssets \in Nat /\ MaxOrders \in Nat
    BY ConstTypes
  <2>2. w \in [1 .. NumAssets -> Int] /\ v \in [1 .. MaxOrders -> Int]
    BY <2>1, LedgerSums DEF SumsTyped
  <2>3. (\A b \in 1 .. NumAssets : b # a => w[b] = 0) /\ w[a] = held[a]
    BY ConstTypes DEF HeldOf
  <2>4. id \in 1 .. MaxOrders /\ v[id] = orders[id].quant.amount
    BY DEF OpenOf, TypeOK, IsTable
  <2>5. \A i \in 1 .. MaxOrders : v[i] >= 0
    BY DEF OpenOf, TypeOK, IsTable, OrderRow
  <2>6. SumTo(w, NumAssets) = SumTo(v, MaxOrders) + settled[s] /\ settled[s] \in Int
    BY <2>1 DEF LedgerBySymbol, TypeOK
  <2>7. settled[s] >= 0
    OBVIOUS
  <2> HIDE DEF s, w, v
  <2>8. SumTo(w, NumAssets) = w[a]
    BY <2>1, <2>2, <2>3, SumSingle
  <2>9. v[id] <= SumTo(v, MaxOrders) /\ SumTo(v, MaxOrders) \in Int
    BY <2>1, <2>2, <2>4, <2>5, SumBounds, SumType
  <2>10. v[id] \in Int
    BY <2>2, <2>4
  <2> QED BY <2>3, <2>4, <2>6, <2>7, <2>8, <2>9, <2>10
<1> QED BY <1>1, InvHolds, PTL

===============================================================================
