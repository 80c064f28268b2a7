------------------------------- MODULE Proxyswap -------------------------------
(***************************************************************************)
(* flon.proxyswap: a deposit opens an order on a trading pair; the oracle  *)
(* fills it with the other token of the pair, in an amount it names, or    *)
(* cancels it and the deposit goes back.  An order remembers the symbol of *)
(* its deposit but not the contract that issued it: payouts are made in    *)
(* whatever the pair lists at the time.                                    *)
(*                                                                         *)
(* Inputs that are only checked and stored (prices, slippage, memos) are   *)
(* left out: the steps are those of the orders that pass these checks.     *)
(***************************************************************************)
EXTENDS Tables, Sums

CONSTANTS
  Accounts,    \* the accounts that exist on the chain
  Nobody,      \* a name without an account: it signs nothing and cannot be paid
  Self,        \* flon.proxyswap
  NumAssets,   \* the number of tokens; a token is 1..NumAssets
  SymbolOf,    \* for each token, its symbol: two contracts may use the same one
  TpCodes,     \* names of trading pairs
  PairInputs,  \* the arguments of addtradpair
  NameInputs,  \* names given to init, setadmin and setoracle
  OrderIds,    \* order ids given to init
  MaxAmount,   \* bound on amounts
  MaxHeld,     \* bound on the balance of a token
  MaxOrders    \* bound on order ids

Assets  == 1 .. NumAssets
Amounts == 1 .. MaxAmount
Symbols == {SymbolOf[a] : a \in Assets}
Names   == Accounts \cup {Nobody}

Quant == [symbol : Symbols, amount : Nat]
Types == {"buy", "sell"}

ASSUME ProxyswapAssumption ==
  /\ Self \in Accounts /\ Nobody \notin Accounts
  /\ NumAssets \in Nat /\ MaxAmount \in Nat /\ MaxOrders \in Nat /\ MaxHeld \in Nat
  /\ PairInputs \subseteq [left : Assets, right : Assets, mini_left : Quant, mini_right : Quant]
  /\ NameInputs \subseteq Names /\ OrderIds \subseteq Nat

VARIABLES
  gstate,   \* the global singleton
  pairs,    \* table pairs, by tpcode
  orders,   \* table orders, by order_id
  held,     \* what the token contracts say the contract owns, by token
  settled   \* by symbol: deposits of filled orders less what was paid to fill them

vars == <<gstate, pairs, orders, held, settled>>

GlobalRow == [admin : Names, oracle : Names, fee_receiver : Names, last_order_id : Nat]

PairRow == [left : Assets, right : Assets, mini_left : Quant, mini_right : Quant,
            status : {"enable", "disable"}]

\* left_quant of a sell order, right_quant of a buy order is what was deposited.
OrderRow == [owner : Accounts, tpcode : TpCodes, type : Types,
             quant : [symbol : Symbols, amount : Nat \ {0}]]

Init ==
  /\ gstate = [admin |-> Nobody, oracle |-> Nobody, fee_receiver |-> Nobody, last_order_id |-> 0]
  /\ pairs = Empty /\ orders = Empty
  /\ held = [a \in Assets |-> 0]
  /\ settled = [s \in Symbols |-> 0]

-------------------------------------------------------------------------------
(* Administration. *)

\* `init`: also the order counter, to any value.
SetGlobal(admin, oracle, fee_receiver, last_order_id) ==
  /\ gstate' = [admin |-> admin, oracle |-> oracle, fee_receiver |-> fee_receiver,
                last_order_id |-> last_order_id]
  /\ UNCHANGED <<pairs, orders, held, settled>>

HasAdmin == gstate.admin \in Accounts

SetAdmin(new_admin) ==
  /\ HasAdmin
  /\ gstate' = [gstate EXCEPT !.admin = new_admin]
  /\ UNCHANGED <<pairs, orders, held, settled>>

SetOracle(new_oracle) ==
  /\ HasAdmin
  /\ gstate' = [gstate EXCEPT !.oracle = new_oracle]
  /\ UNCHANGED <<pairs, orders, held, settled>>

AddTradPair(tpcode, pair) ==
  /\ HasAdmin
  /\ tpcode \notin DOMAIN pairs
  /\ pair.mini_left.amount > 0 /\ pair.mini_right.amount > 0
  /\ pair.left # pair.right
  /\ pairs' = Put(pairs, tpcode,
                  [left |-> pair.left, right |-> pair.right,
                   mini_left |-> pair.mini_left, mini_right |-> pair.mini_right,
                   status |-> "enable"])
  /\ UNCHANGED <<gstate, orders, held, settled>>

\* Open orders of the pair are not looked at.
RmTradPair(tpcode) ==
  /\ HasAdmin /\ tpcode \in DOMAIN pairs
  /\ pairs' = Drop(pairs, {tpcode})
  /\ UNCHANGED <<gstate, orders, held, settled>>

SetPairStatus(tpcode, status) ==
  /\ HasAdmin /\ tpcode \in DOMAIN pairs
  /\ pairs[tpcode].status # status
  /\ pairs' = [pairs EXCEPT ![tpcode].status = status]
  /\ UNCHANGED <<gstate, orders, held, settled>>

DisTradPair(tpcode)  == SetPairStatus(tpcode, "disable")
EnabTradPair(tpcode) == SetPairStatus(tpcode, "enable")

-------------------------------------------------------------------------------
(* Orders. *)

\* The token an order of this type pays with, and the one it is filled with.
SideOf(pair, type)  == IF type = "buy" THEN pair.right ELSE pair.left
OtherOf(pair, type) == IF type = "buy" THEN pair.left ELSE pair.right
MiniOf(pair, type)  == IF type = "buy" THEN pair.mini_right ELSE pair.mini_left

Enabled(tpcode) == tpcode \in DOMAIN pairs /\ pairs[tpcode].status = "enable"

\* The left token is looked at first.
get_token_contract(pair, symbol) ==
  IF SymbolOf[pair.left] = symbol THEN pair.left ELSE pair.right

\* A mistake: the counter is taken as it is, and the row is written whether or
\* not the id is in use.
FreeId_Trusted(id) == id \in 1 .. MaxOrders

\* emplace aborts on an id in use, and the transaction with it takes the counter
\* back: no order can then be opened before the one in the way is gone.
FreeId(id) == id \in 1 .. MaxOrders /\ id \notin DOMAIN orders

\* on_transfer: the symbol decides, and comparing with a minimum in another
\* symbol aborts.
Deposit(from, asset, tpcode, type, amount) ==
  /\ from # Self
  /\ Enabled(tpcode)
  /\ LET pair  == pairs[tpcode]
         side  == SideOf(pair, type)
         id    == gstate.last_order_id + 1
     IN /\ SymbolOf[asset] = SymbolOf[side]
        /\ MiniOf(pair, type).symbol = SymbolOf[side]
        /\ amount >= MiniOf(pair, type).amount
        /\ FreeId(id)
        /\ gstate' = [gstate EXCEPT !.last_order_id = id]
        /\ orders' = Put(orders, id,
             [owner |-> from, tpcode |-> tpcode, type |-> type,
              quant |-> [symbol |-> SymbolOf[asset], amount |-> amount]])
  /\ held[asset] + amount <= MaxHeld
  /\ held' = [held EXCEPT ![asset] = @ + amount]
  /\ UNCHANGED <<pairs, settled>>

\* A mistake: nobody looks at the balance.
CanTransferOut_Unfunded(to, asset, amount) == to \in Accounts \ {Self} /\ amount > 0

CanTransferOut(to, asset, amount) ==
  to \in Accounts \ {Self} /\ amount > 0 /\ amount <= held[asset]

HasOracle == gstate.oracle \in Accounts

\* The oracle fills an order with deal_quant of the other token of the pair as it
\* is now, and takes a fee of the same token.
FinishOrder(id, deal, fee) ==
  /\ HasOracle
  /\ id \in DOMAIN orders
  /\ Enabled(orders[id].tpcode)
  /\ LET order  == orders[id]
         pair   == pairs[order.tpcode]
         symbol == SymbolOf[OtherOf(pair, order.type)]
         asset  == get_token_contract(pair, symbol)
     IN /\ CanTransferOut(order.owner, asset, deal)
        /\ CanTransferOut(gstate.fee_receiver, asset, fee)
        /\ deal + fee <= held[asset]
        /\ held' = [held EXCEPT ![asset] = @ - (deal + fee)]
        /\ settled' = [s \in Symbols |->
             settled[s] + (IF s = order.quant.symbol THEN order.quant.amount ELSE 0)
                        - (IF s = symbol THEN deal + fee ELSE 0)]
  /\ orders' = Drop(orders, {id})
  /\ UNCHANGED <<gstate, pairs>>

\* Mistakes: a pair that is disabled freezes its orders; or the check of the
\* symbol is left out and the token of the side is sent, whatever it is.
MayRefund_Enabled(order) ==
  /\ Enabled(order.tpcode)
  /\ order.quant.symbol = SymbolOf[SideOf(pairs[order.tpcode], order.type)]
MayRefund_AnySymbol(order) == order.tpcode \in DOMAIN pairs

\* The pair need not be enabled, but the side of the order must have its symbol.
MayRefund(order) ==
  /\ order.tpcode \in DOMAIN pairs
  /\ order.quant.symbol = SymbolOf[SideOf(pairs[order.tpcode], order.type)]

CancelOrder(id) ==
  /\ HasOracle
  /\ id \in DOMAIN orders
  /\ MayRefund(orders[id])
  /\ LET order == orders[id]
         asset == get_token_contract(pairs[order.tpcode], order.quant.symbol)
     IN /\ CanTransferOut(order.owner, asset, order.quant.amount)
        /\ held' = [held EXCEPT ![asset] = @ - order.quant.amount]
  /\ orders' = Drop(orders, {id})
  /\ UNCHANGED <<gstate, pairs, settled>>

-------------------------------------------------------------------------------
AdminStep ==
  \/ \E a, o, f \in NameInputs, n \in OrderIds : SetGlobal(a, o, f, n)
  \/ \E a \in NameInputs : SetAdmin(a) \/ SetOracle(a)
  \/ \E p \in TpCodes, input \in PairInputs : AddTradPair(p, input)
  \/ \E p \in TpCodes : RmTradPair(p) \/ DisTradPair(p) \/ EnabTradPair(p)

OrderStep ==
  \/ \E f \in Accounts, a \in Assets, p \in TpCodes, t \in Types, n \in Amounts :
       Deposit(f, a, p, t, n)
  \/ \E id \in 1 .. MaxOrders, d, f \in Amounts : FinishOrder(id, d, f)
  \/ \E id \in 1 .. MaxOrders : CancelOrder(id)

Next == AdminStep \/ OrderStep

Spec == Init /\ [][Next]_vars

\* The oracle answers every order, by a refund if by nothing else.
FairSpec == Spec /\ \A id \in 1 .. MaxOrders : WF_vars(CancelOrder(id))

-------------------------------------------------------------------------------
(* Properties. *)

\* The rows hold what the C++ types and the checks promise.
TypeOK ==
  /\ gstate \in GlobalRow
  /\ IsTable(pairs, TpCodes, PairRow)
  /\ IsTable(orders, 1 .. MaxOrders, OrderRow)
  /\ held \in [Assets -> Nat]
  /\ settled \in [Symbols -> Int]

OpenOf(s) ==
  [id \in 1 .. MaxOrders |->
    IF id \in DOMAIN orders
    THEN IF orders[id].quant.symbol = s THEN orders[id].quant.amount ELSE 0
    ELSE 0]

HeldOf(s) == [a \in Assets |-> IF SymbolOf[a] = s THEN held[a] ELSE 0]

\* Symbol by symbol, the contract owns the deposits of its open orders plus what
\* the filled ones left: a refund never takes more, nor another symbol, than was
\* deposited, whatever happened to the pair in between.  It can be another token
\* of that symbol: hence the sum.
LedgerBySymbol ==
  \A s \in Symbols :
    SumTo(HeldOf(s), NumAssets) = SumTo(OpenOf(s), MaxOrders) + settled[s]

\* An open order is never rewritten, not even by a deposit that gets its id after
\* init has set the counter back: it stays as it was until it is settled.
OrdersAreFixed ==
  [][\A id \in DOMAIN orders \cap DOMAIN orders' : orders'[id] = orders[id]]_vars

\* What a refund needs from the outside: an oracle, the pair with the symbol of the
\* order where it was, and the money, which the fills of other orders may have taken.
Refundable(id) ==
  /\ id \in DOMAIN orders /\ gstate.oracle \in Accounts
  /\ orders[id].tpcode \in DOMAIN pairs
  /\ LET order == orders[id]
         pair  == pairs[order.tpcode]
         side  == IF order.type = "buy" THEN pair.right ELSE pair.left
     IN /\ SymbolOf[side] = order.quant.symbol
        /\ \A a \in {pair.left, pair.right} :
             SymbolOf[a] = order.quant.symbol => held[a] >= order.quant.amount

\* An open order does not stay for ever unless its pair or the money is gone: that
\* the pair is disabled does not freeze it.
OrderIsSettled == \A id \in 1 .. MaxOrders : id \in DOMAIN orders ~> ~ Refundable(id)

===============================================================================
