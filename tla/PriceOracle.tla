------------------------------ MODULE PriceOracle ------------------------------
(***************************************************************************)
(* price.oracle: oracles write the prices of coins.  The last price of a   *)
(* coin is kept twice: in a map of the global singleton, as uint64_t, and  *)
(* in the one row of a table of its own.  A new price must lie between     *)
(* half and one and a half of the last one, in rounded arithmetic.         *)
(***************************************************************************)
EXTENDS Tables, Sequences

CONSTANTS
  Coins,      \* base coins
  Accounts,   \* accounts that may be oracles
  Amounts,    \* the amounts of the prices that are sent
  Int64Max,   \* the largest int64_t
  MaxInfos,   \* bound on the prices in one call
  MaxId       \* bound on the ids of price rows

ASSUME PriceAssumption ==
  /\ Int64Max \in Nat \ {0}
  /\ Amounts \subseteq (-Int64Max - 1)..Int64Max
  /\ MaxInfos \in Nat \ {0} /\ MaxId \in Nat

VARIABLES
  oracles,    \* table oracles
  prices,     \* of the global singleton: coin to price, 0 until there is one
  rows        \* table prices, whose scope is the coin: its only row, if any

vars == <<oracles, prices, rows>>

Word    == 2 * (Int64Max + 1)
Word64  == 0..Word - 1
Int64   == (-Int64Max - 1)..Int64Max
InfoRow == [coin : Coins, price : Amounts]   \* what is said of other quotes aborts
Row     == [id : Nat \ {0}, price : Int64]

Init == oracles = {} /\ prices = Empty /\ rows = Empty

AddOracle(oracle) ==
  /\ oracle \notin oracles
  /\ oracles' = oracles \cup {oracle}
  /\ UNCHANGED <<prices, rows>>

RemoveOracle(oracle) ==
  /\ oracle \in oracles
  /\ oracles' = oracles \ {oracle}
  /\ UNCHANGED <<prices, rows>>

AddCoin(coin) ==
  /\ coin \notin DOMAIN prices
  /\ prices' = Put(prices, coin, 0)
  /\ UNCHANGED <<oracles, rows>>

\* The row stays, and its id counts on when the coin is added again.
RemoveCoin(coin) ==
  /\ coin \in DOMAIN prices
  /\ prices' = Drop(prices, {coin})
  /\ UNCHANGED <<oracles, rows>>

-------------------------------------------------------------------------------
(* updateprice *)

\* multiply_decimal64, and the int64_t check it makes on ten times the result.
multiply_decimal64(a, b, precision) == ((10 * a * b) \div precision + 5) \div 10
MultiplyFits(a, b, precision) == (10 * a * b) \div precision <= Int64Max

\* A mistake: the lower limit counts as inside.
InBand_Closed(old_price, amount) ==
  /\ MultiplyFits(old_price, 15, 10)
  /\ amount >= multiply_decimal64(old_price, 5, 10)
  /\ amount < multiply_decimal64(old_price, 15, 10)

InBand(old_price, amount) ==
  /\ MultiplyFits(old_price, 15, 10)
  /\ amount > multiply_decimal64(old_price, 5, 10)
  /\ amount < multiply_decimal64(old_price, 15, 10)

\* A mistake: the map is taken for one of int64_t.
Stored_Signed(amount) == amount

\* An int64_t assigned to an uint64_t.
Stored(amount) == amount % Word

\* A mistake: every row is the first.
NextRow_First(old, coin, amount) == [id |-> 1, price |-> amount]

\* The row is erased, and the next one takes the next id.
NextRow(old, coin, amount) ==
  [id |-> IF coin \in DOMAIN old THEN old[coin].id + 1 ELSE 1, price |-> amount]

\* A mistake: what the map says is not replaced once it says something.
Mapped_Once(old, coin, amount) ==
  IF old[coin] = 0 THEN Put(old, coin, Stored(amount)) ELSE old

Mapped(old, coin, amount) == Put(old, coin, Stored(amount))

\* One price of the call: `at` holds the two places prices are kept in, and whether
\* no check has failed so far.
_updateprice(at, info) ==
  LET old_price == at.prices[info.coin] IN
  IF /\ at.ok /\ info.coin \in DOMAIN at.prices
     /\ old_price # 0 => InBand(old_price, info.price)
  THEN [ok     |-> TRUE,
        prices |-> Mapped(at.prices, info.coin, info.price),
        rows   |-> Put(at.rows, info.coin, NextRow(at.rows, info.coin, info.price))]
  ELSE [at EXCEPT !.ok = FALSE]

\* The loop over the prices of the call.
Updated(infos) ==
  LET after[k \in 0..Len(infos)] ==
        IF k = 0 THEN [ok |-> TRUE, prices |-> prices, rows |-> rows]
                 ELSE _updateprice(after[k - 1], infos[k])
  IN  after[Len(infos)]

\* A price that is refused takes the whole call with it.
UpdatePrice(oracle, infos) ==
  LET end == Updated(infos) IN
  /\ oracle \in oracles
  /\ infos # <<>>
  /\ end.ok
  /\ prices' = end.prices /\ rows' = end.rows
  /\ UNCHANGED oracles

Next ==
  \/ \E o \in Accounts : AddOracle(o) \/ RemoveOracle(o)
  \/ \E c \in Coins : AddCoin(c) \/ RemoveCoin(c)
  \/ \E o \in Accounts, n \in 1..MaxInfos : \E infos \in [1..n -> InfoRow] :
       /\ \A c \in DOMAIN rows : rows[c].id + n <= MaxId
       /\ UpdatePrice(o, infos)

Spec == Init /\ [][Next]_vars

-------------------------------------------------------------------------------
(* Properties. *)

\* The map and the rows hold what the C++ types hold.
TypeOK ==
  /\ oracles \subseteq Accounts
  /\ IsTable(prices, Coins, Word64) /\ IsTable(rows, Coins, Row)

\* The map and the table tell the same price, also after a call that names a coin twice,
\* and after a coin was removed and added again.
RowIsLatest ==
  \A c \in DOMAIN prices :
    prices[c] # 0 => c \in DOMAIN rows /\ Stored(rows[c].price) = prices[c]

\* Half and one and a half are rounded half up, and both limits are outside.  So 1 and 2
\* can never be left, 3 and more never fall below 3, and what is above a fifteenth of
\* int64_t (a negative first price is, in the map) is never changed.  Only removing the
\* coin helps.
BandTraps ==
  [][\A c \in DOMAIN prices \cap DOMAIN prices' :
       /\ prices[c] \in {1, 2} => prices'[c] = prices[c]
       /\ prices[c] > 2 => prices'[c] > 2
       /\ 15 * prices[c] > Int64Max => prices'[c] = prices[c]]_vars

\* Whoever remembers the id of a row it has read sees by it whether there is another
\* price: a row is never changed in place, and no id comes back.
IdsTellRowsApart ==
  [][\A c \in DOMAIN rows :
       c \in DOMAIN rows' /\ (rows'[c] # rows[c] => rows'[c].id > rows[c].id)]_vars

===============================================================================
