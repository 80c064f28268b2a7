CONSTANTS
  swap = swap
  alice = alice
  nobody = nobody
  Accounts = {swap, alice}
  Nobody = nobody
  Self = swap
  NumAssets = 3
  SymbolOf <- MCSymbolOf
  TpCodes = {"flonusdt"}
  PairInputs <- MCPairInputs
  NameInputs = {alice, nobody}
  OrderIds = {0, 1}
  MaxAmount = 2
  MaxHeld = 3
  MaxOrders = 2
SPECIFICATION FairSpec
CHECK_DEADLOCK FALSE
INVARIANTS TypeOK LedgerBySymbol
PROPERTIES OrdersAreFixed OrderIsSettled
