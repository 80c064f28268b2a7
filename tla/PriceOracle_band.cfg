CONSTANTS
  btc = btc
  eth = eth
  oracle = oracle
  Coins = {btc, eth}
  Accounts = {oracle}
  Amounts <- MCAmounts
  Int64Max = 127
  MaxInfos = 2
  MaxId = 4
SPECIFICATION Spec
CHECK_DEADLOCK FALSE
INVARIANTS TypeOK RowIsLatest
PROPERTIES BandTraps IdsTellRowsApart
