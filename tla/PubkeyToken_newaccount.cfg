CONSTANTS
  k1 = k1
  miner = miner
  alice = alice
  Keys = {k1}
  Names = {miner, alice}
  Genesis = {miner}
  Quantities = {1, 2}
  Gas = 3
  miner_fee = 1
  Funding = 3
  MaxHeld = 6
  MaxTime = 1
SPECIFICATION FairSpec
CHECK_DEADLOCK FALSE
PROPERTIES DepositOpensAccount
