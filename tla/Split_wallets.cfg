CONSTANTS
  flon = flon
  usdt = usdt
  NumAccounts = 3
  Self = 1
  Assets = {flon, usdt}
  PCT_BOOST = 2
  Word = 32
  MaxAmount = 3
  Batch = 1
  Limits = {2}
  Quantities = {1, 3}
  MaxPlans = 1
  MaxConf = 2
SPECIFICATION FairSpec
CHECK_DEADLOCK FALSE
INVARIANTS TypeOK Solvent WalletsClaimable
PROPERTIES ImplementsCustody WalletIsPaid
