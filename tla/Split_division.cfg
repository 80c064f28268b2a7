CONSTANTS
  flon = flon
  usdt = usdt
  NumAccounts = 3
  Self = 1
  Assets = {flon}
  PCT_BOOST = 5
  Word = 32
  MaxAmount = 11
  Batch = 2
  Limits = {1, 3}
  Quantities = {}
  MaxPlans = 1
  MaxConf = 3
SPECIFICATION Spec
CHECK_DEADLOCK FALSE
INVARIANTS DividesExactly
