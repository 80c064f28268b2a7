CONSTANTS
  vest = vest
  alice = alice
  bob = bob
  flon = flon
  usdt = usdt
  Accounts = {vest, alice}
  Self = vest
  DefaultReceiver = alice
  Assets = {flon, usdt}
  SysAsset = flon
  Fees = {0, 1}
  Intervals = {1}
  Times = {1}
  FirstDays = {0}
  MaxLockDays = 2
  DaySeconds = 1
  MaxAmount = 1
  Int64Max = 100
  MaxPlans = 2
  MaxIssues = 2
  MaxTime = 0
SPECIFICATION Spec
CHECK_DEADLOCK FALSE
INVARIANTS PlansExist Solvent
PROPERTIES ActivationIsPaid
