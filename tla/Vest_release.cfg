CONSTANTS
  vest = vest
  alice = alice
  bob = bob
  flon = flon
  usdt = usdt
  Accounts = {vest, alice}
  Self = vest
  DefaultReceiver = alice
  Assets = {flon}
  SysAsset = flon
  Fees = {0}
  Intervals = {1}
  Times = {3}
  FirstDays = {0, 1}
  MaxLockDays = 2
  DaySeconds = 1
  MaxAmount = 3
  Int64Max = 15
  MaxPlans = 1
  MaxIssues = 2
  MaxTime = 3
SPECIFICATION FairSpec
CHECK_DEADLOCK FALSE
INVARIANTS TypeOK IssueBalanced PlanLedger Solvent
PROPERTIES ImplementsCustody ReleaseIsFinal VestedIsReleased
