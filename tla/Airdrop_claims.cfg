CONSTANTS
  airdrop = airdrop
  alice = alice
  flon = flon
  usdt = usdt
  Accounts = {airdrop, alice}
  Self = airdrop
  Assets = {flon, usdt}
  Issued = {flon, usdt}
  BankCode <- MCBankCode
  Oracles = {alice}
  Quotas <- MCQuotas
  Windows <- MCWindows
  MaxHeld = 2
  MaxPlans = 2
  MaxTokens = 1
  MaxCount = 3
  MaxTime = 1
SPECIFICATION Spec
SYMMETRY Symmetry
CHECK_DEADLOCK FALSE
INVARIANTS TypeOK QuotaIsKept
PROPERTIES EveryTokenIsPaid ClaimsStayCounted
