CONSTANTS
  faucet = faucet
  alice = alice
  bob = bob
  nobody = nobody
  Names = {faucet, alice}
  Nobody = nobody
  Genesis = {faucet, alice}
  FaucetName = faucet
  Admins = {alice}
  Grant = 2
  Gas = 1
  DaySeconds = 1
  GasQuants = {1}
  Infos = {1}
  Codes = {"USDT"}
  Budget = 0
  MaxTime = 0
SPECIFICATION Spec
CHECK_DEADLOCK FALSE
PROPERTIES DelTokenErasesIt
