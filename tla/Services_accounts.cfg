CONSTANTS
  faucet = faucet
  alice = alice
  bob = bob
  nobody = nobody
  Names = {faucet, alice, bob}
  Nobody = nobody
  Genesis = {faucet}
  FaucetName = faucet
  Admins = {alice}
  Grant = 2
  Gas = 1
  DaySeconds = 1
  GasQuants = {0, 1}
  Infos = {1, 2}
  Codes = {"USDT"}
  Budget = 7
  MaxTime = 4
SPECIFICATION Spec
CHECK_DEADLOCK FALSE
INVARIANTS TypeOK OneGrantADay EveryAccountHasGas
PROPERTIES ProfilesAreKept
