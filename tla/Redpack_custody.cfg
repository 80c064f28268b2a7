CONSTANTS
  redpack = redpack
  alice = alice
  bob = bob
  carol = carol
  flon = flon
  usdt = usdt
  Accounts = {redpack, alice, bob}
  Self = redpack
  Assets = {flon, usdt}
  DidAssets = {}
  MinUnit <- MCMinUnit
  Counts = {2}
  Hours = {1, 2}
  Quantities = {200}
  IdInputs = {0, 1}
  NumCodes = 2
  MaxPacks = 2
  MaxClaims = 1
  MaxTime = 2
SPECIFICATION FairSpec
CHECK_DEADLOCK FALSE
INVARIANTS TypeOK Solvent
PROPERTIES ExpiredIsCancelled
