CONSTANTS
  redpack = redpack
  alice = alice
  bob = bob
  carol = carol
  flon = flon
  usdt = usdt
  Accounts = {redpack, alice, bob, carol}
  Self = redpack
  Assets = {flon}
  DidAssets = {}
  MinUnit <- MCMinUnit
  Counts = {3}
  Hours = {1}
  Quantities = {150, 350}
  IdInputs = {0}
  NumCodes = 2
  MaxPacks = 2
  MaxClaims = 4
  MaxTime = 2
SPECIFICATION Spec
CHECK_DEADLOCK FALSE
INVARIANTS ShareFloor NextShareExists FinishedIsEmpty ClaimsAccounted
PROPERTIES ImplementsCustody
