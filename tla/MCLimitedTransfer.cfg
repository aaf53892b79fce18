SPECIFICATION Spec
CONSTANTS
  admin = admin
  alice = alice
  bob = bob
  Account = {admin, alice, bob}
  Deployer = admin
  NoAddress = NoAddress
  TokenId = {0, 1}
  Amount = {1}
  MaxSupply = 2
  MaxChanges = 2
SYMMETRY Symmetry
PROPERTIES LimitedTransfersRetire
CHECK_DEADLOCK FALSE
