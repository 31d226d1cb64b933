SPECIFICATION Spec
CONSTANTS
  g1 = g1
  g2 = g2
  p1 = p1
  p2 = p2
  p3 = p3
  k1 = k1
  Games <- TwoGames
  Players <- ThreeWallets
  Prices = {1, 2}
  Signers <- OneKey
  MaxPlayers = 2
  MinPlayers = 2
  MaxListed = 2
INVARIANTS
  Solvent
  OneDepositPerWallet
  MoneyWithinReach
PROPERTIES
  LifecycleOrder
  VaultSpec
