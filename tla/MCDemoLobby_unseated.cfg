SPECIFICATION Spec
CONSTANTS
  g1 = g1
  g2 = g2
  p1 = p1
  p2 = p2
  p3 = p3
  c1 = c1
  c2 = c2
  Key = Key
  NoGame = NoGame
  BuyIn = 1
  MaxPlayers = 2
  MinPlayers = 1
  MaxHumans = 2
  MinHumans = 1
  RpcFails = FALSE
  Games <- OneGame
  Joinable <- OneGame
  Players <- TwoWallets
  Conns <- TwoConns
INVARIANTS
  EscrowedIsStartPool
\* The players may leave a lobby alone for good.
CHECK_DEADLOCK FALSE
