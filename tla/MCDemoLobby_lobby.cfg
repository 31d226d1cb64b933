SPECIFICATION Spec
CONSTANTS
  g1 = g1
  g2 = g2
  p1 = p1
  p2 = p2
  p3 = p3
  c1 = c1
  c2 = c2
  Key = Key
  NoGame = NoGame
  BuyIn = 1
  MaxPlayers = 2
  MinPlayers = 1
  MaxHumans = 2
  MinHumans = 1
  RpcFails = TRUE
  Games <- TwoGames
  Joinable <- OneGame
  Players <- ThreeWallets
  Conns <- TwoConns
INVARIANTS
  TypeOK
  SeatedHavePaid
  SeatsDistinct
  TableHasRoom
  NoOverdraft
  CountdownMeansQuorum
PROPERTIES
  RosterFrozen
  LobbyLaunches
  DoorsReopen
\* The players may leave a lobby alone for good.
CHECK_DEADLOCK FALSE
