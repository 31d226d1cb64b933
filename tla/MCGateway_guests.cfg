SPECIFICATION Spec
CONSTANTS
  c1 = c1
  c2 = c2
  c3 = c3
  NoConn = NoConn
  Conns <- ThreeConns
  Guests <- ThreeConns
  Queuers <- OneConn
  RoomIds <- SixRooms
  Spare = 2
  MaxCalls = 2
  TableSize = 4
  MinHumans = 1
  MaxHumans = 3
  MaxGames = 1
INVARIANTS
  TypeOK
  LobbyWithinCap
  NoGhosts
  VoiceIsOwn
PROPERTIES
  TablesAreFull
  GuestsPlay
\* The sockets may all fall silent.
CHECK_DEADLOCK FALSE
