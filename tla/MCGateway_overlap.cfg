SPECIFICATION Spec
CONSTANTS
  c1 = c1
  c2 = c2
  c3 = c3
  NoConn = NoConn
  Conns <- ThreeConns
  Guests <- Nobody
  Queuers <- ThreeConns
  RoomIds <- SixRooms
  Spare = 2
  MaxCalls = 2
  TableSize = 4
  MinHumans = 2
  MaxHumans = 3
  MaxGames = 1
PROPERTIES
  QueueSeatsHumans
\* The sockets may all fall silent.
CHECK_DEADLOCK FALSE
