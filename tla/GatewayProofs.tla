--------------------------- MODULE GatewayProofs ----------------------------
(***************************************************************************)
(* Proofs about the gateway, for any number of connections, rooms and calls: *)
(* the open lobby seats who is there, the tables that route sockets and      *)
(* seats agree, the lobby keeps to the cap and its tables are full.          *)
(***************************************************************************)
EXTENDS Gateway, Facts

Room(r) == [seatConns : {rooms[r].seatConns}, ais : 0..TableSize, by : {"lobby", "queue"}]
Guest == [conn : Conns, seat : 0..MaxHumans]
Call == [step : {"joined", "counted", "forming"}, take : 0..MaxHumans]

(* A socket that is gone has no route. *)
Routes ==
  /\ live \subseteq Conns
  /\ DOMAIN route = Conns
  /\ \A c \in Conns : route[c] \in {NoRoute} \cup RoomIds \X (0..MaxHumans)
  /\ \A c \in Conns \ live : route[c] = NoRoute

Rooms ==
  /\ Running \subseteq RoomIds /\ IsFiniteSet(Running)
  /\ \A r \in Running : rooms[r] \in Room(r)

(* The lobby seats sockets that are there. *)
Lobby ==
  /\ connLobby \subseteq live
  /\ guests \in Seq(Guest)
  /\ timer \in {"none", "armed", "spent"}

Queue ==
  /\ queue \in Seq(Conns)
  /\ calls \in Seq(Call) /\ Len(calls) <= MaxCalls
  /\ reader \in Conns \cup {NoConn}

(* What the gateway keeps. *)
Shape == Routes /\ Rooms /\ Lobby /\ Queue

(* Strengthening of VoiceIsOwn: no two guests will be bound to one seat. *)
SeatsInOrder == \A i \in DOMAIN guests : guests[i].seat = i - 1

(* Strengthening: a lobby that is full is not open any more. *)
LobbyIsOpen == Len(guests) < MaxHumans

FormedByLobby == {r \in Running : rooms[r].by = "lobby"}

(* Strengthening of LobbyWithinCap: whoever is seated has a place in the     *)
(* lobby's share for the game to come.                                       *)
PlaceKept ==
  /\ Cardinality(FormedByLobby) <= MaxGames
  /\ guests # <<>> => Cardinality(FormedByLobby) < MaxGames

(* The inductive invariant. *)
GInv == Shape /\ SeatsInOrder /\ LobbyIsOpen /\ NoGhosts /\ VoiceIsOwn /\ PlaceKept

(* A seating whose seats are numbered from 0 on. *)
Seating(s) ==
  /\ s \in Seq(Guest) /\ Len(s) <= MaxHumans
  /\ \A i \in DOMAIN s : s[i].seat = i - 1

(* What it is to start room r for a seating. *)
Starts(r, seating, ai, by) ==
  /\ \A c \in Conns : route[c][1] # r
  /\ Running' = Running \cup {r}
  /\ \A x \in Running : rooms'[x] = rooms[x]
  /\ rooms'[r] = [seatConns |-> [s \in 0..(Len(seating) - 1) |-> seating[s + 1].conn],
                  ais |-> ai, by |-> by]
  /\ DOMAIN route' = Conns
  /\ \A c \in Conns :
       \/ route'[c] = route[c]
       \/ /\ c \in live
          /\ \E i \in DOMAIN seating :
               seating[i].conn = c /\ route'[c] = <<r, seating[i].seat>>

-----------------------------------------------------------------------------
(* The last of the entries of a sequence that are so, if one is. *)
LEMMA LastIs ==
  ASSUME NEW T, NEW s \in Seq(T), NEW D, D \subseteq DOMAIN s, D # {}
  PROVE  Max(D) \in D /\ \A j \in D : Max(D) >= j
<1>1. Len(s) \in Nat /\ D \subseteq 0..Len(s)
  OBVIOUS
<1> QED
  BY <1>1, MaxIs

(* A room that starts takes an id of its own, binds each seat to the         *)
(* connection of its entry, and routes each connection to one of its seats.  *)
LEMMA RoomStarts ==
  ASSUME Routes, Rooms, NEW seating, Seating(seating), NEW ai, NEW by, StartRoom(seating, ai, by)
  PROVE  \E r \in RoomIds \ Running : Starts(r, seating, ai, by)
<1> DEFINE r == Min(FreshRooms)
           sc == [s \in {seating[i].seat : i \in DOMAIN seating} |->
                    LET last == LastFor(seating, LAMBDA e : e.seat = s)
                    IN  seating[last].conn]
<1>0. /\ seating \in Seq(Guest) /\ Len(seating) \in Nat /\ DOMAIN seating = 1..Len(seating)
      /\ \A i \in DOMAIN seating : seating[i].seat = i - 1
  BY DEF Seating
<1>1. FreshRooms \subseteq Nat /\ FreshRooms # {}
  BY GatewayAssumption DEF FreshRooms, StartRoom
<1>2. r \in FreshRooms
  BY <1>1, MinIs
<1>3. r \in RoomIds \ Running /\ \A c \in Conns : route[c][1] # r
  BY <1>2 DEF FreshRooms
<1>4. /\ rooms' = [x \in Running \cup {r} |->
                     IF x # r THEN rooms[x] ELSE [seatConns |-> sc, ais |-> ai, by |-> by]]
      /\ route' = [c \in Conns |->
           IF c \in live /\ \E i \in DOMAIN seating : seating[i].conn = c
           THEN LET last == LastFor(seating, LAMBDA e : e.conn = c)
                IN  <<r, seating[last].seat>>
           ELSE route[c]]
  BY DEF StartRoom
<1>5. sc = [s \in 0..(Len(seating) - 1) |-> seating[s + 1].conn]
  <2>1. {seating[i].seat : i \in DOMAIN seating} = 0..(Len(seating) - 1)
    <3>1. ASSUME NEW s \in 0..(Len(seating) - 1)
          PROVE  s + 1 \in DOMAIN seating /\ seating[s + 1].seat = s
      BY <1>0
    <3>2. ASSUME NEW i \in DOMAIN seating PROVE seating[i].seat \in 0..(Len(seating) - 1)
      BY <1>0
    <3> QED
      BY <3>1, <3>2
  <2>2. ASSUME NEW s \in 0..(Len(seating) - 1)
        PROVE  LastFor(seating, LAMBDA e : e.seat = s) = s + 1
    <3> DEFINE D == {i \in DOMAIN seating : seating[i].seat = s}
    <3>1. D = {s + 1}
      BY <1>0
    <3>2. Max(D) \in D
      BY <1>0, <3>1, LastIs
    <3>3. LastFor(seating, LAMBDA e : e.seat = s) = Max(D)
      BY DEF LastFor
    <3> QED
      BY <3>1, <3>2, <3>3
  <2> QED
    BY <2>1, <2>2
<1>6. ASSUME NEW c \in Conns
      PROVE  \/ route'[c] = route[c]
             \/ /\ c \in live
                /\ \E i \in DOMAIN seating :
                     seating[i].conn = c /\ route'[c] = <<r, seating[i].seat>>
  <2> DEFINE D == {i \in DOMAIN seating : seating[i].conn = c}
  <2>1. CASE c \in live /\ D # {}
    <3>1. Max(D) \in D
      BY <1>0, <2>1, LastIs
    <3>2. LastFor(seating, LAMBDA e : e.conn = c) = Max(D)
      BY DEF LastFor
    <3>3. route'[c] = <<r, seating[Max(D)].seat>>
      BY <1>4, <2>1, <3>2
    <3> QED
      BY <2>1, <3>1, <3>3
  <2>2. CASE ~(c \in live /\ D # {})
    BY <1>4, <2>2
  <2> QED
    BY <2>1, <2>2
<1> HIDE DEF r, sc
<1>7. /\ Running' = Running \cup {r}
      /\ \A x \in Running : rooms'[x] = rooms[x]
      /\ rooms'[r] = [seatConns |-> sc, ais |-> ai, by |-> by]
      /\ DOMAIN route' = Conns
  BY <1>3, <1>4 DEF Running
<1>8. Starts(r, seating, ai, by)
  BY <1>3, <1>5, <1>6, <1>7 DEF Starts
<1> QED
  BY <1>3, <1>8
(* Starting a room keeps what the gateway keeps, whoever formed it.           *)
LEMMA StartKeeps ==
  ASSUME Routes, Rooms, VoiceIsOwn, UNCHANGED live,
         NEW seating, Seating(seating), NEW ai \in 0..TableSize, NEW by \in {"lobby", "queue"},
         StartRoom(seating, ai, by)
  PROVE  /\ Routes' /\ Rooms' /\ VoiceIsOwn'
         /\ Cardinality(FormedByLobby)'
              = Cardinality(FormedByLobby) + IF by = "lobby" THEN 1 ELSE 0
<1> DEFINE sc == [s \in 0..(Len(seating) - 1) |-> seating[s + 1].conn]
<1>0. PICK r \in RoomIds \ Running : Starts(r, seating, ai, by)
  BY RoomStarts, Zenon
<1>1. /\ \A c \in Conns : route[c][1] # r
      /\ Running' = Running \cup {r}
      /\ \A x \in Running : rooms'[x] = rooms[x]
      /\ rooms'[r] = [seatConns |-> sc, ais |-> ai, by |-> by]
      /\ DOMAIN route' = Conns
      /\ \A c \in Conns :
           \/ route'[c] = route[c]
           \/ /\ c \in live
              /\ \E i \in DOMAIN seating :
                   seating[i].conn = c /\ route'[c] = <<r, seating[i].seat>>
  BY <1>0 DEF Starts
<1>2. ASSUME NEW i \in DOMAIN seating
      PROVE  /\ i - 1 \in 0..MaxHumans /\ seating[i].seat = i - 1
             /\ i - 1 \in DOMAIN sc /\ sc[i - 1] = seating[i].conn
  BY GatewayAssumption DEF Seating
<1> HIDE DEF sc
<1>3. Routes'
  <2>1. ASSUME NEW c \in Conns
        PROVE  /\ route'[c] \in {NoRoute} \cup RoomIds \X (0..MaxHumans)
               /\ c \notin live => route'[c] = NoRoute
    BY <1>1, <1>2 DEF Routes
  <2> QED
    BY <1>1, <2>1 DEF Routes, NoRoute
<1>4. Rooms'
  <2>1. ASSUME NEW x \in Running' PROVE rooms'[x] \in Room(x)'
    <3>1. CASE x = r
      BY <1>1, <3>1 DEF Room
    <3>2. CASE x \in Running
      BY <1>1, <3>2 DEF Rooms, Room
    <3> QED
      BY <1>1, <2>1, <3>1, <3>2
  <2>2. IsFiniteSet(Running')
    BY <1>1, FS_AddElement DEF Rooms
  <2> QED
    BY <1>1, <2>1, <2>2 DEF Rooms
<1>5. VoiceIsOwn'
  <2>1. ASSUME NEW c \in live, route'[c][1] \in Running'
        PROVE  /\ route'[c][2] \in DOMAIN rooms'[route'[c][1]].seatConns
               /\ rooms'[route'[c][1]].seatConns[route'[c][2]] = c
    <3>0. c \in Conns
      BY DEF Routes
    <3>1. CASE route'[c] = route[c]
      <4>1. route[c][1] \in Running
        BY <1>1, <2>1, <3>0, <3>1
      <4> QED
        BY <1>1, <3>1, <4>1 DEF VoiceIsOwn
    <3>2. ASSUME NEW i \in DOMAIN seating, seating[i].conn = c, route'[c] = <<r, seating[i].seat>>
          PROVE  /\ route'[c][2] \in DOMAIN rooms'[route'[c][1]].seatConns
                 /\ rooms'[route'[c][1]].seatConns[route'[c][2]] = c
      BY <1>1, <1>2, <3>2
    <3> QED
      BY <1>1, <3>0, <3>1, <3>2
  <2> QED
    BY <2>1 DEF VoiceIsOwn
<1>6. Cardinality(FormedByLobby)' = Cardinality(FormedByLobby) + IF by = "lobby" THEN 1 ELSE 0
  <2>1. IsFiniteSet(FormedByLobby) /\ r \notin FormedByLobby
    BY <1>1, FS_Subset DEF Rooms, FormedByLobby
  <2>2. CASE by = "lobby"
    <3>1. FormedByLobby' = FormedByLobby \cup {r}
      BY <1>1, <2>2 DEF FormedByLobby
    <3> QED
      BY <2>1, <2>2, <3>1, FS_AddElement
  <2>3. CASE by = "queue"
    <3>1. FormedByLobby' = FormedByLobby
      BY <1>1, <2>3 DEF FormedByLobby
    <3>2. Cardinality(FormedByLobby) \in Nat
      BY <2>1, FS_CardinalityType
    <3> QED
      BY <2>3, <3>1, <3>2
  <2> QED
    BY <2>2, <2>3
<1> QED
  BY <1>3, <1>4, <1>5, <1>6
(* What is not touched is kept. *)
LEMMA RoomsKept ==
  ASSUME Routes, Rooms, VoiceIsOwn, UNCHANGED <<live, route, rooms>>
  PROVE  Routes' /\ Rooms' /\ VoiceIsOwn' /\ UNCHANGED FormedByLobby
<1>1. Routes'
  BY DEF Routes
<1>2. Rooms'
  BY DEF Rooms, Running, Room
<1>3. VoiceIsOwn'
  BY DEF VoiceIsOwn, Running
<1>4. UNCHANGED FormedByLobby
  BY DEF FormedByLobby, Running
<1> QED
  BY <1>1, <1>2, <1>3, <1>4

LEMMA QueueKept ==
  ASSUME Queue, UNCHANGED <<queue, calls, reader>>
  PROVE  Queue'
  BY DEF Queue

LEMMA LobbyKept ==
  ASSUME Lobby, SeatsInOrder, LobbyIsOpen, NoGhosts, connLobby \subseteq live', UNCHANGED lobby
  PROVE  Lobby' /\ SeatsInOrder' /\ LobbyIsOpen' /\ NoGhosts'
<1>1. UNCHANGED <<guests, connLobby, timer>>
  BY DEF lobby
<1> QED
  BY <1>1 DEF Lobby, SeatsInOrder, LobbyIsOpen, NoGhosts

(* The number of rooms the lobby has formed and that still run. *)
LEMMA FormedCounted ==
  ASSUME Rooms
  PROVE  /\ IsFiniteSet(FormedByLobby) /\ Cardinality(FormedByLobby) \in Nat
         /\ Cardinality(FormedByLobby) <= Cardinality(Running) /\ Cardinality(Running) \in Nat
<1>1. IsFiniteSet(Running) /\ FormedByLobby \subseteq Running
  BY DEF Rooms, FormedByLobby
<1> QED
  BY <1>1, FS_Subset, FS_CardinalityType

-----------------------------------------------------------------------------
(* A launch needs a place for its room, and opens an empty lobby. *)
LEMMA LaunchKeeps ==
  ASSUME GInv, NEW seating, Seating(seating), Launch(seating),
         Cardinality(FormedByLobby) < MaxGames, UNCHANGED <<live, queue, calls, reader>>
  PROVE  GInv'
<1>1. TableSize - Len(seating) \in 0..TableSize /\ Len(seating) \in Nat
  BY GatewayAssumption DEF Seating
<1>2. /\ Routes' /\ Rooms' /\ VoiceIsOwn'
      /\ Cardinality(FormedByLobby)' = Cardinality(FormedByLobby) + 1
  <2>1. StartRoom(seating, TableSize - Len(seating), "lobby")
    BY DEF Launch
  <2> DEFINE ai == TableSize - Len(seating)
  <2> HIDE DEF ai
  <2>2. ai \in 0..TableSize /\ StartRoom(seating, ai, "lobby")
    BY <1>1, <2>1 DEF ai
  <2> QED
    BY <2>2, StartKeeps DEF GInv, Shape
<1>3. Lobby' /\ SeatsInOrder' /\ LobbyIsOpen' /\ NoGhosts' /\ guests' = <<>>
  <2>1. guests' = <<>> /\ connLobby' = {} /\ timer' = "none" /\ UNCHANGED live
    BY DEF Launch
  <2>2. Lobby'
    BY <2>1 DEF Lobby
  <2>3. SeatsInOrder' /\ LobbyIsOpen' /\ NoGhosts'
    BY <2>1, GatewayAssumption DEF SeatsInOrder, LobbyIsOpen, NoGhosts
  <2> QED
    BY <2>1, <2>2, <2>3
<1>4. PlaceKept'
  BY <1>2, <1>3, FormedCounted, GatewayAssumption DEF PlaceKept, GInv, Shape
<1>5. Queue'
  BY QueueKept DEF GInv, Shape
<1> QED
  BY <1>2, <1>3, <1>4, <1>5 DEF GInv, Shape

(* The open lobby is a seating. *)
LEMMA LobbySeats ==
  ASSUME GInv
  PROVE  Seating(guests) /\ Len(guests) \in Nat
  BY GatewayAssumption DEF GInv, Shape, Lobby, SeatsInOrder, LobbyIsOpen, Seating

(* One more guest. *)
LEMMA GuestSeated ==
  ASSUME GInv, NEW c \in Conns, c \notin connLobby
  PROVE  LET seating == Append(guests, [conn |-> c, seat |-> Len(guests)])
         IN  /\ Seating(seating) /\ Len(seating) = Len(guests) + 1 /\ seating # <<>>
             /\ \A i, j \in DOMAIN seating : seating[i].conn = seating[j].conn => i = j
             /\ {seating[i].conn : i \in DOMAIN seating} = connLobby \cup {c}
<1> DEFINE e == [conn |-> c, seat |-> Len(guests)]
           seating == Append(guests, e)
<1>1. Seating(guests) /\ Len(guests) \in Nat /\ Len(guests) < MaxHumans /\ NoGhosts
  BY LobbySeats DEF GInv, LobbyIsOpen
<1>2. guests \in Seq(Guest) /\ e \in Guest /\ e.conn = c /\ e.seat = Len(guests)
  BY <1>1, GatewayAssumption DEF Seating, Guest
<1> HIDE DEF e
<1>3. /\ seating \in Seq(Guest) /\ Len(seating) = Len(guests) + 1
      /\ DOMAIN seating = 1..(Len(guests) + 1) /\ DOMAIN guests = 1..Len(guests)
      /\ \A i \in 1..Len(guests) : seating[i] = guests[i]
      /\ seating[Len(guests) + 1] = e
  BY <1>1, <1>2
<1> HIDE DEF seating
<1>4. Seating(seating)
  <2>1. \A i \in 1..(Len(guests) + 1) : seating[i].seat = i - 1
    BY <1>1, <1>2, <1>3 DEF Seating
  <2>2. Len(seating) <= MaxHumans
    BY <1>1, <1>3, GatewayAssumption
  <2> QED
    BY <1>3, <2>1, <2>2 DEF Seating
<1>5. \A i, j \in DOMAIN seating : seating[i].conn = seating[j].conn => i = j
  <2>1. \A i \in 1..Len(guests) : guests[i].conn \in connLobby
    BY <1>1, <1>3 DEF NoGhosts
  <2> QED
    BY <1>1, <1>2, <1>3, <2>1 DEF NoGhosts
<1>6. {seating[i].conn : i \in DOMAIN seating} = connLobby \cup {c}
  <2>1. ASSUME NEW x \in connLobby PROVE \E i \in DOMAIN seating : seating[i].conn = x
    BY <1>1, <1>3 DEF NoGhosts
  <2>2. \A i \in 1..Len(guests) : guests[i].conn \in connLobby
    BY <1>1, <1>3 DEF NoGhosts
  <2>3. Len(guests) + 1 \in DOMAIN seating
    BY <1>1, <1>3
  <2> QED
    BY <1>1, <1>2, <1>3, <2>1, <2>2, <2>3
<1>7. seating # <<>>
  BY <1>1, <1>3
<1> QED
  BY <1>3, <1>4, <1>5, <1>6, <1>7 DEF seating, e

LEMMA JoinKeeps ==
  ASSUME GInv, NEW c \in Conns, RequestJoin(c)
  PROVE  GInv'
<1> DEFINE seating == Append(guests, [conn |-> c, seat |-> Len(guests)])
<1>1. /\ c \in live /\ c \notin connLobby /\ Cardinality(Running) < MaxGames
      /\ UNCHANGED <<live, queue, calls, reader>>
  <2>1. Cardinality(Running) \in Nat
    BY FormedCounted DEF GInv, Shape
  <2> QED
    BY <2>1, GatewayAssumption DEF RequestJoin, Reads, SeatedAlready, AtCapacity
<1>2. Cardinality(FormedByLobby) < MaxGames /\ Cardinality(FormedByLobby) \in Nat
  BY <1>1, FormedCounted, GatewayAssumption DEF GInv, Shape
<1>3. /\ Seating(seating) /\ Len(seating) = Len(guests) + 1 /\ seating # <<>>
      /\ \A i, j \in DOMAIN seating : seating[i].conn = seating[j].conn => i = j
      /\ {seating[i].conn : i \in DOMAIN seating} = connLobby \cup {c}
  BY <1>1, GuestSeated
<1>4. \/ Launch(seating)
      \/ /\ ~Full(seating)
         /\ guests' = seating /\ connLobby' = connLobby \cup {c}
         /\ timer' \in {"armed", timer}
         /\ UNCHANGED <<rooms, route>>
  BY DEF RequestJoin
<1> HIDE DEF seating
<1>5. CASE Launch(seating)
  BY <1>1, <1>2, <1>3, <1>5, LaunchKeeps
<1>6. CASE /\ ~Full(seating)
           /\ guests' = seating /\ connLobby' = connLobby \cup {c}
           /\ timer' \in {"armed", timer}
           /\ UNCHANGED <<rooms, route>>
  <2>1. Routes' /\ Rooms' /\ VoiceIsOwn' /\ UNCHANGED FormedByLobby
    BY <1>1, <1>6, RoomsKept DEF GInv, Shape
  <2>2. Queue'
    BY <1>1, QueueKept DEF GInv, Shape
  <2>3. Lobby' /\ SeatsInOrder'
    BY <1>1, <1>3, <1>6 DEF GInv, Shape, Lobby, SeatsInOrder, Seating
  <2>4. LobbyIsOpen'
    BY <1>3, <1>6, LobbySeats, GatewayAssumption DEF LobbyIsOpen, Full
  <2>5. NoGhosts'
    BY <1>3, <1>6 DEF NoGhosts
  <2>6. PlaceKept'
    BY <1>2, <2>1, GatewayAssumption DEF PlaceKept
  <2> QED
    BY <2>1, <2>2, <2>3, <2>4, <2>5, <2>6 DEF GInv, Shape
<1> QED
  BY <1>4, <1>5, <1>6

LEMMA CountdownKeeps ==
  ASSUME GInv, CountdownFires
  PROVE  GInv'
<1>1. CASE guests # <<>> /\ Launch(guests)
  <2>1. Cardinality(FormedByLobby) < MaxGames
    BY <1>1 DEF GInv, PlaceKept
  <2> QED
    BY <1>1, <2>1, LobbySeats, LaunchKeeps DEF CountdownFires
<1>2. CASE DropTimer /\ UNCHANGED <<guests, connLobby, rooms, route>>
  <2>1. UNCHANGED <<live, queue, calls, reader>>
    BY DEF CountdownFires
  <2>2. Routes' /\ Rooms' /\ VoiceIsOwn' /\ UNCHANGED FormedByLobby
    BY <1>2, <2>1, RoomsKept DEF GInv, Shape
  <2>3. Queue'
    BY <2>1, QueueKept DEF GInv, Shape
  <2>4. Lobby' /\ SeatsInOrder' /\ LobbyIsOpen' /\ NoGhosts'
    BY <1>2, <2>1 DEF GInv, Shape, Lobby, SeatsInOrder, LobbyIsOpen, NoGhosts, DropTimer
  <2>5. PlaceKept'
    BY <1>2, <2>2 DEF GInv, PlaceKept
  <2> QED
    BY <2>2, <2>3, <2>4, <2>5 DEF GInv, Shape
<1> QED
  BY <1>1, <1>2 DEF CountdownFires
(* A socket that connects has no route yet. *)
LEMMA ConnectKeeps ==
  ASSUME GInv, NEW c \in Conns, Connect(c)
  PROVE  GInv'
<1>1. /\ c \notin live /\ live' = live \cup {c}
      /\ UNCHANGED <<route, lobby, rooms, queue, calls, reader>>
  BY DEF Connect
<1>2. Routes'
  BY <1>1 DEF GInv, Shape, Routes
<1>3. Rooms' /\ UNCHANGED FormedByLobby
  BY <1>1 DEF GInv, Shape, Rooms, Running, Room, FormedByLobby
<1>4. VoiceIsOwn'
  <2>1. route[c][1] = 0
    BY <1>1 DEF GInv, Shape, Routes, NoRoute
  <2>2. 0 \notin Running
    BY GatewayAssumption DEF GInv, Shape, Rooms
  <2> QED
    BY <1>1, <2>1, <2>2 DEF GInv, VoiceIsOwn, Running
<1>5. Lobby' /\ SeatsInOrder' /\ LobbyIsOpen' /\ NoGhosts'
  <2>1. connLobby \subseteq live'
    BY <1>1 DEF GInv, Shape, Lobby
  <2> QED
    BY <1>1, <2>1, LobbyKept DEF GInv, Shape
<1>6. Queue'
  BY <1>1, QueueKept DEF GInv, Shape
<1>7. PlaceKept'
  <2>1. UNCHANGED guests
    BY <1>1 DEF lobby
  <2> QED
    BY <1>3, <2>1 DEF GInv, PlaceKept
<1> QED
  BY <1>2, <1>3, <1>4, <1>5, <1>6, <1>7 DEF GInv, Shape

(* The guests that stay move up and keep their connections. *)
LEMMA UnseatKeeps ==
  ASSUME GInv, NEW k \in DOMAIN guests
  PROVE  LET rest == Unseat(guests, k)
         IN  /\ rest \in Seq(Guest) /\ Len(rest) = Len(guests) - 1
             /\ \A j \in DOMAIN rest : rest[j].seat = j - 1
             /\ \A i, j \in DOMAIN rest : rest[i].conn = rest[j].conn => i = j
             /\ {rest[j].conn : j \in DOMAIN rest} = connLobby \ {guests[k].conn}
<1> DEFINE n == Len(guests)
           s == RemoveAt(guests, k)
           rest == Unseat(guests, k)
<1>1. /\ guests \in Seq(Guest) /\ n \in Nat /\ DOMAIN guests = 1..n /\ k \in 1..n
      /\ n <= MaxHumans /\ NoGhosts
  BY LobbySeats DEF GInv, Seating
<1>2. /\ s \in Seq(Guest) /\ Len(s) = n - 1 /\ DOMAIN s = 1..(n - 1)
      /\ \A j \in 1..(n - 1) : s[j] = guests[IF j < k THEN j ELSE j + 1]
  <2>1. /\ s \in Seq(Guest) /\ Len(s) = n - 1
        /\ \A j \in 1..(n - 1) : s[j] = IF j < k THEN guests[j] ELSE guests[j + 1]
    BY <1>1, Removed
  <2> QED
    BY <2>1
<1> HIDE DEF n, s
<1>3. rest = [j \in 1..(n - 1) |-> [s[j] EXCEPT !.seat = j - 1]]
  BY <1>2 DEF Unseat, s
<1> HIDE DEF rest
<1>4. ASSUME NEW j \in 1..(n - 1)
      PROVE  /\ rest[j] \in Guest /\ rest[j].seat = j - 1
             /\ rest[j].conn = guests[IF j < k THEN j ELSE j + 1].conn
             /\ (IF j < k THEN j ELSE j + 1) \in 1..n
  <2>1. s[j] \in Guest
    BY <1>2
  <2>2. j - 1 \in 0..MaxHumans
    BY <1>1, GatewayAssumption
  <2>3. rest[j] = [s[j] EXCEPT !.seat = j - 1]
    BY <1>3
  <2>4. rest[j] \in Guest /\ rest[j].seat = j - 1 /\ rest[j].conn = s[j].conn
    BY <2>1, <2>2, <2>3 DEF Guest
  <2> QED
    BY <1>1, <1>2, <2>4
<1>5. rest \in Seq(Guest) /\ Len(rest) = n - 1 /\ DOMAIN rest = 1..(n - 1)
  <2>1. n - 1 \in Nat
    BY <1>1
  <2>2. rest \in [1..(n - 1) -> Guest]
    BY <1>3, <1>4
  <2> QED
    BY <2>1, <2>2
<1>6. \A i, j \in 1..(n - 1) : rest[i].conn = rest[j].conn => i = j
  <2>1. ASSUME NEW i \in 1..(n - 1), NEW j \in 1..(n - 1), rest[i].conn = rest[j].conn
        PROVE  i = j
    <3> DEFINE a == IF i < k THEN i ELSE i + 1
               b == IF j < k THEN j ELSE j + 1
    <3>0. a \in 1..n /\ b \in 1..n /\ guests[a].conn = guests[b].conn
      <4>1. rest[i].conn = guests[a].conn /\ a \in 1..n
        BY <1>4
      <4>2. rest[j].conn = guests[b].conn /\ b \in 1..n
        BY <1>4
      <4> HIDE DEF a, b
      <4> QED
        BY <2>1, <4>1, <4>2
    <3>1. a = b
      <4> HIDE DEF a, b
      <4> QED
        BY <1>1, <3>0 DEF NoGhosts
    <3> QED
      BY <1>1, <3>1
  <2> QED
    BY <2>1
<1>7. {rest[j].conn : j \in 1..(n - 1)} = connLobby \ {guests[k].conn}
  <2>1. ASSUME NEW j \in 1..(n - 1)
        PROVE  rest[j].conn \in connLobby /\ rest[j].conn # guests[k].conn
    <3> DEFINE a == IF j < k THEN j ELSE j + 1
    <3>1. a # k
      BY <1>1
    <3>2. a \in 1..n /\ rest[j].conn = guests[a].conn
      BY <1>4
    <3> HIDE DEF a
    <3> QED
      BY <1>1, <3>1, <3>2 DEF NoGhosts
  <2>2. ASSUME NEW x \in connLobby, x # guests[k].conn
        PROVE  \E j \in 1..(n - 1) : rest[j].conn = x
    <3>1. PICK i \in 1..n : guests[i].conn = x
      BY <1>1 DEF NoGhosts
    <3>2. i # k
      BY <2>2, <3>1
    <3>3. CASE i < k
      <4>1. i \in 1..(n - 1)
        BY <1>1, <3>3
      <4> QED
        BY <1>4, <3>1, <3>3, <4>1
    <3>4. CASE i > k
      <4>1. i - 1 \in 1..(n - 1) /\ ~(i - 1 < k) /\ (i - 1) + 1 = i
        BY <1>1, <3>4
      <4>2. rest[i - 1].conn = guests[(i - 1) + 1].conn
        BY <1>4, <4>1
      <4> QED
        BY <3>1, <4>1, <4>2
    <3> QED
      BY <1>1, <3>2, <3>3, <3>4
  <2> QED
    BY <2>1, <2>2
<1> QED
  BY <1>4, <1>5, <1>6, <1>7 DEF rest, n

(* A guest that leaves the lobby. *)
LEMMA GuestLeaves ==
  ASSUME GInv, NEW c \in Conns, Disconnect(c)
  PROVE  /\ Lobby' /\ SeatsInOrder' /\ LobbyIsOpen' /\ NoGhosts'
         /\ guests' # <<>> => guests # <<>>
<1> DEFINE mine == {i \in DOMAIN guests : guests[i].conn = c}
<1>1. /\ live' = live \ {c} /\ connLobby' = connLobby \ {c} /\ UNCHANGED timer
      /\ guests' = IF c \in connLobby /\ mine # {} THEN Unseat(guests, Min(mine)) ELSE guests
  BY DEF Disconnect, Forget
<1>2. connLobby' \subseteq live' /\ timer' \in {"none", "armed", "spent"}
  BY <1>1 DEF GInv, Shape, Lobby
<1>3. Len(guests) \in Nat /\ Len(guests) < MaxHumans /\ guests \in Seq(Guest)
  BY LobbySeats DEF GInv, LobbyIsOpen, Seating
<1>4. CASE c \in connLobby
  <2>1. mine # {} /\ mine \subseteq Nat
    BY <1>3, <1>4 DEF GInv, NoGhosts
  <2>2. Min(mine) \in mine
    BY <2>1, MinIs
  <2> DEFINE k == Min(mine)
             rest == Unseat(guests, k)
  <2>3. k \in DOMAIN guests /\ guests[k].conn = c
    BY <2>2
  <2>4. guests' = rest
    BY <1>1, <1>4, <2>1
  <2> HIDE DEF k
  <2>5. /\ rest \in Seq(Guest) /\ Len(rest) = Len(guests) - 1
        /\ \A j \in DOMAIN rest : rest[j].seat = j - 1
        /\ \A i, j \in DOMAIN rest : rest[i].conn = rest[j].conn => i = j
        /\ {rest[j].conn : j \in DOMAIN rest} = connLobby \ {c}
    BY <2>3, UnseatKeeps
  <2> HIDE DEF rest
  <2>6. guests # <<>>
    BY <2>3
  <2>7. LobbyIsOpen'
    BY <1>3, <2>4, <2>5, GatewayAssumption DEF LobbyIsOpen
  <2>8. Lobby'
    BY <1>2, <2>4, <2>5 DEF Lobby
  <2>9. SeatsInOrder'
    BY <2>4, <2>5 DEF SeatsInOrder
  <2>10. NoGhosts'
    <3>1. \A i, j \in DOMAIN guests' : guests'[i].conn = guests'[j].conn => i = j
      BY <2>4, <2>5
    <3>2. {guests'[j].conn : j \in DOMAIN guests'} = connLobby \ {c}
      BY <2>4, <2>5, Zenon
    <3> HIDE DEF mine
    <3>3. connLobby' = connLobby \ {c}
      BY <1>1
    <3> QED
      BY <3>1, <3>2, <3>3 DEF NoGhosts
  <2> QED
    BY <2>6, <2>7, <2>8, <2>9, <2>10
<1>5. CASE c \notin connLobby
  <2>1. guests' = guests /\ connLobby' = connLobby
    BY <1>1, <1>5
  <2> QED
    BY <1>2, <2>1 DEF GInv, Shape, Lobby, SeatsInOrder, LobbyIsOpen, NoGhosts
<1> QED
  BY <1>4, <1>5

(* A socket that closes loses its seat and nobody else does. *)
LEMMA DisconnectKeeps ==
  ASSUME GInv, NEW c \in Conns, Disconnect(c)
  PROVE  GInv'
<1>1. /\ c \in live /\ live' = live \ {c}
      /\ rooms' = Unbind(c) /\ route' = [route EXCEPT ![c] = NoRoute]
      /\ UNCHANGED <<queue, calls, reader>>
  BY DEF Disconnect
<1>2. Routes'
  BY <1>1 DEF GInv, Shape, Routes
<1>3. /\ Running' = Running
      /\ \A r \in Running : rooms'[r] =
           IF r = route[c][1]
           THEN [rooms[r] EXCEPT !.seatConns = Restrict(@, DOMAIN @ \ {route[c][2]})]
           ELSE rooms[r]
  BY <1>1 DEF Unbind, Running
<1>4. ASSUME NEW r \in Running
      PROVE  /\ rooms'[r] \in [seatConns : {rooms'[r].seatConns}, ais : 0..TableSize, by : {"lobby", "queue"}]
             /\ rooms'[r].by = rooms[r].by
             /\ rooms'[r].seatConns =
                  IF r = route[c][1]
                  THEN Restrict(rooms[r].seatConns, DOMAIN rooms[r].seatConns \ {route[c][2]})
                  ELSE rooms[r].seatConns
  <2>1. rooms[r] \in Room(r)
    BY DEF GInv, Shape, Rooms
  <2> QED
    BY <1>3, <2>1 DEF Room
<1>5. Rooms' /\ UNCHANGED FormedByLobby
  BY <1>3, <1>4 DEF GInv, Shape, Rooms, Room, FormedByLobby
<1>6. VoiceIsOwn'
  <2>1. ASSUME NEW d \in live', route'[d][1] \in Running'
        PROVE  /\ route'[d][2] \in DOMAIN rooms'[route'[d][1]].seatConns
               /\ rooms'[route'[d][1]].seatConns[route'[d][2]] = d
    <3>1. d \in live /\ d # c /\ d \in Conns /\ route'[d] = route[d]
      BY <1>1 DEF GInv, Shape, Routes
    <3> DEFINE r == route[d][1]
               sc == rooms[r].seatConns
    <3>2. r \in Running /\ route[d][2] \in DOMAIN sc /\ sc[route[d][2]] = d
      BY <1>3, <2>1, <3>1 DEF GInv, VoiceIsOwn
    <3>3. CASE r # route[c][1]
      BY <1>4, <3>1, <3>2, <3>3
    <3>4. CASE r = route[c][1]
      <4>1. sc[route[c][2]] = c
        BY <1>1, <3>2, <3>4 DEF GInv, VoiceIsOwn
      <4>2. route[c][2] # route[d][2]
        BY <3>1, <3>2, <4>1
      <4>3. rooms'[r].seatConns = Restrict(sc, DOMAIN sc \ {route[c][2]})
        BY <1>4, <3>2, <3>4
      <4> QED
        BY <3>1, <3>2, <4>2, <4>3 DEF Restrict
    <3> QED
      BY <3>3, <3>4
  <2> QED
    BY <2>1 DEF VoiceIsOwn
<1>7. Queue'
  BY <1>1, QueueKept DEF GInv, Shape
<1>8. PlaceKept'
  BY <1>5, GuestLeaves DEF GInv, PlaceKept
<1> QED
  BY <1>2, <1>5, <1>6, <1>7, <1>8, GuestLeaves DEF GInv, Shape

(* A room that is over makes place. *)
LEMMA RoomOverKeeps ==
  ASSUME GInv, NEW r \in RoomIds, RoomOver(r)
  PROVE  GInv'
<1>1. /\ Running' = Running \ {r} /\ \A x \in Running' : rooms'[x] = rooms[x]
      /\ UNCHANGED <<live, route, lobby, queue, calls, reader>>
  BY DEF RoomOver, Running, Restrict
<1>2. Routes'
  BY <1>1 DEF GInv, Shape, Routes
<1>3. Rooms'
  BY <1>1, FS_Subset DEF GInv, Shape, Rooms, Room
<1>4. VoiceIsOwn'
  BY <1>1 DEF GInv, VoiceIsOwn
<1>5. Lobby' /\ SeatsInOrder' /\ LobbyIsOpen' /\ NoGhosts' /\ UNCHANGED guests
  BY <1>1, LobbyKept DEF GInv, Shape, Lobby, lobby
<1>6. Queue'
  BY <1>1, QueueKept DEF GInv, Shape
<1>7. PlaceKept'
  <2>1. FormedByLobby' \subseteq FormedByLobby
    BY <1>1 DEF FormedByLobby
  <2>2. /\ IsFiniteSet(FormedByLobby) /\ Cardinality(FormedByLobby) \in Nat
    BY FormedCounted DEF GInv, Shape
  <2>3. Cardinality(FormedByLobby') \in Nat /\ Cardinality(FormedByLobby') <= Cardinality(FormedByLobby)
    BY <2>1, <2>2, FS_Subset, FS_CardinalityType
  <2>4. UNCHANGED guests
    BY <1>1 DEF lobby
  <2> QED
    BY <2>2, <2>3, <2>4, GatewayAssumption DEF GInv, PlaceKept
<1> QED
  BY <1>2, <1>3, <1>4, <1>5, <1>6, <1>7 DEF GInv, Shape
-----------------------------------------------------------------------------
(* The queue seats nobody before it forms a room. *)
LEMMA OnlyQueue ==
  ASSUME GInv, Queue', UNCHANGED <<live, route, lobby, rooms>>
  PROVE  GInv'
<1>1. Routes' /\ Rooms' /\ VoiceIsOwn' /\ UNCHANGED FormedByLobby
  BY RoomsKept DEF GInv, Shape
<1>2. connLobby \subseteq live' /\ UNCHANGED guests
  BY DEF GInv, Shape, Lobby, lobby
<1>3. Lobby' /\ SeatsInOrder' /\ LobbyIsOpen' /\ NoGhosts'
  BY <1>2, LobbyKept DEF GInv, Shape
<1>4. PlaceKept'
  BY <1>1, <1>2 DEF GInv, PlaceKept
<1> QED
  BY <1>1, <1>3, <1>4 DEF GInv, Shape

LEMMA EnqueueKeeps ==
  ASSUME GInv, NEW c \in Conns, Enqueue(c)
  PROVE  GInv'
<1> DEFINE call == [step |-> "joined", take |-> 0]
<1>1. queue' \in Seq(Conns)
  BY DEF Enqueue, GInv, Shape, Queue
<1>2. calls' = Append(calls, call) /\ Len(calls) < MaxCalls /\ reader' = c
  BY DEF Enqueue
<1>3. call \in Call /\ calls \in Seq(Call) /\ Len(calls) \in Nat
  BY GatewayAssumption DEF Call, GInv, Shape, Queue
<1> HIDE DEF call
<1>4. calls' \in Seq(Call) /\ Len(calls') <= MaxCalls
  BY <1>2, <1>3, GatewayAssumption
<1>5. Queue'
  BY <1>1, <1>2, <1>4 DEF Queue
<1> QED
  BY <1>5, OnlyQueue DEF Enqueue

LEMMA LeaveQueueKeeps ==
  ASSUME GInv, NEW c \in Conns, LeaveQueue(c)
  PROVE  GInv'
<1>1. PICK i \in DOMAIN queue : queue' = RemoveAt(queue, i)
  BY DEF LeaveQueue
<1>2. queue' \in Seq(Conns)
  BY <1>1, Removed DEF GInv, Shape, Queue
<1>3. Queue'
  BY <1>2 DEF LeaveQueue, GInv, Shape, Queue
<1> QED
  BY <1>3, OnlyQueue DEF LeaveQueue

LEMMA GoOnKeeps ==
  ASSUME GInv, NEW from, NEW to \in {"counted", "forming"}, NEW take \in 0..MaxHumans,
         GoOn(from, to, take)
  PROVE  GInv'
<1> DEFINE call == [step |-> to, take |-> take]
<1>1. /\ calls # <<>> /\ UNCHANGED <<live, route, lobby, rooms, queue>>
      /\ calls' \in {Append(Tail(calls), call), Tail(calls)}
      /\ reader' = NoConn
  BY DEF GoOn
<1>2. call \in Call /\ calls \in Seq(Call) /\ Len(calls) <= MaxCalls /\ Len(calls) \in Nat
  BY DEF Call, GInv, Shape, Queue
<1> HIDE DEF call
<1>3. calls' \in Seq(Call) /\ Len(calls') <= MaxCalls
  <2>1. Tail(calls) \in Seq(Call) /\ Len(Tail(calls)) = Len(calls) - 1
    BY <1>1, <1>2
  <2> QED
    BY <1>1, <1>2, <2>1, GatewayAssumption
<1>4. Queue'
  BY <1>1, <1>3 DEF GInv, Shape, Queue
<1> QED
  BY <1>1, <1>4, OnlyQueue

LEMMA CountingKeeps ==
  ASSUME GInv, ShouldStart \/ SizeUp
  PROVE  GInv'
<1>1. 0 \in 0..MaxHumans /\ (IF Len(queue) <= MaxHumans THEN Len(queue) ELSE MaxHumans) \in 0..MaxHumans
  BY GatewayAssumption DEF GInv, Shape, Queue
<1> QED
  BY <1>1, GoOnKeeps DEF ShouldStart, SizeUp

(* What it is for the first call to form a room of the members it pops. *)
Forms(seating) ==
  /\ Seating(seating)
  /\ LET take == Head(calls).take
     IN  Len(seating) = IF take <= Len(queue) THEN take ELSE Len(queue)
  /\ StartRoom(seating, AIShare(Len(seating)), "queue")
  /\ \A i \in DOMAIN seating : i \in DOMAIN queue /\ seating[i].conn = queue[i]
  /\ queue' \in Seq(Conns)

(* The members a call pops are a seating. *)
LEMMA MembersSeat ==
  ASSUME GInv, FormLobby
  PROVE  \E seating : Forms(seating)
<1> DEFINE take == Head(calls).take
           n == IF take <= Len(queue) THEN take ELSE Len(queue)
           members == SubSeq(queue, 1, n)
           seating == [i \in DOMAIN members |-> [conn |-> members[i], seat |-> i - 1]]
<1>1. queue' = SubSeq(queue, n + 1, Len(queue)) /\ StartRoom(seating, AIShare(n), "queue")
  BY DEF FormLobby
<1>2. queue \in Seq(Conns) /\ Len(queue) \in Nat /\ take \in 0..MaxHumans
  <2>1. queue \in Seq(Conns) /\ calls \in Seq(Call) /\ calls # <<>>
    BY DEF FormLobby, GInv, Shape, Queue
  <2>2. Head(calls) \in Call
    BY <2>1
  <2> QED
    BY <2>1, <2>2 DEF Call
<1> HIDE DEF take
<1>3. n \in 0..MaxHumans /\ n <= Len(queue)
  BY <1>2, GatewayAssumption
<1> HIDE DEF n
<1>4. members \in Seq(Conns) /\ Len(members) = n /\ queue' \in Seq(Conns)
  BY <1>1, <1>2, <1>3
<1>5. DOMAIN members = 1..n
  BY <1>4
<1> HIDE DEF members
<1>6. ASSUME NEW i \in 1..n
      PROVE  seating[i] \in Guest /\ seating[i].seat = i - 1
  <2>1. members[i] \in Conns /\ i - 1 \in 0..MaxHumans
    BY <1>3, <1>4, <1>5, GatewayAssumption
  <2> QED
    BY <1>5, <2>1 DEF Guest
<1>7. n \in Nat /\ n <= MaxHumans /\ seating \in [1..n -> Guest]
  BY <1>3, <1>5, <1>6, GatewayAssumption
<1> HIDE DEF seating
<1>8. Seating(seating) /\ Len(seating) = n
  BY <1>6, <1>7 DEF Seating
<1>9. StartRoom(seating, AIShare(Len(seating)), "queue")
  <2>1. StartRoom(seating, AIShare(n), "queue")
    BY <1>1
  <2> QED
    BY <1>8, <2>1, Zenon
<1>10. ASSUME NEW i \in DOMAIN seating PROVE i \in DOMAIN queue /\ seating[i].conn = queue[i]
  <2>1. i \in 1..n /\ seating[i].conn = members[i]
    BY <1>5, <1>7, <1>10 DEF seating
  <2>2. i \in DOMAIN queue /\ members[i] = queue[i]
    BY <1>2, <1>3, <2>1 DEF members
  <2> QED
    BY <2>1, <2>2
<1>11. Forms(seating)
  BY <1>4, <1>8, <1>9, <1>10 DEF Forms, n, take
<1> QED
  BY <1>11

(* The house fills up to the table and takes one seat at least. *)
LEMMA HouseShare ==
  ASSUME NEW n \in Nat
  PROVE  AIShare(n) \in 1..TableSize
<1>1. Clamp(n, MinHumans, MaxHumans) \in MinHumans..MaxHumans
  BY GatewayAssumption DEF Clamp
<1>2. TableSize - Clamp(n, MinHumans, MaxHumans) \in 1..TableSize
  BY <1>1, GatewayAssumption
<1> QED
  BY <1>2, GatewayAssumption DEF AIShare, Clamp

LEMMA FormKeeps ==
  ASSUME GInv, FormLobby
  PROVE  GInv'
<1>1. PICK seating :
        /\ Seating(seating)
        /\ StartRoom(seating, AIShare(Len(seating)), "queue")
        /\ queue' \in Seq(Conns)
  BY MembersSeat DEF Forms
<1>2. AIShare(Len(seating)) \in 0..TableSize
  <2>1. Len(seating) \in Nat
    BY <1>1 DEF Seating
  <2>2. AIShare(Len(seating)) \in 1..TableSize
    BY <2>1, HouseShare
  <2> QED
    BY <2>2
<1>3. /\ UNCHANGED <<live, lobby>> /\ calls # <<>> /\ calls' = Tail(calls) /\ reader' = NoConn
  BY DEF FormLobby
<1>4. /\ Routes' /\ Rooms' /\ VoiceIsOwn'
      /\ Cardinality(FormedByLobby)' = Cardinality(FormedByLobby) + 0
  <2> DEFINE ai == AIShare(Len(seating))
  <2>1. ai \in 0..TableSize /\ StartRoom(seating, ai, "queue") /\ UNCHANGED live
    BY <1>1, <1>2, <1>3
  <2> HIDE DEF ai
  <2> QED
    BY <1>1, <2>1, StartKeeps DEF GInv, Shape
<1>5. Queue'
  <2>1. calls \in Seq(Call) /\ Len(calls) <= MaxCalls /\ Len(calls) \in Nat
    BY DEF GInv, Shape, Queue
  <2>2. calls' \in Seq(Call) /\ Len(calls') = Len(calls) - 1
    BY <1>3, <2>1
  <2> QED
    BY <1>1, <1>3, <2>1, <2>2, GatewayAssumption DEF Queue
<1>6. connLobby \subseteq live' /\ UNCHANGED guests
  BY <1>3 DEF GInv, Shape, Lobby, lobby
<1>7. Lobby' /\ SeatsInOrder' /\ LobbyIsOpen' /\ NoGhosts'
  BY <1>3, <1>6, LobbyKept DEF GInv, Shape
<1>8. PlaceKept'
  BY <1>4, <1>6, FormedCounted DEF GInv, Shape, PlaceKept
<1> QED
  BY <1>4, <1>5, <1>7, <1>8 DEF GInv, Shape

-----------------------------------------------------------------------------
(* A gateway that has just started. *)
LEMMA Start == ASSUME Init PROVE GInv
<1>1. Routes /\ Rooms /\ VoiceIsOwn
  <2>1. Running = {}
    BY DEF Init, Running
  <2> QED
    BY <2>1, FS_EmptySet DEF Init, Routes, Rooms, VoiceIsOwn, NoRoute
<1>2. Lobby /\ SeatsInOrder /\ LobbyIsOpen /\ NoGhosts
  BY GatewayAssumption DEF Init, Lobby, SeatsInOrder, LobbyIsOpen, NoGhosts
<1>3. Queue
  BY GatewayAssumption DEF Init, Queue
<1>4. PlaceKept
  <2>1. FormedByLobby = {}
    BY DEF Init, FormedByLobby, Running
  <2> QED
    BY <2>1, FS_EmptySet, GatewayAssumption DEF Init, PlaceKept
<1> QED
  BY <1>1, <1>2, <1>3, <1>4 DEF GInv, Shape

(* No step breaks the inductive invariant. *)
LEMMA Step == ASSUME GInv, [Next]_vars PROVE GInv'
<1>0. Guests \subseteq Conns /\ Queuers \subseteq Conns
  BY GatewayAssumption
<1>1. ASSUME NEW c \in Conns, Connect(c) PROVE GInv'
  BY <1>1, ConnectKeeps
<1>2. ASSUME NEW c \in Conns, Disconnect(c) PROVE GInv'
  BY <1>2, DisconnectKeeps
<1>3. ASSUME NEW c \in Guests, RequestJoin(c) PROVE GInv'
  BY <1>0, <1>3, JoinKeeps
<1>4. ASSUME CountdownFires PROVE GInv'
  BY <1>4, CountdownKeeps
<1>5. ASSUME NEW r \in RoomIds, RoomOver(r) PROVE GInv'
  BY <1>5, RoomOverKeeps
<1>6. ASSUME NEW c \in Queuers, LeaveQueue(c) PROVE GInv'
  BY <1>0, <1>6, LeaveQueueKeeps
<1>7. ASSUME NEW c \in Queuers, Enqueue(c) PROVE GInv'
  BY <1>0, <1>7, EnqueueKeeps
<1>8. ASSUME ShouldStart \/ SizeUp PROVE GInv'
  BY <1>8, CountingKeeps
<1>9. ASSUME FormLobby PROVE GInv'
  BY <1>9, FormKeeps
<1>10. CASE UNCHANGED vars
  <2>1. UNCHANGED <<live, route, lobby, rooms>> /\ UNCHANGED <<queue, calls, reader>>
    BY <1>10 DEF vars
  <2>2. Queue'
    BY <2>1, QueueKept DEF GInv, Shape
  <2> QED
    BY <2>1, <2>2, OnlyQueue
<1> QED
  BY <1>1, <1>2, <1>3, <1>4, <1>5, <1>6, <1>7, <1>8, <1>9, <1>10 DEF Next, Queueing

(* The inductive invariant holds in every state of the gateway, for any      *)
(* number of sockets, rooms and overlapping calls.                           *)
THEOREM GatewayInvariance == Spec => []GInv
  BY Start, Step, PTL DEF Spec

(* Types: a route leads to a seat of a table and the counts of AI seats stay *)
(* within the table (ws/gateway.ts, matchmaking/guestLobby.ts).              *)
THEOREM GatewayTypeCorrect == Spec => []TypeOK
<1>1. ASSUME GInv PROVE TypeOK
  <2>1. /\ live \subseteq Conns /\ connLobby \subseteq live
        /\ \A c \in Conns : route[c] = NoRoute \/ route[c] \in RoomIds \X (0..MaxHumans)
        /\ timer \in {"none", "armed", "spent"}
        /\ Running \subseteq RoomIds
        /\ Len(calls) <= MaxCalls /\ reader \in Conns \cup {NoConn}
    BY <1>1 DEF GInv, Shape, Routes, Rooms, Lobby, Queue
  <2>2. \A i \in DOMAIN guests : guests[i] \in [conn : Conns, seat : 0..MaxHumans]
    <3>1. guests \in Seq(Guest)
      BY <1>1 DEF GInv, Shape, Lobby
    <3>2. \A i \in DOMAIN guests : guests[i] \in Guest
      BY <3>1
    <3> QED
      BY <3>2, Zenon DEF Guest
  <2>3. \A r \in Running : rooms[r].ais \in 0..TableSize /\ rooms[r].by \in {"lobby", "queue"}
    BY <1>1 DEF GInv, Shape, Rooms, Room
  <2>4. \A i \in DOMAIN queue : queue[i] \in Conns
    BY <1>1 DEF GInv, Shape, Queue
  <2> QED
    BY <2>1, <2>2, <2>3, <2>4 DEF TypeOK
<1> QED
  BY <1>1, GatewayInvariance, PTL

(* The open lobby seats each socket once and no socket that is gone, however *)
(* guests come and go (guestLobby.ts onDisconnect, gateway.ts onClose).      *)
THEOREM LobbyHasNoGhosts == Spec => []NoGhosts
<1>1. GInv => NoGhosts
  BY DEF GInv
<1> QED
  BY <1>1, GatewayInvariance, PTL

(* The two routing tables agree on every room that runs: what a socket says  *)
(* is said by a seat that is bound to it (gateway.ts startGame, onClose).     *)
THEOREM RoutesAgree == Spec => []VoiceIsOwn
<1>1. GInv => VoiceIsOwn
  BY DEF GInv
<1> QED
  BY <1>1, GatewayInvariance, PTL

(* The rooms of the guest lobby never exceed MAX_CONCURRENT_GAMES, although  *)
(* the cap is looked at when a guest joins and not at the launch             *)
(* (guestLobby.ts requestJoin); those of the whole process may, since the    *)
(* queue forms rooms without looking (gateway.ts tryFormGame).               *)
THEOREM LobbyKeepsToTheCap == Spec => []LobbyWithinCap
<1>1. GInv => LobbyWithinCap
  BY DEF GInv, PlaceKept, FormedByLobby, LobbyWithinCap
<1> QED
  BY <1>1, GatewayInvariance, PTL
-----------------------------------------------------------------------------
(* A room that starts seats as many humans as its seating has entries. *)
LEMMA TableOf ==
  ASSUME Routes, Rooms, NEW seating, Seating(seating), NEW ai, NEW by, StartRoom(seating, ai, by),
         NEW r \in Running' \ Running
  PROVE  Humans(rooms'[r]) = Len(seating) /\ rooms'[r].ais = ai /\ rooms'[r].by = by
<1>1. PICK q \in RoomIds \ Running : Starts(q, seating, ai, by)
  BY RoomStarts, Zenon
<1>2. r = q
  BY <1>1 DEF Starts
<1>3. /\ rooms'[r].ais = ai /\ rooms'[r].by = by
      /\ DOMAIN rooms'[r].seatConns = 0..(Len(seating) - 1)
  BY <1>1, <1>2 DEF Starts
<1>4. Cardinality(0..(Len(seating) - 1)) = Len(seating)
  <2> DEFINE m == Len(seating) - 1
  <2>1. Len(seating) \in Nat
    BY DEF Seating
  <2>2. m \in Int /\ 0 \in Int /\ (0 > m => Len(seating) = 0) /\ m - 0 + 1 = Len(seating)
    BY <2>1
  <2> HIDE DEF m
  <2>3. Cardinality(0..m) = IF 0 > m THEN 0 ELSE m - 0 + 1
    BY <2>2, FS_Interval
  <2>4. Cardinality(0..m) = Len(seating)
    BY <2>2, <2>3
  <2> QED
    BY <2>4 DEF m
<1> QED
  BY <1>3, <1>4 DEF Humans

(* A table that starts: the house is at it, and one of the lobby is full.    *)
StartsFull(room) ==
  /\ room.ais >= 1 /\ Humans(room) <= MaxHumans
  /\ room.by = "lobby" => Humans(room) + room.ais = TableSize

(* A launch fills the table up. *)
LEMMA LaunchFills ==
  ASSUME GInv, NEW seating, Seating(seating), Launch(seating), NEW r \in Running' \ Running
  PROVE  StartsFull(rooms'[r]) /\ rooms'[r].by = "lobby"
<1> DEFINE ai == TableSize - Len(seating)
<1>1. /\ Len(seating) \in Nat /\ Len(seating) <= MaxHumans
      /\ ai >= 1 /\ ai \in Nat /\ Len(seating) + ai = TableSize
  BY GatewayAssumption DEF Seating
<1>2. StartRoom(seating, ai, "lobby")
  BY DEF Launch
<1> HIDE DEF ai
<1>3. Humans(rooms'[r]) = Len(seating) /\ rooms'[r].ais = ai /\ rooms'[r].by = "lobby"
  BY <1>2, TableOf DEF GInv, Shape
<1> QED
  BY <1>1, <1>3 DEF StartsFull

(* A seating in which each connection has one seat. *)
OneEach(s) == \A i, j \in DOMAIN s : s[i].conn = s[j].conn => i = j

(* What changes the rooms: a launch of the lobby, a call that forms one, a    *)
(* socket that closes and a game that ends.                                  *)
LEMMA RoomsChange ==
  ASSUME GInv, [Next]_vars
  PROVE  \/ UNCHANGED rooms
         \/ \E seating : Seating(seating) /\ OneEach(seating) /\ Launch(seating)
         \/ FormLobby
         \/ \E c \in Conns : Disconnect(c)
         \/ \E r \in RoomIds : RoomOver(r)
<1>1. ASSUME NEW c \in Guests, RequestJoin(c), rooms' # rooms
      PROVE  \E seating : Seating(seating) /\ OneEach(seating) /\ Launch(seating)
  <2> DEFINE seating == Append(guests, [conn |-> c, seat |-> Len(guests)])
  <2>1. Launch(seating)
    BY <1>1 DEF RequestJoin
  <2>2. c \in Conns /\ c \notin connLobby
    BY <1>1, GatewayAssumption DEF RequestJoin, SeatedAlready
  <2>3. Seating(seating) /\ OneEach(seating)
    BY <2>2, GuestSeated DEF OneEach
  <2> QED
    BY <2>1, <2>3
<1>2. ASSUME CountdownFires, rooms' # rooms
      PROVE  \E seating : Seating(seating) /\ OneEach(seating) /\ Launch(seating)
  <2>1. Launch(guests)
    BY <1>2 DEF CountdownFires
  <2>2. OneEach(guests)
    BY DEF GInv, NoGhosts, OneEach
  <2> QED
    BY <2>1, <2>2, LobbySeats
<1>3. ASSUME \/ \E c \in Conns : Connect(c)
             \/ \E c \in Queuers : LeaveQueue(c) \/ Enqueue(c)
             \/ ShouldStart \/ SizeUp
             \/ UNCHANGED vars
      PROVE  UNCHANGED rooms
  BY <1>3 DEF Connect, LeaveQueue, Enqueue, ShouldStart, SizeUp, GoOn, vars
<1> QED
  BY <1>1, <1>2, <1>3 DEF Next, Queueing

(* What starts a room: a launch of the lobby, or a call that forms one. *)
LEMMA WhoStarts ==
  ASSUME GInv, [Next]_vars, NEW r \in Running' \ Running
  PROVE  \/ \E seating : Seating(seating) /\ OneEach(seating) /\ Launch(seating)
         \/ FormLobby
<1>1. ASSUME UNCHANGED rooms PROVE FALSE
  BY <1>1 DEF Running
<1>2. ASSUME NEW c, Disconnect(c) PROVE FALSE
  BY <1>2 DEF Disconnect, Unbind, Running
<1>3. ASSUME NEW q, RoomOver(q) PROVE FALSE
  BY <1>3 DEF RoomOver, Running, Restrict
<1> QED
  BY <1>1, <1>2, <1>3, RoomsChange

(* A call that forms a table seats as many as it took, or as are left. *)
LEMMA TableFormed ==
  ASSUME GInv, FormLobby, NEW r \in Running' \ Running
  PROVE  /\ StartsFull(rooms'[r]) /\ rooms'[r].by = "queue"
         /\ Humans(rooms'[r]) \in {Head(calls).take, Len(queue)}
<1>1. PICK seating : Forms(seating)
  BY MembersSeat
<1> DEFINE ai == AIShare(Len(seating))
<1>2. /\ Len(seating) \in Nat /\ Len(seating) <= MaxHumans
      /\ Seating(seating) /\ StartRoom(seating, ai, "queue")
      /\ Len(seating) \in {Head(calls).take, Len(queue)}
  BY <1>1 DEF Forms, Seating
<1>3. ai \in 1..TableSize
  BY <1>2, HouseShare
<1> HIDE DEF ai
<1>4. Humans(rooms'[r]) = Len(seating) /\ rooms'[r].ais = ai /\ rooms'[r].by = "queue"
  BY <1>2, TableOf DEF GInv, Shape
<1> QED
  BY <1>2, <1>3, <1>4, GatewayAssumption DEF StartsFull

(* Every table starts with a seat of the house and at most MAX_HUMANS, and   *)
(* one of the guest lobby is full, however guests came and went before its   *)
(* launch and however many calls of join_queue overlap (guestLobby.ts launch,*)
(* queue.ts formLobby, deriveLobby).                                         *)
THEOREM TablesStartFull == Spec => TablesAreFull
<1>1. ASSUME GInv, [Next]_vars, NEW r \in Running' \ Running
      PROVE  StartsFull(rooms'[r])
  BY <1>1, WhoStarts, LaunchFills, TableFormed
<1>2. GInv /\ [Next]_vars =>
        \A r \in Running' \ Running :
          /\ rooms'[r].ais >= 1 /\ Humans(rooms'[r]) <= MaxHumans
          /\ rooms'[r].by = "lobby" => Humans(rooms'[r]) + rooms'[r].ais = TableSize
  BY <1>1 DEF StartsFull
<1> QED
  BY <1>2, GatewayInvariance, PTL DEF Spec, TablesAreFull
-----------------------------------------------------------------------------
(* A call that forms a table has counted enough for it, and no message is    *)
(* read from the chunk any more once a call of it has counted.               *)
CountedFirst ==
  /\ \A i \in DOMAIN calls : calls[i].step = "forming" => calls[i].take \in MinHumans..MaxHumans
  /\ reader # NoConn => \A i \in DOMAIN calls : calls[i].step = "joined"

(* What a turn of the first call leaves of the calls. *)
LEMMA Turns ==
  ASSUME GInv, calls # <<>>, NEW i \in DOMAIN Tail(calls)
  PROVE  i + 1 \in DOMAIN calls /\ Tail(calls)[i] = calls[i + 1]
  BY DEF GInv, Shape, Queue

LEMMA CountsStay == ASSUME GInv, CountedFirst, [Next]_vars PROVE CountedFirst'
<1>0. /\ queue \in Seq(Conns) /\ Len(queue) \in Nat /\ calls \in Seq(Call) /\ Len(calls) \in Nat
  BY DEF GInv, Shape, Queue
<1>1. ASSUME UNCHANGED <<calls, reader>> PROVE CountedFirst'
  BY <1>1 DEF CountedFirst
<1>2. ASSUME NEW c \in Queuers, Enqueue(c) PROVE CountedFirst'
  <2> DEFINE call == [step |-> "joined", take |-> 0]
  <2>1. calls' = Append(calls, call) /\ c \in Conns /\ (Quiet \/ reader = c)
    BY <1>2, GatewayAssumption DEF Enqueue, Reads
  <2>2. \A i \in DOMAIN calls : calls[i].step = "joined"
    BY <2>1, GatewayAssumption DEF CountedFirst, Quiet
  <2>3. call.step = "joined"
    OBVIOUS
  <2>4. \A i \in DOMAIN calls' : calls'[i] = call \/ (i \in DOMAIN calls /\ calls'[i] = calls[i])
    <3> HIDE DEF call
    <3> QED
      BY <1>0, <2>1
  <2> HIDE DEF call
  <2> QED
    BY <2>2, <2>3, <2>4 DEF CountedFirst
<1>3. ASSUME NEW from, NEW to, NEW take, GoOn(from, to, take),
             EnoughQueued => to = "counted" \/ take \in MinHumans..MaxHumans
      PROVE  CountedFirst'
  <2> DEFINE call == [step |-> to, take |-> take]
  <2>1. /\ calls # <<>> /\ reader' = NoConn
        /\ calls' = IF EnoughQueued THEN Append(Tail(calls), call) ELSE Tail(calls)
    BY <1>3 DEF GoOn
  <2>2. ASSUME NEW i \in DOMAIN calls'
        PROVE  \/ EnoughQueued /\ calls'[i] = call
               \/ i + 1 \in DOMAIN calls /\ calls'[i] = calls[i + 1]
    <3> HIDE DEF call
    <3>1. Tail(calls) \in Seq(Call)
      BY <1>0, <2>1
    <3>2. \/ i \in DOMAIN Tail(calls) /\ calls'[i] = Tail(calls)[i]
          \/ EnoughQueued /\ calls'[i] = call
      BY <2>1, <3>1
    <3> QED
      BY <2>1, <3>2, Turns
  <2>3. EnoughQueued /\ call.step = "forming" => call.take \in MinHumans..MaxHumans
    BY <1>3
  <2> HIDE DEF call
  <2> QED
    BY <2>1, <2>2, <2>3 DEF CountedFirst
<1>4. ASSUME ShouldStart PROVE CountedFirst'
  BY <1>3, <1>4 DEF ShouldStart
<1>5. ASSUME SizeUp PROVE CountedFirst'
  <2> DEFINE take == IF Len(queue) <= MaxHumans THEN Len(queue) ELSE MaxHumans
  <2>1. EnoughQueued => take \in MinHumans..MaxHumans
    BY <1>0, GatewayAssumption DEF EnoughQueued
  <2>2. GoOn("counted", "forming", take)
    BY <1>5 DEF SizeUp
  <2> HIDE DEF take
  <2> QED
    BY <1>3, <2>1, <2>2
<1>6. ASSUME FormLobby PROVE CountedFirst'
  <2>1. calls # <<>> /\ calls' = Tail(calls) /\ reader' = NoConn
    BY <1>6 DEF FormLobby
  <2> QED
    BY <2>1, Turns DEF CountedFirst
<1>7. ASSUME \/ \E c \in Conns : Connect(c) \/ Disconnect(c)
             \/ \E c \in Guests : RequestJoin(c)
             \/ CountdownFires
             \/ \E r \in RoomIds : RoomOver(r)
             \/ \E c \in Queuers : LeaveQueue(c)
             \/ UNCHANGED vars
      PROVE  UNCHANGED <<calls, reader>>
  BY <1>7 DEF Connect, Disconnect, RequestJoin, CountdownFires, RoomOver, LeaveQueue, vars
<1> QED
  BY <1>1, <1>2, <1>4, <1>5, <1>6, <1>7 DEF Next, Queueing

(* A call is short of members only when another was faster. *)
Overtaken ==
  /\ \A r \in Running' \ Running :
       rooms'[r].by = "queue" /\ Humans(rooms'[r]) < MinHumans => Len(queue) < Head(calls).take
  /\ (\E i \in DOMAIN calls : calls[i].step # "joined") /\ Len(queue') < Len(queue) => FormLobby

(* What is left of QueueSeatsHumans when calls of join_queue overlap: a      *)
(* table of the queue is short of MIN_HUMANS only if its call finds fewer    *)
(* queued than it had counted, and once a call has counted, only another     *)
(* call that forms a table takes members away (gateway.ts onJoinQueue,       *)
(* queue.ts formLobby).  A player who leaves the queue is never the cause.   *)
THEOREM ShortOnlyIfOvertaken == Spec => [][Overtaken]_vars
<1>1. Init => CountedFirst
  BY DEF Init, CountedFirst
<1>2. GInv /\ CountedFirst /\ [Next]_vars => CountedFirst'
  BY CountsStay
<1>3. ASSUME GInv, CountedFirst, [Next]_vars PROVE Overtaken
  <2>0. queue \in Seq(Conns) /\ Len(queue) \in Nat /\ calls \in Seq(Call)
    BY <1>3 DEF GInv, Shape, Queue
  <2>1. ASSUME NEW r \in Running' \ Running, rooms'[r].by = "queue",
               Humans(rooms'[r]) < MinHumans, ~(Len(queue) < Head(calls).take)
        PROVE  FALSE
    <3>1. FormLobby
      BY <1>3, <2>1, WhoStarts, LaunchFills
    <3>2. Head(calls).take \in MinHumans..MaxHumans
      <4>1. calls # <<>> /\ Head(calls).step = "forming"
        BY <3>1 DEF FormLobby
      <4>2. 1 \in DOMAIN calls /\ Head(calls) = calls[1]
        BY <2>0, <4>1
      <4> QED
        BY <1>3, <4>1, <4>2 DEF CountedFirst
    <3>3. Humans(rooms'[r]) \in {Head(calls).take, Len(queue)}
      BY <1>3, <2>1, <3>1, TableFormed
    <3> QED
      BY <2>0, <2>1, <3>2, <3>3, GatewayAssumption
  <2>2. ASSUME \E i \in DOMAIN calls : calls[i].step # "joined", Len(queue') < Len(queue), ~FormLobby
        PROVE  FALSE
    <3>1. reader = NoConn /\ ~Quiet
      BY <1>3, <2>2 DEF CountedFirst, Quiet
    <3>2. ASSUME NEW c \in Queuers, LeaveQueue(c) PROVE FALSE
      BY <3>1, <3>2, GatewayAssumption DEF LeaveQueue, Reads
    <3>3. ASSUME NEW c \in Queuers, Enqueue(c) PROVE FALSE
      BY <3>1, <3>3, GatewayAssumption DEF Enqueue, Reads
    <3>4. ASSUME UNCHANGED queue PROVE FALSE
      BY <2>0, <2>2, <3>4
    <3>5. ASSUME \/ \E c \in Conns : Connect(c) \/ Disconnect(c)
                 \/ \E c \in Guests : RequestJoin(c)
                 \/ CountdownFires
                 \/ \E r \in RoomIds : RoomOver(r)
                 \/ ShouldStart \/ SizeUp
                 \/ UNCHANGED vars
          PROVE  UNCHANGED queue
      BY <3>5 DEF Connect, Disconnect, RequestJoin, CountdownFires, RoomOver, ShouldStart,
                  SizeUp, GoOn, vars
    <3> QED
      BY <1>3, <2>2, <3>2, <3>3, <3>4, <3>5 DEF Next, Queueing
  <2> QED
    BY <2>1, <2>2 DEF Overtaken
<1> QED
  BY <1>1, <1>2, <1>3, GatewayInvariance, PTL DEF Spec
-----------------------------------------------------------------------------
(* The countdown of an open lobby that seats somebody runs, and no spent      *)
(* handle keeps it from being armed again.                                   *)
Timed == timer # "spent" /\ (guests # <<>> => timer = "armed")

LEMMA TimedStays == ASSUME GInv, Timed, [Next]_vars PROVE Timed'
<1>1. ASSUME NEW seating, Launch(seating) PROVE Timed'
  BY <1>1 DEF Launch, Timed
<1>2. ASSUME UNCHANGED lobby PROVE Timed'
  BY <1>2 DEF lobby, Timed
<1>3. ASSUME NEW c \in Guests, RequestJoin(c) PROVE Timed'
  <2>1. CASE timer' = IF timer = "none" THEN "armed" ELSE timer
    BY <2>1 DEF Timed, GInv, Shape, Lobby
  <2> QED
    BY <1>1, <1>3, <2>1 DEF RequestJoin
<1>4. ASSUME CountdownFires PROVE Timed'
  BY <1>1, <1>4 DEF CountdownFires, DropTimer, Timed
<1>5. ASSUME NEW c \in Conns, Disconnect(c) PROVE Timed'
  <2>1. timer' = timer /\ (guests' # <<>> => guests # <<>>)
    BY <1>5, GuestLeaves DEF Disconnect
  <2> QED
    BY <2>1 DEF Timed
<1>6. ASSUME ShouldStart \/ SizeUp \/ FormLobby PROVE Timed'
  BY <1>2, <1>6 DEF ShouldStart, SizeUp, GoOn, FormLobby
<1> QED
  BY <1>2, <1>3, <1>4, <1>5, <1>6
     DEF Next, Queueing, Connect, RoomOver, LeaveQueue, Enqueue, vars

(* Whoever waits in the guest lobby waits for a timer that runs, however     *)
(* guests join, leave and come back (guestLobby.ts requestJoin, onDisconnect,*)
(* launch): what is left to GuestsPlay is that it fires.                     *)
THEOREM GuestsAreTimed == Spec => []Timed
<1>1. Init => Timed
  BY DEF Init, Timed
<1>2. GInv /\ Timed /\ [Next]_vars => Timed'
  BY TimedStays
<1> QED
  BY <1>1, <1>2, GatewayInvariance, PTL DEF Spec
-----------------------------------------------------------------------------
(* No seat of a running room is bound to another socket, or bound again. *)
SeatsOnlyFree ==
  \A r \in Running \cap Running' : \A s \in DOMAIN rooms'[r].seatConns :
    s \in DOMAIN rooms[r].seatConns /\ rooms'[r].seatConns[s] = rooms[r].seatConns[s]

LEMMA SeatsFree == ASSUME GInv, [Next]_vars PROVE SeatsOnlyFree
<1>1. ASSUME NEW seating, Seating(seating), NEW ai, NEW by, StartRoom(seating, ai, by)
      PROVE  SeatsOnlyFree
  <2>1. PICK q \in RoomIds \ Running : Starts(q, seating, ai, by)
    BY <1>1, RoomStarts, Zenon DEF GInv, Shape
  <2>2. \A x \in Running : rooms'[x] = rooms[x]
    BY <2>1 DEF Starts
  <2> QED
    BY <2>2 DEF SeatsOnlyFree
<1>2. ASSUME UNCHANGED rooms PROVE SeatsOnlyFree
  BY <1>2 DEF SeatsOnlyFree
<1>3. ASSUME NEW seating, Seating(seating), Launch(seating) PROVE SeatsOnlyFree
  <2>1. StartRoom(seating, TableSize - Len(seating), "lobby")
    BY <1>3 DEF Launch
  <2> QED
    BY <1>1, <1>3, <2>1
<1>4. ASSUME FormLobby PROVE SeatsOnlyFree
  <2>1. PICK seating : Forms(seating)
    BY <1>4, MembersSeat
  <2> QED
    BY <1>1, <2>1 DEF Forms
<1>5. ASSUME NEW c \in Conns, Disconnect(c) PROVE SeatsOnlyFree
  <2> SUFFICES ASSUME NEW r \in Running, NEW s \in DOMAIN rooms'[r].seatConns
               PROVE  s \in DOMAIN rooms[r].seatConns /\ rooms'[r].seatConns[s] = rooms[r].seatConns[s]
    BY DEF SeatsOnlyFree
  <2> DEFINE sc == rooms[r].seatConns
  <2>1. rooms[r] \in Room(r)
    BY DEF GInv, Shape, Rooms
  <2>2. rooms'[r] = IF r = route[c][1]
                    THEN [rooms[r] EXCEPT !.seatConns = Restrict(@, DOMAIN @ \ {route[c][2]})]
                    ELSE rooms[r]
    BY <1>5 DEF Disconnect, Unbind, Running
  <2>3. rooms'[r].seatConns = sc \/ rooms'[r].seatConns = Restrict(sc, DOMAIN sc \ {route[c][2]})
    BY <2>1, <2>2 DEF Room
  <2> HIDE DEF sc
  <2>4. s \in DOMAIN sc /\ rooms'[r].seatConns[s] = sc[s]
    BY <2>3 DEF Restrict
  <2> QED
    BY <2>4 DEF sc
<1>6. ASSUME NEW q \in RoomIds, RoomOver(q) PROVE SeatsOnlyFree
  <2>1. \A x \in Running' : rooms'[x] = rooms[x]
    BY <1>6 DEF RoomOver, Running, Restrict
  <2> QED
    BY <2>1 DEF SeatsOnlyFree
<1> QED
  BY <1>2, <1>3, <1>4, <1>5, <1>6, RoomsChange

(* A seat of a running room is bound when the room starts; its socket may    *)
(* close, but nobody, the same player on another socket included, is given   *)
(* the seat afterwards (gateway.ts startRoom, onClose).                      *)
THEOREM SeatsNeverRebound == Spec => [][SeatsOnlyFree]_vars
<1>1. GInv /\ [Next]_vars => SeatsOnlyFree
  BY SeatsFree
<1> QED
  BY <1>1, GatewayInvariance, PTL DEF Spec
-----------------------------------------------------------------------------
(* The queue holds a connection once. *)
QueuedOnce == \A i, j \in DOMAIN queue : queue[i] = queue[j] => i = j

(* A running room binds a connection to one seat. *)
OneSeatEach ==
  \A r \in Running : \A s, t \in DOMAIN rooms[r].seatConns :
    rooms[r].seatConns[s] = rooms[r].seatConns[t] => s = t

(* No step puts a member into the queue again. *)
LEMMA QueueStays == ASSUME GInv, QueuedOnce, [Next]_vars PROVE QueuedOnce'
<1>0. queue \in Seq(Conns) /\ Len(queue) \in Nat /\ DOMAIN queue = 1..Len(queue)
  BY DEF GInv, Shape, Queue
<1>1. ASSUME UNCHANGED queue PROVE QueuedOnce'
  BY <1>1 DEF QueuedOnce
<1>2. ASSUME NEW c \in Queuers, Enqueue(c) PROVE QueuedOnce'
  <2>1. CASE Contains(queue, c)
    BY <1>1, <1>2, <2>1 DEF Enqueue
  <2>2. CASE ~Contains(queue, c)
    <3>1. queue' = Append(queue, c) /\ c \in Conns
      BY <1>2, <2>2, GatewayAssumption DEF Enqueue
    <3>2. \A i \in DOMAIN queue : queue[i] # c
      BY <1>0, <2>2 DEF Contains
    <3>3. /\ DOMAIN queue' = 1..(Len(queue) + 1) /\ queue'[Len(queue) + 1] = c
          /\ \A i \in 1..Len(queue) : queue'[i] = queue[i]
      BY <1>0, <3>1
    <3> QED
      BY <1>0, <3>2, <3>3 DEF QueuedOnce
  <2> QED
    BY <2>1, <2>2
<1>3. ASSUME NEW c \in Queuers, LeaveQueue(c) PROVE QueuedOnce'
  <2>1. PICK i \in DOMAIN queue : queue' = RemoveAt(queue, i)
    BY <1>3 DEF LeaveQueue
  <2> DEFINE n == Len(queue) - 1
             from(j) == IF j < i THEN j ELSE j + 1
  <2>2. queue' \in Seq(Conns) /\ Len(queue') = n /\ \A j \in 1..n : queue'[j] = queue[from(j)]
    BY <1>0, <2>1, Removed
  <2>3. DOMAIN queue' = 1..n
    BY <2>2
  <2>4. \A j \in 1..n : from(j) \in DOMAIN queue
    BY <1>0
  <2>5. \A j, k \in 1..n : j # k => from(j) # from(k)
    BY <1>0
  <2> HIDE DEF n, from
  <2> QED
    BY <2>2, <2>3, <2>4, <2>5 DEF QueuedOnce
<1>4. ASSUME FormLobby PROVE QueuedOnce'
  <2> DEFINE take == Head(calls).take
             n == IF take <= Len(queue) THEN take ELSE Len(queue)
  <2>1. queue' = SubSeq(queue, n + 1, Len(queue)) /\ take \in 0..MaxHumans
    <3>1. queue' = SubSeq(queue, n + 1, Len(queue)) /\ calls # <<>> /\ calls \in Seq(Call)
      BY <1>4 DEF FormLobby, GInv, Shape, Queue
    <3>2. Head(calls) \in Call
      BY <3>1
    <3> QED
      BY <3>1, <3>2 DEF Call
  <2> HIDE DEF take
  <2>2. n \in 0..Len(queue)
    BY <1>0, <2>1, GatewayAssumption
  <2> HIDE DEF n
  <2>3. \A i \in DOMAIN queue' : i + n \in DOMAIN queue /\ queue'[i] = queue[i + n] /\ i \in Nat
    BY <1>0, <2>1, <2>2
  <2> QED
    BY <2>2, <2>3 DEF QueuedOnce
<1>5. ASSUME ShouldStart \/ SizeUp PROVE QueuedOnce'
  BY <1>1, <1>5 DEF ShouldStart, SizeUp, GoOn
<1> QED
  BY <1>1, <1>2, <1>3, <1>4, <1>5
     DEF Next, Queueing, Connect, Disconnect, RequestJoin, CountdownFires, RoomOver, vars

(* A room that starts seats each connection of its seating once. *)
LEMMA StartsWithOneEach ==
  ASSUME GInv, NEW seating, Seating(seating), OneEach(seating), NEW ai, NEW by,
         StartRoom(seating, ai, by), NEW r \in Running' \ Running,
         NEW s \in DOMAIN rooms'[r].seatConns, NEW t \in DOMAIN rooms'[r].seatConns,
         rooms'[r].seatConns[s] = rooms'[r].seatConns[t]
  PROVE  s = t
<1>1. PICK q \in RoomIds \ Running : Starts(q, seating, ai, by)
  BY RoomStarts, Zenon DEF GInv, Shape
<1>2. rooms'[r].seatConns = [x \in 0..(Len(seating) - 1) |-> seating[x + 1].conn]
  BY <1>1 DEF Starts
<1>3. s \in 0..(Len(seating) - 1) /\ t \in 0..(Len(seating) - 1) /\ DOMAIN seating = 1..Len(seating) /\ Len(seating) \in Nat
  BY <1>2 DEF Seating
<1>4. seating[s + 1].conn = seating[t + 1].conn
  BY <1>2, <1>3
<1>5. s + 1 = t + 1
  BY <1>3, <1>4 DEF OneEach
<1> QED
  BY <1>3, <1>5

LEMMA OneSeatStays ==
  ASSUME GInv, QueuedOnce, OneSeatEach, [Next]_vars
  PROVE  OneSeatEach'
<1> SUFFICES ASSUME NEW r \in Running', NEW s \in DOMAIN rooms'[r].seatConns,
                    NEW t \in DOMAIN rooms'[r].seatConns,
                    rooms'[r].seatConns[s] = rooms'[r].seatConns[t]
             PROVE  s = t
  BY DEF OneSeatEach
<1>1. CASE r \in Running
  BY <1>1, SeatsFree DEF SeatsOnlyFree, OneSeatEach
<1>2. CASE r \notin Running
  <2>1. ASSUME NEW seating, Seating(seating), OneEach(seating), Launch(seating) PROVE s = t
    <3>1. StartRoom(seating, TableSize - Len(seating), "lobby")
      BY <2>1 DEF Launch
    <3> QED
      BY <1>2, <2>1, <3>1, StartsWithOneEach
  <2>2. ASSUME FormLobby PROVE s = t
    <3>1. PICK seating : Forms(seating)
      BY <2>2, MembersSeat
    <3>2. /\ Seating(seating) /\ StartRoom(seating, AIShare(Len(seating)), "queue")
          /\ \A i \in DOMAIN seating : i \in DOMAIN queue /\ seating[i].conn = queue[i]
      BY <3>1 DEF Forms
    <3>3. OneEach(seating)
      BY <3>2 DEF OneEach, QueuedOnce
    <3> QED
      BY <1>2, <3>2, <3>3, StartsWithOneEach
  <2> QED
    BY <1>2, <2>1, <2>2, WhoStarts
<1> QED
  BY <1>1, <1>2

(* A table never seats a socket twice, however many join_queue calls overlap *)
(* and however often a socket asks: what OneTable asks of two tables is kept *)
(* within each (gateway.ts onJoinQueue, queue.ts enqueue, guestLobby.ts      *)
(* requestJoin).                                                             *)
THEOREM NobodyPlaysThemselves == Spec => [](QueuedOnce /\ OneSeatEach)
<1>1. Init => QueuedOnce /\ OneSeatEach
  BY DEF Init, QueuedOnce, OneSeatEach, Running
<1>2. GInv /\ QueuedOnce /\ OneSeatEach /\ [Next]_vars => QueuedOnce' /\ OneSeatEach'
  BY QueueStays, OneSeatStays
<1> QED
  BY <1>1, <1>2, GatewayInvariance, PTL DEF Spec
=============================================================================
