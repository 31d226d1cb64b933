------------------------------ MODULE Gateway ------------------------------
(***************************************************************************)
(* The websocket gateway (ws/gateway.ts) in guest mode: connections, the     *)
(* guest lobby (matchmaking/guestLobby.ts), the matchmaking queue            *)
(* (matchmaking/queue.ts over the in-memory store.ts), the rooms they start  *)
(* and the tables that route a socket to its seat and a seat to its socket.  *)
(*                                                                          *)
(* Every handler runs to its end without a pause, except onJoinQueue: its    *)
(* awaits are microtasks, which run before the next event of the process     *)
(* but after the messages that ws read in one chunk from the same socket.    *)
(* So calls of onJoinQueue overlap only if one socket made them (Reads), and *)
(* then they are all made before any of them goes on.                        *)
(*                                                                          *)
(* Ids of connections and rooms are fresh in the code; here an id is used    *)
(* again once nothing refers to it.  A room is over when its Game says so    *)
(* (onComplete): when that is, is module Game's affair.                      *)
(* Definitions named X_Word are mutated forms of X (see PROJECT.json).      *)
(***************************************************************************)
EXTENDS Integers, Sequences, FiniteSets, SequencesExt, FiniteSetsExt, Functions

CONSTANTS Conns,                  \* connections
          Guests, Queuers,        \* those that ask for a guest seat; that queue
          RoomIds,                \* bound on rooms that run or are referred to
          Spare,                  \* bound: ids the queue leaves to the lobby
          MaxCalls,               \* bound on join_queue messages in one chunk
          TableSize,              \* SEATS
          MinHumans, MaxHumans,
          MaxGames,               \* MAX_CONCURRENT_GAMES
          NoConn

ASSUME GatewayAssumption ==
  /\ Guests \cup Queuers \subseteq Conns /\ NoConn \notin Conns
  /\ RoomIds \subseteq Nat \ {0}
  /\ MinHumans \in Nat \ {0} /\ MaxHumans \in Nat /\ MinHumans <= MaxHumans
  /\ TableSize \in Nat /\ MaxHumans < TableSize
  /\ MaxGames \in Nat /\ Spare \in Nat /\ MaxCalls \in Nat

VARIABLES
  live,       \* this.conns
  route,      \* route[c]: room and seat of ctx.gameId, ctx.seatId
  guests,     \* the guests of the open lobby: records of conn and seat
  connLobby,  \* the connections whose connLobby entry is the open lobby
  timer,      \* its countdown: no timer, an armed one, a handle that is spent
  rooms,      \* rooms[r]: seatConns, the number of AI seats, who formed it
  queue,      \* the FIFO of the store
  calls,      \* the onJoinQueue calls in the order their microtasks run
  reader      \* the socket whose chunk of messages is being read

lobby == <<guests, connLobby, timer>>
vars == <<live, route, lobby, rooms, queue, calls, reader>>

NoRoute == <<0, 0>>

Init ==
  /\ live = {}
  /\ route = [c \in Conns |-> NoRoute]
  /\ guests = <<>> /\ connLobby = {} /\ timer = "none"
  /\ rooms = << >>
  /\ queue = <<>>
  /\ calls = <<>> /\ reader = NoConn

Running == DOMAIN rooms
FreshRooms == RoomIds \ (Running \cup {route[c][1] : c \in Conns})
Referred(c) ==
  \/ \E i \in DOMAIN queue : queue[i] = c
  \/ \E i \in DOMAIN guests : guests[i].conn = c
  \/ \E r \in Running : c \in Range(rooms[r].seatConns)

Quiet == calls = <<>>
Reads(c) ==
  /\ c \in live
  /\ Quiet \/ reader = c
-----------------------------------------------------------------------------
(* A room for a seating (a sequence of conn and seat): seats are bound to    *)
(* their connections, and the connections that are still there to the seats. *)
(* A later entry for the same seat, or connection, replaces an earlier one.  *)
LastFor(seating, Is(_)) == Max({i \in DOMAIN seating : Is(seating[i])})
StartRoom(seating, ai, by) ==
  LET r == Min(FreshRooms)
      sits(c) == \E i \in DOMAIN seating : seating[i].conn = c
  IN  /\ FreshRooms # {}
      /\ rooms' = [x \in Running \cup {r} |->
           IF x # r THEN rooms[x] ELSE
             [seatConns |-> [s \in {seating[i].seat : i \in DOMAIN seating} |->
                LET last == LastFor(seating, LAMBDA e : e.seat = s)
                IN  seating[last].conn],
              ais |-> ai, by |-> by]]
      /\ route' = [c \in Conns |->
           IF c \in live /\ sits(c)
           THEN LET last == LastFor(seating, LAMBDA e : e.conn = c)
                IN  <<r, seating[last].seat>>
           ELSE route[c]]

(* launch: the table is filled up with AI and the next lobby opens. *)
Launch(seating) ==
  /\ StartRoom(seating, TableSize - Len(seating), "lobby")
  /\ guests' = <<>> /\ connLobby' = {} /\ timer' = "none"

AtCapacity_OneMore == Cardinality(Running) > MaxGames
AtCapacity == Cardinality(Running) >= MaxGames

Full(seating) == Len(seating) >= MaxHumans

SeatedAlready_Never(c) == FALSE
SeatedAlready(c) == c \in connLobby

(* request_join: a seat at once; the first guest arms the countdown, the     *)
(* last one launches.  The other answers (resend, server_busy) change        *)
(* nothing.                                                                  *)
RequestJoin(c) ==
  /\ Reads(c)
  /\ ~SeatedAlready(c)
  /\ ~AtCapacity
  /\ LET seating == Append(guests, [conn |-> c, seat |-> Len(guests)])
     IN  \/ /\ Full(seating)
            /\ Launch(seating)
         \/ /\ ~Full(seating)
            /\ guests' = seating
            /\ connLobby' = connLobby \cup {c}
            /\ timer' = IF timer = "none" THEN "armed" ELSE timer
            /\ UNCHANGED <<rooms, route>>
  /\ UNCHANGED <<live, queue, calls, reader>>

DropTimer_Keeps == timer' = "spent"
DropTimer == timer' = "none"

CountdownFires ==
  /\ Quiet /\ timer = "armed"
  /\ \/ /\ guests = <<>>
        /\ DropTimer
        /\ UNCHANGED <<guests, connLobby, rooms, route>>
     \/ /\ guests # <<>>
        /\ Launch(guests)
  /\ UNCHANGED <<live, queue, calls, reader>>
-----------------------------------------------------------------------------
Connect(c) ==
  /\ Quiet
  /\ c \notin live /\ ~Referred(c)
  /\ live' = live \cup {c}
  /\ UNCHANGED <<route, lobby, rooms, queue, calls, reader>>

(* Drop the i-th guest; the others move up. *)
Unseat_KeepSeats(s, i) == RemoveAt(s, i)
Unseat(s, i) ==
  LET rest == RemoveAt(s, i)
  IN  [j \in DOMAIN rest |-> [rest[j] EXCEPT !.seat = j - 1]]

Unbind(c) ==
  [r \in Running |->
     IF r = route[c][1]
     THEN [rooms[r] EXCEPT !.seatConns = Restrict(@, DOMAIN @ \ {route[c][2]})]
     ELSE rooms[r]]

Forget_Kept(c) == connLobby
Forget(c) == connLobby \ {c}

(* onClose, for a socket that closed or that pingAll terminated.  The        *)
(* countdown goes on and the queue keeps its member.                         *)
Disconnect(c) ==
  /\ Quiet /\ c \in live
  /\ live' = live \ {c}
  /\ connLobby' = Forget(c)
  /\ LET mine == {i \in DOMAIN guests : guests[i].conn = c}
     IN  guests' = IF c \in connLobby /\ mine # {}
                   THEN Unseat(guests, Min(mine)) ELSE guests
  /\ rooms' = Unbind(c)
  /\ route' = [route EXCEPT ![c] = NoRoute]
  /\ UNCHANGED <<timer, queue, calls, reader>>

RoomOver(r) ==
  /\ Quiet /\ r \in Running
  /\ rooms' = Restrict(rooms, Running \ {r})
  /\ UNCHANGED <<live, route, lobby, queue, calls, reader>>
-----------------------------------------------------------------------------
(* join_queue, one step per await.  Calls of a chunk take turns: the first   *)
(* takes its step and awaits behind the others, or is over.  Bound: room ids *)
(* are left for the rooms the calls and the lobby may form.                  *)
Enqueue(c) ==
  /\ Reads(c) /\ Len(calls) < MaxCalls
  /\ Cardinality(FreshRooms) > Len(calls) + Spare
  /\ queue' = IF Contains(queue, c) THEN queue ELSE Append(queue, c)
  /\ calls' = Append(calls, [step |-> "joined", take |-> 0])
  /\ reader' = c
  /\ UNCHANGED <<live, route, lobby, rooms>>

LeaveQueue(c) ==
  /\ Reads(c)
  /\ \E i \in DOMAIN queue :
       /\ queue[i] = c /\ \A j \in 1..(i - 1) : queue[j] # c
       /\ queue' = RemoveAt(queue, i)
  /\ UNCHANGED <<live, route, lobby, rooms, calls, reader>>

EnoughQueued == Len(queue) >= MinHumans

(* The first call goes on to step when enough are queued, and is over        *)
(* otherwise.  A microtask runs, so the chunk has been read to its end.      *)
GoOn(from, to, take) ==
  /\ calls # <<>> /\ Head(calls).step = from
  /\ calls' = IF EnoughQueued
              THEN Append(Tail(calls), [step |-> to, take |-> take]) ELSE Tail(calls)
  /\ reader' = NoConn
  /\ UNCHANGED <<live, route, lobby, rooms, queue>>

ShouldStart == GoOn("joined", "counted", 0)

SizeUp ==
  GoOn("counted", "forming",
       IF Len(queue) <= MaxHumans THEN Len(queue) ELSE MaxHumans)

Clamp(n, lo, hi) == IF n < lo THEN lo ELSE IF n > hi THEN hi ELSE n
AIShare(n) == Clamp(TableSize - Clamp(n, MinHumans, MaxHumans), 1, 4)

(* The members are popped and play at once. *)
FormLobby ==
  /\ calls # <<>> /\ Head(calls).step = "forming"
  /\ LET take == Head(calls).take
         n == IF take <= Len(queue) THEN take ELSE Len(queue)
         members == SubSeq(queue, 1, n)
     IN  /\ queue' = SubSeq(queue, n + 1, Len(queue))
         /\ StartRoom([i \in DOMAIN members |->
                         [conn |-> members[i], seat |-> i - 1]], AIShare(n), "queue")
  /\ calls' = Tail(calls)
  /\ reader' = NoConn
  /\ UNCHANGED <<live, lobby>>
-----------------------------------------------------------------------------
Queueing ==
  \/ \E c \in Queuers : Enqueue(c) \/ LeaveQueue(c)
  \/ ShouldStart \/ SizeUp \/ FormLobby

Next ==
  \/ \E c \in Conns : Connect(c) \/ Disconnect(c)
  \/ \E c \in Guests : RequestJoin(c)
  \/ CountdownFires
  \/ \E r \in RoomIds : RoomOver(r)
  \/ Queueing

(* A timer that is due fires, however many messages the event loop handles   *)
(* in between, and a microtask runs; sockets and games are free to do as     *)
(* they like.                                                                *)
Spec ==
  /\ Init /\ [][Next]_vars
  /\ SF_vars(CountdownFires)
  /\ WF_vars(ShouldStart \/ SizeUp \/ FormLobby)
-----------------------------------------------------------------------------
TypeOK ==
  /\ live \subseteq Conns /\ connLobby \subseteq live
  /\ \A c \in Conns : route[c] = NoRoute \/ route[c] \in RoomIds \X (0..MaxHumans)
  /\ \A i \in DOMAIN guests : guests[i] \in [conn : Conns, seat : 0..MaxHumans]
  /\ timer \in {"none", "armed", "spent"}
  /\ Running \subseteq RoomIds
  /\ \A r \in Running : rooms[r].ais \in 0..TableSize /\ rooms[r].by \in {"lobby", "queue"}
  /\ \A i \in DOMAIN queue : queue[i] \in Conns
  /\ Len(calls) <= MaxCalls /\ reader \in Conns \cup {NoConn}

(* The rooms of the guest lobby keep to the cap, which is checked when a     *)
(* guest joins and not when the lobby launches: one lobby is open at a time, *)
(* and a seated guest keeps the place of its room from other guests.  It     *)
(* does not keep it from the queue, which never asks for the cap: all rooms  *)
(* of the process together may exceed it.                                    *)
LobbyWithinCap == Cardinality({r \in Running : rooms[r].by = "lobby"}) <= MaxGames

(* A table starts with the house at it ("every lobby keeps at least one AI  *)
(* seat") and no more humans than leave it a seat, however calls of          *)
(* join_queue overlap; one of the lobby is full, however guests came and     *)
(* went and were renumbered.                                                 *)
Humans(room) == Cardinality(DOMAIN room.seatConns)
TablesAreFull ==
  [][\A r \in Running' \ Running :
       /\ rooms'[r].ais >= 1 /\ Humans(rooms'[r]) <= MaxHumans
       /\ rooms'[r].by = "lobby" => Humans(rooms'[r]) + rooms'[r].ais = TableSize]_vars

(* formLobby of queue.ts "returns null if fewer than MIN_HUMANS are          *)
(* available": a table of the queue starts with its humans.                  *)
QueueSeatsHumans ==
  [][\A r \in Running' \ Running :
       rooms'[r].by = "queue" => Humans(rooms'[r]) >= MinHumans]_vars

(* The open lobby seats each connection at most once and no connection that  *)
(* is gone, and connLobby knows every one of them.                           *)
NoGhosts ==
  /\ \A i, j \in DOMAIN guests : guests[i].conn = guests[j].conn => i = j
  /\ {guests[i].conn : i \in DOMAIN guests} = connLobby

(* What a socket says is said by a seat that is bound to it: the two routing *)
(* tables agree on every running room.                                       *)
VoiceIsOwn ==
  \A c \in live : route[c][1] \in Running =>
    LET room == rooms[route[c][1]]
    IN  route[c][2] \in DOMAIN room.seatConns /\ room.seatConns[route[c][2]] = c

(* Whoever is seated plays or leaves: no order of joining and leaving loses  *)
(* the countdown ("never hangs").                                            *)
GuestsPlay == \A c \in Guests : c \in connLobby ~> c \notin connLobby

(* use-lobby-join.ts of a request_join on every connect, retry and mount:    *)
(* "idempotent server-side, so a repeat request_join is harmless".  A socket *)
(* that asks twice has one seat.                                             *)
OneTable ==
  \A c \in Conns : \A r, q \in Running :
    \A s \in DOMAIN rooms[r].seatConns, t \in DOMAIN rooms[q].seatConns :
      rooms[r].seatConns[s] = c /\ rooms[q].seatConns[t] = c => r = q /\ s = t
=============================================================================
