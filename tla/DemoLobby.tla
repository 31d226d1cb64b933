------------------------------ MODULE DemoLobby ------------------------------
(***************************************************************************)
(* The paid lobby (matchmaking/demoLobby.ts) over the escrow contract       *)
(* (module Escrow), with the transactions of chain/ChainService.ts between  *)
(* them: writeContract answers with a hash when the transaction is sent, so *)
(* it lands, or reverts, later and in the order of the account's nonces.    *)
(*                                                                          *)
(* A game that is launched is only a room here: module Game has the rest.   *)
(* All that matters of it is the settlement it sends when it is over, which *)
(* conserves the pool the room started with (Game!SettlementSound).         *)
(* requestJoin changes nothing once a lobby is open and is left out, and    *)
(* the per-connection connSeat map is written but never read.               *)
(* Definitions named X_Word are mutated forms of X (see PROJECT.json).      *)
(***************************************************************************)
EXTENDS Integers, Sequences, FiniteSets, SequencesExt, FiniteSetsExt

CONSTANTS Games,        \* ids freshGameId may mint
          Joinable,     \* bound: the games that clients pay for and claim to
          Players,      \* wallets
          Conns,        \* connections; each connects once
          BuyIn,        \* BUY_IN_WEI, and the escrow's buyIn
          Key,          \* the server's signing key
          MaxPlayers, MinPlayers,   \* of the escrow
          MaxHumans, MinHumans,     \* of config.ts
          RpcFails,     \* calls to the chain may be refused
          NoGame

ASSUME LobbyAssumption ==
  /\ IsFiniteSet(Games) /\ IsFiniteSet(Players) /\ Joinable \subseteq Games
  /\ BuyIn \in Nat \ {0}
  /\ MaxPlayers \in Nat /\ MinPlayers \in Nat
  /\ MinHumans \in Nat \ {0} /\ MaxHumans \in Nat
  /\ RpcFails \in BOOLEAN
  /\ NoGame \notin Games

VARIABLES
  status, price, pool, count, deposit, owed, buyIn, serverSigner, paused,
  treasury, balance,  \* the escrow
  current,    \* this.current.gameId
  opening,    \* the game whose createGame is awaited (this.opening)
  humans,     \* humans[g]: the seated humans, records of conn, addr, seat
  started,    \* the games whose roster is frozen
  countdown,  \* countdown[g]: no timer, an armed one, or a handle that is spent
  locking,    \* the games whose lockGame is awaited
  rooms,      \* startPool of each room of the gateway
  live, gone, \* connections that are open, that were closed
  confirms,   \* the confirmPayment calls that poll the escrow
  txs         \* transactions of the game manager that have not landed

chain == <<status, price, pool, count, deposit, owed, buyIn, serverSigner,
           paused, treasury, balance>>
lobby == <<current, opening, humans, started, countdown>>
vars == <<chain, lobby, locking, rooms, live, gone, confirms, txs>>

E == INSTANCE Escrow WITH Prices <- {BuyIn}, Signers <- {Key}, MaxListed <- 0

Launched == DOMAIN rooms
Fresh == {g \in Games : g # current /\ g # opening /\ g \notin started}
SeatedAddrs(g) == {humans[g][i].addr : i \in DOMAIN humans[g]}

Init ==
  /\ E!Init /\ treasury
  /\ current = NoGame
  /\ \E g \in Games : opening = g           \* listen() calls init()
  /\ humans = [g \in Games |-> <<>>]
  /\ started = {}
  /\ countdown = [g \in Games |-> "none"]
  /\ locking = {}
  /\ rooms = << >>
  /\ live = {} /\ gone = {}
  /\ confirms = {}
  /\ txs = <<>>
-----------------------------------------------------------------------------
(* A call to the chain sends its transaction, or throws and is logged. *)
Submit(tx) == txs' = Append(txs, tx) \/ (RpcFails /\ UNCHANGED txs)

OpenedGame_IfCreated(g) ==
  current' = (IF txs' = txs THEN current ELSE g) /\ opening' = NoGame

(* The rest of openNextGame, after the await: the lobby opens even when      *)
(* createGame failed.                                                        *)
OpenedGame(g) == current' = g /\ opening' = NoGame

CreateAnswered(g) ==
  /\ opening = g
  /\ Submit([op |-> "create", game |-> g])
  /\ OpenedGame(g)
  /\ UNCHANGED <<chain, humans, started, countdown, locking, rooms, live, gone,
                 confirms>>

Connect(c) ==
  /\ c \notin live \cup gone
  /\ live' = live \cup {c}
  /\ UNCHANGED <<chain, lobby, locking, rooms, gone, confirms, txs>>

(* confirmPayment up to its await; a call that is rejected changes nothing. *)
ConfirmPayment(c, g, a) ==
  /\ c \in live
  /\ current = g
  /\ g \notin started
  /\ Len(humans[g]) < MaxHumans
  /\ a \notin SeatedAddrs(g)
  /\ confirms' = confirms \cup {[conn |-> c, game |-> g, addr |-> a]}
  /\ UNCHANGED <<chain, lobby, locking, rooms, live, gone, txs>>

(* maybeStartCountdown, on the roster as it is left. *)
MaybeStartCountdown(g) ==
  countdown' = IF countdown[g] = "none" /\ Len(humans'[g]) >= MinHumans
               THEN [countdown EXCEPT ![g] = "armed"] ELSE countdown

(* What is checked again after the await. *)
StillOpen_NoAddr(k) == current = k.game /\ k.game \notin started
StillOpen_AnyPhase(k) == k.addr \notin SeatedAddrs(k.game)
StillOpen(k) ==
  /\ current = k.game /\ k.game \notin started
  /\ k.addr \notin SeatedAddrs(k.game)

Verified_Trusting(k) == TRUE
Verified(k) == deposit[k.game][k.addr] >= BuyIn

(* verifyDeposit sees the deposit: the human gets the next seat.  Nobody     *)
(* looks whether the connection is still there.                              *)
DepositSeen(k) ==
  /\ Verified(k)
  /\ confirms' = confirms \ {k}
  /\ \/ /\ StillOpen(k)
        /\ humans' = [humans EXCEPT ![k.game] =
             Append(@, [conn |-> k.conn, addr |-> k.addr, seat |-> Len(@)])]
        /\ MaybeStartCountdown(k.game)
     \/ /\ ~StillOpen(k)
        /\ UNCHANGED <<humans, countdown>>
  /\ UNCHANGED <<chain, current, opening, started, locking, rooms, live, gone, txs>>

(* The retries are used up: payment_not_found. *)
DepositNotSeen(k) ==
  /\ confirms' = confirms \ {k}
  /\ UNCHANGED <<chain, lobby, locking, rooms, live, gone, txs>>

(* The countdown fires: launch up to the await of lockGame.  Its other guard, *)
(* g = current and not started, always holds (CountdownMeansQuorum).         *)
Launch(g) ==
  LET enough == Len(humans[g]) >= MinHumans
  IN  /\ countdown[g] = "armed"
      /\ g = current /\ g \notin started
      /\ countdown' = [countdown EXCEPT ![g] = IF enough THEN "spent" ELSE "none"]
      /\ started' = started \cup {h \in {g} : enough}
      /\ locking' = locking \cup {h \in {g} : enough}
      /\ UNCHANGED <<chain, current, opening, humans, rooms, live, gone,
                     confirms, txs>>

(* The rest of launch: the next lobby opens before the room starts.  Bound:  *)
(* there is no next one when the ids are used up.                            *)
LockAnswered(g) ==
  /\ g \in locking
  /\ Submit([op |-> "lock", game |-> g])
  /\ locking' = locking \ {g}
  /\ IF opening = NoGame /\ Fresh # {} THEN opening' \in Fresh ELSE UNCHANGED opening
  /\ rooms' = [h \in Launched \cup {g} |->
                 IF h = g THEN Len(humans[g]) * BuyIn ELSE rooms[h]]
  /\ UNCHANGED <<chain, current, humans, started, countdown, live, gone, confirms>>

(* Drop the i-th human and re-index the seats of the others. *)
Unseat_KeepSeats(s, i) == RemoveAt(s, i)
Unseat(s, i) ==
  LET rest == RemoveAt(s, i)
  IN  [j \in DOMAIN rest |-> [rest[j] EXCEPT !.seat = j - 1]]

CancelCountdown_Keeps(g) == UNCHANGED countdown
CancelCountdown_NotCleared(g) ==
  countdown' = IF countdown[g] # "none" /\ Len(humans'[g]) < MinHumans
               THEN [countdown EXCEPT ![g] = "spent"] ELSE countdown
CancelCountdown(g) ==
  countdown' = IF countdown[g] # "none" /\ Len(humans'[g]) < MinHumans
               THEN [countdown EXCEPT ![g] = "none"] ELSE countdown

Leaves(c, g) ==
  /\ g # NoGame /\ g \notin started
  /\ \E i \in DOMAIN humans[g] : humans[g][i].conn = c

(* A socket closes: gateway.onClose, which calls onDisconnect.  Only the     *)
(* first seat of the connection in the open lobby is freed.                  *)
Disconnect(c) ==
  /\ c \in live
  /\ live' = live \ {c} /\ gone' = gone \cup {c}
  /\ \/ /\ Leaves(c, current)
        /\ \E i \in DOMAIN humans[current] :
             /\ humans[current][i].conn = c
             /\ \A j \in 1..(i - 1) : humans[current][j].conn # c
             /\ humans' = [humans EXCEPT ![current] = Unseat(@, i)]
        /\ CancelCountdown(current)
     \/ /\ ~Leaves(c, current)
        /\ UNCHANGED <<humans, countdown>>
  /\ UNCHANGED <<chain, current, opening, started, locking, rooms, confirms, txs>>

(* The room of g is over: its settlement, signed for the funders among the   *)
(* seated, divides the pool the room started with.                           *)
GameOver(g) ==
  /\ g \in Launched
  /\ \E S \in SUBSET SeatedAddrs(g), each \in 0..rooms[g] :
       /\ each * Cardinality(S) <= rooms[g]
       /\ Submit([op |-> "settle", game |-> g, to |-> S, each |-> each,
                  house |-> rooms[g] - each * Cardinality(S)])
  /\ rooms' = [h \in Launched \ {g} |-> rooms[h]]
  /\ UNCHANGED <<chain, lobby, locking, live, gone, confirms>>
-----------------------------------------------------------------------------
(* The chain.  A transaction that lands runs, or reverts and changes nothing. *)
Settlement(tx) ==
  [gameId |-> tx.game, survivors |-> SetToSeq(tx.to),
   payouts |-> [i \in 1..Cardinality(tx.to) |-> tx.each], house |-> tx.house]
Runs(tx) ==
  \/ tx.op = "create" /\ E!CreateGame(tx.game)
  \/ tx.op = "lock" /\ E!LockGame(tx.game)
  \/ tx.op = "settle" /\ E!Settle(Settlement(tx), Key, {})
Land ==
  /\ txs # <<>>
  /\ txs' = Tail(txs)
  /\ Runs(Head(txs)) \/ (~ENABLED Runs(Head(txs)) /\ UNCHANGED chain)
  /\ UNCHANGED <<lobby, locking, rooms, live, gone, confirms>>

(* A wallet pays the buy-in. *)
Pay(g, a) ==
  /\ E!Join(g, a, BuyIn)
  /\ UNCHANGED <<lobby, locking, rooms, live, gone, confirms, txs>>
-----------------------------------------------------------------------------
Server ==
  \/ \E g \in Games : CreateAnswered(g) \/ Launch(g) \/ LockAnswered(g)
  \/ \E k \in confirms : DepositSeen(k)
Clients ==
  \/ \E c \in Conns : Connect(c) \/ Disconnect(c)
  \/ \E c \in Conns, g \in Joinable, a \in Players : ConfirmPayment(c, g, a)
  \/ \E g \in Joinable, a \in Players : Pay(g, a)

Next ==
  \/ Server \/ Clients \/ Land
  \/ \E k \in confirms : DepositNotSeen(k)
  \/ \E g \in Games : GameOver(g)

(* Timers fire and calls to the chain are answered.  Nothing is assumed of   *)
(* the players, of polling, of the length of a game or of the chain.         *)
Spec ==
  /\ Init /\ [][Next]_vars
  /\ \A g \in Games :
       WF_vars(CreateAnswered(g)) /\ WF_vars(Launch(g)) /\ WF_vars(LockAnswered(g))
-----------------------------------------------------------------------------
TypeOK ==
  /\ E!TypeOK
  /\ current \in Games \cup {NoGame} /\ opening \in Games \cup {NoGame}
  /\ \A g \in Games : \A i \in DOMAIN humans[g] :
       humans[g][i] \in [conn : Conns, addr : Players, seat : 0..MaxHumans]
  /\ started \subseteq Games /\ locking \subseteq started
  /\ countdown \in [Games -> {"none", "armed", "spent"}]
  /\ Launched \subseteq started /\ \A g \in Launched : rooms[g] \in Nat
  /\ live \subseteq Conns /\ gone \subseteq Conns
  /\ confirms \subseteq [conn : Conns, game : Games, addr : Players]
  /\ \A i \in DOMAIN txs : txs[i].game \in Games

(* Unsettled games: the escrow still holds what was paid into them. *)
Holding(g) == status[g] \in {"Open", "Locked"}

(* A seat is paid for: every human the lobby seats, and later plays, has a   *)
(* deposit of the buy-in in the escrow under this very game ("the server     *)
(* never trusts a client's claim of payment").                               *)
SeatedHavePaid ==
  \A g \in Games : Holding(g) =>
    \A a \in SeatedAddrs(g) : deposit[g][a] >= BuyIn

(* One seat per wallet and one wallet per seat, numbered 0..n-1, however     *)
(* confirmations race each other and disconnections re-index the seats: the  *)
(* seat ids become the keys of the game's seat map.                          *)
SeatsDistinct ==
  \A g \in Games : \A i, j \in DOMAIN humans[g] :
    /\ humans[g][i].seat = i - 1
    /\ i # j => humans[g][i].addr # humans[g][j].addr

(* There is always a chair left for an AI.  The lobby checks MAX_HUMANS only *)
(* before it polls; it is the cap of the contract that stops two racing      *)
(* confirmations from overfilling the table.                                 *)
TableHasRoom == \A g \in Games : Len(humans[g]) <= MaxHumans

(* The escrow never holds less than the room plays for, so a settlement can  *)
(* never ask for money that is not there.                                    *)
NoOverdraft ==
  \A g \in Launched : Holding(g) => rooms[g] <= pool[g]

(* The roster is frozen when the launch begins, before the lock is even      *)
(* sent, and until the room runs: late payments and closed sockets no longer *)
(* change it.                                                                *)
RosterFrozen == [][\A g \in started : humans'[g] = humans[g]]_vars

(* An armed countdown belongs to the open lobby and has its quorum, so it    *)
(* cannot launch a table that is too small or one that has moved on.         *)
CountdownMeansQuorum ==
  \A g \in Games : countdown[g] = "armed" =>
    g = current /\ g \notin started /\ Len(humans[g]) >= MinHumans

(* With enough humans seated the lobby does launch, or they leave: no order  *)
(* of joining, leaving and coming back loses the countdown.                  *)
LobbyLaunches ==
  \A g \in Games : current = g /\ Len(humans[g]) >= MinHumans
                     ~> g \in started \/ Len(humans[g]) < MinHumans

(* "At settlement the next game opens so the app loops": a launched lobby    *)
(* makes way for a new one even when the chain refuses the call.             *)
DoorsReopen == \A g \in Games : current = g /\ g \in started ~> current # g \/ Fresh = {}

(* What settle.ts says of the amounts it signs: "the escrowed pool =         *)
(* startPool".                                                               *)
EscrowedIsStartPool ==
  \A g \in Launched : status[g] = "Locked" => pool[g] = rooms[g]

(* What the header of demoLobby.ts says of the end of the countdown: "the    *)
(* game is locked on-chain".                                                 *)
LaunchedIsLocked ==
  \A g \in Launched : txs = <<>> => status[g] # "Open"

(* What onClose says of a closed socket: "drop them from the open lobby". *)
SeatedAreConnected ==
  current # NoGame /\ current \notin started =>
    \A i \in DOMAIN humans[current] : humans[current][i].conn \in live
=============================================================================
