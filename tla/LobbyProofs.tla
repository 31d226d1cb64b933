---------------------------- MODULE LobbyProofs -----------------------------
(***************************************************************************)
(* Proofs about the paid lobby, for any number of games, wallets and         *)
(* connections: seats are paid for, different and frozen at the launch, and *)
(* the escrow always holds what a room plays for.                           *)
(*                                                                          *)
(* The chain under the lobby is an escrow, so what EscrowProofs says of each *)
(* transaction is used here, with the constants of the lobby.               *)
(***************************************************************************)
EXTENDS DemoLobby, Facts

(* The theorems about the escrow. *)
EP == INSTANCE EscrowProofs WITH Prices <- {BuyIn}, Signers <- {Key}, MaxListed <- 0

(* The constants of the lobby are constants of an escrow. *)
LEMMA Ass == EP!EscrowAssumption /\ 0 \notin {BuyIn}
  BY LobbyAssumption DEF EP!EscrowAssumption, EP!IsFiniteSet, IsFiniteSet

(* The chain of the lobby (E) is the escrow of EscrowProofs (EP): they add up *)
(* alike, start alike, and do the same in each transaction.                  *)
LEMMA SameSum ==
  /\ \A f : E!SumFunction(f) = EP!SumFunction(f)
  /\ \A f, S : E!SumFunctionOnSet(f, S) = EP!SumFunctionOnSet(f, S)
  BY DEF E!SumFunction, E!SumFunctionOnSet, E!FoldFunctionOnSet, E!MapThenFoldSet,
         EP!SumFunction, EP!SumFunctionOnSet, EP!FoldFunctionOnSet, EP!MapThenFoldSet

(* A deposit of the chain is a deposit of the escrow. *)
LEMMA SameJoin == ASSUME NEW g, NEW a, NEW v PROVE E!Join(g, a, v) <=> EP!Join(g, a, v)
  BY DEF E!Join, EP!Join, E!MayJoin, EP!MayJoin, E!config, EP!config

(* A new game of the chain is a new game of the escrow. *)
LEMMA SameCreate == ASSUME NEW g PROVE E!CreateGame(g) <=> EP!CreateGame(g)
  BY DEF E!CreateGame, EP!CreateGame, E!config, EP!config

(* A lock of the chain is a lock of the escrow. *)
LEMMA SameLock == ASSUME NEW g PROVE E!LockGame(g) <=> EP!LockGame(g)
  BY DEF E!LockGame, EP!LockGame, E!config, EP!config

(* Both start in the same state. *)
LEMMA SameInit == E!Init <=> EP!Init
  BY DEF E!Init, EP!Init, E!Statuses, EP!Statuses

(* A settlement pays the same in both. *)
LEMMA SamePaid ==
  ASSUME NEW s, NEW p
  PROVE  E!Paid(s) = EP!Paid(s) /\ E!PaidTo(s, p) = EP!PaidTo(s, p)
  BY SameSum DEF E!Paid, EP!Paid, E!PaidTo, EP!PaidTo

(* A settlement of the chain is a settlement of the escrow. *)
LEMMA SameSettle ==
  ASSUME NEW s, NEW k, NEW F
  PROVE  E!Settle(s, k, F) <=> EP!Settle(s, k, F)
<1>1. E!Conserves(s) <=> EP!Conserves(s)
  BY SamePaid DEF E!Conserves, EP!Conserves
<1>2. E!AllFunders(s) <=> EP!AllFunders(s)
  BY DEF E!AllFunders, EP!AllFunders, E!IsInjective, EP!IsInjective
<1>3. E!Range(s.survivors) = EP!Range(s.survivors)
  BY DEF E!Range, EP!Range
<1>4. [p \in Players |-> IF p \in F THEN E!PaidTo(s, p) ELSE 0]
        = [p \in Players |-> IF p \in F THEN EP!PaidTo(s, p) ELSE 0]
  BY SamePaid
<1> QED
  BY <1>1, <1>2, <1>3, <1>4, SamePaid, SameSum DEF E!Settle, EP!Settle, E!config, EP!config

(* Both have the same types. *)
LEMMA SameTypes == E!TypeOK <=> EP!TypeOK
  BY DEF E!TypeOK, EP!TypeOK, E!Statuses, EP!Statuses

-----------------------------------------------------------------------------
(* The transactions of the game manager. *)
Tx ==
  [op : {"create", "lock"}, game : Games]
    \cup [op : {"settle"}, game : Games, to : SUBSET Players, each : Nat, house : Nat]

(* The chain: the books of the escrow and its account of the deposits. *)
ChainSound == EP!Books /\ EP!IInv

(* A seated human. *)
Human == [conn : Conns, addr : Players, seat : Nat]

(* What the lobby keeps, and the transactions it sends. *)
LobbyShape ==
  /\ current \in Games \cup {NoGame} /\ opening \in Games \cup {NoGame}
  /\ humans \in [Games -> Seq(Human)]
  /\ started \subseteq Games /\ locking \subseteq started
  /\ countdown \in [Games -> {"none", "armed", "spent"}]
  /\ Launched \subseteq started
  /\ live \subseteq Conns /\ gone \subseteq Conns
  /\ confirms \subseteq [conn : Conns, game : Games, addr : Players]
  /\ txs \in Seq(Tx)

(* Strengthening: a lobby in the making follows one that has been launched.  *)
OneDoor ==
  /\ \A g \in locking : g = current
  /\ opening # NoGame => locking = {} /\ (current = NoGame \/ current \in started)

(* Strengthening: a game is locked and settled only after its launch. *)
LaunchedFirst ==
  /\ \A i \in DOMAIN txs : txs[i].op # "create" => txs[i].game \in started
  /\ \A g \in Games : status[g] # "Refunding" /\ (status[g] \in {"Locked", "Settled"} => g \in started)

(* Strengthening of SeatedHavePaid: no seat in a game that is not created.   *)
SeatsPaid ==
  \A g \in Games : status[g] # "Settled" =>
    \A i \in DOMAIN humans[g] : deposit[g][humans[g][i].addr] = BuyIn

(* Strengthening of TableHasRoom. *)
SeatsCapped == \A g \in Games : Len(humans[g]) <= MaxPlayers

(* A room plays for what its frozen roster paid. *)
RoomsFunded == \A g \in Launched : rooms[g] = Len(humans[g]) * BuyIn

(* The inductive invariant. *)
LInv ==
  /\ ChainSound /\ LobbyShape /\ OneDoor /\ LaunchedFirst /\ CountdownMeansQuorum
  /\ SeatsDistinct /\ SeatsPaid /\ SeatsCapped /\ RoomsFunded

-----------------------------------------------------------------------------
(* A set of wallets can be listed. *)
LEMMA SeqOfSet ==
  ASSUME NEW S \in SUBSET Players
  PROVE  Cardinality(S) \in Nat /\ SetToSeq(S) \in [1..Cardinality(S) -> S]
<1>1. IsFiniteSet(S)
  BY FS_Subset, LobbyAssumption
<1>2. Cardinality(S) \in Nat /\ ExistsBijection(1..Cardinality(S), S)
  BY <1>1, FS_CardinalityType
<1>3. \E f \in [1..Cardinality(S) -> S] : IsInjective(f)
  BY <1>2 DEF ExistsBijection, Bijection, Injection
<1> QED
  BY <1>2, <1>3 DEF SetToSeq

(* The settlements of the server are well-formed. *)
LEMMA SettlementFormed ==
  ASSUME NEW tx \in Tx, tx.op = "settle"
  PROVE  Settlement(tx).gameId = tx.game /\ tx.game \in Games /\ EP!WellFormed(Settlement(tx))
<1>1. tx.to \in SUBSET Players /\ tx.game \in Games /\ tx.each \in Nat /\ tx.house \in Nat
  BY DEF Tx
<1>2. Cardinality(tx.to) \in Nat /\ SetToSeq(tx.to) \in [1..Cardinality(tx.to) -> Players]
  BY <1>1, SeqOfSet
<1> QED
  BY <1>1, <1>2 DEF Settlement, EP!WellFormed

(* The chain starts empty. *)
LEMMA ChainInit == Init => ChainSound
  BY SameInit, Ass, EP!InitBooks, EP!InitIInv DEF Init, ChainSound

(* Nothing happens on the chain. *)
LEMMA ChainStill == ASSUME ChainSound, UNCHANGED chain PROVE ChainSound'
<1>1. UNCHANGED EP!vars
  BY DEF chain, EP!vars, EP!games, EP!config
<1> QED
  BY <1>1, Ass, EP!BooksKept, EP!StepIInv DEF ChainSound

(* A wallet pays. *)
LEMMA ChainPays ==
  ASSUME ChainSound, NEW g \in Games, NEW a \in Players, E!Join(g, a, BuyIn)
  PROVE  ChainSound'
  BY Ass, SameJoin, EP!JoinBooks, EP!JoinIInv DEF ChainSound

(* A transaction of the manager lands or reverts. *)
LEMMA ChainLands ==
  ASSUME ChainSound, txs \in Seq(Tx), Land PROVE ChainSound'
<1>1. Head(txs) \in Tx
  BY DEF Land
<1>2. Runs(Head(txs)) \/ UNCHANGED chain
  BY Zenon DEF Land
<1>3. ASSUME NEW tx \in Tx, Runs(tx) PROVE ChainSound'
  <2>1. tx.game \in Games
    BY DEF Tx
  <2>2. CASE E!CreateGame(tx.game)
    BY <2>1, <2>2, Ass, SameCreate, EP!CreateBooks, EP!CreateIInv DEF ChainSound
  <2>3. CASE E!LockGame(tx.game)
    BY <2>1, <2>3, Ass, SameLock, EP!LockBooks, EP!LockIInv DEF ChainSound
  <2>4. CASE tx.op = "settle" /\ E!Settle(Settlement(tx), Key, {})
    BY <2>4, Ass, SameSettle, SettlementFormed, EP!SettleBooks, EP!SettleIInv DEF ChainSound
  <2> QED
    BY <1>3, <2>2, <2>3, <2>4 DEF Runs
<1> QED
  BY <1>1, <1>2, <1>3, ChainStill
-----------------------------------------------------------------------------
(* The seats of a table are 0..n-1, of different wallets. *)
Numbered(s) ==
  \A i, j \in DOMAIN s : s[i].seat = i - 1 /\ (i # j => s[i].addr # s[j].addr)

(* One more at the end of the table. *)
LEMMA SeatTaken ==
  ASSUME NEW s \in Seq(Human), Numbered(s), NEW h \in Human, h.seat = Len(s),
         \A i \in DOMAIN s : s[i].addr # h.addr
  PROVE  /\ Append(s, h) \in Seq(Human) /\ Len(Append(s, h)) = Len(s) + 1
         /\ Numbered(Append(s, h))
         /\ \A i \in DOMAIN Append(s, h) : Append(s, h)[i] = h \/ (i \in DOMAIN s /\ Append(s, h)[i] = s[i])
<1> DEFINE t == Append(s, h)
<1>1. t \in Seq(Human) /\ Len(t) = Len(s) + 1 /\ Len(s) \in Nat /\ DOMAIN s = 1..Len(s)
  OBVIOUS
<1>2. DOMAIN t = 1..(Len(s) + 1)
  OBVIOUS
<1>3. t[Len(s) + 1] = h /\ \A i \in 1..Len(s) : t[i] = s[i]
  OBVIOUS
<1> HIDE DEF t
<1>4. ASSUME NEW i \in DOMAIN t PROVE (i = Len(s) + 1 /\ t[i] = h) \/ (i \in DOMAIN s /\ t[i] = s[i])
  BY <1>1, <1>2, <1>3
<1>5. Numbered(t)
  <2>1. ASSUME NEW i \in DOMAIN t PROVE t[i].seat = i - 1
    BY <1>1, <1>4 DEF Numbered
  <2>2. ASSUME NEW i \in DOMAIN t, NEW j \in DOMAIN t, i # j PROVE t[i].addr # t[j].addr
    BY <1>4, <2>2 DEF Numbered
  <2> QED
    BY <2>1, <2>2 DEF Numbered
<1> QED
  BY <1>1, <1>4, <1>5 DEF t

(* A human leaves the table, and the seats after it are numbered again. *)
LEMMA SeatLeft ==
  ASSUME NEW s \in Seq(Human), Numbered(s), NEW i \in DOMAIN s
  PROVE  /\ Unseat(s, i) \in Seq(Human) /\ Len(Unseat(s, i)) = Len(s) - 1
         /\ Numbered(Unseat(s, i))
         /\ \A j \in DOMAIN Unseat(s, i) : \E k \in DOMAIN s : Unseat(s, i)[j].addr = s[k].addr
<1> DEFINE r == RemoveAt(s, i)
           t == Unseat(s, i)
           n == Len(s) - 1
           from(j) == IF j < i THEN j ELSE j + 1
<1>1. Len(s) \in Nat /\ i \in 1..Len(s) /\ DOMAIN s = 1..Len(s) /\ n \in Nat
  OBVIOUS
<1>2. r \in Seq(Human) /\ Len(r) = n /\ \A j \in 1..n : r[j] = s[from(j)]
  BY Removed
<1>3. DOMAIN r = 1..n
  BY <1>2
<1>4. t = [j \in 1..n |-> [r[j] EXCEPT !.seat = j - 1]]
  BY <1>3 DEF Unseat
<1>5. \A j \in 1..n : from(j) \in DOMAIN s
  BY <1>1
<1>6. \A j, k \in 1..n : j # k => from(j) # from(k)
  BY <1>1
<1>7. \A j \in 1..n : r[j] \in Human
  BY <1>2, <1>3
<1> HIDE DEF r, t, n, from
<1>8. ASSUME NEW j \in 1..n
      PROVE  t[j] \in Human /\ t[j].seat = j - 1 /\ t[j].addr = s[from(j)].addr
  <2>1. r[j] \in Human /\ r[j] = s[from(j)] /\ t[j] = [r[j] EXCEPT !.seat = j - 1]
    BY <1>2, <1>4, <1>7
  <2>2. j - 1 \in Nat
    BY <1>1
  <2> QED
    BY <2>1, <2>2 DEF Human
<1>9. t \in Seq(Human) /\ Len(t) = n /\ DOMAIN t = 1..n
  <2>1. t \in [1..n -> Human]
    BY <1>4, <1>8
  <2> QED
    BY <1>1, <2>1
<1>10. Numbered(t)
  BY <1>5, <1>6, <1>8, <1>9 DEF Numbered
<1> QED
  BY <1>5, <1>8, <1>9, <1>10 DEF t, n

(* A table of different wallets is no larger than the set they are from. *)
LEMMA TableFits ==
  ASSUME NEW s \in Seq(Human), Numbered(s), NEW F, IsFiniteSet(F),
         \A i \in DOMAIN s : s[i].addr \in F
  PROVE  Len(s) <= Cardinality(F)
<1> DEFINE f == [i \in 1..Len(s) |-> s[i].addr]
<1>1. Len(s) \in Nat /\ DOMAIN s = 1..Len(s)
  OBVIOUS
<1>2. f \in [1..Len(s) -> F] /\ \A i, j \in 1..Len(s) : i # j => f[i] # f[j]
  BY <1>1 DEF Numbered
<1>3. f \in Injection(1..Len(s), F)
  BY <1>2 DEF Injection, IsInjective
<1> HIDE DEF f
<1>4. Cardinality(1..Len(s)) <= Cardinality(F)
  BY <1>3, FS_Injection
<1>5. Cardinality(1..Len(s)) = Len(s)
  <2>1. 1 \in Int /\ Len(s) \in Int
    BY <1>1
  <2>2. Cardinality(1..Len(s)) = IF 1 > Len(s) THEN 0 ELSE Len(s) - 1 + 1
    BY <2>1, FS_Interval
  <2> QED
    BY <1>1, <2>2
<1> QED
  BY <1>4, <1>5
-----------------------------------------------------------------------------
(* The lobby starts with one game in the making and nobody seated. *)
LEMMA InitLInv == Init => LInv
<1> SUFFICES ASSUME Init PROVE LInv
  OBVIOUS
<1> USE DEF Init
<1>1. ChainSound
  BY ChainInit
<1>2. LobbyShape
  BY LobbyAssumption DEF LobbyShape, Launched
<1>3. status = [g \in Games |-> "None"] /\ deposit = [g \in Games |-> [p \in Players |-> 0]]
  BY DEF E!Init
<1>4. OneDoor
  BY DEF OneDoor
<1>5. LaunchedFirst
  BY <1>3 DEF LaunchedFirst
<1>6. CountdownMeansQuorum
  BY DEF CountdownMeansQuorum
<1>7. \A g \in Games : humans[g] = <<>> /\ Len(humans[g]) = 0 /\ DOMAIN humans[g] = {}
  OBVIOUS
<1>8. SeatsDistinct /\ SeatsPaid /\ SeatsCapped
  BY <1>7, LobbyAssumption DEF SeatsDistinct, SeatsPaid, SeatsCapped
<1>9. RoomsFunded
  BY DEF RoomsFunded, Launched
<1> QED
  BY <1>1, <1>2, <1>4, <1>5, <1>6, <1>8, <1>9 DEF LInv

(* Steps that leave the seats and what was paid for them. *)
LEMMA SeatsStay ==
  ASSUME LInv, humans' = humans, status' = status, deposit' = deposit
  PROVE  SeatsDistinct' /\ SeatsPaid' /\ SeatsCapped'
  BY DEF LInv, SeatsDistinct, SeatsPaid, SeatsCapped

(* The next transaction is queued behind the others. *)
LEMMA Queued ==
  ASSUME LobbyShape, NEW tx \in Tx, Submit(tx)
  PROVE  /\ txs' \in Seq(Tx)
         /\ \A i \in DOMAIN txs' : txs'[i] = tx \/ (i \in DOMAIN txs /\ txs'[i] = txs[i])
<1>1. CASE txs' = Append(txs, tx)
  <2>1. txs \in Seq(Tx)
    BY DEF LobbyShape
  <2>2. /\ DOMAIN txs = 1..Len(txs) /\ Len(txs) \in Nat /\ DOMAIN Append(txs, tx) = 1..(Len(txs) + 1)
        /\ Append(txs, tx)[Len(txs) + 1] = tx /\ \A i \in 1..Len(txs) : Append(txs, tx)[i] = txs[i]
        /\ Append(txs, tx) \in Seq(Tx)
    BY <2>1
  <2> QED
    BY <1>1, <2>2
<1>2. CASE UNCHANGED txs
  BY <1>2 DEF LobbyShape
<1> QED
  BY <1>1, <1>2 DEF Submit

(* openNextGame: no countdown runs while a lobby is in the making. *)
LEMMA CreateAnsweredLInv ==
  ASSUME LInv, NEW g \in Games, CreateAnswered(g) PROVE LInv'
<1>1. /\ opening = g /\ Submit([op |-> "create", game |-> g])
      /\ current' = g /\ opening' = NoGame
      /\ UNCHANGED <<chain, humans, started, countdown, locking, rooms, live, gone, confirms>>
  BY DEF CreateAnswered, OpenedGame
<1>2. ChainSound' /\ status' = status /\ deposit' = deposit
  BY <1>1, ChainStill DEF LInv, chain
<1>3. [op |-> "create", game |-> g] \in Tx
  BY DEF Tx
<1>4. /\ txs' \in Seq(Tx)
      /\ \A i \in DOMAIN txs' : txs'[i].op = "create" \/ (i \in DOMAIN txs /\ txs'[i] = txs[i])
  BY <1>1, <1>3, Queued DEF LInv
<1>5. LobbyShape'
  BY <1>1, <1>4 DEF LInv, LobbyShape, Launched
<1>6. LaunchedFirst'
  BY <1>1, <1>2, <1>4 DEF LInv, LaunchedFirst
<1>7. g # NoGame
  BY LobbyAssumption
<1>8. locking = {} /\ (current = NoGame \/ current \in started)
  BY <1>1, <1>7 DEF LInv, OneDoor
<1>9. OneDoor'
  BY <1>1, <1>8 DEF OneDoor
<1>10. CountdownMeansQuorum'
  BY <1>1, <1>8, LobbyAssumption DEF LInv, CountdownMeansQuorum
<1>11. RoomsFunded'
  BY <1>1 DEF LInv, RoomsFunded, Launched
<1> QED
  BY <1>1, <1>2, <1>5, <1>6, <1>9, <1>10, <1>11, SeatsStay DEF LInv

(* Steps of the clients that seat nobody. *)
LEMMA ClientLInv ==
  ASSUME LInv, UNCHANGED <<chain, lobby, locking, rooms, txs>>,
         live' \subseteq Conns, gone' \subseteq Conns,
         confirms' \subseteq [conn : Conns, game : Games, addr : Players]
  PROVE  LInv'
<1>1. UNCHANGED <<chain, current, opening, humans, started, countdown, locking, rooms, txs>>
  BY DEF lobby
<1>2. ChainSound' /\ status' = status /\ deposit' = deposit
  BY <1>1, ChainStill DEF LInv, chain
<1>3. LobbyShape'
  BY <1>1 DEF LInv, LobbyShape, Launched
<1>4. OneDoor' /\ LaunchedFirst' /\ CountdownMeansQuorum' /\ RoomsFunded'
  BY <1>1, <1>2 DEF LInv, OneDoor, LaunchedFirst, CountdownMeansQuorum, RoomsFunded, Launched
<1> QED
  BY <1>1, <1>2, <1>3, <1>4, SeatsStay DEF LInv

(* launch: the countdown that fires is the one of the open lobby. *)
LEMMA LaunchLInv ==
  ASSUME LInv, NEW g \in Games, Launch(g) PROVE LInv'
<1> DEFINE enough == Len(humans[g]) >= MinHumans
<1>1. /\ countdown[g] = "armed" /\ g = current /\ g \notin started
      /\ countdown' = [countdown EXCEPT ![g] = IF enough THEN "spent" ELSE "none"]
      /\ started' = started \cup {h \in {g} : enough}
      /\ locking' = locking \cup {h \in {g} : enough}
      /\ UNCHANGED <<chain, current, opening, humans, rooms, live, gone, confirms, txs>>
  BY DEF Launch
<1> HIDE DEF enough
<1>2. ChainSound' /\ status' = status /\ deposit' = deposit
  BY <1>1, ChainStill DEF LInv, chain
<1>3. LobbyShape'
  <2>1. countdown' \in [Games -> {"none", "armed", "spent"}]
    BY <1>1 DEF LInv, LobbyShape
  <2>2. started' \subseteq Games /\ locking' \subseteq started' /\ Launched' \subseteq started'
    BY <1>1 DEF LInv, LobbyShape, Launched
  <2> QED
    BY <1>1, <2>1, <2>2 DEF LInv, LobbyShape
<1>4. opening = NoGame
  BY <1>1, LobbyAssumption DEF LInv, OneDoor
<1>5. OneDoor'
  BY <1>1, <1>4 DEF LInv, OneDoor
<1>6. LaunchedFirst'
  BY <1>1, <1>2 DEF LInv, LaunchedFirst
<1>7. CountdownMeansQuorum'
  BY <1>1 DEF LInv, CountdownMeansQuorum, LobbyShape
<1>8. RoomsFunded'
  BY <1>1 DEF LInv, RoomsFunded, Launched
<1> QED
  BY <1>1, <1>2, <1>3, <1>5, <1>6, <1>7, <1>8, SeatsStay DEF LInv

(* launch, after its await: the room plays for its roster. *)
LEMMA LockAnsweredLInv ==
  ASSUME LInv, NEW g \in Games, LockAnswered(g) PROVE LInv'
<1>1. /\ g \in locking /\ Submit([op |-> "lock", game |-> g])
      /\ locking' = locking \ {g}
      /\ (opening = NoGame /\ opening' \in Fresh) \/ opening' = opening
      /\ rooms' = [h \in Launched \cup {g} |-> IF h = g THEN Len(humans[g]) * BuyIn ELSE rooms[h]]
      /\ UNCHANGED <<chain, current, humans, started, countdown, live, gone, confirms>>
  BY DEF LockAnswered
<1>2. ChainSound' /\ status' = status /\ deposit' = deposit
  BY <1>1, ChainStill DEF LInv, chain
<1>3. [op |-> "lock", game |-> g] \in Tx
  BY DEF Tx
<1>4. g = current /\ g \in started /\ locking' = {}
  BY <1>1 DEF LInv, OneDoor, LobbyShape
<1>5. txs' \in Seq(Tx) /\ \A i \in DOMAIN txs' : txs'[i].game = g \/ (i \in DOMAIN txs /\ txs'[i] = txs[i])
  BY <1>1, <1>3, Queued DEF LInv
<1>6. opening = NoGame
  BY <1>1 DEF LInv, OneDoor
<1>7. Launched' = Launched \cup {g}
  BY <1>1 DEF Launched
<1>8. LobbyShape'
  <2>1. opening' \in Games \cup {NoGame}
    BY <1>1, <1>6 DEF Fresh
  <2>2. Launched' \subseteq started'
    BY <1>1, <1>4, <1>7 DEF LInv, LobbyShape
  <2> QED
    BY <1>1, <1>4, <1>5, <2>1, <2>2 DEF LInv, LobbyShape
<1>9. OneDoor'
  BY <1>1, <1>4 DEF OneDoor
<1>10. LaunchedFirst'
  BY <1>1, <1>2, <1>4, <1>5 DEF LInv, LaunchedFirst
<1>11. CountdownMeansQuorum'
  BY <1>1 DEF LInv, CountdownMeansQuorum
<1>12. RoomsFunded'
  BY <1>1, <1>7 DEF LInv, RoomsFunded
<1> QED
  BY <1>1, <1>2, <1>8, <1>9, <1>10, <1>11, <1>12, SeatsStay DEF LInv

(* A room ends: what it settles is divided out of what it started with. *)
LEMMA GameOverLInv ==
  ASSUME LInv, NEW g \in Games, GameOver(g) PROVE LInv'
<1>1. PICK S \in SUBSET SeatedAddrs(g), each \in 0..rooms[g] :
        /\ each * Cardinality(S) <= rooms[g]
        /\ Submit([op |-> "settle", game |-> g, to |-> S, each |-> each,
                   house |-> rooms[g] - each * Cardinality(S)])
  BY DEF GameOver
<1>2. /\ g \in Launched /\ rooms' = [h \in Launched \ {g} |-> rooms[h]]
      /\ UNCHANGED <<chain, current, opening, humans, started, countdown, locking, live, gone, confirms>>
  BY DEF GameOver, lobby
<1> DEFINE h == rooms[g] - each * Cardinality(S)
           tx == [op |-> "settle", game |-> g, to |-> S, each |-> each, house |-> h]
<1>3. tx \in Tx
  <2>1. humans[g] \in Seq(Human)
    BY DEF LInv, LobbyShape
  <2>2. \A i \in DOMAIN humans[g] : humans[g][i].addr \in Players
    <3>1. \A i \in DOMAIN humans[g] : humans[g][i] \in Human
      BY <2>1
    <3> QED
      BY <3>1 DEF Human
  <2>3. S \in SUBSET Players
    BY <2>2 DEF SeatedAddrs
  <2>4. Cardinality(S) \in Nat
    BY <2>3, SeqOfSet
  <2>5. rooms[g] \in Nat
    BY <1>2, <2>1, LobbyAssumption DEF LInv, RoomsFunded
  <2>6. each \in Nat /\ h \in Nat
    <3>1. each \in Nat
      BY <2>5
    <3> DEFINE m == each * Cardinality(S)
    <3>2. m \in Nat /\ m <= rooms[g]
      BY <1>1, <2>4, <3>1
    <3>3. h = rooms[g] - m
      OBVIOUS
    <3> HIDE DEF m, h
    <3> QED
      BY <2>5, <3>1, <3>2, <3>3
  <2> HIDE DEF h
  <2> QED
    BY <2>3, <2>6 DEF Tx
<1>4. Submit(tx) /\ tx.game = g
  BY <1>1
<1> HIDE DEF tx
<1>5. txs' \in Seq(Tx) /\ \A i \in DOMAIN txs' : txs'[i].game = g \/ (i \in DOMAIN txs /\ txs'[i] = txs[i])
  BY <1>3, <1>4, Queued DEF LInv
<1>6. ChainSound' /\ status' = status /\ deposit' = deposit
  BY <1>2, ChainStill DEF LInv, chain
<1>7. Launched' = Launched \ {g} /\ g \in started
  BY <1>2 DEF Launched, LInv, LobbyShape
<1>8. LobbyShape'
  BY <1>2, <1>5, <1>7 DEF LInv, LobbyShape
<1>9. OneDoor' /\ CountdownMeansQuorum'
  BY <1>2 DEF LInv, OneDoor, CountdownMeansQuorum
<1>10. LaunchedFirst'
  BY <1>2, <1>5, <1>6, <1>7 DEF LInv, LaunchedFirst
<1>11. RoomsFunded'
  BY <1>2, <1>7 DEF LInv, RoomsFunded
<1> QED
  BY <1>2, <1>6, <1>8, <1>9, <1>10, <1>11, SeatsStay DEF LInv
-----------------------------------------------------------------------------
(* The deposits of a game are the buy-in, or nothing. *)
LEMMA DepositIs ==
  ASSUME LInv, NEW g \in Games, NEW a \in Players
  PROVE  /\ deposit[g][a] \in {BuyIn, 0}
         /\ deposit[g][a] >= BuyIn <=> deposit[g][a] = BuyIn
<1>1. deposit[g][a] \in {BuyIn} \cup {0}
  BY DEF LInv, ChainSound, EP!IInv, EP!Shape
<1> QED
  BY <1>1, LobbyAssumption

(* Seats that are paid for are seats of different funders. *)
LEMMA PaidAreFunders ==
  ASSUME LInv, NEW g \in Games, NEW s \in Seq(Human), Numbered(s),
         \A i \in DOMAIN s : deposit[g][s[i].addr] = BuyIn
  PROVE  /\ Len(s) \in Nat /\ \A i \in DOMAIN s : s[i].addr \in EP!Funders(g)
         /\ Len(s) # 0 => \E i \in DOMAIN s : TRUE
         /\ status[g] \in {"Open", "Locked"} => Len(s) <= count[g] /\ count[g] \in 0..MaxPlayers
<1>0. Len(s) \in Nat /\ DOMAIN s = 1..Len(s)
  OBVIOUS
<1>1. \A i \in DOMAIN s : s[i].addr \in Players
  <2>1. \A i \in DOMAIN s : s[i] \in Human
    OBVIOUS
  <2> QED
    BY <2>1 DEF Human
<1>2. \A i \in DOMAIN s : s[i].addr \in EP!Funders(g)
  BY <1>1, LobbyAssumption DEF EP!Funders
<1>3. IsFiniteSet(EP!Funders(g))
  <2>1. EP!Funders(g) \in SUBSET Players
    BY DEF EP!Funders
  <2> QED
    BY <2>1, FS_Subset, LobbyAssumption
<1>4. Len(s) <= Cardinality(EP!Funders(g))
  BY <1>2, <1>3, TableFits
<1>5. EP!Cardinality(EP!Funders(g)) = Cardinality(EP!Funders(g))
  BY DEF EP!Cardinality, EP!IsFiniteSet, Cardinality
<1>6. ASSUME status[g] \in {"Open", "Locked"} PROVE Len(s) <= count[g] /\ count[g] \in 0..MaxPlayers
  BY <1>4, <1>5, <1>6 DEF LInv, ChainSound, EP!IInv, EP!OneDepositPerWallet, EP!Shape
<1> QED
  BY <1>0, <1>2, <1>6

(* As many as have paid fit in. *)
LEMMA PaidFit ==
  ASSUME LInv, NEW g \in Games, g \notin started, NEW s \in Seq(Human), Numbered(s),
         \A i \in DOMAIN s : deposit[g][s[i].addr] = BuyIn
  PROVE  Len(s) <= MaxPlayers
<1>1. /\ Len(s) \in Nat /\ \A i \in DOMAIN s : s[i].addr \in EP!Funders(g)
      /\ Len(s) # 0 => \E i \in DOMAIN s : TRUE
      /\ status[g] \in {"Open", "Locked"} => Len(s) <= count[g] /\ count[g] \in 0..MaxPlayers
  BY PaidAreFunders
<1>2. CASE Len(s) = 0
  BY <1>2, LobbyAssumption
<1>3. CASE Len(s) # 0
  <2>1. EP!Funders(g) # {}
    BY <1>1, <1>3
  <2>2. status[g] # "None"
    BY <2>1 DEF LInv, ChainSound, EP!IInv, EP!NothingBeforeOpen
  <2>3. status[g] = "Open"
    BY <2>2 DEF LInv, ChainSound, EP!IInv, EP!Shape, EP!Statuses, LaunchedFirst
  <2> QED
    BY <1>1, <2>3, LobbyAssumption
<1> QED
  BY <1>2, <1>3

(* The seats of one game change; the others keep theirs. *)
LEMMA SeatsMove ==
  ASSUME LInv, NEW g \in Games, g \notin started, NEW s \in Seq(Human), Numbered(s),
         humans' = [humans EXCEPT ![g] = s], status' = status, deposit' = deposit,
         \A i \in DOMAIN s : deposit[g][s[i].addr] = BuyIn
  PROVE  SeatsDistinct' /\ SeatsPaid' /\ SeatsCapped'
<1>0. humans'[g] = s /\ \A h \in Games \ {g} : humans'[h] = humans[h]
  BY DEF LInv, LobbyShape
<1>1. SeatsDistinct'
  BY <1>0 DEF LInv, SeatsDistinct, Numbered
<1>2. SeatsPaid'
  BY <1>0 DEF LInv, SeatsPaid
<1>3. Len(s) <= MaxPlayers
  BY PaidFit
<1>4. SeatsCapped'
  BY <1>0, <1>3 DEF LInv, SeatsCapped
<1> QED
  BY <1>1, <1>2, <1>4

(* confirmPayment, after its await: what was checked before is checked again, *)
(* and the cap is the one of the contract.                                   *)
LEMMA DepositSeenLInv ==
  ASSUME LInv, NEW k \in confirms, DepositSeen(k) PROVE LInv'
<1> DEFINE g == k.game
<1>1. /\ deposit[g][k.addr] >= BuyIn /\ confirms' = confirms \ {k}
      /\ UNCHANGED <<chain, current, opening, started, locking, rooms, live, gone, txs>>
  BY DEF DepositSeen, Verified
<1>2. g \in Games /\ k.addr \in Players /\ k.conn \in Conns
  BY DEF LInv, LobbyShape
<1>3. ChainSound' /\ status' = status /\ deposit' = deposit
  BY <1>1, ChainStill DEF LInv, chain
<1>4. OneDoor' /\ LaunchedFirst'
  BY <1>1, <1>3 DEF LInv, OneDoor, LaunchedFirst
<1>5. CASE /\ StillOpen(k) /\ MaybeStartCountdown(g)
           /\ humans' = [humans EXCEPT ![g] = Append(@, [conn |-> k.conn, addr |-> k.addr, seat |-> Len(@)])]
  <2> DEFINE s == humans[g]
             h == [conn |-> k.conn, addr |-> k.addr, seat |-> Len(s)]
             t == Append(s, h)
  <2>1. current = g /\ g \notin started /\ k.addr \notin SeatedAddrs(g)
    BY <1>5 DEF StillOpen
  <2>2. s \in Seq(Human) /\ Numbered(s)
    BY <1>2 DEF LInv, LobbyShape, SeatsDistinct, Numbered
  <2>3. h \in Human /\ h.seat = Len(s) /\ h.addr = k.addr
    BY <1>2, <2>2 DEF Human
  <2>4. \A i \in DOMAIN s : s[i].addr # h.addr
    BY <2>1 DEF SeatedAddrs
  <2>5. humans' = [humans EXCEPT ![g] = t]
    BY <1>5
  <2> HIDE DEF h
  <2>6. /\ t \in Seq(Human) /\ Len(t) = Len(s) + 1 /\ Numbered(t)
        /\ \A i \in DOMAIN t : t[i] = h \/ (i \in DOMAIN s /\ t[i] = s[i])
    BY <2>2, <2>3, <2>4, SeatTaken
  <2> HIDE DEF t, s
  <2>7. status[g] # "Settled"
    BY <1>2, <2>1 DEF LInv, LaunchedFirst
  <2>8. \A i \in DOMAIN t : deposit[g][t[i].addr] = BuyIn
    <3>1. \A i \in DOMAIN s : deposit[g][s[i].addr] = BuyIn
      BY <1>2, <2>7 DEF LInv, SeatsPaid, s
    <3>2. deposit[g][h.addr] = BuyIn
      BY <1>1, <1>2, <2>3, DepositIs
    <3> QED
      BY <2>6, <3>1, <3>2
  <2>9. SeatsDistinct' /\ SeatsPaid' /\ SeatsCapped'
    BY <1>2, <1>3, <2>1, <2>5, <2>6, <2>8, SeatsMove
  <2>10. humans'[g] = t /\ \A x \in Games \ {g} : humans'[x] = humans[x]
    BY <1>2, <2>5 DEF LInv, LobbyShape
  <2>11. humans' \in [Games -> Seq(Human)] /\ countdown' \in [Games -> {"none", "armed", "spent"}]
    BY <1>2, <1>5, <2>5, <2>6 DEF LInv, LobbyShape, MaybeStartCountdown
  <2>12. LobbyShape'
    BY <1>1, <2>11 DEF LInv, LobbyShape, Launched
  <2>13. CountdownMeansQuorum'
    <3>1. ASSUME NEW x \in Games, countdown'[x] = "armed"
          PROVE  x = current /\ x \notin started /\ Len(humans'[x]) >= MinHumans
      <4>1. CASE x = g
        <5>1. Len(humans'[g]) = Len(s) + 1 /\ Len(s) \in Nat /\ MinHumans \in Nat
          BY <2>2, <2>6, <2>10, LobbyAssumption
        <5>2. CASE countdown[g] = "armed"
          BY <1>2, <2>1, <4>1, <5>1, <5>2 DEF LInv, CountdownMeansQuorum, s
        <5>3. CASE countdown[g] # "armed"
          BY <1>2, <1>5, <2>1, <3>1, <4>1, <5>3 DEF LInv, LobbyShape, MaybeStartCountdown
        <5> QED
          BY <5>2, <5>3
      <4>2. CASE x # g
        <5>1. countdown[x] = "armed"
          BY <1>2, <1>5, <3>1, <4>2 DEF LInv, LobbyShape, MaybeStartCountdown
        <5> QED
          BY <2>10, <4>2, <5>1 DEF LInv, CountdownMeansQuorum
      <4> QED
        BY <4>1, <4>2
    <3> QED
      BY <1>1, <3>1 DEF CountdownMeansQuorum
  <2>14. RoomsFunded'
    <3>1. \A x \in Launched : humans'[x] = humans[x]
      BY <2>1, <2>10 DEF LInv, LobbyShape
    <3> QED
      BY <1>1, <3>1 DEF LInv, RoomsFunded, Launched
  <2> QED
    BY <1>3, <1>4, <2>9, <2>12, <2>13, <2>14 DEF LInv
<1>6. CASE UNCHANGED <<humans, countdown>>
  <2>1. LobbyShape'
    BY <1>1, <1>6 DEF LInv, LobbyShape, Launched
  <2>2. CountdownMeansQuorum' /\ RoomsFunded'
    BY <1>1, <1>6 DEF LInv, CountdownMeansQuorum, RoomsFunded, Launched
  <2> QED
    BY <1>3, <1>4, <1>6, <2>1, <2>2, SeatsStay DEF LInv
<1> QED
  BY <1>5, <1>6 DEF DepositSeen

(* onDisconnect: seats are numbered again, and a lost quorum stops the timer. *)
LEMMA DisconnectLInv ==
  ASSUME LInv, NEW c \in Conns, Disconnect(c) PROVE LInv'
<1> DEFINE g == current
<1>1. /\ live' = live \ {c} /\ gone' = gone \cup {c}
      /\ UNCHANGED <<chain, current, opening, started, locking, rooms, confirms, txs>>
  BY DEF Disconnect
<1>3. ChainSound' /\ status' = status /\ deposit' = deposit
  BY <1>1, ChainStill DEF LInv, chain
<1>4. OneDoor' /\ LaunchedFirst'
  BY <1>1, <1>3 DEF LInv, OneDoor, LaunchedFirst
<1>5. CASE /\ Leaves(c, g) /\ CancelCountdown(g)
           /\ \E i \in DOMAIN humans[g] : humans' = [humans EXCEPT ![g] = Unseat(@, i)]
  <2>1. PICK i \in DOMAIN humans[g] : humans' = [humans EXCEPT ![g] = Unseat(@, i)]
    BY <1>5
  <2>2. g \in Games /\ g \notin started
    BY <1>5 DEF Leaves, LInv, LobbyShape
  <2> DEFINE s == humans[g]
             t == Unseat(s, i)
  <2>3. s \in Seq(Human) /\ Numbered(s)
    BY <2>2 DEF LInv, LobbyShape, SeatsDistinct, Numbered
  <2>4. humans' = [humans EXCEPT ![g] = t]
    BY <2>1
  <2>5. /\ t \in Seq(Human) /\ Len(t) = Len(s) - 1 /\ Numbered(t)
        /\ \A j \in DOMAIN t : \E k \in DOMAIN s : t[j].addr = s[k].addr
    BY <2>3, SeatLeft
  <2>6. status[g] # "Settled"
    BY <2>2 DEF LInv, LaunchedFirst
  <2>7. \A j \in DOMAIN s : deposit[g][s[j].addr] = BuyIn
    BY <2>2, <2>6 DEF LInv, SeatsPaid
  <2> HIDE DEF t, s
  <2>8. \A j \in DOMAIN t : deposit[g][t[j].addr] = BuyIn
    BY <2>5, <2>7
  <2>9. SeatsDistinct' /\ SeatsPaid' /\ SeatsCapped'
    BY <1>3, <2>2, <2>4, <2>5, <2>8, SeatsMove
  <2>10. humans'[g] = t /\ \A x \in Games \ {g} : humans'[x] = humans[x]
    BY <2>2, <2>4 DEF LInv, LobbyShape
  <2>11. humans' \in [Games -> Seq(Human)] /\ countdown' \in [Games -> {"none", "armed", "spent"}]
    BY <1>5, <2>2, <2>4, <2>5 DEF LInv, LobbyShape, CancelCountdown
  <2>12. LobbyShape'
    BY <1>1, <2>11 DEF LInv, LobbyShape, Launched
  <2>13. CountdownMeansQuorum'
    <3>1. ASSUME NEW x \in Games, countdown'[x] = "armed"
          PROVE  x = current /\ x \notin started /\ Len(humans'[x]) >= MinHumans
      <4>1. CASE x = g
        <5>1. Len(humans'[g]) \in Nat /\ MinHumans \in Nat
          BY <2>5, <2>10, LobbyAssumption
        <5>2. ~(Len(humans'[g]) < MinHumans)
          BY <1>5, <2>2, <3>1, <4>1 DEF LInv, LobbyShape, CancelCountdown
        <5> QED
          BY <2>2, <4>1, <5>1, <5>2
      <4>2. CASE x # g
        <5>1. countdown[x] = "armed"
          BY <1>5, <2>2, <3>1, <4>2 DEF LInv, LobbyShape, CancelCountdown
        <5> QED
          BY <2>10, <4>2, <5>1 DEF LInv, CountdownMeansQuorum
      <4> QED
        BY <4>1, <4>2
    <3> QED
      BY <1>1, <3>1 DEF CountdownMeansQuorum
  <2>14. RoomsFunded'
    <3>1. \A x \in Launched : humans'[x] = humans[x]
      BY <2>2, <2>10 DEF LInv, LobbyShape
    <3> QED
      BY <1>1, <3>1 DEF LInv, RoomsFunded, Launched
  <2> QED
    BY <1>3, <1>4, <2>9, <2>12, <2>13, <2>14 DEF LInv
<1>6. CASE UNCHANGED <<humans, countdown>>
  <2>1. LobbyShape'
    BY <1>1, <1>6 DEF LInv, LobbyShape, Launched
  <2>2. CountdownMeansQuorum' /\ RoomsFunded'
    BY <1>1, <1>6 DEF LInv, CountdownMeansQuorum, RoomsFunded, Launched
  <2> QED
    BY <1>3, <1>4, <1>6, <2>1, <2>2, SeatsStay DEF LInv
<1> QED
  BY <1>5, <1>6 DEF Disconnect

(* What may happen to a game on the chain when a transaction lands. *)
LEMMA LandMoves ==
  ASSUME LInv, Land, NEW g \in Games
  PROVE  /\ status'[g] \in {"Locked", "Settled"} => g \in started
         /\ status'[g] # "Refunding"
         /\ status'[g] # "Settled" => status[g] # "Settled" /\ deposit'[g] = deposit[g]
<1> DEFINE tx == Head(txs)
<1>1. tx \in Tx /\ (tx.op # "create" => tx.game \in started)
  <2>1. txs \in Seq(Tx) /\ txs # <<>>
    BY DEF Land, LInv, LobbyShape
  <2>2. Head(txs) \in Tx /\ 1 \in DOMAIN txs /\ Head(txs) = txs[1]
    BY <2>1
  <2> QED
    BY <2>2 DEF LInv, LaunchedFirst
<1>2. Runs(tx) \/ UNCHANGED chain
  BY Zenon DEF Land
<1>3. /\ status \in [Games -> EP!Statuses] /\ deposit \in [Games -> [Players -> {BuyIn} \cup {0}]]
      /\ status[g] # "Refunding" /\ (status[g] \in {"Locked", "Settled"} => g \in started)
  BY DEF LInv, ChainSound, EP!IInv, EP!Shape, LaunchedFirst
<1> HIDE DEF tx
<1>4. CASE UNCHANGED chain
  BY <1>3, <1>4 DEF chain
<1>5. CASE tx.op = "create" /\ E!CreateGame(tx.game)
  <2>1. status' = [status EXCEPT ![tx.game] = "Open"] /\ status[tx.game] = "None" /\ deposit' = deposit
    BY <1>5 DEF E!CreateGame
  <2> QED
    BY <1>3, <2>1
<1>6. CASE tx.op = "lock" /\ E!LockGame(tx.game)
  <2>1. status' = [status EXCEPT ![tx.game] = "Locked"] /\ status[tx.game] = "Open" /\ deposit' = deposit
    BY <1>6 DEF E!LockGame
  <2> QED
    BY <1>1, <1>3, <1>6, <2>1
<1>7. CASE tx.op = "settle" /\ E!Settle(Settlement(tx), Key, {})
  <2>0. Settlement(tx).gameId = tx.game
    BY DEF Settlement
  <2>1. /\ status' = [status EXCEPT ![tx.game] = "Settled"] /\ status[tx.game] = "Locked"
        /\ \E d : deposit' = [deposit EXCEPT ![tx.game] = d]
    BY <1>7, <2>0 DEF E!Settle
  <2> QED
    BY <1>1, <1>3, <1>7, <2>1
<1> QED
  BY <1>2, <1>4, <1>5, <1>6, <1>7 DEF Runs

(* The chain moves under the lobby, but not under its unsettled seats. *)
LEMMA LandLInv == ASSUME LInv, Land PROVE LInv'
<1>1. txs # <<>> /\ txs' = Tail(txs) /\ UNCHANGED <<current, opening, humans, started, countdown, locking, rooms, live, gone, confirms>>
  BY DEF Land, lobby
<1>2. txs \in Seq(Tx)
  BY DEF LInv, LobbyShape
<1>3. txs' \in Seq(Tx) /\ \A i \in DOMAIN txs' : i + 1 \in DOMAIN txs /\ txs'[i] = txs[i + 1]
  <2>1. Tail(txs) \in Seq(Tx) /\ Len(Tail(txs)) = Len(txs) - 1 /\ \A i \in 1..Len(Tail(txs)) : Tail(txs)[i] = txs[i + 1]
    BY <1>1, <1>2, HeadTailProperties
  <2> QED
    BY <1>1, <1>2, <2>1
<1>4. ChainSound'
  BY <1>2, ChainLands DEF LInv
<1>5. LobbyShape'
  BY <1>1, <1>3 DEF LInv, LobbyShape, Launched
<1>6. LaunchedFirst'
  <2>1. \A i \in DOMAIN txs' : txs'[i].op # "create" => txs'[i].game \in started'
    BY <1>1, <1>3 DEF LInv, LaunchedFirst
  <2> QED
    BY <1>1, <2>1, LandMoves DEF LaunchedFirst
<1>7. OneDoor' /\ CountdownMeansQuorum' /\ RoomsFunded' /\ SeatsDistinct' /\ SeatsCapped'
  BY <1>1 DEF LInv, OneDoor, CountdownMeansQuorum, RoomsFunded, Launched, SeatsDistinct, SeatsCapped
<1>8. SeatsPaid'
  <2>1. ASSUME NEW g \in Games, status'[g] # "Settled", NEW i \in DOMAIN humans[g]
        PROVE  deposit'[g][humans[g][i].addr] = BuyIn
    BY <2>1, LandMoves DEF LInv, SeatsPaid
  <2> QED
    BY <1>1, <2>1 DEF SeatsPaid
<1> QED
  BY <1>4, <1>5, <1>6, <1>7, <1>8 DEF LInv

(* A wallet pays, and no seat loses its deposit by it. *)
LEMMA PayLInv ==
  ASSUME LInv, NEW g \in Games, NEW a \in Players, Pay(g, a) PROVE LInv'
<1>1. /\ E!Join(g, a, BuyIn)
      /\ UNCHANGED <<current, opening, humans, started, countdown, locking, rooms, live, gone, confirms, txs>>
  BY DEF Pay, lobby
<1>2. deposit' = [deposit EXCEPT ![g][a] = BuyIn] /\ status' = status /\ deposit[g][a] = 0
  BY <1>1 DEF E!Join, E!MayJoin
<1>3. ChainSound'
  BY <1>1, ChainPays DEF LInv
<1>4. LobbyShape' /\ OneDoor' /\ LaunchedFirst' /\ CountdownMeansQuorum' /\ RoomsFunded' /\ SeatsDistinct' /\ SeatsCapped'
  BY <1>1, <1>2 DEF LInv, LobbyShape, OneDoor, LaunchedFirst, CountdownMeansQuorum, RoomsFunded, Launched, SeatsDistinct, SeatsCapped
<1>5. deposit \in [Games -> [Players -> {BuyIn} \cup {0}]]
  BY DEF LInv, ChainSound, EP!IInv, EP!Shape
<1>6. \A h \in Games, p \in Players : deposit'[h][p] = deposit[h][p] \/ deposit'[h][p] = BuyIn
  BY <1>2, <1>5
<1>7. SeatsPaid'
  <2>1. ASSUME NEW h \in Games, status[h] # "Settled", NEW i \in DOMAIN humans[h]
        PROVE  deposit'[h][humans[h][i].addr] = BuyIn
    <3>1. humans[h] \in Seq(Human)
      BY DEF LInv, LobbyShape
    <3>2. humans[h][i] \in Human
      BY <3>1
    <3>3. humans[h][i].addr \in Players
      BY <3>2 DEF Human
    <3>4. deposit[h][humans[h][i].addr] = BuyIn
      BY <2>1 DEF LInv, SeatsPaid
    <3> QED
      BY <1>6, <3>3, <3>4
  <2> QED
    BY <1>1, <1>2, <2>1 DEF SeatsPaid
<1> QED
  BY <1>3, <1>4, <1>7 DEF LInv

(* One step per action. *)
LEMMA StepLInv == ASSUME LInv, [Next]_vars PROVE LInv'
<1>1. ASSUME NEW c \in Conns, Connect(c) PROVE LInv'
  BY <1>1, ClientLInv DEF Connect, LInv, LobbyShape
<1>2. ASSUME NEW c \in Conns, NEW g \in Games, NEW a \in Players, ConfirmPayment(c, g, a) PROVE LInv'
  <2>1. [conn |-> c, game |-> g, addr |-> a] \in [conn : Conns, game : Games, addr : Players]
    OBVIOUS
  <2> QED
    BY <1>2, <2>1, ClientLInv DEF ConfirmPayment, LInv, LobbyShape
<1>3. ASSUME NEW k \in confirms, DepositNotSeen(k) PROVE LInv'
  BY <1>3, ClientLInv DEF DepositNotSeen, LInv, LobbyShape
<1>4. CASE UNCHANGED vars
  BY <1>4, ClientLInv DEF vars, LInv, LobbyShape
<1>5. CASE Server
  BY <1>5, CreateAnsweredLInv, LaunchLInv, LockAnsweredLInv, DepositSeenLInv DEF Server
<1>6. CASE Clients
  BY <1>1, <1>2, <1>6, DisconnectLInv, PayLInv, LobbyAssumption DEF Clients
<1>7. CASE Land
  BY <1>7, LandLInv
<1> QED
  BY <1>3, <1>4, <1>5, <1>6, <1>7, GameOverLInv DEF Next
-----------------------------------------------------------------------------
(* The lobby over the escrow, whatever the chain refuses and in whatever      *)
(* order payments, confirmations, timers and sockets come (demoLobby.ts).     *)
THEOREM LobbyInvariance == Spec => []LInv
<1>1. LInv /\ [Next]_vars => LInv'
  BY StepLInv
<1> QED
  BY <1>1, InitLInv, PTL DEF Spec

(* One seat per wallet, numbered 0..n-1, though confirmations overlap and    *)
(* seats are renumbered (demoLobby.ts confirmPayment, onDisconnect).         *)
THEOREM TablesNumbered == Spec => []SeatsDistinct
<1>1. LInv => SeatsDistinct
  BY DEF LInv
<1> QED
  BY <1>1, LobbyInvariance, PTL

(* Whoever sits has a deposit in the escrow: "the server never trusts a      *)
(* client's claim of payment" (demoLobby.ts confirmPayment).                 *)
THEOREM SeatsArePaid == Spec => []SeatedHavePaid
<1>1. ASSUME LInv PROVE SeatedHavePaid
  <2>1. \A g \in Games : status[g] # "Settled" =>
          \A a \in SeatedAddrs(g) : deposit[g][a] = BuyIn
    BY <1>1 DEF LInv, SeatsPaid, SeatedAddrs
  <2> QED
    BY <2>1, LobbyAssumption DEF SeatedHavePaid, Holding
<1> QED
  BY <1>1, LobbyInvariance, PTL

(* While the countdown runs the table is large enough, however many leave    *)
(* (demoLobby.ts onDisconnect).                                              *)
THEOREM CountdownsHaveQuorum == Spec => []CountdownMeansQuorum
<1>1. LInv => CountdownMeansQuorum
  BY DEF LInv
<1> QED
  BY <1>1, LobbyInvariance, PTL

(* A chair is left for an AI: nothing in the lobby stops two confirmations    *)
(* from overfilling the table, the cap of the contract does.                 *)
THEOREM TablesHaveRoom == ASSUME MaxPlayers <= MaxHumans PROVE Spec => []TableHasRoom
<1>1. ASSUME LInv PROVE TableHasRoom
  <2>1. ASSUME NEW g \in Games PROVE Len(humans[g]) <= MaxHumans
    <3>1. Len(humans[g]) \in Nat
      BY <1>1 DEF LInv, LobbyShape
    <3>2. Len(humans[g]) <= MaxPlayers
      BY <1>1 DEF LInv, SeatsCapped
    <3> QED
      BY <3>1, <3>2, LobbyAssumption
  <2> QED
    BY <2>1 DEF TableHasRoom
<1> QED
  BY <1>1, LobbyInvariance, PTL

(* Multiplication is monotonic. *)
LEMMA MoreTimes == ASSUME NEW a \in Nat, NEW b \in Nat, NEW c \in Nat, a <= b PROVE a * c <= b * c
<1>1. (b - a) * c \in Nat /\ b * c = a * c + (b - a) * c /\ a * c \in Nat
  BY SMT
<1> QED
  BY <1>1

(* A settlement never asks for money that is not there: the room starts with  *)
(* what its roster paid, and later payments can only add to the pool.        *)
THEOREM PoolsCoverRooms == Spec => []NoOverdraft
<1>1. ASSUME LInv PROVE NoOverdraft
  <2>1. ASSUME NEW g \in Launched, Holding(g) PROVE rooms[g] <= pool[g]
    <3> DEFINE s == humans[g]
    <3>1. g \in Games /\ s \in Seq(Human) /\ Numbered(s) /\ rooms[g] = Len(s) * BuyIn
      BY <1>1 DEF LInv, LobbyShape, SeatsDistinct, Numbered, RoomsFunded
    <3>2. \A i \in DOMAIN s : deposit[g][s[i].addr] = BuyIn
      BY <1>1, <2>1, <3>1 DEF LInv, SeatsPaid, Holding
    <3> HIDE DEF s
    <3>3. /\ Len(s) \in Nat /\ \A i \in DOMAIN s : s[i].addr \in EP!Funders(g)
          /\ Len(s) # 0 => \E i \in DOMAIN s : TRUE
          /\ Len(s) <= count[g] /\ count[g] \in Nat
      BY <1>1, <2>1, <3>1, <3>2, PaidAreFunders, LobbyAssumption DEF Holding
    <3>4. /\ \A p \in EP!Funders(g) : deposit[g][p] = price[g]
          /\ pool[g] = count[g] * price[g] /\ pool[g] \in Nat
      BY <1>1, <2>1, <3>1 DEF LInv, ChainSound, EP!IInv, EP!OneDepositPerWallet, EP!Shape, Holding
    <3>5. CASE Len(s) = 0
      <4>1. rooms[g] = 0
        BY <3>1, <3>5, LobbyAssumption
      <4> QED
        BY <3>4, <4>1
    <3>6. CASE Len(s) # 0
      <4>1. price[g] = BuyIn /\ BuyIn \in Nat
        BY <3>2, <3>3, <3>4, <3>6, LobbyAssumption
      <4> QED
        BY <3>1, <3>3, <3>4, <4>1, MoreTimes
    <3> QED
      BY <3>5, <3>6
  <2> QED
    BY <2>1 DEF NoOverdraft
<1> QED
  BY <1>1, LobbyInvariance, PTL

(* Every step leaves the rosters of launched games alone. *)
LEMMA FrozenStep ==
  ASSUME LInv, [Next]_vars
  PROVE  \A g \in started : humans'[g] = humans[g]
<1>1. humans \in [Games -> Seq(Human)] /\ started \subseteq Games
  BY DEF LInv, LobbyShape
<1>2. ASSUME NEW k \in confirms, DepositSeen(k) PROVE \A g \in started : humans'[g] = humans[g]
  BY <1>1, <1>2 DEF DepositSeen, StillOpen
<1>3. ASSUME NEW c \in Conns, Disconnect(c) PROVE \A g \in started : humans'[g] = humans[g]
  BY <1>1, <1>3 DEF Disconnect, Leaves
<1>4. ASSUME humans' = humans PROVE \A g \in started : humans'[g] = humans[g]
  BY <1>4
<1>5. CASE Server
  BY <1>2, <1>4, <1>5 DEF Server, CreateAnswered, Launch, LockAnswered
<1>6. CASE Clients
  BY <1>3, <1>4, <1>6 DEF Clients, Connect, ConfirmPayment, Pay, lobby
<1>7. CASE Land
  BY <1>4, <1>7 DEF Land, lobby
<1>8. CASE (\E k \in confirms : DepositNotSeen(k)) \/ (\E g \in Games : GameOver(g))
  BY <1>4, <1>8 DEF DepositNotSeen, GameOver, lobby
<1>9. CASE UNCHANGED vars
  BY <1>4, <1>9 DEF vars, lobby
<1> QED
  BY <1>5, <1>6, <1>7, <1>8, <1>9 DEF Next

(* No late payment and no closed socket changes a launched roster            *)
(* (demoLobby.ts launch, confirmPayment, onDisconnect).                      *)
THEOREM RostersStayFrozen == Spec => RosterFrozen
<1>1. LInv /\ [Next]_vars => [\A g \in started : humans'[g] = humans[g]]_vars
  BY FrozenStep
<1> QED
  BY <1>1, LobbyInvariance, PTL DEF Spec, RosterFrozen

(* Type correctness; the bound on the seats is the one of the table. *)
THEOREM LobbyTypeCorrect == ASSUME MaxPlayers <= MaxHumans PROVE Spec => []TypeOK
<1>1. ASSUME LInv PROVE TypeOK
  <2>1. E!TypeOK
    <3>1. EP!TypeOK
      BY <1>1, Ass, EP!BooksTyped DEF LInv, ChainSound
    <3> QED
      BY <3>1, SameTypes
  <2>2. ASSUME NEW g \in Games, NEW i \in DOMAIN humans[g]
        PROVE  humans[g][i] \in [conn : Conns, addr : Players, seat : 0..MaxHumans]
    <3>1. humans[g] \in Seq(Human) /\ Len(humans[g]) <= MaxPlayers /\ humans[g][i].seat = i - 1
      BY <1>1 DEF LInv, LobbyShape, SeatsCapped, SeatsDistinct
    <3>2. humans[g][i] \in Human /\ i \in 1..Len(humans[g]) /\ Len(humans[g]) \in Nat
      BY <3>1
    <3>3. humans[g][i].seat \in 0..MaxHumans
      BY <3>1, <3>2, LobbyAssumption
    <3> QED
      BY <3>2, <3>3 DEF Human
  <2>3. \A g \in Launched : rooms[g] \in Nat
    BY <1>1, LobbyAssumption DEF LInv, RoomsFunded, LobbyShape
  <2>4. \A i \in DOMAIN txs : txs[i].game \in Games
    <3>1. \A i \in DOMAIN txs : txs[i] \in Tx
      BY <1>1 DEF LInv, LobbyShape
    <3> QED
      BY <3>1 DEF Tx
  <2> QED
    BY <1>1, <2>1, <2>2, <2>3, <2>4 DEF LInv, LobbyShape, TypeOK
<1> QED
  BY <1>1, LobbyInvariance, PTL
-----------------------------------------------------------------------------
(* Why the lobby goes on.  The open lobby has its countdown as soon as it has *)
(* its quorum, and when no lobby is open the next one is on its way: what is *)
(* left to liveness (LobbyLaunches, DoorsReopen) is that timers fire and     *)
(* calls are answered, the fairness of Spec.                                 *)
Open == current # NoGame /\ current \notin started

LobbyDriven ==
  /\ Open /\ Len(humans[current]) >= MinHumans => countdown[current] = "armed"
  /\ Open \/ opening # NoGame \/ locking # {} \/ Fresh = {}

(* Strengthening: a lobby that is not open yet is empty, and no handle of a   *)
(* timer that has fired is left in an open one.                              *)
Idle ==
  /\ opening \notin started
  /\ \A g \in Games \ started :
       /\ countdown[g] # "spent"
       /\ g # current => humans[g] = <<>> /\ countdown[g] = "none"

(* The next lobby opens empty. *)
LEMMA OpensDriven ==
  ASSUME LInv, Idle, LobbyDriven, NEW g \in Games, CreateAnswered(g)
  PROVE  Idle' /\ LobbyDriven'
<1>1. opening = g /\ current' = g /\ opening' = NoGame /\ UNCHANGED <<humans, started, countdown, locking>>
  BY DEF CreateAnswered, OpenedGame
<1>2. g # NoGame /\ NoGame \notin started /\ g \notin started /\ started \subseteq Games
  BY <1>1, LobbyAssumption DEF LInv, LobbyShape, Idle
<1>3. current = NoGame \/ current \in started
  BY <1>1, <1>2 DEF LInv, OneDoor
<1>4. humans[g] = <<>>
  BY <1>1, <1>2, <1>3 DEF Idle
<1>5. ~(Len(humans[g]) >= MinHumans)
  BY <1>4, LobbyAssumption
<1>6. LobbyDriven'
  BY <1>1, <1>2, <1>5 DEF LobbyDriven, Open
<1>7. Idle'
  BY <1>1, <1>2, <1>3, LobbyAssumption DEF Idle
<1> QED
  BY <1>6, <1>7

(* The countdown fires: the lobby launches, or it is too small. *)
LEMMA LaunchDriven ==
  ASSUME LInv, Idle, LobbyDriven, NEW g \in Games, Launch(g)
  PROVE  Idle' /\ LobbyDriven'
<1> DEFINE enough == Len(humans[g]) >= MinHumans
<1>1. /\ g = current /\ g \notin started /\ countdown[g] = "armed"
      /\ countdown' = [countdown EXCEPT ![g] = IF enough THEN "spent" ELSE "none"]
      /\ started' = started \cup {h \in {g} : enough}
      /\ locking' = locking \cup {h \in {g} : enough}
      /\ UNCHANGED <<current, opening, humans>>
  BY DEF Launch
<1>2. opening = NoGame /\ NoGame \notin Games /\ started \subseteq Games
  BY <1>1, LobbyAssumption DEF LInv, LobbyShape, OneDoor
<1>3. countdown \in [Games -> {"none", "armed", "spent"}]
  BY DEF LInv, LobbyShape
<1>4. CASE enough
  BY <1>1, <1>2, <1>3, <1>4 DEF Idle, LobbyDriven, Open
<1>5. CASE ~enough
  <2>1. started' = started /\ locking' = locking /\ countdown' = [countdown EXCEPT ![g] = "none"]
    BY <1>1, <1>5
  <2> QED
    BY <1>1, <1>2, <1>3, <1>5, <2>1 DEF Idle, LobbyDriven, Open, Fresh
<1> QED
  BY <1>4, <1>5

(* A launched lobby makes way for the next one, refused by the chain or not. *)
LEMMA LockDriven ==
  ASSUME LInv, Idle, LobbyDriven, NEW g \in Games, LockAnswered(g)
  PROVE  Idle' /\ LobbyDriven'
<1>1. /\ g \in locking
      /\ IF opening = NoGame /\ Fresh # {} THEN opening' \in Fresh ELSE UNCHANGED opening
      /\ UNCHANGED <<current, humans, started, countdown>>
  BY DEF LockAnswered
<1>2. opening = NoGame /\ NoGame \notin Games /\ Fresh \subseteq Games \ started
  BY <1>1, LobbyAssumption DEF LInv, OneDoor, Fresh
<1>3. Idle'
  BY <1>1, <1>2 DEF Idle
<1>4. CASE Fresh = {}
  BY <1>1, <1>2, <1>3, <1>4 DEF LobbyDriven, Open, Fresh
<1>5. CASE Fresh # {}
  BY <1>1, <1>2, <1>3, <1>5 DEF LobbyDriven, Open
<1> QED
  BY <1>4, <1>5

(* A seat is taken or freed in the open lobby, and the countdown follows. *)
LEMMA SeatsDriven ==
  ASSUME LInv, Idle, LobbyDriven, Open, NEW t \in Seq(Human),
         humans' = [humans EXCEPT ![current] = t],
         UNCHANGED <<current, opening, started, locking>>,
         \/ Len(t) >= Len(humans[current]) /\ MaybeStartCountdown(current)
         \/ Len(t) <= Len(humans[current]) /\ CancelCountdown(current)
  PROVE  Idle' /\ LobbyDriven'
<1>1. /\ current \in Games /\ current \notin started /\ humans \in [Games -> Seq(Human)]
      /\ countdown \in [Games -> {"none", "armed", "spent"}]
  BY DEF LInv, LobbyShape, Open
<1>2. humans'[current] = t /\ \A g \in Games \ {current} : humans'[g] = humans[g]
  BY <1>1
<1>3. /\ Len(t) \in Nat /\ Len(humans[current]) \in Nat /\ MinHumans \in Nat
      /\ countdown[current] \in {"none", "armed"}
  BY <1>1, LobbyAssumption DEF Idle
<1>4. /\ \A g \in Games \ {current} : countdown'[g] = countdown[g]
      /\ countdown'[current] \in {"none", "armed"}
      /\ Len(t) >= MinHumans => countdown'[current] = "armed"
  <2>1. CASE Len(t) >= Len(humans[current]) /\ MaybeStartCountdown(current)
    <3>1. countdown' = IF countdown[current] = "none" /\ Len(t) >= MinHumans
                       THEN [countdown EXCEPT ![current] = "armed"] ELSE countdown
      BY <1>2, <2>1 DEF MaybeStartCountdown
    <3> QED
      BY <1>1, <1>3, <3>1
  <2>2. CASE Len(t) <= Len(humans[current]) /\ CancelCountdown(current)
    <3>1. countdown' = IF countdown[current] # "none" /\ Len(t) < MinHumans
                       THEN [countdown EXCEPT ![current] = "none"] ELSE countdown
      BY <1>2, <2>2 DEF CancelCountdown
    <3>2. Len(t) >= MinHumans => countdown[current] = "armed"
      BY <1>3, <2>2 DEF LobbyDriven
    <3> QED
      BY <1>1, <1>3, <3>1, <3>2
  <2> QED
    BY <2>1, <2>2
<1>5. Idle'
  BY <1>1, <1>2, <1>4 DEF Idle
<1>6. LobbyDriven'
  BY <1>2, <1>4 DEF LobbyDriven, Open
<1> QED
  BY <1>5, <1>6

(* Steps that leave the lobby alone. *)
LEMMA LobbyStill ==
  ASSUME Idle, LobbyDriven, UNCHANGED <<current, opening, humans, started, countdown, locking>>
  PROVE  Idle' /\ LobbyDriven'
  BY DEF Idle, LobbyDriven, Open, Fresh

(* One step per action. *)
LEMMA StepDriven ==
  ASSUME LInv, Idle, LobbyDriven, [Next]_vars PROVE Idle' /\ LobbyDriven'
<1>1. ASSUME NEW k \in confirms, DepositSeen(k) PROVE Idle' /\ LobbyDriven'
  <2>1. UNCHANGED <<current, opening, started, locking>>
    BY <1>1 DEF DepositSeen
  <2>2. CASE StillOpen(k)
    <3> DEFINE h == [conn |-> k.conn, addr |-> k.addr, seat |-> Len(humans[current])]
               t == Append(humans[current], h)
    <3>1. k.game = current /\ k \in [conn : Conns, game : Games, addr : Players]
      BY <2>2 DEF StillOpen, LInv, LobbyShape
    <3>2. current \in Games /\ humans[current] \in Seq(Human) /\ Open
      BY <2>2, <3>1, LobbyAssumption DEF StillOpen, LInv, LobbyShape, Open
    <3>3. h \in Human
      BY <3>1, <3>2 DEF Human
    <3>4. t \in Seq(Human) /\ Len(t) >= Len(humans[current])
      <4> HIDE DEF h
      <4> QED
        BY <3>2, <3>3
    <3>5. humans' = [humans EXCEPT ![current] = t] /\ MaybeStartCountdown(current)
      BY <1>1, <2>2, <3>1 DEF DepositSeen
    <3> HIDE DEF t
    <3> QED
      BY <2>1, <3>2, <3>4, <3>5, SeatsDriven
  <2>3. CASE ~StillOpen(k)
    BY <1>1, <2>1, <2>3, LobbyStill DEF DepositSeen
  <2> QED
    BY <2>2, <2>3
<1>2. ASSUME NEW c \in Conns, Disconnect(c) PROVE Idle' /\ LobbyDriven'
  <2>1. UNCHANGED <<current, opening, started, locking>>
    BY <1>2 DEF Disconnect
  <2>2. CASE Leaves(c, current) /\ CancelCountdown(current)
               /\ \E i \in DOMAIN humans[current] : humans' = [humans EXCEPT ![current] = Unseat(@, i)]
    <3>1. PICK i \in DOMAIN humans[current] : humans' = [humans EXCEPT ![current] = Unseat(@, i)]
      BY <2>2
    <3>2. Open /\ current \in Games
      BY <2>2 DEF Leaves, Open, LInv, LobbyShape
    <3> DEFINE s == humans[current]
               t == Unseat(s, i)
    <3>3. s \in Seq(Human) /\ Numbered(s)
      BY <3>2 DEF LInv, LobbyShape, SeatsDistinct, Numbered
    <3>4. humans' = [humans EXCEPT ![current] = t]
      BY <3>1
    <3> HIDE DEF s, t
    <3>5. t \in Seq(Human) /\ Len(t) = Len(s) - 1 /\ Len(s) \in Nat
      BY <3>3, SeatLeft DEF s, t
    <3>6. Len(t) <= Len(humans[current])
      BY <3>5 DEF s
    <3> QED
      BY <2>1, <2>2, <3>2, <3>4, <3>5, <3>6, SeatsDriven
  <2>3. CASE UNCHANGED <<humans, countdown>>
    BY <2>1, <2>3, LobbyStill
  <2> QED
    BY <1>2, <2>2, <2>3 DEF Disconnect
<1>3. CASE Server
  BY <1>1, <1>3, OpensDriven, LaunchDriven, LockDriven DEF Server
<1>4. CASE Clients
  BY <1>2, <1>4, LobbyStill DEF Clients, Connect, ConfirmPayment, Pay, lobby
<1>5. CASE UNCHANGED <<current, opening, humans, started, countdown, locking>>
  BY <1>5, LobbyStill
<1> QED
  BY <1>3, <1>4, <1>5 DEF Next, vars, Land, DepositNotSeen, GameOver, lobby

(* No order of joining, leaving, confirming and launching loses the countdown *)
(* of the open lobby or the next lobby, even when the chain refuses a call    *)
(* (demoLobby.ts maybeStartCountdown, onDisconnect, launch, openNextGame).   *)
THEOREM LobbyIsDriven == Spec => []LobbyDriven
<1>1. ASSUME Init PROVE Idle /\ LobbyDriven
  <2>1. opening \in Games /\ NoGame \notin Games /\ started = {} /\ current = NoGame
    BY <1>1, LobbyAssumption DEF Init
  <2> QED
    BY <1>1, <2>1 DEF Init, Idle, LobbyDriven, Open
<1>2. LInv /\ Idle /\ LobbyDriven /\ [Next]_vars => Idle' /\ LobbyDriven'
  BY StepDriven
<1> QED
  BY <1>1, <1>2, LobbyInvariance, PTL DEF Spec
-----------------------------------------------------------------------------
(* How the games of the lobby are settled.  The settlements that are on their *)
(* way, and the configuration of the escrow, which nothing changes here.     *)
Settles == {i \in DOMAIN txs : txs[i].op = "settle"}

Configured == treasury /\ serverSigner = Key

(* A settlement divides what a roster paid among wallets of the roster. *)
SharesOf(tx, roster) ==
  /\ tx.to \subseteq {roster[i].addr : i \in DOMAIN roster}
  /\ tx.each * Cardinality(tx.to) + tx.house = Len(roster) * BuyIn

Divides == \A i \in Settles : SharesOf(txs[i], humans[txs[i].game])

(* A room that still runs, or is about to, has settled nothing, and no two   *)
(* settlements are of one game.                                              *)
SettledOnce ==
  /\ \A i, j \in Settles : txs[i].game = txs[j].game => i = j
  /\ \A g \in Launched \cup locking :
       status[g] # "Settled" /\ \A i \in Settles : txs[i].game # g

SInv == Configured /\ Divides /\ SettledOnce /\ Launched \cap locking = {}

(* Steps of the lobby that send no settlement and start no room. *)
LEMMA SettlesStill ==
  ASSUME LInv, SInv, UNCHANGED <<status, serverSigner, treasury, locking, rooms>>,
         \A g \in started : humans'[g] = humans[g],
         \A i \in DOMAIN txs' : txs'[i].op # "settle" \/ (i \in DOMAIN txs /\ txs'[i] = txs[i])
  PROVE  SInv'
<1>1. Settles' \subseteq Settles /\ \A i \in Settles' : txs'[i] = txs[i]
  BY DEF Settles
<1>2. \A i \in Settles : txs[i].game \in started
  BY DEF Settles, LInv, LaunchedFirst
<1>3. \A i \in Settles' : humans'[txs[i].game] = humans[txs[i].game]
  BY <1>1, <1>2
<1>4. Configured' /\ Launched' = Launched /\ locking' = locking /\ status' = status
  BY DEF SInv, Configured, Launched
<1>5. Divides'
  <2>1. ASSUME NEW i \in Settles' PROVE SharesOf(txs'[i], humans'[txs'[i].game])
    <3>1. txs'[i] = txs[i] /\ humans'[txs'[i].game] = humans[txs[i].game]
      BY <1>1, <1>3
    <3>2. SharesOf(txs[i], humans[txs[i].game])
      BY <1>1 DEF SInv, Divides
    <3> QED
      BY <3>1, <3>2, Zenon
  <2> QED
    BY <2>1, Zenon DEF Divides
<1>6. SettledOnce'
  <2>1. \A i, j \in Settles' : txs'[i].game = txs'[j].game => i = j
    BY <1>1 DEF SInv, SettledOnce
  <2>2. ASSUME NEW g \in Launched' \cup locking'
        PROVE  status'[g] # "Settled" /\ \A i \in Settles' : txs'[i].game # g
    BY <1>1, <1>4 DEF SInv, SettledOnce
  <2> QED
    BY <2>1, <2>2 DEF SettledOnce
<1> QED
  BY <1>4, <1>5, <1>6 DEF SInv

(* The lobby moves on, and its next lobby is on its way. *)
LEMMA LobbySettles ==
  ASSUME LInv, SInv, [Next]_vars, UNCHANGED <<status, serverSigner, treasury, locking, rooms>>,
         UNCHANGED txs \/ \E g \in Games : Submit([op |-> "create", game |-> g])
  PROVE  SInv'
<1>1. \A g \in started : humans'[g] = humans[g]
  BY FrozenStep
<1>2. CASE UNCHANGED txs
  BY <1>1, <1>2, SettlesStill
<1>3. ASSUME NEW g \in Games, Submit([op |-> "create", game |-> g]) PROVE SInv'
  <2> DEFINE tx == [op |-> "create", game |-> g]
  <2>1. tx \in Tx /\ tx.op # "settle" /\ Submit(tx)
    BY <1>3 DEF Tx
  <2> HIDE DEF tx
  <2>2. \A i \in DOMAIN txs' : txs'[i] = tx \/ (i \in DOMAIN txs /\ txs'[i] = txs[i])
    BY <2>1, Queued DEF LInv
  <2> QED
    BY <1>1, <2>1, <2>2, SettlesStill
<1> QED
  BY <1>2, <1>3

(* A launch begins: nothing of its game is settled. *)
LEMMA LaunchSettles ==
  ASSUME LInv, SInv, NEW g \in Games, Launch(g) PROVE SInv'
<1>1. g \notin started /\ locking' \subseteq locking \cup {g} /\ UNCHANGED <<chain, humans, rooms, txs>>
  BY DEF Launch
<1>2. Launched \subseteq started /\ status[g] # "Settled" /\ \A i \in Settles : txs[i].game \in started
  BY <1>1 DEF LInv, LobbyShape, LaunchedFirst, Settles
<1>3. Configured' /\ Divides' /\ Launched' = Launched /\ Settles' = Settles /\ status' = status
  BY <1>1 DEF SInv, Configured, Divides, Settles, Launched, chain
<1>4. SettledOnce'
  BY <1>1, <1>2, <1>3 DEF SInv, SettledOnce
<1> QED
  BY <1>1, <1>2, <1>3, <1>4 DEF SInv

(* The room starts. *)
LEMMA LockSettles ==
  ASSUME LInv, SInv, NEW g \in Games, LockAnswered(g) PROVE SInv'
<1> DEFINE tx == [op |-> "lock", game |-> g]
<1>1. /\ g \in locking /\ locking' = locking \ {g} /\ Launched' = Launched \cup {g}
      /\ Submit(tx) /\ UNCHANGED <<chain, humans>>
  BY DEF LockAnswered, Launched
<1>2. tx \in Tx /\ tx.op # "settle"
  BY DEF Tx
<1> HIDE DEF tx
<1>3. \A i \in DOMAIN txs' : txs'[i] = tx \/ (i \in DOMAIN txs /\ txs'[i] = txs[i])
  BY <1>1, <1>2, Queued DEF LInv
<1>4. Settles' \subseteq Settles /\ \A i \in Settles' : txs'[i] = txs[i]
  BY <1>2, <1>3 DEF Settles
<1>5. Divides'
  <2>1. ASSUME NEW i \in Settles' PROVE SharesOf(txs'[i], humans'[txs'[i].game])
    BY <1>1, <1>4, Zenon DEF SInv, Divides
  <2> QED
    BY <2>1, Zenon DEF Divides
<1>6. Configured' /\ status' = status /\ Launched' \cup locking' = Launched \cup locking
  BY <1>1 DEF SInv, Configured, chain
<1>7. SettledOnce'
  BY <1>4, <1>6 DEF SInv, SettledOnce
<1> QED
  BY <1>1, <1>5, <1>6, <1>7 DEF SInv

(* A room ends and sends its settlement. *)
LEMMA GameOverSettles ==
  ASSUME LInv, SInv, NEW g \in Games, GameOver(g) PROVE SInv'
<1>1. PICK S \in SUBSET SeatedAddrs(g), each \in 0..rooms[g] :
        /\ each * Cardinality(S) <= rooms[g]
        /\ Submit([op |-> "settle", game |-> g, to |-> S, each |-> each,
                   house |-> rooms[g] - each * Cardinality(S)])
  BY DEF GameOver
<1>2. g \in Launched /\ Launched' = Launched \ {g} /\ UNCHANGED <<chain, humans, locking>>
  BY DEF GameOver, lobby, Launched
<1> DEFINE m == each * Cardinality(S)
           h == rooms[g] - m
           tx == [op |-> "settle", game |-> g, to |-> S, each |-> each, house |-> h]
<1>3. rooms[g] = Len(humans[g]) * BuyIn /\ rooms[g] \in Nat /\ humans[g] \in Seq(Human)
  <2>1. humans[g] \in Seq(Human)
    BY DEF LInv, LobbyShape
  <2> QED
    BY <1>2, <2>1, LobbyAssumption DEF LInv, RoomsFunded
<1>4. S \in SUBSET Players /\ Cardinality(S) \in Nat
  <2>1. \A i \in DOMAIN humans[g] : humans[g][i] \in Human
    BY <1>3
  <2>2. S \in SUBSET Players
    BY <2>1 DEF SeatedAddrs, Human
  <2> QED
    BY <2>2, SeqOfSet
<1>5. m \in Nat /\ m <= rooms[g] /\ each \in Nat
  BY <1>1, <1>3, <1>4
<1>6. h \in Nat /\ m + h = rooms[g]
  <2> HIDE DEF m
  <2> QED
    BY <1>3, <1>5
<1>7. tx \in Tx /\ tx.op = "settle" /\ tx.game = g /\ Submit(tx)
  <2>1. Submit(tx)
    BY <1>1
  <2> HIDE DEF h
  <2> QED
    BY <1>4, <1>5, <1>6, <2>1 DEF Tx
<1>8. SharesOf(tx, humans[g])
  <2>1. tx.to = S /\ tx.each * Cardinality(tx.to) + tx.house = m + h
    OBVIOUS
  <2>2. S \subseteq {humans[g][i].addr : i \in DOMAIN humans[g]}
    BY DEF SeatedAddrs
  <2> HIDE DEF tx, m, h
  <2> QED
    BY <1>3, <1>6, <2>1, <2>2 DEF SharesOf
<1> HIDE DEF tx
<1>9. \/ txs' = Append(txs, tx)
      \/ txs' = txs
  BY <1>7 DEF Submit
<1>10. txs \in Seq(Tx)
  BY DEF LInv, LobbyShape
<1>11. ASSUME NEW i \in Settles', i \notin Settles \/ txs'[i] # txs[i]
       PROVE  i = Len(txs) + 1 /\ txs'[i] = tx
  BY <1>9, <1>10, <1>11 DEF Settles
<1>12. Divides'
  <2>1. ASSUME NEW i \in Settles' PROVE SharesOf(txs'[i], humans'[txs'[i].game])
    <3>1. CASE i \in Settles /\ txs'[i] = txs[i]
      BY <1>2, <3>1, Zenon DEF SInv, Divides
    <3>2. CASE i = Len(txs) + 1 /\ txs'[i] = tx
      BY <1>2, <1>7, <1>8, <3>2, Zenon
    <3> QED
      BY <1>11, <3>1, <3>2
  <2> QED
    BY <2>1, Zenon DEF Divides
<1>13. \A i \in Settles : txs[i].game # g
  BY <1>2 DEF SInv, SettledOnce
<1>14. SettledOnce'
  <2>1. \A i, j \in Settles' : txs'[i].game = txs'[j].game => i = j
    BY <1>7, <1>11, <1>13 DEF SInv, SettledOnce
  <2>2. ASSUME NEW x \in Launched' \cup locking'
        PROVE  status'[x] # "Settled" /\ \A i \in Settles' : txs'[i].game # x
    <3>1. x \in Launched \cup locking /\ x # g
      BY <1>2 DEF SInv
    <3> QED
      BY <1>2, <1>7, <1>11, <3>1 DEF SInv, SettledOnce, chain
  <2> QED
    BY <2>1, <2>2 DEF SettledOnce
<1>15. Configured' /\ Launched' \cap locking' = {}
  BY <1>2 DEF SInv, Configured, chain
<1> QED
  BY <1>12, <1>14, <1>15 DEF SInv

(* A transaction lands: a settlement is of a game whose room is gone. *)
LEMMA LandSettles ==
  ASSUME LInv, SInv, Land PROVE SInv'
<1> DEFINE tx == Head(txs)
<1>1. txs # <<>> /\ txs' = Tail(txs) /\ UNCHANGED <<humans, locking, rooms>>
  BY DEF Land, lobby
<1>2. txs \in Seq(Tx) /\ status \in [Games -> EP!Statuses]
  BY DEF LInv, LobbyShape, ChainSound, EP!IInv, EP!Shape
<1>3. \A i \in DOMAIN txs' : i + 1 \in DOMAIN txs /\ txs'[i] = txs[i + 1] /\ i \in Nat
  <2>1. Tail(txs) \in Seq(Tx) /\ Len(Tail(txs)) = Len(txs) - 1 /\ \A i \in 1..Len(Tail(txs)) : Tail(txs)[i] = txs[i + 1]
    BY <1>1, <1>2, HeadTailProperties
  <2> QED
    BY <1>1, <1>2, <2>1
<1>4. tx \in Tx /\ 1 \in DOMAIN txs /\ tx = txs[1]
  BY <1>1, <1>2
<1>5. \A i \in Settles' : i + 1 \in Settles /\ txs'[i] = txs[i + 1] /\ i \in Nat
  BY <1>3 DEF Settles
<1>6. Runs(tx) \/ UNCHANGED chain
  BY Zenon DEF Land
<1> HIDE DEF tx
<1>7. /\ Configured'
      /\ \A g \in Launched \cup locking : status'[g] # "Settled"
  <2>1. Launched \cup locking \subseteq Games
    BY DEF LInv, LobbyShape
  <2>2. CASE UNCHANGED chain
    BY <2>2 DEF SInv, Configured, SettledOnce, chain
  <2>3. CASE tx.op = "create" /\ E!CreateGame(tx.game)
    BY <1>2, <2>1, <2>3 DEF SInv, Configured, SettledOnce, E!CreateGame, E!config
  <2>4. CASE tx.op = "lock" /\ E!LockGame(tx.game)
    BY <1>2, <2>1, <2>4 DEF SInv, Configured, SettledOnce, E!LockGame, E!config
  <2>5. CASE tx.op = "settle" /\ E!Settle(Settlement(tx), Key, {})
    <3>1. Settlement(tx).gameId = tx.game
      BY DEF Settlement
    <3>2. /\ status' = [status EXCEPT ![tx.game] = "Settled"]
          /\ treasury' = treasury /\ serverSigner' = serverSigner
      BY <2>5, <3>1 DEF E!Settle, E!config
    <3>3. tx.game \notin Launched \cup locking
      BY <1>4, <2>5 DEF SInv, SettledOnce, Settles
    <3> QED
      BY <1>2, <2>1, <3>2, <3>3 DEF SInv, Configured, SettledOnce
  <2> QED
    BY <1>6, <2>2, <2>3, <2>4, <2>5 DEF Runs
<1>8. Divides'
  <2>1. ASSUME NEW i \in Settles' PROVE SharesOf(txs'[i], humans'[txs'[i].game])
    <3>1. SharesOf(txs[i + 1], humans[txs[i + 1].game])
      BY <1>5 DEF SInv, Divides
    <3> QED
      BY <1>1, <1>5, <3>1, Zenon
  <2> QED
    BY <2>1, Zenon DEF Divides
<1>9. SettledOnce'
  <2>1. \A i, j \in Settles' : txs'[i].game = txs'[j].game => i = j
    <3> SUFFICES ASSUME NEW i \in Settles', NEW j \in Settles', txs'[i].game = txs'[j].game PROVE i = j
      OBVIOUS
    <3>1. i + 1 = j + 1 /\ i \in Nat /\ j \in Nat
      BY <1>5 DEF SInv, SettledOnce
    <3> QED
      BY <3>1
  <2>2. Launched' \cup locking' = Launched \cup locking
    BY <1>1 DEF Launched
  <2>3. \A g \in Launched \cup locking : \A i \in Settles' : txs'[i].game # g
    BY <1>5 DEF SInv, SettledOnce
  <2> QED
    BY <1>7, <2>1, <2>2, <2>3 DEF SettledOnce
<1> QED
  BY <1>1, <1>7, <1>8, <1>9 DEF SInv, Launched

(* One step per action. *)
LEMMA StepSInv == ASSUME LInv, SInv, [Next]_vars PROVE SInv'
<1>1. ASSUME NEW g \in Games, NEW a \in Players, Pay(g, a) PROVE SInv'
  <2>1. UNCHANGED <<status, serverSigner, treasury, locking, rooms, txs>>
    BY <1>1 DEF Pay, E!Join, E!config
  <2> QED
    BY <2>1, LobbySettles
<1>2. CASE UNCHANGED <<chain, locking, rooms, txs>>
  BY <1>2, LobbySettles DEF chain
<1>3. ASSUME NEW g \in Games, CreateAnswered(g) PROVE SInv'
  <2>1. UNCHANGED <<status, serverSigner, treasury, locking, rooms>> /\ Submit([op |-> "create", game |-> g])
    BY <1>3 DEF CreateAnswered, chain
  <2> QED
    BY <2>1, LobbySettles
<1>4. CASE Server
  BY <1>2, <1>3, <1>4, LaunchSettles, LockSettles DEF Server, DepositSeen
<1>5. CASE Clients
  BY <1>1, <1>2, <1>5, LobbyAssumption DEF Clients, Connect, Disconnect, ConfirmPayment
<1>6. CASE Land
  BY <1>6, LandSettles
<1> QED
  BY <1>2, <1>4, <1>5, <1>6, GameOverSettles DEF Next, DepositNotSeen, vars

(* Nothing is settled or on its way at the start. *)
LEMMA InitSInv == ASSUME Init PROVE SInv
<1>1. Settles = {} /\ Launched = {} /\ locking = {} /\ treasury /\ serverSigner = Key
  BY DEF Init, Settles, Launched, E!Init
<1> QED
  BY <1>1 DEF SInv, Configured, Divides, SettledOnce

(* A game is settled once: no game has two settlements on their way, and     *)
(* none has been settled while its room runs (demoLobby.ts launch: a lobby   *)
(* starts one room, and a room ends once).                                   *)
THEOREM GamesSettleOnce == Spec => []SettledOnce
<1>1. LInv /\ SInv /\ [Next]_vars => SInv'
  BY StepSInv
<1>2. SInv => SettledOnce
  BY DEF SInv
<1> QED
  BY <1>1, <1>2, InitSInv, LobbyInvariance, PTL DEF Spec

(* What the escrow asks of a settlement, but that it conserves the pool. *)
Admissible(s) ==
  /\ Len(s.survivors) = Len(s.payouts) /\ Key = serverSigner
  /\ E!AllFunders(s) /\ (s.house # 0 => treasury)

(* The settlement of a locked game is admissible, and it conserves the pool  *)
(* exactly when the wallets that paid are the wallets that were seated.      *)
SettlesIfSeated ==
  \A i \in Settles : status[txs[i].game] = "Locked" =>
    /\ Admissible(Settlement(txs[i]))
    /\ E!Conserves(Settlement(txs[i])) <=>
         E!Funders(txs[i].game) = SeatedAddrs(txs[i].game)

(* Each of a set of wallets is listed once. *)
LEMMA ListedOnce ==
  ASSUME NEW S \in SUBSET Players
  PROVE  E!IsInjective(SetToSeq(S))
<1>1. IsFiniteSet(S)
  BY FS_Subset, LobbyAssumption
<1>2. Cardinality(S) \in Nat /\ ExistsBijection(1..Cardinality(S), S)
  BY <1>1, FS_CardinalityType
<1>3. \E f \in [1..Cardinality(S) -> S] : IsInjective(f)
  BY <1>2 DEF ExistsBijection, Bijection, Injection
<1>4. IsInjective(SetToSeq(S))
  BY <1>3 DEF SetToSeq
<1> QED
  BY <1>4 DEF E!IsInjective, IsInjective

(* A settlement with equal shares pays their product. *)
LEMMA PaidIsProduct ==
  ASSUME NEW tx \in Tx, tx.op = "settle"
  PROVE  /\ E!Paid(Settlement(tx)) = tx.each * Cardinality(tx.to)
         /\ Cardinality(tx.to) \in Nat /\ tx.each \in Nat /\ tx.house \in Nat
<1> DEFINE n == Cardinality(tx.to)
           f == [i \in 1..n |-> tx.each]
<1>1. tx.to \in SUBSET Players /\ tx.each \in Nat /\ tx.house \in Nat
  BY DEF Tx
<1>2. n \in Nat
  BY <1>1, SeqOfSet
<1>3. IsFiniteSet(1..n) /\ Cardinality(1..n) = n
  <2>1. 1 \in Int /\ n \in Int
    BY <1>2
  <2> HIDE DEF n
  <2>2. IsFiniteSet(1..n) /\ Cardinality(1..n) = IF 1 > n THEN 0 ELSE n - 1 + 1
    BY <2>1, FS_Interval
  <2> QED
    BY <1>2, <2>2
<1>4. SumFunctionOnSet(f, 1..n) = tx.each * n
  <2>1. \A x \in 1..n : f[x] = tx.each
    OBVIOUS
  <2> HIDE DEF f, n
  <2>2. SumFunctionOnSet(f, 1..n) = tx.each * Cardinality(1..n)
    BY <1>1, <1>3, <2>1, SumAlike
  <2> QED
    BY <1>3, <2>2
<1>5. E!Paid(Settlement(tx)) = SumFunctionOnSet(f, 1..n)
  <2>1. Settlement(tx).payouts = f /\ DOMAIN f = 1..n
    BY DEF Settlement
  <2> HIDE DEF f, n
  <2>2. E!Paid(Settlement(tx)) = E!SumFunctionOnSet(f, 1..n)
    BY <2>1 DEF E!Paid, E!SumFunction
  <2>3. E!SumFunctionOnSet(f, 1..n) = SumFunctionOnSet(f, 1..n)
    BY DEF E!SumFunctionOnSet, E!FoldFunctionOnSet, E!MapThenFoldSet,
           SumFunctionOnSet, FoldFunctionOnSet, MapThenFoldSet
  <2> QED
    BY <2>2, <2>3
<1> QED
  BY <1>1, <1>2, <1>4, <1>5

(* As many wallets are seated as the table has seats. *)
LEMMA SeatedCount ==
  ASSUME LInv, NEW g \in Games
  PROVE  /\ IsFiniteSet(SeatedAddrs(g)) /\ Cardinality(SeatedAddrs(g)) = Len(humans[g])
         /\ Len(humans[g]) \in Nat /\ SeatedAddrs(g) \subseteq Players
<1> DEFINE s == humans[g]
           f == [i \in 1..Len(s) |-> s[i].addr]
<1>1. s \in Seq(Human) /\ Len(s) \in Nat /\ DOMAIN s = 1..Len(s) /\ Numbered(s)
  BY DEF LInv, LobbyShape, SeatsDistinct, Numbered
<1>2. SeatedAddrs(g) = {s[i].addr : i \in 1..Len(s)}
  BY <1>1 DEF SeatedAddrs
<1>3. SeatedAddrs(g) \subseteq Players
  <2>1. \A i \in DOMAIN s : s[i] \in Human
    BY <1>1
  <2> QED
    BY <1>1, <1>2, <2>1 DEF Human
<1>4. f \in [1..Len(s) -> SeatedAddrs(g)]
  BY <1>2
<1>5. /\ \A i, j \in 1..Len(s) : f[i] = f[j] => i = j
      /\ \A a \in SeatedAddrs(g) : \E i \in 1..Len(s) : f[i] = a
  BY <1>1, <1>2 DEF Numbered
<1>6. f \in Bijection(1..Len(s), SeatedAddrs(g))
  <2> HIDE DEF f
  <2>1. f \in Injection(1..Len(s), SeatedAddrs(g))
    BY <1>4, <1>5 DEF Injection, IsInjective
  <2>2. f \in Surjection(1..Len(s), SeatedAddrs(g))
    BY <1>4, <1>5 DEF Surjection
  <2> QED
    BY <2>1, <2>2 DEF Bijection
<1>7. ExistsBijection(1..Len(s), SeatedAddrs(g))
  <2> HIDE DEF f
  <2> QED
    BY <1>6 DEF ExistsBijection
<1>8. IsFiniteSet(SeatedAddrs(g))
  BY <1>3, FS_Subset, LobbyAssumption
<1>9. Cardinality(SeatedAddrs(g)) = Len(s)
  BY <1>1, <1>7, <1>8, FS_CountingElements
<1> QED
  BY <1>1, <1>3, <1>8, <1>9

(* What a locked game holds, and who can be paid from it. *)
LEMMA LockedPool ==
  ASSUME LInv, NEW g \in Games, status[g] = "Locked"
  PROVE  /\ SeatedAddrs(g) \subseteq E!Funders(g) /\ IsFiniteSet(E!Funders(g))
         /\ pool[g] = Cardinality(E!Funders(g)) * BuyIn
<1> DEFINE F == E!Funders(g)
<1>1. F = EP!Funders(g) /\ F \in SUBSET Players
  BY DEF E!Funders, EP!Funders
<1>2. IsFiniteSet(F) /\ Cardinality(F) \in Nat
  BY <1>1, FS_Subset, FS_CardinalityType, LobbyAssumption
<1>3. SeatedAddrs(g) \subseteq F
  <2> SUFFICES ASSUME NEW i \in DOMAIN humans[g] PROVE humans[g][i].addr \in F
    BY DEF SeatedAddrs
  <2>1. deposit[g][humans[g][i].addr] = BuyIn
    BY DEF LInv, SeatsPaid
  <2>2. humans[g][i].addr \in Players
    BY SeatedCount DEF SeatedAddrs
  <2> QED
    BY <2>1, <2>2, LobbyAssumption DEF E!Funders
<1>4. EP!Cardinality(F) = Cardinality(F)
  BY DEF EP!Cardinality, EP!IsFiniteSet, Cardinality
<1>5. /\ count[g] = Cardinality(F) /\ pool[g] = count[g] * price[g]
      /\ \A p \in F : deposit[g][p] = price[g]
      /\ price[g] \in {BuyIn} \cup {0}
  BY <1>1, <1>4 DEF LInv, ChainSound, EP!IInv, EP!OneDepositPerWallet, EP!Shape
<1>6. CASE F = {}
  <2>1. Cardinality(F) = 0
    BY <1>6, FS_EmptySet
  <2>2. pool[g] = 0 /\ 0 * BuyIn = 0
    BY <1>5, <2>1, LobbyAssumption
  <2> QED
    BY <1>2, <1>3, <2>1, <2>2
<1>7. CASE F # {}
  <2>1. PICK p \in F : TRUE
    BY <1>7
  <2>2. deposit[g][p] = price[g] /\ deposit[g][p] # 0
    BY <1>5, <2>1 DEF E!Funders
  <2>3. price[g] = BuyIn
    BY <1>5, <2>2
  <2> QED
    BY <1>2, <1>3, <1>5, <2>3
<1> QED
  BY <1>6, <1>7

(* The settlement of a game pays its roster out of the pool: everything but  *)
(* conservation holds of it. *)
LEMMA FateOf ==
  ASSUME LInv, SInv, NEW i \in Settles, status[txs[i].game] = "Locked"
  PROVE  /\ Admissible(Settlement(txs[i]))
         /\ E!Conserves(Settlement(txs[i])) <=>
              E!Funders(txs[i].game) = SeatedAddrs(txs[i].game)
<1> DEFINE tx == txs[i]
           g == tx.game
           s == Settlement(tx)
           S == SeatedAddrs(g)
           F == E!Funders(g)
           n == Cardinality(tx.to)
<1>1. tx \in Tx /\ tx.op = "settle"
  <2>1. txs \in Seq(Tx) /\ i \in DOMAIN txs
    BY DEF LInv, LobbyShape, Settles
  <2> QED
    BY <2>1 DEF Settles
<1>2. g \in Games /\ tx.to \in SUBSET Players
  BY <1>1 DEF Tx
<1>3. tx.to \subseteq S /\ tx.each * n + tx.house = Len(humans[g]) * BuyIn
  <2>1. SharesOf(tx, humans[g])
    BY DEF SInv, Divides
  <2> QED
    BY <2>1, Zenon DEF SharesOf, SeatedAddrs
<1>4. S \subseteq F /\ IsFiniteSet(F) /\ pool[g] = Cardinality(F) * BuyIn
  BY <1>2, LockedPool
<1>5. IsFiniteSet(S) /\ Cardinality(S) = Len(humans[g]) /\ Len(humans[g]) \in Nat
  BY <1>2, SeatedCount
<1>6. E!Paid(s) = tx.each * n /\ n \in Nat
  BY <1>1, PaidIsProduct
<1>7. s.gameId = g /\ s.survivors = SetToSeq(tx.to) /\ s.house = tx.house
      /\ s.payouts = [j \in 1..n |-> tx.each]
  BY DEF Settlement
<1> HIDE DEF s, S, F, n
<1>8. SetToSeq(tx.to) \in [1..n -> tx.to]
  BY <1>2, SeqOfSet DEF n
<1>9. Admissible(s)
  <2>1. Len(s.survivors) = Len(s.payouts)
    BY <1>6, <1>7, <1>8
  <2>2. E!AllFunders(s)
    <3>1. \A j \in DOMAIN s.survivors : s.survivors[j] \in F
      BY <1>3, <1>4, <1>7, <1>8
    <3>2. E!IsInjective(s.survivors)
      BY <1>2, <1>7, ListedOnce
    <3> QED
      BY <1>7, <3>1, <3>2 DEF E!AllFunders, E!Funders, F
  <2> QED
    BY <2>1, <2>2 DEF Admissible, SInv, Configured
<1>10. E!Conserves(s) <=> Cardinality(S) * BuyIn = Cardinality(F) * BuyIn
  BY <1>3, <1>4, <1>5, <1>6, <1>7 DEF E!Conserves
<1>11. Cardinality(F) \in Nat /\ Cardinality(S) <= Cardinality(F)
       /\ (Cardinality(F) = Cardinality(S) => F = S)
  BY <1>4, <1>5, FS_Subset, FS_CardinalityType
<1>12. \A a, b \in Nat : a * BuyIn = b * BuyIn => ~(a < b)
  <2> SUFFICES ASSUME NEW a \in Nat, NEW b \in Nat, a < b PROVE a * BuyIn # b * BuyIn
    OBVIOUS
  <2>1. a + 1 <= b /\ BuyIn \in Nat /\ BuyIn # 0
    BY LobbyAssumption
  <2>2. (a + 1) * BuyIn <= b * BuyIn
    BY <2>1, MoreTimes
  <2>3. (a + 1) * BuyIn = a * BuyIn + BuyIn /\ a * BuyIn \in Nat /\ b * BuyIn \in Nat
    BY <2>1, SMT
  <2> QED
    BY <2>1, <2>2, <2>3
<1>13. Cardinality(S) * BuyIn = Cardinality(F) * BuyIn <=> F = S
  BY <1>5, <1>11, <1>12
<1> QED
  BY <1>9, <1>10, <1>13 DEF s, S, F

(* What the chain makes of the settlement of a locked game: whatever the      *)
(* roster and the amounts, it lands unless a wallet has paid that is not     *)
(* seated (a payment seen too late, a socket that closed), and then it       *)
(* reverts and the pool stays locked (ImpostorEscrow.sol settle, demoLobby.ts *)
(* onDisconnect).                                                            *)
THEOREM OnlyUnseatedMoneyBlocks == Spec => []SettlesIfSeated
<1>1. LInv /\ SInv /\ [Next]_vars => SInv'
  BY StepSInv
<1>2. LInv /\ SInv => SettlesIfSeated
  BY FateOf DEF SettlesIfSeated
<1> QED
  BY <1>1, <1>2, InitSInv, LobbyInvariance, PTL DEF Spec
=============================================================================
