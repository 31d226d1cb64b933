---------------------------- MODULE EscrowProofs ----------------------------
(***************************************************************************)
(* What every escrow satisfies, for any games, wallets and prices: one      *)
(* deposit per wallet, the lifecycle of a game, the money to the wei, and   *)
(* that the contract is the vault of module Vault.                          *)
(***************************************************************************)
EXTENDS Escrow, Facts

(* The part of TypeOK that involves no sum. *)
Shape ==
  /\ status \in [Games -> Statuses]
  /\ price \in [Games -> Prices \cup {0}]
  /\ pool \in [Games -> Nat]
  /\ count \in [Games -> 0..MaxPlayers]
  /\ deposit \in [Games -> [Players -> Prices \cup {0}]]
  /\ buyIn \in Prices

(* Strengthening: a game nobody created has no money in it. *)
NothingBeforeOpen ==
  \A g \in Games : status[g] = "None" =>
    count[g] = 0 /\ pool[g] = 0 /\ Funders(g) = {}

IInv == Shape /\ NothingBeforeOpen /\ OneDepositPerWallet

(* The initial states are of the right shape and empty. *)
LEMMA InitIInv == ASSUME 0 \notin Prices PROVE Init => IInv
<1> SUFFICES ASSUME Init PROVE IInv
  OBVIOUS
<1>1. Shape
  BY EscrowAssumption DEF Init, Shape, Statuses
<1>2. \A g \in Games : Funders(g) = {}
  BY DEF Init, Funders
<1> QED
  BY <1>1, <1>2 DEF IInv, NothingBeforeOpen, OneDepositPerWallet, Init

(* Arithmetic of one more player at the price of the game. *)
LEMMA OneMorePlayer ==
  ASSUME NEW c \in Nat, NEW v \in Nat PROVE (c + 1) * v = c * v + v
  OBVIOUS

(* join: one wallet more, its deposit at the price of the game. *)
LEMMA JoinIInv ==
  ASSUME 0 \notin Prices, IInv, NEW g \in Games, NEW p \in Players,
         NEW v \in Prices, Join(g, p, v)
  PROVE  IInv'
<1> USE EscrowAssumption DEF IInv
<1>1. /\ status' = status /\ price' = price
      /\ status[g] = "Open" /\ v = price[g] /\ v # 0
      /\ count[g] \in 0..MaxPlayers /\ count[g] < MaxPlayers
      /\ deposit[g][p] = 0
  BY DEF Join, MayJoin, Shape
<1>2. Shape'
  <2>1. /\ deposit' = [deposit EXCEPT ![g][p] = v]
        /\ pool' = [pool EXCEPT ![g] = @ + v]
        /\ count' = [count EXCEPT ![g] = @ + 1]
        /\ buyIn' = buyIn
    BY DEF Join, config
  <2>2. v \in Nat
    OBVIOUS
  <2>3. deposit' \in [Games -> [Players -> Prices \cup {0}]]
    BY <2>1 DEF Shape
  <2>4. pool' \in [Games -> Nat]
    BY <2>1, <2>2 DEF Shape
  <2>5. count' \in [Games -> 0..MaxPlayers]
    BY <2>1, <1>1 DEF Shape
  <2> QED
    BY <1>1, <2>1, <2>3, <2>4, <2>5 DEF Shape
<1>3. \A h \in Games : Funders(h)' = IF h = g THEN Funders(g) \cup {p} ELSE Funders(h)
  BY <1>1 DEF Join, Funders, Shape
<1>4. NothingBeforeOpen'
  BY <1>1, <1>3 DEF NothingBeforeOpen, Join, Shape
<1>5. p \notin Funders(g) /\ IsFiniteSet(Funders(g))
  BY <1>1, FS_Subset DEF Funders
<1>6. Cardinality(Funders(g) \cup {p}) = Cardinality(Funders(g)) + 1
  BY <1>5, FS_AddElement
<1>7. ASSUME NEW h \in Games, status[h] \in {"Open", "Locked"}
      PROVE  /\ count'[h] = Cardinality(Funders(h)')
             /\ \A q \in Funders(h)' : deposit'[h][q] = price'[h]
             /\ pool'[h] = count'[h] * price'[h]
  <2>1. CASE h = g
    <3>1. count'[g] = count[g] + 1 /\ pool'[g] = pool[g] + v
      BY DEF Join, Shape
    <3>2. pool'[g] = count'[g] * price[g]
      <4>1. count[g] \in Nat /\ price[g] \in Nat /\ pool[g] = count[g] * price[g]
        BY <1>1 DEF Shape, OneDepositPerWallet
      <4> QED
        BY <3>1, <4>1, <1>1, OneMorePlayer
    <3>3. \A q \in Funders(g) \cup {p} : deposit'[g][q] = price[g]
      BY <1>1 DEF Join, Shape, Funders, OneDepositPerWallet
    <3> QED
      BY <2>1, <3>1, <3>2, <3>3, <1>1, <1>3, <1>6 DEF OneDepositPerWallet
  <2>2. CASE h # g
    BY <2>2, <1>1, <1>3, <1>7 DEF Join, Shape, OneDepositPerWallet, Funders
  <2> QED
    BY <2>1, <2>2
<1>8. OneDepositPerWallet'
  BY <1>7, <1>1 DEF OneDepositPerWallet
<1> QED
  BY <1>2, <1>4, <1>8

(* A step that moves no game into the open or the locked ones, and leaves    *)
(* the account of those that stay there alone, preserves the invariant.      *)
LEMMA AccountsKept ==
  ASSUME IInv, Shape',
         \A h \in Games : status'[h] \in {"None", "Open", "Locked"} =>
           /\ status'[h] = "None" <=> status[h] = "None"
           /\ status[h] \in {"None", "Open", "Locked"}
           /\ price'[h] = price[h] /\ pool'[h] = pool[h]
           /\ count'[h] = count[h] /\ deposit'[h] = deposit[h]
  PROVE  IInv'
<1>1. \A h \in Games : status'[h] \in {"None", "Open", "Locked"} =>
        Funders(h)' = Funders(h)
  BY DEF Funders
<1>2. NothingBeforeOpen'
  BY <1>1 DEF NothingBeforeOpen, IInv
<1>3. OneDepositPerWallet'
  BY <1>1 DEF OneDepositPerWallet, IInv
<1> QED
  BY <1>2, <1>3 DEF IInv

(* createGame: the new pool is empty. *)
LEMMA CreateIInv ==
  ASSUME IInv, NEW g \in Games, CreateGame(g) PROVE IInv'
<1>1. /\ status[g] = "None" /\ status' = [status EXCEPT ![g] = "Open"]
      /\ price' = [price EXCEPT ![g] = buyIn]
      /\ deposit' = deposit /\ count' = count /\ pool' = pool /\ buyIn' = buyIn
  BY DEF CreateGame, config
<1>2. Shape'
  BY <1>1 DEF IInv, Shape, Statuses
<1>3. \A h \in Games : Funders(h)' = Funders(h)
  BY <1>1 DEF Funders
<1>4. count[g] = 0 /\ pool[g] = 0 /\ Funders(g) = {} /\ price'[g] \in Nat
  BY <1>1, EscrowAssumption DEF IInv, NothingBeforeOpen, Shape
<1>5. Cardinality({}) = 0
  BY FS_EmptySet
<1>6. NothingBeforeOpen'
  BY <1>1, <1>3 DEF IInv, NothingBeforeOpen, Shape
<1>7. ASSUME NEW h \in Games, status'[h] \in {"Open", "Locked"}
      PROVE  /\ count'[h] = Cardinality(Funders(h)')
             /\ \A q \in Funders(h)' : deposit'[h][q] = price'[h]
             /\ pool'[h] = count'[h] * price'[h]
  <2>1. CASE h = g
    BY <2>1, <1>1, <1>3, <1>4, <1>5
  <2>2. CASE h # g
    BY <2>2, <1>1, <1>3, <1>7 DEF IInv, OneDepositPerWallet, Shape
  <2> QED
    BY <2>1, <2>2
<1>8. OneDepositPerWallet'
  BY <1>7 DEF OneDepositPerWallet
<1> QED
  BY <1>2, <1>6, <1>8 DEF IInv

(* lockGame: the account of the game is final. *)
LEMMA LockIInv ==
  ASSUME IInv, NEW g \in Games, LockGame(g) PROVE IInv'
<1>1. Shape'
  BY DEF LockGame, config, IInv, Shape, Statuses
<1> QED
  BY <1>1, AccountsKept DEF LockGame, IInv, Shape

(* settle: a settled game has no account any more. *)
LEMMA SettleIInv ==
  ASSUME IInv, NEW s, s.gameId \in Games, NEW k, NEW F, Settle(s, k, F)
  PROVE  IInv'
<1> DEFINE g == s.gameId
<1> USE DEF Shape, Statuses
<1>0. Shape
  BY DEF IInv
<1>1. /\ status[g] = "Locked" /\ status' = [status EXCEPT ![g] = "Settled"]
      /\ deposit' = [deposit EXCEPT ![g] =
                       [p \in Players |-> IF p \in Range(s.survivors) THEN 0 ELSE @[p]]]
      /\ price' = price /\ pool' = pool /\ count' = count /\ buyIn' = buyIn
  BY DEF Settle, config
<1>2. deposit' \in [Games -> [Players -> Prices \cup {0}]]
  BY <1>0, <1>1
<1>3. Shape'
  BY <1>0, <1>1, <1>2
<1>4. \A h \in Games \ {g} : deposit'[h] = deposit[h] /\ status'[h] = status[h]
  BY <1>0, <1>1
<1>5. status'[g] = "Settled"
  BY <1>0, <1>1
<1>6. \A h \in Games : status'[h] \in {"None", "Open", "Locked"} =>
        h # g /\ status'[h] = status[h] /\ deposit'[h] = deposit[h]
  BY <1>4, <1>5
<1> QED
  BY <1>1, <1>3, <1>6, AccountsKept

(* One step per kind of transaction. *)
LEMMA StepIInv ==
  ASSUME 0 \notin Prices, IInv, [Next]_vars PROVE IInv'
<1> USE DEF Shape, Statuses
<1>0. Shape
  BY DEF IInv
<1>1. ASSUME NEW g \in Games, CreateGame(g) PROVE IInv'
  BY <1>1, CreateIInv
<1>2. ASSUME NEW g \in Games, NEW p \in Players, NEW v \in Prices, Join(g, p, v)
      PROVE IInv'
  BY <1>2, JoinIInv
<1>3. ASSUME NEW g \in Games, LockGame(g) PROVE IInv'
  BY <1>3, LockIInv
<1>4. ASSUME NEW g \in Games, AbortGame(g) PROVE IInv'
  <2>1. Shape'
    BY <1>0, <1>4 DEF AbortGame, config
  <2> QED
    BY <1>0, <1>4, <2>1, AccountsKept DEF AbortGame
<1>5. ASSUME NEW g \in Games, NEW s \in Settlements(g), NEW k, NEW F, Settle(s, k, F)
      PROVE IInv'
  <2>1. s.gameId = g
    BY DEF Settlements
  <2> QED
    BY <1>5, <2>1, SettleIInv
<1>6. ASSUME NEW g \in Games, NEW p \in Players, Refund(g, p) PROVE IInv'
  <2>1. /\ status[g] = "Refunding" /\ deposit' = [deposit EXCEPT ![g][p] = 0]
        /\ status' = status /\ price' = price /\ pool' = pool /\ count' = count
        /\ buyIn' = buyIn
    BY <1>6 DEF Refund, games, config
  <2>2. Shape'
    BY <1>0, <2>1
  <2>3. \A h \in Games \ {g} : deposit'[h] = deposit[h]
    BY <1>0, <2>1
  <2> QED
    BY <2>1, <2>2, <2>3, AccountsKept
<1>7. ASSUME UNCHANGED <<games, deposit>>, buyIn' \in Prices PROVE IInv'
  BY <1>0, <1>7, AccountsKept DEF games
<1>8. ASSUME NEW p \in Players, Withdraw(p) PROVE IInv'
  BY <1>0, <1>7, <1>8 DEF Withdraw, config
<1>9. ASSUME Admin PROVE IInv'
  BY <1>0, <1>7, <1>9 DEF Admin, SetBuyIn, RotateServerSigner, SetTreasury, SetPaused
<1>10. ASSUME UNCHANGED vars PROVE IInv'
  BY <1>0, <1>7, <1>10 DEF vars, config
<1> QED
  BY <1>1, <1>2, <1>3, <1>4, <1>5, <1>6, <1>8, <1>9, <1>10 DEF Next, Manager, Wallet

(* join (ImpostorEscrow.sol:128): as long as no price is zero, a pool holds   *)
(* exactly one deposit, at the price of its game, for each counted wallet.   *)
THEOREM DepositsSound ==
  ASSUME 0 \notin Prices PROVE Spec => []OneDepositPerWallet
<1>1. Init => IInv
  BY InitIInv
<1>2. IInv /\ [Next]_vars => IInv'
  BY StepIInv
<1>3. IInv => OneDepositPerWallet
  BY DEF IInv
<1> QED
  BY <1>1, <1>2, <1>3, PTL DEF Spec
-----------------------------------------------------------------------------
(* The statuses are a function on the games, whatever the prices. *)
StatusShape == status \in [Games -> Statuses]

(* Every step of the contract moves a game along its lifecycle or leaves it. *)
LEMMA StatusMoves ==
  ASSUME StatusShape, [Next]_vars
  PROVE  /\ StatusShape'
         /\ \A g \in Games : status'[g] # status[g] =>
              <<status[g], status'[g]>> \in
                {<<"None", "Open">>, <<"Open", "Locked">>, <<"Open", "Refunding">>,
                 <<"Locked", "Settled">>}
<1> USE DEF StatusShape, Statuses
<1>1. CASE \E g \in Games : CreateGame(g) \/ LockGame(g) \/ AbortGame(g)
  BY <1>1 DEF CreateGame, LockGame, AbortGame
<1>2. CASE \E g \in Games : \E s \in Settlements(g) : \E k, F : Settle(s, k, F)
  <2> PICK g \in Games : \E s \in Settlements(g) : \E k, F : Settle(s, k, F)
    BY <1>2
  <2> PICK s \in Settlements(g) : \E k, F : Settle(s, k, F)
    OBVIOUS
  <2> PICK k, F : Settle(s, k, F)
    OBVIOUS
  <2>1. s.gameId = g
    BY DEF Settlements
  <2>2. status[g] = "Locked" /\ status' = [status EXCEPT ![g] = "Settled"]
    BY <2>1 DEF Settle
  <2> QED
    BY <2>2
<1>3. CASE status' = status
  BY <1>3
<1>4. ASSUME NEW p \in Players, Wallet(p) PROVE status' = status
  BY <1>4 DEF Wallet, Join, Refund, Withdraw, games
<1>5. ASSUME Admin PROVE status' = status
  BY <1>5 DEF Admin, SetBuyIn, RotateServerSigner, SetTreasury, SetPaused, games
<1>6. ASSUME UNCHANGED vars PROVE status' = status
  BY <1>6 DEF vars, games
<1> QED
  BY <1>1, <1>2, <1>3, <1>4, <1>5, <1>6 DEF Next, Manager

(* The lifecycle of the contract (ImpostorEscrow.sol:20): a settled game and   *)
(* an aborted one are final, and a locked pool leaves only by settlement.    *)
THEOREM LifecycleFollowed == Spec => LifecycleOrder
<1>1. Init => StatusShape
  BY DEF Init, StatusShape, Statuses
<1>2. StatusShape /\ [Next]_vars => StatusShape'
  BY StatusMoves
<1>3. StatusShape /\ [Next]_vars =>
        [\A g \in Games : status'[g] # status[g] =>
           <<status[g], status'[g]>> \in
             {<<"None", "Open">>, <<"Open", "Locked">>, <<"Open", "Refunding">>,
              <<"Locked", "Settled">>}]_vars
  BY StatusMoves
<1> QED
  BY <1>1, <1>2, <1>3, PTL DEF Spec, LifecycleOrder
-----------------------------------------------------------------------------
(* All that the games hold, and all that is owed. *)
TotalHeld == SumFunction([g \in Games |-> Held(g)])
TotalOwed == SumFunction(owed)

(* TypeOK without the balance, which is a consequence of the books. *)
Types ==
  /\ Shape
  /\ owed \in [Players -> Nat]
  /\ serverSigner \in Signers /\ paused \in BOOLEAN /\ treasury \in BOOLEAN

(* A pool that can still be paid out is made of the deposits; before a game   *)
(* is created it is empty.                                                   *)
PoolIsStakes ==
  /\ \A g \in Games : status[g] = "None" => pool[g] = 0
  /\ \A g \in Games : status[g] \in {"None", "Open", "Locked"} => pool[g] = Stakes(g)

(* The books of the contract. *)
Books == Types /\ PoolIsStakes /\ Solvent

(* Money is counted in naturals. *)
LEMMA Tallied ==
  ASSUME NEW d \in [Players -> Prices \cup {0}]
  PROVE  d \in [Players -> Nat] /\ SumFunction(d) = SumFunctionOnSet(d, Players) /\ SumFunction(d) \in Nat
<1>0. Prices \cup {0} \subseteq Nat
  BY EscrowAssumption
<1>1. d \in [Players -> Nat] /\ DOMAIN d = Players
  BY <1>0
<1>2. SumFunction(d) = SumFunctionOnSet(d, Players)
  BY <1>1 DEF SumFunction
<1> QED
  BY <1>1, <1>2, SumSplits, EscrowAssumption

LEMMA HeldType ==
  ASSUME NEW g \in Games
  PROVE  /\ Shape => Stakes(g) \in Nat /\ Held(g) \in Nat
         /\ Shape' => Stakes(g)' \in Nat /\ Held(g)' \in Nat
<1>1. ASSUME Shape PROVE Stakes(g) \in Nat /\ Held(g) \in Nat
  <2>1. deposit[g] \in [Players -> Prices \cup {0}] /\ pool[g] \in Nat
    BY <1>1 DEF Shape
  <2> QED
    BY <2>1, Tallied DEF Stakes, Held
<1>2. ASSUME Shape' PROVE Stakes(g)' \in Nat /\ Held(g)' \in Nat
  <2>1. deposit'[g] \in [Players -> Prices \cup {0}] /\ pool'[g] \in Nat
    BY <1>2 DEF Shape
  <2> QED
    BY <2>1, Tallied DEF Stakes, Held
<1> QED
  BY <1>1, <1>2

(* What is held changes in one game only. *)
LEMMA HeldChanges ==
  ASSUME Shape, Shape', NEW g \in Games, \A h \in Games \ {g} : Held(h)' = Held(h)
  PROVE  /\ TotalHeld \in Nat /\ TotalHeld' \in Nat
         /\ TotalHeld' = TotalHeld - Held(g) + Held(g)'
<1> DEFINE f == [h \in Games |-> Held(h)]
<1>1. \A h \in Games : f[h] = Held(h) /\ f'[h] = Held(h)'
  OBVIOUS
<1>2. \A h \in Games : Held(h) \in Nat /\ Held(h)' \in Nat
  BY HeldType
<1>3. TotalHeld = SumFunctionOnSet(f, Games) /\ TotalHeld' = SumFunctionOnSet(f', Games)
  BY DEF TotalHeld, SumFunction
<1> HIDE DEF f
<1>4. \A h \in Games : f[h] \in Nat /\ f'[h] \in Nat
  BY <1>1, <1>2
<1>5. \A h \in Games \ {g} : f[h] = f'[h]
  BY <1>1
<1> QED
  BY <1>1, <1>3, <1>4, <1>5, SumChanged, EscrowAssumption

LEMMA OwedType ==
  /\ owed \in [Players -> Nat] => TotalOwed = SumFunctionOnSet(owed, Players) /\ TotalOwed \in Nat
  /\ owed' \in [Players -> Nat] => TotalOwed' = SumFunctionOnSet(owed', Players) /\ TotalOwed' \in Nat
<1>1. ASSUME NEW o \in [Players -> Nat]
      PROVE  SumFunction(o) = SumFunctionOnSet(o, Players) /\ SumFunction(o) \in Nat
  <2>1. SumFunction(o) = SumFunctionOnSet(o, Players)
    BY DEF SumFunction
  <2> QED
    BY <2>1, SumSplits, EscrowAssumption
<1> QED
  BY <1>1 DEF TotalOwed

(* What is owed changes for one player only. *)
LEMMA OwedChanges ==
  ASSUME owed \in [Players -> Nat], owed' \in [Players -> Nat], NEW p \in Players,
         \A q \in Players \ {p} : owed'[q] = owed[q]
  PROVE  TotalOwed' = TotalOwed - owed[p] + owed'[p]
<1>1. TotalOwed = SumFunctionOnSet(owed, Players) /\ TotalOwed' = SumFunctionOnSet(owed', Players)
  BY OwedType
<1>2. \A q \in Players : owed[q] \in Nat /\ owed'[q] \in Nat
  OBVIOUS
<1> QED
  BY <1>1, <1>2, SumChanged, EscrowAssumption

(* The solvency of the contract, in these terms. *)
LEMMA SolventIs ==
  /\ Solvent <=> balance = TotalHeld + TotalOwed
  /\ Solvent' <=> balance' = TotalHeld' + TotalOwed'
  BY DEF Solvent, TotalHeld, TotalOwed

(* Steps that hold what was held and owe what was owed. *)
LEMMA NothingMoves ==
  ASSUME Books, Types', PoolIsStakes', \A h \in Games : Held(h)' = Held(h),
         owed' = owed, balance' = balance
  PROVE  Books'
<1>1. TotalOwed' = TotalOwed
  BY DEF TotalOwed
<1>2. [h \in Games |-> Held(h)]' = [h \in Games |-> Held(h)]
  OBVIOUS
<1>3. TotalHeld' = TotalHeld
  BY <1>2 DEF TotalHeld
<1> QED
  BY <1>1, <1>3, SolventIs DEF Books

(* createGame: the new pool is empty, and so are the deposits in it. *)
LEMMA CreateBooks ==
  ASSUME Books, NEW g \in Games, CreateGame(g) PROVE Books'
<1>1. /\ status[g] = "None" /\ status' = [status EXCEPT ![g] = "Open"]
      /\ price' = [price EXCEPT ![g] = buyIn]
      /\ UNCHANGED <<pool, count, deposit, owed, buyIn, serverSigner, paused, treasury, balance>>
  BY DEF CreateGame, config
<1>2. Types'
  BY <1>1 DEF Books, Types, Shape, Statuses
<1>3. pool[g] = 0
  BY <1>1 DEF Books, PoolIsStakes
<1>4. \A h \in Games : Stakes(h)' = Stakes(h)
  BY <1>1 DEF Stakes
<1>5. \A h \in Games : Held(h)' = Held(h)
  BY <1>1, <1>3, <1>4 DEF Held, Books, Types, Shape
<1>6. PoolIsStakes'
  BY <1>1, <1>4 DEF PoolIsStakes, Books, Types, Shape
<1> QED
  BY <1>1, <1>2, <1>5, <1>6, NothingMoves

(* lockGame moves no money. *)
LEMMA LockBooks ==
  ASSUME Books, NEW g \in Games, LockGame(g) PROVE Books'
<1>1. /\ status[g] = "Open" /\ status' = [status EXCEPT ![g] = "Locked"]
      /\ UNCHANGED <<price, pool, count, deposit, owed, buyIn, serverSigner, paused, treasury, balance>>
  BY DEF LockGame, config
<1>2. Types'
  BY <1>1 DEF Books, Types, Shape, Statuses
<1>4. \A h \in Games : Stakes(h)' = Stakes(h)
  BY <1>1 DEF Stakes
<1>5. \A h \in Games : Held(h)' = Held(h)
  BY <1>1, <1>4 DEF Held, Books, Types, Shape
<1>6. PoolIsStakes'
  BY <1>1, <1>4 DEF PoolIsStakes, Books, Types, Shape
<1> QED
  BY <1>1, <1>2, <1>5, <1>6, NothingMoves

(* abortGame: the contract answers for the deposits instead of the pool, and  *)
(* they are the same amount.                                                 *)
LEMMA AbortBooks ==
  ASSUME Books, NEW g \in Games, AbortGame(g) PROVE Books'
<1>1. /\ status[g] = "Open" /\ status' = [status EXCEPT ![g] = "Refunding"]
      /\ UNCHANGED <<price, pool, count, deposit, owed, buyIn, serverSigner, paused, treasury, balance>>
  BY DEF AbortGame, config
<1>2. Types'
  BY <1>1 DEF Books, Types, Shape, Statuses
<1>3. pool[g] = Stakes(g)
  BY <1>1 DEF Books, PoolIsStakes
<1>4. \A h \in Games : Stakes(h)' = Stakes(h)
  BY <1>1 DEF Stakes
<1>5. \A h \in Games : Held(h)' = Held(h)
  BY <1>1, <1>3, <1>4 DEF Held, Books, Types, Shape
<1>6. PoolIsStakes'
  BY <1>1, <1>4 DEF PoolIsStakes, Books, Types, Shape
<1> QED
  BY <1>1, <1>2, <1>5, <1>6, NothingMoves

(* One deposit changes. *)
LEMMA StakesChange ==
  ASSUME Shape, Shape', NEW g \in Games, NEW p \in Players, NEW v,
         deposit' = [deposit EXCEPT ![g][p] = v]
  PROVE  /\ v \in Nat /\ deposit[g][p] \in Nat /\ Stakes(g) \in Nat /\ Stakes(g)' \in Nat
         /\ Stakes(g)' = Stakes(g) - deposit[g][p] + v
         /\ \A h \in Games \ {g} : Stakes(h)' = Stakes(h)
<1>1. /\ deposit[g] \in [Players -> Prices \cup {0}] /\ deposit'[g] \in [Players -> Prices \cup {0}]
      /\ deposit'[g][p] = v /\ \A q \in Players \ {p} : deposit'[g][q] = deposit[g][q]
      /\ \A h \in Games \ {g} : deposit'[h] = deposit[h]
  BY DEF Shape
<1>2. deposit[g] \in [Players -> Nat] /\ deposit'[g] \in [Players -> Nat]
  BY <1>1, Tallied
<1>3. /\ Stakes(g) = SumFunctionOnSet(deposit[g], Players)
      /\ Stakes(g)' = SumFunctionOnSet(deposit'[g], Players)
  BY <1>1, Tallied DEF Stakes
<1>4. \A q \in Players : deposit[g][q] \in Nat /\ deposit'[g][q] \in Nat
  BY <1>2
<1>5. /\ Stakes(g) \in Nat /\ Stakes(g)' \in Nat
      /\ Stakes(g)' = Stakes(g) - deposit[g][p] + deposit'[g][p]
  BY <1>1, <1>3, <1>4, SumChanged, EscrowAssumption
<1> QED
  BY <1>1, <1>4, <1>5 DEF Stakes

(* join: balance, pool and deposits grow by the same value. *)
LEMMA JoinBooks ==
  ASSUME Books, NEW g \in Games, NEW p \in Players, NEW v \in Prices, Join(g, p, v)
  PROVE  Books'
<1>1. /\ status[g] = "Open" /\ deposit[g][p] = 0 /\ count[g] < MaxPlayers
      /\ deposit' = [deposit EXCEPT ![g][p] = v]
      /\ pool' = [pool EXCEPT ![g] = @ + v]
      /\ count' = [count EXCEPT ![g] = @ + 1]
      /\ balance' = balance + v
      /\ UNCHANGED <<status, price, owed, buyIn, serverSigner, paused, treasury>>
  BY DEF Join, MayJoin, config
<1>2. Types'
  <2>1. v \in Nat /\ Prices \subseteq Nat /\ MaxPlayers \in Nat
    BY EscrowAssumption
  <2>2. deposit' \in [Games -> [Players -> Prices \cup {0}]]
    BY <1>1 DEF Books, Types, Shape
  <2>3. pool' \in [Games -> Nat] /\ count' \in [Games -> 0..MaxPlayers]
    BY <1>1, <2>1 DEF Books, Types, Shape
  <2> QED
    BY <1>1, <2>2, <2>3 DEF Books, Types, Shape
<1>3. /\ v \in Nat /\ Stakes(g) \in Nat /\ Stakes(g)' = Stakes(g) + v
      /\ \A h \in Games \ {g} : Stakes(h)' = Stakes(h)
  <2>1. Shape /\ Shape' /\ deposit' = [deposit EXCEPT ![g][p] = v]
    BY <1>1, <1>2 DEF Books, Types
  <2>2. /\ v \in Nat /\ Stakes(g) \in Nat /\ Stakes(g)' = Stakes(g) - deposit[g][p] + v
        /\ \A h \in Games \ {g} : Stakes(h)' = Stakes(h)
    BY <2>1, StakesChange
  <2> QED
    BY <1>1, <2>2
<1>4. /\ pool[g] \in Nat /\ pool'[g] = pool[g] + v /\ \A h \in Games \ {g} : pool'[h] = pool[h]
  BY <1>1 DEF Books, Types, Shape
<1>5. PoolIsStakes'
  BY <1>1, <1>3, <1>4 DEF Books, PoolIsStakes
<1>6. Held(g) = pool[g] /\ Held(g)' = pool'[g] /\ \A h \in Games \ {g} : Held(h)' = Held(h)
  BY <1>1, <1>3, <1>4 DEF Held
<1>7. TotalHeld \in Nat /\ TotalHeld' = TotalHeld - Held(g) + Held(g)'
  BY <1>2, <1>6, HeldChanges DEF Books, Types
<1>8. TotalOwed' = TotalOwed /\ TotalOwed \in Nat
  BY <1>1, OwedType DEF TotalOwed, Books, Types
<1>9. balance = TotalHeld + TotalOwed
  BY SolventIs DEF Books
<1>10. balance' = TotalHeld' + TotalOwed'
  BY <1>1, <1>3, <1>4, <1>6, <1>7, <1>8, <1>9
<1> QED
  BY <1>2, <1>5, <1>10, SolventIs DEF Books

(* refund: balance and deposits shrink by the same value. *)
LEMMA RefundBooks ==
  ASSUME Books, NEW g \in Games, NEW p \in Players, Refund(g, p)
  PROVE  Books'
<1>1. /\ status[g] = "Refunding" /\ deposit' = [deposit EXCEPT ![g][p] = 0]
      /\ balance' = balance - deposit[g][p]
      /\ UNCHANGED <<status, price, pool, count, owed, buyIn, serverSigner, paused, treasury>>
  BY DEF Refund, games, config
<1>2. Types'
  BY <1>1 DEF Books, Types, Shape
<1>3. /\ deposit[g][p] \in Nat /\ Stakes(g) \in Nat /\ Stakes(g)' = Stakes(g) - deposit[g][p] + 0
      /\ \A h \in Games \ {g} : Stakes(h)' = Stakes(h)
  BY <1>1, <1>2, StakesChange DEF Books, Types
<1>4. PoolIsStakes'
  BY <1>1, <1>3 DEF Books, PoolIsStakes
<1>5. Held(g) = Stakes(g) /\ Held(g)' = Stakes(g)' /\ \A h \in Games \ {g} : Held(h)' = Held(h)
  BY <1>1, <1>3 DEF Held
<1>6. TotalHeld \in Nat /\ TotalHeld' = TotalHeld - Held(g) + Held(g)'
  BY <1>2, <1>5, HeldChanges DEF Books, Types
<1>7. TotalOwed' = TotalOwed /\ TotalOwed \in Nat
  BY <1>1, OwedType DEF TotalOwed, Books, Types
<1>8. balance = TotalHeld + TotalOwed
  BY SolventIs DEF Books
<1>9. balance' = TotalHeld' + TotalOwed'
  BY <1>1, <1>3, <1>5, <1>6, <1>7, <1>8
<1> QED
  BY <1>2, <1>4, <1>9, SolventIs DEF Books

(* withdraw: balance and ledger shrink by the same value. *)
LEMMA WithdrawBooks ==
  ASSUME Books, NEW p \in Players, Withdraw(p)
  PROVE  Books'
<1>1. /\ owed' = [owed EXCEPT ![p] = 0] /\ balance' = balance - owed[p]
      /\ UNCHANGED <<status, price, pool, count, deposit, buyIn, serverSigner, paused, treasury>>
  BY DEF Withdraw, games, config
<1>2. Types' /\ owed \in [Players -> Nat] /\ owed' \in [Players -> Nat]
  BY <1>1 DEF Books, Types, Shape
<1>3. \A h \in Games : Stakes(h)' = Stakes(h)
  BY <1>1 DEF Stakes
<1>4. \A h \in Games : Held(h)' = Held(h)
  BY <1>1, <1>3 DEF Held
<1>5. PoolIsStakes'
  BY <1>1, <1>3 DEF Books, PoolIsStakes
<1>6. TotalOwed' = TotalOwed - owed[p] + 0 /\ TotalOwed \in Nat /\ owed[p] \in Nat
  BY <1>1, <1>2, OwedChanges, OwedType
<1>7. TotalHeld' = TotalHeld
  <2>1. [h \in Games |-> Held(h)]' = [h \in Games |-> Held(h)]
    BY <1>4
  <2> QED
    BY <2>1 DEF TotalHeld
<1>8. balance = TotalHeld + TotalOwed
  BY SolventIs DEF Books
<1>9. TotalHeld \in Nat
  <2>1. \A h \in Games : Held(h) \in Nat
    BY HeldType DEF Books, Types
  <2> DEFINE f == [h \in Games |-> Held(h)]
  <2>2. \A h \in Games : f[h] \in Nat
    BY <2>1
  <2>3. TotalHeld = SumFunctionOnSet(f, Games)
    BY DEF TotalHeld, SumFunction
  <2> HIDE DEF f
  <2> QED
    BY <2>2, <2>3, SumSplits, EscrowAssumption
<1>10. balance' = TotalHeld' + TotalOwed'
  BY <1>1, <1>6, <1>7, <1>8, <1>9
<1> QED
  BY <1>2, <1>5, <1>10, SolventIs DEF Books

(* A settlement a transaction may carry. *)
WellFormed(s) ==
  \E n \in Nat : /\ s.survivors \in [1..n -> Players]
                 /\ s.payouts \in [1..n -> Nat]
                 /\ s.house \in Nat

(* What a settlement pays to one player, and to all. *)
LEMMA PayoutTypes ==
  ASSUME NEW s, WellFormed(s)
  PROVE  Paid(s) \in Nat /\ \A p \in Players : PaidTo(s, p) \in Nat
<1>1. PICK n \in Nat : s.survivors \in [1..n -> Players] /\ s.payouts \in [1..n -> Nat]
  BY DEF WellFormed
<1>2. IsFiniteSet(1..n) /\ \A i \in 1..n : s.payouts[i] \in Nat
  BY <1>1, FS_Interval
<1>3. Paid(s) = SumFunctionOnSet(s.payouts, 1..n)
  BY <1>1 DEF Paid, SumFunction
<1>4. Paid(s) \in Nat
  BY <1>2, <1>3, SumSplits
<1>5. ASSUME NEW p \in Players PROVE PaidTo(s, p) \in Nat
  <2> DEFINE I == {i \in 1..n : s.survivors[i] = p}
  <2>1. PaidTo(s, p) = SumFunctionOnSet(s.payouts, I)
    BY <1>1 DEF PaidTo
  <2>2. IsFiniteSet(I) /\ \A i \in I : s.payouts[i] \in Nat
    BY <1>2, FS_Subset
  <2> HIDE DEF I
  <2> QED
    BY <2>1, <2>2, SumSplits
<1> QED
  BY <1>4, <1>5

(* settle: what leaves the pool is pushed, kept by the house or owed, even    *)
(* when some of the pushes fail.                                             *)
LEMMA SettleBooks ==
  ASSUME Books, NEW s, s.gameId \in Games, WellFormed(s), NEW k, NEW F, Settle(s, k, F)
  PROVE  Books'
<1> DEFINE g == s.gameId
           deferred == [p \in Players |-> IF p \in F THEN PaidTo(s, p) ELSE 0]
           D == SumFunction(deferred)
<1>1. /\ status[g] = "Locked" /\ status' = [status EXCEPT ![g] = "Settled"]
      /\ Paid(s) + s.house = pool[g]
      /\ deposit' = [deposit EXCEPT ![g] =
                       [p \in Players |-> IF p \in Range(s.survivors) THEN 0 ELSE @[p]]]
      /\ owed' = [p \in Players |-> owed[p] + deferred[p]]
      /\ balance' = balance - (Paid(s) - D) - s.house
      /\ UNCHANGED <<price, pool, count, buyIn, serverSigner, paused, treasury>>
  BY DEF Settle, Conserves, config
<1>2. Paid(s) \in Nat /\ s.house \in Nat /\ \A p \in Players : deferred[p] \in Nat
  BY PayoutTypes DEF WellFormed
<1>3. D = SumFunctionOnSet(deferred, Players)
  BY DEF SumFunction
<1> HIDE DEF deferred, D
<1>4. Types'
  <2>1. deposit' \in [Games -> [Players -> Prices \cup {0}]]
    BY <1>1 DEF Books, Types, Shape
  <2>2. owed' \in [Players -> Nat]
    BY <1>1, <1>2 DEF Books, Types
  <2> QED
    BY <1>1, <2>1, <2>2 DEF Books, Types, Shape, Statuses
<1>5. \A h \in Games \ {g} : status'[h] = status[h] /\ Stakes(h)' = Stakes(h)
  BY <1>1 DEF Books, Types, Shape, Stakes
<1>6. status'[g] = "Settled"
  BY <1>1 DEF Books, Types, Shape
<1>7. PoolIsStakes'
  BY <1>1, <1>5, <1>6 DEF Books, PoolIsStakes
<1>8. Held(g) = pool[g] /\ Held(g)' = 0 /\ \A h \in Games \ {g} : Held(h)' = Held(h)
  BY <1>1, <1>5, <1>6 DEF Held
<1>9. TotalHeld \in Nat /\ TotalHeld' = TotalHeld - Held(g) + Held(g)'
  BY <1>4, <1>8, HeldChanges DEF Books, Types
<1>10. TotalOwed' = TotalOwed + D /\ TotalOwed \in Nat /\ D \in Nat
  <2>1. TotalOwed = SumFunctionOnSet(owed, Players) /\ TotalOwed' = SumFunctionOnSet(owed', Players)
        /\ TotalOwed \in Nat
    BY <1>4, OwedType DEF Books, Types
  <2>2. \A p \in Players : owed[p] \in Nat /\ owed'[p] = owed[p] + deferred[p]
    BY <1>1 DEF Books, Types
  <2>3. D \in Nat
    BY <1>2, <1>3, SumSplits, EscrowAssumption
  <2> QED
    BY <1>2, <1>3, <2>1, <2>2, <2>3, SumPlus, EscrowAssumption
<1>11. balance = TotalHeld + TotalOwed
  BY SolventIs DEF Books
<1>12. balance' = TotalHeld' + TotalOwed'
  <2>1. Paid(s) + s.house = Held(g) /\ balance' = balance - (Paid(s) - D) - s.house
    BY <1>1, <1>8
  <2>2. TotalHeld' = TotalHeld - Held(g) /\ TotalHeld \in Nat
    BY <1>2, <1>8, <1>9, <2>1
  <2> HIDE DEF g
  <2> QED
    BY <1>2, <1>10, <1>11, <2>1, <2>2
<1> QED
  BY <1>4, <1>7, <1>12, SolventIs DEF Books
-----------------------------------------------------------------------------
(* The contract starts without games, without money and without debts. *)
LEMMA InitBooks == Init => Books
<1> SUFFICES ASSUME Init PROVE Books
  OBVIOUS
<1>0. Shape
  BY EscrowAssumption DEF Init, Shape, Statuses
<1>1. Types
  BY <1>0 DEF Init, Types
<1>2. ASSUME NEW g \in Games PROVE Stakes(g) = 0
  <2>1. \A p \in Players : deposit[g][p] = 0
    BY DEF Init
  <2>2. Stakes(g) = SumFunctionOnSet(deposit[g], Players)
    BY <1>1, Tallied DEF Stakes, Types, Shape
  <2> QED
    BY <2>1, <2>2, SumOfNothing, EscrowAssumption
<1>3. PoolIsStakes
  BY <1>2 DEF Init, PoolIsStakes
<1>4. TotalHeld = 0
  <2> DEFINE f == [h \in Games |-> Held(h)]
  <2>1. \A h \in Games : f[h] = 0
    BY DEF Held, Init
  <2>2. TotalHeld = SumFunctionOnSet(f, Games)
    BY DEF TotalHeld, SumFunction
  <2> HIDE DEF f
  <2> QED
    BY <2>1, <2>2, SumOfNothing, EscrowAssumption
<1>5. TotalOwed = 0
  <2>1. TotalOwed = SumFunctionOnSet(owed, Players) /\ \A p \in Players : owed[p] = 0
    BY OwedType DEF Init
  <2> QED
    BY <2>1, SumOfNothing, EscrowAssumption
<1>6. balance = 0
  BY DEF Init
<1> QED
  BY <1>1, <1>3, <1>4, <1>5, <1>6, SolventIs DEF Books

(* The settlements of the contract's callers are well formed. *)
(* The settlements of Next are settlements of their game. *)
LEMMA ListedWellFormed ==
  ASSUME Shape, NEW g \in Games, NEW s \in Settlements(g)
  PROVE  s.gameId = g /\ WellFormed(s)
<1>1. PICK n \in 0..MaxListed :
        s \in [gameId : {g}, survivors : [1..n -> Players],
               payouts : [1..n -> 0..pool[g]], house : 0..pool[g]]
  BY DEF Settlements
<1>2. n \in Nat /\ pool[g] \in Nat
  BY EscrowAssumption DEF Shape
<1>3. 0..pool[g] \subseteq Nat
  BY <1>2
<1> QED
  BY <1>1, <1>2, <1>3 DEF WellFormed

(* One step per kind of transaction. *)
LEMMA BooksKept ==
  ASSUME Books, [Next]_vars PROVE Books'
<1>1. CASE \E g \in Games : Manager(g)
  <2> PICK g \in Games : Manager(g)
    BY <1>1
  <2>1. ASSUME NEW s \in Settlements(g), NEW k \in Signers, NEW F, Settle(s, k, F) PROVE Books'
    <3>1. s.gameId = g /\ WellFormed(s)
      BY ListedWellFormed DEF Books, Types
    <3> QED
      BY <2>1, <3>1, SettleBooks
  <2> QED
    BY <2>1, CreateBooks, LockBooks, AbortBooks DEF Manager
<1>2. CASE \E p \in Players : Wallet(p)
  BY <1>2, JoinBooks, RefundBooks, WithdrawBooks DEF Wallet
<1>3. CASE Admin \/ UNCHANGED vars
  <2>1. UNCHANGED <<status, price, pool, count, deposit, owed, balance>>
    BY <1>3 DEF Admin, SetBuyIn, RotateServerSigner, SetTreasury, SetPaused, vars, games
  <2>2. buyIn' \in Prices /\ serverSigner' \in Signers /\ paused' \in BOOLEAN /\ treasury' \in BOOLEAN
    BY <1>3 DEF Admin, SetBuyIn, RotateServerSigner, SetTreasury, SetPaused, vars, config, Books, Types, Shape
  <2>3. Types'
    BY <2>1, <2>2 DEF Books, Types, Shape
  <2>4. \A h \in Games : Stakes(h)' = Stakes(h) /\ Held(h)' = Held(h)
    BY <2>1 DEF Stakes, Held
  <2>5. PoolIsStakes'
    BY <2>1, <2>4 DEF Books, PoolIsStakes
  <2> QED
    BY <2>1, <2>3, <2>4, <2>5, NothingMoves
<1> QED
  BY <1>1, <1>2, <1>3 DEF Next

(* The books (ImpostorEscrow.sol:13, :128, :159, :213): types, pools made of   *)
(* deposits, and a balance of what is held and owed.  Solvent alone is not    *)
(* inductive: abortGame replaces the pool by the deposits as what the         *)
(* contract answers for.                                                     *)
THEOREM BooksBalance == Spec => []Books
  BY InitBooks, BooksKept, PTL DEF Spec

(* invariant_balanceCoversOutstanding, to the wei and for any number of       *)
(* wallets and games, whatever the admin, the players and their wallets do.  *)
THEOREM AlwaysSolvent == Spec => []Solvent
<1>1. Books => Solvent
  BY DEF Books
<1> QED
  BY <1>1, BooksBalance, PTL

(* Amounts that are held and owed add up to a natural number. *)
LEMMA BooksTyped == ASSUME Books PROVE TypeOK
<1>1. TotalHeld \in Nat
  <2> DEFINE f == [h \in Games |-> Held(h)]
  <2>1. \A h \in Games : f[h] \in Nat
    BY HeldType DEF Books, Types
  <2>2. TotalHeld = SumFunctionOnSet(f, Games)
    BY DEF TotalHeld, SumFunction
  <2> HIDE DEF f
  <2> QED
    BY <2>1, <2>2, SumSplits, EscrowAssumption
<1>2. TotalOwed \in Nat
  BY OwedType DEF Books, Types
<1>3. balance \in Nat
  BY <1>1, <1>2, SolventIs DEF Books
<1> QED
  BY <1>3 DEF Books, Types, Shape, TypeOK

(* Type correctness; that the balance is never negative is a fact about the   *)
(* money, not about the types: it follows from the books.                    *)
THEOREM TypeCorrect == Spec => []TypeOK
<1>1. Books => TypeOK
  BY BooksTyped
<1> QED
  BY <1>1, BooksBalance, PTL

(* The balance covers every single claim. *)
ClaimsCovered ==
  \A p \in Players :
    /\ \A g \in Games : status[g] = "Refunding" => deposit[g][p] <= balance
    /\ owed[p] <= balance

(* No refund and no withdrawal is ever short of funds (ImpostorEscrow.sol     *)
(* refund and withdraw).                                                     *)
THEOREM ClaimsAlwaysCovered == Spec => []ClaimsCovered
<1>1. ASSUME Books PROVE ClaimsCovered
  <2> DEFINE f == [h \in Games |-> Held(h)]
  <2>1. \A h \in Games : f[h] = Held(h) /\ f[h] \in Nat
    BY <1>1, HeldType DEF Books, Types
  <2>2. TotalHeld = SumFunctionOnSet(f, Games)
    BY DEF TotalHeld, SumFunction
  <2> HIDE DEF f
  <2>3. TotalHeld \in Nat /\ \A h \in Games : Held(h) <= TotalHeld /\ Held(h) \in Nat
    BY <2>1, <2>2, SumSplits, SumCovers, EscrowAssumption
  <2>4. owed \in [Players -> Nat]
    BY <1>1 DEF Books, Types
  <2>5. TotalOwed \in Nat /\ TotalOwed = SumFunctionOnSet(owed, Players)
    BY <2>4, OwedType
  <2>6. \A p \in Players : owed[p] \in Nat /\ owed[p] <= TotalOwed
    BY <2>4, <2>5, SumCovers, EscrowAssumption
  <2>7. balance = TotalHeld + TotalOwed
    BY <1>1, SolventIs DEF Books
  <2>8. ASSUME NEW p \in Players, NEW g \in Games, status[g] = "Refunding" PROVE deposit[g][p] <= balance
    <3>1. deposit[g] \in [Players -> Prices \cup {0}]
      BY <1>1 DEF Books, Types, Shape
    <3>2. deposit[g] \in [Players -> Nat] /\ Stakes(g) = SumFunctionOnSet(deposit[g], Players)
      BY <3>1, Tallied DEF Stakes
    <3>3. deposit[g][p] \in Nat /\ deposit[g][p] <= Stakes(g)
      BY <3>2, SumCovers, EscrowAssumption
    <3>4. Held(g) = Stakes(g)
      BY <2>8 DEF Held
    <3> QED
      BY <2>3, <2>5, <2>7, <3>3, <3>4
  <2>9. ASSUME NEW p \in Players PROVE owed[p] <= balance
    BY <2>3, <2>5, <2>6, <2>7
  <2> QED
    BY <2>8, <2>9 DEF ClaimsCovered
<1> QED
  BY <1>1, BooksBalance, PTL
-----------------------------------------------------------------------------
(* The vault adds up as the contract does. *)
LEMMA SameSum == \A f : V!SumFunction(f) = SumFunction(f)
  BY DEF V!SumFunction, V!SumFunctionOnSet, V!FoldFunctionOnSet, V!MapThenFoldSet,
         SumFunction, SumFunctionOnSet, FoldFunctionOnSet, MapThenFoldSet

(* What a settlement pays to a set of players is what it pays for the       *)
(* survivors in it: every payout is counted for one player.                  *)
LEMMA PaidByPlayer ==
  ASSUME NEW s, WellFormed(s), NEW f, \A p \in Players : f[p] = PaidTo(s, p)
  PROVE  SumFunctionOnSet(f, Players) = Paid(s)
<1>1. PICK n \in Nat : s.survivors \in [1..n -> Players] /\ s.payouts \in [1..n -> Nat]
  BY DEF WellFormed
<1>2. IsFiniteSet(1..n) /\ \A i \in 1..n : s.payouts[i] \in Nat
  BY <1>1, FS_Interval
<1>3. \A p \in Players : f[p] \in Nat
  BY PayoutTypes
<1> DEFINE Of(P) == {i \in 1..n : s.survivors[i] \in P}
           C == {P \in SUBSET Players :
                   SumFunctionOnSet(f, P) = SumFunctionOnSet(s.payouts, Of(P))}
<1>4. ASSUME NEW P \in SUBSET Players, \A R \in SUBSET P : R # P => R \in C
      PROVE  P \in C
  <2>0. IsFiniteSet(P) /\ \A p \in P : f[p] \in Nat
    BY <1>3, FS_Subset, EscrowAssumption
  <2>1. CASE P = {}
    <3>1. Of(P) = {}
      BY <2>1
    <3>2. SumFunctionOnSet(f, {}) = 0 /\ SumFunctionOnSet(s.payouts, {}) = 0
      BY <1>2, <1>3, SumSplits, EscrowAssumption
    <3>3. SumFunctionOnSet(s.payouts, Of(P)) = SumFunctionOnSet(s.payouts, {})
      BY <3>1, Zenon
    <3> QED
      BY <2>1, <3>2, <3>3
  <2>2. CASE P # {}
    <3>1. PICK p \in P : TRUE
      BY <2>2
    <3> DEFINE R == P \ {p}
               I == {i \in DOMAIN s.survivors : s.survivors[i] = p}
    <3>2. SumFunctionOnSet(f, P) = f[p] + SumFunctionOnSet(f, R)
      BY <2>0, <3>1, SumSplits
    <3>3. f[p] = SumFunctionOnSet(s.payouts, I)
      BY <3>1 DEF PaidTo
    <3>4. SumFunctionOnSet(f, R) = SumFunctionOnSet(s.payouts, Of(R))
      BY <1>4, <3>1
    <3>5. Of(P) = Of(R) \cup I /\ Of(R) \cap I = {} /\ Of(R) \subseteq 1..n /\ I \subseteq 1..n
      BY <1>1, <3>1
    <3> HIDE DEF Of, I
    <3>6. IsFiniteSet(Of(R)) /\ IsFiniteSet(I) /\ \A i \in Of(R) \cup I : s.payouts[i] \in Nat
      BY <1>2, <3>5, FS_Subset
    <3>7. SumFunctionOnSet(s.payouts, Of(R) \cup I)
            = SumFunctionOnSet(s.payouts, Of(R)) + SumFunctionOnSet(s.payouts, I)
      BY <3>5, <3>6, SumApart
    <3>8. SumFunctionOnSet(s.payouts, Of(R)) \in Nat /\ SumFunctionOnSet(s.payouts, I) \in Nat
      BY <3>6, SumSplits
    <3>9. SumFunctionOnSet(s.payouts, Of(P)) = SumFunctionOnSet(s.payouts, Of(R) \cup I)
      BY <3>5, Zenon
    <3> QED
      BY <3>2, <3>3, <3>4, <3>7, <3>8, <3>9
  <2> QED
    BY <2>1, <2>2
<1>5. SUBSET Players \subseteq C
  <2> HIDE DEF C
  <2> QED
    BY <1>4, Shrinking, EscrowAssumption
<1>6. SumFunctionOnSet(f, Players) = SumFunctionOnSet(s.payouts, Of(Players))
  BY <1>5
<1>7. Of(Players) = 1..n
  BY <1>1
<1>8. Paid(s) = SumFunctionOnSet(s.payouts, 1..n)
  BY <1>1 DEF Paid, SumFunction
<1>9. SumFunctionOnSet(s.payouts, Of(Players)) = SumFunctionOnSet(s.payouts, 1..n)
  BY <1>7, Zenon
<1> QED
  BY <1>6, <1>8, <1>9

(* What is paid to somebody is paid to a survivor. *)
LEMMA PaidToSurvivors ==
  ASSUME NEW s, WellFormed(s), NEW p \in Players, PaidTo(s, p) # 0
  PROVE  p \in Range(s.survivors) /\ \E i \in DOMAIN s.survivors : s.survivors[i] = p
<1> DEFINE I == {i \in DOMAIN s.survivors : s.survivors[i] = p}
<1>1. SUFFICES ASSUME I = {} PROVE FALSE
  BY DEF Range
<1>2. PaidTo(s, p) = SumFunctionOnSet(s.payouts, I)
  BY DEF PaidTo
<1>3. SumFunctionOnSet(s.payouts, I) = SumFunctionOnSet(s.payouts, {})
  BY <1>1, Zenon
<1>4. SumFunctionOnSet(s.payouts, {}) = 0
  <2>1. IsFiniteSet({}) /\ \A x \in {} : s.payouts[x] \in Nat
    BY FS_EmptySet
  <2> QED
    BY <2>1, SumSplits
<1> QED
  BY <1>2, <1>3, <1>4

(* Pushes that fail defer no more than the settlement pays. *)
LEMMA DeferredCovered ==
  ASSUME NEW s, WellFormed(s), NEW F, NEW d,
         d = [p \in Players |-> IF p \in F THEN PaidTo(s, p) ELSE 0]
  PROVE  SumFunction(d) \in Nat /\ SumFunction(d) <= Paid(s)
<1> DEFINE f == [p \in Players |-> PaidTo(s, p)]
           e == [p \in Players |-> IF p \in F THEN 0 ELSE PaidTo(s, p)]
<1>1. Paid(s) \in Nat /\ \A p \in Players : PaidTo(s, p) \in Nat
  BY PayoutTypes
<1>2. \A p \in Players : f[p] = PaidTo(s, p)
  OBVIOUS
<1>3. \A p \in Players : d[p] \in Nat /\ e[p] \in Nat /\ f[p] = d[p] + e[p]
  BY <1>1
<1>4. SumFunction(d) = SumFunctionOnSet(d, Players)
  BY DEF SumFunction
<1> HIDE DEF f, e
<1>5. SumFunctionOnSet(f, Players) = SumFunctionOnSet(d, Players) + SumFunctionOnSet(e, Players)
  BY <1>3, SumPlus, EscrowAssumption
<1>6. SumFunctionOnSet(d, Players) \in Nat /\ SumFunctionOnSet(e, Players) \in Nat
  BY <1>3, SumSplits, EscrowAssumption
<1>7. SumFunctionOnSet(f, Players) = Paid(s)
  BY <1>2, PaidByPlayer
<1> QED
  BY <1>1, <1>4, <1>5, <1>6, <1>7
-----------------------------------------------------------------------------
(* The vault that the contract is. *)
heldBar == [g \in Games |-> Held(g)]
stakedBar == [g \in Games |-> Funders(g)]

(* Steps the vault does not see. *)
LEMMA VaultStutters ==
  ASSUME \A h \in Games : Held(h)' = Held(h), deposit' = deposit, owed' = owed
  PROVE  UNCHANGED V!vaultVars
<1>1. heldBar' = heldBar
  BY DEF heldBar
<1>2. stakedBar' = stakedBar
  BY DEF stakedBar, Funders
<1> QED
  BY <1>1, <1>2 DEF V!vaultVars, heldBar, stakedBar

(* The contract starts as an empty vault. *)
LEMMA InitVault == Init => V!VaultInit
<1> SUFFICES ASSUME Init PROVE V!VaultInit
  OBVIOUS
<1>1. \A g \in Games : Held(g) = 0 /\ Funders(g) = {}
  BY DEF Init, Held, Funders
<1>2. owed = [p \in Players |-> 0]
  BY DEF Init
<1> QED
  BY <1>1, <1>2 DEF V!VaultInit

(* join is a stake: with a price above zero, the pool grows. *)
LEMMA JoinStakes ==
  ASSUME 0 \notin Prices, Books, NEW g \in Games, NEW p \in Players, NEW v \in Prices, Join(g, p, v)
  PROVE  V!Stake(g, p)
<1>1. /\ status[g] = "Open" /\ deposit[g][p] = 0
      /\ deposit' = [deposit EXCEPT ![g][p] = v]
      /\ pool' = [pool EXCEPT ![g] = @ + v]
      /\ owed' = owed /\ status' = status
      /\ v \in Nat /\ v # 0 /\ pool[g] \in Nat
  BY EscrowAssumption DEF Join, MayJoin, Books, Types, Shape
<1>2. /\ deposit'[g][p] = v /\ \A q \in Players \ {p} : deposit'[g][q] = deposit[g][q]
      /\ \A h \in Games \ {g} : deposit'[h] = deposit[h]
      /\ pool'[g] = pool[g] + v /\ \A h \in Games \ {g} : pool'[h] = pool[h]
  BY <1>1 DEF Books, Types, Shape
<1>3. p \notin Funders(g) /\ Funders(g)' = Funders(g) \cup {p} /\ \A h \in Games \ {g} : Funders(h)' = Funders(h)
  BY <1>1, <1>2 DEF Funders
<1>4. /\ Held(g) = pool[g] /\ Held(g)' = pool[g] + v /\ Held(g)' > Held(g)
      /\ \A h \in Games \ {g} : Held(h)' = Held(h)
  BY <1>1, <1>2 DEF Held, Stakes
<1>5. stakedBar' = [stakedBar EXCEPT ![g] = @ \cup {p}]
  BY <1>3 DEF stakedBar
<1>6. heldBar'[g] > heldBar[g] /\ heldBar' = [heldBar EXCEPT ![g] = heldBar'[g]]
  BY <1>4 DEF heldBar
<1>7. p \notin stakedBar[g]
  BY <1>3 DEF stakedBar
<1> QED
  BY <1>1, <1>5, <1>6, <1>7 DEF V!Stake, heldBar, stakedBar

(* refund gives a deposit back. *)
LEMMA RefundGivesBack ==
  ASSUME Books, NEW g \in Games, NEW p \in Players, Refund(g, p)
  PROVE  V!GiveBack(g, p)
<1>1. /\ status[g] = "Refunding" /\ deposit[g][p] # 0
      /\ deposit' = [deposit EXCEPT ![g][p] = 0]
      /\ owed' = owed /\ status' = status /\ pool' = pool /\ price' = price /\ count' = count
      /\ buyIn' = buyIn
  BY DEF Refund, games, config
<1>2. /\ deposit'[g][p] = 0 /\ \A q \in Players \ {p} : deposit'[g][q] = deposit[g][q]
      /\ \A h \in Games \ {g} : deposit'[h] = deposit[h]
  BY <1>1 DEF Books, Types, Shape
<1>3. p \in Funders(g) /\ Funders(g)' = Funders(g) \ {p} /\ \A h \in Games \ {g} : Funders(h)' = Funders(h)
  BY <1>1, <1>2 DEF Funders
<1>4. Shape /\ Shape'
  BY <1>1 DEF Books, Types, Shape
<1>5. /\ deposit[g][p] \in Nat /\ Stakes(g) \in Nat /\ Stakes(g)' \in Nat
      /\ Stakes(g)' = Stakes(g) - deposit[g][p] + 0
      /\ \A h \in Games \ {g} : Stakes(h)' = Stakes(h)
  BY <1>1, <1>4, StakesChange
<1>6. /\ Held(g) = Stakes(g) /\ Held(g)' = Stakes(g)'
      /\ \A h \in Games \ {g} : Held(h)' = Held(h)
  BY <1>1, <1>5 DEF Held
<1>7. 0 <= Held(g)' /\ Held(g)' < Held(g)
  BY <1>1, <1>5, <1>6
<1>8. stakedBar' = [stakedBar EXCEPT ![g] = @ \ {p}] /\ p \in stakedBar[g]
  BY <1>3 DEF stakedBar
<1>9. 0 <= heldBar'[g] /\ heldBar'[g] < heldBar[g] /\ heldBar' = [heldBar EXCEPT ![g] = heldBar'[g]]
  BY <1>6, <1>7 DEF heldBar
<1> QED
  BY <1>1, <1>8, <1>9 DEF V!GiveBack, heldBar, stakedBar

(* withdraw collects all that is due. *)
LEMMA WithdrawCollects ==
  ASSUME Books, NEW p \in Players, Withdraw(p)
  PROVE  V!Collect(p)
<1>1. owed[p] > 0 /\ owed' = [owed EXCEPT ![p] = 0] /\ deposit' = deposit /\ status' = status /\ pool' = pool
  BY DEF Withdraw, games, Books, Types
<1>2. heldBar' = heldBar /\ stakedBar' = stakedBar
  BY <1>1 DEF heldBar, stakedBar, Held, Funders, Stakes
<1> QED
  BY <1>1, <1>2 DEF V!Collect, heldBar, stakedBar

(* settle disburses a stake: what it defers is deferred to funders of this    *)
(* game, out of this pool.                                                   *)
LEMMA SettleDisburses ==
  ASSUME Books, NEW s, s.gameId \in Games, WellFormed(s), NEW k, NEW F, Settle(s, k, F)
  PROVE  V!Disburse(s.gameId)
<1> DEFINE g == s.gameId
           deferred == [p \in Players |-> IF p \in F THEN PaidTo(s, p) ELSE 0]
<1>1. /\ status[g] = "Locked" /\ status' = [status EXCEPT ![g] = "Settled"]
      /\ Paid(s) + s.house = pool[g] /\ pool' = pool
      /\ \A i \in DOMAIN s.survivors : deposit[g][s.survivors[i]] # 0
      /\ deposit' = [deposit EXCEPT ![g] =
                       [p \in Players |-> IF p \in Range(s.survivors) THEN 0 ELSE @[p]]]
      /\ owed' = [p \in Players |-> owed[p] + deferred[p]]
  BY DEF Settle, Conserves, AllFunders
<1>2. Paid(s) \in Nat /\ s.house \in Nat /\ \A p \in Players : PaidTo(s, p) \in Nat
  BY PayoutTypes DEF WellFormed
<1>3. SumFunction(deferred) \in Nat /\ SumFunction(deferred) <= Paid(s)
  BY DeferredCovered
<1>4. \A p \in Players : deferred[p] = 0 \/ (deferred[p] > 0 /\ p \in Funders(g))
  <2>1. ASSUME NEW p \in Players, deferred[p] # 0 PROVE deferred[p] > 0 /\ p \in Funders(g)
    <3>1. PaidTo(s, p) # 0 /\ deferred[p] = PaidTo(s, p)
      BY <2>1
    <3> HIDE DEF deferred
    <3>2. deferred[p] > 0
      BY <1>2, <3>1
    <3>3. deposit[g][p] # 0
      BY <1>1, <3>1, PaidToSurvivors
    <3> QED
      BY <3>2, <3>3 DEF Funders
  <2> QED
    BY <2>1
<1>5. deferred \in [Players -> Nat] /\ DOMAIN deferred = Players
  BY <1>2
<1> HIDE DEF deferred
<1>6. [p \in Players |-> owed'[p] - owed[p]] = deferred
  <2>1. \A p \in Players : owed[p] \in Nat /\ deferred[p] \in Nat /\ owed'[p] = owed[p] + deferred[p]
    BY <1>1, <1>5 DEF Books, Types
  <2>2. \A p \in Players : owed'[p] - owed[p] = deferred[p]
    BY <2>1
  <2> QED
    BY <1>5, <2>2
<1>7. \A h \in Games \ {g} : status'[h] = status[h] /\ deposit'[h] = deposit[h]
  BY <1>1 DEF Books, Types, Shape
<1>8. Held(g) = pool[g] /\ Held(g)' = 0 /\ \A h \in Games \ {g} : Held(h)' = Held(h)
  BY <1>1, <1>7 DEF Held, Stakes, Books, Types, Shape
<1>9. Funders(g)' \subseteq Funders(g) /\ \A h \in Games \ {g} : Funders(h)' = Funders(h)
  BY <1>1, <1>7 DEF Funders, Books, Types, Shape
<1>10. SumFunction(deferred) <= Held(g)
  BY <1>1, <1>2, <1>3, <1>8
<1>11. heldBar' = [heldBar EXCEPT ![g] = 0] /\ heldBar[g] = Held(g)
  BY <1>8 DEF heldBar
<1>12. stakedBar' \in {[stakedBar EXCEPT ![g] = S] : S \in SUBSET stakedBar[g]} /\ stakedBar[g] = Funders(g)
  <2>1. stakedBar[g] = Funders(g) /\ Funders(g)' \in SUBSET stakedBar[g]
    BY <1>9 DEF stakedBar
  <2>2. stakedBar' = [stakedBar EXCEPT ![g] = Funders(g)']
    BY <1>9 DEF stakedBar
  <2> QED
    BY <2>1, <2>2
<1>13. V!SumFunction([p \in Players |-> owed'[p] - owed[p]]) <= heldBar[g]
  BY <1>6, <1>10, <1>11, SameSum
<1>14. \A p \in Players : owed'[p] - owed[p] = 0 \/ (owed'[p] - owed[p] > 0 /\ p \in stakedBar[g])
  BY <1>4, <1>6, <1>12
<1> QED
  BY <1>11, <1>12, <1>13, <1>14 DEF V!Disburse, heldBar, stakedBar

(* Every transaction is a step of the vault or invisible to it. *)
LEMMA VaultStep ==
  ASSUME 0 \notin Prices, Books, [Next]_vars PROVE [V!VaultNext]_(V!vaultVars)
<1>1. ASSUME NEW g \in Games, CreateGame(g) PROVE UNCHANGED V!vaultVars
  <2>1. /\ status[g] = "None" /\ status' = [status EXCEPT ![g] = "Open"] /\ pool[g] = 0
        /\ pool' = pool /\ deposit' = deposit /\ owed' = owed
    BY <1>1 DEF CreateGame, Books, PoolIsStakes
  <2>2. \A h \in Games : Held(h)' = Held(h)
    BY <2>1 DEF Held, Stakes, Books, Types, Shape
  <2> QED
    BY <2>1, <2>2, VaultStutters
<1>2. ASSUME NEW g \in Games, LockGame(g) PROVE UNCHANGED V!vaultVars
  <2>1. /\ status[g] = "Open" /\ status' = [status EXCEPT ![g] = "Locked"]
        /\ pool' = pool /\ deposit' = deposit /\ owed' = owed
    BY <1>2 DEF LockGame
  <2>2. \A h \in Games : Held(h)' = Held(h)
    BY <2>1 DEF Held, Stakes, Books, Types, Shape
  <2> QED
    BY <2>1, <2>2, VaultStutters
<1>3. ASSUME NEW g \in Games, AbortGame(g) PROVE UNCHANGED V!vaultVars
  <2>1. /\ status[g] = "Open" /\ status' = [status EXCEPT ![g] = "Refunding"] /\ pool[g] = Stakes(g)
        /\ pool' = pool /\ deposit' = deposit /\ owed' = owed
    BY <1>3 DEF AbortGame, Books, PoolIsStakes
  <2>2. \A h \in Games : Stakes(h)' = Stakes(h)
    BY <2>1 DEF Stakes
  <2>3. \A h \in Games : Held(h)' = Held(h)
    BY <2>1, <2>2 DEF Held, Books, Types, Shape
  <2> QED
    BY <2>1, <2>3, VaultStutters
<1>4. ASSUME NEW g \in Games, NEW s \in Settlements(g), NEW k, NEW F, Settle(s, k, F)
      PROVE  V!Disburse(g)
  BY <1>4, ListedWellFormed, SettleDisburses DEF Books, Types
<1>5. ASSUME Admin \/ UNCHANGED vars PROVE UNCHANGED V!vaultVars
  <2>1. UNCHANGED <<status, price, pool, count, deposit, owed, balance>>
    BY <1>5 DEF Admin, SetBuyIn, RotateServerSigner, SetTreasury, SetPaused, vars, games
  <2>2. \A h \in Games : Held(h)' = Held(h)
    BY <2>1 DEF Stakes, Held
  <2> QED
    BY <2>1, <2>2, VaultStutters
<1>6. ASSUME NEW p \in Players, Wallet(p) PROVE V!VaultNext
  BY <1>6, JoinStakes, RefundGivesBack, WithdrawCollects DEF Wallet, V!VaultNext
<1>7. ASSUME NEW g \in Games, Manager(g) PROVE [V!VaultNext]_(V!vaultVars)
  BY <1>1, <1>2, <1>3, <1>4, <1>7 DEF Manager, V!VaultNext
<1> QED
  BY <1>5, <1>6, <1>7 DEF Next

(* What a wallet has in the contract stays its own: a deposit leaves only by  *)
(* the settlement of its locked game or by a refund that pays it out, and     *)
(* what is owed only by a withdrawal.  A locked pool and its deposits are     *)
(* frozen until they are settled, an aborted game stays refundable and a     *)
(* settled one stays as the settlement left it.                              *)
ClaimStands(p) ==
  /\ \A g \in Games : deposit[g][p] # 0 =>
       \/ deposit'[g][p] = deposit[g][p]
       \/ status[g] = "Locked" /\ status'[g] = "Settled"
       \/ Refund(g, p)
  /\ owed'[p] >= owed[p] \/ Withdraw(p)

ClaimsStand ==
  /\ \A p \in Players : ClaimStands(p)
  /\ \A g \in Games :
       /\ status[g] \in {"Refunding", "Settled"} => status'[g] = status[g]
       /\ status[g] \in {"Locked", "Settled"} =>
            /\ pool'[g] = pool[g]
            /\ deposit'[g] = deposit[g] \/ status'[g] # status[g]

(* settle: what it defers is added to what is owed. *)
LEMMA SettleClaims ==
  ASSUME Books, NEW g \in Games, NEW s \in Settlements(g), NEW k, NEW F, Settle(s, k, F)
  PROVE  ClaimsStand
<1> DEFINE deferred == [p \in Players |-> IF p \in F THEN PaidTo(s, p) ELSE 0]
<1>1. s.gameId = g /\ WellFormed(s)
  BY ListedWellFormed DEF Books, Types
<1>2. /\ status[g] = "Locked" /\ status' = [status EXCEPT ![g] = "Settled"]
      /\ deposit' = [deposit EXCEPT ![g] =
                       [p \in Players |-> IF p \in Range(s.survivors) THEN 0 ELSE @[p]]]
      /\ owed' = [p \in Players |-> owed[p] + deferred[p]]
      /\ pool' = pool
  BY <1>1 DEF Settle
<1>3. \A p \in Players : deferred[p] \in Nat
  BY <1>1, PayoutTypes
<1> HIDE DEF deferred
<1>4. status \in [Games -> Statuses] /\ deposit \in [Games -> [Players -> Prices \cup {0}]]
  BY DEF Books, Types, Shape
<1>5. \A p \in Players : owed'[p] >= owed[p]
  BY <1>2, <1>3 DEF Books, Types
<1>6. status'[g] = "Settled" /\ \A h \in Games \ {g} : status'[h] = status[h] /\ deposit'[h] = deposit[h]
  BY <1>2, <1>4
<1> QED
  BY <1>2, <1>5, <1>6 DEF ClaimsStand, ClaimStands

(* Nobody's money is touched by anybody else: refund and withdraw are       *)
(* "pull-based", and no transaction of another takes a claim away            *)
(* (ImpostorEscrow.sol refund, withdraw, settle).  With ClaimsAlwaysCovered,  *)
(* a claim stays, with the money to pay it, until its owner collects: what    *)
(* MoneyWithinReach says but for its ENABLED.                                *)
THEOREM ClaimsAreTheirOwners == Spec => [][ClaimsStand]_vars
<1>1. Books /\ [Next]_vars => ClaimsStand
  <2> SUFFICES ASSUME Books, [Next]_vars PROVE ClaimsStand
    OBVIOUS
  <2>0. /\ status \in [Games -> Statuses] /\ pool \in [Games -> Nat]
        /\ deposit \in [Games -> [Players -> Prices \cup {0}]] /\ owed \in [Players -> Nat]
    BY DEF Books, Types, Shape
  <2>1. ASSUME NEW g \in Games, CreateGame(g) \/ LockGame(g) \/ AbortGame(g) PROVE ClaimsStand
    BY <2>0, <2>1 DEF CreateGame, LockGame, AbortGame, ClaimsStand, ClaimStands
  <2>2. ASSUME NEW g \in Games, NEW p \in Players, NEW v \in Prices, Join(g, p, v) PROVE ClaimsStand
    <3>1. /\ status[g] = "Open" /\ deposit[g][p] = 0 /\ status' = status /\ owed' = owed
          /\ deposit' = [deposit EXCEPT ![g][p] = v] /\ pool' = [pool EXCEPT ![g] = @ + v]
      BY <2>2 DEF Join, MayJoin
    <3>2. \A h \in Games, q \in Players : deposit[h][q] # 0 => deposit'[h][q] = deposit[h][q]
      BY <2>0, <3>1
    <3>3. \A h \in Games \ {g} : deposit'[h] = deposit[h] /\ pool'[h] = pool[h]
      BY <2>0, <3>1
    <3> QED
      BY <2>0, <3>1, <3>2, <3>3 DEF ClaimsStand, ClaimStands
  <2>3. ASSUME NEW g \in Games, NEW p \in Players, Refund(g, p) PROVE ClaimsStand
    <3>1. /\ status[g] = "Refunding" /\ status' = status /\ pool' = pool /\ owed' = owed
          /\ deposit' = [deposit EXCEPT ![g][p] = 0]
      BY <2>3 DEF Refund, games
    <3>2. \A h \in Games, q \in Players :
            deposit'[h][q] = deposit[h][q] \/ (h = g /\ q = p)
      BY <2>0, <3>1
    <3>3. \A h \in Games \ {g} : deposit'[h] = deposit[h]
      BY <2>0, <3>1
    <3> QED
      BY <2>0, <2>3, <3>1, <3>2, <3>3 DEF ClaimsStand, ClaimStands
  <2>4. ASSUME NEW p \in Players, Withdraw(p) PROVE ClaimsStand
    <3>1. UNCHANGED <<status, pool, deposit>> /\ owed' = [owed EXCEPT ![p] = 0]
      BY <2>4 DEF Withdraw, games
    <3>2. \A q \in Players : owed'[q] >= owed[q] \/ Withdraw(q)
      BY <2>0, <2>4, <3>1
    <3> QED
      BY <2>0, <3>1, <3>2 DEF ClaimsStand, ClaimStands
  <2>5. ASSUME Admin \/ UNCHANGED vars PROVE ClaimsStand
    <3>1. UNCHANGED <<status, pool, deposit, owed>>
      BY <2>5 DEF Admin, SetBuyIn, RotateServerSigner, SetTreasury, SetPaused, vars, games
    <3> QED
      BY <2>0, <3>1 DEF ClaimsStand, ClaimStands
  <2>6. ASSUME NEW g \in Games, NEW s \in Settlements(g), NEW k, NEW F, Settle(s, k, F)
        PROVE  ClaimsStand
    BY <2>6, SettleClaims
  <2>7. ASSUME NEW g \in Games, Manager(g) PROVE ClaimsStand
    BY <2>1, <2>6, <2>7 DEF Manager
  <2> QED
    BY <2>2, <2>3, <2>4, <2>5, <2>7 DEF Next, Wallet
<1>2. Books /\ [Next]_vars => [ClaimsStand]_vars
  BY <1>1
<1> QED
  BY <1>2, BooksBalance, PTL DEF Spec

(* The contract implements the vault (Vault.tla): a stake of one game never   *)
(* pays for another, leaves once and in full, and an undelivered payment is   *)
(* due to a funder of the game it came from.  A buy-in of zero is excluded:   *)
(* its deposit is no stake.                                                  *)
THEOREM EscrowIsVault == ASSUME 0 \notin Prices PROVE Spec => VaultSpec
<1>1. Books /\ [Next]_vars => [V!VaultNext]_(V!vaultVars)
  BY VaultStep
<1> QED
  BY <1>1, InitVault, BooksBalance, PTL DEF Spec, VaultSpec, V!VaultSpec
=============================================================================
