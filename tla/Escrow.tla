------------------------------- MODULE Escrow -------------------------------
(***************************************************************************)
(* contracts/src/ImpostorEscrow.sol: the escrow contract.  A transaction is *)
(* one step; one that reverts leaves no trace and is a disabled action.     *)
(* The external functions that move value are nonReentrant, so a recipient  *)
(* that calls back in can only fail its own push.                           *)
(*                                                                          *)
(* A signature is abstracted to the key it recovers to, the treasury to      *)
(* whether it accepts a transfer.  Calls reserved to GAME_MANAGER or to the *)
(* admin are made by nobody else.                                           *)
(* Definitions named X_Word are mutated forms of X (see PROJECT.json).      *)
(***************************************************************************)
EXTENDS Integers, Sequences, FiniteSets, Functions

CONSTANTS Games,        \* game ids
          Players,      \* wallets
          Prices,       \* values the admin gives buyIn
          Signers,      \* keys serverSigner may be set to
          MaxPlayers,   \* MAX_PLAYERS
          MinPlayers,   \* MIN_PLAYERS
          MaxListed     \* bound: survivors listed in one settlement

ASSUME EscrowAssumption ==
  /\ Prices \subseteq Nat
  /\ MaxPlayers \in Nat /\ MinPlayers \in Nat /\ MaxListed \in Nat
  /\ IsFiniteSet(Games) /\ IsFiniteSet(Players)

Statuses == {"None", "Open", "Locked", "Settled", "Refunding"}

VARIABLES
  status, price, pool, count,   \* games[g]: status, buyIn, pool, playerCount
  deposit,                      \* deposit[g][p]
  owed,                         \* owed[p]
  buyIn, serverSigner, paused,  \* contract configuration
  treasury,                     \* the treasury accepts transfers
  balance                       \* the contract's own balance

games == <<status, price, pool, count>>
config == <<buyIn, serverSigner, paused, treasury>>
vars == <<games, deposit, owed, config, balance>>

Init ==
  /\ status = [g \in Games |-> "None"]
  /\ price = [g \in Games |-> 0]
  /\ pool = [g \in Games |-> 0]
  /\ count = [g \in Games |-> 0]
  /\ deposit = [g \in Games |-> [p \in Players |-> 0]]
  /\ owed = [p \in Players |-> 0]
  /\ buyIn \in Prices /\ serverSigner \in Signers
  /\ paused = FALSE
  /\ treasury \in BOOLEAN
  /\ balance = 0
-----------------------------------------------------------------------------
(* createGame: the buy-in is fixed for this game now. *)
CreateGame(g) ==
  /\ ~paused
  /\ status[g] = "None"
  /\ status' = [status EXCEPT ![g] = "Open"]
  /\ price' = [price EXCEPT ![g] = buyIn]
  /\ UNCHANGED <<pool, count, deposit, owed, config, balance>>

(* join: the guards, in the order of the code. *)
MayJoin_NoCap(g, p, value) ==
  /\ ~paused /\ status[g] = "Open" /\ value = price[g]
  /\ deposit[g][p] = 0
MayJoin_Twice(g, p, value) ==
  /\ ~paused /\ status[g] = "Open" /\ value = price[g]
  /\ count[g] < MaxPlayers
MayJoin(g, p, value) ==
  /\ ~paused
  /\ status[g] = "Open"
  /\ value = price[g]
  /\ deposit[g][p] = 0
  /\ count[g] < MaxPlayers

Join(g, p, value) ==
  /\ MayJoin(g, p, value)
  /\ deposit' = [deposit EXCEPT ![g][p] = value]
  /\ pool' = [pool EXCEPT ![g] = @ + value]
  /\ count' = [count EXCEPT ![g] = @ + 1]
  /\ balance' = balance + value
  /\ UNCHANGED <<status, price, owed, config>>

LockGame(g) ==
  /\ status[g] = "Open"
  /\ count[g] >= MinPlayers
  /\ status' = [status EXCEPT ![g] = "Locked"]
  /\ UNCHANGED <<price, pool, count, deposit, owed, config, balance>>

AbortGame_Locked(g) ==
  /\ status[g] \in {"Open", "Locked"}
  /\ status' = [status EXCEPT ![g] = "Refunding"]
  /\ UNCHANGED <<price, pool, count, deposit, owed, config, balance>>

AbortGame(g) ==
  /\ status[g] = "Open"
  /\ status' = [status EXCEPT ![g] = "Refunding"]
  /\ UNCHANGED <<price, pool, count, deposit, owed, config, balance>>

(* A settlement lists survivors and their payouts, index by index. *)
Paid(s) == SumFunction(s.payouts)
PaidTo(s, p) ==
  SumFunctionOnSet(s.payouts, {i \in DOMAIN s.survivors : s.survivors[i] = p})

(* The conservation guard of settle. *)
Conserves_PaidOnly(s) == Paid(s) <= pool[s.gameId]
Conserves(s) == Paid(s) + s.house = pool[s.gameId]

(* The loop that zeroes the deposits: a survivor without a deposit reverts,  *)
(* and so does one listed twice, whose deposit is already zero.              *)
AllFunders_Anyone(s) == IsInjective(s.survivors)
AllFunders(s) ==
  /\ \A i \in DOMAIN s.survivors : deposit[s.gameId][s.survivors[i]] # 0
  /\ IsInjective(s.survivors)

(* settle(s, sig), where sig recovers to key and the pushes to the players   *)
(* in failing fail (their payout is deferred); zero payouts are skipped.  A  *)
(* treasury that refuses its share reverts everything.                       *)
Settle(s, key, failing) ==
  LET g == s.gameId
      deferred == [p \in Players |-> IF p \in failing THEN PaidTo(s, p) ELSE 0]
  IN  /\ status[g] = "Locked"
      /\ Len(s.survivors) = Len(s.payouts)
      /\ key = serverSigner
      /\ Conserves(s)
      /\ AllFunders(s)
      /\ s.house # 0 => treasury
      /\ status' = [status EXCEPT ![g] = "Settled"]
      /\ deposit' = [deposit EXCEPT ![g] =
                       [p \in Players |-> IF p \in Range(s.survivors) THEN 0 ELSE @[p]]]
      /\ owed' = [p \in Players |-> owed[p] + deferred[p]]
      /\ balance' = balance - (Paid(s) - SumFunction(deferred)) - s.house
      /\ UNCHANGED <<price, pool, count, config>>

(* refund: a sendValue that fails reverts. *)
Refund_Paused(g, p) ==
  /\ ~paused
  /\ status[g] = "Refunding" /\ deposit[g][p] # 0
  /\ deposit' = [deposit EXCEPT ![g][p] = 0]
  /\ balance' = balance - deposit[g][p]
  /\ UNCHANGED <<games, owed, config>>
Refund(g, p) ==
  /\ status[g] = "Refunding"
  /\ deposit[g][p] # 0
  /\ deposit' = [deposit EXCEPT ![g][p] = 0]
  /\ balance' = balance - deposit[g][p]
  /\ UNCHANGED <<games, owed, config>>

Withdraw(p) ==
  /\ owed[p] # 0
  /\ owed' = [owed EXCEPT ![p] = 0]
  /\ balance' = balance - owed[p]
  /\ UNCHANGED <<games, deposit, config>>

SetBuyIn(b) ==
  /\ buyIn' = b
  /\ UNCHANGED <<games, deposit, owed, serverSigner, paused, treasury, balance>>

RotateServerSigner(k) ==
  /\ serverSigner' = k
  /\ UNCHANGED <<games, deposit, owed, buyIn, paused, treasury, balance>>

SetTreasury(accepts) ==
  /\ treasury' = accepts
  /\ UNCHANGED <<games, deposit, owed, buyIn, serverSigner, paused, balance>>

(* pause / unpause. *)
SetPaused(b) ==
  /\ paused = ~b
  /\ paused' = b
  /\ UNCHANGED <<games, deposit, owed, buyIn, serverSigner, treasury,
                 balance>>
-----------------------------------------------------------------------------
(* The settlements a server may sign for game g: any list of wallets, any    *)
(* amounts up to the pool.                                                   *)
Settlements(g) ==
  UNION {[gameId : {g}, survivors : [1..n -> Players],
          payouts : [1..n -> 0..pool[g]], house : 0..pool[g]] : n \in 0..MaxListed}

Manager(g) ==
  \/ CreateGame(g) \/ LockGame(g) \/ AbortGame(g)
  \/ /\ status[g] = "Locked"
     /\ \E s \in Settlements(g), k \in Signers :
          \E failing \in SUBSET Range(s.survivors) : Settle(s, k, failing)
Wallet(p) ==
  \/ \E g \in Games, v \in Prices : Join(g, p, v)
  \/ \E g \in Games : Refund(g, p)
  \/ Withdraw(p)
Admin ==
  \/ \E b \in Prices : SetBuyIn(b)
  \/ \E k \in Signers : RotateServerSigner(k)
  \/ \E b \in BOOLEAN : SetTreasury(b) \/ SetPaused(b)

Next == (\E g \in Games : Manager(g)) \/ (\E p \in Players : Wallet(p)) \/ Admin

Spec == Init /\ [][Next]_vars
-----------------------------------------------------------------------------
TypeOK ==
  /\ status \in [Games -> Statuses]
  /\ price \in [Games -> Prices \cup {0}]
  /\ pool \in [Games -> Nat]
  /\ count \in [Games -> 0..MaxPlayers]
  /\ deposit \in [Games -> [Players -> Prices \cup {0}]]
  /\ owed \in [Players -> Nat]
  /\ buyIn \in Prices /\ serverSigner \in Signers
  /\ paused \in BOOLEAN /\ treasury \in BOOLEAN
  /\ balance \in Nat

(* The money of game g that the contract still answers for. *)
Stakes(g) == SumFunction(deposit[g])
Held(g) == CASE status[g] \in {"Open", "Locked"} -> pool[g]
             [] status[g] = "Refunding"          -> Stakes(g)
             [] OTHER                            -> 0

(* Solvency, to the wei: the balance is what the games still hold and what   *)
(* is owed after failed pushes (invariant_balanceCoversOutstanding, without  *)
(* the slack of an inequality).                                              *)
Solvent ==
  balance = SumFunction([g \in Games |-> Held(g)]) + SumFunction(owed)

(* Until a game is settled its pool is one deposit per counted player, each  *)
(* of another wallet and at the price fixed when it was opened ("One deposit *)
(* per wallet, cap MAX_PLAYERS"), even when the admin changes the price in   *)
(* between.                                                                  *)
Funders(g) == {p \in Players : deposit[g][p] # 0}
OneDepositPerWallet ==
  \A g \in Games : status[g] \in {"Open", "Locked"} =>
    /\ count[g] = Cardinality(Funders(g))
    /\ \A p \in Funders(g) : deposit[g][p] = price[g]
    /\ pool[g] = count[g] * price[g]

(* The lifecycle of the contract's header: None, Open, Locked, Settled, or   *)
(* Open, Refunding; the last two are final and a locked pool cannot go back. *)
LifecycleOrder ==
  [][\A g \in Games : status'[g] # status[g] =>
       <<status[g], status'[g]>> \in
         {<<"None", "Open">>, <<"Open", "Locked">>, <<"Open", "Refunding">>,
          <<"Locked", "Settled">>}]_vars

(* refund and withdraw are "never paused": whoever has money in an aborted   *)
(* game or in the deferred ledger can take it out at once, paused or not,    *)
(* and the contract has it.                                                  *)
MoneyWithinReach ==
  \A p \in Players :
    /\ \A g \in Games : status[g] = "Refunding" /\ deposit[g][p] # 0 =>
         ENABLED Refund(g, p) /\ balance >= deposit[g][p]
    /\ owed[p] # 0 => ENABLED Withdraw(p) /\ balance >= owed[p]

(* The contract implements the vault of module Vault. *)
V == INSTANCE Vault WITH held <- [g \in Games |-> Held(g)], due <- owed,
                         staked <- [g \in Games |-> Funders(g)]
VaultSpec == V!VaultSpec
=============================================================================
