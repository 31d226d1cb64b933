------------------------------- MODULE Vault --------------------------------
(***************************************************************************)
(* What the escrow promises about money: each game has a stake of its own,  *)
(* made by its stakers; a stake is paid out once and in full, to stakers or  *)
(* the house, or given back deposit by deposit; a payment that could not be *)
(* delivered stays due to its owner; and no step of one game touches the    *)
(* stake of another.                                                        *)
(***************************************************************************)
EXTENDS Integers, Functions

CONSTANTS Games, Players

VARIABLES held,    \* held[g]: money at stake in game g
          staked,  \* staked[g]: the players with a deposit in game g
          due      \* due[p]: undelivered payments of player p

vaultVars == <<held, staked, due>>

VaultInit ==
  /\ held = [g \in Games |-> 0]
  /\ staked = [g \in Games |-> {}]
  /\ due = [p \in Players |-> 0]

(* A player who has nothing in a game yet stakes an amount. *)
Stake(g, p) ==
  /\ p \notin staked[g]
  /\ staked' = [staked EXCEPT ![g] = @ \cup {p}]
  /\ held'[g] > held[g]
  /\ held' = [held EXCEPT ![g] = held'[g]]
  /\ UNCHANGED due

(* The whole stake of a game is disbursed; some of it may remain due, to     *)
(* stakers of this game only and out of this stake.                          *)
Disburse(g) ==
  LET more == [p \in Players |-> due'[p] - due[p]]
  IN  /\ held' = [held EXCEPT ![g] = 0]
      /\ staked' \in {[staked EXCEPT ![g] = S] : S \in SUBSET staked[g]}
      /\ \A p \in Players : more[p] = 0 \/ (more[p] > 0 /\ p \in staked[g])
      /\ SumFunction(more) <= held[g]

(* A deposit goes back to its owner. *)
GiveBack(g, p) ==
  /\ p \in staked[g]
  /\ staked' = [staked EXCEPT ![g] = @ \ {p}]
  /\ 0 <= held'[g] /\ held'[g] < held[g]
  /\ held' = [held EXCEPT ![g] = held'[g]]
  /\ UNCHANGED due

(* A player collects all that is due. *)
Collect(p) ==
  /\ due[p] > 0
  /\ due' = [due EXCEPT ![p] = 0]
  /\ UNCHANGED <<held, staked>>

VaultNext ==
  \/ \E g \in Games, p \in Players : Stake(g, p) \/ GiveBack(g, p)
  \/ \E g \in Games : Disburse(g)
  \/ \E p \in Players : Collect(p)

VaultSpec == VaultInit /\ [][VaultNext]_vaultVars
=============================================================================
