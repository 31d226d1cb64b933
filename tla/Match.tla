------------------------------- MODULE Match --------------------------------
(***************************************************************************)
(* What a game promises its players, with no phases, timers, ballots or     *)
(* persistence: seats are voted out some at a time, every banishment        *)
(* settles its own price at once, the first standing that decides the game   *)
(* ends it, and a decided game is announced once.                           *)
(* Game implements this module (Game!MatchSpec).                            *)
(***************************************************************************)
EXTENDS Resolution

CONSTANTS SeatCount,     \* number of seats at the table
          AISeats,       \* the seats the house plays
          BuyIn,         \* wei each human staked
          PenaltyPct     \* MISVOTE_PENALTY_PCT

VARIABLES stage, alive, pool, house, outcome

matchVars == <<stage, alive, pool, house, outcome>>

Seats == 1..SeatCount
Humans == Seats \ AISeats
StartPool == Cardinality(Humans) * BuyIn

MatchInit ==
  /\ stage = "playing"
  /\ alive = Seats
  /\ pool = StartPool
  /\ house = 0
  /\ outcome = "none"

(* The table sends the seats in out away (possibly nobody).  The standing    *)
(* that is left decides; a table that has run out of rounds while the AI are *)
(* still in is theirs.                                                       *)
Banish(out) ==
  LET left == alive \ out
      win  == WinCheck(left, AISeats)
      cut  == Penalty(out, AISeats, win, pool, PenaltyPct)
  IN  /\ stage = "playing"
      /\ alive' = left
      /\ pool' = pool - cut
      /\ house' = house + cut
      /\ outcome' \in IF win = "none" THEN {"none", "AI_WIN"} ELSE {win}
      /\ stage' = IF outcome' = "none" THEN "playing" ELSE "decided"

(* The outcome is announced; nothing about the match changes any more. *)
Announce ==
  /\ stage = "decided"
  /\ stage' = "over"
  /\ UNCHANGED <<alive, pool, house, outcome>>

MatchNext ==
  \/ \E out \in SUBSET alive : Banish(out)
  \/ Announce

MatchSpec == MatchInit /\ [][MatchNext]_matchVars
=============================================================================
