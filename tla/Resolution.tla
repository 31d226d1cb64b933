----------------------------- MODULE Resolution -----------------------------
(***************************************************************************)
(* The pure core of the game server: how a ballot is tallied, how a round   *)
(* is resolved (game/resolution.ts) and how the pool is divided at the end  *)
(* (settlement/settle.ts).  Everything here is an operator of its inputs;   *)
(* the modules that use it keep the state.                                  *)
(*                                                                          *)
(* A definition whose name ends in _Word is a mutated form of the one that    *)
(* follows it; only the mutation runs of PROJECT.json use it.                 *)
(*                                                                          *)
(* A ballot is a function on all seats: ballot[v] is the seat v voted for,  *)
(* or NoVote when v has not voted.  Amounts are in wei, as naturals: the    *)
(* code uses bigint, so they have no width.                                 *)
(***************************************************************************)
EXTENDS Integers, FiniteSets

CONSTANT NoVote      \* "has not voted": the Map of the code has no entry

Outcomes == {"HUMAN_WIN", "AI_WIN"}

(* The number of votes seat s received: counts.get(s) in tallyVotes. *)
VotesFor(ballot, s) == Cardinality({v \in DOMAIN ballot : ballot[v] = s})

Eliminated_TieSaves(ballot, alive) ==
  {s \in alive : /\ VotesFor(ballot, s) > 0
                 /\ \A t \in alive \ {s} : VotesFor(ballot, t) < VotesFor(ballot, s)}

(* tallyVotes: every living seat that ties at the (non-zero) maximum.  Votes *)
(* for seats that are not alive are not counted.                             *)
Eliminated(ballot, alive) ==
  {s \in alive : /\ VotesFor(ballot, s) > 0
                 /\ \A t \in alive : VotesFor(ballot, t) <= VotesFor(ballot, s)}

WinCheck_Strict(left, ai) ==
  IF left \cap ai = {} THEN "HUMAN_WIN"
  ELSE IF Cardinality(left \cap ai) > Cardinality(left \ ai) THEN "AI_WIN"
  ELSE "none"

(* The win check, on the seats that are left: "none" means the game goes on. *)
WinCheck(left, ai) ==
  IF left \cap ai = {} THEN "HUMAN_WIN"
  ELSE IF Cardinality(left \cap ai) >= Cardinality(left \ ai) THEN "AI_WIN"
  ELSE "none"

(* The penalty, taken last: a flat percentage of the current pool when a     *)
(* human went out and the round did not end in a human win.                  *)
Penalty(out, ai, verdict, pool, pct) ==
  IF out \ ai # {} /\ verdict # "HUMAN_WIN" THEN (pool * pct) \div 100 ELSE 0

ResolveRound_PenaltyFirst(ballot, alive, ai, pool, house, pct) ==
  LET out  == Eliminated(ballot, alive)
      left == alive \ out
      cut  == Penalty(out, ai, "none", pool, pct)
  IN  [out |-> out, left |-> left, win |-> WinCheck(left, ai),
       pool |-> pool - cut, house |-> house + cut]

ResolveRound_CutLost(ballot, alive, ai, pool, house, pct) ==
  LET out  == Eliminated(ballot, alive)
      left == alive \ out
      win  == WinCheck(left, ai)
      cut  == Penalty(out, ai, win, pool, pct)
  IN  [out |-> out, left |-> left, win |-> win, pool |-> pool - cut, house |-> cut]

(* resolveRound: remove, then win check, then penalty. *)
ResolveRound(ballot, alive, ai, pool, house, pct) ==
  LET out  == Eliminated(ballot, alive)
      left == alive \ out
      win  == WinCheck(left, ai)
      cut  == Penalty(out, ai, win, pool, pct)
  IN  [out |-> out, left |-> left, win |-> win,
       pool |-> pool - cut, house |-> house + cut]

BuildSettlement_DustLost(verdict, funders, pool, house) ==
  LET n    == Cardinality(funders)
      each == IF n = 0 THEN 0 ELSE pool \div n
  IN  IF verdict = "AI_WIN"
      THEN [survivors |-> {}, each |-> 0, house |-> house + pool]
      ELSE [survivors |-> funders, each |-> each, house |-> house]

(* buildSettlement: an AI win gives the whole remaining pool to the house; a *)
(* human win splits it equally among the surviving funders, dust to the      *)
(* house.  With no surviving funder the whole pool is dust (splitPool).      *)
BuildSettlement(verdict, funders, pool, house) ==
  LET n    == Cardinality(funders)
      each == IF n = 0 THEN 0 ELSE pool \div n
  IN  IF verdict = "AI_WIN"
      THEN [survivors |-> {}, each |-> 0, house |-> house + pool]
      ELSE [survivors |-> funders, each |-> each,
            house |-> house + (pool - each * n)]

(* conservationHolds: what buildSettlement throws on when it is false, and   *)
(* what the escrow contract requires of the pool it holds.                   *)
ConservationHolds(s, startPool) ==
  s.each * Cardinality(s.survivors) + s.house = startPool
=============================================================================
