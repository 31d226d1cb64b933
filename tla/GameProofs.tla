----------------------------- MODULE GameProofs -----------------------------
(***************************************************************************)
(* Proofs about Game, for any table, any stake, any penalty percentage,     *)
(* with or without the demo and with abort() called from any phases.        *)
(*                                                                          *)
(* IInv is the inductive invariant.  Its conjuncts lean on each other: the  *)
(* settlement is sound because no Resolve can follow it (BuiltLast), and    *)
(* that holds because a suspended coroutine excludes an armed timer         *)
(* (OneThread).                                                             *)
(***************************************************************************)
EXTENDS Game, FiniteSetTheorems, TLAPS

USE DEF TimerSpent, RoundsLeft, Parity

(* A percentage of an amount is an amount no larger than it. *)
LEMMA PercentOf ==
  ASSUME NEW p \in Nat, NEW q \in 0..100
  PROVE  (p * q) \div 100 \in Nat /\ (p * q) \div 100 <= p
<1> DEFINE m == p * q
<1>1. m \in Nat /\ m <= p * 100
  OBVIOUS
<1> HIDE DEF m
<1>2. m \div 100 \in Nat /\ m \div 100 <= p
  BY <1>1
<1> QED
  BY <1>2 DEF m

(* A round's penalty never exceeds the pool (resolution.ts, step 4). *)
LEMMA PenaltyBounded ==
  ASSUME NEW out, NEW ai, NEW verdict, NEW p \in Nat, NEW q \in 0..100
  PROVE  /\ Penalty(out, ai, verdict, p, q) \in Nat
         /\ Penalty(out, ai, verdict, p, q) <= p
<1> DEFINE cut == (p * q) \div 100
<1>1. cut \in Nat /\ cut <= p
  BY PercentOf
<1> HIDE DEF cut
<1>2. Penalty(out, ai, verdict, p, q) \in {cut, 0}
  BY DEF Penalty, cut
<1> QED
  BY <1>1, <1>2

(* splitPool: equal shares never exceed the pool. *)
LEMMA EqualShares ==
  ASSUME NEW p \in Nat, NEW n \in Nat, n # 0
  PROVE  p \div n \in Nat /\ (p \div n) * n <= p
  OBVIOUS

(* buildSettlement conserves value, whatever the verdict: shares, dust and   *)
(* the house's take add up to what the pool and the house held.              *)
LEMMA SettlementConserves ==
  ASSUME NEW verdict, NEW funders, IsFiniteSet(funders),
         NEW p \in Nat, NEW h \in Nat
  PROVE  LET s == BuildSettlement(verdict, funders, p, h)
         IN  /\ s.survivors \in SUBSET funders
             /\ s.each \in Nat
             /\ s.house \in Nat
             /\ ConservationHolds(s, p + h)
<1> DEFINE n == Cardinality(funders)
<1>1. n \in Nat /\ (n = 0 => funders = {})
  BY FS_CardinalityType, FS_EmptySet
<1>2. Cardinality({}) = 0
  BY FS_EmptySet
<1>3. CASE verdict = "AI_WIN"
  BY <1>2, <1>3 DEF BuildSettlement, ConservationHolds
<1>4. CASE verdict # "AI_WIN" /\ n = 0
  BY <1>1, <1>2, <1>4 DEF BuildSettlement, ConservationHolds
<1>5. CASE verdict # "AI_WIN" /\ n # 0
  <2>1. p \div n \in Nat /\ (p \div n) * n <= p /\ (p \div n) * n \in Nat
    BY <1>1, <1>5, EqualShares
  <2>2. BuildSettlement(verdict, funders, p, h) =
          [survivors |-> funders, each |-> p \div n,
           house |-> h + (p - (p \div n) * n)]
    BY <1>5 DEF BuildSettlement
  <2> QED
    BY <1>1, <2>1, <2>2 DEF ConservationHolds
<1> QED
  BY <1>3, <1>4, <1>5

(* The tables are finite, so their subsets have a size. *)
LEMMA FiniteTable ==
  /\ IsFiniteSet(Seats)
  /\ \A S \in SUBSET Seats : IsFiniteSet(S) /\ Cardinality(S) \in Nat
<1>1. IsFiniteSet(Seats)
  BY GameAssumption, FS_Interval DEF Seats
<1> QED
  BY <1>1, FS_Subset, FS_CardinalityType

LEMMA StartPoolType == StartPool \in Nat
<1>1. Cardinality(Humans) \in Nat
  BY FiniteTable DEF Humans
<1> QED
  BY <1>1, GameAssumption DEF StartPool
-----------------------------------------------------------------------------
(* A game that has completed has nothing left to run. *)
CompletedLast ==
  /\ completions \in {0, 1}
  /\ phase = "COMPLETE" => completions = 1
  /\ completions = 1 => co = "none" /\ timer = "none"

(* Once the settlement is built no round can begin or resolve. *)
BuiltLast ==
  built # NoSettlement =>
    /\ timer = "none"
    /\ co \in {"finalizeGame", "settle", "saveSettlement", "none"}

(* The settlement being built exactly when its writes are awaited. *)
SettlingIsBuilt ==
  co \in {"finalizeGame", "settle", "saveSettlement"} => built # NoSettlement

(* Round 1 begins once, and nothing of a round happens before it. *)
NotStarted == round = 0 <=> co \in {"createGame", "addSeats"}

(* The standing is undecided whenever a round may still go on. *)
Undecided ==
  round > 1 /\ (Playing \/ timer # "none" \/ co = "appendPrompt") =>
    WinCheck(alive, AISeats) = "none"

(* The two kinds of room never mix: the demo settles nothing and plays one    *)
(* round, and its stored outcome is the one the standing calls for.          *)
ModeFollows ==
  /\ co = "finalizeDemo" => demo
  /\ built # NoSettlement => ~demo
  /\ completions = 1 => demo \/ built # NoSettlement
  /\ demo => round \in {0, 1}
  /\ demo /\ phase = "COMPLETE" =>
       /\ outcome \in Outcomes
       /\ outcome = "HUMAN_WIN" <=> alive \cap AISeats = {}

IInv ==
  /\ TypeOK
  /\ PoolConserved
  /\ OneThread
  /\ CompletedLast
  /\ BuiltLast
  /\ SettlingIsBuilt
  /\ NotStarted
  /\ Undecided
  /\ ModeFollows
  /\ SettlementSound
-----------------------------------------------------------------------------
LEMMA InitIInv == Init => IInv
<1> SUFFICES ASSUME Init PROVE IInv
  OBVIOUS
<1>1. TypeOK
  BY StartPoolType, GameAssumption
  DEF Init, TypeOK, NoVotes, Phases, Callbacks, Awaits
<1>2. PoolConserved
  BY StartPoolType DEF Init, PoolConserved
<1> QED
  BY <1>1, <1>2
  DEF Init, IInv, OneThread, CompletedLast, BuiltLast, SettlingIsBuilt,
      NotStarted, Undecided, ModeFollows, SettlementSound, Playing

(* The round's arithmetic: what is left is a set of living seats, and the    *)
(* penalty moves value from the pool to the house and nowhere else.          *)
LEMMA ResolveRoundType ==
  ASSUME TypeOK
  PROVE  LET r == ResolveRound(votes, alive, AISeats, pool, house, PenaltyPct)
         IN  /\ r.left \in SUBSET alive
             /\ r.pool \in Nat /\ r.house \in Nat
             /\ r.pool + r.house = pool + house
             /\ r.win = WinCheck(r.left, AISeats)
<1> DEFINE out  == Eliminated(votes, alive)
           left == alive \ out
           win  == WinCheck(left, AISeats)
           cut  == Penalty(out, AISeats, win, pool, PenaltyPct)
<1>1. cut \in Nat /\ cut <= pool
  BY PenaltyBounded, GameAssumption DEF TypeOK
<1>2. ResolveRound(votes, alive, AISeats, pool, house, PenaltyPct) =
        [out |-> out, left |-> left, win |-> win,
         pool |-> pool - cut, house |-> house + cut]
  BY DEF ResolveRound
<1> HIDE DEF cut, win, left
<1>3. pool - cut \in Nat /\ house + cut \in Nat
      /\ (pool - cut) + (house + cut) = pool + house
  BY <1>1 DEF TypeOK
<1>4. left \in SUBSET alive
  BY DEF left
<1> QED
  BY <1>2, <1>3, <1>4 DEF win

(* The hard step: resolve. *)
LEMMA ResolveStep ==
  ASSUME IInv, Resolve
  PROVE  IInv'
<1> DEFINE r == ResolveRound(votes, alive, AISeats, pool, house, PenaltyPct)
<1>1. /\ r.left \in SUBSET alive
      /\ r.pool \in Nat /\ r.house \in Nat
      /\ r.pool + r.house = StartPool
      /\ r.win = WinCheck(r.left, AISeats)
  BY ResolveRoundType DEF IInv, PoolConserved
<1>2. /\ timer = "resolve" /\ timer' = "none"
      /\ alive' = r.left /\ pool' = r.pool /\ house' = r.house
      /\ up' = up /\ demo' = demo /\ tasks' = tasks /\ completions' = completions
  BY DEF Resolve
<1> HIDE DEF r
<1>3. co = "none" /\ built = NoSettlement /\ completions = 0
  BY <1>2 DEF IInv, OneThread, BuiltLast, CompletedLast, TypeOK
<1>4. PoolConserved'
  BY <1>1, <1>2 DEF PoolConserved, StartPool, Humans, Seats
<1>5. ASSUME NEW verdict \in Outcomes,
             ~demo, Complete(verdict, r.left, r.pool, r.house),
             verdict = "HUMAN_WIN" <=> r.left \cap AISeats = {},
             verdict = "AI_WIN" => r.win = "AI_WIN" \/ round = MaxRounds
      PROVE  IInv'
  <2> DEFINE s == BuildSettlement(verdict, r.left \cap Funded, r.pool, r.house)
  <2>1. IsFiniteSet(r.left \cap Funded)
    BY <1>1, FiniteTable DEF IInv, TypeOK
  <2>2. /\ s.survivors \in SUBSET (r.left \cap Funded)
        /\ s.each \in Nat /\ s.house \in Nat
        /\ ConservationHolds(s, StartPool)
    BY <1>1, <2>1, SettlementConserves
  <2>3. /\ outcome' = verdict /\ phase' = "SETTLEMENT" /\ co' = "finalizeGame"
        /\ built' = [outcome |-> verdict, survivors |-> s.survivors,
                     each |-> s.each, house |-> s.house, tx |-> "none"]
        /\ round' = round /\ votes' = votes
    BY <1>5 DEF Complete
  <2> HIDE DEF s
  <2>4. built' \in Settlements
    BY <2>2, <2>3, <1>5 DEF Settlements
  <2>5. TypeOK'
    BY <1>1, <1>2, <2>3, <2>4 DEF IInv, TypeOK, Phases, Callbacks, Awaits
  <2>6. ConservationHolds(built', StartPool)
    BY <2>2, <2>3 DEF ConservationHolds
  <2>7. verdict = "AI_WIN" => Parity' \/ round = MaxRounds
    BY <1>1, <1>2, <1>5 DEF WinCheck
  <2>8. SettlementSound'
    BY <1>1, <1>2, <1>5, <2>2, <2>3, <2>6, <2>7
    DEF SettlementSound, StartPool, Humans, Seats, ConservationHolds
  <2>9. ModeFollows'
    BY <1>2, <1>3, <1>5, <2>3 DEF IInv, ModeFollows
  <2> QED
    BY <1>2, <1>3, <1>4, <2>3, <2>4, <2>5, <2>8, <2>9, GameAssumption
    DEF IInv, OneThread, CompletedLast, BuiltLast, SettlingIsBuilt, NotStarted,
        Undecided, Playing
<1>6. CASE demo /\ CompleteDemo
  BY <1>1, <1>2, <1>3, <1>4, <1>6
  DEF CompleteDemo, IInv, TypeOK, Phases, Callbacks, Awaits, OneThread,
      CompletedLast, BuiltLast, SettlingIsBuilt, NotStarted, Undecided,
      ModeFollows, Playing, SettlementSound
<1>7. CASE ~demo /\ r.win # "none" /\ Complete(r.win, r.left, r.pool, r.house)
  <2>1. r.win \in Outcomes /\ (r.win = "HUMAN_WIN" <=> r.left \cap AISeats = {})
    BY <1>1, <1>7 DEF WinCheck, Outcomes
  <2> QED
    BY <1>5, <1>7, <2>1
<1>8. CASE /\ ~demo /\ r.win = "none" /\ ~RoundsLeft
           /\ Complete(IF r.left \cap AISeats = {} THEN "HUMAN_WIN" ELSE "AI_WIN",
                       r.left, r.pool, r.house)
  <2>1. r.left \cap AISeats # {}
    BY <1>1, <1>8 DEF WinCheck
  <2>2. round = MaxRounds
    BY <1>8, GameAssumption DEF IInv, TypeOK
  <2>3. Complete("AI_WIN", r.left, r.pool, r.house)
    BY <1>8, <2>1
  <2> QED
    BY <1>5, <1>8, <2>1, <2>2, <2>3 DEF Outcomes
<1>9. CASE /\ ~demo /\ r.win = "none" /\ RoundsLeft
           /\ BeginRound(round + 1) /\ UNCHANGED <<outcome, built>>
  <2>1. TypeOK'
    BY <1>1, <1>2, <1>9, GameAssumption
    DEF BeginRound, NoVotes, IInv, TypeOK, Phases, Callbacks, Awaits
  <2>2. round' # 0
    BY <1>9 DEF BeginRound, IInv, TypeOK
  <2> QED
    BY <1>1, <1>2, <1>3, <1>4, <1>9, <2>1, <2>2
    DEF BeginRound, IInv, OneThread, CompletedLast, BuiltLast, SettlingIsBuilt,
        NotStarted, Undecided, ModeFollows, Playing, SettlementSound
<1> QED
  BY <1>6, <1>7, <1>8, <1>9 DEF Resolve, r
-----------------------------------------------------------------------------
(* The other lifecycle steps: each moves the chain of awaits and timers one  *)
(* link on and leaves the table and the money alone.                         *)
LEMMA LifecycleStep ==
  ASSUME IInv, Lifecycle
  PROVE  IInv'
<1> USE DEF IInv, OneThread, CompletedLast, BuiltLast, SettlingIsBuilt,
            NotStarted, Undecided, ModeFollows, Playing
<1>m. (StartPool \in Nat)' /\ StartPool' = StartPool
  BY StartPoolType
<1>1. CASE GameRowWritten
  BY <1>1 DEF GameRowWritten, TypeOK, Awaits, PoolConserved, SettlementSound
<1>2. CASE SeatRowsWritten
  <2>1. TypeOK'
    BY <1>2, GameAssumption
    DEF SeatRowsWritten, BeginRound, NoVotes, TypeOK, Phases, Awaits
  <2> QED
    BY <1>2, <2>1, GameAssumption
    DEF SeatRowsWritten, BeginRound, PoolConserved, SettlementSound
<1>3. CASE PromptStored
  BY <1>3 DEF PromptStored, TypeOK, Awaits, Callbacks, PoolConserved,
              SettlementSound
<1>4. CASE OpenDiscussion
  BY <1>4 DEF OpenDiscussion, TypeOK, Phases, Callbacks, PoolConserved,
              SettlementSound
<1>5. CASE LockChat
  <2>1. round \in 1..MaxRounds
    BY <1>5, GameAssumption DEF LockChat, TypeOK
  <2>2. VoteTask(round) \in Tasks
    BY <2>1 DEF VoteTask, TypeOK, Tasks
  <2>3. tasks' \in SUBSET Tasks
    BY <1>5, <2>2 DEF LockChat, TypeOK
  <2>4. TypeOK'
    BY <1>5, <2>3 DEF LockChat, TypeOK, Phases, Callbacks
  <2> QED
    BY <1>5, <2>4 DEF LockChat, PoolConserved, SettlementSound
<1>6. CASE Resolve
  BY <1>6, ResolveStep
<1>7. CASE GameFinalized
  BY <1>7 DEF GameFinalized, TypeOK, Awaits, PoolConserved, SettlementSound
<1>8. ASSUME NEW ok \in BOOLEAN, SettleAnswered(ok)
      PROVE  IInv'
  <2>1. built \in Settlements
    BY <1>8 DEF SettleAnswered, TypeOK
  <2>2. built' \in Settlements /\ built' # NoSettlement
    BY <1>8, <2>1, GameAssumption DEF SettleAnswered, Settlements
  <2>3. /\ built'.survivors = built.survivors /\ built'.each = built.each
        /\ built'.house = built.house /\ built'.outcome = built.outcome
    BY <1>8, <2>1 DEF SettleAnswered, Settlements
  <2>4. TypeOK'
    BY <1>8, <2>2 DEF SettleAnswered, TypeOK, Awaits
  <2>5. SettlementSound'
    BY <1>8, <2>1, <2>3, GameAssumption
    DEF SettleAnswered, SettlementSound, ConservationHolds
  <2> QED
    BY <1>8, <2>2, <2>4, <2>5 DEF SettleAnswered, PoolConserved
<1>9. CASE SettlementSaved
  BY <1>9 DEF SettlementSaved, TypeOK, Awaits, Phases, PoolConserved,
              SettlementSound
<1>10. CASE DemoFinalized
  BY <1>10 DEF DemoFinalized, TypeOK, Awaits, Phases, Outcomes, PoolConserved,
               SettlementSound
<1> QED
  BY <1>1, <1>2, <1>3, <1>4, <1>5, <1>6, <1>7, <1>8, <1>9, <1>10 DEF Lifecycle

(* Votes and vote tasks change the ballot and the tasks, nothing else. *)
LEMMA VoteStep ==
  ASSUME IInv, Players \/ VoteTasks
  PROVE  IInv'
<1> DEFINE OnlyVotes ==
             /\ votes' \in [Seats -> Seats \cup {NoVote}]
             /\ tasks' \in SUBSET Tasks
             /\ up' \in BOOLEAN
             /\ UNCHANGED <<demo, phase, round, alive, pool, house, outcome,
                            timer, co, built, completions>>
<1>1. OnlyVotes
  <2>1. TypeOK
    BY DEF IInv
  <2>2. ASSUME NEW v \in Humans, NEW t \in Seats, NEW n \in 1..MaxRounds,
               HandleVote(v, t, n)
        PROVE  OnlyVotes
    BY <2>1, <2>2 DEF HandleVote, MayCast, Cast, TypeOK, Humans
  <2>3. ASSUME NEW k \in tasks,
               \/ \E t \in Candidates(k) : TargetChosen(k, t)
               \/ TaskCast(k)
               \/ ChooseVoteFails(k)
        PROVE  OnlyVotes
    <3>1. /\ k \in Tasks
          /\ \A t \in Candidates(k) : t \in Seats
      BY <2>1, <2>3 DEF TypeOK, Candidates, Tasks
    <3>2. \A t \in Seats \cup {NoVote} : [k EXCEPT !.target = t] \in Tasks
      BY <3>1 DEF Tasks
    <3>3. ASSUME NEW t \in Candidates(k), TargetChosen(k, t)
          PROVE  OnlyVotes
      BY <2>1, <3>1, <3>2, <3>3 DEF TargetChosen, lifeVars, TypeOK
    <3>4. CASE TaskCast(k)
      <4> DEFINE v    == First(k.voters)
                 next == [k EXCEPT !.voters = @ \ {v},
                                   !.target = IF demo THEN NoVote ELSE @]
      <4>1. next \in Tasks
        BY <3>1 DEF Tasks
      <4>2. tasks' \in SUBSET Tasks
        BY <2>1, <3>4, <4>1 DEF TaskCast, TypeOK
      <4>3. votes' \in [Seats -> Seats \cup {NoVote}]
        BY <2>1, <3>4 DEF TaskCast, Cast, MayCast, TypeOK
      <4> QED
        BY <2>1, <3>4, <4>2, <4>3 DEF TaskCast, TypeOK
    <3>5. CASE ChooseVoteFails(k)
      <4>1. votes' = votes /\ up' \in BOOLEAN
        BY <2>1, <3>5 DEF ChooseVoteFails, lifeVars, TypeOK
      <4>2. \/ tasks' = tasks
            \/ \E t \in Candidates(k) :
                 tasks' = (tasks \ {k}) \cup {[k EXCEPT !.target = t]}
        BY <3>5 DEF ChooseVoteFails
      <4>3. tasks' \in SUBSET Tasks
        BY <2>1, <3>1, <3>2, <4>2 DEF TypeOK
      <4> QED
        BY <2>1, <3>5, <4>1, <4>3 DEF ChooseVoteFails, lifeVars, TypeOK
    <3> QED
      BY <2>3, <3>3, <3>4, <3>5
  <2> QED
    BY <2>2, <2>3 DEF Players, VoteTasks
<1> QED
  BY <1>1 DEF IInv, TypeOK, PoolConserved, OneThread, CompletedLast, BuiltLast,
              SettlingIsBuilt, NotStarted, Undecided, ModeFollows, Playing,
              SettlementSound

LEMMA AbortStep ==
  ASSUME IInv, Abort
  PROVE  IInv'
  BY DEF Abort, IInv, TypeOK, Phases, Callbacks, PoolConserved, OneThread,
         CompletedLast, BuiltLast, SettlingIsBuilt, NotStarted, Undecided,
         ModeFollows, Playing, SettlementSound

LEMMA NextIInv == IInv /\ [Next]_vars => IInv'
<1> SUFFICES ASSUME IInv, [Next]_vars PROVE IInv'
  OBVIOUS
<1>1. CASE Lifecycle
  BY <1>1, LifecycleStep
<1>2. CASE Players \/ VoteTasks
  BY <1>2, VoteStep
<1>3. CASE Abort
  BY <1>3, AbortStep
<1>4. CASE UNCHANGED vars
  BY <1>4
  DEF vars, lifeVars, IInv, TypeOK, PoolConserved, OneThread, CompletedLast,
      BuiltLast, SettlingIsBuilt, NotStarted, Undecided,
      ModeFollows, Playing, SettlementSound
<1> QED
  BY <1>1, <1>2, <1>3, <1>4 DEF Next

THEOREM Invariance == Spec => []IInv
  BY InitIInv, NextIInv, PTL DEF Spec
-----------------------------------------------------------------------------
(* Every variable keeps its type: among others, the pool and the house's     *)
(* take are never negative and the rounds never exceed MAX_ROUNDS.           *)
THEOREM TypeCorrect == Spec => []TypeOK
  BY Invariance, PTL DEF IInv

(* Conservation of the pool over any number of rounds and penalties.         *)
THEOREM Conservation == Spec => []PoolConserved
  BY Invariance, PTL DEF IInv

(* The room is driven by one thread of control at a time, abort() included.  *)
THEOREM SingleThread == Spec => []OneThread
  BY Invariance, PTL DEF IInv

(* onComplete runs at most once and nothing runs after it. *)
THEOREM CompletionOnce == Spec => []CompletesOnce
<1>1. IInv => CompletesOnce
  BY DEF IInv, CompletedLast, CompletesOnce
<1> QED
  BY <1>1, Invariance, PTL

(* No round is played at a table that is already decided. *)
THEOREM PlayedUndecided == Spec => []UndecidedWhilePlaying
<1>1. IInv => UndecidedWhilePlaying
  BY DEF IInv, Undecided, UndecidedWhilePlaying, WinCheck
<1> QED
  BY <1>1, Invariance, PTL

(* The settlement handed to the chain conserves the pool, pays surviving     *)
(* funders only and carries the verdict the standing calls for.              *)
THEOREM SettlementCorrect == Spec => []SettlementSound
  BY Invariance, PTL DEF IInv

(* The demo votes once, settles nothing and reveals the outcome its table    *)
(* calls for, at any size of table.                                          *)
THEOREM DemoReveal == Spec => []DemoVerdict
<1>1. IInv => DemoVerdict
  BY DEF IInv, ModeFollows, NotStarted, CompletedLast, TypeOK, Phases, DemoVerdict
<1> QED
  BY <1>1, Invariance, PTL

(* A vote, once in the ballot of a round, is never changed in that round. *)
THEOREM BallotsLocked == Spec => VotesLocked
<1> DEFINE Locked == \A v \in Seats :
                       votes[v] # NoVote /\ round' = round => votes'[v] = votes[v]
<1>1. IInv /\ [Next]_vars => [Locked]_vars
  <2> SUFFICES ASSUME IInv, Next PROVE Locked
    OBVIOUS
  <2>1. CASE Lifecycle
    <3>1. CASE SeatRowsWritten
      BY <3>1 DEF SeatRowsWritten, BeginRound, IInv, NotStarted
    <3>2. CASE Resolve
      <4>1. CASE BeginRound(round + 1)
        BY <4>1 DEF BeginRound, IInv, TypeOK
      <4>2. CASE votes' = votes
        BY <4>2
      <4> QED
        BY <3>2, <4>1, <4>2 DEF Resolve, Complete, CompleteDemo
    <3> QED
      BY <2>1, <3>1, <3>2
      DEF Lifecycle, GameRowWritten, PromptStored, OpenDiscussion, LockChat,
          GameFinalized, SettleAnswered, SettlementSaved, DemoFinalized
  <2>2. ASSUME NEW v, NEW t, NEW n, Cast(v, t, n)
        PROVE  Locked
    BY <2>2 DEF Cast, MayCast, IInv, TypeOK
  <2>3. CASE Players
    BY <2>2, <2>3 DEF Players, HandleVote
  <2>4. CASE VoteTasks
    BY <2>2, <2>4
    DEF VoteTasks, TargetChosen, TaskCast, ChooseVoteFails, lifeVars
  <2>5. CASE Abort
    BY <2>5 DEF Abort
  <2> QED
    BY <2>1, <2>3, <2>4, <2>5 DEF Next
<1> QED
  BY <1>1, Invariance, PTL DEF Spec, VotesLocked
-----------------------------------------------------------------------------
(* Why a game comes to its end.  Something is always pending while it is not *)
(* over, and each step of the lifecycle takes the room nearer to the end by  *)
(* a count that no other step raises: what is left to liveness (Completes)   *)
(* is that what is pending happens, the fairness of Spec.                    *)

(* What the room waits for: an await of its coroutine, or its timer. *)
Pending == IF co # "none" THEN co ELSE timer

(* At most this many steps of the lifecycle are left. *)
StepsLeft ==
  LET later == 4 * (MaxRounds - round)
  IN  CASE Pending = "createGame"     -> later + 5
        [] Pending = "addSeats"       -> later + 4
        [] Pending = "appendPrompt"   -> later + 7
        [] Pending = "openDiscussion" -> later + 6
        [] Pending = "lockChat"       -> later + 5
        [] Pending = "resolve"        -> later + 4
        [] Pending = "finalizeGame"   -> 3
        [] Pending = "settle"         -> 2
        [] Pending \in {"saveSettlement", "finalizeDemo"} -> 1
        [] OTHER                      -> 0

(* No room is left hanging, and the timer that ends a vote finds its window: *)
(* resolve never returns early and leaves the room without a next step.      *)
Driven ==
  /\ phase \notin {"COMPLETE", "ABORTED"} => Pending # "none"
  /\ timer = "resolve" => phase = "VOTE_WINDOW"

(* createGame is the first of them, so no room takes more.                   *)
LEMMA StepsCounted ==
  ASSUME IInv
  PROVE  StepsLeft \in 0..(4 * MaxRounds + 5)
<1> DEFINE later == 4 * (MaxRounds - round)
<1>1. later \in 0..(4 * MaxRounds) /\ 4 * MaxRounds \in Nat /\ MaxRounds \in Nat
  BY GameAssumption DEF IInv, TypeOK
<1>2. CASE co \in {"createGame", "addSeats"}
  <2>1. StepsLeft \in {later + 5, later + 4}
    BY <1>2 DEF StepsLeft, Pending
  <2> HIDE DEF later
  <2> QED
    BY <1>1, <2>1
<1>3. CASE co \notin {"createGame", "addSeats"}
  <2>1. later <= 4 * MaxRounds - 4
    BY <1>1, <1>3, GameAssumption DEF IInv, TypeOK, NotStarted
  <2>2. StepsLeft \in {later + n : n \in 4..7} \cup 0..3
    BY <1>3, GameAssumption DEF IInv, TypeOK, Callbacks, StepsLeft, Pending
  <2> HIDE DEF later
  <2> QED
    BY <1>1, <2>1, <2>2
<1> QED
  BY <1>2, <1>3

(* The lifecycle leaves something pending, or the room complete. *)
LEMMA LifecycleDrives ==
  ASSUME IInv, Driven, Lifecycle
  PROVE  Driven'
<1> USE DEF IInv, OneThread, Pending, Driven
<1>1. CASE Resolve
  BY <1>1 DEF Resolve, Complete, CompleteDemo, BeginRound
<1>2. CASE Lifecycle /\ ~Resolve
  BY <1>2 DEF Lifecycle, GameRowWritten, SeatRowsWritten, BeginRound, PromptStored,
              OpenDiscussion, LockChat, GameFinalized, SettleAnswered,
              SettlementSaved, DemoFinalized
<1> QED
  BY <1>1, <1>2

(* A room that is not over has its next step pending, whatever its players,  *)
(* its vote tasks and abort() do (Game.ts scheduleAfter and the awaits of    *)
(* its lifecycle): the part of Completes that does not speak of fairness.    *)
THEOREM RoomIsDriven == Spec => []Driven
<1>1. Init => Driven
  BY DEF Init, Driven, Pending
<1>2. IInv /\ Driven /\ [Next]_vars => Driven'
  <2> SUFFICES ASSUME IInv, Driven, [Next]_vars PROVE Driven'
    OBVIOUS
  <2>1. CASE Lifecycle
    BY <2>1, LifecycleDrives
  <2>2. CASE Abort
    BY <2>2 DEF Abort, Driven
  <2>3. CASE Players \/ VoteTasks \/ UNCHANGED vars
    <3>1. UNCHANGED <<phase, timer, co>>
      BY <2>3 DEF Players, HandleVote, VoteTasks, TargetChosen, TaskCast,
                  ChooseVoteFails, vars, lifeVars
    <3> QED
      BY <3>1 DEF Driven, Pending
  <2> QED
    BY <2>1, <2>2, <2>3 DEF Next
<1> QED
  BY <1>1, <1>2, Invariance, PTL DEF Spec

(* Each step of the lifecycle is one of those that were left. *)
LEMMA LifecycleCounts ==
  ASSUME IInv, Lifecycle
  PROVE  StepsLeft' < StepsLeft
<1> DEFINE later == 4 * (MaxRounds - round)
<1> USE DEF IInv, OneThread, Pending
<1>1. round \in 0..MaxRounds /\ MaxRounds \in Nat /\ later \in Nat
  BY GameAssumption DEF TypeOK
<1>2. CASE Resolve
  <2>1. co = "none" /\ StepsLeft = later + 4
    BY <1>2 DEF Resolve, StepsLeft
  <2>2. CASE co' \in {"finalizeGame", "finalizeDemo"}
    BY <1>1, <2>1, <2>2 DEF StepsLeft
  <2>3. CASE BeginRound(round + 1) /\ RoundsLeft
    <3>1. StepsLeft' = 4 * (MaxRounds - (round + 1)) + 7
      BY <2>3 DEF BeginRound, StepsLeft
    <3> QED
      BY <1>1, <2>1, <3>1
  <2> QED
    BY <1>2, <2>2, <2>3 DEF Resolve, Complete, CompleteDemo
<1>3. CASE GameRowWritten \/ SeatRowsWritten
  <2>1. round = 0
    BY <1>3 DEF GameRowWritten, SeatRowsWritten, NotStarted
  <2>2. CASE GameRowWritten
    BY <1>1, <2>1, <2>2 DEF GameRowWritten, StepsLeft
  <2>3. CASE SeatRowsWritten
    <3>1. StepsLeft = 4 * MaxRounds + 4 /\ StepsLeft' = 4 * (MaxRounds - 1) + 7
      BY <1>1, <2>1, <2>3 DEF SeatRowsWritten, BeginRound, StepsLeft
    <3> QED
      BY <1>1, <3>1
  <2> QED
    BY <1>3, <2>2, <2>3
<1>4. CASE PromptStored
  <2>1. StepsLeft = later + 7 /\ StepsLeft' = later + 6
    BY <1>4 DEF PromptStored, StepsLeft
  <2> QED
    BY <1>1, <2>1
<1>5. CASE OpenDiscussion \/ LockChat
  <2>1. StepsLeft' + 1 = StepsLeft /\ StepsLeft' \in {later + 5, later + 4}
    BY <1>1, <1>5 DEF OpenDiscussion, LockChat, StepsLeft
  <2> QED
    BY <1>1, <2>1
<1>6. CASE GameFinalized \/ \E ok \in BOOLEAN : SettleAnswered(ok)
  BY <1>6 DEF GameFinalized, SettleAnswered, StepsLeft
<1>7. CASE SettlementSaved \/ DemoFinalized
  BY <1>7 DEF SettlementSaved, DemoFinalized, StepsLeft
<1> QED
  BY <1>2, <1>3, <1>4, <1>5, <1>6, <1>7 DEF Lifecycle

(* A step of the lifecycle is one of those that were left; nothing adds any. *)
RunsDown ==
  /\ StepsLeft' <= StepsLeft
  /\ Lifecycle => StepsLeft' < StepsLeft

(* The lifecycle runs down: each of its steps is one of a bounded number     *)
(* that are left (StepsCounted), and no ballot, vote task or abort() adds to *)
(* them, so no room runs longer than MAX_ROUNDS allow (Game.ts resolve,      *)
(* complete, completeDemo).                                                  *)
THEOREM RoomRunsDown == Spec => [][RunsDown]_vars
<1> DEFINE Counted == StepsLeft \in 0..(4 * MaxRounds + 5)
<1>1. IInv => Counted
  BY StepsCounted
<1>2. ASSUME IInv, Counted, Counted', [Next]_vars, vars' # vars
      PROVE  RunsDown
  <2>1. StepsLeft \in Int /\ StepsLeft' \in Int /\ 0 <= StepsLeft
    BY <1>2, GameAssumption
  <2>2. CASE Lifecycle
    BY <2>1, <2>2, <1>2, LifecycleCounts DEF RunsDown
  <2>3. CASE Players \/ VoteTasks
    <3>1. UNCHANGED <<round, timer, co>>
      BY <2>3 DEF Players, HandleVote, VoteTasks, TargetChosen, TaskCast,
                  ChooseVoteFails, vars, lifeVars
    <3>2. StepsLeft' = StepsLeft
      BY <3>1 DEF StepsLeft, Pending
    <3> QED
      BY <1>2, <2>1, <3>2, LifecycleCounts DEF RunsDown
  <2>4. CASE Abort
    <3>1. co' = co /\ timer' = "none" /\ round' = round
      BY <2>4 DEF Abort
    <3>2. StepsLeft' \in {0, StepsLeft}
      BY <1>2, <3>1 DEF StepsLeft, Pending, IInv, OneThread
    <3> QED
      BY <1>2, <2>1, <3>2, LifecycleCounts DEF RunsDown
  <2> QED
    BY <1>2, <2>2, <2>3, <2>4 DEF Next
<1>3. IInv /\ Counted /\ Counted' /\ [Next]_vars => [RunsDown]_vars
  BY <1>2
<1> HIDE DEF Counted
<1> QED
  BY <1>1, <1>3, Invariance, PTL DEF Spec
-----------------------------------------------------------------------------
(* What the paid lobby takes from its rooms (DemoLobby!GameOver): amounts     *)
(* that divide the start pool among funders, and nothing when none survived. *)
DividesThePool ==
  built # NoSettlement =>
    /\ built.survivors \subseteq Funded /\ built.each \in 0..StartPool
    /\ built.each * Cardinality(built.survivors) <= StartPool
    /\ built.house = StartPool - built.each * Cardinality(built.survivors)

(* With no survivor there is no share. *)
NoShareForNobody == built # NoSettlement /\ built.survivors = {} => built.each = 0

LEMMA ShareNeedsSurvivor ==
  ASSUME IInv, NoShareForNobody, [Next]_vars
  PROVE  NoShareForNobody'
<1>1. ASSUME NEW verdict, NEW left, NEW p, NEW h, Complete(verdict, left, p, h),
             left \in SUBSET alive
      PROVE  NoShareForNobody'
  <2> DEFINE F == left \cap Funded
             s == BuildSettlement(verdict, F, p, h)
  <2>1. IsFiniteSet(F)
    BY <1>1, FiniteTable DEF IInv, TypeOK
  <2>2. s.survivors = {} => s.each = 0
    <3>1. F = {} => Cardinality(F) = 0
      BY FS_EmptySet
    <3> HIDE DEF F
    <3> QED
      BY <3>1 DEF BuildSettlement
  <2>3. built'.survivors = s.survivors /\ built'.each = s.each
    BY <1>1 DEF Complete
  <2> QED
    BY <2>2, <2>3 DEF NoShareForNobody
<1>2. CASE Resolve
  <2>1. ResolveRound(votes, alive, AISeats, pool, house, PenaltyPct).left \in SUBSET alive
    BY ResolveRoundType DEF IInv
  <2> QED
    BY <1>1, <1>2, <2>1 DEF Resolve, CompleteDemo, NoShareForNobody
<1>3. ASSUME NEW ok \in BOOLEAN, SettleAnswered(ok) PROVE NoShareForNobody'
  <2>1. built \in Settlements /\ built # NoSettlement
    BY <1>3 DEF SettleAnswered, IInv, TypeOK, SettlingIsBuilt
  <2>2. built'.survivors = built.survivors /\ built'.each = built.each
    BY <1>3, <2>1 DEF SettleAnswered, Settlements
  <2> QED
    BY <2>1, <2>2 DEF NoShareForNobody
<1>4. CASE UNCHANGED built
  BY <1>4 DEF NoShareForNobody
<1>5. Resolve \/ (\E ok \in BOOLEAN : SettleAnswered(ok)) \/ UNCHANGED built
  BY DEF Next, Lifecycle, GameRowWritten, SeatRowsWritten, PromptStored, OpenDiscussion,
         LockChat, GameFinalized, SettlementSaved, DemoFinalized, Players, HandleVote,
         VoteTasks, TargetChosen, TaskCast, ChooseVoteFails, Abort, vars, lifeVars
<1> QED
  BY <1>2, <1>3, <1>4, <1>5

(* The settlement of a room divides the pool it started with among funders:  *)
(* the one thing the paid lobby assumes of the rooms it launches             *)
(* (resolution.ts buildSettlement, settle.ts).                               *)
THEOREM SettlementDivides == Spec => []DividesThePool
<1>1. Init => NoShareForNobody
  BY DEF Init, NoShareForNobody
<1>2. IInv /\ NoShareForNobody /\ [Next]_vars => NoShareForNobody'
  BY ShareNeedsSurvivor
<1>3. ASSUME IInv, NoShareForNobody PROVE DividesThePool
  <2> SUFFICES ASSUME built # NoSettlement PROVE DividesThePool
    BY DEF DividesThePool
  <2> DEFINE n == Cardinality(built.survivors)
             paid == built.each * n
  <2>1. /\ built.each \in Nat /\ built.house \in Nat /\ StartPool \in Nat
        /\ built.survivors \in SUBSET Seats /\ built.survivors \subseteq Funded
    BY <1>3, StartPoolType, GameAssumption DEF IInv, TypeOK, SettlementSound, Settlements, Humans
  <2>2. n \in Nat
    BY <2>1, FiniteTable
  <2>3. paid + built.house = StartPool
    BY <1>3 DEF IInv, SettlementSound, ConservationHolds
  <2>4. n = 0 => built.survivors = {}
    BY <2>1, FiniteTable, FS_EmptySet
  <2>5. paid \in Nat /\ (n = 0 \/ built.each <= paid)
    BY <2>1, <2>2
  <2> HIDE DEF n, paid
  <2>6. built.each \in 0..StartPool
    BY <1>3, <2>1, <2>3, <2>4, <2>5 DEF NoShareForNobody
  <2>7. paid <= StartPool /\ built.house = StartPool - paid
    BY <2>1, <2>3, <2>5
  <2> QED
    BY <2>1, <2>6, <2>7 DEF DividesThePool, n, paid
<1> QED
  BY <1>1, <1>2, <1>3, Invariance, PTL DEF Spec
=============================================================================
