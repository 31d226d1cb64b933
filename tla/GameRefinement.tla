--------------------------- MODULE GameRefinement ---------------------------
(***************************************************************************)
(* Every room, money game or demo, with abort() called from any phases,     *)
(* implements Match: each ballot, timer, await and vote task of the room is *)
(* a stutter of the table, except resolve, which banishes, and the end of   *)
(* complete() or completeDemo(), which announces.                           *)
(***************************************************************************)
EXTENDS GameProofs

USE DEF TimerSpent, RoundsLeft

(* The instance's operators on seats are this module's. *)
LEMMA SameCardinality == \A S : M!Cardinality(S) = Cardinality(S)
  BY DEF M!Cardinality, Cardinality

LEMMA SamePrices ==
  /\ M!StartPool = StartPool
  /\ \A left, ai : M!WinCheck(left, ai) = WinCheck(left, ai)
  /\ \A out, ai, v, p, q : M!Penalty(out, ai, v, p, q) = Penalty(out, ai, v, p, q)
  BY SameCardinality
  DEF M!StartPool, StartPool, M!Humans, Humans, M!Seats, Seats,
      M!WinCheck, WinCheck, M!Penalty, Penalty

(* A phase timer that is still armed finds the game undecided. *)
LEMMA ArmedIsUndecided ==
  ASSUME IInv, timer # "none"
  PROVE  ~Decided
  BY DEF IInv, TypeOK, OneThread, BuiltLast, CompletedLast, Decided

(* A resolved round is a banishment of the tied-at-the-top. *)
LEMMA ResolveBanishes ==
  ASSUME IInv, Resolve
  PROVE  M!Banish(Eliminated(votes, alive)) /\ Eliminated(votes, alive) \in SUBSET alive
<1> DEFINE out  == Eliminated(votes, alive)
           left == alive \ out
           win  == WinCheck(left, AISeats)
           cut  == Penalty(out, AISeats, win, pool, PenaltyPct)
           r    == ResolveRound(votes, alive, AISeats, pool, house, PenaltyPct)
<1>1. r = [out |-> out, left |-> left, win |-> win,
           pool |-> pool - cut, house |-> house + cut]
  BY DEF ResolveRound
<1>2. out \in SUBSET alive
  BY DEF Eliminated
<1>3. win = IF left \cap AISeats = {} THEN "HUMAN_WIN"
            ELSE IF Cardinality(left \cap AISeats) >= Cardinality(left \ AISeats)
                 THEN "AI_WIN" ELSE "none"
  BY DEF WinCheck
<1> HIDE DEF out, left, win, cut, r
<1>4. timer = "resolve" /\ ~Decided /\ Stage = "playing"
  BY ArmedIsUndecided DEF Resolve, Stage, Decided
<1>5. /\ alive' = left /\ pool' = pool - cut /\ house' = house + cut
      /\ demo' = demo /\ completions' = completions /\ completions = 0
  BY <1>1, <1>4 DEF Resolve, r, Decided, IInv, CompletedLast
<1>6. /\ Verdict' \in IF win = "none" THEN {"none", "AI_WIN"} ELSE {win}
      /\ Stage' = IF Verdict' = "none" THEN "playing" ELSE "decided"
  <2>1. CASE demo /\ CompleteDemo
    <3>1. /\ Stage' = "decided"
          /\ Verdict' = IF left \cap AISeats # {} THEN "AI_WIN" ELSE "HUMAN_WIN"
      BY <1>5, <2>1 DEF CompleteDemo, Decided, Stage, Verdict
    <3>2. /\ left \cap AISeats = {} => win = "HUMAN_WIN"
          /\ left \cap AISeats # {} => win \in {"none", "AI_WIN"}
      BY <1>3
    <3> QED
      BY <3>1, <3>2
  <2>2. ASSUME NEW v \in Outcomes, ~demo, Complete(v, r.left, r.pool, r.house)
        PROVE  Verdict' = v /\ Stage' = "decided"
    <3>1. co' = "finalizeGame" /\ built' # NoSettlement /\ built'.outcome = v
      <4>1. IInv'
        BY ResolveStep
      <4>2. co' = "finalizeGame" /\ built'.outcome = v
        BY <2>2 DEF Complete
      <4> QED
        BY <4>1, <4>2 DEF IInv, SettlingIsBuilt
    <3> QED
      BY <1>5, <2>2, <3>1 DEF Decided, Stage, Verdict
  <2>3. CASE ~demo /\ win # "none" /\ Complete(win, r.left, r.pool, r.house)
    BY <1>3, <2>2, <2>3 DEF Outcomes
  <2>4. CASE /\ ~demo /\ win = "none"
             /\ Complete(IF r.left \cap AISeats = {} THEN "HUMAN_WIN" ELSE "AI_WIN",
                         r.left, r.pool, r.house)
    <3>1. Complete("AI_WIN", r.left, r.pool, r.house)
      BY <1>1, <1>3, <2>4
    <3> QED
      BY <2>2, <2>4, <3>1 DEF Outcomes
  <2>5. CASE ~demo /\ win = "none" /\ BeginRound(round + 1) /\ built' = built
    BY <1>4, <1>5, <2>5 DEF BeginRound, Decided, Stage, Verdict
  <2> QED
    BY <1>1, <2>1, <2>3, <2>4, <2>5 DEF Resolve, r
<1>7. M!Banish(out)
  BY <1>4, <1>5, <1>6, SamePrices DEF M!Banish, left, win, cut
<1> QED
  BY <1>2, <1>7 DEF out

(* The last write returns: the reveal, with the verdict already decided. *)
LEMMA RevealAnnounces ==
  ASSUME IInv, SettlementSaved \/ DemoFinalized
  PROVE  M!Announce
<1>1. /\ completions = 0 /\ completions' = 1 /\ phase' = "COMPLETE"
      /\ UNCHANGED <<demo, alive, pool, house, built>>
  BY DEF SettlementSaved, DemoFinalized, IInv, CompletedLast
<1>2. CASE SettlementSaved
  <2>1. built # NoSettlement /\ ~demo
    BY <1>2 DEF SettlementSaved, IInv, SettlingIsBuilt, ModeFollows
  <2> QED
    BY <1>1, <2>1 DEF Decided, Stage, Verdict, M!Announce
<1>3. CASE DemoFinalized
  <2>1. /\ co = "finalizeDemo" /\ demo /\ phase # "COMPLETE"
        /\ outcome' = IF alive \cap AISeats # {} THEN "AI_WIN" ELSE "HUMAN_WIN"
    BY <1>1, <1>3 DEF DemoFinalized, IInv, ModeFollows, CompletedLast
  <2> QED
    BY <1>1, <2>1 DEF Decided, Stage, Verdict, M!Announce
<1> QED
  BY <1>2, <1>3

(* abort() comes too late or too early to change what was decided. *)
LEMMA AbortKeepsVerdict ==
  ASSUME IInv, Abort
  PROVE  Stage' = Stage /\ Verdict' = Verdict
<1>1. /\ UNCHANGED <<demo, alive, co, built, completions>>
      /\ phase' = "ABORTED"
  BY DEF Abort
<1>2. demo /\ phase = "COMPLETE" =>
        outcome = IF alive \cap AISeats # {} THEN "AI_WIN" ELSE "HUMAN_WIN"
  BY DEF IInv, ModeFollows, Outcomes
<1> QED
  BY <1>1, <1>2 DEF Decided, Stage, Verdict

(* The rest of the lifecycle is invisible from the table. *)
LEMMA QuietLifecycle ==
  ASSUME IInv, Lifecycle, ~Resolve, ~SettlementSaved, ~DemoFinalized
  PROVE  UNCHANGED <<Stage, alive, pool, house, Verdict>>
<1>1. /\ UNCHANGED <<demo, alive, pool, house, outcome, completions>>
      /\ phase' = "COMPLETE" => phase = "COMPLETE"
      /\ phase = "COMPLETE" => phase' = "COMPLETE"
      /\ co' = "finalizeDemo" <=> co = "finalizeDemo"
  BY DEF Lifecycle, GameRowWritten, SeatRowsWritten, BeginRound, PromptStored,
         OpenDiscussion, LockChat, GameFinalized, SettleAnswered,
         IInv, OneThread, CompletedLast
<1>2. \/ built' = built
      \/ built # NoSettlement /\ built' # NoSettlement /\ built'.outcome = built.outcome
  <2>1. CASE \E ok \in BOOLEAN : SettleAnswered(ok)
    <3>1. PICK ok \in BOOLEAN : SettleAnswered(ok)
      BY <2>1
    <3>2. built \in Settlements
      BY <3>1 DEF SettleAnswered, IInv, SettlingIsBuilt, TypeOK
    <3>3. built' \in Settlements /\ built'.outcome = built.outcome
      BY <3>1, <3>2 DEF SettleAnswered, Settlements
    <3> QED
      BY <3>2, <3>3, GameAssumption
  <2> QED
    BY <2>1 DEF Lifecycle, GameRowWritten, SeatRowsWritten, PromptStored,
                OpenDiscussion, LockChat, GameFinalized
<1> QED
  BY <1>1, <1>2 DEF Decided, Stage, Verdict

(* Each step of the room is a step of the table or none. *)
LEMMA StepOfMatch ==
  ASSUME IInv, [Next]_vars
  PROVE  M!MatchNext \/ UNCHANGED M!matchVars
<1>1. CASE Resolve
  BY <1>1, ResolveBanishes DEF M!MatchNext
<1>2. CASE SettlementSaved \/ DemoFinalized
  BY <1>2, RevealAnnounces DEF M!MatchNext
<1>3. CASE Lifecycle /\ ~Resolve /\ ~SettlementSaved /\ ~DemoFinalized
  BY <1>3, QuietLifecycle DEF M!matchVars
<1>4. CASE Abort
  BY <1>4, AbortKeepsVerdict DEF Abort, M!matchVars
<1>5. CASE Players \/ VoteTasks \/ UNCHANGED vars
  <2>1. UNCHANGED <<demo, phase, alive, pool, house, outcome, co, built, completions>>
    BY <1>5
    DEF Players, HandleVote, VoteTasks, TargetChosen, TaskCast,
        ChooseVoteFails, vars, lifeVars
  <2> QED
    BY <2>1 DEF Decided, Stage, Verdict, M!matchVars
<1> QED
  BY <1>1, <1>2, <1>3, <1>4, <1>5 DEF Next

(* The room, seen from the table, is a Match. *)
THEOREM GameImplementsMatch == Spec => MatchSpec
<1>1. Init => M!MatchInit
  BY SamePrices DEF Init, Decided, Stage, Verdict, M!MatchInit, M!Seats, Seats
<1>2. IInv /\ [Next]_vars => [M!MatchNext]_(M!matchVars)
  BY StepOfMatch
<1> QED
  BY <1>1, <1>2, Invariance, PTL DEF Spec, MatchSpec, M!MatchSpec

(* A verdict is final and exile is for good: once the game is decided neither *)
(* it nor the table, the pool and the house's cut change any more, whatever   *)
(* ballots, late vote tasks, awaits and abort() still come, and a seat that   *)
(* was voted out never returns (Game.ts complete, completeDemo, abort).       *)
VerdictStands ==
  /\ Decided => Decided' /\ UNCHANGED <<alive, pool, house, Verdict>>
  /\ completions > 0 => completions' > 0
  /\ alive' \subseteq alive

THEOREM VerdictIsFinal == Spec => [][VerdictStands]_vars
<1>1. IInv /\ [Next]_vars => VerdictStands
  <2> SUFFICES ASSUME IInv, [Next]_vars PROVE VerdictStands
    OBVIOUS
  <2>1. M!MatchNext \/ UNCHANGED M!matchVars
    BY StepOfMatch
  <2>2. /\ Decided <=> Stage # "playing"
        /\ completions > 0 <=> Stage = "over"
    BY DEF Stage, Decided
  <2>3. /\ Decided' <=> Stage' # "playing"
        /\ completions' > 0 <=> Stage' = "over"
    BY DEF Stage, Decided
  <2>4. CASE \E out \in SUBSET alive : M!Banish(out)
    BY <2>2, <2>4 DEF M!Banish, VerdictStands
  <2>5. CASE M!Announce \/ UNCHANGED M!matchVars
    BY <2>2, <2>3, <2>5 DEF M!Announce, M!matchVars, VerdictStands
  <2> QED
    BY <2>1, <2>4, <2>5 DEF M!MatchNext
<1>2. IInv /\ [Next]_vars => [VerdictStands]_vars
  BY <1>1
<1> QED
  BY <1>2, Invariance, PTL DEF Spec
=============================================================================
