---------------------------- MODULE BallotProofs ----------------------------
(***************************************************************************)
(* Proofs about the ballots of Game: the AI seats vote as one however late  *)
(* their vote tasks are, and every vote counts.                             *)
(*                                                                          *)
(* Tasks of any number of rounds may be running at once.  What keeps them   *)
(* apart is their round: at most one is about the round that is open        *)
(* (OneTask), because a task is started with an empty ballot, once per      *)
(* round (BlankBefore), and the bloc's votes in the ballot are for the      *)
(* target of that one (BlocFollows).                                        *)
(***************************************************************************)
EXTENDS GameProofs, Facts

USE DEF TimerSpent, RoundsLeft, Parity

-----------------------------------------------------------------------------
(* The window is open only while its timer runs. *)
WindowTimed == phase = "VOTE_WINDOW" => timer = "resolve" /\ co = "none"

(* Before the window of a round its ballot is empty and no task is about it. *)
BlankBefore ==
  timer \in {"openDiscussion", "lockChat"} \/ co = "appendPrompt" \/ round = 0 =>
    votes = NoVotes /\ \A k \in tasks : k.round < round

(* While the window is open, the living vote for the living. *)
BallotSound ==
  phase = "VOTE_WINDOW" =>
    \A v \in Seats : votes[v] # NoVote => v \in alive /\ votes[v] \in alive

(* Every task has work left; a bloc picks humans only. *)
TasksSound ==
  \A k \in tasks :
    /\ k.round <= round /\ k.voters # {}
    /\ ~demo => k.pool \subseteq Humans /\ k.target \in k.pool \cup {NoVote}

(* One task is about the round; the AI votes there are for its target, and   *)
(* its voters have none.                                                     *)
OneTask == \A k, l \in tasks : k.round = round /\ l.round = round => k = l

BlocFollows ==
  ~demo => \A k \in tasks : k.round = round =>
    /\ \A v \in k.voters : votes[v] = NoVote
    /\ \A v \in AISeats : votes[v] # NoVote => votes[v] = k.target

BInv ==
  /\ IInv
  /\ WindowTimed
  /\ BlankBefore
  /\ BallotSound
  /\ TasksSound
  /\ OneTask
  /\ BlocFollows
  /\ BlocVotesTogether
-----------------------------------------------------------------------------
(* The next seat of a task is one of its voters. *)
LEMMA FirstIsIn ==
  ASSUME NEW S, S \subseteq Seats, S # {}
  PROVE  First(S) \in S
<1>1. S \subseteq Nat
  BY GameAssumption DEF Seats
<1>2. \E s \in S : \A t \in S : s <= t
  BY <1>1, LeastExists
<1> QED
  BY <1>2 DEF First

(* The number of votes for a seat is a number, and not 0 if there is one. *)
LEMMA VotesCounted ==
  ASSUME TypeOK, NEW s
  PROVE  /\ VotesFor(votes, s) \in 0..SeatCount
         /\ VotesFor(votes, s) > 0 <=> \E v \in Seats : votes[v] = s
<1> DEFINE V == {v \in Seats : votes[v] = s}
<1>1. VotesFor(votes, s) = Cardinality(V)
  BY DEF VotesFor, TypeOK
<1>2. IsFiniteSet(Seats) /\ Cardinality(Seats) = SeatCount
  BY GameAssumption, FS_Interval DEF Seats
<1>3. V \in SUBSET Seats
  OBVIOUS
<1>4. IsFiniteSet(V) /\ Cardinality(V) \in Nat /\ Cardinality(V) <= SeatCount
  BY <1>2, <1>3, FS_Subset, FS_CardinalityType
<1>5. Cardinality(V) = 0 <=> V = {}
  BY <1>4, FS_EmptySet
<1> HIDE DEF V
<1>6. V = {} <=> ~\E v \in Seats : votes[v] = s
  BY DEF V
<1> QED
  BY <1>1, <1>4, <1>5, <1>6, GameAssumption

(* tallyVotes: with a vote for a living seat in the ballot, somebody goes;   *)
(* and whoever goes was voted for.                                           *)
LEMMA Tally ==
  ASSUME TypeOK
  PROVE  /\ (\E v \in Seats : votes[v] \in alive) => Eliminated(votes, alive) # {}
         /\ \A s \in Eliminated(votes, alive) : \E v \in Seats : votes[v] = s
<1>1. \A s \in Eliminated(votes, alive) : \E v \in Seats : votes[v] = s
  BY VotesCounted DEF Eliminated
<1>2. ASSUME NEW v \in Seats, votes[v] \in alive PROVE Eliminated(votes, alive) # {}
  <2> DEFINE T == {SeatCount - VotesFor(votes, s) : s \in alive}
  <2>1. T \subseteq Nat /\ T # {}
    BY <1>2, VotesCounted, GameAssumption
  <2>2. PICK x \in T : \A y \in T : x <= y
    BY <2>1, LeastExists
  <2>3. PICK s \in alive : x = SeatCount - VotesFor(votes, s)
    BY <2>2
  <2>4. ASSUME NEW t \in alive PROVE VotesFor(votes, t) <= VotesFor(votes, s)
    <3>1. SeatCount - VotesFor(votes, s) <= SeatCount - VotesFor(votes, t)
      BY <2>2, <2>3
    <3>2. VotesFor(votes, s) \in Nat /\ VotesFor(votes, t) \in Nat
      BY VotesCounted, GameAssumption
    <3> QED
      BY <3>1, <3>2, GameAssumption
  <2>5. VotesFor(votes, votes[v]) > 0 /\ VotesFor(votes, votes[v]) <= VotesFor(votes, s)
    BY <1>2, <2>4, VotesCounted
  <2>6. VotesFor(votes, s) > 0
    BY <2>5, VotesCounted, GameAssumption
  <2> QED
    BY <2>4, <2>6 DEF Eliminated
<1> QED
  BY <1>1, <1>2
-----------------------------------------------------------------------------
(* Before the first round there is no vote and no task.                      *)
LEMMA InitBInv == Init => BInv
<1> SUFFICES ASSUME Init PROVE BInv
  OBVIOUS
<1>1. IInv
  BY InitIInv
<1>2. \A v \in Seats : votes[v] = NoVote
  BY DEF Init, NoVotes
<1>3. BlocVotesTogether
  BY <1>2, GameAssumption DEF BlocVotesTogether
<1> QED
  BY <1>1, <1>3 DEF Init, BInv, WindowTimed, BlankBefore, BallotSound, TasksSound, OneTask, BlocFollows

(* A cast changes one vote, from none to one for another living seat, in an  *)
(* open window.                                                              *)
LEMMA CastEffect ==
  ASSUME TypeOK, NEW v, NEW t, NEW r, Cast(v, t, r)
  PROVE  \/ votes' = votes
         \/ /\ phase = "VOTE_WINDOW" /\ r = round /\ v \in alive /\ t \in alive /\ votes[v] = NoVote
            /\ votes' = [votes EXCEPT ![v] = t]
  BY DEF Cast, MayCast

(* The steps that leave ballot, tasks, round and roster alone. *)
LEMMA QuietStep ==
  ASSUME BInv, IInv', UNCHANGED <<demo, round, alive, votes, tasks>>,
         WindowTimed', BlankBefore', phase' = "VOTE_WINDOW" => phase = "VOTE_WINDOW"
  PROVE  BInv'
  BY DEF BInv, BallotSound, TasksSound, OneTask, BlocFollows, BlocVotesTogether

(* A round begins: its ballot is blank, and the tasks are of earlier rounds. *)
LEMMA BeginsBlank ==
  ASSUME BInv, IInv', BeginRound(round + 1), demo' = demo, tasks' = tasks, timer' = "none"
  PROVE  BInv'
<1>1. round \in Nat /\ \A k \in tasks : k.round \in Nat /\ k.round <= round
  BY GameAssumption DEF BInv, IInv, TypeOK, Tasks, TasksSound
<1>2. round' = round + 1 /\ votes' = NoVotes /\ phase' = "ROUND_PROMPT" /\ co' = "appendPrompt"
  BY DEF BeginRound
<1>3. \A k \in tasks : k.round < round + 1 /\ k.round # round + 1
  BY <1>1
<1>4. BlocVotesTogether'
  BY <1>2, GameAssumption DEF BlocVotesTogether, NoVotes
<1> QED
  BY <1>1, <1>2, <1>3, <1>4
  DEF BInv, WindowTimed, BlankBefore, BallotSound, TasksSound, OneTask, BlocFollows

(* Every lifecycle step keeps the ballots sound; openVote starts one task.   *)
LEMMA LifecycleKeeps ==
  ASSUME BInv, IInv', Lifecycle
  PROVE  BInv'
<1>1. CASE GameRowWritten
  BY <1>1, QuietStep DEF GameRowWritten, BInv, WindowTimed, BlankBefore
<1>2. CASE SeatRowsWritten
  <2>1. round = 0 /\ 1 = 0 + 1 /\ timer = "none"
    BY <1>2 DEF SeatRowsWritten, BInv, IInv, NotStarted, OneThread
  <2> QED
    BY <1>2, <2>1, BeginsBlank DEF SeatRowsWritten
<1>3. CASE PromptStored
  BY <1>3, QuietStep DEF PromptStored, BInv, WindowTimed, BlankBefore
<1>4. CASE OpenDiscussion
  BY <1>4, QuietStep DEF OpenDiscussion, BInv, WindowTimed, BlankBefore
<1>5. CASE LockChat
  <2>1. /\ timer = "lockChat" /\ phase' = "VOTE_WINDOW" /\ timer' = "resolve"
        /\ UNCHANGED <<demo, round, alive, votes, co>>
        /\ tasks' = tasks \cup {k \in {VoteTask(round)} : HasWork(k)}
    BY <1>5 DEF LockChat
  <2>2. co = "none" /\ votes = NoVotes /\ (\A k \in tasks : k.round < round) /\ round # 0
    BY <2>1 DEF BInv, IInv, OneThread, BlankBefore, NotStarted
  <2>3. round \in Nat /\ \A k \in tasks : k.round \in Nat
    BY GameAssumption DEF BInv, IInv, TypeOK, Tasks
  <2>4. ASSUME NEW k \in tasks', k \notin tasks
        PROVE  /\ k.round = round /\ k.voters # {} /\ k.target = NoVote /\ k = VoteTask(round)
               /\ ~demo => k.pool \subseteq Humans
    <3>1. k = VoteTask(round) /\ HasWork(k)
      BY <2>1, <2>4
    <3> QED
      BY <3>1 DEF VoteTask, HasWork, BInv, IInv, TypeOK, Humans
  <2>5. WindowTimed' /\ BlankBefore' /\ BallotSound'
    BY <2>1, <2>2 DEF WindowTimed, BlankBefore, BallotSound, NoVotes
  <2>6. TasksSound'
    BY <2>1, <2>3, <2>4 DEF BInv, TasksSound
  <2>7. OneTask'
    <3>1. \A k \in tasks' : k.round = round => k = VoteTask(round)
      BY <2>2, <2>3, <2>4
    <3> QED
      BY <2>1, <3>1 DEF OneTask
  <2>8. \A v \in Seats : votes'[v] = NoVote
    BY <2>1, <2>2 DEF NoVotes
  <2>9. \A k \in tasks' : k.voters \subseteq Seats
    BY GameAssumption DEF IInv, TypeOK, Tasks
  <2>10. BlocFollows' /\ BlocVotesTogether'
    BY <2>8, <2>9, GameAssumption DEF BlocFollows, BlocVotesTogether
  <2> QED
    BY <2>5, <2>6, <2>7, <2>10 DEF BInv
<1>6. CASE Resolve
  <2>1. CASE BeginRound(round + 1)
    BY <1>6, <2>1, BeginsBlank DEF Resolve
  <2>2. CASE phase' = "SETTLEMENT" /\ co' \in {"finalizeGame", "finalizeDemo"} /\ UNCHANGED <<round, votes>>
    <3>1. UNCHANGED <<demo, tasks>> /\ timer' = "none" /\ round # 0
      BY <1>6 DEF Resolve, BInv, IInv, OneThread, NotStarted
    <3> QED
      BY <2>2, <3>1
      DEF BInv, WindowTimed, BlankBefore, BallotSound, TasksSound, OneTask, BlocFollows, BlocVotesTogether
  <2> QED
    BY <1>6, <2>1, <2>2 DEF Resolve, Complete, CompleteDemo
<1>7. CASE GameFinalized
  BY <1>7, QuietStep DEF GameFinalized, BInv, WindowTimed, BlankBefore
<1>8. CASE \E ok \in BOOLEAN : SettleAnswered(ok)
  BY <1>8, QuietStep DEF SettleAnswered, BInv, WindowTimed, BlankBefore
<1>9. CASE SettlementSaved
  BY <1>9, QuietStep DEF SettlementSaved, BInv, WindowTimed, BlankBefore
<1>10. CASE DemoFinalized
  BY <1>10, QuietStep DEF DemoFinalized, BInv, WindowTimed, BlankBefore
<1> QED
  BY <1>1, <1>2, <1>3, <1>4, <1>5, <1>6, <1>7, <1>8, <1>9, <1>10 DEF Lifecycle

(* An answer of the model reaches its task. *)
LEMMA Retargeted ==
  ASSUME BInv, IInv', NEW k \in tasks, k.target = NoVote, NEW t \in Candidates(k),
         tasks' = (tasks \ {k}) \cup {[k EXCEPT !.target = t]},
         UNCHANGED <<demo, phase, round, alive, votes, timer, co>>
  PROVE  BInv'
<1> DEFINE l == [k EXCEPT !.target = t]
<1>1. k \in Tasks /\ t \in k.pool
  BY DEF BInv, IInv, TypeOK, Candidates
<1>2. l.round = k.round /\ l.voters = k.voters /\ l.pool = k.pool /\ l.target = t
  BY <1>1 DEF Tasks
<1> HIDE DEF l
<1>3. \A m \in tasks' : m = l \/ (m \in tasks /\ m # k)
  BY DEF l
<1>4. WindowTimed' /\ BlankBefore' /\ BallotSound'
  BY <1>2, <1>3 DEF BInv, WindowTimed, BlankBefore, BallotSound
<1>5. TasksSound' /\ OneTask'
  BY <1>1, <1>2, <1>3 DEF BInv, TasksSound, OneTask
<1>6. BlocFollows' /\ BlocVotesTogether'
  BY <1>2, <1>3, GameAssumption DEF BInv, BlocFollows, BlocVotesTogether
<1> QED
  BY <1>4, <1>5, <1>6 DEF BInv

(* A seat of a task casts. *)
LEMMA TaskCasts ==
  ASSUME BInv, IInv', NEW k \in tasks, TaskCast(k)
  PROVE  BInv'
<1> DEFINE v    == First(k.voters)
           next == [k EXCEPT !.voters = @ \ {v},
                             !.target = IF demo THEN NoVote ELSE @]
<1>1. k \in Tasks /\ k.voters # {} /\ k.voters \subseteq AISeats /\ AISeats \subseteq Seats
  BY GameAssumption DEF BInv, IInv, TypeOK, TasksSound, Tasks
<1>2. v \in k.voters /\ v \in AISeats /\ v \in Seats
  BY <1>1, FirstIsIn
<1>3. /\ k.target # NoVote /\ Cast(v, k.target, k.round)
      /\ \A m \in tasks' : (m = next /\ HasWork(next)) \/ (m \in tasks /\ m # k)
      /\ UNCHANGED <<demo, phase, round, alive, timer, co>>
  BY DEF TaskCast
<1> HIDE DEF v
<1>4. /\ next.round = k.round /\ next.voters = k.voters \ {v} /\ next.pool = k.pool
      /\ next.target = IF demo THEN NoVote ELSE k.target
  BY <1>1 DEF Tasks
<1> HIDE DEF next
<1>5. HasWork(next) => next.voters # {}
  BY DEF HasWork
<1>6. \/ votes' = votes
      \/ /\ phase = "VOTE_WINDOW" /\ k.round = round /\ v \in alive /\ k.target \in alive
         /\ votes[v] = NoVote /\ votes' = [votes EXCEPT ![v] = k.target]
  BY <1>3, CastEffect DEF BInv, IInv
<1>7. TasksSound' /\ OneTask'
  BY <1>1, <1>3, <1>4, <1>5 DEF BInv, TasksSound, OneTask
<1>8. CASE votes' = votes
  <2>1. WindowTimed' /\ BlankBefore' /\ BallotSound'
    BY <1>3, <1>4, <1>8 DEF BInv, WindowTimed, BlankBefore, BallotSound
  <2>2. BlocFollows' /\ BlocVotesTogether'
    BY <1>3, <1>4, <1>8 DEF BInv, BlocFollows, BlocVotesTogether
  <2> QED
    BY <1>7, <2>1, <2>2 DEF BInv
<1>9. CASE /\ phase = "VOTE_WINDOW" /\ k.round = round /\ v \in alive /\ k.target \in alive
           /\ votes[v] = NoVote /\ votes' = [votes EXCEPT ![v] = k.target]
  <2>1. timer = "resolve" /\ co = "none" /\ round # 0
    BY <1>9 DEF BInv, IInv, WindowTimed, NotStarted
  <2>2. votes \in [Seats -> Seats \cup {NoVote}] /\ votes'[v] = k.target
        /\ \A w \in Seats : w # v => votes'[w] = votes[w]
    BY <1>2, <1>9 DEF BInv, IInv, TypeOK
  <2>3. WindowTimed' /\ BlankBefore' /\ BallotSound'
    BY <1>3, <1>9, <2>1, <2>2 DEF BInv, WindowTimed, BlankBefore, BallotSound
  <2>4. \A m \in tasks' : m.round = round => m = next
    BY <1>3, <1>9 DEF BInv, OneTask
  <2>5. ~demo => \A w \in AISeats : votes'[w] # NoVote => votes'[w] = k.target
    BY <1>1, <1>9, <2>2 DEF BInv, BlocFollows
  <2>6. ~demo => k.target \in Humans
    BY <1>3 DEF BInv, TasksSound
  <2>7. ~demo => \A w \in k.voters \ {v} : votes'[w] = NoVote
    BY <1>1, <1>9, <2>2 DEF BInv, BlocFollows
  <2>8. BlocFollows' /\ BlocVotesTogether'
    BY <1>3, <1>4, <2>4, <2>5, <2>6, <2>7 DEF BlocFollows, BlocVotesTogether, Humans, Seats
  <2> QED
    BY <1>7, <2>3, <2>8 DEF BInv
<1> QED
  BY <1>6, <1>8, <1>9

(* A player votes: no vote of an AI seat is touched. *)
LEMMA PlayerVotes ==
  ASSUME BInv, IInv', NEW v \in Humans, NEW t, NEW r, HandleVote(v, t, r)
  PROVE  BInv'
<1>1. /\ phase = "VOTE_WINDOW" /\ v \in alive /\ t \in alive
      /\ votes' = [votes EXCEPT ![v] = t]
      /\ UNCHANGED <<demo, phase, round, alive, timer, co, tasks>>
  BY DEF HandleVote, MayCast, Cast
<1>2. timer = "resolve" /\ co = "none" /\ round # 0
  BY <1>1 DEF BInv, IInv, WindowTimed, NotStarted
<1>3. votes \in [Seats -> Seats \cup {NoVote}] /\ v \in Seats /\ v \notin AISeats /\ AISeats \subseteq Seats
      /\ \A k \in tasks : k.voters \subseteq AISeats
  BY GameAssumption DEF BInv, IInv, TypeOK, Tasks, Humans
<1>4. votes'[v] = t /\ \A w \in Seats : w # v => votes'[w] = votes[w]
  BY <1>1, <1>3
<1>5. \A w \in AISeats : votes'[w] = votes[w]
  BY <1>3, <1>4
<1>6. WindowTimed' /\ BlankBefore' /\ BallotSound'
  BY <1>1, <1>2, <1>3, <1>4 DEF BInv, WindowTimed, BlankBefore, BallotSound
<1>7. TasksSound' /\ OneTask'
  BY <1>1 DEF BInv, TasksSound, OneTask
<1>8. BlocFollows' /\ BlocVotesTogether'
  BY <1>1, <1>3, <1>5 DEF BInv, BlocFollows, BlocVotesTogether
<1> QED
  BY <1>6, <1>7, <1>8 DEF BInv
-----------------------------------------------------------------------------
(* Every step keeps the ballots sound.                                       *)
LEMMA NextKeeps ==
  ASSUME BInv, IInv', [Next]_vars
  PROVE  BInv'
<1>1. CASE Lifecycle
  BY <1>1, LifecycleKeeps
<1>2. CASE VoteTasks
  <2>1. PICK k \in tasks : \/ \E t \in Candidates(k) : TargetChosen(k, t)
                           \/ TaskCast(k)
                           \/ ChooseVoteFails(k)
    BY <1>2 DEF VoteTasks
  <2>2. CASE \E t \in Candidates(k) : TargetChosen(k, t)
    BY <2>2, Retargeted DEF TargetChosen, lifeVars
  <2>3. CASE TaskCast(k)
    BY <2>3, TaskCasts
  <2>4. CASE ChooseVoteFails(k)
    <3>1. k.target = NoVote /\ UNCHANGED lifeVars
      BY <2>4 DEF ChooseVoteFails
    <3>2. CASE \E t \in Candidates(k) : tasks' = (tasks \ {k}) \cup {[k EXCEPT !.target = t]}
      BY <3>1, <3>2, Retargeted DEF lifeVars
    <3>3. CASE UNCHANGED tasks
      BY <3>1, <3>3, QuietStep DEF lifeVars, BInv, WindowTimed, BlankBefore
    <3> QED
      BY <2>4, <3>2, <3>3 DEF ChooseVoteFails
  <2> QED
    BY <2>1, <2>2, <2>3, <2>4
<1>3. CASE Players
  BY <1>3, PlayerVotes DEF Players
<1>4. CASE Abort
  <2>1. co = "appendPrompt" => timer = "none" 
    BY DEF BInv, IInv, OneThread
  <2> QED
    BY <1>4, QuietStep DEF Abort, BInv, WindowTimed, BlankBefore
<1>5. CASE UNCHANGED vars
  BY <1>5, QuietStep DEF vars, lifeVars, BInv, WindowTimed, BlankBefore
<1> QED
  BY <1>1, <1>2, <1>3, <1>4, <1>5 DEF Next

(* The inductive invariant of the ballots: one task for the round that is    *)
(* open, whose bloc votes for its target, whatever older tasks still do      *)
(* (AgentRunner.ts runBlocVote, Game.ts castVote).                           *)
THEOREM BallotInvariance == Spec => []BInv
<1>1. Init => BInv
  BY InitBInv
<1>2. BInv /\ IInv' /\ [Next]_vars => BInv'
  BY NextKeeps
<1>3. Spec => []IInv
  BY Invariance
<1> QED
  BY <1>1, <1>2, <1>3, PTL DEF Spec

(* The AI seats vote as one, even while vote tasks of earlier rounds are     *)
(* still casting (runBlocVote is never awaited; castVote refuses by round).  *)
THEOREM BlocStaysTogether == Spec => []BlocVotesTogether
<1>1. BInv => BlocVotesTogether
  BY DEF BInv
<1> QED
  BY <1>1, BallotInvariance, PTL

(* A window with a vote in it ends in an elimination, and only seats that    *)
(* were voted for go (tallyVotes and castVote together).                     *)
THEOREM VotesCount == Spec => EveryVoteCounts
<1> DEFINE Counts == phase = "VOTE_WINDOW" /\ phase' \in {"ROUND_PROMPT", "SETTLEMENT"} =>
       /\ (\E v \in Seats : votes[v] # NoVote) => alive' # alive
       /\ \A s \in alive \ alive' : \E v \in Seats : votes[v] = s
<1>1. ASSUME BInv, [Next]_vars PROVE Counts
  <2>1. SUFFICES ASSUME phase = "VOTE_WINDOW", phase' \in {"ROUND_PROMPT", "SETTLEMENT"}
                 PROVE  /\ (\E v \in Seats : votes[v] # NoVote) => alive' # alive
                        /\ \A s \in alive \ alive' : \E v \in Seats : votes[v] = s
    OBVIOUS
  <2>2. timer = "resolve" /\ co = "none" /\ TypeOK
    BY <1>1, <2>1 DEF BInv, IInv, WindowTimed
  <2>3. Resolve
    <3>1. ~VoteTasks /\ ~Players /\ ~Abort /\ ~UNCHANGED vars
      BY <2>1 DEF VoteTasks, TargetChosen, TaskCast, ChooseVoteFails, Players, HandleVote, Abort,
                  vars, lifeVars
    <3> QED
      BY <1>1, <2>1, <2>2, <3>1
      DEF Next, Lifecycle, GameRowWritten, SeatRowsWritten, PromptStored, OpenDiscussion, LockChat,
          GameFinalized, SettleAnswered, SettlementSaved, DemoFinalized
  <2>4. alive' = alive \ Eliminated(votes, alive)
    BY <2>3 DEF Resolve, ResolveRound
  <2>5. Eliminated(votes, alive) \subseteq alive
    BY DEF Eliminated
  <2>6. \A v \in Seats : votes[v] # NoVote => votes[v] \in alive
    BY <1>1, <2>1 DEF BInv, BallotSound
  <2> QED
    BY <2>2, <2>4, <2>5, <2>6, Tally
<1>2. Spec => [][Counts]_vars
  BY <1>1, BallotInvariance, PTL DEF Spec
<1> QED
  BY <1>2 DEF EveryVoteCounts
=============================================================================
