-------------------------------- MODULE Game --------------------------------
(***************************************************************************)
(* One game room: game/Game.ts with the vote tasks of ai/AgentRunner.ts.    *)
(*                                                                          *)
(* The room is driven by three kinds of activity that interleave at every   *)
(* await of the code:                                                       *)
(*   - the lifecycle: a chain of timer callbacks and the coroutines they    *)
(*     start (start, beginRound, resolve, complete, completeDemo).  "co" is *)
(*     the await the lifecycle coroutine is suspended at, "timer" the       *)
(*     single phaseTimer;                                                   *)
(*   - the vote tasks: each openVote starts one (runBlocVote, or            *)
(*     runIndependentVotes in the demo) and nobody waits for it, so a slow  *)
(*     one outlives its vote window;                                        *)
(*   - the players' cast_vote messages.                                     *)
(* A definition whose name ends in _Word is a mutated form of the one that    *)
(* follows it, as a plausible mistake in the code would have it; no spec      *)
(* uses it (PROJECT.json pairs each with the property that notices it).       *)
(*                                                                          *)
(* CHAT_LOCKED and RESOLVE are entered and left inside one synchronous      *)
(* callback, so no other activity ever sees them; they are not states here. *)
(* Chat and typing do not touch this state: module Viewer has them.         *)
(***************************************************************************)
EXTENDS Resolution

CONSTANTS SeatCount,     \* number of seats; seatOrder is 1..SeatCount
          AISeats,       \* seats with isAI
          Funded,        \* human seats with a funderAddress
          BuyIn,         \* buyInWei
          PenaltyPct,    \* config.MISVOTE_PENALTY_PCT
          MaxRounds,     \* MAX_ROUNDS
          Modes,         \* the values deps.demo may have
          AbortPhases,   \* phases in which some caller uses abort()
          NoSettlement   \* complete() has not built a settlement

Seats == 1..SeatCount
Humans == Seats \ AISeats
StartPool == Cardinality(Humans) * BuyIn

(* What complete() hands to the settle hook, with the hash it got back. *)
Settlements ==
  [outcome : Outcomes, survivors : SUBSET Funded, each : Nat, house : Nat,
   tx : {"none", "submitted"}]

ASSUME GameAssumption ==
  /\ SeatCount \in Nat
  /\ AISeats \subseteq Seats
  /\ Funded \subseteq Humans
  /\ BuyIn \in Nat
  /\ PenaltyPct \in 0..100
  /\ MaxRounds \in Nat \ {0}
  /\ Modes \subseteq BOOLEAN
  /\ NoVote \notin Seats
  /\ NoSettlement \notin Settlements

Phases == {"LOBBY_FORMING", "ROUND_PROMPT", "ROUND_DISCUSSION", "VOTE_WINDOW",
           "SETTLEMENT", "COMPLETE", "ABORTED"}
Callbacks == {"none", "openDiscussion", "lockChat", "resolve"}
Awaits == {"none", "createGame", "addSeats", "appendPrompt",
           "finalizeGame", "settle", "saveSettlement", "finalizeDemo"}

VARIABLES
  demo,         \* deps.demo: one round, independent AI votes, nothing settled
  up,           \* the server process runs
  phase, round, \* state.phase, state.round
  alive,        \* the seats whose alive flag is set
  votes,        \* state.votes.get(state.round); older ballots are never read
  pool, house,  \* state.pool, state.houseWei
  outcome,      \* state.outcome ("none" for null)
  timer,        \* the callback of phaseTimer
  co,           \* the await the lifecycle coroutine is suspended at
  tasks,        \* the AI vote tasks still running
  built,        \* the settlement built by complete()
  completions   \* how many times deps.onComplete was called

lifeVars == <<demo, phase, round, alive, votes, pool, house, outcome, timer,
              co, built, completions>>
vars == <<up, lifeVars, tasks>>

NoVotes == [s \in Seats |-> NoVote]
First(S) == CHOOSE s \in S : \A t \in S : s <= t

Init ==
  /\ demo \in Modes
  /\ up = TRUE
  /\ phase = "LOBBY_FORMING" /\ round = 0
  /\ alive = Seats
  /\ votes = NoVotes
  /\ pool = StartPool /\ house = 0
  /\ outcome = "none"
  /\ timer = "none"
  /\ co = "createGame"          \* start() is called once, by the gateway
  /\ tasks = {}
  /\ built = NoSettlement
  /\ completions = 0
-----------------------------------------------------------------------------
(* Lifecycle.                                                                *)

(* start(): the game row is written, then one row per seat. *)
GameRowWritten ==
  /\ co = "createGame"
  /\ co' = "addSeats"
  /\ UNCHANGED <<demo, up, phase, round, alive, votes, pool, house, outcome,
                 timer, tasks, built, completions>>

(* The synchronous part of beginRound(r), up to the await of appendMessage. *)
BeginRound(r) ==
  /\ round' = r
  /\ votes' = NoVotes
  /\ phase' = "ROUND_PROMPT"
  /\ co' = "appendPrompt"

(* The last addSeat returns: start() broadcasts and calls beginRound(1). *)
SeatRowsWritten ==
  /\ co = "addSeats"
  /\ BeginRound(1)
  /\ UNCHANGED <<demo, up, alive, pool, house, outcome, timer, tasks, built,
                 completions>>

PromptStored_NoTimer ==
  /\ co = "appendPrompt"
  /\ co' = "none"
  /\ UNCHANGED <<demo, up, phase, round, alive, votes, pool, house, outcome,
                 timer, tasks, built, completions>>

(* The rest of beginRound: scheduleAfter(PROMPT_MS, openDiscussion).  It     *)
(* looks neither at the phase nor at anything that happened meanwhile.       *)
PromptStored ==
  /\ co = "appendPrompt"
  /\ co' = "none"
  /\ timer' = "openDiscussion"
  /\ UNCHANGED <<demo, up, phase, round, alive, votes, pool, house, outcome,
                 tasks, built, completions>>

OpenDiscussion ==
  /\ timer = "openDiscussion"
  /\ phase' = "ROUND_DISCUSSION"
  /\ timer' = "lockChat"
  /\ UNCHANGED <<demo, up, round, alive, votes, pool, house, outcome, co,
                 tasks, built, completions>>

(* A vote task as openVote starts it: it works on the roster of this moment. *)
(* "voters" are the AI seats that have not cast yet, in seat order, "pool"   *)
(* the seats they may pick from (never themselves); target is NoVote while   *)
(* chooseVote is awaited.  With no AI or nobody to vote for it returns at    *)
(* once.                                                                     *)
VoteTask(r) ==
  [round |-> r, voters |-> alive \cap AISeats,
   pool |-> IF demo THEN alive ELSE alive \ AISeats, target |-> NoVote]
Candidates(k) == k.pool \ {First(k.voters)}
HasWork(k) == k.voters # {} /\ Candidates(k) # {}

(* lockChat and, in the same callback, openVote. *)
LockChat ==
  /\ timer = "lockChat"
  /\ phase' = "VOTE_WINDOW"
  /\ timer' = "resolve"
  /\ tasks' = tasks \cup {k \in {VoteTask(round)} : HasWork(k)}
  /\ UNCHANGED <<demo, up, round, alive, votes, pool, house, outcome, co,
                 built, completions>>

(* The room may play one more round after this one. *)
RoundsLeft_OneMore == round <= MaxRounds
RoundsLeft == round < MaxRounds

(* A phaseTimer that fires is spent: it is a timeout, not an interval. *)
TimerSpent_Interval == timer' = timer
TimerSpent == timer' = "none"

(* The synchronous part of complete(verdict): the settlement is built from   *)
(* the seats and the pool as resolve leaves them.                            *)
Complete(verdict, left, rest, cut) ==
  LET s == BuildSettlement(verdict, left \cap Funded, rest, cut)
  IN  /\ outcome' = verdict
      /\ phase' = "SETTLEMENT"
      /\ co' = "finalizeGame"
      /\ built' = [outcome |-> verdict, survivors |-> s.survivors,
                   each |-> s.each, house |-> s.house, tx |-> "none"]
      /\ UNCHANGED <<round, votes>>

(* The synchronous part of completeDemo(). *)
CompleteDemo ==
  /\ phase' = "SETTLEMENT"
  /\ co' = "finalizeDemo"
  /\ UNCHANGED <<round, votes, outcome, built>>

(* resolve(round): tally, win check, penalty, then the next round or the end.*)
(* When the rounds run out the AI win unless none is left.                   *)
Resolve ==
  /\ timer = "resolve"
  /\ phase \notin {"COMPLETE", "ABORTED"}
  /\ TimerSpent
  /\ \E r \in {ResolveRound(votes, alive, AISeats, pool, house, PenaltyPct)} :
       /\ alive' = r.left
       /\ pool' = r.pool
       /\ house' = r.house
       /\ \/ /\ demo
             /\ CompleteDemo
          \/ /\ ~demo /\ r.win # "none"
             /\ Complete(r.win, r.left, r.pool, r.house)
          \/ /\ ~demo /\ r.win = "none" /\ ~RoundsLeft
             /\ Complete(IF r.left \cap AISeats = {} THEN "HUMAN_WIN" ELSE "AI_WIN",
                         r.left, r.pool, r.house)
          \/ /\ ~demo /\ r.win = "none" /\ RoundsLeft
             /\ BeginRound(round + 1)
             /\ UNCHANGED <<outcome, built>>
  /\ UNCHANGED <<demo, up, tasks, completions>>

(* complete(), await by await.  finalizeGame wrote the result row. *)
GameFinalized ==
  /\ co = "finalizeGame"
  /\ co' = "settle"
  /\ UNCHANGED <<demo, up, phase, round, alive, votes, pool, house, outcome,
                 timer, tasks, built, completions>>

(* The settle hook answers with a transaction hash, or throws (the error is  *)
(* caught and logged).  Without a hook the hash stays null as well.          *)
SettleAnswered(ok) ==
  /\ co = "settle"
  /\ co' = "saveSettlement"
  /\ built' = [built EXCEPT !.tx = IF ok THEN "submitted" ELSE "none"]
  /\ UNCHANGED <<demo, up, phase, round, alive, votes, pool, house, outcome,
                 timer, tasks, completions>>

(* The settlement row is written: broadcast, COMPLETE, onComplete. *)
SettlementSaved ==
  /\ co = "saveSettlement"
  /\ co' = "none"
  /\ phase' = "COMPLETE"
  /\ completions' = completions + 1
  /\ UNCHANGED <<demo, up, round, alive, votes, pool, house, outcome, timer,
                 tasks, built>>

DemoFinalized_Nominal ==
  /\ co = "finalizeDemo"
  /\ co' = "none"
  /\ phase' = "COMPLETE"
  /\ outcome' = IF AISeats # {} THEN "AI_WIN" ELSE "HUMAN_WIN"
  /\ completions' = completions + 1
  /\ UNCHANGED <<demo, up, round, alive, votes, pool, house, timer, tasks,
                 built>>

(* The rest of completeDemo: a failed finalizeGame is swallowed, the nominal *)
(* outcome is stored only now.                                               *)
DemoFinalized ==
  /\ co = "finalizeDemo"
  /\ co' = "none"
  /\ phase' = "COMPLETE"
  /\ outcome' = IF alive \cap AISeats # {} THEN "AI_WIN" ELSE "HUMAN_WIN"
  /\ completions' = completions + 1
  /\ UNCHANGED <<demo, up, round, alive, votes, pool, house, timer, tasks,
                 built>>

(* abort(): cancels the timer and marks the game; a suspended coroutine is   *)
(* not told.                                                                 *)
Abort ==
  /\ phase \in AbortPhases
  /\ timer' = "none"
  /\ phase' = "ABORTED"
  /\ outcome' = "ABORTED"
  /\ UNCHANGED <<demo, up, round, alive, votes, pool, house, co, tasks, built,
                 completions>>
-----------------------------------------------------------------------------
(* Votes.                                                                    *)

MayCast_AnyRound(v, t, r) ==
  /\ phase = "VOTE_WINDOW"
  /\ v \in alive /\ t \in alive /\ v # t
  /\ votes[v] = NoVote
MayCast_Recast(v, t, r) ==
  /\ phase = "VOTE_WINDOW" /\ r = round
  /\ v \in alive /\ t \in alive /\ v # t

(* The guards of castVote, in its order. *)
MayCast(v, t, r) ==
  /\ phase = "VOTE_WINDOW" /\ r = round
  /\ v \in alive
  /\ t \in alive
  /\ v # t
  /\ votes[v] = NoVote
Cast(v, t, r) ==
  votes' = IF MayCast(v, t, r) THEN [votes EXCEPT ![v] = t] ELSE votes

(* cast_vote from a player's socket, routed with the seat of the connection. *)
(* The round and the target are whatever the client sent; a vote that is     *)
(* refused changes nothing.                                                  *)
HandleVote(v, t, r) ==
  /\ MayCast(v, t, r)
  /\ Cast(v, t, r)
  /\ UNCHANGED <<demo, up, phase, round, alive, pool, house, outcome, timer,
                 co, tasks, built, completions>>

(* chooseVote answers.  The bloc asks once and every AI seat follows the     *)
(* answer (BLOC_COHESION is 1.0); in the demo each AI seat asks for itself.  *)
TargetChosen(k, t) ==
  /\ k.target = NoVote
  /\ tasks' = (tasks \ {k}) \cup {[k EXCEPT !.target = t]}
  /\ UNCHANGED <<up, lifeVars>>

(* The stagger delay of the next AI seat is over: it casts, whatever phase   *)
(* the game has reached; castVote decides.                                   *)
TaskCast(k) ==
  LET v    == First(k.voters)
      next == [k EXCEPT !.voters = @ \ {v},
                        !.target = IF demo THEN NoVote ELSE @]
  IN  /\ k.target # NoVote
      /\ Cast(v, k.target, k.round)
      /\ tasks' = (tasks \ {k}) \cup {n \in {next} : HasWork(n)}
      /\ UNCHANGED <<demo, up, phase, round, alive, pool, house, outcome,
                     timer, co, built, completions>>

(* chooseVote rejects.  The demo catches it and falls back to the first      *)
(* candidate; the bloc task does not, its promise is nobody's, and Node ends *)
(* the process on the unhandled rejection.                                   *)
ChooseVoteFails(k) ==
  /\ k.target = NoVote
  /\ \/ /\ demo
        /\ \E t \in Candidates(k) :
             /\ \A u \in Candidates(k) : t <= u
             /\ tasks' = (tasks \ {k}) \cup {[k EXCEPT !.target = t]}
        /\ UNCHANGED up
     \/ /\ ~demo
        /\ up' = FALSE
        /\ UNCHANGED tasks
  /\ UNCHANGED lifeVars
-----------------------------------------------------------------------------
Lifecycle ==
  \/ GameRowWritten \/ SeatRowsWritten \/ PromptStored
  \/ OpenDiscussion \/ LockChat \/ Resolve
  \/ GameFinalized \/ (\E ok \in BOOLEAN : SettleAnswered(ok))
  \/ SettlementSaved \/ DemoFinalized

VoteTasks ==
  \E k \in tasks :
    \/ \E t \in Candidates(k) : TargetChosen(k, t)
    \/ TaskCast(k)
    \/ ChooseVoteFails(k)

Players ==
  \E v \in Humans, t \in Seats, r \in 1..MaxRounds : HandleVote(v, t, r)

Next ==
  /\ up
  /\ Lifecycle \/ VoteTasks \/ Players \/ Abort

(* Timers fire and awaited writes return; the settle hook answers or throws. *)
(* Nothing is assumed of the players and of the language model.              *)
Spec == Init /\ [][Next]_vars /\ WF_vars(up /\ Lifecycle)
-----------------------------------------------------------------------------
Tasks ==
  [round : 1..MaxRounds, voters : SUBSET AISeats, pool : SUBSET Seats,
   target : Seats \cup {NoVote}]

TypeOK ==
  /\ demo \in BOOLEAN
  /\ up \in BOOLEAN
  /\ phase \in Phases
  /\ round \in 0..MaxRounds
  /\ alive \in SUBSET Seats
  /\ votes \in [Seats -> Seats \cup {NoVote}]
  /\ pool \in Nat /\ house \in Nat
  /\ outcome \in Outcomes \cup {"none", "ABORTED"}
  /\ timer \in Callbacks
  /\ co \in Awaits
  /\ tasks \in SUBSET Tasks
  /\ built \in Settlements \cup {NoSettlement}
  /\ completions \in Nat
-----------------------------------------------------------------------------
(* Safety.                                                                   *)

(* The AI have caught up with the humans (of whoever is left). *)
Parity == Cardinality(alive \cap AISeats) >= Cardinality(alive \ AISeats)

Playing == phase \in {"ROUND_PROMPT", "ROUND_DISCUSSION", "VOTE_WINDOW"}

(* Not a wei is created or lost by the penalties: what left the pool is the  *)
(* house's (resolution.ts, and the header of settle.ts).                     *)
PoolConserved == pool + house = StartPool

(* At most one thread of control drives the room: while a coroutine is       *)
(* suspended no phase timer is armed, so no two rounds can run side by side  *)
(* (scheduleAfter keeps a single timer, and every callback chain re-arms it  *)
(* only at its end).                                                         *)
OneThread == co # "none" => timer = "none"

(* onComplete frees the room in the gateway: it runs at most once whatever   *)
(* interleaves, and a complete game has nothing left to run.                 *)
CompletesOnce ==
  /\ completions <= 1
  /\ phase = "COMPLETE" => completions = 1 /\ co = "none" /\ timer = "none"

(* The bloc stays a bloc: in every ballot the AI seats that have voted chose *)
(* one and the same human, even while vote tasks of earlier rounds are still *)
(* casting (castVote refuses them by their round).                           *)
BlocVotesTogether ==
  ~demo => \A v, w \in AISeats :
             votes[v] # NoVote /\ votes[w] # NoVote =>
               votes[v] = votes[w] /\ votes[v] \in Humans

(* Between rounds the table is undecided: humans outnumber the AI and an AI  *)
(* is left.  Only the first round may start from any standing, because the   *)
(* win check runs in resolve alone.                                          *)
UndecidedWhilePlaying ==
  Playing /\ round > 1 => alive \cap AISeats # {} /\ ~Parity

(* The settlement the server signs distributes exactly the pool it started   *)
(* from, pays only funders that survived, and its verdict is the one the     *)
(* standing calls for: no AI left, or AI at parity, or the rounds used up.   *)
(* The room's own outcome is the one that is signed, unless it was aborted.  *)
SettlementSound ==
  built # NoSettlement =>
    /\ ConservationHolds(built, StartPool)
    /\ built.survivors \subseteq alive \cap Funded
    /\ built.outcome = "HUMAN_WIN" <=> alive \cap AISeats = {}
    /\ built.outcome = "AI_WIN" => Parity \/ round = MaxRounds
    /\ outcome \in {built.outcome, "ABORTED"}

(* The demo asks for exactly one vote and its reveal agrees with the table:  *)
(* the humans are credited with a win exactly when no AI survived the round. *)
DemoVerdict ==
  demo /\ phase = "COMPLETE" =>
    /\ round = 1 /\ built = NoSettlement
    /\ outcome = "HUMAN_WIN" <=> alive \cap AISeats = {}

(* Secret ballots are locked on the first cast: no step of a client, of a    *)
(* vote task or of the lifecycle changes a vote within its round.            *)
VotesLocked ==
  [][\A v \in Seats :
       votes[v] # NoVote /\ round' = round => votes'[v] = votes[v]]_vars

(* Every vote counts: whenever a vote window with at least one vote in it    *)
(* ends, somebody goes, and only seats somebody voted for go.                *)
EveryVoteCounts ==
  [][phase = "VOTE_WINDOW" /\ phase' \in {"ROUND_PROMPT", "SETTLEMENT"} =>
       /\ (\E v \in Seats : votes[v] # NoVote) => alive' # alive
       /\ \A s \in alive \ alive' : \E v \in Seats : votes[v] = s]_vars

-----------------------------------------------------------------------------
(* Liveness: however the players behave and however slow the model is, the   *)
(* game comes to its reveal (unless somebody aborts it, or the process dies). *)
Completes == <>(phase \in {"COMPLETE", "ABORTED"} \/ ~up)

(* Refinement: seen from the table, the room is a Match, in either mode and   *)
(* whoever calls abort().  What decides it is the settlement that is built;  *)
(* in the demo it is the reveal, whose verdict is stored only at the end.    *)
Decided == completions > 0 \/ built # NoSettlement \/ co = "finalizeDemo"
Stage == IF completions > 0 THEN "over" ELSE IF Decided THEN "decided" ELSE "playing"
Verdict ==
  IF ~Decided THEN "none"
  ELSE IF ~demo THEN built.outcome
  ELSE IF phase = "COMPLETE" THEN outcome
  ELSE IF alive \cap AISeats # {} THEN "AI_WIN" ELSE "HUMAN_WIN"

M == INSTANCE Match WITH stage <- Stage, outcome <- Verdict
MatchSpec == M!MatchSpec
=============================================================================
