------------------------------- MODULE Viewer -------------------------------
(***************************************************************************)
(* One player's browser against a running room: the chat turns and phases   *)
(* of the server (game/Game.ts, ai/AgentRunner.ts), the one connection that *)
(* is seated in the room (ws/gateway.ts, web lib/ws/game-socket.ts), the    *)
(* reducer that folds the events (web lib/game/store.ts) and the ballot on  *)
(* the play screen (vote-view.tsx).                                         *)
(*                                                                          *)
(* The server never waits for the browser: events queue in inbox, ballots in *)
(* outbox, each in the order they were sent, and a connection that breaks    *)
(* loses a tail of both.  The gateway binds the seat to the connection that *)
(* joined and to no other, so the seat's connection breaks once, for good;   *)
(* the browser reconnects, to a socket that is nobody's.                     *)
(*                                                                          *)
(* Of the room there is what a browser can see; module Game has the rest,    *)
(* and the ballots of the others are an arbitrary set of seats voted out.    *)
(* abort() sends nothing and has no caller, and is left out.  So are the     *)
(* lines of humans, which handleChatMessage posts at once and only in a       *)
(* discussion, set_typing, which the web client never sends, and the system's *)
(* prompts, texts, deadlines and the pot.                                    *)
(* Definitions named X_Word are mutated forms of X (see PROJECT.json).       *)
(***************************************************************************)
EXTENDS Integers, Sequences, FiniteSets

CONSTANTS AISeats, HumanSeats,
          Me,          \* the human this browser belongs to
          Waves,       \* chat turns of an AI seat in a round
          MaxRounds,   \* MAX_ROUNDS
          MaxLag,      \* bound: the room's clock waits while more events queue
          MaxCasts,    \* bound: ballots of the browser without a receipt yet
          NoVote

Seats == AISeats \cup HumanSeats
Rounds == 1..MaxRounds

ASSUME ViewerAssumption ==
  /\ AISeats \cap HumanSeats = {}
  /\ Me \in HumanSeats
  /\ MaxRounds \in Nat \ {0} /\ MaxLag \in Nat /\ MaxCasts \in Nat
  /\ NoVote \notin Seats

VARIABLES
  phase, round, alive,   \* the room's
  turns,      \* chat turns in flight: seat, wave, their round, where they are
  said,       \* what AI seats have said: seat, wave, round of the turn
  counted,    \* the vote the room holds for Me, round by round
  wire,       \* the seated connection: whole or cut
  inbox,      \* events sent on it that the browser has not handled
  outbox,     \* ballots sent on it that the room has not handled
  ws,         \* the browser's socket: seated, none, opening, or fresh
  retry,      \* reconnectTimer
  view        \* the store of the browser

room == <<phase, round, alive, said>>
link == <<wire, outbox, ws, retry>>
vars == <<room, turns, counted, link, inbox, view>>

Lines == [seat : AISeats, wave : Waves, round : Rounds]
Turns == [seat : AISeats, wave : Waves, round : Rounds,
          at : {"waiting", "generating", "thinking", "typing"}]
Ballots == [round : Rounds, target : Seats]
-----------------------------------------------------------------------------
(* The reducer, one operator for each kind of event.                         *)

Fresh == [phase |-> "LOBBY_FORMING", round |-> 0, alive |-> {}, typing |-> {},
          targets |-> {}, myVote |-> NoVote, hasVoted |-> FALSE,
          status |-> "alive", connected |-> TRUE, messages |-> {}]

GameStarted(v, e) ==
  [v EXCEPT !.alive = Seats, !.status = "alive", !.phase = "ROUND_PROMPT", !.round = 0]

RoundStarted_KeepsBallot(v, e) ==
  [v EXCEPT !.round = e.round, !.phase = "ROUND_PROMPT", !.targets = {}, !.typing = {}]
RoundStarted(v, e) ==
  [v EXCEPT !.round = e.round, !.phase = "ROUND_PROMPT", !.targets = {}, !.typing = {},
            !.myVote = NoVote, !.hasVoted = FALSE]

PhaseChanged(v, e) ==
  [v EXCEPT !.round = e.round, !.phase = e.phase, !.typing = {}]

(* A line, once however often it comes (msgId), and its author's mark off. *)
ChatMessage(v, e) ==
  [v EXCEPT !.messages = @ \cup e.lines, !.typing = @ \ {e.seat}]

Typing(v, e) ==
  [v EXCEPT !.typing = IF e.on THEN @ \cup e.seats ELSE @ \ e.seats]

VoteOpen(v, e) ==
  [v EXCEPT !.phase = "VOTE_WINDOW", !.round = e.round, !.targets = e.targets]

VoteAck_AnyAnswer(v, e) == [v EXCEPT !.hasVoted = TRUE]
VoteAck(v, e) == [v EXCEPT !.hasVoted = @ \/ e.accepted]

RoundResolved(v, e) ==
  [v EXCEPT !.phase = "RESOLVE", !.round = e.round, !.typing = {},
            !.alive = @ \ e.out, !.status = IF Me \in e.out THEN "spectator" ELSE @]

YouEliminated(v, e) == [v EXCEPT !.status = "spectator", !.typing = {}]
Settled(v, e) == [v EXCEPT !.phase = "SETTLEMENT", !.typing = {}]

(* applyServerEvent.  It does not look at seq. *)
Fold(v, e) ==
  CASE e.t = "game_started"   -> GameStarted(v, e)
    [] e.t = "round_started"  -> RoundStarted(v, e)
    [] e.t = "phase_changed"  -> PhaseChanged(v, e)
    [] e.t = "chat_message"   -> ChatMessage(v, e)
    [] e.t = "typing"         -> Typing(v, e)
    [] e.t = "vote_open"      -> VoteOpen(v, e)
    [] e.t = "vote_ack"       -> VoteAck(v, e)
    [] e.t = "round_resolved" -> RoundResolved(v, e)
    [] e.t = "you_eliminated" -> YouEliminated(v, e)
    [] e.t = "settlement"     -> Settled(v, e)
-----------------------------------------------------------------------------
(* The room.                                                                 *)

(* broadcast and toSeat: events go to the seated connection as long as the   *)
(* room is in the gateway's table, whether or not anybody is still there.    *)
Emit_ToTheLiving(events) ==
  inbox' = IF wire = "whole" /\ phase # "COMPLETE" /\ Me \in alive
           THEN inbox \o events ELSE inbox
Emit(events) ==
  inbox' = IF wire = "whole" /\ phase # "COMPLETE" THEN inbox \o events ELSE inbox

(* start() has just broadcast: the browser knows of nothing yet. *)
Init ==
  /\ phase = "ROUND_PROMPT" /\ round = 1 /\ alive = Seats
  /\ turns = {} /\ said = {}
  /\ counted = [r \in Rounds |-> NoVote]
  /\ wire = "whole" /\ ws = "seated" /\ retry = "none"
  /\ inbox = <<[t |-> "game_started"], [t |-> "round_started", round |-> 1]>>
  /\ outbox = <<>>
  /\ view = Fresh

(* openDiscussion, which starts the chat turns. *)
OpenDiscussion ==
  /\ phase = "ROUND_PROMPT"
  /\ phase' = "ROUND_DISCUSSION"
  /\ turns' = turns \cup [seat : AISeats \cap alive, wave : Waves,
                           round : {round}, at : {"waiting"}]
  /\ Emit(<<[t |-> "phase_changed", round |-> round, phase |-> "ROUND_DISCUSSION"]>>)
  /\ UNCHANGED <<round, alive, said, counted, link, view>>

(* lockChat and openVote: a typing mark off for every seat, the lock, and    *)
(* the ballot with the living.                                               *)
Eligible == alive

LockChat ==
  /\ phase = "ROUND_DISCUSSION"
  /\ phase' = "VOTE_WINDOW"
  /\ Emit(<<[t |-> "typing", seats |-> Seats, on |-> FALSE],
            [t |-> "phase_changed", round |-> round, phase |-> "CHAT_LOCKED"],
            [t |-> "vote_open", round |-> round, targets |-> Eligible]>>)
  /\ UNCHANGED <<round, alive, said, turns, counted, link, view>>

RoundsLeft_OneMore == round <= MaxRounds
RoundsLeft == round < MaxRounds

(* resolve: the eliminated are told, everybody is told, and in the same      *)
(* breath the next round is announced, unless the game is over.              *)
Resolve ==
  /\ phase = "VOTE_WINDOW"
  /\ \E out \in SUBSET alive, over \in BOOLEAN :
       /\ counted[round] # NoVote => out # {}
       /\ over \/ RoundsLeft
       /\ alive' = alive \ out
       /\ phase' = IF over THEN "SETTLEMENT" ELSE "ROUND_PROMPT"
       /\ round' = IF over THEN round ELSE round + 1
       /\ Emit((IF Me \in out THEN <<[t |-> "you_eliminated"]>> ELSE <<>>)
               \o <<[t |-> "round_resolved", round |-> round, out |-> out]>>
               \o (IF over THEN <<>> ELSE <<[t |-> "round_started", round |-> round + 1]>>))
  /\ UNCHANGED <<said, turns, counted, link, view>>

(* complete or completeDemo ends: the reveal, and the gateway forgets the    *)
(* room.                                                                     *)
Complete ==
  /\ phase = "SETTLEMENT"
  /\ phase' = "COMPLETE"
  /\ Emit(<<[t |-> "settlement"]>>)
  /\ UNCHANGED <<round, alive, said, turns, counted, link, view>>

(* castVote on a ballot of this browser.  One that survived the cut still    *)
(* counts, but its receipt is lost.                                          *)
Valid(b) ==
  /\ phase = "VOTE_WINDOW" /\ b.round = round
  /\ Me \in alive /\ b.target \in alive /\ b.target # Me
  /\ counted[round] = NoVote

CastArrives ==
  /\ outbox # <<>>
  /\ outbox' = Tail(outbox)
  /\ counted' = IF Valid(Head(outbox))
                THEN [counted EXCEPT ![round] = Head(outbox).target] ELSE counted
  /\ Emit(<<[t |-> "vote_ack", accepted |-> Valid(Head(outbox))]>>)
  /\ UNCHANGED <<room, turns, wire, ws, retry, view>>
-----------------------------------------------------------------------------
(* Chat turns (runChatTurn).                                                 *)

IsDiscussionOpen_AnyPhase(r) == round = r
IsDiscussionOpen_AnyRound(r) == phase = "ROUND_DISCUSSION"
IsDiscussionOpen(r) == phase = "ROUND_DISCUSSION" /\ round = r

Over(t) == turns' = turns \ {t}
Moves(t, to) == turns' = (turns \ {t}) \cup {[t EXCEPT !.at = to]}

(* The start delay is over. *)
Awake(t) ==
  /\ t.at = "waiting"
  /\ IF IsDiscussionOpen(t.round) THEN Moves(t, "generating") ELSE Over(t)
  /\ UNCHANGED <<room, counted, link, inbox, view>>

(* The model answers, perhaps with nothing to say (or see GenerateFails). *)
Generated(t) ==
  /\ t.at = "generating"
  /\ Moves(t, "thinking") \/ Over(t)
  /\ UNCHANGED <<room, counted, link, inbox, view>>

(* setTyping: on for the living only, off for everyone. *)
Mark(s, on) ==
  IF on => s \in alive THEN <<[t |-> "typing", seats |-> {s}, on |-> on]>> ELSE <<>>

ShowTyping(t) ==
  /\ t.at = "thinking"
  /\ \/ /\ IsDiscussionOpen(t.round)
        /\ Moves(t, "typing")
        /\ Emit(Mark(t.seat, TRUE))
     \/ /\ ~IsDiscussionOpen(t.round)
        /\ Over(t)
        /\ UNCHANGED inbox
  /\ UNCHANGED <<room, counted, link, view>>

(* runChatTurn and postAiMessage both look again. *)
MayPost(t) == IsDiscussionOpen(t.round) /\ t.seat \in alive

(* The mark goes off whatever happened meanwhile.  The line is posted if it   *)
(* may be, unless the filters leave nothing of it.                           *)
Finish(t) ==
  /\ t.at = "typing"
  /\ Over(t)
  /\ \E lines \in SUBSET {[seat |-> t.seat, wave |-> t.wave, round |-> t.round]} :
       /\ lines # {} => MayPost(t)
       /\ said' = said \cup lines
       /\ Emit(Mark(t.seat, FALSE) \o
               (IF lines = {} THEN <<>>
                ELSE <<[t |-> "chat_message", seat |-> t.seat, lines |-> lines]>>))
  /\ UNCHANGED <<phase, round, alive, counted, link, view>>
-----------------------------------------------------------------------------
(* The browser.                                                              *)

(* A frame arrives and is folded. *)
Deliver ==
  /\ ws = "seated" /\ inbox # <<>>
  /\ view' = Fold(view, Head(inbox))
  /\ inbox' = Tail(inbox)
  /\ UNCHANGED <<room, turns, counted, link>>

(* uiPhaseFor: a spectator has no ballot, and one that is in is closed.      *)
BallotShown_Spectators == view.phase = "VOTE_WINDOW" /\ ~view.hasVoted
BallotShown ==
  view.phase = "VOTE_WINDOW" /\ view.status = "alive" /\ ~view.hasVoted

(* LOCK VOTE.  It remembers the target and sends the ballot; the button      *)
(* stays until the receipt comes, whether or not there is a connection.  A   *)
(* send over a socket that is not the seated one reaches no room.            *)
IsAck(e) == e.t = "vote_ack"

LockVote(t) ==
  /\ BallotShown
  /\ t \in view.targets \ {Me}
  /\ Len(outbox) + Cardinality({i \in DOMAIN inbox : IsAck(inbox[i])}) < MaxCasts
  /\ view' = [view EXCEPT !.myVote = t]
  /\ outbox' = IF ws = "seated" /\ wire = "whole"
               THEN Append(outbox, [round |-> view.round, target |-> t]) ELSE outbox
  /\ UNCHANGED <<room, turns, counted, wire, ws, retry, inbox>>

(* The seated connection breaks: a network, a proxy, a missed pong, or the   *)
(* watchdog after 45 quiet seconds.  What had arrived by then is handled;    *)
(* no line or mark of an AI seat can follow, and the model leaves the turns  *)
(* aside from here on, while the room's clock runs on.                       *)
Cut ==
  /\ wire = "whole"
  /\ wire' = "cut"
  /\ \E n \in 0..Len(inbox) : inbox' = SubSeq(inbox, 1, n)
  /\ \E n \in 0..Len(outbox) : outbox' = SubSeq(outbox, 1, n)
  /\ turns' = {}
  /\ UNCHANGED <<room, counted, ws, retry, view>>

(* onDown, the handler of close: a retry is scheduled unless one is pending. *)
OnDown ==
  /\ view' = [view EXCEPT !.connected = FALSE]
  /\ ws' = "none"
  /\ retry' = IF retry = "none" THEN "armed" ELSE retry
  /\ UNCHANGED <<room, turns, counted, wire, inbox, outbox>>

(* The browser notices, by a close event or by its watchdog. *)
Notice == ws = "seated" /\ wire = "cut" /\ inbox = <<>> /\ OnDown
OpenFails == ws = "opening" /\ OnDown
LostAgain == ws = "fresh" /\ OnDown

RetryDone_Kept == "spent"
RetryDone == "none"

(* The retry fires: its handle is cleared and a socket is opened. *)
Reopen ==
  /\ retry = "armed"
  /\ retry' = RetryDone
  /\ ws' = "opening"
  /\ UNCHANGED <<room, turns, counted, wire, inbox, outbox, view>>

(* The socket opens, for the gateway a new connection without a seat. *)
Opened ==
  /\ ws = "opening"
  /\ ws' = "fresh"
  /\ view' = [view EXCEPT !.connected = TRUE]
  /\ UNCHANGED <<room, turns, counted, wire, retry, inbox, outbox>>
(* generateMessage rejects.  The turn's promise is nobody's, and Node ends   *)
(* the process on the unhandled rejection.  Of that the browser sees what it *)
(* sees of a cut, and nobody sees the room, which the model lets run on.     *)
GenerateFails(t) == t.at = "generating" /\ Cut
-----------------------------------------------------------------------------
Clock == Len(inbox) <= MaxLag /\ (OpenDiscussion \/ LockChat \/ Resolve \/ Complete)
Turn(t) == Awake(t) \/ Generated(t) \/ ShowTyping(t) \/ Finish(t)
Browser == Deliver \/ Notice \/ Reopen

Next ==
  \/ Clock \/ CastArrives
  \/ \E t \in turns : Turn(t) \/ GenerateFails(t)
  \/ Browser \/ Opened \/ OpenFails \/ LostAgain \/ Cut
  \/ \E t \in Seats : LockVote(t)

(* Timers fire on both sides, and what has arrived is handled.  Of the       *)
(* network: a server that is tried for ever answers some day.                *)
Spec ==
  /\ Init /\ [][Next]_vars
  /\ WF_vars(Clock) /\ WF_vars(Deliver) /\ WF_vars(Notice) /\ WF_vars(Reopen)
  /\ SF_vars(Opened)
-----------------------------------------------------------------------------
Views ==
  [phase : {"LOBBY_FORMING", "ROUND_PROMPT", "ROUND_DISCUSSION", "CHAT_LOCKED",
            "VOTE_WINDOW", "RESOLVE", "SETTLEMENT"},
   round : 0..MaxRounds, alive : SUBSET Seats, typing : SUBSET Seats,
   targets : SUBSET Seats, myVote : Seats \cup {NoVote}, hasVoted : BOOLEAN,
   status : {"alive", "spectator"}, connected : BOOLEAN, messages : SUBSET Lines]

TypeOK ==
  /\ phase \in {"ROUND_PROMPT", "ROUND_DISCUSSION", "VOTE_WINDOW", "SETTLEMENT", "COMPLETE"}
  /\ round \in Rounds /\ alive \subseteq Seats
  /\ turns \subseteq Turns /\ said \subseteq Lines
  /\ counted \in [Rounds -> Seats \cup {NoVote}]
  /\ wire \in {"whole", "cut"} /\ ws \in {"seated", "none", "opening", "fresh"}
  /\ retry \in {"none", "armed"}
  /\ outbox \in Seq(Ballots) /\ Len(outbox) <= MaxCasts
  /\ view \in Views

(* clearAllTyping: an AI turn that is still in flight "cannot leak past      *)
(* CHAT_LOCKED".  Whatever the browser shows, it shows an AI seat typing     *)
(* only in a discussion, and only one that is alive there.                   *)
AITypingEndsAtLock ==
  /\ view.phase # "ROUND_DISCUSSION" => view.typing \cap AISeats = {}
  /\ view.typing \subseteq view.alive

(* A line that took longer than its round is dropped: every line the browser *)
(* shows came in the discussion it belongs to, from a seat alive in it.      *)
SpeaksInItsTurn ==
  [][\A l \in view'.messages \ view.messages :
       view.phase = "ROUND_DISCUSSION" /\ l.round = view.round /\ l.seat \in view.alive]_vars

(* "Vote locked.  Your ballot is in": the browser says so only when the room *)
(* holds a vote of this seat for the round on the screen.  A receipt names   *)
(* no target and the reducer does not look at its round; the order of the    *)
(* events alone keeps a receipt in its round.                                *)
BallotReceipt ==
  view.hasVoted => view.round \in Rounds /\ counted[view.round] # NoVote

(* What the screen calls the room's phase when every event has arrived. *)
Shown == IF phase = "SETTLEMENT" THEN "RESOLVE"
         ELSE IF phase = "COMPLETE" THEN "SETTLEMENT" ELSE phase

(* A browser that has handled all its events shows the room as it is: its    *)
(* phase and round, who is alive, what was said, who may be voted for and    *)
(* whether this ballot is in.  The store is never told the state, only the   *)
(* changes, and nothing sends it again.                                      *)
CaughtUp ==
  wire = "whole" /\ inbox = <<>> =>
    /\ view.phase = Shown /\ view.round = round
    /\ view.alive = alive /\ view.messages = said
    /\ view.status = "alive" <=> Me \in alive
    /\ phase = "VOTE_WINDOW" => view.targets = alive
    /\ view.hasVoted <=> counted[round] # NoVote

(* A ballot of this browser that reaches the room while the window of its    *)
(* round is open is in, or one before it is: it is never refused for what it *)
(* says, only for being late or second.                                      *)
VotesInTimeCount ==
  [][CastArrives /\ phase = "VOTE_WINDOW" /\ Head(outbox).round = round
       => counted'[round] # NoVote]_vars

(* Whoever stays connected sees the reveal. *)
SeesTheReveal == <>(view.phase = "SETTLEMENT" \/ wire = "cut")

(* A browser whose connection breaks is back on a live socket, again and     *)
(* again (scheduleReconnect has no last attempt), even after a connection    *)
(* that died silently.                                                       *)
AlwaysComesBack == wire = "cut" ~> ws = "fresh"

(* store.ts of myVote: "It locks on first cast (`hasVoted`) and is never     *)
(* overwritten".  The vote the browser holds as locked is the one the room   *)
(* counts.                                                                   *)
LockedVoteIsCounted ==
  view.hasVoted => view.myVote = counted[view.round]
=============================================================================
