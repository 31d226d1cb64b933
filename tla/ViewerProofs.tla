---------------------------- MODULE ViewerProofs ----------------------------
(***************************************************************************)
(* Proofs about Viewer, for any table, any number of rounds and chat turns. *)
(*                                                                          *)
(* What the player sees depends on events the room emitted long ago, so no  *)
(* relation between the room and the store alone is inductive.  The proofs  *)
(* therefore speak of the film: the stores the browser will go through when *)
(* it handles what is still in the socket.  Every frame of it is one the    *)
(* player may see (Frame, InTurn), and on a link that is whole the last one *)
(* shows the room as it is now (Matches).  A step of the room adds a frame  *)
(* at the end, a delivery drops the first, and a cut keeps a beginning.     *)
(***************************************************************************)
EXTENDS Viewer, FiniteSetTheorems, SequenceTheorems, TLAPS

-----------------------------------------------------------------------------
(* The film: what the browser will show, event by event, as it handles what  *)
(* has been sent.                                                            *)

Events ==
  [t : {"game_started", "you_eliminated", "settlement"}]
  \cup [t : {"round_started"}, round : Rounds]
  \cup [t : {"phase_changed"}, round : Rounds,
        phase : {"ROUND_DISCUSSION", "CHAT_LOCKED"}]
  \cup [t : {"chat_message"}, seat : AISeats, lines : SUBSET Lines]
  \cup [t : {"typing"}, seats : SUBSET Seats, on : BOOLEAN]
  \cup [t : {"vote_open"}, round : Rounds, targets : SUBSET Seats]
  \cup [t : {"vote_ack"}, accepted : BOOLEAN]
  \cup [t : {"round_resolved"}, round : Rounds, out : SUBSET Seats]

(* What of the store the events make: the rest is the player's own. *)
Core(v) == [v EXCEPT !.myVote = NoVote, !.connected = TRUE]

Film(f, q, v) ==
  /\ f \in [0..Len(q) -> Views]
  /\ f[0] = Core(v)
  /\ \A i \in 1..Len(q) : f[i] = Fold(f[i-1], q[i])

(* The rounds are numbers, and 0 is before the first.                        *)
LEMMA RoundsInRange == Rounds \subseteq 0..MaxRounds /\ 0 \in 0..MaxRounds
  BY ViewerAssumption DEF Rounds

(* Every event the room sends leaves the store well formed.                  *)
LEMMA FoldTyped ==
  ASSUME NEW v \in Views, NEW e \in Events
  PROVE  Fold(v, e) \in Views
<1> USE RoundsInRange
<1>1. CASE e \in [t : {"game_started"}]
  BY <1>1 DEF Fold, GameStarted, Views
<1>2. CASE e \in [t : {"you_eliminated"}]
  BY <1>2 DEF Fold, YouEliminated, Views
<1>3. CASE e \in [t : {"settlement"}]
  BY <1>3 DEF Fold, Settled, Views
<1>4. CASE e \in [t : {"round_started"}, round : Rounds]
  BY <1>4 DEF Fold, RoundStarted, Views
<1>5. CASE e \in [t : {"phase_changed"}, round : Rounds,
                  phase : {"ROUND_DISCUSSION", "CHAT_LOCKED"}]
  BY <1>5 DEF Fold, PhaseChanged, Views
<1>6. CASE e \in [t : {"chat_message"}, seat : AISeats, lines : SUBSET Lines]
  BY <1>6 DEF Fold, ChatMessage, Views
<1>7. CASE e \in [t : {"typing"}, seats : SUBSET Seats, on : BOOLEAN]
  BY <1>7 DEF Fold, Typing, Views
<1>8. CASE e \in [t : {"vote_open"}, round : Rounds, targets : SUBSET Seats]
  BY <1>8 DEF Fold, VoteOpen, Views
<1>9. CASE e \in [t : {"vote_ack"}, accepted : BOOLEAN]
  BY <1>9 DEF Fold, VoteAck, Views
<1>10. CASE e \in [t : {"round_resolved"}, round : Rounds, out : SUBSET Seats]
  BY <1>10 DEF Fold, RoundResolved, Views
<1> QED
  BY <1>1, <1>2, <1>3, <1>4, <1>5, <1>6, <1>7, <1>8, <1>9, <1>10 DEF Events

(* No event reads what is the player's own in the store.                     *)
LEMMA FoldCore ==
  ASSUME NEW v \in Views, NEW e \in Events
  PROVE  Fold(Core(v), e) = Core(Fold(v, e))
<1>1. CASE e \in [t : {"game_started"}]
  BY <1>1 DEF Fold, GameStarted, Views, Core
<1>2. CASE e \in [t : {"you_eliminated"}]
  BY <1>2 DEF Fold, YouEliminated, Views, Core
<1>3. CASE e \in [t : {"settlement"}]
  BY <1>3 DEF Fold, Settled, Views, Core
<1>4. CASE e \in [t : {"round_started"}, round : Rounds]
  BY <1>4 DEF Fold, RoundStarted, Views, Core
<1>5. CASE e \in [t : {"phase_changed"}, round : Rounds,
                  phase : {"ROUND_DISCUSSION", "CHAT_LOCKED"}]
  BY <1>5 DEF Fold, PhaseChanged, Views, Core
<1>6. CASE e \in [t : {"chat_message"}, seat : AISeats, lines : SUBSET Lines]
  BY <1>6 DEF Fold, ChatMessage, Views, Core
<1>7. CASE e \in [t : {"typing"}, seats : SUBSET Seats, on : BOOLEAN]
  BY <1>7 DEF Fold, Typing, Views, Core
<1>8. CASE e \in [t : {"vote_open"}, round : Rounds, targets : SUBSET Seats]
  BY <1>8 DEF Fold, VoteOpen, Views, Core
<1>9. CASE e \in [t : {"vote_ack"}, accepted : BOOLEAN]
  BY <1>9 DEF Fold, VoteAck, Views, Core
<1>10. CASE e \in [t : {"round_resolved"}, round : Rounds, out : SUBSET Seats]
  BY <1>10 DEF Fold, RoundResolved, Views, Core
<1> QED
  BY <1>1, <1>2, <1>3, <1>4, <1>5, <1>6, <1>7, <1>8, <1>9, <1>10 DEF Events

(* A store without what is the player's own is a store.                      *)
LEMMA CoreTyped ==
  ASSUME NEW v \in Views
  PROVE  Core(v) \in Views
  BY DEF Core, Views

(* One more event makes the film one frame longer. *)
LEMMA FilmGrows ==
  ASSUME NEW q \in Seq(Events), NEW v, NEW f, Film(f, q, v), NEW e \in Events
  PROVE  \E g : /\ Film(g, Append(q, e), v)
                /\ \A i \in 0..Len(q) : g[i] = f[i]
                /\ g[Len(Append(q, e))] = Fold(f[Len(q)], e)
<1> DEFINE n == Len(q)
           p == Append(q, e)
           g == [i \in 0..(n + 1) |-> IF i <= n THEN f[i] ELSE Fold(f[n], e)]
<1>1. n \in Nat /\ Len(p) = n + 1 /\ p[n + 1] = e /\ \A i \in 1..n : p[i] = q[i]
  BY AppendProperties, LenProperties
<1>2. f[n] \in Views /\ \A i \in 0..n : f[i] \in Views
  BY <1>1 DEF Film
<1>3. Fold(f[n], e) \in Views
  BY <1>2, FoldTyped
<1> HIDE DEF p, n
<1>4. \A i \in 0..n : g[i] = f[i]
  BY <1>1
<1>5. g[n + 1] = Fold(f[n], e)
  BY <1>1
<1>6. g \in [0..Len(p) -> Views]
  BY <1>1, <1>2, <1>3
<1> HIDE DEF g
<1>7. g[0] = Core(v)
  BY <1>1, <1>4 DEF Film, n
<1>8. ASSUME NEW i \in 1..Len(p) PROVE g[i] = Fold(g[i-1], p[i])
  <2>1. CASE i = n + 1
    BY <2>1, <1>1, <1>4, <1>5
  <2>2. CASE i # n + 1
    <3>1. i \in 1..n /\ i \in 0..n /\ i - 1 \in 0..n
      BY <2>2, <1>1
    <3> QED
      BY <3>1, <1>1, <1>4 DEF Film, n
  <2> QED
    BY <2>1, <2>2
<1>9. Film(g, p, v)
  BY <1>6, <1>7, <1>8 DEF Film
<1> QED
  BY <1>9, <1>4, <1>5, <1>1 DEF p, n

(* Handling the first event drops the first frame. *)
LEMMA FilmRuns ==
  ASSUME NEW q \in Seq(Events), q # <<>>, NEW v \in Views, NEW f, Film(f, q, v)
  PROVE  \E g : /\ Film(g, Tail(q), Fold(v, Head(q)))
                /\ Len(Tail(q)) = Len(q) - 1
                /\ \A i \in 0..Len(Tail(q)) : g[i] = f[i + 1]
<1> DEFINE n == Len(q)
           p == Tail(q)
           g == [i \in 0..(n - 1) |-> f[i + 1]]
<1>1. /\ n \in Nat \ {0} /\ Len(p) = n - 1 /\ Head(q) = q[1] /\ q[1] \in Events
      /\ \A i \in 1..(n - 1) : p[i] = q[i + 1]
  BY HeadTailProperties, LenProperties, EmptySeq
<1> HIDE DEF p, n
<1>2. g \in [0..Len(p) -> Views]
  BY <1>1 DEF Film, n
<1>3. \A i \in 0..(n - 1) : g[i] = f[i + 1]
  BY <1>1
<1> HIDE DEF g
<1>4. g[0] = Core(Fold(v, Head(q)))
  <2>1. f[1] = Fold(f[0], q[1]) /\ f[0] = Core(v)
    BY <1>1 DEF Film, n
  <2> QED
    BY <2>1, <1>1, <1>3, FoldCore
<1>5. ASSUME NEW i \in 1..Len(p) PROVE g[i] = Fold(g[i-1], p[i])
  <2>1. i + 1 \in 1..n /\ i \in 0..(n-1) /\ i - 1 \in 0..(n-1) /\ (i - 1) + 1 = i /\ (i + 1) - 1 = i
    BY <1>1
  <2>2. f[i + 1] = Fold(f[i], q[i + 1])
    BY <2>1 DEF Film, n
  <2> QED
    BY <2>1, <2>2, <1>1, <1>3
<1>6. Film(g, p, Fold(v, Head(q)))
  BY <1>2, <1>4, <1>5 DEF Film
<1> QED
  BY <1>6, <1>3, <1>1 DEF p, n

(* A cut leaves a first part of it. *)
LEMMA FilmIsCut ==
  ASSUME NEW q \in Seq(Events), NEW v, NEW f, Film(f, q, v), NEW n \in 0..Len(q)
  PROVE  \E g : /\ Film(g, SubSeq(q, 1, n), v)
                /\ Len(SubSeq(q, 1, n)) = n
                /\ \A i \in 0..n : g[i] = f[i]
<1> DEFINE p == SubSeq(q, 1, n)
           g == [i \in 0..n |-> f[i]]
<1>0. Len(q) \in Nat /\ \A i \in 1..n : q[i] \in Events
  BY LenProperties, ElementOfSeq
<1>1. Len(p) = n /\ \A i \in 1..n : p[i] = q[i]
  BY <1>0, SubSeqProperties
<1> HIDE DEF p
<1>2. g \in [0..Len(p) -> Views] /\ g[0] = Core(v)
  BY <1>0, <1>1 DEF Film
<1>3. ASSUME NEW i \in 1..n PROVE g[i] = Fold(g[i-1], p[i])
  <2>1. i \in 1..Len(q) /\ i \in 0..n /\ i - 1 \in 0..n /\ p[i] = q[i]
    BY <1>0, <1>1
  <2> QED
    BY <2>1 DEF Film
<1>4. Film(g, p, v)
  <2> HIDE DEF g
  <2> QED
    BY <1>1, <1>2, <1>3 DEF Film
<1> QED
  BY <1>4, <1>1 DEF p
-----------------------------------------------------------------------------
(* What is true of every frame, whatever the room does meanwhile: marks are  *)
(* those of AI seats alive in a discussion, a receipt is one of the round on *)
(* the screen, and no ballot is open for a round before its window; while    *)
(* the window is open, the ballot on the screen of that round is the room's. *)
Frame(v) ==
  /\ v.phase # "ROUND_DISCUSSION" => v.typing = {}
  /\ v.typing \subseteq v.alive \cap AISeats
  /\ v.hasVoted => v.round \in Rounds /\ counted[v.round] # NoVote
  /\ v.round <= round
  /\ v.phase = "VOTE_WINDOW" => v.round \in Rounds
  /\ v.phase = "VOTE_WINDOW" /\ v.round = round =>
       /\ phase \notin {"ROUND_PROMPT", "ROUND_DISCUSSION"}
       /\ phase = "VOTE_WINDOW" =>
            v.targets = alive /\ (v.status = "alive" => Me \in alive)

(* The order of the phases in a round, as the screen shows them.             *)
Rank(p) ==
  CASE p = "LOBBY_FORMING" -> 0 [] p = "ROUND_PROMPT" -> 1 [] p = "ROUND_DISCUSSION" -> 2
    [] p = "CHAT_LOCKED" -> 3 [] p = "VOTE_WINDOW" -> 4 [] p = "RESOLVE" -> 5 [] OTHER -> 6

(* No frame goes back behind an earlier one: not to an earlier round or an    *)
(* earlier phase of its round, nor lines lost, nor a ballot open again that  *)
(* was in; and once the game is on nobody returns to the living, and the      *)
(* player no more than the others.                                           *)
Onward(v, w) ==
  /\ v.round <= w.round /\ v.messages \subseteq w.messages
  /\ w.round = v.round => Rank(v.phase) <= Rank(w.phase)
  /\ v.hasVoted /\ w.round = v.round => w.hasVoted
  /\ v.phase # "LOBBY_FORMING" =>
       /\ w.phase # "LOBBY_FORMING"
       /\ w.alive \subseteq v.alive
       /\ v.status = "spectator" => w.status = "spectator"

(* From one frame to the next, lines come in the discussion they belong to,  *)
(* and no receipt is carried into another round.                             *)
InTurn(v, w) ==
  /\ \A l \in w.messages \ v.messages :
       v.phase = "ROUND_DISCUSSION" /\ l.round = v.round /\ l.seat \in v.alive
  /\ w.round # v.round => ~w.hasVoted
  /\ Onward(v, w)

USE DEF Onward, Rank

(* Frames in order stay in order. *)
LEMMA OnwardIsOrder ==
  ASSUME NEW u \in Views, NEW v \in Views, NEW w \in Views
  PROVE  Onward(u, u) /\ (Onward(u, v) /\ Onward(v, w) => Onward(u, w))
<1>1. /\ u.round \in Nat /\ v.round \in Nat /\ w.round \in Nat
      /\ Rank(u.phase) \in Nat /\ Rank(v.phase) \in Nat /\ Rank(w.phase) \in Nat
  BY ViewerAssumption DEF Views
<1> QED
  BY <1>1

(* The last frame of an unbroken film shows the room as it is. *)
Matches(v) ==
  /\ v.phase = Shown /\ v.round = round
  /\ v.alive = alive /\ v.messages = said
  /\ v.status = "alive" <=> Me \in alive
  /\ phase = "VOTE_WINDOW" => v.targets = alive
  /\ v.hasVoted <=> counted[round] # NoVote

Good(f, q) ==
  /\ \A i \in 0..Len(q) : Frame(f[i])
  /\ \A i \in 1..Len(q) : InTurn(f[i-1], f[i])
  /\ \A i, j \in 0..Len(q) : i <= j => Onward(f[i], f[j])

(* A good film from the store v over the events q, and its last frame. *)
Reel(q, v, last) ==
  \E f : Film(f, q, v) /\ Good(f, q) /\ last = f[Len(q)]

Screened ==
  /\ inbox \in Seq(Events)
  /\ \E last : Reel(inbox, view, last) /\ (wire = "whole" => Matches(last))

(* A ballot on its way is for a round whose window has been, or the one that *)
(* is open, and the room would take it if it had none.                       *)
BallotsFair ==
  \A i \in 1..Len(outbox) :
    /\ outbox[i].round <= round
    /\ outbox[i].round = round =>
         /\ phase \notin {"ROUND_PROMPT", "ROUND_DISCUSSION"}
         /\ phase = "VOTE_WINDOW" =>
              Me \in alive /\ outbox[i].target \in alive /\ outbox[i].target # Me

(* No vote is counted ahead of its round, and a browser that has noticed the *)
(* cut has nothing more to read.                                             *)
NoneAhead == \A r \in Rounds : r > round => counted[r] = NoVote
Unseated == ws # "seated" \/ retry = "armed" => wire = "cut" /\ inbox = <<>>

IInv ==
  TypeOK /\ Screened /\ BallotsFair /\ NoneAhead /\ Unseated

(* A burst of events is one event after the other.                           *)
LEMMA Appended ==
  ASSUME NEW S, NEW q \in Seq(S), NEW a \in S, NEW b \in S, NEW c \in S
  PROVE  /\ q \o <<a>> = Append(q, a)
         /\ q \o <<a, b>> = Append(Append(q, a), b)
         /\ q \o <<a, b, c>> = Append(Append(Append(q, a), b), c)
<1>1. q \o <<a>> = Append(q, a)
  OBVIOUS
<1>2. q \o <<a, b>> = Append(Append(q, a), b)
  OBVIOUS
<1>3. q \o <<a, b, c>> = Append(Append(Append(q, a), b), c)
  OBVIOUS
<1> QED
  BY <1>1, <1>2, <1>3

(* No step of the room makes a frame wrong that was shot before. *)
LEMMA Aging ==
  ASSUME IInv, [Next]_vars, NEW v \in Views, Frame(v)
  PROVE  Frame(v)'
<1> USE DEF Frame
<1>1. round \in Nat /\ Rounds \subseteq Nat
  BY ViewerAssumption DEF IInv, TypeOK, Rounds
<1>2. CASE OpenDiscussion
  BY <1>1, <1>2 DEF OpenDiscussion
<1>3. CASE LockChat
  BY <1>1, <1>3 DEF LockChat
<1>4. CASE Resolve
  <2>1. counted' = counted /\ (round' = round \/ round' = round + 1) /\ (round' = round => phase' = "SETTLEMENT")
    BY <1>1, <1>4 DEF Resolve
  <2>2. v.round \in Nat
    BY ViewerAssumption DEF Views
  <2>3. phase = "VOTE_WINDOW"
    BY <1>4 DEF Resolve
  <2> QED
    BY <1>1, <2>1, <2>2, <2>3
<1>5. CASE Complete
  BY <1>1, <1>5 DEF Complete
<1>6. CASE CastArrives
  <2>1. ASSUME NEW r \in Rounds, counted[r] # NoVote PROVE counted'[r] # NoVote
    BY <2>1, <1>6, ViewerAssumption DEF CastArrives, IInv, TypeOK, Valid, Seats
  <2> QED
    BY <1>6, <2>1 DEF CastArrives, room
<1>7. CASE UNCHANGED <<room, counted>>
  BY <1>7 DEF room
<1>8. CASE UNCHANGED <<phase, round, alive, counted>>
  BY <1>8
<1>9. ASSUME NEW t \in turns, Turn(t) PROVE UNCHANGED <<phase, round, alive, counted>>
  BY <1>9 DEF Turn, Awake, Generated, ShowTyping, Finish, room
<1>10. Browser \/ Opened \/ OpenFails \/ LostAgain \/ Cut \/ (\E t \in Seats : LockVote(t))
        => UNCHANGED <<room, counted>>
  BY DEF Browser, Deliver, Notice, Reopen, Opened, OpenFails, LostAgain, OnDown, Cut, LockVote
<1>11. CASE UNCHANGED vars
  BY <1>11 DEF vars, room
<1> QED
  BY <1>2, <1>3, <1>4, <1>5, <1>6, <1>7, <1>8, <1>9, <1>10, <1>11 DEF Next, GenerateFails, Clock

(* One more event, and a frame that is as it should be. *)
LEMMA Roll ==
  ASSUME NEW q \in Seq(Events), NEW v, NEW l, Reel(q, v, l)', NEW e \in Events,
         Frame(Fold(l, e))', InTurn(l, Fold(l, e))
  PROVE  Append(q, e) \in Seq(Events) /\ Reel(Append(q, e), v, Fold(l, e))'
<1>0. PICK f : Film(f, q, v) /\ Good(f, q)' /\ l = f[Len(q)]
  BY DEF Reel
<1>1. Append(q, e) \in Seq(Events) /\ Len(Append(q, e)) = Len(q) + 1 /\ Len(q) \in Nat
  BY AppendProperties, LenProperties
<1>2. PICK g : /\ Film(g, Append(q, e), v)
               /\ \A i \in 0..Len(q) : g[i] = f[i]
               /\ g[Len(Append(q, e))] = Fold(l, e)
  BY <1>0, FilmGrows
<1>3. ASSUME NEW i \in 0..Len(Append(q, e)) PROVE Frame(g[i])'
  <2>1. CASE i \in 0..Len(q)
    BY <2>1, <1>0, <1>2 DEF Good
  <2>2. CASE i = Len(Append(q, e))
    BY <2>2, <1>2
  <2> QED
    BY <2>1, <2>2, <1>1
<1>4. ASSUME NEW i \in 1..Len(Append(q, e)) PROVE InTurn(g[i-1], g[i])
  <2>1. CASE i \in 1..Len(q)
    <3>1. i \in 0..Len(q) /\ i - 1 \in 0..Len(q)
      BY <2>1, <1>1
    <3> QED
      BY <3>1, <2>1, <1>0, <1>2 DEF Good
  <2>2. CASE i = Len(Append(q, e))
    <3>1. i - 1 = Len(q) /\ Len(q) \in 0..Len(q)
      BY <2>2, <1>1
    <3> QED
      BY <3>1, <2>2, <1>0, <1>2
  <2> QED
    BY <2>1, <2>2, <1>1
<1>5. ASSUME NEW i \in 0..Len(Append(q, e)), NEW j \in 0..Len(Append(q, e)), i <= j
      PROVE  Onward(g[i], g[j])
  <2> HIDE DEF Onward
  <2>1. CASE j \in 0..Len(q)
    BY <2>1, <1>0, <1>1, <1>2, <1>5 DEF Good
  <2>2. CASE j = Len(Append(q, e)) /\ i = j
    BY <2>2, <1>2, OnwardIsOrder DEF Film
  <2>3. CASE j = Len(Append(q, e)) /\ i \in 0..Len(q)
    <3>1. Len(q) \in 0..Len(q) /\ Len(q) \in 0..Len(Append(q, e)) /\ i <= Len(q)
      BY <1>1, <2>3
    <3>2. g[i] \in Views /\ g[Len(q)] \in Views /\ g[j] \in Views
      BY <3>1, <1>2 DEF Film
    <3>3. Onward(g[i], g[Len(q)])
      BY <3>1, <2>3, <1>0, <1>2 DEF Good
    <3>4. Onward(g[Len(q)], g[j])
      BY <3>1, <2>3, <1>0, <1>2 DEF InTurn
    <3> QED
      BY <3>2, <3>3, <3>4, OnwardIsOrder
  <2> QED
    BY <2>1, <2>2, <2>3, <1>1, <1>5
<1> HIDE DEF Onward
<1> QED
  BY <1>1, <1>2, <1>3, <1>4, <1>5 DEF Good, Reel

(* The film so far is as good after a step as before it. *)
LEMMA Opening ==
  ASSUME IInv, [Next]_vars
  PROVE  \E q \in Seq(Events), w \in Views, l \in Views :
           /\ q = inbox /\ w = view /\ Frame(l)
           /\ Reel(q, w, l) /\ Reel(q, w, l)'
           /\ wire = "whole" => Matches(l)
<1>1. PICK q, w, f :
        /\ q \in Seq(Events) /\ w \in Views
        /\ q = inbox /\ w = view
        /\ Film(f, q, w) /\ Good(f, q)
        /\ wire = "whole" => Matches(f[Len(q)])
  BY DEF IInv, Screened, TypeOK, Reel
<1>2. Len(q) \in 0..Len(q)
  BY LenProperties
<1>3. \A i \in 0..Len(q) : f[i] \in Views /\ Frame(f[i])
  BY <1>1 DEF Film, Good
<1>4. \A i \in 0..Len(q) : Frame(f[i])'
  BY <1>3, Aging
<1>5. Good(f, q)'
  BY <1>1, <1>4 DEF Good
<1>6. Reel(q, w, f[Len(q)]) /\ Reel(q, w, f[Len(q)])'
  BY <1>1, <1>5 DEF Reel
<1> QED
  BY <1>1, <1>2, <1>3, <1>6

(* A film with good frames, and a last one that shows the room, is on screen. *)
LEMMA Closing ==
  ASSUME NEW q \in Seq(Events), NEW w, NEW l, inbox' = q, Core(view') = Core(w), Reel(q, w, l)',
         wire' = "whole" => Matches(l)'
  PROVE  Screened'
<1>1. PICK f : Film(f, q, w) /\ Good(f, q)' /\ l = f[Len(q)]
  BY DEF Reel
<1>2. Film(f, inbox, view)'
  BY <1>1 DEF Film
<1>3. Good(f, inbox)'
  BY <1>1 DEF Good
<1> QED
  BY <1>1, <1>2, <1>3 DEF Screened, Reel

(* The room sends one, two or three events, as Emit does, or none: it is     *)
(* enough to look at the last frame and the ones they make of it.            *)
Sent(es) ==
  inbox' = IF wire = "whole" /\ phase # "COMPLETE" THEN inbox \o es ELSE inbox
Shot(v, e) == Frame(Fold(v, e))' /\ InTurn(v, Fold(v, e))
Last(v) == v \in Views /\ Frame(v) /\ Matches(v)
Stays == UNCHANGED <<wire, view>>
IfOver == phase = "COMPLETE" => \A v : Last(v) => Matches(v)'

(* A step that sends nothing: the film stays as it is.                       *)
LEMMA SentNone ==
  ASSUME IInv, [Next]_vars, inbox' = inbox, Core(view') = Core(view),
         wire' = "whole" => wire = "whole" /\ \A v : Last(v) => Matches(v)'
  PROVE  Screened'
<1>1. PICK q \in Seq(Events), w \in Views, l \in Views :
           /\ q = inbox /\ w = view /\ Frame(l)
           /\ Reel(q, w, l)'
           /\ wire = "whole" => Matches(l)
  BY Opening
<1>2. wire' = "whole" => Matches(l)'
  BY <1>1 DEF Last
<1> QED
  BY <1>1, <1>2, Closing

(* A step that sends one event: the film grows by a frame.                   *)
LEMMA SentOne ==
  ASSUME IInv, [Next]_vars, Stays, IfOver, NEW e \in Events, Sent(<<e>>),
         phase # "COMPLETE" =>
           \A v : Last(v) => Shot(v, e) /\ Matches(Fold(v, e))'
  PROVE  Screened'
<1>1. CASE ~(wire = "whole" /\ phase # "COMPLETE")
  BY <1>1, SentNone DEF Sent, IfOver, Stays
<1>2. CASE wire = "whole" /\ phase # "COMPLETE"
  <2>1. PICK q \in Seq(Events), w \in Views, l \in Views :
          q = inbox /\ w = view /\ Last(l) /\ Reel(q, w, l)'
    BY <1>2, Opening DEF Last
  <2>2. Shot(l, e) /\ Matches(Fold(l, e))'
    BY <1>2, <2>1
  <2>3. inbox' = Append(q, e)
    BY <1>2, <2>1, Appended DEF Sent
  <2>4. Append(q, e) \in Seq(Events) /\ Reel(Append(q, e), w, Fold(l, e))'
    BY <2>1, <2>2, Roll DEF Shot
  <2> QED
    BY <2>1, <2>2, <2>3, <2>4, Closing DEF Stays
<1> QED
  BY <1>1, <1>2

(* A step that sends two events: the film grows by two frames.               *)
LEMMA SentTwo ==
  ASSUME IInv, [Next]_vars, Stays, IfOver,
         NEW e \in Events, NEW d \in Events, Sent(<<e, d>>),
         phase # "COMPLETE" =>
           \A v : Last(v) => /\ Shot(v, e) /\ Shot(Fold(v, e), d)
                            /\ Matches(Fold(Fold(v, e), d))'
  PROVE  Screened'
<1>1. CASE ~(wire = "whole" /\ phase # "COMPLETE")
  BY <1>1, SentNone DEF Sent, IfOver, Stays
<1>2. CASE wire = "whole" /\ phase # "COMPLETE"
  <2>1. PICK q \in Seq(Events), w \in Views, l \in Views :
          q = inbox /\ w = view /\ Last(l) /\ Reel(q, w, l)'
    BY <1>2, Opening DEF Last
  <2>2. /\ Shot(l, e) /\ Shot(Fold(l, e), d)
        /\ Matches(Fold(Fold(l, e), d))'
    BY <1>2, <2>1
  <2>3. inbox' = Append(Append(q, e), d)
    BY <1>2, <2>1, Appended DEF Sent
  <2>4. Append(q, e) \in Seq(Events) /\ Reel(Append(q, e), w, Fold(l, e))'
    BY <2>1, <2>2, Roll DEF Shot
  <2>5. /\ Append(Append(q, e), d) \in Seq(Events)
        /\ Reel(Append(Append(q, e), d), w, Fold(Fold(l, e), d))'
    BY <2>2, <2>4, Roll DEF Shot
  <2> QED
    BY <2>1, <2>2, <2>3, <2>5, Closing DEF Stays
<1> QED
  BY <1>1, <1>2

(* A step that sends three events: the film grows by three frames.           *)
LEMMA SentThree ==
  ASSUME IInv, [Next]_vars, Stays, IfOver,
         NEW e \in Events, NEW d \in Events, NEW c \in Events, Sent(<<e, d, c>>),
         phase # "COMPLETE" =>
           \A v : Last(v) =>
             /\ Shot(v, e) /\ Shot(Fold(v, e), d) /\ Shot(Fold(Fold(v, e), d), c)
             /\ Matches(Fold(Fold(Fold(v, e), d), c))'
  PROVE  Screened'
<1>1. CASE ~(wire = "whole" /\ phase # "COMPLETE")
  BY <1>1, SentNone DEF Sent, IfOver, Stays
<1>2. CASE wire = "whole" /\ phase # "COMPLETE"
  <2>1. PICK q \in Seq(Events), w \in Views, l \in Views :
          q = inbox /\ w = view /\ Last(l) /\ Reel(q, w, l)'
    BY <1>2, Opening DEF Last
  <2>2. /\ Shot(l, e) /\ Shot(Fold(l, e), d) /\ Shot(Fold(Fold(l, e), d), c)
        /\ Matches(Fold(Fold(Fold(l, e), d), c))'
    BY <1>2, <2>1
  <2>3. inbox' = Append(Append(Append(q, e), d), c)
    BY <1>2, <2>1, Appended DEF Sent
  <2>4. Append(q, e) \in Seq(Events) /\ Reel(Append(q, e), w, Fold(l, e))'
    BY <2>1, <2>2, Roll DEF Shot
  <2>5. /\ Append(Append(q, e), d) \in Seq(Events)
        /\ Reel(Append(Append(q, e), d), w, Fold(Fold(l, e), d))'
    BY <2>2, <2>4, Roll DEF Shot
  <2>6. /\ Append(Append(Append(q, e), d), c) \in Seq(Events)
        /\ Reel(Append(Append(Append(q, e), d), c), w, Fold(Fold(Fold(l, e), d), c))'
    BY <2>2, <2>5, Roll DEF Shot
  <2> QED
    BY <2>1, <2>2, <2>3, <2>6, Closing DEF Stays
<1> QED
  BY <1>1, <1>2

(* The steps of the room and of the chat turns, each with what it sends.     *)

(* The discussion opens: one event, and the turns it starts send none yet.   *)
LEMMA OpenDiscussionShown ==
  ASSUME IInv, [Next]_vars, OpenDiscussion
  PROVE  Screened'
<1>0. round \in Rounds /\ phase = "ROUND_PROMPT"
  BY DEF IInv, TypeOK, OpenDiscussion
<1>1. PICK e : e = [t |-> "phase_changed", round |-> round, phase |-> "ROUND_DISCUSSION"]
  OBVIOUS
<1>2. e \in Events /\ Sent(<<e>>) /\ Stays /\ IfOver
  BY <1>0, <1>1 DEF Events, OpenDiscussion, Emit, Sent, Stays, IfOver, link
<1>3. ASSUME NEW v, Last(v) PROVE Shot(v, e) /\ Matches(Fold(v, e))'
  <2>1. Fold(v, e) = PhaseChanged(v, e) /\ v \in Views
    BY <1>1, <1>3 DEF Fold, Last
  <2>2. Shot(v, e)
    <3>1. Frame(Fold(v, e))'
      BY <2>1, <1>0, <1>1, <1>3, RoundsInRange, ViewerAssumption
         DEF PhaseChanged, Last, Frame, Matches, OpenDiscussion, Views, Rounds
    <3>2. PICK b : b = Fold(v, e)
      OBVIOUS
    <3>3. /\ b.phase = "ROUND_DISCUSSION" /\ b.round = round /\ b.alive = v.alive
          /\ b.messages = v.messages /\ b.hasVoted = v.hasVoted /\ b.status = v.status
      BY <2>1, <3>2, <1>1 DEF PhaseChanged, Views
    <3>4. v.phase = "ROUND_PROMPT" /\ v.round = round /\ round \in Nat
      BY <1>0, <1>3, ViewerAssumption DEF Last, Matches, Shown, Rounds
    <3>5. InTurn(v, b)
      BY <3>3, <3>4 DEF InTurn
    <3> QED
      BY <3>1, <3>2, <3>5 DEF Shot
  <2>3. Matches(Fold(v, e))'
    BY <2>1, <1>0, <1>1, <1>3
       DEF PhaseChanged, Last, Matches, Shown, OpenDiscussion, Views
  <2> QED
    BY <2>2, <2>3
<1> QED
  BY <1>2, <1>3, SentOne

(* The chat is locked: typing ends, then the phase, then the ballot.         *)
LEMMA LockChatShown ==
  ASSUME IInv, [Next]_vars, LockChat
  PROVE  Screened'
<1>0. round \in Rounds /\ alive \subseteq Seats /\ phase = "ROUND_DISCUSSION"
  BY DEF IInv, TypeOK, LockChat
<1>1. PICK e, d, c : /\ e = [t |-> "typing", seats |-> Seats, on |-> FALSE]
                     /\ d = [t |-> "phase_changed", round |-> round, phase |-> "CHAT_LOCKED"]
                     /\ c = [t |-> "vote_open", round |-> round, targets |-> alive]
  OBVIOUS
<1>2. e \in Events /\ d \in Events /\ c \in Events /\ Sent(<<e, d, c>>) /\ Stays /\ IfOver
  BY <1>0, <1>1 DEF Events, LockChat, Eligible, Emit, Sent, Stays, IfOver, link
<1>3. ASSUME NEW v, Last(v)
      PROVE  /\ Shot(v, e) /\ Shot(Fold(v, e), d) /\ Shot(Fold(Fold(v, e), d), c)
             /\ Matches(Fold(Fold(Fold(v, e), d), c))'
  <2>1. v \in Views /\ v.typing \subseteq AISeats
    BY <1>3 DEF Last, Frame
  <2>2. Fold(v, e) = [v EXCEPT !.typing = {}]
    BY <1>1, <2>1 DEF Fold, Typing, Views, Seats
  <2>3. Fold(Fold(v, e), d) = [v EXCEPT !.typing = {}, !.phase = "CHAT_LOCKED", !.round = round]
    BY <1>1, <2>1, <2>2 DEF Fold, PhaseChanged, Views
  <2>4. Fold(Fold(Fold(v, e), d), c) =
          [v EXCEPT !.typing = {}, !.phase = "VOTE_WINDOW", !.round = round, !.targets = alive]
    <3>1. PICK u : u = [v EXCEPT !.typing = {}, !.phase = "CHAT_LOCKED", !.round = round]
      OBVIOUS
    <3>2. Fold(u, c) = VoteOpen(u, c) /\ c.round = round /\ c.targets = alive
      BY <1>1 DEF Fold
    <3>3. VoteOpen(u, c) = [v EXCEPT !.typing = {}, !.phase = "VOTE_WINDOW", !.round = round, !.targets = alive]
      BY <2>1, <3>1, <3>2 DEF VoteOpen, Views
    <3> QED
      BY <2>3, <3>1, <3>2, <3>3, Zenon
  <2>5. Shot(v, e)
    BY <2>1, <2>2, <1>0, <1>3, ViewerAssumption
       DEF Shot, Last, Frame, InTurn, Matches, Shown, LockChat, Views, Rounds
  <2>6. Shot(Fold(v, e), d)
    <3>1. Frame(Fold(Fold(v, e), d))'
      BY <2>1, <2>3, <1>0, <1>3, ViewerAssumption
         DEF Last, Frame, Matches, LockChat, Views, Rounds
    <3>2. v.round = round /\ v.round \in Nat /\ v.phase = "ROUND_DISCUSSION"
      BY <1>0, <1>3, ViewerAssumption DEF Last, Matches, Shown, Rounds
    <3>3. PICK a, b : a = Fold(v, e) /\ b = Fold(Fold(v, e), d)
      OBVIOUS
    <3>4. /\ a.round = round /\ b.round = round /\ a.messages = b.messages
          /\ a.alive = b.alive /\ a.hasVoted = b.hasVoted /\ a.status = b.status
          /\ a.phase = "ROUND_DISCUSSION" /\ b.phase = "CHAT_LOCKED"
      BY <2>1, <2>2, <2>3, <3>2, <3>3 DEF Views
    <3>5. InTurn(Fold(v, e), Fold(Fold(v, e), d))
      BY <3>2, <3>3, <3>4 DEF InTurn
    <3> QED
      BY <3>1, <3>5 DEF Shot
  <2>7. Shot(Fold(Fold(v, e), d), c)
    <3>1. Frame(Fold(Fold(Fold(v, e), d), c))'
      BY <2>1, <2>4, <1>0, <1>3, ViewerAssumption
         DEF Last, Frame, Matches, LockChat, Views, Rounds
    <3>2. round \in Nat
      BY <1>0, ViewerAssumption DEF Rounds
    <3>3. PICK a, b : a = Fold(Fold(v, e), d) /\ b = Fold(Fold(Fold(v, e), d), c)
      OBVIOUS
    <3>4. /\ a.round = round /\ b.round = round /\ a.messages = b.messages
          /\ a.alive = b.alive /\ a.hasVoted = b.hasVoted /\ a.status = b.status
          /\ a.phase = "CHAT_LOCKED" /\ b.phase = "VOTE_WINDOW"
      BY <2>1, <2>3, <2>4, <3>3 DEF Views
    <3>5. InTurn(Fold(Fold(v, e), d), Fold(Fold(Fold(v, e), d), c))
      BY <3>2, <3>3, <3>4 DEF InTurn
    <3> QED
      BY <3>1, <3>5 DEF Shot
  <2>8. Matches(Fold(Fold(Fold(v, e), d), c))'
    BY <2>1, <2>4, <1>0, <1>3 DEF Last, Matches, Shown, LockChat, Views
  <2> QED
    BY <2>5, <2>6, <2>7, <2>8
<1> QED
  BY <1>2, <1>3, SentThree

(* The bursts resolve puts together, as tuples.                              *)
LEMMA Joined ==
  ASSUME NEW y, NEW z, NEW n
  PROVE  /\ <<y>> \o <<z>> \o <<>> = <<y, z>> /\ <<y>> \o <<z>> \o <<n>> = <<y, z, n>>
         /\ <<>> \o <<z>> \o <<>> = <<z>> /\ <<>> \o <<z>> \o <<n>> = <<z, n>>
<1> DEFINE S == {y, z, n}
<1>1. /\ <<y>> \in Seq(S) /\ <<z>> \in Seq(S) /\ <<n>> \in Seq(S)
      /\ <<y, z>> \in Seq(S) /\ <<z, n>> \in Seq(S) /\ <<y, z, n>> \in Seq(S)
      /\ y \in S /\ z \in S /\ n \in S
  OBVIOUS
<1> HIDE DEF S
<1>2. ASSUME NEW a \in S, NEW b \in S PROVE <<a>> \o <<b>> = <<a, b>>
  <2>1. <<a>> \in Seq(S) /\ <<b>> \in Seq(S) /\ <<a, b>> \in Seq(S)
    OBVIOUS
  <2>2. /\ Len(<<a>> \o <<b>>) = 2 /\ <<a>> \o <<b>> \in Seq(S)
        /\ \A i \in 1..2 : (<<a>> \o <<b>>)[i] = IF i <= 1 THEN <<a>>[i] ELSE <<b>>[i - 1]
    BY <2>1, ConcatProperties
  <2>3. ASSUME NEW i \in 1..2 PROVE (<<a>> \o <<b>>)[i] = <<a, b>>[i]
    <3>1. i = 1 \/ i = 2
      OBVIOUS
    <3> QED
      BY <2>2, <3>1
  <2> QED
    BY <2>1, <2>2, <2>3, SeqEqual
<1>3. <<y, z>> \o <<n>> = <<y, z, n>>
  <2>1. /\ Len(<<y, z>> \o <<n>>) = 3 /\ <<y, z>> \o <<n>> \in Seq(S)
        /\ \A i \in 1..3 : (<<y, z>> \o <<n>>)[i] = IF i <= 2 THEN <<y, z>>[i] ELSE <<n>>[i - 2]
    BY <1>1, ConcatProperties
  <2>2. ASSUME NEW i \in 1..3 PROVE (<<y, z>> \o <<n>>)[i] = <<y, z, n>>[i]
    <3>1. i = 1 \/ i = 2 \/ i = 3
      OBVIOUS
    <3> QED
      BY <2>1, <3>1
  <2> QED
    BY <1>1, <2>1, <2>2, SeqEqual
<1>4. <<>> \o <<z>> = <<z>> /\ <<z>> \o <<>> = <<z>> /\ <<y, z>> \o <<>> = <<y, z>>
  BY <1>1, ConcatEmptySeq
<1> QED
  BY <1>1, <1>2, <1>3, <1>4

(* A round is resolved: the result, the player's fate, and what comes next.  *)
LEMMA ResolveShown ==
  ASSUME IInv, [Next]_vars, Resolve
  PROVE  Screened'
<1>0. /\ round \in Rounds /\ round \in Nat /\ Rounds \subseteq Nat /\ alive \subseteq Seats
      /\ phase = "VOTE_WINDOW"
  BY ViewerAssumption DEF IInv, TypeOK, Resolve, Rounds
<1>1. PICK out \in SUBSET alive, over \in BOOLEAN :
        /\ over \/ RoundsLeft
        /\ alive' = alive \ out
        /\ phase' = IF over THEN "SETTLEMENT" ELSE "ROUND_PROMPT"
        /\ round' = IF over THEN round ELSE round + 1
        /\ Emit((IF Me \in out THEN <<[t |-> "you_eliminated"]>> ELSE <<>>)
               \o <<[t |-> "round_resolved", round |-> round, out |-> out]>>
               \o (IF over THEN <<>> ELSE <<[t |-> "round_started", round |-> round + 1]>>))
  BY DEF Resolve
<1>2. UNCHANGED <<said, counted, wire, view>>
  BY DEF Resolve, link
<1>3. PICK y, z, n : /\ y = [t |-> "you_eliminated"]
                     /\ z = [t |-> "round_resolved", round |-> round, out |-> out]
                     /\ n = [t |-> "round_started", round |-> round + 1]
  OBVIOUS
<1>4. /\ y \in Events /\ z \in Events /\ Stays /\ IfOver
      /\ ~over => n \in Events /\ round + 1 \in Rounds
  BY <1>0, <1>1, <1>2, <1>3, ViewerAssumption DEF Events, Stays, IfOver, Rounds, RoundsLeft
<1>5. /\ Me \in out /\ over => Sent(<<y, z>>)
      /\ Me \in out /\ ~over => Sent(<<y, z, n>>)
      /\ Me \notin out /\ over => Sent(<<z>>)
      /\ Me \notin out /\ ~over => Sent(<<z, n>>)
  <2>1. /\ <<y>> \o <<z>> \o <<>> = <<y, z>> /\ <<y>> \o <<z>> \o <<n>> = <<y, z, n>>
        /\ <<>> \o <<z>> \o <<>> = <<z>> /\ <<>> \o <<z>> \o <<n>> = <<z, n>>
    BY Joined
  <2>2. Emit((IF Me \in out THEN <<y>> ELSE <<>>) \o <<z>> \o (IF over THEN <<>> ELSE <<n>>))
    BY <1>1, <1>3
  <2>3. CASE Me \in out
    BY <2>1, <2>2, <2>3 DEF Emit, Sent
  <2>4. CASE Me \notin out
    BY <2>1, <2>2, <2>4 DEF Emit, Sent
  <2> QED
    BY <2>3, <2>4
<1> DEFINE Held(u) ==
      /\ u \in Views /\ u.phase = "VOTE_WINDOW"
      /\ u.round = round /\ u.alive = alive /\ u.messages = said
      /\ u.typing \subseteq u.alive \cap AISeats
      /\ u.hasVoted <=> counted[round] # NoVote
      /\ Me \notin out => (u.status = "alive" <=> Me \in alive)
<1>6. ASSUME NEW v, Last(v)
      PROVE  Held(v) /\ (Me \in out => Shot(v, y) /\ Held(Fold(v, y)))
  <2>1. Held(v) /\ v.phase = "VOTE_WINDOW"
    BY <1>0, <1>6 DEF Last, Matches, Shown, Frame
  <2>2. Fold(v, y) = [v EXCEPT !.status = "spectator", !.typing = {}]
    BY <1>3 DEF Fold, YouEliminated
  <2>3. Held(Fold(v, y)) \/ Me \notin out
    BY <2>1, <2>2 DEF Views
  <2>4. Shot(v, y)
    BY <2>1, <2>2, <1>0, <1>1, <1>2, <1>6 DEF Shot, Last, Frame, InTurn, Views
  <2> QED
    BY <2>1, <2>3, <2>4
<1>7. ASSUME NEW u, Held(u)
      PROVE  /\ Shot(u, z) /\ (over => Matches(Fold(u, z))')
             /\ ~over => Shot(Fold(u, z), n) /\ Matches(Fold(Fold(u, z), n))'
  <2>1. Fold(u, z) =
          [u EXCEPT !.phase = "RESOLVE", !.round = round, !.typing = {},
                    !.alive = u.alive \ out,
                    !.status = IF Me \in out THEN "spectator" ELSE u.status]
    BY <1>3 DEF Fold, RoundResolved
  <2>2. Shot(u, z)
    <3>1. Frame(Fold(u, z))'
      BY <2>1, <1>0, <1>1, <1>2, <1>7 DEF Frame, Views
    <3>2. PICK b : b = Fold(u, z)
      OBVIOUS
    <3>3. /\ b.phase = "RESOLVE" /\ b.round = u.round /\ b.alive = u.alive \ out
          /\ b.messages = u.messages /\ b.hasVoted = u.hasVoted
          /\ b.status = IF Me \in out THEN "spectator" ELSE u.status
      BY <2>1, <3>2, <1>7 DEF Views
    <3>4. InTurn(u, b)
      BY <3>3, <1>0, <1>7 DEF InTurn
    <3> QED
      BY <3>1, <3>2, <3>4 DEF Shot
  <2>3. ASSUME over PROVE Matches(Fold(u, z))'
    BY <2>1, <2>3, <1>0, <1>1, <1>2, <1>7 DEF Matches, Shown, Views
  <2>4. Fold(Fold(u, z), n) =
          [u EXCEPT !.phase = "ROUND_PROMPT", !.round = round + 1, !.typing = {},
                    !.alive = u.alive \ out,
                    !.status = IF Me \in out THEN "spectator" ELSE u.status,
                    !.targets = {}, !.myVote = NoVote, !.hasVoted = FALSE]
    <3>1. PICK w : w = [u EXCEPT !.phase = "RESOLVE", !.round = round, !.typing = {},
                    !.alive = u.alive \ out,
                    !.status = IF Me \in out THEN "spectator" ELSE u.status]
      OBVIOUS
    <3>2. Fold(w, n) = RoundStarted(w, n) /\ n.round = round + 1
      BY <1>3 DEF Fold
    <3>3. RoundStarted(w, n) =
          [u EXCEPT !.phase = "ROUND_PROMPT", !.round = round + 1, !.typing = {},
                    !.alive = u.alive \ out,
                    !.status = IF Me \in out THEN "spectator" ELSE u.status,
                    !.targets = {}, !.myVote = NoVote, !.hasVoted = FALSE]
      BY <1>7, <3>1, <3>2 DEF RoundStarted, Views
    <3> QED
      BY <2>1, <3>1, <3>2, <3>3, Zenon
  <2>5. ASSUME ~over PROVE Shot(Fold(u, z), n)
    <3>1. PICK a, b : a = Fold(u, z) /\ b = Fold(a, n)
      OBVIOUS
    <3>2. /\ a.round = round /\ a.messages = u.messages /\ a.alive = u.alive \ out
          /\ a.status = IF Me \in out THEN "spectator" ELSE u.status
      BY <2>1, <3>1, <1>7 DEF Views
    <3>3. /\ b.phase = "ROUND_PROMPT" /\ b.typing = {} /\ b.hasVoted = FALSE
          /\ b.round = round + 1 /\ b.messages = u.messages /\ b.alive = u.alive \ out
          /\ b.status = IF Me \in out THEN "spectator" ELSE u.status
      BY <2>4, <3>1, <1>7 DEF Views
    <3>4. Frame(b)'
      BY <3>3, <2>5, <1>0, <1>1 DEF Frame
    <3>5. InTurn(a, b)
      BY <3>2, <3>3, <1>0 DEF InTurn
    <3>6. Shot(a, n)
      BY <3>1, <3>4, <3>5 DEF Shot
    <3> QED
      BY <3>1, <3>6
  <2>6. ASSUME ~over PROVE Matches(Fold(Fold(u, z), n))'
    <3>1. counted[round + 1] = NoVote
      BY <2>6, <1>0, <1>4 DEF IInv, NoneAhead
    <3> QED
      BY <3>1, <2>1, <2>4, <2>6, <1>0, <1>1, <1>2, <1>7 DEF Matches, Shown, Views
  <2> QED
    BY <2>2, <2>3, <2>5, <2>6
<1> HIDE DEF Held
<1>8. CASE Me \in out /\ over
  BY <1>8, <1>4, <1>5, <1>6, <1>7, SentTwo
<1>9. CASE Me \in out /\ ~over
  BY <1>9, <1>4, <1>5, <1>6, <1>7, SentThree
<1>10. CASE Me \notin out /\ over
  BY <1>10, <1>4, <1>5, <1>6, <1>7, SentOne
<1>11. CASE Me \notin out /\ ~over
  BY <1>11, <1>4, <1>5, <1>6, <1>7, SentTwo
<1> QED
  BY <1>8, <1>9, <1>10, <1>11

(* The settlement is shown.                                                  *)
LEMMA CompleteShown ==
  ASSUME IInv, [Next]_vars, Complete
  PROVE  Screened'
<1>1. PICK e : e = [t |-> "settlement"]
  OBVIOUS
<1>2. e \in Events /\ Sent(<<e>>) /\ Stays /\ IfOver
  BY <1>1 DEF Events, Complete, Emit, Sent, Stays, IfOver, link
<1>3. ASSUME NEW v, Last(v) PROVE Shot(v, e) /\ Matches(Fold(v, e))'
  <2>1. Fold(v, e) = [v EXCEPT !.phase = "SETTLEMENT", !.typing = {}] /\ v \in Views
    BY <1>1, <1>3 DEF Fold, Settled, Last
  <2>2. Shot(v, e)
    BY <2>1, <1>3 DEF Shot, Last, Frame, InTurn, Complete, Views
  <2>3. Matches(Fold(v, e))'
    BY <2>1, <1>3 DEF Last, Matches, Shown, Complete, Views
  <2> QED
    BY <2>2, <2>3
<1> QED
  BY <1>2, <1>3, SentOne

(* A ballot arrives: it is counted or refused, and answered.                 *)
LEMMA CastShown ==
  ASSUME IInv, [Next]_vars, CastArrives
  PROVE  Screened'
<1>0. /\ round \in Rounds /\ counted \in [Rounds -> Seats \cup {NoVote}]
      /\ alive \subseteq Seats /\ NoVote \notin Seats
  BY ViewerAssumption DEF IInv, TypeOK
<1>1. PICK ok, e : ok \in BOOLEAN /\ ok = Valid(Head(outbox)) /\ e = [t |-> "vote_ack", accepted |-> ok]
  BY DEF Valid
<1>2. e \in Events /\ Sent(<<e>>) /\ Stays
  BY <1>1 DEF Events, CastArrives, Emit, Sent, Stays
<1>3. UNCHANGED <<phase, round, alive, said>>
  BY DEF CastArrives, room
<1>4. /\ ok => counted[round] = NoVote /\ counted'[round] # NoVote /\ phase = "VOTE_WINDOW"
      /\ ~ok => counted' = counted
  BY <1>0, <1>1 DEF CastArrives, Valid
<1>5. IfOver
  BY <1>3, <1>4 DEF IfOver, Last, Matches, Shown
<1>6. ASSUME NEW v, Last(v) PROVE Shot(v, e) /\ Matches(Fold(v, e))'
  <2>1. Fold(v, e) = [v EXCEPT !.hasVoted = v.hasVoted \/ ok] /\ v \in Views
    BY <1>1, <1>6 DEF Fold, VoteAck, Last
  <2>2. Frame(v)'
    BY <1>6, <2>1, Aging DEF Last
  <2>3. v.hasVoted \in BOOLEAN /\ v.round = round
    BY <2>1, <1>6 DEF Views, Last, Matches
  <2>4. Shot(v, e)
    BY <2>1, <2>2, <2>3, <1>0, <1>3, <1>4 DEF Shot, Frame, InTurn, Views
  <2>5. Matches(Fold(v, e))'
    BY <2>1, <2>3, <1>3, <1>4, <1>6 DEF Last, Matches, Shown, Views
  <2> QED
    BY <2>4, <2>5
<1> QED
  BY <1>2, <1>5, <1>6, SentOne

(* Steps that send nothing and leave the room and the count alone. *)
LEMMA SilentShown ==
  ASSUME IInv, [Next]_vars, UNCHANGED <<room, counted, wire, inbox>>,
         Core(view') = Core(view)
  PROVE  Screened'
<1>1. ASSUME NEW v, Last(v) PROVE Matches(v)'
  BY <1>1 DEF Last, Matches, Shown, room
<1> QED
  BY <1>1, SentNone

(* An AI seat's turn goes on: the marks and the message it sends.            *)
LEMMA TurnShown ==
  ASSUME IInv, [Next]_vars, NEW t \in turns, Turn(t)
  PROVE  Screened'
<1>0. /\ t \in Turns /\ t.seat \in AISeats /\ t.seat \in Seats
      /\ alive \subseteq Seats /\ inbox \in Seq(Events)
  BY DEF IInv, TypeOK, Turns, Screened, Seats
<1>1. CASE Awake(t) \/ Generated(t)
  BY <1>1, SilentShown DEF Awake, Generated, link
<1>2. CASE ShowTyping(t)
  <2>1. UNCHANGED <<room, counted, wire, view>> /\ UNCHANGED <<phase, round, alive, said>>
    BY <1>2 DEF ShowTyping, link, room
  <2>2. CASE ~IsDiscussionOpen(t.round)
    BY <2>1, <2>2, <1>2, SilentShown DEF ShowTyping
  <2>3. CASE IsDiscussionOpen(t.round) /\ t.seat \notin alive
    <3>1. inbox \o <<>> = inbox
      BY <1>0, ConcatEmptySeq
    <3> QED
      BY <2>1, <2>3, <3>1, <1>2, SilentShown DEF ShowTyping, Emit, Mark
  <2>4. CASE IsDiscussionOpen(t.round) /\ t.seat \in alive
    <3>1. PICK e : e = [t |-> "typing", seats |-> {t.seat}, on |-> TRUE]
      OBVIOUS
    <3>2. e \in Events /\ Sent(<<e>>) /\ Stays /\ IfOver
      BY <3>1, <2>1, <2>4, <1>0, <1>2
         DEF Events, ShowTyping, Emit, Mark, Sent, Stays, IfOver, IsDiscussionOpen
    <3>3. ASSUME NEW v, Last(v) PROVE Shot(v, e) /\ Matches(Fold(v, e))'
      <4>1. Fold(v, e) = [v EXCEPT !.typing = v.typing \cup {t.seat}] /\ v \in Views
        BY <3>1, <3>3 DEF Fold, Typing, Last
      <4>2. v.phase = "ROUND_DISCUSSION" /\ t.seat \in v.alive
        BY <2>4, <3>3 DEF Last, Matches, Shown, IsDiscussionOpen
      <4>3. Shot(v, e)
        BY <4>1, <4>2, <3>3, <2>1, <1>0 DEF Shot, Last, Frame, InTurn, Views
      <4>4. Matches(Fold(v, e))'
        BY <4>1, <3>3, <2>1 DEF Last, Matches, Shown, Views
      <4> QED
        BY <4>3, <4>4
    <3> QED
      BY <3>2, <3>3, SentOne
  <2> QED
    BY <2>2, <2>3, <2>4
<1>3. CASE Finish(t)
  <2>1. UNCHANGED <<phase, round, alive, counted, wire, view>>
    BY <1>3 DEF Finish, link
  <2>2. PICK lines \in SUBSET {[seat |-> t.seat, wave |-> t.wave, round |-> t.round]} :
          /\ lines # {} => MayPost(t)
          /\ said' = said \cup lines
          /\ Emit(Mark(t.seat, FALSE) \o
                  (IF lines = {} THEN <<>>
                   ELSE <<[t |-> "chat_message", seat |-> t.seat, lines |-> lines]>>))
    BY <1>3 DEF Finish
  <2>3. PICK e, c : /\ e = [t |-> "typing", seats |-> {t.seat}, on |-> FALSE]
                    /\ c = [t |-> "chat_message", seat |-> t.seat, lines |-> lines]
    OBVIOUS
  <2>4. Mark(t.seat, FALSE) = <<e>>
    BY <2>3 DEF Mark
  <2>5. /\ <<e>> \o <<>> = <<e>> /\ <<e>> \o <<c>> = <<e, c>>
    BY Joined
  <2>6. lines \subseteq Lines /\ e \in Events /\ c \in Events /\ Stays
    BY <2>1, <2>2, <2>3, <1>0 DEF Events, Turns, Lines, Stays
  <2>7. IfOver
    BY <2>1, <2>2 DEF IfOver, Last, Matches, Shown, MayPost, IsDiscussionOpen
  <2>8. ASSUME NEW v, Last(v)
        PROVE  /\ Fold(v, e) = [v EXCEPT !.typing = v.typing \ {t.seat}] /\ v \in Views
               /\ Shot(v, e)
               /\ lines = {} => Matches(Fold(v, e))'
    <3>1. Fold(v, e) = [v EXCEPT !.typing = v.typing \ {t.seat}] /\ v \in Views
      BY <2>3, <2>8 DEF Fold, Typing, Last
    <3>2. Shot(v, e)
      BY <3>1, <2>1, <2>8 DEF Shot, Last, Frame, InTurn, Views
    <3>3. lines = {} => Matches(Fold(v, e))'
      BY <3>1, <2>1, <2>2, <2>8 DEF Last, Matches, Shown, Views
    <3> QED
      BY <3>1, <3>2, <3>3
  <2>9. CASE lines = {}
    <3>1. Sent(<<e>>)
      BY <2>2, <2>4, <2>5, <2>9 DEF Emit, Sent
    <3> QED
      BY <3>1, <2>6, <2>7, <2>8, <2>9, SentOne
  <2>10. CASE lines # {}
    <3>1. Sent(<<e, c>>)
      BY <2>2, <2>3, <2>4, <2>5, <2>10 DEF Emit, Sent
    <3>2. ASSUME NEW v, Last(v)
          PROVE  /\ Shot(v, e) /\ Shot(Fold(v, e), c)
                 /\ Matches(Fold(Fold(v, e), c))'
      <4>1. Fold(v, e) = [v EXCEPT !.typing = v.typing \ {t.seat}] /\ v \in Views /\ Shot(v, e)
        BY <2>8, <3>2
      <4>2. Fold(Fold(v, e), c) =
              [v EXCEPT !.messages = v.messages \cup lines, !.typing = v.typing \ {t.seat}]
        <5>1. Fold(Fold(v, e), c) =
                [Fold(v, e) EXCEPT !.messages = Fold(v, e).messages \cup lines,
                                   !.typing = Fold(v, e).typing \ {t.seat}]
          BY <2>3 DEF Fold, ChatMessage
        <5>2. (v.typing \ {t.seat}) \ {t.seat} = v.typing \ {t.seat}
          OBVIOUS
        <5> QED
          BY <4>1, <5>1, <5>2 DEF Views
      <4>3. /\ v.phase = "ROUND_DISCUSSION" /\ v.round = t.round /\ t.seat \in v.alive
            /\ \A l \in lines : l.seat = t.seat /\ l.round = t.round
        BY <2>2, <2>10, <3>2 DEF Last, Matches, Shown, MayPost, IsDiscussionOpen
      <4>4. Shot(Fold(v, e), c)
        <5>1. Frame(Fold(Fold(v, e), c))'
          BY <4>1, <4>2, <3>2, <2>1 DEF Last, Frame, Views
        <5>2. InTurn(Fold(v, e), Fold(Fold(v, e), c))
          <6>1. PICK a, b : a = Fold(v, e) /\ b = Fold(a, c)
            OBVIOUS
          <6>2. /\ a.phase = "ROUND_DISCUSSION" /\ a.round = v.round /\ a.alive = v.alive
                /\ a.messages = v.messages /\ a.hasVoted = v.hasVoted /\ a.status = v.status
            BY <4>1, <4>3, <6>1 DEF Views
          <6>3. /\ b.phase = "ROUND_DISCUSSION" /\ b.round = v.round /\ b.alive = v.alive
                /\ b.messages = v.messages \cup lines
                /\ b.hasVoted = v.hasVoted /\ b.status = v.status
            BY <4>1, <4>2, <4>3, <6>1 DEF Views
          <6>4. v.round \in Nat
            BY <4>1, ViewerAssumption DEF Views
          <6>5. InTurn(a, b)
            BY <4>3, <6>2, <6>3, <6>4 DEF InTurn
          <6> QED
            BY <6>1, <6>5
        <5> QED
          BY <5>1, <5>2 DEF Shot
      <4>5. Matches(Fold(Fold(v, e), c))'
        BY <4>1, <4>2, <3>2, <2>1, <2>2 DEF Last, Matches, Shown, Views
      <4> QED
        BY <4>1, <4>4, <4>5
    <3> QED
      BY <3>1, <3>2, <2>6, <2>7, SentTwo
  <2> QED
    BY <2>9, <2>10
<1> QED
  BY <1>1, <1>2, <1>3 DEF Turn

(* The browser handles an event: the film runs on by a frame.                *)
LEMMA DeliverShown ==
  ASSUME IInv, [Next]_vars, Deliver
  PROVE  Screened' /\ view' \in Views
<1>1. PICK q \in Seq(Events), w \in Views, l \in Views :
           /\ q = inbox /\ w = view /\ Reel(q, w, l)'
           /\ wire = "whole" => Matches(l)
  BY Opening
<1>2. PICK f : Film(f, q, w) /\ Good(f, q)' /\ l = f[Len(q)]
  BY <1>1 DEF Reel
<1>3. q # <<>>
  BY <1>1 DEF Deliver
<1>4. PICK p, u : p = Tail(q) /\ u = Fold(w, Head(q))
  OBVIOUS
<1>5. PICK g : /\ Film(g, p, u) /\ Len(p) = Len(q) - 1
               /\ \A i \in 0..Len(p) : g[i] = f[i + 1]
  BY <1>2, <1>3, <1>4, FilmRuns
<1>6. p \in Seq(Events) /\ Len(p) \in Nat /\ Head(q) \in Events /\ Len(q) \in Nat
  BY <1>3, <1>4, HeadTailProperties, LenProperties
<1>7. ASSUME NEW i \in 0..Len(p) PROVE Frame(g[i])'
  <2>1. i + 1 \in 0..Len(q)
    BY <1>5, <1>6
  <2> QED
    BY <2>1, <1>2, <1>5 DEF Good
<1>8. ASSUME NEW i \in 1..Len(p) PROVE InTurn(g[i-1], g[i])
  <2>1. i + 1 \in 1..Len(q) /\ i \in 0..Len(p) /\ i - 1 \in 0..Len(p)
        /\ (i - 1) + 1 = i /\ (i + 1) - 1 = i
    BY <1>5, <1>6
  <2>2. InTurn(f[i], f[i + 1])
    BY <2>1, <1>2 DEF Good
  <2> QED
    BY <2>1, <2>2, <1>5
<1>9. ASSUME NEW i \in 0..Len(p), NEW j \in 0..Len(p), i <= j PROVE Onward(g[i], g[j])
  <2> HIDE DEF Onward
  <2>1. i + 1 \in 0..Len(q) /\ j + 1 \in 0..Len(q) /\ i + 1 <= j + 1
    BY <1>5, <1>6, <1>9
  <2> QED
    BY <2>1, <1>2, <1>5 DEF Good
<1> HIDE DEF Onward
<1>10. Good(g, p)'
  BY <1>7, <1>8, <1>9 DEF Good
<1>11. l = g[Len(p)]
  <2>1. Len(p) \in 0..Len(p) /\ Len(p) + 1 = Len(q)
    BY <1>5, <1>6
  <2> QED
    BY <2>1, <1>2, <1>5
<1>12. Reel(p, u, l)'
  BY <1>5, <1>10, <1>11 DEF Reel
<1>13. inbox' = p /\ view' = u
  BY <1>1, <1>4 DEF Deliver
<1>14. wire' = "whole" => Matches(l)'
  BY <1>1 DEF Deliver, Matches, Shown, room, link
<1> QED
  BY <1>4, <1>6, <1>12, <1>13, <1>14, Closing, FoldTyped

(* The socket closes: the film keeps its beginning.                          *)
LEMMA CutShown ==
  ASSUME IInv, [Next]_vars, Cut
  PROVE  Screened'
<1>1. PICK q \in Seq(Events), w \in Views, l \in Views :
           q = inbox /\ w = view /\ Reel(q, w, l)'
  BY Opening
<1>2. PICK f : Film(f, q, w) /\ Good(f, q)' /\ l = f[Len(q)]
  BY <1>1 DEF Reel
<1>3. PICK n, p : n \in 0..Len(q) /\ p = SubSeq(q, 1, n) /\ inbox' = p
  BY <1>1 DEF Cut
<1>4. PICK g : Film(g, p, w) /\ Len(p) = n /\ \A i \in 0..n : g[i] = f[i]
  BY <1>2, <1>3, FilmIsCut
<1>5. Len(q) \in Nat /\ n \in 0..Len(q) /\ p \in Seq(Events)
  BY <1>3, LenProperties, ElementOfSeq, SubSeqProperties
<1>6. ASSUME NEW i \in 0..Len(p) PROVE Frame(g[i])'
  BY <1>2, <1>4, <1>5 DEF Good
<1>7. ASSUME NEW i \in 1..Len(p) PROVE InTurn(g[i-1], g[i])
  <2>1. i \in 1..Len(q) /\ i \in 0..n /\ i - 1 \in 0..n
    BY <1>4, <1>5
  <2> QED
    BY <2>1, <1>2, <1>4 DEF Good
<1> HIDE DEF Onward
<1>8. ASSUME NEW i \in 0..Len(p), NEW j \in 0..Len(p), i <= j PROVE Onward(g[i], g[j])
  BY <1>2, <1>4, <1>5, <1>8 DEF Good
<1>9. Reel(p, w, g[Len(p)])'
  BY <1>4, <1>6, <1>7, <1>8 DEF Good, Reel
<1> QED
  BY <1>1, <1>3, <1>5, <1>9, Closing DEF Cut

(* Every step keeps the film as it should be.                                *)
LEMMA ScreenedKept ==
  ASSUME IInv, [Next]_vars
  PROVE  Screened'
<1>1. CASE OpenDiscussion \/ LockChat \/ Resolve \/ Complete
  BY <1>1, OpenDiscussionShown, LockChatShown, ResolveShown, CompleteShown
<1>2. CASE CastArrives
  BY <1>2, CastShown
<1>3. CASE \E t \in turns : Turn(t)
  BY <1>3, TurnShown
<1>4. CASE Deliver
  BY <1>4, DeliverShown
<1>5. CASE Cut
  BY <1>5, CutShown
<1>6. ASSUME NEW t \in Seats, LockVote(t) PROVE Screened'
  <2>1. Core(view') = Core(view)
    BY <1>6 DEF LockVote, Core, IInv, TypeOK, Views
  <2> QED
    BY <2>1, <1>6, SilentShown DEF LockVote
<1>7. CASE Notice \/ OpenFails \/ LostAgain
  <2>1. Core(view') = Core(view)
    BY <1>7 DEF Notice, OpenFails, LostAgain, OnDown, Core, IInv, TypeOK, Views
  <2> QED
    BY <2>1, <1>7, SilentShown DEF Notice, OpenFails, LostAgain, OnDown
<1>8. CASE Opened
  <2>1. Core(view') = Core(view)
    BY <1>8 DEF Opened, Core, IInv, TypeOK, Views
  <2> QED
    BY <2>1, <1>8, SilentShown DEF Opened
<1>9. CASE Reopen \/ UNCHANGED vars
  <2>1. view' = view
    BY <1>9 DEF Reopen, vars
  <2> QED
    BY <2>1, <1>9, SilentShown DEF Reopen, vars, link
<1> QED
  BY <1>1, <1>2, <1>3, <1>4, <1>5, <1>6, <1>7, <1>8, <1>9 DEF Next, GenerateFails, Clock, Browser

(* A room that starts its first round shows it as it is.                     *)
LEMMA InitHolds == Init => IInv
<1> SUFFICES ASSUME Init PROVE IInv
  OBVIOUS
<1> USE DEF Init
<1>1. 1 \in Rounds /\ Rounds \subseteq Nat
  BY ViewerAssumption DEF Rounds
<1>2. Fresh \in Views
  BY RoundsInRange DEF Fresh, Views
<1>3. TypeOK
  <2>1. <<>> \in Seq(Ballots) /\ Len(<<>>) = 0
    BY EmptySeq
  <2>2. counted \in [Rounds -> Seats \cup {NoVote}]
    OBVIOUS
  <2> QED
    BY <2>1, <2>2, <1>1, <1>2, ViewerAssumption DEF TypeOK
<1>4. Screened
  <2>1. PICK e, d : e = [t |-> "game_started"] /\ d = [t |-> "round_started", round |-> 1]
    OBVIOUS
  <2>2. e \in Events /\ d \in Events
    BY <2>1, <1>1 DEF Events
  <2>3. <<e, d>> \in Seq(Events) /\ Len(<<e, d>>) = 2 /\ <<e, d>>[1] = e /\ <<e, d>>[2] = d
    BY <2>2
  <2> DEFINE c == Core(Fresh)
             a == Fold(c, e)
             b == Fold(a, d)
             f == [i \in 0..2 |-> IF i = 0 THEN c ELSE IF i = 1 THEN a ELSE b]
  <2>4. c \in Views /\ a \in Views /\ b \in Views
    BY <1>2, <2>2, FoldTyped, CoreTyped
  <2>5. /\ a.phase = "ROUND_PROMPT" /\ a.round = 0 /\ a.alive = Seats
        /\ a.typing = {} /\ a.hasVoted = FALSE /\ a.messages = {} /\ a.status = "alive"
    BY <2>1 DEF Fold, GameStarted, Fresh, Core
  <2> HIDE DEF a
  <2>6. /\ b.phase = "ROUND_PROMPT" /\ b.round = 1 /\ b.alive = Seats
        /\ b.typing = {} /\ b.hasVoted = FALSE /\ b.messages = {} /\ b.status = "alive"
    BY <2>1, <2>4, <2>5 DEF Fold, RoundStarted, Views
  <2> HIDE DEF b
  <2>7. Frame(c) /\ Frame(a) /\ InTurn(c, a)
    BY <2>5, <1>1 DEF Frame, Fresh, Core, InTurn
  <2> HIDE DEF c
  <2>8. Frame(b) /\ InTurn(a, b) /\ Matches(b)
    BY <2>5, <2>6, <1>1, ViewerAssumption DEF Frame, Fresh, InTurn, Matches, Shown, Seats
  <2>9. Film(f, <<e, d>>, view)
    <3>1. \A i \in 1..2 : f[i] = Fold(f[i-1], <<e, d>>[i])
      <4>1. f[0] = c /\ f[1] = a /\ f[2] = b
        OBVIOUS
      <4>2. f[1] = Fold(f[0], <<e, d>>[1]) /\ f[2] = Fold(f[1], <<e, d>>[2])
        BY <4>1, <2>3 DEF a, b
      <4>3. \A i \in 1..2 : i = 1 \/ i = 2
        OBVIOUS
      <4> QED
        BY <4>2, <4>3
    <3>2. f \in [0..2 -> Views] /\ f[0] = Core(view)
      BY <2>4 DEF c
    <3> QED
      BY <2>3, <3>1, <3>2 DEF Film
  <2>10. Good(f, <<e, d>>)
    <3>1. f[0] = c /\ f[1] = a /\ f[2] = b
      OBVIOUS
    <3> HIDE DEF f, c, a, b, Onward
    <3>2. /\ Onward(c, c) /\ Onward(a, a) /\ Onward(b, b)
          /\ Onward(c, a) /\ Onward(a, b) /\ Onward(c, b)
      BY <2>4, <2>7, <2>8, OnwardIsOrder DEF InTurn
    <3>3. \A i, j \in 0..2 : i <= j => Onward(f[i], f[j])
      BY <3>1, <3>2
    <3>4. \A i \in 0..2 : Frame(f[i])
      BY <3>1, <2>7, <2>8
    <3>5. \A i \in 1..2 : InTurn(f[i-1], f[i])
      BY <3>1, <2>7, <2>8
    <3> QED
      BY <2>3, <3>3, <3>4, <3>5 DEF Good
  <2>11. inbox = <<e, d>> /\ f[2] = b
    BY <2>1
  <2> QED
    BY <2>3, <2>8, <2>9, <2>10, <2>11 DEF Screened, Reel
<1>5. BallotsFair /\ NoneAhead /\ Unseated
  BY DEF BallotsFair, NoneAhead, Unseated
<1> QED
  BY <1>3, <1>4, <1>5 DEF IInv

(* The frame on the screen is the film's first. *)
LEMMA OnScreen ==
  ASSUME IInv
  PROVE  Frame(view) /\ view \in Views
<1>1. PICK f : Film(f, inbox, view) /\ Good(f, inbox)
  BY DEF IInv, Screened, Reel
<1>2. 0 \in 0..Len(inbox)
  BY LenProperties DEF IInv, Screened
<1>3. Frame(Core(view))
  BY <1>1, <1>2 DEF Film, Good
<1> QED
  BY <1>3 DEF Frame, Core, Views, IInv, TypeOK

(* Every step keeps the types.                                               *)
LEMMA TypeKept ==
  ASSUME IInv, [Next]_vars
  PROVE  TypeOK'
<1> USE DEF IInv, TypeOK
<1>1. CASE OpenDiscussion
  BY <1>1 DEF OpenDiscussion, link, Turns
<1>2. CASE LockChat
  BY <1>2 DEF LockChat, link
<1>3. CASE Resolve
  BY <1>3, ViewerAssumption DEF Resolve, link, RoundsLeft, Rounds
<1>4. CASE Complete
  BY <1>4 DEF Complete, link
<1>5. CASE CastArrives
  <2>1. Head(outbox) \in Ballots /\ Tail(outbox) \in Seq(Ballots)
        /\ Len(Tail(outbox)) = Len(outbox) - 1 /\ Len(outbox) \in Nat
    BY <1>5, HeadTailProperties, LenProperties DEF CastArrives
  <2>2. counted' \in [Rounds -> Seats \cup {NoVote}]
    BY <2>1, <1>5 DEF CastArrives, Ballots
  <2> QED
    BY <2>1, <2>2, <1>5, ViewerAssumption DEF CastArrives, room
<1>6. ASSUME NEW t \in turns, Turn(t) PROVE TypeOK'
  <2>1. t \in Turns /\ \A x \in {"generating", "thinking", "typing"} : [t EXCEPT !.at = x] \in Turns
    BY DEF Turns
  <2>2. \A x \in {"generating", "thinking", "typing"} : Moves(t, x) => turns' \subseteq Turns
    BY <2>1 DEF Moves
  <2>3. Over(t) => turns' \subseteq Turns
    BY DEF Over
  <2>5. turns' \subseteq Turns
    BY <2>2, <2>3, <1>6 DEF Turn, Awake, Generated, ShowTyping, Finish
  <2>6. [seat |-> t.seat, wave |-> t.wave, round |-> t.round] \in Lines
    BY <2>1 DEF Turns, Lines
  <2>7. said' \subseteq Lines
    <3>1. CASE Finish(t)
      BY <3>1, <2>6 DEF Finish
    <3>2. CASE said' = said
      BY <3>2
    <3> QED
      BY <3>1, <3>2, <1>6 DEF Turn, Awake, Generated, ShowTyping, room
  <2>4. UNCHANGED <<phase, round, alive, counted, wire, outbox, ws, retry, view>>
    BY <1>6 DEF Turn, Awake, Generated, ShowTyping, Finish, room, link
  <2> QED
    BY <2>5, <2>7, <2>4
<1>7. CASE Deliver
  BY <1>7, DeliverShown DEF Deliver, room, link
<1>8. CASE Notice \/ OpenFails \/ LostAgain
  BY <1>8 DEF Notice, OpenFails, LostAgain, OnDown, room, Views
<1>9. CASE Reopen \/ Opened
  BY <1>9 DEF Reopen, Opened, RetryDone, room, Views
<1>10. CASE Cut
  <2>1. PICK n \in 0..Len(outbox) : outbox' = SubSeq(outbox, 1, n)
    BY <1>10 DEF Cut
  <2>2. outbox' \in Seq(Ballots) /\ Len(outbox') = n /\ Len(outbox) \in Nat
    BY <2>1, LenProperties, ElementOfSeq, SubSeqProperties
  <2> QED
    BY <2>1, <2>2, <1>10, ViewerAssumption DEF Cut, room
<1>11. ASSUME NEW t \in Seats, LockVote(t) PROVE TypeOK'
  <2>1. view' \in Views
    BY <1>11 DEF LockVote, Views
  <2>2. view.round \in Rounds
    BY <1>11, OnScreen DEF Frame, LockVote, BallotShown
  <2>3. outbox' \in Seq(Ballots) /\ Len(outbox') <= MaxCasts
    <3>1. Cardinality({i \in DOMAIN inbox : IsAck(inbox[i])}) \in Nat
      <4>1. IsFiniteSet(1..Len(inbox)) /\ DOMAIN inbox = 1..Len(inbox)
        BY LenProperties, FS_Interval DEF Screened
      <4> QED
        BY <4>1, FS_Subset, FS_CardinalityType
    <3>2. [round |-> view.round, target |-> t] \in Ballots /\ Len(outbox) \in Nat
      BY <2>2, <1>11, LenProperties DEF Ballots
    <3>3. Len(outbox) + Cardinality({i \in DOMAIN inbox : IsAck(inbox[i])}) < MaxCasts
      BY <1>11 DEF LockVote
    <3>4. Len(outbox) + 1 <= MaxCasts
      <4> HIDE DEF IInv, TypeOK
      <4> DEFINE n == Cardinality({i \in DOMAIN inbox : IsAck(inbox[i])})
      <4>1. n \in Nat /\ Len(outbox) \in Nat /\ Len(outbox) + n < MaxCasts
        BY <3>1, <3>2, <3>3
      <4> HIDE DEF n
      <4> QED
        BY <4>1, ViewerAssumption
    <3> QED
      BY <3>2, <3>4, <1>11, AppendProperties DEF LockVote
  <2> QED
    BY <2>1, <2>3, <1>11 DEF LockVote, room
<1>12. CASE UNCHANGED vars
  BY <1>12 DEF vars, room, link
<1> QED
  BY <1>1, <1>2, <1>3, <1>4, <1>5, <1>6, <1>7, <1>8, <1>9, <1>10, <1>11, <1>12
     DEF Next, GenerateFails, Clock, Browser

(* A ballot is as fair after the room's steps, one sent now is fair, and the *)
(* queue only loses what is at its ends.                                     *)
LEMMA BallotsKept ==
  ASSUME IInv, [Next]_vars
  PROVE  BallotsFair'
<1> DEFINE Fair(b) ==
      /\ b.round <= round
      /\ b.round = round =>
           /\ phase \notin {"ROUND_PROMPT", "ROUND_DISCUSSION"}
           /\ phase = "VOTE_WINDOW" => Me \in alive /\ b.target \in alive /\ b.target # Me
<1>1. BallotsFair <=> \A i \in 1..Len(outbox) : Fair(outbox[i])
  BY DEF BallotsFair
<1>2. BallotsFair' <=> \A i \in 1..Len(outbox') : Fair(outbox[i])'
  BY DEF BallotsFair
<1>3. /\ round \in Nat /\ Rounds \subseteq Nat
      /\ outbox \in Seq(Ballots) /\ Len(outbox) \in Nat
      /\ \A i \in 1..Len(outbox) : outbox[i] \in Ballots /\ Fair(outbox[i])
  <2>1. round \in Nat /\ Rounds \subseteq Nat /\ outbox \in Seq(Ballots)
    BY ViewerAssumption DEF IInv, TypeOK, Rounds
  <2>2. Len(outbox) \in Nat /\ \A i \in 1..Len(outbox) : outbox[i] \in Ballots
    BY <2>1, LenProperties, ElementOfSeq
  <2> QED
    BY <2>1, <2>2, <1>1 DEF IInv
<1>4. ASSUME NEW b \in Ballots, Fair(b) PROVE Fair(b)'
  <2>1. b.round \in Nat
    BY <1>3 DEF Ballots
  <2>2. CASE UNCHANGED <<phase, round, alive>>
    BY <1>4, <2>2
  <2>3. CASE OpenDiscussion \/ LockChat \/ Complete
    BY <1>4, <2>3 DEF OpenDiscussion, LockChat, Complete
  <2>4. CASE Resolve
    <3>1. round' = round + 1 \/ (round' = round /\ phase' = "SETTLEMENT")
      BY <2>4 DEF Resolve
    <3> QED
      BY <1>3, <1>4, <2>1, <3>1
  <2>5. CASE \E t \in turns : Turn(t)
    BY <2>2, <2>5 DEF Turn, Awake, Generated, ShowTyping, Finish, room
  <2>6. CASE Browser \/ Opened \/ OpenFails \/ LostAgain \/ Cut \/ CastArrives
             \/ (\E t \in Seats : LockVote(t)) \/ UNCHANGED vars
    BY <2>2, <2>6 DEF Browser, Deliver, Notice, Reopen, Opened, OpenFails, LostAgain, OnDown,
                      Cut, CastArrives, LockVote, vars, room
  <2> QED
    BY <2>3, <2>4, <2>5, <2>6 DEF Next, GenerateFails, Clock
<1> HIDE DEF Fair
<1>5. CASE UNCHANGED outbox
  <2>1. ASSUME NEW i \in 1..Len(outbox') PROVE Fair(outbox[i])'
    <3>1. PICK b \in Ballots : b = outbox[i] /\ b = outbox'[i] /\ Fair(b)
      BY <1>3, <1>5
    <3> QED
      BY <1>4, <3>1 DEF Fair
  <2> QED
    BY <1>2, <2>1
<1>6. CASE CastArrives
  <2>1. /\ outbox' = Tail(outbox) /\ Len(Tail(outbox)) = Len(outbox) - 1
        /\ \A i \in 1..Len(Tail(outbox)) : Tail(outbox)[i] = outbox[i + 1]
    BY <1>3, <1>6, HeadTailProperties DEF CastArrives
  <2>2. ASSUME NEW i \in 1..Len(outbox') PROVE Fair(outbox[i])'
    <3>1. i + 1 \in 1..Len(outbox) /\ outbox'[i] = outbox[i + 1]
      BY <1>3, <2>1
    <3>2. PICK b \in Ballots : b = outbox[i + 1] /\ Fair(b)
      BY <1>3, <3>1
    <3> QED
      BY <1>4, <3>1, <3>2 DEF Fair
  <2> QED
    BY <1>2, <2>2
<1>7. CASE Cut
  <2>1. PICK n \in 0..Len(outbox) : outbox' = SubSeq(outbox, 1, n)
    BY <1>7 DEF Cut
  <2>2. Len(outbox') = n /\ \A i \in 1..n : outbox'[i] = outbox[i]
    BY <1>3, <2>1, SubSeqProperties
  <2>3. ASSUME NEW i \in 1..Len(outbox') PROVE Fair(outbox[i])'
    <3>1. PICK b \in Ballots : b = outbox[i] /\ b = outbox'[i] /\ Fair(b)
      BY <1>3, <2>2
    <3> QED
      BY <1>4, <3>1 DEF Fair
  <2> QED
    BY <1>2, <2>3
<1>8. ASSUME NEW t \in Seats, LockVote(t) PROVE BallotsFair'
  <2>1. PICK b : b = [round |-> view.round, target |-> t]
    OBVIOUS
  <2>2. Frame(view) /\ view \in Views
    BY OnScreen
  <2>3. b \in Ballots /\ Fair(b)
    BY <2>1, <2>2, <1>8 DEF Frame, LockVote, BallotShown, Ballots, Fair
  <2>4. CASE outbox' = Append(outbox, b)
    <3>1. /\ Len(outbox') = Len(outbox) + 1 /\ outbox'[Len(outbox) + 1] = b
          /\ \A i \in 1..Len(outbox) : outbox'[i] = outbox[i]
      BY <1>3, <2>3, <2>4, AppendProperties
    <3>2. ASSUME NEW i \in 1..Len(outbox') PROVE Fair(outbox[i])'
      <4>1. PICK x \in Ballots : x = outbox'[i] /\ Fair(x)
        BY <1>3, <2>3, <3>1
      <4> QED
        BY <1>4, <4>1 DEF Fair
    <3> QED
      BY <1>2, <3>2
  <2> QED
    BY <1>5, <1>8, <2>1, <2>4 DEF LockVote
<1>9. CASE OpenDiscussion \/ LockChat \/ Resolve \/ Complete \/ (\E t \in turns : Turn(t))
  BY <1>5, <1>9 DEF OpenDiscussion, LockChat, Resolve, Complete, Turn, Awake, Generated,
                    ShowTyping, Finish, link
<1>10. CASE Browser \/ Opened \/ OpenFails \/ LostAgain \/ UNCHANGED vars
  BY <1>5, <1>10 DEF Browser, Deliver, Notice, Reopen, Opened, OpenFails, LostAgain, OnDown,
                     vars, link
<1> QED
  BY <1>6, <1>7, <1>8, <1>9, <1>10 DEF Next, GenerateFails, Clock

(* Every step keeps later rounds without a counted vote.                     *)
LEMMA NoneAheadKept ==
  ASSUME IInv, [Next]_vars
  PROVE  NoneAhead'
<1>1. round \in Nat /\ Rounds \subseteq Nat
  BY ViewerAssumption DEF IInv, TypeOK, Rounds
<1>2. CASE CastArrives
  <2>1. counted' = counted \/ (\A r \in Rounds : r # round => counted'[r] = counted[r])
    BY <1>2 DEF CastArrives, IInv, TypeOK
  <2> QED
    BY <1>1, <1>2, <2>1 DEF CastArrives, room, IInv, NoneAhead
<1>3. CASE Resolve
  BY <1>1, <1>3 DEF Resolve, IInv, NoneAhead
<1>4. CASE UNCHANGED <<round, counted>>
  BY <1>4 DEF IInv, NoneAhead
<1>5. CASE OpenDiscussion \/ LockChat \/ Complete \/ (\E t \in turns : Turn(t))
  BY <1>4, <1>5 DEF OpenDiscussion, LockChat, Complete, Turn, Awake, Generated, ShowTyping,
                    Finish, room
<1>6. CASE Browser \/ Opened \/ OpenFails \/ LostAgain \/ Cut
           \/ (\E t \in Seats : LockVote(t)) \/ UNCHANGED vars
  BY <1>4, <1>6 DEF Browser, Deliver, Notice, Reopen, Opened, OpenFails, LostAgain, OnDown, Cut,
                    LockVote, vars, room
<1> QED
  BY <1>2, <1>3, <1>5, <1>6 DEF Next, GenerateFails, Clock

(* Every step keeps a socket that was noticed to be closed empty.            *)
LEMMA UnseatedKept ==
  ASSUME IInv, [Next]_vars
  PROVE  Unseated'
<1> USE DEF Unseated, IInv
<1>1. CASE OpenDiscussion \/ LockChat \/ Resolve \/ Complete \/ CastArrives
  BY <1>1 DEF OpenDiscussion, LockChat, Resolve, Complete, CastArrives, Emit, link
<1>2. CASE \E t \in turns : Turn(t)
  BY <1>2 DEF Turn, Awake, Generated, ShowTyping, Finish, Emit, link
<1>3. CASE Browser \/ Opened \/ OpenFails \/ LostAgain
  BY <1>3 DEF Browser, Deliver, Notice, Reopen, Opened, OpenFails, LostAgain, OnDown, link
<1>4. CASE Cut
  <2>1. ASSUME inbox = <<>> PROVE inbox' = <<>>
    <3>1. \A n \in 0..0 : SubSeq(<<>>, 1, n) = <<>>
      BY SubSeqEmpty
    <3> QED
      BY <1>4, <2>1, <3>1 DEF Cut
  <2> QED
    BY <1>4, <2>1 DEF Cut
<1>5. CASE (\E t \in Seats : LockVote(t)) \/ UNCHANGED vars
  BY <1>5 DEF LockVote, vars, link
<1> QED
  BY <1>1, <1>2, <1>3, <1>4, <1>5 DEF Next, GenerateFails, Clock

(* The inductive invariant: types, a good film in the socket, ballots the     *)
(* room would take, no vote counted ahead of its round (Game.ts, store.ts).   *)
THEOREM Invariance == Spec => []IInv
<1>1. ASSUME IInv, [Next]_vars PROVE IInv'
  BY <1>1, TypeKept, ScreenedKept, BallotsKept, NoneAheadKept, UnseatedKept DEF IInv
<1> QED
  BY <1>1, InitHolds, PTL DEF Spec

-----------------------------------------------------------------------------
(* What the browser may rely on. *)

(* The room, the socket, the ballots on their way and the store stay well     *)
(* formed whatever interleaves.                                              *)
THEOREM TypeCorrect == Spec => []TypeOK
<1>1. IInv => TypeOK
  BY DEF IInv
<1> QED
  BY <1>1, Invariance, PTL

(* No AI seat is shown typing outside a discussion, or when it is out,       *)
(* however slow its turn was (AgentRunner.ts runChatTurn, store.ts typing).  *)
THEOREM MarksEnd == Spec => []AITypingEndsAtLock
<1>1. IInv => AITypingEndsAtLock
  BY OnScreen DEF Frame, AITypingEndsAtLock
<1> QED
  BY <1>1, Invariance, PTL

(* A receipt on the screen is of a vote the room holds for that round        *)
(* (Game.ts castVote, store.ts vote_ack and round_started).                  *)
THEOREM ReceiptsTrue == Spec => []BallotReceipt
<1>1. IInv => BallotReceipt
  BY OnScreen DEF Frame, BallotReceipt
<1> QED
  BY <1>1, Invariance, PTL

(* Folding all the changes gives the state they came from: a browser that    *)
(* has handled its events shows the room (store.ts applyServerEvent).        *)
THEOREM ChangesAddUp == Spec => []CaughtUp
<1>1. ASSUME IInv, wire = "whole", inbox = <<>> PROVE Matches(view)
  <2>1. PICK f, last : Film(f, inbox, view) /\ last = f[Len(inbox)] /\ Matches(last)
    BY <1>1 DEF IInv, Screened, Reel
  <2>2. Matches(Core(view))
    BY <1>1, <2>1 DEF Film
  <2> QED
    BY <2>2 DEF Matches, Core, IInv, TypeOK, Views
<1>2. IInv => CaughtUp
  BY <1>1 DEF CaughtUp, Matches
<1> QED
  BY <1>2, Invariance, PTL

(* Every line comes in its own discussion, from a seat alive in it, though   *)
(* the turn began before some awaits (AgentRunner.ts runChatTurn).           *)
THEOREM LinesInTurn == Spec => SpeaksInItsTurn
<1>1. ASSUME IInv, [Next]_vars
      PROVE  \A l \in view'.messages \ view.messages :
               view.phase = "ROUND_DISCUSSION" /\ l.round = view.round /\ l.seat \in view.alive
  <2>1. CASE Deliver
    <3>1. PICK f : Film(f, inbox, view) /\ Good(f, inbox)
      BY <1>1 DEF IInv, Screened, Reel
    <3>2. inbox \in Seq(Events) /\ inbox # <<>> /\ view \in Views
      BY <1>1, <2>1 DEF IInv, Screened, TypeOK, Deliver
    <3>3. 1 \in 1..Len(inbox) /\ 1 - 1 = 0 /\ Head(inbox) = inbox[1] /\ Head(inbox) \in Events
      BY <3>2, EmptySeq, HeadTailProperties
    <3>4. f[1] = Core(view')
      BY <3>1, <3>2, <3>3, <2>1, FoldCore DEF Film, Deliver
    <3>5. InTurn(Core(view), Core(view'))
      BY <3>1, <3>3, <3>4 DEF Good, Film
    <3>6. view' \in Views
      BY <3>2, <3>3, <2>1, FoldTyped DEF Deliver
    <3> QED
      BY <3>2, <3>5, <3>6 DEF InTurn, Core, Views
  <2>2. CASE view'.messages = view.messages
    BY <2>2
  <2>3. CASE OpenDiscussion \/ LockChat \/ Resolve \/ Complete \/ CastArrives \/ Cut
    BY <2>2, <2>3 DEF OpenDiscussion, LockChat, Resolve, Complete, CastArrives, Cut
  <2>4. CASE \E t \in turns : Turn(t)
    BY <2>2, <2>4 DEF Turn, Awake, Generated, ShowTyping, Finish
  <2>5. CASE Notice \/ OpenFails \/ LostAgain \/ Reopen \/ Opened
             \/ (\E t \in Seats : LockVote(t)) \/ UNCHANGED vars
    BY <1>1, <2>2, <2>5 DEF Notice, OpenFails, LostAgain, OnDown, Reopen, Opened, LockVote, vars,
                       IInv, TypeOK, Views
  <2> QED
    BY <1>1, <2>1, <2>3, <2>4, <2>5 DEF Next, GenerateFails, Clock, Browser
<1> QED
  BY <1>1, Invariance, PTL DEF Spec, SpeaksInItsTurn

(* No ballot is refused in its window for what it says: what a lagging       *)
(* screen offers for the round, the room takes (Game.ts castVote,            *)
(* vote-view.tsx).                                                           *)
THEOREM BallotsInTimeCount == Spec => VotesInTimeCount
<1>1. ASSUME IInv, CastArrives, phase = "VOTE_WINDOW", Head(outbox).round = round
      PROVE  counted'[round] # NoVote
  <2>1. outbox \in Seq(Ballots) /\ outbox # <<>>
    BY <1>1 DEF IInv, TypeOK, CastArrives
  <2>2. 1 \in 1..Len(outbox) /\ Head(outbox) = outbox[1]
    BY <2>1, EmptySeq
  <2>3. Me \in alive /\ Head(outbox).target \in alive /\ Head(outbox).target # Me
    BY <1>1, <2>2 DEF IInv, BallotsFair
  <2>4. /\ counted \in [Rounds -> Seats \cup {NoVote}] /\ round \in Rounds
        /\ alive \subseteq Seats /\ NoVote \notin Seats
    BY <1>1, ViewerAssumption DEF IInv, TypeOK
  <2>5. CASE counted[round] = NoVote
    BY <1>1, <2>3, <2>4, <2>5 DEF Valid, CastArrives
  <2>6. CASE counted[round] # NoVote
    BY <1>1, <2>4, <2>6 DEF Valid, CastArrives
  <2> QED
    BY <2>5, <2>6
<1> QED
  BY <1>1, Invariance, PTL DEF Spec, VotesInTimeCount
(* The next frame is one further, and of the same film.                      *)
LEMMA NextFrame ==
  ASSUME IInv, Deliver
  PROVE  /\ inbox \in Seq(Events) /\ inbox # <<>> /\ view \in Views /\ view' \in Views
         /\ Head(inbox) = inbox[1] /\ Head(inbox) \in Events
         /\ view' = Fold(view, Head(inbox)) /\ inbox' = Tail(inbox)
         /\ InTurn(view, view')
<1>1. PICK f : Film(f, inbox, view) /\ Good(f, inbox)
  BY DEF IInv, Screened, Reel
<1>2. inbox \in Seq(Events) /\ inbox # <<>> /\ view \in Views
  BY DEF IInv, TypeOK, Screened, Deliver
<1>3. 1 \in 1..Len(inbox) /\ 1 - 1 = 0 /\ Head(inbox) = inbox[1] /\ Head(inbox) \in Events
  BY <1>2, EmptySeq, HeadTailProperties
<1>4. f[1] = Core(view')
  BY <1>1, <1>2, <1>3, FoldCore DEF Film, Deliver
<1>5. InTurn(Core(view), Core(view'))
  BY <1>1, <1>3, <1>4 DEF Good, Film
<1>6. view' \in Views
  BY <1>2, <1>3, FoldTyped DEF Deliver
<1>7. InTurn(view, view')
  BY <1>2, <1>5, <1>6 DEF InTurn, Core, Views
<1> QED
  BY <1>2, <1>3, <1>6, <1>7 DEF Deliver

(* The screen never goes back: a player who falls behind sees the rounds and  *)
(* their phases, the eliminations, the lines and the receipt of a ballot in   *)
(* the order they happened, and a spectator stays one, though the reducer     *)
(* looks at no sequence number and every event carries only a change         *)
(* (store.ts applyServerEvent, Game.ts emit).                                *)
THEOREM ScreenNeverGoesBack == Spec => [][Onward(view, view')]_vars
<1>1. IInv /\ [Next]_vars => Onward(view, view')
  <2> SUFFICES ASSUME IInv, [Next]_vars PROVE Onward(view, view')
    OBVIOUS
  <2>0. view \in Views /\ view.round \in Nat
    BY ViewerAssumption DEF IInv, TypeOK, Views
  <2>1. CASE Deliver
    BY <2>1, NextFrame DEF InTurn
  <2>2. CASE view' = view
    BY <2>0, <2>2
  <2>3. CASE OpenDiscussion \/ LockChat \/ Resolve \/ Complete \/ CastArrives \/ Cut \/ Reopen
    BY <2>2, <2>3 DEF OpenDiscussion, LockChat, Resolve, Complete, CastArrives, Cut, Reopen
  <2>4. CASE \E t \in turns : Turn(t)
    BY <2>2, <2>4 DEF Turn, Awake, Generated, ShowTyping, Finish
  <2>5. CASE Notice \/ OpenFails \/ LostAgain \/ Opened \/ (\E t \in Seats : LockVote(t))
    <3>1. \/ \E b \in BOOLEAN : view' = [view EXCEPT !.connected = b]
          \/ \E t \in Seats : view' = [view EXCEPT !.myVote = t]
      BY <2>5 DEF Notice, OpenFails, LostAgain, OnDown, Opened, LockVote
    <3>2. /\ view'.round = view.round /\ view'.messages = view.messages /\ view'.phase = view.phase
          /\ view'.hasVoted = view.hasVoted /\ view'.alive = view.alive /\ view'.status = view.status
      BY <2>0, <3>1 DEF Views
    <3> QED
      BY <2>0, <3>2
  <2>6. CASE UNCHANGED vars
    BY <2>2, <2>6 DEF vars
  <2> QED
    BY <2>1, <2>3, <2>4, <2>5, <2>6 DEF Next, GenerateFails, Clock, Browser
<1> DEFINE A == Onward(view, view')
<1>2. IInv /\ [Next]_vars => [A]_vars
  BY <1>1
<1> HIDE DEF A
<1>3. Spec => [][A]_vars
  BY <1>2, Invariance, PTL DEF Spec
<1> QED
  BY <1>3 DEF A

(* The socket and what the store says of it go together: a retry is pending  *)
(* exactly when there is no socket and none is being opened, a browser that   *)
(* is not on the seated connection has really lost it, and the screen says   *)
(* connected exactly when a socket is open.                                  *)
OneSocket ==
  /\ ws = "none" <=> retry = "armed"
  /\ ws # "seated" => wire = "cut"
  /\ view.connected <=> ws \in {"seated", "fresh"}

(* The reducer leaves connected alone.                                       *)
LEMMA FoldKeepsConnected ==
  ASSUME NEW v \in Views, NEW e \in Events
  PROVE  Fold(v, e).connected = v.connected
  BY DEF Fold, Events, Views, GameStarted, RoundStarted, PhaseChanged, ChatMessage, Typing,
         VoteOpen, VoteAck, RoundResolved, YouEliminated, Settled

(* The browser is never stuck: in every state it is on an open socket, or     *)
(* opening one, or a retry is armed, and never two of them, in whatever      *)
(* order closes, failures and timers come (game-socket.ts onDown,            *)
(* scheduleReconnect).                                                       *)
THEOREM NeverWithoutSocket == Spec => []OneSocket
<1>1. Init => OneSocket
  BY DEF Init, OneSocket, Fresh
<1>2. IInv /\ OneSocket /\ [Next]_vars => OneSocket'
  <2> SUFFICES ASSUME IInv, OneSocket, [Next]_vars PROVE OneSocket'
    OBVIOUS
  <2> USE DEF OneSocket
  <2>0. view \in Views /\ inbox \in Seq(Events)
    BY DEF IInv, TypeOK, Screened
  <2>1. CASE Deliver
    <3>1. Head(inbox) \in Events
      BY <2>0, <2>1, EmptySeq, HeadTailProperties DEF Deliver
    <3>2. view'.connected = view.connected
      BY <2>0, <2>1, <3>1, FoldKeepsConnected DEF Deliver
    <3> QED
      BY <2>1, <3>2 DEF Deliver, link
  <2>2. CASE Notice \/ OpenFails \/ LostAgain
    BY <2>0, <2>2 DEF Notice, OpenFails, LostAgain, OnDown, Views, IInv, TypeOK, Unseated
  <2>3. CASE Reopen \/ Opened
    BY <2>0, <2>3 DEF Reopen, Opened, RetryDone, Views
  <2>4. CASE OpenDiscussion \/ LockChat \/ Resolve \/ Complete \/ CastArrives \/ Cut
    BY <2>4 DEF OpenDiscussion, LockChat, Resolve, Complete, CastArrives, Cut, link
  <2>5. CASE \E t \in turns : Turn(t)
    BY <2>5 DEF Turn, Awake, Generated, ShowTyping, Finish, link
  <2>6. CASE \E t \in Seats : LockVote(t)
    BY <2>0, <2>6 DEF LockVote, Views
  <2>7. CASE UNCHANGED vars
    BY <2>7 DEF vars, link
  <2> QED
    BY <2>1, <2>2, <2>3, <2>4, <2>5, <2>6, <2>7 DEF Next, GenerateFails, Clock, Browser
<1> QED
  BY <1>1, <1>2, Invariance, PTL DEF Spec

(* What the room's clock has left to do, counted in its own steps.           *)
ClockLeft ==
  3 * (MaxRounds - round) +
    CASE phase = "ROUND_PROMPT" -> 4 [] phase = "ROUND_DISCUSSION" -> 3
      [] phase = "VOTE_WINDOW" -> 2 [] phase = "SETTLEMENT" -> 1 [] OTHER -> 0

(* The room runs out of steps: every one of its clock brings the reveal      *)
(* nearer and nothing the browser, the network or a chat turn does puts it    *)
(* off (Game.ts, the phase timers).  With a clock that is scheduled and a     *)
(* browser that handles its events this is the reveal that SeesTheReveal      *)
(* promises.                                                                 *)
RevealNears ==
  /\ ClockLeft \in 0..(3 * MaxRounds + 1)
  /\ Clock => ClockLeft' < ClockLeft
  /\ ClockLeft' <= ClockLeft

THEOREM ClockRunsDown == Spec => [][RevealNears]_vars
<1>1. IInv /\ [Next]_vars => RevealNears \/ UNCHANGED vars
  <2> SUFFICES ASSUME IInv, [Next]_vars, ~UNCHANGED vars PROVE RevealNears
    OBVIOUS
  <2>0. /\ round \in 1..MaxRounds /\ MaxRounds \in Nat
        /\ phase \in {"ROUND_PROMPT", "ROUND_DISCUSSION", "VOTE_WINDOW", "SETTLEMENT", "COMPLETE"}
    BY ViewerAssumption DEF IInv, TypeOK, Rounds
  <2>1. ClockLeft \in 0..(3 * MaxRounds + 1)
    BY <2>0 DEF ClockLeft
  <2>2. CASE OpenDiscussion
    BY <2>0, <2>1, <2>2 DEF OpenDiscussion, ClockLeft, RevealNears
  <2>3. CASE LockChat
    BY <2>0, <2>1, <2>3 DEF LockChat, ClockLeft, RevealNears
  <2>4. CASE Resolve
    BY <2>0, <2>1, <2>4 DEF Resolve, ClockLeft, RevealNears
  <2>5. CASE Complete
    BY <2>0, <2>1, <2>5 DEF Complete, ClockLeft, RevealNears
  <2>6. CASE ~Clock
    <3>1. UNCHANGED <<phase, round>>
      BY <2>6 DEF Next, GenerateFails, CastArrives, Turn, Awake, Generated, ShowTyping, Finish, Browser,
                  Deliver, Notice, Reopen, Opened, OpenFails, LostAgain, OnDown, Cut, LockVote, room, vars
    <3>2. ClockLeft' = ClockLeft
      BY <3>1 DEF ClockLeft
    <3> QED
      BY <2>1, <2>6, <3>2 DEF RevealNears
  <2> QED
    BY <2>2, <2>3, <2>4, <2>5, <2>6 DEF Clock
<1>2. IInv /\ [Next]_vars => [RevealNears]_vars
  BY <1>1
<1> QED
  BY <1>2, Invariance, PTL DEF Spec
-----------------------------------------------------------------------------
(* One ballot at a time.                                                     *)

Granted(e) == IsAck(e) /\ e.accepted

(* An event that leaves the round r and the vote of it on the screen.        *)
KeepsRound(e, r) ==
  /\ e.t \notin {"game_started", "round_started"}
  /\ e.t \in {"phase_changed", "vote_open", "round_resolved"} => e.round = r

(* A receipt on its way is of the vote on the screen and comes before the     *)
(* round on the screen ends.                                                 *)
Receipts ==
  \A i \in 1..Len(inbox) : Granted(inbox[i]) =>
    /\ view.round \in Rounds /\ view.myVote # NoVote /\ counted[view.round] = view.myVote
    /\ \A j \in 1..i : KeepsRound(inbox[j], view.round)

(* A ballot on its way, until the screen has left its round, is for the vote  *)
(* on the screen; if the room is still in it, nothing on its way back is of   *)
(* another round.                                                            *)
OnePending ==
  outbox # <<>> =>
    /\ outbox[1].round <= view.round
    /\ outbox[1].round = view.round =>
         outbox[1].target = view.myVote /\ Rank(view.phase) >= 4
    /\ outbox[1].round = round =>
         view.round = round /\ \A j \in 1..Len(inbox) : KeepsRound(inbox[j], round)

OneBallot == LockedVoteIsCounted /\ Receipts /\ OnePending

(* What an event does to the vote on the screen.                             *)
LEMMA FoldVote ==
  ASSUME NEW v \in Views, NEW e \in Events
  PROVE  /\ KeepsRound(e, v.round) => Fold(v, e).round = v.round
         /\ e.t # "round_started" => Fold(v, e).myVote = v.myVote
         /\ e.t = "round_started" => ~Fold(v, e).hasVoted
         /\ e.t \in {"game_started", "round_started"} => Fold(v, e).phase = "ROUND_PROMPT"
         /\ e.t \in {"phase_changed", "vote_open", "round_resolved"} => Fold(v, e).round = e.round
         /\ Fold(v, e).hasVoted => v.hasVoted \/ Granted(e)
<1> USE DEF KeepsRound, Granted, IsAck
<1>1. CASE e \in [t : {"game_started"}]
  BY <1>1 DEF Fold, GameStarted, Views
<1>2. CASE e \in [t : {"you_eliminated"}]
  BY <1>2 DEF Fold, YouEliminated, Views
<1>3. CASE e \in [t : {"settlement"}]
  BY <1>3 DEF Fold, Settled, Views
<1>4. CASE e \in [t : {"round_started"}, round : Rounds]
  BY <1>4 DEF Fold, RoundStarted, Views
<1>5. CASE e \in [t : {"phase_changed"}, round : Rounds,
                  phase : {"ROUND_DISCUSSION", "CHAT_LOCKED"}]
  BY <1>5 DEF Fold, PhaseChanged, Views
<1>6. CASE e \in [t : {"chat_message"}, seat : AISeats, lines : SUBSET Lines]
  BY <1>6 DEF Fold, ChatMessage, Views
<1>7. CASE e \in [t : {"typing"}, seats : SUBSET Seats, on : BOOLEAN]
  BY <1>7 DEF Fold, Typing, Views
<1>8. CASE e \in [t : {"vote_open"}, round : Rounds, targets : SUBSET Seats]
  BY <1>8 DEF Fold, VoteOpen, Views
<1>9. CASE e \in [t : {"vote_ack"}, accepted : BOOLEAN]
  BY <1>9 DEF Fold, VoteAck, Views
<1>10. CASE e \in [t : {"round_resolved"}, round : Rounds, out : SUBSET Seats]
  BY <1>10 DEF Fold, RoundResolved, Views
<1> QED
  BY <1>1, <1>2, <1>3, <1>4, <1>5, <1>6, <1>7, <1>8, <1>9, <1>10 DEF Events

(* The room sends events that are no receipts, and none of another round      *)
(* while it may still count the pending ballot.                              *)
Plain(h, r) == {e \in Events : ~Granted(e) /\ (h => KeepsRound(e, r))}

LEMMA Emitted ==
  ASSUME IInv, OneBallot, NEW h \in BOOLEAN, NEW r, NEW es \in Seq(Plain(h, r)), Emit(es),
         UNCHANGED <<view, outbox, counted>>,
         outbox # <<>> /\ outbox[1].round = round' => h /\ round' = r /\ round = r
  PROVE  OneBallot'
<1>1. PICK q : q = inbox /\ q \in Seq(Events)
  BY DEF IInv, Screened
<1>2. es \in Seq(Events) /\ \A k \in 1..Len(es) : es[k] \in Plain(h, r)
  BY SeqMonotonic, ElementOfSeq DEF Plain
<1>3. PICK p : p = inbox' /\ (p = q \/ p = q \o es)
  BY <1>1 DEF Emit
<1>4. /\ Len(q) \in Nat /\ Len(p) \in Nat /\ Len(q) <= Len(p)
      /\ \A i \in 1..Len(q) : p[i] = q[i]
      /\ \A i \in 1..Len(p) : i \in 1..Len(q) \/ p[i] \in Plain(h, r)
  <2>1. CASE p = q
    BY <2>1, <1>1, LenProperties
  <2>2. CASE p = q \o es
    <3>1. /\ Len(q) \in Nat /\ Len(es) \in Nat /\ Len(p) = Len(q) + Len(es)
          /\ \A i \in 1..(Len(q) + Len(es)) : p[i] = IF i <= Len(q) THEN q[i] ELSE es[i - Len(q)]
      BY <2>2, <1>1, <1>2, LenProperties, ConcatProperties
    <3>2. ASSUME NEW i \in 1..Len(p), i \notin 1..Len(q) PROVE p[i] \in Plain(h, r)
      <4>1. i - Len(q) \in 1..Len(es) /\ p[i] = es[i - Len(q)]
        BY <3>1, <3>2
      <4> QED
        BY <4>1, <1>2
    <3> QED
      BY <3>1, <3>2
  <2> QED
    BY <2>1, <2>2, <1>3
<1>5. LockedVoteIsCounted'
  BY DEF OneBallot, LockedVoteIsCounted
<1>6. ASSUME NEW i \in 1..Len(p), Granted(p[i])
      PROVE  /\ view.round \in Rounds /\ view.myVote # NoVote /\ counted[view.round] = view.myVote
             /\ \A j \in 1..i : KeepsRound(p[j], view.round)
  <2>1. i \in 1..Len(q) /\ Granted(q[i])
    BY <1>4, <1>6 DEF Plain
  <2> QED
    BY <2>1, <1>1, <1>4 DEF OneBallot, Receipts
<1>7. Receipts'
  BY <1>3, <1>6 DEF Receipts
<1>8. ASSUME outbox # <<>>, outbox[1].round = round'
      PROVE  view.round = round' /\ \A j \in 1..Len(p) : KeepsRound(p[j], round')
  BY <1>1, <1>4, <1>8 DEF OneBallot, OnePending, Plain
<1>9. OnePending'
  BY <1>3, <1>8 DEF OneBallot, OnePending
<1> QED
  BY <1>5, <1>7, <1>9 DEF OneBallot

(* The events of each step of the room.                                      *)
LEMMA RoomKeepsBallot ==
  ASSUME IInv, OneBallot, OpenDiscussion \/ LockChat \/ Resolve \/ Complete
  PROVE  OneBallot'
<1>0. /\ round \in Rounds /\ alive \subseteq Seats /\ Rounds \subseteq Nat
      /\ outbox \in Seq(Ballots) /\ (outbox # <<>> => 1 \in 1..Len(outbox))
  BY ViewerAssumption, EmptySeq DEF IInv, TypeOK, Rounds
<1>1. /\ outbox # <<>> => outbox[1].round <= round
      /\ outbox # <<>> /\ outbox[1].round = round => phase \notin {"ROUND_PROMPT", "ROUND_DISCUSSION"}
      /\ outbox # <<>> => outbox[1].round \in Nat
  <2>1. outbox # <<>> => outbox[1] \in Ballots
    BY <1>0, ElementOfSeq
  <2>2. outbox # <<>> => outbox[1].round \in Nat
    BY <1>0, <2>1 DEF Ballots
  <2> QED
    BY <1>0, <2>2 DEF IInv, BallotsFair
<1>2. UNCHANGED <<view, outbox, counted>>
  BY DEF OpenDiscussion, LockChat, Resolve, Complete, link
<1> USE DEF Plain, Events, Granted, IsAck, KeepsRound
<1>3. CASE OpenDiscussion
  <2>1. PICK e : e = [t |-> "phase_changed", round |-> round, phase |-> "ROUND_DISCUSSION"]
    OBVIOUS
  <2>2. e \in Plain(FALSE, 0)
    BY <1>0, <2>1
  <2>3. <<e>> \in Seq(Plain(FALSE, 0)) /\ Emit(<<e>>)
    BY <1>3, <2>1, <2>2 DEF OpenDiscussion
  <2>4. ~(outbox # <<>> /\ outbox[1].round = round')
    BY <1>1, <1>3 DEF OpenDiscussion
  <2> HIDE DEF Plain
  <2> QED
    BY <1>2, <2>3, <2>4, Emitted
<1>4. CASE LockChat
  <2>1. PICK e, d, c : /\ e = [t |-> "typing", seats |-> Seats, on |-> FALSE]
                       /\ d = [t |-> "phase_changed", round |-> round, phase |-> "CHAT_LOCKED"]
                       /\ c = [t |-> "vote_open", round |-> round, targets |-> alive]
    OBVIOUS
  <2>2. e \in Plain(FALSE, 0) /\ d \in Plain(FALSE, 0) /\ c \in Plain(FALSE, 0)
    BY <1>0, <2>1
  <2>3. <<e, d, c>> \in Seq(Plain(FALSE, 0)) /\ Emit(<<e, d, c>>)
    BY <1>4, <2>1, <2>2 DEF LockChat, Eligible
  <2>4. ~(outbox # <<>> /\ outbox[1].round = round')
    BY <1>1, <1>4 DEF LockChat
  <2> HIDE DEF Plain
  <2> QED
    BY <1>2, <2>3, <2>4, Emitted
<1>5. CASE Resolve
  <2>1. PICK out \in SUBSET alive, over \in BOOLEAN :
        /\ over \/ RoundsLeft
        /\ round' = IF over THEN round ELSE round + 1
        /\ Emit((IF Me \in out THEN <<[t |-> "you_eliminated"]>> ELSE <<>>)
               \o <<[t |-> "round_resolved", round |-> round, out |-> out]>>
               \o (IF over THEN <<>> ELSE <<[t |-> "round_started", round |-> round + 1]>>))
    BY <1>5 DEF Resolve
  <2>2. PICK y, z, n : /\ y = [t |-> "you_eliminated"]
                       /\ z = [t |-> "round_resolved", round |-> round, out |-> out]
                       /\ n = [t |-> "round_started", round |-> round + 1]
    OBVIOUS
  <2>3. y \in Plain(over, round) /\ z \in Plain(over, round) /\ (~over => n \in Plain(over, round))
    BY <1>0, <2>1, <2>2, ViewerAssumption DEF RoundsLeft, Rounds
  <2>4. outbox # <<>> /\ outbox[1].round = round' => over /\ round' = round
    BY <1>0, <1>1, <2>1
  <2> HIDE DEF Plain
  <2>5. PICK a, c : /\ a = (IF Me \in out THEN <<y>> ELSE <<>>)
                    /\ c = (IF over THEN <<>> ELSE <<n>>)
    OBVIOUS
  <2>6. a \in Seq(Plain(over, round)) /\ c \in Seq(Plain(over, round)) /\ <<z>> \in Seq(Plain(over, round))
    BY <2>3, <2>5
  <2>7. a \o <<z>> \o c \in Seq(Plain(over, round))
    BY <2>6, ConcatProperties
  <2>8. Emit(a \o <<z>> \o c)
    BY <2>1, <2>2, <2>5
  <2> QED
    BY <1>2, <2>4, <2>7, <2>8, Emitted
<1>6. CASE Complete
  <2>1. PICK e : e = [t |-> "settlement"]
    OBVIOUS
  <2>2. e \in Plain(TRUE, round)
    BY <2>1
  <2>3. <<e>> \in Seq(Plain(TRUE, round)) /\ Emit(<<e>>) /\ round' = round
    BY <1>6, <2>1, <2>2 DEF Complete
  <2> HIDE DEF Plain
  <2> QED
    BY <1>2, <2>3, Emitted
<1> QED
  BY <1>3, <1>4, <1>5, <1>6
(* A chat turn sends marks and lines.                                        *)
LEMMA TurnKeepsBallot ==
  ASSUME IInv, OneBallot, NEW t \in turns, Turn(t)
  PROVE  OneBallot'
<1>0. /\ t.seat \in AISeats /\ t.seat \in Seats
      /\ [seat |-> t.seat, wave |-> t.wave, round |-> t.round] \in Lines
  BY DEF IInv, TypeOK, Turns, Lines, Seats
<1>1. UNCHANGED <<view, outbox, counted>> /\ round' = round
  BY DEF Turn, Awake, Generated, ShowTyping, Finish, room, link
<1> DEFINE S == Plain(TRUE, round)
<1>2. ASSUME NEW es \in Seq(S), Emit(es) PROVE OneBallot'
  BY <1>1, <1>2, Emitted
<1>3. <<>> \in Seq(S)
  BY EmptySeq
<1>4. \A on \in BOOLEAN : [t |-> "typing", seats |-> {t.seat}, on |-> on] \in S
  BY <1>0 DEF Plain, Events, Granted, IsAck, KeepsRound
<1>5. \A lines \in SUBSET {[seat |-> t.seat, wave |-> t.wave, round |-> t.round]} :
        [t |-> "chat_message", seat |-> t.seat, lines |-> lines] \in S
  BY <1>0 DEF Plain, Events, Granted, IsAck, KeepsRound
<1> HIDE DEF S
<1>6. \A on \in BOOLEAN : Mark(t.seat, on) \in Seq(S)
  <2>1. ASSUME NEW on \in BOOLEAN PROVE Mark(t.seat, on) \in Seq(S)
    <3>1. <<[t |-> "typing", seats |-> {t.seat}, on |-> on]>> \in Seq(S)
      BY <1>4
    <3> QED
      BY <1>3, <3>1 DEF Mark
  <2> QED
    BY <2>1
<1>7. CASE inbox' = inbox
  <2>1. Emit(<<>>)
    <3>1. inbox \o <<>> = inbox
      BY ConcatEmptySeq DEF IInv, Screened
    <3> QED
      BY <1>7, <3>1 DEF Emit
  <2> QED
    BY <1>2, <1>3, <2>1
<1>8. CASE Emit(Mark(t.seat, TRUE))
  BY <1>2, <1>6, <1>8
<1>9. CASE Finish(t)
  <2>1. PICK lines \in SUBSET {[seat |-> t.seat, wave |-> t.wave, round |-> t.round]} :
          Emit(Mark(t.seat, FALSE) \o
               (IF lines = {} THEN <<>>
                ELSE <<[t |-> "chat_message", seat |-> t.seat, lines |-> lines]>>))
    BY <1>9 DEF Finish
  <2>2. PICK e : e = [t |-> "chat_message", seat |-> t.seat, lines |-> lines]
    OBVIOUS
  <2>3. PICK b : b = (IF lines = {} THEN <<>> ELSE <<e>>)
    OBVIOUS
  <2>4. b \in Seq(S) /\ Mark(t.seat, FALSE) \in Seq(S)
    <3>1. e \in S
      BY <1>5, <2>2
    <3>2. <<e>> \in Seq(S)
      BY <3>1
    <3>3. b \in Seq(S)
      BY <1>3, <2>3, <3>2
    <3>4. FALSE \in BOOLEAN
      OBVIOUS
    <3> QED
      BY <1>6, <3>3, <3>4, Zenon
  <2>5. Mark(t.seat, FALSE) \o b \in Seq(S)
    BY <2>4, ConcatProperties
  <2>6. Emit(Mark(t.seat, FALSE) \o b)
    BY <2>1, <2>2, <2>3
  <2> QED
    BY <1>2, <2>5, <2>6
<1> QED
  BY <1>7, <1>8, <1>9 DEF Turn, Awake, Generated, ShowTyping

(* The pending ballot arrives: if it counts, its receipt is of this round and *)
(* this vote.                                                                *)
LEMMA CastKeepsBallot ==
  ASSUME MaxCasts = 1, IInv, OneBallot, CastArrives
  PROVE  OneBallot'
<1>1. PICK q, b, ok, e :
        /\ q = inbox /\ q \in Seq(Events) /\ b = Head(outbox)
        /\ ok = Valid(b) /\ ok \in BOOLEAN
        /\ e = [t |-> "vote_ack", accepted |-> ok]
  BY DEF IInv, Screened, Valid
<1>2. /\ round \in Rounds /\ counted \in [Rounds -> Seats \cup {NoVote}]
      /\ alive \subseteq Seats /\ NoVote \notin Seats
      /\ outbox \in Seq(Ballots) /\ outbox # <<>> /\ Len(outbox) <= 1 /\ view \in Views
  BY ViewerAssumption DEF IInv, TypeOK, CastArrives
<1>3. outbox' = <<>> /\ b = outbox[1] /\ b \in Ballots
  <2>1. /\ Head(outbox) \in Ballots /\ Tail(outbox) \in Seq(Ballots) /\ Len(outbox) \in Nat \ {0}
        /\ Len(Tail(outbox)) = Len(outbox) - 1
    BY <1>2, HeadTailProperties, EmptySeq
  <2>2. Len(Tail(outbox)) = 0
    BY <1>2, <2>1
  <2>3. Tail(outbox) = <<>>
    BY <2>1, <2>2, EmptySeq
  <2> QED
    BY <1>1, <1>2, <2>1, <2>3 DEF CastArrives
<1>4. /\ counted' = IF ok THEN [counted EXCEPT ![round] = b.target] ELSE counted
      /\ UNCHANGED <<round, view>>
  BY <1>1 DEF CastArrives, room
<1>5. ok => counted[round] = NoVote /\ b.round = round /\ b.target \in Seats
  BY <1>1, <1>2 DEF Valid
<1>6. \A r \in Rounds : counted[r] # NoVote => counted'[r] = counted[r]
  BY <1>2, <1>4, <1>5
<1>7. view.hasVoted => view.round \in Rounds /\ counted[view.round] # NoVote
  BY OnScreen DEF Frame
<1>8. LockedVoteIsCounted'
  BY <1>4, <1>6, <1>7 DEF OneBallot, LockedVoteIsCounted
<1>9. ok => /\ view.round = round /\ view.myVote = b.target /\ b.target # NoVote
            /\ counted'[round] = b.target
            /\ \A j \in 1..Len(q) : KeepsRound(q[j], round)
  BY <1>1, <1>2, <1>3, <1>4, <1>5 DEF OneBallot, OnePending
<1>10. PICK p : p = inbox' /\ (p = q \/ p = Append(q, e))
  <2>1. e \in Events
    BY <1>1 DEF Events
  <2>2. q \o <<e>> = Append(q, e)
    BY <1>1, <2>1, Appended
  <2>3. Emit(<<e>>)
    BY <1>1 DEF CastArrives
  <2> QED
    BY <1>1, <2>2, <2>3 DEF Emit
<1>11. /\ Len(q) \in Nat /\ Len(p) \in {Len(q), Len(q) + 1}
       /\ \A i \in 1..Len(q) : p[i] = q[i]
       /\ Len(p) = Len(q) + 1 => p[Len(q) + 1] = e
  BY <1>1, <1>10, AppendProperties, LenProperties
<1>12. ASSUME NEW i \in 1..Len(p), Granted(p[i])
       PROVE  /\ view.round \in Rounds /\ view.myVote # NoVote /\ counted'[view.round] = view.myVote
              /\ \A j \in 1..i : KeepsRound(p[j], view.round)
  <2>1. CASE i \in 1..Len(q)
    <3>1. /\ view.round \in Rounds /\ view.myVote # NoVote /\ counted[view.round] = view.myVote
          /\ \A j \in 1..i : KeepsRound(q[j], view.round)
      BY <2>1, <1>1, <1>11, <1>12 DEF OneBallot, Receipts
    <3> QED
      BY <2>1, <3>1, <1>6, <1>11
  <2>2. CASE i = Len(q) + 1 /\ Len(p) = Len(q) + 1
    <3>1. ok
      BY <2>2, <1>1, <1>11, <1>12 DEF Granted
    <3>2. KeepsRound(e, view.round)
      BY <1>1 DEF KeepsRound
    <3>3. \A j \in 1..i : KeepsRound(p[j], view.round)
      BY <2>2, <3>1, <3>2, <1>9, <1>11
    <3> QED
      BY <3>1, <3>3, <1>2, <1>9
  <2> QED
    BY <2>1, <2>2, <1>11
<1>13. Receipts'
  BY <1>4, <1>10, <1>12 DEF Receipts
<1> QED
  BY <1>3, <1>8, <1>13 DEF OneBallot, OnePending

(* The browser handles an event.                                             *)
LEMMA DeliverKeepsBallot ==
  ASSUME IInv, OneBallot, Deliver
  PROVE  OneBallot'
<1>1. PICK q, e, v, w :
        /\ q = inbox /\ v = view /\ w = view' /\ e = q[1]
        /\ q \in Seq(Events) /\ q # <<>> /\ v \in Views /\ w \in Views
        /\ e \in Events /\ w = Fold(v, e) /\ inbox' = Tail(q) /\ InTurn(v, w)
  BY NextFrame
<1>2. UNCHANGED <<round, outbox, counted>>
  BY DEF Deliver, room, link
<1>3. /\ Len(q) \in Nat /\ 1 \in 1..Len(q) /\ Len(Tail(q)) = Len(q) - 1
      /\ \A i \in 1..Len(Tail(q)) : Tail(q)[i] = q[i + 1]
  BY <1>1, HeadTailProperties, EmptySeq
<1>4. /\ v.round <= w.round /\ v.round \in Nat /\ w.round \in Nat
      /\ w.round = v.round => Rank(v.phase) <= Rank(w.phase)
      /\ w.round # v.round => ~w.hasVoted
      /\ KeepsRound(e, v.round) => w.round = v.round
      /\ e.t # "round_started" => w.myVote = v.myVote
      /\ e.t = "round_started" => ~w.hasVoted
      /\ e.t \in {"game_started", "round_started"} => w.phase = "ROUND_PROMPT"
      /\ w.hasVoted => v.hasVoted \/ Granted(e)
  <2>1. v.round \in Nat /\ w.round \in Nat
    BY <1>1, ViewerAssumption DEF Views
  <2> QED
    BY <1>1, <2>1, FoldVote DEF InTurn
<1>5. ASSUME Granted(e)
      PROVE  v.myVote # NoVote /\ counted[v.round] = v.myVote /\ KeepsRound(e, v.round)
  BY <1>1, <1>3, <1>5 DEF OneBallot, Receipts
<1>6. ASSUME w.hasVoted PROVE w.myVote = counted[w.round]
  <2>1. w.round = v.round /\ w.myVote = v.myVote
    BY <1>4, <1>6
  <2>2. v.hasVoted => v.myVote = counted[v.round]
    BY <1>1 DEF OneBallot, LockedVoteIsCounted
  <2> QED
    BY <1>4, <1>5, <1>6, <2>1, <2>2
<1>7. LockedVoteIsCounted'
  BY <1>1, <1>2, <1>6 DEF LockedVoteIsCounted
<1>8. ASSUME NEW i \in 1..Len(Tail(q)), Granted(Tail(q)[i])
      PROVE  /\ w.round \in Rounds /\ w.myVote # NoVote /\ counted[w.round] = w.myVote
             /\ \A j \in 1..i : KeepsRound(Tail(q)[j], w.round)
  <2>1. i + 1 \in 1..Len(q) /\ Granted(q[i + 1]) /\ 1 \in 1..(i + 1)
    BY <1>3, <1>8
  <2>2. /\ v.round \in Rounds /\ v.myVote # NoVote /\ counted[v.round] = v.myVote
        /\ \A j \in 1..(i + 1) : KeepsRound(q[j], v.round)
    BY <2>1, <1>1 DEF OneBallot, Receipts
  <2>3. w.round = v.round /\ w.myVote = v.myVote
    BY <2>1, <2>2, <1>1, <1>4 DEF KeepsRound
  <2>4. ASSUME NEW j \in 1..i PROVE KeepsRound(Tail(q)[j], w.round)
    <3>1. j + 1 \in 1..(i + 1) /\ Tail(q)[j] = q[j + 1]
      BY <1>3
    <3> QED
      BY <3>1, <2>2, <2>3
  <2> QED
    BY <2>2, <2>3, <2>4
<1>9. Receipts'
  BY <1>1, <1>2, <1>8 DEF Receipts
<1>10. ASSUME outbox # <<>>
       PROVE  /\ outbox[1].round <= w.round
              /\ outbox[1].round = w.round =>
                   outbox[1].target = w.myVote /\ Rank(w.phase) >= 4
              /\ outbox[1].round = round =>
                   w.round = round /\ \A j \in 1..Len(Tail(q)) : KeepsRound(Tail(q)[j], round)
  <2>1. outbox[1].round \in Nat
    <3>1. outbox \in Seq(Ballots) /\ 1 \in 1..Len(outbox)
      BY <1>10, EmptySeq DEF IInv, TypeOK
    <3>2. outbox[1] \in Ballots /\ Rounds \subseteq Nat
      BY <3>1, ElementOfSeq, ViewerAssumption DEF Rounds
    <3> QED
      BY <3>2 DEF Ballots
  <2>2. /\ outbox[1].round <= v.round
        /\ outbox[1].round = v.round =>
             outbox[1].target = v.myVote /\ Rank(v.phase) >= 4
        /\ outbox[1].round = round =>
             v.round = round /\ \A j \in 1..Len(q) : KeepsRound(q[j], round)
    BY <1>1, <1>10 DEF OneBallot, OnePending
  <2>3. ASSUME outbox[1].round = w.round
        PROVE  outbox[1].target = w.myVote /\ Rank(w.phase) >= 4
    <3>1. w.round = v.round
      BY <2>1, <2>2, <2>3, <1>4
    <3>2. /\ Rank(v.phase) \in Nat /\ Rank(w.phase) \in Nat
          /\ Rank(v.phase) <= Rank(w.phase) /\ Rank(v.phase) >= 4
      BY <3>1, <2>2, <2>3, <1>4
    <3>3. w.phase # "ROUND_PROMPT"
      BY <3>2
    <3> QED
      BY <3>1, <3>2, <3>3, <2>2, <2>3, <1>4
  <2>4. ASSUME outbox[1].round = round
        PROVE  w.round = round /\ \A j \in 1..Len(Tail(q)) : KeepsRound(Tail(q)[j], round)
    <3>1. \A j \in 1..Len(Tail(q)) : j + 1 \in 1..Len(q) /\ Tail(q)[j] = q[j + 1]
      BY <1>3
    <3> QED
      BY <3>1, <2>2, <2>4, <1>1, <1>3, <1>4
  <2> QED
    BY <2>1, <2>2, <2>3, <2>4, <1>4
<1>11. OnePending'
  BY <1>1, <1>2, <1>10 DEF OnePending
<1> QED
  BY <1>7, <1>9, <1>11 DEF OneBallot

(* While the browser's link is whole and its screen is at the ballot of the   *)
(* room's round, nothing on its way leaves that round.                       *)
LEMMA NothingLeaves ==
  ASSUME IInv, wire = "whole", view.round = round, Rank(view.phase) >= 4
  PROVE  \A j \in 1..Len(inbox) : KeepsRound(inbox[j], round)
<1> HIDE DEF Onward
<1>1. PICK q, w, f, l :
        /\ q = inbox /\ w = view /\ q \in Seq(Events) /\ w \in Views
        /\ Film(f, q, w) /\ Good(f, q) /\ l = f[Len(q)] /\ Matches(l)
  BY DEF IInv, TypeOK, Screened, Reel
<1>2. Len(q) \in Nat /\ 0 \in 0..Len(q) /\ Len(q) \in 0..Len(q)
  BY <1>1, LenProperties
<1>3. PICK c : /\ c = f[0] /\ c \in Views /\ c.round = round /\ Rank(c.phase) >= 4
  BY <1>1, <1>2 DEF Film, Core, Views
<1>4. l \in Views /\ l.round = round
  BY <1>1, <1>2 DEF Film, Matches
<1>5. ASSUME NEW j \in 1..Len(q) PROVE KeepsRound(q[j], round)
  <2>1. j \in 0..Len(q) /\ j - 1 \in 0..Len(q) /\ 0 <= j /\ j <= Len(q)
    BY <1>2
  <2>2. PICK a, b, e : /\ a = f[j - 1] /\ b = f[j] /\ e = q[j] /\ b = Fold(a, e)
                       /\ a \in Views /\ b \in Views /\ e \in Events
    BY <1>1, <2>1, ElementOfSeq DEF Film
  <2>3. Onward(c, b) /\ Onward(b, l)
    BY <1>1, <1>2, <1>3, <2>1, <2>2 DEF Good
  <2>4. b.round \in Nat /\ round \in Nat
    BY <2>2, <1>3, ViewerAssumption DEF Views
  <2>5. c.round <= b.round /\ b.round <= l.round
    BY <2>3 DEF Onward
  <2>6. b.round = round
    BY <2>4, <2>5, <1>3, <1>4
  <2>7. Rank(c.phase) <= Rank(b.phase)
    BY <2>3, <2>6, <1>3 DEF Onward
  <2>8. b.phase # "ROUND_PROMPT"
    BY <2>2, <2>7, <1>3 DEF Views
  <2> QED
    BY <2>2, <2>6, <2>8, FoldVote DEF KeepsRound
<1> QED
  BY <1>1, <1>5

(* The button lets one ballot out at a time: none is under way, and no        *)
(* receipt.                                                                  *)
LEMMA NoneUnderWay ==
  ASSUME MaxCasts = 1, IInv, NEW t \in Seats, LockVote(t)
  PROVE  outbox = <<>> /\ \A i \in 1..Len(inbox) : ~IsAck(inbox[i])
<1>1. PICK A : A = {i \in DOMAIN inbox : IsAck(inbox[i])}
  OBVIOUS
<1>2. inbox \in Seq(Events) /\ outbox \in Seq(Ballots)
  BY DEF IInv, Screened, TypeOK
<1>3. DOMAIN inbox = 1..Len(inbox) /\ Len(inbox) \in Nat /\ Len(outbox) \in Nat
  BY <1>2, LenProperties
<1>4. IsFiniteSet(A)
  <2>1. IsFiniteSet(1..Len(inbox))
    BY <1>3, FS_Interval
  <2>2. A \subseteq 1..Len(inbox)
    BY <1>1, <1>3
  <2> QED
    BY <2>1, <2>2, FS_Subset
<1>5. Cardinality(A) \in Nat /\ Len(outbox) + Cardinality(A) < 1
  BY <1>1, <1>4, FS_CardinalityType DEF LockVote
<1>6. Cardinality(A) = 0 /\ Len(outbox) = 0
  BY <1>3, <1>5
<1>7. A = {}
  BY <1>4, <1>6, FS_EmptySet
<1> QED
  BY <1>1, <1>2, <1>3, <1>6, <1>7, EmptySeq

(* The player locks a vote.                                                  *)
LEMMA LockVoteKeepsBallot ==
  ASSUME MaxCasts = 1, IInv, OneBallot, NEW t \in Seats, LockVote(t)
  PROVE  OneBallot'
<1>1. outbox = <<>> /\ \A i \in 1..Len(inbox) : ~Granted(inbox[i])
  BY NoneUnderWay DEF Granted
<1>2. PICK v, w : /\ v = view /\ w = view' /\ v \in Views /\ w = [v EXCEPT !.myVote = t]
                  /\ ~v.hasVoted /\ v.phase = "VOTE_WINDOW"
  BY DEF IInv, TypeOK, LockVote, BallotShown
<1>3. w.myVote = t /\ ~w.hasVoted /\ w.phase = "VOTE_WINDOW" /\ w.round = v.round
  BY <1>2 DEF Views
<1>4. UNCHANGED <<inbox, round, counted>>
  BY DEF LockVote, room
<1>5. LockedVoteIsCounted'
  BY <1>2, <1>3 DEF LockedVoteIsCounted
<1>6. Receipts'
  BY <1>1, <1>4 DEF Receipts
<1>7. CASE outbox' = outbox
  BY <1>1, <1>5, <1>6, <1>7 DEF OneBallot, OnePending
<1>8. CASE wire = "whole" /\ outbox' = Append(outbox, [round |-> view.round, target |-> t])
  <2>1. outbox'[1] = [round |-> v.round, target |-> t]
    BY <1>1, <1>2, <1>8
  <2>2. v.round \in Nat /\ Rank(w.phase) >= 4
    BY <1>2, <1>3, ViewerAssumption DEF Views
  <2>3. v.round = round => \A j \in 1..Len(inbox) : KeepsRound(inbox[j], round)
    BY <1>2, <1>8, NothingLeaves
  <2>4. OnePending'
    BY <1>2, <1>3, <1>4, <2>1, <2>2, <2>3 DEF OnePending
  <2> QED
    BY <1>5, <1>6, <2>4 DEF OneBallot
<1> QED
  BY <1>7, <1>8 DEF LockVote

(* A cut keeps a beginning of what is on its way in either direction.        *)
LEMMA CutKeepsBallot ==
  ASSUME IInv, OneBallot, Cut
  PROVE  OneBallot'
<1>1. PICK q, b, n, m :
        /\ q = inbox /\ q \in Seq(Events) /\ n \in 0..Len(q) /\ inbox' = SubSeq(q, 1, n)
        /\ b = outbox /\ b \in Seq(Ballots) /\ m \in 0..Len(b) /\ outbox' = SubSeq(b, 1, m)
  BY DEF Cut, IInv, Screened, TypeOK
<1>2. UNCHANGED <<view, round, counted>>
  BY DEF Cut, room
<1>3. /\ Len(q) \in Nat /\ \A i \in 1..n : q[i] \in Events
      /\ Len(b) \in Nat /\ \A i \in 1..m : b[i] \in Ballots
  BY <1>1, LenProperties, ElementOfSeq
<1>4. PICK p : /\ p = inbox' /\ Len(p) = n /\ \A i \in 1..n : p[i] = q[i]
  <2>1. n \in Nat /\ \A i \in 1..n : q[i] \in Events
    BY <1>1, <1>3
  <2>2. Len(SubSeq(q, 1, n)) = n /\ \A i \in 1..n : SubSeq(q, 1, n)[i] = q[i]
    BY <2>1, SubSeqProperties
  <2> QED
    BY <1>1, <2>2
<1>5. PICK c : /\ c = outbox' /\ Len(c) = m /\ \A i \in 1..m : c[i] = b[i]
               /\ c \in Seq(Ballots)
  <2>1. m \in Nat /\ \A i \in 1..m : b[i] \in Ballots
    BY <1>1, <1>3
  <2>2. /\ SubSeq(b, 1, m) \in Seq(Ballots) /\ Len(SubSeq(b, 1, m)) = m
        /\ \A i \in 1..m : SubSeq(b, 1, m)[i] = b[i]
    BY <2>1, SubSeqProperties
  <2> QED
    BY <1>1, <2>2
<1>6. c # <<>> => b # <<>> /\ c[1] = b[1]
  <2>1. ASSUME c # <<>> PROVE 1 \in 1..m /\ b # <<>>
    BY <2>1, <1>1, <1>3, <1>5, EmptySeq
  <2> QED
    BY <2>1, <1>5
<1>7. LockedVoteIsCounted'
  BY <1>2 DEF OneBallot, LockedVoteIsCounted
<1>8. Receipts'
  <2>1. ASSUME NEW i \in 1..Len(p), Granted(p[i])
        PROVE  /\ view.round \in Rounds /\ view.myVote # NoVote
               /\ counted[view.round] = view.myVote
               /\ \A j \in 1..i : KeepsRound(p[j], view.round)
    BY <2>1, <1>1, <1>3, <1>4 DEF OneBallot, Receipts
  <2> QED
    BY <1>2, <1>4, <2>1 DEF Receipts
<1>9. OnePending'
  <2>1. c # <<>> =>
          /\ c[1].round <= view.round
          /\ c[1].round = view.round => c[1].target = view.myVote /\ Rank(view.phase) >= 4
          /\ c[1].round = round =>
               view.round = round /\ \A j \in 1..Len(p) : KeepsRound(p[j], round)
    BY <1>1, <1>3, <1>4, <1>6 DEF OneBallot, OnePending
  <2> QED
    BY <1>2, <1>4, <1>5, <2>1 DEF OnePending
<1> QED
  BY <1>7, <1>8, <1>9 DEF OneBallot

(* A step of the connection touches nothing of it.                           *)
LEMMA QuietKeepsBallot ==
  ASSUME IInv, OneBallot, UNCHANGED <<inbox, outbox, round, counted>>,
         view' = view \/ \E b \in BOOLEAN : view' = [view EXCEPT !.connected = b]
  PROVE  OneBallot'
<1>1. PICK v, w : v = view /\ w = view' /\ v \in Views
  BY DEF IInv, TypeOK
<1>2. w.round = v.round /\ w.myVote = v.myVote /\ w.hasVoted = v.hasVoted /\ w.phase = v.phase
  BY <1>1 DEF Views
<1>3. LockedVoteIsCounted'
  BY <1>1, <1>2 DEF OneBallot, LockedVoteIsCounted
<1>4. Receipts'
  BY <1>1, <1>2 DEF OneBallot, Receipts
<1>5. OnePending'
  BY <1>1, <1>2 DEF OneBallot, OnePending
<1> QED
  BY <1>3, <1>4, <1>5 DEF OneBallot

LEMMA InitBallot == Init => OneBallot
<1> SUFFICES ASSUME Init PROVE OneBallot
  OBVIOUS
<1>1. LockedVoteIsCounted /\ OnePending
  BY DEF Init, Fresh, LockedVoteIsCounted, OnePending
<1>2. \A i \in 1..Len(inbox) : ~Granted(inbox[i])
  <2>1. PICK a, b : a = [t |-> "game_started"] /\ b = [t |-> "round_started", round |-> 1]
                    /\ inbox = <<a, b>>
    BY DEF Init
  <2>2. Len(inbox) = 2 /\ inbox[1] = a /\ inbox[2] = b
    BY <2>1
  <2>3. ~Granted(a) /\ ~Granted(b)
    BY <2>1 DEF Granted, IsAck
  <2> QED
    BY <2>2, <2>3
<1> QED
  BY <1>1, <1>2 DEF OneBallot, Receipts

(* What store.ts says of myVote, "It locks on first cast (`hasVoted`) and is *)
(* never overwritten", is true of a ballot that closes while its receipt is  *)
(* out: with one ballot without a receipt at a time, the vote the browser     *)
(* holds as locked is the one the room counts, whatever breaks and however   *)
(* late the receipt comes.  vote-view.tsx, which leaves LOCK VOTE open until *)
(* the receipt, is all that stands in the way (finding of run ballot).       *)
THEOREM OneBallotWouldDo ==
  ASSUME MaxCasts = 1
  PROVE  Spec => []LockedVoteIsCounted
<1>1. IInv /\ OneBallot /\ [Next]_vars => OneBallot'
  <2> SUFFICES ASSUME IInv, OneBallot, [Next]_vars PROVE OneBallot'
    OBVIOUS
  <2>1. CASE Clock
    BY <2>1, RoomKeepsBallot DEF Clock
  <2>2. CASE CastArrives
    BY <2>2, CastKeepsBallot
  <2>3. ASSUME NEW t \in turns, Turn(t) PROVE OneBallot'
    BY <2>3, TurnKeepsBallot
  <2>4. CASE Deliver
    BY <2>4, DeliverKeepsBallot
  <2>5. CASE Cut
    BY <2>5, CutKeepsBallot
  <2>6. ASSUME NEW t \in Seats, LockVote(t) PROVE OneBallot'
    BY <2>6, LockVoteKeepsBallot
  <2>7. CASE Notice \/ Reopen \/ Opened \/ OpenFails \/ LostAgain \/ UNCHANGED vars
    <3>1. UNCHANGED <<inbox, outbox, round, counted>>
      BY <2>7 DEF Notice, Reopen, Opened, OpenFails, LostAgain, OnDown, vars, room, link
    <3>2. view' = view \/ \E b \in BOOLEAN : view' = [view EXCEPT !.connected = b]
      BY <2>7 DEF Notice, Reopen, Opened, OpenFails, LostAgain, OnDown, vars
    <3> QED
      BY <3>1, <3>2, QuietKeepsBallot
  <2> QED
    BY <2>1, <2>2, <2>3, <2>4, <2>5, <2>6, <2>7 DEF Next, GenerateFails, Browser
<1>2. OneBallot => LockedVoteIsCounted
  BY DEF OneBallot
<1> QED
  BY <1>1, <1>2, InitBallot, Invariance, PTL DEF Spec
=============================================================================
