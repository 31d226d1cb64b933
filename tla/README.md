# AI Impostor: a TLA+ model of the server, the escrow and the browser

AI Impostor is a social-deduction game. Humans and AI agents share a table,
talk for a few minutes and vote somebody out. A node server (`apps/server`)
runs the rooms, a contract (`contracts/src/ImpostorEscrow.sol`) holds the
stakes of the paid games, and a web client (`apps/web`) shows what the server
broadcasts. This directory models the server, the contract and the browser of
one player, checks the models with TLC and proves the central facts with TLAPS.

`PROJECT.json` is the index: components, runs, the source lines every
definition stands for, hazards, findings and theorems.

## 1. The system

| part | state | operations | talks to |
|---|---|---|---|
| game room, `game/Game.ts` | phase, round, seats, ballots, pool, house, phase timer, the await a coroutine is suspended at | `start`, `beginRound`, `openDiscussion`, `lockChat`, `resolve`, `complete`, `completeDemo`, `abort`, `castVote`, chat and typing | repositories (awaits), settle hook, AI runner, gateway (`onComplete`) |
| resolution and settlement, `game/resolution.ts`, `settlement/settle.ts` | none | tally, win check, penalty, split of the pool, signature | called by the room |
| AI runner, `ai/AgentRunner.ts`, `ai/blocVote.ts` | none of its own: suspended coroutines | `runChatTurn`, `runBlocVote`, `runIndependentVotes` | the room (bridge), the language model |
| escrow, `ImpostorEscrow.sol` | games, deposits, deferred payments, price, signer, pause, treasury | `createGame`, `join`, `lockGame`, `abortGame`, `settle`, `refund`, `withdraw`, admin calls | wallets, the game manager |
| paid lobby, `matchmaking/demoLobby.ts` | the open game, seated humans, countdown | `openNextGame`, `confirmPayment`, `launch`, `onDisconnect` | chain service, gateway |
| chain service, `chain/ChainService.ts` | none | sends a transaction, reads a deposit | escrow |
| guest lobby, `matchmaking/guestLobby.ts` | the open lobby, its guests, countdown, lobby of each connection | `requestJoin`, `launch`, `onDisconnect` | gateway |
| queue, `matchmaking/queue.ts`, `store.ts` | a FIFO of connections | `join`, `leave`, `formLobby` | gateway |
| gateway, `ws/gateway.ts` | connections, rooms, seat of each connection, connection of each seat | `onConnection`, `onMessage`, `onClose`, `pingAll`, `startGame`, `onGameComplete` | all of the above |
| faucet, `http/server.ts` | time of the last drip per address | `handleFaucet` | chain service |
| client state, `lib/game/store.ts`, `lib/game/phase.ts`, `phases/vote-view.tsx` | the folded game state, the remembered vote | fold an event, choose a screen, lock a vote | socket, gateway (events, ballots) |
| client socket, `lib/ws/game-socket.ts`, `lib/game/use-lobby-join.ts` | the socket, its watchdog, its retry timer | open, close, reconnect, ask to join | gateway |

What is hard about it:

- **one thread, many coroutines.** Every `await` is a point where another
  message, timer or task runs. `resolve`, `complete`, `confirmPayment`,
  `launch` and `onJoinQueue` read state before an await and use it after it;
- **tasks nobody waits for.** The AI's chat turns and vote tasks are started
  with `void` and outlive the phase, and the round, they were started in;
- **a chain that answers early.** `writeContract` returns when a transaction is
  sent. Whether it reverts is decided later and nobody looks;
- **sockets that close at any time**, with seats that are renumbered behind
  them and countdowns that depend on the number of those who stay;
- **a browser that is told changes, never the state**: it lags, it votes on the
  screen it has, and what it missed is not sent again;
- **money in integers**: penalties and splits that do not divide.

What makes each part correct:

- *room*: the pool is conserved; a verdict and a settlement that agree with the
  table; ballots that are locked; one thread of control; an end, once;
- *chat turns*: nothing said or shown outside the round it belongs to;
- *browser*: once it has handled its events its screen is the room's state; a
  receipt means a counted vote; a ballot in time is never refused; the reveal
  reaches whoever stays; a lost socket is replaced;
- *faucet*: one drip for an address in a cooldown;
- *escrow*: solvent to the wei; one deposit per wallet; a pool is disbursed once,
  to its own stakers; refunds and withdrawals always possible;
- *paid lobby*: whoever sits has paid, once; the roster is frozen at launch; the
  countdown implies a quorum and is never lost; the doors reopen;
- *gateway, guest lobby, queue*: the two routing tables agree; tables of the lobby
  are full and every table has a seat for the house; the lobby's rooms keep to the
  cap; whoever sits will play or leave.

## 2. The modules

| module | stands for | implements / uses |
|---|---|---|
| `Resolution` | `resolution.ts`, the pure part of `settle.ts` | operators only |
| `Game` | `Game.ts`, the vote tasks of `AgentRunner.ts` | extends `Resolution`; implements `Match` |
| `Match` | what a game promises its players | the abstract specification of `Game` |
| `GameProofs`, `GameRefinement`, `BallotProofs` | theorems about `Game` | `BallotProofs` extends `GameProofs` |
| `Viewer` | `runChatTurn` and the events of `Game.ts`, the seated connection of `gateway.ts`, `store.ts`, `game-socket.ts`, `vote-view.tsx` | composes room, wire and browser |
| `ViewerProofs` | theorems about `Viewer` | |
| `Escrow` | `ImpostorEscrow.sol` | implements `Vault` |
| `Vault` | what the escrow promises about money | the abstract specification of `Escrow` |
| `EscrowProofs` | theorems about `Escrow` | |
| `DemoLobby` | `demoLobby.ts`, `ChainService.ts` | composes the lobby with an instance of `Escrow` |
| `Gateway` | `gateway.ts`, `guestLobby.ts`, `queue.ts`, `store.ts` | composes them in one process |
| `LobbyProofs` | theorems about `DemoLobby` | instantiates `EscrowProofs` |
| `GatewayProofs` | theorems about `Gateway` | |
| `Faucet` | `handleFaucet` of `http/server.ts` | |
| `Facts` | lemmas about numbers, finite sets, sequences and sums | used by the proofs |
| `MCGame`, `MCEscrow`, `MCDemoLobby`, `MCGateway`, `MCViewer`, `MCFaucet` | instances for TLC, one `.cfg` per run | |

Definitions named `X_Word` are mutated forms of `X`: a dropped guard, a missing
reset, an off-by-one. No specification uses them. `PROJECT.json` pairs each with
a property that TLC finds violated when `X` is replaced by it, so that every
property is known to be able to fail.

### Game

An action is what the code does between two awaits. `co` is the await the
lifecycle coroutine is suspended at, `timer` the callback of the single
`phaseTimer`. `Resolve` is the whole synchronous part of `resolve`: tally,
removal, win check, penalty and the synchronous start of `beginRound`,
`complete` or `completeDemo`; `demo` is the mode, fixed when the room is made.
Three kinds of activity interleave: the
lifecycle, the vote tasks (`TargetChosen`, `TaskCast`, `ChooseVoteFails`) and
the players (`HandleVote`, with any round and any target). CHAT_LOCKED and
RESOLVE begin and end inside one callback and are not states. `abort()` has no
caller in the repository; `AbortPhases` says in which phases some caller would
use it. `votes` is the ballot of the current round only, because older ones
are never read. A rejection of `chooseVote` in the bloc's task is an unhandled
rejection, which ends a node process: `up` becomes FALSE.

`Match` knows none of this: it has the standing, the pool, the house, the outcome
and three stages. A table banishes seats, the first standing that decides the
game ends it, and a decided game is announced. Every other step of `Game` is a
stutter of it.

### Escrow

A transaction is one step; one that reverts is a disabled action. `Settle` takes
the set of survivors whose push fails, so their payouts go to `owed`. A signature
is the key that it recovers to, the treasury whether it accepts a transfer.
`Settlements(g)` enumerates what a server may sign, right or wrong, including
lists that repeat a wallet or name one without a deposit. `Vault` says that each
game has a stake of its own, disbursed once and in full, or given back
deposit by deposit.

### DemoLobby

`confirmPayment` is split into `ConfirmPayment` (guards before the poll),
`DepositSeen` and `DepositNotSeen` (after it, with the second round of guards),
so any number of confirmations overlap. `launch` is split at the await of
`lockGame`. A transaction goes into `txs`, lands in the order of the nonces
(`Land`) and then runs or reverts. A room that plays is only its `startPool`;
when it is over (`GameOver`) it sends some settlement that conserves that pool,
which is what `Game!SettlementSound` establishes.

### Gateway

All handlers but `onJoinQueue` run without a pause and are one action each.
`onJoinQueue` takes one step per await. Its awaits are microtasks: they run
before the next event of the process, but after the other messages that `ws`
parsed from the same chunk, so calls overlap only when one socket made them
(`reader`), and no message is read once the first of them has gone on. `calls` is
the order of the microtasks: the first takes its step and goes behind the others, or
is over. Ids of connections and rooms are fresh in the code; the model uses
an id again once nothing refers to it, which keeps the state space finite
without limiting how long the process runs.

### Viewer

One browser, one connection and the part of the room that a browser can see. The
server never waits for the browser, so the events of the room queue in `inbox`
and the ballots in `outbox`. The room's actions are those of the clock
(`OpenDiscussion`, `LockChat`, `Resolve`, `Complete`), each with the events it
sends in their order, and the AI's chat turns, one step per await of
`runChatTurn`. `Resolve` removes an arbitrary set of the living, and somebody if
this browser's ballot counts; `Game` says which set. `Fold` is
`applyServerEvent`: one operator for each event, a few lines each, so that a
reader can hold them against the `case`s of the reducer.

`Cut` is the end of the seated connection, with any part of both queues lost; the
gateway binds the seat to no other connection, so it happens once. The browser
then handles what had arrived, notices (`Notice`), retries (`Reopen`) until a
socket opens (`Opened`), which is a stranger to the room, and may lose it again.
A rejection of `generateMessage` is caught nowhere and ends the process
(`GenerateFails`), which a browser cannot tell from a cut.

### Faucet

A request is at the balance read or at the send; `lastDrip` is the set of
addresses that cool, and the end of a cooldown is an action.

## 3. What TLC checks

Sizes are distinct states.

| run | instance | shows |
|---|---|---|
| `table` (624 000) | 3 humans, a bloc of 2 AI, 2 rounds, buy-in 9, 10 %, both modes, abort in any phase | `PoolConserved`, `UndecidedWhilePlaying`, `SettlementSound`, `BlocVotesTogether`, `VotesLocked`, `EveryVoteCounts`, `DemoVerdict`, `OneThread`, `CompletesOnce`, `Completes`, refinement of `Match` |
| `money` (115 000) | 2 games, 3 wallets, prices 1 and 2, 2 players per game | `Solvent`, `OneDepositPerWallet`, `MoneyWithinReach`, `LifecycleOrder`, refinement of `Vault` |
| `lobby` (512 000) | 2 games, players for the first of them, 3 wallets, 2 sockets, 2 seats, chain calls that may throw | `SeatedHavePaid`, `SeatsDistinct`, `TableHasRoom`, `NoOverdraft`, `CountdownMeansQuorum`, `RosterFrozen`, `LobbyLaunches`, `DoorsReopen` |
| `guests` (804 000) | 3 sockets that join, 1 that also queues with up to 2 `join_queue` calls at a time, tables of 4, cap of 1 | `LobbyWithinCap`, `NoGhosts`, `VoiceIsOwn`, `TablesAreFull`, `GuestsPlay` |
| `client` (616 000) | 2 humans, 1 AI, 2 rounds, a clock that waits while 2 or more events queue, 2 ballots under way | `AITypingEndsAtLock`, `SpeaksInItsTurn`, `BallotReceipt`, `CaughtUp`, `VotesInTimeCount`, `SeesTheReveal`, `AlwaysComesBack` |

Seven runs show that the code disagrees with what the repository says of it.
They expect a violation, and `PROJECT.json` "findings" quotes both sides.

| run | claim | what TLC finds |
|---|---|---|
| `unseated` | the amounts signed are for "the *escrowed* pool = startPool" (`settle.ts`) | whoever pays and leaves before the launch, or pays after it, is in the escrow's pool only; the settlement of such a game reverts |
| `quorum` | "at countdown end the game is locked on-chain" (`demoLobby.ts`) | a table between the server's quorum and the contract's plays while the escrow is Open |
| `ghost` | a closed socket is dropped "from the open lobby" (`gateway.ts`) | a socket that closes during the deposit poll is seated afterwards |
| `ballot` | `myVote` "locks on first cast ... and is never overwritten" (`store.ts`) | a second press before the receipt overwrites it; the room counts the first ballot, the browser locks the second |
| `drip` | "concurrent requests can't double-drip the same address" (`http/server.ts`) | two requests that overlap at the balance read are both paid |
| `overlap` | `formLobby` "returns null if fewer than MIN_HUMANS are available" (`queue.ts`) | two `join_queue` messages in one chunk both count two in the queue; the first call takes both, the second forms a room without humans |
| `twice` | a repeated `request_join` "is harmless" (`use-lobby-join.ts`) | after its game started, the same socket gets a seat at a second table |

### Bounds, and why they are enough

- *Seats and rounds.* Three humans and two AI are the smallest table at which a
  bloc has two members, a first round may end in a human win, an AI win at
  parity or neither, and ties remove humans, AI or both. Two rounds are the
  fewest with a stale vote task, a second penalty and a last round. The
  buy-in 9 makes the penalty and the split leave a remainder.
- *Escrow.* Two games show that one cannot touch the other's money; three
  wallets and a cap of two make the cap bite; two prices, that a change between
  two joins matters. `MaxListed` = 2 survivors allow a repeated wallet and a
  partial failure of the pushes.
- *Lobby.* Three wallets paying for two seats overfill the table if anything does,
  and with two sockets one of them must confirm for two, as a socket may. A socket
  connects once: one that comes back has a new id in the code as well. `Joinable`
  bounds the games that clients pay for to the first of the two: the second opens,
  or fails to, after the launch of the first, and nobody comes to it. The proofs
  have no such bound. `MaxPlayers` = `MaxHumans`, as in the code (both 9); in `quorum` the
  contract's quorum is larger than the server's, as by default (6 and 2).
  `lobby` ends when its two game ids are used up, which `DoorsReopen` allows for.
- *Gateway.* Three sockets fill a table (`MaxHumans` = 3 of 4), leave seats
  to be renumbered and come back. `RoomIds` bounds the rooms that run or are
  referred to; `Spare` keeps two ids for the lobby so that the bound never keeps
  a guest out. `MaxCalls` is the number of `join_queue` messages in one chunk: two,
  the fewest that overlap; the proofs have any number. With one queuer and
  `MinHumans` = 1 the second call of `guests` pops an empty queue and a table
  without humans starts; `TablesAreFull` covers that table too, and `QueueSeatsHumans`,
  which run `overlap` refutes with three queuers and the quorum of 2, says what it
  lacks. `LobbyWithinCap` counts the rooms of the lobby. All rooms together exceed
  `MaxGames` in `guests`, because the queue never asks: a guest sits, the queue forms
  a room, the countdown launches another. `config.ts:53` speaks of all running rooms
  of the process, and of them it is false.
- *Viewer.* Two other seats give the ballot a choice and let this player be
  voted out while the game goes on; two rounds are the fewest with a late turn, a
  late ballot and a stale receipt. `MaxLag` = 1 stops the clock while two or more
  events wait, but one step of it sends up to three, so the browser can be a whole
  phase behind. `MaxCasts` = 2 ballots without a receipt are the fewest for a
  double press; without a bound the button can be pressed for ever. With
  `MaxLag` = 3 (1 060 000 states) nothing changes.
- *Faucet.* One address and two requests; `MaxDrips` bounds the history.
- `PenaltyPct`, `BuyIn`, `MaxRounds`, `SeatCount` and the sets of AI and funded
  seats are arbitrary in the proofs.

`CHECK_DEADLOCK FALSE` is set where the system may really stop: a finished game,
a dead process, players or sockets that do nothing.

### Fairness

- `Game`: `WF` of the lifecycle while the process is up. Timers fire and the
  repositories, which are in memory, return. Nothing is assumed of the players or
  of the language model; `Completes` holds with both silent for ever.
- `DemoLobby`: `WF` of `CreateAnswered`, `Launch` and `LockAnswered` for each
  game: calls to the chain are answered or throw, timers fire. Nothing is assumed of
  polling, of landing or of the length of a game.
- `Gateway`: `SF` of the countdown, because sockets may open a chunk of messages
  between any two events and the timer is only disabled while one is being handled
  (node's event loop returns to its timers); `WF` of the microtask that is next.
- `Viewer`: `WF` of the room's clock, of the browser's handling of what has
  arrived, of noticing a dead connection (close event or the 45 s watchdog) and
  of the retry timer; `SF` of `Opened`: a server that is tried for ever answers
  some day. Chat turns, ballots and the network are free. `SeesTheReveal` excuses
  a cut connection, which the room does not know how to take back.
- `Escrow`, `Faucet`: safety only, no fairness.

## 4. What TLAPS proves

For every value of the constants that satisfies the named assumptions
(`GameAssumption`, `EscrowAssumption`, `LobbyAssumption`, `GatewayAssumption`,
`ViewerAssumption`), which TLC evaluates on each run. They say that amounts and
limits are natural numbers, that special values are not among the ordinary ones
and that a contract has finitely many games and wallets. Every safety property
of a passing run is proved except half of one (see the end of the section).
Every inductive invariant was checked by TLC on a small instance before it was proved.

**Game** (`GameProofs`). The inductive invariant `IInv` is the conjunction of
`TypeOK`, `PoolConserved`, `OneThread`, `SettlementSound` and six facts that
make them inductive:

- `CompletedLast`: a complete game has no timer and no coroutine;
- `BuiltLast`: once the settlement is built no timer is armed and only its own
  awaits remain. `SettlementSound` relates the settlement to the seats that are
  alive, so it needs that no `Resolve` can follow;
- `SettlingIsBuilt`: those awaits occur only with a settlement;
- `NotStarted`: round 0 is exactly the time before the first `beginRound`. Without
  it a ballot could be reset inside its round;
- `ModeFollows`: what the mode excludes (a demo has one round and no
  settlement, the money game none of the demo's awaits) and, for a demo that is
  complete, the verdict its table calls for;
- `Undecided`: whenever a round may still be resolved, the win check of the
  standing says "none".

`OneThread` carries the argument: a suspended coroutine excludes an armed
timer, so `Resolve` cannot run beside `complete`. The proof has one lemma per
group of actions; `Resolve` rests on lemmas about the operators
(`PenaltyBounded`, `SettlementConserves`, `ResolveRoundType`). The theorems
`TypeCorrect`, `Conservation`, `SingleThread`, `CompletionOnce`,
`PlayedUndecided`, `SettlementCorrect`, `BallotsLocked` and `DemoReveal` follow.
They hold in both modes and with `abort()` called from any phases.

Three more theorems say what no run asks of `Game`. `RoomIsDriven`: a room that is
not over has an await or a timer pending, and the timer that ends a vote finds its
window, so `resolve` never returns early and leaves nothing behind. `RoomRunsDown`:
`StepsLeft`, at most `4 * MaxRounds + 5`, falls with every step of the lifecycle, and
nothing raises it. Together they are all of `Completes` but its fairness, that a
pending step is taken some day. `SettlementDivides` is the guarantee that `DemoLobby`
relies on (`GameOver` there lets a room end with any division of its start pool
among funders that were seated). The two modules meet in this formula; no module
composes them.

**Refinement** (`GameRefinement`). `GameImplementsMatch`: every behaviour of
`Game` is one of `Match`, in either mode, aborted or not. The refinement mapping
(`Stage`, `Verdict`) takes the stage from the settlement, the demo's await and
the completion, and the verdict from the settlement or, in a demo, from the
standing; `abort()` changes neither. It rests on `IInv` and on one lemma for each kind of step.
`VerdictIsFinal` is read off the refinement: a step of `Match` after the verdict changes
nothing, so whatever ballots, awaits and calls of `abort()` still come, neither do they.

**Ballots** (`BallotProofs`). `BlocStaysTogether` and `VotesCount`. Vote tasks are
not awaited, so those of several rounds run at once; what keeps them apart is their
round. `BInv` adds to `IInv` that the window is timed, that the ballot is blank
and no task is about the round before its window (`BlankBefore`), that at most
one task is about the open round (`OneTask`) and that the bloc's votes in the
ballot are for its target while its remaining voters have none (`BlocFollows`).
Without the last two a late task could split the bloc. `VotesCount` needs that
somebody with the most votes exists, which is an induction over the numbers
(`LeastExists` in `Facts`).

**Escrow** (`EscrowProofs`). `DepositsSound`: if no price is zero, a pool is one
deposit per counted wallet, at the price of its game. Its invariant adds that a
game nobody created is empty. With a price of zero, `deposit != 0` does not
recognise a wallet that joined, so the assumption `0 \notin Prices` is needed;
it is the hypothesis of `DepositsSound` and `EscrowIsVault` only. The default of
`BUY_IN_WEI` and the prices of the contract's tests are positive; the contract
itself does not refuse a zero, which is a hazard in `PROJECT.json`.
`LifecycleFollowed` needs no assumption on prices.

`AlwaysSolvent` is about sums over all games and wallets. It is not inductive:
`abortGame` replaces the pool by the deposits as what the contract answers for,
so `Books` adds `PoolIsStakes`, that the pool of a live game is the sum of its
deposits. `TypeCorrect` (the balance is never negative) and
`ClaimsAlwaysCovered` (each refund and withdrawal is covered) follow from the books.
`Facts` shows how a sum changes when one entry does, by induction over finite
sets: the set of subsets for which the claim holds takes the place of the
predicate that the library's induction theorems would need.
`EscrowIsVault`: each transaction of the contract is a step of `Vault` or a
stutter, for any games, wallets and failing pushes. `ClaimsAreTheirOwners`: a
deposit goes by its owner's refund or the settlement of its locked game, a deferred
payment by its owner's withdrawal and by nothing else, and the pool and deposits of a
locked game stay as they are until it is settled. With `ClaimsAlwaysCovered` a claim
stays, and the money for it, until its owner collects.

**Paid lobby** (`LobbyProofs`). The chain under the lobby is an instance of
`Escrow`; `EscrowProofs` is instantiated with the lobby's constants, and what it
says of each transaction (`Books`, its `IInv`) becomes the part `ChainSound` of the
invariant. `LInv` adds: a lobby in the making follows a launched one (`OneDoor`);
a game is locked or settled only after its launch (`LaunchedFirst`), or a
settlement could come before the room; no seat in a game that has no deposit
for it (`SeatsPaid`); no more seats than the contract has players (`SeatsCapped`),
which follows from seats being distinct and paid and deposits being counted; and
`RoomsFunded`, that a room plays for its frozen roster times the buy-in.
`TablesNumbered`, `SeatsArePaid`, `CountdownsHaveQuorum`, `PoolsCoverRooms` and
`RostersStayFrozen` hold without further assumptions. `TablesHaveRoom` and
`LobbyTypeCorrect` assume `MaxPlayers <= MaxHumans` (9 and 9, `ImpostorEscrow.sol:40`
and `config.ts:47`): nothing in the lobby stops two confirmations from overfilling
a table, the contract's cap does, and this is where the proof needs it.

`SInv` follows the settlements on their way to the chain: the signer and the
treasury are configured, each settlement divides what its roster paid among wallets
of the roster (`Divides`), and `GamesSettleOnce`. From it, `OnlyUnseatedMoneyBlocks`: a
settlement of a locked game passes every check of `ImpostorEscrow.settle` but
conservation for certain, and conservation exactly when the wallets that paid are
those that were seated. The run `unseated` shows a locked game whose settlement
reverts; the theorem shows that there is no other way for a locked one (a game that
was never locked, run `quorum`, is not settled either). `LobbyIsDriven` is the part of
`LobbyLaunches` and `DoorsReopen` that needs no fairness: an open lobby with its
quorum has its countdown, and with no lobby open the next one is on its way as long
as game ids are left.

**Gateway** (`GatewayProofs`). `GInv` is `NoGhosts` and `VoiceIsOwn` with:

- `Routes`, `Rooms`, `Lobby`, `Queue`: types, and that a socket that is gone has no
  route, or the next one with its id would speak for its seat;
- `SeatsInOrder`: the i-th guest has seat i - 1. Without it two guests could be bound
  to one seat at the launch, and one of them would speak for the other;
- `LobbyIsOpen`: an open lobby is not full;
- `PlaceKept`: while somebody is seated fewer rooms of the lobby run than the cap
  allows. The cap is read when a guest joins and a room starts much later, so
  `LobbyWithinCap` alone is not inductive.

`RoomStarts` says what `startGame` does to both routing tables, `UnseatKeeps` what
renumbering does to the guests; each action has its lemma. `LobbyHasNoGhosts`,
`RoutesAgree`, `LobbyKeepsToTheCap`, `GatewayTypeCorrect` and `TablesStartFull` (a seat
of the house and at most `MAX_HUMANS` humans at every table, full tables of the lobby)
hold for any number of sockets and of overlapping `join_queue` calls. A minimum of
humans at a table of the queue does not (run `overlap`). `ShortOnlyIfOvertaken` says
what is left of it: such a table is short of `MIN_HUMANS` only if its call finds
fewer in the queue than it had counted, and from the time some call has counted until
it is over only another call that forms a table shrinks the queue, never a player who
leaves it. No socket is queued twice or has two seats at one table
(`NobodyPlaysThemselves`; at two tables it can, which is the finding of run `twice`).
`SeatsNeverRebound`: a seat of a running room may lose its socket and never gets
another, the reason why `Viewer` lets a connection break once. `GuestsAreTimed`:
whoever waits in the guest lobby waits for a timer that is armed, the part of
`GuestsPlay` without fairness.

**Browser** (`ViewerProofs`). What a player sees depends on events that were sent long
ago, so no relation between the room and the store alone is inductive. The
invariant speaks of the *film*: the stores the browser goes through when it
handles what is still in the socket. Every frame is one the player may see
(`Frame`), lines come between frames of their own discussion (`InTurn`), and on
an unbroken connection the last frame shows the room as it is (`Matches`). A
step of the room adds frames at the end (`FilmGrows`), a delivery drops the first,
a cut keeps a beginning. `BallotsFair` says that a ballot on its way is one
the room would take, `NoneAhead` that no vote is counted ahead of its round,
`Unseated` that a browser that has noticed a cut has nothing more to read. The
theorems are `TypeCorrect`, `MarksEnd`, `LinesInTurn`, `ReceiptsTrue`,
`ChangesAddUp` and `BallotsInTimeCount`.

Frames are ordered by `Onward` (round, phase in the round, lines, receipts, the
living), any two of a film and not only neighbours, hence `ScreenNeverGoesBack`: a
lagging screen shows the past in its order. `NeverWithoutSocket` and `ClockRunsDown`
are the parts of `AlwaysComesBack` and `SeesTheReveal` without fairness: one retry
armed whenever there is no socket, and a clock whose every step, of at most
`3 * MaxRounds + 1`, brings the reveal nearer. `OneBallotWouldDo` explains the finding
of run `ballot`: under the extra hypothesis `MaxCasts = 1`, that the button lets a second
ballot out only after the receipt of the first, what `store.ts` says of `myVote` is
true. Its invariant `OneBallot` says that a ballot or a receipt on its way is of the
vote on the screen as long as the screen is in its round, and that nothing on its
way leaves that round before the receipt.

**Only model-checked.** Liveness (`Completes`, `LobbyLaunches`, `DoorsReopen`,
`GuestsPlay`, `SeesTheReveal`, `AlwaysComesBack`), which is out of the prover's
reach: of each, what must be pending or run down is proved as said above, and that
a pending step is enabled and taken is TLC's. Of `MoneyWithinReach` the half that says a refund and a withdrawal are
enabled at once, paused or not; that the money is there is
`ClaimsAlwaysCovered`. The seven findings are counterexamples and need no proof.

## 5. What is not modelled

- *Lobby screens of the web client* (`lobby_open`, `lobby_state`,
  `join_rejected`, the repeated `request_join`) and `disconnect()` of the socket:
  they keep no state that the rest of a game reads. The pot, the prompts and the
  deadlines on the play screen are copied from events.
- *The lines of humans*: posted in the handler that receives them, under the guard
  that `MayPost` has for AI lines.
- *Persistence*: only as awaits. The repositories that are wired never reject; the
  postgres ones are a skeleton.
- *Language model, personas, cadence, moderation, anti-tells, identity*: what is
  said and how fast. Answers arrive at any time, with any choice, or not at all.
- *`BLOC_COHESION` below 1*: the value is fixed at 1.0 in `config.ts`.
- *Signatures*: EIP-712 encoding and recovery are a key.
- *Protocol schemas, broadcast projection, metrics, configuration, bootstrap*:
  pure functions and wiring.
- *Pages, components, audio, wallet hooks, mock server, deploy scripts, ABI,
  vendored contract libraries, design reference*: rendering, data and third-party
  code. They are most of the repository: the map covers about half of the lines
  of the files it touches, and those files are the ones with state. The rest is
  JSX, prompt texts, an ABI, OpenZeppelin's scripts and mock-ups, of which there
  is nothing to state.

## 6. Plan

Done, in this order: `Resolution` and `Game` with `Match`; `GameProofs` and
`GameRefinement`; `Escrow` with `Vault` and `EscrowProofs`; `DemoLobby` over
`Escrow`; `Gateway`; both modes of a room in one instance and the refinement
without assumptions; `Viewer`, which took over the chat turns; `Faucet`;
`BallotProofs`; `Facts` and the books and the refinement of `Escrow`;
`LobbyProofs`; `GatewayProofs`; `ViewerProofs`.

Then, in the proofs, what drives each component (`RoomIsDriven`, `LobbyIsDriven`,
`GuestsAreTimed`, `NeverWithoutSocket`) and how far it runs (`RoomRunsDown`,
`ClockRunsDown`); the settlement from the room to the chain (`SettlementDivides`,
`GamesSettleOnce`, `OnlyUnseatedMoneyBlocks`, `ClaimsAreTheirOwners`); and how much of a
claim is left where a run refutes it (`ShortOnlyIfOvertaken`, `NobodyPlaysThemselves`,
`OneBallotWouldDo`).

Left: a module that composes `Game` with `DemoLobby`, so that one specification and
not two formulas carries a settlement from the vote to the chain.

And, if the code grows: a grace window that binds a seat to a new
connection (`Viewer`, `Gateway`), repositories that reject (`Game`).
