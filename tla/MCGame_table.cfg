SPECIFICATION Spec
CONSTANTS
  SeatCount = 5
  AISeats <- MCAISeats2
  Funded <- MCFunded2
  MaxRounds = 2
  Modes = {TRUE, FALSE}
  NoVote = NoVote
  NoSettlement = NoSettlement
  BuyIn = 9
  PenaltyPct = 10
  AbortPhases <- AnyPhase
INVARIANTS
  TypeOK
  PoolConserved
  UndecidedWhilePlaying
  SettlementSound
  BlocVotesTogether
  OneThread
  CompletesOnce
  DemoVerdict
PROPERTIES
  VotesLocked
  EveryVoteCounts
  MatchSpec
  Completes
\* A finished game stops, and so does a dead process.
CHECK_DEADLOCK FALSE
