SPECIFICATION Spec
CONSTANTS
  me = me
  h1 = h1
  a1 = a1
  w1 = w1
  NoVote = NoVote
  AISeats <- OneAI
  HumanSeats <- TwoHumans
  Me = me
  Waves <- OneWave
  MaxRounds = 2
  MaxLag = 1
  MaxCasts = 2
CHECK_DEADLOCK FALSE
INVARIANTS
  LockedVoteIsCounted
