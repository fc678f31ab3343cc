CONSTANTS
  home = home
  a1 = a1
  a2 = a2
  l1 = l1
  l2 = l2
  Home = home
  Addrs = {a1}
  LocalAddrs = {l1}
  RemoteMayMigrate = TRUE
  Prio <- MCPrio
  Predictions <- NoPredictions
  MaxCandidates = 2
  MaxPairs = 1
  MaxConcurrent = 2
  MaxRetries = 2
  MaxRoundGap = 1
  MaxLive = 1
  MaxSeq = 1
  MaxPunches = 2
  MaxChallenges = 4
  MaxRounds = 1
SPECIFICATION FairSpec
CHECK_DEADLOCK FALSE
INVARIANTS PunchIsSynchronized
PROPERTIES PathMovesAfterPunch RoundEnds
