CONSTANTS
  home = home
  a1 = a1
  a2 = a2
  l1 = l1
  l2 = l2
  Home = home
  Addrs = {a1, a2}
  LocalAddrs = {l1, l2}
  RemoteMayMigrate = TRUE
  Prio <- MCPrio
  Predictions <- PredictSecond
  MaxCandidates = 3
  MaxPairs = 3
  MaxConcurrent = 2
  MaxRetries = 1
  MaxRoundGap = 1
  MaxLive = 2
  MaxSeq = 2
  MaxPunches = 0
  MaxChallenges = 1
  MaxRounds = 0
  Calls = {1, 2, 3}
  DialSettings <- DialSettingSet
SPECIFICATION ReachSpec
CHECK_DEADLOCK FALSE
INVARIANTS PairIndexBest UsableIsProven OneDialInTime DialsAreOwned FailedTriedAll
PROPERTIES DialsEnd
