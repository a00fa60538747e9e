SPECIFICATION FairSpec
CONSTANTS
  MaxChallenges = 3
  MaxScore = 3
  Difficulties <- MCDifficulties
INVARIANTS
  MinerTypeOK
  YieldsOnlyImprovements
  FreshOnceAcknowledged
  YieldsMeetDifficulty
  NeverDisconnected
PROPERTIES
  ImplementsAnswerBox
  ChallengeReachesWorker
  DropJoins
