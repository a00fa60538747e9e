SPECIFICATION FairSpec
CONSTANTS
  MaxHead = 3
  MaxOther = 1
  MaxQueue = 2
  MaxScore = 3
  Difficulties <- OneDifficulty
  NotReady <- MayNotBeReady
  Failing <- NoCalls
INVARIANTS
  TypeOK
  GuardsTrackCandidate
  CommitCanRestart
  AnswersAreNotAhead
  AnswersImprove
  StopsOnlyWhenTold
PROPERTIES
  ImplementsPowNode
  CommitRearmsTimer
  LastHeadIsPublished
  StopsWhenTold
