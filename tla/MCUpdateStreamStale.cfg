SPECIFICATION Spec
CONSTANTS
  MaxHead = 2
  MaxOther = 0
  MaxQueue = 1
  MaxScore = 2
  Difficulties <- OneDifficulty
  NotReady <- NoCalls
  Failing <- NoCalls
INVARIANTS
  FinalizedWithCurrentConsensus
