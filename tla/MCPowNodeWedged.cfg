SPECIFICATION Spec
CONSTANTS
  Consensus = {a1, a2}
  NoConsensus = none
  MaxHead = 3
  NotReady <- MayNotBeReady
  Failing <- OnlyInitialize
INVARIANTS
  CommitCanRestart
