SPECIFICATION Spec
CONSTANTS
  MaxBlock = 4
  Works <- TwoWorks
  NotReady <- MayNotBeReady
  Failing <- AllCalls
INVARIANTS
  TypeOK
  MinesForTheCandidate
  OneBlockPerHead
  HeadsAgreeWhenQuiet
  PublishesWhenQuiet
PROPERTIES
  CommitsArePreferred
CHECK_DEADLOCK FALSE
