SPECIFICATION FairSpec
CONSTANTS
  MaxBlock = 3
  Works <- OneWork
  NotReady <- NoCalls
  Failing <- NoCalls
PROPERTIES
  RejectionIsCleanedUp
CHECK_DEADLOCK FALSE
