SPECIFICATION Spec
CONSTANTS
  ByteBits = 2
  MaxDifficulty = 2
  DigestBytes = 2
  Default <- SmallDefault
  Changes <- SomeChanges
  MaxChanges = 1
  Gaps <- OnePace
  Spans <- Seconds
  MaxBlocks = 3
  MaxWaiting = 2
INVARIANTS
  TypeOK
  SteadyPaceDecides
  SlowerIsNeverHarder
  LostBlocksReset
  FreshAnswersPass
  FreshNodeAgrees
