SPECIFICATION Spec
CONSTANTS
  MaxBlock = 6
  Works <- TwoWorks
  MaxOdd = 1
  MaxLost = 0
INVARIANTS
  TypeOK
  DescendantsAreCommitted
  EqualHeightsByWork
  NoFlipFlop
  AnnouncedIsJudged
PROPERTIES
  HeadNeverRewinds
CHECK_DEADLOCK FALSE
