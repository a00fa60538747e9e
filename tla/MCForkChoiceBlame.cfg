SPECIFICATION Spec
CONSTANTS
  MaxBlock = 3
  Works <- TwoWorks
  MaxOdd = 0
  MaxLost = 1
INVARIANTS
  AnnouncedIsJudged
