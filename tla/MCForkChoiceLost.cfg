SPECIFICATION Spec
CONSTANTS
  MaxBlock = 4
  Works <- TwoWorks
  MaxOdd = 0
  MaxLost = 1
INVARIANTS
  ForkHeadsAligned
