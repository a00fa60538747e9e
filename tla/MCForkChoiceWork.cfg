SPECIFICATION Spec
CONSTANTS
  MaxBlock = 4
  Works <- TwoWorks
  MaxOdd = 0
  MaxLost = 0
INVARIANTS
  GreaterWorkIsCommitted
