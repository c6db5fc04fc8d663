SPECIFICATION Allocations
CONSTANTS
  u1 = u1
  u2 = u2
  u3 = u3
  u4 = u4
  Units = {u1, u2, u3, u4}
  Position <- MCPosition
  MaxAmount = 13
  MaxShare = 4
INVARIANTS
  SumIsExact
  LargestRemaindersFirst
CHECK_DEADLOCK FALSE
