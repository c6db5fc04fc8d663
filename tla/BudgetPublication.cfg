SPECIFICATION FairSpec
CONSTANTS
  u1 = u1
  u2 = u2
  Units = {u1, u2}
  Position <- MCPosition
  Budgets = {b1}
  Expenses = {x1, x2}
  Labels = {l1, l2}
  Sessions = {s1, s2, s3}
  NoBudget = NoBudget
  NoUnit = NoUnit
  MaxAmount = 2
  MaxShare = 1
INVARIANTS
  TypeOK
  CotisationsMatchExpenses
PROPERTIES
  PublishedIsFrozen
  ImplementsAtomicBudget
  RequestsEnd
