SPECIFICATION Spec
CONSTANTS
  Cotisations = {c1, c2}
  Payments = {p1, p2}
  Entries = {e1, e2, e3}
  NoEntry = NoEntry
  MaxAmount = 2
SYMMETRY Symmetry
INVARIANTS
  NeverNegative
  SumsAreStandingEntries
