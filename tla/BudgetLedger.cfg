SPECIFICATION Spec
CONSTANTS
  Cotisations = {c1}
  Payments = {p1}
  Entries = {e1, e2}
  NoEntry = NoEntry
  MaxAmount = 1
  Sessions = {s1, s2}
  NoCotisation = NoCotisation
  NoPayment = NoPayment
  InitialAmounts = {1}
  MaxWrites = 2
SYMMETRY Symmetry
INVARIANT TypeOK
PROPERTIES
  PreviewIsHonoured
  ImplementsAtomicLedger
