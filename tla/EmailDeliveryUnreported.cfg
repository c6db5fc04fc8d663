SPECIFICATION SpecUnreported
CONSTANTS
  Emails = {e1}
  Workers = {w1, w2, w3}
  NoEmail = NoEmail
  MaxEdits = 1
INVARIANT ExclusiveReservation
CHECK_DEADLOCK FALSE
