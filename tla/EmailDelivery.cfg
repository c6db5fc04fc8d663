SPECIFICATION FairSpec
CONSTANTS
  Emails = {e1, e2}
  Workers = {w1, w2}
  NoEmail = NoEmail
  MaxEdits = 2
INVARIANTS
  TypeOK
  ExclusiveReservation
  InFlightIsLocked
  ClaimableIsUndelivered
  OneDeliveryPerAuthorisation
  SentIsWhatWasDelivered
PROPERTIES
  ImplementsPermit
  DeliveryEnds
CHECK_DEADLOCK FALSE
