SPECIFICATION Spec
CONSTANTS
  Targets = {"m1", "u1"}
  NoTarget = "none"
  Units = {"u1", "u2"}
  MaxSaves = 2
  MaxRetries = 1
  Addresses = {"a"}
  MaxEdits = 1
  MaxSyncs = 2
  MaxAccess = 1
  Members = {"a", "b"}
  NoMember = "none"
  Templates = {"t"}
  MaxPayments = 1
  MaxVersions = 3
  Revised = {"emails"}
  MaxGrants = 1
  MaxLoads = 2
  Subjects = {s, t}
  Mails = {"e"}
  MaxAttempts = 2
  Requests = {r1, r2}
SYMMETRY MCSymmetry
CONSTRAINT MCBound
INVARIANTS
  VerifiedIsTrue
  PagesAreCoherent
  TourIsCurrent
  SignInIsSound
PROPERTIES
  ActsAsConfirmed
  ProgressIsKept
CHECK_DEADLOCK FALSE
