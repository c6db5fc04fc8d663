SPECIFICATION FairSpec
CONSTANTS
  Accounts = {a1, a2}
  Tokens = {t1, t2}
  Requests = {r1, r2}
  Administrators = {a1}
  NoAccount = NoAccount
  NoVersion = NoVersion
  MaxVersion = 1
CONSTRAINT MCBound
INVARIANTS
  TypeOK
  AdministratorRemains
  RequestsMatchAccounts
PROPERTIES
  DecisionsAreInformed
  ImplementsAtomicAccounts
  RequestsEnd
