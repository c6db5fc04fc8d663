SPECIFICATION Spec
CONSTANTS
  Values = {v1, v2}
  MaxWrites = 2
  MaxOperations = 1
  MaxLoads = 1
  Budgets = {"b1", "b2"}
  Called = "b2"
  Coverages = {"", "unpaid"}
  Nothing = Nothing
  MaxModels = 1
  Uploads = {f, g}
  Sizes = {2}
  Limit = 3
  MaxCalls = 2
  Names = {"a", "p"}
  Roots = {"p"}
  Suggestions <- MCSuggestions
  Written <- MCWritten
  MaxRows = 2
  MaxBudgets = 2
  References = {0, 1}
  Lots = {1}
  TableRows = {"r1"}
  AbsentRow = "new"
  MaxTableWrites = 3
  MaxTableLoads = 2
SYMMETRY MCSymmetry
CONSTRAINT MCBound
INVARIANTS
  OneEntryPerOperation
  PagesAreCoherent
PROPERTIES
  StepsActOnWhatIsShown
  ImplementsLatestAnswer
