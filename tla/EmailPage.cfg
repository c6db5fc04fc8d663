SPECIFICATION FairSpec
CONSTANTS
  Queries = {"", "q"}
  States = {"", "WAITING"}
  PageSizes = {1, 2}
  Emails = {1, 2}
  Lists = {"c1", "c2"}
  NoCampaign = NoCampaign
  CampaignOf <- MCCampaignOf
  Matches <- MCMatches
  MaxSettings = 1
  NoAnswer = NoAnswer
CONSTRAINT MCBound
INVARIANTS
  SelectionIsOnPage
PROPERTIES
  ConfirmedAsShown
  ImplementsLatestAnswer
  OperationsEnd
