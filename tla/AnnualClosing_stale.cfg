CONSTANTS
  a1 = a1
  LastYear = 2
  Accounts <- MCAccounts
  Share <- MCShare
  Drafts <- CostDrafts
  OpeningDrafts <- NoOpenings
  Openings0 <- MCOpenings
  MaxEvents = 3
  MaxAmount = 100
SPECIFICATION Spec
INVARIANTS
  ClosedYearReproducible
