CONSTANTS
  a1 = a1
  w1 = w1
  w2 = w2
  Workers = {w1, w2}
  LastYear = 2
  Accounts = {a1}
  Share <- MCShare
  Drafts <- RequestDrafts
  OpeningDrafts <- Reopenings
  Openings0 <- MCOpenings
  MaxEvents = 3
  MaxAmount = 100
SYMMETRY WorkerSymmetry
SPECIFICATION SpecRequests
INVARIANTS
  RequestsOK
  LossConservation
  CompensationsOfClosedYears
  TaxBaseBackedByLedger
