CONSTANTS
  a1 = a1
  LastYear = 3
  Accounts <- MCAccounts
  Share <- HalfShare
  Drafts <- LedgerDrafts
  OpeningDrafts <- Reopenings
  Openings0 <- FiveUnits
  MaxEvents = 4
  MaxAmount = 100
SPECIFICATION Spec
INVARIANTS
  TypeOK
  LossConservation
  CompensationsOfClosedYears
  FifoOrder
  TaxBaseBackedByLedger
  CarryforwardIsLedgerBalance
  ClosedSalesCovered
  ClosedPrefixReproducible
  AssetsExplained
PROPERTIES
  ClosingSealsYears
