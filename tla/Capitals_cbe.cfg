CONSTANTS
  a1 = 1
  a2 = 2
  LastYear = 3
  Accounts <- MCAccounts
  LastAccount = 2
  Opening <- MCOpening
  Files <- NoFiles
  Drafts <- MCDrafts
  TransferDrafts <- MCTransfers
  MaxEntries = 4
  YearOfBase <- MCYearOfBase
  Share <- MCShare
  AnnualLimit = 3
  QuarterlyLimit = 6
  ValuationDrafts <- MCValuations
SPECIFICATION Spec
INVARIANTS
  CapitalsTypeOK
PROPERTIES
  TransfersKeepCash
  ReportKeepsCapitals
