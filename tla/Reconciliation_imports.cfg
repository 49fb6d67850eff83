CONSTANTS
  a1 = a1
  a2 = a2
  dividend = dividend
  trades = trades
  LastYear = 2
  Accounts <- MCAccounts
  Opening <- MCOpening
  Files <- MCFiles
  Drafts <- MCDrafts
  TransferDrafts <- MCTransfers
  Documents <- MCDocuments
  MaxEntries = 4
SPECIFICATION Spec
INVARIANTS
  ReconciliationTypeOK
  EveryLineAccountedFor
  ClosedIncomesDeclared
  ClosedUnitsDocumented
  ClosedTransfersPaired
  OpenIssuesOfClosedYears
