CONSTANTS
  LastDate = 4
  CalendarYear <- MCCalendar
  Published <- MCPublished
  Quote <- MCQuote
  ManualRates = {3}
  Lookback = 3
  Incomes <- MCIncomes
  Losses <- MCLosses
  PaymentDrafts <- MCPaymentDrafts
  Payments0 <- MCPayments
  RefundDrafts <- MCRefunds
  Outages <- MCOutages
  Screens = {"screen"}
  MaxRates = 3
SPECIFICATION Spec
INVARIANTS
  CreditTypeOK
  CreditBounded
  ClosedCreditReproducible
  ClosedPaymentsClassified
  RefundKeepsAYearOpen
PROPERTIES
  RateInUseStable
