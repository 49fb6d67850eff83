----------------------------- MODULE MCForeignTax -----------------------------
(***************************************************************************)
(* Two years of two dates.  The second date of each has no quote, as on a  *)
(* weekend.  The income of the first year, of an account held in halves,  *)
(* has a federal and a state tax; of the two of the second year one has a  *)
(* federal tax of more than 15%.  The losses limit the tax of both years.  *)
(***************************************************************************)
EXTENDS ForeignTax

MCCalendar == <<1, 1, 2, 2>>
MCPublished == {1, 3}
MCQuote == [d \in MCPublished |-> 4 + d]

MCIncomes == <<[year |-> 1, net |-> 75, fx |-> 5, share |-> 50],
               [year |-> 2, net |-> 70, fx |-> 6, share |-> 100],
               [year |-> 2, net |-> 100, fx |-> 6, share |-> 100]>>
MCLosses == <<100, 200>>

Declared(usd, date, jurisdiction, recoverability) ==
  [usd |-> usd, date |-> date, country |-> "US", jurisdiction |-> jurisdiction,
   tax_type |-> "WITHHOLDING_INCOME_TAX", evidence |-> "BROKER_STATEMENT",
   recoverability |-> recoverability]

Federal == Declared(15, 1, "FEDERAL", "NON_RECOVERABLE")
FederalLater == Declared(15, 4, "FEDERAL", "NON_RECOVERABLE")
Unclassified == Declared(10, 2, "STATE", "UNKNOWN")
State == Declared(10, 2, "STATE", "NON_RECOVERABLE")

MCPayments == <<[income |-> 1, facts |-> Federal],
                [income |-> 1, facts |-> Unclassified],
                [income |-> 2, facts |-> Declared(30, 3, "FEDERAL", "NON_RECOVERABLE")]>>
MCPaymentDrafts == {FederalLater, State}
MCRefunds == <<[income |-> 1, date |-> 2, brl |-> 45], [income |-> 1, date |-> 3, brl |-> 45]>>
MCOutages == {{}, {3}, {1, 3}}
===============================================================================
