--------------------------------- MODULE Ptax ---------------------------------
(***************************************************************************)
(* The table of exchange rates as a cache of the central bank's quotes,    *)
(* after fx/service.py and fx/models.py.  Rows of the two quote types      *)
(* never meet: this is the table of one type.  `cache' is the sequence of  *)
(* the rows in id order, which is also the order they were fetched in.     *)
(***************************************************************************)
EXTENDS Position

CONSTANTS
  LastDate,     \* the dates are 1..LastDate, one after the other
  CalendarYear, \* the year of each date
  Published,    \* the dates for which the central bank has a quote
  Quote,        \* what it is
  ManualRates,  \* the rates the user may enter
  Lookback      \* how many dates a lookup tries

Dates == 1..LastDate
Rates == {Quote[d] : d \in Published} \cup ManualRates

ASSUME PtaxAssumption ==
  /\ LastDate \in Nat /\ Lookback \in Nat /\ Published \subseteq Dates
  /\ CalendarYear \in [Dates -> Nat]
  /\ Quote \in [Published -> Nat] /\ ManualRates \subseteq Nat

PtaxRate == [requested: Dates, effective: Dates, rate: Rates, manually_overridden: BOOLEAN]

RowsFor(cache, date, manual) ==
  {i \in DOMAIN cache : /\ cache[i].requested = date
                        /\ cache[i].manually_overridden = manual}

Known(cache, date) == \E i \in DOMAIN cache : cache[i].requested = date

(* What a lookup answers for a date that is known: the latest manual rate,
   otherwise the first one that was fetched for this date. *)
RateFor(cache, date) ==
  LET manual == RowsFor(cache, date, TRUE)
      cached == RowsFor(cache, date, FALSE)
      i == IF manual # {} THEN CHOOSE m \in manual : \A n \in manual : n <= m
                          ELSE CHOOSE m \in cached : \A n \in cached : m <= n
  IN  cache[i].rate

(* Otherwise the central bank is asked for the date and the ones before it.
   A date in `down', for which it does not answer, is passed over like one
   that it has no quote for. *)
Quoted(date, down) ==
  {e \in Published \ down : date - Lookback < e /\ e <= date}

Fetched(date, down) ==
  LET e == CHOOSE e \in Quoted(date, down) : \A f \in Quoted(date, down) : f <= e
  IN  [requested |-> date, effective |-> e, rate |-> Quote[e], manually_overridden |-> FALSE]

(* uniq_ptax_effective_quote *)
Conflicts(cache, row) ==
  \E i \in DOMAIN cache :
    /\ ~ cache[i].manually_overridden /\ ~ row.manually_overridden
    /\ cache[i].effective = row.effective

Stored(cache, row) == IF Conflicts(cache, row) THEN cache ELSE Append(cache, row)

(* PtaxService.get_rate: the table afterwards, and whether there is an
   answer; an error is a date without quotes or a row that cannot be made. *)
get_rate(cache, date, down) ==
  IF Known(cache, date) THEN [cache |-> cache, answered |-> TRUE]
  ELSE IF Quoted(date, down) = {} THEN [cache |-> cache, answered |-> FALSE]
  ELSE [cache    |-> Stored(cache, Fetched(date, down)),
        answered |-> ~ Conflicts(cache, Fetched(date, down))]

ManualRow(date, rate) ==
  [requested |-> date, effective |-> date, rate |-> rate, manually_overridden |-> TRUE]
===============================================================================
