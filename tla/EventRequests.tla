---------------------------- MODULE EventRequests ----------------------------
(***************************************************************************)
(* The handlers of AnnualClosing cut where other requests can get between. *)
(*                                                                         *)
(* The server is threaded and opens no transaction around a request: every *)
(* statement outside `transaction.atomic' commits by itself, and recording *)
(* an event waits for the PTAX service between its checks and its writes.  *)
(* A transaction is atomic (the database is SQLite, it serialises them) or *)
(* fails as a whole.  What a request read and checked before is kept in    *)
(* request[r], with the step it takes next:                                *)
(*                                                                         *)
(*   fetching      the event may be recorded; waiting for its PTAX rate    *)
(*   deactivating  a correction about to save the original as inactive     *)
(*   creating      about to create the event                               *)
(*   removing      a deactivation about to save the event as inactive      *)
(*   opening       about to insert an opening position                     *)
(*   closing       the year was found open, its transaction comes next     *)
(*   reopening     no later year was found closed                          *)
(***************************************************************************)
EXTENDS AnnualClosing

CONSTANT Workers   \* the threads that serve requests

ASSUME WorkersAssumption == IsFiniteSet(Workers)

VARIABLE request

requestVars == <<vars, request>>

Idle == [step |-> "idle"]

Requests ==
  {Idle}
  \cup [step: {"fetching", "deactivating", "creating"}, draft: Drafts, original: 0..MaxEvents]
  \cup [step: {"removing"}, original: EventIds]
  \cup [step: {"opening"}, opening: OpeningDrafts]
  \cup [step: {"closing", "reopening"}, year: Years]

Answer(r) == request' = [request EXCEPT ![r] = Idle]
Goto(r, step) == request' = [request EXCEPT ![r].step = step]

(* Events about to be created, for the bound on events. *)
Pending == {r \in Workers : request[r].step \in {"fetching", "deactivating", "creating"}}

-------------------------------------------------------------------------------
(* EventCreateView and EventCorrectView: the original, 0 for a new event, is
   read as active, then EventService.record checks the years and custody. *)
StartRecord(r, d, original) ==
  /\ request[r] = Idle
  /\ Len(events) + Cardinality(Pending) < MaxEvents
  /\ original # 0 => events[original].active /\ Open(ano_fiscal_de(events[original]))
  /\ Admitted(d)
  /\ request' = [request EXCEPT ![r] = [step |-> "fetching", draft |-> d, original |-> original]]
  /\ UNCHANGED vars

(* The rate is there: a correction goes on to save the original, whose save
   looks at its year again. *)
RateArrives(r) ==
  /\ request[r].step = "fetching"
  /\ LET original == request[r].original
     IN  IF original = 0 THEN Goto(r, "creating")
         ELSE IF Open(ano_fiscal_de(events[original])) THEN Goto(r, "deactivating")
         ELSE Answer(r)
  /\ UNCHANGED vars

(* No quotation in ten days, or the service is down: nothing is written. *)
RateUnavailable(r) ==
  /\ request[r].step = "fetching"
  /\ Answer(r)
  /\ UNCHANGED vars

DeactivateOriginal(r) ==
  /\ request[r].step = "deactivating"
  /\ events' = [events EXCEPT ![request[r].original].active = FALSE]
  /\ Goto(r, "creating")
  /\ UNCHANGED <<openings, loss, comp, lastLossId, assessment>>

CreateEvent(r) ==
  /\ request[r].step = "creating"
  /\ events' = IF request[r].draft.taxFactsValid
               THEN Append(events, NewEvent(request[r].draft, request[r].original))
               ELSE events
  /\ Answer(r)
  /\ UNCHANGED <<openings, loss, comp, lastLossId, assessment>>

(* EventDeactivateView: the event is read as active, its save looks at its
   year and then writes. *)
StartDeactivation(r, i) ==
  /\ request[r] = Idle
  /\ events[i].active /\ Open(ano_fiscal_de(events[i]))
  /\ request' = [request EXCEPT ![r] = [step |-> "removing", original |-> i]]
  /\ UNCHANGED vars

Deactivate(r) ==
  /\ request[r].step = "removing"
  /\ events' = [events EXCEPT ![request[r].original].active = FALSE]
  /\ Answer(r)
  /\ UNCHANGED <<openings, loss, comp, lastLossId, assessment>>

(* OpeningPosition.save: the later years are found open, then the row is
   inserted unless the account has an opening of the same date. *)
StartOpening(r, o) ==
  /\ request[r] = Idle
  /\ \A y \in Closed : y < YearOf(o.date)
  /\ request' = [request EXCEPT ![r] = [step |-> "opening", opening |-> o]]
  /\ UNCHANGED vars

InsertOpening(r) ==
  /\ request[r].step = "opening"
  /\ LET o == request[r].opening
     IN  openings' = IF \A p \in openings : p.account # o.account \/ p.date # o.date
                     THEN openings \cup {o}
                     ELSE openings
  /\ Answer(r)
  /\ UNCHANGED <<events, loss, comp, lastLossId, assessment>>

(* CloseYearView looks the year up before it opens its transaction. *)
StartClosing(r, year) ==
  /\ request[r] = Idle
  /\ Open(year)
  /\ request' = [request EXCEPT ![r] = [step |-> "closing", year |-> year]]
  /\ UNCHANGED vars

Close(r) ==
  /\ request[r].step = "closing"
  /\ CloseTransaction(request[r].year)
  /\ Answer(r)

(* A check of the closing fails, or the database is locked. *)
ClosingFails(r) ==
  /\ request[r].step = "closing"
  /\ Answer(r)
  /\ UNCHANGED vars

(* ReopenYearView looks for later closed years before its transaction. *)
StartReopening(r, year) ==
  /\ request[r] = Idle
  /\ \A y \in Closed : y <= year
  /\ request' = [request EXCEPT ![r] = [step |-> "reopening", year |-> year]]
  /\ UNCHANGED vars

Reopen(r) ==
  /\ request[r].step = "reopening"
  /\ ReopenTransaction(request[r].year)
  /\ Answer(r)

-------------------------------------------------------------------------------
InitRequests ==
  /\ Init
  /\ request = [r \in Workers |-> Idle]

RecordSteps(r) ==
  \/ \E d \in Drafts, original \in {0} \cup DOMAIN events : StartRecord(r, d, original)
  \/ RateArrives(r)
  \/ RateUnavailable(r)
  \/ DeactivateOriginal(r)
  \/ CreateEvent(r)
  \/ \E i \in DOMAIN events : StartDeactivation(r, i)
  \/ Deactivate(r)
  \/ \E o \in OpeningDrafts : StartOpening(r, o)
  \/ InsertOpening(r)

ClosingSteps(r) ==
  \/ \E y \in Years : StartClosing(r, y)
  \/ Close(r)
  \/ ClosingFails(r)
  \/ \E y \in Years : StartReopening(r, y)
  \/ Reopen(r)

NextRequests == \E r \in Workers : RecordSteps(r) \/ ClosingSteps(r)

SpecRequests == InitRequests /\ [][NextRequests]_requestVars

-------------------------------------------------------------------------------
(* Type invariant: the tables keep their types whatever two requests do to
   them, and every request under way is one of the handlers. *)
RequestsOK ==
  /\ TypeOK
  /\ request \in [Workers -> Requests]
  /\ Len(events) + Cardinality(Pending) <= MaxEvents

(* While a year is closed nothing changes its facts.  It fails: the year of
   an event is looked up before the rate is fetched and not again. *)
ClosedYearsKeepFacts ==
  [][\A y \in Closed \cap Closed' : FactsOf(y)' = FactsOf(y)]_requestVars

(* While a year is closed nothing changes its snapshot, its compensations
   and its losses: it has to be reopened first.  It fails: two closings that
   both found the year open both run. *)
ClosedYearsKeepSeals ==
  [][\A y \in Closed \cap Closed' : SealedBy(y)' = SealedBy(y)]_requestVars

(* At most one version of a corrected event is valid.  It fails: two
   corrections that both read the original as active both substitute it. *)
OneValidVersion ==
  \A i \in DOMAIN events :
    Cardinality({j \in DOMAIN events : events[j].active /\ events[j].corrects = i}) <= 1
===============================================================================
