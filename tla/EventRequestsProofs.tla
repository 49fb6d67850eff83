-------------------------- MODULE EventRequestsProofs --------------------------
(***************************************************************************)
(* For any number of threads and any interleaving of their requests, also  *)
(* where a check is stale when the write it was made for happens: the      *)
(* tables keep their types, no loss is spent twice or lost, every          *)
(* compensation belongs to a closed year, and what a snapshot deducted is  *)
(* what the ledger gave for it.                                            *)
(*                                                                         *)
(* A request keeps ids of events it read.  Events are never removed, so    *)
(* that they exist at every later step; and the bound on events counts the *)
(* requests that may still create one.                                     *)
(*                                                                         *)
(* Other properties of the closed years fail when requests overlap.  For   *)
(* each there is a theorem that says which overlaps it takes: reopenings   *)
(* under later closed years, transactions of closing and reopening while   *)
(* other requests are under way, two corrections of one event.             *)
(***************************************************************************)
EXTENDS EventRequests, AnnualClosingProofs

(* The steps of a request that ends with a new event, and what a request
   keeps. *)
Recording == {"fetching", "deactivating", "creating"}

Recordings == [step: Recording, draft: Drafts, original: 0..MaxEvents]

(* What a request read still exists in the events. *)
Grounded(q, ids) ==
  /\ q.step \in Recording => q.original \in {0} \cup ids
  /\ q.step \in {"deactivating", "removing"} => q.original \in ids

RequestsSafety ==
  /\ Safety
  /\ request \in [Workers -> Requests]
  /\ Len(events) + Cardinality(Pending) <= MaxEvents
  /\ \A r \in Workers : Grounded(request[r], DOMAIN events)

LEMMA RequestKinds ==
  ASSUME NEW q \in Requests
  PROVE  /\ q.step \in Recording => q \in Recordings
         /\ q.step = "removing" => q \in [step: {"removing"}, original: EventIds]
         /\ q.step = "opening" => q \in [step: {"opening"}, opening: OpeningDrafts]
         /\ q.step \in {"closing", "reopening"}
              => q \in [step: {"closing", "reopening"}, year: Years]
BY DEF Requests, Idle, Recordings, Recording

LEMMA RequestTypes ==
  /\ Idle \in Requests /\ ~ (Idle.step \in Recording) /\ Idle.step = "idle"
  /\ Recordings \subseteq Requests
  /\ [step: {"removing"}, original: EventIds] \subseteq Requests
  /\ [step: {"opening"}, opening: OpeningDrafts] \subseteq Requests
  /\ [step: {"closing", "reopening"}, year: Years] \subseteq Requests
BY DEF Requests, Idle, Recordings, Recording

(* One request moves: the pending ones are one more or one less. *)
LEMMA RequestMoves ==
  ASSUME request \in [Workers -> Requests], NEW r \in Workers, NEW q \in Requests,
         request' = [request EXCEPT ![r] = q]
  PROVE  /\ request' \in [Workers -> Requests]
         /\ \A s \in Workers : request'[s] = IF s = r THEN q ELSE request[s]
         /\ Cardinality(Pending) \in Nat /\ Cardinality(Pending') \in Nat
         /\ Cardinality(Pending') <= Cardinality(Pending) + 1
         /\ q.step \notin Recording \/ request[r].step \in Recording
              => Cardinality(Pending') <= Cardinality(Pending)
         /\ q.step \notin Recording /\ request[r].step \in Recording
              => Cardinality(Pending') = Cardinality(Pending) - 1
<1>1. \A s \in Workers : request'[s] = IF s = r THEN q ELSE request[s]
  OBVIOUS
<1>2. Pending' = IF q.step \in Recording THEN Pending \cup {r} ELSE Pending \ {r}
  BY <1>1 DEF Pending, Recording
<1>3. r \in Pending <=> request[r].step \in Recording
  BY DEF Pending, Recording
<1>4. IsFiniteSet(Pending) /\ Cardinality(Pending) \in Nat
  <2>1. Pending \in SUBSET Workers
    BY DEF Pending
  <2>2. IsFiniteSet(Pending)
    BY <2>1, WorkersAssumption, FS_Subset
  <2>. QED BY <2>2, FS_CardinalityType
<1>5. /\ Cardinality(Pending \cup {r})
           = IF r \in Pending THEN Cardinality(Pending) ELSE Cardinality(Pending) + 1
      /\ Cardinality(Pending \ {r})
           = IF r \in Pending THEN Cardinality(Pending) - 1 ELSE Cardinality(Pending)
      /\ Cardinality(Pending \ {r}) \in Nat
  <2>1. IsFiniteSet(Pending \ {r})
    BY <1>4, FS_RemoveElement
  <2>2. Cardinality(Pending \ {r}) \in Nat
    BY <2>1, FS_CardinalityType
  <2>. QED BY <1>4, <2>2, FS_AddElement, FS_RemoveElement
<1>. HIDE DEF Pending, Recording
<1>6. CASE q.step \in Recording
  <2>1. Pending' = Pending \cup {r}
    BY <1>2, <1>6
  <2>. QED BY <1>1, <1>3, <1>4, <1>5, <1>6, <2>1
<1>7. CASE q.step \notin Recording
  <2>1. Pending' = Pending \ {r}
    BY <1>2, <1>7
  <2>. QED BY <1>1, <1>3, <1>4, <1>5, <1>7, <2>1
<1>. QED BY <1>6, <1>7

(* A step of one request keeps the invariant if it keeps the tables safe and
   the events, and the request stays grounded. *)
LEMMA RequestStepSafe ==
  ASSUME RequestsSafety, Safety', NEW r \in Workers, NEW q \in Requests,
         request' = [request EXCEPT ![r] = q],
         DOMAIN events \subseteq DOMAIN events',
         Grounded(q, DOMAIN events'),
         Len(events') + Cardinality(Pending') <= MaxEvents
  PROVE  RequestsSafety'
<1>1. /\ request' \in [Workers -> Requests]
      /\ \A s \in Workers : request'[s] = IF s = r THEN q ELSE request[s]
  BY RequestMoves DEF RequestsSafety
<1>2. \A s \in Workers : Grounded(request'[s], DOMAIN events')
  BY <1>1 DEF RequestsSafety, Grounded
<1>. QED BY <1>1, <1>2 DEF RequestsSafety

(* A step that only changes the request. *)
LEMMA TablesKeptSafe ==
  ASSUME Safety, UNCHANGED vars
  PROVE  Safety'
<1>1. /\ events' = events /\ openings' = openings /\ loss' = loss /\ comp' = comp
      /\ lastLossId' = lastLossId /\ assessment' = assessment
  BY DEF vars
<1>2. /\ events' \in Seq(Event) /\ Len(events') <= MaxEvents
      /\ openings' \subseteq OpeningPositions
  BY <1>1 DEF Safety, TypeOK
<1>. QED BY <1>1, <1>2, LedgerStepSafe

LEMMA WaitingStepSafe ==
  ASSUME RequestsSafety, UNCHANGED vars, NEW r \in Workers, NEW q \in Requests,
         request' = [request EXCEPT ![r] = q],
         Grounded(q, DOMAIN events),
         q.step \notin Recording \/ request[r].step \in Recording
  PROVE  RequestsSafety'
<1>1. Safety'
  BY TablesKeptSafe DEF RequestsSafety
<1>2. events' = events
  BY DEF vars
<1>3. Len(events) \in Nat /\ MaxEvents \in Nat
  BY EventsAreBookable, BoundsAssumption DEF RequestsSafety, Safety
<1>4. Cardinality(Pending') <= Cardinality(Pending) /\ Cardinality(Pending) \in Nat
      /\ Cardinality(Pending') \in Nat
  BY RequestMoves DEF RequestsSafety
<1>5. Len(events) + Cardinality(Pending) <= MaxEvents
  BY DEF RequestsSafety
<1>6. Len(events') + Cardinality(Pending') <= MaxEvents
  BY <1>2, <1>3, <1>4, <1>5
<1>. QED BY <1>1, <1>2, <1>6, RequestStepSafe

(* An answered request is grounded. *)
LEMMA IdleGrounded ==
  ASSUME NEW ids
  PROVE  Idle \in Requests /\ Grounded(Idle, ids) /\ Idle.step \notin Recording
BY RequestTypes DEF Grounded, Recording

LEMMA StartRecordSafe ==
  ASSUME RequestsSafety, NEW r \in Workers, NEW d \in Drafts,
         NEW original \in {0} \cup DOMAIN events, StartRecord(r, d, original)
  PROVE  RequestsSafety'
<1>. DEFINE q == [step |-> "fetching", draft |-> d, original |-> original]
<1>1. /\ UNCHANGED vars /\ request' = [request EXCEPT ![r] = q]
      /\ Len(events) + Cardinality(Pending) < MaxEvents
      /\ events' = events
  BY DEF StartRecord, vars
<1>2. DOMAIN events \subseteq EventIds /\ Len(events) \in Nat /\ MaxEvents \in Nat
  BY EventsAreBookable, BoundsAssumption DEF RequestsSafety, Safety
<1>3. original \in 0..MaxEvents
  BY <1>2 DEF EventIds
<1>4. q \in Recordings
  BY <1>3 DEF Recordings, Recording
<1>5. q \in Requests /\ Grounded(q, DOMAIN events')
  BY <1>1, <1>4, RequestTypes DEF Grounded, Recording
<1>6. Safety'
  BY <1>1, TablesKeptSafe DEF RequestsSafety
<1>. HIDE DEF q
<1>7. /\ Cardinality(Pending') <= Cardinality(Pending) + 1
      /\ Cardinality(Pending) \in Nat /\ Cardinality(Pending') \in Nat
  BY <1>1, <1>5, RequestMoves DEF RequestsSafety
<1>8. Len(events') + Cardinality(Pending') <= MaxEvents
  BY <1>1, <1>2, <1>7
<1>. QED BY <1>1, <1>5, <1>6, <1>8, RequestStepSafe

(* A request that goes on to another step of recording. *)
LEMMA GotoRecording ==
  ASSUME RequestsSafety, NEW r \in Workers, request[r].step \in Recording,
         NEW step \in Recording, Goto(r, step),
         step = "deactivating" => request[r].original # 0
  PROVE  \E q \in Requests :
           /\ request' = [request EXCEPT ![r] = q]
           /\ q.step = step /\ q.draft = request[r].draft
           /\ q.original = request[r].original
           /\ Grounded(q, DOMAIN events)
<1>. DEFINE old == request[r]
            q == [old EXCEPT !.step = step]
<1>1. old \in Recordings /\ Grounded(old, DOMAIN events)
  BY RequestKinds DEF RequestsSafety
<1>2. /\ q \in Recordings /\ q.step = step
      /\ q.draft = old.draft /\ q.original = old.original
  BY <1>1 DEF Recordings
<1>3. request' = [request EXCEPT ![r] = q]
  BY DEF Goto
<1>4. Grounded(q, DOMAIN events)
  BY <1>1, <1>2 DEF Grounded, Recording
<1>5. q \in Requests
  BY <1>2, RequestTypes
<1>. HIDE DEF q
<1>. QED BY <1>2, <1>3, <1>4, <1>5

LEMMA RateArrivesSafe ==
  ASSUME RequestsSafety, NEW r \in Workers, RateArrives(r)
  PROVE  RequestsSafety'
<1>1. request[r].step \in Recording /\ UNCHANGED vars
  BY DEF RateArrives, Recording
<1>2. CASE Goto(r, "creating")
  <2>1. "creating" \in Recording
    BY DEF Recording
  <2>2. PICK q \in Requests : /\ request' = [request EXCEPT ![r] = q]
                              /\ q.step = "creating"
                              /\ Grounded(q, DOMAIN events)
    BY <1>1, <1>2, <2>1, GotoRecording
  <2>. QED BY <1>1, <2>2, WaitingStepSafe
<1>3. CASE Goto(r, "deactivating") /\ request[r].original # 0
  <2>1. "deactivating" \in Recording
    BY DEF Recording
  <2>2. PICK q \in Requests : /\ request' = [request EXCEPT ![r] = q]
                              /\ q.step = "deactivating"
                              /\ Grounded(q, DOMAIN events)
    BY <1>1, <1>3, <2>1, GotoRecording
  <2>. QED BY <1>1, <2>2, WaitingStepSafe
<1>4. CASE Answer(r)
  BY <1>1, <1>4, IdleGrounded, WaitingStepSafe DEF Answer
<1>. QED BY <1>2, <1>3, <1>4 DEF RateArrives

LEMMA RateUnavailableSafe ==
  ASSUME RequestsSafety, NEW r \in Workers, RateUnavailable(r)
  PROVE  RequestsSafety'
BY IdleGrounded, WaitingStepSafe DEF RateUnavailable, Answer

(* An event is deactivated, whatever happened since it was read. *)
LEMMA DeactivationSafe ==
  ASSUME Safety, NEW i \in DOMAIN events,
         events' = [events EXCEPT ![i].active = FALSE],
         UNCHANGED <<openings, loss, comp, lastLossId, assessment>>
  PROVE  Safety' /\ DOMAIN events' = DOMAIN events /\ Len(events') = Len(events)
<1>1. /\ events' \in Seq(Event) /\ Len(events') = Len(events)
      /\ DOMAIN events' = DOMAIN events
      /\ \A j \in DOMAIN events :
           events'[j] = IF j = i THEN [events[i] EXCEPT !.active = FALSE] ELSE events[j]
  BY DeactivatedType DEF Safety
<1>2. \A j \in DOMAIN events : events[j] \in Event
  BY EventsAreBookable DEF Safety
<1>3. \A j \in DOMAIN events : j \in DOMAIN events' /\ events'[j].trade = events[j].trade
  BY <1>1, <1>2 DEF Event
<1>4. Len(events') <= MaxEvents /\ openings' \subseteq OpeningPositions
  BY <1>1 DEF Safety, TypeOK
<1>. QED BY <1>1, <1>3, <1>4, LedgerStepSafe

LEMMA DeactivateOriginalSafe ==
  ASSUME RequestsSafety, NEW r \in Workers, DeactivateOriginal(r)
  PROVE  RequestsSafety'
<1>1. /\ request[r].step \in Recording /\ Goto(r, "creating") /\ "creating" \in Recording
      /\ request[r].original \in DOMAIN events
      /\ events' = [events EXCEPT ![request[r].original].active = FALSE]
      /\ UNCHANGED <<openings, loss, comp, lastLossId, assessment>>
  BY DEF DeactivateOriginal, Recording, RequestsSafety, Grounded
<1>2. Safety' /\ DOMAIN events' = DOMAIN events /\ Len(events') = Len(events)
  BY <1>1, DeactivationSafe DEF RequestsSafety
<1>3. PICK q \in Requests : /\ request' = [request EXCEPT ![r] = q]
                            /\ q.step = "creating"
                            /\ Grounded(q, DOMAIN events)
  BY <1>1, GotoRecording
<1>4. /\ Cardinality(Pending') <= Cardinality(Pending)
      /\ Cardinality(Pending) \in Nat /\ Cardinality(Pending') \in Nat
  BY <1>1, <1>3, RequestMoves DEF RequestsSafety
<1>5. Len(events) \in Nat /\ MaxEvents \in Nat /\ Len(events) + Cardinality(Pending) <= MaxEvents
  BY EventsAreBookable, BoundsAssumption DEF RequestsSafety, Safety
<1>6. Len(events') + Cardinality(Pending') <= MaxEvents
  BY <1>2, <1>4, <1>5
<1>. QED BY <1>2, <1>3, <1>6, RequestStepSafe

(* The event is created, whatever happened to its year since it was checked. *)
LEMMA CreateEventSafe ==
  ASSUME RequestsSafety, NEW r \in Workers, CreateEvent(r)
  PROVE  RequestsSafety'
<1>. DEFINE d == request[r].draft
            new == NewEvent(d, request[r].original)
<1>1. /\ request[r].step \in Recording
      /\ events' = IF d.taxFactsValid THEN Append(events, new) ELSE events
      /\ request' = [request EXCEPT ![r] = Idle]
      /\ UNCHANGED <<openings, loss, comp, lastLossId, assessment>>
  BY DEF CreateEvent, Answer, Recording
<1>2. request[r] \in Recordings
  BY <1>1, RequestKinds DEF RequestsSafety
<1>3. new \in Event
  <2>1. d \in Drafts /\ request[r].original \in 0..MaxEvents
    BY <1>2 DEF Recordings
  <2>. HIDE DEF d
  <2>. QED BY <2>1, NewEventType
<1>4. /\ Cardinality(Pending') = Cardinality(Pending) - 1
      /\ Cardinality(Pending) \in Nat /\ Cardinality(Pending') \in Nat
  BY <1>1, IdleGrounded, RequestMoves DEF RequestsSafety
<1>5. /\ Len(events) \in Nat /\ MaxEvents \in Nat
      /\ Len(events) + Cardinality(Pending) <= MaxEvents
      /\ events \in Seq(Event) /\ openings \subseteq OpeningPositions
  BY EventsAreBookable, BoundsAssumption DEF RequestsSafety, Safety, TypeOK
<1>. HIDE DEF d, new
<1>6. /\ events' \in Seq(Event) /\ Len(events') <= Len(events) + 1 /\ Len(events') \in Nat
      /\ \A i \in DOMAIN events : i \in DOMAIN events' /\ events'[i].trade = events[i].trade
  <2>1. CASE d.taxFactsValid
    <3>1. events' = Append(events, new)
      BY <1>1, <2>1
    <3>. QED BY <1>3, <1>5, <3>1, AppendedType
  <2>2. CASE ~ d.taxFactsValid
    BY <1>1, <1>5, <2>2
  <2>. QED BY <2>1, <2>2
<1>7. Len(events') + Cardinality(Pending') <= MaxEvents /\ Len(events') <= MaxEvents
  BY <1>4, <1>5, <1>6
<1>8. Safety'
  BY <1>1, <1>5, <1>6, <1>7, LedgerStepSafe DEF RequestsSafety
<1>. QED BY <1>1, <1>6, <1>7, <1>8, IdleGrounded, RequestStepSafe

LEMMA StartDeactivationSafe ==
  ASSUME RequestsSafety, NEW r \in Workers, NEW i \in DOMAIN events, StartDeactivation(r, i)
  PROVE  RequestsSafety'
<1>. DEFINE q == [step |-> "removing", original |-> i]
<1>1. UNCHANGED vars /\ request' = [request EXCEPT ![r] = q]
  BY DEF StartDeactivation
<1>2. i \in EventIds
  BY EventsAreBookable DEF RequestsSafety, Safety
<1>3. q \in Requests /\ Grounded(q, DOMAIN events) /\ q.step \notin Recording
  BY <1>2, RequestTypes DEF Grounded, Recording
<1>. HIDE DEF q
<1>. QED BY <1>1, <1>3, WaitingStepSafe

(* A step that answers a request and keeps the number of events. *)
LEMMA AnswerSafe ==
  ASSUME RequestsSafety, NEW r \in Workers, Answer(r), Safety',
         DOMAIN events' = DOMAIN events, Len(events') = Len(events)
  PROVE  RequestsSafety'
<1>1. request' = [request EXCEPT ![r] = Idle]
  BY DEF Answer
<1>2. /\ Cardinality(Pending') <= Cardinality(Pending)
      /\ Cardinality(Pending) \in Nat /\ Cardinality(Pending') \in Nat
  BY <1>1, IdleGrounded, RequestMoves DEF RequestsSafety
<1>3. Len(events) \in Nat /\ MaxEvents \in Nat /\ Len(events) + Cardinality(Pending) <= MaxEvents
  BY EventsAreBookable, BoundsAssumption DEF RequestsSafety, Safety
<1>4. Len(events') + Cardinality(Pending') <= MaxEvents
  BY <1>2, <1>3
<1>. QED BY <1>1, <1>4, IdleGrounded, RequestStepSafe

LEMMA DeactivateSafe ==
  ASSUME RequestsSafety, NEW r \in Workers, Deactivate(r)
  PROVE  RequestsSafety'
<1>1. /\ request[r].original \in DOMAIN events
      /\ events' = [events EXCEPT ![request[r].original].active = FALSE]
      /\ UNCHANGED <<openings, loss, comp, lastLossId, assessment>>
      /\ Answer(r)
  BY DEF Deactivate, RequestsSafety, Grounded
<1>2. Safety' /\ DOMAIN events' = DOMAIN events /\ Len(events') = Len(events)
  BY <1>1, DeactivationSafe DEF RequestsSafety
<1>. QED BY <1>1, <1>2, AnswerSafe

LEMMA StartOpeningSafe ==
  ASSUME RequestsSafety, NEW r \in Workers, NEW o \in OpeningDrafts, StartOpening(r, o)
  PROVE  RequestsSafety'
<1>. DEFINE q == [step |-> "opening", opening |-> o]
<1>1. UNCHANGED vars /\ request' = [request EXCEPT ![r] = q]
  BY DEF StartOpening
<1>2. q \in Requests /\ Grounded(q, DOMAIN events) /\ q.step \notin Recording
  BY RequestTypes DEF Grounded, Recording
<1>. HIDE DEF q
<1>. QED BY <1>1, <1>2, WaitingStepSafe

LEMMA InsertOpeningSafe ==
  ASSUME RequestsSafety, NEW r \in Workers, InsertOpening(r)
  PROVE  RequestsSafety'
<1>1. request[r] \in [step: {"opening"}, opening: OpeningDrafts]
  BY RequestKinds DEF InsertOpening, RequestsSafety
<1>2. /\ openings' = openings \cup {request[r].opening} \/ openings' = openings
      /\ events' = events /\ Answer(r)
      /\ UNCHANGED <<loss, comp, lastLossId, assessment>>
  BY DEF InsertOpening
<1>3. openings' \subseteq OpeningPositions /\ events' \in Seq(Event) /\ Len(events') <= MaxEvents
  BY <1>1, <1>2, InputsAssumption DEF RequestsSafety, Safety, TypeOK
<1>4. Safety'
  BY <1>2, <1>3, LedgerStepSafe DEF RequestsSafety
<1>. QED BY <1>2, <1>4, AnswerSafe

-------------------------------------------------------------------------------
(* Closing and reopening: their transactions are safe whether or not the
   year is what the request found. *)
LEMMA StartTransactionSafe ==
  ASSUME RequestsSafety, NEW r \in Workers, NEW year \in Years,
         StartClosing(r, year) \/ StartReopening(r, year)
  PROVE  RequestsSafety'
<1>1. PICK step \in {"closing", "reopening"} :
        UNCHANGED vars /\ request' = [request EXCEPT ![r] = [step |-> step, year |-> year]]
  BY DEF StartClosing, StartReopening
<1>. DEFINE q == [step |-> step, year |-> year]
<1>2. q \in Requests /\ Grounded(q, DOMAIN events) /\ q.step \notin Recording
  BY RequestTypes DEF Grounded, Recording
<1>3. request' = [request EXCEPT ![r] = q]
  BY <1>1
<1>. HIDE DEF q
<1>. QED BY <1>1, <1>2, <1>3, WaitingStepSafe

LEMMA CloseSafe ==
  ASSUME RequestsSafety, NEW r \in Workers, Close(r)
  PROVE  RequestsSafety'
<1>1. request[r].year \in Years
  BY RequestKinds DEF Close, RequestsSafety
<1>2. CloseTransaction(request[r].year) /\ Answer(r)
  BY DEF Close
<1>3. Safety'
  BY <1>1, <1>2, CloseTransactionSafe DEF RequestsSafety
<1>4. events' = events
  BY <1>2 DEF CloseTransaction
<1>. QED BY <1>2, <1>3, <1>4, AnswerSafe

LEMMA ClosingFailsSafe ==
  ASSUME RequestsSafety, NEW r \in Workers, ClosingFails(r)
  PROVE  RequestsSafety'
BY IdleGrounded, WaitingStepSafe DEF ClosingFails, Answer

LEMMA ReopenSafe ==
  ASSUME RequestsSafety, NEW r \in Workers, Reopen(r)
  PROVE  RequestsSafety'
<1>1. request[r].year \in Years
  BY RequestKinds DEF Reopen, RequestsSafety
<1>2. ReopenTransaction(request[r].year) /\ Answer(r)
  BY DEF Reopen
<1>3. Safety'
  BY <1>1, <1>2, ReopenTransactionSafe DEF RequestsSafety
<1>4. events' = events
  BY <1>2 DEF ReopenTransaction
<1>. QED BY <1>2, <1>3, <1>4, AnswerSafe

-------------------------------------------------------------------------------
LEMMA InitRequestsSafe == InitRequests => RequestsSafety
<1>. SUFFICES ASSUME InitRequests PROVE RequestsSafety
  OBVIOUS
<1>1. Safety /\ events = <<>>
  BY InitSafe DEF InitRequests, Init
<1>2. request \in [Workers -> Requests] /\ \A r \in Workers : request[r] = Idle
  BY RequestTypes DEF InitRequests
<1>3. Pending = {}
  BY <1>2 DEF Pending, Idle
<1>4. Len(events) + Cardinality(Pending) <= MaxEvents
  BY <1>1, <1>3, FS_EmptySet, BoundsAssumption
<1>5. \A r \in Workers : Grounded(request[r], DOMAIN events)
  BY <1>2, IdleGrounded
<1>. QED BY <1>1, <1>2, <1>4, <1>5 DEF RequestsSafety

LEMMA NextRequestsSafe == RequestsSafety /\ [NextRequests]_requestVars => RequestsSafety'
<1>. SUFFICES ASSUME RequestsSafety, [NextRequests]_requestVars PROVE RequestsSafety'
  OBVIOUS
<1>1. CASE \E r \in Workers : RecordSteps(r)
  <2>1. PICK r \in Workers : RecordSteps(r)
    BY <1>1
  <2>2. CASE \E d \in Drafts, original \in {0} \cup DOMAIN events : StartRecord(r, d, original)
    BY <2>2, StartRecordSafe
  <2>3. CASE RateArrives(r)
    BY <2>3, RateArrivesSafe
  <2>4. CASE RateUnavailable(r)
    BY <2>4, RateUnavailableSafe
  <2>5. CASE DeactivateOriginal(r)
    BY <2>5, DeactivateOriginalSafe
  <2>6. CASE CreateEvent(r)
    BY <2>6, CreateEventSafe
  <2>7. CASE \E i \in DOMAIN events : StartDeactivation(r, i)
    BY <2>7, StartDeactivationSafe
  <2>8. CASE Deactivate(r)
    BY <2>8, DeactivateSafe
  <2>9. CASE \E o \in OpeningDrafts : StartOpening(r, o)
    BY <2>9, StartOpeningSafe
  <2>10. CASE InsertOpening(r)
    BY <2>10, InsertOpeningSafe
  <2>. QED BY <2>1, <2>2, <2>3, <2>4, <2>5, <2>6, <2>7, <2>8, <2>9, <2>10 DEF RecordSteps
<1>2. CASE \E r \in Workers : ClosingSteps(r)
  <2>1. PICK r \in Workers : ClosingSteps(r)
    BY <1>2
  <2>2. CASE \E y \in Years : StartClosing(r, y)
    BY <2>2, StartTransactionSafe
  <2>3. CASE Close(r)
    BY <2>3, CloseSafe
  <2>4. CASE ClosingFails(r)
    BY <2>4, ClosingFailsSafe
  <2>5. CASE \E y \in Years : StartReopening(r, y)
    BY <2>5, StartTransactionSafe
  <2>6. CASE Reopen(r)
    BY <2>6, ReopenSafe
  <2>. QED BY <2>1, <2>2, <2>3, <2>4, <2>5, <2>6 DEF ClosingSteps
<1>3. CASE UNCHANGED requestVars
  <2>1. UNCHANGED vars /\ request' = request /\ events' = events
    BY <1>3 DEF requestVars, vars
  <2>2. Safety'
    BY <2>1, TablesKeptSafe DEF RequestsSafety
  <2>3. Pending' = Pending
    BY <2>1 DEF Pending
  <2>. QED BY <2>1, <2>2, <2>3 DEF RequestsSafety
<1>. QED BY <1>1, <1>2, <1>3 DEF NextRequests

(* Whatever the threads do between the checks and the writes of one another. *)
THEOREM RequestsSafe == SpecRequests => []RequestsSafety
<1>1. InitRequests => RequestsSafety
  BY InitRequestsSafe
<1>2. RequestsSafety /\ [NextRequests]_requestVars => RequestsSafety'
  BY NextRequestsSafe
<1>. QED BY <1>1, <1>2, PTL DEF SpecRequests

(* The tables keep their types, every request is one of the handlers, and
   none creates an event for which there is no room. *)
THEOREM RequestsTyped == SpecRequests => []RequestsOK
<1>1. RequestsSafety => RequestsOK
  BY DEF RequestsSafety, Safety, RequestsOK
<1>. QED BY <1>1, RequestsSafe, PTL

(* A loss is spent once, also when two closings of a year run, one after the
   other found it open, or a year is reopened under a later closed one. *)
THEOREM RacesConserveLosses == SpecRequests => []LossConservation
<1>1. RequestsSafety => LossConservation
  BY DEF RequestsSafety, Safety
<1>. QED BY <1>1, RequestsSafe, PTL

(* No interleaving leaves a compensation outside closed years or without its
   LossRecord. *)
THEOREM RacesBackCompensations == SpecRequests => []CompensationsOfClosedYears
<1>1. RequestsSafety => CompensationsOfClosedYears
  BY DEF RequestsSafety, Safety
<1>. QED BY <1>1, RequestsSafe, PTL

-------------------------------------------------------------------------------
(* The ledger and the snapshots agree in every interleaving.  FifoOrder and
   CarryforwardHistoric are not part of this: a year that is reopened under a
   later closed one gives its losses back after the later one consumed
   younger ones. *)
BackedLedger ==
  /\ LossesOfSales /\ IdsOnce /\ CarriedLossesExist /\ TaxBaseBackedByLedger

(* What a request does outside the transactions of closing and reopening:
   events may be added, and none changes its kind or its date or becomes
   active again. *)
FactsStep ==
  /\ UNCHANGED <<loss, comp, lastLossId, assessment>>
  /\ \A i \in DOMAIN events : /\ i \in DOMAIN events'
                              /\ events'[i].type = events[i].type
                              /\ events'[i].trade = events[i].trade
                              /\ events'[i].active => events[i].active

LEMMA WaitingIsFactsStep ==
  ASSUME UNCHANGED vars
  PROVE  FactsStep
BY DEF vars, FactsStep

LEMMA DeactivationIsFactsStep ==
  ASSUME Safety, NEW i \in DOMAIN events,
         events' = [events EXCEPT ![i].active = FALSE],
         UNCHANGED <<openings, loss, comp, lastLossId, assessment>>
  PROVE  FactsStep
<1>1. /\ DOMAIN events' = DOMAIN events
      /\ \A j \in DOMAIN events :
           events'[j] = IF j = i THEN [events[i] EXCEPT !.active = FALSE] ELSE events[j]
  BY DeactivatedType DEF Safety
<1>2. \A j \in DOMAIN events : events[j] \in Event
  BY EventsAreBookable DEF Safety
<1>3. \A j \in DOMAIN events : /\ events'[j].type = events[j].type
                               /\ events'[j].trade = events[j].trade
                               /\ events'[j].active => events[j].active
  BY <1>1, <1>2 DEF Event
<1>. QED BY <1>1, <1>3 DEF FactsStep

LEMMA CreateIsFactsStep ==
  ASSUME RequestsSafety, NEW r \in Workers, CreateEvent(r)
  PROVE  FactsStep
<1>. DEFINE d == request[r].draft
            new == NewEvent(d, request[r].original)
<1>1. /\ request[r].step \in Recording
      /\ events' = IF d.taxFactsValid THEN Append(events, new) ELSE events
      /\ UNCHANGED <<openings, loss, comp, lastLossId, assessment>>
  BY DEF CreateEvent, Recording
<1>2. request[r] \in Recordings
  BY <1>1, RequestKinds DEF RequestsSafety
<1>3. new \in Event
  <2>1. d \in Drafts /\ request[r].original \in 0..MaxEvents
    BY <1>2 DEF Recordings
  <2>. HIDE DEF d
  <2>. QED BY <2>1, NewEventType
<1>4. events \in Seq(Event)
  BY DEF RequestsSafety, Safety, TypeOK
<1>. HIDE DEF d, new
<1>5. CASE d.taxFactsValid
  <2>1. events' = Append(events, new)
    BY <1>1, <1>5
  <2>2. \A j \in DOMAIN events : j \in DOMAIN events' /\ events'[j] = events[j]
    BY <1>3, <1>4, <2>1, AppendedType
  <2>. QED BY <1>1, <2>2 DEF FactsStep
<1>6. CASE ~ d.taxFactsValid
  BY <1>1, <1>6 DEF FactsStep
<1>. QED BY <1>5, <1>6

LEMMA RequestEffects ==
  ASSUME RequestsSafety, [NextRequests]_requestVars
  PROVE  \/ FactsStep
         \/ \E r \in Workers : request[r].year \in Years /\ (Close(r) \/ Reopen(r))
<1>1. CASE \E r \in Workers : RecordSteps(r)
  <2>1. PICK r \in Workers : RecordSteps(r)
    BY <1>1
  <2>2. CASE \E d \in Drafts, original \in {0} \cup DOMAIN events : StartRecord(r, d, original)
    BY <2>2, WaitingIsFactsStep DEF StartRecord
  <2>3. CASE RateArrives(r) \/ RateUnavailable(r)
    BY <2>3, WaitingIsFactsStep DEF RateArrives, RateUnavailable
  <2>4. CASE DeactivateOriginal(r)
    <3>1. /\ request[r].original \in DOMAIN events
          /\ events' = [events EXCEPT ![request[r].original].active = FALSE]
          /\ UNCHANGED <<openings, loss, comp, lastLossId, assessment>>
      BY <2>4 DEF DeactivateOriginal, RequestsSafety, Grounded
    <3>. QED BY <3>1, DeactivationIsFactsStep DEF RequestsSafety
  <2>5. CASE CreateEvent(r)
    BY <2>5, CreateIsFactsStep
  <2>6. CASE \E i \in DOMAIN events : StartDeactivation(r, i)
    BY <2>6, WaitingIsFactsStep DEF StartDeactivation
  <2>7. CASE Deactivate(r)
    <3>1. /\ request[r].original \in DOMAIN events
          /\ events' = [events EXCEPT ![request[r].original].active = FALSE]
          /\ UNCHANGED <<openings, loss, comp, lastLossId, assessment>>
      BY <2>7 DEF Deactivate, RequestsSafety, Grounded
    <3>. QED BY <3>1, DeactivationIsFactsStep DEF RequestsSafety
  <2>8. CASE \E o \in OpeningDrafts : StartOpening(r, o)
    BY <2>8, WaitingIsFactsStep DEF StartOpening
  <2>9. CASE InsertOpening(r)
    BY <2>9 DEF InsertOpening, FactsStep
  <2>. QED BY <2>1, <2>2, <2>3, <2>4, <2>5, <2>6, <2>7, <2>8, <2>9 DEF RecordSteps
<1>2. CASE \E r \in Workers : ClosingSteps(r)
  <2>1. PICK r \in Workers : ClosingSteps(r)
    BY <1>2
  <2>2. CASE \E y \in Years : StartClosing(r, y) \/ StartReopening(r, y)
    BY <2>2, WaitingIsFactsStep DEF StartClosing, StartReopening
  <2>3. CASE ClosingFails(r)
    BY <2>3, WaitingIsFactsStep DEF ClosingFails
  <2>4. CASE Close(r) \/ Reopen(r)
    BY <2>4, RequestKinds DEF Close, Reopen, RequestsSafety
  <2>. QED BY <2>1, <2>2, <2>3, <2>4 DEF ClosingSteps
<1>3. CASE UNCHANGED requestVars
  BY <1>3, WaitingIsFactsStep DEF requestVars
<1>. QED BY <1>1, <1>2, <1>3 DEF NextRequests

LEMMA FactsStepBacked ==
  ASSUME Safety, BackedLedger, FactsStep
  PROVE  BackedLedger'
<1>1. DOMAIN loss \subseteq DOMAIN events /\ Closed' = Closed
  BY DEF Safety, TypeOK, FactsStep, Closed
<1>2. \A e \in DOMAIN loss : Origin(events', e) = Origin(events, e)
  BY <1>1 DEF FactsStep, Origin
<1>3. LossesOfSales'
  BY <1>1 DEF BackedLedger, LossesOfSales, FactsStep
<1>4. IdsOnce'
  BY DEF BackedLedger, IdsOnce, FactsStep
<1>5. CarriedLossesExist'
  BY <1>1, <1>2 DEF BackedLedger, CarriedLossesExist, FactsStep
<1>6. TaxBaseBackedByLedger'
  BY <1>1 DEF BackedLedger, TaxBaseBackedByLedger, FactsStep
<1>. QED BY <1>3, <1>4, <1>5, <1>6 DEF BackedLedger

(* A closing, also a second one of the same year: what the first one consumed
   is back before the second consumes for the snapshot it writes. *)
LEMMA CloseTransactionBacked ==
  ASSUME Safety, BackedLedger, NEW year \in Years, CloseTransaction(year)
  PROVE  BackedLedger'
<1>1. LossesOfSales /\ IdsOnce /\ CarriedLossesExist /\ TaxBaseBackedByLedger
  BY DEF BackedLedger
<1>2. /\ Closed' = Closed \cup {year}
      /\ lastLossId' = lastLossId + Cardinality(NewLosses(loss, resultados_alienacao(year)))
      /\ assessment' = [y \in Closed \cup {year} |-> IF y = year THEN compute(year) ELSE assessment[y]]
      /\ UNCHANGED <<events, openings>>
  BY CloseWrites
<1>3. /\ SparesEarlierYears(year)
      /\ DOMAIN loss' = DOMAIN SyncedBy(year)
      /\ \A e \in DOMAIN loss' : loss'[e].id = SyncedBy(year)[e].id
  BY <1>1, CloseSpares
<1>4. Closed \subseteq Years /\ Years \subseteq Nat
  BY LedgerTypes
<1>5. assessment'[year] = compute(year)
      /\ \A y \in Closed : y # year => assessment'[y] = assessment[y] /\ y < year
  BY <1>2, <1>3 DEF SparesEarlierYears
<1>6. LossesOfSales'
  <2>1. \A e \in DOMAIN SyncedBy(year) : events[e].type = "SELL"
    <3>1. \A e : e \notin Sales(year) => (e \in DOMAIN SyncedBy(year) => e \in DOMAIN loss)
      BY <1>1, SyncedRecords
    <3>. QED BY <1>1, <3>1 DEF LossesOfSales, Sales
  <2>. QED BY <1>2, <1>3, <2>1 DEF LossesOfSales
<1>7. IdsOnce'
  BY <1>1, <1>2, <1>3, SyncedIds DEF IdsOnce
<1>8. ASSUME NEW y \in Closed'
      PROVE  /\ assessment'[y].carryforward >= 0
             /\ assessment'[y].carryforward > 0
                  => \E e \in DOMAIN loss' : Origin(events', e) <= y
  <2>1. CASE y = year
    <3>1. compute(year).carryforward >= 0
      BY <1>1, ComputeParts, InheritedIsBalance DEF Larger
    <3>2. compute(year).carryforward > 0 => \E e \in DOMAIN loss' : Origin(events', e) <= year
      BY <1>1, <1>2, CloseLeavesRecord
    <3>. QED BY <1>5, <2>1, <3>1, <3>2
  <2>2. CASE y # year
    <3>1. /\ y \in Closed /\ assessment'[y] = assessment[y] /\ y < year
          /\ y \in Nat /\ year \in Nat
      BY <1>2, <1>4, <1>5, <2>2
    <3>2. assessment[y].carryforward >= 0
      BY <1>1, <3>1 DEF CarriedLossesExist
    <3>3. ASSUME assessment[y].carryforward > 0
          PROVE  \E e \in DOMAIN loss' : Origin(events', e) <= y
      <4>1. PICK e \in DOMAIN loss : Origin(events, e) <= y
        BY <1>1, <3>1, <3>3 DEF CarriedLossesExist
      <4>2. Origin(events, e) # year
        BY <3>1, <4>1
      <4>. QED BY <1>2, <1>3, <4>1, <4>2 DEF SparesEarlierYears
    <3>. QED BY <3>1, <3>2, <3>3
  <2>. QED BY <2>1, <2>2
<1>9. ASSUME NEW y \in Closed'
      PROVE  assessment'[y].income - assessment'[y].taxable
               = Total([e \in EventIds |-> comp'[e][y]], MaxEvents)
  <2>1. CASE y = year
    BY <1>1, <1>5, <2>1, CloseConsumes
  <2>2. CASE y # year
    <3>1. /\ y \in Closed \cap Years /\ assessment'[y] = assessment[y]
          /\ \A e \in EventIds, z \in Years : z # year => comp'[e][z] = comp[e][z]
      BY <1>2, <1>3, <1>4, <1>5, <2>2 DEF SparesEarlierYears
    <3>2. [e \in EventIds |-> comp'[e][y]] = [e \in EventIds |-> comp[e][y]]
      BY <2>2, <3>1
    <3>. QED BY <1>1, <3>1, <3>2 DEF TaxBaseBackedByLedger
  <2>. QED BY <2>1, <2>2
<1>. QED BY <1>6, <1>7, <1>8, <1>9 DEF BackedLedger, CarriedLossesExist, TaxBaseBackedByLedger

(* A reopening, also under a later closed year. *)
LEMMA ReopenTransactionBacked ==
  ASSUME Safety, BackedLedger, NEW year \in Years, ReopenTransaction(year)
  PROVE  BackedLedger'
<1>1. LossesOfSales /\ IdsOnce /\ CarriedLossesExist /\ TaxBaseBackedByLedger
  BY DEF BackedLedger
<1>2. /\ loss' = Back(year) /\ comp' = Cleared(comp, year)
      /\ assessment' = [y \in Closed \ {year} |-> assessment[y]]
      /\ UNCHANGED <<events, openings, lastLossId>>
  BY DEF ReopenTransaction, Back
<1>3. /\ Closed' = Closed \ {year} /\ \A y \in Closed' : assessment'[y] = assessment[y]
      /\ Closed \subseteq Years
  BY <1>2, LedgerTypes DEF Closed
<1>4. /\ DOMAIN loss' = DOMAIN loss
      /\ \A e \in DOMAIN loss : loss'[e].id = loss[e].id
      /\ \A e \in EventIds, z \in Years : z # year => comp'[e][z] = comp[e][z]
  BY <1>2, BackTypes
<1>5. LossesOfSales' /\ IdsOnce'
  BY <1>1, <1>2, <1>4 DEF LossesOfSales, IdsOnce
<1>6. CarriedLossesExist'
  BY <1>1, <1>2, <1>3, <1>4 DEF CarriedLossesExist
<1>7. TaxBaseBackedByLedger'
  <2>. SUFFICES ASSUME NEW y \in Closed'
                PROVE  assessment'[y].income - assessment'[y].taxable
                         = Total([e \in EventIds |-> comp'[e][y]], MaxEvents)
    BY DEF TaxBaseBackedByLedger
  <2>1. y \in Closed \cap Years /\ y # year /\ assessment'[y] = assessment[y]
    BY <1>3
  <2>2. [e \in EventIds |-> comp'[e][y]] = [e \in EventIds |-> comp[e][y]]
    BY <1>4, <2>1
  <2>. QED BY <1>1, <2>1, <2>2 DEF TaxBaseBackedByLedger
<1>. QED BY <1>5, <1>6, <1>7 DEF BackedLedger

(* The losses deducted in the snapshot of a closed year are those the ledger
   gave for it, whatever closings and reopenings race with one another and
   with the recording of events. *)
THEOREM RacesBackTheTaxBase == SpecRequests => []TaxBaseBackedByLedger
<1>1. InitRequests => BackedLedger
  <2>1. Init => ClosedLedger
    BY InitClosings
  <2>. QED BY <2>1 DEF InitRequests, ClosedLedger, BackedLedger
<1>2. RequestsSafety /\ BackedLedger /\ [NextRequests]_requestVars => BackedLedger'
  <2>. SUFFICES ASSUME RequestsSafety, BackedLedger, [NextRequests]_requestVars
                PROVE  BackedLedger'
    OBVIOUS
  <2>1. Safety
    BY DEF RequestsSafety
  <2>. QED BY <2>1, RequestEffects, FactsStepBacked, CloseTransactionBacked,
              ReopenTransactionBacked DEF Close, Reopen
<1>3. BackedLedger => TaxBaseBackedByLedger
  BY DEF BackedLedger
<1>. QED BY <1>1, <1>2, <1>3, RequestsSafe, PTL DEF SpecRequests

-------------------------------------------------------------------------------
(* FIFO.  It is undone by a reopening that looked for later closed years
   before one was closed. *)
ReopensTheLast ==
  \A r \in Workers : Reopen(r) => \A y \in Closed : y <= request[r].year

(* A request that is answered was under way: its step is no stutter. *)
LEMMA RequestChanges ==
  ASSUME RequestsSafety, NEW r \in Workers, Answer(r), request[r].step # "idle"
  PROVE  request' # request
<1>1. request'[r] = Idle
  BY DEF Answer, RequestsSafety
<1>. QED BY <1>1, RequestTypes

LEMMA FactsStepFifo ==
  ASSUME Safety, FifoOrder, FactsStep
  PROVE  FifoOrder'
<1>1. /\ loss' = loss /\ comp' = comp /\ Closed' = Closed
      /\ DOMAIN loss \subseteq DOMAIN events
  BY DEF Safety, TypeOK, FactsStep, Closed
<1>2. \A e \in DOMAIN loss : /\ Origin(events', e) = Origin(events, e)
                             /\ events'[e].active => events[e].active
  BY <1>1 DEF FactsStep, Origin
<1>. SUFFICES ASSUME NEW f \in DOMAIN loss, NEW y \in Closed, comp[f][y] > 0,
                     NEW e \in DOMAIN loss, events'[e].active, Older(events', loss, e, f)
              PROVE  Total(comp[e], y) = loss[e].amount
  BY <1>1 DEF FifoOrder
<1>3. events[e].active /\ Older(events, loss, e, f)
  BY <1>2 DEF Older
<1>. QED BY <1>3 DEF FifoOrder

LEMMA CloseTransactionFifo ==
  ASSUME Safety, BackedLedger, FifoOrder, NEW year \in Years, CloseTransaction(year)
  PROVE  FifoOrder'
<1>1. LossesOfSales /\ IdsOnce /\ CarriedLossesExist
  BY DEF BackedLedger
<1>2. Safety' /\ SparesEarlierYears(year)
  BY <1>1, CloseTransactionSafe, CloseSpares
<1>3. \A f \in DOMAIN loss' : comp'[f][year] > 0 =>
        \A e \in DOMAIN loss' :
          events'[e].active /\ Older(events', loss', e, f)
            => Total(comp'[e], year) = loss'[e].amount
  BY <1>1, CloseConsumes
<1>. QED BY <1>2, <1>3, EarlierFifo DEF FifoOrder

LEMMA ReopenLastFifo ==
  ASSUME Safety, FifoOrder, NEW year \in Years, ReopenYear(year)
  PROVE  FifoOrder'
<1>1. Safety' /\ SparesEarlierYears(year) /\ year \notin Closed'
  BY ReopenYearSafe, ReopenSpares
<1>. QED BY <1>1, EarlierFifo DEF FifoOrder

(* Under any interleaving in which no year is reopened under a later closed
   one, a closed year that consumed a loss left no older valid loss with a
   balance: neither two closings of a year nor facts that change behind a
   closing disturb the order. *)
THEOREM OnlyReopeningsUndoFifo ==
  SpecRequests /\ [][ReopensTheLast]_requestVars => []FifoOrder
<1>1. InitRequests => BackedLedger /\ FifoOrder
  <2>1. Init => ClosedLedger
    BY InitClosings
  <2>. QED BY <2>1 DEF InitRequests, ClosedLedger, BackedLedger
<1>2. /\ RequestsSafety /\ BackedLedger /\ FifoOrder
      /\ [NextRequests]_requestVars /\ [ReopensTheLast]_requestVars
      => (BackedLedger /\ FifoOrder)'
  <2>. SUFFICES ASSUME RequestsSafety, BackedLedger, FifoOrder,
                       [NextRequests]_requestVars, [ReopensTheLast]_requestVars
                PROVE  BackedLedger' /\ FifoOrder'
    OBVIOUS
  <2>1. Safety
    BY DEF RequestsSafety
  <2>2. CASE FactsStep
    BY <2>1, <2>2, FactsStepBacked, FactsStepFifo
  <2>3. ASSUME NEW r \in Workers, request[r].year \in Years, Close(r)
        PROVE  BackedLedger' /\ FifoOrder'
    BY <2>1, <2>3, CloseTransactionBacked, CloseTransactionFifo DEF Close
  <2>4. ASSUME NEW r \in Workers, request[r].year \in Years, Reopen(r)
        PROVE  BackedLedger' /\ FifoOrder'
    <3>1. request' # request
      BY <2>4, RequestChanges DEF Reopen
    <3>2. \A y \in Closed : y <= request[r].year
      BY <2>4, <3>1 DEF ReopensTheLast, requestVars
    <3>3. ReopenYear(request[r].year)
      BY <2>4, <3>2 DEF Reopen, ReopenYear
    <3>. QED BY <2>1, <2>4, <3>3, ReopenTransactionBacked, ReopenLastFifo DEF Reopen
  <2>. QED BY <2>2, <2>3, <2>4, RequestEffects
<1>. QED BY <1>1, <1>2, RequestsSafe, PTL DEF SpecRequests

-------------------------------------------------------------------------------
(* Closings and reopenings that overlap with no other request.  Recordings,
   corrections, deactivations and openings may still interleave with one
   another: then what each of them checked stays so until it writes. *)
TransactionsAlone ==
  \A r \in Workers :
    Close(r) \/ Reopen(r) => \A s \in Workers \ {r} : request[s] = Idle

(* What a request that found the year open, or no later one closed, relies
   on, in a table of events and with these years closed. *)
Checked(q, evs, closed) ==
  /\ q.step \in Recording =>
       /\ ano_fiscal_de(q.draft) \notin closed
       /\ q.original # 0 => ano_fiscal_de(evs[q.original]) \notin closed
  /\ q.step = "removing" => ano_fiscal_de(evs[q.original]) \notin closed
  /\ q.step = "opening" => \A y \in closed : y < YearOf(q.opening.date)
  /\ q.step = "closing" => q.year \notin closed
  /\ q.step = "reopening" => \A y \in closed : y <= q.year

StillChecked == \A r \in Workers : Checked(request[r], events, Closed)

(* The request goes on with its checks made, or is answered. *)
Proceeds(r) ==
  \E q \in Requests :
    /\ request' = [request EXCEPT ![r] = q]
    /\ Grounded(q, DOMAIN events)
    /\ Checked(q, events, Closed)

LEMMA IdleChecked ==
  ASSUME NEW evs, NEW closed
  PROVE  Checked(Idle, evs, closed)
BY DEF Checked, Idle, Recording

LEMMA AnswerProceeds ==
  ASSUME NEW r \in Workers, Answer(r)
  PROVE  Proceeds(r)
BY IdleGrounded, IdleChecked DEF Answer, Proceeds

(* A handler of the ledger changes no fiscal year and closes none. *)
LEMMA CheckStays ==
  ASSUME LedgerStep, NEW q, Grounded(q, DOMAIN events), Checked(q, events, Closed)
  PROVE  Checked(q, events', Closed')
<1>1. Closed' = Closed
  BY DEF LedgerStep, Closed
<1>2. \A i \in DOMAIN events : ano_fiscal_de(events'[i]) = ano_fiscal_de(events[i])
  BY DEF LedgerStep, ano_fiscal_de
<1>3. q.step \in Recording /\ q.original # 0 => q.original \in DOMAIN events
  BY DEF Grounded
<1>4. q.step = "removing" => q.original \in DOMAIN events
  BY DEF Grounded
<1>. QED BY <1>1, <1>2, <1>3, <1>4 DEF Checked

LEMMA ChecksStay ==
  ASSUME RequestsSafety, StillChecked, LedgerStep, NEW r \in Workers, Proceeds(r)
  PROVE  StillChecked'
<1>1. PICK q \in Requests : /\ request' = [request EXCEPT ![r] = q]
                            /\ Grounded(q, DOMAIN events)
                            /\ Checked(q, events, Closed)
  BY DEF Proceeds
<1>2. \A s \in Workers : request'[s] = IF s = r THEN q ELSE request[s]
  BY <1>1, RequestMoves DEF RequestsSafety
<1>3. \A s \in Workers : /\ Grounded(request[s], DOMAIN events)
                         /\ Checked(request[s], events, Closed)
  BY DEF RequestsSafety, StillChecked
<1>4. \A s \in Workers : Checked(request'[s], events', Closed')
  BY <1>1, <1>2, <1>3, CheckStays
<1>. QED BY <1>4 DEF StillChecked

-------------------------------------------------------------------------------
(* Each step outside the transactions is a handler of the ledger then. *)
LEMMA WaitingStep ==
  ASSUME RequestsSafety, UNCHANGED vars
  PROVE  LedgerStep
BY StutteringStep DEF RequestsSafety

LEMMA StartRecordStep ==
  ASSUME RequestsSafety, NEW r \in Workers, NEW d \in Drafts,
         NEW original \in {0} \cup DOMAIN events, StartRecord(r, d, original)
  PROVE  LedgerStep /\ Proceeds(r)
<1>. DEFINE q == [step |-> "fetching", draft |-> d, original |-> original]
<1>1. /\ UNCHANGED vars /\ request' = [request EXCEPT ![r] = q]
      /\ ano_fiscal_de(d) \notin Closed
      /\ original # 0 => ano_fiscal_de(events[original]) \notin Closed
  BY DEF StartRecord, Admitted, Open
<1>2. DOMAIN events \subseteq EventIds /\ MaxEvents \in Nat
  BY EventsAreBookable, BoundsAssumption DEF RequestsSafety, Safety
<1>3. original \in 0..MaxEvents
  BY <1>2 DEF EventIds
<1>4. q \in Requests
  BY <1>3, RequestTypes DEF Recordings, Recording
<1>5. Grounded(q, DOMAIN events) /\ Checked(q, events, Closed)
  BY <1>1 DEF Grounded, Checked, Recording
<1>. HIDE DEF q
<1>. QED BY <1>1, <1>4, <1>5, WaitingStep DEF Proceeds

LEMMA GotoProceeds ==
  ASSUME RequestsSafety, StillChecked, NEW r \in Workers, request[r].step \in Recording,
         NEW step \in Recording, Goto(r, step),
         step = "deactivating" => request[r].original # 0
  PROVE  Proceeds(r)
<1>1. PICK q \in Requests : /\ request' = [request EXCEPT ![r] = q]
                            /\ q.step = step /\ q.draft = request[r].draft
                            /\ q.original = request[r].original
                            /\ Grounded(q, DOMAIN events)
  BY GotoRecording
<1>2. Checked(request[r], events, Closed)
  BY DEF StillChecked
<1>3. Checked(q, events, Closed)
  BY <1>1, <1>2 DEF Checked, Recording
<1>. QED BY <1>1, <1>3 DEF Proceeds

LEMMA RateArrivesStep ==
  ASSUME RequestsSafety, StillChecked, NEW r \in Workers, RateArrives(r)
  PROVE  LedgerStep /\ Proceeds(r)
<1>1. /\ request[r].step \in Recording /\ UNCHANGED vars
      /\ "creating" \in Recording /\ "deactivating" \in Recording
  BY DEF RateArrives, Recording
<1>2. CASE Goto(r, "creating")
  BY <1>1, <1>2, GotoProceeds, WaitingStep
<1>3. CASE Goto(r, "deactivating") /\ request[r].original # 0
  BY <1>1, <1>3, GotoProceeds, WaitingStep
<1>4. CASE Answer(r)
  BY <1>1, <1>4, AnswerProceeds, WaitingStep
<1>. QED BY <1>2, <1>3, <1>4 DEF RateArrives

LEMMA RemovalStep ==
  ASSUME Safety, EventYears, NEW i \in DOMAIN events, ano_fiscal_de(events[i]) \notin Closed,
         events' = [events EXCEPT ![i].active = FALSE],
         UNCHANGED <<openings, loss, comp, lastLossId, assessment>>
  PROVE  LedgerStep
<1>1. /\ events' \in Seq(Event) /\ DOMAIN events' = DOMAIN events
      /\ \A j \in DOMAIN events :
           events'[j] = IF j = i THEN [events[i] EXCEPT !.active = FALSE] ELSE events[j]
  BY DeactivatedType DEF Safety
<1>2. /\ YearOf(events[i].trade) \in Years /\ YearOf(events[i].receipt) \in Years
      /\ Open(ano_fiscal_de(events[i]))
  BY DEF EventYears, Open
<1>. QED BY <1>1, <1>2, DeactivationStep

LEMMA DeactivateOriginalStep ==
  ASSUME RequestsSafety, EventYears, StillChecked, NEW r \in Workers, DeactivateOriginal(r)
  PROVE  LedgerStep /\ Proceeds(r)
<1>1. /\ request[r].step = "deactivating" /\ Goto(r, "creating")
      /\ "deactivating" \in Recording /\ "creating" \in Recording
      /\ request[r].original \in DOMAIN events
      /\ events' = [events EXCEPT ![request[r].original].active = FALSE]
      /\ UNCHANGED <<openings, loss, comp, lastLossId, assessment>>
  BY DEF DeactivateOriginal, Recording, RequestsSafety, Grounded
<1>2. request[r].original # 0
  <2>1. DOMAIN events = 1..Len(events) /\ Len(events) \in Nat
    BY EventsAreBookable DEF RequestsSafety, Safety
  <2>. QED BY <1>1, <2>1
<1>3. ano_fiscal_de(events[request[r].original]) \notin Closed
  BY <1>1, <1>2 DEF StillChecked, Checked
<1>4. LedgerStep
  BY <1>1, <1>3, RemovalStep DEF RequestsSafety
<1>. QED BY <1>1, <1>2, <1>4, GotoProceeds

LEMMA DeactivateStep ==
  ASSUME RequestsSafety, EventYears, StillChecked, NEW r \in Workers, Deactivate(r)
  PROVE  LedgerStep /\ Proceeds(r)
<1>1. /\ request[r].step = "removing" /\ Answer(r)
      /\ request[r].original \in DOMAIN events
      /\ events' = [events EXCEPT ![request[r].original].active = FALSE]
      /\ UNCHANGED <<openings, loss, comp, lastLossId, assessment>>
  BY DEF Deactivate, RequestsSafety, Grounded
<1>2. ano_fiscal_de(events[request[r].original]) \notin Closed
  BY <1>1 DEF StillChecked, Checked
<1>3. LedgerStep
  BY <1>1, <1>2, RemovalStep DEF RequestsSafety
<1>. QED BY <1>1, <1>3, AnswerProceeds

LEMMA CreateEventStep ==
  ASSUME RequestsSafety, StillChecked, NEW r \in Workers, CreateEvent(r)
  PROVE  LedgerStep /\ Proceeds(r)
<1>. DEFINE d == request[r].draft
            new == NewEvent(d, request[r].original)
<1>1. /\ request[r].step \in Recording /\ Answer(r)
      /\ events' = IF d.taxFactsValid THEN Append(events, new) ELSE events
      /\ UNCHANGED <<openings, loss, comp, lastLossId, assessment>>
  BY DEF CreateEvent, Recording
<1>2. d \in Drafts /\ request[r].original \in 0..MaxEvents
  BY <1>1, RequestKinds DEF RequestsSafety, Recordings
<1>3. /\ new \in Event
      /\ YearOf(new.trade) \in Years /\ YearOf(new.receipt) \in Years
      /\ Open(ano_fiscal_de(new))
  <2>1. ano_fiscal_de(d) \notin Closed
    BY <1>1 DEF StillChecked, Checked
  <2>2. Open(ano_fiscal_de(new))
    BY <2>1, FiscalYearOfNewEvent DEF Open
  <2>. HIDE DEF d
  <2>3. YearOf(new.trade) \in Years /\ YearOf(new.receipt) \in Years
    BY <1>2, InputsAssumption DEF NewEvent
  <2>. QED BY <1>2, <2>2, <2>3, NewEventType
<1>4. /\ events \in Seq(Event) /\ openings \subseteq OpeningPositions
      /\ \A i \in DOMAIN events : events[i] \in Event
  BY EventsAreBookable DEF RequestsSafety, Safety, TypeOK
<1>. HIDE DEF d, new
<1>5. /\ events' \in Seq(Event)
      /\ \A j \in DOMAIN events : j \in DOMAIN events' /\ events'[j] = events[j]
      /\ \A j \in DOMAIN events' : j \in DOMAIN events \/ events'[j] = new
  <2>1. CASE d.taxFactsValid
    <3>1. events' = Append(events, new)
      BY <1>1, <2>1
    <3>. QED BY <1>3, <1>4, <3>1, AppendedType, AppendedLast
  <2>2. CASE ~ d.taxFactsValid
    BY <1>1, <1>4, <2>2
  <2>. QED BY <2>1, <2>2
<1>6. /\ Len(events') \in Nat /\ DOMAIN events' = 1..Len(events')
      /\ \A i \in DOMAIN events' : events'[i] \in Event
  BY <1>5
<1>7. LedgerStep
  BY <1>1, <1>3, <1>4, <1>5, <1>6 DEF LedgerStep
<1>. QED BY <1>1, <1>7, AnswerProceeds

LEMMA StartDeactivationStep ==
  ASSUME RequestsSafety, NEW r \in Workers, NEW i \in DOMAIN events, StartDeactivation(r, i)
  PROVE  LedgerStep /\ Proceeds(r)
<1>. DEFINE q == [step |-> "removing", original |-> i]
<1>1. /\ UNCHANGED vars /\ request' = [request EXCEPT ![r] = q]
      /\ ano_fiscal_de(events[i]) \notin Closed
  BY DEF StartDeactivation, Open
<1>2. i \in EventIds
  BY EventsAreBookable DEF RequestsSafety, Safety
<1>3. q \in Requests /\ Grounded(q, DOMAIN events) /\ Checked(q, events, Closed)
  BY <1>1, <1>2, RequestTypes DEF Grounded, Checked, Recording
<1>. HIDE DEF q
<1>. QED BY <1>1, <1>3, WaitingStep DEF Proceeds

LEMMA StartOpeningStep ==
  ASSUME RequestsSafety, NEW r \in Workers, NEW o \in OpeningDrafts, StartOpening(r, o)
  PROVE  LedgerStep /\ Proceeds(r)
<1>. DEFINE q == [step |-> "opening", opening |-> o]
<1>1. /\ UNCHANGED vars /\ request' = [request EXCEPT ![r] = q]
      /\ \A y \in Closed : y < YearOf(o.date)
  BY DEF StartOpening
<1>2. q \in Requests /\ Grounded(q, DOMAIN events) /\ Checked(q, events, Closed)
  BY <1>1, RequestTypes DEF Grounded, Checked, Recording
<1>. HIDE DEF q
<1>. QED BY <1>1, <1>2, WaitingStep DEF Proceeds

LEMMA InsertOpeningStep ==
  ASSUME RequestsSafety, StillChecked, NEW r \in Workers, InsertOpening(r)
  PROVE  LedgerStep /\ Proceeds(r)
<1>. DEFINE o == request[r].opening
<1>1. /\ openings' = openings \cup {o} \/ openings' = openings
      /\ Answer(r) /\ request[r].step = "opening"
      /\ UNCHANGED <<events, loss, comp, lastLossId, assessment>>
  BY DEF InsertOpening
<1>2. o \in OpeningDrafts /\ \A y \in Closed : y < YearOf(o.date)
  BY <1>1, RequestKinds DEF RequestsSafety, StillChecked, Checked
<1>. HIDE DEF o
<1>3. /\ Len(events) \in Nat /\ DOMAIN events = 1..Len(events)
      /\ \A i \in DOMAIN events : events[i] \in Event
  BY EventsAreBookable DEF RequestsSafety, Safety
<1>4. openings' \subseteq OpeningPositions
  BY <1>1, <1>2, InputsAssumption DEF RequestsSafety, Safety, TypeOK
<1>5. LedgerStep
  BY <1>1, <1>2, <1>3, <1>4 DEF LedgerStep
<1>. QED BY <1>1, <1>5, AnswerProceeds

LEMMA StartTransactionStep ==
  ASSUME RequestsSafety, NEW r \in Workers, NEW year \in Years,
         StartClosing(r, year) \/ StartReopening(r, year)
  PROVE  LedgerStep /\ Proceeds(r)
<1>1. PICK step \in {"closing", "reopening"} :
        /\ UNCHANGED vars /\ request' = [request EXCEPT ![r] = [step |-> step, year |-> year]]
        /\ step = "closing" => year \notin Closed
        /\ step = "reopening" => \A y \in Closed : y <= year
  BY DEF StartClosing, StartReopening, Open
<1>. DEFINE q == [step |-> step, year |-> year]
<1>2. q \in Requests /\ Grounded(q, DOMAIN events) /\ Checked(q, events, Closed)
  BY <1>1, RequestTypes DEF Grounded, Checked, Recording
<1>3. request' = [request EXCEPT ![r] = q]
  BY <1>1
<1>. HIDE DEF q
<1>. QED BY <1>1, <1>2, <1>3, WaitingStep DEF Proceeds

(* What a step does: it is a handler of the ledger and its checks are made,
   or the transaction of a closing or a reopening. *)
LEMMA CheckedSteps ==
  ASSUME RequestsSafety, EventYears, StillChecked, NEW r \in Workers,
         RecordSteps(r) \/ ClosingSteps(r)
  PROVE  (LedgerStep /\ Proceeds(r)) \/ Close(r) \/ Reopen(r)
<1>1. CASE RecordSteps(r)
  <2>1. CASE \E d \in Drafts, original \in {0} \cup DOMAIN events : StartRecord(r, d, original)
    BY <2>1, StartRecordStep
  <2>2. CASE RateArrives(r)
    BY <2>2, RateArrivesStep
  <2>3. CASE RateUnavailable(r)
    BY <2>3, WaitingStep, AnswerProceeds DEF RateUnavailable
  <2>4. CASE DeactivateOriginal(r)
    BY <2>4, DeactivateOriginalStep
  <2>5. CASE CreateEvent(r)
    BY <2>5, CreateEventStep
  <2>6. CASE \E i \in DOMAIN events : StartDeactivation(r, i)
    BY <2>6, StartDeactivationStep
  <2>7. CASE Deactivate(r)
    BY <2>7, DeactivateStep
  <2>8. CASE \E o \in OpeningDrafts : StartOpening(r, o)
    BY <2>8, StartOpeningStep
  <2>9. CASE InsertOpening(r)
    BY <2>9, InsertOpeningStep
  <2>. QED BY <1>1, <2>1, <2>2, <2>3, <2>4, <2>5, <2>6, <2>7, <2>8, <2>9 DEF RecordSteps
<1>2. CASE ClosingSteps(r)
  <2>1. CASE \E y \in Years : StartClosing(r, y) \/ StartReopening(r, y)
    BY <2>1, StartTransactionStep
  <2>2. CASE ClosingFails(r)
    BY <2>2, WaitingStep, AnswerProceeds DEF ClosingFails
  <2>. QED BY <1>2, <2>1, <2>2 DEF ClosingSteps
<1>. QED BY <1>1, <1>2

-------------------------------------------------------------------------------
(* A handler of the ledger, as the promise of the closing sees it. *)
LEMMA LedgerStepIsEdit ==
  ASSUME Safety, LedgerStep
  PROVE  Promise!Edit
<1>1. /\ UNCHANGED <<loss, comp, assessment>>
      /\ \A i \in DOMAIN events :
           /\ i \in DOMAIN events' /\ events'[i].trade = events[i].trade
           /\ ano_fiscal_de(events'[i]) = ano_fiscal_de(events[i])
           /\ ano_fiscal_de(events[i]) \in Closed => events'[i] = events[i]
      /\ \A i \in DOMAIN events' \ DOMAIN events : ano_fiscal_de(events'[i]) \notin Closed
  BY DEF LedgerStep, ano_fiscal_de, Open
<1>2. ASSUME NEW y \in Closed
      PROVE  FactsOf(y)' = FactsOf(y)
  <2>1. \A i \in DOMAIN events : events[i].active /\ ano_fiscal_de(events[i]) = y
            => i \in DOMAIN events' /\ events'[i] = events[i]
    BY <1>1
  <2>2. \A i \in DOMAIN events' : events'[i].active /\ ano_fiscal_de(events'[i]) = y
            => i \in DOMAIN events /\ events'[i] = events[i]
    BY <1>1
  <2>. QED BY <2>1, <2>2, FactsKept
<1>. QED BY <1>1, <1>2, LedgerStepEdits

(* After a transaction that ran alone no request relies on anything. *)
LEMMA AloneLeavesNone ==
  ASSUME RequestsSafety, [TransactionsAlone]_requestVars, NEW r \in Workers,
         Close(r) \/ Reopen(r)
  PROVE  StillChecked'
<1>1. Answer(r) /\ request[r].step # "idle"
  BY DEF Close, Reopen
<1>2. \A s \in Workers \ {r} : request[s] = Idle
  <2>1. request' # request
    BY <1>1, RequestChanges
  <2>. QED BY <2>1 DEF TransactionsAlone, requestVars
<1>3. \A s \in Workers : request'[s] = Idle
  BY <1>1, <1>2 DEF Answer, RequestsSafety
<1>. QED BY <1>3, IdleChecked DEF StillChecked

LEMMA AloneStep ==
  ASSUME RequestsSafety, ClosedLedger, StillChecked,
         [NextRequests]_requestVars, [TransactionsAlone]_requestVars
  PROVE  ClosedLedger' /\ StillChecked' /\ Promise!Next
<1>1. Safety /\ EventYears /\ Safety'
  BY NextRequestsSafe DEF RequestsSafety, ClosedLedger
<1>2. ASSUME LedgerStep
      PROVE  ClosedLedger' /\ Promise!Next
  BY <1>1, <1>2, LedgerStepClosings, LedgerStepIsEdit DEF Promise!Next
<1>3. ASSUME NEW r \in Workers, LedgerStep, Proceeds(r)
      PROVE  ClosedLedger' /\ StillChecked' /\ Promise!Next
  BY <1>2, <1>3, ChecksStay
<1>4. ASSUME NEW r \in Workers, Close(r)
      PROVE  ClosedLedger' /\ StillChecked' /\ Promise!Next
  <2>1. /\ request[r].year \in Years /\ CloseTransaction(request[r].year)
        /\ request[r].year \notin Closed
    BY <1>4, RequestKinds DEF Close, RequestsSafety, StillChecked, Checked
  <2>2. CloseYear(request[r].year)
    BY <2>1 DEF CloseYear, Open
  <2>. QED BY <1>1, <1>4, <2>1, <2>2, CloseKeepsClosings, CloseYearSeals, AloneLeavesNone
           DEF Promise!Next
<1>5. ASSUME NEW r \in Workers, Reopen(r)
      PROVE  ClosedLedger' /\ StillChecked' /\ Promise!Next
  <2>1. request[r].year \in Years /\ ReopenYear(request[r].year)
    BY <1>5, RequestKinds DEF Reopen, ReopenYear, RequestsSafety, StillChecked, Checked
  <2>. QED BY <1>1, <1>5, <2>1, ReopenYearKeepsClosings, ReopenYearUnseals, AloneLeavesNone
           DEF Promise!Next
<1>6. ASSUME UNCHANGED requestVars
      PROVE  ClosedLedger' /\ StillChecked' /\ Promise!Next
  <2>1. UNCHANGED vars /\ request' = request
    BY <1>6 DEF requestVars
  <2>2. events' = events /\ Closed' = Closed
    BY <2>1 DEF vars, Closed
  <2>3. StillChecked'
    BY <2>1, <2>2 DEF StillChecked
  <2>. QED BY <1>2, <2>1, <2>3, WaitingStep
<1>. QED BY <1>1, <1>3, <1>4, <1>5, <1>6, CheckedSteps DEF NextRequests

LEMMA InitAlone == InitRequests => ClosedLedger /\ StillChecked
<1>. SUFFICES ASSUME InitRequests PROVE ClosedLedger /\ StillChecked
  OBVIOUS
<1>1. \A r \in Workers : request[r] = Idle
  BY DEF InitRequests
<1>. QED BY <1>1, InitClosings, IdleChecked DEF InitRequests, StillChecked

(* When closings and reopenings run alone, every check that a request made
   before its wait for the central bank, or before its write, still holds
   when it writes, and the ledger and the closed years stay together as they
   do without interleavings: the transactions of closing and reopening are
   all that has to be kept apart, recordings need no order of their own. *)
THEOREM ClosingsAloneKeepChecks ==
  SpecRequests /\ [][TransactionsAlone]_requestVars => [](ClosedLedger /\ StillChecked)
<1>1. RequestsSafety /\ ClosedLedger /\ StillChecked
        /\ [NextRequests]_requestVars /\ [TransactionsAlone]_requestVars
        => (ClosedLedger /\ StillChecked)'
  BY AloneStep
<1>. QED BY <1>1, InitAlone, RequestsSafe, PTL DEF SpecRequests

(* FIFO, the balance carried forward and the custody of the closed years
   then survive every interleaving. *)
THEOREM ClosingsAloneKeepTheLedger ==
  SpecRequests /\ [][TransactionsAlone]_requestVars
    => [](FifoOrder /\ CarryforwardIsLedgerBalance /\ ClosedSalesCovered)
<1>1. ClosedLedger => FifoOrder /\ CarryforwardIsLedgerBalance /\ ClosedSalesCovered
  BY LastCarryforward DEF ClosedLedger, CarryforwardIsLedgerBalance
<1>. QED BY <1>1, ClosingsAloneKeepChecks, PTL

(* Refinement: the interleaved handlers implement the promise of the closing
   when closings and reopenings run alone. *)
THEOREM ClosingsAloneImplementPromise ==
  SpecRequests /\ [][TransactionsAlone]_requestVars => ClosingSealsYears
<1>1. InitRequests => Promise!Init
  BY InitPromise DEF InitRequests
<1>2. RequestsSafety /\ ClosedLedger /\ StillChecked
        /\ [NextRequests]_requestVars /\ [TransactionsAlone]_requestVars
        => [Promise!Next]_(Promise!vars)
  BY AloneStep
<1>. QED BY <1>1, <1>2, ClosingsAloneKeepChecks, RequestsSafe, PTL
         DEF SpecRequests, ClosingSealsYears, Promise!Spec

(* A step of the promise spares the years that are closed before and after. *)
LEMMA PromiseSpares ==
  ASSUME Safety, Safety', Promise!Next, NEW y \in Closed \cap Closed'
  PROVE  FactsOf(y)' = FactsOf(y) /\ SealedBy(y)' = SealedBy(y)
<1>. DEFINE f == [z \in Years |-> FactsOf(z)]
            s == [z \in Closed |-> SealedBy(z)]
<1>1. y \in Years
  BY DEF Safety, TypeOK
<1>2. f[y] = FactsOf(y) /\ s[y] = SealedBy(y) /\ DOMAIN s = Closed
  BY <1>1
<1>3. f'[y] = FactsOf(y)' /\ s'[y] = SealedBy(y)' /\ DOMAIN s' = Closed'
  BY <1>1
<1>4. CASE Promise!Edit
  <2>1. f'[y] = f[y] /\ s' = s
    BY <1>4 DEF Promise!Edit
  <2>. QED BY <1>2, <1>3, <2>1
<1>5. ASSUME NEW year \in Years, Promise!Seal(year)
      PROVE  f'[y] = f[y] /\ s'[y] = s[y]
  BY <1>5 DEF Promise!Seal
<1>6. ASSUME NEW year \in Years, Promise!Unseal(year)
      PROVE  f'[y] = f[y] /\ s'[y] = s[y]
  BY <1>6 DEF Promise!Unseal
<1>. QED BY <1>2, <1>3, <1>4, <1>5, <1>6 DEF Promise!Next

(* Both disagreements on closed years, that facts enter them and that they
   are closed twice, come from closings and reopenings that overlap with
   other requests, and from nothing else. *)
THEOREM ClosingsAloneKeepClosedYears ==
  SpecRequests /\ [][TransactionsAlone]_requestVars
    => ClosedYearsKeepFacts /\ ClosedYearsKeepSeals
<1>1. RequestsSafety /\ RequestsSafety' /\ ClosedLedger /\ StillChecked
        /\ [NextRequests]_requestVars /\ [TransactionsAlone]_requestVars
        => \A y \in Closed \cap Closed' :
             FactsOf(y)' = FactsOf(y) /\ SealedBy(y)' = SealedBy(y)
  BY AloneStep, PromiseSpares DEF RequestsSafety
<1>2. RequestsSafety /\ RequestsSafety' /\ ClosedLedger /\ StillChecked
        /\ [NextRequests]_requestVars /\ [TransactionsAlone]_requestVars
        => /\ [\A y \in Closed \cap Closed' : FactsOf(y)' = FactsOf(y)]_requestVars
           /\ [\A y \in Closed \cap Closed' : SealedBy(y)' = SealedBy(y)]_requestVars
  BY <1>1
<1>. QED BY <1>2, ClosingsAloneKeepChecks, RequestsSafe, PTL
         DEF SpecRequests, ClosedYearsKeepFacts, ClosedYearsKeepSeals

-------------------------------------------------------------------------------
LEMMA AloneReproducible ==
  ASSUME RequestsSafety, ClosedLedger, StillChecked, ClosedPrefixReproducible,
         [NextRequests]_requestVars
  PROVE  ClosedPrefixReproducible'
<1>1. Safety /\ EventYears /\ Safety'
  BY NextRequestsSafe DEF RequestsSafety, ClosedLedger
<1>2. ASSUME NEW r \in Workers, RecordSteps(r) \/ ClosingSteps(r)
      PROVE  ClosedPrefixReproducible'
  <2>1. CASE LedgerStep
    BY <1>1, <2>1, LedgerStepReproducible
  <2>2. CASE Close(r)
    <3>1. request[r].year \in Years /\ CloseYear(request[r].year)
      BY <2>2, RequestKinds DEF Close, CloseYear, Open, RequestsSafety, StillChecked, Checked
    <3>. QED BY <1>1, <3>1, CloseYearReproducible
  <2>3. CASE Reopen(r)
    <3>1. request[r].year \in Years /\ ReopenYear(request[r].year)
      BY <2>3, RequestKinds DEF Reopen, ReopenYear, RequestsSafety, StillChecked, Checked
    <3>. QED BY <1>1, <3>1, ReopenYearReproducible
  <2>. QED BY <1>1, <1>2, <2>1, <2>2, <2>3, CheckedSteps
<1>3. ASSUME UNCHANGED requestVars
      PROVE  ClosedPrefixReproducible'
  <2>1. UNCHANGED vars
    BY <1>3 DEF requestVars
  <2>. QED BY <1>1, <2>1, StutteringStep, LedgerStepReproducible
<1>. QED BY <1>2, <1>3 DEF NextRequests

(* A year closed after all the years before it, and whose selling accounts
   have no opening dated after it, recomputes to its snapshot, whatever
   requests interleave, when closings and reopenings run alone. *)
THEOREM ClosingsAloneRecompute ==
  SpecRequests /\ [][TransactionsAlone]_requestVars => []ClosedPrefixReproducible
<1>1. InitRequests => ClosedPrefixReproducible
  BY DEF InitRequests, Init, Closed, ClosedPrefixReproducible
<1>2. /\ RequestsSafety /\ ClosedLedger /\ StillChecked /\ ClosedPrefixReproducible
      /\ [NextRequests]_requestVars
      => ClosedPrefixReproducible'
  BY AloneReproducible
<1>. QED BY <1>1, <1>2, ClosingsAloneKeepChecks, RequestsSafe, PTL DEF SpecRequests

-------------------------------------------------------------------------------
(* Versions of an event.  Two of them are valid only when two corrections of
   the same original were under way at the same time. *)
CorrectionsApart ==
  \A r, s \in Workers :
    /\ request[r].step \in Recording /\ request[s].step \in Recording
    /\ request[r].original = request[s].original /\ request[r].original # 0
    => r = s

(* No event names this one as the one it corrects. *)
Uncorrected(evs, i) == \A j \in DOMAIN evs : evs[j].corrects # i

(* An event under correction was not corrected before, and its correction
   deactivates it before it creates the substitute. *)
Correctable(q, evs) ==
  q.step \in Recording /\ q.original # 0 =>
    /\ Uncorrected(evs, q.original)
    /\ q.step = "creating" => ~ evs[q.original].active

(* An event corrects an earlier one; one that was corrected is not active,
   and it was corrected once. *)
Versions ==
  /\ \A i \in DOMAIN events : events[i].corrects \in {0} \cup DOMAIN events
  /\ \A i \in DOMAIN events : events[i].active => Uncorrected(events, i)
  /\ \A j, k \in DOMAIN events :
       events[j].corrects = events[k].corrects /\ events[j].corrects # 0 => j = k
  /\ \A r \in Workers : Correctable(request[r], events)

(* What every step but the creation of an event does to the versions. *)
NoNewVersion ==
  /\ DOMAIN events' = DOMAIN events
  /\ \A j \in DOMAIN events : /\ events'[j].corrects = events[j].corrects
                              /\ events'[j].active => events[j].active

LEMMA NoNewVersionKeeps ==
  ASSUME RequestsSafety, Versions, NoNewVersion, NEW r \in Workers, NEW q \in Requests,
         request' = [request EXCEPT ![r] = q], Correctable(q, events')
  PROVE  Versions'
<1>1. \A s \in Workers : request'[s] = IF s = r THEN q ELSE request[s]
  BY RequestMoves DEF RequestsSafety
<1>2. \A i : Uncorrected(events, i) => Uncorrected(events', i)
  BY DEF NoNewVersion, Uncorrected
<1>3. ASSUME NEW s \in Workers
      PROVE  Correctable(request'[s], events')
  <2>1. CASE s = r
    BY <1>1, <2>1
  <2>2. CASE s # r
    <3>1. Correctable(request[s], events) /\ Grounded(request[s], DOMAIN events)
      BY DEF Versions, RequestsSafety
    <3>2. Correctable(request[s], events')
      BY <1>2, <3>1 DEF NoNewVersion, Correctable, Grounded
    <3>. QED BY <1>1, <2>2, <3>2
  <2>. QED BY <2>1, <2>2
<1>4. /\ \A i \in DOMAIN events' : events'[i].corrects \in {0} \cup DOMAIN events'
      /\ \A i \in DOMAIN events' : events'[i].active => Uncorrected(events', i)
      /\ \A j, k \in DOMAIN events' :
           events'[j].corrects = events'[k].corrects /\ events'[j].corrects # 0 => j = k
  BY <1>2 DEF Versions, NoNewVersion
<1>. QED BY <1>3, <1>4 DEF Versions

(* A request that records nothing keeps the versions if its step does. *)
LEMMA NoRecordingVersions ==
  ASSUME RequestsSafety, Versions, NoNewVersion, NEW r \in Workers, NEW q \in Requests,
         request' = [request EXCEPT ![r] = q], q.step \notin Recording
  PROVE  Versions'
BY NoNewVersionKeeps DEF Correctable

(* The answer of a request relies on no version. *)
LEMMA AnswerVersions ==
  ASSUME RequestsSafety, Versions, NoNewVersion, NEW r \in Workers, Answer(r)
  PROVE  Versions'
BY NoRecordingVersions, RequestTypes DEF Answer

LEMMA UnchangedNoNewVersion ==
  ASSUME UNCHANGED events
  PROVE  NoNewVersion
BY DEF NoNewVersion

LEMMA RemovalNoNewVersion ==
  ASSUME Safety, NEW i \in DOMAIN events, events' = [events EXCEPT ![i].active = FALSE]
  PROVE  NoNewVersion /\ ~ events'[i].active
<1>1. /\ DOMAIN events' = DOMAIN events
      /\ \A j \in DOMAIN events :
           events'[j] = IF j = i THEN [events[i] EXCEPT !.active = FALSE] ELSE events[j]
  BY DeactivatedType DEF Safety
<1>2. \A j \in DOMAIN events : events[j] \in Event
  BY EventsAreBookable DEF Safety
<1>. QED BY <1>1, <1>2 DEF NoNewVersion, Event

LEMMA StartRecordVersions ==
  ASSUME RequestsSafety, Versions, NEW r \in Workers, NEW d \in Drafts,
         NEW original \in {0} \cup DOMAIN events, StartRecord(r, d, original)
  PROVE  Versions'
<1>. DEFINE q == [step |-> "fetching", draft |-> d, original |-> original]
<1>1. /\ events' = events /\ request' = [request EXCEPT ![r] = q]
      /\ original # 0 => events[original].active
  BY DEF StartRecord, vars
<1>2. original # 0 => Uncorrected(events, original)
  BY <1>1 DEF Versions
<1>3. q \in Requests
  <2>1. DOMAIN events \subseteq EventIds /\ MaxEvents \in Nat
    BY EventsAreBookable, BoundsAssumption DEF RequestsSafety, Safety
  <2>2. original \in 0..MaxEvents
    BY <2>1 DEF EventIds
  <2>. QED BY <2>2, RequestTypes DEF Recordings, Recording
<1>4. Correctable(q, events')
  BY <1>1, <1>2 DEF Correctable
<1>. HIDE DEF q
<1>. QED BY <1>1, <1>3, <1>4, UnchangedNoNewVersion, NoNewVersionKeeps

LEMMA RateArrivesVersions ==
  ASSUME RequestsSafety, Versions, NEW r \in Workers, RateArrives(r)
  PROVE  Versions'
<1>1. /\ request[r].step \in Recording /\ events' = events
      /\ "creating" \in Recording /\ "deactivating" \in Recording
  BY DEF RateArrives, vars, Recording
<1>2. NoNewVersion
  BY <1>1, UnchangedNoNewVersion
<1>3. ASSUME NEW step \in Recording, Goto(r, step), step = "creating" \/ step = "deactivating",
             step = "creating" <=> request[r].original = 0
      PROVE  Versions'
  <2>1. PICK q \in Requests : /\ request' = [request EXCEPT ![r] = q]
                              /\ q.step = step /\ q.draft = request[r].draft
                              /\ q.original = request[r].original
                              /\ Grounded(q, DOMAIN events)
    BY <1>1, <1>3, GotoRecording
  <2>2. Correctable(request[r], events)
    BY DEF Versions
  <2>3. Correctable(q, events')
    BY <1>1, <1>3, <2>1, <2>2 DEF Correctable
  <2>. QED BY <1>2, <2>1, <2>3, NoNewVersionKeeps
<1>4. CASE Answer(r)
  BY <1>2, <1>4, AnswerVersions
<1>. QED BY <1>1, <1>3, <1>4 DEF RateArrives

LEMMA DeactivateOriginalVersions ==
  ASSUME RequestsSafety, Versions, NEW r \in Workers, DeactivateOriginal(r)
  PROVE  Versions'
<1>1. /\ request[r].step \in Recording /\ Goto(r, "creating") /\ "creating" \in Recording
      /\ request[r].original \in DOMAIN events
      /\ events' = [events EXCEPT ![request[r].original].active = FALSE]
  BY DEF DeactivateOriginal, Recording, RequestsSafety, Grounded
<1>2. NoNewVersion /\ ~ events'[request[r].original].active
  BY <1>1, RemovalNoNewVersion DEF RequestsSafety
<1>3. PICK q \in Requests : /\ request' = [request EXCEPT ![r] = q]
                            /\ q.step = "creating" /\ q.draft = request[r].draft
                            /\ q.original = request[r].original
                            /\ Grounded(q, DOMAIN events)
  BY <1>1, GotoRecording
<1>4. Correctable(request[r], events)
  BY DEF Versions
<1>5. Correctable(q, events')
  BY <1>1, <1>2, <1>3, <1>4 DEF Correctable, Uncorrected, NoNewVersion
<1>. QED BY <1>2, <1>3, <1>5, NoNewVersionKeeps

(* The substitute is created: it is the only one that corrects its original,
   which was deactivated before, and nothing corrects it. *)
LEMMA CreateEventVersions ==
  ASSUME RequestsSafety, Versions, CorrectionsApart, NEW r \in Workers, CreateEvent(r)
  PROVE  Versions'
<1>. DEFINE original == request[r].original
            new == NewEvent(request[r].draft, original)
<1>1. /\ request[r].step = "creating" /\ request[r].step \in Recording /\ Answer(r)
      /\ events' = Append(events, new) \/ events' = events
  BY DEF CreateEvent, Recording
<1>2. CASE events' = events
  BY <1>1, <1>2, UnchangedNoNewVersion, AnswerVersions
<1>3. CASE events' = Append(events, new)
  <2>. DEFINE id == Len(events) + 1
  <2>1. /\ original \in {0} \cup DOMAIN events
        /\ original # 0 => Uncorrected(events, original) /\ ~ events[original].active
    <3>1. Grounded(request[r], DOMAIN events) /\ Correctable(request[r], events)
      BY DEF RequestsSafety, Versions
    <3>. QED BY <1>1, <3>1 DEF Grounded, Correctable
  <2>2. new.corrects = original /\ new \in Event
    <3>1. request[r] \in Recordings
      BY <1>1, RequestKinds DEF RequestsSafety
    <3>2. request[r].draft \in Drafts /\ original \in 0..MaxEvents
      BY <3>1 DEF Recordings
    <3>3. new.corrects = original
      BY DEF NewEvent
    <3>. QED BY <3>2, <3>3, NewEventType
  <2>. HIDE DEF new
  <2>3. /\ DOMAIN events = 1..Len(events) /\ Len(events) \in Nat
        /\ DOMAIN events' = DOMAIN events \cup {id} /\ id \notin DOMAIN events /\ id # 0
        /\ events'[id] = new
        /\ \A i \in DOMAIN events : events'[i] = events[i]
    <3>1. events \in Seq(Event) /\ DOMAIN events = 1..Len(events) /\ Len(events) \in Nat
      BY EventsAreBookable DEF RequestsSafety, Safety, TypeOK
    <3>. QED BY <1>3, <2>2, <3>1
  <2>. HIDE DEF id
  <2>4. \A i \in DOMAIN events' : events'[i].corrects \in {0} \cup DOMAIN events'
    BY <2>1, <2>2, <2>3 DEF Versions
  <2>5. \A i \in DOMAIN events : i # original /\ Uncorrected(events, i) => Uncorrected(events', i)
    BY <2>2, <2>3 DEF Uncorrected
  <2>6. Uncorrected(events', id)
    BY <2>1, <2>2, <2>3 DEF Uncorrected, Versions
  <2>7. \A i \in DOMAIN events' : events'[i].active => Uncorrected(events', i)
    <3>1. ASSUME NEW i \in DOMAIN events, events[i].active
          PROVE  Uncorrected(events', i)
      <4>1. Uncorrected(events, i) /\ i # 0
        BY <2>3, <3>1 DEF Versions
      <4>. QED BY <2>1, <2>5, <3>1, <4>1
    <3>. QED BY <2>3, <2>6, <3>1
  <2>8. ASSUME NEW j \in DOMAIN events', NEW k \in DOMAIN events',
               events'[j].corrects = events'[k].corrects, events'[j].corrects # 0
        PROVE  j = k
    <3>1. CASE j \in DOMAIN events /\ k \in DOMAIN events
      BY <2>3, <2>8, <3>1 DEF Versions
    <3>2. CASE (j = id /\ k \in DOMAIN events) \/ (k = id /\ j \in DOMAIN events)
      BY <2>1, <2>2, <2>3, <2>8, <3>2 DEF Uncorrected
    <3>3. DOMAIN events' = DOMAIN events \cup {id}
      BY <2>3
    <3>. QED BY <2>8, <3>1, <3>2, <3>3
  <2>9. ASSUME NEW s \in Workers
        PROVE  Correctable(request'[s], events')
    <3>1. CASE s = r
      <4>1. request'[s] = Idle
        BY <1>1, <3>1 DEF Answer, RequestsSafety
      <4>. QED BY <4>1, RequestTypes DEF Correctable
    <3>2. CASE s # r
      <4>1. request'[s] = request[s]
        BY <1>1, <3>2 DEF Answer, RequestsSafety
      <4>2. Grounded(request[s], DOMAIN events) /\ Correctable(request[s], events)
        BY DEF RequestsSafety, Versions
      <4>3. request[s].step \in Recording /\ request[s].original # 0
              => request[s].original # original
        BY <1>1, <3>2 DEF CorrectionsApart
      <4>4. Correctable(request[s], events')
        BY <2>3, <2>5, <4>2, <4>3 DEF Correctable, Grounded
      <4>. QED BY <4>1, <4>4
    <3>. QED BY <3>1, <3>2
  <2>. QED BY <2>4, <2>7, <2>8, <2>9 DEF Versions
<1>. QED BY <1>1, <1>2, <1>3

LEMMA DeactivateVersions ==
  ASSUME RequestsSafety, Versions, NEW r \in Workers, Deactivate(r)
  PROVE  Versions'
<1>1. /\ Answer(r) /\ request[r].original \in DOMAIN events
      /\ events' = [events EXCEPT ![request[r].original].active = FALSE]
  BY DEF Deactivate, RequestsSafety, Grounded
<1>2. NoNewVersion
  BY <1>1, RemovalNoNewVersion DEF RequestsSafety
<1>. QED BY <1>1, <1>2, AnswerVersions

(* A request that deactivates, inserts an opening, closes or reopens. *)
LEMMA StartOtherVersions ==
  ASSUME RequestsSafety, Versions, NEW r \in Workers, UNCHANGED vars,
         NEW q \in Requests, request' = [request EXCEPT ![r] = q],
         q.step \notin Recording
  PROVE  Versions'
<1>1. NoNewVersion
  BY UnchangedNoNewVersion DEF vars
<1>. QED BY <1>1, NoRecordingVersions

LEMMA RecordStepsVersions ==
  ASSUME RequestsSafety, Versions, CorrectionsApart, NEW r \in Workers, RecordSteps(r)
  PROVE  Versions'
<1>1. CASE \E d \in Drafts, original \in {0} \cup DOMAIN events : StartRecord(r, d, original)
  BY <1>1, StartRecordVersions
<1>2. CASE RateArrives(r)
  BY <1>2, RateArrivesVersions
<1>3. CASE RateUnavailable(r)
  BY <1>3, UnchangedNoNewVersion, AnswerVersions DEF RateUnavailable, vars
<1>4. CASE DeactivateOriginal(r)
  BY <1>4, DeactivateOriginalVersions
<1>5. CASE CreateEvent(r)
  BY <1>5, CreateEventVersions
<1>6. ASSUME NEW i \in DOMAIN events, StartDeactivation(r, i)
      PROVE  Versions'
  <2>. DEFINE q == [step |-> "removing", original |-> i]
  <2>1. UNCHANGED vars /\ request' = [request EXCEPT ![r] = q]
    BY <1>6 DEF StartDeactivation
  <2>2. i \in EventIds
    BY EventsAreBookable DEF RequestsSafety, Safety
  <2>3. q \in Requests /\ q.step \notin Recording
    BY <2>2, RequestTypes DEF Recording
  <2>. HIDE DEF q
  <2>. QED BY <2>1, <2>3, StartOtherVersions
<1>7. CASE Deactivate(r)
  BY <1>7, DeactivateVersions
<1>8. ASSUME NEW o \in OpeningDrafts, StartOpening(r, o)
      PROVE  Versions'
  <2>. DEFINE q == [step |-> "opening", opening |-> o]
  <2>1. UNCHANGED vars /\ request' = [request EXCEPT ![r] = q]
    BY <1>8 DEF StartOpening
  <2>2. q \in Requests /\ q.step \notin Recording
    BY RequestTypes DEF Recording
  <2>. HIDE DEF q
  <2>. QED BY <2>1, <2>2, StartOtherVersions
<1>9. CASE InsertOpening(r)
  BY <1>9, UnchangedNoNewVersion, AnswerVersions DEF InsertOpening
<1>. QED BY <1>1, <1>2, <1>3, <1>4, <1>5, <1>6, <1>7, <1>8, <1>9 DEF RecordSteps

LEMMA ClosingStepsVersions ==
  ASSUME RequestsSafety, Versions, NEW r \in Workers, ClosingSteps(r)
  PROVE  Versions'
<1>1. ASSUME NEW year \in Years, StartClosing(r, year) \/ StartReopening(r, year)
      PROVE  Versions'
  <2>1. PICK step \in {"closing", "reopening"} :
          UNCHANGED vars /\ request' = [request EXCEPT ![r] = [step |-> step, year |-> year]]
    BY <1>1 DEF StartClosing, StartReopening
  <2>. DEFINE q == [step |-> step, year |-> year]
  <2>2. q \in Requests /\ q.step \notin Recording
    BY RequestTypes DEF Recording
  <2>3. request' = [request EXCEPT ![r] = q]
    BY <2>1
  <2>. HIDE DEF q
  <2>. QED BY <2>1, <2>2, <2>3, StartOtherVersions
<1>2. CASE Close(r) \/ ClosingFails(r) \/ Reopen(r)
  <2>1. events' = events /\ Answer(r)
    BY <1>2 DEF Close, CloseTransaction, ClosingFails, Reopen, ReopenTransaction, vars
  <2>. QED BY <2>1, UnchangedNoNewVersion, AnswerVersions
<1>. QED BY <1>1, <1>2 DEF ClosingSteps

LEMMA InitVersions == InitRequests => Versions
<1>. SUFFICES ASSUME InitRequests PROVE Versions
  OBVIOUS
<1>1. events = <<>> /\ \A r \in Workers : request[r] = Idle
  BY DEF InitRequests, Init
<1>. QED BY <1>1, RequestTypes DEF Versions, Correctable

LEMMA NextVersions ==
  ASSUME RequestsSafety, Versions, CorrectionsApart, [NextRequests]_requestVars
  PROVE  Versions'
<1>1. CASE UNCHANGED requestVars
  <2>1. events' = events /\ request' = request
    BY <1>1 DEF requestVars, vars
  <2>. QED BY <2>1 DEF Versions
<1>. QED BY <1>1, RecordStepsVersions, ClosingStepsVersions DEF NextRequests

(* At most one version of a corrected event is valid when no two corrections
   of it are under way at once: the second one finds it inactive, whatever
   else interleaves, and also when a correction fails half way. *)
THEOREM CorrectionsApartKeepOneVersion ==
  SpecRequests /\ []CorrectionsApart => []OneValidVersion
<1>1. Versions /\ RequestsSafety => OneValidVersion
  <2>. SUFFICES ASSUME Versions, RequestsSafety, NEW i \in DOMAIN events
                PROVE  Cardinality({j \in DOMAIN events :
                         events[j].active /\ events[j].corrects = i}) <= 1
    BY DEF OneValidVersion
  <2>. DEFINE versions == {j \in DOMAIN events : events[j].active /\ events[j].corrects = i}
  <2>1. i # 0
    BY EventsAreBookable DEF RequestsSafety, Safety
  <2>2. \A j, k \in versions : j = k
    BY <2>1 DEF Versions
  <2>3. versions = {} \/ \E j : versions = {j}
    BY <2>2
  <2>. HIDE DEF versions
  <2>4. Cardinality(versions) = 0 \/ Cardinality(versions) = 1
    BY <2>3, FS_EmptySet, FS_Singleton
  <2>. QED BY <2>4 DEF versions
<1>2. RequestsSafety /\ Versions /\ CorrectionsApart /\ [NextRequests]_requestVars
        => Versions'
  BY NextVersions
<1>. QED BY <1>1, <1>2, InitVersions, RequestsSafe, PTL DEF SpecRequests

-------------------------------------------------------------------------------
(* The steps a request has left at most. *)
StepsLeft(q) ==
  CASE q.step = "idle" -> 0
    [] q.step = "fetching" -> 3
    [] q.step = "deactivating" -> 2
    [] OTHER -> 1

Advances(r) ==
  request[r] # Idle =>
    request'[r] = request[r] \/ StepsLeft(request'[r]) < StepsLeft(request[r])

LEMMA AnswerAdvances ==
  ASSUME RequestsSafety, NEW r \in Workers, Answer(r), request[r].step # "idle"
  PROVE  Advances(r)
<1>1. request'[r] = Idle /\ Idle.step = "idle"
  BY RequestTypes DEF Answer, RequestsSafety
<1>. QED BY <1>1 DEF Advances, StepsLeft

LEMMA GotoAdvances ==
  ASSUME RequestsSafety, NEW r \in Workers, Goto(r, "creating") \/ Goto(r, "deactivating"),
         \/ request[r].step = "fetching"
         \/ request[r].step = "deactivating" /\ Goto(r, "creating")
  PROVE  Advances(r)
<1>. DEFINE old == request[r]
<1>1. old \in Recordings
  BY RequestKinds DEF RequestsSafety, Recording
<1>2. PICK step \in {"creating", "deactivating"} :
        /\ request'[r] = [old EXCEPT !.step = step]
        /\ old.step = "deactivating" => step = "creating"
  <2>1. ASSUME NEW step, Goto(r, step)
        PROVE  request'[r] = [old EXCEPT !.step = step]
    BY <2>1 DEF Goto, RequestsSafety
  <2>. QED BY <2>1
<1>3. request'[r].step = step
  BY <1>1, <1>2 DEF Recordings
<1>4. old.step = "fetching" \/ old.step = "deactivating"
  OBVIOUS
<1>. QED BY <1>2, <1>3, <1>4 DEF Advances, StepsLeft

(* Only the thread of a request moves it. *)
LEMMA OthersWait ==
  ASSUME RequestsSafety, NEW r \in Workers, NEW s \in Workers, r # s,
         \/ Answer(s)
         \/ Goto(s, "creating") \/ Goto(s, "deactivating")
         \/ \E q : request' = [request EXCEPT ![s] = q]
  PROVE  Advances(r)
<1>1. request'[r] = request[r]
  BY DEF Answer, Goto, RequestsSafety
<1>. QED BY <1>1 DEF Advances

LEMMA IdleAdvances ==
  ASSUME NEW r \in Workers, request[r] = Idle
  PROVE  Advances(r)
BY DEF Advances

LEMMA StepAdvances ==
  ASSUME RequestsSafety, NEW r \in Workers, NEW s \in Workers,
         RecordSteps(s) \/ ClosingSteps(s)
  PROVE  Advances(r)
<1>1. ASSUME Answer(s), request[s].step # "idle"
      PROVE  Advances(r)
  BY <1>1, AnswerAdvances, OthersWait
<1>2. ASSUME Goto(s, "creating") \/ Goto(s, "deactivating"),
             \/ request[s].step = "fetching"
             \/ request[s].step = "deactivating" /\ Goto(s, "creating")
      PROVE  Advances(r)
  BY <1>2, GotoAdvances, OthersWait
<1>3. ASSUME request[s] = Idle, \E q : request' = [request EXCEPT ![s] = q]
      PROVE  Advances(r)
  BY <1>3, IdleAdvances, OthersWait
<1>4. RateArrives(s) => \/ Answer(s) /\ request[s].step # "idle"
                        \/ /\ Goto(s, "creating") \/ Goto(s, "deactivating")
                           /\ request[s].step = "fetching"
  BY DEF RateArrives
<1>5. CASE RecordSteps(s)
  BY <1>1, <1>2, <1>3, <1>4, <1>5 DEF RecordSteps, StartRecord, RateUnavailable,
     DeactivateOriginal, CreateEvent, StartDeactivation, Deactivate, StartOpening, InsertOpening
<1>6. CASE ClosingSteps(s)
  BY <1>1, <1>3, <1>6 DEF ClosingSteps, StartClosing, Close, ClosingFails, StartReopening, Reopen
<1>. QED BY <1>5, <1>6

(* A request under way never goes back and is not restarted: whatever the
   others do, it has at most three steps left and every one of them leaves
   it fewer: no retry or loop of the program can hold it up. *)
THEOREM RequestsAdvance ==
  SpecRequests => [][\A r \in Workers : Advances(r)]_requestVars
<1>1. RequestsSafety /\ [NextRequests]_requestVars
        => [\A r \in Workers : Advances(r)]_requestVars
  BY StepAdvances DEF NextRequests
<1>. QED BY <1>1, RequestsSafe, PTL DEF SpecRequests

===============================================================================
