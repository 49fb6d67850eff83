------------------------------ MODULE LossLedger ------------------------------
(***************************************************************************)
(* The loss ledger of fiscal/losses.py as operators on its two tables.     *)
(*                                                                         *)
(* loss[e]    : the LossRecord whose source event is e, a record with its  *)
(*              id, amount_brl and remaining_brl; DOMAIN loss is the set   *)
(*              of events that have one (sync_year keeps one per event).   *)
(* comp[e][y] : the LossCompensation of that record in year y, 0 when      *)
(*              there is no such row (a row is always positive).           *)
(*                                                                         *)
(* Years are numbered from 1, so that Total(comp[e], y) is what the record *)
(* of e gave to the years up to y.                                         *)
(***************************************************************************)
EXTENDS Position

(* A loss originates in the year of its sale. *)
Origin(events, e) == YearOf(events[e].trade)

(* FIFO: the oldest origin first, then the order of creation. *)
Older(events, loss, e, f) ==
  \/ Origin(events, e) < Origin(events, f)
  \/ Origin(events, e) = Origin(events, f) /\ loss[e].id < loss[f].id

HasCompensations(comp, e) == \E y \in DOMAIN comp[e] : comp[e][y] > 0

(* Mutant: a loss whose sale was deactivated still reduces tax. *)
open_records_with_phantoms(events, loss, until_year) ==
  {e \in DOMAIN loss : Origin(events, e) <= until_year /\ loss[e].remaining > 0}

(* What can be consumed in a year: the operational balance, without the
   losses of sales that were deactivated. *)
open_records(events, loss, until_year) ==
  {e \in DOMAIN loss : /\ events[e].active
                       /\ Origin(events, e) <= until_year
                       /\ loss[e].remaining > 0}

(* Mutants: the operational balance taken for the historical one, and the
   compensations of earlier years forgotten. *)
saldo_operational(loss, comp, e, year) == loss[e].remaining
saldo_never_used(loss, comp, e, year) == loss[e].amount

(* The historical balance of a record when the year begins. *)
saldo(loss, comp, e, year) == loss[e].amount - Total(comp[e], year - 1)

open_records_at_start_of(events, loss, comp, year) ==
  {e \in DOMAIN loss : /\ events[e].active
                       /\ Origin(events, e) <= year - 1
                       /\ saldo(loss, comp, e, year) > 0}

available_at_start_of(events, loss, comp, year) ==
  Total([e \in open_records_at_start_of(events, loss, comp, year) |->
           saldo(loss, comp, e, year)],
        Len(events))

(* Mutant: the compensations are deleted and nothing goes back. *)
ReturnedNothing(loss, comp, year) == loss

(* Every compensation of the year goes back to its record and is deleted. *)
Returned(loss, comp, year) ==
  [e \in DOMAIN loss |-> [loss[e] EXCEPT !.remaining = @ + comp[e][year]]]

Cleared(comp, year) ==
  [e \in DOMAIN comp |-> [comp[e] EXCEPT ![year] = 0]]

(* sync_year: the records of the year follow the results of its sales, gain
   being the function from each sale of the year to its result.  A record
   that some year has compensated is never rewritten: the closing fails. *)
SyncBlocked(loss, comp, gain) ==
  \E e \in DOMAIN gain \cap DOMAIN loss : HasCompensations(comp, e)

(* The records sync_year deletes: of deactivated sales that were never
   compensated, and of sales that are no longer losses. *)
Dropped(events, loss, comp, gain, year) ==
  {e \in DOMAIN loss :
     \/ /\ Origin(events, e) = year
        /\ ~ events[e].active
        /\ ~ HasCompensations(comp, e)
     \/ e \in DOMAIN gain /\ gain[e] >= 0}

(* The losses sync_year records for the first time, and the ids they get:
   in the order of the sales, after the last id ever given. *)
NewLosses(loss, gain) == {e \in DOMAIN gain \ DOMAIN loss : gain[e] < 0}

NewId(events, loss, gain, lastId, e) ==
  lastId + 1 + Cardinality({f \in NewLosses(loss, gain) : Precedes(events, f, e)})

Synced(events, loss, comp, gain, year, lastId) ==
  [e \in (DOMAIN loss \ Dropped(events, loss, comp, gain, year)) \cup NewLosses(loss, gain) |->
     IF e \in DOMAIN gain
     THEN [id        |-> IF e \in DOMAIN loss THEN loss[e].id
                         ELSE NewId(events, loss, gain, lastId, e),
           amount    |-> -gain[e],
           remaining |-> -gain[e]]
     ELSE loss[e]]

(* Mutants: the loop does not stop when the income is used up, and the loop
   begins with the newest loss. *)
uso_without_break(events, loss, year, income, e) ==
  LET open  == open_records(events, loss, year)
      older == {f \in open : Older(events, loss, f, e)}
      restante == Larger(income, 0) - Total([f \in older |-> loss[f].remaining], Len(events))
  IN  IF e \in open THEN Smaller(loss[e].remaining, restante) ELSE 0

uso_newest_first(events, loss, year, income, e) ==
  LET open  == open_records(events, loss, year)
      newer == {f \in open : Older(events, loss, e, f)}
      restante == Larger(income, 0) - Total([f \in newer |-> loss[f].remaining], Len(events))
  IN  IF e \in open THEN Smaller(loss[e].remaining, Larger(restante, 0)) ELSE 0

(* apply_compensation: the open records are consumed in FIFO order up to
   the income of the year.  Before record e there is left of the income
   what the older records did not cover. *)
uso(events, loss, year, income, e) ==
  LET open   == open_records(events, loss, year)
      older  == {f \in open : Older(events, loss, f, e)}
      restante == Larger(income, 0) - Total([f \in older |-> loss[f].remaining], Len(events))
  IN  IF e \in open THEN Smaller(loss[e].remaining, Larger(restante, 0)) ELSE 0

Consumed(events, loss, year, income) ==
  [e \in DOMAIN loss |->
     [loss[e] EXCEPT !.remaining = @ - uso(events, loss, year, income, e)]]

Compensated(events, loss, comp, year, income) ==
  [e \in DOMAIN comp |->
     [comp[e] EXCEPT ![year] =
        IF e \in DOMAIN loss THEN uso(events, loss, year, income, e) ELSE 0]]
===============================================================================
