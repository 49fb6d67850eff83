---------------------------- MODULE StatementImport ----------------------------
(***************************************************************************)
(* What puts entries in the ledger of an account: the import of a broker's *)
(* statement, with the lines it leaves open, the event form and the        *)
(* transfer between accounts; after ledger/importers, issue_views.py,      *)
(* service.py and cash.py.                                                 *)
(*                                                                         *)
(*   entries   FinancialEvent, in id order                                 *)
(*   batches   ImportBatch of each file that was imported                  *)
(*   issues    ImportIssue, in id order                                    *)
(*   closed    the years with a confirmed AnnualAssessment                 *)
(*                                                                         *)
(* There is one asset and a date is a year: dates within a year are the    *)
(* matter of module Position.  `cash' is amount_usd with its sign.         *)
(***************************************************************************)
EXTENDS Iteration, Sequences, FiniteSets

CONSTANTS
  LastYear,       \* the years are 1..LastYear
  Accounts,       \* brokerage accounts
  Opening,        \* units of each account's OpeningPosition of 31/12/2025
  Files,          \* statement files and their lines
  Drafts,         \* what the event form may submit
  TransferDrafts, \* the transfers that may be asked for
  MaxEntries      \* bound on the number of entries

Years == 1..LastYear
Ids == 1..MaxEntries
Kinds == {"BUY", "SELL", "DIVIDEND", "BROKER_TRANSFER_OUT", "BROKER_TRANSFER_IN"}

(* The kinds of line that ACTION_MAP knows; "OTHER" stands for the rest. *)
Supported == {"BUY", "SELL", "DIVIDEND"}

(* The year of a line is 0 when its date cannot be read. *)
Lines == [kind: Supported \cup {"OTHER"}, trade: Years \cup {0}, qty: Nat, cash: Int]

(* No line: the entry comes from no file. *)
NoLine == <<"", 0>>

Entries == [kind: Kinds, account: Accounts, trade: Years, receipt: Years, qty: Nat, cash: Int,
            declared: BOOLEAN, active: BOOLEAN, pair: Nat, line: {NoLine} \cup ((DOMAIN Files) \X Nat)]

ASSUME ImportAssumption ==
  /\ LastYear \in Nat /\ MaxEntries \in Nat
  /\ Opening \in [Accounts -> Nat]
  /\ \A f \in DOMAIN Files : Files[f] \in Seq(Lines)
  /\ Drafts \subseteq [kind: Supported, account: Accounts, trade: Years, receipt: Years,
                       qty: Nat, cash: Int, declared: BOOLEAN]
  /\ TransferDrafts \subseteq [from: Accounts, to: Accounts, trade: Years, qty: Nat, cash: Nat]

VARIABLES entries, batches, issues, closed

ledger == <<entries, batches, issues>>

-------------------------------------------------------------------------------
(* Balances. *)

Open(year) == year \notin closed

ano_fiscal_de(e) == IF e.kind = "DIVIDEND" THEN e.receipt ELSE e.trade

EntriesOf(es, account, until) ==
  {i \in DOMAIN es : es[i].active /\ es[i].account = account /\ es[i].trade <= until}

(* PositionService.position, its quantity. *)
units(es, account, until) ==
  LET moves == [i \in EntriesOf(es, account, until) |->
                  CASE es[i].kind \in {"BUY", "BROKER_TRANSFER_IN"}   -> es[i].qty
                    [] es[i].kind \in {"SELL", "BROKER_TRANSFER_OUT"} -> -es[i].qty
                    [] OTHER                                          -> 0]
  IN  Opening[account] + Total(moves, Len(es))

(* Mutant: the cost that units carry along counts as cash. *)
cash_delta_with_cost(e) ==
  IF e.kind = "BROKER_TRANSFER_OUT" /\ e.qty = 0 THEN -e.cash ELSE e.cash

(* The effect of an entry on the cash: moving units moves no cash, and the
   outgoing leg of a cash transfer is recorded with a positive amount. *)
cash_delta(e) ==
  CASE e.kind \in {"BROKER_TRANSFER_OUT", "BROKER_TRANSFER_IN"} /\ e.qty > 0 -> 0
    [] e.kind = "BROKER_TRANSFER_OUT" /\ e.qty = 0 -> -e.cash
    [] OTHER -> e.cash

(* CashLedgerService.balance: by trade date, also for an income. *)
balance(account, until) ==
  Total([i \in EntriesOf(entries, account, until) |-> cash_delta(entries[i])], Len(entries))

-------------------------------------------------------------------------------
(* EventService.record. *)

(* The year of the entry is open, and a sale finds its units among those of
   all dates. *)
Admitted(es, e) ==
  /\ Open(ano_fiscal_de(e))
  /\ e.kind \in {"BUY", "SELL"} => e.qty > 0
  /\ e.kind = "SELL" => units(es, e.account, LastYear) >= e.qty

NewEntry(d, line) ==
  [kind |-> d.kind, account |-> d.account, trade |-> d.trade, receipt |-> d.receipt,
   qty |-> d.qty, cash |-> d.cash, declared |-> d.declared, active |-> TRUE,
   pair |-> 0, line |-> line]

RecordEntry(d) ==
  /\ Len(entries) < MaxEntries
  /\ Admitted(entries, d)
  /\ entries' = Append(entries, NewEntry(d, NoLine))
  /\ UNCHANGED <<batches, issues, closed>>

(* A correction: both years are open; the original stays as it was, no longer
   active, with the line it came from. *)
CorrectEntry(i, d) ==
  /\ Len(entries) < MaxEntries
  /\ entries[i].active
  /\ Admitted(entries, d)
  /\ Open(ano_fiscal_de(entries[i]))
  /\ entries' = Append([entries EXCEPT ![i].active = FALSE], NewEntry(d, NoLine))
  /\ UNCHANGED <<batches, issues, closed>>

(* Mutant: the view writes without the guard of FinancialEvent.save. *)
DeactivateEntryOfAnyYear(i) ==
  /\ entries[i].active
  /\ entries' = [entries EXCEPT ![i].active = FALSE]
  /\ UNCHANGED <<batches, issues, closed>>

(* FinancialEvent.save: one leg of a transfer can go without the other. *)
DeactivateEntry(i) ==
  /\ entries[i].active
  /\ Open(ano_fiscal_de(entries[i]))
  /\ entries' = [entries EXCEPT ![i].active = FALSE]
  /\ UNCHANGED <<batches, issues, closed>>

(* BrokerTransferService.record: two legs of the same amount, the first entry
   naming the pair; units have to be there, cash does not. *)
Transferred(t) ==
  LET leg(kind, account) ==
        [kind |-> kind, account |-> account, trade |-> t.trade, receipt |-> t.trade,
         qty |-> t.qty, cash |-> t.cash, declared |-> FALSE, active |-> TRUE,
         pair |-> Len(entries) + 1, line |-> NoLine]
  IN  entries \o <<leg("BROKER_TRANSFER_OUT", t.from), leg("BROKER_TRANSFER_IN", t.to)>>

(* Mutant: a transfer is no sale, its year is not looked at. *)
TransferInAnyYear(t) ==
  /\ Len(entries) + 2 <= MaxEntries
  /\ t.from # t.to
  /\ t.qty > 0 => units(entries, t.from, LastYear) >= t.qty
  /\ t.qty = 0 => t.cash > 0
  /\ entries' = Transferred(t)
  /\ UNCHANGED <<batches, issues, closed>>

Transfer(t) ==
  /\ Len(entries) + 2 <= MaxEntries
  /\ Open(t.trade)
  /\ t.from # t.to
  /\ t.qty > 0 => units(entries, t.from, LastYear) >= t.qty
  /\ t.qty = 0 => t.cash > 0
  /\ entries' = Transferred(t)
  /\ UNCHANGED <<batches, issues, closed>>

-------------------------------------------------------------------------------
(* SchwabStatementImporter. *)

Unsupported(file) == {n \in DOMAIN Files[file] : Files[file][n].kind = "OTHER"}

(* The loop over the rows: lines in the order of the file. *)
InOrder(lines) ==
  [k \in 1..Cardinality(lines) |->
     CHOOSE n \in lines : Cardinality({m \in lines : m < n}) = k - 1]

(* The lines that become entries. *)
SupportedLines(file) == InOrder(DOMAIN Files[file] \ Unsupported(file))

(* A line is received on its date and declares nothing of the tax abroad. *)
EntryOf(file, n, account) ==
  LET l == Files[file][n]
  IN  NewEntry([kind |-> l.kind, account |-> account, trade |-> l.trade, receipt |-> l.trade,
                qty |-> l.qty, cash |-> l.cash, declared |-> FALSE], <<file, n>>)

ImportedEntries(file, account) ==
  [k \in DOMAIN SupportedLines(file) |-> EntryOf(file, SupportedLines(file)[k], account)]

(* Every date can be read, and the income per unit has units to divide by. *)
Readable(file) ==
  \A n \in DOMAIN Files[file] \ Unsupported(file) :
    /\ Files[file][n].trade # 0
    /\ Files[file][n].kind = "DIVIDEND" => Files[file][n].qty > 0

NewIssues(file) ==
  LET lines == InOrder(Unsupported(file))
  IN  [k \in DOMAIN lines |-> [line |-> <<file, lines[k]>>, status |-> "PENDING", entry |-> 0]]

(* The first of the new entries that are admitted one after the other. *)
AdmittedUpTo(new) ==
  LET ok == {k \in 0..Len(new) :
               \A j \in 1..k : Admitted(entries \o SubSeq(new, 1, j - 1), new[j])}
  IN  CHOOSE k \in ok : \A j \in ok : j <= k

(* `imported' stands for imported_at: the years that were closed by then. *)
NewBatch(file, account) ==
  [account |-> account, events_created |-> Len(SupportedLines(file)),
   rows_unsupported |-> Cardinality(Unsupported(file)), imported |-> closed]

(* What the import of a file asks for before it records anything. *)
Importable(file, acknowledged) ==
  /\ Len(entries) + Len(SupportedLines(file)) <= MaxEntries
  /\ Readable(file)
  /\ acknowledged \/ Unsupported(file) = {}

(* The whole file: its lines become entries of the account or issues. *)
ImportLines(file, account) ==
  /\ entries' = entries \o ImportedEntries(file, account)
  /\ issues' = issues \o NewIssues(file)
  /\ batches' = [f \in DOMAIN batches \cup {file} |->
                   IF f = file THEN NewBatch(file, account) ELSE batches[f]]
  /\ UNCHANGED closed

Failing(file, account) ==
  AdmittedUpTo(ImportedEntries(file, account)) < Len(SupportedLines(file))

(* Mutant: the file is looked up among those of the account. *)
ImportOnceForEachAccount(file, account, acknowledged) ==
  /\ file \in DOMAIN batches => batches[file].account # account
  /\ Importable(file, acknowledged)
  /\ ~ Failing(file, account)
  /\ ImportLines(file, account)

(* Mutant: the issues are written first and stay when a line fails. *)
ImportIssuesFirst(file, account, acknowledged) ==
  /\ file \notin DOMAIN batches
  /\ Importable(file, acknowledged)
  /\ IF Failing(file, account)
     THEN issues' = issues \o NewIssues(file) /\ UNCHANGED <<entries, batches, closed>>
     ELSE ImportLines(file, account)

(* Mutant: the entries are written without EventService. *)
ImportUnguarded(file, account, acknowledged) ==
  /\ file \notin DOMAIN batches
  /\ Importable(file, acknowledged)
  /\ ImportLines(file, account)

(* import_csv, all or nothing; pending lines have to be acknowledged.  A file
   that was imported, for this account or another, changes nothing: its first
   batch is the answer. *)
import_csv(file, account, acknowledged) ==
  /\ file \notin DOMAIN batches
  /\ Importable(file, acknowledged)
  /\ ~ Failing(file, account)
  /\ ImportLines(file, account)

-------------------------------------------------------------------------------
(* ImportIssue. *)

IssueYear(k) == LET l == issues[k].line IN Files[l[1]][l[2]].trade

(* An issue settled with an entry is open again once the entry is no longer
   active; the status that is stored does not change. *)
esta_aberta(k) ==
  \/ issues[k].status = "PENDING"
  \/ issues[k].status = "RESOLVED_IMPORTED" /\ ~ entries[issues[k].entry].active

(* Any active entry of the account will do, whatever its kind and date. *)
resolve_imported(k, i) ==
  /\ esta_aberta(k)
  /\ entries[i].active
  /\ entries[i].account = batches[issues[k].line[1]].account
  /\ issues' = [issues EXCEPT ![k].status = "RESOLVED_IMPORTED", ![k].entry = i]
  /\ UNCHANGED <<entries, batches, closed>>

resolve_ignored(k) ==
  /\ esta_aberta(k)
  /\ issues' = [issues EXCEPT ![k].status = "RESOLVED_IGNORED"]
  /\ UNCHANGED <<entries, batches, closed>>

-------------------------------------------------------------------------------
LedgerInit ==
  /\ entries = <<>>
  /\ batches = [f \in {} |-> f]
  /\ issues = <<>>

LedgerNext ==
  \/ \E d \in Drafts : RecordEntry(d)
  \/ \E i \in DOMAIN entries, d \in Drafts : CorrectEntry(i, d)
  \/ \E i \in DOMAIN entries : DeactivateEntry(i)
  \/ \E t \in TransferDrafts : Transfer(t)
  \/ \E f \in DOMAIN Files, a \in Accounts, acknowledged \in BOOLEAN :
       import_csv(f, a, acknowledged)
  \/ \E k \in DOMAIN issues, i \in DOMAIN entries : resolve_imported(k, i)
  \/ \E k \in DOMAIN issues : resolve_ignored(k)

LedgerTypeOK ==
  /\ entries \in Seq(Entries) /\ Len(entries) <= MaxEntries
  /\ DOMAIN batches \subseteq DOMAIN Files
  /\ \A f \in DOMAIN batches :
       batches[f] \in [account: Accounts, events_created: Nat, rows_unsupported: Nat,
                       imported: SUBSET Years]
  /\ issues \in Seq([line: (DOMAIN Files) \X Nat, entry: 0..Len(entries),
                     status: {"PENDING", "RESOLVED_IMPORTED", "RESOLVED_IGNORED"}])
===============================================================================
