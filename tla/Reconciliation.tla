----------------------------- MODULE Reconciliation -----------------------------
(***************************************************************************)
(* The reconciliation of a year before it closes: the ledger of module     *)
(* StatementImport against what the broker's documents say, after          *)
(* fiscal/reconciliation.py, with the checks of fiscal/validator.py on     *)
(* custody.  The tax of the closing is in module AnnualClosing.            *)
(*                                                                         *)
(*   documented  DocumentedBalance at the end of a year, by account        *)
(***************************************************************************)
EXTENDS StatementImport

CONSTANT Documents  \* what may be entered as a documented balance

(* The units of an asset the document does not list. *)
Unlisted == -1

ASSUME DocumentsAssumption ==
  Documents \subseteq [account: Accounts, year: Years, cash: Int, qty: Nat \cup {Unlisted}]

VARIABLE documented

vars == <<ledger, closed, documented>>

-------------------------------------------------------------------------------
(* DocumentedBalanceView only creates, once per account and date, and always
   as confirmed: a balance that was entered wrong cannot be changed, and the
   year of the date may be closed. *)
DocumentBalance(d) ==
  /\ <<d.account, d.year>> \notin DOMAIN documented
  /\ documented' = [k \in DOMAIN documented \cup {<<d.account, d.year>>} |->
                      IF k = <<d.account, d.year>> THEN [cash |-> d.cash, qty |-> d.qty]
                                                   ELSE documented[k]]
  /\ UNCHANGED <<ledger, closed>>

(* Accounts with something to reconcile at the end of the year. *)
conta_relevante(account, year) ==
  \/ \E i \in DOMAIN entries : /\ entries[i].active
                               /\ entries[i].account = account
                               /\ entries[i].trade = year
  \/ Opening[account] > 0
  \/ balance(account, year) # 0
  \/ units(entries, account, year) > 0

(* Mutant: an issue that was settled stays settled. *)
checar_importacoes_pendentes(year) ==
  \A k \in DOMAIN issues :
    issues[k].status = "PENDING" => IssueYear(k) \notin {0, year}

(* No issue of the year, or of a date that cannot be read, is open. *)
checar_importacoes(year) ==
  \A k \in DOMAIN issues : esta_aberta(k) => IssueYear(k) \notin {0, year}

checar_caixa(year) ==
  \A a \in Accounts : conta_relevante(a, year) =>
    /\ <<a, year>> \in DOMAIN documented
    /\ documented[<<a, year>>].cash = balance(a, year)

(* The ledger knows an asset by its entries, of any date, and by its opening
   position. *)
Known(account) ==
  \/ Opening[account] > 0
  \/ \E i \in DOMAIN entries : /\ entries[i].active
                               /\ entries[i].account = account
                               /\ entries[i].kind \in Supported \/ entries[i].qty > 0

(* What the ledger holds is listed with the same units; what it does not
   hold, or holds less than none of, may be left unlisted. *)
checar_posicoes(year) ==
  \A a \in Accounts :
    LET held == units(entries, a, year)
    IN  conta_relevante(a, year) /\ <<a, year>> \in DOMAIN documented /\ Known(a) =>
          \/ held <= 0 /\ documented[<<a, year>>].qty = Unlisted
          \/ held = documented[<<a, year>>].qty

checar_estado_imposto_exterior(year) ==
  \A i \in DOMAIN entries :
    entries[i].active /\ entries[i].kind = "DIVIDEND" /\ entries[i].receipt = year
      => entries[i].declared

checar_vendas_acima_da_custodia(year) ==
  \A i \in DOMAIN entries :
    entries[i].active /\ entries[i].kind = "SELL" /\ entries[i].trade = year =>
      units([entries EXCEPT ![i].active = FALSE], entries[i].account, year) >= entries[i].qty

Legs(pair) == {i \in DOMAIN entries : entries[i].active /\ entries[i].pair = pair}

(* No leg of a transfer of the year is active without the other. *)
checar_transferencias_solitarias(year) ==
  \A i \in DOMAIN entries :
    entries[i].active /\ entries[i].pair # 0 /\ entries[i].trade = year
      => Cardinality(Legs(entries[i].pair)) = 2

Reconciled(year) ==
  /\ checar_importacoes(year)
  /\ checar_caixa(year)
  /\ checar_posicoes(year)
  /\ checar_estado_imposto_exterior(year)

CloseYear(year) ==
  /\ Open(year)
  /\ Reconciled(year)
  /\ checar_vendas_acima_da_custodia(year)
  /\ checar_transferencias_solitarias(year)
  /\ \A y \in closed : y <= year
  /\ closed' = closed \cup {year}
  /\ UNCHANGED <<ledger, documented>>

ReopenYear(year) ==
  /\ \A y \in closed : y <= year
  /\ closed' = closed \ {year}
  /\ UNCHANGED <<ledger, documented>>

-------------------------------------------------------------------------------
Init ==
  /\ LedgerInit
  /\ closed = {}
  /\ documented = [k \in {} |-> k]

Next ==
  \/ LedgerNext /\ UNCHANGED documented
  \/ \E d \in Documents : DocumentBalance(d)
  \/ \E y \in Years : CloseYear(y)
  \/ \E y \in Years : ReopenYear(y)

Spec == Init /\ [][Next]_vars

-------------------------------------------------------------------------------
(* Type invariant: an issue names a line of an imported file and an entry
   that exists, and there is one balance per account and year. *)
ReconciliationTypeOK ==
  /\ LedgerTypeOK
  /\ \A k \in DOMAIN issues : issues[k].line[1] \in DOMAIN batches
  /\ closed \subseteq Years
  /\ DOMAIN documented \subseteq Accounts \X Years
  /\ \A k \in DOMAIN documented : documented[k] \in [cash: Int, qty: Nat \cup {Unlisted}]

(* No line disappears and none counts twice: every line of a file that was
   imported is one entry or one issue, whatever was submitted again or failed
   half-way, and a file that was not imported left nothing behind. *)
EveryLineAccountedFor ==
  \A f \in DOMAIN Files : \A n \in DOMAIN Files[f] :
    Cardinality({i \in DOMAIN entries : entries[i].line = <<f, n>>}) +
    Cardinality({k \in DOMAIN issues : issues[k].line = <<f, n>>}) =
      IF f \in DOMAIN batches THEN 1 ELSE 0

(* No presumption of zero tax: every income that counts in a closed year has
   a declared state, also those of statements and corrections that came after
   the closing. *)
ClosedIncomesDeclared ==
  \A y \in closed : checar_estado_imposto_exterior(y)

AllClosedUpTo(year) == \A y \in 1..year : y \in closed

(* Units that a year closed with are the units the documents show, and stay
   so: no entry, transfer, import or correction that is accepted later
   reaches the custody of a year closed after all the years before it. *)
ClosedUnitsDocumented ==
  \A y \in closed, a \in Accounts :
    AllClosedUpTo(y) /\ units(entries, a, y) > 0 =>
      /\ <<a, y>> \in DOMAIN documented
      /\ documented[<<a, y>>].qty = units(entries, a, y)

(* Both legs of a transfer are in the books of a closed year or neither is:
   each can be deactivated or corrected alone, and that has to be settled
   before the year closes. *)
ClosedTransfersPaired ==
  \A y \in closed : checar_transferencias_solitarias(y)

(* An issue of a closed year is open only when its statement came after the
   closing, or when it had been settled with an entry of another year, which
   the closing does not protect. *)
OpenIssuesOfClosedYears ==
  \A k \in DOMAIN issues :
    IssueYear(k) \in closed /\ esta_aberta(k) =>
      IF issues[k].status = "PENDING"
      THEN IssueYear(k) \in batches[issues[k].line[1]].imported
      ELSE ano_fiscal_de(entries[issues[k].entry]) # IssueYear(k)

(* Reconciled means equal, for every account: what reconciliation.py says of
   itself.  It fails: units below zero pass where the document lists none. *)
ClosedUnitsEqualDocuments ==
  \A y \in closed, a \in Accounts :
    AllClosedUpTo(y) /\ conta_relevante(a, y) =>
      units(entries, a, y) = IF documented[<<a, y>>].qty = Unlisted
                             THEN 0 ELSE documented[<<a, y>>].qty

(* The cash of a closed year stays the documented one.  It fails: an income
   traded in the year and received in the next one can still be recorded, and
   counts in the cash of the year it was traded in. *)
ClosedCashDocumented ==
  \A y \in closed, a \in Accounts :
    AllClosedUpTo(y) /\ conta_relevante(a, y) =>
      <<a, y>> \in DOMAIN documented /\ documented[<<a, y>>].cash = balance(a, y)
===============================================================================
