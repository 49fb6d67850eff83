------------------------------- MODULE Capitals -------------------------------
(***************************************************************************)
(* Which capitals abroad the user has to declare to the central bank, and  *)
(* which accounts the report of a year shows; after fiscal/cbe.py, the     *)
(* valuations it relies on, and BrokerAccount.historico_do_ano.            *)
(*                                                                         *)
(*   accounts    the accounts that are active                              *)
(*   valuations  AssetValuation                                            *)
(*   complete    Profile.external_assets_declared_complete                 *)
(*                                                                         *)
(* The ledger is that of StatementImport, with a finer calendar: what is a *)
(* year there is a base date here, and its entries are those of the period *)
(* that ends on it.  No year is closed and no statement is imported: the   *)
(* declaration is computed while the year is open.  Amounts are cents.     *)
(***************************************************************************)
EXTENDS StatementImport

CONSTANTS
  LastAccount,     \* bound on the ids of accounts
  YearOfBase,      \* the year of each base date
  Share,           \* ownership_share of each account, in percent
  AnnualLimit,     \* LIMITE_ANUAL_USD
  QuarterlyLimit,  \* LIMITE_TRIMESTRAL_USD
  ValuationDrafts  \* the valuations that may be entered

Bases == Years

Valuations == [account: Accounts, base: Bases, value: Nat, confirmed: BOOLEAN]

ASSUME CapitalsAssumption ==
  /\ LastAccount \in Nat /\ Accounts \subseteq 1..LastAccount
  /\ YearOfBase \in [Bases -> Nat]
  /\ Share \in [Accounts -> 0..100]
  /\ AnnualLimit \in Nat /\ QuarterlyLimit \in Nat
  /\ ValuationDrafts \subseteq Valuations

VARIABLES accounts, valuations, complete

capitals == <<accounts, valuations, complete>>
vars == <<ledger, closed, capitals>>

(* 31/12 is the last base date of its year. *)
Yearend(base) == \A b \in Bases : YearOfBase[b] = YearOfBase[base] => b <= base

-------------------------------------------------------------------------------
(* CbeService. *)

(* The cash of the active accounts, each by the share of the taxpayer. *)
cash_usd(base) ==
  LET parts == [a \in accounts |-> balance(a, base) * Share[a]]
  IN  Quantized(Total(parts, LastAccount), 100)

(* Only a transfer of cash names no asset. *)
OfAsset(e) == e.kind \in Supported \/ e.qty > 0

(* The active accounts that hold the asset.  It is looked for among the
   entries of the account: one that is only in its opening position is not
   found. *)
posicoes(base) ==
  {a \in accounts :
     /\ \E i \in EntriesOf(entries, a, base) : OfAsset(entries[i])
     /\ units(entries, a, base) > 0}

Confirmed(base) ==
  {v \in valuations : v.base = base /\ v.account \in posicoes(base) /\ v.confirmed}

pendentes(base) == {a \in posicoes(base) : \A v \in Confirmed(base) : v.account # a}

assets_usd(base) ==
  LET value(a) == (CHOOSE v \in Confirmed(base) : v.account = a).value
  IN  Total([a \in posicoes(base) |-> value(a) * Share[a]], LastAccount)

total_usd(base) == Quantized(100 * cash_usd(base) + assets_usd(base), 100)

(* Nothing is decided on custody without a confirmed value, and nobody is
   exempt who has not declared that there is nothing else abroad. *)
status(base) ==
  IF pendentes(base) # {} THEN "CBE_UNDETERMINED"
  ELSE IF total_usd(base) >= (IF Yearend(base) THEN AnnualLimit ELSE QuarterlyLimit)
  THEN "CBE_REQUIRED"
  ELSE IF complete THEN "CBE_NOT_REQUIRED" ELSE "CBE_UNDETERMINED"

-------------------------------------------------------------------------------
(* BrokerAccount.historico_do_ano. *)

LastBase(year) ==
  CHOOSE b \in Bases : YearOfBase[b] = year /\ Yearend(b)

tem_patrimonio_carregado(a, base) ==
  balance(a, base) # 0 \/ units(entries, a, base) > 0

tem_evento(a, year) ==
  \E i \in DOMAIN entries :
    entries[i].active /\ entries[i].account = a /\ YearOfBase[entries[i].trade] = year

(* Mutant: what an account carries over from earlier years is left out. *)
historico_por_eventos(year) ==
  accounts \cup {a \in Accounts : tem_evento(a, year) \/ Opening[a] > 0}

(* The accounts of the report: the active ones and those of the others that
   took part in the year. *)
historico_do_ano(year) ==
  accounts \cup {a \in Accounts : \/ tem_evento(a, year)
                                  \/ Opening[a] > 0
                                  \/ tem_patrimonio_carregado(a, LastBase(year))}

-------------------------------------------------------------------------------
(* The forms offer active accounts only; entries that exist can be
   deactivated in any account, and the transfer service does not look. *)

Record(d) == d.account \in accounts /\ RecordEntry(d) /\ UNCHANGED capitals

Correct(i, d) == d.account \in accounts /\ CorrectEntry(i, d) /\ UNCHANGED capitals

Deactivate(i) == DeactivateEntry(i) /\ UNCHANGED capitals

MoveBetween(t) == Transfer(t) /\ UNCHANGED capitals

(* AccountDeactivateView: no view makes the account active again. *)
DeactivateAccount(a) ==
  /\ a \in accounts
  /\ accounts' = accounts \ {a}
  /\ UNCHANGED <<ledger, closed, valuations, complete>>

(* Mutant: a second valuation for the same account and date. *)
ValueAssetAgain(v) ==
  /\ v.account \in accounts
  /\ valuations' = valuations \cup {v}
  /\ UNCHANGED <<ledger, closed, accounts, complete>>

(* AssetValuationView: one for each account and date; it is never changed,
   so a value that was not confirmed stays unconfirmed. *)
ValueAsset(v) ==
  /\ v.account \in accounts
  /\ \A w \in valuations : w.account # v.account \/ w.base # v.base
  /\ valuations' = valuations \cup {v}
  /\ UNCHANGED <<ledger, closed, accounts, complete>>

(* No form has the field: it is changed in the database. *)
DeclareComplete ==
  /\ complete' = ~ complete
  /\ UNCHANGED <<ledger, closed, accounts, valuations>>

Init ==
  /\ LedgerInit
  /\ closed = {}
  /\ accounts = Accounts
  /\ valuations = {}
  /\ complete = FALSE

Next ==
  \/ \E d \in Drafts : Record(d)
  \/ \E i \in DOMAIN entries, d \in Drafts : Correct(i, d)
  \/ \E i \in DOMAIN entries : Deactivate(i)
  \/ \E t \in TransferDrafts : MoveBetween(t)
  \/ \E a \in Accounts : DeactivateAccount(a)
  \/ \E v \in ValuationDrafts : ValueAsset(v)
  \/ DeclareComplete

Spec == Init /\ [][Next]_vars

-------------------------------------------------------------------------------
(* Type invariant: there is one valuation for each account and date. *)
CapitalsTypeOK ==
  /\ LedgerTypeOK
  /\ accounts \subseteq Accounts
  /\ valuations \subseteq Valuations
  /\ \A v, w \in valuations : v.account = w.account /\ v.base = w.base => v = w
  /\ complete \in BOOLEAN

(* A transfer moves capitals, it makes none: between active accounts of which
   the taxpayer has the same share it changes the cash of no base date,
   neither with the cash it moves nor with the cost that units carry along. *)
TransfersKeepCash ==
  [][\A t \in TransferDrafts :
       /\ MoveBetween(t)
       /\ {t.from, t.to} \subseteq accounts
       /\ Share[t.from] = Share[t.to]
       => \A b \in Bases : cash_usd(b)' = cash_usd(b)]_vars

EntriesUpTo(a, base) == [i \in EntriesOf(entries, a, base) |-> entries[i]]

(* Whether the declaration of a base date counts the account. *)
Counted(a, base) ==
  a \in posicoes(base) \/ (a \in accounts /\ balance(a, base) # 0)

(* An account that counted on 31/12 stays in the report of that year until
   one of its entries up to then changes: neither its deactivation nor what
   happens later takes it out, also when it took part with what it carried
   over from earlier years only. *)
ReportKeepsCapitals ==
  [][\A a \in Accounts, b \in Bases :
       Yearend(b) /\ Counted(a, b) /\ EntriesUpTo(a, b)' = EntriesUpTo(a, b)
         => a \in historico_do_ano(YearOfBase[b])']_vars

(* The same of the declaration itself.  It fails: cbe.py looks at active
   accounts only, so that deactivating an account takes its capitals out of
   the base dates of the past. *)
DeclarationKeepsCapitals ==
  [][\A a \in Accounts, b \in Bases :
       Counted(a, b) /\ EntriesUpTo(a, b)' = EntriesUpTo(a, b) => Counted(a, b)']_vars

(* Nothing is decided while an active account holds units without a confirmed
   value.  It fails: units of an opening position alone are not looked for. *)
DecidedOnValuedCustody ==
  \A b \in Bases :
    status(b) \in {"CBE_REQUIRED", "CBE_NOT_REQUIRED"} =>
      \A a \in accounts : units(entries, a, b) > 0 =>
        \E v \in valuations : v.account = a /\ v.base = b /\ v.confirmed
===============================================================================
