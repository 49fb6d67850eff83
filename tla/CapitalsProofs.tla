---------------------------- MODULE CapitalsProofs ----------------------------
(***************************************************************************)
(* For any accounts, shares, base dates, drafts and bounds: transfers make *)
(* no cash, the report of a year keeps the accounts that counted on its    *)
(* 31/12, and what the declaration of a base date says depends on nothing  *)
(* that is recorded for a later date.  Two statements about the            *)
(* declaration fail (README, section 6); they hold as long as no account   *)
(* is deactivated, and of the custody that has an entry.                   *)
(***************************************************************************)
EXTENDS Capitals, IterationProofs, SequenceTheorems

(* What each step does to the ledger: entries are never removed. *)
LedgerGrows ==
  /\ entries' \in Seq(Entries)
  /\ Len(entries) <= Len(entries') /\ Len(entries') <= MaxEntries
  /\ UNCHANGED <<batches, issues>>

(* The entry of a form. *)
LEMMA NewEntryType ==
  ASSUME NEW d \in Drafts
  PROVE  NewEntry(d, NoLine) \in Entries
<1>1. d \in [kind: Supported, account: Accounts, trade: Years, receipt: Years,
             qty: Nat, cash: Int, declared: BOOLEAN]
  BY ImportAssumption
<1>. QED BY <1>1 DEF NewEntry, Entries, Supported, Kinds

(* Deactivating an entry keeps it in its place. *)
LEMMA DeactivatedType ==
  ASSUME entries \in Seq(Entries), NEW i \in DOMAIN entries
  PROVE  LET es == [entries EXCEPT ![i].active = FALSE] IN
         es \in Seq(Entries) /\ Len(es) = Len(entries)
<1>1. DOMAIN entries = 1..Len(entries) /\ entries[i] \in Entries
  OBVIOUS
<1>2. [entries[i] EXCEPT !.active = FALSE] \in Entries
  BY <1>1 DEF Entries
<1>. QED BY <1>1, <1>2, ExceptSeq

(* What is added to a sequence comes after what was there. *)
LEMMA Concatenated ==
  ASSUME NEW S, NEW s \in Seq(S), NEW t \in Seq(S)
  PROVE  /\ s \o t \in Seq(S) /\ Len(s \o t) = Len(s) + Len(t)
         /\ \A i \in 1..Len(s) : (s \o t)[i] = s[i]
         /\ \A k \in 1..Len(t) : (s \o t)[Len(s) + k] = t[k]
OBVIOUS

LEMMA AppendedGrows ==
  ASSUME NEW es \in Seq(Entries), Len(es) = Len(entries), NEW e \in Entries,
         Len(entries) < MaxEntries, entries' = Append(es, e), UNCHANGED <<batches, issues>>
  PROVE  LedgerGrows
<1>1. /\ entries' \in Seq(Entries) /\ Len(entries') = Len(entries) + 1
      /\ Len(entries) \in Nat /\ MaxEntries \in Nat
  BY AppendProperties, ImportAssumption
<1>. QED BY <1>1 DEF LedgerGrows

LEMMA RecordGrows ==
  ASSUME LedgerTypeOK, NEW d \in Drafts, RecordEntry(d)
  PROVE  LedgerGrows
<1>1. entries \in Seq(Entries)
  BY DEF LedgerTypeOK
<1>2. /\ Len(entries) < MaxEntries /\ UNCHANGED <<batches, issues>>
      /\ entries' = Append(entries, NewEntry(d, NoLine))
  BY DEF RecordEntry
<1>. QED BY <1>1, <1>2, NewEntryType, AppendedGrows

LEMMA CorrectGrows ==
  ASSUME LedgerTypeOK, NEW i \in DOMAIN entries, NEW d \in Drafts, CorrectEntry(i, d)
  PROVE  LedgerGrows
<1>. DEFINE es == [entries EXCEPT ![i].active = FALSE]
<1>1. entries \in Seq(Entries)
  BY DEF LedgerTypeOK
<1>2. /\ Len(entries) < MaxEntries /\ UNCHANGED <<batches, issues>>
      /\ entries' = Append(es, NewEntry(d, NoLine))
  BY DEF CorrectEntry
<1>3. es \in Seq(Entries) /\ Len(es) = Len(entries)
  BY <1>1, DeactivatedType
<1>. HIDE DEF es
<1>. QED BY <1>2, <1>3, NewEntryType, AppendedGrows

LEMMA DeactivateGrows ==
  ASSUME LedgerTypeOK, NEW i \in DOMAIN entries, DeactivateEntry(i)
  PROVE  LedgerGrows
<1>1. entries \in Seq(Entries) /\ Len(entries) <= MaxEntries /\ Len(entries) \in Nat
  BY DEF LedgerTypeOK
<1>2. entries' = [entries EXCEPT ![i].active = FALSE] /\ UNCHANGED <<batches, issues>>
  BY DEF DeactivateEntry
<1>3. entries' \in Seq(Entries) /\ Len(entries') = Len(entries)
  BY <1>1, <1>2, DeactivatedType
<1>. QED BY <1>1, <1>2, <1>3 DEF LedgerGrows

-------------------------------------------------------------------------------
(* A transfer. *)

Leg(t, kind, account) ==
  [kind |-> kind, account |-> account, trade |-> t.trade, receipt |-> t.trade,
   qty |-> t.qty, cash |-> t.cash, declared |-> FALSE, active |-> TRUE,
   pair |-> Len(entries) + 1, line |-> NoLine]

(* The entries stay and the two legs come behind them. *)
LEMMA TransferAdds ==
  ASSUME LedgerTypeOK, NEW t \in TransferDrafts, Transfer(t)
  PROVE  /\ LedgerGrows
         /\ Len(entries) \in Nat /\ Len(entries') = Len(entries) + 2
         /\ \A i \in 1..Len(entries) : entries'[i] = entries[i]
         /\ entries'[Len(entries) + 1] = Leg(t, "BROKER_TRANSFER_OUT", t.from)
         /\ entries'[Len(entries) + 2] = Leg(t, "BROKER_TRANSFER_IN", t.to)
<1>. DEFINE legs == <<Leg(t, "BROKER_TRANSFER_OUT", t.from), Leg(t, "BROKER_TRANSFER_IN", t.to)>>
<1>1. entries \in Seq(Entries) /\ Len(entries) \in Nat /\ MaxEntries \in Nat
  BY ImportAssumption DEF LedgerTypeOK
<1>2. /\ Len(entries) + 2 <= MaxEntries /\ entries' = entries \o legs
      /\ UNCHANGED <<batches, issues>>
  BY DEF Transfer, Transferred, Leg
<1>3. /\ t.from \in Accounts /\ t.to \in Accounts /\ t.trade \in Years
      /\ t.qty \in Nat /\ t.cash \in Nat
  BY ImportAssumption
<1>4. \A kind \in Kinds, account \in Accounts : Leg(t, kind, account) \in Entries
  BY <1>1, <1>3 DEF Leg, Entries
<1>5. /\ legs[1] = Leg(t, "BROKER_TRANSFER_OUT", t.from)
      /\ legs[2] = Leg(t, "BROKER_TRANSFER_IN", t.to)
      /\ Len(legs) = 2 /\ legs \in Seq(Entries)
  BY <1>3, <1>4 DEF Kinds
<1>. HIDE DEF legs
<1>6. /\ entries' \in Seq(Entries) /\ Len(entries') = Len(entries) + 2
      /\ \A i \in 1..Len(entries) : entries'[i] = entries[i]
      /\ entries'[Len(entries) + 1] = legs[1] /\ entries'[Len(entries) + 2] = legs[2]
  <2>1. /\ entries \o legs \in Seq(Entries) /\ Len(entries \o legs) = Len(entries) + Len(legs)
        /\ \A i \in 1..Len(entries) : (entries \o legs)[i] = entries[i]
        /\ \A k \in 1..Len(legs) : (entries \o legs)[Len(entries) + k] = legs[k]
    <3>1. entries \in Seq(Entries) /\ legs \in Seq(Entries)
      BY <1>1, <1>5
    <3>. QED BY <3>1, Concatenated
  <2>2. 1 \in 1..Len(legs) /\ 2 \in 1..Len(legs)
    BY <1>5
  <2>. QED BY <1>2, <1>5, <2>1, <2>2
<1>. QED BY <1>1, <1>2, <1>5, <1>6 DEF LedgerGrows

-------------------------------------------------------------------------------
(* Types. *)

Issue(n) == [line: (DOMAIN Files) \X Nat, entry: 0..n,
             status: {"PENDING", "RESOLVED_IMPORTED", "RESOLVED_IGNORED"}]

LEMMA IssuesGrow ==
  ASSUME NEW n \in Nat, NEW m \in Nat, n <= m, NEW s \in Seq(Issue(n))
  PROVE  s \in Seq(Issue(m))
<1>1. Issue(n) \subseteq Issue(m)
  BY DEF Issue
<1>. QED BY <1>1, SeqMonotonic

LEMMA GrownTypes ==
  ASSUME LedgerTypeOK, LedgerGrows
  PROVE  LedgerTypeOK'
<1>1. /\ issues \in Seq(Issue(Len(entries))) /\ entries \in Seq(Entries)
      /\ Len(entries) \in Nat /\ Len(entries') \in Nat /\ Len(entries) <= Len(entries')
  BY DEF LedgerTypeOK, LedgerGrows, Issue
<1>2. issues' \in Seq(Issue(Len(entries')))
  BY <1>1, IssuesGrow DEF LedgerGrows
<1>. QED BY <1>2 DEF LedgerTypeOK, LedgerGrows, Issue

LEMMA SameTypes ==
  ASSUME LedgerTypeOK, UNCHANGED ledger
  PROVE  LedgerTypeOK'
BY DEF LedgerTypeOK, ledger

LEMMA InitTypes ==
  ASSUME Init
  PROVE  CapitalsTypeOK
<1>1. /\ entries = <<>> /\ issues = <<>> /\ DOMAIN batches = {} /\ Len(entries) = 0
      /\ accounts = Accounts /\ valuations = {} /\ complete = FALSE
  BY DEF Init, LedgerInit
<1>2. LedgerTypeOK
  BY <1>1, ImportAssumption DEF LedgerTypeOK
<1>. QED BY <1>1, <1>2 DEF CapitalsTypeOK

LEMMA LedgerKeepsTypes ==
  ASSUME CapitalsTypeOK, LedgerGrows, UNCHANGED capitals
  PROVE  CapitalsTypeOK'
BY GrownTypes DEF CapitalsTypeOK, capitals

LEMMA ValueAssetTypes ==
  ASSUME CapitalsTypeOK, NEW v \in ValuationDrafts, ValueAsset(v)
  PROVE  CapitalsTypeOK'
<1>1. v \in Valuations
  BY CapitalsAssumption
<1>2. valuations' = valuations \cup {v} /\ UNCHANGED <<ledger, accounts, complete>>
      /\ \A w \in valuations : w.account # v.account \/ w.base # v.base
  BY DEF ValueAsset
<1>3. LedgerTypeOK'
  BY <1>2, SameTypes DEF CapitalsTypeOK
<1>. QED BY <1>1, <1>2, <1>3 DEF CapitalsTypeOK

LEMMA NextTypes ==
  ASSUME CapitalsTypeOK, [Next]_vars
  PROVE  CapitalsTypeOK'
<1>. USE DEF CapitalsTypeOK
<1>1. CASE \E d \in Drafts : Record(d)
  BY <1>1, RecordGrows, LedgerKeepsTypes DEF Record
<1>2. CASE \E i \in DOMAIN entries, d \in Drafts : Correct(i, d)
  BY <1>2, CorrectGrows, LedgerKeepsTypes DEF Correct
<1>3. CASE \E i \in DOMAIN entries : Deactivate(i)
  BY <1>3, DeactivateGrows, LedgerKeepsTypes DEF Deactivate
<1>4. CASE \E t \in TransferDrafts : MoveBetween(t)
  BY <1>4, TransferAdds, LedgerKeepsTypes DEF MoveBetween
<1>5. CASE \E a \in Accounts : DeactivateAccount(a)
  BY <1>5, SameTypes DEF DeactivateAccount
<1>6. CASE \E v \in ValuationDrafts : ValueAsset(v)
  BY <1>6, ValueAssetTypes
<1>7. CASE DeclareComplete
  BY <1>7, SameTypes DEF DeclareComplete
<1>8. CASE UNCHANGED vars
  BY <1>8, SameTypes DEF vars, capitals
<1>. QED BY <1>1, <1>2, <1>3, <1>4, <1>5, <1>6, <1>7, <1>8 DEF Next

(* The ledger, the active accounts and the valuations keep their types, and
   there is one valuation for each account and date. *)
THEOREM CapitalsTyped == Spec => []CapitalsTypeOK
BY InitTypes, NextTypes, PTL DEF Spec

-------------------------------------------------------------------------------
(* Cash and units as sums over the entries of an account. *)

Cash(es, account, until) == [i \in EntriesOf(es, account, until) |-> cash_delta(es[i])]

LEMMA CashFromEntries ==
  ASSUME NEW es \in Seq(Entries), NEW account, NEW until
  PROVE  /\ DOMAIN Cash(es, account, until) = EntriesOf(es, account, until)
         /\ EntriesOf(es, account, until) \subseteq 1..Len(es) /\ Len(es) \in Nat
         /\ \A i \in EntriesOf(es, account, until) : cash_delta(es[i]) \in Int
         /\ Summable(Cash(es, account, until))
         /\ Total(Cash(es, account, until), Len(es)) \in Int
<1>1. \A i \in DOMAIN es : es[i] \in Entries
  OBVIOUS
<1>2. /\ EntriesOf(es, account, until) \subseteq DOMAIN es
      /\ DOMAIN es = 1..Len(es) /\ Len(es) \in Nat
  BY DEF EntriesOf
<1>3. \A e \in Entries : cash_delta(e) \in Int
  <2>1. \A e \in Entries : e.cash \in Int /\ -e.cash \in Int
    BY DEF Entries
  <2>. QED BY <2>1 DEF cash_delta
<1>4. \A i \in EntriesOf(es, account, until) : cash_delta(es[i]) \in Int
  BY <1>1, <1>2, <1>3
<1>5. Summable(Cash(es, account, until))
  BY <1>4 DEF Summable, Cash
<1>6. Total(Cash(es, account, until), Len(es)) \in Int
  BY <1>2, <1>5, TotalRounds DEF Summable
<1>. QED BY <1>2, <1>4, <1>5, <1>6 DEF Cash

LEMMA BalanceInt ==
  ASSUME entries \in Seq(Entries), NEW account, NEW until
  PROVE  /\ balance(account, until) = Total(Cash(entries, account, until), Len(entries))
         /\ balance(account, until) \in Int
BY CashFromEntries DEF balance, Cash

(* What an entry adds to the units of its account. *)
Move(e) ==
  CASE e.kind \in {"BUY", "BROKER_TRANSFER_IN"}   -> e.qty
    [] e.kind \in {"SELL", "BROKER_TRANSFER_OUT"} -> -e.qty
    [] OTHER                                      -> 0

Moves(es, account, until) == [i \in EntriesOf(es, account, until) |-> Move(es[i])]

LEMMA UnitsFromMoves ==
  ASSUME NEW es \in Seq(Entries), NEW account, NEW until
  PROVE  /\ units(es, account, until) = Opening[account] + Total(Moves(es, account, until), Len(es))
         /\ DOMAIN Moves(es, account, until) = EntriesOf(es, account, until)
         /\ EntriesOf(es, account, until) \subseteq 1..Len(es) /\ Len(es) \in Nat
         /\ Summable(Moves(es, account, until))
<1>1. \A i \in DOMAIN es : es[i] \in Entries /\ es[i].qty \in Nat
  <2>1. \A i \in DOMAIN es : es[i] \in Entries
    OBVIOUS
  <2>2. \A e \in Entries : e.qty \in Nat
    BY DEF Entries
  <2>. QED BY <2>1, <2>2
<1>2. /\ EntriesOf(es, account, until) \subseteq DOMAIN es
      /\ DOMAIN es = 1..Len(es) /\ Len(es) \in Nat
  BY DEF EntriesOf
<1>3. \A i \in EntriesOf(es, account, until) : Move(es[i]) \in Int
  BY <1>1, <1>2 DEF Move
<1>4. Summable(Moves(es, account, until))
  BY <1>3 DEF Summable, Moves
<1>. QED BY <1>2, <1>4 DEF units, Moves, Move

(* An account whose entries up to a date stay keeps its cash and its units of
   that date. *)
LEMMA SameEntriesSamePosition ==
  ASSUME entries \in Seq(Entries), entries' \in Seq(Entries), NEW a, NEW b,
         EntriesUpTo(a, b)' = EntriesUpTo(a, b)
  PROVE  /\ EntriesOf(entries', a, b) = EntriesOf(entries, a, b)
         /\ \A i \in EntriesOf(entries, a, b) : entries'[i] = entries[i]
         /\ balance(a, b)' = balance(a, b)
         /\ units(entries, a, b)' = units(entries, a, b)
<1>. DEFINE old == EntriesOf(entries, a, b)
            now == EntriesOf(entries', a, b)
            n == Len(entries)
            m == Len(entries')
<1>1. [i \in now |-> entries'[i]] = [i \in old |-> entries[i]]
  BY DEF EntriesUpTo
<1>2. now = old /\ \A i \in old : entries'[i] = entries[i]
  <2>. DEFINE f == [i \in now |-> entries'[i]]
              g == [i \in old |-> entries[i]]
  <2>1. DOMAIN f = now /\ DOMAIN g = old /\ f = g
    BY <1>1
  <2>2. now = old
    BY <2>1
  <2>3. \A i \in old : f[i] = entries'[i] /\ g[i] = entries[i]
    BY <2>2
  <2>. QED BY <2>1, <2>2, <2>3
<1>3. /\ DOMAIN Cash(entries, a, b) = old /\ old \subseteq 1..n /\ n \in Nat
      /\ Summable(Cash(entries, a, b))
  BY CashFromEntries
<1>4. /\ DOMAIN Cash(entries', a, b) = now /\ now \subseteq 1..m /\ m \in Nat
      /\ Summable(Cash(entries', a, b))
  BY CashFromEntries
<1>5. /\ units(entries, a, b) = Opening[a] + Total(Moves(entries, a, b), n)
      /\ DOMAIN Moves(entries, a, b) = old /\ Summable(Moves(entries, a, b))
  BY UnitsFromMoves
<1>6. /\ units(entries', a, b) = Opening[a] + Total(Moves(entries', a, b), m)
      /\ DOMAIN Moves(entries', a, b) = now /\ Summable(Moves(entries', a, b))
  BY UnitsFromMoves
<1>7. \A i \in old : /\ Cash(entries', a, b)[i] = Cash(entries, a, b)[i]
                     /\ Moves(entries', a, b)[i] = Moves(entries, a, b)[i]
  BY <1>2 DEF Cash, Moves
<1>. HIDE DEF old, now, n, m
<1>8. Total(Cash(entries, a, b), n) = Total(Cash(entries', a, b), m)
  <2>. DEFINE f == Cash(entries, a, b)
              g == Cash(entries', a, b)
  <2>1. /\ Summable(f) /\ DOMAIN f \subseteq 1..n /\ n \in Nat
        /\ Summable(g) /\ DOMAIN g \subseteq 1..m /\ m \in Nat
        /\ DOMAIN f = DOMAIN g /\ \A i \in DOMAIN f : f[i] = g[i]
    BY <1>2, <1>3, <1>4, <1>7
  <2>. HIDE DEF f, g
  <2>2. \A i \in DOMAIN f \cup DOMAIN g : Term(f, i) = Term(g, i)
    BY <2>1 DEF Term
  <2>3. Total(f, n) = Total(g, m)
    BY <2>1, <2>2, TotalOfTerms
  <2>. QED BY <2>3 DEF f, g
<1>9. Total(Moves(entries, a, b), n) = Total(Moves(entries', a, b), m)
  <2>. DEFINE f == Moves(entries, a, b)
              g == Moves(entries', a, b)
  <2>1. /\ Summable(f) /\ DOMAIN f \subseteq 1..n /\ n \in Nat
        /\ Summable(g) /\ DOMAIN g \subseteq 1..m /\ m \in Nat
        /\ DOMAIN f = DOMAIN g /\ \A i \in DOMAIN f : f[i] = g[i]
    BY <1>2, <1>3, <1>4, <1>5, <1>6, <1>7
  <2>. HIDE DEF f, g
  <2>2. \A i \in DOMAIN f \cup DOMAIN g : Term(f, i) = Term(g, i)
    BY <2>1 DEF Term
  <2>3. Total(f, n) = Total(g, m)
    BY <2>1, <2>2, TotalOfTerms
  <2>. QED BY <2>3 DEF f, g
<1>10. balance(a, b)' = balance(a, b)
  <2>1. balance(a, b) = Total(Cash(entries, a, b), n)
    BY DEF balance, Cash, n
  <2>2. balance(a, b)' = Total(Cash(entries', a, b), m)
    BY DEF balance, Cash, m
  <2>. QED BY <1>8, <2>1, <2>2
<1>11. units(entries, a, b)' = units(entries', a, b)
  BY DEF units
<1>. QED BY <1>2, <1>5, <1>6, <1>9, <1>10, <1>11 DEF old, now

-------------------------------------------------------------------------------
(* The accounts of the report. *)

(* 31/12 is the only one of its year. *)
LEMMA LastBaseOfYear ==
  ASSUME NEW b \in Bases, Yearend(b)
  PROVE  LastBase(YearOfBase[b]) = b
<1>1. Bases \subseteq Int
  BY DEF Bases, Years
<1>2. \A c \in Bases : YearOfBase[c] = YearOfBase[b] /\ Yearend(c) => c = b
  BY <1>1 DEF Yearend
<1>. QED BY <1>2 DEF LastBase

(* An account that counted on 31/12 stays in the report of that year until
   one of its entries up to then changes, also when it is deactivated. *)
THEOREM ReportKeepsAccounts == Spec => ReportKeepsCapitals
<1>1. ASSUME CapitalsTypeOK, CapitalsTypeOK', NEW a \in Accounts, NEW b \in Bases,
             Yearend(b), Counted(a, b), EntriesUpTo(a, b)' = EntriesUpTo(a, b)
      PROVE  a \in historico_do_ano(YearOfBase[b])'
  <2>1. /\ balance(a, b)' = balance(a, b)
        /\ units(entries, a, b)' = units(entries, a, b)
    BY <1>1, SameEntriesSamePosition DEF CapitalsTypeOK, LedgerTypeOK
  <2>2. balance(a, b) # 0 \/ units(entries, a, b) > 0
    BY <1>1 DEF Counted, posicoes
  <2>3. tem_patrimonio_carregado(a, b)'
    BY <2>1, <2>2 DEF tem_patrimonio_carregado
  <2>4. LastBase(YearOfBase[b]) = b
    BY <1>1, LastBaseOfYear
  <2>5. tem_patrimonio_carregado(a, LastBase(YearOfBase[b]))'
    BY <2>3, <2>4
  <2>. QED BY <2>5 DEF historico_do_ano
<1>2. CapitalsTypeOK /\ CapitalsTypeOK' =>
        \A a \in Accounts, b \in Bases :
          Yearend(b) /\ Counted(a, b) /\ EntriesUpTo(a, b)' = EntriesUpTo(a, b)
            => a \in historico_do_ano(YearOfBase[b])'
  BY <1>1
<1>. QED BY <1>2, CapitalsTyped, PTL DEF ReportKeepsCapitals

-------------------------------------------------------------------------------
(* Transfers and cash. *)

(* What a transfer adds to the cash of an account on a date. *)
Moved(t, a, b) ==
  CASE t.trade > b \/ t.qty > 0 -> 0
    [] t.trade <= b /\ t.qty = 0 /\ a = t.from -> 0 - t.cash
    [] t.trade <= b /\ t.qty = 0 /\ a = t.to   -> t.cash
    [] OTHER -> 0

LEMMA BalanceAfterTransfer ==
  ASSUME LedgerTypeOK, NEW t \in TransferDrafts, Transfer(t), NEW a, NEW b \in Bases
  PROVE  balance(a, b)' = balance(a, b) + Moved(t, a, b)
<1>. DEFINE n == Len(entries)
            f == Cash(entries, a, b)
            g == Cash(entries', a, b)
<1>1. /\ entries \in Seq(Entries) /\ entries' \in Seq(Entries)
      /\ n \in Nat /\ Len(entries') = n + 2
      /\ \A i \in 1..n : entries'[i] = entries[i]
      /\ entries'[n + 1] = Leg(t, "BROKER_TRANSFER_OUT", t.from)
      /\ entries'[n + 2] = Leg(t, "BROKER_TRANSFER_IN", t.to)
  BY TransferAdds DEF LedgerGrows, LedgerTypeOK
<1>2. /\ t.trade \in Int /\ b \in Int /\ t.qty \in Nat /\ t.cash \in Nat /\ t.from # t.to
  BY ImportAssumption DEF Transfer, Years, Bases
<1>3. DOMAIN entries = 1..n /\ DOMAIN entries' = 1..(n + 2)
  BY <1>1
<1>4. Summable(f) /\ DOMAIN f = EntriesOf(entries, a, b)
  BY <1>1, CashFromEntries
<1>5. Summable(g) /\ DOMAIN g = EntriesOf(entries', a, b)
  BY <1>1, CashFromEntries
<1>6. \A i \in 1..n : Term(g, i) = Term(f, i)
  BY <1>1, <1>3, <1>4, <1>5 DEF Term, Cash, EntriesOf
<1>7. Term(g, n + 1) = IF t.from = a /\ t.trade <= b
                       THEN cash_delta(Leg(t, "BROKER_TRANSFER_OUT", t.from)) ELSE 0
  <2>1. n + 1 \in 1..(n + 2)
    BY <1>1
  <2>2. n + 1 \in DOMAIN g <=> t.from = a /\ t.trade <= b
    BY <1>1, <1>3, <1>5, <2>1 DEF EntriesOf, Leg
  <2>. QED BY <1>1, <1>5, <2>2 DEF Term, Cash
<1>8. Term(g, n + 2) = IF t.to = a /\ t.trade <= b
                       THEN cash_delta(Leg(t, "BROKER_TRANSFER_IN", t.to)) ELSE 0
  <2>1. n + 2 \in 1..(n + 2)
    BY <1>1
  <2>2. n + 2 \in DOMAIN g <=> t.to = a /\ t.trade <= b
    BY <1>1, <1>3, <1>5, <2>1 DEF EntriesOf, Leg
  <2>. QED BY <1>1, <1>5, <2>2 DEF Term, Cash
<1>9. /\ cash_delta(Leg(t, "BROKER_TRANSFER_OUT", t.from)) = IF t.qty > 0 THEN 0 ELSE 0 - t.cash
      /\ cash_delta(Leg(t, "BROKER_TRANSFER_IN", t.to)) = IF t.qty > 0 THEN 0 ELSE t.cash
  BY <1>2 DEF cash_delta, Leg
<1>10. Term(g, n + 1) + Term(g, n + 2) = Moved(t, a, b)
  BY <1>2, <1>7, <1>8, <1>9 DEF Moved
<1>11. balance(a, b) = Total(f, n) /\ balance(a, b)' = Total(g, n + 2)
  BY <1>1 DEF balance, Cash
<1>. HIDE DEF f, g, n
<1>12. Total(g, n) = Total(f, n)
  BY <1>1, <1>4, <1>5, <1>6, TotalOfSame
<1>13. /\ Total(g, n) \in Int
       /\ Total(g, n + 1) = Total(g, n) + Term(g, n + 1)
       /\ Total(g, n + 2) = Total(g, n + 1) + Term(g, n + 2)
  <2>1. n \in Nat /\ n + 1 \in Nat /\ (n + 1) + 1 = n + 2
    BY <1>1
  <2>2. \A k \in Nat : Total(g, k) \in Int /\ Total(g, k + 1) = Total(g, k) + Term(g, k + 1)
    BY <1>5, TotalRounds DEF Summable, Term
  <2>. QED BY <2>1, <2>2
<1>14. Term(g, n + 1) \in Int /\ Term(g, n + 2) \in Int
  BY <1>5 DEF Term, Summable
<1>. QED BY <1>10, <1>11, <1>12, <1>13, <1>14

(* Cash in the books of one account is missing from those of the other. *)
LEMMA MovedOnce ==
  ASSUME NEW t \in TransferDrafts, t.from # t.to, NEW b \in Bases
  PROVE  /\ Moved(t, t.from, b) \in Int /\ Moved(t, t.to, b) = 0 - Moved(t, t.from, b)
         /\ \A a : a \notin {t.from, t.to} => Moved(t, a, b) = 0
<1>1. t.trade \in Int /\ b \in Int /\ t.qty \in Nat /\ t.cash \in Nat
  BY ImportAssumption DEF Years, Bases
<1>. QED BY <1>1 DEF Moved

LEMMA PartsOfCash ==
  ASSUME entries \in Seq(Entries), accounts \subseteq Accounts, NEW b \in Bases
  PROVE  \A a \in accounts : /\ balance(a, b) \in Int /\ Share[a] \in Nat
                             /\ balance(a, b) * Share[a] \in Int
<1>1. \A a \in accounts : balance(a, b) \in Int
  BY BalanceInt
<1>2. \A a \in accounts : Share[a] \in Nat
  <2>1. Share \in [Accounts -> 0..100]
    BY CapitalsAssumption
  <2>2. \A a \in Accounts : Share[a] \in 0..100
    BY <2>1
  <2>3. \A x \in 0..100 : x \in Nat
    OBVIOUS
  <2>. QED BY <2>2, <2>3
<1>3. \A x \in Int, y \in Nat : x * y \in Int
  OBVIOUS
<1>. QED BY <1>1, <1>2, <1>3

LEMMA ShareOfMoved ==
  ASSUME NEW x \in Int, NEW y \in Int, NEW m \in Int, NEW s \in Nat
  PROVE  (x + m) * s - x * s + ((y + (0 - m)) * s - y * s) = 0
<1>1. (x + m) * s = x * s + m * s
  OBVIOUS
<1>2. (y + (0 - m)) * s = y * s - m * s
  OBVIOUS
<1>3. x * s \in Int /\ y * s \in Int /\ m * s \in Int
  OBVIOUS
<1>. QED BY <1>1, <1>2, <1>3

LEMMA TransferKeepsCash ==
  ASSUME CapitalsTypeOK, CapitalsTypeOK', NEW t \in TransferDrafts, MoveBetween(t),
         {t.from, t.to} \subseteq accounts, Share[t.from] = Share[t.to], NEW b \in Bases
  PROVE  cash_usd(b)' = cash_usd(b)
<1>. DEFINE F == [a \in accounts |-> balance(a, b) * Share[a]]
            G == [a \in accounts |-> balance(a, b)' * Share[a]]
            x == Moved(t, t.from, b)
            M == [a \in accounts |-> IF a = t.from THEN G[a] ELSE F[a]]
<1>1. /\ entries \in Seq(Entries) /\ entries' \in Seq(Entries) /\ LedgerTypeOK
      /\ accounts \subseteq Accounts /\ accounts' = accounts
      /\ Transfer(t) /\ t.from # t.to /\ t.from \in accounts /\ t.to \in accounts
  BY DEF CapitalsTypeOK, LedgerTypeOK, MoveBetween, Transfer, capitals
<1>2. \A a : balance(a, b)' = balance(a, b) + Moved(t, a, b)
  BY <1>1, BalanceAfterTransfer
<1>3. /\ x \in Int /\ Moved(t, t.to, b) = 0 - x
      /\ \A a : a \notin {t.from, t.to} => Moved(t, a, b) = 0
  BY <1>1, MovedOnce
<1>4. \A a \in accounts : /\ balance(a, b) \in Int /\ Share[a] \in Nat
                          /\ balance(a, b) * Share[a] \in Int
  BY <1>1, PartsOfCash
<1>5. \A a \in accounts : balance(a, b)' * Share[a] \in Int
  <2>1. \A a \in accounts : Moved(t, a, b) \in Int
    BY <1>3
  <2>2. \A a \in accounts : balance(a, b)' \in Int
    BY <1>2, <1>4, <2>1
  <2>3. \A p \in Int, q \in Nat : p * q \in Int
    OBVIOUS
  <2>. QED BY <1>4, <2>2, <2>3
<1>6. /\ \A a \in accounts : F[a] \in Int /\ G[a] \in Int
      /\ \A a \in accounts : a \notin {t.from, t.to} => G[a] = F[a]
  BY <1>2, <1>3, <1>4, <1>5
<1>7. (G[t.from] - F[t.from]) + (G[t.to] - F[t.to]) = 0
  <2>1. /\ G[t.from] = (balance(t.from, b) + x) * Share[t.from]
        /\ F[t.from] = balance(t.from, b) * Share[t.from]
        /\ G[t.to] = (balance(t.to, b) + (0 - x)) * Share[t.from]
        /\ F[t.to] = balance(t.to, b) * Share[t.from]
    BY <1>2, <1>3
  <2>. QED BY <1>3, <1>4, <2>1, ShareOfMoved
<1>8. /\ accounts \subseteq 1..LastAccount /\ LastAccount \in Nat
      /\ t.from \in 1..LastAccount /\ t.to \in 1..LastAccount
  <2>1. accounts \subseteq 1..LastAccount /\ LastAccount \in Nat
    BY <1>1, CapitalsAssumption
  <2>2. \A a \in accounts : a \in 1..LastAccount
    BY <2>1
  <2>. QED BY <1>1, <2>1, <2>2
<1>. HIDE DEF x
<1>9. /\ DOMAIN F = accounts /\ DOMAIN G = accounts /\ DOMAIN M = accounts
      /\ \A a \in accounts : M[a] \in Int
      /\ M[t.from] = G[t.from] /\ M[t.to] = F[t.to]
      /\ \A a \in accounts : a # t.from => M[a] = F[a]
      /\ \A a \in accounts : a # t.to => G[a] = M[a]
  BY <1>1, <1>6
<1>10. cash_usd(b) = Quantized(Total(F, LastAccount), 100)
  BY DEF cash_usd
<1>11. cash_usd(b)' = Quantized(Total(G, LastAccount), 100)
  BY <1>1 DEF cash_usd
<1>. HIDE DEF F, G, M
<1>12. Total(M, LastAccount) = Total(F, LastAccount) + (G[t.from] - F[t.from])
  <2>. DEFINE k == t.from
  <2>1. k \in DOMAIN F /\ k \in Nat \ {0} /\ k <= LastAccount
    BY <1>1, <1>8, <1>9
  <2>2. /\ \A i \in DOMAIN F : F[i] \in Int
        /\ \A i \in DOMAIN M : M[i] \in Int
        /\ DOMAIN M = DOMAIN F /\ \A i \in DOMAIN F : i # k => M[i] = F[i]
        /\ M[k] = G[k]
    BY <1>6, <1>9
  <2>. HIDE DEF k
  <2>3. Total(M, LastAccount) = Total(F, LastAccount) + (IF k <= LastAccount THEN M[k] - F[k] ELSE 0)
    BY <1>8, <2>1, <2>2, TotalOfChange
  <2>. QED BY <2>1, <2>2, <2>3 DEF k
<1>13. Total(G, LastAccount) = Total(M, LastAccount) + (G[t.to] - F[t.to])
  <2>. DEFINE k == t.to
  <2>1. k \in DOMAIN M /\ k \in Nat \ {0} /\ k <= LastAccount
    BY <1>1, <1>8, <1>9
  <2>2. /\ \A i \in DOMAIN M : M[i] \in Int
        /\ \A i \in DOMAIN G : G[i] \in Int
        /\ DOMAIN G = DOMAIN M /\ \A i \in DOMAIN M : i # k => G[i] = M[i]
        /\ M[k] = F[k]
    BY <1>6, <1>9
  <2>. HIDE DEF k
  <2>3. Total(G, LastAccount) = Total(M, LastAccount) + (IF k <= LastAccount THEN G[k] - M[k] ELSE 0)
    BY <1>8, <2>1, <2>2, TotalOfChange
  <2>. QED BY <2>1, <2>2, <2>3 DEF k
<1>14. Total(F, LastAccount) \in Int
  BY <1>6, <1>8, <1>9, TotalRounds
<1>15. /\ G[t.from] \in Int /\ F[t.from] \in Int /\ G[t.to] \in Int /\ F[t.to] \in Int
  BY <1>6
<1>16. Total(G, LastAccount) = Total(F, LastAccount)
  BY <1>7, <1>12, <1>13, <1>14, <1>15
<1>. QED BY <1>10, <1>11, <1>16

(* A transfer between two active accounts of the same share changes the cash
   of no base date, whatever the amounts, the dates and the other accounts. *)
THEOREM TransfersMakeNoCash == Spec => TransfersKeepCash
<1>1. CapitalsTypeOK /\ CapitalsTypeOK' =>
        \A t \in TransferDrafts :
          /\ MoveBetween(t)
          /\ {t.from, t.to} \subseteq accounts
          /\ Share[t.from] = Share[t.to]
          => \A b \in Bases : cash_usd(b)' = cash_usd(b)
  BY TransferKeepsCash
<1>. QED BY <1>1, CapitalsTyped, PTL DEF TransfersKeepCash

-------------------------------------------------------------------------------
(* The declaration of a base date. *)

LEMMA SamePositionCounted ==
  ASSUME CapitalsTypeOK, CapitalsTypeOK', NEW a, NEW b, UNCHANGED accounts,
         EntriesUpTo(a, b)' = EntriesUpTo(a, b)
  PROVE  /\ balance(a, b)' = balance(a, b)
         /\ a \in posicoes(b)' <=> a \in posicoes(b)
<1>1. /\ EntriesOf(entries', a, b) = EntriesOf(entries, a, b)
      /\ \A i \in EntriesOf(entries, a, b) : entries'[i] = entries[i]
      /\ balance(a, b)' = balance(a, b)
      /\ units(entries, a, b)' = units(entries, a, b)
  BY SameEntriesSamePosition DEF CapitalsTypeOK, LedgerTypeOK
<1>2. (\E i \in EntriesOf(entries', a, b) : OfAsset(entries'[i]))
        <=> \E i \in EntriesOf(entries, a, b) : OfAsset(entries[i])
  BY <1>1
<1>3. a \in posicoes(b)' <=> /\ a \in accounts'
                             /\ \E i \in EntriesOf(entries', a, b) : OfAsset(entries'[i])
                             /\ units(entries, a, b)' > 0
  BY DEF posicoes, OfAsset
<1>4. a \in posicoes(b) <=> /\ a \in accounts
                            /\ \E i \in EntriesOf(entries, a, b) : OfAsset(entries[i])
                            /\ units(entries, a, b) > 0
  BY DEF posicoes
<1>. QED BY <1>1, <1>2, <1>3, <1>4

(* DeclarationKeepsCapitals fails for one reason only: as long as no account
   is deactivated, an account that counts for a base date counts until one of
   its entries up to then changes. *)
THEOREM ActiveAccountsStayDeclared ==
  Spec /\ [][UNCHANGED accounts]_vars => DeclarationKeepsCapitals
<1>1. ASSUME CapitalsTypeOK, CapitalsTypeOK', UNCHANGED accounts, NEW a, NEW b,
             Counted(a, b), EntriesUpTo(a, b)' = EntriesUpTo(a, b)
      PROVE  Counted(a, b)'
  BY <1>1, SamePositionCounted DEF Counted
<1>2. CapitalsTypeOK /\ CapitalsTypeOK' /\ [UNCHANGED accounts]_vars =>
        \A a \in Accounts, b \in Bases :
          Counted(a, b) /\ EntriesUpTo(a, b)' = EntriesUpTo(a, b) => Counted(a, b)'
  BY <1>1 DEF vars, capitals
<1>. QED BY <1>2, CapitalsTyped, PTL DEF DeclarationKeepsCapitals

(* The ledger knows the units of each account that opened with some. *)
OpenedUnitsKnown ==
  \A a \in accounts, b \in Bases :
    Opening[a] > 0 => \E i \in EntriesOf(entries, a, b) : OfAsset(entries[i])

LEMMA UnitsAreFound ==
  ASSUME entries \in Seq(Entries), NEW a \in Accounts, NEW b,
         Opening[a] > 0 => \E i \in EntriesOf(entries, a, b) : OfAsset(entries[i]),
         units(entries, a, b) > 0
  PROVE  \E i \in EntriesOf(entries, a, b) : OfAsset(entries[i])
<1>. DEFINE f == Moves(entries, a, b)
            n == Len(entries)
<1>1. /\ units(entries, a, b) = Opening[a] + Total(f, n)
      /\ DOMAIN f = EntriesOf(entries, a, b) /\ n \in Nat
  BY UnitsFromMoves
<1>2. SUFFICES ASSUME ~ \E i \in EntriesOf(entries, a, b) : OfAsset(entries[i])
               PROVE  FALSE
  OBVIOUS
<1>3. Opening[a] = 0
  BY <1>2, ImportAssumption
<1>4. ASSUME NEW i \in EntriesOf(entries, a, b)
      PROVE  Move(entries[i]) = 0
  <2>1. i \in DOMAIN entries /\ entries[i] \in Entries
    BY DEF EntriesOf
  <2>2. entries[i].kind \notin Supported /\ ~ (entries[i].qty > 0)
    BY <1>2 DEF OfAsset
  <2>3. entries[i].qty = 0
    BY <2>1, <2>2 DEF Entries
  <2>4. Move(entries[i]) \in {entries[i].qty, -entries[i].qty, 0}
    BY DEF Move
  <2>. QED BY <2>3, <2>4
<1>5. \A i \in DOMAIN f : f[i] = 0
  BY <1>1, <1>4 DEF Moves
<1>. HIDE DEF f, n
<1>6. Total(f, n) = 0
  BY <1>1, <1>5, TotalOfZeros
<1>. QED BY <1>1, <1>3, <1>6

(* DecidedOnValuedCustody fails for one reason only: when each account that
   opened with units has an entry of the asset up to each base date, nothing
   is decided while an active account holds units without a confirmed value. *)
THEOREM DecisionsAreOnValuedCustody ==
  Spec => [](OpenedUnitsKnown => DecidedOnValuedCustody)
<1>1. ASSUME CapitalsTypeOK, OpenedUnitsKnown, NEW b \in Bases,
             status(b) \in {"CBE_REQUIRED", "CBE_NOT_REQUIRED"},
             NEW a \in accounts, units(entries, a, b) > 0
      PROVE  \E v \in valuations : v.account = a /\ v.base = b /\ v.confirmed
  <2>1. a \in Accounts /\ entries \in Seq(Entries)
    BY <1>1 DEF CapitalsTypeOK, LedgerTypeOK
  <2>2. \E i \in EntriesOf(entries, a, b) : OfAsset(entries[i])
    BY <1>1, <2>1, UnitsAreFound DEF OpenedUnitsKnown
  <2>3. a \in posicoes(b)
    BY <1>1, <2>2 DEF posicoes
  <2>4. pendentes(b) = {}
    BY <1>1 DEF status
  <2>. QED BY <2>3, <2>4 DEF pendentes, Confirmed
<1>2. CapitalsTypeOK => (OpenedUnitsKnown => DecidedOnValuedCustody)
  BY <1>1 DEF DecidedOnValuedCustody
<1>. QED BY <1>2, CapitalsTyped, PTL

LEMMA SameStatus ==
  ASSUME CapitalsTypeOK, CapitalsTypeOK', UNCHANGED capitals, NEW b,
         \A a \in accounts : EntriesUpTo(a, b)' = EntriesUpTo(a, b)
  PROVE  status(b)' = status(b)
<1>1. UNCHANGED <<accounts, valuations, complete>>
  BY DEF capitals
<1>2. \A a \in accounts : /\ balance(a, b)' = balance(a, b)
                          /\ a \in posicoes(b)' <=> a \in posicoes(b)
  BY <1>1, SamePositionCounted
<1>3. posicoes(b)' = posicoes(b)
  <2>1. posicoes(b) \subseteq accounts /\ posicoes(b)' \subseteq accounts
    BY <1>1 DEF posicoes
  <2>. QED BY <1>2, <2>1
<1>4. Confirmed(b)' = Confirmed(b)
  BY <1>1, <1>3 DEF Confirmed
<1>5. pendentes(b)' = pendentes(b)
  BY <1>3, <1>4 DEF pendentes
<1>6. cash_usd(b)' = cash_usd(b)
  <2>1. [a \in accounts' |-> balance(a, b)' * Share[a]]
          = [a \in accounts |-> balance(a, b) * Share[a]]
    BY <1>1, <1>2
  <2>. QED BY <2>1 DEF cash_usd
<1>7. assets_usd(b)' = assets_usd(b)
  BY <1>3, <1>4 DEF assets_usd
<1>8. total_usd(b)' = total_usd(b)
  BY <1>6, <1>7 DEF total_usd
<1>. QED BY <1>1, <1>5, <1>8 DEF status

(* Nothing that is recorded, corrected, deactivated or transferred after a
   base date changes what was decided for it. *)
THEOREM LaterEntriesDecideNothing ==
  Spec => [][\A b \in Bases :
               /\ UNCHANGED capitals
               /\ \A a \in accounts : EntriesUpTo(a, b)' = EntriesUpTo(a, b)
               => status(b)' = status(b)]_vars
<1>1. CapitalsTypeOK /\ CapitalsTypeOK' =>
        \A b \in Bases :
          /\ UNCHANGED capitals
          /\ \A a \in accounts : EntriesUpTo(a, b)' = EntriesUpTo(a, b)
          => status(b)' = status(b)
  BY SameStatus
<1>. QED BY <1>1, CapitalsTyped, PTL
===============================================================================
