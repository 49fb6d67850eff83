-------------------------- MODULE ReconciliationProofs --------------------------
(***************************************************************************)
(* For any accounts, statement files, drafts, transfers, documents and     *)
(* bounds: every line of an imported statement is accounted for once, and  *)
(* what a year was reconciled with when it closed stays so.                *)
(*                                                                         *)
(* ReconciliationSafety is the inductive invariant.  Every handler of the  *)
(* ledger keeps the entries of the closed years and adds none to them      *)
(* (LedgerStep); the rest of the invariant depends on the ledger only      *)
(* through those entries, except for the lines of the statements.          *)
(***************************************************************************)
EXTENDS Reconciliation, IterationProofs, SequenceTheorems

(* The loop over the rows of a statement visits each line once. *)
LEMMA LinesInOrder ==
  ASSUME NEW S, S \in SUBSET Nat, IsFiniteSet(S)
  PROVE  /\ Cardinality(S) \in Nat
         /\ DOMAIN InOrder(S) = 1..Cardinality(S)
         /\ \A k \in 1..Cardinality(S) : InOrder(S)[k] \in S
         /\ \A n \in S : \E k \in 1..Cardinality(S) : InOrder(S)[k] = n
         /\ \A j, k \in 1..Cardinality(S) : InOrder(S)[j] = InOrder(S)[k] => j = k
<1>. DEFINE R == {p \in S \X S : p[1] < p[2]}
            before(n) == {m \in S : m < n}
<1>1. TotallyOrdered(R, S) /\ \A n \in S : Below(R, S, n) = before(n)
  BY DEF TotallyOrdered, Ordered, Below
<1>. HIDE DEF R, before
<1>2. TotallyOrdered(R, S)
  BY <1>1
<1>3. /\ Cardinality(S) \in Nat
      /\ \A n \in S : Cardinality(Below(R, S, n)) + 1 \in 1..Cardinality(S)
      /\ \A m, n \in S :
           Cardinality(Below(R, S, m)) = Cardinality(Below(R, S, n)) => m = n
  BY <1>2, RankOnce
<1>4. \A n \in S : Cardinality(before(n)) \in Nat
  BY <1>1, <1>2, RankGrows DEF TotallyOrdered
<1>5. \A r \in 0..(Cardinality(S) - 1) : IsRank(R, S, r)
  BY <1>2, RankTaken
<1>6. ASSUME NEW k \in 1..Cardinality(S)
      PROVE  InOrder(S)[k] \in S /\ Cardinality(before(InOrder(S)[k])) = k - 1
  <2>1. k - 1 \in 0..(Cardinality(S) - 1)
    BY <1>3
  <2>2. \E n \in S : Cardinality(Below(R, S, n)) = k - 1
    BY <2>1, <1>5 DEF IsRank
  <2>3. InOrder(S)[k] = CHOOSE n \in S : Cardinality(before(n)) = k - 1
    BY DEF InOrder, before
  <2>. QED BY <1>1, <2>2, <2>3
<1>7. ASSUME NEW n \in S
      PROVE  \E k \in 1..Cardinality(S) : InOrder(S)[k] = n
  <2>1. Cardinality(before(n)) + 1 \in 1..Cardinality(S) /\ Cardinality(before(n)) \in Nat
    BY <1>1, <1>3, <1>4
  <2>. DEFINE m == InOrder(S)[Cardinality(before(n)) + 1]
  <2>2. m \in S /\ Cardinality(before(m)) = Cardinality(before(n))
    BY <1>6, <2>1
  <2>3. m = n
    BY <1>1, <1>3, <2>2
  <2>. QED BY <2>1, <2>3
<1>8. DOMAIN InOrder(S) = 1..Cardinality(S)
  BY DEF InOrder
<1>9. \A j, k \in 1..Cardinality(S) : InOrder(S)[j] = InOrder(S)[k] => j = k
  BY <1>3, <1>6
<1>. QED BY <1>3, <1>6, <1>7, <1>8, <1>9

(* A non-empty set of naturals up to a bound has a greatest element. *)
LEMMA GreatestBounded ==
  ASSUME NEW m \in Nat, NEW T \in SUBSET (0..m), T # {}
  PROVE  \E x \in T : \A y \in T : y <= x
<1>. DEFINE D == {m - x : x \in T}
<1>1. D \subseteq Nat /\ D # {}
  <2>1. \A x \in T : x \in 0..m
    OBVIOUS
  <2>2. \A x \in T : m - x \in Nat
    BY <2>1
  <2>. QED BY <2>2
<1>2. PICK d \in D : \A c \in D : d <= c
  BY <1>1, LeastNatural
<1>3. PICK x \in T : d = m - x
  OBVIOUS
<1>4. \A y \in T : m - y \in D
  OBVIOUS
<1>. HIDE DEF D
<1>5. \A y \in T : y <= x
  BY <1>2, <1>3, <1>4
<1>. QED BY <1>5

(* What is added to a sequence comes after what was there. *)
LEMMA Concatenated ==
  ASSUME NEW S, NEW s \in Seq(S), NEW t \in Seq(S)
  PROVE  /\ s \o t \in Seq(S) /\ Len(s \o t) = Len(s) + Len(t)
         /\ Len(s) \in Nat /\ Len(t) \in Nat
         /\ DOMAIN s = 1..Len(s) /\ DOMAIN t = 1..Len(t)
         /\ DOMAIN (s \o t) = 1..(Len(s) + Len(t))
         /\ \A i \in DOMAIN s : (s \o t)[i] = s[i]
         /\ \A k \in DOMAIN t : (s \o t)[Len(s) + k] = t[k]
         /\ \A i \in DOMAIN (s \o t) \ DOMAIN s :
              i - Len(s) \in DOMAIN t /\ (s \o t)[i] = t[i - Len(s)]
OBVIOUS

-------------------------------------------------------------------------------
(* The inductive invariant. *)

Transfers == {"BROKER_TRANSFER_OUT", "BROKER_TRANSFER_IN"}

(* Only transfers come in pairs, a new pair has a number of its own, and its
   legs are of the same date. *)
PairsTogether ==
  /\ \A i \in DOMAIN entries :
       /\ entries[i].pair <= Len(entries)
       /\ entries[i].pair # 0 => entries[i].kind \in Transfers
  /\ \A i, j \in DOMAIN entries :
       entries[i].pair # 0 /\ entries[j].pair = entries[i].pair
         => entries[j].trade = entries[i].trade

(* An issue that is settled with an entry names one. *)
SettledWithEntries ==
  \A k \in DOMAIN issues :
    issues[k].status = "RESOLVED_IMPORTED" => issues[k].entry \in DOMAIN entries

At(seq, line) == {i \in DOMAIN seq : seq[i].line = line}

EntriesAt(f, n) == At(entries, <<f, n>>)
IssuesAt(f, n) == At(issues, <<f, n>>)

(* A line of an imported file is one entry or one issue, and nothing is left
   of any other file. *)
LineOnce(f, n) ==
  IF f \in DOMAIN batches
  THEN \/ EntriesAt(f, n) = {} /\ \E k : IssuesAt(f, n) = {k}
       \/ IssuesAt(f, n) = {} /\ \E i : EntriesAt(f, n) = {i}
  ELSE EntriesAt(f, n) = {} /\ IssuesAt(f, n) = {}

LinesOnce == \A f \in DOMAIN Files : \A n \in DOMAIN Files[f] : LineOnce(f, n)

ReconciliationSafety ==
  /\ ReconciliationTypeOK /\ PairsTogether /\ SettledWithEntries /\ LinesOnce
  /\ ClosedIncomesDeclared /\ ClosedTransfersPaired
  /\ ClosedUnitsDocumented /\ OpenIssuesOfClosedYears

-------------------------------------------------------------------------------
(* What a handler of the ledger does to the entries: it deactivates entries of
   open years and adds entries to open years; those of a new transfer are of
   the same date. *)
LedgerStep ==
  /\ UNCHANGED closed
  /\ entries' \in Seq(Entries) /\ Len(entries') <= MaxEntries
  /\ Len(entries) <= Len(entries')
  /\ \A i \in DOMAIN entries :
       \/ entries'[i] = entries[i]
       \/ /\ Open(ano_fiscal_de(entries[i]))
          /\ entries'[i] = [entries[i] EXCEPT !.active = FALSE]
  /\ \A i \in DOMAIN entries' \ DOMAIN entries :
       /\ Open(ano_fiscal_de(entries'[i]))
       /\ entries'[i].pair \in {0, Len(entries) + 1} /\ entries'[i].pair <= Len(entries')
       /\ entries'[i].pair # 0 => entries'[i].kind \in Transfers
  /\ \A i, j \in DOMAIN entries' \ DOMAIN entries :
       entries'[i].pair # 0 /\ entries'[j].pair = entries'[i].pair
         => entries'[j].trade = entries'[i].trade

(* The entry of a form comes from no file and belongs to no pair. *)
LEMMA NewEntryType ==
  ASSUME NEW d \in Drafts
  PROVE  /\ NewEntry(d, NoLine) \in Entries
         /\ NewEntry(d, NoLine).pair = 0 /\ NewEntry(d, NoLine).line = NoLine
         /\ ano_fiscal_de(NewEntry(d, NoLine)) = ano_fiscal_de(d)
<1>1. d \in [kind: Supported, account: Accounts, trade: Years, receipt: Years,
             qty: Nat, cash: Int, declared: BOOLEAN]
  BY ImportAssumption
<1>2. NewEntry(d, NoLine) \in Entries
  BY <1>1 DEF NewEntry, Entries, Supported, Kinds
<1>. QED BY <1>2 DEF NewEntry, ano_fiscal_de

(* Deactivating an entry keeps it in its place. *)
LEMMA DeactivatedType ==
  ASSUME entries \in Seq(Entries), NEW i \in DOMAIN entries
  PROVE  LET es == [entries EXCEPT ![i].active = FALSE] IN
         /\ es \in Seq(Entries) /\ Len(es) = Len(entries)
         /\ es[i] = [entries[i] EXCEPT !.active = FALSE]
         /\ \A j \in DOMAIN entries : j # i => es[j] = entries[j]
<1>1. DOMAIN entries = 1..Len(entries) /\ entries[i] \in Entries
  OBVIOUS
<1>2. [entries[i] EXCEPT !.active = FALSE] \in Entries
  BY <1>1 DEF Entries
<1>. QED BY <1>1, <1>2, ExceptSeq

(* An entry of an open year is added. *)
LEMMA AppendedStep ==
  ASSUME entries \in Seq(Entries),
         NEW es \in Seq(Entries), Len(es) = Len(entries),
         \A i \in DOMAIN entries :
           \/ es[i] = entries[i]
           \/ /\ Open(ano_fiscal_de(entries[i]))
              /\ es[i] = [entries[i] EXCEPT !.active = FALSE],
         NEW e \in Entries, e.pair = 0, Open(ano_fiscal_de(e)),
         Len(entries) < MaxEntries,
         entries' = Append(es, e), UNCHANGED closed
  PROVE  LedgerStep
<1>1. /\ entries' \in Seq(Entries) /\ Len(entries') = Len(entries) + 1
      /\ entries'[Len(entries) + 1] = e
      /\ \A i \in DOMAIN entries : entries'[i] = es[i]
      /\ Len(entries) \in Nat /\ MaxEntries \in Nat
  BY AppendProperties, ImportAssumption
<1>2. DOMAIN entries = 1..Len(entries) /\ DOMAIN entries' = 1..(Len(entries) + 1)
  BY <1>1
<1>3. \A i \in DOMAIN entries' \ DOMAIN entries : entries'[i] = e
  BY <1>1, <1>2
<1>. QED BY <1>1, <1>3 DEF LedgerStep

LEMMA RecordEntryStep ==
  ASSUME ReconciliationTypeOK, NEW d \in Drafts, RecordEntry(d)
  PROVE  LedgerStep
<1>1. entries \in Seq(Entries)
  BY DEF ReconciliationTypeOK, LedgerTypeOK
<1>2. /\ Len(entries) < MaxEntries /\ Open(ano_fiscal_de(d)) /\ UNCHANGED closed
      /\ entries' = Append(entries, NewEntry(d, NoLine))
  BY DEF RecordEntry, Admitted
<1>. QED BY <1>1, <1>2, NewEntryType, AppendedStep

LEMMA CorrectEntryStep ==
  ASSUME ReconciliationTypeOK, NEW i \in DOMAIN entries, NEW d \in Drafts, CorrectEntry(i, d)
  PROVE  LedgerStep
<1>. DEFINE es == [entries EXCEPT ![i].active = FALSE]
<1>1. entries \in Seq(Entries)
  BY DEF ReconciliationTypeOK, LedgerTypeOK
<1>2. /\ Len(entries) < MaxEntries /\ UNCHANGED closed
      /\ Open(ano_fiscal_de(d)) /\ Open(ano_fiscal_de(entries[i]))
      /\ entries' = Append(es, NewEntry(d, NoLine))
  BY DEF CorrectEntry, Admitted
<1>3. /\ es \in Seq(Entries) /\ Len(es) = Len(entries)
      /\ es[i] = [entries[i] EXCEPT !.active = FALSE]
      /\ \A j \in DOMAIN entries : j # i => es[j] = entries[j]
  BY <1>1, DeactivatedType
<1>. HIDE DEF es
<1>4. \A j \in DOMAIN entries :
        \/ es[j] = entries[j]
        \/ /\ Open(ano_fiscal_de(entries[j]))
           /\ es[j] = [entries[j] EXCEPT !.active = FALSE]
  BY <1>2, <1>3
<1>. QED BY <1>1, <1>2, <1>3, <1>4, NewEntryType, AppendedStep

LEMMA DeactivateEntryStep ==
  ASSUME ReconciliationTypeOK, NEW i \in DOMAIN entries, DeactivateEntry(i)
  PROVE  LedgerStep
<1>1. entries \in Seq(Entries) /\ Len(entries) <= MaxEntries
  BY DEF ReconciliationTypeOK, LedgerTypeOK
<1>2. /\ Open(ano_fiscal_de(entries[i])) /\ UNCHANGED closed
      /\ entries' = [entries EXCEPT ![i].active = FALSE]
  BY DEF DeactivateEntry
<1>3. /\ entries' \in Seq(Entries) /\ Len(entries') = Len(entries)
      /\ entries'[i] = [entries[i] EXCEPT !.active = FALSE]
      /\ \A j \in DOMAIN entries : j # i => entries'[j] = entries[j]
  BY <1>1, <1>2, DeactivatedType
<1>4. DOMAIN entries' = DOMAIN entries /\ Len(entries) \in Nat
  BY <1>1, <1>3
<1>5. \A j \in DOMAIN entries :
        \/ entries'[j] = entries[j]
        \/ /\ Open(ano_fiscal_de(entries[j]))
           /\ entries'[j] = [entries[j] EXCEPT !.active = FALSE]
  BY <1>2, <1>3
<1>. QED BY <1>1, <1>2, <1>3, <1>4, <1>5 DEF LedgerStep

LEMMA TransferStep ==
  ASSUME ReconciliationTypeOK, NEW t \in TransferDrafts, Transfer(t)
  PROVE  /\ LedgerStep
         /\ \A i \in DOMAIN entries' \ DOMAIN entries : entries'[i].line = NoLine
<1>. DEFINE n == Len(entries)
            leg(kind, account) ==
              [kind |-> kind, account |-> account, trade |-> t.trade, receipt |-> t.trade,
               qty |-> t.qty, cash |-> t.cash, declared |-> FALSE, active |-> TRUE,
               pair |-> n + 1, line |-> NoLine]
            legs == <<leg("BROKER_TRANSFER_OUT", t.from), leg("BROKER_TRANSFER_IN", t.to)>>
<1>1. entries \in Seq(Entries) /\ n \in Nat /\ MaxEntries \in Nat
  BY ImportAssumption DEF ReconciliationTypeOK, LedgerTypeOK
<1>2. n + 2 <= MaxEntries /\ Open(t.trade) /\ UNCHANGED closed /\ entries' = entries \o legs
  BY DEF Transfer, Transferred
<1>3. /\ t.from \in Accounts /\ t.to \in Accounts /\ t.trade \in Years
      /\ t.qty \in Nat /\ t.cash \in Nat
  BY ImportAssumption
<1>4. ASSUME NEW kind \in Transfers, NEW account \in Accounts
      PROVE  /\ leg(kind, account) \in Entries
             /\ leg(kind, account).pair = n + 1 /\ leg(kind, account).kind \in Transfers
             /\ leg(kind, account).trade = t.trade /\ leg(kind, account).line = NoLine
             /\ ano_fiscal_de(leg(kind, account)) = t.trade
  <2>. kind \in Kinds /\ n + 1 \in Nat
    BY <1>1 DEF Kinds, Transfers
  <2>1. leg(kind, account) \in Entries
    BY <1>3 DEF Entries
  <2>. QED BY <2>1 DEF ano_fiscal_de
<1>. HIDE DEF leg
<1>5. /\ legs[1] = leg("BROKER_TRANSFER_OUT", t.from) /\ legs[2] = leg("BROKER_TRANSFER_IN", t.to)
      /\ legs[1] \in Entries /\ legs[2] \in Entries /\ Len(legs) = 2
      /\ legs \in Seq(Entries)
  BY <1>3, <1>4 DEF Transfers
<1>. HIDE DEF legs, n
<1>6. /\ entries' \in Seq(Entries) /\ Len(entries') = n + 2
      /\ \A i \in 1..n : entries'[i] = entries[i]
      /\ entries'[n + 1] = legs[1] /\ entries'[n + 2] = legs[2]
  <2>1. /\ entries \o legs \in Seq(Entries) /\ Len(entries \o legs) = Len(entries) + Len(legs)
        /\ DOMAIN entries = 1..Len(entries) /\ DOMAIN legs = 1..Len(legs)
        /\ \A i \in DOMAIN entries : (entries \o legs)[i] = entries[i]
        /\ \A k \in DOMAIN legs : (entries \o legs)[Len(entries) + k] = legs[k]
    <3>1. entries \in Seq(Entries) /\ legs \in Seq(Entries)
      BY <1>1, <1>5
    <3>. QED BY <3>1, Concatenated
  <2>2. 1 \in DOMAIN legs /\ 2 \in DOMAIN legs
    BY <1>5, <2>1
  <2>. QED BY <1>2, <1>5, <2>1, <2>2 DEF n
<1>7. DOMAIN entries = 1..n /\ DOMAIN entries' = 1..(n + 2)
  BY <1>1, <1>6 DEF n
<1>8. \A i \in DOMAIN entries' \ DOMAIN entries : i \in {n + 1, n + 2}
  BY <1>1, <1>7
<1>9. \A i \in DOMAIN entries' \ DOMAIN entries :
        /\ entries'[i].pair = n + 1 /\ entries'[i].kind \in Transfers
        /\ entries'[i].trade = t.trade /\ entries'[i].line = NoLine
        /\ ano_fiscal_de(entries'[i]) = t.trade
  BY <1>3, <1>4, <1>5, <1>6, <1>8 DEF Transfers
<1>. QED BY <1>1, <1>2, <1>6, <1>7, <1>9 DEF LedgerStep, n

-------------------------------------------------------------------------------
(* The import of a statement. *)

LEMMA LinesOfFile ==
  ASSUME NEW file \in DOMAIN Files
  PROVE  /\ \A n \in DOMAIN Files[file] : n \in Nat /\ n # 0 /\ Files[file][n] \in Lines
         /\ Unsupported(file) \subseteq DOMAIN Files[file]
         /\ Unsupported(file) \in SUBSET Nat /\ IsFiniteSet(Unsupported(file))
         /\ DOMAIN Files[file] \ Unsupported(file) \in SUBSET Nat
         /\ IsFiniteSet(DOMAIN Files[file] \ Unsupported(file))
<1>1. /\ DOMAIN Files[file] = 1..Len(Files[file]) /\ Len(Files[file]) \in Nat
      /\ \A n \in DOMAIN Files[file] : Files[file][n] \in Lines
  BY ImportAssumption
<1>2. IsFiniteSet(DOMAIN Files[file]) /\ DOMAIN Files[file] \in SUBSET Nat
  BY <1>1, FS_Interval
<1>3. /\ Unsupported(file) \in SUBSET (DOMAIN Files[file])
      /\ DOMAIN Files[file] \ Unsupported(file) \in SUBSET (DOMAIN Files[file])
  BY DEF Unsupported
<1>4. IsFiniteSet(Unsupported(file)) /\ IsFiniteSet(DOMAIN Files[file] \ Unsupported(file))
  BY <1>2, <1>3, FS_Subset
<1>. QED BY <1>1, <1>2, <1>3, <1>4

(* What the loop of the importer takes a file apart into: each supported line
   into one entry, each other line into one issue. *)
LEMMA FileTakenApart ==
  ASSUME NEW file \in DOMAIN Files, NEW account \in Accounts, Readable(file)
  PROVE  LET new == ImportedEntries(file, account) IN
         /\ new \in Seq(Entries) /\ Len(new) = Len(SupportedLines(file))
         /\ \A k \in DOMAIN new :
              /\ new[k].pair = 0
              /\ \E n \in DOMAIN Files[file] \ Unsupported(file) : new[k].line = <<file, n>>
         /\ \A n \in DOMAIN Files[file] \ Unsupported(file) :
              \E k \in DOMAIN new : /\ new[k].line = <<file, n>>
                                    /\ \A j \in DOMAIN new : new[j].line = <<file, n>> => j = k
<1>. DEFINE S == DOMAIN Files[file] \ Unsupported(file)
            m == Cardinality(S)
            new == ImportedEntries(file, account)
<1>1. S \in SUBSET Nat /\ IsFiniteSet(S)
  BY LinesOfFile
<1>2. SupportedLines(file) = InOrder(S)
  BY DEF SupportedLines
<1>3. \A n \in S : n \in Nat /\ Files[file][n] \in Lines /\ Files[file][n].trade # 0
                   /\ Files[file][n].kind # "OTHER"
  BY LinesOfFile DEF Readable, Unsupported
<1>. HIDE DEF S
<1>4. /\ m \in Nat
      /\ DOMAIN InOrder(S) = 1..m
      /\ \A k \in 1..m : InOrder(S)[k] \in S
      /\ \A n \in S : \E k \in 1..m : InOrder(S)[k] = n
      /\ \A j, k \in 1..m : InOrder(S)[j] = InOrder(S)[k] => j = k
  BY <1>1, LinesInOrder
<1>5. InOrder(S) = [k \in 1..m |-> InOrder(S)[k]]
  <2>. DEFINE kth(k) == CHOOSE n \in S : Cardinality({i \in S : i < n}) = k - 1
              order == [k \in 1..m |-> kth(k)]
  <2>1. InOrder(S) = order
    BY DEF InOrder
  <2>. HIDE DEF kth
  <2>2. order = [k \in 1..m |-> order[k]]
    OBVIOUS
  <2>. QED BY <2>1, <2>2
<1>6. Len(SupportedLines(file)) = m
  BY <1>2, <1>4, <1>5
<1>7. new = [k \in 1..m |-> EntryOf(file, InOrder(S)[k], account)]
  BY <1>2, <1>4 DEF ImportedEntries
<1>8. ASSUME NEW n \in S
      PROVE  /\ EntryOf(file, n, account) \in Entries
             /\ EntryOf(file, n, account).pair = 0
             /\ EntryOf(file, n, account).line = <<file, n>>
  <2>1. /\ Files[file][n].kind \in Supported /\ Files[file][n].trade \in Years
        /\ Files[file][n].qty \in Nat /\ Files[file][n].cash \in Int /\ n \in Nat
    BY <1>3 DEF Lines
  <2>. QED BY <2>1 DEF EntryOf, NewEntry, Entries, Kinds, Supported
<1>9. \A k \in 1..m : /\ new[k] \in Entries /\ new[k].pair = 0
                      /\ InOrder(S)[k] \in S /\ new[k].line = <<file, InOrder(S)[k]>>
  BY <1>4, <1>7, <1>8
<1>10. new = [k \in 1..m |-> new[k]] /\ DOMAIN new = 1..m
  BY <1>7
<1>. HIDE DEF new, m
<1>11. new \in Seq(Entries) /\ Len(new) = m
  BY <1>4, <1>9, <1>10
<1>12. ASSUME NEW n \in S
       PROVE  \E k \in DOMAIN new : /\ new[k].line = <<file, n>>
                                    /\ \A j \in DOMAIN new : new[j].line = <<file, n>> => j = k
  <2>1. PICK k \in 1..m : InOrder(S)[k] = n
    BY <1>4
  <2>2. new[k].line = <<file, n>>
    BY <1>9, <2>1
  <2>3. \A j \in 1..m : new[j].line = <<file, n>> => InOrder(S)[j] = n
    BY <1>9
  <2>4. \A j \in 1..m : new[j].line = <<file, n>> => j = k
    BY <1>4, <2>1, <2>3
  <2>5. k \in DOMAIN new /\ \A j \in DOMAIN new : new[j].line = <<file, n>> => j = k
    BY <1>10, <2>4
  <2>. QED BY <2>2, <2>5
<1>13. \A k \in DOMAIN new : /\ new[k].pair = 0
                             /\ \E n \in S : new[k].line = <<file, n>>
  BY <1>9, <1>10
<1>. QED BY <1>6, <1>11, <1>12, <1>13 DEF S, new

(* A file is imported when every entry is admitted after those before it. *)
LEMMA AllAdmitted ==
  ASSUME NEW file \in DOMAIN Files, NEW account \in Accounts, Readable(file),
         ~ Failing(file, account)
  PROVE  \A k \in DOMAIN ImportedEntries(file, account) :
           Open(ano_fiscal_de(ImportedEntries(file, account)[k]))
<1>. DEFINE new == ImportedEntries(file, account)
            ok == {k \in 0..Len(new) :
                     \A j \in 1..k : Admitted(entries \o SubSeq(new, 1, j - 1), new[j])}
            m == Len(new)
<1>1. new \in Seq(Entries) /\ Len(new) = Len(SupportedLines(file))
  BY FileTakenApart
<1>2. m \in Nat /\ DOMAIN new = 1..m
  BY <1>1
<1>3. ok \in SUBSET (0..m) /\ 0 \in ok
  BY <1>2
<1>4. AdmittedUpTo(new) = CHOOSE k \in ok : \A j \in ok : j <= k
  BY DEF AdmittedUpTo
<1>5. ~ (AdmittedUpTo(new) < m)
  BY <1>1 DEF Failing
<1>6. \A k \in ok : \A j \in 1..k : Open(ano_fiscal_de(new[j]))
  BY DEF Admitted
<1>. HIDE DEF new, ok, m
<1>7. \E k \in ok : \A j \in ok : j <= k
  BY <1>2, <1>3, GreatestBounded
<1>8. AdmittedUpTo(new) \in ok
  BY <1>4, <1>7
<1>9. AdmittedUpTo(new) = m
  <2>1. AdmittedUpTo(new) \in 0..m
    BY <1>3, <1>8
  <2>. QED BY <1>2, <1>5, <2>1
<1>. QED BY <1>2, <1>6, <1>8, <1>9 DEF new

Issue(n) == [line: (DOMAIN Files) \X Nat, entry: 0..n,
             status: {"PENDING", "RESOLVED_IMPORTED", "RESOLVED_IGNORED"}]

LEMMA IssuesOfFile ==
  ASSUME NEW file \in DOMAIN Files, NEW bound \in Nat
  PROVE  LET new == NewIssues(file) IN
         /\ new \in Seq(Issue(bound))
         /\ Cardinality(Unsupported(file)) \in Nat
         /\ \A k \in DOMAIN new :
              /\ new[k].status = "PENDING"
              /\ \E n \in Unsupported(file) : new[k].line = <<file, n>>
         /\ \A n \in Unsupported(file) :
              \E k \in DOMAIN new : /\ new[k].line = <<file, n>>
                                    /\ \A j \in DOMAIN new : new[j].line = <<file, n>> => j = k
<1>. DEFINE S == Unsupported(file)
            m == Cardinality(S)
            issue(n) == [line |-> <<file, n>>, status |-> "PENDING", entry |-> 0]
            new == NewIssues(file)
<1>1. S \in SUBSET Nat /\ IsFiniteSet(S)
  BY LinesOfFile
<1>2. /\ m \in Nat
      /\ DOMAIN InOrder(S) = 1..m
      /\ \A k \in 1..m : InOrder(S)[k] \in S
      /\ \A n \in S : \E k \in 1..m : InOrder(S)[k] = n
      /\ \A j, k \in 1..m : InOrder(S)[j] = InOrder(S)[k] => j = k
  BY <1>1, LinesInOrder
<1>3. new = [k \in DOMAIN InOrder(S) |-> issue(InOrder(S)[k])]
  BY DEF NewIssues
<1>4. \A n \in S : /\ issue(n) \in Issue(bound) /\ issue(n).status = "PENDING"
                   /\ issue(n).line = <<file, n>>
  BY <1>1 DEF Issue
<1>. HIDE DEF S, m, issue, new
<1>5. new = [k \in 1..m |-> issue(InOrder(S)[k])]
  BY <1>2, <1>3
<1>6. \A k \in 1..m : /\ new[k] \in Issue(bound) /\ new[k].status = "PENDING"
                      /\ InOrder(S)[k] \in S /\ new[k].line = <<file, InOrder(S)[k]>>
  BY <1>2, <1>4, <1>5
<1>7. new = [k \in 1..m |-> new[k]] /\ DOMAIN new = 1..m
  BY <1>5
<1>8. new \in Seq(Issue(bound))
  BY <1>2, <1>6, <1>7
<1>9. ASSUME NEW n \in S
      PROVE  \E k \in DOMAIN new : /\ new[k].line = <<file, n>>
                                   /\ \A j \in DOMAIN new : new[j].line = <<file, n>> => j = k
  <2>1. PICK k \in 1..m : InOrder(S)[k] = n
    BY <1>2
  <2>2. new[k].line = <<file, n>>
    BY <1>6, <2>1
  <2>3. \A j \in 1..m : new[j].line = <<file, n>> => InOrder(S)[j] = n
    BY <1>6
  <2>4. \A j \in 1..m : new[j].line = <<file, n>> => j = k
    BY <1>2, <2>1, <2>3
  <2>5. k \in DOMAIN new /\ \A j \in DOMAIN new : new[j].line = <<file, n>> => j = k
    BY <1>7, <2>4
  <2>. QED BY <2>2, <2>5
<1>10. \A k \in DOMAIN new : /\ new[k].status = "PENDING"
                             /\ \E n \in S : new[k].line = <<file, n>>
  BY <1>6, <1>7
<1>. QED BY <1>2, <1>8, <1>9, <1>10 DEF S, m, new

LEMMA ImportStep ==
  ASSUME ReconciliationTypeOK, NEW file \in DOMAIN Files, NEW account \in Accounts,
         NEW acknowledged \in BOOLEAN, import_csv(file, account, acknowledged)
  PROVE  LedgerStep
<1>. DEFINE new == ImportedEntries(file, account)
<1>1. /\ Len(entries) + Len(SupportedLines(file)) <= MaxEntries
      /\ Readable(file) /\ ~ Failing(file, account)
      /\ entries' = entries \o new /\ UNCHANGED closed
  BY DEF import_csv, Importable, ImportLines
<1>2. entries \in Seq(Entries)
  BY DEF ReconciliationTypeOK, LedgerTypeOK
<1>3. /\ new \in Seq(Entries) /\ Len(new) = Len(SupportedLines(file))
      /\ \A k \in DOMAIN new : new[k].pair = 0
  BY <1>1, FileTakenApart
<1>4. \A k \in DOMAIN new : Open(ano_fiscal_de(new[k]))
  BY <1>1, AllAdmitted
<1>. HIDE DEF new
<1>5. /\ entries \o new \in Seq(Entries) /\ Len(entries \o new) = Len(entries) + Len(new)
      /\ Len(entries) \in Nat /\ Len(new) \in Nat
      /\ \A i \in DOMAIN entries : (entries \o new)[i] = entries[i]
      /\ \A i \in DOMAIN (entries \o new) \ DOMAIN entries :
           i - Len(entries) \in DOMAIN new /\ (entries \o new)[i] = new[i - Len(entries)]
  <2>1. entries \in Seq(Entries) /\ new \in Seq(Entries)
    BY <1>2, <1>3
  <2>. QED BY <2>1, Concatenated
<1>6. \A i \in DOMAIN entries' \ DOMAIN entries :
        entries'[i].pair = 0 /\ Open(ano_fiscal_de(entries'[i]))
  BY <1>1, <1>3, <1>4, <1>5
<1>7. Len(entries') = Len(entries) + Len(new) /\ Len(entries') <= MaxEntries
  BY <1>1, <1>3, <1>5
<1>. QED BY <1>1, <1>5, <1>6, <1>7 DEF LedgerStep

-------------------------------------------------------------------------------
(* What every handler of the ledger keeps. *)

LEMMA LedgerNextStep ==
  ASSUME ReconciliationTypeOK, LedgerNext
  PROVE  LedgerStep
<1>1. \A k \in DOMAIN issues, i \in DOMAIN entries : resolve_imported(k, i) => UNCHANGED <<entries, closed>>
  BY DEF resolve_imported
<1>2. \A k \in DOMAIN issues : resolve_ignored(k) => UNCHANGED <<entries, closed>>
  BY DEF resolve_ignored
<1>3. ASSUME UNCHANGED <<entries, closed>>
      PROVE  LedgerStep
  BY <1>3 DEF LedgerStep, ReconciliationTypeOK, LedgerTypeOK

<1>. QED
  BY <1>1, <1>2, <1>3, RecordEntryStep, CorrectEntryStep, DeactivateEntryStep, TransferStep,
     ImportStep DEF LedgerNext

(* The entries after a step, one by one. *)
LEMMA LedgerStepTypes ==
  ASSUME entries \in Seq(Entries), LedgerStep
  PROVE  /\ Len(entries) \in Nat /\ DOMAIN entries = 1..Len(entries)
         /\ Len(entries') \in Nat /\ DOMAIN entries' = 1..Len(entries')
         /\ DOMAIN entries \subseteq DOMAIN entries'
         /\ \A i \in DOMAIN entries : entries[i] \in Entries
         /\ \A i \in DOMAIN entries' : entries'[i] \in Entries
         /\ \A i \in DOMAIN entries :
              /\ entries'[i].kind = entries[i].kind
              /\ entries'[i].account = entries[i].account
              /\ entries'[i].trade = entries[i].trade
              /\ entries'[i].receipt = entries[i].receipt
              /\ entries'[i].qty = entries[i].qty
              /\ entries'[i].declared = entries[i].declared
              /\ entries'[i].pair = entries[i].pair
              /\ entries'[i].line = entries[i].line
              /\ entries'[i].active => entries[i].active
              /\ Open(ano_fiscal_de(entries[i])) \/ entries'[i] = entries[i]
<1>1. /\ Len(entries) \in Nat /\ DOMAIN entries = 1..Len(entries)
      /\ Len(entries') \in Nat /\ DOMAIN entries' = 1..Len(entries')
      /\ Len(entries) <= Len(entries')
      /\ \A i \in DOMAIN entries : entries[i] \in Entries
      /\ \A i \in DOMAIN entries' : entries'[i] \in Entries
  BY DEF LedgerStep
<1>2. ASSUME NEW i \in DOMAIN entries
      PROVE  /\ entries'[i].kind = entries[i].kind
             /\ entries'[i].account = entries[i].account
             /\ entries'[i].trade = entries[i].trade
             /\ entries'[i].receipt = entries[i].receipt
             /\ entries'[i].qty = entries[i].qty
             /\ entries'[i].declared = entries[i].declared
             /\ entries'[i].pair = entries[i].pair
             /\ entries'[i].line = entries[i].line
             /\ entries'[i].active => entries[i].active
             /\ Open(ano_fiscal_de(entries[i])) \/ entries'[i] = entries[i]
  <2>1. entries[i] \in Entries
    BY <1>1
  <2>2. CASE entries'[i] = entries[i]
    BY <2>2
  <2>3. CASE /\ Open(ano_fiscal_de(entries[i]))
             /\ entries'[i] = [entries[i] EXCEPT !.active = FALSE]
    BY <2>1, <2>3 DEF Entries
  <2>. QED BY <2>2, <2>3 DEF LedgerStep
<1>. QED BY <1>1, <1>2

LEMMA IncomesKept ==
  ASSUME entries \in Seq(Entries), LedgerStep, ClosedIncomesDeclared
  PROVE  ClosedIncomesDeclared'
<1>1. SUFFICES ASSUME NEW y \in closed, NEW i \in DOMAIN entries', entries'[i].active,
                      entries'[i].kind = "DIVIDEND", entries'[i].receipt = y
               PROVE  entries'[i].declared
  BY DEF ClosedIncomesDeclared, checar_estado_imposto_exterior, LedgerStep
<1>2. CASE i \in DOMAIN entries
  <2>1. /\ entries[i].active /\ entries[i].kind = "DIVIDEND" /\ entries[i].receipt = y
        /\ entries'[i].declared = entries[i].declared
    BY <1>1, <1>2, LedgerStepTypes
  <2>. QED BY <1>2, <2>1 DEF ClosedIncomesDeclared, checar_estado_imposto_exterior
<1>3. CASE i \notin DOMAIN entries
  BY <1>1, <1>3 DEF LedgerStep, ano_fiscal_de, Open
<1>. QED BY <1>2, <1>3

LEMMA PairsKept ==
  ASSUME entries \in Seq(Entries), LedgerStep, PairsTogether
  PROVE  PairsTogether'
<1>. DEFINE n == Len(entries)
            n1 == Len(entries')
            old == DOMAIN entries
            new == DOMAIN entries' \ DOMAIN entries
<1>1. /\ n \in Nat /\ n1 \in Nat /\ n <= n1 /\ old \cup new = DOMAIN entries'
      /\ \A i \in DOMAIN entries : entries[i].pair \in Nat
      /\ \A i \in DOMAIN entries' : entries'[i].pair \in Nat
      /\ \A i \in old : /\ entries'[i].kind = entries[i].kind
                        /\ entries'[i].trade = entries[i].trade
                        /\ entries'[i].pair = entries[i].pair
  BY LedgerStepTypes DEF LedgerStep, Entries
<1>2. \A i \in old : /\ entries'[i].pair <= n
                     /\ entries'[i].pair # 0 => entries'[i].kind \in Transfers
  BY <1>1 DEF PairsTogether
<1>3. \A i \in new : /\ entries'[i].pair \in {0, n + 1} /\ entries'[i].pair <= n1
                     /\ entries'[i].pair # 0 => entries'[i].kind \in Transfers
  BY DEF LedgerStep
<1>4. ASSUME NEW i \in DOMAIN entries', NEW j \in DOMAIN entries',
             entries'[i].pair # 0, entries'[j].pair = entries'[i].pair
      PROVE  entries'[j].trade = entries'[i].trade
  <2>1. CASE i \in old /\ j \in old
    BY <1>1, <1>4, <2>1 DEF PairsTogether
  <2>2. CASE i \in new /\ j \in new
    BY <1>4, <2>2 DEF LedgerStep
  <2>3. CASE (i \in old /\ j \in new) \/ (i \in new /\ j \in old)
    <3>. HIDE DEF old, new, n, n1
    <3>. QED BY <1>1, <1>2, <1>3, <1>4, <2>3
  <2>. QED BY <2>1, <2>2, <2>3
<1>5. \A i \in DOMAIN entries' :
        entries'[i].pair <= n1 /\ (entries'[i].pair # 0 => entries'[i].kind \in Transfers)
  <2>. HIDE DEF old, new, n, n1
  <2>. QED BY <1>1, <1>2, <1>3
<1>. QED BY <1>4, <1>5 DEF PairsTogether

LEMMA TransfersKept ==
  ASSUME entries \in Seq(Entries), LedgerStep, PairsTogether, ClosedTransfersPaired
  PROVE  ClosedTransfersPaired'
<1>1. SUFFICES ASSUME NEW y \in closed, NEW i \in DOMAIN entries', entries'[i].active,
                      entries'[i].pair # 0, entries'[i].trade = y
               PROVE  Cardinality(Legs(entries[i].pair)') = 2
  BY DEF ClosedTransfersPaired, checar_transferencias_solitarias, LedgerStep
<1>2. ~ Open(y)
  BY DEF Open
<1>3. \A j \in DOMAIN entries : entries[j].pair # 0 => ano_fiscal_de(entries[j]) = entries[j].trade
  BY DEF PairsTogether, Transfers, ano_fiscal_de
<1>4. i \in DOMAIN entries
  <2>1. ASSUME i \notin DOMAIN entries PROVE FALSE
    BY <1>1, <1>2, <2>1 DEF LedgerStep, Transfers, ano_fiscal_de
  <2>. QED BY <2>1
<1>. DEFINE p == entries[i].pair
<1>5. entries[i].active /\ p # 0 /\ entries[i].trade = y /\ entries'[i].pair = p
  BY <1>1, <1>4, LedgerStepTypes
<1>6. Cardinality(Legs(p)) = 2
  BY <1>4, <1>5 DEF ClosedTransfersPaired, checar_transferencias_solitarias
<1>7. \A j \in DOMAIN entries : entries[j].pair = p => entries'[j] = entries[j]
  <2>. SUFFICES ASSUME NEW j \in DOMAIN entries, entries[j].pair = p
                PROVE  entries'[j] = entries[j]
    OBVIOUS
  <2>1. ano_fiscal_de(entries[j]) = y
    BY <1>3, <1>4, <1>5 DEF PairsTogether
  <2>. QED BY <1>2, <2>1, LedgerStepTypes
<1>8. \A j \in DOMAIN entries' : entries'[j].pair = p => j \in DOMAIN entries
  <2>1. p <= Len(entries) /\ Len(entries) \in Nat
    BY <1>4 DEF PairsTogether
  <2>2. p # Len(entries) + 1
    BY <1>4, <2>1, LedgerStepTypes DEF Entries
  <2>. QED BY <1>5, <2>2 DEF LedgerStep
<1>9. Legs(p)' = Legs(p)
  <2>1. Legs(p)' = {j \in DOMAIN entries' : entries'[j].active /\ entries'[j].pair = entries'[i].pair}
    BY <1>1 DEF Legs
  <2>. QED BY <1>5, <1>7, <1>8, <2>1, LedgerStepTypes DEF Legs
<1>. QED BY <1>5, <1>6, <1>9

-------------------------------------------------------------------------------
(* Units. *)

(* What an entry adds to the units of its account. *)
Move(e) ==
  CASE e.kind \in {"BUY", "BROKER_TRANSFER_IN"}   -> e.qty
    [] e.kind \in {"SELL", "BROKER_TRANSFER_OUT"} -> -e.qty
    [] OTHER                                      -> 0

Moves(es, account, until) == [i \in EntriesOf(es, account, until) |-> Move(es[i])]

LEMMA UnitsFromMoves ==
  ASSUME NEW es \in Seq(Entries), NEW account \in Accounts, NEW until
  PROVE  /\ units(es, account, until) = Opening[account] + Total(Moves(es, account, until), Len(es))
         /\ DOMAIN Moves(es, account, until) = EntriesOf(es, account, until)
         /\ EntriesOf(es, account, until) \subseteq 1..Len(es) /\ Len(es) \in Nat
         /\ Summable(Moves(es, account, until))
<1>1. \A i \in DOMAIN es : es[i] \in Entries /\ es[i].qty \in Nat
  <2>1. \A i \in DOMAIN es : es[i] \in Entries
    OBVIOUS
  <2>2. \A e \in Entries : e.qty \in Nat
    BY DEF Entries
  <2>. QED BY <2>1, <2>2
<1>2. /\ EntriesOf(es, account, until) \subseteq DOMAIN es
      /\ DOMAIN es = 1..Len(es) /\ Len(es) \in Nat
  BY DEF EntriesOf
<1>3. \A i \in EntriesOf(es, account, until) : Move(es[i]) \in Int
  BY <1>1, <1>2 DEF Move
<1>4. Summable(Moves(es, account, until))
  BY <1>3 DEF Summable, Moves
<1>. QED BY <1>2, <1>4 DEF units, Moves, Move

(* What an entry of an open year adds to the units of a year that is closed
   after all the years before it. *)
LEMMA OpenMovesNothing ==
  ASSUME NEW e \in Entries, NEW y \in closed, AllClosedUpTo(y), e.trade <= y, y \in Years,
         Open(ano_fiscal_de(e))
  PROVE  Move(e) = 0
<1>1. e.trade \in 1..y
  BY DEF Entries, Years
<1>2. ~ Open(e.trade)
  BY <1>1 DEF AllClosedUpTo, Open
<1>3. e.kind = "DIVIDEND"
  BY <1>2 DEF ano_fiscal_de
<1>. QED BY <1>3 DEF Move

LEMMA UnitsKept ==
  ASSUME entries \in Seq(Entries), LedgerStep,
         NEW y \in closed, y \in Years, AllClosedUpTo(y), NEW a \in Accounts
  PROVE  units(entries, a, y)' = units(entries, a, y)
<1>. DEFINE f == Moves(entries, a, y)
            g == Moves(entries', a, y)
            n == Len(entries)
            m == Len(entries')
            old == EntriesOf(entries, a, y)
            now == EntriesOf(entries', a, y)
<1>1. /\ entries \in Seq(Entries) /\ entries' \in Seq(Entries)
  BY DEF LedgerStep
<1>2. /\ units(entries, a, y) = Opening[a] + Total(f, n)
      /\ DOMAIN f = old /\ old \subseteq 1..n /\ n \in Nat /\ Summable(f)
  BY <1>1, UnitsFromMoves
<1>3. /\ units(entries', a, y) = Opening[a] + Total(g, m)
      /\ DOMAIN g = now /\ now \subseteq 1..m /\ m \in Nat /\ Summable(g)
  BY <1>1, UnitsFromMoves
<1>4. \A i \in old : Term(f, i) = Move(entries[i])
  BY DEF Term, Moves
<1>5. \A i \in now : Term(g, i) = Move(entries'[i])
  BY DEF Term, Moves
<1>6. \A i : (i \notin old => Term(f, i) = 0) /\ (i \notin now => Term(g, i) = 0)
  BY DEF Term, Moves
<1>7. ASSUME NEW i \in old
      PROVE  Term(f, i) = Term(g, i)
  <2>1. i \in DOMAIN entries /\ entries[i] \in Entries /\ entries[i].trade <= y
    BY LedgerStepTypes DEF EntriesOf
  <2>2. CASE entries'[i] = entries[i]
    <3>1. i \in now
      BY <2>1, <2>2, LedgerStepTypes DEF EntriesOf
    <3>. QED BY <1>4, <1>5, <2>2, <3>1
  <2>3. CASE Open(ano_fiscal_de(entries[i]))
    <3>1. Move(entries[i]) = 0
      BY <2>1, <2>3, OpenMovesNothing
    <3>2. Move(entries'[i]) = Move(entries[i])
      BY <2>1, LedgerStepTypes DEF Move
    <3>. QED BY <1>4, <1>5, <1>6, <3>1, <3>2
  <2>. QED BY <2>1, <2>2, <2>3, LedgerStepTypes
<1>8. ASSUME NEW i \in now, i \notin old
      PROVE  Term(f, i) = Term(g, i)
  <2>1. i \in DOMAIN entries' /\ entries'[i] \in Entries /\ entries'[i].trade <= y
    BY LedgerStepTypes DEF EntriesOf
  <2>2. i \notin DOMAIN entries
    BY <1>8, LedgerStepTypes DEF EntriesOf
  <2>3. Open(ano_fiscal_de(entries'[i]))
    BY <2>1, <2>2 DEF LedgerStep
  <2>4. Move(entries'[i]) = 0
    BY <2>1, <2>3, OpenMovesNothing
  <2>. QED BY <1>5, <1>6, <1>8, <2>4
<1>. HIDE DEF f, g, n, m, old, now
<1>9. \A i \in DOMAIN f \cup DOMAIN g : Term(f, i) = Term(g, i)
  BY <1>2, <1>3, <1>7, <1>8
<1>10. Total(f, n) = Total(g, m)
  BY <1>2, <1>3, <1>9, TotalOfTerms
<1>11. units(entries, a, y)' = units(entries', a, y)
  BY DEF units, EntriesOf
<1>. QED BY <1>2, <1>3, <1>10, <1>11

LEMMA DocumentedUnitsKept ==
  ASSUME ReconciliationTypeOK, LedgerStep, UNCHANGED documented, ClosedUnitsDocumented
  PROVE  ClosedUnitsDocumented'
<1>1. entries \in Seq(Entries) /\ closed \subseteq Years
  BY DEF ReconciliationTypeOK, LedgerTypeOK
<1>2. UNCHANGED closed
  BY DEF LedgerStep
<1>3. SUFFICES ASSUME NEW y \in closed, NEW a \in Accounts, AllClosedUpTo(y),
                      units(entries, a, y)' > 0
               PROVE  /\ <<a, y>> \in DOMAIN documented
                      /\ documented[<<a, y>>].qty = units(entries, a, y)'
  BY <1>2 DEF ClosedUnitsDocumented, AllClosedUpTo
<1>4. units(entries, a, y)' = units(entries, a, y)
  BY <1>1, <1>3, UnitsKept
<1>. QED BY <1>3, <1>4 DEF ClosedUnitsDocumented

-------------------------------------------------------------------------------
(* Issues and lines. *)

(* The files, and the issues with their lines, stay, and no entry is added
   that comes from a file. *)
LinesUntouched ==
  /\ UNCHANGED batches
  /\ DOMAIN issues' = DOMAIN issues
  /\ \A k \in DOMAIN issues : issues'[k].line = issues[k].line
  /\ \A i \in DOMAIN entries' \ DOMAIN entries : entries'[i].line = NoLine

LEMMA LinesKept ==
  ASSUME entries \in Seq(Entries), LedgerStep, LinesUntouched, LinesOnce
  PROVE  LinesOnce'
<1>1. ASSUME NEW f \in DOMAIN Files, NEW n \in DOMAIN Files[f]
      PROVE  EntriesAt(f, n)' = EntriesAt(f, n) /\ IssuesAt(f, n)' = IssuesAt(f, n)
  <2>1. <<f, n>> # NoLine
    BY LinesOfFile DEF NoLine
  <2>2. \A i \in DOMAIN entries' \ DOMAIN entries : entries'[i].line # <<f, n>>
    BY <2>1 DEF LinesUntouched
  <2>3. EntriesAt(f, n)' = EntriesAt(f, n)
    BY <2>2, LedgerStepTypes DEF EntriesAt, At
  <2>4. IssuesAt(f, n)' = IssuesAt(f, n)
    BY DEF IssuesAt, At, LinesUntouched
  <2>. QED BY <2>3, <2>4
<1>2. batches' = batches
  BY DEF LinesUntouched
<1>3. ASSUME NEW f \in DOMAIN Files, NEW n \in DOMAIN Files[f]
      PROVE  LineOnce(f, n)'
  <2>1. LineOnce(f, n)
    BY DEF LinesOnce
  <2>2. /\ EntriesAt(f, n)' = EntriesAt(f, n) /\ IssuesAt(f, n)' = IssuesAt(f, n)
    BY <1>1
  <2>. QED BY <1>2, <2>1, <2>2 DEF LineOnce
<1>. QED BY <1>3 DEF LinesOnce

(* An issue of a closed year opens again only with an entry of an open year. *)
LEMMA OpenIssuesKept ==
  ASSUME entries \in Seq(Entries), LedgerStep, UNCHANGED <<issues, batches>>,
         SettledWithEntries, OpenIssuesOfClosedYears
  PROVE  SettledWithEntries' /\ OpenIssuesOfClosedYears'
<1>1. /\ UNCHANGED <<closed, issues, batches>> /\ DOMAIN entries \subseteq DOMAIN entries'
      /\ \A i \in DOMAIN entries :
           /\ ano_fiscal_de(entries'[i]) = ano_fiscal_de(entries[i])
           /\ Open(ano_fiscal_de(entries[i])) \/ entries'[i] = entries[i]
  BY LedgerStepTypes DEF LedgerStep, ano_fiscal_de
<1>2. SettledWithEntries'
  BY <1>1 DEF SettledWithEntries
<1>3. SUFFICES ASSUME NEW k \in DOMAIN issues, IssueYear(k) \in closed, esta_aberta(k)'
               PROVE  IF issues[k].status = "PENDING"
                      THEN IssueYear(k) \in batches[issues[k].line[1]].imported
                      ELSE ano_fiscal_de(entries'[issues[k].entry]) # IssueYear(k)
  BY <1>1, <1>2 DEF OpenIssuesOfClosedYears, IssueYear
<1>4. CASE issues[k].status = "PENDING"
  BY <1>3, <1>4 DEF OpenIssuesOfClosedYears, esta_aberta
<1>5. CASE issues[k].status # "PENDING"
  <2>. DEFINE i == issues[k].entry
  <2>1. issues[k].status = "RESOLVED_IMPORTED" /\ ~ entries'[i].active
    BY <1>1, <1>3, <1>5 DEF esta_aberta
  <2>2. i \in DOMAIN entries
    BY <2>1 DEF SettledWithEntries
  <2>3. CASE Open(ano_fiscal_de(entries[i]))
    BY <1>1, <1>3, <1>5, <2>2, <2>3 DEF Open
  <2>4. CASE entries'[i] = entries[i]
    BY <1>3, <1>5, <2>1, <2>4 DEF OpenIssuesOfClosedYears, esta_aberta
  <2>. QED BY <1>1, <2>2, <2>3, <2>4
<1>. QED BY <1>4, <1>5

(* Where a line is found after others were added. *)
LEMMA AddedElsewhere ==
  ASSUME NEW S, NEW s \in Seq(S), NEW t \in Seq(S), NEW line,
         \A k \in DOMAIN t : t[k].line # line
  PROVE  At(s \o t, line) = At(s, line)
<1>. DEFINE u == s \o t
<1>1. /\ DOMAIN s \subseteq DOMAIN u
      /\ \A i \in DOMAIN s : u[i] = s[i]
      /\ \A i \in DOMAIN u \ DOMAIN s : i - Len(s) \in DOMAIN t /\ u[i] = t[i - Len(s)]
  BY Concatenated
<1>. HIDE DEF u
<1>2. \A i \in DOMAIN u \ DOMAIN s : u[i].line # line
  BY <1>1
<1>3. At(u, line) = At(s, line)
  BY <1>1, <1>2 DEF At
<1>. QED BY <1>3 DEF u

LEMMA AddedOnce ==
  ASSUME NEW S, NEW s \in Seq(S), NEW t \in Seq(S), NEW line, At(s, line) = {},
         NEW k \in DOMAIN t, t[k].line = line,
         \A j \in DOMAIN t : t[j].line = line => j = k
  PROVE  At(s \o t, line) = {Len(s) + k}
<1>. DEFINE u == s \o t
            n == Len(s)
<1>1. /\ n \in Nat /\ DOMAIN t \subseteq Nat
      /\ DOMAIN s \subseteq DOMAIN u
      /\ n + k \in DOMAIN u /\ u[n + k] = t[k]
      /\ \A i \in DOMAIN s : u[i] = s[i]
      /\ \A i \in DOMAIN u \ DOMAIN s :
           i - n \in DOMAIN t /\ u[i] = t[i - n] /\ i \in Nat
  BY Concatenated
<1>. HIDE DEF u, n
<1>2. n + k \in At(u, line)
  BY <1>1 DEF At
<1>3. \A i \in DOMAIN s : u[i].line # line
  BY <1>1 DEF At
<1>4. \A i \in DOMAIN u : u[i].line = line => i - n = k /\ i \in Nat
  BY <1>1, <1>3
<1>5. \A i \in DOMAIN u : u[i].line = line => i = n + k
  BY <1>1, <1>4
<1>6. At(u, line) = {n + k}
  BY <1>2, <1>5 DEF At
<1>. QED BY <1>6 DEF u, n

LEMMA ImportedLinesOnce ==
  ASSUME ReconciliationTypeOK, LinesOnce, NEW file \in DOMAIN Files, NEW account \in Accounts,
         NEW acknowledged \in BOOLEAN, import_csv(file, account, acknowledged)
  PROVE  LinesOnce'
<1>. DEFINE new == ImportedEntries(file, account)
            left == NewIssues(file)
            kept == DOMAIN Files[file] \ Unsupported(file)
<1>1. /\ Readable(file) /\ file \notin DOMAIN batches
      /\ entries' = entries \o new /\ issues' = issues \o left
      /\ DOMAIN batches' = DOMAIN batches \cup {file}
  BY DEF import_csv, Importable, ImportLines
<1>2. /\ entries \in Seq(Entries) /\ issues \in Seq(Issue(Len(entries))) /\ Len(entries) \in Nat
  BY DEF ReconciliationTypeOK, LedgerTypeOK, Issue
<1>3. /\ new \in Seq(Entries)
      /\ \A k \in DOMAIN new : \E n \in kept : new[k].line = <<file, n>>
      /\ \A n \in kept :
           \E k \in DOMAIN new : /\ new[k].line = <<file, n>>
                                 /\ \A j \in DOMAIN new : new[j].line = <<file, n>> => j = k
  BY <1>1, FileTakenApart
<1>4. /\ left \in Seq(Issue(Len(entries)))
      /\ \A k \in DOMAIN left : \E n \in Unsupported(file) : left[k].line = <<file, n>>
      /\ \A n \in Unsupported(file) :
           \E k \in DOMAIN left : /\ left[k].line = <<file, n>>
                                  /\ \A j \in DOMAIN left : left[j].line = <<file, n>> => j = k
  BY <1>2, IssuesOfFile
<1>5. \A f, n : /\ EntriesAt(f, n)' = At(entries \o new, <<f, n>>)
                /\ IssuesAt(f, n)' = At(issues \o left, <<f, n>>)
  BY <1>1 DEF EntriesAt, IssuesAt, At
<1>6. ASSUME NEW f, NEW n, \A k \in DOMAIN new : new[k].line # <<f, n>>
      PROVE  EntriesAt(f, n)' = EntriesAt(f, n)
  <2>1. entries \in Seq(Entries) /\ new \in Seq(Entries)
    BY <1>2, <1>3
  <2>2. At(entries \o new, <<f, n>>) = At(entries, <<f, n>>)
    BY <1>6, <2>1, AddedElsewhere
  <2>. QED BY <1>5, <2>2 DEF EntriesAt
<1>7. ASSUME NEW f, NEW n, \A k \in DOMAIN left : left[k].line # <<f, n>>
      PROVE  IssuesAt(f, n)' = IssuesAt(f, n)
  <2>1. issues \in Seq(Issue(Len(entries))) /\ left \in Seq(Issue(Len(entries)))
    BY <1>2, <1>4
  <2>2. At(issues \o left, <<f, n>>) = At(issues, <<f, n>>)
    BY <1>7, <2>1, AddedElsewhere
  <2>. QED BY <1>5, <2>2 DEF IssuesAt
<1>. HIDE DEF new, left
<1>8. ASSUME NEW f \in DOMAIN Files, NEW n \in DOMAIN Files[f], f # file
      PROVE  LineOnce(f, n)'
  <2>1. EntriesAt(f, n)' = EntriesAt(f, n) /\ IssuesAt(f, n)' = IssuesAt(f, n)
    BY <1>3, <1>4, <1>6, <1>7, <1>8
  <2>2. LineOnce(f, n)
    BY DEF LinesOnce
  <2>3. f \in DOMAIN batches' <=> f \in DOMAIN batches
    BY <1>1, <1>8
  <2>. QED BY <2>1, <2>2, <2>3 DEF LineOnce
<1>9. ASSUME NEW n \in DOMAIN Files[file]
      PROVE  LineOnce(file, n)'
  <2>1. EntriesAt(file, n) = {} /\ IssuesAt(file, n) = {} /\ file \in DOMAIN batches'
    BY <1>1 DEF LinesOnce, LineOnce
  <2>2. CASE n \in kept
    <3>1. IssuesAt(file, n)' = {}
      BY <1>4, <1>7, <2>1, <2>2
    <3>. DEFINE line == <<file, n>>
    <3>2. PICK k \in DOMAIN new :
            new[k].line = line /\ \A j \in DOMAIN new : new[j].line = line => j = k
      BY <1>3, <2>2
    <3>3. At(entries, line) = {} /\ entries \in Seq(Entries) /\ new \in Seq(Entries)
      BY <1>2, <1>3, <2>1 DEF EntriesAt
    <3>. HIDE DEF line
    <3>4. At(entries \o new, line) = {Len(entries) + k}
      BY <3>2, <3>3, AddedOnce
    <3>5. EntriesAt(file, n)' = {Len(entries) + k}
      BY <1>5, <3>4 DEF line
    <3>. QED BY <2>1, <3>1, <3>5 DEF LineOnce
  <2>3. CASE n \in Unsupported(file)
    <3>1. EntriesAt(file, n)' = {}
      BY <1>3, <1>6, <2>1, <2>3
    <3>. DEFINE line == <<file, n>>
    <3>2. PICK k \in DOMAIN left :
            left[k].line = line /\ \A j \in DOMAIN left : left[j].line = line => j = k
      BY <1>4, <2>3
    <3>3. /\ At(issues, line) = {}
          /\ issues \in Seq(Issue(Len(entries))) /\ left \in Seq(Issue(Len(entries)))
      BY <1>2, <1>4, <2>1 DEF IssuesAt
    <3>. HIDE DEF line
    <3>4. At(issues \o left, line) = {Len(issues) + k}
      BY <3>2, <3>3, AddedOnce
    <3>5. IssuesAt(file, n)' = {Len(issues) + k}
      BY <1>5, <3>4 DEF line
    <3>. QED BY <2>1, <3>1, <3>5 DEF LineOnce
  <2>. QED BY <2>2, <2>3
<1>. QED BY <1>8, <1>9 DEF LinesOnce

Batch == [account: Accounts, events_created: Nat, rows_unsupported: Nat, imported: SUBSET Years]

(* The issues that are there fit a ledger that has grown. *)
LEMMA IssuesGrow ==
  ASSUME NEW n \in Nat, NEW m \in Nat, n <= m, NEW s \in Seq(Issue(n))
  PROVE  s \in Seq(Issue(m))
<1>1. Issue(n) \subseteq Issue(m)
  BY DEF Issue
<1>. QED BY <1>1, SeqMonotonic

LEMMA ImportedTypes ==
  ASSUME ReconciliationTypeOK, UNCHANGED documented,
         NEW file \in DOMAIN Files, NEW account \in Accounts,
         NEW acknowledged \in BOOLEAN, import_csv(file, account, acknowledged)
  PROVE  ReconciliationTypeOK'
<1>. DEFINE left == NewIssues(file)
            n == Len(entries)
            m == Len(entries')
<1>1. /\ Readable(file) /\ issues' = issues \o left
      /\ batches' = [f \in DOMAIN batches \cup {file} |->
                       IF f = file THEN NewBatch(file, account) ELSE batches[f]]
  BY DEF import_csv, Importable, ImportLines
<1>2. /\ closed \subseteq Years /\ issues \in Seq(Issue(n)) /\ n \in Nat
      /\ \A k \in DOMAIN issues : issues[k].line[1] \in DOMAIN batches
      /\ DOMAIN batches \subseteq DOMAIN Files /\ \A f \in DOMAIN batches : batches[f] \in Batch
  BY DEF ReconciliationTypeOK, LedgerTypeOK, Issue, Batch
<1>3. /\ UNCHANGED closed /\ entries' \in Seq(Entries) /\ m \in Nat /\ m <= MaxEntries /\ n <= m
  BY ImportStep DEF LedgerStep
<1>4. NewBatch(file, account) \in Batch
  <2>1. Cardinality(Unsupported(file)) \in Nat
    BY <1>2, IssuesOfFile
  <2>2. Len(SupportedLines(file)) \in Nat
    BY <1>1, FileTakenApart
  <2>. QED BY <1>2, <2>1, <2>2 DEF NewBatch, Batch
<1>5. DOMAIN batches' \subseteq DOMAIN Files /\ \A f \in DOMAIN batches' : batches'[f] \in Batch
  BY <1>1, <1>2, <1>4
<1>6. /\ left \in Seq(Issue(n)) /\ \A k \in DOMAIN left : left[k].line[1] = file
  BY <1>2, IssuesOfFile
<1>. HIDE DEF left, n, m
<1>7. /\ issues' \in Seq(Issue(n))
      /\ \A k \in DOMAIN issues : issues'[k] = issues[k]
      /\ \A k \in DOMAIN issues' \ DOMAIN issues :
           k - Len(issues) \in DOMAIN left /\ issues'[k] = left[k - Len(issues)]
  <2>1. issues \in Seq(Issue(n)) /\ left \in Seq(Issue(n))
    BY <1>2, <1>6
  <2>2. /\ issues \o left \in Seq(Issue(n))
        /\ \A k \in DOMAIN issues : (issues \o left)[k] = issues[k]
        /\ \A k \in DOMAIN (issues \o left) \ DOMAIN issues :
             k - Len(issues) \in DOMAIN left /\ (issues \o left)[k] = left[k - Len(issues)]
    BY <2>1, Concatenated
  <2>. QED BY <1>1, <2>2
<1>8. \A k \in DOMAIN issues' : issues'[k].line[1] \in DOMAIN batches'
  BY <1>1, <1>2, <1>6, <1>7
<1>9. issues' \in Seq(Issue(m))
  BY <1>2, <1>3, <1>7, IssuesGrow
<1>10. LedgerTypeOK'
  BY <1>3, <1>5, <1>9 DEF LedgerTypeOK, Issue, Batch, m
<1>. QED BY <1>3, <1>8, <1>10 DEF ReconciliationTypeOK

(* The issues a file adds are pending, and its batch notes the years that
   were closed when it was imported. *)
LEMMA ImportedIssues ==
  ASSUME ReconciliationTypeOK, SettledWithEntries, OpenIssuesOfClosedYears,
         NEW file \in DOMAIN Files, NEW account \in Accounts,
         NEW acknowledged \in BOOLEAN, import_csv(file, account, acknowledged)
  PROVE  SettledWithEntries' /\ OpenIssuesOfClosedYears'
<1>. DEFINE left == NewIssues(file)
            n == Len(entries)
<1>1. /\ file \notin DOMAIN batches /\ issues' = issues \o left
      /\ batches' = [f \in DOMAIN batches \cup {file} |->
                       IF f = file THEN NewBatch(file, account) ELSE batches[f]]
  BY DEF import_csv, ImportLines
<1>2. /\ issues \in Seq(Issue(n)) /\ n \in Nat /\ entries \in Seq(Entries)
      /\ \A k \in DOMAIN issues : issues[k].line[1] \in DOMAIN batches
  BY DEF ReconciliationTypeOK, LedgerTypeOK, Issue
<1>3. LedgerStep
  BY ImportStep
<1>4. /\ UNCHANGED closed /\ DOMAIN entries \subseteq DOMAIN entries'
      /\ \A i \in DOMAIN entries : entries'[i] = entries[i]
  <2>1. entries' = entries \o ImportedEntries(file, account) /\ Readable(file)
    BY DEF import_csv, ImportLines, Importable
  <2>2. ImportedEntries(file, account) \in Seq(Entries)
    BY <2>1, FileTakenApart
  <2>. HIDE DEF n
  <2>3. \A i \in DOMAIN entries : (entries \o ImportedEntries(file, account))[i] = entries[i]
    <3>1. entries \in Seq(Entries) /\ ImportedEntries(file, account) \in Seq(Entries)
      BY <1>2, <2>2
    <3>. QED BY <3>1, Concatenated
  <2>. QED BY <1>2, <1>3, <2>1, <2>3, LedgerStepTypes DEF LedgerStep
<1>5. /\ left \in Seq(Issue(n))
      /\ \A k \in DOMAIN left : left[k].line[1] = file /\ left[k].status = "PENDING"
  BY <1>2, IssuesOfFile
<1>. HIDE DEF left, n
<1>6. /\ \A k \in DOMAIN issues : issues'[k] = issues[k]
      /\ \A k \in DOMAIN issues' \ DOMAIN issues :
           k - Len(issues) \in DOMAIN left /\ issues'[k] = left[k - Len(issues)]
  <2>1. issues \in Seq(Issue(n)) /\ left \in Seq(Issue(n))
    BY <1>2, <1>5
  <2>2. /\ \A k \in DOMAIN issues : (issues \o left)[k] = issues[k]
        /\ \A k \in DOMAIN (issues \o left) \ DOMAIN issues :
             k - Len(issues) \in DOMAIN left /\ (issues \o left)[k] = left[k - Len(issues)]
    BY <2>1, Concatenated
  <2>. QED BY <1>1, <2>2
<1>7. \A k \in DOMAIN issues' \ DOMAIN issues :
        issues'[k].line[1] = file /\ issues'[k].status = "PENDING"
  BY <1>5, <1>6
<1>8. SettledWithEntries'
  BY <1>4, <1>6, <1>7 DEF SettledWithEntries
<1>9. SUFFICES ASSUME NEW k \in DOMAIN issues', IssueYear(k)' \in closed, esta_aberta(k)'
               PROVE  IF issues'[k].status = "PENDING"
                      THEN IssueYear(k)' \in batches'[issues'[k].line[1]].imported
                      ELSE ano_fiscal_de(entries'[issues'[k].entry]) # IssueYear(k)'
  BY <1>4, <1>8 DEF OpenIssuesOfClosedYears
<1>10. CASE k \notin DOMAIN issues
  <2>1. batches'[file].imported = closed
    BY <1>1 DEF NewBatch
  <2>. QED BY <1>7, <1>9, <1>10, <2>1
<1>11. CASE k \in DOMAIN issues
  <2>1. issues'[k] = issues[k] /\ IssueYear(k)' = IssueYear(k)
    BY <1>6, <1>11 DEF IssueYear
  <2>2. batches'[issues[k].line[1]] = batches[issues[k].line[1]]
    BY <1>1, <1>2, <1>11
  <2>3. issues[k].status = "RESOLVED_IMPORTED" => issues[k].entry \in DOMAIN entries
    BY <1>11 DEF SettledWithEntries
  <2>4. esta_aberta(k)
    BY <1>4, <1>9, <2>1, <2>3 DEF esta_aberta
  <2>5. IF issues[k].status = "PENDING"
        THEN IssueYear(k) \in batches[issues[k].line[1]].imported
        ELSE ano_fiscal_de(entries[issues[k].entry]) # IssueYear(k)
    BY <1>9, <1>11, <2>1, <2>4 DEF OpenIssuesOfClosedYears
  <2>. QED BY <1>4, <2>1, <2>2, <2>3, <2>4, <2>5 DEF esta_aberta
<1>. QED BY <1>10, <1>11

(* Settling an issue, with an entry or as ignored, closes it. *)
LEMMA SettledIssue ==
  ASSUME ReconciliationTypeOK, SettledWithEntries, OpenIssuesOfClosedYears, UNCHANGED documented,
         NEW k \in DOMAIN issues,
         \/ \E i \in DOMAIN entries : resolve_imported(k, i)
         \/ resolve_ignored(k)
  PROVE  /\ ReconciliationTypeOK' /\ SettledWithEntries' /\ OpenIssuesOfClosedYears'
         /\ LinesUntouched
<1>. DEFINE n == Len(entries)
<1>1. /\ issues \in Seq(Issue(n)) /\ n \in Nat /\ entries \in Seq(Entries) /\ DOMAIN entries = 1..n
      /\ \A j \in DOMAIN issues : issues[j].line[1] \in DOMAIN batches
  BY DEF ReconciliationTypeOK, LedgerTypeOK, Issue
<1>2. UNCHANGED <<entries, batches, closed, documented>>
  BY DEF resolve_imported, resolve_ignored
<1>3. PICK e \in Issue(n) : /\ e.line = issues[k].line /\ issues' = [issues EXCEPT ![k] = e]
                            /\ \/ e.status = "RESOLVED_IGNORED"
                               \/ /\ e.status = "RESOLVED_IMPORTED" /\ e.entry \in DOMAIN entries
                                  /\ entries[e.entry].active
  <2>. issues[k] \in Issue(n)
    BY <1>1
  <2>1. ASSUME NEW i \in DOMAIN entries, resolve_imported(k, i)
        PROVE  \E e \in Issue(n) :
                 /\ e.line = issues[k].line /\ issues' = [issues EXCEPT ![k] = e]
                 /\ e.status = "RESOLVED_IMPORTED" /\ e.entry \in DOMAIN entries
                 /\ entries[e.entry].active
    <3>. DEFINE e == [issues[k] EXCEPT !.status = "RESOLVED_IMPORTED", !.entry = i]
    <3>0. i \in 0..n
      BY <1>1
    <3>1. /\ e \in Issue(n) /\ e.line = issues[k].line
          /\ e.status = "RESOLVED_IMPORTED" /\ e.entry = i
      BY <3>0 DEF Issue
    <3>2. issues' = [issues EXCEPT ![k] = e] /\ entries[i].active
      BY <2>1 DEF resolve_imported
    <3>. QED BY <3>1, <3>2
  <2>2. ASSUME resolve_ignored(k)
        PROVE  \E e \in Issue(n) :
                 /\ e.line = issues[k].line /\ issues' = [issues EXCEPT ![k] = e]
                 /\ e.status = "RESOLVED_IGNORED"
    <3>. DEFINE e == [issues[k] EXCEPT !.status = "RESOLVED_IGNORED"]
    <3>1. e \in Issue(n) /\ e.line = issues[k].line /\ e.status = "RESOLVED_IGNORED"
      BY DEF Issue
    <3>2. issues' = [issues EXCEPT ![k] = e]
      BY <2>2 DEF resolve_ignored
    <3>. QED BY <3>1, <3>2
  <2>. QED BY <2>1, <2>2
<1>4. /\ issues' \in Seq(Issue(n)) /\ DOMAIN issues' = DOMAIN issues
      /\ issues'[k] = e /\ \A j \in DOMAIN issues : j # k => issues'[j] = issues[j]
  BY <1>1, <1>3, ExceptSeq
<1>5. LinesUntouched
  BY <1>2, <1>3, <1>4 DEF LinesUntouched
<1>6. ReconciliationTypeOK'
  <2>1. LedgerTypeOK'
    BY <1>2, <1>4 DEF ReconciliationTypeOK, LedgerTypeOK, Issue
  <2>2. \A j \in DOMAIN issues' : issues'[j].line[1] \in DOMAIN batches'
    BY <1>1, <1>2, <1>4, <1>5 DEF LinesUntouched
  <2>. QED BY <1>2, <2>1, <2>2 DEF ReconciliationTypeOK
<1>7. SettledWithEntries'
  BY <1>2, <1>3, <1>4 DEF SettledWithEntries
<1>8. ~ esta_aberta(k)'
  BY <1>2, <1>3, <1>4 DEF esta_aberta
<1>9. \A j \in DOMAIN issues : j # k =>
        (esta_aberta(j)' <=> esta_aberta(j)) /\ IssueYear(j)' = IssueYear(j)
  BY <1>2, <1>4 DEF esta_aberta, IssueYear
<1>10. OpenIssuesOfClosedYears'
  BY <1>2, <1>4, <1>8, <1>9 DEF OpenIssuesOfClosedYears
<1>. QED BY <1>5, <1>6, <1>7, <1>10

(* Any other handler leaves issues and batches alone. *)
LEMMA EnteredTypes ==
  ASSUME ReconciliationTypeOK, LedgerStep, UNCHANGED <<issues, batches, documented>>
  PROVE  ReconciliationTypeOK'
<1>1. /\ issues \in Seq(Issue(Len(entries))) /\ Len(entries) \in Nat /\ entries \in Seq(Entries)
      /\ Len(entries') \in Nat /\ Len(entries) <= Len(entries')
  BY LedgerStepTypes DEF ReconciliationTypeOK, LedgerTypeOK, Issue, LedgerStep
<1>2. issues' \in Seq(Issue(Len(entries')))
  BY <1>1, IssuesGrow
<1>3. LedgerTypeOK'
  BY <1>2 DEF ReconciliationTypeOK, LedgerTypeOK, Issue, LedgerStep
<1>. QED BY <1>3 DEF ReconciliationTypeOK, LedgerStep

(* Entering, correcting, deactivating and transferring. *)
Enter ==
  \/ \E d \in Drafts : RecordEntry(d)
  \/ \E i \in DOMAIN entries, d \in Drafts : CorrectEntry(i, d)
  \/ \E i \in DOMAIN entries : DeactivateEntry(i)
  \/ \E t \in TransferDrafts : Transfer(t)

LEMMA EnteredLines ==
  ASSUME ReconciliationTypeOK, Enter
  PROVE  UNCHANGED <<issues, batches>> /\ LinesUntouched
<1>1. entries \in Seq(Entries) /\ DOMAIN entries = 1..Len(entries) /\ Len(entries) \in Nat
  BY DEF ReconciliationTypeOK, LedgerTypeOK
<1>2. UNCHANGED <<issues, batches>>
  BY DEF Enter, RecordEntry, CorrectEntry, DeactivateEntry, Transfer
<1>3. ASSUME NEW es \in Seq(Entries), Len(es) = Len(entries), NEW d \in Drafts,
             entries' = Append(es, NewEntry(d, NoLine))
      PROVE  \A i \in DOMAIN entries' \ DOMAIN entries : entries'[i].line = NoLine
  <2>1. /\ NewEntry(d, NoLine) \in Entries /\ NewEntry(d, NoLine).line = NoLine
    BY NewEntryType
  <2>2. \A i \in DOMAIN entries' \ DOMAIN entries : entries'[i] = NewEntry(d, NoLine)
    BY <1>1, <1>3, <2>1
  <2>. QED BY <2>1, <2>2
<1>4. ASSUME NEW d \in Drafts, RecordEntry(d)
      PROVE  \A i \in DOMAIN entries' \ DOMAIN entries : entries'[i].line = NoLine
  BY <1>1, <1>3, <1>4 DEF RecordEntry
<1>5. ASSUME NEW j \in DOMAIN entries, NEW d \in Drafts, CorrectEntry(j, d)
      PROVE  \A i \in DOMAIN entries' \ DOMAIN entries : entries'[i].line = NoLine
  <2>. DEFINE es == [entries EXCEPT ![j].active = FALSE]
  <2>1. es \in Seq(Entries) /\ Len(es) = Len(entries)
    BY <1>1, DeactivatedType
  <2>2. entries' = Append(es, NewEntry(d, NoLine))
    BY <1>5 DEF CorrectEntry
  <2>. HIDE DEF es
  <2>. QED BY <1>3, <2>1, <2>2
<1>6. ASSUME NEW j \in DOMAIN entries, DeactivateEntry(j)
      PROVE  DOMAIN entries' = DOMAIN entries
  BY <1>6 DEF DeactivateEntry
<1>7. \A i \in DOMAIN entries' \ DOMAIN entries : entries'[i].line = NoLine
  BY <1>4, <1>5, <1>6, TransferStep DEF Enter
<1>. QED BY <1>2, <1>7 DEF LinesUntouched

LEMMA LedgerKeepsSafety ==
  ASSUME ReconciliationSafety, LedgerNext, UNCHANGED documented
  PROVE  ReconciliationSafety'
<1>1. ReconciliationTypeOK /\ LedgerStep /\ entries \in Seq(Entries)
  BY LedgerNextStep DEF ReconciliationSafety, ReconciliationTypeOK, LedgerTypeOK
<1>2. /\ PairsTogether' /\ ClosedIncomesDeclared' /\ ClosedTransfersPaired'
      /\ ClosedUnitsDocumented'
  BY <1>1, PairsKept, IncomesKept, TransfersKept, DocumentedUnitsKept DEF ReconciliationSafety
<1>3. CASE Enter
  <2>1. UNCHANGED <<issues, batches>> /\ LinesUntouched
    BY <1>1, <1>3, EnteredLines
  <2>. QED
    BY <1>1, <1>2, <2>1, EnteredTypes, LinesKept, OpenIssuesKept DEF ReconciliationSafety
<1>4. CASE \E f \in DOMAIN Files, a \in Accounts, acknowledged \in BOOLEAN :
             import_csv(f, a, acknowledged)
  BY <1>1, <1>2, <1>4, ImportedTypes, ImportedLinesOnce, ImportedIssues DEF ReconciliationSafety
<1>5. CASE \E k \in DOMAIN issues : \/ \E i \in DOMAIN entries : resolve_imported(k, i)
                                    \/ resolve_ignored(k)
  <2>1. /\ ReconciliationTypeOK' /\ SettledWithEntries' /\ OpenIssuesOfClosedYears'
        /\ LinesUntouched
    BY <1>1, <1>5, SettledIssue DEF ReconciliationSafety
  <2>. QED BY <1>1, <1>2, <2>1, LinesKept DEF ReconciliationSafety
<1>. QED BY <1>3, <1>4, <1>5 DEF LedgerNext, Enter

-------------------------------------------------------------------------------
(* Closing, reopening and documents. *)

(* The ledger knows the asset it has units of. *)
LEMMA UnitsKnown ==
  ASSUME entries \in Seq(Entries), NEW a \in Accounts, NEW y, units(entries, a, y) > 0
  PROVE  Known(a)
<1>. DEFINE f == Moves(entries, a, y)
            n == Len(entries)
<1>1. /\ units(entries, a, y) = Opening[a] + Total(f, n)
      /\ DOMAIN f = EntriesOf(entries, a, y) /\ n \in Nat
  BY UnitsFromMoves
<1>2. SUFFICES ASSUME ~ Known(a) PROVE FALSE
  OBVIOUS
<1>3. Opening[a] = 0
  BY <1>2, ImportAssumption DEF Known
<1>4. ASSUME NEW i \in EntriesOf(entries, a, y)
      PROVE  Move(entries[i]) = 0
  <2>1. /\ i \in DOMAIN entries /\ entries[i] \in Entries
        /\ entries[i].active /\ entries[i].account = a
    BY DEF EntriesOf
  <2>2. entries[i].kind \notin Supported /\ ~ (entries[i].qty > 0)
    BY <1>2, <2>1 DEF Known
  <2>3. entries[i].qty = 0
    BY <2>1, <2>2 DEF Entries
  <2>4. Move(entries[i]) \in {entries[i].qty, -entries[i].qty, 0}
    BY DEF Move
  <2>. QED BY <2>3, <2>4
<1>5. \A i \in DOMAIN f : f[i] = 0
  BY <1>1, <1>4 DEF Moves
<1>. HIDE DEF f, n
<1>6. Total(f, n) = 0
  BY <1>1, <1>5, TotalOfZeros
<1>. QED BY <1>1, <1>3, <1>6

(* The units of the year that closes were reconciled; the years before it
   were closed already. *)
LEMMA CloseYearUnits ==
  ASSUME ReconciliationTypeOK, ClosedUnitsDocumented, NEW year \in Years, CloseYear(year)
  PROVE  ClosedUnitsDocumented'
<1>1. /\ closed' = closed \cup {year} /\ UNCHANGED <<entries, documented>>
      /\ \A y \in closed : y <= year
      /\ checar_caixa(year) /\ checar_posicoes(year)
  BY DEF CloseYear, ledger, Reconciled
<1>2. entries \in Seq(Entries) /\ closed \subseteq Years /\ Years \subseteq Nat
  BY DEF ReconciliationTypeOK, LedgerTypeOK, Years
<1>3. SUFFICES ASSUME NEW y \in closed', NEW a \in Accounts, AllClosedUpTo(y)',
                      units(entries, a, y) > 0
               PROVE  /\ <<a, y>> \in DOMAIN documented
                      /\ documented[<<a, y>>].qty = units(entries, a, y)
  BY <1>1 DEF ClosedUnitsDocumented, units, EntriesOf
<1>4. CASE y # year
  <2>1. y \in closed /\ y < year
    BY <1>1, <1>2, <1>4
  <2>2. AllClosedUpTo(y)
    BY <1>1, <1>2, <1>3, <2>1 DEF AllClosedUpTo
  <2>. QED BY <1>3, <2>1, <2>2 DEF ClosedUnitsDocumented
<1>5. CASE y = year
  <2>1. conta_relevante(a, year)
    BY <1>3, <1>5 DEF conta_relevante
  <2>2. <<a, year>> \in DOMAIN documented
    BY <1>1, <2>1 DEF checar_caixa
  <2>3. Known(a)
    BY <1>2, <1>3, UnitsKnown
  <2>4. units(entries, a, year) \in Int
    <3>1. /\ units(entries, a, year) = Opening[a] + Total(Moves(entries, a, year), Len(entries))
          /\ Len(entries) \in Nat /\ Summable(Moves(entries, a, year))
      BY <1>2, UnitsFromMoves
    <3>2. Total(Moves(entries, a, year), Len(entries)) \in Int
      BY <3>1, TotalRounds DEF Summable
    <3>. QED BY <3>1, <3>2, ImportAssumption
  <2>5. ~ (units(entries, a, year) <= 0)
    BY <1>3, <1>5, <2>4
  <2>. QED BY <1>1, <1>5, <2>1, <2>2, <2>3, <2>5 DEF checar_posicoes
<1>. QED BY <1>4, <1>5

LEMMA SameLedger ==
  ASSUME UNCHANGED <<entries, batches, issues>>,
         PairsTogether, SettledWithEntries, LinesOnce
  PROVE  PairsTogether' /\ SettledWithEntries' /\ LinesOnce'
<1>1. PairsTogether' /\ SettledWithEntries'
  BY DEF PairsTogether, SettledWithEntries
<1>2. \A f, n : LineOnce(f, n)' <=> LineOnce(f, n)
  <2>1. \A f, n : EntriesAt(f, n)' = EntriesAt(f, n) /\ IssuesAt(f, n)' = IssuesAt(f, n)
    BY DEF EntriesAt, IssuesAt, At
  <2>. QED BY <2>1 DEF LineOnce
<1>3. LinesOnce'
  BY <1>2 DEF LinesOnce
<1>. QED BY <1>1, <1>3

LEMMA CloseYearKeepsSafety ==
  ASSUME ReconciliationSafety, NEW year \in Years, CloseYear(year)
  PROVE  ReconciliationSafety'
<1>1. /\ UNCHANGED <<entries, batches, issues, documented>> /\ closed' = closed \cup {year}
      /\ checar_importacoes(year) /\ checar_estado_imposto_exterior(year)
      /\ checar_transferencias_solitarias(year)
  BY DEF CloseYear, ledger, Reconciled
<1>2. ReconciliationTypeOK'
  BY <1>1 DEF ReconciliationSafety, ReconciliationTypeOK, LedgerTypeOK
<1>3. PairsTogether' /\ SettledWithEntries' /\ LinesOnce'
  BY <1>1, SameLedger DEF ReconciliationSafety
<1>4. ClosedIncomesDeclared'
  BY <1>1 DEF ReconciliationSafety, ClosedIncomesDeclared, checar_estado_imposto_exterior
<1>5. ClosedTransfersPaired'
  BY <1>1 DEF ReconciliationSafety, ClosedTransfersPaired, checar_transferencias_solitarias, Legs
<1>6. ClosedUnitsDocumented'
  BY CloseYearUnits DEF ReconciliationSafety
<1>7. OpenIssuesOfClosedYears'
  <2>1. \A k \in DOMAIN issues :
          (esta_aberta(k)' <=> esta_aberta(k)) /\ IssueYear(k)' = IssueYear(k)
    BY <1>1 DEF esta_aberta, IssueYear
  <2>2. \A k \in DOMAIN issues : esta_aberta(k) => IssueYear(k) # year
    BY <1>1 DEF checar_importacoes
  <2>. QED BY <1>1, <2>1, <2>2 DEF ReconciliationSafety, OpenIssuesOfClosedYears
<1>. QED BY <1>2, <1>3, <1>4, <1>5, <1>6, <1>7 DEF ReconciliationSafety

LEMMA ReopenYearKeepsSafety ==
  ASSUME ReconciliationSafety, NEW year \in Years, ReopenYear(year)
  PROVE  ReconciliationSafety'
<1>1. UNCHANGED <<entries, batches, issues, documented>> /\ closed' \subseteq closed
  BY DEF ReopenYear, ledger
<1>2. ReconciliationTypeOK'
  BY <1>1 DEF ReconciliationSafety, ReconciliationTypeOK, LedgerTypeOK
<1>3. PairsTogether' /\ SettledWithEntries' /\ LinesOnce'
  BY <1>1, SameLedger DEF ReconciliationSafety
<1>4. ClosedIncomesDeclared'
  BY <1>1 DEF ReconciliationSafety, ClosedIncomesDeclared, checar_estado_imposto_exterior
<1>5. ClosedTransfersPaired'
  BY <1>1 DEF ReconciliationSafety, ClosedTransfersPaired, checar_transferencias_solitarias, Legs
<1>6. ClosedUnitsDocumented'
  <2>1. \A y : AllClosedUpTo(y)' => AllClosedUpTo(y)
    BY <1>1 DEF AllClosedUpTo
  <2>2. \A a, y : units(entries, a, y)' = units(entries, a, y)
    BY <1>1 DEF units, EntriesOf
  <2>. QED BY <1>1, <2>1, <2>2 DEF ReconciliationSafety, ClosedUnitsDocumented
<1>7. OpenIssuesOfClosedYears'
  <2>1. \A k \in DOMAIN issues :
          (esta_aberta(k)' <=> esta_aberta(k)) /\ IssueYear(k)' = IssueYear(k)
    BY <1>1 DEF esta_aberta, IssueYear
  <2>. QED BY <1>1, <2>1 DEF ReconciliationSafety, OpenIssuesOfClosedYears
<1>. QED BY <1>2, <1>3, <1>4, <1>5, <1>6, <1>7 DEF ReconciliationSafety

LEMMA DocumentKeepsSafety ==
  ASSUME ReconciliationSafety, NEW d \in Documents, DocumentBalance(d)
  PROVE  ReconciliationSafety'
<1>1. /\ UNCHANGED <<entries, batches, issues, closed>>
      /\ DOMAIN documented' = DOMAIN documented \cup {<<d.account, d.year>>}
      /\ \A k \in DOMAIN documented : documented'[k] = documented[k]
      /\ documented'[<<d.account, d.year>>] = [cash |-> d.cash, qty |-> d.qty]
  BY DEF DocumentBalance, ledger
<1>2. ReconciliationTypeOK'
  <2>1. d \in [account: Accounts, year: Years, cash: Int, qty: Nat \cup {Unlisted}]
    BY DocumentsAssumption
  <2>2. /\ DOMAIN documented' \subseteq Accounts \X Years
        /\ \A k \in DOMAIN documented' : documented'[k] \in [cash: Int, qty: Nat \cup {Unlisted}]
    BY <1>1, <2>1 DEF ReconciliationSafety, ReconciliationTypeOK
  <2>. QED BY <1>1, <2>2 DEF ReconciliationSafety, ReconciliationTypeOK, LedgerTypeOK
<1>3. PairsTogether' /\ SettledWithEntries' /\ LinesOnce'
  BY <1>1, SameLedger DEF ReconciliationSafety
<1>4. ClosedIncomesDeclared'
  BY <1>1 DEF ReconciliationSafety, ClosedIncomesDeclared, checar_estado_imposto_exterior
<1>5. ClosedTransfersPaired'
  BY <1>1 DEF ReconciliationSafety, ClosedTransfersPaired, checar_transferencias_solitarias, Legs
<1>6. ClosedUnitsDocumented'
  <2>1. \A y : AllClosedUpTo(y)' = AllClosedUpTo(y)
    BY <1>1 DEF AllClosedUpTo
  <2>2. \A a, y : units(entries, a, y)' = units(entries, a, y)
    BY <1>1 DEF units, EntriesOf
  <2>. QED BY <1>1, <2>1, <2>2 DEF ReconciliationSafety, ClosedUnitsDocumented
<1>7. OpenIssuesOfClosedYears'
  <2>1. \A k \in DOMAIN issues :
          (esta_aberta(k)' <=> esta_aberta(k)) /\ IssueYear(k)' = IssueYear(k)
    BY <1>1 DEF esta_aberta, IssueYear
  <2>. QED BY <1>1, <2>1 DEF ReconciliationSafety, OpenIssuesOfClosedYears
<1>. QED BY <1>2, <1>3, <1>4, <1>5, <1>6, <1>7 DEF ReconciliationSafety

LEMMA StutterKeepsSafety ==
  ASSUME ReconciliationSafety, UNCHANGED vars
  PROVE  ReconciliationSafety'
<1>1. UNCHANGED <<entries, batches, issues, closed, documented>>
  BY DEF vars, ledger
<1>2. ReconciliationTypeOK'
  BY <1>1 DEF ReconciliationSafety, ReconciliationTypeOK, LedgerTypeOK
<1>3. PairsTogether' /\ SettledWithEntries' /\ LinesOnce'
  BY <1>1, SameLedger DEF ReconciliationSafety
<1>4. ClosedIncomesDeclared' /\ ClosedTransfersPaired'
  BY <1>1 DEF ReconciliationSafety, ClosedIncomesDeclared, checar_estado_imposto_exterior,
              ClosedTransfersPaired, checar_transferencias_solitarias, Legs
<1>5. ClosedUnitsDocumented' /\ OpenIssuesOfClosedYears'
  BY <1>1 DEF ReconciliationSafety, ClosedUnitsDocumented, AllClosedUpTo, units, EntriesOf,
              OpenIssuesOfClosedYears, esta_aberta, IssueYear
<1>. QED BY <1>2, <1>3, <1>4, <1>5 DEF ReconciliationSafety

-------------------------------------------------------------------------------
LEMMA InitSafety ==
  ASSUME Init
  PROVE  ReconciliationSafety
<1>1. /\ entries = <<>> /\ issues = <<>> /\ DOMAIN batches = {} /\ closed = {}
      /\ DOMAIN documented = {} /\ Len(entries) = 0
      /\ DOMAIN entries = {} /\ DOMAIN issues = {}
  BY DEF Init, LedgerInit
<1>2. ReconciliationTypeOK
  BY <1>1, ImportAssumption DEF ReconciliationTypeOK, LedgerTypeOK
<1>3. PairsTogether /\ SettledWithEntries /\ LinesOnce
  BY <1>1 DEF PairsTogether, SettledWithEntries, LinesOnce, LineOnce, EntriesAt, IssuesAt, At
<1>. QED
  BY <1>1, <1>2, <1>3 DEF ReconciliationSafety, ClosedIncomesDeclared, ClosedTransfersPaired,
                          ClosedUnitsDocumented, OpenIssuesOfClosedYears

(* The inductive invariant holds in every state: closing, reopening, the
   event form, transfers, imports, issues and documents preserve it. *)
THEOREM ReconciliationHolds == Spec => []ReconciliationSafety
<1>1. Init => ReconciliationSafety
  BY InitSafety
<1>2. ReconciliationSafety /\ [Next]_vars => ReconciliationSafety'
  <2>. SUFFICES ASSUME ReconciliationSafety, [Next]_vars PROVE ReconciliationSafety'
    OBVIOUS
  <2>1. CASE LedgerNext /\ UNCHANGED documented
    BY <2>1, LedgerKeepsSafety
  <2>2. CASE \E d \in Documents : DocumentBalance(d)
    BY <2>2, DocumentKeepsSafety
  <2>3. CASE \E y \in Years : CloseYear(y)
    BY <2>3, CloseYearKeepsSafety
  <2>4. CASE \E y \in Years : ReopenYear(y)
    BY <2>4, ReopenYearKeepsSafety
  <2>5. CASE UNCHANGED vars
    BY <2>5, StutterKeepsSafety
  <2>. QED BY <2>1, <2>2, <2>3, <2>4, <2>5 DEF Next
<1>. QED BY <1>1, <1>2, PTL DEF Spec

(* The types of the ledger, the imports, the closings and the documents. *)
THEOREM ReconciliationTypes == Spec => []ReconciliationTypeOK
<1>1. ReconciliationSafety => ReconciliationTypeOK
  BY DEF ReconciliationSafety
<1>. QED BY <1>1, ReconciliationHolds, PTL

(* No line of a statement is lost or counts twice: each line of a file that
   was imported is one entry or one issue, and nothing is left of a file that
   was refused, whatever was submitted in between. *)
THEOREM LinesAccountedFor == Spec => []EveryLineAccountedFor
<1>1. ASSUME LinesOnce PROVE EveryLineAccountedFor
  <2>. SUFFICES ASSUME NEW f \in DOMAIN Files, NEW n \in DOMAIN Files[f]
                PROVE  Cardinality(EntriesAt(f, n)) + Cardinality(IssuesAt(f, n)) =
                         IF f \in DOMAIN batches THEN 1 ELSE 0
    BY DEF EveryLineAccountedFor, EntriesAt, IssuesAt, At
  <2>1. LineOnce(f, n)
    BY <1>1 DEF LinesOnce
  <2>2. Cardinality({}) = 0 /\ \A x : Cardinality({x}) = 1
    BY FS_EmptySet, FS_Singleton
  <2>. QED BY <2>1, <2>2 DEF LineOnce
<1>2. ReconciliationSafety => EveryLineAccountedFor
  BY <1>1 DEF ReconciliationSafety
<1>. QED BY <1>2, ReconciliationHolds, PTL

(* Every income of a closed year has a declared state of the tax abroad. *)
THEOREM IncomesStayDeclared == Spec => []ClosedIncomesDeclared
<1>1. ReconciliationSafety => ClosedIncomesDeclared
  BY DEF ReconciliationSafety
<1>. QED BY <1>1, ReconciliationHolds, PTL

(* Both legs of a transfer of a closed year are active, or neither is. *)
THEOREM TransfersStayPaired == Spec => []ClosedTransfersPaired
<1>1. ReconciliationSafety => ClosedTransfersPaired
  BY DEF ReconciliationSafety
<1>. QED BY <1>1, ReconciliationHolds, PTL

(* The units of a year that is closed after all the years before it are those
   of the document it was reconciled with. *)
THEOREM UnitsStayDocumented == Spec => []ClosedUnitsDocumented
<1>1. ReconciliationSafety => ClosedUnitsDocumented
  BY DEF ReconciliationSafety
<1>. QED BY <1>1, ReconciliationHolds, PTL

(* An issue of a closed year is open only if its statement came later or the
   entry that settled it was of another year. *)
THEOREM IssuesStaySettled == Spec => []OpenIssuesOfClosedYears
<1>1. ReconciliationSafety => OpenIssuesOfClosedYears
  BY DEF ReconciliationSafety
<1>. QED BY <1>1, ReconciliationHolds, PTL

(* The entries of a year, with their ids. *)
EntriesOfYear(y) ==
  {p \in (DOMAIN entries) \X Entries : p[2] = entries[p[1]] /\ ano_fiscal_de(p[2]) = y}

(* Whatever is entered, corrected, deactivated, transferred or imported, the
   entries of a closed year stay those it has. *)
ClosedEntriesStay ==
  [][\A y \in closed : EntriesOfYear(y)' = EntriesOfYear(y)]_vars

THEOREM ClosedYearsKeepTheirEntries == Spec => ClosedEntriesStay
<1>1. ASSUME ReconciliationSafety, [Next]_vars
      PROVE  [\A y \in closed : EntriesOfYear(y)' = EntriesOfYear(y)]_vars
  <2>0. entries \in Seq(Entries)
    BY <1>1 DEF ReconciliationSafety, ReconciliationTypeOK, LedgerTypeOK
  <2>1. ASSUME LedgerNext, NEW y \in closed
        PROVE  EntriesOfYear(y)' = EntriesOfYear(y)
    <3>1. LedgerStep
      BY <1>1, <2>1, LedgerNextStep DEF ReconciliationSafety
    <3>2. \A i \in DOMAIN entries :
            /\ i \in DOMAIN entries'
            /\ ano_fiscal_de(entries'[i]) = ano_fiscal_de(entries[i])
            /\ ano_fiscal_de(entries[i]) = y => entries'[i] = entries[i]
      BY <2>0, <3>1, LedgerStepTypes DEF ano_fiscal_de, Open
    <3>3. \A i \in DOMAIN entries' \ DOMAIN entries : ano_fiscal_de(entries'[i]) # y
      BY <3>1 DEF LedgerStep, Open
    <3>. QED BY <3>2, <3>3 DEF EntriesOfYear
  <2>2. CASE UNCHANGED entries
    BY <2>2 DEF EntriesOfYear
  <2>3. CASE \E d \in Documents : DocumentBalance(d)
    BY <2>2, <2>3 DEF DocumentBalance, ledger
  <2>4. CASE \E y \in Years : CloseYear(y) \/ ReopenYear(y)
    BY <2>2, <2>4 DEF CloseYear, ReopenYear, ledger
  <2>. QED BY <1>1, <2>1, <2>3, <2>4 DEF Next
<1>. QED BY <1>1, ReconciliationHolds, PTL DEF Spec, ClosedEntriesStay
===============================================================================
