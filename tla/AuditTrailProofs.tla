--------------------------- MODULE AuditTrailProofs ---------------------------
(***************************************************************************)
(* The hash chain, the documents and the backups for any number of         *)
(* requests, commands, rows and files, and for any tampering: what a       *)
(* broken chain can come from, that an edit breaks it, and that neither a  *)
(* document nor a backup lacks a file.                                     *)
(***************************************************************************)
EXTENDS AuditTrail, SequenceTheorems, WellFoundedInduction, TLAPS

Rows == [content: Contents, hash: Seq(Contents)]

(* What the next append, or one under way, is built on: nothing, or the hash
   of a row that precedes row k. *)
Prior(p, k) == p = NoHash \/ \E j \in DOMAIN log : j < k /\ log[j].hash = p

(* As long as nobody has tampered with the log, its ids are its positions,
   a row that is being sealed has no hash yet and belongs to one request
   only, and every hash extends that of a row that precedes its own.  This
   is what makes two appends at once the only way to break the chain. *)
AppendedChain ==
  /\ lastId = Len(log)
  /\ \A i \in DOMAIN log :
       /\ log[i].content = [id |-> i, edited |-> FALSE]
       /\ log[i].hash # NoHash =>
            \E p \in Seq(Contents) : log[i].hash = Hash(p, log[i].content) /\ Prior(p, i)
  /\ \A a \in Actors : request[a].step = "create" => Prior(request[a].previous, Len(log) + 1)
  /\ \A a \in Actors : request[a].step = "seal" =>
       /\ request[a].content.id \in DOMAIN log
       /\ log[request[a].content.id].hash = NoHash
       /\ Prior(request[a].previous, request[a].content.id)
  /\ \A a, b \in Actors :
       request[a].step = "seal" /\ request[b].step = "seal" /\ a # b =>
         request[a].content.id # request[b].content.id

(* A hash is computed from what the row said when it was made, also when the
   row is edited before it is sealed. *)
HashesOfOriginals ==
  /\ \A i \in DOMAIN log :
       log[i].hash # NoHash => ~ log[i].hash[Len(log[i].hash)].edited
  /\ \A a \in Actors : request[a].step = "seal" => ~ request[a].content.edited

(* A request on its way to a row has stored its file, and a backup on its
   way to the files has begun with documents that are still there. *)
StepsOfStorage ==
  \A a \in Actors :
    /\ request[a].step = "record" => request[a].file \in files
    /\ request[a].step = "zip" => request[a].began \subseteq documents

(* Inductive invariant. *)
TrailSafety ==
  /\ log \in Seq(Rows)
  /\ TrailTypeOK
  /\ HashesOfOriginals
  /\ tampered = {} => AppendedChain
  /\ DocumentsHaveFiles /\ BackupsComplete /\ StepsOfStorage

USE DEF NoHash

(* What the fields of a request are in each of its steps. *)
LEMMA ActorFields ==
  ASSUME TrailTypeOK, NEW a \in Actors
  PROVE  /\ request[a] \in RequestStates
         /\ request[a].step = "create" => request[a].previous \in Seq(Contents)
         /\ request[a].step = "seal" => /\ request[a].previous \in Seq(Contents)
                                        /\ request[a].content \in Contents
         /\ request[a].step = "record" => request[a].file \in FileIds
         /\ request[a].step = "zip" => request[a].began \in SUBSET FileIds
<1>1. request[a] \in RequestStates
  BY DEF TrailTypeOK
<1>. QED BY <1>1 DEF RequestStates, Idle

(* The rows of the log, as SMT likes them. *)
LEMMA LogRows ==
  ASSUME TrailSafety
  PROVE  /\ Len(log) \in Nat /\ DOMAIN log = 1..Len(log)
         /\ \A i \in DOMAIN log : /\ log[i] \in Rows
                                  /\ log[i].content \in Contents
                                  /\ log[i].hash \in Seq(Contents)
<1>1. log \in Seq(Rows)
  BY DEF TrailSafety
<1>2. Len(log) \in Nat /\ DOMAIN log = 1..Len(log)
  BY <1>1, LenProperties
<1>3. \A i \in DOMAIN log : log[i] \in Rows
  BY <1>1, <1>2, ElementOfSeq
<1>. QED BY <1>2, <1>3 DEF Rows

(* A hash ends with the content it was computed from, and what precedes it
   is the hash it was built on. *)
LEMMA HashProperties ==
  ASSUME NEW p \in Seq(Contents), NEW c \in Contents
  PROVE  /\ Hash(p, c) \in Seq(Contents) /\ Hash(p, c) # NoHash
         /\ Hash(p, c)[Len(Hash(p, c))] = c
         /\ Front(Hash(p, c)) = p
<1>1. /\ Append(p, c) \in Seq(Contents) /\ Append(p, c) # << >>
      /\ Len(Append(p, c)) = Len(p) + 1 /\ Len(p) \in Nat
      /\ \A i \in 1..Len(p) : Append(p, c)[i] = p[i]
      /\ Append(p, c)[Len(p) + 1] = c
  BY AppendProperties, LenProperties
<1>. DEFINE f == SubSeq(Append(p, c), 1, Len(p))
<1>2. \A i \in 1..Len(p) : Append(p, c)[i] \in Contents
  BY <1>1, ElementOfSeq
<1>3. f \in Seq(Contents) /\ Len(f) = Len(p) /\ \A i \in 1..Len(p) : f[i] = p[i]
  BY <1>1, <1>2, SubSeqProperties
<1>4. f = p
  BY <1>3, SeqEqual
<1>5. Len(p) + 1 - 1 = Len(p)
  BY <1>1
<1>. QED BY <1>1, <1>4, <1>5 DEF Hash, Front

LEMMA InitTrailSafe == Init => TrailSafety
<1>. SUFFICES ASSUME Init PROVE TrailSafety
  OBVIOUS
<1>1. log = << >> /\ log \in Seq(Rows) /\ DOMAIN log = {} /\ Len(log) = 0
  BY DEF Init
<1>2. request \in [Actors -> RequestStates] /\ \A a \in Actors : request[a].step = "idle"
  BY DEF Init, RequestStates, Idle
<1>3. TrailTypeOK
  <2>1. lastId \in 0..MaxRows
    BY TrailAssumption DEF Init
  <2>2. files = {} /\ documents = {} /\ backups = {} /\ vaultKey = FALSE /\ tampered = {}
    BY DEF Init
  <2>. QED BY <1>1, <1>2, <2>1, <2>2 DEF TrailTypeOK
<1>4. HashesOfOriginals /\ AppendedChain
  BY <1>1, <1>2 DEF Init, HashesOfOriginals, AppendedChain
<1>5. DocumentsHaveFiles /\ BackupsComplete /\ StepsOfStorage
  BY <1>2 DEF Init, DocumentsHaveFiles, BackupsComplete, StepsOfStorage
<1>. QED BY <1>1, <1>3, <1>4, <1>5 DEF TrailSafety

(* A step that leaves the log alone and takes no request to "create" or
   "seal". *)
LEMMA LogUntouched ==
  ASSUME TrailSafety, UNCHANGED <<log, lastId, tampered>>,
         request' \in [Actors -> RequestStates],
         \A a \in Actors : request'[a] = request[a]
                             \/ request'[a].step \notin {"create", "seal"}
  PROVE  /\ log' \in Seq(Rows)
         /\ HashesOfOriginals'
         /\ (tampered = {} => AppendedChain)'
<1>1. HashesOfOriginals'
  BY DEF TrailSafety, HashesOfOriginals
<1>2. ASSUME tampered = {}
      PROVE  AppendedChain'
  <2>1. AppendedChain
    BY <1>2 DEF TrailSafety
  <2>. QED BY <2>1 DEF AppendedChain, Prior
<1>. QED BY <1>1, <1>2 DEF TrailSafety

(* A step that leaves the files, documents and backups alone and takes no
   request to "record" or "zip". *)
LEMMA StorageUntouched ==
  ASSUME TrailSafety, UNCHANGED <<files, documents, backups>>,
         \A a \in Actors : request'[a] = request[a]
                             \/ request'[a].step \notin {"record", "zip"}
  PROVE  DocumentsHaveFiles' /\ BackupsComplete' /\ StepsOfStorage'
BY DEF TrailSafety, DocumentsHaveFiles, BackupsComplete, StepsOfStorage

(* A request that goes to another step. *)
LEMMA GotoState ==
  ASSUME TrailSafety, NEW r \in Actors, NEW state \in RequestStates, Goto(r, state)
  PROVE  /\ request' \in [Actors -> RequestStates]
         /\ request'[r] = state
         /\ \A a \in Actors : a # r => request'[a] = request[a]
BY DEF TrailSafety, TrailTypeOK, Goto

-------------------------------------------------------------------------------
(* log_event. *)

LEMMA ReadLastSafe ==
  ASSUME TrailSafety, NEW r \in Actors, ReadLast(r)
  PROVE  TrailSafety'
<1>. DEFINE new == [step |-> "create", previous |-> LastHash]
<1>1. Goto(r, new) /\ UNCHANGED <<log, lastId, files, documents, vaultKey, backups, tampered>>
  BY DEF ReadLast, storage
<1>2. LastHash \in Seq(Contents) /\ Prior(LastHash, Len(log) + 1)
  <2>1. CASE log = << >>
    BY <2>1 DEF LastHash, Prior
  <2>2. CASE log # << >>
    <3>1. log \in Seq(Rows) /\ Len(log) \in 1..Len(log)
      BY <2>2, EmptySeq DEF TrailSafety
    <3>2. Len(log) \in DOMAIN log /\ log[Len(log)].hash \in Seq(Contents)
      BY <3>1, LogRows
    <3>3. LastHash = log[Len(log)].hash /\ Len(log) < Len(log) + 1
      BY <2>2, LogRows DEF LastHash
    <3>. QED BY <3>2, <3>3 DEF Prior
  <2>. QED BY <2>1, <2>2
<1>3. new \in RequestStates /\ new.step = "create" /\ new.previous = LastHash
  BY <1>2 DEF RequestStates
<1>. HIDE DEF new
<1>4. /\ request' \in [Actors -> RequestStates] /\ request'[r] = new
      /\ \A a \in Actors : a # r => request'[a] = request[a]
  BY <1>1, <1>3, GotoState
<1>5. TrailTypeOK'
  BY <1>1, <1>4 DEF TrailSafety, TrailTypeOK
<1>6. HashesOfOriginals'
  BY <1>1, <1>3, <1>4 DEF TrailSafety, HashesOfOriginals
<1>7. (tampered = {} => AppendedChain)'
  <2>. SUFFICES ASSUME AppendedChain PROVE AppendedChain'
    BY <1>1 DEF TrailSafety
  <2>1. \A p, k : Prior(p, k)' = Prior(p, k)
    BY <1>1 DEF Prior
  <2>2. ASSUME NEW a \in Actors, request'[a].step = "create"
        PROVE  Prior(request[a].previous, Len(log) + 1)'
    BY <1>1, <1>2, <1>3, <1>4, <2>2 DEF AppendedChain, Prior
  <2>3. \A a \in Actors : request'[a].step = "seal" => request'[a] = request[a]
    BY <1>3, <1>4
  <2>4. ASSUME NEW a \in Actors, request'[a].step = "seal"
        PROVE  /\ request'[a].content.id \in DOMAIN log'
               /\ log'[request'[a].content.id].hash = NoHash
               /\ Prior(request[a].previous, request[a].content.id)'
    BY <1>1, <2>3, <2>4 DEF AppendedChain, Prior
  <2>5. ASSUME NEW a \in Actors, NEW b \in Actors, a # b,
               request'[a].step = "seal", request'[b].step = "seal"
        PROVE  request'[a].content.id # request'[b].content.id
    BY <2>3, <2>5 DEF AppendedChain
  <2>6. \A i \in DOMAIN log' :
          /\ log'[i].content = [id |-> i, edited |-> FALSE]
          /\ log'[i].hash # NoHash =>
               \E p \in Seq(Contents) : log'[i].hash = Hash(p, log'[i].content) /\ Prior(p, i)'
    BY <1>1, <2>1 DEF AppendedChain
  <2>7. lastId' = Len(log')
    BY <1>1 DEF AppendedChain
  <2>. QED BY <2>2, <2>4, <2>5, <2>6, <2>7 DEF AppendedChain
<1>8. DocumentsHaveFiles' /\ BackupsComplete' /\ StepsOfStorage'
  BY <1>1, <1>3, <1>4, StorageUntouched
<1>9. log' \in Seq(Rows)
  BY <1>1 DEF TrailSafety
<1>. QED BY <1>5, <1>6, <1>7, <1>8, <1>9 DEF TrailSafety

(* The new row is the last one, with the greatest id, and has no hash. *)
LEMMA CreateRowSafe ==
  ASSUME TrailSafety, NEW r \in Actors, CreateRow(r)
  PROVE  TrailSafety'
<1>. DEFINE content == [id |-> lastId + 1, edited |-> FALSE]
            row == [content |-> content, hash |-> NoHash]
            new == [step |-> "seal", previous |-> request[r].previous, content |-> content]
<1>1. /\ request[r].step = "create" /\ lastId < MaxRows
      /\ log' = Append(log, row) /\ lastId' = lastId + 1 /\ Goto(r, new)
      /\ UNCHANGED <<files, documents, vaultKey, backups, tampered>>
  BY DEF CreateRow, storage
<1>2. content \in Contents /\ content.id = lastId + 1 /\ ~ content.edited
  BY <1>1, TrailAssumption DEF TrailSafety, TrailTypeOK, Contents
<1>3. request[r].previous \in Seq(Contents)
  BY <1>1, ActorFields DEF TrailSafety
<1>. HIDE DEF content
<1>4. row \in Rows /\ row.content = content /\ row.hash = NoHash
  BY <1>2 DEF Rows
<1>5. new \in RequestStates /\ new.step = "seal" /\ new.previous = request[r].previous
      /\ new.content = content
  BY <1>2, <1>3 DEF RequestStates
<1>. HIDE DEF row, new
<1>6. /\ request' \in [Actors -> RequestStates] /\ request'[r] = new
      /\ \A a \in Actors : a # r => request'[a] = request[a]
  BY <1>1, <1>5, GotoState
<1>7. /\ log' \in Seq(Rows) /\ Len(log') = Len(log) + 1
      /\ DOMAIN log = 1..Len(log) /\ DOMAIN log' = 1..(Len(log) + 1) /\ Len(log) \in Nat
      /\ \A i \in DOMAIN log : log'[i] = log[i]
      /\ log'[Len(log) + 1] = row
  BY <1>1, <1>4, AppendProperties, LenProperties, LogRows DEF TrailSafety
<1>8. /\ DOMAIN log' = DOMAIN log \cup {Len(log) + 1}
      /\ \A i \in DOMAIN log : i < Len(log) + 1
  BY <1>7
<1>9. lastId \in Nat /\ lastId' \in 0..MaxRows
  BY <1>1, TrailAssumption DEF TrailSafety, TrailTypeOK
<1>10. \A i \in DOMAIN log : log[i].content.id <= lastId /\ log[i].content.id \in Nat
  BY TrailAssumption DEF TrailSafety, TrailTypeOK, Contents
<1>11. TrailTypeOK'
  <2>1. \A i, j \in DOMAIN log' : i < j => log'[i].content.id < log'[j].content.id
    <3>. SUFFICES ASSUME NEW i \in DOMAIN log', NEW j \in DOMAIN log', i < j
                  PROVE  log'[i].content.id < log'[j].content.id
      OBVIOUS
    <3>1. i \in DOMAIN log
      BY <1>7
    <3>2. CASE j \in DOMAIN log
      BY <1>7, <3>1, <3>2 DEF TrailSafety, TrailTypeOK
    <3>3. CASE j = Len(log) + 1
      BY <1>2, <1>4, <1>7, <1>9, <1>10, <3>1, <3>3
    <3>. QED BY <1>8, <3>2, <3>3
  <2>2. \A i \in DOMAIN log' : /\ log'[i].content \in Contents
                               /\ log'[i].hash \in Seq(Contents)
                               /\ log'[i].content.id <= lastId'
    <3>. SUFFICES ASSUME NEW i \in DOMAIN log'
                  PROVE  /\ log'[i].content \in Contents /\ log'[i].hash \in Seq(Contents)
                         /\ log'[i].content.id <= lastId'
      OBVIOUS
    <3>1. CASE i \in DOMAIN log
      BY <1>1, <1>7, <1>9, <1>10, <3>1 DEF TrailSafety, TrailTypeOK
    <3>2. CASE i = Len(log) + 1
      <4>1. log'[i].content = content /\ log'[i].hash = << >>
        BY <1>4, <1>7, <3>2
      <4>. QED BY <1>1, <1>2, <1>9, <4>1
    <3>. QED BY <1>8, <3>1, <3>2
  <2>. QED BY <1>1, <1>6, <1>9, <2>1, <2>2 DEF TrailSafety, TrailTypeOK
<1>12. HashesOfOriginals'
  <2>1. ASSUME NEW i \in DOMAIN log', log'[i].hash # NoHash
        PROVE  ~ log'[i].hash[Len(log'[i].hash)].edited
    <3>1. i \in DOMAIN log
      BY <1>4, <1>7, <1>8, <2>1
    <3>. QED BY <1>7, <2>1, <3>1 DEF TrailSafety, HashesOfOriginals
  <2>2. \A a \in Actors : request'[a].step = "seal" => ~ request'[a].content.edited
    BY <1>2, <1>5, <1>6 DEF TrailSafety, HashesOfOriginals
  <2>. QED BY <2>1, <2>2 DEF HashesOfOriginals
<1>13. (tampered = {} => AppendedChain)'
  <2>. SUFFICES ASSUME AppendedChain PROVE AppendedChain'
    BY <1>1 DEF TrailSafety
  <2>1. lastId = Len(log) /\ lastId' = Len(log')
    BY <1>1, <1>7 DEF AppendedChain
  <2>2. \A p, k : Prior(p, k) => Prior(p, k)'
    BY <1>7, <1>8 DEF Prior
  <2>3. ASSUME NEW i \in DOMAIN log'
        PROVE  /\ log'[i].content = [id |-> i, edited |-> FALSE]
               /\ log'[i].hash # NoHash =>
                    \E p \in Seq(Contents) :
                      log'[i].hash = Hash(p, log'[i].content) /\ Prior(p, i)'
    <3>1. CASE i \in DOMAIN log
      <4>1. log'[i] = log[i]
        BY <1>7, <3>1
      <4>2. /\ log[i].content = [id |-> i, edited |-> FALSE]
            /\ log[i].hash # NoHash =>
                 \E p \in Seq(Contents) : log[i].hash = Hash(p, log[i].content) /\ Prior(p, i)
        BY <3>1 DEF AppendedChain
      <4>. QED BY <2>2, <4>1, <4>2
    <3>2. CASE i = Len(log) + 1
      BY <1>4, <1>7, <2>1, <3>2 DEF content
    <3>. QED BY <1>8, <3>1, <3>2
  <2>4. ASSUME NEW a \in Actors, request'[a].step = "create"
        PROVE  Prior(request[a].previous, Len(log) + 1)'
    <3>1. request'[a] = request[a]
      BY <1>5, <1>6, <2>4
    <3>2. Prior(request[a].previous, Len(log) + 1)
      BY <2>4, <3>1 DEF AppendedChain
    <3>. QED BY <1>7, <1>8, <3>1, <3>2 DEF Prior
  <2>5. ASSUME NEW a \in Actors, request'[a].step = "seal"
        PROVE  /\ request'[a].content.id \in DOMAIN log'
               /\ log'[request'[a].content.id].hash = NoHash
               /\ Prior(request[a].previous, request[a].content.id)'
    <3>1. CASE a = r
      <4>1. request'[a].content.id = Len(log) + 1 /\ request'[a].previous = request[r].previous
        BY <1>2, <1>5, <1>6, <2>1, <3>1
      <4>2. Prior(request[r].previous, Len(log) + 1)
        BY <1>1 DEF AppendedChain
      <4>. QED BY <1>4, <1>7, <1>8, <4>1, <4>2 DEF Prior
    <3>2. CASE a # r
      <4>1. request'[a] = request[a] /\ request[a].step = "seal"
        BY <1>6, <2>5, <3>2
      <4>2. /\ request[a].content.id \in DOMAIN log
            /\ log[request[a].content.id].hash = NoHash
            /\ Prior(request[a].previous, request[a].content.id)
        BY <4>1 DEF AppendedChain
      <4>. QED BY <1>7, <1>8, <4>1, <4>2 DEF Prior
    <3>. QED BY <3>1, <3>2
  <2>6. ASSUME NEW a \in Actors, NEW b \in Actors, a # b,
               request'[a].step = "seal", request'[b].step = "seal"
        PROVE  request'[a].content.id # request'[b].content.id
    <3>1. \A c \in Actors : c # r /\ request'[c].step = "seal" =>
                              request'[c].content.id < Len(log) + 1
      BY <1>6, <1>8 DEF AppendedChain
    <3>2. request'[r].content.id = Len(log) + 1
      BY <1>2, <1>5, <1>6, <2>1
    <3>3. CASE a # r /\ b # r
      BY <1>6, <2>6, <3>3 DEF AppendedChain
    <3>. QED BY <1>7, <2>6, <3>1, <3>2, <3>3
  <2>. QED BY <2>1, <2>3, <2>4, <2>5, <2>6 DEF AppendedChain
<1>14. DocumentsHaveFiles' /\ BackupsComplete' /\ StepsOfStorage'
  BY <1>1, <1>5, <1>6, StorageUntouched
<1>. QED BY <1>7, <1>11, <1>12, <1>13, <1>14 DEF TrailSafety

(* The hash of a row is written once, by the request that made the row, and
   no hash that another row or append is built on changes. *)
LEMMA SealSafe ==
  ASSUME TrailSafety, NEW r \in Actors, Seal(r)
  PROVE  TrailSafety'
<1>. DEFINE content == request[r].content
            hash == Hash(request[r].previous, content)
<1>1. /\ request[r].step = "seal" /\ Goto(r, Idle)
      /\ log' = [i \in DOMAIN log |-> IF log[i].content.id = content.id
                                      THEN [log[i] EXCEPT !.hash = hash] ELSE log[i]]
      /\ UNCHANGED <<lastId, files, documents, vaultKey, backups, tampered>>
  BY DEF Seal, Answer, storage
<1>2. /\ request[r].previous \in Seq(Contents) /\ content \in Contents
      /\ hash \in Seq(Contents) /\ hash # NoHash /\ hash[Len(hash)] = content
      /\ ~ content.edited
  BY <1>1, ActorFields, HashProperties DEF TrailSafety, HashesOfOriginals
<1>3. /\ request' \in [Actors -> RequestStates] /\ request'[r].step = "idle"
      /\ \A a \in Actors : a # r => request'[a] = request[a]
  BY <1>1, GotoState DEF RequestStates, Idle
<1>. HIDE DEF content, hash
<1>4. \A i \in DOMAIN log : log[i] \in Rows /\ log[i].hash \in Seq(Contents)
  BY LogRows
<1>5. /\ DOMAIN log' = DOMAIN log
      /\ \A i \in DOMAIN log : /\ log'[i] \in Rows
                               /\ log'[i].content = log[i].content
                               /\ log'[i].hash = IF log[i].content.id = content.id
                                                 THEN hash ELSE log[i].hash
  BY <1>1, <1>2, <1>4 DEF Rows
<1>6. log' \in Seq(Rows) /\ Len(log') = Len(log)
  <2>1. DOMAIN log = 1..Len(log) /\ Len(log) \in Nat
    BY LogRows
  <2>2. log' \in [1..Len(log) -> Rows]
    BY <1>1, <1>5, <2>1
  <2>3. log' \in Seq(Rows)
    BY <2>1, <2>2, SeqDef
  <2>. QED BY <1>5, <2>1, <2>3, LenProperties
<1>7. TrailTypeOK'
  <2>1. \A i, j \in DOMAIN log' : i < j => log'[i].content.id < log'[j].content.id
    BY <1>5 DEF TrailSafety, TrailTypeOK
  <2>2. \A i \in DOMAIN log' : /\ log'[i].content \in Contents
                               /\ log'[i].hash \in Seq(Contents)
                               /\ log'[i].content.id <= lastId'
    BY <1>1, <1>2, <1>5 DEF TrailSafety, TrailTypeOK
  <2>. QED BY <1>1, <1>3, <2>1, <2>2 DEF TrailSafety, TrailTypeOK
<1>8. HashesOfOriginals'
  <2>1. \A i \in DOMAIN log' : log'[i].hash # NoHash => ~ log'[i].hash[Len(log'[i].hash)].edited
    BY <1>2, <1>5 DEF TrailSafety, HashesOfOriginals
  <2>2. \A a \in Actors : request'[a].step = "seal" => ~ request'[a].content.edited
    BY <1>3 DEF TrailSafety, HashesOfOriginals
  <2>. QED BY <2>1, <2>2 DEF HashesOfOriginals
<1>9. (tampered = {} => AppendedChain)'
  <2>. SUFFICES ASSUME AppendedChain PROVE AppendedChain'
    BY <1>1 DEF TrailSafety
  <2>. DEFINE k == content.id
  <2>1. /\ k \in DOMAIN log /\ log[k].hash = NoHash /\ Prior(request[r].previous, k)
        /\ lastId = Len(log)
        /\ \A i \in DOMAIN log : log[i].content = [id |-> i, edited |-> FALSE]
    BY <1>1 DEF AppendedChain, content
  <2>2. content = log[k].content
    BY <1>2, <2>1 DEF Contents
  <2>3. \A i \in DOMAIN log : log'[i].hash = IF i = k THEN hash ELSE log[i].hash
    <3>1. ASSUME NEW i \in DOMAIN log
          PROVE  log[i].content.id = i
      <4>1. log[i].content = [id |-> i, edited |-> FALSE]
        BY <2>1
      <4>. QED BY <4>1
    <3>. QED BY <1>5, <3>1
  <2>. HIDE DEF k
  <2>4. \A p, i : Prior(p, i) => p = NoHash \/ \E j \in DOMAIN log' : j < i /\ log'[j].hash = p
    BY <1>5, <2>1, <2>3 DEF Prior
  <2>5. ASSUME NEW i \in DOMAIN log'
        PROVE  /\ log'[i].content = [id |-> i, edited |-> FALSE]
               /\ log'[i].hash # NoHash =>
                    \E p \in Seq(Contents) :
                      log'[i].hash = Hash(p, log'[i].content) /\ Prior(p, i)'
    <3>1. log'[i].content = log[i].content /\ i \in DOMAIN log
      BY <1>5
    <3>2. CASE i = k
      <4>1. log'[i].hash = Hash(request[r].previous, log'[i].content)
        BY <2>2, <2>3, <3>1, <3>2 DEF hash
      <4>2. request[r].previous = NoHash
              \/ \E j \in DOMAIN log' : j < i /\ log'[j].hash = request[r].previous
        BY <2>1, <2>4, <3>2
      <4>. QED BY <1>2, <2>1, <3>1, <4>1, <4>2 DEF Prior
    <3>3. CASE i # k /\ log'[i].hash # NoHash
      <4>1. PICK p \in Seq(Contents) : log[i].hash = Hash(p, log[i].content) /\ Prior(p, i)
        BY <2>3, <3>1, <3>3 DEF AppendedChain
      <4>2. log'[i].hash = Hash(p, log'[i].content)
        BY <2>3, <3>1, <3>3, <4>1
      <4>3. p = NoHash \/ \E j \in DOMAIN log' : j < i /\ log'[j].hash = p
        BY <2>4, <4>1
      <4>. QED BY <2>1, <3>1, <4>2, <4>3 DEF Prior
    <3>4. CASE i # k /\ log'[i].hash = NoHash
      BY <2>1, <3>1, <3>4
    <3>. QED BY <3>2, <3>3, <3>4
  <2>6. ASSUME NEW a \in Actors, request'[a].step = "create"
        PROVE  Prior(request[a].previous, Len(log) + 1)'
    <3>1. request'[a] = request[a] /\ Prior(request[a].previous, Len(log) + 1)
      BY <1>3, <2>6 DEF AppendedChain
    <3>2. request[a].previous = NoHash
            \/ \E j \in DOMAIN log' : j < Len(log) + 1 /\ log'[j].hash = request[a].previous
      BY <2>4, <3>1
    <3>. QED BY <1>6, <3>1, <3>2 DEF Prior
  <2>7. ASSUME NEW a \in Actors, request'[a].step = "seal"
        PROVE  /\ request'[a].content.id \in DOMAIN log'
               /\ log'[request'[a].content.id].hash = NoHash
               /\ Prior(request[a].previous, request[a].content.id)'
    <3>1. request'[a] = request[a] /\ a # r /\ request[a].step = "seal"
      BY <1>3, <2>7
    <3>2. /\ request[a].content.id \in DOMAIN log
          /\ log[request[a].content.id].hash = NoHash
          /\ Prior(request[a].previous, request[a].content.id)
          /\ request[a].content.id # k
      BY <1>1, <3>1 DEF AppendedChain, content, k
    <3>3. request[a].previous = NoHash
            \/ \E j \in DOMAIN log' : j < request[a].content.id
                                        /\ log'[j].hash = request[a].previous
      BY <2>4, <3>2
    <3>. QED BY <1>5, <2>3, <3>1, <3>2, <3>3 DEF Prior
  <2>8. \A a, b \in Actors :
          request'[a].step = "seal" /\ request'[b].step = "seal" /\ a # b =>
            request'[a].content.id # request'[b].content.id
    BY <1>3 DEF AppendedChain
  <2>9. lastId' = Len(log')
    BY <1>1, <1>6, <2>1
  <2>. QED BY <2>5, <2>6, <2>7, <2>8, <2>9 DEF AppendedChain
<1>10. DocumentsHaveFiles' /\ BackupsComplete' /\ StepsOfStorage'
  BY <1>1, <1>3, StorageUntouched
<1>. QED BY <1>6, <1>7, <1>8, <1>9, <1>10 DEF TrailSafety

-------------------------------------------------------------------------------
(* Requests. *)

(* A step that appends nothing. *)
LEMMA RequestStepSafe ==
  ASSUME TrailSafety, UNCHANGED <<log, lastId, tampered>>,
         request' \in [Actors -> RequestStates],
         \A a \in Actors : request'[a] = request[a]
                             \/ request'[a].step \notin {"create", "seal"},
         files' \subseteq FileIds, documents' \subseteq FileIds, vaultKey' \in BOOLEAN,
         backups' \subseteq [began: SUBSET FileIds, holds: SUBSET FileIds],
         DocumentsHaveFiles' /\ BackupsComplete' /\ StepsOfStorage'
  PROVE  TrailSafety'
<1>1. TrailTypeOK'
  BY DEF TrailSafety, TrailTypeOK
<1>. QED BY <1>1, LogUntouched DEF TrailSafety

(* A step that stores nothing either. *)
LEMMA QuietStepSafe ==
  ASSUME TrailSafety, UNCHANGED <<log, lastId, tampered, files, documents, backups>>,
         vaultKey' \in BOOLEAN, request' \in [Actors -> RequestStates],
         \A a \in Actors : request'[a] = request[a] \/ request'[a].step \in {"idle", "append"}
  PROVE  TrailSafety'
<1>1. /\ files' \subseteq FileIds /\ documents' \subseteq FileIds
      /\ backups' \subseteq [began: SUBSET FileIds, holds: SUBSET FileIds]
  BY DEF TrailSafety, TrailTypeOK
<1>2. DocumentsHaveFiles' /\ BackupsComplete' /\ StepsOfStorage'
  BY StorageUntouched
<1>. QED BY <1>1, <1>2, RequestStepSafe

LEMMA EventRequestSafe ==
  ASSUME TrailSafety, NEW r \in Requests,
         LogIn(r) \/ Lock(r) \/ Denied(r) \/ Download(r)
  PROVE  TrailSafety'
<1>. DEFINE new == [step |-> "append"]
<1>1. r \in Actors /\ new \in RequestStates /\ new.step = "append"
  BY DEF Actors, RequestStates
<1>2. /\ Goto(r, new) /\ vaultKey' \in BOOLEAN
      /\ UNCHANGED <<log, lastId, tampered, files, documents, backups>>
  BY DEF TrailSafety, TrailTypeOK, LogIn, Lock, Denied, Download, storage
<1>. HIDE DEF new
<1>3. /\ request' \in [Actors -> RequestStates] /\ request'[r] = new
      /\ \A a \in Actors : a # r => request'[a] = request[a]
  BY <1>1, <1>2, GotoState
<1>. QED BY <1>1, <1>2, <1>3, QuietStepSafe

(* The file of a document is there before its row is made... *)
LEMMA StoreFileSafe ==
  ASSUME TrailSafety, NEW r \in Requests, StoreFile(r)
  PROVE  TrailSafety'
<1>1. PICK f \in FileIds :
        /\ files' = files \cup {f} /\ Goto(r, [step |-> "record", file |-> f])
        /\ UNCHANGED <<log, lastId, documents, vaultKey, backups, tampered>>
  BY DEF StoreFile
<1>. DEFINE new == [step |-> "record", file |-> f]
<1>2. r \in Actors /\ new \in RequestStates /\ new.step = "record" /\ new.file = f
  BY DEF Actors, RequestStates
<1>3. /\ request' \in [Actors -> RequestStates] /\ request'[r] = new
      /\ \A a \in Actors : a # r => request'[a] = request[a]
  BY <1>1, <1>2, GotoState
<1>. HIDE DEF new
<1>4. DocumentsHaveFiles' /\ BackupsComplete' /\ StepsOfStorage'
  BY <1>1, <1>2, <1>3
     DEF TrailSafety, DocumentsHaveFiles, BackupsComplete, StepsOfStorage
<1>5. /\ files' \subseteq FileIds /\ documents' \subseteq FileIds /\ vaultKey' \in BOOLEAN
      /\ backups' \subseteq [began: SUBSET FileIds, holds: SUBSET FileIds]
  BY <1>1 DEF TrailSafety, TrailTypeOK
<1>. QED BY <1>1, <1>2, <1>3, <1>4, <1>5, RequestStepSafe

(* ...and still there when it is. *)
LEMMA RecordDocumentSafe ==
  ASSUME TrailSafety, NEW r \in Requests, RecordDocument(r)
  PROVE  TrailSafety'
<1>. DEFINE new == [step |-> "append"]
<1>1. r \in Actors /\ new \in RequestStates /\ new.step = "append"
  BY DEF Actors, RequestStates
<1>2. /\ request[r].step = "record" /\ documents' = documents \cup {request[r].file}
      /\ Goto(r, new) /\ UNCHANGED <<log, lastId, files, vaultKey, backups, tampered>>
  BY DEF RecordDocument
<1>. HIDE DEF new
<1>3. /\ request' \in [Actors -> RequestStates] /\ request'[r] = new
      /\ \A a \in Actors : a # r => request'[a] = request[a]
  BY <1>1, <1>2, GotoState
<1>4. request[r].file \in files /\ request[r].file \in FileIds
  BY <1>1, <1>2, ActorFields DEF TrailSafety, StepsOfStorage
<1>5. DocumentsHaveFiles' /\ BackupsComplete' /\ StepsOfStorage'
  BY <1>1, <1>2, <1>3, <1>4
     DEF TrailSafety, DocumentsHaveFiles, BackupsComplete, StepsOfStorage
<1>6. /\ files' \subseteq FileIds /\ documents' \subseteq FileIds /\ vaultKey' \in BOOLEAN
      /\ backups' \subseteq [began: SUBSET FileIds, holds: SUBSET FileIds]
  BY <1>2, <1>4 DEF TrailSafety, TrailTypeOK
<1>. QED BY <1>1, <1>2, <1>3, <1>5, <1>6, RequestStepSafe

LEMMA StartBackupSafe ==
  ASSUME TrailSafety, NEW c \in Commands, StartBackup(c)
  PROVE  TrailSafety'
<1>. DEFINE new == [step |-> "zip", began |-> documents]
<1>1. c \in Actors /\ new \in RequestStates /\ new.step = "zip" /\ new.began = documents
  BY DEF Actors, RequestStates, TrailSafety, TrailTypeOK
<1>2. Goto(c, new) /\ UNCHANGED <<log, lastId, files, documents, vaultKey, backups, tampered>>
  BY DEF StartBackup, storage
<1>. HIDE DEF new
<1>3. /\ request' \in [Actors -> RequestStates] /\ request'[c] = new
      /\ \A a \in Actors : a # c => request'[a] = request[a]
  BY <1>1, <1>2, GotoState
<1>4. DocumentsHaveFiles' /\ BackupsComplete' /\ StepsOfStorage'
  BY <1>1, <1>2, <1>3
     DEF TrailSafety, DocumentsHaveFiles, BackupsComplete, StepsOfStorage
<1>5. /\ files' \subseteq FileIds /\ documents' \subseteq FileIds /\ vaultKey' \in BOOLEAN
      /\ backups' \subseteq [began: SUBSET FileIds, holds: SUBSET FileIds]
  BY <1>2 DEF TrailSafety, TrailTypeOK
<1>. QED BY <1>1, <1>2, <1>3, <1>4, <1>5, RequestStepSafe

(* What a backup began with is still in the table, and every document of the
   table has its file: the archive holds them all. *)
LEMMA ZipDocumentsSafe ==
  ASSUME TrailSafety, NEW c \in Commands, ZipDocuments(c)
  PROVE  TrailSafety'
<1>. DEFINE new == [step |-> "append"]
            backup == [began |-> request[c].began, holds |-> documents \cap files]
<1>1. c \in Actors /\ new \in RequestStates /\ new.step = "append"
  BY DEF Actors, RequestStates
<1>2. /\ request[c].step = "zip" /\ backups' = backups \cup {backup}
      /\ Goto(c, new) /\ UNCHANGED <<log, lastId, files, documents, vaultKey, tampered>>
  BY DEF ZipDocuments, storage
<1>3. /\ backup \in [began: SUBSET FileIds, holds: SUBSET FileIds]
      /\ backup.began \subseteq backup.holds
  BY <1>1, <1>2, ActorFields
     DEF TrailSafety, TrailTypeOK, StepsOfStorage, DocumentsHaveFiles
<1>. HIDE DEF new, backup
<1>4. /\ request' \in [Actors -> RequestStates] /\ request'[c] = new
      /\ \A a \in Actors : a # c => request'[a] = request[a]
  BY <1>1, <1>2, GotoState
<1>5. DocumentsHaveFiles' /\ BackupsComplete' /\ StepsOfStorage'
  BY <1>1, <1>2, <1>3, <1>4
     DEF TrailSafety, DocumentsHaveFiles, BackupsComplete, StepsOfStorage
<1>6. /\ files' \subseteq FileIds /\ documents' \subseteq FileIds /\ vaultKey' \in BOOLEAN
      /\ backups' \subseteq [began: SUBSET FileIds, holds: SUBSET FileIds]
  BY <1>2, <1>3 DEF TrailSafety, TrailTypeOK
<1>. QED BY <1>1, <1>2, <1>4, <1>5, <1>6, RequestStepSafe

-------------------------------------------------------------------------------
(* The surroundings. *)

LEMMA StopServerSafe == TrailSafety /\ StopServer => TrailSafety'
<1>. SUFFICES ASSUME TrailSafety, StopServer PROVE TrailSafety'
  OBVIOUS
<1>1. /\ UNCHANGED <<log, lastId, files, documents, backups, tampered>> /\ vaultKey' = FALSE
      /\ request' = [a \in Actors |-> IF a \in Requests THEN Idle ELSE request[a]]
  BY DEF StopServer, storage
<1>2. Idle \in RequestStates /\ Idle.step = "idle"
  BY DEF RequestStates, Idle
<1>3. request' \in [Actors -> RequestStates]
  BY <1>1, <1>2 DEF TrailSafety, TrailTypeOK
<1>4. \A a \in Actors : request'[a] = request[a] \/ request'[a] = Idle
  BY <1>1
<1>. QED BY <1>1, <1>2, <1>3, <1>4, QuietStepSafe

LEMMA StopCommandSafe ==
  ASSUME TrailSafety, NEW c \in Commands, StopCommand(c)
  PROVE  TrailSafety'
<1>1. c \in Actors /\ Idle \in RequestStates /\ Idle.step = "idle"
  BY DEF Actors, RequestStates, Idle
<1>2. /\ Goto(c, Idle) /\ vaultKey' \in BOOLEAN
      /\ UNCHANGED <<log, lastId, tampered, files, documents, backups>>
  BY DEF TrailSafety, TrailTypeOK, StopCommand, Answer, storage
<1>3. /\ request' \in [Actors -> RequestStates] /\ request'[c] = Idle
      /\ \A a \in Actors : a # c => request'[a] = request[a]
  BY <1>1, <1>2, GotoState
<1>. QED BY <1>1, <1>2, <1>3, QuietStepSafe

(* A tampered log is still in the order of its ids, and a hash that was
   computed from a row says what the row was. *)
LEMMA EditRowSafe ==
  ASSUME TrailSafety, NEW i \in DOMAIN log, EditRow(i)
  PROVE  TrailSafety'
<1>. DEFINE row == [log[i] EXCEPT !.content.edited = TRUE]
<1>1. /\ log' = [log EXCEPT ![i] = row] /\ tampered' = tampered \cup {log[i].content.id}
      /\ UNCHANGED <<lastId, files, documents, vaultKey, request, backups>>
  BY DEF EditRow, storage
<1>2. log \in Seq(Rows) /\ i \in 1..Len(log) /\ log[i] \in Rows /\ DOMAIN log = 1..Len(log)
  BY LogRows DEF TrailSafety
<1>3. row \in Rows /\ row.hash = log[i].hash /\ row.content.id = log[i].content.id
  BY <1>2 DEF Rows, Contents
<1>. HIDE DEF row
<1>4. /\ log' \in Seq(Rows) /\ DOMAIN log' = DOMAIN log
      /\ \A j \in DOMAIN log : /\ log'[j].hash = log[j].hash
                               /\ log'[j].content.id = log[j].content.id
  BY <1>1, <1>2, <1>3, ExceptSeq, LenProperties
<1>5. \A j \in DOMAIN log' : log'[j].content \in Contents /\ log'[j].hash \in Seq(Contents)
  <2>1. \A j \in DOMAIN log' : log'[j] \in Rows
    BY <1>4, LenProperties, ElementOfSeq
  <2>. QED BY <2>1 DEF Rows
<1>6. TrailTypeOK'
  <2>1. \A j, k \in DOMAIN log' : j < k => log'[j].content.id < log'[k].content.id
    BY <1>4 DEF TrailSafety, TrailTypeOK
  <2>2. \A j \in DOMAIN log' : log'[j].content.id <= lastId'
    BY <1>1, <1>4 DEF TrailSafety, TrailTypeOK
  <2>3. tampered' \subseteq 1..MaxRows
    <3>1. log[i].content.id \in 1..MaxRows
      BY LogRows DEF Contents
    <3>. QED BY <1>1, <3>1 DEF TrailSafety, TrailTypeOK
  <2>. QED BY <1>1, <1>5, <2>1, <2>2, <2>3 DEF TrailSafety, TrailTypeOK
<1>7. HashesOfOriginals' /\ tampered' # {}
  BY <1>1, <1>4 DEF TrailSafety, HashesOfOriginals
<1>8. DocumentsHaveFiles' /\ BackupsComplete' /\ StepsOfStorage'
  BY <1>1, StorageUntouched
<1>. QED BY <1>4, <1>6, <1>7, <1>8 DEF TrailSafety

(* The rows that are left when one is removed. *)
Without(s, i) == SubSeq(s, 1, i - 1) \o SubSeq(s, i + 1, Len(s))

LEMMA RowsLeft ==
  ASSUME NEW s \in Seq(Rows), NEW i \in 1..Len(s)
  PROVE  /\ Without(s, i) \in Seq(Rows)
         /\ DOMAIN Without(s, i) = 1..(Len(s) - 1)
         /\ \A j \in 1..(Len(s) - 1) : Without(s, i)[j] = s[IF j < i THEN j ELSE j + 1]
<1>. DEFINE t == Without(s, i)
            a == SubSeq(s, 1, i - 1)
            b == SubSeq(s, i + 1, Len(s))
<1>1. Len(s) \in Nat /\ i \in Int /\ 1 <= i /\ i <= Len(s)
  BY LenProperties
<1>2. \A j \in 1..Len(s) : s[j] \in Rows
  BY ElementOfSeq
<1>3. /\ a \in Seq(Rows) /\ Len(a) = i - 1
      /\ \A j \in 1..(i - 1) : a[j] = s[j]
  <2>1. \A j \in 1..(i - 1) : s[j] \in Rows
    BY <1>1, <1>2
  <2>2. /\ a \in Seq(Rows) /\ Len(a) = IF 1 <= i - 1 THEN (i - 1) - 1 + 1 ELSE 0
        /\ \A j \in 1..((i - 1) - 1 + 1) : a[j] = s[1 + j - 1]
    BY <1>1, <2>1, SubSeqProperties
  <2>. QED BY <1>1, <2>2
<1>4. /\ b \in Seq(Rows) /\ Len(b) = Len(s) - i
      /\ \A j \in 1..(Len(s) - i) : b[j] = s[i + j]
  <2>1. \A j \in (i + 1)..Len(s) : s[j] \in Rows
    BY <1>1, <1>2
  <2>2. /\ b \in Seq(Rows) /\ Len(b) = IF i + 1 <= Len(s) THEN Len(s) - (i + 1) + 1 ELSE 0
        /\ \A j \in 1..(Len(s) - (i + 1) + 1) : b[j] = s[(i + 1) + j - 1]
    BY <1>1, <2>1, SubSeqProperties
  <2>. QED BY <1>1, <2>2
<1>0. t = a \o b
  BY DEF Without
<1>. HIDE DEF a, b, t
<1>5. /\ t \in Seq(Rows) /\ Len(t) = Len(s) - 1
      /\ \A j \in 1..(Len(s) - 1) : t[j] = IF j <= i - 1 THEN a[j] ELSE b[j - (i - 1)]
  <2>2. Len(a) + Len(b) = Len(s) - 1
    BY <1>1, <1>3, <1>4
  <2>3. /\ t \in Seq(Rows) /\ Len(t) = Len(a) + Len(b)
        /\ \A j \in 1..(Len(a) + Len(b)) : t[j] = IF j <= Len(a) THEN a[j] ELSE b[j - Len(a)]
    <3>1. /\ a \o b \in Seq(Rows) /\ Len(a \o b) = Len(a) + Len(b)
          /\ \A j \in 1..(Len(a) + Len(b)) :
               (a \o b)[j] = IF j <= Len(a) THEN a[j] ELSE b[j - Len(a)]
      BY <1>3, <1>4, ConcatProperties, Zenon
    <3>. QED BY <1>0, <3>1, Zenon
  <2>. QED BY <1>3, <2>2, <2>3
<1>6. DOMAIN t = 1..(Len(s) - 1)
  BY <1>5, LenProperties
<1>7. ASSUME NEW j \in 1..(Len(s) - 1)
      PROVE  t[j] = s[IF j < i THEN j ELSE j + 1]
  <2>1. CASE j < i
    BY <1>1, <1>3, <1>5, <2>1
  <2>2. CASE ~ (j < i)
    <3>1. j - (i - 1) \in 1..(Len(s) - i) /\ i + (j - (i - 1)) = j + 1
      BY <1>1, <2>2
    <3>2. t[j] = b[j - (i - 1)]
      <4>1. ~ (j <= i - 1)
        BY <1>1, <2>2
      <4>. QED BY <1>5, <4>1
    <3>. QED BY <1>4, <2>2, <3>1, <3>2
  <2>. QED BY <2>1, <2>2
<1>. QED BY <1>5, <1>6, <1>7 DEF t

LEMMA RemoveRowSafe ==
  ASSUME TrailSafety, NEW i \in DOMAIN log, RemoveRow(i)
  PROVE  TrailSafety'
<1>. DEFINE old(j) == IF j < i THEN j ELSE j + 1
<1>0. log' = Without(log, i)
  BY DEF RemoveRow, Without
<1>1. /\ tampered' = tampered \cup {log[i].content.id}
      /\ UNCHANGED <<lastId, files, documents, vaultKey, request, backups>>
  BY DEF RemoveRow, storage
<1>2. log \in Seq(Rows) /\ i \in 1..Len(log) /\ DOMAIN log = 1..Len(log) /\ Len(log) \in Nat
  BY LogRows DEF TrailSafety
<1>3. /\ log' \in Seq(Rows) /\ DOMAIN log' = 1..(Len(log) - 1)
      /\ \A j \in DOMAIN log' : log'[j] = log[old(j)]
  BY <1>0, <1>2, RowsLeft
<1>4. /\ \A j \in DOMAIN log' : old(j) \in DOMAIN log
      /\ \A j, k \in DOMAIN log' : j < k => old(j) < old(k)
  BY <1>2, <1>3
<1>. HIDE DEF old
<1>5. TrailTypeOK'
  <2>1. \A j, k \in DOMAIN log' : j < k => log'[j].content.id < log'[k].content.id
    BY <1>3, <1>4 DEF TrailSafety, TrailTypeOK
  <2>2. \A j \in DOMAIN log' : /\ log'[j].content \in Contents
                               /\ log'[j].hash \in Seq(Contents)
                               /\ log'[j].content.id <= lastId'
    BY <1>1, <1>3, <1>4 DEF TrailSafety, TrailTypeOK
  <2>3. tampered' \subseteq 1..MaxRows
    <3>1. log[i].content.id \in 1..MaxRows
      BY LogRows DEF Contents
    <3>. QED BY <1>1, <3>1 DEF TrailSafety, TrailTypeOK
  <2>. QED BY <1>1, <2>1, <2>2, <2>3 DEF TrailSafety, TrailTypeOK
<1>6. HashesOfOriginals' /\ tampered' # {}
  BY <1>1, <1>3, <1>4 DEF TrailSafety, HashesOfOriginals
<1>7. DocumentsHaveFiles' /\ BackupsComplete' /\ StepsOfStorage'
  BY <1>1, StorageUntouched
<1>. QED BY <1>3, <1>5, <1>6, <1>7 DEF TrailSafety

LEMMA NextTrailSafe == TrailSafety /\ [Next]_trailVars => TrailSafety'
<1>. SUFFICES ASSUME TrailSafety, [Next]_trailVars PROVE TrailSafety'
  OBVIOUS
<1>1. CASE \E a \in Actors : ReadLast(a) \/ CreateRow(a) \/ Seal(a)
  BY <1>1, ReadLastSafe, CreateRowSafe, SealSafe
<1>2. CASE \E r \in Requests : LogIn(r) \/ Lock(r) \/ Denied(r) \/ Download(r)
  BY <1>2, EventRequestSafe
<1>3. CASE \E r \in Requests : StoreFile(r) \/ RecordDocument(r)
  BY <1>3, StoreFileSafe, RecordDocumentSafe
<1>4. CASE \E c \in Commands : StartBackup(c) \/ ZipDocuments(c) \/ StopCommand(c)
  BY <1>4, StartBackupSafe, ZipDocumentsSafe, StopCommandSafe
<1>5. CASE StopServer
  BY <1>5, StopServerSafe
<1>6. CASE \E i \in DOMAIN log : EditRow(i) \/ RemoveRow(i)
  BY <1>6, EditRowSafe, RemoveRowSafe
<1>7. CASE UNCHANGED trailVars
  <2>1. UNCHANGED <<log, lastId, tampered, files, documents, backups, vaultKey, request>>
    BY <1>7 DEF trailVars, storage
  <2>2. vaultKey' \in BOOLEAN /\ request' \in [Actors -> RequestStates]
    BY <2>1 DEF TrailSafety, TrailTypeOK
  <2>. QED BY <2>1, <2>2, QuietStepSafe
<1>. QED BY <1>1, <1>2, <1>3, <1>4, <1>5, <1>6, <1>7 DEF Next

THEOREM TrailAlwaysSafe == Spec => []TrailSafety
<1>1. Init => TrailSafety
  BY InitTrailSafe
<1>2. TrailSafety /\ [Next]_trailVars => TrailSafety'
  BY NextTrailSafe
<1>. QED BY <1>1, <1>2, PTL DEF Spec

-------------------------------------------------------------------------------
(* What follows from the invariant. *)

(* If every append was built on the row before it, the chain verifies; the
   first row that was not is built on one that another row extends too. *)
LEMMA OnlyForksBreak ==
  ASSUME TrailSafety, tampered = {}, Unsealed = {}, ~ Verifies
  PROVE  Forked
<1>. DEFINE Previous(i) == IF i = 1 THEN NoHash ELSE log[i - 1].hash
            Broken == {i \in DOMAIN log : log[i].hash # Hash(Previous(i), log[i].content)}
<1>1. Len(log) \in Nat /\ DOMAIN log = 1..Len(log)
      /\ \A i \in DOMAIN log : log[i].content \in Contents /\ log[i].hash \in Seq(Contents)
  BY LogRows
<1>2. AppendedChain /\ \A i \in DOMAIN log : log[i].hash # NoHash
  BY DEF TrailSafety, Unsealed
<1>3. Broken # {} /\ Broken \subseteq Nat
  BY <1>1 DEF Verifies
<1>4. PICK i \in Broken : \A j \in Broken : i <= j
  <2>1. PICK i \in Broken : \A j \in Broken : ~ (<<j, i>> \in OpToRel(<, Nat))
    BY <1>3, NatLessThanWellFounded, WFMin
  <2>2. ASSUME NEW j \in Broken
        PROVE  i <= j
    <3>1. i \in Nat /\ j \in Nat /\ ~ (j < i)
      BY <1>3, <2>1 DEF OpToRel
    <3>. QED BY <3>1
  <2>. QED BY <2>2
<1>5. i \in DOMAIN log /\ log[i].hash # Hash(Previous(i), log[i].content)
  OBVIOUS
<1>6. \A j \in DOMAIN log : j < i => log[j].hash = Hash(Previous(j), log[j].content)
  BY <1>1, <1>4
<1>. HIDE DEF Broken
<1>7. PICK p \in Seq(Contents) : log[i].hash = Hash(p, log[i].content) /\ Prior(p, i)
  BY <1>2, <1>5 DEF AppendedChain
<1>8. Front(log[i].hash) = p /\ p # Previous(i)
  <2>1. log[i].content \in Contents
    BY <1>1, <1>5
  <2>2. Front(Hash(p, log[i].content)) = p
    BY <2>1, HashProperties
  <2>3. p # Previous(i)
    BY <1>5, <1>7
  <2>. QED BY <1>7, <2>2, <2>3
<1>9. PICK k \in DOMAIN log : k < i /\ p = Previous(k)
  <2>1. CASE p = NoHash
    <3>1. i # 1
      BY <1>8, <2>1
    <3>2. 1 \in DOMAIN log /\ 1 < i
      BY <1>1, <1>5, <3>1
    <3>. QED BY <2>1, <3>2
  <2>2. CASE p # NoHash
    <3>1. PICK j \in DOMAIN log : j < i /\ log[j].hash = p
      BY <1>7, <2>2 DEF Prior
    <3>2. j # i - 1
      BY <1>1, <1>5, <1>8, <3>1
    <3>3. j + 1 \in DOMAIN log /\ j + 1 < i /\ j + 1 # 1 /\ (j + 1) - 1 = j
      BY <1>1, <1>5, <3>1, <3>2
    <3>. QED BY <3>1, <3>3
  <2>. QED BY <2>1, <2>2
<1>10. Front(log[k].hash) = p
  <2>1. log[k].content \in Contents
    BY <1>1
  <2>2. Front(Hash(p, log[k].content)) = p
    BY <2>1, HashProperties
  <2>3. log[k].hash = Hash(p, log[k].content)
    BY <1>6, <1>9
  <2>. QED BY <2>2, <2>3
<1>11. i \in DOMAIN log \ Unsealed /\ k \in DOMAIN log \ Unsealed /\ i # k
  BY <1>1, <1>5, <1>9
<1>. QED BY <1>8, <1>10, <1>11 DEF Forked

(* The rows, the files, the requests and the backups keep their types, and
   the rows the order of their ids. *)
THEOREM TrailTyped == Spec => []TrailTypeOK
<1>1. TrailSafety => TrailTypeOK
  BY DEF TrailSafety
<1>. QED BY <1>1, TrailAlwaysSafe, PTL

(* A broken chain that nobody has tampered with and that has no row left
   unsealed comes from two appends that read the same last row. *)
THEOREM ChainBreaksForAReason == Spec => []BrokenForAReason
<1>1. TrailSafety => BrokenForAReason
  BY OnlyForksBreak DEF BrokenForAReason
<1>. QED BY <1>1, TrailAlwaysSafe, PTL

(* verify_chain denounces an edited row for as long as the row is there. *)
THEOREM EditsAreFoundOut == Spec => []EditFoundOut
<1>1. TrailSafety => EditFoundOut
  <2>. SUFFICES ASSUME TrailSafety, NEW i \in DOMAIN log, log[i].content.edited, Verifies
                PROVE  FALSE
    BY DEF EditFoundOut
  <2>. DEFINE previous == IF i = 1 THEN NoHash ELSE log[i - 1].hash
  <2>1. /\ log[i].content \in Contents /\ previous \in Seq(Contents)
        /\ log[i].hash = Hash(previous, log[i].content)
    BY LogRows DEF Verifies
  <2>. HIDE DEF previous
  <2>2. log[i].hash # NoHash /\ log[i].hash[Len(log[i].hash)] = log[i].content
    BY <2>1, HashProperties
  <2>. QED BY <2>2 DEF TrailSafety, HashesOfOriginals
<1>. QED BY <1>1, TrailAlwaysSafe, PTL

(* verify_chain denounces a row whose predecessor in the chain is gone. *)
THEOREM RemovalsAreFoundOut == Spec => []RemovalFoundOut
<1>1. TrailSafety => RemovalFoundOut
  <2>. SUFFICES ASSUME TrailSafety, NEW i \in DOMAIN log, Verifies,
                       Front(log[i].hash) # NoHash,
                       \A j \in DOMAIN log : log[j].hash # Front(log[i].hash)
                PROVE  FALSE
    BY DEF RemovalFoundOut
  <2>. DEFINE previous == IF i = 1 THEN NoHash ELSE log[i - 1].hash
  <2>1. /\ log[i].content \in Contents /\ previous \in Seq(Contents)
        /\ log[i].hash = Hash(previous, log[i].content)
    BY LogRows DEF Verifies
  <2>2. previous = NoHash \/ \E j \in DOMAIN log : log[j].hash = previous
    BY LogRows
  <2>. HIDE DEF previous
  <2>3. Front(log[i].hash) = previous
    BY <2>1, HashProperties
  <2>. QED BY <2>2, <2>3
<1>. QED BY <1>1, TrailAlwaysSafe, PTL

(* However uploads, backups and stops interleave, the file of every document
   in the table is in the storage directory. *)
THEOREM DocumentsReadable == Spec => []DocumentsHaveFiles
<1>1. TrailSafety => DocumentsHaveFiles
  BY DEF TrailSafety
<1>. QED BY <1>1, TrailAlwaysSafe, PTL

(* No backup lacks a document that was there when it began. *)
THEOREM BackupsHoldDocuments == Spec => []BackupsComplete
<1>1. TrailSafety => BackupsComplete
  BY DEF TrailSafety
<1>. QED BY <1>1, TrailAlwaysSafe, PTL
================================================================================
