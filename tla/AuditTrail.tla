------------------------------ MODULE AuditTrail ------------------------------
(***************************************************************************)
(* The audit log with its hash chain, the encrypted documents and the      *)
(* backup, after security/audit.py, documents.py, views_documents.py and   *)
(* the backup_encrypted command.                                           *)
(*                                                                         *)
(*   log        SecurityAuditLog in id order                               *)
(*   files      the .enc files of the storage directory                    *)
(*   documents  the rows of EncryptedDocument, each named by its file      *)
(*   vaultKey   whether the VaultKey is in memory                          *)
(*   request    what each request, or the backup command, is about to do   *)
(*   backups    the backups that were finished                             *)
(*                                                                         *)
(* The vault database commits at every statement, so that an append is     *)
(* three steps and a stored document two.  A hash is the sequence of the   *)
(* contents it was computed from: SHA-256 is taken to be injective, and    *)
(* the time in a row to make its content unique.                           *)
(***************************************************************************)
EXTENDS Integers, Sequences, FiniteSets

CONSTANTS
  Requests,     \* the requests that the server may be working on
  Commands,     \* the backup commands that may be running
  MaxRows,      \* bound on the rows of the log
  MaxFiles,     \* bound on the files stored
  MaxTampering  \* bound on the rows edited or removed by hand

ASSUME TrailAssumption == {MaxRows, MaxFiles, MaxTampering} \subseteq Nat

Actors == Requests \cup Commands

VARIABLES log, lastId, files, documents, vaultKey, request, backups, tampered

storage   == <<files, documents>>
trailVars == <<log, lastId, storage, vaultKey, request, backups, tampered>>

FileIds == 1..MaxFiles

Contents == [id: 1..MaxRows, edited: BOOLEAN]
NoHash == <<>>
Hash(previous, content) == Append(previous, content)

Idle == [step |-> "idle"]

RequestStates ==
  {Idle, [step |-> "append"]}
  \cup [step: {"record"}, file: FileIds]
  \cup [step: {"create"}, previous: Seq(Contents)]
  \cup [step: {"seal"}, previous: Seq(Contents), content: Contents]
  \cup [step: {"zip"}, began: SUBSET FileIds]

Goto(r, state) == request' = [request EXCEPT ![r] = state]
Answer(r) == Goto(r, Idle)

-------------------------------------------------------------------------------
(* log_event, which ends the request that calls it. *)

LastHash == IF log = <<>> THEN NoHash ELSE log[Len(log)].hash

ReadLast(r) ==
  /\ request[r].step = "append"
  /\ Goto(r, [step |-> "create", previous |-> LastHash])
  /\ UNCHANGED <<log, lastId, storage, vaultKey, backups, tampered>>

(* Mutant: the id of a row that was removed is given again. *)
CreateRowReusingIds(r) ==
  LET content == [id |-> Len(log) + 1, edited |-> FALSE]
  IN  /\ request[r].step = "create"
      /\ lastId < MaxRows
      /\ log' = Append(log, [content |-> content, hash |-> NoHash])
      /\ lastId' = content.id
      /\ Goto(r, [step |-> "seal", previous |-> request[r].previous, content |-> content])
      /\ UNCHANGED <<storage, vaultKey, backups, tampered>>

(* The row is committed with an empty hash. *)
CreateRow(r) ==
  LET content == [id |-> lastId + 1, edited |-> FALSE]
  IN  /\ request[r].step = "create"
      /\ lastId < MaxRows
      /\ log' = Append(log, [content |-> content, hash |-> NoHash])
      /\ lastId' = lastId + 1
      /\ Goto(r, [step |-> "seal", previous |-> request[r].previous, content |-> content])
      /\ UNCHANGED <<storage, vaultKey, backups, tampered>>

(* Mutant: the hash leaves out what the row says. *)
SealLoosely(r) ==
  /\ request[r].step = "seal"
  /\ log' = [i \in DOMAIN log |->
       IF log[i].content.id = request[r].content.id
       THEN [log[i] EXCEPT !.hash = Hash(request[r].previous, log[i].content)] ELSE log[i]]
  /\ Answer(r)
  /\ UNCHANGED <<lastId, storage, vaultKey, backups, tampered>>

(* The hash is written to the row of that id, if it is still there. *)
Seal(r) ==
  LET content == request[r].content
  IN  /\ request[r].step = "seal"
      /\ log' = [i \in DOMAIN log |->
           IF log[i].content.id = content.id
           THEN [log[i] EXCEPT !.hash = Hash(request[r].previous, content)] ELSE log[i]]
      /\ Answer(r)
      /\ UNCHANGED <<lastId, storage, vaultKey, backups, tampered>>

(* Mutant: every hash is taken on its own. *)
VerifiesRowByRow ==
  \A i \in DOMAIN log :
    log[i].hash # NoHash /\ log[i].hash[Len(log[i].hash)] = log[i].content

(* Mutant: the hash that a row is checked against is not moved on. *)
VerifiesFromStart == \A i \in DOMAIN log : log[i].hash = Hash(NoHash, log[i].content)

(* verify_chain *)
Verifies ==
  \A i \in DOMAIN log :
    log[i].hash = Hash(IF i = 1 THEN NoHash ELSE log[i - 1].hash, log[i].content)

-------------------------------------------------------------------------------
(* Requests. *)

(* A login, by password or recovery key, and a lock: the key first, then the
   event (a login appends two or three of them, each a request of its own
   here).  An attempt that fails is an event that leaves the key alone. *)
LogIn(r)  == request[r] = Idle /\ vaultKey' = TRUE /\ Goto(r, [step |-> "append"])
                /\ UNCHANGED <<log, lastId, storage, backups, tampered>>
Lock(r)   == request[r] = Idle /\ vaultKey' = FALSE /\ Goto(r, [step |-> "append"])
                /\ UNCHANGED <<log, lastId, storage, backups, tampered>>
Denied(r) == request[r] = Idle /\ Goto(r, [step |-> "append"])
                /\ UNCHANGED <<log, lastId, storage, vaultKey, backups, tampered>>

(* Mutant: the row is made first, the file by the step that follows. *)
StoreRowFirst(r) ==
  \E f \in FileIds \ files :
    /\ request[r] = Idle /\ vaultKey /\ f \notin documents
    /\ documents' = documents \cup {f}
    /\ Goto(r, [step |-> "record", file |-> f])
    /\ UNCHANGED <<log, lastId, files, vaultKey, backups, tampered>>

(* DocumentListView.post: the encrypted content goes to a new file.  Without
   the key nothing is written. *)
StoreFile(r) ==
  \E f \in FileIds \ files :
    /\ request[r] = Idle
    /\ vaultKey
    /\ files' = files \cup {f}
    /\ Goto(r, [step |-> "record", file |-> f])
    /\ UNCHANGED <<log, lastId, documents, vaultKey, backups, tampered>>

RecordDocument(r) ==
  /\ request[r].step = "record"
  /\ documents' = documents \cup {request[r].file}
  /\ Goto(r, [step |-> "append"])
  /\ UNCHANGED <<log, lastId, files, vaultKey, backups, tampered>>

(* DocumentDownloadView: a document that cannot be read is answered by a
   page, without an event. *)
Download(r) ==
  \E d \in documents :
    /\ request[r] = Idle
    /\ vaultKey /\ d \in files
    /\ Goto(r, [step |-> "append"])
    /\ UNCHANGED <<log, lastId, storage, vaultKey, backups, tampered>>

(* backup_encrypted: the database and the wrapped keys go to the archive... *)
StartBackup(r) ==
  /\ request[r] = Idle
  /\ Goto(r, [step |-> "zip", began |-> documents])
  /\ UNCHANGED <<log, lastId, storage, vaultKey, backups, tampered>>

(* Mutant: a document that some backup holds is not put in another one. *)
ZipNewDocuments(r) ==
  LET held == UNION {b.holds : b \in backups}
  IN  /\ request[r].step = "zip"
      /\ backups' = backups \cup
           {[began |-> request[r].began, holds |-> (documents \cap files) \ held]}
      /\ Goto(r, [step |-> "append"])
      /\ UNCHANGED <<log, lastId, storage, vaultKey, tampered>>

(* ...then the file of each document, a missing one being passed over, and
   the event is logged.  The rows of the documents stay behind. *)
ZipDocuments(r) ==
  /\ request[r].step = "zip"
  /\ backups' = backups \cup {[began |-> request[r].began, holds |-> documents \cap files]}
  /\ Goto(r, [step |-> "append"])
  /\ UNCHANGED <<log, lastId, storage, vaultKey, tampered>>

-------------------------------------------------------------------------------
(* The surroundings. *)

(* The server stops between two steps: its requests are gone, and the key. *)
StopServer ==
  /\ request' = [a \in Actors |-> IF a \in Requests THEN Idle ELSE request[a]]
  /\ vaultKey' = FALSE
  /\ UNCHANGED <<log, lastId, storage, backups, tampered>>

StopCommand(c) ==
  /\ request[c] # Idle
  /\ Answer(c)
  /\ UNCHANGED <<log, lastId, storage, vaultKey, backups, tampered>>

EditRow(i) ==
  /\ Cardinality(tampered) < MaxTampering
  /\ ~ log[i].content.edited
  /\ log' = [log EXCEPT ![i].content.edited = TRUE]
  /\ tampered' = tampered \cup {log[i].content.id}
  /\ UNCHANGED <<lastId, storage, vaultKey, request, backups>>

RemoveRow(i) ==
  /\ Cardinality(tampered) < MaxTampering
  /\ log' = SubSeq(log, 1, i - 1) \o SubSeq(log, i + 1, Len(log))
  /\ tampered' = tampered \cup {log[i].content.id}
  /\ UNCHANGED <<lastId, storage, vaultKey, request, backups>>

Init ==
  /\ log = <<>> /\ lastId = 0
  /\ files = {} /\ documents = {} /\ backups = {}
  /\ vaultKey = FALSE
  /\ request = [a \in Actors |-> Idle]
  /\ tampered = {}

Next ==
  \/ \E a \in Actors : ReadLast(a) \/ CreateRow(a) \/ Seal(a)
  \/ \E r \in Requests : LogIn(r) \/ Lock(r) \/ Denied(r)
  \/ \E r \in Requests : StoreFile(r) \/ RecordDocument(r) \/ Download(r)
  \/ \E c \in Commands : StartBackup(c) \/ ZipDocuments(c) \/ StopCommand(c)
  \/ StopServer
  \/ \E i \in DOMAIN log : EditRow(i) \/ RemoveRow(i)

Spec == Init /\ [][Next]_trailVars

-------------------------------------------------------------------------------
(* Type invariant; the rows are in the order of their ids, none given twice. *)
TrailTypeOK ==
  /\ \A i, j \in DOMAIN log : i < j => log[i].content.id < log[j].content.id
  /\ \A i \in DOMAIN log : /\ log[i].content \in Contents
                           /\ log[i].hash \in Seq(Contents)
                           /\ log[i].content.id <= lastId
  /\ lastId \in 0..MaxRows
  /\ files \subseteq FileIds /\ documents \subseteq FileIds
  /\ vaultKey \in BOOLEAN
  /\ request \in [Actors -> RequestStates]
  /\ backups \subseteq [began: SUBSET FileIds, holds: SUBSET FileIds]
  /\ tampered \subseteq 1..MaxRows

Front(hash) == SubSeq(hash, 1, Len(hash) - 1)

Unsealed == {i \in DOMAIN log : log[i].hash = NoHash}

Forked ==
  \E i, j \in DOMAIN log \ Unsealed : i # j /\ Front(log[i].hash) = Front(log[j].hash)

(* A chain that does not verify has a cause that can be named: a row edited
   or removed, a row whose append has not ended (or never did, the process
   having stopped), or two appends at once that read the same last row. *)
BrokenForAReason ==
  Verifies \/ tampered # {} \/ Unsealed # {} \/ Forked

(* A row that was edited is found out: from then on, whatever is appended
   and whatever races there were, the chain does not verify until the row
   itself is removed. *)
EditFoundOut == (\E i \in DOMAIN log : log[i].content.edited) => ~ Verifies

(* The removal of a row is found out as long as a row that was built on it
   is there. *)
RemovalFoundOut ==
  \A i \in DOMAIN log \ Unsealed :
    LET previous == Front(log[i].hash)
    IN  (previous # NoHash /\ \A j \in DOMAIN log : log[j].hash # previous) => ~ Verifies

(* Every document that has a row can be read: its file is there, also after
   the process has stopped in the middle of an upload. *)
DocumentsHaveFiles == documents \subseteq files

(* A finished backup holds the file of every document there was when it
   began, uploads at the same time notwithstanding. *)
BackupsComplete == \A b \in backups : b.began \subseteq b.holds

(* What verify_chain says of itself: it tells when an event was altered or
   removed.  It fails for the newest rows, which nothing is built on. *)
AnyRemovalFoundOut == tampered # {} => ~ Verifies
===============================================================================
