------------------------------ MODULE Uploads ------------------------------
(***************************************************************************)
(* The API side of the queue: DocumentService.upload, with the session it  *)
(* holds open across its three database round trips, and                   *)
(* DocumentRepository.delete.  Uploads refused before the first round trip *)
(* (size, file type) change nothing and are left out.                      *)
(***************************************************************************)
EXTENDS DocumentStore

CONSTANTS Requests,    \* bound: upload requests in flight at once
          MaxPending   \* max_pending_documents_per_organization

ASSUME UploadsAssumption == MaxPending \in Nat \ {0} /\ IsFiniteSet(Requests)

VARIABLE upload        \* per request, where it is and what it carries

NoUpload == [at |-> "idle", key |-> NoKey]

UploadTypeOK ==
  upload \in [Requests -> [at : {"idle", "checked", "admitted"},
                           key : Keys \cup {NoKey}]]

UploadInit == upload = [r \in Requests |-> NoUpload]

PendingOf(o) == {d \in Rows(Pending) : key[d][1] = o}

WithKey(k) == {d \in Ids : Exists(d) /\ key[d] = k}

---------------------------------------------------------------------------
\* get_by_hash found nothing.  When it finds a document the request ends in
\* 409 and nothing changes.
CheckDuplicate(r, k) ==
  /\ upload[r].at = "idle"
  /\ WithKey(k) = {}
  /\ upload' = [upload EXCEPT ![r] = [at |-> "checked", key |-> k]]
  /\ UNCHANGED <<tables, locked>>

\* Mutant of HasRoom: one more than the configured maximum.
HasRoomOffByOne(o) == Cardinality(PendingOf(o)) <= MaxPending

HasRoom(o) == Cardinality(PendingOf(o)) < MaxPending

\* count_pending: a second statement, so it sees what committed in between.
CheckPending(r) ==
  /\ upload[r].at = "checked"
  /\ upload' = [upload EXCEPT
       ![r] = IF HasRoom(upload[r].key[1]) THEN [at |-> "admitted", key |-> @.key]
                                           ELSE NoUpload]
  /\ UNCHANGED <<tables, locked>>

\* The document row and its file row, in one transaction.
Insert(d, k) ==
  /\ status'   = [status EXCEPT ![d] = QUEUED]
  /\ attempts' = [attempts EXCEPT ![d] = 0]
  /\ silent'   = [silent EXCEPT ![d] = FALSE]
  /\ key'      = [key EXCEPT ![d] = k]
  /\ files'    = files \cup {d}
  /\ UNCHANGED chunks

\* Mutant of Unique: no unique constraint.
NotUnique(k) == TRUE

\* The unique constraint on (organization_id, sha256).
Unique(k) == WithKey(k) = {}

\* repository.add: the flush takes an id from the sequence whether or not the
\* unique constraint then refuses the row (409).
Store(r) ==
  /\ upload[r].at = "admitted"
  /\ lastId < MaxId
  /\ lastId' = lastId + 1
  /\ \/ Unique(upload[r].key) /\ Insert(lastId + 1, upload[r].key)
     \/ ~ Unique(upload[r].key) /\ UNCHANGED <<status, attempts, silent, key, files, chunks>>
  /\ upload' = [upload EXCEPT ![r] = NoUpload]
  /\ UNCHANGED locked

\* StorageError, or the API process stops: the transaction rolls back.
UploadFails(r) ==
  /\ upload[r].at # "idle"
  /\ upload' = [upload EXCEPT ![r] = NoUpload]
  /\ UNCHANGED <<tables, locked>>

\* Mutant of Cascade: document_chunks without ON DELETE CASCADE.
CascadeFilesOnly(d) ==
  /\ files' = files \ {d}
  /\ UNCHANGED chunks

\* ON DELETE CASCADE on document_files and document_chunks.
Cascade(d) ==
  /\ files'  = files \ {d}
  /\ chunks' = [chunks EXCEPT ![d] = {}]

\* DELETE /documents/{id}: one statement, which waits for the row lock.
Delete(d) ==
  /\ Exists(d)
  /\ Free(d)
  /\ status' = [status EXCEPT ![d] = NoRow]
  /\ key'    = [key EXCEPT ![d] = NoKey]
  /\ Cascade(d)
  /\ UNCHANGED <<attempts, silent, lastId, locked, upload>>

UploadStep(r) ==
  \/ \E k \in Keys : CheckDuplicate(r, k)
  \/ CheckPending(r)
  \/ Store(r)
  \/ UploadFails(r)

=============================================================================
