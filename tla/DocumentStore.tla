--------------------------- MODULE DocumentStore ---------------------------
(***************************************************************************)
(* The tables of the ingestion queue: documents, document_files and        *)
(* document_chunks (app/documents/models.py), one function per column the  *)
(* properties tell apart, and the row locks PostgreSQL holds for a         *)
(* worker's open transaction.  A row with status "none" does not exist.    *)
(* Ids come from a sequence and are never used again.                      *)
(***************************************************************************)
EXTENDS Naturals, FiniteSets

CONSTANTS Orgs,        \* organisations
          Contents,    \* distinct file contents: equal contents, equal sha256
          Workers,     \* worker processes
          MaxId        \* bound: the last id the sequence hands out

ASSUME StoreAssumption == MaxId \in Nat \ {0}

VARIABLES status,      \* documents.status
          attempts,    \* documents.attempts
          silent,      \* processing_started_at is older than the stale limit
          key,         \* documents.(organization_id, sha256)
          files,       \* ids that have a document_files row
          chunks,      \* per id, the attempts whose chunk rows are stored
          lastId,      \* the id sequence
          locked       \* per worker, the document rows its transaction locks

tables == <<status, attempts, silent, key, files, chunks, lastId>>

Ids == 1..MaxId

QUEUED     == "queued"
PROCESSING == "processing"
READY      == "ready"
FAILED     == "failed"
NoRow      == "none"

Pending  == {QUEUED, PROCESSING}
Terminal == {READY, FAILED}
Statuses == Pending \cup Terminal \cup {NoRow}

Keys  == Orgs \X Contents
NoKey == <<>>

StoreTypeOK ==
  /\ status   \in [Ids -> Statuses]
  /\ attempts \in [Ids -> Nat]
  /\ silent   \in [Ids -> BOOLEAN]
  /\ key      \in [Ids -> Keys \cup {NoKey}]
  /\ files    \in SUBSET Ids
  /\ chunks   \in [Ids -> SUBSET Nat]
  /\ lastId   \in 0..MaxId
  /\ locked   \in [Workers -> SUBSET Ids]

StoreInit ==
  /\ status   = [d \in Ids |-> NoRow]
  /\ attempts = [d \in Ids |-> 0]
  /\ silent   = [d \in Ids |-> FALSE]
  /\ key      = [d \in Ids |-> NoKey]
  /\ files    = {}
  /\ chunks   = [d \in Ids |-> {}]
  /\ lastId   = 0
  /\ locked   = [w \in Workers |-> {}]

---------------------------------------------------------------------------
(* What a statement sees of the rows, and which rows it has to wait for.   *)

Exists(d) == status[d] # NoRow

Rows(S) == {d \in Ids : status[d] \in S}

\* No other transaction has d locked: a statement that writes d, or reads it
\* FOR UPDATE, runs.
FreeFor(w, d) == \A v \in Workers \ {w} : d \notin locked[v]

Free(d) == \A v \in Workers : d \notin locked[v]

\* Ends w's transaction, by commit or by rollback.
ReleaseLocks(w) == locked' = [locked EXCEPT ![w] = {}]

=============================================================================
