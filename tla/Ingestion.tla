----------------------------- MODULE Ingestion -----------------------------
(***************************************************************************)
(* The ingestion queue: the API's uploads and deletes, and the workers,    *)
(* over the shared tables.                                                 *)
(***************************************************************************)
EXTENDS Uploads, IngestionWorker

vars == <<tables, locked, upload, workers, world>>

Init == StoreInit /\ UploadInit /\ WorkerInit

Api == \/ \E r \in Requests : UploadStep(r)
       \/ \E d \in Ids : Delete(d)

Working == \E w \in Workers : WorkerStep(w) \/ Faulty(w)

World == \/ \E d \in Ids : Silence(d)
         \/ EmbeddingStops
         \/ EmbeddingReturns

Next == \/ Api /\ UNCHANGED <<workers, world>>
        \/ Working /\ UNCHANGED upload
        \/ World /\ UNCHANGED upload

Spec == Init /\ [][Next]_vars

\* The operating system schedules every worker, a supervisor restarts it, and
\* time passes over a document nobody works on.  Nothing obliges a client to
\* upload or to delete, or the embedding service to come back.
FairSpec == /\ Spec
            /\ \A w \in Workers : WF_vars(WorkerStep(w) /\ UNCHANGED upload)
            /\ \A d \in Ids : WF_vars(Silence(d) /\ UNCHANGED upload)

TypeOK == StoreTypeOK /\ UploadTypeOK /\ WorkerTypeOK

---------------------------------------------------------------------------
(* Safety.                                                                 *)

\* ADR-022 and DocumentFile's docstring: the uploaded bytes are there exactly
\* as long as a worker may still need them, whatever order uploads, deletes,
\* rescues, crashes and late results commit in.
FileIffPending == \A d \in Ids : d \in files <=> status[d] \in Pending

\* Only READY documents have chunks, and a READY document has the chunks of
\* one attempt: no result is saved twice or left behind.
ChunksIffReady ==
  \A d \in Ids : IF status[d] = READY THEN \E a \in 1..MaxAttempts : chunks[d] = {a}
                                      ELSE chunks[d] = {}

\* "The database hands each document to exactly one of them": two workers
\* holding the same document hold different attempts, so
\* _lock_if_still_ours lets at most one of them write.
OneOwner ==
  \A v, w \in Workers :
    v # w /\ Busy(v) /\ Busy(w) /\ doc[v] = doc[w]
      => attempt[v] # attempt[w]

\* worker_max_attempts bounds the starts, through claims, the exception
\* handler and rescues alike.
AttemptsBounded == \A d \in Ids : attempts[d] <= MaxAttempts

\* A readable file is given up only after as many faults as there are
\* attempts: one crash, lost commit or exception never costs two, and no
\* worker that still works on a document loses it to a rescue.
FailedForAReason ==
  \A d \in Ids : status[d] = FAILED /\ key[d][2] \notin Unreadable
                  => faults >= MaxAttempts

\* The attempts of a document are neither overspent nor wasted: both at once.
RetryBudgetKept == AttemptsBounded /\ FailedForAReason

\* Between _lock_if_still_ours and the commit nothing moves under the worker.
WriterOwns == \A w \in Workers : pc[w] = "write" => StillOurs(w)

\* The unique constraint, seen through races of uploads and deletes.
OneDocumentPerFile ==
  \A d, e \in Ids : Exists(d) /\ Exists(e) /\ key[d] = key[e] => d = e

\* What the check before the insert guarantees of "documents one organisation
\* may have waiting at once" (config.py): concurrent uploads may all pass it.
PendingWithinRace ==
  \A o \in Orgs : Cardinality(PendingOf(o)) < MaxPending + Cardinality(Requests)

\* docs/versions/v13-embedding-service.md, on the embedding service being
\* stopped: "new uploads wait in the queue and are retried".
OutageKeepsUploads ==
  \A d \in Ids : status[d] = FAILED => key[d][2] \in Unreadable

---------------------------------------------------------------------------
(* The inductive invariant: what makes the safety properties hold.         *)

\* Rows exist only up to the sequence, and a document that can be claimed
\* again has an attempt left.
RowsInv ==
  \A d \in Ids : /\ Exists(d) => d <= lastId
                 /\ status[d] = QUEUED => attempts[d] < MaxAttempts
                 /\ attempts[d] <= MaxAttempts

\* A transaction's row locks say what its next write finds.
LockFits(w) ==
  /\ pc[w] \notin {"requeue", "claiming", "write"} => locked[w] = {}
  /\ pc[w] = "requeue" =>
       locked[w] = {d \in cut[w] : status[d] = PROCESSING /\ UsedUp(d)}
  /\ pc[w] = "claiming" =>
       /\ locked[w] = {doc[w]}
       /\ status[doc[w]] = QUEUED
       /\ attempts[doc[w]] = attempt[w]
  /\ pc[w] = "write" => locked[w] = {doc[w]} /\ StillOurs(w)

LocksInv == /\ \A v, w \in Workers : v # w => locked[v] \cap locked[w] = {}
            /\ \A w \in Workers : LockFits(w)

\* A busy worker holds an attempt the row has already counted, and past
\* reading the file it knows what it will write.
JobFits(w) ==
  /\ Busy(w) \/ pc[w] = "claiming" => doc[w] \in 1..lastId
  /\ Busy(w) => attempt[w] \in 1..attempts[doc[w]]
  /\ Busy(w) /\ pc[w] # "read" => verdict[w] # "none"

JobsInv == \A w \in Workers : JobFits(w)

IInv == /\ TypeOK /\ RowsInv /\ LocksInv /\ JobsInv
        /\ FileIffPending /\ ChunksIffReady /\ OneOwner /\ OneDocumentPerFile

---------------------------------------------------------------------------
(* Action properties.                                                      *)

\* A settled document is never reopened, whoever comes late.
SettledStays ==
  [][\A d \in Ids : status[d] \in Terminal => status'[d] \in {status[d], NoRow}]_vars

---------------------------------------------------------------------------
(* The abstract specification.                                             *)

lifeOf == [d \in Ids |-> IF d > lastId THEN "unused"
                         ELSE IF status[d] = NoRow THEN "gone"
                         ELSE IF status[d] \in Pending THEN "pending"
                         ELSE status[d]]

copiesOf == [d \in Ids |-> Cardinality(chunks[d])]

Lifecycle == INSTANCE DocumentLifecycle WITH life <- lifeOf, copies <- copiesOf

ImplementsLifecycle == Lifecycle!Spec

---------------------------------------------------------------------------
(* Liveness.                                                               *)

\* No document waits for ever: not behind a dead worker, a lock, a fault or
\* an embedding service that is gone.
EveryDocumentSettles == Lifecycle!Settles

=============================================================================
