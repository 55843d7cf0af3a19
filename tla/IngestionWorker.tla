-------------------------- MODULE IngestionWorker --------------------------
(***************************************************************************)
(* The worker process: run_forever (app/worker.py) and the functions it    *)
(* calls in app/documents/processing.py, one action per database           *)
(* transaction or statement that another process can come between.         *)
(* Where a worker is:                                                      *)
(*   down      not running                                                 *)
(*   poll      between two turns; the next step opens requeue_stale        *)
(*   requeue   in requeue_stale_documents, after its first UPDATE          *)
(*   claim     about to run claim_next_document                            *)
(*   claiming  holds the row lock of the document it claims                *)
(*   read, extract, embed, beat    in process_document                     *)
(*   check     about to call _lock_if_still_ours                           *)
(*   write     holds the row lock and writes the outcome                   *)
(***************************************************************************)
EXTENDS DocumentStore

CONSTANTS Unreadable,   \* contents that raise one of FILE_PROBLEMS
          MaxAttempts,  \* worker_max_attempts
          Batches,      \* embedding batches of EMBED_BATCH_SIZE per document
          SlowWorkers,  \* may a live worker go silent past the stale limit?
          FaultKinds,   \* the faults that may happen
          MaxFaults     \* bound: how many of them

ASSUME WorkerAssumption ==
  /\ MaxAttempts \in Nat \ {0}
  /\ Batches \in Nat \ {0}
  /\ SlowWorkers \in BOOLEAN
  /\ FaultKinds \subseteq {"crash", "exception", "embedding"}
  /\ MaxFaults \in Nat

VARIABLES pc,        \* per worker, see above
          doc,       \* per worker, process_document's document_id, 0 for none
          attempt,   \*   its attempt
          batch,     \*   the batches embedded so far
          verdict,   \*   what it is about to make of the document
          cut,       \* per worker, ids with processing_started_at < cutoff
          embedUp,   \* does the embedding service answer?
          faults     \* faults so far

job     == <<doc, attempt, batch, verdict>>
workers == <<pc, job, cut>>
world   == <<embedUp, faults>>

Places == {"down", "poll", "requeue", "claim", "claiming", "read",
           "extract", "embed", "beat", "check", "write"}

\* RETRY is the exception handler of process_next_document.
RETRY    == "retry"
Verdicts == {"none", READY, FAILED, RETRY}

JobTypeOK ==
  /\ pc  \in [Workers -> Places]
  /\ doc \in [Workers -> 0..MaxId]
  /\ attempt \in [Workers -> Nat]
  /\ batch \in [Workers -> Nat]
  /\ verdict \in [Workers -> Verdicts]

WorldTypeOK ==
  /\ cut \in [Workers -> SUBSET Ids]
  /\ embedUp \in BOOLEAN
  /\ faults \in Nat

WorkerTypeOK == JobTypeOK /\ WorldTypeOK

WorkerInit ==
  /\ pc  = [w \in Workers |-> "poll"]
  /\ doc = [w \in Workers |-> 0]
  /\ attempt = [w \in Workers |-> 0]
  /\ batch = [w \in Workers |-> 0]
  /\ verdict = [w \in Workers |-> "none"]
  /\ cut = [w \in Workers |-> {}]
  /\ embedUp = TRUE
  /\ faults = 0

---------------------------------------------------------------------------
(* Control flow and faults.                                                *)

\* w has read a claimed document's id and attempt and still works on it.
Busy(w) == pc[w] \in {"read", "extract", "embed", "beat", "check", "write"}

\* The exception handler of process_next_document covers process_document,
\* not itself, not the claim and not requeue_stale_documents.
InTry(w) == Busy(w) /\ verdict[w] # RETRY

Goto(w, place) == pc' = [pc EXCEPT ![w] = place]

\* Back to the top of run_forever's loop, with a fresh session.
DropJob(w) == /\ doc' = [doc EXCEPT ![w] = 0]
              /\ attempt' = [attempt EXCEPT ![w] = 0]
              /\ batch' = [batch EXCEPT ![w] = 0]
              /\ verdict' = [verdict EXCEPT ![w] = "none"]

EndTurn(w) == Goto(w, "poll") /\ DropJob(w)

Decide(w, v) == /\ verdict' = [verdict EXCEPT ![w] = v]
                /\ UNCHANGED <<doc, attempt, batch>>

Fault(kind) == /\ kind \in FaultKinds
               /\ faults < MaxFaults
               /\ faults' = faults + 1

Raise(w) ==
  \/ /\ InTry(w)
     /\ Goto(w, "check")
     /\ Decide(w, RETRY)
  \/ /\ ~ InTry(w)
     /\ EndTurn(w)

\* A commit returns, or it took effect and the connection was lost before the
\* worker heard of it.
Commit(w, AfterReturn) ==
  /\ ReleaseLocks(w)
  /\ \/ AfterReturn /\ UNCHANGED faults
     \/ Fault("exception") /\ Raise(w)
  /\ UNCHANGED embedUp

---------------------------------------------------------------------------
(* requeue_stale_documents                                                 *)

\* Mutant of Abandoned: no document is ever found abandoned.
NoneAbandoned(w) == {}

Abandoned(w) == {d \in cut[w] : status[d] = PROCESSING}

\* Mutant of UsedUp: one attempt too many.
UsedUpOneMore(d) == attempts[d] > MaxAttempts

\* attempts >= max_attempts
UsedUp(d) == attempts[d] >= MaxAttempts

\* The cutoff and the first UPDATE, which keeps its rows locked.  A row only
\* leaves the set of rows older than the cutoff, when it is claimed or
\* refreshed, so the clock is read in this step.
FailAbandoned(w) ==
  LET stale == {d \in Ids : silent[d]}
      found == {d \in stale : status[d] = PROCESSING /\ UsedUp(d)}
  IN /\ pc[w] = "poll"
     /\ \A d \in found : Free(d)
     /\ cut' = [cut EXCEPT ![w] = stale]
     /\ locked' = [locked EXCEPT ![w] = found]
     /\ Goto(w, "requeue")
     /\ UNCHANGED <<tables, job, world>>

\* Mutant of FilesOf: the DELETE of the failed documents' files is forgotten.
FilesKept(failed) == files

\* The third statement deletes the files of every FAILED document, and runs
\* only if this turn failed one.
FilesOf(failed) ==
  IF failed = {} THEN files ELSE files \ (failed \cup Rows({FAILED}))

\* The second UPDATE has no condition on attempts: the rows the first one
\* failed are no longer PROCESSING.  Then the commit.
RequeueAbandoned(w) ==
  LET failed   == locked[w]
      requeued == Abandoned(w) \ failed
  IN /\ pc[w] = "requeue"
     /\ \A d \in requeued : FreeFor(w, d)
     /\ status' = [d \in Ids |-> CASE d \in failed -> FAILED
                                   [] d \in requeued -> QUEUED
                                   [] OTHER -> status[d]]
     /\ files' = FilesOf(failed)
     /\ cut' = [cut EXCEPT ![w] = {}]
     /\ Commit(w, Goto(w, "claim") /\ UNCHANGED job)
     /\ UNCHANGED <<attempts, silent, key, chunks, lastId>>

---------------------------------------------------------------------------
(* claim_next_document                                                     *)

\* SKIP LOCKED: the oldest QUEUED row nobody holds.
Claimable == {d \in Rows({QUEUED}) : Free(d)}

\* ORDER BY id LIMIT 1
Oldest(d) == \A e \in Claimable : d <= e

ClaimNothing(w) ==
  /\ pc[w] = "claim"
  /\ Claimable = {}
  /\ EndTurn(w)
  /\ UNCHANGED <<tables, locked, cut, world>>

ClaimSelect(w) ==
  /\ pc[w] = "claim"
  /\ \E d \in Claimable :
       /\ Oldest(d)
       /\ doc' = [doc EXCEPT ![w] = d]
       /\ attempt' = [attempt EXCEPT ![w] = attempts[d]]
       /\ locked' = [locked EXCEPT ![w] = {d}]
  /\ Goto(w, "claiming")
  /\ UNCHANGED <<tables, batch, verdict, cut, world>>

\* processing_started_at = now: d is younger than every cutoff read so far.
ShowAlive(d) ==
  /\ silent' = [silent EXCEPT ![d] = FALSE]
  /\ cut' = [v \in Workers |-> cut[v] \ {d}]

\* Mutant of NextAttempt: attempts is not counted up.
SameAttempt(w) == attempt[w]

\* attempts += 1 on the copy the SELECT read.
NextAttempt(w) == attempt[w] + 1

ClaimCommit(w) ==
  LET d == doc[w]
  IN /\ pc[w] = "claiming"
     /\ FreeFor(w, d)
     /\ status' = [status EXCEPT ![d] = PROCESSING]
     /\ attempts' = [attempts EXCEPT ![d] = NextAttempt(w)]
     /\ ShowAlive(d)
     /\ Commit(w, /\ Goto(w, "read")
                  /\ attempt' = [attempt EXCEPT ![w] = NextAttempt(w)]
                  /\ UNCHANGED <<doc, batch, verdict>>)
     /\ UNCHANGED <<key, files, chunks, lastId>>

---------------------------------------------------------------------------
(* process_document                                                        *)

\* A missing file row means the document was deleted, or settled by others.
ReadFile(w) ==
  /\ pc[w] = "read"
  /\ \/ /\ doc[w] \in files
        /\ Goto(w, "extract")
        /\ Decide(w, IF key[doc[w]][2] \in Unreadable THEN FAILED ELSE READY)
     \/ /\ doc[w] \notin files
        /\ EndTurn(w)
  /\ UNCHANGED <<tables, locked, cut, world>>

\* extract_text and chunk_text: no database.  FILE_PROBLEMS end in FAILED.
Extract(w) ==
  /\ pc[w] = "extract"
  /\ Goto(w, IF verdict[w] = FAILED THEN "check" ELSE "embed")
  /\ UNCHANGED <<tables, locked, job, cut, world>>

\* One call of embed_texts; EmbeddingUnavailable is an ordinary exception.
EmbedBatch(w) ==
  /\ pc[w] = "embed"
  /\ \/ embedUp /\ Goto(w, "beat") /\ UNCHANGED job
     \/ ~ embedUp /\ Raise(w)
  /\ UNCHANGED <<tables, locked, cut, world>>

\* The condition of _lock_if_still_ours, and of the heartbeat's UPDATE.
\* Mutant of StillOurs: the status is not compared.
StillOursByAttempt(w) ==
  Exists(doc[w]) /\ attempts[doc[w]] = attempt[w]

StillOurs(w) ==
  LET d == doc[w] IN status[d] = PROCESSING /\ attempts[d] = attempt[w]

Heartbeat(w) ==
  LET d    == doc[w]
      done == batch[w] + 1
  IN /\ pc[w] = "beat"
     /\ StillOurs(w) => FreeFor(w, d)
     /\ IF StillOurs(w) THEN ShowAlive(d) ELSE UNCHANGED <<silent, cut>>
     /\ Commit(w, /\ Goto(w, IF done = Batches THEN "check" ELSE "embed")
                  /\ batch' = [batch EXCEPT ![w] = done]
                  /\ UNCHANGED <<doc, attempt, verdict>>)
     /\ UNCHANGED <<status, attempts, key, files, chunks, lastId>>

LockOurs(w) == locked' = [locked EXCEPT ![w] = {doc[w]}]

\* _lock_if_still_ours waits for the row.  If it is not ours any more the
\* result is thrown away.
LockIfStillOurs(w) ==
  /\ pc[w] = "check"
  /\ Free(doc[w])
  /\ \/ /\ StillOurs(w)
        /\ LockOurs(w)
        /\ Goto(w, "write")
        /\ UNCHANGED job
     \/ /\ ~ StillOurs(w)
        /\ EndTurn(w)
        /\ UNCHANGED locked
  /\ UNCHANGED <<tables, cut, world>>

\* Mutant of Outcome: the handler allows one attempt less.
OutcomeOneLess(w) ==
  IF verdict[w] # RETRY THEN verdict[w]
  ELSE IF attempt[w] + 1 >= MaxAttempts THEN FAILED ELSE QUEUED

\* A file problem, a finished document, or the handler's decision.
Outcome(w) ==
  IF verdict[w] # RETRY THEN verdict[w]
  ELSE IF attempt[w] >= MaxAttempts THEN FAILED ELSE QUEUED

\* A READY document's chunk rows, tagged with the attempt that made them.
SaveChunks(w) ==
  chunks' = [chunks EXCEPT ![doc[w]] =
               IF Outcome(w) = READY THEN @ \cup {attempt[w]} ELSE @]

\* _finish, in one transaction with the chunks when the document is READY; or
\* the handler's requeue.
Finish(w) ==
  LET d == doc[w]
  IN /\ pc[w] = "write"
     /\ FreeFor(w, d)
     /\ status' = [status EXCEPT ![d] = Outcome(w)]
     /\ SaveChunks(w)
     /\ files' = IF Outcome(w) \in Terminal THEN files \ {d} ELSE files
     /\ Commit(w, EndTurn(w))
     /\ UNCHANGED <<attempts, silent, key, lastId, cut>>

---------------------------------------------------------------------------
(* Faults and the passing of time.                                         *)

\* A statement fails, or the code raises: the transaction rolls back.
StepFails(w) ==
  /\ pc[w] \notin {"down", "poll"}
  /\ Fault("exception")
  /\ Raise(w)
  /\ ReleaseLocks(w)
  /\ cut' = [cut EXCEPT ![w] = {}]
  /\ UNCHANGED <<tables, embedUp>>

\* Ctrl+C, kill or a lost machine, anywhere.
Crash(w) ==
  /\ pc[w] # "down"
  /\ Fault("crash")
  /\ Goto(w, "down")
  /\ DropJob(w)
  /\ ReleaseLocks(w)
  /\ cut' = [cut EXCEPT ![w] = {}]
  /\ UNCHANGED <<tables, embedUp>>

Restart(w) ==
  /\ pc[w] = "down"
  /\ EndTurn(w)
  /\ UNCHANGED <<tables, locked, cut, world>>

\* worker_stale_after_seconds pass with no sign of life on d.
Silence(d) ==
  /\ status[d] = PROCESSING
  /\ ~ silent[d]
  /\ SlowWorkers \/ \A w \in Workers : ~ (Busy(w) /\ doc[w] = d /\ StillOurs(w))
  /\ silent' = [silent EXCEPT ![d] = TRUE]
  /\ UNCHANGED <<status, attempts, key, files, chunks, lastId, locked, workers, world>>

EmbeddingStops ==
  /\ embedUp
  /\ Fault("embedding")
  /\ embedUp' = FALSE
  /\ UNCHANGED <<tables, locked, workers>>

EmbeddingReturns ==
  /\ ~ embedUp
  /\ embedUp' = TRUE
  /\ UNCHANGED <<tables, locked, workers, faults>>

WorkerStep(w) ==
  \/ FailAbandoned(w) \/ RequeueAbandoned(w)
  \/ ClaimNothing(w) \/ ClaimSelect(w) \/ ClaimCommit(w)
  \/ ReadFile(w) \/ Extract(w) \/ EmbedBatch(w) \/ Heartbeat(w)
  \/ LockIfStillOurs(w) \/ Finish(w)
  \/ Restart(w)

Faulty(w) == StepFails(w) \/ Crash(w)

=============================================================================
