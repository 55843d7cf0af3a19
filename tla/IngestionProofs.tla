-------------------------- MODULE IngestionProofs --------------------------
(***************************************************************************)
(* Theorems about Ingestion, for any number of organisations, files,       *)
(* uploads, documents, workers, attempts, batches and faults.              *)
(***************************************************************************)
EXTENDS Ingestion, FiniteSetTheorems, TLAPS

\* The definitions every step needs to see.
USE DEF Ids, QUEUED, PROCESSING, READY, FAILED, NoRow, RETRY, Pending, Terminal,
        Statuses, tables, job, workers, world

---------------------------------------------------------------------------
(* Type correctness.                                                       *)

\* The empty tables and polling workers are well typed.
LEMMA InitType == Init => TypeOK
  BY StoreAssumption, WorkerAssumption
  DEF Init, TypeOK, StoreInit, StoreTypeOK, UploadInit, UploadTypeOK, NoUpload,
      WorkerInit, WorkerTypeOK, JobTypeOK, WorldTypeOK, Places, Verdicts

\* What an exception does to a worker's own variables.
LEMMA RaiseType ==
  ASSUME NEW w \in Workers, JobTypeOK, Raise(w)
  PROVE  JobTypeOK'
  BY StoreAssumption
  DEF JobTypeOK, Raise, EndTurn, DropJob, Decide, Goto, Places, Verdicts

\* Going back to the top of the loop keeps the types.
LEMMA EndTurnType ==
  ASSUME NEW w \in Workers, JobTypeOK, EndTurn(w)
  PROVE  JobTypeOK'
  BY StoreAssumption DEF JobTypeOK, EndTurn, DropJob, Goto, Places, Verdicts

\* Each round trip of an upload keeps the types.
LEMMA UploadStepType ==
  ASSUME NEW r \in Requests, TypeOK, UploadStep(r), UNCHANGED <<workers, world>>
  PROVE  TypeOK'
<1>1. ASSUME NEW k \in Keys, CheckDuplicate(r, k) PROVE TypeOK'
  BY <1>1 DEF CheckDuplicate, TypeOK, StoreTypeOK, UploadTypeOK, WorkerTypeOK, JobTypeOK, WorldTypeOK
<1>2. CASE CheckPending(r)
  <2>1. PICK u \in [at : {"idle", "checked", "admitted"}, key : Keys \cup {NoKey}] :
          upload' = [upload EXCEPT ![r] = u]
    <3>1. [at |-> "admitted", key |-> upload[r].key]
            \in [at : {"idle", "checked", "admitted"}, key : Keys \cup {NoKey}]
      BY DEF TypeOK, UploadTypeOK
    <3>2. NoUpload \in [at : {"idle", "checked", "admitted"}, key : Keys \cup {NoKey}]
      BY DEF NoUpload
    <3> QED BY <1>2, <3>1, <3>2 DEF CheckPending
  <2> QED
    BY <1>2, <2>1 DEF CheckPending, TypeOK, StoreTypeOK, UploadTypeOK, WorkerTypeOK, JobTypeOK, WorldTypeOK
<1>3. CASE Store(r)
  <2>1. upload[r].key \in Keys \cup {NoKey} /\ lastId + 1 \in Ids /\ lastId' \in 0..MaxId
    BY <1>3, StoreAssumption DEF Store, TypeOK, UploadTypeOK, StoreTypeOK
  <2>2. CASE Insert(lastId + 1, upload[r].key)
    BY <1>3, <2>1, <2>2 DEF Store, Insert, TypeOK, StoreTypeOK, UploadTypeOK, WorkerTypeOK, JobTypeOK, WorldTypeOK, NoUpload
  <2>3. CASE UNCHANGED <<status, attempts, silent, key, files, chunks>>
    BY <1>3, <2>1, <2>3 DEF Store, TypeOK, StoreTypeOK, UploadTypeOK, WorkerTypeOK, JobTypeOK, WorldTypeOK, NoUpload
  <2> QED BY <1>3, <2>2, <2>3 DEF Store
<1>4. CASE UploadFails(r)
  BY <1>4 DEF UploadFails, TypeOK, StoreTypeOK, UploadTypeOK, WorkerTypeOK, JobTypeOK, WorldTypeOK, NoUpload
<1> QED BY <1>1, <1>2, <1>3, <1>4 DEF UploadStep

\* Uploads and deletes keep the types.
LEMMA ApiType ==
  ASSUME TypeOK, Api, UNCHANGED <<workers, world>>
  PROVE  TypeOK'
<1>1. ASSUME NEW d \in Ids, Delete(d) PROVE TypeOK'
  BY <1>1 DEF Delete, Cascade, TypeOK, StoreTypeOK, UploadTypeOK, WorkerTypeOK, JobTypeOK, WorldTypeOK
<1> QED BY <1>1, UploadStepType DEF Api

\* Each step of a worker keeps the types; _lock_if_still_ours needs to know that
\* a busy worker has a document.
LEMMA WorkerStepType ==
  ASSUME NEW w \in Workers, TypeOK, JobsInv, WorkerStep(w), UNCHANGED upload
  PROVE  TypeOK'
<1> USE StoreAssumption DEF TypeOK, WorkerTypeOK
<1>0. UploadTypeOK'
  BY DEF UploadTypeOK
<1>1. CASE FailAbandoned(w)
  <2>1. StoreTypeOK' BY <1>1 DEF FailAbandoned, StoreTypeOK
  <2>2. JobTypeOK' BY <1>1 DEF FailAbandoned, JobTypeOK, Goto, Places
  <2>3. WorldTypeOK' BY <1>1 DEF FailAbandoned, WorldTypeOK
  <2> QED BY <1>0, <2>1, <2>2, <2>3
<1>2. CASE RequeueAbandoned(w)
  <2>1. status' \in [Ids -> Statuses]
    BY <1>2 DEF RequeueAbandoned, StoreTypeOK
  <2>2. files' \in SUBSET Ids
    BY <1>2 DEF RequeueAbandoned, StoreTypeOK, FilesOf, Rows
  <2>3. StoreTypeOK'
    BY <1>2, <2>1, <2>2 DEF RequeueAbandoned, StoreTypeOK, Commit, ReleaseLocks
  <2>4. CASE Goto(w, "claim") /\ UNCHANGED <<job, faults>>
    <3>1. JobTypeOK' BY <2>4 DEF JobTypeOK, Goto, Places
    <3>2. WorldTypeOK' BY <1>2, <2>4 DEF RequeueAbandoned, Commit, WorldTypeOK
    <3> QED BY <1>0, <2>3, <3>1, <3>2
  <2>5. CASE Fault("exception") /\ Raise(w)
    <3>1. JobTypeOK' BY <2>5, RaiseType
    <3>2. WorldTypeOK' BY <1>2, <2>5 DEF RequeueAbandoned, Commit, WorldTypeOK, Fault
    <3> QED BY <1>0, <2>3, <3>1, <3>2
  <2> QED BY <1>2, <2>4, <2>5 DEF RequeueAbandoned, Commit
<1>3. CASE ClaimNothing(w)
  <2>1. StoreTypeOK' BY <1>3 DEF ClaimNothing, StoreTypeOK
  <2>2. JobTypeOK' BY <1>3, EndTurnType DEF ClaimNothing
  <2>3. WorldTypeOK' BY <1>3 DEF ClaimNothing, WorldTypeOK
  <2> QED BY <1>0, <2>1, <2>2, <2>3
<1>4. CASE ClaimSelect(w)
  <2>1. StoreTypeOK' BY <1>4 DEF ClaimSelect, Claimable, Rows, StoreTypeOK
  <2>2. JobTypeOK' BY <1>4 DEF ClaimSelect, Claimable, Rows, StoreTypeOK, JobTypeOK, Goto, Places
  <2>3. WorldTypeOK' BY <1>4 DEF ClaimSelect, WorldTypeOK
  <2> QED BY <1>0, <2>1, <2>2, <2>3
<1>5. CASE ClaimCommit(w)
  <2>1. StoreTypeOK'
    <3>1. NextAttempt(w) \in Nat
      BY DEF NextAttempt, JobTypeOK
    <3>2. attempts' \in [Ids -> Nat]
      BY <1>5, <3>1 DEF ClaimCommit, StoreTypeOK
    <3>3. status' \in [Ids -> Statuses] /\ silent' \in [Ids -> BOOLEAN]
      BY <1>5 DEF ClaimCommit, StoreTypeOK, ShowAlive
    <3>4. locked' \in [Workers -> SUBSET Ids]
      BY <1>5 DEF ClaimCommit, StoreTypeOK, Commit, ReleaseLocks
    <3> QED BY <1>5, <3>2, <3>3, <3>4 DEF ClaimCommit, StoreTypeOK
  <2>2. cut' \in [Workers -> SUBSET Ids]
    BY <1>5 DEF ClaimCommit, WorldTypeOK, ShowAlive
  <2>3. CASE /\ Goto(w, "read")
             /\ attempt' = [attempt EXCEPT ![w] = NextAttempt(w)]
             /\ UNCHANGED <<doc, batch, verdict, faults>>
    <3>1. JobTypeOK' BY <2>3 DEF JobTypeOK, Goto, Places, NextAttempt
    <3>2. WorldTypeOK' BY <1>5, <2>2, <2>3 DEF ClaimCommit, Commit, WorldTypeOK
    <3> QED BY <1>0, <2>1, <3>1, <3>2
  <2>4. CASE Fault("exception") /\ Raise(w)
    <3>1. JobTypeOK' BY <2>4, RaiseType
    <3>2. WorldTypeOK' BY <1>5, <2>2, <2>4 DEF ClaimCommit, Commit, WorldTypeOK, Fault
    <3> QED BY <1>0, <2>1, <3>1, <3>2
  <2> QED BY <1>5, <2>3, <2>4 DEF ClaimCommit, Commit
<1>6. CASE ReadFile(w)
  <2>1. StoreTypeOK' BY <1>6 DEF ReadFile, StoreTypeOK
  <2>2. JobTypeOK'
    <3>1. CASE EndTurn(w) BY <3>1, EndTurnType
    <3>2. CASE Goto(w, "extract")
      BY <1>6, <3>2 DEF ReadFile, EndTurn, Goto, Decide, JobTypeOK, Places, Verdicts
    <3> QED BY <1>6, <3>1, <3>2 DEF ReadFile
  <2>3. WorldTypeOK' BY <1>6 DEF ReadFile, WorldTypeOK
  <2> QED BY <1>0, <2>1, <2>2, <2>3
<1>7. CASE Extract(w)
  <2>1. StoreTypeOK' BY <1>7 DEF Extract, StoreTypeOK
  <2>2. JobTypeOK' BY <1>7 DEF Extract, JobTypeOK, Goto, Places
  <2>3. WorldTypeOK' BY <1>7 DEF Extract, WorldTypeOK
  <2> QED BY <1>0, <2>1, <2>2, <2>3
<1>8. CASE EmbedBatch(w)
  <2>1. StoreTypeOK' BY <1>8 DEF EmbedBatch, StoreTypeOK
  <2>2. JobTypeOK'
    <3>1. CASE Raise(w) BY <3>1, RaiseType
    <3>2. CASE Goto(w, "beat") /\ UNCHANGED job
      BY <3>2 DEF Goto, JobTypeOK, Places
    <3> QED BY <1>8, <3>1, <3>2 DEF EmbedBatch
  <2>3. WorldTypeOK' BY <1>8 DEF EmbedBatch, WorldTypeOK
  <2> QED BY <1>0, <2>1, <2>2, <2>3
<1>9. CASE Heartbeat(w)
  <2>1. StoreTypeOK'
    BY <1>9 DEF Heartbeat, StoreTypeOK, Commit, ReleaseLocks, ShowAlive
  <2>2. cut' \in [Workers -> SUBSET Ids]
    BY <1>9 DEF Heartbeat, WorldTypeOK, ShowAlive
  <2>3. CASE /\ Goto(w, IF batch[w] + 1 = Batches THEN "check" ELSE "embed")
             /\ batch' = [batch EXCEPT ![w] = batch[w] + 1]
             /\ UNCHANGED <<doc, attempt, verdict, faults>>
    <3>1. JobTypeOK' BY <2>3 DEF JobTypeOK, Goto, Places
    <3>2. WorldTypeOK' BY <1>9, <2>2, <2>3 DEF Heartbeat, Commit, WorldTypeOK
    <3> QED BY <1>0, <2>1, <3>1, <3>2
  <2>4. CASE Fault("exception") /\ Raise(w)
    <3>1. JobTypeOK' BY <2>4, RaiseType
    <3>2. WorldTypeOK' BY <1>9, <2>2, <2>4 DEF Heartbeat, Commit, WorldTypeOK, Fault
    <3> QED BY <1>0, <2>1, <3>1, <3>2
  <2> QED BY <1>9, <2>3, <2>4 DEF Heartbeat, Commit
<1>10. CASE LockIfStillOurs(w)
  <2>1. doc[w] \in Ids
    BY <1>10 DEF LockIfStillOurs, JobsInv, JobFits, Busy, StoreTypeOK
  <2>2. StoreTypeOK' BY <1>10, <2>1 DEF LockIfStillOurs, LockOurs, StoreTypeOK
  <2>3. JobTypeOK'
    <3>1. CASE EndTurn(w) BY <3>1, EndTurnType
    <3>2. CASE Goto(w, "write") /\ UNCHANGED job BY <3>2 DEF Goto, JobTypeOK, Places
    <3> QED BY <1>10, <3>1, <3>2 DEF LockIfStillOurs
  <2>4. WorldTypeOK' BY <1>10 DEF LockIfStillOurs, WorldTypeOK
  <2> QED BY <1>0, <2>2, <2>3, <2>4
<1>11. CASE Finish(w)
  <2>1. Outcome(w) \in Statuses
    BY <1>11 DEF Outcome, JobTypeOK, Verdicts
  <2>2. StoreTypeOK'
    <3>1. /\ status' = [status EXCEPT ![doc[w]] = Outcome(w)]
          /\ locked' = [locked EXCEPT ![w] = {}]
          /\ UNCHANGED <<attempts, silent, key, lastId>>
      BY <1>11 DEF Finish, Commit, ReleaseLocks
    <3>2. status' \in [Ids -> Statuses] /\ locked' \in [Workers -> SUBSET Ids]
      BY <2>1, <3>1 DEF StoreTypeOK
    <3>3. files' \in SUBSET Ids
      BY <1>11 DEF Finish, StoreTypeOK
    <3>4. chunks' \in [Ids -> SUBSET Nat]
      <4>1. attempt[w] \in Nat
        BY DEF JobTypeOK
      <4> QED BY <1>11, <4>1 DEF Finish, SaveChunks, StoreTypeOK
    <3> QED BY <3>1, <3>2, <3>3, <3>4 DEF StoreTypeOK
  <2>3. JobTypeOK'
    BY <1>11, EndTurnType, RaiseType DEF Finish, Commit
  <2>4. WorldTypeOK'
    BY <1>11 DEF Finish, Commit, WorldTypeOK, Fault
  <2> QED BY <1>0, <2>2, <2>3, <2>4
<1>12. CASE Restart(w)
  <2>1. StoreTypeOK' BY <1>12 DEF Restart, StoreTypeOK
  <2>2. JobTypeOK' BY <1>12, EndTurnType DEF Restart
  <2>3. WorldTypeOK' BY <1>12 DEF Restart, WorldTypeOK
  <2> QED BY <1>0, <2>1, <2>2, <2>3
<1> QED BY <1>1, <1>2, <1>3, <1>4, <1>5, <1>6, <1>7, <1>8, <1>9, <1>10, <1>11, <1>12
        DEF WorkerStep

\* Failing statements and crashes keep the types.
LEMMA FaultyType ==
  ASSUME NEW w \in Workers, TypeOK, Faulty(w), UNCHANGED upload
  PROVE  TypeOK'
<1> USE StoreAssumption DEF TypeOK, WorkerTypeOK
<1>0. UploadTypeOK' BY DEF UploadTypeOK
<1>1. StoreTypeOK'
  BY DEF Faulty, StepFails, Crash, ReleaseLocks, StoreTypeOK
<1>2. JobTypeOK'
  <2>1. CASE Raise(w) BY <2>1, RaiseType
  <2>2. CASE Goto(w, "down") /\ DropJob(w)
    BY <2>2 DEF Goto, DropJob, JobTypeOK, Places, Verdicts
  <2> QED BY <2>1, <2>2 DEF Faulty, StepFails, Crash
<1>3. WorldTypeOK'
  BY DEF Faulty, StepFails, Crash, Fault, WorldTypeOK
<1> QED BY <1>0, <1>1, <1>2, <1>3

\* Passing time and the embedding service keep the types.
LEMMA WorldType ==
  ASSUME TypeOK, World, UNCHANGED upload
  PROVE  TypeOK'
<1> USE DEF TypeOK, WorkerTypeOK, World, Silence, EmbeddingStops, EmbeddingReturns
<1>1. StoreTypeOK' BY DEF StoreTypeOK
<1>2. UploadTypeOK' BY DEF UploadTypeOK
<1>3. JobTypeOK'
  <2>1. UNCHANGED <<pc, doc, attempt, batch, verdict>>
    OBVIOUS
  <2> QED BY <2>1 DEF JobTypeOK
<1>4. WorldTypeOK'
  <2>1. UNCHANGED cut /\ faults' \in Nat
    BY DEF WorldTypeOK, Fault
  <2>2. embedUp' \in BOOLEAN
    <3>1. (embedUp' = embedUp) \/ (embedUp' = FALSE) \/ (embedUp' = TRUE)
      OBVIOUS
    <3> QED BY <3>1, Zenon DEF WorldTypeOK
  <2> QED BY <2>1, <2>2 DEF WorldTypeOK
<1> QED BY <1>1, <1>2, <1>3, <1>4

\* Every step keeps the types.
LEMMA TypeStep == TypeOK /\ JobsInv /\ [Next]_vars => TypeOK'
<1> SUFFICES ASSUME TypeOK, JobsInv, [Next]_vars PROVE TypeOK'
  OBVIOUS
<1>1. CASE Api /\ UNCHANGED <<workers, world>>
  BY <1>1, ApiType
<1>2. CASE Working /\ UNCHANGED upload
  BY <1>2, WorkerStepType, FaultyType DEF Working
<1>3. CASE World /\ UNCHANGED upload
  BY <1>3, WorldType
<1>4. CASE UNCHANGED vars
  BY <1>4 DEF vars, TypeOK, StoreTypeOK, UploadTypeOK, WorkerTypeOK, JobTypeOK, WorldTypeOK
<1> QED BY <1>1, <1>2, <1>3, <1>4 DEF Next

---------------------------------------------------------------------------
(* The inductive invariant.  First what most steps have in common.         *)

RowFacts == RowsInv /\ FileIffPending /\ ChunksIffReady /\ OneDocumentPerFile

\* The step leaves the other workers alone.
OthersKeep(w) ==
  \A v \in Workers \ {w} :
    /\ pc'[v] = pc[v] /\ doc'[v] = doc[v] /\ attempt'[v] = attempt[v]
    /\ verdict'[v] = verdict[v] /\ locked'[v] = locked[v]

\* w goes on with its document, or has none afterwards.
KeepsOrDrops(w) ==
  \/ ~ Busy(w)' /\ pc'[w] # "claiming"
  \/ /\ Busy(w) /\ Busy(w)' /\ doc'[w] = doc[w] /\ attempt'[w] = attempt[w]
     /\ pc'[w] = "read" \/ verdict'[w] # "none"

\* Steps that leave the columns alone keep what the invariant says of them.
LEMMA RowsKept ==
  ASSUME RowFacts, UNCHANGED <<status, attempts, key, files, chunks, lastId>>
  PROVE  RowFacts'
  BY DEF RowFacts, RowsInv, FileIffPending, ChunksIffReady, OneDocumentPerFile, Exists

\* A worker that goes on or drops its document disturbs nobody's claim.
LEMMA JobsKept ==
  ASSUME NEW w \in Workers, TypeOK, JobsInv, OneOwner, OthersKeep(w), KeepsOrDrops(w),
         UNCHANGED <<attempts, lastId>>
  PROVE  JobsInv' /\ OneOwner'
<1> USE DEF OthersKeep, KeepsOrDrops, Busy
<1>1. JobsInv'
  BY DEF JobsInv, JobFits
<1>2. OneOwner'
  BY DEF OneOwner
<1> QED BY <1>1, <1>2

\* The other workers' locks still fit if their rows are left alone and no row
\* older than their cutoff becomes one their first UPDATE should have failed.
LEMMA LocksKept ==
  ASSUME NEW w \in Workers, TypeOK, LocksInv, OthersKeep(w),
         \A v \in Workers \ {w} : \A d \in locked[v] :
            status'[d] = status[d] /\ attempts'[d] = attempts[d]
            /\ (d \in cut[v] => d \in cut'[v]),
         \A v \in Workers \ {w} : \A d \in cut'[v] :
            status'[d] = PROCESSING /\ attempts'[d] >= MaxAttempts
              => d \in cut[v] /\ status[d] = PROCESSING /\ attempts[d] >= MaxAttempts
  PROVE  \A v \in Workers \ {w} : LockFits(v)'
<1> TAKE v \in Workers \ {w}
<1>1. LockFits(v)
  BY DEF LocksInv
<1>2. CASE pc[v] = "requeue"
  BY <1>1, <1>2 DEF LockFits, OthersKeep, UsedUp
<1>3. CASE pc[v] = "claiming"
  BY <1>1, <1>3 DEF LockFits, OthersKeep
<1>4. CASE pc[v] = "write"
  BY <1>1, <1>4 DEF LockFits, OthersKeep, StillOurs
<1>5. CASE pc[v] \notin {"requeue", "claiming", "write"}
  BY <1>1, <1>5 DEF LockFits, OthersKeep
<1> QED BY <1>2, <1>3, <1>4, <1>5

\* A step that holds no lock afterwards keeps all locks apart.
LEMMA LocksApart ==
  ASSUME NEW w \in Workers, TypeOK, LocksInv, NEW L \in SUBSET Ids,
         locked' = [locked EXCEPT ![w] = L],
         \A v \in Workers \ {w} : locked[v] \cap L = {}
  PROVE  \A u, v \in Workers : u # v => locked'[u] \cap locked'[v] = {}
  BY DEF LocksInv, TypeOK, StoreTypeOK

\* Committing and rolling back keep all locks apart.
LEMMA LocksDropped ==
  ASSUME NEW w \in Workers, TypeOK, LocksInv, locked' = [locked EXCEPT ![w] = {}]
  PROVE  \A u, v \in Workers : u # v => locked'[u] \cap locked'[v] = {}
<1>1. {} \in SUBSET Ids /\ \A v \in Workers \ {w} : locked[v] \cap {} = {}
  OBVIOUS
<1> QED BY <1>1, LocksApart

\* Exceptions: the handler keeps the claim, outside it the turn ends.
LEMMA RaiseKeeps ==
  ASSUME NEW w \in Workers, TypeOK, JobsInv, Raise(w)
  PROVE  /\ KeepsOrDrops(w)
         /\ pc'[w] \in {"check", "poll"}
         /\ \A v \in Workers \ {w} : pc'[v] = pc[v] /\ doc'[v] = doc[v]
                /\ attempt'[v] = attempt[v] /\ verdict'[v] = verdict[v]
<1> USE DEF TypeOK, WorkerTypeOK, JobTypeOK, Goto, Places
<1>1. CASE InTry(w)
  BY <1>1 DEF Raise, KeepsOrDrops, Busy, InTry, Decide
<1>2. CASE ~ InTry(w)
  BY <1>2 DEF Raise, KeepsOrDrops, Busy, EndTurn, DropJob
<1> QED BY <1>1, <1>2

\* The end of a turn leaves no document behind and the other workers alone.
LEMMA EndTurnKeeps ==
  ASSUME NEW w \in Workers, TypeOK, EndTurn(w)
  PROVE  /\ KeepsOrDrops(w)
         /\ pc'[w] = "poll"
         /\ \A v \in Workers \ {w} : pc'[v] = pc[v] /\ doc'[v] = doc[v]
                /\ attempt'[v] = attempt[v] /\ verdict'[v] = verdict[v]
  BY DEF TypeOK, WorkerTypeOK, JobTypeOK, Goto, Places, KeepsOrDrops, Busy, EndTurn, DropJob

\* Steps that only read the tables, or write none of the columns the
\* invariant speaks of.
LEMMA ReadingStep ==
  ASSUME NEW w \in Workers, IInv,
         UNCHANGED <<status, attempts, key, files, chunks, lastId>>,
         OthersKeep(w), KeepsOrDrops(w),
         \A v \in Workers \ {w} : pc[v] = "requeue" =>
            /\ cut'[v] \subseteq cut[v]
            /\ \A d \in cut[v] : status[d] = PROCESSING /\ UsedUp(d) => d \in cut'[v],
         NEW L \in SUBSET Ids, locked' = [locked EXCEPT ![w] = L],
         \A v \in Workers \ {w} : locked[v] \cap L = {},
         LockFits(w)'
  PROVE  RowFacts' /\ LocksInv' /\ JobsInv' /\ OneOwner'
<1> USE DEF IInv
<1>1. RowFacts' BY RowsKept DEF RowFacts
<1>2. JobsInv' /\ OneOwner' BY JobsKept
<1>3. \A v \in Workers \ {w} : LockFits(v)'
  <2> SUFFICES ASSUME NEW v \in Workers \ {w} PROVE LockFits(v)'
    OBVIOUS
  <2>1. LockFits(v) BY DEF LocksInv
  <2>2. pc[v] = "requeue" => {d \in cut'[v] : status[d] = PROCESSING /\ UsedUp(d)}
                            = {d \in cut[v] : status[d] = PROCESSING /\ UsedUp(d)}
    OBVIOUS
  <2> QED BY <2>1, <2>2 DEF LockFits, OthersKeep, StillOurs, UsedUp
<1>4. LocksInv' BY <1>3, LocksApart DEF LocksInv
<1> QED BY <1>1, <1>2, <1>4

---------------------------------------------------------------------------
(* The worker's steps, one lemma for each group that disturbs the same     *)
(* parts of the invariant.                                                 *)

Safe == RowFacts /\ LocksInv /\ JobsInv /\ OneOwner

\* The step leaves the other workers' own variables alone.
OthersIdle(w) ==
  \A v \in Workers \ {w} : /\ pc'[v] = pc[v] /\ doc'[v] = doc[v]
                           /\ attempt'[v] = attempt[v] /\ verdict'[v] = verdict[v]

Locking == {"requeue", "claiming", "write"}

\* Steps of a worker that neither hold a lock before nor after.
LEMMA LocklessStep ==
  ASSUME NEW w \in Workers, IInv, pc[w] \notin Locking, pc'[w] \notin Locking,
         UNCHANGED <<status, attempts, key, files, chunks, lastId, locked, cut>>,
         OthersIdle(w), KeepsOrDrops(w)
  PROVE  Safe'
<1>1. locked \in [Workers -> SUBSET Ids] /\ LockFits(w)
  BY DEF IInv, TypeOK, StoreTypeOK, LocksInv
<1>2. locked' = [locked EXCEPT ![w] = {}] /\ LockFits(w)'
  BY <1>1 DEF LockFits, Locking
<1>3. OthersKeep(w)
  BY DEF OthersIdle, OthersKeep
<1> QED BY <1>2, <1>3, ReadingStep DEF Safe

\* The steps that only read, and the heartbeat.
LEMMA ReadersSafe ==
  ASSUME NEW w \in Workers, IInv, UNCHANGED upload,
         \/ FailAbandoned(w) \/ ClaimNothing(w) \/ ReadFile(w) \/ Extract(w)
         \/ EmbedBatch(w) \/ Heartbeat(w) \/ LockIfStillOurs(w) \/ Restart(w)
  PROVE  Safe'
<1>a. TypeOK /\ JobsInv /\ LocksInv /\ LockFits(w) /\ JobFits(w)
  BY DEF IInv, LocksInv, JobsInv
<1>b. /\ pc \in [Workers -> Places] /\ locked \in [Workers -> SUBSET Ids]
      /\ cut \in [Workers -> SUBSET Ids] /\ verdict \in [Workers -> Verdicts]
      /\ doc \in [Workers -> 0..MaxId]
  BY <1>a DEF TypeOK, WorkerTypeOK, JobTypeOK, WorldTypeOK, StoreTypeOK
<1>1. CASE FailAbandoned(w)
  <2> DEFINE found == {d \in Ids : silent[d] /\ status[d] = PROCESSING /\ UsedUp(d)}
  <2>1. /\ pc[w] = "poll" /\ pc' = [pc EXCEPT ![w] = "requeue"]
        /\ locked' = [locked EXCEPT ![w] = found]
        /\ cut' = [cut EXCEPT ![w] = {d \in Ids : silent[d]}]
        /\ \A d \in found : Free(d)
        /\ UNCHANGED <<status, attempts, silent, key, files, chunks, lastId, doc, attempt, verdict>>
    BY <1>1 DEF FailAbandoned, Goto
  <2>2. KeepsOrDrops(w)
    BY <2>1, <1>b DEF Busy, KeepsOrDrops
  <2>3. \A v \in Workers \ {w} : locked[v] \cap found = {}
    BY <2>1 DEF Free
  <2>4. LockFits(w)'
    BY <2>1, <1>b DEF LockFits, UsedUp
  <2>5. OthersKeep(w)
    BY <2>1, <1>b DEF OthersKeep
  <2> QED BY <2>1, <2>2, <2>3, <2>4, <2>5, <1>b, ReadingStep DEF Safe
<1>2. CASE ClaimNothing(w)
  <2>1. OthersIdle(w) /\ KeepsOrDrops(w) /\ pc'[w] = "poll"
    BY <1>2, <1>a, EndTurnKeeps DEF ClaimNothing, OthersIdle
  <2> QED BY <1>2, <2>1, LocklessStep DEF ClaimNothing, Locking
<1>3. CASE ReadFile(w)
  <2>1. OthersIdle(w) /\ KeepsOrDrops(w) /\ pc'[w] \in {"poll", "extract"}
    <3>1. CASE EndTurn(w)
      BY <3>1, <1>a, EndTurnKeeps DEF OthersIdle
    <3>2. CASE Goto(w, "extract") /\ \E v \in {FAILED, READY} : Decide(w, v)
      BY <1>3, <3>2, <1>b DEF ReadFile, Goto, Decide, OthersIdle, KeepsOrDrops, Busy
    <3> QED BY <1>3, <3>1, <3>2 DEF ReadFile
  <2> QED BY <1>3, <2>1, LocklessStep DEF ReadFile, Locking
<1>4. CASE Extract(w)
  <2>1. OthersIdle(w) /\ KeepsOrDrops(w) /\ pc'[w] \in {"check", "embed"}
    BY <1>4, <1>a, <1>b DEF Extract, Goto, OthersIdle, KeepsOrDrops, Busy, JobFits
  <2> QED BY <1>4, <2>1, LocklessStep DEF Extract, Locking
<1>5. CASE EmbedBatch(w)
  <2>1. OthersIdle(w) /\ KeepsOrDrops(w) /\ pc'[w] \in {"check", "poll", "beat"}
    <3>1. CASE Raise(w)
      BY <3>1, <1>a, RaiseKeeps DEF OthersIdle
    <3>2. CASE Goto(w, "beat") /\ UNCHANGED job
      BY <1>5, <3>2, <1>a, <1>b DEF EmbedBatch, Goto, OthersIdle, KeepsOrDrops, Busy, JobFits
    <3> QED BY <1>5, <3>1, <3>2 DEF EmbedBatch
  <2> QED BY <1>5, <2>1, LocklessStep DEF EmbedBatch, Locking
<1>6. CASE Heartbeat(w)
  <2>1. OthersIdle(w) /\ KeepsOrDrops(w) /\ pc'[w] \notin Locking
    <3>1. CASE Raise(w)
      BY <3>1, <1>a, RaiseKeeps DEF OthersIdle, Locking
    <3>2. CASE /\ Goto(w, IF batch[w] + 1 = Batches THEN "check" ELSE "embed")
               /\ UNCHANGED <<doc, attempt, verdict>>
      BY <1>6, <3>2, <1>a, <1>b
      DEF Heartbeat, Goto, OthersIdle, KeepsOrDrops, Busy, JobFits, Locking
    <3> QED BY <1>6, <3>1, <3>2 DEF Heartbeat, Commit
  <2>2. pc[w] = "beat" /\ locked[w] = {} /\ locked' = [locked EXCEPT ![w] = {}]
    BY <1>6, <1>a DEF Heartbeat, Commit, ReleaseLocks, LockFits
  <2>3. OthersKeep(w) /\ LockFits(w)'
    BY <2>1, <2>2, <1>b DEF OthersIdle, OthersKeep, LockFits, Locking
  <2>4. ASSUME NEW v \in Workers \ {w}, pc[v] = "requeue"
        PROVE  /\ cut'[v] \subseteq cut[v]
               /\ \A d \in cut[v] : status[d] = PROCESSING /\ UsedUp(d) => d \in cut'[v]
    <3>1. CASE StillOurs(w)
      <4>1. cut'[v] = cut[v] \ {doc[w]} /\ FreeFor(w, doc[w])
        BY <1>6, <3>1 DEF Heartbeat, ShowAlive
      <4>2. LockFits(v) BY <1>a DEF LocksInv
      <4>3. doc[w] \notin locked[v] BY <4>1 DEF FreeFor
      <4> QED BY <2>4, <4>1, <4>2, <4>3 DEF LockFits
    <3>2. CASE ~ StillOurs(w)
      BY <1>6, <3>2 DEF Heartbeat
    <3> QED BY <3>1, <3>2
  <2> QED BY <1>6, <2>2, <2>3, <2>4, <2>1, ReadingStep DEF Heartbeat, Safe
<1>7. CASE LockIfStillOurs(w)
  <2>1. CASE StillOurs(w)
    <3>1. /\ pc[w] = "check" /\ locked' = [locked EXCEPT ![w] = {doc[w]}]
          /\ pc' = [pc EXCEPT ![w] = "write"] /\ Free(doc[w])
          /\ UNCHANGED <<status, attempts, key, files, chunks, lastId, cut, doc, attempt, verdict>>
      BY <1>7, <2>1 DEF LockIfStillOurs, LockOurs, Goto
    <3>2. KeepsOrDrops(w) /\ doc[w] \in Ids
      BY <3>1, <1>a, <1>b DEF KeepsOrDrops, Busy, JobFits, TypeOK, StoreTypeOK
    <3>3. OthersKeep(w) /\ LockFits(w)'
      BY <3>1, <2>1, <1>b DEF OthersKeep, LockFits, StillOurs
    <3>4. \A v \in Workers \ {w} : locked[v] \cap {doc[w]} = {}
      BY <3>1 DEF Free
    <3> QED BY <3>1, <3>2, <3>3, <3>4, ReadingStep DEF Safe
  <2>2. CASE ~ StillOurs(w)
    <3>1. OthersIdle(w) /\ KeepsOrDrops(w) /\ pc'[w] = "poll"
      BY <1>7, <2>2, <1>a, EndTurnKeeps DEF LockIfStillOurs, OthersIdle
    <3> QED BY <1>7, <2>2, <3>1, LocklessStep DEF LockIfStillOurs, Locking
  <2> QED BY <2>1, <2>2
<1>8. CASE Restart(w)
  <2>1. OthersIdle(w) /\ KeepsOrDrops(w) /\ pc'[w] = "poll"
    BY <1>8, <1>a, EndTurnKeeps DEF Restart, OthersIdle
  <2> QED BY <1>8, <2>1, LocklessStep DEF Restart, Locking
<1> QED BY <1>1, <1>2, <1>3, <1>4, <1>5, <1>6, <1>7, <1>8

\* A rollback or a crash loses the locks and nothing of the tables.
LEMMA FaultySafe ==
  ASSUME NEW w \in Workers, IInv, Faulty(w)
  PROVE  Safe'
<1>a. TypeOK /\ JobsInv /\ LocksInv
  BY DEF IInv
<1>1. /\ locked' = [locked EXCEPT ![w] = {}]
      /\ cut' = [cut EXCEPT ![w] = {}]
      /\ UNCHANGED <<status, attempts, key, files, chunks, lastId>>
  BY DEF Faulty, StepFails, Crash, ReleaseLocks
<1>2. OthersIdle(w) /\ KeepsOrDrops(w) /\ pc'[w] \notin Locking
  <2>1. CASE Raise(w)
    BY <2>1, <1>a, RaiseKeeps DEF OthersIdle, Locking
  <2>2. CASE Goto(w, "down") /\ DropJob(w)
    BY <2>2, <1>a DEF Goto, DropJob, OthersIdle, KeepsOrDrops, Busy, Locking,
                      TypeOK, WorkerTypeOK, JobTypeOK
  <2> QED BY <2>1, <2>2 DEF Faulty, StepFails, Crash
<1>3. OthersKeep(w) /\ LockFits(w)'
  BY <1>1, <1>2, <1>a DEF OthersIdle, OthersKeep, LockFits, Locking, TypeOK, StoreTypeOK
<1>4. \A v \in Workers \ {w} : cut'[v] = cut[v]
  BY <1>1, <1>a DEF TypeOK, WorkerTypeOK, WorldTypeOK
<1>5. \A v \in Workers \ {w} : locked[v] \cap {} = {}
  OBVIOUS
<1>6. \A v \in Workers \ {w} : pc[v] = "requeue" =>
         /\ cut'[v] \subseteq cut[v]
         /\ \A d \in cut[v] : status[d] = PROCESSING /\ UsedUp(d) => d \in cut'[v]
  BY <1>4
<1> QED BY <1>1, <1>2, <1>3, <1>5, <1>6, ReadingStep DEF Safe

\* FOR UPDATE SKIP LOCKED: the claimed row was nobody's.
LEMMA ClaimSelectSafe ==
  ASSUME NEW w \in Workers, IInv, ClaimSelect(w)
  PROVE  Safe'
<1>a. TypeOK /\ JobsInv /\ LocksInv /\ OneOwner /\ RowFacts
  BY DEF IInv, RowFacts
<1>1. PICK d \in Claimable :
        /\ pc[w] = "claim" /\ pc' = [pc EXCEPT ![w] = "claiming"]
        /\ doc' = [doc EXCEPT ![w] = d]
        /\ attempt' = [attempt EXCEPT ![w] = attempts[d]]
        /\ locked' = [locked EXCEPT ![w] = {d}]
        /\ UNCHANGED <<tables, cut, batch, verdict>>
  BY DEF ClaimSelect, Goto
<1>2. d \in Ids /\ status[d] = QUEUED /\ Free(d) /\ d \in 1..lastId
  BY <1>1, <1>a DEF Claimable, Rows, RowFacts, RowsInv, Exists, TypeOK, StoreTypeOK
<1>3. \A v \in Workers \ {w} : pc'[v] = pc[v] /\ doc'[v] = doc[v]
         /\ attempt'[v] = attempt[v] /\ verdict'[v] = verdict[v] /\ locked'[v] = locked[v]
  BY <1>1, <1>a DEF TypeOK, WorkerTypeOK, JobTypeOK, StoreTypeOK
<1>4. pc'[w] = "claiming" /\ doc'[w] = d /\ attempt'[w] = attempts[d] /\ locked'[w] = {d}
  BY <1>1, <1>a DEF TypeOK, WorkerTypeOK, JobTypeOK, StoreTypeOK
<1>5. RowFacts'
  BY <1>1, <1>a, RowsKept
<1>6. JobsInv' /\ OneOwner'
  BY <1>1, <1>2, <1>3, <1>4, <1>a DEF JobsInv, JobFits, OneOwner, Busy
<1>7. LocksInv'
  <2>1. LockFits(w)'
    BY <1>1, <1>2, <1>4 DEF LockFits
  <2>2. ASSUME NEW v \in Workers \ {w} PROVE LockFits(v)'
    BY <1>1, <1>3, <1>a DEF LockFits, LocksInv, StillOurs, UsedUp
  <2>3. \A u, v \in Workers : u # v => locked'[u] \cap locked'[v] = {}
    <3>1. {d} \in SUBSET Ids /\ \A v \in Workers \ {w} : locked[v] \cap {d} = {}
      BY <1>2 DEF Free
    <3> QED BY <1>1, <3>1, <1>a, LocksApart
  <2> QED BY <2>1, <2>2, <2>3 DEF LocksInv
<1> QED BY <1>5, <1>6, <1>7 DEF Safe

\* The claim counts an attempt nobody else can hold.
LEMMA ClaimCommitSafe ==
  ASSUME NEW w \in Workers, IInv, ClaimCommit(w)
  PROVE  Safe'
<1> DEFINE d == doc[w]
<1>a. TypeOK /\ JobsInv /\ LocksInv /\ OneOwner /\ RowFacts /\ LockFits(w) /\ JobFits(w)
  BY DEF IInv, RowFacts, LocksInv, JobsInv
<1>b. /\ pc \in [Workers -> Places] /\ locked \in [Workers -> SUBSET Ids]
      /\ attempt \in [Workers -> Nat] /\ attempts \in [Ids -> Nat]
      /\ status \in [Ids -> Statuses] /\ lastId \in 0..MaxId /\ MaxAttempts \in Nat \ {0}
  BY <1>a, WorkerAssumption DEF TypeOK, WorkerTypeOK, JobTypeOK, StoreTypeOK
<1>1. /\ pc[w] = "claiming"
      /\ status' = [status EXCEPT ![d] = PROCESSING]
      /\ attempts' = [attempts EXCEPT ![d] = attempt[w] + 1]
      /\ \A v \in Workers : cut'[v] = cut[v] \ {d}
      /\ locked' = [locked EXCEPT ![w] = {}]
      /\ UNCHANGED <<key, files, chunks, lastId>>
  BY DEF ClaimCommit, NextAttempt, ShowAlive, Commit, ReleaseLocks
<1>2. /\ d \in Ids /\ d \in 1..lastId /\ locked[w] = {d}
      /\ status[d] = QUEUED /\ attempts[d] = attempt[w] /\ attempts[d] < MaxAttempts
  BY <1>1, <1>a, <1>b DEF LockFits, JobFits, RowFacts, RowsInv
<1>3. status'[d] = PROCESSING /\ attempts'[d] = attempts[d] + 1
  BY <1>1, <1>2, <1>b
<1>4. \A e \in Ids \ {d} : status'[e] = status[e] /\ attempts'[e] = attempts[e]
  BY <1>1, <1>2, <1>b
<1>5. OthersIdle(w)
  BY <1>a DEF ClaimCommit, Commit, Raise, InTry, Busy, EndTurn, DropJob, Decide, Goto, OthersIdle,
              TypeOK, WorkerTypeOK, JobTypeOK
<1>6. \/ ~ Busy(w)' /\ pc'[w] = "poll"
      \/ pc'[w] = "read" /\ doc'[w] = d /\ attempt'[w] = attempts'[d]
  <2>1. CASE Raise(w)
    BY <2>1, <1>1, <1>b DEF Raise, InTry, Busy, EndTurn, Goto
  <2>2. CASE Goto(w, "read") /\ attempt' = [attempt EXCEPT ![w] = NextAttempt(w)] /\ UNCHANGED doc
    BY <2>2, <1>2, <1>3, <1>b DEF Goto, NextAttempt
  <2> QED BY <2>1, <2>2 DEF ClaimCommit, Commit
<1>7. RowFacts'
  <2>0. RowsInv /\ FileIffPending /\ ChunksIffReady /\ OneDocumentPerFile
    BY <1>a DEF RowFacts
  <2>1. RowsInv'
    BY <2>0, <1>1, <1>2, <1>3, <1>4, <1>b DEF RowsInv, Exists
  <2>2. FileIffPending'
    BY <2>0, <1>1, <1>2, <1>3, <1>4 DEF FileIffPending
  <2>3. ChunksIffReady'
    BY <2>0, <1>1, <1>2, <1>3, <1>4 DEF ChunksIffReady
  <2>4. OneDocumentPerFile'
    BY <2>0, <1>1, <1>2, <1>3, <1>4 DEF OneDocumentPerFile, Exists
  <2> QED BY <2>1, <2>2, <2>3, <2>4 DEF RowFacts
<1>8. JobsInv'
  <2>1. JobFits(w)'
    BY <1>1, <1>2, <1>3, <1>6, <1>b DEF JobFits, Busy
  <2>2. ASSUME NEW v \in Workers \ {w} PROVE JobFits(v)'
    <3>1. /\ pc'[v] = pc[v] /\ doc'[v] = doc[v] /\ attempt'[v] = attempt[v]
          /\ verdict'[v] = verdict[v] /\ lastId' = lastId /\ JobFits(v)
      BY <1>1, <1>5, <1>a DEF OthersIdle, JobsInv
    <3>2. Busy(v)' <=> Busy(v)
      BY <3>1 DEF Busy
    <3>3. Busy(v) => attempts'[doc[v]] \in Nat /\ attempts[doc[v]] <= attempts'[doc[v]]
      <4>1. \A e \in Ids : attempts'[e] \in Nat /\ attempts[e] <= attempts'[e]
        BY <1>2, <1>3, <1>4, <1>b
      <4>2. Busy(v) => doc[v] \in Ids
        BY <1>b, <3>1, StoreAssumption DEF JobFits, Ids
      <4> QED BY <4>1, <4>2
    <3>4. Busy(v) => attempt[v] \in 1..attempts'[doc[v]]
      <4>1. Busy(v) => attempts[doc[v]] \in Nat /\ attempt[v] \in Nat
        BY <1>b, <3>1, StoreAssumption DEF JobFits, Ids
      <4> QED BY <3>1, <3>3, <4>1 DEF JobFits
    <3> QED BY <3>1, <3>2, <3>4 DEF JobFits
  <2> QED BY <2>1, <2>2 DEF JobsInv
<1>9. OneOwner'
  <2>1. \A v \in Workers \ {w} : Busy(v) /\ doc[v] = d => attempt[v] <= attempts[d]
    BY <1>2, <1>a, <1>b DEF JobsInv, JobFits
  <2> QED BY <2>1, <1>2, <1>3, <1>5, <1>6, <1>a, <1>b DEF OneOwner, OthersIdle, Busy
<1>10. LocksInv'
  <2>1. LockFits(w)'
    BY <1>1, <1>6, <1>b DEF LockFits, Busy
  <2>2. \A v \in Workers \ {w} : locked'[v] = locked[v] /\ d \notin locked[v]
    BY <1>1, <1>2, <1>a, <1>b DEF LocksInv
  <2>3. \A v \in Workers \ {w} : LockFits(v)'
    <3>1. OthersKeep(w)
      BY <2>2, <1>5 DEF OthersIdle, OthersKeep
    <3>2. ASSUME NEW v \in Workers \ {w}, NEW e \in locked[v]
          PROVE  /\ status'[e] = status[e] /\ attempts'[e] = attempts[e]
                 /\ e \in cut[v] => e \in cut'[v]
      <4>1. e \in Ids \ {d} BY <2>2, <1>b
      <4> QED BY <4>1, <1>1, <1>4
    <3>3. ASSUME NEW v \in Workers \ {w}, NEW e \in cut'[v]
          PROVE  e \in cut[v] /\ status'[e] = status[e] /\ attempts'[e] = attempts[e]
      <4>1. cut[v] \subseteq Ids BY <1>a DEF TypeOK, WorkerTypeOK, WorldTypeOK
      <4> QED BY <4>1, <1>1, <1>4
    <3> HIDE DEF d
    <3> QED BY <3>1, <3>2, <3>3, <1>a, LocksKept
  <2>4. \A u, v \in Workers : u # v => locked'[u] \cap locked'[v] = {}
    BY <1>1, <1>a, LocksDropped
  <2> QED BY <2>1, <2>3, <2>4 DEF LocksInv
<1> QED BY <1>7, <1>8, <1>9, <1>10 DEF Safe

\* The rescue's two UPDATEs and its DELETE agree on which documents have used up
\* their attempts, and touch no row another worker has locked.
LEMMA RequeueSafe ==
  ASSUME NEW w \in Workers, IInv, RequeueAbandoned(w)
  PROVE  Safe'
<1> DEFINE failed == locked[w]
           requeued == Abandoned(w) \ failed
<1>a. TypeOK /\ JobsInv /\ LocksInv /\ OneOwner /\ RowFacts /\ LockFits(w) /\ JobFits(w)
  BY DEF IInv, RowFacts, LocksInv, JobsInv
<1>b. /\ pc \in [Workers -> Places] /\ locked \in [Workers -> SUBSET Ids]
      /\ attempt \in [Workers -> Nat] /\ attempts \in [Ids -> Nat]
      /\ status \in [Ids -> Statuses] /\ cut \in [Workers -> SUBSET Ids]
      /\ MaxAttempts \in Nat \ {0}
  BY <1>a, WorkerAssumption DEF TypeOK, WorkerTypeOK, JobTypeOK, WorldTypeOK, StoreTypeOK
<1>1. /\ pc[w] = "requeue"
      /\ \A d \in requeued : FreeFor(w, d)
      /\ status' = [d \in Ids |-> CASE d \in failed -> FAILED
                                    [] d \in requeued -> QUEUED
                                    [] OTHER -> status[d]]
      /\ files' = FilesOf(failed)
      /\ cut' = [cut EXCEPT ![w] = {}]
      /\ locked' = [locked EXCEPT ![w] = {}]
      /\ UNCHANGED <<attempts, key, chunks, lastId>>
  BY DEF RequeueAbandoned, Commit, ReleaseLocks
<1>2. failed = {d \in cut[w] : status[d] = PROCESSING /\ attempts[d] >= MaxAttempts}
  BY <1>1, <1>a DEF LockFits, UsedUp
<1>3. requeued = {d \in cut[w] : status[d] = PROCESSING /\ attempts[d] < MaxAttempts}
  BY <1>2, <1>b DEF Abandoned
<1>4. /\ \A d \in failed : d \in Ids /\ status[d] = PROCESSING /\ status'[d] = FAILED
      /\ \A d \in requeued : d \in Ids /\ status[d] = PROCESSING /\ attempts[d] < MaxAttempts
                            /\ status'[d] = QUEUED
      /\ \A d \in Ids : d \notin failed /\ d \notin requeued => status'[d] = status[d]
  BY <1>1, <1>2, <1>3, <1>b
<1>5. OthersIdle(w) /\ KeepsOrDrops(w) /\ pc'[w] \in {"claim", "check", "poll"}
  <2>1. CASE Raise(w)
    BY <2>1, <1>a, RaiseKeeps DEF OthersIdle
  <2>2. CASE Goto(w, "claim") /\ UNCHANGED job
    BY <2>2, <1>b DEF Goto, OthersIdle, KeepsOrDrops, Busy
  <2> QED BY <2>1, <2>2 DEF RequeueAbandoned, Commit
<1>6. RowFacts'
  <2>1. RowsInv' BY <1>1, <1>4, <1>a, <1>b DEF RowFacts, RowsInv, Exists
  <2>2. \A d \in Ids : d \in files' <=> d \in files /\ d \notin failed
    BY <1>1, <1>a, <1>b DEF FilesOf, Rows, RowFacts, FileIffPending
  <2>3. FileIffPending' BY <1>4, <2>2, <1>a DEF RowFacts, FileIffPending
  <2>4. ChunksIffReady' BY <1>1, <1>4, <1>a DEF RowFacts, ChunksIffReady
  <2>5. OneDocumentPerFile' BY <1>1, <1>4, <1>a DEF RowFacts, OneDocumentPerFile, Exists
  <2> QED BY <2>1, <2>3, <2>4, <2>5 DEF RowFacts
<1>7. OthersKeep(w)
  BY <1>1, <1>5, <1>b DEF OthersKeep, OthersIdle
<1>8. JobsInv' /\ OneOwner'
  BY <1>1, <1>5, <1>7, <1>a, JobsKept
<1>9. LocksInv'
  <2>1. LockFits(w)'
    BY <1>1, <1>5, <1>b DEF LockFits
  <2>2. ASSUME NEW v \in Workers \ {w}, NEW d \in locked[v]
        PROVE  status'[d] = status[d]
    <3>1. d \notin failed BY <1>a DEF LocksInv
    <3>2. d \notin requeued BY <1>1, <2>2 DEF FreeFor
    <3> QED BY <3>1, <3>2, <1>4, <1>b
  <2>3. \A v \in Workers \ {w} : LockFits(v)'
    <3>1. \A v \in Workers \ {w} : cut'[v] = cut[v] /\ cut[v] \subseteq Ids
      BY <1>1, <1>b
    <3>2. \A e \in Ids : attempts'[e] = attempts[e]
                       /\ (status'[e] = PROCESSING => status[e] = PROCESSING)
      BY <1>1, <1>4
    <3>3. \A v \in Workers \ {w} : \A e \in locked[v] :
             status'[e] = status[e] /\ attempts'[e] = attempts[e]
             /\ (e \in cut[v] => e \in cut'[v])
      BY <2>2, <3>1, <1>1
    <3>4. \A v \in Workers \ {w} : \A e \in cut'[v] :
             status'[e] = PROCESSING /\ attempts'[e] >= MaxAttempts
               => e \in cut[v] /\ status[e] = PROCESSING /\ attempts[e] >= MaxAttempts
      BY <3>1, <3>2
    <3> QED BY <3>3, <3>4, <1>7, <1>a, LocksKept
  <2>4. \A u, v \in Workers : u # v => locked'[u] \cap locked'[v] = {}
    BY <1>1, <1>a, LocksDropped
  <2> QED BY <2>1, <2>3, <2>4 DEF LocksInv
<1> QED BY <1>6, <1>8, <1>9 DEF Safe

\* Writing the outcome under the row lock.
LEMMA FinishSafe ==
  ASSUME NEW w \in Workers, IInv, Finish(w)
  PROVE  Safe'
<1> DEFINE d == doc[w]
           out == Outcome(w)
<1>a. TypeOK /\ JobsInv /\ LocksInv /\ OneOwner /\ RowFacts /\ LockFits(w) /\ JobFits(w)
  BY DEF IInv, RowFacts, LocksInv, JobsInv
<1>b. /\ pc \in [Workers -> Places] /\ locked \in [Workers -> SUBSET Ids]
      /\ attempt \in [Workers -> Nat] /\ attempts \in [Ids -> Nat]
      /\ status \in [Ids -> Statuses] /\ cut \in [Workers -> SUBSET Ids]
      /\ chunks \in [Ids -> SUBSET Nat] /\ verdict[w] \in Verdicts
      /\ lastId \in 0..MaxId /\ MaxAttempts \in Nat \ {0}
  BY <1>a, WorkerAssumption DEF TypeOK, WorkerTypeOK, JobTypeOK, WorldTypeOK, StoreTypeOK
<1>1. /\ pc[w] = "write"
      /\ status' = [status EXCEPT ![d] = out]
      /\ chunks' = [chunks EXCEPT ![d] = IF out = READY THEN chunks[d] \cup {attempt[w]}
                                                       ELSE chunks[d]]
      /\ files' = IF out \in Terminal THEN files \ {d} ELSE files
      /\ locked' = [locked EXCEPT ![w] = {}]
      /\ UNCHANGED <<attempts, key, lastId, cut>>
  BY DEF Finish, SaveChunks, Commit, ReleaseLocks
<1>2. /\ d \in Ids /\ d \in 1..lastId /\ locked[w] = {d} /\ status[d] = PROCESSING
      /\ attempts[d] = attempt[w] /\ attempt[w] \in 1..MaxAttempts /\ verdict[w] # "none"
  BY <1>1, <1>a, <1>b DEF LockFits, JobFits, RowFacts, RowsInv, Busy, StillOurs
<1>3. out \in {READY, FAILED, QUEUED} /\ (out = QUEUED => attempt[w] < MaxAttempts)
  BY <1>2, <1>b DEF Outcome, Verdicts
<1> HIDE DEF out
<1>4. status'[d] = out /\ \A e \in Ids \ {d} : status'[e] = status[e] /\ chunks'[e] = chunks[e]
  BY <1>1, <1>2, <1>b
<1>5. OthersIdle(w) /\ KeepsOrDrops(w) /\ pc'[w] \in {"check", "poll"}
  <2>1. CASE Raise(w)
    BY <2>1, <1>a, RaiseKeeps DEF OthersIdle
  <2>2. CASE EndTurn(w)
    BY <2>2, <1>a, EndTurnKeeps DEF OthersIdle
  <2> QED BY <2>1, <2>2 DEF Finish, Commit
<1>6. RowFacts'
  <2>1. RowsInv' BY <1>1, <1>2, <1>3, <1>4, <1>a, <1>b DEF RowFacts, RowsInv, Exists
  <2>2. FileIffPending' BY <1>1, <1>2, <1>3, <1>4, <1>a DEF RowFacts, FileIffPending
  <2>3. ChunksIffReady'
    <3>1. chunks[d] = {} BY <1>2, <1>a DEF RowFacts, ChunksIffReady
    <3>2. chunks'[d] = IF out = READY THEN {attempt[w]} ELSE {} BY <1>1, <1>2, <1>b, <3>1
    <3> QED BY <1>2, <1>3, <1>4, <3>2, <1>a DEF RowFacts, ChunksIffReady
  <2>4. OneDocumentPerFile'
    BY <1>1, <1>2, <1>4, <1>a DEF RowFacts, OneDocumentPerFile, Exists
  <2> QED BY <2>1, <2>2, <2>3, <2>4 DEF RowFacts
<1>7. OthersKeep(w)
  BY <1>1, <1>5, <1>b DEF OthersKeep, OthersIdle
<1>8. JobsInv' /\ OneOwner'
  BY <1>1, <1>5, <1>7, <1>a, JobsKept
<1>9. LocksInv'
  <2>1. LockFits(w)'
    BY <1>1, <1>5, <1>b DEF LockFits
  <2>2. \A v \in Workers \ {w} : \A e \in locked[v] :
           status'[e] = status[e] /\ attempts'[e] = attempts[e]
           /\ (e \in cut[v] => e \in cut'[v])
    <3>1. \A v \in Workers \ {w} : locked[v] \subseteq Ids \ {d}
      BY <1>2, <1>a, <1>b DEF LocksInv
    <3> QED BY <3>1, <1>1, <1>4
  <2>3. \A v \in Workers \ {w} : \A e \in cut'[v] :
           status'[e] = PROCESSING /\ attempts'[e] >= MaxAttempts
             => e \in cut[v] /\ status[e] = PROCESSING /\ attempts[e] >= MaxAttempts
    <3>1. \A e \in Ids : status'[e] = PROCESSING => status[e] = PROCESSING
      BY <1>2, <1>3, <1>4
    <3> QED BY <3>1, <1>1, <1>b
  <2>4. \A v \in Workers \ {w} : LockFits(v)'
    BY <2>2, <2>3, <1>7, <1>a, LocksKept
  <2>5. \A u, v \in Workers : u # v => locked'[u] \cap locked'[v] = {}
    BY <1>1, <1>a, LocksDropped
  <2> QED BY <2>1, <2>4, <2>5 DEF LocksInv
<1> QED BY <1>6, <1>8, <1>9 DEF Safe

\* Steps outside the workers: their own variables, and the rows they lock,
\* stay as they are.
LEMMA WorkersUndisturbed ==
  ASSUME IInv, UNCHANGED <<pc, doc, attempt, verdict, cut, locked>>,
         \A v \in Workers : \A d \in locked[v] :
            status'[d] = status[d] /\ attempts'[d] = attempts[d],
         \A d \in Ids : status'[d] = PROCESSING
            => status[d] = PROCESSING /\ attempts'[d] = attempts[d],
         \A d \in 1..lastId : attempts'[d] = attempts[d],
         lastId' \in Nat, lastId' >= lastId
  PROVE  LocksInv' /\ JobsInv' /\ OneOwner'
<1>a. /\ locked \in [Workers -> SUBSET Ids] /\ cut \in [Workers -> SUBSET Ids]
      /\ doc \in [Workers -> 0..MaxId] /\ lastId \in 0..MaxId
  BY DEF IInv, TypeOK, StoreTypeOK, WorkerTypeOK, JobTypeOK, WorldTypeOK
<1>1. JobsInv' /\ OneOwner'
  BY <1>a, StoreAssumption DEF IInv, JobsInv, JobFits, OneOwner, Busy
<1>2. ASSUME NEW v \in Workers PROVE LockFits(v)'
  <2>1. LockFits(v) BY DEF IInv, LocksInv
  <2>2. CASE pc[v] = "requeue"
    BY <1>a, <2>1, <2>2 DEF LockFits, UsedUp
  <2>3. CASE pc[v] # "requeue"
    BY <1>a, <2>1, <2>3 DEF LockFits, StillOurs
  <2> QED BY <2>2, <2>3
<1>3. LocksInv' BY <1>2 DEF IInv, LocksInv
<1> QED BY <1>1, <1>3

\* A new row has an id nobody works on and a file no other row has.
LEMMA UploadStepSafe ==
  ASSUME NEW r \in Requests, IInv, UploadStep(r), UNCHANGED <<workers, world>>
  PROVE  Safe'
<1>a. RowFacts /\ StoreTypeOK
  BY DEF IInv, RowFacts, TypeOK
<1>1. CASE UNCHANGED <<status, attempts, key, files, chunks, locked>> /\ lastId' \in {lastId, lastId + 1}
  <2>1. RowFacts'
    BY <1>1, <1>a
    DEF RowFacts, RowsInv, FileIffPending, ChunksIffReady, OneDocumentPerFile, Exists, StoreTypeOK
  <2>2. LocksInv' /\ JobsInv' /\ OneOwner'
    BY <1>1, <1>a, WorkersUndisturbed DEF StoreTypeOK
  <2> QED BY <2>1, <2>2 DEF Safe
<1>2. CASE Store(r) /\ Unique(upload[r].key) /\ Insert(lastId + 1, upload[r].key)
  <2> DEFINE d == lastId + 1
             k == upload[r].key
  <2>1. /\ d \in Ids /\ lastId' = d /\ lastId \in Nat /\ status[d] = NoRow
        /\ status' = [status EXCEPT ![d] = QUEUED] /\ attempts' = [attempts EXCEPT ![d] = 0]
        /\ key' = [key EXCEPT ![d] = k] /\ files' = files \cup {d}
        /\ UNCHANGED <<chunks, locked>>
        /\ \A e \in Ids : ~ (status[e] # NoRow /\ key[e] = k)
    <3>1. lastId \in Nat /\ d \in Ids /\ ~ (d <= lastId)
      BY <1>2, <1>a, StoreAssumption DEF Store, StoreTypeOK
    <3>2. status[d] = NoRow
      BY <3>1, <1>a DEF RowFacts, RowsInv, Exists
    <3>3. \A e \in Ids : ~ (status[e] # NoRow /\ key[e] = k)
      BY <1>2 DEF Unique, WithKey, Exists
    <3> QED BY <1>2, <3>1, <3>2, <3>3 DEF Store, Insert
  <2> HIDE DEF d, k
  <2>2. /\ status'[d] = QUEUED /\ attempts'[d] = 0 /\ key'[d] = k
        /\ \A e \in Ids \ {d} : /\ status'[e] = status[e] /\ attempts'[e] = attempts[e]
                               /\ key'[e] = key[e]
    BY <2>1, <1>a DEF StoreTypeOK
  <2>3. RowFacts'
    <3>1. RowsInv'
      BY <2>1, <2>2, <1>a, WorkerAssumption DEF d, RowFacts, RowsInv, Exists, StoreTypeOK
    <3>2. FileIffPending' BY <2>1, <2>2, <1>a DEF RowFacts, FileIffPending
    <3>3. ChunksIffReady' BY <2>1, <2>2, <1>a DEF RowFacts, ChunksIffReady
    <3>4. OneDocumentPerFile'
      BY <2>1, <2>2, <1>a DEF RowFacts, OneDocumentPerFile, Exists
    <3> QED BY <3>1, <3>2, <3>3, <3>4 DEF RowFacts
  <2>4. \A v \in Workers : d \notin locked[v]
    BY <2>1, <1>a DEF IInv, LocksInv, LockFits, StillOurs
  <2>5. LocksInv' /\ JobsInv' /\ OneOwner'
    <3>1. \A v \in Workers : \A e \in locked[v] : e \in Ids \ {d}
      BY <2>4, <1>a DEF StoreTypeOK
    <3>3. \A e \in 1..lastId : e \in Ids \ {d}
      BY <2>1, <1>a, StoreAssumption DEF d, StoreTypeOK
    <3>2. lastId' \in Nat /\ lastId' >= lastId
      BY <2>1 DEF d
    <3> QED BY <2>1, <2>2, <3>1, <3>2, <3>3, WorkersUndisturbed
  <2> QED BY <2>3, <2>5 DEF Safe
<1> QED BY <1>1, <1>2 DEF UploadStep, CheckDuplicate, CheckPending, Store, UploadFails

\* A delete waits for the row lock, so it never pulls a row from under a writer.
LEMMA DeleteSafe ==
  ASSUME NEW d \in Ids, IInv, Delete(d), UNCHANGED <<workers, world>>
  PROVE  Safe'
<1>a. RowFacts /\ StoreTypeOK
  BY DEF IInv, RowFacts, TypeOK
<1>1. /\ status' = [status EXCEPT ![d] = NoRow] /\ key' = [key EXCEPT ![d] = NoKey]
      /\ files' = files \ {d} /\ chunks' = [chunks EXCEPT ![d] = {}]
      /\ \A v \in Workers : d \notin locked[v]
      /\ UNCHANGED <<attempts, lastId, locked>>
  BY DEF Delete, Cascade, Free
<1>2. /\ status'[d] = NoRow /\ chunks'[d] = {}
      /\ \A e \in Ids \ {d} : status'[e] = status[e] /\ key'[e] = key[e] /\ chunks'[e] = chunks[e]
  BY <1>1, <1>a DEF StoreTypeOK
<1>3. RowFacts'
  <2>1. RowsInv' BY <1>1, <1>2, <1>a DEF RowFacts, RowsInv, Exists
  <2>2. FileIffPending' BY <1>1, <1>2, <1>a DEF RowFacts, FileIffPending
  <2>3. ChunksIffReady' BY <1>1, <1>2, <1>a DEF RowFacts, ChunksIffReady
  <2>4. OneDocumentPerFile' BY <1>1, <1>2, <1>a DEF RowFacts, OneDocumentPerFile, Exists
  <2> QED BY <2>1, <2>2, <2>3, <2>4 DEF RowFacts
<1>4. LocksInv' /\ JobsInv' /\ OneOwner'
  <2>1. \A v \in Workers : \A e \in locked[v] : e \in Ids \ {d}
    BY <1>1, <1>a DEF StoreTypeOK
  <2> QED BY <1>1, <1>2, <1>a, <2>1, WorkersUndisturbed DEF StoreTypeOK
<1> QED BY <1>3, <1>4 DEF Safe

\* Time and the embedding service change no column of the invariant but silent.
LEMMA WorldSafe ==
  ASSUME IInv, World
  PROVE  Safe'
<1>1. UNCHANGED <<status, attempts, key, files, chunks, lastId, locked, pc, doc, attempt, verdict, cut>>
  BY DEF World, Silence, EmbeddingStops, EmbeddingReturns
<1>2. RowFacts'
  BY <1>1, RowsKept DEF IInv, RowFacts
<1>3. LocksInv' /\ JobsInv' /\ OneOwner'
  BY <1>1, WorkersUndisturbed DEF IInv, TypeOK, StoreTypeOK
<1> QED BY <1>2, <1>3 DEF Safe

\* The inductive invariant holds of the empty tables.
LEMMA InitIInv == Init => IInv
<1> SUFFICES ASSUME Init PROVE IInv
  OBVIOUS
<1>1. TypeOK BY InitType
<1>2. RowsInv /\ FileIffPending /\ ChunksIffReady /\ OneDocumentPerFile
  BY WorkerAssumption DEF Init, StoreInit, RowsInv, FileIffPending, ChunksIffReady, OneDocumentPerFile, Exists
<1>3. LocksInv /\ JobsInv /\ OneOwner
  BY DEF Init, StoreInit, WorkerInit, LocksInv, LockFits, JobsInv, JobFits, OneOwner, Busy
<1> QED BY <1>1, <1>2, <1>3 DEF IInv

\* The inductive step: every step of every process keeps the invariant.
LEMMA Inductive == IInv /\ [Next]_vars => IInv'
<1> SUFFICES ASSUME IInv, [Next]_vars PROVE IInv'
  OBVIOUS
<1>1. TypeOK'
  BY TypeStep DEF IInv
<1>2. Safe'
  <2>1. CASE Api /\ UNCHANGED <<workers, world>>
    BY <2>1, UploadStepSafe, DeleteSafe DEF Api
  <2>2. CASE Working /\ UNCHANGED upload
    BY <2>2, ReadersSafe, ClaimSelectSafe, ClaimCommitSafe, RequeueSafe, FinishSafe, FaultySafe
    DEF Working, WorkerStep
  <2>3. CASE World
    BY <2>3, WorldSafe
  <2>4. CASE UNCHANGED vars
    <3>1. UNCHANGED <<status, attempts, key, files, chunks, lastId, locked, pc, doc, attempt, verdict, cut>>
      BY <2>4 DEF vars
    <3>2. RowFacts'
      BY <3>1, RowsKept DEF IInv, RowFacts
    <3>3. LocksInv' /\ JobsInv' /\ OneOwner'
      BY <3>1, WorkersUndisturbed DEF IInv, TypeOK, StoreTypeOK
    <3> QED BY <3>2, <3>3 DEF Safe
  <2> QED BY <2>1, <2>2, <2>3, <2>4 DEF Next
<1> QED BY <1>1, <1>2 DEF IInv, Safe, RowFacts

---------------------------------------------------------------------------
(* The theorems.                                                           *)

\* Every reachable state satisfies the inductive invariant.
THEOREM Invariant == Spec => []IInv
<1>1. Init => IInv BY InitIInv
<1>2. IInv /\ [Next]_vars => IInv' BY Inductive
<1> QED BY <1>1, <1>2, PTL DEF Spec

\* The columns and the workers' variables only ever hold values of their types.
THEOREM TypeCorrect == Spec => []TypeOK
<1>1. IInv => TypeOK BY DEF IInv
<1> QED BY <1>1, Invariant, PTL

\* Whatever order uploads, deletes, rescues, crashes and late results commit
\* in, the uploaded bytes are kept exactly while the document is pending.
THEOREM FilesKeptWhileNeeded == Spec => []FileIffPending
<1>1. IInv => FileIffPending BY DEF IInv
<1> QED BY <1>1, Invariant, PTL

\* A document is READY exactly when the chunks of one attempt are stored.
THEOREM ChunksOfOneAttempt == Spec => []ChunksIffReady
<1>1. IInv => ChunksIffReady BY DEF IInv
<1> QED BY <1>1, Invariant, PTL

\* Two workers never work on the same attempt at the same document.
THEOREM AttemptsAreOwned == Spec => []OneOwner
<1>1. IInv => OneOwner BY DEF IInv
<1> QED BY <1>1, Invariant, PTL

\* No document is started more often than worker_max_attempts allows.
THEOREM AttemptsStayBounded == Spec => []AttemptsBounded
<1>1. IInv => AttemptsBounded BY DEF IInv, RowsInv, AttemptsBounded
<1> QED BY <1>1, Invariant, PTL

\* A worker that passed _lock_if_still_ours still owns the document when it
\* commits.
THEOREM OwnershipLastsUntilCommit == Spec => []WriterOwns
<1>1. IInv => WriterOwns BY DEF IInv, LocksInv, LockFits, WriterOwns
<1> QED BY <1>1, Invariant, PTL

\* Racing uploads and deletes never leave two documents with the same file in
\* an organisation.
THEOREM FilesAreUnique == Spec => []OneDocumentPerFile
<1>1. IInv => OneDocumentPerFile BY DEF IInv
<1> QED BY <1>1, Invariant, PTL

---------------------------------------------------------------------------
(* The refinement: the queue implements DocumentLifecycle and never reopens*)
(* a settled document.  Both follow from what one step may do to the       *)
(* columns a caller of the API can see.                                    *)

\* Documents outside S keep their status, or move between QUEUED and
\* PROCESSING, which callers are not promised to tell apart.
Others(S) ==
  \A d \in Ids \ S : \/ status'[d] = status[d]
                     \/ status[d] \in Pending /\ status'[d] \in Pending

\* The five things a step may do.
Nothing == Others({}) /\ UNCHANGED <<chunks, lastId>>

Accepts ==
  /\ lastId + 1 \in Ids
  /\ lastId' = lastId + 1
  /\ status[lastId + 1] = NoRow
  /\ status'[lastId + 1] \in {QUEUED, NoRow}
  /\ Others({lastId + 1})
  /\ UNCHANGED chunks

Readies(d) ==
  /\ status[d] \in Pending
  /\ status'[d] = READY
  /\ \E a \in Nat : chunks' = [chunks EXCEPT ![d] = {a}]
  /\ Others({d})
  /\ UNCHANGED lastId

Fails(S) ==
  /\ \A d \in S : status[d] \in Pending /\ status'[d] = FAILED
  /\ Others(S)
  /\ UNCHANGED <<chunks, lastId>>

Deletes(d) ==
  /\ Exists(d)
  /\ status'[d] = NoRow
  /\ chunks' = [chunks EXCEPT ![d] = {}]
  /\ Others({d})
  /\ UNCHANGED lastId

Effect == \/ Nothing
          \/ Accepts
          \/ \E d \in Ids : Readies(d) \/ Deletes(d)
          \/ \E S \in SUBSET Ids : Fails(S)

---------------------------------------------------------------------------

\* Uploads accept or change nothing; a delete deletes.
LEMMA ApiEffect == IInv /\ Api => Effect
<1> SUFFICES ASSUME IInv, Api PROVE Effect
  OBVIOUS
<1>a. StoreTypeOK /\ RowsInv
  BY DEF IInv, TypeOK
<1>1. ASSUME NEW r \in Requests, Store(r) PROVE Effect
  <2>1. lastId + 1 \in Ids /\ ~ (lastId + 1 <= lastId) /\ lastId' = lastId + 1 /\ UNCHANGED chunks
    BY <1>1, <1>a, StoreAssumption DEF Store, Insert, StoreTypeOK
  <2>2. status[lastId + 1] = NoRow
    BY <2>1, <1>a DEF RowsInv, Exists
  <2>3. \/ status' = [status EXCEPT ![lastId + 1] = QUEUED]
        \/ status' = status
    BY <1>1 DEF Store, Insert
  <2>4. status'[lastId + 1] \in {QUEUED, NoRow} /\ Others({lastId + 1})
    BY <2>1, <2>2, <2>3, <1>a DEF StoreTypeOK, Others
  <2> QED BY <2>1, <2>2, <2>4 DEF Effect, Accepts
<1>2. ASSUME NEW d \in Ids, Delete(d) PROVE Effect
  <2>1. /\ Exists(d) /\ status' = [status EXCEPT ![d] = NoRow]
        /\ chunks' = [chunks EXCEPT ![d] = {}] /\ UNCHANGED lastId
    BY <1>2 DEF Delete, Cascade
  <2>2. status'[d] = NoRow /\ Others({d})
    BY <2>1, <1>a DEF StoreTypeOK, Others
  <2> QED BY <2>1, <2>2 DEF Effect, Deletes
<1>3. CASE UNCHANGED tables
  BY <1>3 DEF Effect, Nothing, Others
<1> QED BY <1>1, <1>2, <1>3 DEF Api, UploadStep, CheckDuplicate, CheckPending, UploadFails

\* requeue_stale_documents fails the used-up documents together.
LEMMA RequeueEffect ==
  ASSUME NEW w \in Workers, IInv, RequeueAbandoned(w)
  PROVE  Effect
<1>a. StoreTypeOK /\ LockFits(w) /\ cut[w] \in SUBSET Ids
  BY DEF IInv, TypeOK, LocksInv, WorkerTypeOK, WorldTypeOK
<1>1. /\ status' = [d \in Ids |-> CASE d \in locked[w] -> FAILED
                                    [] d \in Abandoned(w) \ locked[w] -> QUEUED
                                    [] OTHER -> status[d]]
      /\ UNCHANGED <<chunks, lastId>>
      /\ locked[w] = {d \in cut[w] : status[d] = PROCESSING /\ UsedUp(d)}
  BY <1>a DEF RequeueAbandoned, LockFits
<1>2. \A d \in locked[w] : d \in Ids /\ status[d] \in Pending /\ status'[d] = FAILED
  BY <1>1, <1>a
<1>3. Others(locked[w])
  BY <1>1, <1>a DEF Others, Abandoned
<1> QED BY <1>1, <1>2, <1>3 DEF Effect, Fails

\* A worker's last transaction settles its own pending document, and a READY
\* document gets the chunks of one attempt.
LEMMA FinishEffect ==
  ASSUME NEW w \in Workers, IInv, Finish(w)
  PROVE  Effect
<1> DEFINE d == doc[w]
           out == Outcome(w)
<1>a. StoreTypeOK /\ LockFits(w) /\ JobFits(w) /\ ChunksIffReady /\ verdict[w] \in Verdicts
      /\ attempt[w] \in Nat
  BY DEF IInv, TypeOK, LocksInv, JobsInv, WorkerTypeOK, JobTypeOK
<1>1. /\ d \in Ids /\ status[d] = PROCESSING
      /\ status' = [status EXCEPT ![d] = out] /\ UNCHANGED lastId
      /\ chunks' = [chunks EXCEPT ![d] = IF out = READY THEN chunks[d] \cup {attempt[w]}
                                                       ELSE chunks[d]]
  BY <1>a DEF Finish, SaveChunks, LockFits, StillOurs, JobFits, Busy, StoreTypeOK
<1>2. out \in {READY, FAILED, QUEUED}
  BY <1>a DEF Outcome, Verdicts, JobFits, Busy, Finish
<1> HIDE DEF d, out
<1>3. status'[d] = out /\ Others({d}) /\ chunks[d] = {}
  BY <1>1, <1>a DEF StoreTypeOK, Others, ChunksIffReady
<1>4. CASE out = READY
  <2>1. chunks' = [chunks EXCEPT ![d] = {attempt[w]}]
    BY <1>1, <1>3, <1>4
  <2> QED BY <2>1, <1>1, <1>3, <1>4, <1>a DEF Effect, Readies
<1>5. CASE out # READY
  <2>1. UNCHANGED chunks
    BY <1>1, <1>5, <1>a DEF StoreTypeOK
  <2>2. CASE out = FAILED
    BY <2>1, <2>2, <1>1, <1>3 DEF Effect, Fails
  <2>3. CASE out = QUEUED
    BY <2>1, <2>3, <1>1, <1>3 DEF Effect, Nothing, Others
  <2> QED BY <2>2, <2>3, <1>2, <1>5
<1> QED BY <1>4, <1>5

\* Every step of every process has one of the five effects.
LEMMA StepEffect == IInv /\ [Next]_vars => Effect
<1> SUFFICES ASSUME IInv, [Next]_vars PROVE Effect
  OBVIOUS
<1>1. ASSUME UNCHANGED <<status, chunks, lastId>> PROVE Effect
  BY <1>1 DEF Effect, Nothing, Others
<1>2. CASE Api
  BY <1>2, ApiEffect
<1>3. ASSUME NEW w \in Workers, WorkerStep(w) PROVE Effect
  <2>1. CASE ClaimCommit(w)
    <3>1. LockFits(w) /\ StoreTypeOK
      BY DEF IInv, LocksInv, TypeOK
    <3>2. /\ status[doc[w]] = QUEUED /\ status' = [status EXCEPT ![doc[w]] = PROCESSING]
          /\ UNCHANGED <<chunks, lastId>>
      BY <2>1, <3>1 DEF ClaimCommit, LockFits
    <3> QED BY <3>1, <3>2 DEF Effect, Nothing, Others, StoreTypeOK
  <2>2. CASE Heartbeat(w)
    BY <1>1, <2>2 DEF Heartbeat
  <2> QED BY <1>1, <1>3, <2>1, <2>2, RequeueEffect, FinishEffect
          DEF WorkerStep, FailAbandoned, ClaimNothing, ClaimSelect, ReadFile, Extract,
              EmbedBatch, LockIfStillOurs, Restart
<1>4. ASSUME NEW w \in Workers, Faulty(w) PROVE Effect
  BY <1>1, <1>4 DEF Faulty, StepFails, Crash
<1>5. CASE World
  BY <1>1, <1>5 DEF World, Silence, EmbeddingStops, EmbeddingReturns
<1>6. CASE UNCHANGED vars
  BY <1>1, <1>6 DEF vars
<1> QED BY <1>2, <1>3, <1>4, <1>5, <1>6 DEF Next, Working

---------------------------------------------------------------------------

\* A READY or FAILED document is never reopened, whoever comes late: a worker
\* that lost its claim, a rescue, a retry.
THEOREM SettledDocumentsStay == Spec => SettledStays
<1>1. IInv /\ [Next]_vars =>
        [\A d \in Ids : status[d] \in Terminal => status'[d] \in {status[d], NoRow}]_vars
  BY StepEffect DEF Effect, Nothing, Accepts, Readies, Fails, Deletes, Others
<1> QED BY <1>1, Invariant, PTL DEF Spec, SettledStays

---------------------------------------------------------------------------
(* The refinement.                                                         *)

\* The empty table is the abstract specification's initial state.
LEMMA InitRefines == Init => Lifecycle!Init
<1> SUFFICES ASSUME Init PROVE Lifecycle!Init
  OBVIOUS
<1>1. lifeOf = [d \in Ids |-> "unused"]
  BY DEF Init, StoreInit, lifeOf
<1>2. copiesOf = [d \in Ids |-> 0]
  BY FS_EmptySet DEF Init, StoreInit, copiesOf
<1> QED BY <1>1, <1>2 DEF Lifecycle!Init

\* Each effect is a step of the abstract specification, or no step at all.
LEMMA EffectRefines ==
  ASSUME IInv, lastId' \in 0..MaxId, Effect
  PROVE  [Lifecycle!Next]_(Lifecycle!vars)
<1>a. /\ status \in [Ids -> Statuses] /\ chunks \in [Ids -> SUBSET Nat]
      /\ lastId \in 0..MaxId /\ MaxId \in Nat
      /\ \A d \in Ids : status[d] # NoRow => d <= lastId
  BY StoreAssumption DEF IInv, TypeOK, StoreTypeOK, RowsInv, Exists
<1>b. /\ lifeOf = [d \in Ids |-> lifeOf[d]] /\ lifeOf' = [d \in Ids |-> lifeOf'[d]]
      /\ copiesOf = [d \in Ids |-> copiesOf[d]] /\ copiesOf' = [d \in Ids |-> copiesOf'[d]]
  BY DEF lifeOf, copiesOf
<1>c. \A d \in Ids : /\ copiesOf[d] = Cardinality(chunks[d])
                     /\ copiesOf'[d] = Cardinality(chunks'[d])
  BY DEF copiesOf
<1>d. UNCHANGED chunks => copiesOf' = copiesOf
  BY DEF copiesOf
<1>e. \A S \in SUBSET Ids : Others(S) /\ UNCHANGED lastId
         => \A d \in Ids \ S : lifeOf'[d] = lifeOf[d]
  BY <1>a DEF Others, lifeOf
<1>1. CASE Nothing
  <2>1. lifeOf' = lifeOf
    BY <1>1, <1>b, <1>e DEF Nothing
  <2> QED BY <1>1, <1>d, <2>1 DEF Nothing, Lifecycle!vars
<1>2. CASE Accepts
  <2> DEFINE d == lastId + 1
  <2>1. d \in Ids /\ lifeOf[d] = "unused" /\ lifeOf'[d] \in {"pending", "gone"}
    BY <1>2, <1>a DEF Accepts, lifeOf
  <2>2. \A e \in Ids \ {d} : lifeOf'[e] = lifeOf[e]
    BY <1>2, <1>a DEF Accepts, Others, lifeOf
  <2>3. lifeOf' = [lifeOf EXCEPT ![d] = lifeOf'[d]]
    BY <1>b, <2>1, <2>2
  <2>4. Lifecycle!Accept(d)
    BY <1>2, <1>d, <2>1, <2>3 DEF Accepts, Lifecycle!Accept
  <2> QED BY <2>1, <2>4 DEF Lifecycle!Next
<1>3. ASSUME NEW d \in Ids, Readies(d) PROVE Lifecycle!Ready(d)
  <2>1. lifeOf[d] = "pending" /\ lifeOf'[d] = "ready"
    BY <1>3, <1>a DEF Readies, lifeOf
  <2>2. \A e \in Ids \ {d} : lifeOf'[e] = lifeOf[e]
    BY <1>3, <1>e DEF Readies
  <2>3. lifeOf' = [lifeOf EXCEPT ![d] = "ready"]
    BY <1>b, <2>1, <2>2
  <2>4. copiesOf'[d] = 1 /\ \A e \in Ids \ {d} : copiesOf'[e] = copiesOf[e]
    <3>1. PICK a \in Nat : chunks' = [chunks EXCEPT ![d] = {a}]
      BY <1>3 DEF Readies
    <3>2. chunks'[d] = {a} /\ \A e \in Ids \ {d} : chunks'[e] = chunks[e]
      BY <3>1, <1>a
    <3>3. Cardinality({a}) = 1
      BY FS_Singleton
    <3> QED BY <3>2, <3>3, <1>c
  <2>5. copiesOf' = [copiesOf EXCEPT ![d] = 1]
    BY <1>b, <2>4
  <2> QED BY <2>1, <2>3, <2>5 DEF Lifecycle!Ready
<1>4. ASSUME NEW d \in Ids, Deletes(d) PROVE Lifecycle!Delete(d)
  <2>1. lifeOf[d] \in {"pending", "ready", "failed"} /\ lifeOf'[d] = "gone"
    BY <1>4, <1>a DEF Deletes, lifeOf, Exists
  <2>2. \A e \in Ids \ {d} : lifeOf'[e] = lifeOf[e]
    BY <1>4, <1>e DEF Deletes
  <2>3. lifeOf' = [lifeOf EXCEPT ![d] = "gone"]
    BY <1>b, <2>1, <2>2
  <2>4. copiesOf'[d] = 0 /\ \A e \in Ids \ {d} : copiesOf'[e] = copiesOf[e]
    BY <1>4, <1>a, <1>c, FS_EmptySet DEF Deletes
  <2>5. copiesOf' = [copiesOf EXCEPT ![d] = 0]
    BY <1>b, <2>4
  <2> QED BY <2>1, <2>3, <2>5 DEF Lifecycle!Delete
<1>5. ASSUME NEW S \in SUBSET Ids, Fails(S) PROVE Lifecycle!FailTogether(S)
  <2>1. \A d \in S : lifeOf[d] = "pending" /\ lifeOf'[d] = "failed"
    BY <1>5, <1>a DEF Fails, lifeOf
  <2>2. \A e \in Ids \ S : lifeOf'[e] = lifeOf[e]
    BY <1>5, <1>e DEF Fails
  <2>3. lifeOf' = [d \in Ids |-> IF d \in S THEN "failed" ELSE lifeOf[d]]
    BY <1>b, <2>1, <2>2
  <2> QED BY <1>5, <1>d, <2>1, <2>3 DEF Fails, Lifecycle!FailTogether
<1> QED BY <1>1, <1>2, <1>3, <1>4, <1>5 DEF Effect, Lifecycle!Next

\* What the pipeline promises, it keeps: uploads, workers, rescues, retries,
\* crashes and deletes together behave as DocumentLifecycle says.
THEOREM QueueImplementsLifecycle == Spec => ImplementsLifecycle
<1>1. Init => Lifecycle!Init BY InitRefines
<1>2. IInv /\ IInv' /\ [Next]_vars => [Lifecycle!Next]_(Lifecycle!vars)
  <2>1. IInv' => lastId' \in 0..MaxId
    BY DEF IInv, TypeOK, StoreTypeOK
  <2> QED BY <2>1, StepEffect, EffectRefines
<1> QED BY <1>1, <1>2, Invariant, PTL DEF Spec, ImplementsLifecycle, Lifecycle!Spec

---------------------------------------------------------------------------
(* The limit on waiting documents.                                         *)

\* The requests that were let through and have not inserted yet.
Admitted(o) == {r \in Requests : upload[r].at = "admitted" /\ upload[r].key[1] = o}

\* Whoever was let through counts as if it had inserted already.
RaceInv ==
  \A o \in Orgs :
    Cardinality(PendingOf(o)) + Cardinality(Admitted(o)) < MaxPending + Cardinality(Requests)

\* Both sets are finite, which the comparison of their sizes needs.
LEMMA RaceSets ==
  ASSUME NEW o \in Orgs
  PROVE  /\ IsFiniteSet(PendingOf(o)) /\ Cardinality(PendingOf(o)) \in Nat
         /\ IsFiniteSet(Admitted(o)) /\ Cardinality(Admitted(o)) \in Nat
         /\ Cardinality(Admitted(o)) <= Cardinality(Requests)
         /\ Cardinality(Requests) \in Nat /\ MaxPending \in Nat \ {0}
<1>1. IsFiniteSet(Ids)
  BY StoreAssumption, FS_Interval
<1>2. IsFiniteSet(PendingOf(o)) /\ Cardinality(PendingOf(o)) \in Nat
  BY <1>1, FS_Subset, FS_CardinalityType DEF PendingOf, Rows
<1>3. /\ IsFiniteSet(Admitted(o)) /\ Cardinality(Admitted(o)) \in Nat
      /\ Cardinality(Admitted(o)) <= Cardinality(Requests)
      /\ Cardinality(Requests) \in Nat
  BY UploadsAssumption, FS_Subset, FS_CardinalityType DEF Admitted
<1> QED
  BY <1>2, <1>3, UploadsAssumption

\* A step that adds neither a waiting document nor an admitted request.
LEMMA NoneAdded ==
  ASSUME RaceInv, NEW o \in Orgs,
         PendingOf(o)' \subseteq PendingOf(o), Admitted(o)' \subseteq Admitted(o)
  PROVE  Cardinality(PendingOf(o))' + Cardinality(Admitted(o))' < MaxPending + Cardinality(Requests)
<1>1. /\ Cardinality(PendingOf(o))' \in Nat /\ Cardinality(PendingOf(o))' <= Cardinality(PendingOf(o))
      /\ Cardinality(Admitted(o))' \in Nat /\ Cardinality(Admitted(o))' <= Cardinality(Admitted(o))
  BY RaceSets, FS_Subset, FS_CardinalityType
<1> QED
  BY <1>1, RaceSets DEF RaceInv

\* Only an insert makes a document wait that did not.
LEMMA WaitingStay ==
  ASSUME IInv, [Next]_vars, ~ \E r \in Requests : Store(r), NEW o \in Orgs
  PROVE  PendingOf(o)' \subseteq PendingOf(o)
<1> USE DEF PendingOf, Rows
<1>a. StoreTypeOK /\ RowsInv
  BY DEF IInv, TypeOK
<1>1. ASSUME NEW d \in Ids, Delete(d) PROVE PendingOf(o)' \subseteq PendingOf(o)
  BY <1>1, <1>a DEF Delete, StoreTypeOK
<1>2. CASE UNCHANGED key
  <2>1. \A d \in Ids : status'[d] \in Pending => status[d] \in Pending
    <3>1. CASE Accepts
      <4>1. ASSUME NEW d \in Ids, Delete(d) PROVE FALSE
        BY <4>1, <3>1, <1>a DEF Delete, Accepts, StoreTypeOK
      <4>2. ASSUME NEW w \in Workers, WorkerStep(w) \/ Faulty(w) PROVE lastId' = lastId
        BY <4>2
        DEF WorkerStep, Faulty, FailAbandoned, RequeueAbandoned, ClaimNothing, ClaimSelect,
            ClaimCommit, ReadFile, Extract, EmbedBatch, Heartbeat, LockIfStillOurs, Finish, Restart,
            StepFails, Crash
      <4> QED
        BY <3>1, <4>1, <4>2, <1>a
        DEF Accepts, Next, Api, UploadStep, CheckDuplicate, CheckPending, UploadFails, Working, World,
            Silence, EmbeddingStops, EmbeddingReturns, vars, StoreTypeOK
    <3> QED
      BY <3>1, StepEffect DEF Effect, Nothing, Readies, Deletes, Fails, Others
  <2> QED
    BY <1>2, <2>1
<1>3. UNCHANGED key \/ \E d \in Ids : Delete(d)
  <2>1. ASSUME NEW w \in Workers, WorkerStep(w) \/ Faulty(w) PROVE UNCHANGED key
    BY <2>1
    DEF WorkerStep, Faulty, FailAbandoned, RequeueAbandoned, ClaimNothing, ClaimSelect,
        ClaimCommit, ReadFile, Extract, EmbedBatch, Heartbeat, LockIfStillOurs, Finish, Restart,
        StepFails, Crash
  <2> QED
    BY <2>1 DEF Next, Api, UploadStep, CheckDuplicate, CheckPending, UploadFails, Working, World,
            Silence, EmbeddingStops, EmbeddingReturns, vars
<1> QED
  BY <1>1, <1>2, <1>3

\* A request is let through only while there is room, and counts from then on.
LEMMA RaceStep == IInv /\ RaceInv /\ [Next]_vars => RaceInv'
<1> SUFFICES ASSUME IInv, RaceInv, [Next]_vars, NEW o \in Orgs
             PROVE  Cardinality(PendingOf(o))' + Cardinality(Admitted(o))'
                      < MaxPending + Cardinality(Requests)
  BY DEF RaceInv
<1>a. StoreTypeOK /\ UploadTypeOK /\ RowsInv
  BY DEF IInv, TypeOK
<1>1. ASSUME NEW r \in Requests, Store(r)
      PROVE  Cardinality(PendingOf(o))' + Cardinality(Admitted(o))' < MaxPending + Cardinality(Requests)
  <2> DEFINE d == lastId + 1
  <2>1. /\ upload[r].at = "admitted" /\ upload' = [upload EXCEPT ![r] = NoUpload]
        /\ \/ Insert(d, upload[r].key)
           \/ UNCHANGED <<status, key>>
    BY <1>1 DEF Store
  <2>2. Admitted(o)' = Admitted(o) \ {r}
    BY <2>1, <1>a DEF Admitted, UploadTypeOK, NoUpload
  <2>3. CASE upload[r].key[1] = o
    <3>1. r \in Admitted(o)
      BY <2>1, <2>3 DEF Admitted
    <3>2. Cardinality(Admitted(o))' = Cardinality(Admitted(o)) - 1
      BY <2>2, <3>1, RaceSets, FS_RemoveElement
    <3>3. PendingOf(o)' \subseteq PendingOf(o) \cup {d}
      BY <2>1, <1>a DEF PendingOf, Rows, Insert, StoreTypeOK
    <3>4. /\ IsFiniteSet(PendingOf(o) \cup {d})
          /\ Cardinality(PendingOf(o) \cup {d}) <= Cardinality(PendingOf(o)) + 1
          /\ Cardinality(PendingOf(o) \cup {d}) \in Nat
      <4>1. /\ IsFiniteSet(PendingOf(o) \cup {d})
            /\ Cardinality(PendingOf(o) \cup {d}) =
                 IF d \in PendingOf(o) THEN Cardinality(PendingOf(o)) ELSE Cardinality(PendingOf(o)) + 1
        BY RaceSets, FS_AddElement
      <4> QED
        BY <4>1, RaceSets
    <3>5. Cardinality(PendingOf(o)') <= Cardinality(PendingOf(o) \cup {d}) /\ Cardinality(PendingOf(o)') \in Nat
      BY <3>3, <3>4, FS_Subset, FS_CardinalityType
    <3> QED
      BY <3>2, <3>4, <3>5, RaceSets DEF RaceInv
  <2>4. CASE upload[r].key[1] # o
    <3>1. PendingOf(o)' \subseteq PendingOf(o)
      BY <2>1, <2>4, <1>a DEF PendingOf, Rows, Insert, StoreTypeOK
    <3> QED
      BY <2>2, <3>1, NoneAdded
  <2> QED
    BY <2>3, <2>4
<1>2. CASE ~ \E r \in Requests : Store(r)
  <2>1. PendingOf(o)' \subseteq PendingOf(o)
    BY <1>2, WaitingStay
  <2>2. ASSUME NEW r \in Requests, CheckPending(r), HasRoom(upload[r].key[1]), upload[r].key[1] = o
        PROVE  Cardinality(PendingOf(o))' + Cardinality(Admitted(o))' < MaxPending + Cardinality(Requests)
    <3>1. Cardinality(PendingOf(o)) < MaxPending
      BY <2>2 DEF HasRoom
    <3>2. Cardinality(PendingOf(o)') <= Cardinality(PendingOf(o)) /\ Cardinality(PendingOf(o)') \in Nat
      BY <2>1, RaceSets, FS_Subset, FS_CardinalityType
    <3>3. Admitted(o)' \subseteq Requests
      BY DEF Admitted
    <3>4. Cardinality(Admitted(o)') <= Cardinality(Requests) /\ Cardinality(Admitted(o)') \in Nat
      BY <3>3, UploadsAssumption, FS_Subset, FS_CardinalityType
    <3> QED
      BY <3>1, <3>2, <3>4, RaceSets
  <2>3. CASE \A r \in Requests : CheckPending(r) => ~ HasRoom(upload[r].key[1]) \/ upload[r].key[1] # o
    <3>1. Admitted(o)' \subseteq Admitted(o)
      <4>1. ASSUME NEW r \in Requests, NEW k \in Keys, CheckDuplicate(r, k)
            PROVE  Admitted(o)' \subseteq Admitted(o)
        BY <4>1, <1>a DEF CheckDuplicate, Admitted, UploadTypeOK
      <4>2. ASSUME NEW r \in Requests, CheckPending(r) PROVE Admitted(o)' \subseteq Admitted(o)
        BY <4>2, <2>3, <1>a DEF CheckPending, Admitted, UploadTypeOK, NoUpload
      <4>3. ASSUME NEW r \in Requests, UploadFails(r) PROVE Admitted(o)' \subseteq Admitted(o)
        BY <4>3, <1>a DEF UploadFails, Admitted, UploadTypeOK, NoUpload
      <4>4. CASE UNCHANGED upload
        BY <4>4 DEF Admitted
      <4> QED
        BY <1>2, <4>1, <4>2, <4>3, <4>4 DEF Next, Api, UploadStep, Delete, vars
    <3> QED
      BY <2>1, <3>1, NoneAdded
  <2> QED
    BY <2>2, <2>3
<1> QED
  BY <1>1, <1>2

\* However many uploads pass the check of worker_max_pending together, an
\* organisation's waiting documents exceed it by less than the requests in flight.
THEOREM PendingStaysWithinRace == Spec => []PendingWithinRace
<1>1. Init => RaceInv
  <2> SUFFICES ASSUME Init, NEW o \in Orgs
               PROVE  Cardinality(PendingOf(o)) + Cardinality(Admitted(o)) < MaxPending + Cardinality(Requests)
    BY DEF RaceInv
  <2>1. PendingOf(o) = {} /\ Admitted(o) = {}
    BY DEF Init, StoreInit, UploadInit, NoUpload, PendingOf, Rows, Admitted
  <2> QED
    BY <2>1, FS_EmptySet, RaceSets
<1>2. IInv /\ RaceInv /\ [Next]_vars => RaceInv'
  BY RaceStep
<1>3. RaceInv => PendingWithinRace
  BY RaceSets DEF RaceInv, PendingWithinRace
<1> QED
  BY <1>1, <1>2, <1>3, Invariant, PTL DEF Spec

---------------------------------------------------------------------------
(* What a failed document has cost.                                        *)

\* No worker is slow enough to be taken for dead, and no outage is counted as
\* one fault that fails several attempts.
Cautious == ~ SlowWorkers /\ "embedding" \notin FaultKinds

\* w is the worker whose result for d would be accepted.
Owns(w, d) ==
  Busy(w) /\ doc[w] = d /\ status[d] = PROCESSING /\ attempts[d] = attempt[w]

\* What a rescue finds abandoned is nobody's.
Quiet(d) ==
  status[d] = PROCESSING /\ (silent[d] \/ \E v \in Workers : d \in cut[v])
    => \A w \in Workers : ~ Owns(w, d)

\* Every attempt has cost a fault, but for one that is still under way.
Charged(d) ==
  /\ status[d] = QUEUED => attempts[d] <= faults
  /\ status[d] = PROCESSING => attempts[d] <= faults + 1
  /\ status[d] = PROCESSING /\ (\A w \in Workers : Owns(w, d) => verdict[w] = RETRY)
       => attempts[d] <= faults
  /\ status[d] = FAILED /\ key[d][2] \notin Unreadable => MaxAttempts <= faults

\* Only what cannot be read is failed by a worker at work.
Doomed(d) ==
  \A w \in Workers : Owns(w, d) /\ verdict[w] = FAILED => key[d][2] \in Unreadable

DocInv(d) == Quiet(d) /\ Charged(d) /\ Doomed(d)

Clean(w) == ~ Busy(w) => verdict[w] = "none"

CostInv ==
  /\ embedUp
  /\ \A w \in Workers : Clean(w)
  /\ \A d \in Ids : DocInv(d)

\* A document whose row stays: its owner goes on or pays with a fault.
LEMMA RowGoesOn ==
  ASSUME NEW w \in Workers, NEW d \in Ids, IInv, DocInv(d), OthersIdle(w),
         faults' \in Nat, faults <= faults',
         status'[d] = status[d], attempts'[d] = attempts[d], key'[d] = key[d],
         silent'[d] \/ (\E v \in Workers : d \in cut'[v])
           => silent[d] \/ (\E v \in Workers : d \in cut[v]),
         Owns(w, d)' => Owns(w, d),
         Owns(w, d)' /\ verdict'[w] = FAILED => key[d][2] \in Unreadable,
         Owns(w, d) /\ verdict[w] # RETRY
           => (Owns(w, d)' /\ verdict'[w] # RETRY) \/ faults < faults'
  PROVE  DocInv(d)'
<1>1. \A v \in Workers \ {w} : (Owns(v, d)' <=> Owns(v, d)) /\ verdict'[v] = verdict[v]
  BY DEF OthersIdle, Owns, Busy
<1>2. faults \in Nat /\ attempts[d] \in Nat /\ MaxAttempts \in Nat
  BY WorkerAssumption DEF IInv, TypeOK, StoreTypeOK, WorkerTypeOK, WorldTypeOK
<1>3. Quiet(d)'
  BY <1>1 DEF DocInv, Quiet
<1>4. Doomed(d)'
  BY <1>1 DEF DocInv, Doomed
<1>5. Charged(d)'
  <2> USE DEF DocInv, Charged
  <2>1. ASSUME status[d] = PROCESSING, \A v \in Workers : Owns(v, d)' => verdict'[v] = RETRY
        PROVE  attempts[d] <= faults'
    <3>1. CASE Owns(w, d) /\ verdict[w] # RETRY
      BY <1>2, <2>1, <3>1
    <3>2. CASE Owns(w, d) => verdict[w] = RETRY
      BY <1>1, <1>2, <2>1, <3>2
    <3> QED
      BY <3>1, <3>2
  <2>2. status[d] = QUEUED => attempts[d] <= faults'
    BY <1>2
  <2>3. status[d] = PROCESSING => attempts[d] <= faults' + 1
    BY <1>2
  <2>4. status[d] = FAILED /\ key[d][2] \notin Unreadable => MaxAttempts <= faults'
    BY <1>2
  <2> QED
    BY <2>1, <2>2, <2>3, <2>4
<1> QED
  BY <1>3, <1>4, <1>5 DEF DocInv

\* A worker's step that leaves all rows.
LEMMA WorkerGoesOn ==
  ASSUME NEW w \in Workers, IInv, CostInv, OthersIdle(w), UNCHANGED <<status, attempts, key>>,
         embedUp', faults' \in Nat, faults <= faults',
         \A d \in Ids : silent'[d] \/ (\E v \in Workers : d \in cut'[v])
                          => silent[d] \/ (\E v \in Workers : d \in cut[v]),
         Clean(w)',
         Busy(w)' => Busy(w) /\ doc'[w] = doc[w] /\ attempt'[w] = attempt[w],
         Busy(w)' /\ verdict'[w] = FAILED
           => verdict[w] = FAILED \/ key[doc[w]][2] \in Unreadable,
         Owns(w, doc[w]) /\ verdict[w] # RETRY
           => (Busy(w)' /\ verdict'[w] # RETRY) \/ faults < faults'
  PROVE  CostInv'
<1>1. ASSUME NEW d \in Ids PROVE DocInv(d)'
  <2>1. DocInv(d)
    BY DEF CostInv
  <2>2. Owns(w, d)' => Owns(w, d)
    BY DEF Owns
  <2>3. Owns(w, d)' /\ verdict'[w] = FAILED => key[d][2] \in Unreadable
    BY <2>1, <2>2 DEF DocInv, Doomed, Owns
  <2>4. Owns(w, d) /\ verdict[w] # RETRY
          => (Owns(w, d)' /\ verdict'[w] # RETRY) \/ faults < faults'
    BY DEF Owns
  <2> QED
    BY <2>1, <2>2, <2>3, <2>4, RowGoesOn
<1>2. \A v \in Workers : Clean(v)'
  BY DEF CostInv, Clean, OthersIdle, Busy
<1> QED
  BY <1>1, <1>2 DEF CostInv

\* After an exception a worker retries or has nothing.
LEMMA RaiseCost ==
  ASSUME NEW w \in Workers, TypeOK, Raise(w) \/ EndTurn(w) \/ (Goto(w, "down") /\ DropJob(w))
  PROVE  /\ OthersIdle(w) /\ Clean(w)'
         /\ Busy(w)' => Busy(w) /\ doc'[w] = doc[w] /\ attempt'[w] = attempt[w] /\ verdict'[w] = RETRY
         /\ EndTurn(w) => ~ Busy(w)'
<1> USE DEF TypeOK, WorkerTypeOK, JobTypeOK, Goto, Places, OthersIdle, Clean, Busy
<1>1. CASE InTry(w) /\ Raise(w)
  BY <1>1 DEF Raise, InTry, Decide, EndTurn, DropJob
<1>2. CASE EndTurn(w)
  BY <1>2 DEF EndTurn, DropJob
<1>3. CASE Goto(w, "down") /\ DropJob(w)
  BY <1>3 DEF DropJob
<1> QED
  BY <1>1, <1>2, <1>3 DEF Raise

\* A fault is paid for once.
LEMMA FaultPaid ==
  ASSUME IInv, NEW kind, Fault(kind)
  PROVE  faults' \in Nat /\ faults < faults' /\ faults' = faults + 1
BY DEF IInv, TypeOK, WorkerTypeOK, WorldTypeOK, Fault

\* The steps that leave the rows alone.
LEMMA ReadersCost ==
  ASSUME NEW w \in Workers, IInv, CostInv,
         \/ FailAbandoned(w) \/ ClaimNothing(w) \/ ClaimSelect(w) \/ ReadFile(w) \/ Extract(w)
         \/ EmbedBatch(w) \/ Heartbeat(w) \/ LockIfStillOurs(w) \/ Restart(w) \/ Faulty(w)
  PROVE  CostInv'
<1>a. /\ TypeOK /\ JobFits(w) /\ LockFits(w) /\ FileIffPending
      /\ embedUp /\ Clean(w) /\ faults \in Nat
  BY DEF IInv, JobsInv, LocksInv, CostInv, TypeOK, WorkerTypeOK, WorldTypeOK
<1>b. /\ pc \in [Workers -> Places] /\ cut \in [Workers -> SUBSET Ids]
      /\ doc \in [Workers -> 0..MaxId] /\ attempt \in [Workers -> Nat]
      /\ verdict \in [Workers -> Verdicts] /\ silent \in [Ids -> BOOLEAN]
  BY <1>a DEF TypeOK, WorkerTypeOK, JobTypeOK, WorldTypeOK, StoreTypeOK
<1>1. CASE FailAbandoned(w)
  <2>1. /\ pc[w] = "poll" /\ pc' = [pc EXCEPT ![w] = "requeue"]
        /\ cut' = [cut EXCEPT ![w] = {d \in Ids : silent[d]}]
        /\ UNCHANGED <<status, attempts, key, silent, doc, attempt, verdict, embedUp, faults>>
    BY <1>1 DEF FailAbandoned, Goto
  <2>2. \A d \in Ids : (\E v \in Workers : d \in cut'[v])
                          => silent[d] \/ (\E v \in Workers : d \in cut[v])
    BY <2>1, <1>b
  <2>3. OthersIdle(w) /\ Clean(w)' /\ ~ Busy(w) /\ ~ Busy(w)'
    BY <2>1, <1>a, <1>b DEF OthersIdle, Clean, Busy
  <2> QED
    BY <2>1, <2>2, <2>3, <1>a, WorkerGoesOn DEF Owns
<1>2. CASE ClaimNothing(w) \/ Restart(w)
  <2>1. /\ EndTurn(w) /\ ~ Busy(w)
        /\ UNCHANGED <<status, attempts, key, silent, cut, embedUp, faults>>
    BY <1>2 DEF ClaimNothing, Restart, Busy
  <2>2. OthersIdle(w) /\ Clean(w)' /\ ~ Busy(w)'
    BY <2>1, <1>a, RaiseCost
  <2> QED
    BY <2>1, <2>2, <1>a, WorkerGoesOn DEF Owns
<1>3. CASE ClaimSelect(w)
  <2>1. /\ pc[w] = "claim" /\ pc' = [pc EXCEPT ![w] = "claiming"]
        /\ \A v \in Workers \ {w} : doc'[v] = doc[v] /\ attempt'[v] = attempt[v]
        /\ UNCHANGED <<status, attempts, key, silent, cut, verdict, embedUp, faults>>
    BY <1>3, <1>b DEF ClaimSelect, Goto
  <2>2. OthersIdle(w) /\ Clean(w)' /\ ~ Busy(w) /\ ~ Busy(w)'
    BY <2>1, <1>a, <1>b DEF OthersIdle, Clean, Busy
  <2> QED
    BY <2>1, <2>2, <1>a, WorkerGoesOn DEF Owns
<1>4. CASE ReadFile(w)
  <2>1. pc[w] = "read" /\ UNCHANGED <<status, attempts, key, silent, cut, embedUp, faults>>
    BY <1>4 DEF ReadFile
  <2>2. CASE /\ Goto(w, "extract")
             /\ Decide(w, IF key[doc[w]][2] \in Unreadable THEN FAILED ELSE READY)
    <3>1. OthersIdle(w) /\ Clean(w)' /\ Busy(w) /\ Busy(w)' /\ UNCHANGED <<doc, attempt>>
      BY <2>1, <2>2, <1>b DEF Goto, Decide, OthersIdle, Clean, Busy
    <3>2. verdict'[w] # RETRY /\ (verdict'[w] = FAILED => key[doc[w]][2] \in Unreadable)
      BY <2>2, <1>b DEF Decide
    <3> QED
      BY <2>1, <3>1, <3>2, <1>a, WorkerGoesOn
  <2>3. CASE doc[w] \notin files /\ EndTurn(w)
    <3>1. OthersIdle(w) /\ Clean(w)' /\ ~ Busy(w)'
      BY <2>3, <1>a, RaiseCost
    <3>2. ~ Owns(w, doc[w])
      <4>1. doc[w] \in Ids
        BY <2>1, <1>a, StoreAssumption DEF JobFits, Busy, TypeOK, StoreTypeOK
      <4> QED
        BY <4>1, <2>3, <1>a DEF FileIffPending, Owns
    <3> QED
      BY <2>1, <3>1, <3>2, <1>a, WorkerGoesOn
  <2> QED
    BY <1>4, <2>2, <2>3 DEF ReadFile
<1>5. CASE Extract(w) \/ EmbedBatch(w)
  <2>1. /\ UNCHANGED <<status, attempts, key, silent, cut, embedUp, faults, doc, attempt, verdict>>
        /\ pc[w] \in {"extract", "embed"}
        /\ \E place \in {"check", "embed", "beat"} : pc' = [pc EXCEPT ![w] = place]
    BY <1>5, <1>a DEF Extract, EmbedBatch, Goto
  <2>2. OthersIdle(w) /\ Clean(w)' /\ Busy(w) /\ Busy(w)'
    BY <2>1, <1>b DEF OthersIdle, Clean, Busy
  <2> QED
    BY <2>1, <2>2, <1>a, WorkerGoesOn
<1>6. CASE Heartbeat(w)
  <2>1. /\ pc[w] = "beat" /\ UNCHANGED <<status, attempts, key, embedUp>>
        /\ \A d \in Ids : silent'[d] => silent[d]
        /\ \A v \in Workers : cut'[v] \subseteq cut[v]
    <3>1. pc[w] = "beat" /\ UNCHANGED <<status, attempts, key, embedUp>>
      BY <1>6 DEF Heartbeat, Commit
    <3>2. CASE ShowAlive(doc[w])
      <4>1. silent' = [silent EXCEPT ![doc[w]] = FALSE] /\ \A v \in Workers : cut'[v] = cut[v] \ {doc[w]}
        BY <3>2 DEF ShowAlive
      <4>2. \A d \in Ids : silent'[d] = IF d = doc[w] THEN FALSE ELSE silent[d]
        BY <4>1, <1>b
      <4> QED
        BY <3>1, <4>1, <4>2
    <3>3. CASE UNCHANGED <<silent, cut>>
      BY <3>1, <3>3
    <3> QED
      BY <1>6, <3>2, <3>3 DEF Heartbeat
  <2>2. CASE Raise(w) /\ Fault("exception")
    <3>1. OthersIdle(w) /\ Clean(w)'
          /\ (Busy(w)' => Busy(w) /\ doc'[w] = doc[w] /\ attempt'[w] = attempt[w] /\ verdict'[w] = RETRY)
      BY <2>2, <1>a, RaiseCost
    <3> QED
      BY <2>1, <2>2, <3>1, <1>a, FaultPaid, WorkerGoesOn
  <2>3. CASE /\ Goto(w, IF batch[w] + 1 = Batches THEN "check" ELSE "embed")
             /\ UNCHANGED <<doc, attempt, verdict, faults>>
    <3>1. OthersIdle(w) /\ Clean(w)' /\ Busy(w) /\ Busy(w)'
      BY <2>1, <2>3, <1>b DEF Goto, OthersIdle, Clean, Busy
    <3> QED
      BY <2>1, <2>3, <3>1, <1>a, WorkerGoesOn
  <2> QED
    BY <1>6, <2>2, <2>3 DEF Heartbeat, Commit
<1>7. CASE LockIfStillOurs(w)
  <2>1. pc[w] = "check" /\ UNCHANGED <<status, attempts, key, silent, cut, embedUp, faults>>
    BY <1>7 DEF LockIfStillOurs
  <2>2. CASE Goto(w, "write") /\ UNCHANGED job
    <3>1. OthersIdle(w) /\ Clean(w)' /\ Busy(w) /\ Busy(w)'
      BY <2>1, <2>2, <1>b DEF Goto, OthersIdle, Clean, Busy
    <3> QED
      BY <2>1, <2>2, <3>1, <1>a, WorkerGoesOn
  <2>3. CASE ~ StillOurs(w) /\ EndTurn(w)
    <3>1. OthersIdle(w) /\ Clean(w)' /\ ~ Busy(w)'
      BY <2>3, <1>a, RaiseCost
    <3>2. ~ Owns(w, doc[w])
      BY <2>3 DEF StillOurs, Owns
    <3> QED
      BY <2>1, <3>1, <3>2, <1>a, WorkerGoesOn
  <2> QED
    BY <1>7, <2>2, <2>3 DEF LockIfStillOurs
<1>8. CASE Faulty(w)
  <2>1. /\ UNCHANGED <<status, attempts, key, silent, embedUp>>
        /\ cut' = [cut EXCEPT ![w] = {}]
        /\ Fault("exception") \/ Fault("crash")
        /\ Raise(w) \/ (Goto(w, "down") /\ DropJob(w))
    BY <1>8 DEF Faulty, StepFails, Crash
  <2>2. OthersIdle(w) /\ Clean(w)'
        /\ (Busy(w)' => Busy(w) /\ doc'[w] = doc[w] /\ attempt'[w] = attempt[w] /\ verdict'[w] = RETRY)
    BY <2>1, <1>a, RaiseCost
  <2>3. \A v \in Workers : cut'[v] \subseteq cut[v]
    BY <2>1, <1>b
  <2> QED
    BY <2>1, <2>2, <2>3, <1>a, FaultPaid, WorkerGoesOn
<1> QED
  BY <1>1, <1>2, <1>3, <1>4, <1>5, <1>6, <1>7, <1>8

\* A claim begins an attempt that is not paid for; nobody else holds it.
LEMMA ClaimCommitCost ==
  ASSUME NEW w \in Workers, IInv, CostInv, ClaimCommit(w)
  PROVE  CostInv'
<1>a. /\ TypeOK /\ JobsInv /\ LockFits(w) /\ JobFits(w) /\ faults \in Nat
      /\ Clean(w) /\ embedUp /\ DOMAIN silent = Ids
  BY DEF IInv, LocksInv, JobsInv, CostInv, TypeOK, WorkerTypeOK, WorldTypeOK, StoreTypeOK
<1>b. /\ attempt \in [Workers -> Nat] /\ attempts \in [Ids -> Nat] /\ verdict \in [Workers -> Verdicts]
      /\ status \in [Ids -> Statuses] /\ lastId \in 0..MaxId /\ MaxId \in Nat /\ pc \in [Workers -> Places]
  BY <1>a, StoreAssumption DEF TypeOK, WorkerTypeOK, JobTypeOK, StoreTypeOK
<1>0. doc[w] \in Ids /\ status[doc[w]] = QUEUED /\ attempts[doc[w]] = attempt[w]
  BY <1>a, <1>b DEF ClaimCommit, LockFits, JobFits
<1> PICK d \in Ids : d = doc[w]
  BY <1>0
<1>1. /\ pc[w] = "claiming"
      /\ status' = [status EXCEPT ![d] = PROCESSING]
      /\ attempts' = [attempts EXCEPT ![d] = attempt[w] + 1]
      /\ silent' = [silent EXCEPT ![d] = FALSE]
      /\ \A v \in Workers : cut'[v] = cut[v] \ {d}
      /\ UNCHANGED <<key, embedUp>>
  BY DEF ClaimCommit, NextAttempt, ShowAlive, Commit
<1>2. d \in Ids /\ status[d] = QUEUED /\ attempts[d] = attempt[w] /\ ~ Busy(w) /\ verdict[w] = "none"
  BY <1>0, <1>1, <1>a DEF Busy, Clean
<1>3. status'[d] = PROCESSING /\ attempts'[d] = attempts[d] + 1 /\ ~ silent'[d]
  BY <1>1, <1>2, <1>a, <1>b
<1>4. \A e \in Ids \ {d} : status'[e] = status[e] /\ attempts'[e] = attempts[e] /\ silent'[e] = silent[e]
  BY <1>1, <1>2, <1>a, <1>b
<1>5. /\ OthersIdle(w) /\ Clean(w)' /\ faults' \in Nat /\ faults <= faults'
      /\ \/ ~ Busy(w)' /\ faults' = faults + 1
         \/ Busy(w)' /\ doc'[w] = d /\ attempt'[w] = attempts'[d] /\ verdict'[w] = "none"
  <2>1. CASE Raise(w) /\ Fault("exception")
    BY <2>1, <1>2, <1>a, RaiseCost, FaultPaid
  <2>2. CASE /\ Goto(w, "read") /\ attempt' = [attempt EXCEPT ![w] = NextAttempt(w)]
             /\ UNCHANGED <<doc, verdict, faults>>
    BY <2>2, <1>2, <1>3, <1>a, <1>b DEF Goto, NextAttempt, OthersIdle, Clean, Busy
  <2> QED
    BY <2>1, <2>2 DEF ClaimCommit, Commit
<1>6. ASSUME NEW v \in Workers \ {w} PROVE ~ Owns(v, d)'
  <2>1. Busy(v) /\ doc[v] = d => attempt[v] <= attempts[d] /\ attempt[v] \in Nat
    BY <1>2, <1>a, <1>b DEF JobsInv, JobFits
  <2> QED
    BY <2>1, <1>2, <1>3, <1>5, <1>b DEF Owns, OthersIdle, Busy
<1>7. DocInv(d)'
  <2>1. attempts[d] <= faults /\ attempts[d] \in Nat
    BY <1>2, <1>b DEF CostInv, DocInv, Charged
  <2>2. Quiet(d)'
    BY <1>1, <1>3 DEF Quiet
  <2>3. Doomed(d)'
    BY <1>5, <1>6 DEF Doomed, Owns
  <2>4. Charged(d)'
    <3>1. ASSUME \A v \in Workers : Owns(v, d)' => verdict'[v] = RETRY PROVE attempts'[d] <= faults'
      <4>1. CASE Busy(w)' /\ doc'[w] = d /\ attempt'[w] = attempts'[d] /\ verdict'[w] = "none"
        BY <4>1, <3>1, <1>3 DEF Owns
      <4>2. CASE faults' = faults + 1
        BY <4>2, <2>1, <1>3, <1>a
      <4> QED
        BY <4>1, <4>2, <1>5
    <3>2. attempts'[d] <= faults' + 1
      BY <2>1, <1>3, <1>5, <1>a
    <3> QED
      BY <3>1, <3>2, <1>3 DEF Charged
  <2> QED
    BY <2>2, <2>3, <2>4 DEF DocInv
<1>8. ASSUME NEW e \in Ids \ {d} PROVE DocInv(e)'
  <2>1. ~ Owns(w, e) /\ ~ Owns(w, e)'
    BY <1>2, <1>5 DEF Owns
  <2>2. DocInv(e)
    BY DEF CostInv
  <2>3. key'[e] = key[e] /\ (silent'[e] \/ (\E v \in Workers : e \in cut'[v])
                              => silent[e] \/ (\E v \in Workers : e \in cut[v]))
    BY <1>1, <1>4
  <2> QED
    BY <2>1, <2>2, <2>3, <1>4, <1>5, RowGoesOn
<1>9. \A v \in Workers : Clean(v)'
  BY <1>5 DEF CostInv, Clean, OthersIdle, Busy
<1> QED
  BY <1>1, <1>7, <1>8, <1>9, <1>a DEF CostInv

\* The rescue fails or requeues what nobody works on, which was paid for.
LEMMA RequeueCost ==
  ASSUME NEW w \in Workers, IInv, CostInv, RequeueAbandoned(w)
  PROVE  CostInv'
<1>a. /\ TypeOK /\ LockFits(w) /\ Clean(w) /\ embedUp /\ faults \in Nat
      /\ attempts \in [Ids -> Nat] /\ cut \in [Workers -> SUBSET Ids] /\ verdict \in [Workers -> Verdicts]
      /\ pc \in [Workers -> Places] /\ MaxAttempts \in Nat
  BY WorkerAssumption DEF IInv, LocksInv, CostInv, TypeOK, WorkerTypeOK, JobTypeOK, WorldTypeOK, StoreTypeOK
<1>1. /\ pc[w] = "requeue" /\ ~ Busy(w)
      /\ status' = [d \in Ids |-> CASE d \in locked[w] -> FAILED
                                    [] d \in Abandoned(w) \ locked[w] -> QUEUED
                                    [] OTHER -> status[d]]
      /\ cut' = [cut EXCEPT ![w] = {}]
      /\ UNCHANGED <<attempts, silent, key, embedUp>>
      /\ locked[w] = {d \in cut[w] : status[d] = PROCESSING /\ UsedUp(d)}
  BY <1>a DEF RequeueAbandoned, Commit, LockFits, Busy
<1>2. /\ OthersIdle(w) /\ Clean(w)' /\ ~ Busy(w)' /\ faults' \in Nat /\ faults <= faults'
  <2>1. CASE Raise(w) /\ Fault("exception")
    BY <2>1, <1>1, <1>a, RaiseCost, FaultPaid
  <2>2. CASE Goto(w, "claim") /\ UNCHANGED <<job, faults>>
    BY <2>2, <1>1, <1>a DEF Goto, OthersIdle, Clean, Busy
  <2> QED
    BY <2>1, <2>2 DEF RequeueAbandoned, Commit
<1>3. ASSUME NEW d \in Ids PROVE DocInv(d)'
  <2>1. DocInv(d)
    BY DEF CostInv
  <2>2. CASE d \in cut[w] /\ status[d] = PROCESSING
    <3>1. attempts[d] <= faults
      BY <2>1, <2>2 DEF DocInv, Quiet, Charged
    <3>2. \/ status'[d] = FAILED /\ attempts[d] >= MaxAttempts
          \/ status'[d] = QUEUED
      BY <1>1, <2>2 DEF UsedUp, Abandoned
    <3>3. attempts'[d] = attempts[d]
      BY <1>1
    <3> QED
      BY <1>2, <3>1, <3>2, <3>3, <1>a DEF DocInv, Quiet, Charged, Doomed, Owns
  <2>3. CASE ~ (d \in cut[w] /\ status[d] = PROCESSING)
    <3>1. status'[d] = status[d]
      BY <1>1, <2>3 DEF Abandoned
    <3>2. ~ Owns(w, d) /\ ~ Owns(w, d)'
      BY <1>1, <1>2 DEF Owns
    <3>3. silent'[d] \/ (\E v \in Workers : d \in cut'[v])
            => silent[d] \/ (\E v \in Workers : d \in cut[v])
      BY <1>1, <1>a
    <3> QED
      BY <2>1, <3>1, <3>2, <3>3, <1>1, <1>2, RowGoesOn
  <2> QED
    BY <2>2, <2>3
<1>4. \A v \in Workers : Clean(v)'
  BY <1>2 DEF CostInv, Clean, OthersIdle, Busy
<1> QED
  BY <1>1, <1>3, <1>4, <1>a DEF CostInv

\* The handler's decision about a document is its owner's, who paid for the attempt.
LEMMA FinishCost ==
  ASSUME NEW w \in Workers, IInv, CostInv, Finish(w)
  PROVE  CostInv'
<1>a. /\ TypeOK /\ LockFits(w) /\ JobFits(w) /\ OneOwner /\ Clean(w) /\ embedUp /\ faults \in Nat
      /\ attempts \in [Ids -> Nat] /\ status \in [Ids -> Statuses] /\ verdict \in [Workers -> Verdicts]
      /\ MaxAttempts \in Nat
  BY WorkerAssumption
  DEF IInv, LocksInv, JobsInv, CostInv, TypeOK, WorkerTypeOK, JobTypeOK, WorldTypeOK, StoreTypeOK
<1>0. pc[w] = "write" /\ Busy(w) /\ doc[w] \in Ids
  <2>1. pc[w] = "write" /\ Busy(w)
    BY DEF Finish, Busy
  <2> QED
    BY <2>1, <1>a, StoreAssumption DEF JobFits, TypeOK, StoreTypeOK
<1> PICK d \in Ids : d = doc[w]
  BY <1>0
<1>1. /\ pc[w] = "write" /\ Busy(w) /\ d \in Ids /\ Owns(w, d) /\ verdict[w] # "none"
      /\ status' = [status EXCEPT ![d] = Outcome(w)]
      /\ UNCHANGED <<attempts, silent, key, cut, embedUp>>
  BY <1>0, <1>a DEF Finish, Commit, LockFits, StillOurs, Owns, JobFits
<1>2. /\ OthersIdle(w) /\ Clean(w)' /\ faults' \in Nat /\ faults <= faults'
      /\ Busy(w)' => doc'[w] = doc[w]
  <2>1. CASE Raise(w) /\ Fault("exception")
    BY <2>1, <1>a, RaiseCost, FaultPaid
  <2>2. CASE EndTurn(w) /\ UNCHANGED faults
    BY <2>2, <1>a, RaiseCost
  <2> QED
    BY <2>1, <2>2 DEF Finish, Commit
<1>3. DocInv(d)'
  <2>1. DocInv(d)
    BY <1>1 DEF CostInv
  <2>2. status'[d] = Outcome(w) /\ attempts'[d] = attempts[d] /\ attempts[d] = attempt[w] /\ key'[d] = key[d]
    BY <1>1, <1>a DEF Owns
  <2>3. CASE verdict[w] = RETRY
    <3>1. \A v \in Workers : Owns(v, d) => v = w
      BY <1>1, <1>a DEF OneOwner, Owns
    <3>2. attempts[d] <= faults
      BY <1>1, <2>1, <2>3, <3>1 DEF DocInv, Charged, Owns
    <3>3. status'[d] = IF attempts[d] >= MaxAttempts THEN FAILED ELSE QUEUED
      BY <2>2, <2>3 DEF Outcome
    <3> QED
      BY <1>2, <1>a, <2>2, <3>2, <3>3 DEF DocInv, Quiet, Charged, Doomed, Owns
  <2>4. CASE verdict[w] \in {READY, FAILED}
    <3>1. status'[d] = verdict[w]
      BY <2>2, <2>4 DEF Outcome
    <3>2. verdict[w] = FAILED => key[d][2] \in Unreadable
      BY <1>1, <2>1 DEF DocInv, Doomed
    <3> QED
      BY <2>2, <2>4, <3>1, <3>2 DEF DocInv, Quiet, Charged, Doomed, Owns
  <2> QED
    BY <1>1, <1>a, <2>3, <2>4 DEF Verdicts
<1>4. ASSUME NEW e \in Ids \ {d} PROVE DocInv(e)'
  <2>1. ~ Owns(w, e) /\ ~ Owns(w, e)' /\ status'[e] = status[e]
    BY <1>1, <1>2, <1>a DEF Owns
  <2>2. DocInv(e)
    BY DEF CostInv
  <2> QED
    BY <2>1, <2>2, <1>1, <1>2, RowGoesOn
<1>5. \A v \in Workers : Clean(v)'
  BY <1>2 DEF CostInv, Clean, OthersIdle, Busy
<1> QED
  BY <1>1, <1>3, <1>4, <1>5, <1>a DEF CostInv

\* A step of nobody's worker, which leaves a document as it is or takes it away,
\* adds a new one or lets time pass over one that nobody works on.
LEMMA OutsideCost ==
  ASSUME IInv, CostInv, Cautious, UNCHANGED workers, (Api /\ UNCHANGED world) \/ World
  PROVE  CostInv'
<1>a. /\ TypeOK /\ StoreTypeOK /\ embedUp /\ faults \in Nat /\ attempts \in [Ids -> Nat]
      /\ lastId \in 0..MaxId /\ MaxId \in Nat
  BY StoreAssumption DEF IInv, CostInv, TypeOK, WorkerTypeOK, WorldTypeOK, StoreTypeOK
<1>1. UNCHANGED <<pc, doc, attempt, verdict, cut, embedUp, faults>>
  <2>1. ~ EmbeddingStops /\ ~ EmbeddingReturns
    BY <1>a DEF Cautious, EmbeddingStops, EmbeddingReturns, Fault
  <2> QED
    BY <2>1 DEF World, Silence
<1>2. \A w \in Workers : Clean(w)'
  BY <1>1 DEF CostInv, Clean, Busy
<1>3. ASSUME NEW d \in Ids PROVE DocInv(d)'
  <2>1. DocInv(d)
    BY DEF CostInv
  <2>2. CASE status'[d] = status[d] /\ attempts'[d] = attempts[d] /\ key'[d] = key[d] /\ silent'[d] = silent[d]
    BY <1>1, <2>1, <2>2 DEF DocInv, Quiet, Charged, Doomed, Owns, Busy
  <2>3. CASE status'[d] = NoRow
    BY <2>3 DEF DocInv, Quiet, Charged, Doomed, Owns
  <2>4. CASE status'[d] = QUEUED /\ attempts'[d] = 0
    BY <1>1, <1>a, <2>4 DEF DocInv, Quiet, Charged, Doomed, Owns
  <2>5. CASE /\ status'[d] = status[d] /\ attempts'[d] = attempts[d] /\ key'[d] = key[d]
             /\ \A w \in Workers : ~ Owns(w, d)
    BY <1>1, <2>1, <2>5 DEF DocInv, Quiet, Charged, Doomed, Owns, Busy
  <2>6. ASSUME NEW r \in Requests, Store(r)
        PROVE  \/ status'[d] = status[d] /\ attempts'[d] = attempts[d] /\ key'[d] = key[d] /\ silent'[d] = silent[d]
               \/ status'[d] = QUEUED /\ attempts'[d] = 0
    BY <2>6, <1>a DEF Store, Insert, StoreTypeOK
  <2>7. ASSUME NEW e \in Ids, Delete(e)
        PROVE  \/ status'[d] = status[d] /\ attempts'[d] = attempts[d] /\ key'[d] = key[d] /\ silent'[d] = silent[d]
               \/ status'[d] = NoRow
    BY <2>7, <1>a DEF Delete, StoreTypeOK
  <2>8. ASSUME NEW e \in Ids, Silence(e)
        PROVE  \/ status'[d] = status[d] /\ attempts'[d] = attempts[d] /\ key'[d] = key[d] /\ silent'[d] = silent[d]
               \/ /\ status'[d] = status[d] /\ attempts'[d] = attempts[d] /\ key'[d] = key[d]
                  /\ \A w \in Workers : ~ Owns(w, d)
    <3>1. UNCHANGED <<status, attempts, key>> /\ silent' = [silent EXCEPT ![e] = TRUE]
      BY <2>8 DEF Silence
    <3>2. \A w \in Workers : ~ Owns(w, e)
      BY <2>8 DEF Silence, Cautious, Owns, StillOurs
    <3> QED
      BY <3>1, <3>2, <1>a DEF StoreTypeOK
  <2>9. CASE UNCHANGED tables
    BY <2>2, <2>9
  <2> QED
    BY <2>2, <2>3, <2>4, <2>5, <2>6, <2>7, <2>8, <2>9
    DEF Api, UploadStep, CheckDuplicate, CheckPending, UploadFails, World, EmbeddingStops, EmbeddingReturns
<1> QED
  BY <1>1, <1>2, <1>3, <1>a DEF CostInv

\* Every step keeps the account.
LEMMA CostStep == Cautious /\ IInv /\ CostInv /\ [Next]_vars => CostInv'
<1> SUFFICES ASSUME Cautious, IInv, CostInv, [Next]_vars PROVE CostInv'
  OBVIOUS
<1>1. ASSUME NEW w \in Workers, WorkerStep(w) \/ Faulty(w) PROVE CostInv'
  BY <1>1, ReadersCost, ClaimCommitCost, RequeueCost, FinishCost DEF WorkerStep
<1>2. CASE Api /\ UNCHANGED <<workers, world>>
  BY <1>2, OutsideCost
<1>3. CASE World
  <2>1. UNCHANGED workers
    BY <1>3 DEF World, Silence, EmbeddingStops, EmbeddingReturns
  <2> QED
    BY <1>3, <2>1, OutsideCost
<1>4. CASE UNCHANGED vars
  BY <1>4 DEF vars, CostInv, DocInv, Quiet, Charged, Doomed, Owns, Clean, Busy
<1> QED
  BY <1>1, <1>2, <1>3, <1>4 DEF Next, Working

\* No document is started too often; and with workers that are never taken for
\* dead and no outage of the embedding service, a readable one is given up only
\* after a fault for each attempt: no crash, lost commit or exception costs two.
THEOREM RetryBudgetIsKept ==
  ASSUME Cautious
  PROVE  Spec => []RetryBudgetKept
<1>1. Init => CostInv
  <2> SUFFICES ASSUME Init PROVE CostInv
    OBVIOUS
  <2> QED
    BY DEF Init, StoreInit, WorkerInit, CostInv, DocInv, Quiet, Charged, Doomed, Owns, Clean, Busy
<1>2. IInv /\ CostInv /\ [Next]_vars => CostInv'
  BY CostStep
<1>3. CostInv => FailedForAReason
  <2> SUFFICES ASSUME CostInv, NEW d \in Ids, status[d] = FAILED, key[d][2] \notin Unreadable
               PROVE  faults >= MaxAttempts
    BY DEF FailedForAReason
  <2>1. MaxAttempts <= faults
    BY DEF CostInv, DocInv, Charged
  <2> QED
    BY <2>1
<1>4. AttemptsBounded /\ FailedForAReason => RetryBudgetKept
  BY DEF RetryBudgetKept
<1> QED
  BY <1>1, <1>2, <1>3, <1>4, Invariant, AttemptsStayBounded, PTL DEF Spec

=============================================================================
