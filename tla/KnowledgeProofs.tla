-------------------------- MODULE KnowledgeProofs --------------------------
(***************************************************************************)
(* Theorems about Knowledge, for any number of documents, organisations,   *)
(* models, chunks, batches and restarts.                                   *)
(***************************************************************************)
EXTENDS Knowledge, SequenceTheorems, TLAPS

\* What a job has got so far was made by the model its process is set to.
JobsInv ==
  \A p \in DOMAIN job : job[p].at = "embedding" =>
    \A i \in 1..Len(job[p].vectors) : job[p].vectors[i] = setting[p]

\* VectorsOfNamedModel, chunk by chunk.
StoredInv ==
  \A d \in Documents : status[d] = "ready" =>
    /\ Len(vectors[d]) = Chunks
    /\ \A i \in 1..Chunks : vectors[d][i] = model[d]

\* A semantic question was embedded by the model the API is set to.
SearchInv ==
  /\ search.at = "idle" => search.hits = {}
  /\ search.mode = "semantic" /\ search.at # "idle" => search.vector = setting["api"]
  /\ HitsComparable

\* What the script still has to do, has done, or need not do any more.
ScriptInv ==
  /\ script.at \in {"running", "done"} =>
       \A d \in script.scope :
         \/ status[d] = "deleted"
         \/ status[d] = "ready" /\ (model[d] = setting["script"] \/ d \in script.todo)
  /\ script.at = "done" => script.todo = {}

IInv == KnowledgeTypeOK /\ JobsInv /\ StoredInv /\ SearchInv /\ ScriptInv

USE DEF Processes

---------------------------------------------------------------------------

\* Documents from before v8 have chunks without vectors, and name no model.
LEMMA InitIInv == KnowledgeInit => IInv
<1> SUFFICES ASSUME KnowledgeInit PROVE IInv
  OBVIOUS
<1> USE KnowledgeAssumption DEF KnowledgeInit
<1>1. KnowledgeTypeOK
  <2>1. [i \in 1..Chunks |-> Null] \in Seq(Vectors)
    BY DEF Vectors
  <2>2. vectors \in [Documents -> Seq(Vectors)]
    BY <2>1
  <2>3. job \in [{"worker", "script"} -> Jobs]
    BY DEF Jobs, NoJob
  <2> QED
    BY <2>2, <2>3 DEF KnowledgeTypeOK, Vectors, Scripts, Searches
<1>2. JobsInv
  BY DEF JobsInv, NoJob
<1>3. StoredInv
  BY DEF StoredInv
<1>4. SearchInv
  BY DEF SearchInv, HitsComparable
<1>5. ScriptInv
  BY DEF ScriptInv
<1> QED
  BY <1>1, <1>2, <1>3, <1>4, <1>5 DEF IInv

\* Vectors of one model, and more of the same.
LEMMA OneModel ==
  ASSUME NEW S, NEW m, NEW old \in Seq(S), NEW more \in Seq(S),
         \A i \in 1..Len(old) : old[i] = m,
         \A i \in 1..Len(more) : more[i] = m
  PROVE  /\ old \o more \in Seq(S)
         /\ \A i \in 1..Len(old \o more) : (old \o more)[i] = m
<1>1. /\ old \o more \in Seq(S)
      /\ Len(old \o more) = Len(old) + Len(more)
      /\ \A i \in 1..Len(old) + Len(more) :
           (old \o more)[i] = IF i <= Len(old) THEN old[i] ELSE more[i - Len(old)]
  BY ConcatProperties
<1>2. ASSUME NEW i \in 1..Len(old \o more) PROVE (old \o more)[i] = m
  <2>1. CASE i <= Len(old)
    BY <1>1, <2>1
  <2>2. CASE i > Len(old)
    BY <1>1, <2>2
  <2> QED
    BY <2>1, <2>2
<1> QED
  BY <1>1, <1>2

\* A batch is made by one model, the one that was asked for.
LEMMA BatchMade ==
  ASSUME IInv, NEW p \in {"worker", "script"}, EmbedBatch(p)
  PROVE  /\ job' \in [{"worker", "script"} -> Jobs]
         /\ JobsInv'
<1> DEFINE old  == job[p].vectors
           left == Chunks - Len(old)
           n    == IF left < Batch THEN left ELSE Batch
           more == [i \in 1..n |-> serving]
<1>1. /\ job \in [{"worker", "script"} -> Jobs] /\ job[p].at = "embedding"
      /\ serving \in Vectors
      /\ \A q \in {"worker", "script"} : job[q].at = "embedding" =>
           \A i \in 1..Len(job[q].vectors) : job[q].vectors[i] = setting[q]
  BY DEF IInv, KnowledgeTypeOK, JobsInv, EmbedBatch
<1>2. old \in Seq(Vectors)
  BY <1>1 DEF Jobs
<1>3. /\ left > 0 /\ serving = setting[p] /\ setting' = setting
      /\ job' = [job EXCEPT ![p].vectors = old \o more]
  BY DEF EmbedBatch, Refuses
<1>4. n \in Nat
  BY <1>2, <1>3, KnowledgeAssumption
<1> HIDE DEF n
<1>5. more \in Seq(Vectors) /\ \A i \in 1..Len(more) : more[i] = setting[p]
  BY <1>1, <1>3, <1>4
<1> HIDE DEF more
<1>6. old \o more \in Seq(Vectors) /\ \A i \in 1..Len(old \o more) : (old \o more)[i] = setting[p]
  BY <1>1, <1>2, <1>5, OneModel
<1>7. job' \in [{"worker", "script"} -> Jobs]
  BY <1>1, <1>3, <1>6 DEF Jobs
<1>8. /\ job'[p].vectors = old \o more
      /\ \A q \in {"worker", "script"} \ {p} : job'[q] = job[q]
  BY <1>1, <1>3 DEF Jobs
<1>9. JobsInv'
  <2> SUFFICES ASSUME NEW q \in {"worker", "script"}, job'[q].at = "embedding",
                      NEW i \in 1..Len(job'[q].vectors)
               PROVE  job'[q].vectors[i] = setting[q]
    BY <1>3, <1>7 DEF JobsInv
  <2>1. CASE q = p
    BY <1>6, <1>8, <2>1
  <2>2. CASE q # p
    BY <1>1, <1>8, <2>2
  <2> QED
    BY <2>1, <2>2
<1> QED
  BY <1>7, <1>9

\* What a job stores names the model that made it.
LEMMA VectorsStored ==
  ASSUME IInv, NEW p \in {"worker", "script"}, Embedded(p), StoreVectors(p, job[p].document),
         \A e \in Documents \ {job[p].document} : status'[e] = status[e]
  PROVE  /\ model' \in [Documents -> Vectors]
         /\ vectors' \in [Documents -> Seq(Vectors)]
         /\ StoredInv'
<1> DEFINE d == job[p].document
<1>1. /\ job[p] \in Jobs
      /\ Len(job[p].vectors) = Chunks
      /\ \A i \in 1..Chunks : job[p].vectors[i] = setting[p]
      /\ setting[p] \in Vectors
  BY DEF IInv, KnowledgeTypeOK, JobsInv, Embedded, Vectors
<1>2. model \in [Documents -> Vectors] /\ vectors \in [Documents -> Seq(Vectors)]
  BY DEF IInv, KnowledgeTypeOK
<1>3. model' = [model EXCEPT ![d] = setting[p]] /\ vectors' = [vectors EXCEPT ![d] = job[p].vectors]
  BY DEF StoreVectors
<1>4. model' \in [Documents -> Vectors] /\ vectors' \in [Documents -> Seq(Vectors)]
  BY <1>1, <1>2, <1>3 DEF Jobs
<1>5. StoredInv'
  <2> SUFFICES ASSUME NEW e \in Documents, status'[e] = "ready"
               PROVE  /\ Len(vectors'[e]) = Chunks
                      /\ \A i \in 1..Chunks : vectors'[e][i] = model'[e]
    BY DEF StoredInv
  <2>1. CASE e = d
    BY <1>1, <1>2, <1>3, <2>1
  <2>2. CASE e # d
    BY <1>2, <1>3, <2>2 DEF IInv, StoredInv
  <2> QED
    BY <2>1, <2>2
<1> QED
  BY <1>4, <1>5

\* The embedding service and its clients touch jobs and the script only.
LEMMA EmbeddingStep ==
  ASSUME IInv
  PROVE  /\ EmbeddingRestarts => IInv'
         /\ \A p \in {"worker", "script"} : EmbedBatch(p) \/ EmbedFails(p) => IInv'
<1> USE DEF IInv
<1>1. ASSUME EmbeddingRestarts PROVE IInv'
  BY <1>1 DEF EmbeddingRestarts, data, KnowledgeTypeOK, JobsInv, StoredInv, SearchInv,
              HitsComparable, ScriptInv
<1>2. ASSUME NEW p \in {"worker", "script"}, EmbedBatch(p) PROVE IInv'
  <2>1. UNCHANGED <<serving, setting, data, script, search, restarts>>
    BY <1>2 DEF EmbedBatch
  <2>2. KnowledgeTypeOK' /\ JobsInv'
    BY <1>2, <2>1, BatchMade DEF KnowledgeTypeOK, data
  <2> QED
    BY <2>1, <2>2 DEF data, StoredInv, SearchInv, HitsComparable, ScriptInv
<1>3. ASSUME NEW p \in {"worker", "script"}, EmbedFails(p) PROVE IInv'
  <2> USE <1>3 DEF EmbedFails, data
  <2>1. KnowledgeTypeOK'
    <3>1. NoJob \in Jobs
      BY DEF NoJob, Jobs
    <3>2. job' \in [{"worker", "script"} -> Jobs]
      BY <3>1 DEF KnowledgeTypeOK
    <3>3. script' \in Scripts
      BY DEF KnowledgeTypeOK, Scripts
    <3> QED
      BY <3>2, <3>3 DEF KnowledgeTypeOK
  <2>2. JobsInv'
    BY DEF JobsInv, NoJob, KnowledgeTypeOK
  <2>3. ScriptInv'
    BY DEF ScriptInv, KnowledgeTypeOK, Scripts
  <2> QED
    BY <2>1, <2>2, <2>3 DEF StoredInv, SearchInv, HitsComparable
<1> QED
  BY <1>1, <1>2, <1>3

\* A job begins without vectors.
LEMMA JobStarts ==
  ASSUME IInv, NEW p \in {"worker", "script"}, NEW d \in Documents, Start(p, d), UNCHANGED setting
  PROVE  job' \in [{"worker", "script"} -> Jobs] /\ JobsInv'
<1>1. job \in [{"worker", "script"} -> Jobs]
  BY DEF IInv, KnowledgeTypeOK
<1>2. job' \in [{"worker", "script"} -> Jobs]
  BY <1>1, KnowledgeAssumption DEF Start, Jobs
<1>3. JobsInv'
  BY <1>1 DEF Start, JobsInv, IInv
<1> QED
  BY <1>2, <1>3

\* Uploads, deletes and the worker.
LEMMA WorkerStep ==
  ASSUME IInv
  PROVE  /\ \A d \in Documents : Upload(d) \/ Delete(d) \/ Process(d) => IInv'
         /\ Save => IInv'
<1> USE DEF IInv
<1>1. ASSUME NEW d \in Documents, Upload(d) PROVE IInv'
  BY <1>1 DEF Upload, data, KnowledgeTypeOK, JobsInv, StoredInv, SearchInv, HitsComparable, ScriptInv
<1>2. ASSUME NEW d \in Documents, Delete(d) PROVE IInv'
  <2> USE <1>2 DEF Delete
  <2>1. KnowledgeTypeOK'
    BY DEF KnowledgeTypeOK, Vectors
  <2>2. StoredInv'
    BY DEF KnowledgeTypeOK, StoredInv
  <2>3. ScriptInv'
    BY DEF KnowledgeTypeOK, ScriptInv
  <2> QED
    BY <2>1, <2>2, <2>3 DEF JobsInv, SearchInv, HitsComparable
<1>3. ASSUME NEW d \in Documents, Process(d) PROVE IInv'
  <2>1. Start("worker", d) /\ UNCHANGED <<serving, setting, data, script, search, restarts>>
    BY <1>3 DEF Process
  <2>2. KnowledgeTypeOK' /\ JobsInv'
    BY <2>1, JobStarts DEF KnowledgeTypeOK, data
  <2> QED
    BY <2>1, <2>2 DEF data, StoredInv, SearchInv, HitsComparable, ScriptInv
<1>4. ASSUME Save PROVE IInv'
  <2> DEFINE d == job["worker"].document
  <2>1. /\ Embedded("worker") /\ job' = [job EXCEPT !["worker"] = NoJob]
        /\ UNCHANGED <<serving, setting, owner, script, search, restarts>>
    BY <1>4 DEF Save
  <2>2. job' \in [{"worker", "script"} -> Jobs] /\ JobsInv'
    BY <2>1 DEF KnowledgeTypeOK, JobsInv, Jobs, NoJob
  <2>3. CASE status[d] = "queued"
    <3>1. status' = [status EXCEPT ![d] = "ready"] /\ StoreVectors("worker", d)
      BY <1>4, <2>3 DEF Save
    <3>2. \A e \in Documents \ {d} : status'[e] = status[e] /\ model'[e] = model[e]
      BY <3>1 DEF KnowledgeTypeOK, StoreVectors
    <3>3. /\ model' \in [Documents -> Vectors]
          /\ vectors' \in [Documents -> Seq(Vectors)]
          /\ StoredInv'
      BY <2>1, <3>1, <3>2, VectorsStored
    <3>4. KnowledgeTypeOK'
      BY <2>1, <2>2, <3>1, <3>3 DEF KnowledgeTypeOK
    <3>5. ScriptInv'
      BY <2>1, <2>3, <3>2 DEF ScriptInv, KnowledgeTypeOK, Scripts
    <3> QED
      BY <2>1, <2>2, <3>3, <3>4, <3>5 DEF SearchInv, HitsComparable
  <2>4. CASE status[d] # "queued"
    <3>1. UNCHANGED <<status, model, vectors>>
      BY <1>4, <2>4 DEF Save
    <3> QED
      BY <2>1, <2>2, <3>1 DEF KnowledgeTypeOK, StoredInv, SearchInv, HitsComparable, ScriptInv
  <2> QED
    BY <2>3, <2>4
<1> QED
  BY <1>1, <1>2, <1>3, <1>4

\* The backfill script: what it takes off its list is embedded or gone.
LEMMA ScriptStep ==
  ASSUME IInv
  PROVE  List \/ NextDocument \/ CommitVectors \/ ScriptEnds => IInv'
<1> USE DEF IInv
<1>1. ASSUME List PROVE IInv'
  <2>1. /\ UNCHANGED <<serving, setting, data, job, search, restarts>>
        /\ script' \in Scripts
    BY <1>1 DEF List, Scripts
  <2>2. ScriptInv'
    BY <1>1, <2>1 DEF List, data, ScriptInv, NeedsEmbedding
  <2> QED
    BY <2>1, <2>2 DEF data, KnowledgeTypeOK, JobsInv, StoredInv, SearchInv, HitsComparable
<1>2. ASSUME NextDocument PROVE IInv'
  <2>1. PICK d \in script.todo :
          /\ script.at = "running"
          /\ IF status[d] = "deleted"
             THEN script' = [script EXCEPT !.todo = @ \ {d}] /\ UNCHANGED job
             ELSE Start("script", d) /\ UNCHANGED script
          /\ UNCHANGED <<serving, setting, data, search, restarts>>
    BY <1>2 DEF NextDocument
  <2>2. d \in Documents
    BY DEF KnowledgeTypeOK, Scripts
  <2>3. /\ script.at = "running"
        /\ \/ script' = script
           \/ status[d] = "deleted" /\ script' = [script EXCEPT !.todo = script.todo \ {d}]
    BY <2>1
  <2>4. script' \in Scripts
    BY <2>3 DEF KnowledgeTypeOK, Scripts
  <2>5. job' \in [{"worker", "script"} -> Jobs] /\ JobsInv'
    <3>1. CASE status[d] = "deleted"
      BY <2>1, <3>1 DEF KnowledgeTypeOK, JobsInv
    <3>2. CASE status[d] # "deleted"
      BY <2>1, <2>2, <3>2, JobStarts
    <3> QED
      BY <3>1, <3>2
  <2>6. ScriptInv'
    <3>1. UNCHANGED <<setting, status, model>>
      BY <2>1 DEF data
    <3> QED
      BY <2>3, <3>1 DEF ScriptInv, KnowledgeTypeOK, Scripts
  <2> QED
    BY <2>1, <2>4, <2>5, <2>6 DEF data, KnowledgeTypeOK, StoredInv, SearchInv, HitsComparable
<1>3. ASSUME CommitVectors PROVE IInv'
  <2> DEFINE d == job["script"].document
  <2>1. /\ Embedded("script") /\ job' = [job EXCEPT !["script"] = NoJob]
        /\ UNCHANGED <<serving, setting, status, owner, search, restarts>>
    BY <1>3 DEF CommitVectors
  <2>2. job' \in [{"worker", "script"} -> Jobs] /\ JobsInv'
    BY <2>1 DEF KnowledgeTypeOK, JobsInv, Jobs, NoJob
  <2>3. CASE status[d] = "ready"
    <3>1. StoreVectors("script", d) /\ script' = [script EXCEPT !.todo = @ \ {d}]
      BY <1>3, <2>3 DEF CommitVectors
    <3>2. /\ model' \in [Documents -> Vectors]
          /\ vectors' \in [Documents -> Seq(Vectors)]
          /\ StoredInv'
      BY <2>1, <3>1, VectorsStored
    <3>3. script' \in Scripts
      BY <3>1 DEF KnowledgeTypeOK, Scripts
    <3>4. ScriptInv'
      BY <2>1, <3>1 DEF StoreVectors, ScriptInv, KnowledgeTypeOK, Scripts
    <3> QED
      BY <2>1, <2>2, <3>2, <3>3, <3>4 DEF KnowledgeTypeOK, SearchInv, HitsComparable
  <2>4. CASE status[d] # "ready"
    <3>1. script' = [script EXCEPT !.at = "failed"] /\ UNCHANGED <<model, vectors>>
      BY <1>3, <2>4 DEF CommitVectors
    <3>2. script' \in Scripts /\ ScriptInv'
      BY <3>1 DEF KnowledgeTypeOK, Scripts, ScriptInv
    <3> QED
      BY <2>1, <2>2, <3>1, <3>2 DEF KnowledgeTypeOK, StoredInv, SearchInv, HitsComparable
  <2> QED
    BY <2>3, <2>4
<1>4. ASSUME ScriptEnds PROVE IInv'
  <2>1. script' \in Scripts /\ ScriptInv'
    BY <1>4 DEF ScriptEnds, data, KnowledgeTypeOK, Scripts, ScriptInv
  <2> QED
    BY <1>4, <2>1 DEF ScriptEnds, data, KnowledgeTypeOK, JobsInv, StoredInv, SearchInv, HitsComparable
<1> QED
  BY <1>1, <1>2, <1>3, <1>4

\* A process that gets another model loses what it had made with the old one.
LEMMA RestartStep ==
  ASSUME IInv, NEW p \in Processes, Restart(p)
  PROVE  IInv'
<1> USE DEF IInv
<1>1. UNCHANGED <<serving, data>>
  BY DEF Restart
<1>2. setting' \in [Processes -> Models] /\ \A q \in Processes \ {p} : setting'[q] = setting[q]
  BY DEF Restart, KnowledgeTypeOK
<1>3. job' \in [{"worker", "script"} -> Jobs] /\ JobsInv'
  <2>1. NoJob \in Jobs
    BY DEF NoJob, Jobs
  <2>2. job' = [q \in {"worker", "script"} |-> IF q = p THEN NoJob ELSE job[q]]
    BY DEF Restart, KnowledgeTypeOK
  <2>3. job' \in [{"worker", "script"} -> Jobs]
    BY <2>1, <2>2 DEF KnowledgeTypeOK
  <2>4. JobsInv'
    BY <1>2, <2>2 DEF KnowledgeTypeOK, JobsInv, NoJob
  <2> QED
    BY <2>3, <2>4
<1>4. script' \in Scripts /\ ScriptInv'
  <2>1. CASE p = "script"
    BY <2>1 DEF Restart, Scripts, ScriptInv
  <2>2. CASE p # "script"
    <3>1. script' = script
      BY <2>2 DEF Restart
    <3> QED
      BY <1>1, <1>2, <2>2, <3>1 DEF data, KnowledgeTypeOK, ScriptInv
  <2> QED
    BY <2>1, <2>2
<1>5. search' \in Searches /\ SearchInv'
  <2>1. CASE p = "api"
    BY <2>1 DEF Restart, KnowledgeTypeOK, Searches, Vectors, SearchInv, HitsComparable
  <2>2. CASE p # "api"
    <3>1. search' = search
      BY <2>2 DEF Restart
    <3> QED
      BY <1>1, <1>2, <2>2, <3>1 DEF KnowledgeTypeOK, SearchInv, HitsComparable
  <2> QED
    BY <2>1, <2>2
<1> QED
  BY <1>1, <1>2, <1>3, <1>4, <1>5 DEF data, KnowledgeTypeOK, StoredInv

\* A search compares the question with what the same model has made.
LEMMA SearchStep ==
  ASSUME IInv, Question \/ Select
  PROVE  IInv'
<1> USE DEF IInv
<1>1. UNCHANGED <<serving, setting, data, job, script, restarts>>
  BY DEF Question, Select
<1>2. search' \in Searches /\ SearchInv'
  <2>1. CASE Question
    BY <2>1 DEF Question, Refuses, KnowledgeTypeOK, Searches, SearchInv, HitsComparable
  <2>2. CASE Select
    <3>1. PICK hits \in SUBSET Candidates :
            search.at = "question" /\ search' = [search EXCEPT !.at = "hits", !.hits = hits]
      BY <2>2 DEF Select
    <3>2. search' \in Searches
      BY <3>1 DEF Candidates, KnowledgeTypeOK, Searches
    <3>3. ASSUME NEW h \in hits
          PROVE  /\ h.owner = search.organization
                 /\ search.mode = "semantic" => h.vector = search.vector
      <4>1. /\ h \in Hits /\ status[h.document] = "ready"
            /\ h.vector \in Range(vectors[h.document])
            /\ h.owner = search.organization
            /\ search.mode = "semantic" => model[h.document] = setting["api"]
        BY DEF Candidates, Comparable
      <4>2. h.document \in Documents
        BY <4>1 DEF Hits
      <4>3. h.vector = model[h.document]
        BY <4>1, <4>2 DEF Range, StoredInv, KnowledgeTypeOK
      <4> QED
        BY <3>1, <4>1, <4>3 DEF SearchInv
    <3> QED
      BY <1>1, <3>1, <3>2, <3>3 DEF KnowledgeTypeOK, Searches, SearchInv, HitsComparable
  <2> QED
    BY <2>1, <2>2
<1> QED
  BY <1>1, <1>2 DEF data, KnowledgeTypeOK, JobsInv, StoredInv, ScriptInv

\* Every step keeps the invariant.
LEMMA Inductive == IInv /\ [KnowledgeNext]_vars => IInv'
<1> SUFFICES ASSUME IInv, [KnowledgeNext]_vars PROVE IInv'
  OBVIOUS
<1>1. CASE EmbeddingRestarts \/ \E p \in {"worker", "script"} : EmbedBatch(p) \/ EmbedFails(p)
  BY <1>1, EmbeddingStep
<1>2. CASE (\E d \in Documents : Upload(d) \/ Delete(d) \/ Process(d)) \/ Save
  BY <1>2, WorkerStep
<1>3. CASE List \/ NextDocument \/ CommitVectors \/ ScriptEnds
  BY <1>3, ScriptStep
<1>4. CASE \E p \in Processes : Restart(p)
  BY <1>4, RestartStep
<1>5. CASE Question \/ Select
  BY <1>5, SearchStep
<1>6. CASE UNCHANGED vars
  BY <1>6 DEF vars, data, IInv, KnowledgeTypeOK, JobsInv, StoredInv, SearchInv, HitsComparable, ScriptInv
<1> QED
  BY <1>1, <1>2, <1>3, <1>4, <1>5, <1>6 DEF KnowledgeNext

---------------------------------------------------------------------------

\* The inductive invariant holds in every reachable state.
THEOREM Invariant == KnowledgeSpec => []IInv
  BY InitIInv, Inductive, PTL DEF KnowledgeSpec

\* Every stored vector was made by the model its document names, whatever
\* settings the processes have and whenever the service changes its model.
THEOREM VectorsNameTheirModel == KnowledgeSpec => []VectorsOfNamedModel
<1>1. IInv => VectorsOfNamedModel
  <2> SUFFICES ASSUME IInv, NEW d \in Documents, status[d] = "ready"
               PROVE  Len(vectors[d]) = Chunks /\ Range(vectors[d]) = {model[d]}
    BY DEF VectorsOfNamedModel
  <2>1. /\ vectors[d] \in Seq(Vectors)
        /\ Len(vectors[d]) = Chunks
        /\ \A i \in 1..Chunks : vectors[d][i] = model[d]
    BY DEF IInv, KnowledgeTypeOK, StoredInv
  <2>2. 1 \in DOMAIN vectors[d] /\ DOMAIN vectors[d] = 1..Chunks
    BY <2>1, KnowledgeAssumption
  <2> QED
    BY <2>1, <2>2 DEF Range
<1> QED
  BY <1>1, Invariant, PTL

\* Semantic search never compares vectors of two models, and never shows a
\* passage of another organisation.
THEOREM HitsAreComparable == KnowledgeSpec => []HitsComparable
<1>1. IInv => HitsComparable
  BY DEF IInv, SearchInv
<1> QED
  BY <1>1, Invariant, PTL

\* A script that reports "done" has left no document of its list behind.
THEOREM BackfillLeavesNothing == KnowledgeSpec => []BackfillDone
<1>1. IInv => BackfillDone
  BY DEF IInv, ScriptInv, BackfillDone
<1> QED
  BY <1>1, Invariant, PTL

=============================================================================
