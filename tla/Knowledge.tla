----------------------------- MODULE Knowledge -----------------------------
(***************************************************************************)
(* Which model made the vectors that semantic search compares: the         *)
(* embedding service, its client in the worker, in the API's search and in *)
(* scripts/embed_existing_documents.py, while EMBEDDING_MODEL changes from *)
(* process to process.  A vector is the name of the model that made it.    *)
(* Of the worker only its embedding is here; Ingestion.tla has the rest.   *)
(* A job, of the worker or of the script, embeds one document:             *)
(*   idle, embedding (vectors come batch by batch, nothing is stored yet)  *)
(***************************************************************************)
EXTENDS Naturals, Sequences, FiniteSets, Functions

CONSTANTS Documents,      \* ids
          Organizations,
          Models,         \* values of EMBEDDING_MODEL
          Null,           \* no model, no vector
          Chunks,         \* chunks of a document
          Batch,          \* TEXTS_PER_REQUEST
          MaxResults,     \* limit of a search
          MaxRestarts     \* bound: restarts that change a model

\* Extraction refuses a file without text, so every document has a chunk.
ASSUME KnowledgeAssumption ==
  /\ Documents \subseteq Nat
  /\ Null \notin Models
  /\ Chunks \in Nat \ {0}
  /\ Batch \in Nat \ {0}

VARIABLES serving,   \* the model of the embedding service, Null if none is loaded
          setting,   \* per process, its EMBEDDING_MODEL
          status,    \* per document: absent, queued, ready or deleted
          owner,     \* per document, its organisation
          model,     \* per document, embedding_model
          vectors,   \* per document, its chunks' embeddings
          job,       \* of worker and script: at, document, vectors so far
          script,    \* the run: idle, running, done or failed; the ids it still
                     \* has to do; the ready documents there were at its start
          search,    \* a search: idle, question or hits; mode, organisation, the
                     \* question's vector, the hits
          restarts

data == <<status, owner, model, vectors>>
vars == <<serving, setting, data, job, script, search, restarts>>

Processes == {"worker", "script", "api"}
Vectors   == Models \cup {Null}
NoJob     == [at |-> "idle", document |-> 0, vectors |-> <<>>]
Hits      == [document : Documents, owner : Organizations, vector : Vectors]

Jobs      == [at : {"idle", "embedding"}, document : Nat, vectors : Seq(Vectors)]
Scripts   == [at : {"idle", "running", "done", "failed"},
              todo : SUBSET Documents, scope : SUBSET Documents]
Searches  == [at : {"idle", "question", "hits"}, mode : {"keyword", "semantic"},
              organization : Organizations, vector : Vectors, hits : SUBSET Hits]

KnowledgeTypeOK ==
  /\ serving \in Vectors
  /\ setting \in [Processes -> Models]
  /\ status \in [Documents -> {"absent", "queued", "ready", "deleted"}]
  /\ owner \in [Documents -> Organizations]
  /\ model \in [Documents -> Vectors]
  /\ vectors \in [Documents -> Seq(Vectors)]
  /\ job \in [{"worker", "script"} -> Jobs]
  /\ script \in Scripts
  /\ search \in Searches

\* Documents from before v8 have no vectors.
KnowledgeInit ==
  /\ serving \in Vectors
  /\ setting \in [Processes -> Models]
  /\ status \in [Documents -> {"absent", "ready"}]
  /\ owner \in [Documents -> Organizations]
  /\ model = [d \in Documents |-> Null]
  /\ vectors = [d \in Documents |-> IF status[d] = "ready" THEN [i \in 1..Chunks |-> Null] ELSE <<>>]
  /\ job = [p \in {"worker", "script"} |-> NoJob]
  /\ script = [at |-> "idle", todo |-> {}, scope |-> {}]
  /\ search \in [at : {"idle"}, mode : {"keyword", "semantic"}, organization : Organizations,
                 vector : {Null}, hits : {{}}]
  /\ restarts = 0

---------------------------------------------------------------------------
(* The embedding service and its client.                                   *)

\* Mutant of Refuses: a mismatch is a warning.
RefusesUnloaded(m) == serving = Null

\* embed: 400 for another model than the service's, 503 if it cannot run.
Refuses(m) == serving # m \/ serving = Null

EmbeddingRestarts ==
  /\ restarts < MaxRestarts
  /\ restarts' = restarts + 1
  /\ serving' \in Vectors \ {serving}
  /\ UNCHANGED <<setting, data, job, script, search>>

\* One request of embed_texts: the next texts, all by the model that serves.
EmbedBatch(p) ==
  LET left == Chunks - Len(job[p].vectors)
      n    == IF left < Batch THEN left ELSE Batch
  IN /\ job[p].at = "embedding"
     /\ left > 0
     /\ ~ Refuses(setting[p])
     /\ job' = [job EXCEPT ![p].vectors = @ \o [i \in 1..n |-> serving]]
     /\ UNCHANGED <<serving, setting, data, script, search, restarts>>

Embedded(p) == job[p].at = "embedding" /\ Len(job[p].vectors) = Chunks

\* EmbeddingUnavailable: the worker's document goes back into the queue, the
\* script ends.
EmbedFails(p) ==
  /\ job[p].at = "embedding"
  /\ Len(job[p].vectors) < Chunks
  /\ Refuses(setting[p])
  /\ job' = [job EXCEPT ![p] = NoJob]
  /\ script' = IF p = "script" THEN [script EXCEPT !.at = "failed"] ELSE script
  /\ UNCHANGED <<serving, setting, data, search, restarts>>

---------------------------------------------------------------------------
(* The worker and the script.                                              *)

Upload(d) ==
  /\ status[d] = "absent"
  /\ status' = [status EXCEPT ![d] = "queued"]
  /\ UNCHANGED <<serving, setting, owner, model, vectors, job, script, search, restarts>>

Delete(d) ==
  /\ status[d] \in {"queued", "ready"}
  /\ status' = [status EXCEPT ![d] = "deleted"]
  /\ model' = [model EXCEPT ![d] = Null]
  /\ vectors' = [vectors EXCEPT ![d] = <<>>]
  /\ UNCHANGED <<serving, setting, owner, job, script, search, restarts>>

Start(p, d) == job' = [job EXCEPT ![p] = [at |-> "embedding", document |-> d, vectors |-> <<>>]]

Process(d) ==
  /\ job["worker"].at = "idle"
  /\ status[d] = "queued"
  /\ Start("worker", d)
  /\ UNCHANGED <<serving, setting, data, script, search, restarts>>

\* In one commit.
StoreVectors(p, d) ==
  /\ model' = [model EXCEPT ![d] = setting[p]]
  /\ vectors' = [vectors EXCEPT ![d] = job[p].vectors]

\* process_document's save: discarded if the document is gone.
Save ==
  LET d == job["worker"].document
  IN /\ Embedded("worker")
     /\ \/ /\ status[d] = "queued"
           /\ status' = [status EXCEPT ![d] = "ready"]
           /\ StoreVectors("worker", d)
        \/ status[d] # "queued" /\ UNCHANGED <<status, model, vectors>>
     /\ job' = [job EXCEPT !["worker"] = NoJob]
     /\ UNCHANGED <<serving, setting, owner, script, search, restarts>>

\* Mutant of NeedsEmbedding: only documents that never had a vector.
NeverEmbedded(d) == model[d] = Null

\* NEEDS_EMBEDDING, where NULL is not the current model.
NeedsEmbedding(d) == model[d] # setting["script"]

\* The script, of one organisation or of all: its list is read once.
List ==
  /\ script.at = "idle"
  /\ \E os \in {Organizations} \cup {{o} : o \in Organizations} :
       LET ready == {d \in Documents : status[d] = "ready" /\ owner[d] \in os}
       IN script' = [at |-> "running", todo |-> {d \in ready : NeedsEmbedding(d)},
                     scope |-> ready]
  /\ UNCHANGED <<serving, setting, data, job, search, restarts>>

\* In the order of the ids: session.get, and the document's chunks.  A deleted
\* document is skipped.
NextDocument ==
  /\ script.at = "running"
  /\ job["script"].at = "idle"
  /\ \E d \in script.todo :
       /\ \A e \in script.todo : d <= e
       /\ IF status[d] = "deleted"
          THEN script' = [script EXCEPT !.todo = @ \ {d}] /\ UNCHANGED job
          ELSE Start("script", d) /\ UNCHANGED script
  /\ UNCHANGED <<serving, setting, data, search, restarts>>

\* embed_existing_document's commit.  Its UPDATE of a row that is gone raises,
\* which ends the script.
CommitVectors ==
  LET d == job["script"].document
  IN /\ Embedded("script")
     /\ job' = [job EXCEPT !["script"] = NoJob]
     /\ \/ /\ status[d] = "ready"
           /\ StoreVectors("script", d)
           /\ script' = [script EXCEPT !.todo = @ \ {d}]
        \/ /\ status[d] # "ready"
           /\ script' = [script EXCEPT !.at = "failed"]
           /\ UNCHANGED <<model, vectors>>
     /\ UNCHANGED <<serving, setting, status, owner, search, restarts>>

ScriptEnds ==
  /\ script.at = "running"
  /\ job["script"].at = "idle"
  /\ script.todo = {}
  /\ script' = [script EXCEPT !.at = "done"]
  /\ UNCHANGED <<serving, setting, data, job, search, restarts>>

\* A process is stopped, and started with any setting; what it was doing is lost.
Restart(p) ==
  /\ \/ UNCHANGED <<setting, restarts>>
     \/ /\ restarts < MaxRestarts
        /\ restarts' = restarts + 1
        /\ \E m \in Models \ {setting[p]} : setting' = [setting EXCEPT ![p] = m]
  /\ job' = [q \in DOMAIN job |-> IF q = p THEN NoJob ELSE job[q]]
  /\ script' = IF p = "script" THEN [at |-> "idle", todo |-> {}, scope |-> {}] ELSE script
  /\ search' = IF p = "api" THEN [search EXCEPT !.at = "idle", !.vector = Null, !.hits = {}] ELSE search
  /\ UNCHANGED <<serving, data>>

---------------------------------------------------------------------------
(* Searching.                                                              *)

\* DocumentService.search embeds the question, for semantic search only; if the
\* service refuses, the caller is told 503.
Question ==
  /\ search.at = "idle"
  /\ \/ search.mode = "keyword" /\ search' = [search EXCEPT !.at = "question"]
     \/ /\ search.mode = "semantic" /\ ~ Refuses(setting["api"])
        /\ search' = [search EXCEPT !.at = "question", !.vector = serving]
  /\ UNCHANGED <<serving, setting, data, job, script, restarts>>

\* Mutant of Comparable: any document that has vectors.
ComparableAny(d) == model[d] # Null

\* Only vectors made by the model that embedded the question.
Comparable(d) == model[d] = setting["api"]

\* The WHERE of search and of semantic_search; which chunks share a word with
\* the question, or are nearest to it, is open.
Candidates ==
  {h \in Hits : /\ status[h.document] = "ready"
                /\ h.vector \in Range(vectors[h.document])
                /\ h.owner = owner[h.document] /\ h.owner = search.organization
                /\ search.mode = "semantic" => Comparable(h.document)}

\* One statement, one snapshot.
Select ==
  /\ search.at = "question"
  /\ \E hits \in SUBSET Candidates :
       /\ Cardinality(hits) <= MaxResults
       /\ search' = [search EXCEPT !.at = "hits", !.hits = hits]
  /\ UNCHANGED <<serving, setting, data, job, script, restarts>>

KnowledgeNext ==
  \/ EmbeddingRestarts
  \/ \E p \in {"worker", "script"} : EmbedBatch(p) \/ EmbedFails(p)
  \/ \E d \in Documents : Upload(d) \/ Delete(d) \/ Process(d)
  \/ Save \/ List \/ NextDocument \/ CommitVectors \/ ScriptEnds
  \/ \E p \in Processes : Restart(p)
  \/ Question \/ Select

KnowledgeSpec == KnowledgeInit /\ [][KnowledgeNext]_vars

---------------------------------------------------------------------------

\* "A document is either fully embedded with the new model or left exactly as it
\* was": every stored vector was made by the model its document names, though
\* the service may come back with another model between two batches, and the
\* worker and the script may have different settings.
VectorsOfNamedModel ==
  \A d \in Documents : status[d] = "ready" =>
    /\ Len(vectors[d]) = Chunks
    /\ Range(vectors[d]) = {model[d]}

\* "Vectors from two different models cannot be compared": a hit of a semantic
\* search was made by the model that embedded the question, and every hit is of
\* the caller's organisation.
HitsComparable ==
  \A h \in search.hits :
    /\ h.owner = search.organization
    /\ search.mode = "semantic" => h.vector = search.vector

\* When the script says "done", each document that was ready when it began is
\* embedded by the script's model, or has been deleted meanwhile.
BackfillDone ==
  script.at = "done" =>
    \A d \in script.scope : status[d] = "deleted" \/ model[d] = setting["script"]

=============================================================================
