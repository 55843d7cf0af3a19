# A verification development for the AI support platform

This directory holds TLA+ models of the platform under `src/`, TLC
configurations that check them on small instances, and TLAPS proofs of the
properties that matter most. The code is the reference: every definition that
models code is listed in `PROJECT.json` under `map` with the lines it stands for.

## 1. The system

| Part | State | Operations | Talks to |
|---|---|---|---|
| Document API (`app/documents/router.py`, `service.py`, `repository.py`) | one database session per request | upload, delete; list, get and search read only | PostgreSQL, embedding service (for search) |
| Document tables (`documents/models.py`) | `documents`, `document_files`, `document_chunks` | unique (organisation, sha256), cascade on delete, row locks | |
| Ingestion worker (`app/worker.py`, `documents/processing.py`) | the claimed document's id and attempt, the vectors so far | rescue of abandoned documents, claim, extraction, embedding with heartbeats, save; retry after an exception | PostgreSQL, embedding service |
| Answers (`app/answers`) | per request: the reply so far, whether text was sent | `POST /answers`, `POST /answers/stream` | document search, model service over HTTP |
| Model service (`app/model_service`) | the model, `_in_queue`, `_generation_lock` | `/generate`, `/generate/stream` | llama.cpp |
| Embedding service (`app/embedding_service`) | the model it has loaded | `/embed` | |
| Search and backfill (`documents/repository.py`, `scripts/embed_existing_documents.py`) | vectors and the model each document names | keyword and semantic search; embedding what another model embedded | PostgreSQL, embedding service |
| Rate limits (`app/core/rate_limit.py`) | token buckets per process, or one counter per caller and minute in Redis | `acquire` | Redis |
| Registration and login (`app/auth`) | `organizations`, `users` | register, log in, resolve the caller of each request | PostgreSQL |
| Tickets (`app/tickets`, `app/classification`) | `tickets`, insert only | submit, get, list | PostgreSQL |
| Extraction and chunking (`documents/extraction.py`, `chunking.py`) | none: pure functions | `extract_text`, `normalize_text`, `chunk_text` | |
| Health, configuration, body limit (`app/health`, `app/core`) | none | | |
| Frontend (`frontend/src`) | React state | reads the answer stream, polls for documents | the API |
| System-design laboratory (`system-design`) | its own PostgreSQL nodes | gateway, users, tickets | |

The hard behaviours are concentrated in few places. Workers and API processes
share the document tables and nothing else: they may interleave between any two
statements, a worker may die or fall silent anywhere, a commit may succeed
without its caller hearing of it, and the embedding service may go away.
An answer passes through two suspended Python generators in two processes, of
which either may be thrown away when a user leaves, while a counter and a lock
in the model service must survive it. The list of hazards, line by line, is in
`PROJECT.json` under `hazards`.

What makes each part correct:

* ingestion: a document belongs to one worker at a time; a file exists as long
  as it can still be needed, passages exist exactly for ready documents; every
  document settles; nothing settled is reopened; a retry budget is neither
  overspent nor wasted;
* answers: a refusal never reaches the user as an answer; both endpoints give
  one verdict; every question ends;
* model service: the queue's counter is exact, and nobody takes the lock away;
* rate limits: no caller exceeds its budget, and a promised retry time is kept;
* registration: one user per address, one organisation per name, a true answer to every
  sender, and no organisation without a user but for a reason;
* access: an endpoint runs for active accounts with valid tokens, and 401 is told
  only for reasons that lie with the caller;
* extraction and chunking: chunking ends, and no text is lost;
* search: question and passages are compared in one model's space, in the caller's
  organisation;
* tickets: a walk through the pages skips no ticket that was there when it began, and who was
  told "created" finds the ticket;
* frontend: the screen ends up showing what the API knows;
* laboratory: reads over replicas and shards are as complete as they claim.

## 2. Modules and runs

### Ingestion

| Module | Models |
|---|---|
| `DocumentStore` | the tables, one function per column, and the row locks of each worker's transaction |
| `Uploads` | `DocumentService.upload` in its three round trips, `delete` |
| `IngestionWorker` | `run_forever`, `requeue_stale_documents`, `claim_next_document`, `process_document`, `_heartbeat`, the exception handler, faults and the passing of time |
| `Ingestion` | the composition, its properties and its inductive invariant |
| `DocumentLifecycle` | what the pipeline promises its callers, without workers, locks or files |
| `MCIngestion` | small instances |

One action is one statement or transaction that another process can come
between. `pc[w]` is the worker's place in the code; `locked[w]` are the rows its open
transaction locks, released by `Commit` or by a rollback. `Commit` has the outcome
in which the change is durable and the worker gets an exception instead of an
answer. `StepFails` and `Crash` may hit any place.

Time is not a number. `silent[d]` says that `processing_started_at` is older than
the stale limit; `Silence` sets it for a document nobody works on, and, where
`SlowWorkers` is TRUE, also for one whose worker is alive but slow. `cut[w]` is
the set of rows older than the cutoff a rescue has read.

Abstractions: a multi-row UPDATE waits for all its rows and then takes effect at
once; the rescue reads the clock together with its first UPDATE, which sees the
same rows because a row only ever becomes younger in between; a file's contents
are a model value, of which some are unreadable; a chunk is tagged with the attempt
that wrote it; of a claim, the time stored is taken to be younger than the stale
limit when it commits.

| Run | Instance | Shows |
|---|---|---|
| `ingestion_documents` | 2 workers, 1 request at a time, 2 ids, a readable and an unreadable file, 2 attempts, 1 fault of any kind, slow workers, fairness | files, chunks and ownership; nothing settled is reopened; every document settles; the whole implements `DocumentLifecycle` |
| `ingestion_races` | 2 racing requests, 3 ids, 3 contents, a limit of 1, 2 workers, 2 batches, 2 faults, no slow workers | no duplicates in any race; the queue's limit is exceeded by less than the number of requests; a readable file is given up only after as many faults as attempts: no fault counts twice; no document is started more often than `worker_max_attempts` |
| `ingestion_outage` | 1 worker, 3 attempts, an outage | violated: an outage does not leave uploads in the queue |

Bounds. Two workers and two documents are what it takes for a claim to meet a rescue,
a late result and a second claim while another document is processed; two attempts
make the last attempt differ from the first. A slow worker costs no fault, so one fault
is enough for a rescue, a retry and a late result to meet; two faults, in
`ingestion_races`, allow a crash inside a retry. Organisations do not interact in
the pipeline (limit and uniqueness are per organisation), so the runs have one; the
proofs have any number, and remove the other bounds for safety, too.

The limit on waiting documents (`worker_max_pending`) is not exact: it is read before
the insert, so concurrent uploads may pass it together. `PendingWithinRace` says by how many.

Fairness (`FairSpec`): the operating system runs every worker and a supervisor
restarts it (`docker-compose` and Kubernetes do); time passes, so a document
nobody works on becomes silent. Nothing is assumed of clients or of the embedding
service: with the service gone for ever, a document fails.

### Answers and the model service

| Module | Models |
|---|---|
| `ModelService` | both endpoints, `_in_queue`, `_generation_lock`, the generator `lines()` at each of its yields, failures and restarts; its callers only call and hang up |
| `Answers` | both API endpoints over it: waiting for the status, the hold-back of `_events`, the final event, timeouts, disconnects, generators that are thrown away |

A text is a sequence of tokens; one token completes a refusal, one is white space, and
`HoldBack` stands for the 40 characters held back. Sending never blocks: what is
left unread of an answer of at most 200 tokens fits a socket's buffers. The final
event and the closing of the response are one step. A question is asked once.

| Run | Instance | Shows |
|---|---|---|
| `model_service_calls` | 3 calls, 2 places, 1 restart, fairness | the counter is exact, the lock is with the writer, every place is freed |
| `answers` | 1 question, all replies of up to 4 pieces of 1 or 2 tokens, hold-back 2; 2 questions with replies of at most a piece; 1 place, disconnects, a restart, fairness | what is shown, the verdict and the answer agree, and a reply that broke off is never an answer; the API uses the service as `ModelService` assumes of its callers; every question ends |
| `answers_hangup` | 1 question | violated: a user who leaves early leaves a connection open |

Bounds. Pieces of one and two tokens with a hold-back of two let the first
shown text end before, at and after the limit; three calls for two places put one
in each of the roles refused, waiting and writing. Long replies and
questions that meet are two parts of the run `answers`. With one place, two questions meet as
the one that writes and the one that is refused; waiting for the lock is left to
`model_service_calls`, whose calls are free to do all that the API's do. The deadlock check is off in these
runs because the system stops when all questions are answered.

Fairness: each process runs its threads; `threading.Lock` reaches every one of the few calls that
wait. No user has to leave and no timeout has to fire.

### Several components in one run

Some components share nothing. `MCRateLimits`, `MCAccounts`, `MCTexts` and `MCQueries` check
such components side by side in one run: a variable `part` says which of them a
behaviour is about, the others stay in a legal initial state, and each property
speaks of its own component. No behaviour mixes two parts, so a run shows of each
component exactly what a run of its own would. In `MCRateLimits` the choice is not a
device but the code's: `RateLimits` models `create_app`, which builds the limiters of
one back end, or none, and `enforce`, which asks them.

### Rate limits

| Module | Models |
|---|---|
| `RateLimiter` | the token bucket of one process: `acquire` under its lock with the clock each thread read before, refill, eviction at `max_keys` |
| `RedisRateLimiter` | the counter per caller and minute that API copies share: INCR, EXPIRE, what fails between them, restarts of Redis |
| `RateLimits` | which of the two a process has, if any |
| `LimiterProofs` | proofs of the three |

Tokens and time are counted in units, so a fraction of a token is a number of units
and nothing is rounded. `spent`, `promised`, `seen` and `allowed` record history
for the properties; no action reads them. `spent` starts again when a bucket is
evicted, because an evicted caller does get a fresh bucket:
`RecentCallersKept` says whom that can happen to. The minute of the second
model has `Seconds` seconds, and all copies read one clock.

| Run | Instance | Shows |
|---|---|---|
| `rate_limits` | in memory: 3 callers, 2 threads, room for 2 buckets, 5 ticks, a window from tick 1 to 2; in Redis: 2 threads, a limit of 2, 3 minutes of 2 seconds, 2 faults of any kind | the budget in a window and the promised retry time hold whatever order stale clocks are used in; only the caller served longest ago is forgotten; API copies together keep the limit of a minute; a counter that never expires needs a fault |

Bounds. A window that begins after the start of the run and ends before its end has time
before, inside and after it; the proofs hold for every window. Two threads are enough for a
stale clock to meet a newer one. A third minute shows what is left of the first.

INCR and EXPIRE are two calls, so a copy that stops between them leaves a counter without a
lifetime. The counter's name holds its minute, so it costs memory and never a request;
`CountersExpire` counts such counters against the faults.

### Registration, login, tokens

| Module | Models |
|---|---|
| `Registration` | `AuthService.register` from the validated form to the answer, each repository call an action, and the unique indexes on `users.email` and `organizations.name` |
| `Access` | login with its read of the row and the hashing after it, tokens and their expiry, `get_current_user`, the limits and the body size check around an endpoint, and the browser's session |
| `AccountsProofs` | proofs of both |

`Lower` is any idempotent function on spellings. `Fails` is any `StorageError`, or a
stop of the API, with the statement rolled back or committed. A hash is who knows
the password, a signature is who was given the token. Nothing in the code disables
or deletes an account, but its queries and its foreign keys reckon with both:
`Access` lets an operator do it in the database, at any moment.

| Run | Instance | Shows |
|---|---|---|
| `accounts` | 3 requests, 2 organisations, 3 spellings of 2 addresses, 2 faults; 2 browsers, 1 address, 2 passwords, 2 calls each, 2 changes of accounts, 1 fault, a lifetime of 1 tick | one account per address; nobody is told something false; an organisation without users comes from a request that lost a race or failed; endpoints run for active accounts with valid tokens; 401 has a reason that lies with the caller |
| `accounts_unit` | 2 requests, no faults | violated: an organisation has a user or a request that is under way |

Three requests let two race for an address while the third races for an organisation.
One address is enough in `Access` because what can be confused is one address's
account before and after it was deleted and registered again.

`UserRepository` says (`app/auth/repository.py:16-19`) that an organisation and its first user
are "something that must succeed or fail as a unit". They do not: the organisation is committed
by itself (`service.py:44`), so a request that then loses the race for its address, or fails,
leaves an organisation without a user. `RegisteredAsUnit` states the claim, and `accounts_unit`
refutes it without any fault: a request finds its address free, creates its organisation, and is told
a conflict because another one has inserted the address meanwhile. What does hold is weaker:
`AnswersAreTrue` says what each sender is told, and `OrganizationsExplained` that there is no
other way to get an organisation without a user. A 500, when two requests create one organisation, is
told only to a request of which nothing is stored and whose organisation exists: sent again,
it goes on to its user.

### Texts: extraction, chunking

`Extraction` has the pure functions of `extraction.py`: which files are refused and
why, and `normalize_text`, whose replacements are stated as the places
of a text they keep. Its two named assumptions are the reference: a normalised text
is what chunking and the database need, nothing visible is lost, normalising twice
is normalising once; a file is refused or has a text. TLC evaluates them for all
texts of up to 5 characters and all files of up to 3 pages whenever run `texts` starts.

`Chunking` makes one round of `chunk_text`'s loop one action; its inner loops (the
search for a break, the trimming, the search for a word) are stated as the
positions at which they stop. Characters are reduced to five kinds, of which
"tab" stands for white space that is no separator. `TextsProofs` has the proofs about
`Chunking` and `AskPage`.

### The browser

| Module | Models |
|---|---|
| `AskPage` | `askStream` and `Ask.jsx`: the API's lines cut into chunks anywhere, broken connections, and what each event does to the screen |
| `DocumentsPage` | `Documents.jsx`: list requests that are sent, evaluated and applied in any order, the two-second polling, uploads; the API is `DocumentLifecycle`, which `Ingestion` is shown to implement |

The last line of an answer has the whole reply *stripped* (`answers/service.py:148,157`), while
the pieces before it were sent as they came (`:144,146`), and the page keeps the pieces. So
`AskPage` writes `Strip` of the texts into the last line, and `ScreenTellsOutcome` compares the screen
with it up to white space around the text. That the API's last line is this is what
`VerdictFitsReply` establishes in `Answers`; that the screen agrees with it, wherever the
chunks are cut, is what the page has to achieve.

| Run | Instance | Shows |
|---|---|---|
| `texts` | all normalised texts of up to 9 characters over two alphabets that hold every separator, passages of 6, overlap 2; 2 questions, answers of up to 4 lines of words and white space; 2 documents, 2 list requests, 1 upload, 1 fault | passages fit and cover the text, short phrases stay whole, the loop ends; the screen shows what became of the last question; nothing is shown as being processed for good |
| `page_refresh` | the same page without faults | violated: an uploaded document comes to be shown as settled |

Two or three rounds of chunking meet every branch; the proofs hold for every text.
`PhrasesWhole` is about phrases no longer than the overlap: a longer one that is cut may
be whole in no passage. A line is two halves, so every chunk that ends inside a line
is met. Two list requests are what it takes to apply an older list last.

Fairness. The loop of `chunk_text` runs. In the browser the timer fires, an upload
goes on, and every request is evaluated and applied; a user need not upload. That
each document settles in the API is what `EveryDocumentSettles` establishes for
the pipeline.

### Reads and searches

| Module | Models |
|---|---|
| `Tickets` | `POST /tickets` with classification, INSERT and commit apart; a client that walks through the pages of `GET /tickets`, whose items and total are two statements |
| `Knowledge` | the embedding service, its client batch by batch, the vectors and the model a document names, `embed_existing_documents.py`, keyword and semantic search, while `EMBEDDING_MODEL` changes in one process after another |
| `Laboratory` | the tickets service of `system-design` over one database, a primary with two lagging replicas, or two shards; its gateway gives up while the service goes on |
| `KnowledgeProofs`, `TicketsProofs` | proofs about `Knowledge`; about `Tickets` and `Laboratory` |

| Run | Instance | Shows |
|---|---|---|
| `queries` | 3 submissions, 2 organisations, pages of 1 and 2, 1 fault; 2 documents of 2 chunks, 2 models, 1 change of model; 3 calls of the laboratory over each set-up | a walk skips no ticket that was there when it began; a page lies inside its total; senders were told the truth; a document's vectors are of the model it names, hits of the model of the question; a finished backfill leaves nothing behind; an id finds its user's ticket in its shard; a count lies between what every database had at the start and what there is at the end |

Three submissions are what a page of two needs to have a successor. A process that is
restarted with the model it had changes nothing that lasts and is not counted; one
change of a model meets every place of a job and of a search, because every process
may start with either model.

What these models also show:

* The documents say of a ticket inserted during a walk that "a row can be seen twice or
  skipped" (`docs/adr/ADR-010-offset-pagination.md:18-19`, `docs/versions/v3-pagination.md:100-102`;
  "seen twice or missed", 282-283). The first is so: an id is given at the INSERT and seen
  after the commit, so a ticket can appear before rows a walk has passed, which then come
  again. The test of paging stores its tickets first, where this cannot happen. The second is
  narrower than it reads: the list is ordered by an id that never changes and nothing is
  deleted, so rows only ever move back, and a row that was there when the walk
  began is never skipped (`NoTicketSkipped`, theorem `EarlierTicketsAreShown`). Only a ticket
  that is stored while the walk goes on can be missed, which `NoTicketSkipped` leaves open.
* A 503 after a commit whose answer was lost has stored the ticket; "retry" stores it
  twice. There is no key by which a retry could be recognised.
* `schema.sql` of the laboratory says "Ticket ids are unique across shards". That
  holds of the seeded tickets; new ids start at the same number on every shard, and
  an id leads to its ticket only together with its user, which `get_ticket` requires
  (`OwnTicketFound`).

## 3. Proofs

All theorems hold for every value of the constants that satisfies the named
assumptions. They are checked by TLAPS down to the leaves.

### Ingestion (`IngestionProofs`)

`FileIffPending` and `ChunksIffReady` are not inductive. A worker about to commit
an outcome would break them if the row had moved on since the check, so the
invariant must say what a row lock means at each place a transaction can be
(`LocksInv`): in `write`, the row is PROCESSING with the worker's own attempt; in
`claiming`, it is QUEUED with the attempt that was read; in `requeue`, the locked
rows are exactly the rows the first UPDATE failed. Locks of different workers
are disjoint. `OneOwner` needs that a claim always makes a new attempt number, so
`JobsInv` says that a busy worker's attempt has been counted already, and
`AttemptsBounded` needs that a row in QUEUED has an attempt left (`RowsInv`).
`IInv` is the conjunction, found with TLC; theorem
`Invariant` proves it with one lemma per action.

`PendingWithinRace` needs one more term: a request that was let through and has not
inserted yet counts as if it had (`RaceInv`). Then an insert changes nothing, and a
request is let through only while there is room for it. The second half of
`RetryBudgetKept`, `FailedForAReason`, is an account (`CostInv`): every attempt of a document has cost a fault, but for one whose
owner is still at work on it. A claim opens such an attempt, an exception, a lost
commit or a crash closes it with the fault that caused it, and a rescue takes only documents
without an owner (`Quiet`), because a sign of life removes a document from every
cutoff read before. Both assumptions of the theorem (`Cautious`) are necessary: a slow worker
costs an attempt without any fault, and one outage costs several (`ingestion_outage`).

`QueueImplementsLifecycle` is the refinement: each step maps to a step of
`DocumentLifecycle` or to a stutter. A claim, a heartbeat and a requeue stutter; a
delete is `Delete`; a finish is `Ready` or `FailTogether({d})`; the rescue's commit is
`FailTogether` of the set it locked; an insert that the unique constraint refuses
maps to an id that is gone without having been pending.

### Model service and answers (`AnswersProofs`)

`PlacesCounted` follows from type correctness and one lemma on cardinalities: a
step that moves one call in or out of the queue changes the counter by one.
`ApiUsesService` proves that every step of the API with its users is, for the
service, a call, a hang-up, a step of its own or nothing; so what is proved of
the service under all callers holds for the API, and `PlacesCountedForApi` is two
lines. `StartedStreamsClosed` needs no service fact: it follows the places of a
question.

What a stream shows is proved by following the reply (`ReplyInv`): what was shown is either
nothing or all that was read, and it is only shown once the reply is as long as the
hold-back without a refusal in that part (`Begun`), which more text does not change (`MoreText`).
What was written and what was read of it are sequences of pieces, flattened into texts, and
`FlattenStart` relates the two: the first pieces make up the start of the whole text.
`RefusalsHeldBack` and `VerdictsFit` follow, for replies and pieces of any length. The theorems
assume that the hold-back is a positive number, that the pieces are sequences of tokens, and
that the token that completes a refusal is not white space.

### Rate limits (`LimiterProofs`)

The budget of a window is not inductive, because it does not say what is left in the bucket. `IInv`
relates the two: what was spent in the window and what the bucket can still give until the
end of the window stay within a full bucket and the window's refill. A stale clock only
makes a refill smaller, so the same inequality holds for every order in which threads take
the lock. `RetryAfterKept` follows from a second bound: what a bucket lacks was promised time for.

`RecentCallersKept` says that the dict is the end of the list of all callers in the order
they were served last. It is inductive together with `OrderInv`: no caller is in that
list twice. Moving a caller to the end then takes the same place out of both lists, and evicting
the first key leaves the end of one place less; `RemoveFirst` and the lemmas about it compute
both, for any number of callers and threads, any `max_keys` and any time.

For the shared counter the invariant is that the counter of this minute outlives the minute
(`OutlivesMinute`), which is why no request is counted from zero again before
the minute is over. `ImmortalsCounted` adds that the counters without a lifetime are finitely many and
that a step makes at most one, with a fault. `LimitsKept` carries the budgets to
the composition: each step of `RateLimits` is a step of the limiter that was built and leaves
the other one alone.

### Registration and access (`AccountsProofs`)

Registration: two lemmas cover all actions, a step that inserts no user and the one that does. The invariant says that
an account belongs to a request that is over, has that request's address and was told as created
or uncertain (`UsersInv`), and that addresses are validated once a request is sent. That every
organisation is explained (`OrganizationsAreExplained`) is a conjunct of its own: who
created one goes on to insert a user, has done so, or was told that something failed.

Access: token and account are looked at one after the other, and an account can be disabled, deleted or registered again
in between. Two facts carry the proofs. Ids come from a sequence, so an id that was once given to an
address names that address or nothing any more (`NamesAddress`); it is stated of
the token and of the row a login has read. And `history` holds the account's row at every moment of a call, so what a
step finds in the table is in it (`CallInv`). `BystandersKeep` shows once that no step
disturbs another client. The invariant is `AccessIInv`; the theorems assume only that a token's lifetime is a natural number.

### Documents, models and search (`KnowledgeProofs`)

A document's vectors are of the model it names because a job asks for the model of its own
process with every batch and a service with another model refuses (`JobsInv`), and because
the vectors and the name are written by one commit (`StoredInv`, chunk by chunk). A question is embedded
in the same way (`SearchInv`), and the comparison names its model. `ScriptInv` says of each
document in a backfill's scope that it is done, gone, or still to do; a worker cannot bring
back an old model because it embeds what was not there when the scope was listed.

### Tickets and the laboratory (`TicketsProofs`)

A page is a set of rows by their rank, the number of matching rows with smaller ids. A row that
commits late may have any free id, so ranks change while a walk goes on, but
only upwards (`PlacesMoveBack`): what has not been shown lies at or behind the place the walk has reached
(`Ahead`). Between the two statements of a page, and between two pages, that is
what `WalkInv` keeps. A page has no more rows than its limit because different rows have
different ranks; it lies inside its total because the row of the highest rank has all
the smaller ranks before it. An empty page then leaves nothing ahead, so the
walk has seen every ticket that was there when it began. `IdsInv` gives that no id is ever given twice; with it,
`SubmissionsTold` is a fact about one row.

The laboratory's counts are sums over shards made while rows are added. `LabIInv` says of a
count under way that what it has, and what the shards not yet asked have grown by, cover
what there was at its start (`Counting`); an insert in a shard already passed
raises the total there is and not the count. Sums are a recursive function,
`SumTo`, and lemmas say what a sum does when one term grows. Ids are
unique per shard (`RowsInv`), an id that a shard has not given yet is nobody's (`Unborn`), and
a seeded ticket is on its user's shard.

### Texts: chunking and the page that asks (`TextsProofs`)

`BreakInWindow` bounds a break: after the middle of the window, hence further on than the
overlap reaches back. `RoundHolds` then shows that a round covers the text it has passed and
that a phrase it has begun ends before the break. Both properties are stated up to
where the loop has come and are inductive as they are. `LoopAdvances` gives termination in
at most as many rounds as there are characters; `Terminates` itself is checked by TLC.

For the page that asks, `View` says what a screen is to show of a list of lines: all texts
joined, the sources if the first line has them, the refusal or the error if the last
line is one. `AskIInv` says that the screen is `View` of the lines read so far, that is, of the
half of `got`, whatever chunks they came in, and that lines come in the order the
API writes them. `ViewStep` is one call of `onEvent`; `ChunkShown` is its
repetition for all the lines one chunk completes. When the stream ends, all lines have been
read, and the text of the last one is the join of the others without the white space around it.

### Recursion (`Recursion`)

Sums, flattened sequences and repeated steps are recursive functions, and the library's
induction theorems take operators, which the backends cannot instantiate. `InductiveSet`
states induction about a set instead: a set that has 0 and all successors is `Nat`. It is
proved from the well-foundedness of the natural numbers, and each induction names its set
`S == {n \in Nat : ...}`. `Iteration` gives a recursive function its
equations, and `Flattened`, `FlattenAppend` and `FlattenStart` are what the models need of
`FlattenSeq`.

### Types and inductive invariants

Every proved module has a type invariant, which is part of its inductive invariant and
proved with it; so are facts that were once run by TLC and are now only proved
(`WriterOwns`, `LockHeldByWriter`, `ChunksFit`, `Advances`). Each inductive
invariant was run by TLC on its instance before it was proved. `PageTypeOK`, of the one module
without proofs that has state, documents it. None of
these is among the runs' properties, which are kept for what could go wrong; any
of them can be added to a `.cfg`.

Every invariant and every action property that a passing run checks is also a theorem. Only
model-checked are liveness (`EveryDocumentSettles`, `PlacesAreFreed`,
`EveryQuestionEnds`, `Terminates`, `WaitingLeavesScreen`), because the prover has no rule for fairness; what the pure
functions of `Extraction` compute, whose assumptions quantify over the texts of an
instance; the claims that a `violation` run refutes; and that `DocumentsPage`
uses `DocumentLifecycle` as its API, which is a matter of how the page is written.

## 4. Not modelled, and why

* The ranking of passages (`tsvector`, cosine distance, reciprocal ranks): `Knowledge` has any
  choice among the passages that may be found. `retrieve` in the answers is one of three
  outcomes, and the prompt is left out.
* `POST /classify` and `/health`: they store nothing. What they share with others, a
  missing classifier and the translation of errors, is in `Tickets`.
* The connection pool of httpx and the API's thread pool: the questions of the
  models are few; a saturated pool is a matter of capacity, planned as a module
  of its own.
* Hashing, token signing, PDF parsing, the classifier, the language model: library calls
  with the outcomes the code tells apart.
* Configuration: the limits it holds are CONSTANTS. Logging, request ids and the layout of pages.
* In the laboratory, the users service, which reads rows that never change, and the
  simulated work of its classifier.
* Machine learning, measuring and load scripts, evaluation, deployment files and
  migrations: one-shot programs and descriptions with no protocol of their own.

## 5. Plan

Done: ingestion with its refinement, answers over the model service, the rate limits,
registration and access, extraction and chunking, the embedding service with search
and backfill, tickets, the browser's two live pages, the laboratory; proofs of the safety of
all of them. Next:

1. An abstract specification of a rate limit (a budget), which both limiters
   implement, with the refinement proved.
2. `ApiResources`: threads, database connections and the model service's queue,
   and what waits on what.
3. Safety of `DocumentsPage` as far as it holds: what is on screen was in the list once.
