# A TLA+ model of the Analyzer Server

The Analyzer Server is the Python backend that stores crawled blog posts, has an LLM analyse them,
and answers chat requests about the result. Three kinds of process run from one code base:

| process | module | consumes | produces |
|---|---|---|---|
| ingest worker | `app/worker/ingest_worker.py` | Redis stream `crawl:ingest` | rows of `documents`, RabbitMQ `blog.analysis` |
| analysis worker | `app/worker/analysis_worker.py` | RabbitMQ `blog.analysis` | rows of `analysis_jobs`, RabbitMQ `blog.analysis.completed` |
| API server | `app/main.py` | HTTP | chat sessions in Redis, documents, diagnoses, profiles |

What they share is outside of them: PostgreSQL, Redis and RabbitMQ. Nearly everything that is hard
about the code is a step of one of these systems that happens, or fails, or is repeated, between two
steps of another. The models take such a step, one Redis command, one SQL statement or transaction, one
broker call, as the atomic action.

## 1. Inventory

### Crawl stream and consumer group (`app/repository/crawl_queue.py`)
State: the stream, the group's last delivered id and pending entries list (PEL), the dead-letter stream.
Operations: `read` (XREADGROUP), `claim_pending` (XAUTOCLAIM after 60 s), `ack`, `requeue` (XADD),
`send_to_dlq`. Hard: an entry may be claimed from a worker that is slow and not dead, and its copy and
its acknowledgement are two commands. Correct when: a post is stored, dead-lettered or still to be
delivered; the group drains.

### Ingest worker and the FULL_BLOG batch (`app/worker/ingest_worker.py`, `app/service/blog_snapshot_service.py`)
State: the entries a worker holds; for each batch the Redis keys `doc_ids`, `completed`, `deadline`,
`snapshot_status`; the snapshot row; the analysis messages sent. Operations: ingest one post,
acknowledge, count it, take the snapshot lock (SET NX, GET, Lua script), build the snapshot, publish,
mark completed or failed, retry or dead-letter. Hard: several workers finish a batch together, die
anywhere, and each command may raise after it took effect. Correct when: one worker at a time owns the
snapshot, it is built once from committed posts and from all of them, repeated analyses are accounted
for, the batch is analysed.

### Analysis worker (`app/worker/analysis_worker.py`, `app/service/analysis_service.py`, `app/core/database.py`)
State: queued and unacknowledged copies of each request with their retry header, the handlers of each
process (`worker_concurrency` of them), job rows, events. Operations: receive, resolve a correlation id,
analyse in a transaction, commit or roll back, ack, announce, republish, reject. Hard: database, broker
and Redis have no common transaction; a lost connection redelivers under running handlers. Correct when:
no request is lost, repeated analyses are accounted for, events tell the truth, and who asked hears.

### Document store (`app/service/document_service.py`, `app/repository/document_repository.py`)
State: one row per `(user, source, external_id)` and its chunks. Operation: `ingest_and_chunk`, one
transaction of several statements. Hard: overlapping transactions of one document at READ COMMITTED, and
an ORM that leaves out an UPDATE which changes nothing. Correct when: the whole acts as one replacement.

### Conversation (`app/service/conversation_service.py`, `app/repository/conversation_repository.py`)
State: the list and the counter of a session, each with a TTL. Operations: `chat` (read the limits, call
the LLM, append, count), `reset`, expiry. Hard: the limits are read before the LLM call and the session
written after it. Correct when: the overrun is bounded, history is charged and expires, a reset holds.

### Rate limiter (`app/core/rate_limiter.py`, `app/api/error_handlers.py`)
State: a Redis hash with a TTL. Operation: a Lua script on a timestamp the server read before. Hard:
timestamps from several clocks, in any order; expiry; rounding. Correct when: admissions over a stretch
are bounded and the waiting time in the answer is right.

### Text chunker, embedding cache and LLM client (`app/service/chunker.py`, `app/repository/embedding_cache.py`, `app/client/llm_client.py`)
State: the Redis keys `embed:{model}:{digest}`, shared by all processes and kept for 30 days; in each
process a semaphore for provider calls and the configured provider. Operations: cut a document into
chunks (pack paragraphs, slice long ones, prepend the end of the chunk before), look all chunks up with one MGET,
embed the misses, store them with one pipeline, merge hits and fresh vectors; a chat completion. Hard:
boundaries of the packing; vectors are paired with texts by position only; the cache outlives what wrote it.
Correct when: the chunks hold the document, each is stored with its own vector, nothing else gets
into the cache, and no exit keeps a permit of the semaphore.

### API server (`app/api/`, `app/service/analysis_service.py`, `blog_diagnosis_service.py`, `profile_embedding_service.py`, `app/core/database.py`)
State: rows of `analysis_jobs`, `blog_diagnoses` and `profile_embeddings`; in each process a pool of database
connections and the semaphore of the LLM client. Operations: analyse a document, read the latest analysis,
diagnose, store a profile, the database check of the readiness probe. Each request is one session and so one
transaction, which holds its connection while it waits for the LLM. Hard: transactions that overlap and are
ordered by when they began, a check and an insert under a unique index, an error that is swallowed inside of a
transaction, two resources taken one after the other. Correct when: an answer is true, who was answered finds
what was stored, the newest row is the right one, every request is answered.

### Context retrieval (`app/repository/context_retrieval_repository.py`)
No state: three vector queries, for the user's own posts, influencers' posts and job postings. Hard: the best
chunk of each document must be chosen before the list is cut to `top_k`. Correct when: nothing is
left out for something less similar.

### Not modelled
| part | why |
|---|---|
| JSON repair, spans and message formats of the LLM client | data of one call |
| `_aggregate_metrics` of the diagnosis | arithmetic that goes into a prompt; that it raises on counts that are no numbers is all a later step depends on, and is modelled (`uncountable`) |
| query rewriter | nothing in the repository calls it |
| similarity search | commented out in the source: it moved to another server |
| Redis and RabbitMQ probes of the readiness check, other routers' plumbing | no state of their own |
| configuration, logging, tracing, schemas | settings are the CONSTANTS; the rest is data declarations and output |
| URL checks, HTML extraction | stateless text processing that no worker calls any more |
| migrations | DDL; the unique constraints are in `Insert` of DocumentStore and `Violates` of ApiServer |

How they meet: a stream entry becomes a document (`DocumentStore` opens the transaction that is the
one step `Ingest` of `IngestWorker`), and what the ingest worker publishes is what `AnalysisWorker` consumes:
`Pipeline` composes the two over one queue `blog.analysis` and one set of `ingest:done` keys. `RateLimiter`
stands before `Begin` of `Conversation` and behind `Refuse` of `ApiServer`. `Embedding` is what happens inside
of `ingest_and_chunk` between the upsert of the row and the INSERT of its chunks; the chunks it returns are
what `DocumentStore` calls the content of an ingest. `ApiServer` runs the same `analyze` as `AnalysisWorker`:
there it is one transaction among the faults of a broker, here its statements among those of other requests.

## 2. Modules

| module | models | state against the code |
|---|---|---|
| `CrawlQueue` | the stream and its group | an id is a position in `stream`; `pel` a set of ids, because neither XACK nor XAUTOCLAIM looks at the owner. `Claimable` is any set of pending ids: which have been idle for 60 s is left open, and claiming one that a live worker holds costs a unit of `MaxSteals` |
| `IngestWorker` | the workers and one batch (keys of different batches are disjoint) | `pc[w]` names the next command; `Catch` is the table of `except` clauses; `Proceed` and `Raise` are a command that raises after and before its effect |
| `SnapshotLock` | abstract: what the `snapshot_status` protocol promises | one holder, one message per tenure, the lock may be orphaned |
| `AnalysisWorker` | the consumers of `blog.analysis` | a slot is a running handler; `owned` are the deliveries the broker has not had settled; a handler that ended by an exception is `stuck` |
| `DocumentStore` | the upsert, statement by statement | `pending`/`removed` are uncommitted writes and thereby locks; `seen` is what the session compares with. `met` and `mixed` are history: who ran next to an ingest that leaves a column out of its UPDATE, and whether the last one committed is one of them |
| `Upsert` | abstract: one ingest is one atomic `Replace` of the row and its chunks, or, next to one that leaves a column out, a `Mingle` | `mixed` tells which the last step was |
| `Conversation` | one session | `lapsed` is history: the lines in the list when the counter last expired during the writes of a request. A history line carries who wrote it and, as `epoch`, how many resets came before its request |
| `Chunker` | `chunk`, `_slice_long_text`, `_apply_overlap` | operators on sequences of tokens; a document is the sequence of its paragraphs |
| `Embedding` | `_embed_with_cache`, `get_many`, `set_many`, the semaphore | `Cut[d]` are the chunks of document `d`, whatever they are; a call of several processes; a vector is the text it stands for and the model that made it. `model[p]` is the provider `p` was started with |
| `ChunkedIngest` | `Embedding` with the chunks of `Chunker` | no state of its own: `Cut` is `Chunks` |
| `RateLimiter` | one bucket | tokens in grains, so small that the refill rate is an integer per ms; an observer counts admissions from any moment |
| `DocumentLife` | abstract: the stations of a document from the crawl to the event | a set of documents for each station, and what must be behind a document that reaches it |
| `Pipeline` | ingest workers and analysis workers together | EXTENDS the one and INSTANCEs the other; no action of its own. `Sent` is read off the publish counters of the ingest side: a step that adds to it is the broker's `Publish` on the other side in the same instant. A message is its document and a number; 0 is the request another server sends by correlation id. `Life` maps the stream, the tables, the queue and the events to `DocumentLife` |
| `Retrieval` | the three vector queries | operators on sets of scored chunks; rows of equal score come in any order |
| `ApiServer` | the requests of one process about one user and one document | `pc[r]` names the next statement, LLM call or commit; `Holders` of a connection and `Callers` with a permit are read off it. `at[r]` is the time of BEGIN, which PostgreSQL gives the row as `created_at`; `doomed` are requests that can no longer be stored or answered: an error of the transaction was swallowed, or the LLM replied what the row or the response cannot hold (the demo provider always does to a diagnosis), or the counts in the metadata are no numbers. `setting.canned` and `setting.uncountable` are those last two |

The `MC*` modules define the constants that are functions and the symmetry sets; the `*Proofs` modules
hold the theorems. Definitions headed `Mutant:` are plausible bugs of the definition that follows them.
They are not part of any specification: each is there to show that a run would find that bug.

Differences to the code that a reader should know: the crawler's fields are reduced to `Kind`, what
`_handle_message` makes of them; the 24-hour TTL of the batch keys is not modelled (no behaviour here
lasts that long); an LLM call returns or raises; the tokens of a concatenation are taken to be those of its
parts (`Chunker`); the limits of the model (`MaxCrashes`, `MaxSteals`, `Max...Faults`, `MaxRequests`,
`MaxResets`, `MaxClock`, `MaxExpiries`, `MaxRedeploys`, `MaxDisconnects`, `MaxMessages`) are bounds of the checks
and appear only in guards. `PoolSize`, `Permits`, `Prefetch` and `TopK` are settings of the program and not bounds.
In `ApiServer` the corpus does not change while a request runs, and a pool timeout is a choice whenever no
connection is free: how long a wait lasts is not modelled. It is answered 500 like every exception nobody
expects, and 503 by the readiness check (`Unhandled`). A TTL of `Conversation` may run out at any step, of the two
keys that of the one renewed first, also in the middle of a request.

## 3. Runs

`tlc -config <cfg> <module>`, each below three minutes.

| run | instance | checks | shows |
|---|---|---|---|
| ingest_batch | 2 workers that take one entry at a time, 2 posts of one batch, 1 retry; a crash, a claim from a live worker, a Redis error and another error, each once | NoPostLost, SnapshotOwner, PublishBound, SourcesCommitted, BatchNotForgotten, SnapshotComplete, LockSpec | the batch protocol is safe with all faults together, and implements `SnapshotLock` |
| ingest_kinds | 2 workers, a POST-mode entry and a bad one; the same faults; fair | PostPublishBound, PostAnalysed, Drains | the other paths of `_handle_message`, and progress |
| analysis_faults | 3 requests (awaiting an ingest, without a document, malformed), 2 processes, 1 retry; a crash, a lost connection, a work error and a broker error, each once | NoRequestLost, AnalysesBound, EventsBacked, StuckBound | at-least-once delivery, with the price of every duplicate |
| pipeline | a POST-mode post and a batch of one, an ingest worker, an analysis process, a request by correlation id for the first post; one fault of any kind on either side; fair | FoundWhenAnalysed, DocumentReported, Answered, LifeSpec | from the crawl to the announcement: nothing is analysed before its row is committed, what was crawled is reported, and the whole implements `DocumentLife` |
| upserts | 4 overlapping ingests: a crawl, its redelivery, one with other metadata only, the page emptied; and one without external_id; fair | ChunksFollow, UpsertSpec, Terminates | the row lock makes the statements one replacement unless a column is left out, what then may remain, and that no wait for rows or chunks is circular, also with failures |
| chat_limits | 2 requests at a time, 4 in all, a reset, an error; either key may expire at any moment | LimitOverrun (TokenOverrun and TurnOverrun), HistoryCharged, SessionExpires, ResetLeftover | how far races may go |
| rate_bucket | 2 instances with skewed clocks, 5 requests, 8 ms | AdmissionBound, AdmittedOverTime, RetryAfterExact | no free tokens from expiry or rounding |
| embeds | 2 processes, a permit each; one ingests any of 23 documents and serves a chat, the other one a document that shares chunks; an error or a reply too short, an expiry and a restart for another provider, each once; fair | ChunksHoldDocument, ChunkBound, ChunksGetTheirVectors, CacheSound, Served | chunks and vectors are right, the cache stays sound, every call ends |
| api | 3 requests, 2 connections, 1 permit; eight mixes of operations that overlap, one with the demo provider and one with metadata that cannot be added up, and an analysis over each of 128 corpora; an LLM error and a database error; fair | ReadYourAnalysis, LatestFresh, AnswersTrue, ProfileOnce, CurrentProfile, ContextBest, AllAnswered | answers are true and ordered although transactions overlap, and pool and semaphore never block each other |
| find_premature_snapshot | a batch of 2 and one claim from a live worker | SnapshotWaitsForAll, violated | section 4 |
| find_failed_row | one request that always fails | FailureRecorded, violated | section 4 |
| find_duplicate | three deliveries of one crawl | ChunksMatch, violated | section 4 |

Why the bounds suffice: each hazard needs two workers (one stopped between two commands while another
runs through), one unit of each kind of fault, one retry beyond the first attempt and, for the count of
a batch, one post more than a worker handles. `pipeline` allows one fault in all: the faults of one side among
themselves are in `ingest_batch`, `ingest_kinds` and `analysis_faults`, and what is left for the composition is
how a fault on one side meets the other. It needs no more than two messages about a document, a publish and its
repetition. In `api` two connections for three requests make one of them wait, one permit
makes two callers wait for each other, and three requests are what an order needs: two that overlap and one that
looks, or a profile, another one and the first again. The corpora have two candidate documents with any
scores of three and a list of length one, so that something is left out. The documents of `embeds` are all
sequences of up to two paragraphs that are shorter than a chunk, of its size and twice its size, and
two longer ones; with a chunk of three tokens and an overlap of one, every branch of the packing and both
ends of a window occur. The theorems of section 5 have no
such bounds. The specifications allow the rest of a system to go on when the bounds are used up; the
workers then wait at an empty stream or queue, as the code does, which is why the runs do not check
for deadlock (`CHECK_DEADLOCK FALSE`). Circular waits, where they could arise, are `Terminates`.

The `plain` kind (no batch, no correlation id) and the `poison` kind (an `expected_count` that `int()`
rejects) of `IngestWorker` are in the theorems but in no run. With a poison entry `Drains` is false:
`int()` stands before the `try` (`ingest_worker.py:79`), so the process ends on every delivery.

The type invariants are not among the properties of the runs: they are proved (section 5).

Fairness: a running worker takes its next step (the event loop runs it, and a call to another system
returns or raises, in the end), a restarted or idle one polls, the broker delivers to a free slot, PostgreSQL goes on with
a statement that waits for nothing, the provider answers a call that holds a permit. In `ApiServer` each request
goes on by itself, also when others compete with it: pool and semaphore serve in the order of arrival,
and every wait for them ends, at the latest by the timeouts of the pool and of the LLM client. In `Pipeline` the
crawl, the queue, every handler and every worker have their own fairness, a worker one for what it can do
next, and none has the passing of the deadline. Nothing is assumed of faults. That an ingest worker that ended is
started again (`Restart`) is an assumption about the deployment: `docker-compose.yml` names no restart
policy (and for `crawl_worker` a module that no longer exists), so without a supervisor `Drains` holds
only while some worker lives.

## 4. What the code does that its documents do not say

Three runs show it with a counterexample:

- **find_premature_snapshot.** `INCR` counts deliveries and not posts. An entry claimed from a slow
  worker is counted twice, and the snapshot is built while a post is missing (`ingest_worker.py:207`).
- **find_failed_row.** `analyze` flushes `failed` and re-raises; `session_scope` rolls the row back.
  No failed row is ever stored by the worker (`analysis_service.py:160`).
- **find_duplicate.** Overlapping redeliveries of an unchanged post send no UPDATE, so nothing locks the
  row; each deletes the chunks it sees and inserts its own (`document_service.py:152`).

Other places are visible in the qualifications of properties that hold; dropping the qualification gives
a counterexample:

| property | qualification | behaviour behind it |
|---|---|---|
| PublishBound | `redisFaults + workFaults` | a publish that raises after its effect marks the batch failed and is repeated (`ingest_worker.py:280`) |
| PostPublishBound | `BatchSize * steals` | one claim may move several entries that copy one post, and each is then handled, and published for, twice (`crawl_queue.py:52`) |
| SnapshotComplete | no crash, no claim from a live worker, no Redis error | what find_premature_snapshot shows: only entries delivered twice are counted twice, errors of the database, the LLM and RabbitMQ are not |
| SourcesCommitted | `snapshot \subseteq` and not `=` | a retry reuses the snapshot row but names the ids of now (`blog_snapshot_service.py:55`) |
| SnapshotOwner (its part CreatingOwned), BatchNotForgotten | `crashes`, `redisFaults` | a worker that dies holding the lock leaves `creating` for the 24 hours of the key, and every other worker leaves the batch to it (`ingest_worker.py:230`) |
| NoPostLost (its second part) | `crashes`, `redisFaults` | once XACK is through, a post whose worker dies, or whose requeue raises, is stored but never passed on (`ingest_worker.py:137`) |
| DocumentReported | a dead-lettered post of the batch; `Broken` | the deadline is looked at only when a post completes: if the last one is dead-lettered nothing looks again and the batch is never analysed (`ingest_worker.py:212`). A process that dies or a Redis error between two commands loses the analysis or the lock; the ack of an analysis comes before its event, whose errors are swallowed, and a redelivered copy of an analysed request may be dropped without an event (`analysis_worker.py:123`) |
| PostAnalysed | `crashes`, `redisFaults` | XACK comes before the publish; a crash, or a failed requeue, in between loses the analysis (`ingest_worker.py:137`) |
| Answered, StuckBound | `brokerFaults` | a request by correlation id is retried until the ingest is done or its retries are used up; a republish, ack or reject that raises leaves the message unsettled (`analysis_worker.py:152`) |
| AdmittedOverTime | `rewound` | an older timestamp sets `updated_at` back, and the time in between is refilled twice (`rate_limiter.py:47`) |
| LimitOverrun | one request's use per racing request | limits are read before the LLM call; the token check counts the question only (`conversation_service.py:80`, `:87`) |
| SessionExpires, HistoryCharged | `faults = 0` | RPUSH and EXPIRE, list and counter are separate commands (`conversation_repository.py:33`) |
| HistoryCharged | `lapsed` | a request renews the list first (`conversation_repository.py:33`) and the counter, whose TTL is older by then, last (`:42`): if it expires in between, without any error, the turns in the list stay uncharged |
| ResetLeftover | two lines per request | a request under way writes into the session that was reset (`conversation_service.py:110`) |
| CacheSound | `redeploys = 0` | the keys name `settings.embedding_model` whatever the provider: after a change of `LLM_PROVIDER` the vectors of the old model are served for the new one (`document_service.py:44`) |
| ChunkBound | `2 * ChunkSize + Overlap` | separators are not counted and the overlap is added after the size was checked, so a chunk may be more than twice `chunk_size` (`chunker.py:51`, where the class says that a chunk above the maximum is cut again) |
| AnswersTrue | `dbFaults`, and `HasProfile` | of two requests that insert one profile the loser is answered 500 although the profile is stored (`profile_embedding_service.py:33`); a query of the retrieval that raises is swallowed, but its transaction is aborted: the LLM is called for nothing and the answer is 500 (`analysis_service.py:288`); a commit whose reply is lost is answered 500 although the row is there |
| AnswersTrue | `at[r] = 0` | before any transaction, the wait for a connection may run out (`error_handlers.py:33`), and Redis may fail in the rate limiter (`rate_limiter.py:89`): 500 |
| AnswersTrue | `doomed` | a reply of the LLM that parses but is no object, or has another shape than the row or the response, ends in 500 and not in the 502 of an LLM error (`blog_diagnosis_service.py:77`, `diagnosis_router.py:37`); the reply of the demo provider to a diagnosis is always of this kind (`llm_client.py:187`); so does metadata whose counts are no numbers (`blog_diagnosis_service.py:97`) |
| CurrentProfile | a text that was not stored before | who returns to an earlier profile gets the old row, and the newest is the one in between (`profile_embedding_service.py:39`) |
| ReadYourAnalysis | the order in which transactions began | of two analyses that overlap the one that began later is the latest, whichever commits last (`analysis_repository.py:27`). That the commit precedes the response is fastapi's order up to 0.117: from 0.118 on it is the other way round (`AnsweredEarly`) |
| AllAnswered | a pool timeout is an answer | connections are held through LLM calls, so `db_pool_size` + `db_max_overflow` slow analyses make every other request wait, among them the readiness probe, which then answers 503 (`health_router.py:60`) |
| UpsertSpec, ChunksFollow | `mixed` and `Mingle`: an ingest that ran next to one that leaves a column out | a column equal to the one read is left out of the UPDATE, though another transaction changed it meanwhile (`document_service.py:146`); if none is left to send, nothing locks the row and chunks come twice (find_duplicate). The next ingest that meets no such one sets both right again |

`AnswerError` of `Embedding` ends the call with the first error of the provider, where
`docs/CONTRACT.md:231` says that three attempts absorb it: the decorator of `embed` and `chat` waits for
`RateLimitError` and `APIError`, and the body has turned every exception into `LLMClientError` before it gets
there (`llm_client.py:136`). No run is about it. What the `openai` package retries by itself is outside.
Long paragraphs are cut with overlap by `_slice_long_text` and get it a second time from `_apply_overlap`.

## 5. Theorems

All are checked by TLAPS for every value of the constants that satisfies the named assumptions.

**IngestWorkerProofs**: TypeCorrect, OneSnapshotOwner, PublishesBounded, ImplementsSnapshotLock,
PostsNotLost, BatchesNotForgotten, PublishedAreStored, LockedIsOwned, SourcesAreCommitted, PostPublishesBounded,
SnapshotsComplete: all the invariants of the two ingest runs. TypeOK is made inductive in `TypeInv`, which
bounds ids by the stream. The lock needs `LockInv`: beside SnapshotOwner it says how many messages can have been
sent in each status. A message sent without an error leads to `completed` for good, so a status from which the
lock can be taken again implies that every message so far had its error. The first part of NoPostLost needs `LossInv`: an entry out
of the PEL is safe (stored, dead-lettered or copied), and so is one a worker is about to acknowledge; the order
"effect, then XACK" is what keeps it. Its second part and BatchNotForgotten follow the post, and the batch, past the XACK, where the
stream no longer answers for it: `PostKept` and `BatchKept` say to whom each is `Entrusted` instead, a dead letter, a worker at one of the
steps that lead on (`Bringing`, `Carrying`), or an entry that waits and that nobody who has given it up is about to acknowledge (`ToCome`, `Sealed`).
A worker that finds the status `creating` hands the batch over to the one in the section, which CreatingOwned says there is; `AtKind` and
`Begun` are what a worker at a step knows of its entry and of the batch. `ImplementsSnapshotLock` maps every step to a step of `SnapshotLock` or a
stutter. SourcesCommitted follows from `Named`: whatever has reached `doc_ids`, the snapshot row, a message or
the local list of a worker went through a commit first, and a worker that goes on to build has named its own
post. CreatingOwned, the last part of SnapshotOwner, has no invariant beside the type: without a death or a Redis error the worker in
the section stays in it until it has changed the status (`SectionKept`), and who sets "creating" is in it (`CreatingTaken`).
PostPublishBound is made inductive by charging beforehand what may still be published (`Paid`): an entry that is unread, in
the PEL, or in the hands of a worker that has yet to publish is `Live` and counts one, and `Charges` are the faults that made it
live again; `HandInv` says who holds which entry, and that without a claim from a live worker nobody else does.
SnapshotComplete has one hypothesis, that the batch has at most Expected posts, as `expected_count` says. Its invariant
is a count: without a crash, a claim or a Redis error a post has one live entry at most (`Lives`), and none once it is counted, so as
long as nobody has gone on to the snapshot `completed` is the number of posts that are in `doc_ids` and past INCR (`Counting`);
when that is Expected, it is all of them (`Whole`).

**AnalysisWorkerProofs**: TypeCorrect, RequestsNotLost, StuckBounded, EventsAreBacked, AnalysesBounded. `IInv` adds `Order` (what each
step of a handler may rely on, e.g. that an ack comes after a committed analysis) and `Covered` (a request that is
neither analysed nor dead-lettered has a copy that is queued or held by a handler not about to acknowledge).
NoRequestLost is not inductive: its `Alive` also counts a copy that is about to be acknowledged.
EventsBacked is not inductive either: two handlers about to announce one analysis would break it. `Backed` makes
every handler on its way to an event draw on the stock of rows, or of dead letters, that no event has used.
For AnalysesBound, `Cost` of a request adds to its committed analyses those that are still possible: one for a queued copy, and for a
handler what its step may still add. `Charged` bounds it by the faults; a step without a fault never raises it.

**PipelineProofs**: ImplementsIngest and ImplementsAnalysis say that every step of the composition is a step of
each side or leaves it alone, so that what is proved of a side holds in the composition; PostsNotLostInPipeline
is the first use of that, AnalysisKeptInPipeline the second: `Parts` instantiates the proofs about the analysis workers, and `PartsConstants` and
`SameSpec` show that the instance is the one of `Pipeline`. (`PipelineAssumption` says of the constants what both sides assume.) WayIsKept puts the
two ends together: a step sends one message at most (`OneSent`), so all that was sent was put on the queue (`SentAsked`), where NoRequestLost
accounts for it; before that, NoPostLost and BatchNotForgotten say who has it. DocumentsAreFound combines the two sides: `StoredFirst` of the ingest side (what is
published, or answered for by a key, is committed) with `Sourced` of the analysis side (a handler that
analyses was told of its document by a message of an ingest worker or found the key).
ImplementsDocumentLife is the refinement of the whole. What is seen from outside, the stream, the dead letters, the rows, the messages,
the analyses and the events, changes in one place at most in a step (`IngestChanges`, `AnalysisChanges`); that what must be behind a
document is behind it is StoredFirst for a message, DocumentsAreFound for an analysis, and EventsBacked, before and after the step, for an event.

**ApiServerProofs**: TypeCorrect, ReadYourAnalysisHolds, LatestFreshHolds, AnswersTrueHolds, ProfilesOnce,
CurrentProfileHolds, ContextsAreBest, for any number of requests, connections and permits, so every safety property of the api
run. `IInv` has one part for each thing a
step relies on: `Times` (no two transactions begin at once, nobody is ahead of the clock), `Newest` and `Rows`
(what a committed row says of the request it is of), `Stored` (who was answered ok has a row), `Local` (what each
step of a request may rely on: `ReadOf`, `PathOf`, `DecidedOf`), `Inserts` (at most one
uncommitted row of a profile, and none beside a committed one), `Order` (who is answered before another arrives
began before it). Steps that commit nothing are handled together (`QuietFrame`). CurrentProfile needs in addition
where a profile row comes from (`Origin`) and that who arrives later begins later (`Later`). ContextBest is a fact about
the operators of `Retrieval` (`RagContextBest`) that the step of a query hands on to the prompt: a list cut after TopK leaves no better one
out, and each document is represented by its most similar chunk (`MostSimilar`, from the well-foundedness of the inclusion of finite
sets). It needs `CorpusAssumption`: the chunks of a document have the user and the source of its row, as the foreign key makes it.

**EmbeddingProofs**: TypeCorrect, CacheStaysSound, VectorsAreTheirs, ChunksHoldTheDocument, ChunksAreBounded: every safety property of
the embeds run. The first three hold for any calls, documents and permits, and whatever the chunker makes of a
document. `CallOf` follows the vectors through one call and says of each which text it was `Made` for; the lemmas about the
positions of the misses (`MissAt` and what leads to it) show that the k-th fresh vector lands in the k-th gap. A reply of the wrong length cannot have
that length by chance (`RemovedLen`), so what passes the check of `set_many` is `Fresh`. TypeOK of `Embedding` says where the permits of a
semaphore are; `Permits` proves it with the calls at the provider (`AtProvider`).
The two about the chunker hold for every document (`ChunkerAssumption`: a sequence of paragraphs that are not empty, as `chunk` has split it),
every chunk size and every smaller overlap (`SizeAssumption`). They are proofs by induction over the loop of `chunk`. The
library's induction theorems cannot be used, but a set of numbers that has 0 and every successor can: `Inductive` shows from the
well-foundedness of < that it is all of them, and `Recursion` that a recursively defined function exists and does what its equation says.
`PackInv` is the invariant of the loop. `Placed` maps the tokens of the paragraphs read so far into the chunks, each to an equal
token, in the same order and back (`Homes`), and no token of a chunk stands before the home of an equal one: that is why the
copies that the windows and the overlap make do not matter for where a token first occurs (`PlacedLeads`). `Unbroken` finds each short
paragraph, and any Overlap + 1 neighbours of a long one, in a row in one chunk. What one turn of the loop does is one of two things, new
chunks (`GathersWindows`, for a short paragraph with a single window) or more text behind the last one (`GathersSpliced`), and `GathersOverlapped` is
`_apply_overlap`. The bound needs that a buffer has at least as many tokens as paragraphs: empty ones are dropped by the split.

**DocumentStoreProofs**: TypeCorrect, which includes that one transaction at most holds the row; ChunksCorrect and ImplementsUpsert,
for any number of ingests of any values, redeliveries and unchanged crawls among them. An ingest that has changed the row holds it: "the row
is the lock". One that changes nothing holds nothing: `LateAlone` says that of two ingests that may commit each is in `met`,
because they cannot both hold the row, so one of them leaves a column out. `DInv` puts together what an ingest that met nobody may rely on: the row it read, and the chunks it has seen, are those
that are stored (`Reads`, `Knows`). So its commit is `Replace`. The commit of any other is `Mingle`, which asks for nothing but what the statements
can do at all: columns of the row or its own, chunks that were there and its own.

**ConversationProofs**: TypeCorrect, TokensBounded, TurnsBounded, LimitsBounded (both), HistoryIsCharged, SessionsExpire, ResetForgets, for
any number of requests at a time, so every property of the chat_limits run. The bounds are made inductive by charging
every request under way what it may still add (`Below`, `TurnInv`): whoever passes a check does so with room for one
more share. A reset is the same with `OldPc`, the steps of those requests alone that began before it. HistoryCharged
credits a request with the lines it has appended and not yet counted; that the counter cannot
expire first while nobody is storing needs `ExpiryInv` and that the last EXPIRE of a request is the counter's (`ChargeInv`);
what it leaves uncharged when somebody is, `lapsed` counts.

**RateLimiterProofs**: TypeCorrect, AdmissionBounded, OverTimeBounded, RetryAfterRight. `PendingInv` bounds
the age of a timestamp, `ExpiryInv` says that an expired bucket would have been full by then, which is
what the spare minute of the TTL is for (`MarginAssumption`: skew and delay fit in it). `OverTimeInv`
measures from the first script an observer sees.

Only model-checked: all liveness (out of the prover's reach), and the violated properties of section 4.
The other way round, NoPostLost and NoRequestLost are checked for a few kinds of entry and of request and proved
for all of them; the type invariants and WayKept are proved only.

## 6. Plan

The arithmetic of `_aggregate_metrics` and of the confidence of an analysis, as operators checked against
their documented meaning, once something other than a prompt depends on it.
