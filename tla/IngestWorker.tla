---------------------------- MODULE IngestWorker ----------------------------
(***************************************************************************)
(* The ingest workers of app/worker/ingest_worker.py: competing consumers  *)
(* of the crawl stream that store each post as a document and, for a       *)
(* FULL_BLOG request, count the posts of the batch in Redis; the worker    *)
(* that completes the batch builds one BLOG_SNAPSHOT document and          *)
(* publishes one analysis message.                                         *)
(*                                                                         *)
(* One step is one Redis command, one database transaction or one publish, *)
(* with the local code up to it: between two steps the other workers run,  *)
(* the process may be killed, and each step may raise, with or without its *)
(* effect having taken place (a reply that timed out).  pc[w] names the    *)
(* step worker w takes next.  Redis keys of different batches are disjoint *)
(* ("batch:{id}:*"), so one batch is modelled.  Its 24-hour TTL is not: no *)
(* modelled behaviour lasts that long.  ject_crawl sets external_id, so a  *)
(* post has one row in documents, and the post stands for the row's id     *)
(* (module DocumentStore opens that transaction).                          *)
(***************************************************************************)
EXTENDS CrawlQueue

CONSTANTS
    Worker,          \* the ingest-worker processes
    Kind,            \* Kind[p]: what _handle_message makes of post p's fields
    ExtBlog,         \* posts with source_type ext_blog and a source_blog_url
    Expected,        \* expected_count of the batch
    MaxRetries,      \* crawl_max_retries
    MaxCrashes,      \* bound: processes killed
    MaxSteals,       \* bound: XAUTOCLAIMs of an entry a live worker is still holding
    MaxRedisFaults,  \* bound: Redis commands that raise
    MaxWorkFaults    \* bound: ingests, snapshot transactions and publishes that raise

(* "full": FULL_BLOG with batch_id and expected_count; "post": any other   *)
(* entry with a correlation_id; "plain": neither; "bad": fields that       *)
(* ChunkRequest rejects; "poison": an expected_count int() rejects.        *)
Kinds == {"full", "post", "plain", "bad", "poison"}

ASSUME ConstantsAssumption ==
    /\ Kind \in [Post -> Kinds]
    /\ ExtBlog \subseteq Post
    /\ Expected \in Nat \ {0}
    /\ {MaxRetries, MaxCrashes, MaxSteals, MaxRedisFaults, MaxWorkFaults} \subseteq Nat

VARIABLES
    pc,            \* pc[w]: the next step of worker w
    inbox,         \* inbox[w]: ids of the current read or claim not yet handled
    cur,           \* cur[w]: id of the entry being handled (0: none)
    ids,           \* ids[w]: the doc_ids a snapshot creator has read
    docs,          \* posts with a committed row in documents
    influencers,   \* ext_blog posts whose blog has a row in influencer
    ingestDone,    \* posts with an ingest:done:{correlation_id} key
    deadline,      \* batch:{id}:deadline against the clock: unset, armed or past
    docIds,        \* the set batch:{id}:doc_ids
    completed,     \* the counter batch:{id}:completed
    status,        \* batch:{id}:snapshot_status
    snapshot,      \* posts aggregated in the BLOG_SNAPSHOT row ({}: no row)
    snapPubs,      \* source_document_ids of each FULL_BLOG analysis message published
    postPubs,      \* postPubs[p]: POST analysis messages published for p
    crashes, steals, redisFaults, workFaults   \* how much of each bound is used

localVars == <<pc, inbox, cur, ids>>
dbVars    == <<docs, influencers, snapshot>>
batchVars == <<deadline, docIds, completed, status>>
pubVars   == <<snapPubs, postPubs>>
faultVars == <<crashes, steals, redisFaults, workFaults>>
vars == <<queueVars, localVars, dbVars, batchVars, pubVars, faultVars, ingestDone>>

Statuses == {"none", "creating", "completed", "failed"}

(* Steps of _create_snapshot_and_publish: whoever is at one of them owns the batch's snapshot. *)
Section == {"snapshot", "publish", "setCompleted", "setFailed"}

Steps == Section \cup
    {"loop", "dlqBad", "ackBad", "ingest", "ack", "meta", "sadd", "incr", "lock", "getStatus",
     "reclaim", "mark", "publishPost", "failed", "ackFailed", "escaped", "dead"}

(* Steps that call the database, the LLM or RabbitMQ; the others that can raise call Redis. *)
WorkSteps == {"ingest", "snapshot", "publish", "publishPost"}

(* Mutant: an ingest that raised is acknowledged all the same. *)
CatchIngestIgnored(s) == IF s = "ingest" THEN "ack" ELSE IF s = "failed" THEN "escaped" ELSE "failed"

(* Mutant: the analysis is published although create_snapshot raised. *)
CatchSnapshotIgnored(s) ==
    IF s = "snapshot" THEN "publish" ELSE IF s \in {"publish", "setCompleted"} THEN "setFailed" ELSE "failed"

(* Mutant: create_snapshot's exceptions pass by the clause that marks the batch failed. *)
CatchSnapshotUnmarked(s) ==
    IF s \in {"publish", "setCompleted"} THEN "setFailed"
    ELSE IF s \in {"failed", "ackFailed"} THEN "escaped" ELSE "failed"

(* Mutant: _publish_analysis swallows its exceptions, as _mark_ingest_done does. *)
CatchPublishIgnored(s) ==
    IF s \in {"snapshot", "publish", "setCompleted"} THEN "setFailed"
    ELSE IF s = "publishPost" THEN "loop" ELSE "failed"

(***************************************************************************)
(* Where an exception raised at a step is caught.  _create_snapshot marks  *)
(* the batch failed and re-raises; _mark_ingest_done swallows; the try of  *)
(* _handle_message hands over to _handle_failure; nothing catches what the *)
(* handler of bad fields or _handle_failure itself raises.                 *)
(***************************************************************************)
Catch(s) ==
    IF s \in {"snapshot", "publish", "setCompleted"} THEN "setFailed"
    ELSE IF s = "mark" THEN "publishPost"
    ELSE IF s \in {"dlqBad", "ackBad", "failed", "ackFailed"} THEN "escaped"
    ELSE "failed"

CanRaise == Steps \ {"loop", "escaped", "dead"}

TypeOK ==
    /\ QueueTypeOK
    /\ pc \in [Worker -> Steps]
    /\ inbox \in [Worker -> SUBSET Nat]
    /\ cur \in [Worker -> Nat]
    /\ ids \in [Worker -> SUBSET Post]
    /\ docs \subseteq Post /\ influencers \subseteq ExtBlog /\ ingestDone \subseteq Post
    /\ deadline \in {"unset", "armed", "past"}
    /\ docIds \subseteq Post
    /\ completed \in Nat
    /\ status \in Statuses
    /\ snapshot \subseteq Post
    /\ snapPubs \in Seq(SUBSET Post)
    /\ postPubs \in [Post -> Nat]
    /\ crashes \in Nat /\ steals \in Nat /\ redisFaults \in Nat /\ workFaults \in Nat

Init ==
    /\ QueueInit
    /\ pc = [w \in Worker |-> "loop"]
    /\ inbox = [w \in Worker |-> {}]
    /\ cur = [w \in Worker |-> 0]
    /\ ids = [w \in Worker |-> {}]
    /\ docs = {} /\ influencers = {} /\ ingestDone = {}
    /\ deadline = "unset"
    /\ docIds = {}
    /\ completed = 0
    /\ status = "none"
    /\ snapshot = {}
    /\ snapPubs = <<>>
    /\ postPubs = [p \in Post |-> 0]
    /\ crashes = 0 /\ steals = 0 /\ redisFaults = 0 /\ workFaults = 0

-----------------------------------------------------------------------------
(* The environment: the crawler adds each post once, and time passes.      *)

Crawl(p) ==
    /\ \A i \in 1 .. Len(stream) : stream[i].post # p
    /\ Requeue([post |-> p, retry |-> 0])
    /\ UNCHANGED <<localVars, dbVars, batchVars, pubVars, faultVars, ingestDone>>

DeadlinePasses ==
    /\ deadline = "armed"
    /\ deadline' = "past"
    /\ UNCHANGED <<queueVars, localVars, dbVars, docIds, completed, status, pubVars, faultVars, ingestDone>>

-----------------------------------------------------------------------------
(* Control flow.  ChargeFault uses up one unit of the bound of step s.     *)

ChargeFault(s) ==
    /\ IF s \in WorkSteps
         THEN workFaults < MaxWorkFaults /\ workFaults' = workFaults + 1 /\ UNCHANGED redisFaults
         ELSE redisFaults < MaxRedisFaults /\ redisFaults' = redisFaults + 1 /\ UNCHANGED workFaults
    /\ UNCHANGED <<crashes, steals>>

GoTo(w, s) == pc' = [pc EXCEPT ![w] = s]

(* After a step that took effect the handler goes on at s, unless the reply was lost and the call raised. *)
Proceed(w, s) ==
    /\ \/ /\ GoTo(w, s)
          /\ cur' = [cur EXCEPT ![w] = IF s = "loop" THEN 0 ELSE @]
          /\ UNCHANGED faultVars
       \/ /\ GoTo(w, Catch(pc[w]))
          /\ ChargeFault(pc[w])
          /\ UNCHANGED cur
    /\ UNCHANGED inbox

(* The step raises without effect. *)
Raise(w) ==
    /\ pc[w] \in CanRaise
    /\ GoTo(w, Catch(pc[w]))
    /\ ChargeFault(pc[w])
    /\ ids' = [ids EXCEPT ![w] = {}]
    /\ UNCHANGED <<queueVars, inbox, cur, dbVars, batchVars, pubVars, ingestDone>>

(* The process ends, by a signal or by an exception that left run(); the entries it held stay in the PEL. *)
Die(w) ==
    /\ GoTo(w, "dead")
    /\ inbox' = [inbox EXCEPT ![w] = {}]
    /\ cur' = [cur EXCEPT ![w] = 0]
    /\ ids' = [ids EXCEPT ![w] = {}]
    /\ UNCHANGED <<queueVars, dbVars, batchVars, pubVars, ingestDone>>

(* Killed anywhere; between two reads this is also stop(), which lets the current batch finish. *)
Crash(w) ==
    /\ pc[w] \notin {"dead", "escaped"}
    /\ crashes < MaxCrashes
    /\ crashes' = crashes + 1
    /\ Die(w)
    /\ UNCHANGED <<steals, redisFaults, workFaults>>

Exit(w) == pc[w] = "escaped" /\ Die(w) /\ UNCHANGED faultVars

Restart(w) ==
    /\ pc[w] = "dead"
    /\ GoTo(w, "loop")
    /\ UNCHANGED <<queueVars, inbox, cur, ids, dbVars, batchVars, pubVars, faultVars, ingestDone>>

-----------------------------------------------------------------------------
(* run(): claim idle entries, else read new ones, and handle them in id order. *)

Held == UNION {inbox[w] \cup {cur[w]} : w \in Worker}

ClaimPending(w) ==
    /\ pc[w] = "loop" /\ inbox[w] = {}
    /\ \E claimed \in Claimable :
         /\ inbox' = [inbox EXCEPT ![w] = claimed]
         /\ IF claimed \cap Held = {} THEN UNCHANGED steals
            ELSE steals < MaxSteals /\ steals' = steals + 1
    /\ UNCHANGED <<queueVars, pc, cur, ids, dbVars, batchVars, pubVars, crashes, redisFaults,
                   workFaults, ingestDone>>

ReadNew(w) ==
    /\ pc[w] = "loop" /\ inbox[w] = {}
    /\ Unread # {}
    /\ Read
    /\ inbox' = [inbox EXCEPT ![w] = Unread]
    /\ UNCHANGED <<pc, cur, ids, dbVars, batchVars, pubVars, faultVars, ingestDone>>

Entry(w) == stream[cur[w]]

(* The next entry is parsed; an ext_blog profile is upserted in a transaction whose errors are swallowed. *)
StartMessage(w) ==
    /\ pc[w] = "loop"
    /\ \E id \in inbox[w] :
         LET p == stream[id].post IN
         /\ \A other \in inbox[w] : id <= other
         /\ cur' = [cur EXCEPT ![w] = id]
         /\ inbox' = [inbox EXCEPT ![w] = @ \ {id}]
         /\ GoTo(w, CASE Kind[p] = "poison" -> "escaped"
                      [] Kind[p] = "bad"    -> "dlqBad"
                      [] OTHER              -> "ingest")
         /\ influencers' \in {influencers} \cup
              (IF Kind[p] \notin {"poison", "bad"} /\ p \in ExtBlog THEN {influencers \cup {p}} ELSE {})
    /\ UNCHANGED <<queueVars, ids, docs, snapshot, batchVars, pubVars, faultVars, ingestDone>>

DlqBad(w) ==
    /\ pc[w] = "dlqBad"
    /\ SendToDlq(Entry(w))
    /\ Proceed(w, "ackBad")
    /\ UNCHANGED <<ids, dbVars, batchVars, pubVars, ingestDone>>

AckBad(w) ==
    /\ pc[w] = "ackBad"
    /\ Ack(cur[w])
    /\ Proceed(w, "loop")
    /\ UNCHANGED <<ids, dbVars, batchVars, pubVars, ingestDone>>

(* ingest_and_chunk and its commit. *)
Ingest(w) ==
    /\ pc[w] = "ingest"
    /\ docs' = docs \cup {Entry(w).post}
    /\ Proceed(w, "ack")
    /\ UNCHANGED <<queueVars, ids, influencers, snapshot, batchVars, pubVars, ingestDone>>

(* Mutant: the entry is not acknowledged. *)
AckIngestedNever(w) ==
    /\ pc[w] = "ack"
    /\ Proceed(w, IF Kind[Entry(w).post] = "post" THEN "mark" ELSE "loop")
    /\ UNCHANGED <<queueVars, ids, dbVars, batchVars, pubVars, ingestDone>>

AckIngested(w) ==
    /\ pc[w] = "ack"
    /\ Ack(cur[w])
    /\ Proceed(w, CASE Kind[Entry(w).post] = "full" -> "meta"
                    [] Kind[Entry(w).post] = "post" -> "mark"
                    [] OTHER                        -> "loop")
    /\ UNCHANGED <<ids, dbVars, batchVars, pubVars, ingestDone>>

-----------------------------------------------------------------------------
(* _handle_full_blog_batch *)

(* The metadata keys (every post writes the same values) and the deadline, SET NX. *)
SetMetadata(w) ==
    /\ pc[w] = "meta"
    /\ deadline' = IF deadline = "unset" THEN "armed" ELSE deadline
    /\ Proceed(w, "sadd")
    /\ UNCHANGED <<queueVars, ids, dbVars, docIds, completed, status, pubVars, ingestDone>>

AddDocId(w) ==
    /\ pc[w] = "sadd"
    /\ docIds' = docIds \cup {Entry(w).post}
    /\ Proceed(w, "incr")
    /\ UNCHANGED <<queueVars, ids, dbVars, deadline, completed, status, pubVars, ingestDone>>

(* Mutant: the counter is compared before it counts the post at hand (off by one). *)
CountCompletedEarly(w) ==
    /\ pc[w] = "incr"
    /\ completed' = completed + 1
    /\ Proceed(w, IF completed' + 1 >= Expected \/ deadline = "past" THEN "lock" ELSE "loop")
    /\ UNCHANGED <<queueVars, ids, dbVars, deadline, docIds, status, pubVars, ingestDone>>

(* INCR and the deadline test: snapshot once the counter reaches expected, or the deadline is past. *)
CountCompleted(w) ==
    /\ pc[w] = "incr"
    /\ completed' = completed + 1
    /\ Proceed(w, IF completed' >= Expected \/ deadline = "past" THEN "lock" ELSE "loop")
    /\ UNCHANGED <<queueVars, ids, dbVars, deadline, docIds, status, pubVars, ingestDone>>

(* Mutant: SET without NX. *)
LockSnapshotNoNx(w) ==
    /\ pc[w] = "lock"
    /\ status' = "creating"
    /\ Proceed(w, "snapshot")
    /\ UNCHANGED <<queueVars, ids, dbVars, deadline, docIds, completed, pubVars, ingestDone>>

(* Mutant: a plain lock, free again once the batch is completed. *)
LockSnapshotReopens(w) ==
    /\ pc[w] = "lock"
    /\ status' = "creating"
    /\ Proceed(w, IF status = "creating" THEN "loop" ELSE "snapshot")
    /\ UNCHANGED <<queueVars, ids, dbVars, deadline, docIds, completed, pubVars, ingestDone>>

(* SET snapshot_status creating NX *)
LockSnapshot(w) ==
    /\ pc[w] = "lock"
    /\ status' = IF status = "none" THEN "creating" ELSE status
    /\ Proceed(w, IF status = "none" THEN "snapshot" ELSE "getStatus")
    /\ UNCHANGED <<queueVars, ids, dbVars, deadline, docIds, completed, pubVars, ingestDone>>

GetStatus(w) ==
    /\ pc[w] = "getStatus"
    /\ Proceed(w, IF status \in {"completed", "creating"} THEN "loop" ELSE "reclaim")
    /\ UNCHANGED <<queueVars, ids, dbVars, batchVars, pubVars, ingestDone>>

(* Mutant: SET in place of the script, on the strength of the GET before. *)
ReclaimFailedUnchecked(w) ==
    /\ pc[w] = "reclaim"
    /\ status' = "creating"
    /\ Proceed(w, "snapshot")
    /\ UNCHANGED <<queueVars, ids, dbVars, deadline, docIds, completed, pubVars, ingestDone>>

(* The Lua script: failed -> creating, for one worker only. *)
ReclaimFailed(w) ==
    /\ pc[w] = "reclaim"
    /\ status' = IF status = "failed" THEN "creating" ELSE status
    /\ Proceed(w, IF status = "failed" THEN "snapshot" ELSE "loop")
    /\ UNCHANGED <<queueVars, ids, dbVars, deadline, docIds, completed, pubVars, ingestDone>>

-----------------------------------------------------------------------------
(* _create_snapshot_and_publish *)

(* create_snapshot: the row of the batch is reused, its content unchanged; else the documents that   *)
(* are found among the ids become one.                                                                *)
SnapshotRow(documentIds) == IF snapshot # {} THEN snapshot ELSE documentIds \cap docs

(* SMEMBERS and the create_snapshot transaction: nobody else reads the row, so the two are one step. *)
(* If no document is found, NotFoundError rolls it back.                                              *)
CreateSnapshot(w) ==
    /\ pc[w] = "snapshot"
    /\ ids' = [ids EXCEPT ![w] = docIds]
    /\ snapshot' = SnapshotRow(docIds)
    /\ Proceed(w, IF SnapshotRow(docIds) = {} THEN "setFailed" ELSE "publish")
    /\ UNCHANGED <<queueVars, docs, influencers, batchVars, pubVars, ingestDone>>

PublishSnapshot(w) ==
    /\ pc[w] = "publish"
    /\ snapPubs' = Append(snapPubs, ids[w])
    /\ ids' = [ids EXCEPT ![w] = {}]
    /\ Proceed(w, "setCompleted")
    /\ UNCHANGED <<queueVars, dbVars, batchVars, postPubs, ingestDone>>

SetCompleted(w) ==
    /\ pc[w] = "setCompleted"
    /\ status' = "completed"
    /\ Proceed(w, "loop")
    /\ UNCHANGED <<queueVars, ids, dbVars, deadline, docIds, completed, pubVars, ingestDone>>

(* The except clause: mark the batch failed, then re-raise. *)
SetFailed(w) ==
    /\ pc[w] = "setFailed"
    /\ status' = "failed"
    /\ ids' = [ids EXCEPT ![w] = {}]
    /\ GoTo(w, "failed")
    /\ UNCHANGED <<queueVars, inbox, cur, dbVars, deadline, docIds, completed, pubVars, faultVars,
                   ingestDone>>

-----------------------------------------------------------------------------
(* _mark_ingest_done, and the publish of POST mode *)

MarkDone(w) ==
    /\ pc[w] = "mark"
    /\ ingestDone' = ingestDone \cup {Entry(w).post}
    /\ Proceed(w, "publishPost")
    /\ UNCHANGED <<queueVars, ids, dbVars, batchVars, pubVars>>

PublishPost(w) ==
    /\ pc[w] = "publishPost"
    /\ postPubs' = [postPubs EXCEPT ![Entry(w).post] = @ + 1]
    /\ Proceed(w, "loop")
    /\ UNCHANGED <<queueVars, ids, dbVars, batchVars, snapPubs, ingestDone>>

-----------------------------------------------------------------------------
(* _handle_failure: another entry with one more retry, or the dead-letter stream; then XACK. *)

RetryOrDlq(w) ==
    /\ pc[w] = "failed"
    /\ \/ Entry(w).retry < MaxRetries /\ Requeue([Entry(w) EXCEPT !.retry = @ + 1])
       \/ Entry(w).retry >= MaxRetries /\ SendToDlq(Entry(w))
    /\ Proceed(w, "ackFailed")
    /\ UNCHANGED <<ids, dbVars, batchVars, pubVars, ingestDone>>

AckFailed(w) ==
    /\ pc[w] = "ackFailed"
    /\ Ack(cur[w])
    /\ Proceed(w, "loop")
    /\ UNCHANGED <<ids, dbVars, batchVars, pubVars, ingestDone>>

-----------------------------------------------------------------------------
Poll(w) == ClaimPending(w) \/ ReadNew(w)

Handle(w) ==
    \/ StartMessage(w) \/ DlqBad(w) \/ AckBad(w) \/ Ingest(w) \/ AckIngested(w)
    \/ SetMetadata(w) \/ AddDocId(w) \/ CountCompleted(w)
    \/ LockSnapshot(w) \/ GetStatus(w) \/ ReclaimFailed(w)
    \/ CreateSnapshot(w) \/ PublishSnapshot(w) \/ SetCompleted(w) \/ SetFailed(w)
    \/ MarkDone(w) \/ PublishPost(w) \/ RetryOrDlq(w) \/ AckFailed(w)

Next ==
    \/ \E p \in Post : Crawl(p)
    \/ DeadlinePasses
    \/ \E w \in Worker : Poll(w) \/ Handle(w) \/ Raise(w) \/ Crash(w) \/ Exit(w) \/ Restart(w)

Spec == Init /\ [][Next]_vars

(***************************************************************************)
(* Fairness: the crawler delivers, a running worker goes on (run() never   *)
(* waits for another worker), an entry left idle is claimed once a worker  *)
(* polls, an ended process is restarted, and the clock advances.  Nothing  *)
(* is assumed of crashes and errors.                                       *)
(***************************************************************************)
Fairness ==
    /\ WF_vars(\E p \in Post : Crawl(p))
    /\ WF_vars(DeadlinePasses)
    /\ \A w \in Worker : WF_vars(Poll(w)) /\ WF_vars(Handle(w)) /\ WF_vars(Exit(w) \/ Restart(w))

FairSpec == Spec /\ Fairness

-----------------------------------------------------------------------------
(* Properties *)

FullPosts == {p \in Post : Kind[p] = "full"}
InDlq(p) == \E i \in DOMAIN dlq : dlq[i].post = p
Outstanding(p) == \E i \in DOMAIN stream : stream[i].post = p /\ (i > lastId \/ i \in pel)

(* A worker is handling an entry of p, and not only acknowledging what it dead-lettered or added anew. *)
InHand(p) == \E w \in Worker : pc[w] \in CanRaise \ {"ackBad", "ackFailed"} /\ Entry(w).post = p

(* What the handler of p does for the rest of the system: its analysis message, or its id in the batch. *)
PassedOn(p) ==
    CASE Kind[p] = "post" -> postPubs[p] > 0
      [] Kind[p] = "full" -> p \in docIds
      [] OTHER            -> p \in docs

(* No crash, error or stolen entry loses a post before its document is committed: it is then still   *)
(* in the stream or the PEL, or in the DLQ (_handle_message acknowledges after the commit,           *)
(* _handle_failure after the XADD of the copy).  Between the XACK and the publish only a crash or a  *)
(* Redis error does: whatever else is raised or stolen, the post is passed on, a worker has it in    *)
(* hand, or an entry of it is still to come (ingest_worker.py:267-383).                              *)
NoPostLost ==
    \A i \in DOMAIN stream :
        LET p == stream[i].post IN
        /\ p \in docs \/ InDlq(p) \/ Outstanding(p)
        /\ crashes + redisFaults = 0 => PassedOn(p) \/ InDlq(p) \/ Outstanding(p) \/ InHand(p)

(* The status "creating" means that a worker is building the snapshot, as the comment at             *)
(* ingest_worker.py:231 takes it to, unless a worker died or a Redis command raised.                 *)
CreatingOwned ==
    status = "creating" /\ crashes = 0 /\ redisFaults = 0 => \E w \in Worker : pc[w] \in Section

(* At most one worker is between taking snapshot_status and giving it back, and the key says so;     *)
(* and an error of the database, the LLM or RabbitMQ never leaves the batch locked with nobody at    *)
(* work (SET NX, GET and the Lua script are separate commands of _handle_full_blog_batch).           *)
SnapshotOwner ==
    /\ \A w \in Worker : pc[w] \in Section =>
          status = "creating" \/ (pc[w] = "setFailed" /\ status = "completed")
    /\ \A v, w \in Worker : pc[v] \in Section /\ pc[w] \in Section => v = w
    /\ CreatingOwned

(* A FULL_BLOG analysis message beyond the first is paid for by a call that raised: duplicates of   *)
(* entries, stolen entries, crashes and racing workers never publish twice by themselves.           *)
PublishBound == Len(snapPubs) <= 1 + redisFaults + workFaults

(* The same for POST mode, where a redelivered entry does publish again: a crash accounts for one   *)
(* message more, a steal for as many as one claim returns (a batch may hold copies of one post).    *)
PostPublishBound ==
    \A p \in Post : postPubs[p] <= 1 + crashes + BatchSize * steals + redisFaults + workFaults

(* A FULL_BLOG analysis names every post its snapshot aggregates, and committed documents only; a   *)
(* retry may name more, the posts that arrived since the snapshot was built (create_snapshot hands  *)
(* back the ids it was given when it reuses the row).                                               *)
SourcesCommitted ==
    \A i \in DOMAIN snapPubs :
        snapshot # {} /\ snapshot \subseteq snapPubs[i] /\ snapPubs[i] \subseteq docs

(* As the comment at ingest_worker.py:149 has it: unless the deadline is past, the snapshot is built *)
(* from all N posts.                                                                                 *)
SnapshotWaitsForAll == snapshot # {} => FullPosts \subseteq snapshot \/ deadline = "past"

(* That does hold while no entry is delivered twice: errors of the database, the LLM and RabbitMQ,   *)
(* and the retries they lead to, never count a post that is not stored.                              *)
SnapshotComplete == crashes + steals + redisFaults = 0 => SnapshotWaitsForAll

(* A batch that is counted full is analysed: its message is published, or a worker or an entry that *)
(* will try again is left, or a post of it is dead-lettered, unless a worker died or a Redis command *)
(* raised.  Nobody who finds the status taken leaves the batch to one who gives it up.               *)
BatchNotForgotten ==
    completed >= Expected /\ crashes + redisFaults = 0 =>
        snapPubs # <<>> \/ \E p \in FullPosts : InDlq(p) \/ Outstanding(p) \/ InHand(p)

(* The group drains: whatever crashes, errors and steals there are, finally no entry is unread or pending. *)
Drains == <>[](lastId = Len(stream) /\ pel = {})

(* Each POST-mode post is analysed or dead-lettered, whatever the steals and the errors of the       *)
(* database, the LLM and RabbitMQ, unless a worker dies between the XACK and the publish or Redis    *)
(* fails when the post is to be retried after the XACK.                                               *)
PostAnalysed ==
    \A p \in Post :
        Kind[p] = "post" => <>(postPubs[p] > 0 \/ InDlq(p) \/ crashes > 0 \/ redisFaults > 0)

(* The batch protocol implements the lock. *)
Lock == INSTANCE SnapshotLock WITH
    holders <- {w \in Worker : pc[w] \in Section},
    sent    <- Len(snapPubs),
    fresh   <- \E w \in Worker : pc[w] \in {"snapshot", "publish"}

LockSpec == Lock!Spec
=============================================================================
