----------------------------- MODULE CrawlQueue -----------------------------
(***************************************************************************)
(* The Redis stream "crawl:ingest", its consumer group "ingest-workers"    *)
(* and the dead-letter stream, as app/repository/crawl_queue.py uses them. *)
(*                                                                         *)
(* A stream entry is identified by its position in the stream (Redis ids   *)
(* grow the same way).  XACK takes an entry out of the pending entries     *)
(* list (PEL) whoever holds it, and XAUTOCLAIM takes it from any consumer, *)
(* so the PEL is a set of ids: the owner recorded in it decides nothing.   *)
(***************************************************************************)
EXTENDS Naturals, Sequences, FiniteSets

CONSTANTS
    Post,       \* the posts a crawl produces
    BatchSize   \* crawl_batch_size: most entries one read or claim returns

ASSUME BatchSizeAssumption == BatchSize \in Nat \ {0}

VARIABLES
    stream,     \* every entry ever added (XADD); XACK does not delete entries
    lastId,     \* the group's last-delivered id
    pel,        \* ids delivered to a consumer and not acknowledged
    dlq         \* the entries copied to the dead-letter stream

queueVars == <<stream, lastId, pel, dlq>>

(* The fields of an entry the code branches on: the post and the retries so far. *)
Fields == [post: Post, retry: Nat]

QueueTypeOK ==
    /\ stream \in Seq(Fields)
    /\ lastId \in 0 .. Len(stream)
    /\ pel \subseteq 1 .. lastId
    /\ dlq \in Seq(Fields)

(* ensure_group creates the group at id 0: every entry will be delivered. *)
QueueInit ==
    /\ stream = <<>>
    /\ lastId = 0
    /\ pel = {}
    /\ dlq = <<>>

(* What XREADGROUP ">" returns: the entries nobody in the group has seen.  *)
Unread == {i \in 1 .. Len(stream) : lastId < i /\ i <= lastId + BatchSize}

Read ==
    /\ lastId' = IF lastId + BatchSize < Len(stream) THEN lastId + BatchSize ELSE Len(stream)
    /\ pel' = pel \cup Unread
    /\ UNCHANGED <<stream, dlq>>

(* Mutant: XAUTOCLAIM scans from the end of the stream in place of "0". *)
ClaimableFromEnd == {ids \in SUBSET pel : ids # {} /\ \A id \in ids : id > lastId}

(* What XAUTOCLAIM may return: any batch of pending entries that have been idle for crawl_pending_idle_ms. *)
Claimable == {ids \in SUBSET pel : ids # {} /\ Cardinality(ids) <= BatchSize}

Ack(id) ==
    /\ pel' = pel \ {id}
    /\ UNCHANGED <<stream, lastId, dlq>>

Requeue(fields) ==
    /\ stream' = Append(stream, fields)
    /\ UNCHANGED <<lastId, pel, dlq>>

SendToDlq(fields) ==
    /\ dlq' = Append(dlq, fields)
    /\ UNCHANGED <<stream, lastId, pel>>
=============================================================================
