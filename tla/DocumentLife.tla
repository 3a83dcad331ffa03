---------------------------- MODULE DocumentLife ----------------------------
(***************************************************************************)
(* What the ingest and the analysis workers promise together of every      *)
(* document, from the crawl to the event Spring is sent: it passes its     *)
(* stations one at a time and in this order, and never goes back.  A row   *)
(* comes before every message about it, the row and a request before an    *)
(* analysis, the analysis before the event that announces it.              *)
(***************************************************************************)
CONSTANTS
    Post,         \* the documents a crawl produces
    Batch,        \* the one that is built from others
    Unknown       \* documents that are asked for and never stored

VARIABLES
    crawled,      \* posts in the crawl stream
    shelved,      \* posts the ingest workers gave up
    stored,       \* documents with a committed row
    queued,       \* documents an ingest worker asked an analysis for
    inquired,     \* documents another server did
    analysed,     \* documents with a committed analysis
    rejected,     \* documents an analysis worker gave up
    succeeded,    \* documents whose analysis was announced
    failed        \* documents whose failure was announced

lifeVars == <<crawled, shelved, stored, queued, inquired, analysed, rejected, succeeded, failed>>

Document == Post \cup {Batch} \cup Unknown

Init ==
    /\ crawled = {} /\ shelved = {} /\ stored = {} /\ queued = {} /\ inquired = {}
    /\ analysed = {} /\ rejected = {} /\ succeeded = {} /\ failed = {}

Requested == queued \cup inquired

Crawl(d) ==
    /\ d \in Post
    /\ crawled' = crawled \cup {d}
    /\ UNCHANGED <<shelved, stored, queued, inquired, analysed, rejected, succeeded, failed>>

Shelve(d) ==
    /\ d \in crawled
    /\ shelved' = shelved \cup {d}
    /\ UNCHANGED <<crawled, stored, queued, inquired, analysed, rejected, succeeded, failed>>

(* A post was crawled; a batch has a post that is stored. *)
Store(d) ==
    /\ d \in crawled \/ (d = Batch /\ stored \cap Post # {})
    /\ stored' = stored \cup {d}
    /\ UNCHANGED <<crawled, shelved, queued, inquired, analysed, rejected, succeeded, failed>>

Queue(d) ==
    /\ d \in stored
    /\ queued' = queued \cup {d}
    /\ UNCHANGED <<crawled, shelved, stored, inquired, analysed, rejected, succeeded, failed>>

Inquire(d) ==
    /\ inquired' = inquired \cup {d}
    /\ UNCHANGED <<crawled, shelved, stored, queued, analysed, rejected, succeeded, failed>>

Analyse(d) ==
    /\ d \in stored \cap Requested
    /\ analysed' = analysed \cup {d}
    /\ UNCHANGED <<crawled, shelved, stored, queued, inquired, rejected, succeeded, failed>>

Reject(d) ==
    /\ d \in Requested
    /\ rejected' = rejected \cup {d}
    /\ UNCHANGED <<crawled, shelved, stored, queued, inquired, analysed, succeeded, failed>>

AnnounceSuccess(d) ==
    /\ d \in analysed
    /\ succeeded' = succeeded \cup {d}
    /\ UNCHANGED <<crawled, shelved, stored, queued, inquired, analysed, rejected, failed>>

AnnounceFailure(d) ==
    /\ d \in rejected
    /\ failed' = failed \cup {d}
    /\ UNCHANGED <<crawled, shelved, stored, queued, inquired, analysed, rejected, succeeded>>

Next ==
    \E d \in Document :
        \/ Crawl(d) \/ Shelve(d) \/ Store(d) \/ Queue(d) \/ Inquire(d)
        \/ Analyse(d) \/ Reject(d) \/ AnnounceSuccess(d) \/ AnnounceFailure(d)

Spec == Init /\ [][Next]_lifeVars
=============================================================================
