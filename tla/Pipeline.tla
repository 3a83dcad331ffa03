------------------------------ MODULE Pipeline ------------------------------
(***************************************************************************)
(* The ingest workers and the analysis workers together: what the former   *)
(* publish on blog.analysis is what the latter consume, and the key        *)
(* ingest:done:{correlation_id} the former set is what the latter look up  *)
(* when Spring asks by correlation id for a post still being ingested.     *)
(*                                                                         *)
(* Each side keeps its own actions.  Sent is what the ingest workers have  *)
(* put on the queue: a step that adds a message to it is, in the same      *)
(* instant, the broker's Publish of AnalysisWorker.                        *)
(***************************************************************************)
EXTENDS IngestWorker

CONSTANTS
    Batch,                \* the document built from the FULL_BLOG batch
    Missing,              \* a document_id without a row
    Asked,                \* what Spring asks for: posts by correlation id, Missing by document_id
    MaxMessages,          \* bound: messages about one document the ingest workers publish
    Process, Prefetch, MaxAnalysisRetries,
    MaxAnalysisCrashes, MaxDisconnects, MaxAnalysisFaults, MaxBrokerFaults,
    MaxFaults,            \* bound: faults of both sides together
    NoMessage

(* The documents the ingest workers name on the queue. *)
Document == {p \in Post : Kind[p] = "post"} \cup {Batch}

(* A message is named by its document and how many messages about it came before; 0 is Spring's. *)
Message(d, n) == <<d, n>>
Spring == {Message(d, 0) : d \in Asked}
Request == (Document \X (1 .. MaxMessages)) \cup Spring

(* The ingest workers name the document_id of a row they committed. *)
RequestKind ==
    [r \in Request |-> IF r \notin Spring THEN "stored" ELSE IF r[1] = Missing THEN "missing" ELSE "awaits"]

ASSUME PipelineAssumption ==
    /\ Batch \notin Post /\ Missing \notin Post \cup {Batch}
    /\ Asked \subseteq Post \cup {Missing}
    /\ {MaxMessages, MaxFaults} \subseteq Nat
    /\ IsFiniteSet(Process) /\ Prefetch \in Nat \ {0}
    /\ {MaxAnalysisRetries, MaxAnalysisCrashes, MaxDisconnects, MaxAnalysisFaults, MaxBrokerFaults} \subseteq Nat

VARIABLES
    asked, ready, deadLetters, pcA, msg, owned, row, jobs, announced,   \* those of AnalysisWorker
    redelivered, crashesA, disconnects, workFaultsA, brokerFaults

analysisVars ==
    <<asked, ready, deadLetters, pcA, msg, owned, row, jobs, announced,
      redelivered, crashesA, disconnects, workFaultsA, brokerFaults>>
pipelineVars == <<vars, analysisVars>>

(* The key of a post answers every request with its correlation id. *)
Ingested == {r \in Spring : r[1] \in ingestDone}

Analysis == INSTANCE AnalysisWorker WITH
    Kind <- RequestKind, None <- NoMessage,
    MaxRetries <- MaxAnalysisRetries, MaxCrashes <- MaxAnalysisCrashes, MaxWorkFaults <- MaxAnalysisFaults,
    ingested <- Ingested, dlq <- deadLetters, pc <- pcA,
    crashes <- crashesA, workFaults <- workFaultsA

ASSUME NoMessageAssumption == NoMessage \notin Analysis!Message

(* What the ingest workers have published on blog.analysis. *)
Sent ==
    {Message(Batch, n) : n \in 1 .. Len(snapPubs)}
        \cup (UNION {{Message(p, n) : n \in 1 .. postPubs[p]} : p \in Post})

Faults ==
    crashes + steals + redisFaults + workFaults + crashesA + disconnects + workFaultsA + brokerFaults

-----------------------------------------------------------------------------
PipelineInit == Init /\ Analysis!Init

Within == Faults' <= MaxFaults /\ Sent' \subseteq Request

(* A step of the crawl, the clock or an ingest worker, with what it puts on the queue. *)
Transmit == IF Sent' = Sent THEN UNCHANGED analysisVars ELSE \E r \in Sent' \ Sent : Analysis!Publish(r)

IngestSide(step) == step /\ Transmit /\ Within

AnalysisSide(step) == UNCHANGED vars /\ step /\ Within

Crawls == IngestSide(\E p \in Post : Crawl(p))
Deadline == IngestSide(DeadlinePasses)
Polls(w) == IngestSide(Poll(w))
Handles(w) == IngestSide(Handle(w))
Revives(w) == IngestSide(Exit(w) \/ Restart(w))
Suffers(w) == IngestSide(Raise(w) \/ Crash(w))

Asks(r) == AnalysisSide(Analysis!Publish(r))
Receives == AnalysisSide(\E s \in Analysis!Slot : Analysis!Receive(s))
Analyses(s) == AnalysisSide(Analysis!Handle(s) \/ Analysis!Raise(s))
Loses(p) == AnalysisSide(Analysis!Crash(p) \/ Analysis!Disconnect(p))

PipelineNext ==
    \/ Crawls \/ Deadline
    \/ \E w \in Worker : Polls(w) \/ Handles(w) \/ Revives(w) \/ Suffers(w)
    \/ \E r \in Spring : Asks(r)
    \/ Receives
    \/ \E s \in Analysis!Slot : Analyses(s)
    \/ \E p \in Process : Loses(p)

PipelineSpec == PipelineInit /\ [][PipelineNext]_pipelineVars

(* The fairness of the two sides; what a worker can do next is one of the three. *)
PipelineFairness ==
    /\ WF_pipelineVars(Crawls)
    /\ \A w \in Worker : WF_pipelineVars(Polls(w) \/ Handles(w) \/ Revives(w))
    /\ \A r \in Spring : WF_pipelineVars(Asks(r))
    /\ WF_pipelineVars(Receives)
    /\ \A s \in Analysis!Slot : WF_pipelineVars(Analyses(s))

FairPipeline == PipelineSpec /\ PipelineFairness

-----------------------------------------------------------------------------
(* Properties *)

(* The rows of documents a request is about: its post's, or the snapshot of the batch. *)
Stored(r) == IF r[1] = Batch THEN snapshot # {} ELSE r[1] \in docs

(* An analysis worker that analyses a document, named by an ingest worker or resolved from the key,  *)
(* finds its row: publish and SET come after the commit of another system, in another process        *)
(* (ingest_worker.py:135, :294; analysis_worker.py:97).                                              *)
FoundWhenAnalysed ==
    \A s \in Analysis!Slot :
        pcA[s] \in {"analyze", "commit"} /\ msg[s].req[1] # Missing => Stored(msg[s].req)

(* A post of POST mode, and the batch, are finally announced to Spring, success or failure, or left  *)
(* in one of the two dead-letter queues, unless a process dies, Redis fails, or a publish or ack of   *)
(* the analysis worker raises on a live channel.                                                     *)
Reported(r) == deadLetters[r] > 0 \/ \E st \in Analysis!RowStatus : announced[r, st] > 0
Broken == crashes + redisFaults + crashesA + brokerFaults > 0
DocumentReported ==
    <>(Broken \/ \A d \in Document :
         \/ \E p \in Post : InDlq(p) /\ d \in {p, Batch}
         \/ \E r \in Request \ Spring : r[1] = d /\ Reported(r))

(* The queue is worked off: time and again every request on it, Spring's or the ingest workers', is  *)
(* analysed or dead-lettered, as long as no publish, ack or reject raises on a live channel: also    *)
(* one that awaits an ingest which is slow, fails, or comes after its retries are used up.            *)
Answered ==
    []<>(brokerFaults > 0 \/ \A r \in asked : jobs[r, "completed"] > 0 \/ deadLetters[r] > 0)

(* How far the documents are, by what the stream, the tables, the queue and the events say of them. *)
Posts(entries) == {entries[i].post : i \in DOMAIN entries}
InTable == docs \cup (IF snapshot = {} THEN {} ELSE {Batch})
Queued == {p \in Post : postPubs[p] > 0} \cup (IF snapPubs = <<>> THEN {} ELSE {Batch})
Inquired == {d \in Asked : Message(d, 0) \in asked}
Documents(requests) == {r[1] : r \in requests}
Analysed == Documents({r \in Request : jobs[<<r, "completed">>] > 0})
Rejected == Documents({r \in Request : deadLetters[r] > 0})
Succeeded == Documents({r \in Request : announced[<<r, "completed">>] > 0})
Failed == Documents({r \in Request : announced[<<r, "failed">>] > 0})

(* Each document goes from the crawl to the event Spring is sent in order, one station at a time and *)
(* never back: nothing is queued, analysed or announced, by whichever worker and after whatever       *)
(* faults, before what it speaks of is committed in another system (ingest_worker.py:128-165,        *)
(* :267-294; analysis_worker.py:97-139).                                                              *)
Life == INSTANCE DocumentLife WITH
    Unknown   <- {Missing},
    crawled   <- Posts(stream),
    shelved   <- Posts(dlq),
    stored    <- InTable,
    queued    <- Queued,
    inquired  <- Inquired,
    analysed  <- Analysed,
    rejected  <- Rejected,
    succeeded <- Succeeded,
    failed    <- Failed

LifeSpec == Life!Spec
=============================================================================
