--------------------------- MODULE AnalysisWorker ---------------------------
(***************************************************************************)
(* The analysis workers of app/worker/analysis_worker.py: each process     *)
(* consumes the RabbitMQ queue blog.analysis with up to Prefetch handlers  *)
(* running at a time, analyses a document in one database transaction,     *)
(* acknowledges, and publishes a completed event for the Spring server.    *)
(*                                                                         *)
(* One step is one call to the broker, to Redis or to the database, with   *)
(* the local code up to it.  A call may raise, with or without its effect  *)
(* having taken place.  A lost connection makes the broker deliver again   *)
(* what was not acknowledged, while the handlers of that process go on;    *)
(* their acks then raise.  A handler that ends with an exception leaves    *)
(* its message unacknowledged, in the prefetch window of its channel.      *)
(***************************************************************************)
EXTENDS Naturals, FiniteSets

CONSTANTS
    Request,          \* the analysis requests producers publish
    Kind,             \* Kind[r]: what the body of r asks for
    Process,          \* the analysis-worker processes (replicas)
    Prefetch,         \* worker_concurrency: handlers per process
    MaxRetries,       \* worker_max_retries
    MaxCrashes,       \* bound: processes killed
    MaxDisconnects,   \* bound: connections lost
    MaxWorkFaults,    \* bound: Redis, LLM and database calls that raise
    MaxBrokerFaults,  \* bound: publishes, acks and rejects that raise on a live channel
    None              \* no message

(* "stored": document_id of an existing row; "missing": of no row, or no document_id and no       *)
(* correlation_id; "awaits": a correlation_id only; "bad": a body AnalysisRequest rejects.        *)
Kinds == {"stored", "missing", "awaits", "bad"}

ASSUME ConstantsAssumption ==
    /\ Kind \in [Request -> Kinds]
    /\ IsFiniteSet(Process)
    /\ Prefetch \in Nat \ {0}
    /\ {MaxRetries, MaxCrashes, MaxDisconnects, MaxWorkFaults, MaxBrokerFaults} \subseteq Nat

(* A queued copy of a request: its body and the header x-app-retry-count (absent: 0). *)
Message == [req: Request, retry: 0 .. MaxRetries]

ASSUME NoneAssumption == None \notin Message

Slot == Process \X (1 .. Prefetch)
RowStatus == {"completed", "failed"}

VARIABLES
    asked,        \* requests published by a producer
    ready,        \* ready[m]: copies of m in blog.analysis waiting for a consumer
    dlq,          \* dlq[r]: copies of r in blog.analysis.dlq
    ingested,     \* requests whose ingest:done:{correlation_id} key is set
    pc,           \* pc[s]: the next step of the handler in slot s
    msg,          \* msg[s]: the copy it handles
    owned,        \* slots whose delivery the broker still counts as unacknowledged
    row,          \* row[s]: status of its uncommitted analysis_jobs row
    jobs,         \* jobs[r, st]: committed analysis_jobs rows of r with status st
    announced,    \* announced[r, st]: events of r published on blog.analysis.completed
    redelivered,  \* deliveries the broker took back
    crashes, disconnects, workFaults, brokerFaults   \* how much of each bound is used

brokerVars == <<ready, dlq, owned>>
slotVars   == <<pc, msg, row>>
resultVars == <<jobs, announced>>
endVars    == <<redelivered, crashes, disconnects>>
faultVars  == <<workFaults, brokerFaults>>
vars == <<asked, ingested, brokerVars, slotVars, resultVars, endVars, faultVars>>

(* What a handler calls next: acks and rejects need the channel the copy came by, publishes any. *)
SettleSteps == {"ack", "ackCopy", "reject", "drop"}
PublishSteps == {"republish", "announce", "announceFailed"}
WorkSteps == {"resolve", "analyze", "commit"}
Steps == {"idle", "rollback", "stuck"} \cup SettleSteps \cup PublishSteps \cup WorkSteps

(* Steps at which the copy is only acknowledged: its analysis is committed, or another copy published. *)
AckSteps == {"ack", "ackCopy"}

TypeOK ==
    /\ asked \subseteq Request /\ ingested \subseteq Request
    /\ ready \in [Message -> Nat]
    /\ dlq \in [Request -> Nat]
    /\ pc \in [Slot -> Steps]
    /\ msg \in [Slot -> Message \cup {None}]
    /\ \A s \in Slot : pc[s] # "idle" => msg[s] \in Message
    /\ owned \subseteq {s \in Slot : pc[s] # "idle"}
    /\ row \in [Slot -> RowStatus \cup {"none"}]
    /\ jobs \in [Request \X RowStatus -> Nat]
    /\ announced \in [Request \X RowStatus -> Nat]
    /\ redelivered \in Nat /\ crashes \in Nat /\ disconnects \in Nat
    /\ workFaults \in Nat /\ brokerFaults \in Nat

Init ==
    /\ asked = {} /\ ingested = {}
    /\ ready = [m \in Message |-> 0]
    /\ dlq = [r \in Request |-> 0]
    /\ pc = [s \in Slot |-> "idle"]
    /\ msg = [s \in Slot |-> None]
    /\ owned = {}
    /\ row = [s \in Slot |-> "none"]
    /\ jobs = [x \in Request \X RowStatus |-> 0]
    /\ announced = [x \in Request \X RowStatus |-> 0]
    /\ redelivered = 0 /\ crashes = 0 /\ disconnects = 0 /\ workFaults = 0 /\ brokerFaults = 0

-----------------------------------------------------------------------------
(* The environment: Spring and the ingest worker publish requests; the ingest worker sets the key. *)

Publish(r) ==
    /\ r \notin asked
    /\ asked' = asked \cup {r}
    /\ ready' = [ready EXCEPT ![[req |-> r, retry |-> 0]] = @ + 1]
    /\ UNCHANGED <<ingested, dlq, owned, slotVars, resultVars, endVars, faultVars>>

IngestDone(r) ==
    /\ Kind[r] = "awaits" /\ r \notin ingested
    /\ ingested' = ingested \cup {r}
    /\ UNCHANGED <<asked, brokerVars, slotVars, resultVars, endVars, faultVars>>

-----------------------------------------------------------------------------
(* Control flow of a handler.  After a step it goes on at a step, ends, or the step raises. *)

CanRetry(s) == msg[s].retry < MaxRetries

(* Mutant: the failure event is published and the copy is not rejected. *)
OnFailureNoReject(s) == IF CanRetry(s) THEN "republish" ELSE "announceFailed"

(* Mutant: a copy whose document is not ready is left alone. *)
OnNotReadyWaits(s) == IF CanRetry(s) THEN "stuck" ELSE "drop"

(* _handle_failure, and what _handle_message does while the document_id is not known. *)
OnFailure(s) == IF CanRetry(s) THEN "republish" ELSE "reject"
OnNotReady(s) == IF CanRetry(s) THEN "republish" ELSE "drop"

(* Mutant: the commit stands outside the try. *)
CatchCommitStuck(s) ==
    CASE pc[s] = "resolve"                        -> OnNotReady(s)
      [] pc[s] = "ack"                            -> OnFailure(s)
      [] pc[s] \in {"announce", "announceFailed"} -> "idle"
      [] OTHER                                    -> "stuck"

(* Where an exception raised at the step of slot s is caught: _resolve_document_id answers None, the *)
(* session is rolled back, the try of _handle_message hands over to _handle_failure,                 *)
(* _publish_completed swallows.  Nothing catches the others: the handler ends, its copy unsettled.   *)
Catch(s) ==
    CASE pc[s] = "resolve"                        -> OnNotReady(s)
      [] pc[s] = "commit"                         -> "rollback"
      [] pc[s] = "ack"                            -> OnFailure(s)
      [] pc[s] \in {"announce", "announceFailed"} -> "idle"
      [] OTHER                                    -> "stuck"

(* A handler that has ended ("stuck") takes up its slot only while its delivery is unacknowledged. *)
GoTo(s, step) ==
    LET ended == step = "idle" \/ (step = "stuck" /\ s \notin owned') IN
    /\ pc' = [pc EXCEPT ![s] = IF ended THEN "idle" ELSE step]
    /\ msg' = [msg EXCEPT ![s] = IF ended THEN None ELSE @]

ChargeFault(s) ==
    IF pc[s] \in WorkSteps
      THEN workFaults < MaxWorkFaults /\ workFaults' = workFaults + 1 /\ UNCHANGED brokerFaults
      ELSE brokerFaults < MaxBrokerFaults /\ brokerFaults' = brokerFaults + 1 /\ UNCHANGED workFaults

(* After a step that took effect the handler goes on, unless the call raised all the same. *)
Proceed(s, step) ==
    \/ GoTo(s, step) /\ UNCHANGED faultVars
    \/ GoTo(s, Catch(s)) /\ ChargeFault(s)

(* The step raises without effect; on a lost channel an ack or a reject always does. *)
Raise(s) ==
    /\ pc[s] \in (SettleSteps \cup PublishSteps \cup WorkSteps) \ {"analyze"}
    /\ UNCHANGED <<asked, ingested, brokerVars, row, resultVars, endVars>>
    /\ GoTo(s, Catch(s))
    /\ IF pc[s] \in SettleSteps /\ s \notin owned THEN UNCHANGED faultVars ELSE ChargeFault(s)

-----------------------------------------------------------------------------
(* _handle_message *)

(* Mutant: a consumer with no_ack, for which the broker keeps nothing. *)
ReceiveNoAck(s) ==
    /\ pc[s] = "idle"
    /\ \E m \in Message :
         /\ ready[m] > 0
         /\ ready' = [ready EXCEPT ![m] = @ - 1]
         /\ msg' = [msg EXCEPT ![s] = m]
         /\ pc' = [pc EXCEPT ![s] = "analyze"]
    /\ UNCHANGED <<asked, ingested, dlq, owned, row, resultVars, endVars, faultVars>>

Receive(s) ==
    /\ pc[s] = "idle"
    /\ \E m \in Message :
         /\ ready[m] > 0
         /\ ready' = [ready EXCEPT ![m] = @ - 1]
         /\ msg' = [msg EXCEPT ![s] = m]
         /\ pc' = [pc EXCEPT ![s] = CASE Kind[m.req] = "bad"    -> "drop"
                                      [] Kind[m.req] = "awaits" -> "resolve"
                                      [] OTHER                  -> "analyze"]
    /\ owned' = owned \cup {s}
    /\ UNCHANGED <<asked, ingested, dlq, row, resultVars, endVars, faultVars>>

Resolve(s) ==
    /\ pc[s] = "resolve"
    /\ UNCHANGED brokerVars
    /\ GoTo(s, IF msg[s].req \in ingested THEN "analyze" ELSE OnNotReady(s))
    /\ UNCHANGED <<asked, ingested, row, resultVars, endVars, faultVars>>

(* AnalysisService.analyze inside session_scope: the job row is created and ends completed; or the  *)
(* LLM call or its answer is bad, the row is marked failed and the exception leaves the session; or *)
(* the document does not exist and no row is created.                                               *)
Analyze(s) ==
    /\ pc[s] = "analyze"
    /\ \/ /\ Kind[msg[s].req] # "missing"
          /\ row' = [row EXCEPT ![s] = "completed"]
          /\ GoTo(s, "commit")
          /\ UNCHANGED faultVars
       \/ /\ Kind[msg[s].req] # "missing"
          /\ row' = [row EXCEPT ![s] = "failed"]
          /\ GoTo(s, "rollback")
          /\ ChargeFault(s)
       \/ /\ Kind[msg[s].req] = "missing"
          /\ GoTo(s, "rollback")
          /\ UNCHANGED <<row, faultVars>>
    /\ UNCHANGED <<asked, ingested, brokerVars, resultVars, endVars>>

(* session_scope commits the row. *)
Commit(s) ==
    /\ pc[s] = "commit"
    /\ jobs' = [jobs EXCEPT ![<<msg[s].req, row[s]>>] = @ + 1]
    /\ row' = [row EXCEPT ![s] = "none"]
    /\ UNCHANGED brokerVars
    /\ Proceed(s, "ack")
    /\ UNCHANGED <<asked, ingested, announced, endVars>>

(* session_scope rolls back whatever analyze wrote, the failed row included. *)
Rollback(s) ==
    /\ pc[s] = "rollback"
    /\ row' = [row EXCEPT ![s] = "none"]
    /\ GoTo(s, OnFailure(s))
    /\ UNCHANGED <<asked, ingested, brokerVars, resultVars, endVars, faultVars>>

Settle(s) == s \in owned /\ owned' = owned \ {s}

(* Mutant: sessions expire rows on commit, so reading job.id after the ack raises. *)
AckThenDetached(s) ==
    /\ pc[s] = "ack"
    /\ Settle(s)
    /\ GoTo(s, OnFailure(s))
    /\ UNCHANGED <<asked, ingested, ready, dlq, row, resultVars, endVars, faultVars>>

(* Mutant: the handler returns after the acknowledgement. *)
AckSilent(s) ==
    /\ pc[s] = "ack"
    /\ Settle(s)
    /\ Proceed(s, "idle")
    /\ UNCHANGED <<asked, ingested, ready, dlq, row, resultVars, endVars>>

Ack(s) ==
    /\ pc[s] = "ack"
    /\ Settle(s)
    /\ Proceed(s, "announce")
    /\ UNCHANGED <<asked, ingested, ready, dlq, row, resultVars, endVars>>

(* _publish_completed SUCCESS, then the handler returns. *)
Announce(s) ==
    /\ pc[s] = "announce"
    /\ announced' = [announced EXCEPT ![<<msg[s].req, "completed">>] = @ + 1]
    /\ UNCHANGED brokerVars
    /\ Proceed(s, "idle")
    /\ UNCHANGED <<asked, ingested, row, jobs, endVars>>

-----------------------------------------------------------------------------
(* Retries and dead-lettering *)

(* _republish_with_retry: a new copy, with the header one higher. *)
Republish(s) ==
    /\ pc[s] = "republish"
    /\ ready' = [ready EXCEPT ![[msg[s] EXCEPT !.retry = @ + 1]] = @ + 1]
    /\ UNCHANGED <<dlq, owned>>
    /\ Proceed(s, "ackCopy")
    /\ UNCHANGED <<asked, ingested, row, resultVars, endVars>>

AckCopy(s) ==
    /\ pc[s] = "ackCopy"
    /\ Settle(s)
    /\ Proceed(s, "idle")
    /\ UNCHANGED <<asked, ingested, ready, dlq, row, resultVars, endVars>>

(* reject(requeue=False): the broker moves the copy to the dead-letter queue. *)
DeadLetter(s) ==
    /\ Settle(s)
    /\ dlq' = [dlq EXCEPT ![msg[s].req] = @ + 1]
    /\ UNCHANGED <<asked, ingested, ready, row, resultVars, endVars>>

(* A bad body, or no document_id after all retries. *)
Drop(s) == pc[s] = "drop" /\ DeadLetter(s) /\ Proceed(s, "idle")

(* The analysis failed after all retries. *)
Reject(s) == pc[s] = "reject" /\ DeadLetter(s) /\ Proceed(s, "announceFailed")

AnnounceFailed(s) ==
    /\ pc[s] = "announceFailed"
    /\ announced' = [announced EXCEPT ![<<msg[s].req, "failed">>] = @ + 1]
    /\ UNCHANGED brokerVars
    /\ Proceed(s, "idle")
    /\ UNCHANGED <<asked, ingested, row, jobs, endVars>>

-----------------------------------------------------------------------------
(* The broker takes back the unacknowledged deliveries of process p. *)
Redeliver(p) ==
    LET back == {s \in owned : s[1] = p} IN
    /\ ready' = [m \in Message |-> ready[m] + Cardinality({s \in back : msg[s] = m})]
    /\ owned' = owned \ back
    /\ redelivered' = redelivered + Cardinality(back)

(* A process killed, or stopped (run() returns and the loop cancels its handlers), and started again. *)
Crash(p) ==
    /\ crashes < MaxCrashes
    /\ crashes' = crashes + 1
    /\ Redeliver(p)
    /\ pc'  = [s \in Slot |-> IF s[1] = p THEN "idle" ELSE pc[s]]
    /\ msg' = [s \in Slot |-> IF s[1] = p THEN None ELSE msg[s]]
    /\ row' = [s \in Slot |-> IF s[1] = p THEN "none" ELSE row[s]]
    /\ UNCHANGED <<asked, ingested, dlq, resultVars, disconnects, faultVars>>

(* The connection of p is lost and made again by connect_robust; its handlers go on. *)
Disconnect(p) ==
    /\ disconnects < MaxDisconnects
    /\ disconnects' = disconnects + 1
    /\ Redeliver(p)
    /\ pc'  = [s \in Slot |-> IF s[1] = p /\ pc[s] = "stuck" THEN "idle" ELSE pc[s]]
    /\ msg' = [s \in Slot |-> IF s[1] = p /\ pc[s] = "stuck" THEN None ELSE msg[s]]
    /\ UNCHANGED <<asked, ingested, dlq, row, resultVars, crashes, faultVars>>

-----------------------------------------------------------------------------
Handle(s) ==
    \/ Resolve(s) \/ Analyze(s) \/ Commit(s) \/ Rollback(s) \/ Ack(s) \/ Announce(s)
    \/ Republish(s) \/ AckCopy(s) \/ Drop(s) \/ Reject(s) \/ AnnounceFailed(s)

Next ==
    \/ \E r \in Request : Publish(r) \/ IngestDone(r)
    \/ \E s \in Slot : Receive(s) \/ Handle(s) \/ Raise(s)
    \/ \E p \in Process : Crash(p) \/ Disconnect(p)

Spec == Init /\ [][Next]_vars

-----------------------------------------------------------------------------
(* Properties *)

Analysed(r) == jobs[<<r, "completed">>] > 0

(* Some copy of r is queued, or held by a handler whose delivery the broker would take back. *)
Alive(r) ==
    \/ \E m \in Message : m.req = r /\ ready[m] > 0
    \/ \E s \in owned : msg[s].req = r

(* A request is never lost: it has a completed analysis, is in the dead-letter queue, or a copy of   *)
(* it is queued or unacknowledged, whatever crashes, lost connections and errors there are           *)
(* (CONTRACT.md 3.3: acknowledged after success, else retried or dead-lettered).                     *)
NoRequestLost == \A r \in asked : Analysed(r) \/ dlq[r] > 0 \/ Alive(r)

(* Analyses of one request beyond the first are paid for: each delivery taken back and each call that *)
(* raised accounts for a bounded number of them; racing handlers add none by themselves.              *)
AnalysesBound ==
    \A r \in Request : jobs[<<r, "completed">>] <= 1 + 2 * redelivered + workFaults + brokerFaults

(* An event never announces what did not happen: a success event has a committed row of its own, a   *)
(* failure event a copy in the dead-letter queue.                                                    *)
EventsBacked ==
    \A r \in Request :
        announced[<<r, "completed">>] <= jobs[<<r, "completed">>] /\ announced[<<r, "failed">>] <= dlq[r]

(* A handler that ended with an exception keeps its place in the prefetch window only at the price   *)
(* of a publish, ack or reject that raised on a live channel: an error of the database, the LLM or   *)
(* Redis, a crash or a lost connection never costs a process one of its slots.                       *)
StuckBound == Cardinality({s \in owned : pc[s] = "stuck"}) <= brokerFaults

(* As README.md:118 has it, a failed analysis is recorded as a failed row of analysis_jobs. *)
FailureRecorded == \A r \in Request : announced[<<r, "failed">>] > 0 => jobs[<<r, "failed">>] > 0
=============================================================================
