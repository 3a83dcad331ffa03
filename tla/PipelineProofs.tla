---------------------------- MODULE PipelineProofs ----------------------------
(***************************************************************************)
(* Proofs about Pipeline, for any number of posts, workers, processes and  *)
(* faults: it implements both of its sides and, as a whole, DocumentLife;  *)
(* and no analysis worker looks for a document that is not committed.      *)
(*                                                                         *)
(* StoredFirst says it of what the ingest workers publish and set;         *)
(* Sourced follows a request from there to the handler that analyses it.   *)
(* What a step of either side can change of what is seen from outside      *)
(* (IngestChanges, AnalysisChanges) is one step of DocumentLife, or none.  *)
(***************************************************************************)
EXTENDS Pipeline, IngestWorkerProofs, FiniteSetTheorems

-----------------------------------------------------------------------------
(* The two sides *)

(* Every step is one of the ingest side or leaves it alone. *)
LEMMA IngestStep == [PipelineNext]_pipelineVars => [Next]_vars
<1> SUFFICES ASSUME [PipelineNext]_pipelineVars PROVE [Next]_vars
  OBVIOUS
<1>1. CASE UNCHANGED pipelineVars
  BY <1>1 DEF pipelineVars
<1>2. CASE PipelineNext
  BY <1>2 DEF PipelineNext, Crawls, Deadline, Polls, Handles, Revives, Suffers, Asks, Receives, Analyses, Loses,
          IngestSide, AnalysisSide, Next
<1> QED BY <1>1, <1>2

(* In the pipeline the ingest workers do what they do alone (ingest_worker.py). *)
THEOREM ImplementsIngest == PipelineSpec => Spec
<1>1. PipelineInit => Init
  BY DEF PipelineInit
<1> QED BY <1>1, IngestStep, PTL DEF PipelineSpec, Spec

LEMMA IngestInvariant == PipelineSpec => [](TypeInv /\ StoredFirst)
BY ImplementsIngest, TypeInvariant, PublishedAreStored, PTL

(* No post is lost on its way through the pipeline. *)
THEOREM PostsNotLostInPipeline == PipelineSpec => []NoPostLost
BY ImplementsIngest, PostsNotLost, PTL

(* A step of the ingest side sets the key of one post, if any, and what it has published stays. *)
LEMMA IngestEffect ==
  ASSUME TypeInv, [Next]_vars
  PROVE  /\ ingestDone' = ingestDone \/ \E p \in Post : ingestDone' = ingestDone \cup {p} /\ UNCHANGED pubVars
         /\ \A p \in Post : postPubs'[p] \in Nat /\ postPubs'[p] >= postPubs[p]
         /\ Len(snapPubs') \in Nat /\ Len(snapPubs') >= Len(snapPubs)
<1>t. postPubs \in [Post -> Nat] /\ snapPubs \in Seq(SUBSET Post) /\ ids \in [Worker -> SUBSET Post]
  BY DEF TypeInv, DataOK
<1>1. ASSUME UNCHANGED pubVars
      PROVE  /\ \A p \in Post : postPubs'[p] \in Nat /\ postPubs'[p] >= postPubs[p]
             /\ Len(snapPubs') \in Nat /\ Len(snapPubs') >= Len(snapPubs)
  BY <1>t, <1>1 DEF pubVars
<1>2. ASSUME NEW w \in Worker, MarkDone(w)
      PROVE  (\E p \in Post : ingestDone' = ingestDone \cup {p}) /\ UNCHANGED pubVars
  <2>1. Entry(w).post \in Post
    BY <1>2, EntryType DEF MarkDone, CanRaise, Steps, Section, Fields
  <2> QED BY <1>2, <2>1 DEF MarkDone
<1>3. ASSUME NEW w \in Worker, PublishPost(w) \/ PublishSnapshot(w)
      PROVE  /\ ingestDone' = ingestDone
             /\ \A p \in Post : postPubs'[p] \in Nat /\ postPubs'[p] >= postPubs[p]
             /\ Len(snapPubs') \in Nat /\ Len(snapPubs') >= Len(snapPubs)
  <2>1. CASE PublishPost(w)
    BY <1>t, <2>1 DEF PublishPost
  <2>2. CASE PublishSnapshot(w)
    BY <1>t, <2>2 DEF PublishSnapshot
  <2> QED BY <1>3, <2>1, <2>2
<1>4. ASSUME \A w \in Worker : ~MarkDone(w) /\ ~PublishPost(w) /\ ~PublishSnapshot(w)
      PROVE  ingestDone' = ingestDone /\ UNCHANGED pubVars
  <2>1. CASE \E p \in Post : Crawl(p)
    BY <2>1 DEF Crawl
  <2>2. CASE DeadlinePasses \/ UNCHANGED vars
    BY <2>2 DEF DeadlinePasses, vars
  <2>3. ASSUME NEW w \in Worker, Handle(w) PROVE ingestDone' = ingestDone /\ UNCHANGED pubVars
    BY <1>4, <2>3 DEF Handle, StartMessage, DlqBad, AckBad, Ingest, AckIngested, SetMetadata, AddDocId, CountCompleted,
            LockSnapshot, GetStatus, ReclaimFailed, CreateSnapshot, SetCompleted, SetFailed, RetryOrDlq, AckFailed
  <2>4. ASSUME NEW w \in Worker, Poll(w) \/ Raise(w) \/ Crash(w) \/ Exit(w) \/ Restart(w)
        PROVE  ingestDone' = ingestDone /\ UNCHANGED pubVars
    BY <2>4 DEF Poll, ClaimPending, ReadNew, Raise, Crash, Exit, Restart, Die
  <2> QED BY <2>1, <2>2, <2>3, <2>4 DEF Next
<1> QED BY <1>1, <1>2, <1>3, <1>4

LEMMA SentGrows ==
  ASSUME TypeInv, [Next]_vars
  PROVE  Sent \subseteq Sent'
<1>1. ASSUME NEW p \in Post, NEW n \in 1 .. postPubs[p] PROVE n \in 1 .. postPubs'[p]
  BY IngestEffect DEF TypeInv, DataOK
<1>2. ASSUME NEW n \in 1 .. Len(snapPubs) PROVE n \in 1 .. Len(snapPubs')
  BY IngestEffect DEF TypeInv, DataOK
<1>3. ASSUME NEW x \in Sent PROVE x \in Sent'
  <2>1. CASE \E p \in Post : x \in {Message(p, n) : n \in 1 .. postPubs[p]}
    <3>0. PICK p \in Post : x \in {Message(p, n) : n \in 1 .. postPubs[p]}
      BY <2>1
    <3>1. PICK n \in 1 .. postPubs[p] : x = Message(p, n)
      BY <3>0
    <3>2. x \in {Message(p, k) : k \in 1 .. postPubs'[p]}
      BY <1>1, <3>1
    <3> QED BY <3>2 DEF Sent
  <2>2. CASE x \in {Message(Batch, n) : n \in 1 .. Len(snapPubs)}
    <3>1. x \in {Message(Batch, n) : n \in 1 .. Len(snapPubs')}
      BY <1>2, <2>2
    <3> QED BY <3>1 DEF Sent
  <2> QED BY <1>3, <2>1, <2>2 DEF Sent
<1> QED BY <1>3

(* Asked by its correlation id, a post is a request of kind "awaits". *)
LEMMA SpringKind ==
  ASSUME NEW r \in Spring
  PROVE  /\ r \in Request
         /\ r[1] # Missing => RequestKind[r] = "awaits"
         /\ r[1] \in Post => r[1] # Missing
BY PipelineAssumption DEF Spring, Request, RequestKind

(* The keys an ingest step sets are those of one request at most. *)
LEMMA IngestedStep ==
  ASSUME TypeInv, [Next]_vars, UNCHANGED analysisVars
  PROVE  [Analysis!Next]_(Analysis!vars)
<1> USE DEF Analysis!vars, Analysis!brokerVars, Analysis!slotVars, Analysis!resultVars, Analysis!endVars,
            Analysis!faultVars, analysisVars
<1>1. CASE Ingested' = Ingested
  BY <1>1
<1>2. CASE Ingested' # Ingested
  <2>1. PICK p \in Post : ingestDone' = ingestDone \cup {p}
    BY <1>2, IngestEffect DEF Ingested
  <2>2. PICK r \in Spring : r[1] = p /\ r \notin Ingested
    BY <1>2, <2>1 DEF Ingested
  <2>3. \A q \in Spring : q[1] = p => q = r
    BY <2>2 DEF Spring, Message
  <2>4. Ingested' = Ingested \cup {r}
    BY <2>1, <2>2, <2>3 DEF Ingested
  <2>5. RequestKind[r] = "awaits" /\ r \in Request
    BY <2>2, SpringKind
  <2>6. Analysis!IngestDone(r)
    BY <2>2, <2>4, <2>5 DEF Analysis!IngestDone
  <2> QED BY <2>5, <2>6 DEF Analysis!Next
<1> QED BY <1>1, <1>2

(* What happens to the queue in a step of the pipeline. *)
LEMMA AnalysisCases ==
  ASSUME TypeInv, [PipelineNext]_pipelineVars
  PROVE  \/ UNCHANGED analysisVars /\ [Next]_vars
         \/ \E r \in (Sent' \ Sent) \cap Request : Analysis!Publish(r)
         \/ \E r \in Spring : UNCHANGED vars /\ Analysis!Publish(r)
         \/ \E s \in Analysis!Slot : UNCHANGED vars /\ (Analysis!Receive(s) \/ Analysis!Handle(s) \/ Analysis!Raise(s))
         \/ \E p \in Process : UNCHANGED vars /\ (Analysis!Crash(p) \/ Analysis!Disconnect(p))
<1>1. Transmit /\ Within => UNCHANGED analysisVars \/ \E r \in (Sent' \ Sent) \cap Request : Analysis!Publish(r)
  BY DEF Transmit, Within
<1>2. CASE Crawls \/ Deadline \/ \E w \in Worker : Polls(w) \/ Handles(w) \/ Revives(w) \/ Suffers(w)
  <2>1. Transmit /\ Within
    BY <1>2 DEF Crawls, Deadline, Polls, Handles, Revives, Suffers, IngestSide
  <2> QED BY <1>1, <2>1, IngestStep
<1>3. CASE UNCHANGED pipelineVars
  BY <1>3, IngestStep DEF pipelineVars
<1>4. CASE \E r \in Spring : Asks(r)
  BY <1>4 DEF Asks, AnalysisSide
<1>5. CASE Receives \/ \E s \in Analysis!Slot : Analyses(s)
  BY <1>5 DEF Receives, Analyses, AnalysisSide
<1>6. CASE \E p \in Process : Loses(p)
  BY <1>6 DEF Loses, AnalysisSide
<1> QED BY <1>2, <1>3, <1>4, <1>5, <1>6 DEF PipelineNext

(* In the pipeline the analysis workers do what they do alone: the publishes and the SET of an ingest *)
(* worker are the steps of their environment (analysis_worker.py, ingest_worker.py:267-355).         *)
THEOREM ImplementsAnalysis == PipelineSpec => Analysis!Spec
<1>1. PipelineInit => Analysis!Init
  BY DEF PipelineInit
<1>2. TypeInv /\ [PipelineNext]_pipelineVars => [Analysis!Next]_(Analysis!vars)
  <2> SUFFICES ASSUME TypeInv, [PipelineNext]_pipelineVars PROVE [Analysis!Next]_(Analysis!vars)
    OBVIOUS
  <2>1. CASE UNCHANGED analysisVars /\ [Next]_vars
    BY <2>1, IngestedStep
  <2>2. ASSUME NEW r \in Request, Analysis!Publish(r) PROVE Analysis!Next
    BY <2>2 DEF Analysis!Next
  <2>3. CASE \E s \in Analysis!Slot : Analysis!Receive(s) \/ Analysis!Handle(s) \/ Analysis!Raise(s)
    BY <2>3 DEF Analysis!Next
  <2>4. CASE \E p \in Process : Analysis!Crash(p) \/ Analysis!Disconnect(p)
    BY <2>4 DEF Analysis!Next
  <2> QED BY <2>1, <2>2, <2>3, <2>4, AnalysisCases, SpringKind
<1> QED BY <1>1, <1>2, IngestInvariant, PTL DEF PipelineSpec, Analysis!Spec

-----------------------------------------------------------------------------
(* From the ingest to the analysis *)

Copies == Analysis!Message
Handler == Analysis!Slot

(* What a queue or a handler holds was asked for, by Spring or an ingest worker; a handler that goes *)
(* on to analyse a request by correlation id has seen its key, and one that commits found the row.   *)
Sourced ==
    /\ asked \subseteq Sent \cup Spring
    /\ ready = [m \in Copies |-> ready[m]]
    /\ \A m \in Copies : ready[m] # 0 => m.req \in asked
    /\ pcA = [s \in Handler |-> pcA[s]] /\ msg = [s \in Handler |-> msg[s]]
    /\ owned \subseteq Handler
    /\ \A s \in Handler : pcA[s] # "idle" => msg[s] # NoMessage
    /\ \A s \in Handler : msg[s] # NoMessage => msg[s] \in Copies /\ msg[s].req \in asked
    /\ \A s \in Handler :
         pcA[s] \in {"analyze", "commit"} /\ RequestKind[msg[s].req] = "awaits" => msg[s].req \in Ingested
    /\ \A s \in Handler : pcA[s] = "commit" => RequestKind[msg[s].req] # "missing"

(* What a step of the handler in slot s leaves of Sourced to be shown. *)
LEMMA SourcedHandler ==
  ASSUME Sourced, NEW s \in Handler, NEW step, msg[s] # NoMessage, Analysis!GoTo(s, step),
         UNCHANGED <<vars, asked>>, owned' \subseteq Handler,
         ready' = [m \in Copies |-> ready'[m]],
         \A m \in Copies : ready'[m] # 0 => m.req \in asked,
         step \in {"analyze", "commit"} /\ RequestKind[msg[s].req] = "awaits" => msg[s].req \in Ingested,
         step = "commit" => RequestKind[msg[s].req] # "missing"
  PROVE  Sourced'
<1>1. Sent' = Sent /\ Ingested' = Ingested
  BY DEF Sent, Ingested, vars, pubVars
<1>2. msg'[s] \in {msg[s], NoMessage} /\ pcA'[s] \in {step, "idle"} /\ (pcA'[s] # "idle" => msg'[s] = msg[s])
  BY DEF Analysis!GoTo, Sourced
<1>3. \A t \in Handler : t # s => msg'[t] = msg[t] /\ pcA'[t] = pcA[t]
  BY DEF Analysis!GoTo, Sourced
<1>4. pcA' = [t \in Handler |-> pcA'[t]] /\ msg' = [t \in Handler |-> msg'[t]]
  BY DEF Analysis!GoTo, Sourced
<1>5. \A t \in Handler : pcA'[t] # "idle" => msg'[t] # NoMessage
  BY <1>2, <1>3 DEF Sourced
<1>6. \A t \in Handler : msg'[t] # NoMessage => msg'[t] \in Copies /\ msg'[t].req \in asked
  BY <1>2, <1>3 DEF Sourced
<1>7. \A t \in Handler :
        pcA'[t] \in {"analyze", "commit"} /\ RequestKind[msg'[t].req] = "awaits" => msg'[t].req \in Ingested
  BY <1>2, <1>3 DEF Sourced
<1>8. \A t \in Handler : pcA'[t] = "commit" => RequestKind[msg'[t].req] # "missing"
  BY <1>2, <1>3 DEF Sourced
<1> QED BY <1>1, <1>4, <1>5, <1>6, <1>7, <1>8 DEF Sourced, Copies, Handler, Analysis!Message, Analysis!Slot

(* Nothing that raises is caught where the analysis begins. *)
LEMMA CatchElsewhere ==
  ASSUME NEW s \in Handler
  PROVE  /\ Analysis!Catch(s) \notin {"analyze", "commit"}
         /\ Analysis!OnFailure(s) \notin {"analyze", "commit"}
         /\ Analysis!OnNotReady(s) \notin {"analyze", "commit"}
BY DEF Analysis!Catch, Analysis!OnFailure, Analysis!OnNotReady

LEMMA SourcedHandle ==
  ASSUME Sourced, NEW s \in Handler, UNCHANGED vars, Analysis!Handle(s) \/ Analysis!Raise(s)
  PROVE  Sourced'
<1>m. pcA[s] # "idle" /\ msg[s] # NoMessage
  BY DEF Sourced, Analysis!Handle, Analysis!Raise, Analysis!SettleSteps, Analysis!PublishSteps, Analysis!WorkSteps,
         Analysis!Resolve, Analysis!Analyze, Analysis!Commit, Analysis!Rollback, Analysis!Ack, Analysis!Announce,
         Analysis!Republish, Analysis!AckCopy, Analysis!Drop, Analysis!Reject, Analysis!AnnounceFailed
<1>s. msg[s] \in Copies /\ msg[s].req \in asked
  BY <1>m DEF Sourced
<1>r. ready = [m \in Copies |-> ready[m]] /\ (\A m \in Copies : ready[m] # 0 => m.req \in asked) /\ owned \subseteq Handler
  BY DEF Sourced
<1>p. ASSUME NEW step, Analysis!Proceed(s, step)
      PROVE  Analysis!GoTo(s, step) \/ Analysis!GoTo(s, Analysis!Catch(s))
  BY <1>p DEF Analysis!Proceed
<1>f. ASSUME UNCHANGED <<asked, ready>>, owned' \subseteq owned,
             NEW step, Analysis!GoTo(s, step),
             step \in {"analyze", "commit"} /\ RequestKind[msg[s].req] = "awaits" => msg[s].req \in Ingested,
             step = "commit" => RequestKind[msg[s].req] # "missing"
      PROVE  Sourced'
  BY <1>m, <1>r, <1>f, SourcedHandler
<1>e. ASSUME UNCHANGED <<asked, ready>>, owned' \subseteq owned,
             NEW step, step \notin {"analyze", "commit"}, Analysis!Proceed(s, step)
      PROVE  Sourced'
  BY <1>p, <1>e, <1>f, CatchElsewhere
<1>1. CASE Analysis!Resolve(s)
  BY <1>1, <1>f, CatchElsewhere DEF Analysis!Resolve, Analysis!brokerVars
<1>2. CASE Analysis!Analyze(s)
  <2>1. PICK step \in {"commit", "rollback"} :
           Analysis!GoTo(s, step) /\ (step = "commit" => RequestKind[msg[s].req] # "missing")
    BY <1>2 DEF Analysis!Analyze
  <2>2. RequestKind[msg[s].req] = "awaits" => msg[s].req \in Ingested
    BY <1>2 DEF Analysis!Analyze, Sourced
  <2> QED BY <1>2, <1>f, <2>1, <2>2 DEF Analysis!Analyze, Analysis!brokerVars
<1>3. CASE Analysis!Commit(s)
  BY <1>3, <1>e DEF Analysis!Commit, Analysis!brokerVars
<1>4. CASE Analysis!Rollback(s)
  BY <1>4, <1>f, CatchElsewhere DEF Analysis!Rollback, Analysis!brokerVars
<1>5. CASE Analysis!Ack(s)
  BY <1>5, <1>e DEF Analysis!Ack, Analysis!Settle
<1>6. CASE Analysis!Announce(s)
  BY <1>6, <1>e DEF Analysis!Announce, Analysis!brokerVars
<1>7. CASE Analysis!Republish(s)
  <2>1. ready' = [m \in Copies |-> ready'[m]]
    BY <1>7, <1>r DEF Analysis!Republish
  <2>2. ASSUME NEW m \in Copies, ready'[m] # 0 PROVE m.req \in asked
    <3>1. CASE m = [msg[s] EXCEPT !.retry = @ + 1]
      <4>1. m.req = msg[s].req
        BY <1>s, <3>1 DEF Copies, Analysis!Message
      <4> QED BY <1>s, <4>1
    <3>2. CASE m # [msg[s] EXCEPT !.retry = @ + 1]
      BY <1>7, <1>r, <2>2, <3>2 DEF Analysis!Republish
    <3> QED BY <3>1, <3>2
  <2>3. PICK step : Analysis!GoTo(s, step) /\ step \notin {"analyze", "commit"}
    BY <1>7, <1>p, CatchElsewhere DEF Analysis!Republish
  <2> QED BY <1>7, <1>m, <1>r, <2>1, <2>2, <2>3, SourcedHandler DEF Analysis!Republish
<1>8. CASE Analysis!AckCopy(s)
  BY <1>8, <1>e DEF Analysis!AckCopy, Analysis!Settle
<1>9. CASE Analysis!Drop(s)
  BY <1>9, <1>e DEF Analysis!Drop, Analysis!DeadLetter, Analysis!Settle
<1>10. CASE Analysis!Reject(s)
  BY <1>10, <1>e DEF Analysis!Reject, Analysis!DeadLetter, Analysis!Settle
<1>11. CASE Analysis!AnnounceFailed(s)
  BY <1>11, <1>e DEF Analysis!AnnounceFailed, Analysis!brokerVars
<1>12. CASE Analysis!Raise(s)
  BY <1>12, <1>f, CatchElsewhere DEF Analysis!Raise, Analysis!brokerVars
<1> QED BY <1>1, <1>2, <1>3, <1>4, <1>5, <1>6, <1>7, <1>8, <1>9, <1>10, <1>11, <1>12 DEF Analysis!Handle

(* A handler takes a copy that was asked for, and begins with the lookup when it awaits an ingest. *)
LEMMA SourcedReceive ==
  ASSUME Sourced, NEW s \in Handler, UNCHANGED vars, Analysis!Receive(s)
  PROVE  Sourced'
<1>0. PICK m \in Copies : /\ ready[m] > 0
                          /\ ready' = [ready EXCEPT ![m] = @ - 1]
                          /\ msg' = [msg EXCEPT ![s] = m]
                          /\ pcA' = [pcA EXCEPT ![s] = CASE RequestKind[m.req] = "bad"    -> "drop"
                                                         [] RequestKind[m.req] = "awaits" -> "resolve"
                                                         [] OTHER                         -> "analyze"]
  BY DEF Analysis!Receive, Copies
<1>1. m.req \in asked
  BY <1>0 DEF Sourced
<1>2. Sent' = Sent /\ Ingested' = Ingested /\ asked' = asked
  BY DEF Sent, Ingested, vars, pubVars, Analysis!Receive
<1>3. ready' = [k \in Copies |-> ready'[k]] /\ \A k \in Copies : ready'[k] # 0 => k.req \in asked
  BY <1>0, <1>1 DEF Sourced
<1>4. pcA' = [t \in Handler |-> pcA'[t]] /\ msg' = [t \in Handler |-> msg'[t]] /\ owned' \subseteq Handler
  BY <1>0 DEF Sourced, Analysis!Receive
<1>5. msg'[s] = m /\ m # NoMessage /\ (RequestKind[m.req] = "awaits" => pcA'[s] \notin {"analyze", "commit"})
  BY <1>0, NoMessageAssumption DEF Sourced, Copies
<1>6. \A t \in Handler : t # s => msg'[t] = msg[t] /\ pcA'[t] = pcA[t]
  BY <1>0 DEF Sourced
<1>7. \A t \in Handler : pcA'[t] # "idle" => msg'[t] # NoMessage
  BY <1>5, <1>6 DEF Sourced
<1>8. \A t \in Handler : msg'[t] # NoMessage => msg'[t] \in Copies /\ msg'[t].req \in asked
  BY <1>1, <1>5, <1>6 DEF Sourced
<1>9. \A t \in Handler :
        pcA'[t] \in {"analyze", "commit"} /\ RequestKind[msg'[t].req] = "awaits" => msg'[t].req \in Ingested
  BY <1>5, <1>6 DEF Sourced
<1>10. asked' \subseteq Sent' \cup Spring
  BY <1>2 DEF Sourced
<1>11. \A t \in Handler : pcA'[t] = "commit" => RequestKind[msg'[t].req] # "missing"
  <2>1. pcA'[s] # "commit"
    BY <1>0 DEF Sourced
  <2> QED BY <1>6, <2>1 DEF Sourced
<1> QED BY <1>2, <1>3, <1>4, <1>7, <1>8, <1>9, <1>10, <1>11 DEF Sourced, Copies, Handler, Analysis!Message, Analysis!Slot

LEMMA NothingCounted == Analysis!Cardinality({}) = 0
BY FS_EmptySet DEF Cardinality, Analysis!Cardinality

(* A broker that takes deliveries back puts nothing on the queue but what its handlers held. *)
LEMMA SourcedLoses ==
  ASSUME Sourced, NEW p \in Process, UNCHANGED vars, Analysis!Crash(p) \/ Analysis!Disconnect(p)
  PROVE  Sourced'
<1>1. Sent' = Sent /\ Ingested' = Ingested /\ asked' = asked
  BY DEF Sent, Ingested, vars, pubVars, Analysis!Crash, Analysis!Disconnect
<1>2. \A t \in Handler : \/ msg'[t] = msg[t] /\ pcA'[t] = pcA[t]
                         \/ msg'[t] = NoMessage /\ pcA'[t] = "idle"
  BY DEF Analysis!Crash, Analysis!Disconnect, Handler
<1>3. pcA' = [t \in Handler |-> pcA'[t]] /\ msg' = [t \in Handler |-> msg'[t]]
  BY DEF Analysis!Crash, Analysis!Disconnect, Handler
<1>4. ready' = [m \in Copies |-> ready'[m]] /\ owned' \subseteq Handler
  BY DEF Analysis!Crash, Analysis!Disconnect, Analysis!Redeliver, Copies, Sourced
<1>5. ASSUME NEW m \in Copies, ready'[m] # 0 PROVE m.req \in asked
  <2> DEFINE held == {s \in {t \in owned : t[1] = p} : msg[s] = m}
  <2>1. ready'[m] = ready[m] + Analysis!Cardinality(held)
    BY DEF Analysis!Crash, Analysis!Disconnect, Analysis!Redeliver, Copies
  <2>2. CASE ready[m] # 0
    BY <2>2 DEF Sourced
  <2>3. CASE held # {}
    <3>1. PICK s \in Handler : msg[s] = m
      BY <2>3 DEF Sourced
    <3> QED BY <3>1, NoMessageAssumption DEF Sourced, Copies
  <2>4. CASE ready[m] = 0 /\ held = {}
    <3>1. Analysis!Cardinality(held) = 0
      BY <2>4, NothingCounted
    <3> HIDE DEF held
    <3> QED BY <1>5, <2>1, <2>4, <3>1
  <2> QED BY <2>2, <2>3, <2>4
<1>6. \A t \in Handler : pcA'[t] # "idle" => msg'[t] # NoMessage
  BY <1>2 DEF Sourced
<1>7. \A t \in Handler : msg'[t] # NoMessage => msg'[t] \in Copies /\ msg'[t].req \in asked
  BY <1>2 DEF Sourced
<1>8. \A t \in Handler :
        pcA'[t] \in {"analyze", "commit"} /\ RequestKind[msg'[t].req] = "awaits" => msg'[t].req \in Ingested
  BY <1>2 DEF Sourced
<1>9. asked' \subseteq Sent' \cup Spring
  BY <1>1 DEF Sourced
<1>10. \A t \in Handler : pcA'[t] = "commit" => RequestKind[msg'[t].req] # "missing"
  BY <1>2 DEF Sourced
<1> QED BY <1>1, <1>3, <1>4, <1>5, <1>6, <1>7, <1>8, <1>9, <1>10 DEF Sourced, Copies, Handler, Analysis!Message, Analysis!Slot

(* A step of an ingest worker, or of Spring. *)
LEMMA SourcedPublish ==
  ASSUME Sourced, TypeInv, [Next]_vars,
         UNCHANGED analysisVars \/ \E r \in Sent' \cup Spring : Analysis!Publish(r)
  PROVE  Sourced'
<1>1. Sent \subseteq Sent' /\ Ingested \subseteq Ingested'
  BY SentGrows, IngestEffect DEF Ingested
<1>2. UNCHANGED <<pcA, msg, owned>> /\ asked \subseteq asked' /\ asked' \subseteq Sent' \cup Spring
  BY <1>1 DEF Sourced, Analysis!Publish, analysisVars, Analysis!slotVars
<1>3. ready' = [m \in Copies |-> ready'[m]]
  BY DEF Sourced, Analysis!Publish, analysisVars
<1>4. ASSUME NEW m \in Copies, ready'[m] # 0 PROVE m.req \in asked'
  <2>1. CASE ready[m] # 0
    BY <1>2, <2>1 DEF Sourced
  <2>2. CASE ready[m] = 0
    <3>1. PICK r \in Sent' \cup Spring : Analysis!Publish(r)
      BY <1>4, <2>2 DEF analysisVars
    <3>2. m = [req |-> r, retry |-> 0] /\ asked' = asked \cup {r}
      BY <1>4, <2>2, <3>1 DEF Sourced, Analysis!Publish
    <3> QED BY <3>2
  <2> QED BY <2>1, <2>2
<1> QED BY <1>1, <1>2, <1>3, <1>4 DEF Sourced, Copies, Handler, Analysis!Message, Analysis!Slot

LEMMA SourcedInvariant == PipelineSpec => []Sourced
<1>1. PipelineInit => Sourced
  BY DEF PipelineInit, Analysis!Init, Sourced, Copies, Handler
<1>2. Sourced /\ TypeInv /\ [PipelineNext]_pipelineVars => Sourced'
  <2> SUFFICES ASSUME Sourced, TypeInv, [PipelineNext]_pipelineVars PROVE Sourced'
    OBVIOUS
  <2>1. CASE UNCHANGED analysisVars /\ [Next]_vars
    BY <2>1, SourcedPublish
  <2>2. ASSUME NEW r \in (Sent' \ Sent) \cap Request, Analysis!Publish(r) PROVE Sourced'
    BY <2>2, IngestStep, SourcedPublish
  <2>3. ASSUME NEW r \in Spring, Analysis!Publish(r) PROVE Sourced'
    BY <2>3, IngestStep, SourcedPublish
  <2>4. ASSUME NEW s \in Analysis!Slot, UNCHANGED vars, Analysis!Receive(s) \/ Analysis!Handle(s) \/ Analysis!Raise(s)
        PROVE  Sourced'
    BY <2>4, SourcedReceive, SourcedHandle DEF Handler
  <2>5. ASSUME NEW p \in Process, UNCHANGED vars, Analysis!Crash(p) \/ Analysis!Disconnect(p) PROVE Sourced'
    BY <2>5, SourcedLoses
  <2> QED BY <2>1, <2>2, <2>3, <2>4, <2>5, AnalysisCases
<1> QED BY <1>1, <1>2, IngestInvariant, PTL DEF PipelineSpec

(* No analysis worker looks in vain for a document it was told of: the row was committed before the *)
(* request was published, or before the key that resolved it was set (ingest_worker.py:267-355,     *)
(* analysis_worker.py:97-109, 165-173).                                                             *)
THEOREM DocumentsAreFound == PipelineSpec => []FoundWhenAnalysed
<1>1. Sourced /\ TypeInv /\ StoredFirst => FoundWhenAnalysed
  <2> SUFFICES ASSUME Sourced, TypeInv, StoredFirst, NEW s \in Analysis!Slot,
                      pcA[s] \in {"analyze", "commit"}, msg[s].req[1] # Missing
               PROVE  Stored(msg[s].req)
    BY DEF FoundWhenAnalysed
  <2>1. msg[s].req \in Sent \cup Spring
    BY DEF Sourced, Handler
  <2>2. CASE msg[s].req \in Spring
    <3>1. RequestKind[msg[s].req] = "awaits"
      BY <2>2, SpringKind
    <3>2. msg[s].req[1] \in ingestDone
      BY <3>1 DEF Sourced, Handler, Ingested
    <3>3. msg[s].req[1] \in Post
      BY <2>2, PipelineAssumption DEF Spring, Message
    <3> QED BY <3>2, <3>3, PipelineAssumption DEF Stored, StoredFirst
  <2>3. CASE \E p \in Post : \E n \in 1 .. postPubs[p] : msg[s].req = Message(p, n)
    <3>1. PICK p \in Post : \E n \in 1 .. postPubs[p] : msg[s].req = Message(p, n)
      BY <2>3
    <3>2. postPubs[p] \in Nat /\ postPubs[p] > 0 /\ msg[s].req[1] = p
      BY <3>1 DEF TypeInv, DataOK, Message
    <3> QED BY <3>2, PipelineAssumption DEF Stored, StoredFirst
  <2>4. CASE \E n \in 1 .. Len(snapPubs) : msg[s].req = Message(Batch, n)
    <3>1. snapPubs # <<>> /\ msg[s].req[1] = Batch
      BY <2>4 DEF Message
    <3> QED BY <3>1 DEF Stored, StoredFirst
  <2> QED BY <2>1, <2>2, <2>3, <2>4 DEF Sent
<1> QED BY <1>1, SourcedInvariant, IngestInvariant, PTL

-----------------------------------------------------------------------------
(* What is proved of the analysis workers holds in the pipeline *)

Parts == INSTANCE AnalysisWorkerProofs WITH
    Kind <- RequestKind, None <- NoMessage,
    MaxRetries <- MaxAnalysisRetries, MaxCrashes <- MaxAnalysisCrashes, MaxWorkFaults <- MaxAnalysisFaults,
    ingested <- Ingested, dlq <- deadLetters, pc <- pcA,
    crashes <- crashesA, workFaults <- workFaultsA

(* The constants of the pipeline are ones the analysis workers can be given. *)
LEMMA PartsConstants ==
  /\ RequestKind \in [Request -> Parts!Kinds]
  /\ Parts!IsFiniteSet(Process)
  /\ Prefetch \in Nat \ {0}
  /\ {MaxAnalysisRetries, MaxAnalysisCrashes, MaxDisconnects, MaxAnalysisFaults, MaxBrokerFaults} \subseteq Nat
  /\ NoMessage \notin Parts!Message
<1>1. RequestKind \in [Request -> Parts!Kinds]
  BY DEF RequestKind, Parts!Kinds
<1>2. Parts!IsFiniteSet(Process)
  BY PipelineAssumption DEF IsFiniteSet, Parts!IsFiniteSet
<1>3. NoMessage \notin Parts!Message
  BY NoMessageAssumption DEF Parts!Message, Analysis!Message
<1> QED BY <1>1, <1>2, <1>3, PipelineAssumption

(* The handlers of both instances of AnalysisWorker are the same. *)
LEMMA SameHandler ==
  ASSUME NEW s, Analysis!Handle(s) \/ Analysis!Raise(s)
  PROVE  Parts!Handle(s) \/ Parts!Raise(s)
BY DEF Analysis!Handle, Parts!Handle, Analysis!Raise, Parts!Raise, Analysis!SettleSteps, Parts!SettleSteps,
       Analysis!PublishSteps, Parts!PublishSteps,
       Analysis!Resolve, Parts!Resolve, Analysis!Analyze, Parts!Analyze, Analysis!Commit, Parts!Commit,
       Analysis!Rollback, Parts!Rollback, Analysis!Ack, Parts!Ack, Analysis!Announce, Parts!Announce,
       Analysis!Republish, Parts!Republish, Analysis!AckCopy, Parts!AckCopy, Analysis!Drop, Parts!Drop,
       Analysis!Reject, Parts!Reject, Analysis!AnnounceFailed, Parts!AnnounceFailed,
       Analysis!GoTo, Parts!GoTo, Analysis!Proceed, Parts!Proceed, Analysis!Catch, Parts!Catch,
       Analysis!ChargeFault, Parts!ChargeFault, Analysis!Settle, Parts!Settle,
       Analysis!DeadLetter, Parts!DeadLetter, Analysis!OnFailure, Parts!OnFailure,
       Analysis!OnNotReady, Parts!OnNotReady, Analysis!CanRetry, Parts!CanRetry,
       Analysis!WorkSteps, Parts!WorkSteps,
       Analysis!brokerVars, Parts!brokerVars, Analysis!resultVars, Parts!resultVars,
       Analysis!endVars, Parts!endVars, Analysis!faultVars, Parts!faultVars

LEMMA SameSpec == Analysis!Spec => Parts!Spec
<1> USE DEF Analysis!vars, Parts!vars, Analysis!brokerVars, Parts!brokerVars, Analysis!slotVars, Parts!slotVars,
            Analysis!resultVars, Parts!resultVars, Analysis!endVars, Parts!endVars,
            Analysis!faultVars, Parts!faultVars, Analysis!Slot, Parts!Slot, Analysis!Message, Parts!Message
<1>1. Analysis!Init => Parts!Init
  BY DEF Analysis!Init, Parts!Init, Analysis!RowStatus, Parts!RowStatus
<1>2. ASSUME NEW r \in Request, Analysis!Publish(r) \/ Analysis!IngestDone(r)
      PROVE  Parts!Publish(r) \/ Parts!IngestDone(r)
  BY <1>2 DEF Analysis!Publish, Parts!Publish, Analysis!IngestDone, Parts!IngestDone
<1>3. ASSUME NEW s, Analysis!Receive(s) PROVE Parts!Receive(s)
  BY <1>3 DEF Analysis!Receive, Parts!Receive
<1>4. ASSUME NEW p \in Process, Analysis!Crash(p) \/ Analysis!Disconnect(p)
      PROVE  Parts!Crash(p) \/ Parts!Disconnect(p)
  <2>1. CASE Analysis!Crash(p)
    BY <2>1 DEF Analysis!Crash, Parts!Crash, Analysis!Redeliver, Parts!Redeliver,
                Analysis!Cardinality, Parts!Cardinality
  <2>2. CASE Analysis!Disconnect(p)
    BY <2>2 DEF Analysis!Disconnect, Parts!Disconnect, Analysis!Redeliver, Parts!Redeliver,
                Analysis!Cardinality, Parts!Cardinality
  <2> QED BY <1>4, <2>1, <2>2
<1>5. [Analysis!Next]_(Analysis!vars) => [Parts!Next]_(Parts!vars)
  BY <1>2, <1>3, <1>4, SameHandler DEF Analysis!Next, Parts!Next
<1> QED BY <1>1, <1>5, PTL DEF Analysis!Spec, Parts!Spec
(* What is proved of the analysis workers alone, with what they are asked for put there by the ingest *)
(* workers and Spring (analysis_worker.py:84-233).                                                    *)
THEOREM AnalysisKeptInPipeline ==
  PipelineSpec => [](Analysis!NoRequestLost /\ Analysis!AnalysesBound /\ Analysis!EventsBacked /\ Analysis!StuckBound)
<1>1. PipelineSpec => Parts!Spec
  BY ImplementsAnalysis, SameSpec
<1>2. Parts!Spec => [](Parts!NoRequestLost /\ Parts!AnalysesBound /\ Parts!EventsBacked /\ Parts!StuckBound)
  BY PartsConstants, Parts!RequestsNotLost, Parts!AnalysesBounded, Parts!EventsAreBacked, Parts!StuckBounded, PTL
<1>3. Parts!NoRequestLost => Analysis!NoRequestLost
  BY DEF Analysis!NoRequestLost, Parts!NoRequestLost, Analysis!Analysed, Parts!Analysed, Analysis!Alive, Parts!Alive,
         Analysis!Message, Parts!Message
<1>4. Parts!AnalysesBound => Analysis!AnalysesBound
  BY DEF Analysis!AnalysesBound, Parts!AnalysesBound
<1>5. Parts!EventsBacked => Analysis!EventsBacked
  BY DEF Analysis!EventsBacked, Parts!EventsBacked
<1>6. Parts!StuckBound => Analysis!StuckBound
  BY DEF Analysis!StuckBound, Parts!StuckBound, Analysis!Cardinality, Parts!Cardinality
<1> QED BY <1>1, <1>2, <1>3, <1>4, <1>5, <1>6, PTL

-----------------------------------------------------------------------------
(* From the crawl stream to the answer *)

(* A request is answered, dead-lettered, queued or with a handler that has not settled it. *)
Accounted(r) == Analysis!Analysed(r) \/ deadLetters[r] > 0 \/ Analysis!Alive(r)

(* What the ingest workers put on blog.analysis is accounted for there; and, without a crash of an ingest *)
(* worker or a Redis error, a post of POST mode, and a batch that is counted full, have a request on it,  *)
(* or are dead-lettered, still to come or in the hands of an ingest worker.                               *)
WayKept ==
    /\ \A r \in Sent : Accounted(r)
    /\ crashes + redisFaults = 0 =>
         /\ \A i \in 1 .. Len(stream) :
              Kind[stream[i].post] = "post" =>
                \/ \E r \in Sent : r[1] = stream[i].post /\ Accounted(r)
                \/ InDlq(stream[i].post) \/ Outstanding(stream[i].post) \/ InHand(stream[i].post)
         /\ completed >= Expected =>
              \/ \E r \in Sent : r[1] = Batch /\ Accounted(r)
              \/ \E p \in FullPosts : InDlq(p) \/ Outstanding(p) \/ InHand(p)

(* What a step of the ingest side publishes. *)
LEMMA PublishedStep ==
  ASSUME TypeInv, [Next]_vars
  PROVE  \/ UNCHANGED <<postPubs, snapPubs>>
         \/ \E p \in Post : postPubs' = [postPubs EXCEPT ![p] = @ + 1] /\ snapPubs' = snapPubs
         \/ \E x \in SUBSET Post : snapPubs' = Append(snapPubs, x) /\ postPubs' = postPubs
<1>1. ASSUME NEW w \in Worker, PublishPost(w)
      PROVE  \E p \in Post : postPubs' = [postPubs EXCEPT ![p] = @ + 1] /\ snapPubs' = snapPubs
  <2>1. Entry(w).post \in Post
    BY <1>1, EntryType DEF PublishPost, CanRaise, Steps, Section, Fields
  <2> QED BY <1>1, <2>1 DEF PublishPost
<1>2. ASSUME NEW w \in Worker, PublishSnapshot(w)
      PROVE  \E x \in SUBSET Post : snapPubs' = Append(snapPubs, x) /\ postPubs' = postPubs
  <2>1. ids[w] \in SUBSET Post
    BY DEF TypeInv, DataOK, LocalOK
  <2> QED BY <1>2, <2>1 DEF PublishSnapshot
<1>3. ASSUME NEW w \in Worker, Poll(w) \/ Handle(w) \/ Raise(w) \/ Crash(w) \/ Exit(w) \/ Restart(w),
             ~PublishPost(w), ~PublishSnapshot(w)
      PROVE  UNCHANGED <<postPubs, snapPubs>>
  BY <1>3 DEF Handle, StartMessage, DlqBad, AckBad, Ingest, AckIngested, SetMetadata, AddDocId, CountCompleted,
          LockSnapshot, GetStatus, ReclaimFailed, CreateSnapshot, SetCompleted, SetFailed, MarkDone, RetryOrDlq, AckFailed,
          Poll, ClaimPending, ReadNew, Raise, Crash, Exit, Restart, Die, pubVars
<1>4. ASSUME UNCHANGED vars \/ DeadlinePasses \/ \E p \in Post : Crawl(p) PROVE UNCHANGED <<postPubs, snapPubs>>
  BY <1>4 DEF vars, DeadlinePasses, Crawl, pubVars
<1> QED BY <1>1, <1>2, <1>3, <1>4 DEF Next

(* One step publishes one message at most. *)
LEMMA OneSent ==
  ASSUME TypeInv, [Next]_vars, NEW q \in Sent' \ Sent, NEW r \in Sent' \ Sent
  PROVE  q = r
<1>t. /\ postPubs \in [Post -> Nat] /\ snapPubs \in Seq(SUBSET Post)
  BY DEF TypeInv, DataOK
<1>1. \/ UNCHANGED <<postPubs, snapPubs>>
      \/ \E p \in Post : postPubs' = [postPubs EXCEPT ![p] = @ + 1] /\ snapPubs' = snapPubs
      \/ \E x \in SUBSET Post : snapPubs' = Append(snapPubs, x) /\ postPubs' = postPubs
  BY PublishedStep
<1>2. CASE UNCHANGED <<postPubs, snapPubs>>
  BY <1>2 DEF Sent
<1>3. ASSUME NEW p \in Post, postPubs' = [postPubs EXCEPT ![p] = @ + 1], snapPubs' = snapPubs,
             NEW m \in Sent' \ Sent
      PROVE  m = Message(p, postPubs[p] + 1)
  <2>1. PICK o \in Post : m \in {Message(o, n) : n \in 1 .. postPubs'[o]}
    BY <1>3 DEF Sent
  <2>2. PICK n \in 1 .. postPubs'[o] : m = Message(o, n)
    BY <2>1
  <2>3. n \notin 1 .. postPubs[o]
    BY <1>3, <2>2 DEF Sent
  <2>4. o = p /\ n = postPubs[p] + 1
    BY <1>t, <1>3, <2>2, <2>3
  <2> QED BY <2>2, <2>4
<1>4. ASSUME NEW x \in SUBSET Post, snapPubs' = Append(snapPubs, x), postPubs' = postPubs, NEW m \in Sent' \ Sent
      PROVE  m = Message(Batch, Len(snapPubs) + 1)
  <2>1. m \in {Message(Batch, n) : n \in 1 .. Len(snapPubs')}
    BY <1>4 DEF Sent
  <2>2. PICK n \in 1 .. Len(snapPubs') : m = Message(Batch, n)
    BY <2>1
  <2>3. n \notin 1 .. Len(snapPubs)
    BY <1>4, <2>2 DEF Sent
  <2>4. n = Len(snapPubs) + 1
    BY <1>t, <1>4, <2>2, <2>3
  <2> QED BY <2>2, <2>4
<1> QED BY <1>1, <1>2, <1>3, <1>4

(* The handlers of the analysis worker ask for nothing. *)
LEMMA OnlyPublishAsks ==
  ASSUME NEW s, NEW p,
         Analysis!Receive(s) \/ Analysis!Handle(s) \/ Analysis!Raise(s) \/ Analysis!Crash(p) \/ Analysis!Disconnect(p)
  PROVE  asked' = asked
BY DEF Analysis!Receive, Analysis!Handle, Analysis!Raise, Analysis!Crash, Analysis!Disconnect, Analysis!Redeliver,
       Analysis!Resolve, Analysis!Analyze, Analysis!Commit, Analysis!Rollback, Analysis!Ack, Analysis!Announce,
       Analysis!Republish, Analysis!AckCopy, Analysis!Drop, Analysis!Reject, Analysis!AnnounceFailed, Analysis!DeadLetter

(* What was sent was put on the queue. *)
LEMMA SentAsked == PipelineSpec => [](Sent \subseteq asked)
<1> DEFINE AllAsked == Sent \subseteq asked
<1>1. PipelineInit => AllAsked
  <2>1. ASSUME PipelineInit PROVE Sent = {}
    <3>1. snapPubs = <<>> /\ postPubs = [p \in Post |-> 0]
      BY <2>1 DEF PipelineInit, Init
    <3>2. 1 .. Len(snapPubs) = {} /\ \A p \in Post : 1 .. postPubs[p] = {}
      BY <3>1
    <3> QED BY <3>2 DEF Sent
  <2> QED BY <2>1
<1>2. TypeInv /\ AllAsked /\ [PipelineNext]_pipelineVars => AllAsked'
  <2> SUFFICES ASSUME TypeInv, Sent \subseteq asked, [PipelineNext]_pipelineVars PROVE Sent' \subseteq asked'
    OBVIOUS
  <2>1. ASSUME NEW q, Analysis!Publish(q), [Next]_vars, q \in Sent' \ Sent PROVE Sent' \subseteq asked'
    <3>1. asked' = asked \cup {q}
      BY <2>1 DEF Analysis!Publish
    <3>2. \A r \in Sent' \ Sent : r = q
      BY <2>1, OneSent
    <3> QED BY <3>1, <3>2
  <2>2. ASSUME Transmit, [Next]_vars PROVE Sent' \subseteq asked'
    <3>1. CASE Sent' = Sent
      BY <2>2, <3>1 DEF Transmit, analysisVars
    <3>2. CASE Sent' # Sent
      BY <2>1, <2>2, <3>2 DEF Transmit
    <3> QED BY <3>1, <3>2
  <2>3. ASSUME UNCHANGED vars, asked \subseteq asked' PROVE Sent' \subseteq asked'
    BY <2>3 DEF vars, pubVars, Sent
  <2>4. CASE Crawls \/ Deadline \/ \E w \in Worker : Polls(w) \/ Handles(w) \/ Revives(w) \/ Suffers(w)
    <3>1. Transmit
      BY <2>4 DEF Crawls, Deadline, Polls, Handles, Revives, Suffers, IngestSide
    <3> QED BY <2>2, <3>1, IngestStep
  <2>5. CASE UNCHANGED pipelineVars
    BY <2>3, <2>5 DEF pipelineVars, analysisVars
  <2>6. CASE \E r \in Spring : Asks(r)
    BY <2>3, <2>6 DEF Asks, AnalysisSide, Analysis!Publish
  <2>7. CASE Receives \/ (\E s \in Analysis!Slot : Analyses(s)) \/ (\E p \in Process : Loses(p))
    <3>1. UNCHANGED vars /\ asked' = asked
      BY <2>7, OnlyPublishAsks DEF Receives, Analyses, Loses, AnalysisSide
    <3> QED BY <2>3, <3>1
  <2> QED BY <2>4, <2>5, <2>6, <2>7 DEF PipelineNext
<1> HIDE DEF AllAsked
<1>3. PipelineSpec => []AllAsked
  BY <1>1, <1>2, IngestInvariant, PTL DEF PipelineSpec
<1> QED BY <1>3, PTL DEF AllAsked

(* From the crawl stream to the answer nothing is lost: what an ingest worker publishes is analysed or *)
(* dead-lettered, or still on the queue or with a handler, whatever crashes or raises; and before that *)
(* it is the ingest workers' (ingest_worker.py:72-392, analysis_worker.py:84-233).                     *)
THEOREM WayIsKept == PipelineSpec => []WayKept
<1>1. Sent \subseteq asked /\ Analysis!NoRequestLost => \A r \in Sent : Accounted(r)
  BY DEF Analysis!NoRequestLost, Accounted
<1>2. (\A r \in Sent : Accounted(r)) /\ TypeInv /\ NoPostLost /\ BatchNotForgotten => WayKept
  <2> SUFFICES ASSUME \A r \in Sent : Accounted(r), TypeInv, NoPostLost, BatchNotForgotten PROVE WayKept
    OBVIOUS
  <2>1. ASSUME NEW p \in Post, postPubs[p] > 0 PROVE \E r \in Sent : r[1] = p /\ Accounted(r)
    <3>1. 1 \in 1 .. postPubs[p]
      BY <2>1 DEF TypeInv, DataOK
    <3>2. Message(p, 1) \in Sent
      BY <3>1 DEF Sent
    <3> QED BY <3>2 DEF Message
  <2>2. ASSUME snapPubs # <<>> PROVE \E r \in Sent : r[1] = Batch /\ Accounted(r)
    <3>1. 1 \in 1 .. Len(snapPubs)
      BY <2>2 DEF TypeInv, DataOK
    <3>2. Message(Batch, 1) \in Sent
      BY <3>1 DEF Sent
    <3> QED BY <3>2 DEF Message
  <2>3. ASSUME crashes + redisFaults = 0, NEW i \in 1 .. Len(stream), Kind[stream[i].post] = "post"
        PROVE  \/ \E r \in Sent : r[1] = stream[i].post /\ Accounted(r)
               \/ InDlq(stream[i].post) \/ Outstanding(stream[i].post) \/ InHand(stream[i].post)
    <3>1. i \in DOMAIN stream /\ stream[i].post \in Post
      <4>1. stream \in Seq(Fields)
        BY DEF TypeInv, QueueTypeOK
      <4>2. i \in DOMAIN stream /\ stream[i] \in Fields
        BY <4>1
      <4> QED BY <4>2 DEF Fields
    <3> QED BY <2>1, <2>3, <3>1 DEF NoPostLost, PassedOn
  <2> QED BY <2>2, <2>3 DEF WayKept, BatchNotForgotten
<1> QED BY <1>1, <1>2, ImplementsIngest, TypeInvariant, PostsNotLost, BatchesNotForgotten, SentAsked,
           AnalysisKeptInPipeline, PTL
-----------------------------------------------------------------------------
(* The pipeline implements DocumentLife *)

rows == <<docs, snapshot>>
ingestLife == <<stream, dlq, rows, pubVars>>
analysisLife == <<jobs, deadLetters, announced>>

(* The entry a worker handles is in the stream. *)
LEMMA EntryCrawled ==
  ASSUME TypeInv, NEW w \in Worker, pc[w] \in CanRaise
  PROVE  \E i \in 1 .. Len(stream) : Entry(w) = stream[i]
<1>1. cur[w] \in 0 .. lastId /\ cur[w] # 0 /\ lastId \in 0 .. Len(stream) /\ Len(stream) \in Nat
  BY DEF TypeInv, LocalOK, QueueTypeOK
<1>2. cur[w] \in 1 .. Len(stream)
  BY <1>1
<1> QED BY <1>2 DEF Entry

(* What a step of the ingest side changes of what is seen from outside: one thing at most. *)
LEMMA IngestChanges ==
  ASSUME TypeInv, [Next]_vars
  PROVE  \/ UNCHANGED ingestLife
         \/ \E f \in Fields : stream' = Append(stream, f) /\ UNCHANGED <<dlq, rows, pubVars>>
         \/ \E i \in 1 .. Len(stream) : dlq' = Append(dlq, stream[i]) /\ UNCHANGED <<stream, rows, pubVars>>
         \/ \E i \in 1 .. Len(stream) :
              docs' = docs \cup {stream[i].post} /\ UNCHANGED <<stream, dlq, snapshot, pubVars>>
         \/ snapshot' = SnapshotRow(docIds) /\ UNCHANGED <<stream, dlq, docs, pubVars>>
         \/ /\ UNCHANGED <<stream, dlq, rows>>
            /\ \/ \E p \in Post : postPubs' = [postPubs EXCEPT ![p] = @ + 1] /\ snapPubs' = snapPubs
               \/ \E x \in SUBSET Post : snapPubs' = Append(snapPubs, x) /\ postPubs' = postPubs
<1> USE DEF ingestLife, rows, pubVars
<1>1. ASSUME NEW p \in Post, Crawl(p)
      PROVE  \E f \in Fields : stream' = Append(stream, f) /\ UNCHANGED <<dlq, rows, pubVars>>
  <2>1. [post |-> p, retry |-> 0] \in Fields
    BY DEF Fields
  <2> QED BY <1>1, <2>1 DEF Crawl, Requeue, dbVars
<1>2. ASSUME NEW w \in Worker, DlqBad(w)
      PROVE  \E i \in 1 .. Len(stream) : dlq' = Append(dlq, stream[i]) /\ UNCHANGED <<stream, rows, pubVars>>
  <2>1. PICK i \in 1 .. Len(stream) : Entry(w) = stream[i]
    BY <1>2, EntryCrawled DEF DlqBad, CanRaise, Steps
  <2> QED BY <1>2, <2>1 DEF DlqBad, SendToDlq, dbVars
<1>3. ASSUME NEW w \in Worker, RetryOrDlq(w)
      PROVE  \/ \E f \in Fields : stream' = Append(stream, f) /\ UNCHANGED <<dlq, rows, pubVars>>
             \/ \E i \in 1 .. Len(stream) : dlq' = Append(dlq, stream[i]) /\ UNCHANGED <<stream, rows, pubVars>>
  <2>1. PICK i \in 1 .. Len(stream) : Entry(w) = stream[i]
    BY <1>3, EntryCrawled DEF RetryOrDlq, CanRaise, Steps
  <2>2. Entry(w) \in Fields
    BY <1>3, EntryType DEF RetryOrDlq, CanRaise, Steps
  <2>3. [Entry(w) EXCEPT !.retry = @ + 1] \in Fields
    BY <2>2 DEF Fields
  <2>4. UNCHANGED <<rows, pubVars>>
    BY <1>3 DEF RetryOrDlq, dbVars
  <2>5. CASE Requeue([Entry(w) EXCEPT !.retry = @ + 1])
    BY <2>3, <2>4, <2>5 DEF Requeue
  <2>6. CASE SendToDlq(Entry(w))
    BY <2>1, <2>4, <2>6 DEF SendToDlq
  <2> QED BY <1>3, <2>5, <2>6 DEF RetryOrDlq
<1>4. ASSUME NEW w \in Worker, Ingest(w)
      PROVE  \E i \in 1 .. Len(stream) :
               docs' = docs \cup {stream[i].post} /\ UNCHANGED <<stream, dlq, snapshot, pubVars>>
  <2>1. PICK i \in 1 .. Len(stream) : Entry(w) = stream[i]
    BY <1>4, EntryCrawled DEF Ingest, CanRaise, Steps
  <2> QED BY <1>4, <2>1 DEF Ingest, queueVars
<1>5. ASSUME NEW w \in Worker, CreateSnapshot(w)
      PROVE  snapshot' = SnapshotRow(docIds) /\ UNCHANGED <<stream, dlq, docs, pubVars>>
  BY <1>5 DEF CreateSnapshot, queueVars
<1>6. ASSUME NEW w \in Worker, PublishPost(w) \/ PublishSnapshot(w)
      PROVE  UNCHANGED <<stream, dlq, rows>>
  BY <1>6 DEF PublishPost, PublishSnapshot, queueVars, dbVars
<1>7. ASSUME NEW w \in Worker,
             StartMessage(w) \/ AckBad(w) \/ AckIngested(w) \/ SetMetadata(w) \/ AddDocId(w) \/ CountCompleted(w)
             \/ LockSnapshot(w) \/ GetStatus(w) \/ ReclaimFailed(w) \/ SetCompleted(w) \/ SetFailed(w)
             \/ MarkDone(w) \/ AckFailed(w)
      PROVE  UNCHANGED ingestLife
  BY <1>7 DEF StartMessage, AckBad, AckIngested, SetMetadata, AddDocId, CountCompleted, LockSnapshot, GetStatus,
          ReclaimFailed, SetCompleted, SetFailed, MarkDone, AckFailed, Ack, queueVars, dbVars
<1>8. ASSUME NEW w \in Worker, Poll(w) \/ Raise(w) \/ Crash(w) \/ Exit(w) \/ Restart(w)
      PROVE  UNCHANGED ingestLife
  BY <1>8 DEF Poll, ClaimPending, ReadNew, Read, Raise, Crash, Exit, Restart, Die, queueVars, dbVars
<1>9. ASSUME UNCHANGED vars \/ DeadlinePasses PROVE UNCHANGED ingestLife
  BY <1>9 DEF vars, DeadlinePasses, queueVars, dbVars
<1>10. ASSUME NEW w \in Worker, Handle(w), ~PublishPost(w), ~PublishSnapshot(w)
       PROVE  \/ UNCHANGED ingestLife
              \/ DlqBad(w) \/ RetryOrDlq(w) \/ Ingest(w) \/ CreateSnapshot(w)
  BY <1>7, <1>10 DEF Handle
<1> QED BY <1>1, <1>2, <1>3, <1>4, <1>5, <1>6, <1>8, <1>9, <1>10, PublishedStep DEF Next
(* An entry more adds its post. *)
LEMMA PostsAppended ==
  ASSUME NEW entries \in Seq(Fields), NEW f \in Fields
  PROVE  Posts(Append(entries, f)) = Posts(entries) \cup {f.post}
<1>1. /\ Len(Append(entries, f)) = Len(entries) + 1 /\ Append(entries, f)[Len(entries) + 1] = f
      /\ \A i \in 1 .. Len(entries) : Append(entries, f)[i] = entries[i]
      /\ DOMAIN Append(entries, f) = 1 .. Len(entries) + 1 /\ DOMAIN entries = 1 .. Len(entries) /\ Len(entries) \in Nat
  OBVIOUS
<1> QED BY <1>1 DEF Posts

(* A row of a document that a request is about. *)
LEMMA OfStored ==
  ASSUME NEW r, Stored(r)
  PROVE  r[1] \in InTable
BY DEF Stored, InTable

(* A step of the ingest side takes one document one station further, or none. *)
LEMMA IngestLives ==
  ASSUME TypeInv, StoredFirst', [Next]_vars, UNCHANGED analysisLife, Inquired' = Inquired
  PROVE  [Life!Next]_(Life!lifeVars)
<1>t. /\ stream \in Seq(Fields) /\ dlq \in Seq(Fields) /\ docs \subseteq Post /\ snapshot \subseteq Post /\ docIds \subseteq Post
      /\ postPubs \in [Post -> Nat] /\ snapPubs \in Seq(SUBSET Post)
  BY DEF TypeInv, DataOK, QueueTypeOK
<1>e. \A i \in 1 .. Len(stream) : stream[i] \in Fields /\ stream[i].post \in Post /\ stream[i].post \in Posts(stream)
  <2> SUFFICES ASSUME NEW i \in 1 .. Len(stream)
               PROVE  stream[i] \in Fields /\ stream[i].post \in Post /\ stream[i].post \in Posts(stream)
    OBVIOUS
  <2>1. i \in DOMAIN stream /\ stream[i] \in Fields
    BY <1>t
  <2> QED BY <2>1 DEF Fields, Posts
<1>b. Batch \notin Post
  BY PipelineAssumption
<1>a. UNCHANGED <<Analysed, Rejected, Succeeded, Failed>>
  BY DEF analysisLife, Analysed, Rejected, Succeeded, Failed
<1>s. (UNCHANGED rows => InTable' = InTable) /\ (UNCHANGED pubVars => Queued' = Queued)
  BY DEF rows, pubVars, InTable, Queued
<1>1. CASE UNCHANGED ingestLife
  <2>1. Posts(stream)' = Posts(stream) /\ Posts(dlq)' = Posts(dlq)
    BY <1>1 DEF ingestLife, Posts
  <2> QED BY <1>1, <1>a, <1>s, <2>1 DEF ingestLife, Life!lifeVars
<1>2. ASSUME NEW f \in Fields, stream' = Append(stream, f), UNCHANGED <<dlq, rows, pubVars>>
      PROVE  Life!Next
  <2>1. Posts(stream)' = Posts(stream) \cup {f.post} /\ Posts(dlq)' = Posts(dlq)
    <3>1. Posts(Append(stream, f)) = Posts(stream) \cup {f.post}
      BY <1>t, PostsAppended
    <3> QED BY <1>2, <3>1 DEF Posts
  <2>2. f.post \in Post
    BY DEF Fields
  <2>3. Life!Crawl(f.post)
    BY <1>2, <1>a, <1>s, <2>1, <2>2 DEF Life!Crawl
  <2> QED BY <2>2, <2>3 DEF Life!Next, Life!Document
<1>3. ASSUME NEW i \in 1 .. Len(stream), dlq' = Append(dlq, stream[i]), UNCHANGED <<stream, rows, pubVars>>
      PROVE  Life!Next
  <2>1. Posts(dlq)' = Posts(dlq) \cup {stream[i].post} /\ Posts(stream)' = Posts(stream)
    <3>1. Posts(Append(dlq, stream[i])) = Posts(dlq) \cup {stream[i].post}
      BY <1>t, <1>e, PostsAppended
    <3> QED BY <1>3, <3>1 DEF Posts
  <2>2. Life!Shelve(stream[i].post)
    BY <1>3, <1>a, <1>e, <1>s, <2>1 DEF Life!Shelve
  <2> QED BY <1>e, <2>2 DEF Life!Next, Life!Document
<1>4. ASSUME NEW i \in 1 .. Len(stream), docs' = docs \cup {stream[i].post}, UNCHANGED <<stream, dlq, snapshot, pubVars>>
      PROVE  Life!Next
  <2>1. Posts(dlq)' = Posts(dlq) /\ Posts(stream)' = Posts(stream)
    BY <1>4 DEF Posts
  <2>2. InTable' = InTable \cup {stream[i].post}
    BY <1>4 DEF InTable
  <2>3. Life!Store(stream[i].post)
    BY <1>4, <1>a, <1>e, <1>s, <2>1, <2>2 DEF Life!Store
  <2> QED BY <1>e, <2>3 DEF Life!Next, Life!Document
<1>5. ASSUME snapshot' = SnapshotRow(docIds), UNCHANGED <<stream, dlq, docs, pubVars>>
      PROVE  [Life!Next]_(Life!lifeVars)
  <2>1. Posts(dlq)' = Posts(dlq) /\ Posts(stream)' = Posts(stream)
    BY <1>5 DEF Posts
  <2>2. CASE snapshot # {} \/ docIds \cap docs = {}
    <3>1. snapshot' = snapshot
      BY <1>5, <2>2 DEF SnapshotRow
    <3> QED BY <1>5, <1>a, <1>s, <2>1, <3>1 DEF Life!lifeVars, rows
  <2>3. CASE snapshot = {} /\ docIds \cap docs # {}
    <3>1. InTable = docs /\ InTable' = InTable \cup {Batch}
      BY <1>5, <2>3 DEF InTable, SnapshotRow
    <3>2. InTable \cap Post # {}
      BY <1>t, <2>3, <3>1
    <3>3. Life!Store(Batch)
      BY <1>5, <1>a, <1>s, <2>1, <3>1, <3>2 DEF Life!Store
    <3> QED BY <3>3 DEF Life!Next, Life!Document
  <2> QED BY <2>2, <2>3
<1>6. ASSUME NEW p \in Post, postPubs' = [postPubs EXCEPT ![p] = @ + 1], snapPubs' = snapPubs,
             UNCHANGED <<stream, dlq, rows>>
      PROVE  Life!Next
  <2>1. Posts(dlq)' = Posts(dlq) /\ Posts(stream)' = Posts(stream)
    BY <1>6 DEF Posts
  <2>2. Queued' = Queued \cup {p}
    <3>1. \A q \in Post : postPubs'[q] > 0 <=> postPubs[q] > 0 \/ q = p
      BY <1>t, <1>6
    <3> QED BY <1>6, <3>1 DEF Queued
  <2>3. postPubs'[p] > 0
    BY <1>t, <1>6
  <2>4. p \in docs
    BY <1>6, <2>3 DEF StoredFirst, rows
  <2>5. Life!Queue(p)
    BY <1>6, <1>a, <1>s, <2>1, <2>2, <2>4 DEF Life!Queue, InTable
  <2> QED BY <2>5 DEF Life!Next, Life!Document
<1>7. ASSUME NEW x \in SUBSET Post, snapPubs' = Append(snapPubs, x), postPubs' = postPubs, UNCHANGED <<stream, dlq, rows>>
      PROVE  Life!Next
  <2>1. Posts(dlq)' = Posts(dlq) /\ Posts(stream)' = Posts(stream)
    BY <1>7 DEF Posts
  <2>2. snapPubs' # <<>>
    <3>1. Len(snapPubs') = Len(snapPubs) + 1 /\ Len(snapPubs) \in Nat
      BY <1>t, <1>7
    <3> QED BY <3>1
  <2>3. Queued' = Queued \cup {Batch}
    BY <1>7, <2>2 DEF Queued
  <2>4. snapshot # {}
    BY <1>7, <2>2 DEF StoredFirst, rows
  <2>5. Life!Queue(Batch)
    BY <1>7, <1>a, <1>s, <2>1, <2>3, <2>4 DEF Life!Queue, InTable
  <2> QED BY <2>5 DEF Life!Next, Life!Document
<1> QED BY <1>1, <1>2, <1>3, <1>4, <1>5, <1>6, <1>7, IngestChanges

(* Who is asked about by Spring, after a message of an ingest worker and after one of Spring. *)
LEMMA InquiredStep ==
  /\ \A r \in Sent' : Analysis!Publish(r) => Inquired' = Inquired
  /\ \A r \in Spring : Analysis!Publish(r) => Inquired' = Inquired \cup {r[1]}
<1>1. ASSUME NEW d, NEW n \in Nat \ {0}, Analysis!Publish(Message(d, n)) PROVE Inquired' = Inquired
  BY <1>1 DEF Analysis!Publish, Inquired, Message
<1>2. ASSUME NEW r \in Spring, Analysis!Publish(r) PROVE Inquired' = Inquired \cup {r[1]}
  BY <1>2 DEF Analysis!Publish, Inquired, Spring, Message
<1>3. ASSUME NEW r \in Sent' PROVE \E d : \E n \in Nat \ {0} : r = Message(d, n)
  BY DEF Sent
<1> QED BY <1>1, <1>2, <1>3
(* What the handlers of the analysis worker change of what is seen from outside. *)
LEMMA AnalysisChanges ==
  ASSUME NEW s \in Handler, Analysis!Receive(s) \/ Analysis!Handle(s) \/ Analysis!Raise(s)
  PROVE  \/ UNCHANGED analysisLife
         \/ /\ pcA[s] = "commit" /\ UNCHANGED <<deadLetters, announced>>
            /\ jobs' = [jobs EXCEPT ![<<msg[s].req, row[s]>>] = @ + 1]
         \/ /\ pcA[s] # "idle" /\ UNCHANGED <<jobs, announced>>
            /\ deadLetters' = [deadLetters EXCEPT ![msg[s].req] = @ + 1]
         \/ /\ pcA[s] # "idle" /\ UNCHANGED <<jobs, deadLetters>>
            /\ \E st \in {"completed", "failed"} : announced' = [announced EXCEPT ![<<msg[s].req, st>>] = @ + 1]
<1> USE DEF analysisLife, Analysis!brokerVars, Analysis!resultVars
<1>1. CASE Analysis!Commit(s)
  BY <1>1 DEF Analysis!Commit
<1>2. CASE Analysis!Drop(s) \/ Analysis!Reject(s)
  BY <1>2 DEF Analysis!Drop, Analysis!Reject, Analysis!DeadLetter
<1>3. CASE Analysis!Announce(s) \/ Analysis!AnnounceFailed(s)
  BY <1>3 DEF Analysis!Announce, Analysis!AnnounceFailed
<1>4. CASE \/ Analysis!Resolve(s) \/ Analysis!Analyze(s) \/ Analysis!Rollback(s) \/ Analysis!Ack(s)
           \/ Analysis!Republish(s) \/ Analysis!AckCopy(s) \/ Analysis!Receive(s) \/ Analysis!Raise(s)
  BY <1>4 DEF Analysis!Resolve, Analysis!Analyze, Analysis!Rollback, Analysis!Ack, Analysis!Republish, Analysis!AckCopy,
          Analysis!Receive, Analysis!Raise
<1> QED BY <1>1, <1>2, <1>3, <1>4 DEF Analysis!Handle

(* What is counted of the requests, and that an event has what it announces behind it. *)
Counts ==
    /\ jobs \in [Request \X Analysis!RowStatus -> Nat]
    /\ announced \in [Request \X Analysis!RowStatus -> Nat]
    /\ deadLetters \in [Request -> Nat]
    /\ row \in [Handler -> Analysis!RowStatus \cup {"none"}]
    /\ Analysis!EventsBacked

LEMMA CountsInvariant == PipelineSpec => []Counts
<1>1. PipelineSpec => Parts!Spec
  BY ImplementsAnalysis, SameSpec
<1>2. Parts!Spec => []Parts!TypeOK
  BY PartsConstants, Parts!TypeCorrect
<1>3. Parts!TypeOK /\ Analysis!EventsBacked => Counts
  BY DEF Parts!TypeOK, Counts, Handler, Analysis!RowStatus, Parts!RowStatus, Analysis!Slot, Parts!Slot
<1> QED BY <1>1, <1>2, <1>3, AnalysisKeptInPipeline, PTL

(* What a handler holds was asked for by an ingest worker or by Spring. *)
LEMMA HeldIsRequested ==
  ASSUME TypeInv, Sourced, NEW s \in Handler, pcA[s] # "idle"
  PROVE  /\ msg[s].req \in Request
         /\ msg[s].req[1] \in Queued \cup Inquired
         /\ msg[s].req[1] \in Life!Document
<1>1. msg[s] \in Copies /\ msg[s].req \in asked /\ msg[s].req \in Sent \cup Spring
  BY DEF Sourced
<1>2. msg[s].req \in Request
  BY <1>1 DEF Copies, Analysis!Message
<1>3. CASE msg[s].req \in Spring
  <2>1. PICK d \in Asked : msg[s].req = Message(d, 0)
    BY <1>3 DEF Spring
  <2>2. msg[s].req[1] = d /\ d \in Inquired
    BY <1>1, <2>1 DEF Message, Inquired
  <2> QED BY <1>2, <2>2, PipelineAssumption DEF Life!Document
<1>4. CASE \E p \in Post : msg[s].req \in {Message(p, n) : n \in 1 .. postPubs[p]}
  <2>1. PICK p \in Post : msg[s].req \in {Message(p, n) : n \in 1 .. postPubs[p]}
    BY <1>4
  <2>2. PICK n \in 1 .. postPubs[p] : msg[s].req = Message(p, n)
    BY <2>1
  <2>3. msg[s].req[1] = p /\ postPubs[p] > 0
    BY <2>2 DEF Message, TypeInv, DataOK
  <2> QED BY <1>2, <2>3 DEF Queued, Life!Document
<1>5. CASE msg[s].req \in {Message(Batch, n) : n \in 1 .. Len(snapPubs)}
  <2>1. PICK n \in 1 .. Len(snapPubs) : msg[s].req = Message(Batch, n)
    BY <1>5
  <2>2. msg[s].req[1] = Batch /\ snapPubs # <<>>
    BY <2>1 DEF Message
  <2> QED BY <1>2, <2>2 DEF Queued, Life!Document
<1> QED BY <1>1, <1>3, <1>4, <1>5 DEF Sent

(* The document of a request is one more, or is already, among those of which something is counted. *)
LEMMA DocumentsMore ==
  ASSUME NEW before, NEW after, NEW one, after = before \cup {one}
  PROVE  Documents(after) = Documents(before) \cup {one[1]}
<1>1. ASSUME NEW d PROVE d \in Documents(after) <=> d \in Documents(before) \/ d = one[1]
  BY DEF Documents
<1> QED BY <1>1

(* Counting on for one request and status. *)
LEMMA CountedOn ==
  ASSUME NEW f \in [Request \X Analysis!RowStatus -> Nat], NEW one \in Request, NEW st \in Analysis!RowStatus,
         NEW g, g = [f EXCEPT ![<<one, st>>] = @ + 1]
  PROVE  /\ \A q \in Request : g[<<q, st>>] > 0 <=> f[<<q, st>>] > 0 \/ q = one
         /\ \A q \in Request : \A u \in Analysis!RowStatus : u # st => g[<<q, u>>] = f[<<q, u>>]
<1>1. <<one, st>> \in Request \X Analysis!RowStatus
  OBVIOUS
<1>2. g[<<one, st>>] = f[<<one, st>>] + 1 /\ f[<<one, st>>] \in Nat
  BY <1>1
<1>3. ASSUME NEW x \in Request \X Analysis!RowStatus, x # <<one, st>> PROVE g[x] = f[x]
  BY <1>3
<1>4. ASSUME NEW q \in Request, NEW u \in Analysis!RowStatus, q # one \/ u # st PROVE g[<<q, u>>] = f[<<q, u>>]
  <2>1. <<q, u>> \in Request \X Analysis!RowStatus /\ <<q, u>> # <<one, st>>
    BY <1>4
  <2> QED BY <1>3, <2>1
<1>5. g[<<one, st>>] > 0
  BY <1>2
<1> QED BY <1>4, <1>5

(* The counts of another status are no different. *)
LEMMA OtherCounts ==
  ASSUME NEW f \in [Request \X Analysis!RowStatus -> Nat], NEW one, NEW st, NEW u \in Analysis!RowStatus, u # st,
         NEW g, g = [f EXCEPT ![<<one, st>>] = @ + 1]
  PROVE  \A q \in Request : g[<<q, u>>] = f[<<q, u>>]
<1> SUFFICES ASSUME NEW q \in Request PROVE g[<<q, u>>] = f[<<q, u>>]
  OBVIOUS
<1>1. <<q, u>> \in Request \X Analysis!RowStatus /\ <<q, u>> # <<one, st>>
  OBVIOUS
<1> QED BY <1>1

(* A step of a handler takes the document it is about one station further, or none. *)
LEMMA AnalysisLives ==
  ASSUME TypeInv, Sourced, FoundWhenAnalysed, Counts, Counts', NEW s \in Handler, UNCHANGED vars,
         Analysis!Receive(s) \/ Analysis!Handle(s) \/ Analysis!Raise(s)
  PROVE  [Life!Next]_(Life!lifeVars)
<1> DEFINE r == msg[s].req
<1>v. UNCHANGED <<stream, dlq, docs, snapshot, postPubs, snapPubs, asked>>
  BY OnlyPublishAsks DEF vars, queueVars, dbVars, pubVars
<1>s. UNCHANGED <<Posts(stream), Posts(dlq), InTable, Queued, Inquired>>
  BY <1>v DEF Posts, InTable, Queued, Inquired
<1>a. UNCHANGED jobs => Analysed' = Analysed
  BY DEF Analysed
<1>d. UNCHANGED deadLetters => Rejected' = Rejected
  BY DEF Rejected
<1>e. UNCHANGED announced => Succeeded' = Succeeded /\ Failed' = Failed
  BY DEF Succeeded, Failed
<1>k. "completed" \in Analysis!RowStatus /\ "failed" \in Analysis!RowStatus /\ "completed" # "failed"
  BY DEF Analysis!RowStatus
<1>1. CASE UNCHANGED analysisLife
  BY <1>1, <1>s, <1>a, <1>d, <1>e DEF analysisLife, Life!lifeVars
<1>2. ASSUME pcA[s] = "commit", UNCHANGED <<deadLetters, announced>>, jobs' = [jobs EXCEPT ![<<r, row[s]>>] = @ + 1]
      PROVE  [Life!Next]_(Life!lifeVars)
  <2>0. r \in Request /\ r[1] \in Queued \cup Inquired /\ r[1] \in Life!Document
    BY <1>2, HeldIsRequested
  <2>1. r[1] # Missing
    <3>1. RequestKind[r] # "missing"
      BY <1>2 DEF Sourced
    <3>2. ASSUME r[1] = Missing PROVE r \in Spring
      BY <2>0, <3>2, PipelineAssumption DEF Request, Document
    <3> QED BY <2>0, <3>1, <3>2 DEF RequestKind
  <2>2. r[1] \in InTable
    BY <1>2, <2>1, OfStored DEF FoundWhenAnalysed, Handler
  <2>3. CASE row[s] = "completed"
    <3>1. \A q \in Request : jobs'[<<q, "completed">>] > 0 <=> jobs[<<q, "completed">>] > 0 \/ q = r
      BY <1>2, <1>k, <2>0, <2>3, CountedOn DEF Counts
    <3>2. {q \in Request : jobs'[<<q, "completed">>] > 0} = {q \in Request : jobs[<<q, "completed">>] > 0} \cup {r}
      BY <2>0, <3>1
    <3>3. Analysed' = Analysed \cup {r[1]}
      BY <2>0, <3>2, DocumentsMore DEF Analysed
    <3>4. Life!Analyse(r[1])
      BY <1>2, <1>s, <1>d, <1>e, <2>0, <2>2, <3>3 DEF Life!Analyse, Life!Requested
    <3> QED BY <2>0, <3>4 DEF Life!Next
  <2>4. CASE row[s] # "completed"
    <3>1. \A q \in Request : jobs'[<<q, "completed">>] = jobs[<<q, "completed">>]
      BY <1>2, <1>k, <2>4, OtherCounts DEF Counts
    <3>2. Analysed' = Analysed
      BY <3>1 DEF Analysed
    <3> QED BY <1>2, <1>s, <1>d, <1>e, <3>2 DEF Life!lifeVars
  <2> QED BY <2>3, <2>4
<1>3. ASSUME pcA[s] # "idle", UNCHANGED <<jobs, announced>>, deadLetters' = [deadLetters EXCEPT ![r] = @ + 1]
      PROVE  Life!Next
  <2>0. r \in Request /\ r[1] \in Queued \cup Inquired /\ r[1] \in Life!Document
    BY <1>3, HeldIsRequested
  <2>1. \A q \in Request : deadLetters'[q] > 0 <=> deadLetters[q] > 0 \/ q = r
    BY <1>3, <2>0 DEF Counts
  <2>2. {q \in Request : deadLetters'[q] > 0} = {q \in Request : deadLetters[q] > 0} \cup {r}
    BY <2>0, <2>1
  <2>3. Rejected' = Rejected \cup {r[1]}
    BY <2>0, <2>2, DocumentsMore DEF Rejected
  <2>4. Life!Reject(r[1])
    BY <1>3, <1>s, <1>a, <1>e, <2>0, <2>3 DEF Life!Reject, Life!Requested
  <2> QED BY <2>0, <2>4 DEF Life!Next
<1>4. ASSUME pcA[s] # "idle", UNCHANGED <<jobs, deadLetters>>, announced' = [announced EXCEPT ![<<r, "completed">>] = @ + 1]
      PROVE  Life!Next
  <2>0. r \in Request /\ r[1] \in Life!Document
    BY <1>4, HeldIsRequested
  <2>1. /\ \A q \in Request : announced'[<<q, "completed">>] > 0 <=> announced[<<q, "completed">>] > 0 \/ q = r
        /\ \A q \in Request : announced'[<<q, "failed">>] = announced[<<q, "failed">>]
    BY <1>4, <1>k, <2>0, CountedOn DEF Counts
  <2>2. {q \in Request : announced'[<<q, "completed">>] > 0} = {q \in Request : announced[<<q, "completed">>] > 0} \cup {r}
    BY <2>0, <2>1
  <2>3. Succeeded' = Succeeded \cup {r[1]} /\ Failed' = Failed
    <3>1. Succeeded' = Succeeded \cup {r[1]}
      <4> DEFINE old == {q \in Request : announced[<<q, "completed">>] > 0}
                 new == {q \in Request : announced'[<<q, "completed">>] > 0}
      <4>1. new = old \cup {r}
        BY <2>2
      <4>2. Succeeded = Documents(old) /\ Succeeded' = Documents(new)
        BY DEF Succeeded
      <4> HIDE DEF old, new, r
      <4> QED BY <4>1, <4>2, DocumentsMore
    <3>2. Failed' = Failed
      BY <2>1 DEF Failed
    <3> QED BY <3>1, <3>2
  <2>4. jobs[<<r, "completed">>] > 0
    <3>1. announced'[<<r, "completed">>] <= jobs'[<<r, "completed">>]
      BY <2>0 DEF Counts, Analysis!EventsBacked
    <3>2. announced'[<<r, "completed">>] > 0 /\ announced'[<<r, "completed">>] \in Nat /\ jobs[<<r, "completed">>] \in Nat
      BY <1>k, <2>0, <2>1 DEF Counts
    <3> QED BY <1>4, <3>1, <3>2
  <2>5. r[1] \in Analysed
    BY <2>0, <2>4 DEF Analysed, Documents
  <2>6. Life!AnnounceSuccess(r[1])
    BY <1>4, <1>s, <1>a, <1>d, <2>3, <2>5 DEF Life!AnnounceSuccess
  <2> QED BY <2>0, <2>6 DEF Life!Next
<1>5. ASSUME pcA[s] # "idle", UNCHANGED <<jobs, deadLetters>>, announced' = [announced EXCEPT ![<<r, "failed">>] = @ + 1]
      PROVE  Life!Next
  <2>0. r \in Request /\ r[1] \in Life!Document
    BY <1>5, HeldIsRequested
  <2>1. /\ \A q \in Request : announced'[<<q, "failed">>] > 0 <=> announced[<<q, "failed">>] > 0 \/ q = r
        /\ \A q \in Request : announced'[<<q, "completed">>] = announced[<<q, "completed">>]
    BY <1>5, <1>k, <2>0, CountedOn DEF Counts
  <2>2. {q \in Request : announced'[<<q, "failed">>] > 0} = {q \in Request : announced[<<q, "failed">>] > 0} \cup {r}
    BY <2>0, <2>1
  <2>3. Failed' = Failed \cup {r[1]} /\ Succeeded' = Succeeded
    <3>1. Failed' = Failed \cup {r[1]}
      <4> DEFINE old == {q \in Request : announced[<<q, "failed">>] > 0}
                 new == {q \in Request : announced'[<<q, "failed">>] > 0}
      <4>1. new = old \cup {r}
        BY <2>2
      <4>2. Failed = Documents(old) /\ Failed' = Documents(new)
        BY DEF Failed
      <4> HIDE DEF old, new, r
      <4> QED BY <4>1, <4>2, DocumentsMore
    <3>2. Succeeded' = Succeeded
      BY <2>1 DEF Succeeded
    <3> QED BY <3>1, <3>2
  <2>4. deadLetters[r] > 0
    <3>1. announced'[<<r, "failed">>] <= deadLetters'[r]
      BY <2>0 DEF Counts, Analysis!EventsBacked
    <3>2. announced'[<<r, "failed">>] > 0 /\ announced'[<<r, "failed">>] \in Nat /\ deadLetters[r] \in Nat
      BY <1>k, <2>0, <2>1 DEF Counts
    <3> QED BY <1>5, <3>1, <3>2
  <2>5. r[1] \in Rejected
    BY <2>0, <2>4 DEF Rejected, Documents
  <2>6. Life!AnnounceFailure(r[1])
    BY <1>5, <1>s, <1>a, <1>d, <2>3, <2>5 DEF Life!AnnounceFailure
  <2> QED BY <2>0, <2>6 DEF Life!Next
<1> QED BY <1>1, <1>2, <1>3, <1>4, <1>5, AnalysisChanges

(* No document is spoken of before its time: what the two kinds of workers do together, through the   *)
(* stream, the tables, the queue and the events, with whatever crashes and errors, is DocumentLife    *)
(* (ingest_worker.py:128-165, :267-294; analysis_worker.py:84-163).                                   *)
THEOREM ImplementsDocumentLife == PipelineSpec => LifeSpec
<1>1. PipelineInit => Life!Init
  <2> SUFFICES ASSUME PipelineInit PROVE Life!Init
    OBVIOUS
  <2>1. /\ stream = <<>> /\ dlq = <<>> /\ docs = {} /\ snapshot = {} /\ snapPubs = <<>>
        /\ postPubs = [p \in Post |-> 0]
    BY DEF PipelineInit, Init, QueueInit
  <2>2. /\ asked = {} /\ deadLetters = [r \in Request |-> 0]
        /\ jobs = [x \in Request \X Analysis!RowStatus |-> 0] /\ announced = [x \in Request \X Analysis!RowStatus |-> 0]
    BY DEF PipelineInit, Analysis!Init
  <2>3. Posts(stream) = {} /\ Posts(dlq) = {} /\ InTable = {} /\ Queued = {} /\ Inquired = {}
    BY <2>1, <2>2 DEF Posts, InTable, Queued, Inquired
  <2>4. ASSUME NEW q \in Request, NEW st \in Analysis!RowStatus
        PROVE  deadLetters[q] = 0 /\ jobs[<<q, st>>] = 0 /\ announced[<<q, st>>] = 0
    <3>1. <<q, st>> \in Request \X Analysis!RowStatus
      OBVIOUS
    <3> QED BY <2>2, <3>1
  <2>5. Analysed = {} /\ Rejected = {} /\ Succeeded = {} /\ Failed = {}
    <3>1. "completed" \in Analysis!RowStatus /\ "failed" \in Analysis!RowStatus
      BY DEF Analysis!RowStatus
    <3>2. \A q \in Request : ~(deadLetters[q] > 0) /\ ~(jobs[<<q, "completed">>] > 0)
                             /\ ~(announced[<<q, "completed">>] > 0) /\ ~(announced[<<q, "failed">>] > 0)
      BY <2>4, <3>1
    <3>3. Documents({}) = {}
      BY DEF Documents
    <3>4. {r \in Request : jobs[<<r, "completed">>] > 0} = {} /\ {r \in Request : deadLetters[r] > 0} = {}
          /\ {r \in Request : announced[<<r, "completed">>] > 0} = {} /\ {r \in Request : announced[<<r, "failed">>] > 0} = {}
      BY <3>2
    <3> QED BY <3>3, <3>4 DEF Analysed, Rejected, Succeeded, Failed
  <2> QED BY <2>3, <2>5 DEF Life!Init
<1> DEFINE Inv == TypeInv /\ StoredFirst /\ Sourced /\ FoundWhenAnalysed /\ Counts
<1>2. Inv /\ Inv' /\ [PipelineNext]_pipelineVars => [Life!Next]_(Life!lifeVars)
  <2> SUFFICES ASSUME Inv, Inv', [PipelineNext]_pipelineVars PROVE [Life!Next]_(Life!lifeVars)
    OBVIOUS
  <2>1. CASE UNCHANGED analysisVars /\ [Next]_vars
    <3>1. UNCHANGED analysisLife /\ Inquired' = Inquired
      BY <2>1 DEF analysisVars, analysisLife, Inquired
    <3> QED BY <2>1, <3>1, IngestLives
  <2>2. ASSUME NEW r \in (Sent' \ Sent) \cap Request, Analysis!Publish(r) PROVE [Life!Next]_(Life!lifeVars)
    <3>1. UNCHANGED analysisLife
      BY <2>2 DEF Analysis!Publish, analysisLife, Analysis!resultVars
    <3>2. Inquired' = Inquired
      BY <2>2, InquiredStep
    <3> QED BY <3>1, <3>2, IngestStep, IngestLives
  <2>3. ASSUME NEW r \in Spring, UNCHANGED vars, Analysis!Publish(r) PROVE [Life!Next]_(Life!lifeVars)
    <3>1. UNCHANGED analysisLife
      BY <2>3 DEF Analysis!Publish, analysisLife, Analysis!resultVars
    <3>2. Inquired' = Inquired \cup {r[1]}
      BY <2>3, InquiredStep
    <3>3. UNCHANGED <<Posts(stream), Posts(dlq), InTable, Queued>>
      BY <2>3 DEF vars, queueVars, dbVars, pubVars, Posts, InTable, Queued
    <3>4. UNCHANGED <<Analysed, Rejected, Succeeded, Failed>>
      BY <3>1 DEF analysisLife, Analysed, Rejected, Succeeded, Failed
    <3>5. Life!Inquire(r[1])
      BY <3>2, <3>3, <3>4 DEF Life!Inquire
    <3>6. r[1] \in Life!Document
      BY PipelineAssumption DEF Spring, Message, Life!Document
    <3> QED BY <3>5, <3>6 DEF Life!Next
  <2>4. ASSUME NEW s \in Analysis!Slot, UNCHANGED vars, Analysis!Receive(s) \/ Analysis!Handle(s) \/ Analysis!Raise(s)
        PROVE  [Life!Next]_(Life!lifeVars)
    BY <2>4, AnalysisLives DEF Handler
  <2>5. ASSUME NEW p \in Process, UNCHANGED vars, Analysis!Crash(p) \/ Analysis!Disconnect(p)
        PROVE  [Life!Next]_(Life!lifeVars)
    <3>1. UNCHANGED <<stream, dlq, docs, snapshot, postPubs, snapPubs, asked, jobs, deadLetters, announced>>
      BY <2>5 DEF vars, queueVars, dbVars, pubVars, Analysis!Crash, Analysis!Disconnect, Analysis!Redeliver,
              Analysis!resultVars
    <3> QED BY <3>1 DEF Life!lifeVars, Posts, InTable, Queued, Inquired, Analysed, Rejected, Succeeded, Failed
  <2> QED BY <2>1, <2>2, <2>3, <2>4, <2>5, AnalysisCases
<1> HIDE DEF Inv
<1>3. PipelineSpec => []Inv
  BY IngestInvariant, SourcedInvariant, DocumentsAreFound, CountsInvariant, PTL DEF Inv
<1> QED BY <1>1, <1>2, <1>3, PTL DEF PipelineSpec, LifeSpec, Life!Spec
===============================================================================
