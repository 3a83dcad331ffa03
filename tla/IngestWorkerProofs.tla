------------------------- MODULE IngestWorkerProofs -------------------------
(* Proofs about IngestWorker, for any number of posts, workers, retries and faults. *)
EXTENDS IngestWorker, FiniteSetTheorems, TLAPS

(***************************************************************************)
(* Type correctness.  Entry(w) is read from the stream, so the type of     *)
(* what is requeued or published depends on cur[w] being a delivered id.   *)
(***************************************************************************)

LocalOK ==
    /\ pc \in [Worker -> Steps]
    /\ inbox \in [Worker -> SUBSET (1 .. lastId)]
    /\ cur \in [Worker -> 0 .. lastId]
    /\ \A w \in Worker : pc[w] \in CanRaise => cur[w] # 0

CountersOK == crashes \in Nat /\ steals \in Nat /\ redisFaults \in Nat /\ workFaults \in Nat

DataOK ==
    /\ ids \in [Worker -> SUBSET Post]
    /\ docs \subseteq Post /\ influencers \subseteq ExtBlog /\ ingestDone \subseteq Post
    /\ deadline \in {"unset", "armed", "past"}
    /\ docIds \subseteq Post
    /\ completed \in Nat
    /\ status \in Statuses
    /\ snapshot \subseteq Post
    /\ snapPubs \in Seq(SUBSET Post)
    /\ postPubs \in [Post -> Nat]

TypeInv == QueueTypeOK /\ LocalOK /\ CountersOK /\ DataOK

(* An exception leads to a step that is not in the loop, so the entry at hand stays the one being handled. *)
LEMMA CatchType ==
    ASSUME NEW s \in CanRaise
    PROVE  Catch(s) \in Steps /\ Catch(s) \notin {"loop", "dead"}
BY DEF CanRaise, Steps, Section, Catch

LEMMA ChargeType ==
    ASSUME CountersOK, NEW s, ChargeFault(s)
    PROVE  CountersOK'
BY DEF CountersOK, ChargeFault

(* Going on, or into the exception handler, keeps the local state well typed. *)
LEMMA ProceedType ==
    ASSUME lastId \in Nat, LocalOK, CountersOK, NEW w \in Worker, NEW s \in Steps, pc[w] \in CanRaise,
           Proceed(w, s), lastId' = lastId
    PROVE  LocalOK' /\ CountersOK'
<1>1. CASE GoTo(w, s) /\ cur' = [cur EXCEPT ![w] = IF s = "loop" THEN 0 ELSE @] /\ UNCHANGED faultVars
    <2>1. CountersOK'
        BY <1>1 DEF CountersOK, faultVars
    <2>2. LocalOK'
        BY <1>1 DEF LocalOK, Proceed, GoTo, CanRaise
    <2> QED BY <2>1, <2>2
<1>2. CASE GoTo(w, Catch(pc[w])) /\ ChargeFault(pc[w]) /\ UNCHANGED cur
    <2>1. CountersOK'
        BY <1>2, ChargeType
    <2>2. LocalOK'
        BY <1>2, CatchType DEF LocalOK, Proceed, GoTo, CanRaise
    <2> QED BY <2>1, <2>2
<1> QED BY <1>1, <1>2 DEF Proceed

LEMMA EntryType ==
    ASSUME TypeInv, NEW w \in Worker, pc[w] \in CanRaise
    PROVE  Entry(w) \in Fields
BY DEF TypeInv, QueueTypeOK, LocalOK, Entry

(* The queue operations keep the queue well typed, and entries stay where they are. *)
LEMMA AckType ==
    ASSUME QueueTypeOK, NEW id, Ack(id)
    PROVE  QueueTypeOK' /\ lastId' = lastId
BY DEF QueueTypeOK, Ack

LEMMA RequeueType ==
    ASSUME QueueTypeOK, NEW f \in Fields, Requeue(f)
    PROVE  /\ QueueTypeOK' /\ lastId' = lastId
           /\ Len(stream') = Len(stream) + 1
           /\ \A i \in 1 .. Len(stream) : stream'[i] = stream[i]
BY DEF QueueTypeOK, Requeue

LEMMA DlqType ==
    ASSUME QueueTypeOK, NEW f \in Fields, SendToDlq(f)
    PROVE  QueueTypeOK' /\ lastId' = lastId
BY DEF QueueTypeOK, SendToDlq

LEMMA ReadType ==
    ASSUME QueueTypeOK, Read
    PROVE  QueueTypeOK' /\ lastId' \in lastId .. Len(stream) /\ Unread = (lastId + 1) .. lastId'
<1>0. lastId \in Nat /\ BatchSize \in Nat /\ Len(stream) \in Nat /\ lastId <= Len(stream)
    BY BatchSizeAssumption DEF QueueTypeOK
<1>1. lastId' \in lastId .. Len(stream)
    BY <1>0 DEF Read
<1>2. Unread = (lastId + 1) .. lastId'
    BY <1>0 DEF Read, Unread
<1>3. pel' \subseteq 1 .. lastId'
    <2>1. pel' = pel \cup Unread /\ pel \subseteq 1 .. lastId
        BY DEF Read, QueueTypeOK
    <2>2. Unread \subseteq 1 .. lastId' /\ 1 .. lastId \subseteq 1 .. lastId'
        BY <1>0, <1>1, <1>2
    <2> QED BY <2>1, <2>2
<1> QED BY <1>0, <1>1, <1>2, <1>3 DEF Read, QueueTypeOK

-----------------------------------------------------------------------------

LEMMA TypeInit == Init => TypeInv
BY ConstantsAssumption
DEF Init, QueueInit, TypeInv, QueueTypeOK, LocalOK, CountersOK, DataOK, Steps, Section, CanRaise, Statuses

(* The environment, and the ends and restarts of processes. *)
LEMMA TypeEnvironment ==
    ASSUME TypeInv,
           \/ \E p \in Post : Crawl(p)
           \/ DeadlinePasses
           \/ \E w \in Worker : Raise(w) \/ Crash(w) \/ Exit(w) \/ Restart(w)
    PROVE  TypeInv'
<1> USE DEF TypeInv
<1>1. ASSUME NEW p \in Post, Crawl(p) PROVE TypeInv'
    <2>1. [post |-> p, retry |-> 0] \in Fields
        BY DEF Fields
    <2>2. QueueTypeOK' /\ lastId' = lastId
        BY <1>1, <2>1, RequeueType DEF Crawl
    <2> QED BY <1>1, <2>2 DEF Crawl, localVars, dbVars, batchVars, pubVars, faultVars, LocalOK, CountersOK, DataOK
<1>2. CASE DeadlinePasses
    BY <1>2 DEF DeadlinePasses, queueVars, localVars, dbVars, pubVars, faultVars, QueueTypeOK, LocalOK, CountersOK, DataOK
<1>3. ASSUME NEW w \in Worker, Raise(w) PROVE TypeInv'
    <2>1. QueueTypeOK' /\ lastId' = lastId
        BY <1>3 DEF Raise, queueVars, QueueTypeOK
    <2>2. CountersOK'
        BY <1>3, ChargeType DEF Raise
    <2>3. LocalOK'
        BY <1>3, <2>1, CatchType DEF Raise, GoTo, LocalOK, CanRaise
    <2>4. DataOK'
        BY <1>3 DEF Raise, dbVars, batchVars, pubVars, DataOK
    <2> QED BY <2>1, <2>2, <2>3, <2>4
<1>4. ASSUME NEW w \in Worker, Die(w), CountersOK' PROVE TypeInv'
    <2>1. QueueTypeOK' /\ lastId' = lastId
        BY <1>4 DEF Die, queueVars, QueueTypeOK
    <2>2. LocalOK'
        BY <1>4, <2>1 DEF Die, GoTo, LocalOK, CanRaise, Steps, QueueTypeOK
    <2>3. DataOK'
        BY <1>4 DEF Die, dbVars, batchVars, pubVars, DataOK
    <2> QED BY <1>4, <2>1, <2>2, <2>3
<1>5. ASSUME NEW w \in Worker, Crash(w) PROVE TypeInv'
    BY <1>5, <1>4 DEF Crash, CountersOK
<1>6. ASSUME NEW w \in Worker, Exit(w) PROVE TypeInv'
    BY <1>6, <1>4 DEF Exit, CountersOK, faultVars
<1>7. ASSUME NEW w \in Worker, Restart(w) PROVE TypeInv'
    BY <1>7 DEF Restart, GoTo, queueVars, dbVars, batchVars, pubVars, faultVars,
                QueueTypeOK, LocalOK, CountersOK, DataOK, CanRaise, Steps
<1> QED BY <1>1, <1>2, <1>3, <1>5, <1>6, <1>7

LEMMA TypePoll ==
    ASSUME TypeInv, NEW w \in Worker, Poll(w)
    PROVE  TypeInv'
<1> USE DEF TypeInv
<1>1. CASE ClaimPending(w)
    <2>1. PICK claimed \in Claimable :
            /\ inbox' = [inbox EXCEPT ![w] = claimed]
            /\ IF claimed \cap Held = {} THEN UNCHANGED steals
               ELSE steals < MaxSteals /\ steals' = steals + 1
        BY <1>1 DEF ClaimPending
    <2>2. claimed \subseteq 1 .. lastId
        BY DEF Claimable, QueueTypeOK
    <2>3. LocalOK'
        BY <1>1, <2>1, <2>2 DEF ClaimPending, LocalOK, queueVars, CanRaise
    <2>4. CountersOK'
        BY <1>1, <2>1 DEF ClaimPending, CountersOK
    <2>5. QueueTypeOK' /\ DataOK'
        BY <1>1 DEF ClaimPending, QueueTypeOK, DataOK, queueVars, dbVars, batchVars, pubVars
    <2> QED BY <2>3, <2>4, <2>5
<1>2. CASE ReadNew(w)
    <2>1. QueueTypeOK' /\ lastId' \in lastId .. Len(stream) /\ Unread = (lastId + 1) .. lastId'
        BY <1>2, ReadType DEF ReadNew
    <2>2. lastId \in Nat /\ lastId' \in Nat /\ lastId <= lastId'
        BY <2>1 DEF QueueTypeOK
    <2>3. Unread \subseteq 1 .. lastId' /\ 1 .. lastId \subseteq 1 .. lastId' /\ 0 .. lastId \subseteq 0 .. lastId'
        BY <2>1, <2>2
    <2>4. LocalOK'
        BY <1>2, <2>3 DEF ReadNew, LocalOK
    <2>5. CountersOK' /\ DataOK'
        BY <1>2 DEF ReadNew, CountersOK, DataOK, dbVars, batchVars, pubVars, faultVars
    <2> QED BY <2>1, <2>4, <2>5
<1> QED BY <1>1, <1>2 DEF Poll

(* One step per action of Handle; all but StartMessage and SetFailed go on through Proceed. *)
LEMMA TypeHandle ==
    ASSUME TypeInv, NEW w \in Worker, Handle(w)
    PROVE  TypeInv'
<1> USE DEF TypeInv
<1>0. lastId \in Nat
    BY DEF QueueTypeOK
<1>1. CASE StartMessage(w)
    <2>1. PICK id \in inbox[w] :
            /\ cur' = [cur EXCEPT ![w] = id]
            /\ inbox' = [inbox EXCEPT ![w] = @ \ {id}]
            /\ GoTo(w, CASE Kind[stream[id].post] = "poison" -> "escaped"
                         [] Kind[stream[id].post] = "bad"    -> "dlqBad"
                         [] OTHER                            -> "ingest")
            /\ influencers' = influencers \/
                 (stream[id].post \in ExtBlog /\ influencers' = influencers \cup {stream[id].post})
        BY <1>1 DEF StartMessage
    <2>2. QueueTypeOK' /\ lastId' = lastId
        BY <1>1 DEF StartMessage, queueVars, QueueTypeOK
    <2>3. id \in 1 .. lastId
        BY DEF LocalOK
    <2>4. LocalOK'
        BY <1>0, <2>1, <2>2, <2>3 DEF LocalOK, GoTo, Steps, CanRaise
    <2>5. CountersOK' /\ DataOK'
        BY <1>1, <2>1 DEF StartMessage, CountersOK, DataOK, batchVars, pubVars, faultVars
    <2> QED BY <2>2, <2>4, <2>5
<1>2. CASE SetFailed(w)
    <2>1. QueueTypeOK' /\ LocalOK'
        BY <1>2 DEF SetFailed, GoTo, queueVars, QueueTypeOK, LocalOK, CanRaise, Steps, Section
    <2>2. CountersOK' /\ DataOK'
        BY <1>2 DEF SetFailed, CountersOK, DataOK, dbVars, pubVars, faultVars, Statuses
    <2> QED BY <2>1, <2>2
<1>3. ASSUME pc[w] \in CanRaise, NEW s \in Steps, Proceed(w, s), QueueTypeOK', lastId' = lastId, DataOK'
      PROVE  TypeInv'
    BY <1>0, <1>3, ProceedType
<1> USE DEF DataOK, dbVars, batchVars, pubVars
<1>q. ASSUME UNCHANGED queueVars PROVE QueueTypeOK' /\ lastId' = lastId
    BY <1>q DEF queueVars, QueueTypeOK
<1>e. ASSUME pc[w] \in CanRaise PROVE Entry(w).post \in Post /\ Entry(w).retry \in Nat /\ Entry(w) \in Fields
    BY <1>e, EntryType DEF Fields
<1>s. /\ Section \subseteq Steps
      /\ {"loop", "dlqBad", "ackBad", "ingest", "ack", "meta", "sadd", "incr", "lock", "getStatus",
          "reclaim", "mark", "publishPost", "failed", "ackFailed"} \subseteq Steps
      /\ {"snapshot", "publish", "setCompleted", "setFailed",
          "dlqBad", "ackBad", "ingest", "ack", "meta", "sadd", "incr", "lock", "getStatus",
          "reclaim", "mark", "publishPost", "failed", "ackFailed"} \subseteq CanRaise
      /\ {"snapshot", "publish", "setCompleted", "setFailed"} \subseteq Steps
    BY DEF Steps, Section, CanRaise
<1>4. CASE DlqBad(w)
    <2>1. QueueTypeOK' /\ lastId' = lastId
        BY <1>4, <1>e, <1>s, DlqType DEF DlqBad
    <2> QED BY <1>4, <1>3, <1>s, <2>1 DEF DlqBad
<1>5. CASE AckBad(w)
    <2>1. QueueTypeOK' /\ lastId' = lastId
        BY <1>5, AckType DEF AckBad
    <2> QED BY <1>5, <1>3, <1>s, <2>1 DEF AckBad
<1>6. CASE Ingest(w)
    <2>1. QueueTypeOK' /\ lastId' = lastId
        BY <1>6, <1>q DEF Ingest
    <2>2. DataOK'
        BY <1>6, <1>e, <1>s DEF Ingest
    <2> QED BY <1>6, <1>3, <1>s, <2>1, <2>2 DEF Ingest
<1>7. CASE AckIngested(w)
    <2>1. QueueTypeOK' /\ lastId' = lastId
        BY <1>7, AckType DEF AckIngested
    <2>2. \E s \in {"meta", "mark", "loop"} : Proceed(w, s)
        BY <1>7 DEF AckIngested
    <2> QED BY <1>7, <1>3, <1>s, <2>1, <2>2 DEF AckIngested
<1>8. CASE SetMetadata(w)
    BY <1>8, <1>3, <1>s, <1>q DEF SetMetadata
<1>9. CASE AddDocId(w)
    BY <1>9, <1>3, <1>s, <1>q, <1>e DEF AddDocId
<1>10. CASE CountCompleted(w)
    <2>1. \E s \in {"lock", "loop"} : Proceed(w, s)
        BY <1>10 DEF CountCompleted
    <2> QED BY <1>10, <1>3, <1>s, <1>q, <2>1 DEF CountCompleted
<1>11. CASE LockSnapshot(w)
    <2>1. \E s \in {"snapshot", "getStatus"} : Proceed(w, s)
        BY <1>11 DEF LockSnapshot
    <2> QED BY <1>11, <1>3, <1>s, <1>q, <2>1 DEF LockSnapshot, Statuses
<1>12. CASE GetStatus(w)
    <2>1. \E s \in {"loop", "reclaim"} : Proceed(w, s)
        BY <1>12 DEF GetStatus
    <2> QED BY <1>12, <1>3, <1>s, <1>q, <2>1 DEF GetStatus
<1>13. CASE ReclaimFailed(w)
    <2>1. \E s \in {"snapshot", "loop"} : Proceed(w, s)
        BY <1>13 DEF ReclaimFailed
    <2> QED BY <1>13, <1>3, <1>s, <1>q, <2>1 DEF ReclaimFailed, Statuses
<1>14. CASE CreateSnapshot(w)
    BY <1>14, <1>3, <1>s, <1>q DEF CreateSnapshot, SnapshotRow
<1>15. CASE PublishSnapshot(w)
    BY <1>15, <1>3, <1>s, <1>q DEF PublishSnapshot
<1>16. CASE SetCompleted(w)
    BY <1>16, <1>3, <1>s, <1>q DEF SetCompleted, Statuses
<1>17. CASE MarkDone(w)
    BY <1>17, <1>3, <1>s, <1>q, <1>e DEF MarkDone
<1>18. CASE PublishPost(w)
    BY <1>18, <1>3, <1>s, <1>q, <1>e, SMTT(30) DEF PublishPost
<1>19. CASE RetryOrDlq(w)
    <2>1. [Entry(w) EXCEPT !.retry = @ + 1] \in Fields
        BY <1>19, <1>e, <1>s DEF RetryOrDlq, Fields
    <2>2. QueueTypeOK' /\ lastId' = lastId
        BY <1>19, <1>e, <1>s, <2>1, RequeueType, DlqType DEF RetryOrDlq
    <2> QED BY <1>19, <1>3, <1>s, <2>2 DEF RetryOrDlq
<1>20. CASE AckFailed(w)
    <2>1. QueueTypeOK' /\ lastId' = lastId
        BY <1>20, AckType DEF AckFailed
    <2> QED BY <1>20, <1>3, <1>s, <2>1 DEF AckFailed
<1> QED
    BY <1>1, <1>2, <1>4, <1>5, <1>6, <1>7, <1>8, <1>9, <1>10, <1>11, <1>12, <1>13, <1>14, <1>15, <1>16,
       <1>17, <1>18, <1>19, <1>20 DEF Handle

LEMMA TypeNext == TypeInv /\ [Next]_vars => TypeInv'
<1> SUFFICES ASSUME TypeInv, [Next]_vars PROVE TypeInv'
    OBVIOUS
<1>1. CASE Next
    BY <1>1, TypeEnvironment, TypePoll, TypeHandle DEF Next
<1>2. CASE UNCHANGED vars
    BY <1>2 DEF vars, queueVars, localVars, dbVars, batchVars, pubVars, faultVars,
                TypeInv, QueueTypeOK, LocalOK, CountersOK, DataOK
<1> QED BY <1>1, <1>2

LEMMA TypeInvariant == Spec => []TypeInv
BY TypeInit, TypeNext, PTL DEF Spec

(* Every variable keeps its type; in particular an id a worker handles is one the stream holds. *)
THEOREM TypeCorrect == Spec => []TypeOK
<1>1. TypeInv => TypeOK
    BY DEF TypeInv, TypeOK, LocalOK, CountersOK, DataOK, QueueTypeOK
<1> QED BY <1>1, TypeInvariant, PTL

-----------------------------------------------------------------------------
(***************************************************************************)
(* The snapshot lock.  Every step of the workers is one of nine kinds, as  *)
(* far as snapshot_status, the published messages and the steps of         *)
(* _create_snapshot_and_publish go; the invariants and the refinement      *)
(* follow from the kinds alone.                                            *)
(***************************************************************************)

Errors == redisFaults + workFaults

SectionSame == \A v \in Worker : pc'[v] = pc[v] \/ (pc[v] \notin Section /\ pc'[v] \notin Section)

Move(w, s) == pc' = [pc EXCEPT ![w] = s]

Quiet    == SectionSame /\ UNCHANGED <<status, snapPubs>> /\ Errors' >= Errors
Orphaned == /\ SectionSame /\ status \in {"none", "failed"} /\ status' = "creating"
            /\ UNCHANGED snapPubs /\ Errors' >= Errors
Taken(w) == /\ pc[w] \notin Section /\ Move(w, "snapshot")
            /\ status \in {"none", "failed"} /\ status' = "creating"
            /\ UNCHANGED snapPubs /\ Errors' = Errors
Built(w) == pc[w] = "snapshot" /\ Move(w, "publish") /\ UNCHANGED <<status, snapPubs>> /\ Errors' = Errors
NotBuilt(w) == pc[w] = "snapshot" /\ Move(w, "setFailed") /\ UNCHANGED <<status, snapPubs>> /\ Errors' = Errors
Announces(w) ==
    /\ pc[w] = "publish" /\ UNCHANGED status /\ Len(snapPubs') = Len(snapPubs) + 1
    /\ \/ Move(w, "setCompleted") /\ Errors' = Errors
       \/ Move(w, "setFailed") /\ Errors' = Errors + 1
Erred(w) == /\ pc[w] \in Section \ {"setFailed"} /\ Move(w, "setFailed")
            /\ UNCHANGED snapPubs /\ Errors' = Errors + 1
            /\ status' = status \/ (pc[w] = "setCompleted" /\ status' = "completed")
Closed(w) == /\ pc[w] = "setCompleted" /\ Move(w, "loop") /\ status' = "completed"
             /\ UNCHANGED snapPubs /\ Errors' = Errors
GaveBack(w) == /\ pc[w] = "setFailed" /\ Move(w, "failed") /\ status' \in {"failed", status}
               /\ UNCHANGED snapPubs /\ Errors' >= Errors
Lost(w) == /\ pc[w] \in Section /\ Move(w, "dead")
           /\ UNCHANGED <<status, snapPubs>> /\ Errors' = Errors

LockStep ==
    \/ Quiet \/ Orphaned
    \/ \E w \in Worker : Taken(w) \/ Built(w) \/ NotBuilt(w) \/ Announces(w) \/ Erred(w) \/ Closed(w) \/ GaveBack(w) \/ Lost(w)

LEMMA ErrorsType == (TypeInv => Errors \in Nat) /\ (TypeInv' => Errors' \in Nat)
BY DEF TypeInv, CountersOK, Errors

LEMMA ChargeFaults ==
    ASSUME CountersOK, NEW s, ChargeFault(s)
    PROVE  Errors' = Errors + 1
BY DEF CountersOK, ChargeFault, Errors

(* Proceed leaves every other worker where it is, and moves w on or into the handler. *)
LEMMA ProceedMove ==
    ASSUME CountersOK, NEW w \in Worker, NEW s, Proceed(w, s)
    PROVE  (Move(w, s) /\ Errors' = Errors) \/ (Move(w, Catch(pc[w])) /\ Errors' = Errors + 1)
BY ChargeFaults DEF Proceed, GoTo, Move, Errors, faultVars

LEMMA ProceedQuiet ==
    ASSUME TypeInv, NEW w \in Worker, NEW s, s \notin Section, pc[w] \in CanRaise \ Section, Proceed(w, s)
    PROVE  SectionSame /\ Errors' >= Errors
<1>1. Catch(pc[w]) \notin Section
    BY DEF Catch, Section, CanRaise, Steps
<1>2. Errors \in Nat
    BY DEF Errors, TypeInv, CountersOK
<1> QED BY <1>1, <1>2, ProceedMove DEF SectionSame, Move, TypeInv, LocalOK

LEMMA NextLockStep ==
    ASSUME TypeInv, [Next]_vars
    PROVE  LockStep
<1> USE DEF LockStep
<1>f. Errors \in Nat /\ pc \in [Worker -> Steps]
    BY DEF TypeInv, CountersOK, LocalOK, Errors
<1>s. /\ {"snapshot", "publish", "setCompleted", "setFailed"} = Section
      /\ {"loop", "dlqBad", "ackBad", "ingest", "ack", "meta", "sadd", "incr", "lock", "getStatus",
          "reclaim", "mark", "publishPost", "failed", "ackFailed", "escaped", "dead"} \cap Section = {}
      /\ {"dlqBad", "ackBad", "ingest", "ack", "meta", "sadd", "incr", "lock", "getStatus",
          "reclaim", "mark", "publishPost", "failed", "ackFailed"} \subseteq CanRaise \ Section
    BY DEF Section, CanRaise, Steps
<1>q. ASSUME UNCHANGED <<pc, status, snapPubs, redisFaults, workFaults>> PROVE Quiet
    BY <1>q, <1>f DEF Quiet, SectionSame, Errors
<1>p. ASSUME NEW w \in Worker, NEW s, s \notin Section, pc[w] \in CanRaise \ Section, Proceed(w, s),
             UNCHANGED <<status, snapPubs>>
      PROVE  Quiet
    BY <1>p, ProceedQuiet DEF Quiet
<1>m. ASSUME NEW w \in Worker, NEW s, s \notin Section, pc[w] \notin Section, Move(w, s), Errors' = Errors,
             UNCHANGED <<status, snapPubs>>
      PROVE  Quiet
    BY <1>m, <1>f DEF Quiet, SectionSame, Move
<1>1. CASE UNCHANGED vars
    BY <1>1, <1>q DEF vars, localVars, batchVars, pubVars, faultVars
<1>2. ASSUME NEW p \in Post, Crawl(p) PROVE LockStep
    BY <1>2, <1>q DEF Crawl, localVars, batchVars, pubVars, faultVars
<1>3. CASE DeadlinePasses
    BY <1>3, <1>q DEF DeadlinePasses, localVars, pubVars, faultVars
<1>4. ASSUME NEW w \in Worker, Poll(w) PROVE LockStep
    BY <1>4, <1>q DEF Poll, ClaimPending, ReadNew, batchVars, pubVars, faultVars
<1>5. ASSUME NEW w \in Worker, Raise(w) PROVE LockStep
    <2>1. Errors' = Errors + 1 /\ Move(w, Catch(pc[w])) /\ UNCHANGED <<status, snapPubs>>
        BY <1>5, ChargeFaults DEF Raise, GoTo, Move, batchVars, pubVars, TypeInv
    <2>2. CASE pc[w] \in Section \ {"setFailed"}
        BY <2>1, <2>2, <1>s DEF Erred, Catch
    <2>3. CASE pc[w] = "setFailed"
        BY <2>1, <2>3, <1>s, <1>f DEF GaveBack, Catch
    <2>4. CASE pc[w] \notin Section
        <3>1. Catch(pc[w]) \notin Section
            BY <2>4, <1>s DEF Catch
        <3> QED BY <2>1, <2>4, <3>1, <1>f DEF Quiet, SectionSame, Move
    <2> QED BY <2>2, <2>3, <2>4
<1>6. ASSUME NEW w \in Worker, Crash(w) \/ Exit(w) PROVE LockStep
    <2>1. Errors' = Errors /\ Move(w, "dead") /\ UNCHANGED <<status, snapPubs>>
        BY <1>6 DEF Crash, Exit, Die, GoTo, Move, Errors, batchVars, pubVars, faultVars
    <2> QED BY <2>1, <1>m, <1>s DEF Lost
<1>7. ASSUME NEW w \in Worker, Restart(w) PROVE LockStep
    <2>1. Errors' = Errors /\ Move(w, "loop") /\ UNCHANGED <<status, snapPubs>> /\ pc[w] = "dead"
        BY <1>7 DEF Restart, GoTo, Move, Errors, batchVars, pubVars, faultVars
    <2> QED BY <2>1, <1>m, <1>s
<1>8. ASSUME NEW w \in Worker, StartMessage(w) PROVE LockStep
    <2>1. PICK s \in {"escaped", "dlqBad", "ingest"} : GoTo(w, s)
        BY <1>8 DEF StartMessage
    <2>2. Errors' = Errors /\ Move(w, s) /\ UNCHANGED <<status, snapPubs>> /\ pc[w] = "loop"
        BY <1>8, <2>1 DEF StartMessage, GoTo, Move, Errors, batchVars, pubVars, faultVars
    <2> QED BY <2>1, <2>2, <1>m, <1>s
<1>9. ASSUME NEW w \in Worker,
             DlqBad(w) \/ AckBad(w) \/ Ingest(w) \/ AckIngested(w) \/ SetMetadata(w) \/ AddDocId(w) \/
             CountCompleted(w) \/ GetStatus(w) \/ MarkDone(w) \/ PublishPost(w) \/ RetryOrDlq(w) \/ AckFailed(w)
      PROVE  LockStep
    <2>1. PICK s \in {"loop", "ackBad", "ack", "meta", "mark", "sadd", "incr", "lock", "reclaim",
                      "publishPost", "ackFailed"} : Proceed(w, s)
        BY <1>9 DEF DlqBad, AckBad, Ingest, AckIngested, SetMetadata, AddDocId, CountCompleted, GetStatus,
                    MarkDone, PublishPost, RetryOrDlq, AckFailed
    <2>2. pc[w] \in CanRaise \ Section /\ UNCHANGED <<status, snapPubs>>
        BY <1>9, <1>s DEF DlqBad, AckBad, Ingest, AckIngested, SetMetadata, AddDocId, CountCompleted, GetStatus,
                    MarkDone, PublishPost, RetryOrDlq, AckFailed, batchVars, pubVars
    <2> QED BY <2>1, <2>2, <1>p, <1>s
<1>10. ASSUME NEW w \in Worker, NEW free \in {"none", "failed"}, NEW other \in {"getStatus", "loop"},
              pc[w] \in {"lock", "reclaim"}, UNCHANGED snapPubs,
              status' = IF status = free THEN "creating" ELSE status,
              Proceed(w, IF status = free THEN "snapshot" ELSE other)
       PROVE  LockStep
    <2>1. CASE status # free
        BY <1>10, <1>p, <1>s, <2>1
    <2>2. CASE status = free
        <3>1. CASE Move(w, "snapshot") /\ Errors' = Errors
            BY <1>10, <1>s, <2>2, <3>1 DEF Taken
        <3>2. CASE Move(w, Catch(pc[w])) /\ Errors' = Errors + 1
            <4>1. SectionSame
                BY <1>10, <1>f, <1>s, <3>2 DEF SectionSame, Move, Catch
            <4> QED BY <1>10, <1>f, <2>2, <3>2, <4>1 DEF Orphaned
        <3> QED BY <1>10, <2>2, <3>1, <3>2, ProceedMove DEF TypeInv
    <2> QED BY <2>1, <2>2
<1>11. ASSUME NEW w \in Worker, LockSnapshot(w) \/ ReclaimFailed(w) PROVE LockStep
    BY <1>11, <1>10 DEF LockSnapshot, ReclaimFailed, pubVars
<1>12. ASSUME NEW w \in Worker, CreateSnapshot(w) PROVE LockStep
    <2>1. PICK s \in {"publish", "setFailed"} : Proceed(w, s)
        BY <1>12 DEF CreateSnapshot
    <2>2. pc[w] = "snapshot" /\ UNCHANGED <<status, snapPubs>>
        BY <1>12 DEF CreateSnapshot, batchVars, pubVars
    <2> QED BY <2>1, <2>2, <1>s, ProceedMove DEF Built, NotBuilt, Erred, Catch, TypeInv
<1>13. ASSUME NEW w \in Worker, PublishSnapshot(w) PROVE LockStep
    <2>1. pc[w] = "publish" /\ UNCHANGED status /\ Proceed(w, "setCompleted")
        BY <1>13 DEF PublishSnapshot, batchVars
    <2>2. Len(snapPubs') = Len(snapPubs) + 1
        BY <1>13 DEF PublishSnapshot, TypeInv, DataOK
    <2> QED BY <2>1, <2>2, <1>s, ProceedMove DEF Announces, Catch, TypeInv
<1>14. ASSUME NEW w \in Worker, SetCompleted(w) PROVE LockStep
    <2>1. pc[w] = "setCompleted" /\ status' = "completed" /\ UNCHANGED snapPubs /\ Proceed(w, "loop")
        BY <1>14 DEF SetCompleted, pubVars
    <2> QED BY <2>1, <1>s, ProceedMove DEF Closed, Erred, Catch, TypeInv
<1>15. ASSUME NEW w \in Worker, SetFailed(w) PROVE LockStep
    <2>1. Errors' = Errors /\ Move(w, "failed") /\ UNCHANGED snapPubs /\ pc[w] = "setFailed" /\ status' = "failed"
        BY <1>15 DEF SetFailed, GoTo, Move, Errors, pubVars, faultVars
    <2>2. GaveBack(w)
        BY <2>1, <1>f DEF GaveBack
    <2> QED BY <2>2
<1> QED
    BY <1>1, <1>2, <1>3, <1>4, <1>5, <1>6, <1>7, <1>8, <1>9, <1>11, <1>12, <1>13, <1>14, <1>15
    DEF Next, Handle

-----------------------------------------------------------------------------
(***************************************************************************)
(* SnapshotOwner and PublishBound.  Neither is inductive: a message may be *)
(* published only where the count is still within the faults, so the       *)
(* invariant says where that is.                                           *)
(***************************************************************************)

LockInv ==
    /\ \A w \in Worker : pc[w] \in Section =>
          status = "creating" \/ (pc[w] = "setFailed" /\ status = "completed")
    /\ \A v, w \in Worker : pc[v] \in Section /\ pc[w] \in Section => v = w
    /\ Len(snapPubs) <= 1 + Errors
    /\ status \in {"none", "failed"} => Len(snapPubs) <= Errors
    /\ \A w \in Worker : pc[w] \in {"snapshot", "publish", "setFailed"} => Len(snapPubs) <= Errors

LEMMA LockInit == Init => LockInv
BY DEF Init, LockInv, Section, Errors

LEMMA LockNext == TypeInv /\ LockInv /\ [Next]_vars => LockInv'
<1> SUFFICES ASSUME TypeInv, TypeInv', LockInv, LockStep PROVE LockInv'
    BY NextLockStep, TypeNext
<1> USE DEF LockInv, Section
<1>t. Errors \in Nat /\ Errors' \in Nat /\ Len(snapPubs) \in Nat /\ pc \in [Worker -> Steps]
    <2>1. snapPubs \in Seq(SUBSET Post) /\ pc \in [Worker -> Steps]
        BY DEF TypeInv, DataOK, LocalOK
    <2> QED BY <2>1, ErrorsType
<1>1. CASE Quiet
    <2>1. \A w \in Worker : pc'[w] \in Section => pc'[w] = pc[w]
        BY <1>1 DEF Quiet, SectionSame
    <2>2. Errors' >= Errors /\ Len(snapPubs') = Len(snapPubs)
        BY <1>1, <1>t DEF Quiet
    <2> QED BY <1>1, <1>t, <2>1, <2>2 DEF Quiet
<1>2. CASE Orphaned
    <2>1. \A w \in Worker : pc[w] \notin Section /\ pc'[w] \notin Section
        BY <1>2 DEF Orphaned, SectionSame
    <2> QED BY <1>2, <1>t, <2>1 DEF Orphaned
<1>3. ASSUME NEW w \in Worker, Taken(w) PROVE LockInv'
    <2>1. \A v \in Worker : pc[v] \notin Section
        BY <1>3 DEF Taken
    <2>2. \A v \in Worker : pc'[v] = (IF v = w THEN "snapshot" ELSE pc[v])
        BY <1>3, <1>t DEF Taken, Move
    <2> QED BY <1>3, <1>t, <2>1, <2>2 DEF Taken
<1>4. ASSUME NEW w \in Worker, NEW s, Move(w, s), pc[w] \in Section
      PROVE  /\ pc'[w] = s
             /\ \A v \in Worker : v # w => pc'[v] = pc[v] /\ pc[v] \notin Section
    BY <1>4, <1>t DEF Move
<1>5. ASSUME NEW w \in Worker, Built(w) \/ NotBuilt(w) PROVE LockInv'
    <2>1. /\ pc'[w] \in {"publish", "setFailed"}
          /\ \A v \in Worker : v # w => pc'[v] = pc[v] /\ pc[v] \notin Section
        BY <1>5, <1>4 DEF Built, NotBuilt
    <2> QED BY <1>5, <1>t, <2>1 DEF Built, NotBuilt
<1>6. ASSUME NEW w \in Worker, Announces(w) PROVE LockInv'
    <2>1. PICK s \in {"setCompleted", "setFailed"} :
            Move(w, s) /\ (IF s = "setFailed" THEN Errors' = Errors + 1 ELSE Errors' = Errors)
        BY <1>6 DEF Announces
    <2>2. pc'[w] = s /\ \A v \in Worker : v # w => pc'[v] = pc[v] /\ pc[v] \notin Section
        BY <1>6, <1>4, <2>1 DEF Announces
    <2> QED BY <1>6, <1>t, <2>1, <2>2 DEF Announces
<1>7. ASSUME NEW w \in Worker, Erred(w) PROVE LockInv'
    <2>1. pc'[w] = "setFailed" /\ \A v \in Worker : v # w => pc'[v] = pc[v] /\ pc[v] \notin Section
        BY <1>7, <1>4 DEF Erred
    <2> QED BY <1>7, <1>t, <2>1 DEF Erred
<1>8. ASSUME NEW w \in Worker, Closed(w) \/ GaveBack(w) \/ Lost(w) PROVE LockInv'
    <2>1. PICK s \in {"loop", "failed", "dead"} : Move(w, s)
        BY <1>8 DEF Closed, GaveBack, Lost
    <2>2. pc'[w] = s /\ \A v \in Worker : v # w => pc'[v] = pc[v] /\ pc[v] \notin Section
        BY <1>8, <1>4, <2>1 DEF Closed, GaveBack, Lost
    <2>3. \A v \in Worker : pc'[v] \notin Section
        BY <2>1, <2>2
    <2>4. CASE Closed(w)
        BY <1>t, <2>3, <2>4 DEF Closed
    <2>5. CASE GaveBack(w)
        BY <1>t, <2>3, <2>5 DEF GaveBack
    <2>6. CASE Lost(w)
        BY <1>t, <2>3, <2>6 DEF Lost
    <2> QED BY <1>8, <2>4, <2>5, <2>6
<1> QED BY <1>1, <1>2, <1>3, <1>5, <1>6, <1>7, <1>8 DEF LockStep

LEMMA LockInvariant == Spec => [](TypeInv /\ LockInv)
<1>1. Init => TypeInv /\ LockInv
    BY TypeInit, LockInit
<1>2. TypeInv /\ LockInv /\ [Next]_vars => (TypeInv /\ LockInv)'
    BY TypeNext, LockNext
<1> QED BY <1>1, <1>2, PTL DEF Spec

(* Every FULL_BLOG analysis message but one was preceded by a call that raised. *)
THEOREM PublishesBounded == Spec => []PublishBound
<1>1. TypeInv /\ LockInv => PublishBound
    BY DEF TypeInv, CountersOK, DataOK, LockInv, PublishBound, Errors
<1> QED BY <1>1, LockInvariant, PTL

-----------------------------------------------------------------------------
(* The refinement: the batch protocol implements SnapshotLock. *)

holdersBar == {w \in Worker : pc[w] \in Section}
freshBar == \E w \in Worker : pc[w] \in {"snapshot", "publish"}

LEMMA LockRefinesStep ==
    TypeInv /\ LockInv /\ [Next]_vars => [Lock!Next]_(Lock!lockVars)
<1> SUFFICES ASSUME TypeInv, LockInv, LockStep PROVE Lock!Next \/ UNCHANGED Lock!lockVars
    BY NextLockStep
<1> USE DEF Section
<1>t. Errors \in Nat /\ pc \in [Worker -> Steps]
    BY DEF TypeInv, CountersOK, LocalOK, Errors
<1>1. CASE Quiet
    <2>1. holdersBar' = holdersBar /\ freshBar' = freshBar /\ status' = status /\ Len(snapPubs)' = Len(snapPubs)
        BY <1>1 DEF Quiet, SectionSame, holdersBar, freshBar
    <2> QED BY <2>1 DEF Lock!lockVars, holdersBar, freshBar
<1>2. CASE Orphaned
    <2>1. holdersBar = {} /\ holdersBar' = {} /\ ~freshBar /\ ~freshBar'
        BY <1>2 DEF Orphaned, SectionSame, LockInv, holdersBar, freshBar
    <2> QED BY <1>2, <2>1 DEF Orphaned, Lock!Next, Lock!Orphan, Lock!Free, holdersBar, freshBar
<1>3. ASSUME NEW w \in Worker, Taken(w) PROVE Lock!Next
    <2>1. holdersBar = {} /\ holdersBar' = {w} /\ freshBar'
        BY <1>3, <1>t DEF Taken, Move, LockInv, holdersBar, freshBar
    <2> QED BY <1>3, <2>1 DEF Taken, Lock!Next, Lock!Acquire, Lock!Free, holdersBar, freshBar
<1>4. ASSUME NEW w \in Worker, NEW s, Move(w, s), pc[w] \in Section
      PROVE  /\ holdersBar = {w} /\ (freshBar <=> pc[w] \in {"snapshot", "publish"})
             /\ holdersBar' = (IF s \in Section THEN {w} ELSE {}) /\ (freshBar' <=> s \in {"snapshot", "publish"})
    BY <1>4, <1>t DEF Move, LockInv, holdersBar, freshBar
<1>5. ASSUME NEW w \in Worker, Built(w) PROVE UNCHANGED Lock!lockVars
    <2>1. holdersBar = {w} /\ holdersBar' = {w} /\ freshBar /\ freshBar'
        BY <1>5, <1>4 DEF Built
    <2> QED BY <1>5, <2>1 DEF Built, Lock!lockVars, holdersBar, freshBar
<1>6. ASSUME NEW w \in Worker, Announces(w) PROVE Lock!Next
    <2>1. holdersBar = {w} /\ holdersBar' = {w} /\ freshBar /\ ~freshBar'
        BY <1>6, <1>4 DEF Announces
    <2> QED BY <1>6, <2>1 DEF Announces, Lock!Next, Lock!Publish, holdersBar, freshBar
<1>7. ASSUME NEW w \in Worker, Erred(w) \/ NotBuilt(w) PROVE Lock!Next \/ UNCHANGED Lock!lockVars
    <2>1. holdersBar = {w} /\ holdersBar' = {w} /\ (freshBar <=> pc[w] # "setCompleted") /\ ~freshBar'
        BY <1>7, <1>4 DEF Erred, NotBuilt
    <2> QED
        BY <1>7, <2>1 DEF Erred, NotBuilt, Lock!Next, Lock!GiveUp, Lock!Complete, Lock!lockVars, holdersBar, freshBar
<1>8. ASSUME NEW w \in Worker, Closed(w) \/ GaveBack(w) \/ Lost(w) PROVE Lock!Next
    <2>1. PICK s \in {"loop", "failed", "dead"} : Move(w, s)
        BY <1>8 DEF Closed, GaveBack, Lost
    <2>2. holdersBar = {w} /\ holdersBar' = {} /\ ~freshBar' /\ (pc[w] \in {"setCompleted", "setFailed"} => ~freshBar)
        BY <1>8, <1>4, <2>1 DEF Closed, GaveBack, Lost
    <2>3. Lock!Release
        BY <1>8, <2>2 DEF Closed, GaveBack, Lost, Lock!Release, holdersBar, freshBar
    <2> QED BY <2>3 DEF Lock!Next
<1> QED BY <1>1, <1>2, <1>3, <1>5, <1>6, <1>7, <1>8 DEF LockStep

(* SET NX, GET, the Lua script and the final SETs, with their failures, implement the lock. *)
THEOREM ImplementsSnapshotLock == Spec => LockSpec
<1>1. Init => Lock!Init
    BY DEF Init, Lock!Init, Section
<1>2. TypeInv /\ LockInv /\ [Next]_vars => [Lock!Next]_(Lock!lockVars)
    BY LockRefinesStep
<1> QED BY <1>1, <1>2, LockInvariant, PTL DEF Spec, LockSpec, Lock!Spec

-----------------------------------------------------------------------------
(***************************************************************************)
(* NoPostLost.  What is inductive is stronger: an entry that left the PEL, *)
(* and one about to leave it, is Safe, which points to the document, to    *)
(* the dead-letter stream or to a LATER entry.  "Later" is what keeps two  *)
(* copies of a post from vouching for each other while both are acked.     *)
(***************************************************************************)

Waiting(j) == j > lastId \/ j \in pel

Safe(i) ==
    \/ stream[i].post \in docs
    \/ InDlq(stream[i].post)
    \/ \E j \in 1 .. Len(stream) : j > i /\ stream[j].post = stream[i].post /\ Waiting(j)

AckSteps == {"ackBad", "ack", "ackFailed"}

LossInv ==
    /\ \A i \in 1 .. lastId : i \notin pel => Safe(i)
    /\ \A w \in Worker : pc[w] \in AckSteps => Safe(cur[w])

(* Nothing is taken back, but for the entry id, which leaves the PEL. *)
Grows(id) ==
    /\ docs \subseteq docs'
    /\ \A p \in Post : InDlq(p) => InDlq(p)'
    /\ Len(stream) <= Len(stream')
    /\ \A i \in 1 .. Len(stream) : stream'[i] = stream[i]
    /\ \A i \in 1 .. Len(stream) : i # id /\ Waiting(i) => Waiting(i)'

LEMMA StreamType ==
    ASSUME TypeInv, TypeInv'
    PROVE  /\ Len(stream) \in Nat /\ Len(stream') \in Nat
           /\ \A k \in 1 .. Len(stream) : stream[k].post \in Post
<1>1. stream \in Seq(Fields) /\ stream' \in Seq(Fields)
    BY DEF TypeInv, QueueTypeOK
<1>2. \A k \in 1 .. Len(stream) : stream[k] \in Fields
    BY <1>1
<1> QED BY <1>1, <1>2 DEF Fields

LEMMA SafeStays ==
    ASSUME TypeInv, TypeInv', NEW id, Grows(id), id \in 1 .. Len(stream) => Safe(id),
           NEW i \in 1 .. Len(stream), Safe(i)
    PROVE  Safe(i)'
<1>0. /\ Len(stream) \in Nat /\ Len(stream') \in Nat
      /\ \A k \in 1 .. Len(stream) : stream[k].post \in Post
    BY StreamType
<1>1. ASSUME NEW k \in 1 .. Len(stream), stream[k].post = stream[i].post,
             stream[k].post \in docs \/ InDlq(stream[k].post)
      PROVE  Safe(i)'
    BY <1>0, <1>1 DEF Safe, Grows
<1>2. ASSUME NEW k \in 1 .. Len(stream), stream[k].post = stream[i].post, k > i, k # id, Waiting(k)
      PROVE  Safe(i)'
    <2>1. k \in 1 .. Len(stream') /\ stream'[k].post = stream'[i].post /\ Waiting(k)'
        BY <1>0, <1>2 DEF Grows
    <2> QED BY <1>2, <2>1 DEF Safe
<1>3. ASSUME NEW k \in 1 .. Len(stream), stream[k].post = stream[i].post, k > i, Waiting(k)
      PROVE  Safe(i)'
    <2>1. CASE k # id
        BY <1>2, <1>3, <2>1
    <2>2. CASE k = id /\ (stream[k].post \in docs \/ InDlq(stream[k].post))
        BY <1>1, <1>3, <2>2
    <2>3. ASSUME k = id, NEW j \in 1 .. Len(stream), j > k, stream[j].post = stream[k].post, Waiting(j)
          PROVE  Safe(i)'
        BY <1>0, <1>2, <1>3, <2>3
    <2> QED BY <1>3, <2>1, <2>2, <2>3 DEF Safe
<1> QED BY <1>1, <1>3 DEF Safe

LEMMA LossFrame ==
    ASSUME TypeInv, TypeInv', LossInv, NEW id \in 0 .. lastId, Grows(id), id # 0 => Safe(id),
           \A i \in 1 .. lastId' : i \notin pel' => i = id \/ (i \in 1 .. lastId /\ i \notin pel),
           \A w \in Worker : pc'[w] \in AckSteps =>
              (pc[w] \in AckSteps /\ cur'[w] = cur[w]) \/ Safe(cur[w])'
    PROVE  LossInv'
<1>0. lastId \in Nat /\ Len(stream) \in Nat /\ lastId <= Len(stream) /\ lastId' \in Nat
    BY DEF TypeInv, QueueTypeOK
<1>1. ASSUME NEW i \in 1 .. lastId, Safe(i) PROVE Safe(i)'
    BY <1>0, <1>1, SafeStays
<1>2. ASSUME NEW i \in 1 .. lastId', i \notin pel' PROVE Safe(i)'
    <2>1. i \in 1 .. lastId /\ Safe(i)
        BY <1>0, <1>2 DEF LossInv
    <2> QED BY <1>1, <2>1
<1>3. ASSUME NEW w \in Worker, pc'[w] \in AckSteps PROVE Safe(cur[w])'
    <2>1. CASE pc[w] \in AckSteps /\ cur'[w] = cur[w]
        <3>1. cur[w] \in 1 .. lastId /\ Safe(cur[w])
            BY <1>0, <2>1 DEF LossInv, TypeInv, LocalOK, AckSteps, CanRaise, Steps
        <3>2. PICK i \in 1 .. lastId : i = cur[w]
            BY <3>1
        <3>3. Safe(i)'
            BY <1>1, <3>1, <3>2
        <3> QED BY <2>1, <3>2, <3>3 DEF Safe
    <2> QED BY <1>3, <2>1
<1> QED BY <1>2, <1>3 DEF LossInv

(* What each queue operation keeps. *)
LEMMA QuietGrows ==
    ASSUME TypeInv, UNCHANGED queueVars, docs \subseteq docs'
    PROVE  Grows(0)
BY DEF Grows, queueVars, InDlq, Waiting, TypeInv, QueueTypeOK

LEMMA AckGrows ==
    ASSUME TypeInv, NEW id, Ack(id), UNCHANGED docs
    PROVE  Grows(id)
BY DEF Grows, Ack, InDlq, Waiting, TypeInv, QueueTypeOK

LEMMA RequeueGrows ==
    ASSUME TypeInv, NEW f \in Fields, Requeue(f), UNCHANGED docs
    PROVE  /\ Grows(0)
           /\ Len(stream) + 1 \in 1 .. Len(stream') /\ stream'[Len(stream) + 1] = f /\ Len(stream) + 1 > lastId'
<1>1. stream \in Seq(Fields) /\ stream' = Append(stream, f) /\ lastId' = lastId /\ lastId \in 0 .. Len(stream)
    BY DEF Requeue, TypeInv, QueueTypeOK
<1>2. Len(stream') = Len(stream) + 1 /\ stream'[Len(stream) + 1] = f
    BY <1>1
<1>3. Grows(0)
    BY <1>1, <1>2 DEF Grows, Requeue, InDlq, Waiting
<1> QED BY <1>1, <1>2, <1>3

LEMMA DlqGrows ==
    ASSUME TypeInv, NEW f \in Fields, SendToDlq(f), UNCHANGED docs
    PROVE  Grows(0) /\ InDlq(f.post)'
<1>1. dlq \in Seq(Fields) /\ dlq' = Append(dlq, f) /\ UNCHANGED <<stream, lastId, pel>>
    BY DEF SendToDlq, TypeInv, QueueTypeOK
<1>2. DOMAIN dlq' = 1 .. Len(dlq) + 1 /\ dlq'[Len(dlq) + 1] = f /\ \A k \in DOMAIN dlq : k \in DOMAIN dlq' /\ dlq'[k] = dlq[k]
    BY <1>1
<1>3. InDlq(f.post)'
    BY <1>1, <1>2 DEF InDlq
<1>4. \A p \in Post : InDlq(p) => InDlq(p)'
    BY <1>2 DEF InDlq
<1>5. Len(stream) \in Nat
    BY DEF TypeInv, QueueTypeOK
<1> QED BY <1>1, <1>3, <1>4, <1>5 DEF Grows, Waiting

LEMMA ReadGrows ==
    ASSUME TypeInv, Read, UNCHANGED docs
    PROVE  /\ Grows(0)
           /\ \A i \in 1 .. lastId' : i \notin pel' => i \in 1 .. lastId /\ i \notin pel
<1>1. lastId' \in lastId .. Len(stream) /\ Unread = (lastId + 1) .. lastId' /\ lastId \in Nat /\ lastId' \in Nat
    BY ReadType DEF TypeInv, QueueTypeOK
<1>2. UNCHANGED <<stream, dlq>> /\ pel' = pel \cup Unread /\ Len(stream) \in Nat
    BY DEF Read, TypeInv, QueueTypeOK
<1>3. \A i \in 1 .. Len(stream) : Waiting(i) => Waiting(i)'
    BY <1>1, <1>2 DEF Waiting
<1> QED BY <1>1, <1>2, <1>3 DEF Grows, InDlq

(* Only going on to s can bring a worker to an acknowledgement. *)
LEMMA ProceedAck ==
    ASSUME TypeInv, NEW w \in Worker, NEW s \in Steps, Proceed(w, s)
    PROVE  \A v \in Worker : pc'[v] \in AckSteps =>
              (pc[v] \in AckSteps /\ cur'[v] = cur[v]) \/ (v = w /\ s \in AckSteps /\ cur'[v] = cur[v])
<1>1. Catch(pc[w]) \notin AckSteps
    BY DEF Catch, AckSteps
<1> QED BY <1>1 DEF Proceed, GoTo, AckSteps, TypeInv, LocalOK

(* A step that leaves the queue alone and makes nobody ready to acknowledge. *)
LEMMA LossQuiet ==
    ASSUME TypeInv, TypeInv', LossInv, UNCHANGED queueVars, docs \subseteq docs',
           \A v \in Worker : pc'[v] \in AckSteps => pc[v] \in AckSteps /\ cur'[v] = cur[v]
    PROVE  LossInv'
<1>1. 0 \in 0 .. lastId
    BY DEF TypeInv, QueueTypeOK
<1> QED BY <1>1, QuietGrows, LossFrame DEF queueVars

LEMMA LossInit == Init => LossInv
BY DEF Init, QueueInit, LossInv, AckSteps

LEMMA LossEnvironment ==
    ASSUME TypeInv, TypeInv', LossInv,
           \/ UNCHANGED vars
           \/ \E p \in Post : Crawl(p)
           \/ DeadlinePasses
           \/ \E w \in Worker : Poll(w) \/ Raise(w) \/ Crash(w) \/ Exit(w) \/ Restart(w)
    PROVE  LossInv'
<1>0. 0 \in 0 .. lastId /\ lastId \in Nat
    BY DEF TypeInv, QueueTypeOK
<1>1. CASE UNCHANGED vars
    BY <1>1, LossQuiet DEF vars, localVars, dbVars
<1>2. ASSUME NEW p \in Post, Crawl(p) PROVE LossInv'
    <2>1. [post |-> p, retry |-> 0] \in Fields
        BY DEF Fields
    <2>2. Grows(0) /\ UNCHANGED <<pc, cur, lastId, pel>>
        BY <1>2, <2>1, RequeueGrows DEF Crawl, Requeue, localVars, dbVars
    <2> QED BY <1>0, <2>2, LossFrame
<1>3. CASE DeadlinePasses
    BY <1>3, LossQuiet DEF DeadlinePasses, localVars, dbVars
<1>4. ASSUME NEW w \in Worker, ClaimPending(w) PROVE LossInv'
    BY <1>4, LossQuiet DEF ClaimPending, dbVars
<1>5. ASSUME NEW w \in Worker, ReadNew(w) PROVE LossInv'
    <2>1. Read /\ UNCHANGED <<pc, cur, docs>>
        BY <1>5 DEF ReadNew, dbVars
    <2> QED BY <1>0, <2>1, ReadGrows, LossFrame
<1>6. ASSUME NEW w \in Worker, Raise(w) PROVE LossInv'
    <2>1. Catch(pc[w]) \notin AckSteps
        BY DEF Catch, AckSteps
    <2>2. \A v \in Worker : pc'[v] \in AckSteps => pc[v] \in AckSteps /\ cur'[v] = cur[v]
        BY <1>6, <2>1 DEF Raise, GoTo, TypeInv, LocalOK
    <2> QED BY <1>6, <2>2, LossQuiet DEF Raise, dbVars
<1>7. ASSUME NEW w \in Worker, Die(w) PROVE LossInv'
    <2>1. \A v \in Worker : pc'[v] \in AckSteps => pc[v] \in AckSteps /\ cur'[v] = cur[v]
        BY <1>7 DEF Die, GoTo, TypeInv, LocalOK, AckSteps
    <2> QED BY <1>7, <2>1, LossQuiet DEF Die, dbVars
<1>8. ASSUME NEW w \in Worker, Restart(w) PROVE LossInv'
    <2>1. \A v \in Worker : pc'[v] \in AckSteps => pc[v] \in AckSteps /\ cur'[v] = cur[v]
        BY <1>8 DEF Restart, GoTo, TypeInv, LocalOK, AckSteps
    <2> QED BY <1>8, <2>1, LossQuiet DEF Restart, dbVars
<1> QED BY <1>1, <1>2, <1>3, <1>4, <1>5, <1>6, <1>7, <1>8 DEF Poll, Crash, Exit

LEMMA LossHandle ==
    ASSUME TypeInv, TypeInv', LossInv, NEW w \in Worker, Handle(w)
    PROVE  LossInv'
<1>0. 0 \in 0 .. lastId /\ lastId \in Nat /\ lastId <= Len(stream) /\ Len(stream) \in Nat
    BY DEF TypeInv, QueueTypeOK
<1>s. {"loop", "ackBad", "ack", "meta", "mark", "sadd", "incr", "lock", "getStatus", "reclaim", "snapshot",
       "publish", "setCompleted", "publishPost", "ackFailed"} \subseteq Steps
    BY DEF Steps, Section
<1>c. ASSUME pc[w] \in CanRaise
      PROVE  cur[w] \in 1 .. lastId /\ Entry(w) = stream[cur[w]] /\ Entry(w) \in Fields
    BY <1>c, <1>0, EntryType DEF TypeInv, LocalOK, Entry
<1>1. ASSUME StartMessage(w) \/ SetFailed(w) PROVE LossInv'
    <2>1. PICK s : GoTo(w, s) /\ s \notin AckSteps
        BY <1>1 DEF StartMessage, SetFailed, AckSteps
    <2>2. UNCHANGED queueVars /\ UNCHANGED docs /\ (\A v \in Worker : v # w => cur'[v] = cur[v])
        BY <1>1 DEF StartMessage, SetFailed, dbVars, TypeInv, LocalOK
    <2>3. \A v \in Worker : pc'[v] \in AckSteps => pc[v] \in AckSteps /\ cur'[v] = cur[v]
        BY <2>1, <2>2 DEF GoTo, TypeInv, LocalOK
    <2> QED BY <2>2, <2>3, LossQuiet
<1>2. ASSUME NEW s \in Steps \ AckSteps, Proceed(w, s), UNCHANGED queueVars, UNCHANGED docs PROVE LossInv'
    BY <1>2, ProceedAck, LossQuiet
<1>3. ASSUME SetMetadata(w) \/ AddDocId(w) \/ CountCompleted(w) \/ LockSnapshot(w) \/ GetStatus(w) \/
             ReclaimFailed(w) \/ CreateSnapshot(w) \/ PublishSnapshot(w) \/ SetCompleted(w) \/
             MarkDone(w) \/ PublishPost(w)
      PROVE  LossInv'
    <2>1. UNCHANGED queueVars /\ UNCHANGED docs
        BY <1>3 DEF SetMetadata, AddDocId, CountCompleted, LockSnapshot, GetStatus, ReclaimFailed, CreateSnapshot,
                    PublishSnapshot, SetCompleted, MarkDone, PublishPost, dbVars
    <2>2. PICK s \in {"loop", "sadd", "incr", "lock", "getStatus", "reclaim", "snapshot", "publish",
                      "setCompleted", "setFailed", "publishPost"} : Proceed(w, s)
        BY <1>3 DEF SetMetadata, AddDocId, CountCompleted, LockSnapshot, GetStatus, ReclaimFailed, CreateSnapshot,
                    PublishSnapshot, SetCompleted, MarkDone, PublishPost
    <2>3. s \in Steps \ AckSteps
        BY <2>2 DEF AckSteps, Steps, Section
    <2> QED BY <1>2, <2>1, <2>2, <2>3
<1>4. ASSUME AckBad(w) \/ AckIngested(w) \/ AckFailed(w) PROVE LossInv'
    <2>1. pc[w] \in AckSteps /\ pc[w] \in CanRaise /\ Ack(cur[w]) /\ UNCHANGED docs
        BY <1>4 DEF AckBad, AckIngested, AckFailed, AckSteps, CanRaise, Steps, dbVars
    <2>2. PICK s \in {"loop", "meta", "mark"} : Proceed(w, s)
        BY <1>4 DEF AckBad, AckIngested, AckFailed
    <2>3. cur[w] \in 0 .. lastId /\ Safe(cur[w]) /\ Grows(cur[w])
        BY <1>0, <1>c, <2>1, AckGrows DEF LossInv
    <2>4. \A i \in 1 .. lastId' : i \notin pel' => i = cur[w] \/ (i \in 1 .. lastId /\ i \notin pel)
        BY <2>1 DEF Ack
    <2>5. \A v \in Worker : pc'[v] \in AckSteps => pc[v] \in AckSteps /\ cur'[v] = cur[v]
        BY <1>s, <2>2, ProceedAck DEF AckSteps
    <2> QED BY <2>3, <2>4, <2>5, LossFrame
<1>5. ASSUME NEW s \in AckSteps, Proceed(w, s), pc[w] \in CanRaise, Grows(0),
             UNCHANGED <<lastId, pel>>, Safe(cur[w])' \/ cur'[w] # cur[w]
      PROVE  LossInv'
    <2>1. s \in Steps
        BY DEF AckSteps, Steps
    <2>2. \A v \in Worker : pc'[v] \in AckSteps =>
             (pc[v] \in AckSteps /\ cur'[v] = cur[v]) \/ Safe(cur[v])'
        BY <1>5, <2>1, ProceedAck
    <2> QED BY <1>0, <1>5, <2>2, LossFrame
<1>6. CASE Ingest(w)
    <2>1. pc[w] \in CanRaise /\ Proceed(w, "ack") /\ UNCHANGED queueVars /\ docs' = docs \cup {Entry(w).post}
        BY <1>6 DEF Ingest, CanRaise, Steps
    <2>2. cur'[w] = cur[w] => Safe(cur[w])'
        BY <1>c, <2>1 DEF Safe, queueVars
    <2>3. Grows(0)
        BY <2>1, QuietGrows
    <2> QED BY <1>5, <2>1, <2>2, <2>3 DEF AckSteps, queueVars
<1>7. ASSUME SendToDlq(Entry(w)), pc[w] \in CanRaise, UNCHANGED docs, NEW s \in AckSteps, Proceed(w, s)
      PROVE  LossInv'
    <2>1. PICK f \in Fields : f = Entry(w)
        BY <1>7, <1>c
    <2>2. Grows(0) /\ InDlq(f.post)' /\ UNCHANGED <<stream, lastId, pel>>
        BY <1>7, <2>1, DlqGrows DEF SendToDlq
    <2>3. cur'[w] = cur[w] => stream'[cur'[w]].post = f.post
        BY <1>7, <1>c, <2>1, <2>2
    <2>4. cur'[w] = cur[w] => Safe(cur[w])'
        BY <2>2, <2>3 DEF Safe
    <2> QED BY <1>5, <1>7, <2>2, <2>4
<1>8. CASE DlqBad(w)
    BY <1>7, <1>8 DEF DlqBad, AckSteps, CanRaise, Steps, dbVars
<1>9. CASE RetryOrDlq(w)
    <2>0. pc[w] \in CanRaise /\ Proceed(w, "ackFailed") /\ UNCHANGED docs /\ "ackFailed" \in AckSteps
        BY <1>9 DEF RetryOrDlq, CanRaise, Steps, dbVars, AckSteps
    <2>1. CASE SendToDlq(Entry(w))
        BY <1>7, <2>0, <2>1
    <2>2. CASE Requeue([Entry(w) EXCEPT !.retry = @ + 1])
        <3>1. PICK f \in Fields : f.post = Entry(w).post /\ Requeue(f)
            BY <1>c, <2>0, <2>2 DEF Fields
        <3>2. /\ Grows(0) /\ UNCHANGED <<lastId, pel>>
              /\ Len(stream) + 1 \in 1 .. Len(stream') /\ stream'[Len(stream) + 1] = f /\ Len(stream) + 1 > lastId'
            BY <2>0, <3>1, RequeueGrows DEF Requeue
        <3>3. stream'[cur[w]] = stream[cur[w]] /\ Len(stream) + 1 > cur[w]
            BY <1>0, <1>c, <2>0, <3>2 DEF Grows
        <3>4. ASSUME cur'[w] = cur[w] PROVE Safe(cur[w])'
            <4>1. Len(stream) + 1 > cur'[w] /\ stream'[Len(stream) + 1].post = stream'[cur'[w]].post
                BY <1>c, <2>0, <3>1, <3>2, <3>3, <3>4
            <4>2. \E j \in 1 .. Len(stream') :
                    j > cur'[w] /\ stream'[j].post = stream'[cur'[w]].post /\ Waiting(j)'
                <5>1. PICK j : j = Len(stream) + 1
                    OBVIOUS
                <5>2. Waiting(j)'
                    BY <3>2, <5>1 DEF Waiting
                <5> QED BY <3>2, <4>1, <5>1, <5>2
            <4> QED BY <4>2 DEF Safe
        <3> QED BY <1>5, <2>0, <3>2, <3>4
    <2> QED BY <1>9, <2>1, <2>2 DEF RetryOrDlq
<1> QED BY <1>1, <1>3, <1>4, <1>6, <1>8, <1>9 DEF Handle

LEMMA LossInvariant == Spec => [](TypeInv /\ LossInv)
<1>1. Init => TypeInv /\ LossInv
    BY TypeInit, LossInit
<1>2. TypeInv /\ LossInv /\ [Next]_vars => (TypeInv /\ LossInv)'
    BY TypeNext, LossEnvironment, LossHandle DEF Next
<1> QED BY <1>1, <1>2, PTL DEF Spec

(* Whatever crashes, raises or is stolen: a post in the stream is stored, in the dead-letter stream, or still to come. *)
LEMMA StoredOrToCome ==
    ASSUME TypeInv, LossInv, NEW i \in 1 .. Len(stream)
    PROVE  stream[i].post \in docs \/ InDlq(stream[i].post) \/ Outstanding(stream[i].post)
<1>1. stream \in Seq(Fields) /\ lastId \in Nat
    BY DEF TypeInv, QueueTypeOK
<1>2. CASE Waiting(i)
    BY <1>1, <1>2 DEF Waiting, Outstanding
<1>3. CASE Safe(i)
    BY <1>1, <1>3 DEF Safe, Waiting, Outstanding
<1> QED BY <1>1, <1>2, <1>3 DEF LossInv, Waiting

-----------------------------------------------------------------------------
(***************************************************************************)
(* What is told others is stored.  A post whose key is set or whose        *)
(* analysis message is published has its row, and so has a batch: each     *)
(* follows the commit in the handler, and no retry goes back before it.    *)
(***************************************************************************)

Past == {"ack", "mark", "publishPost"}

StoredFirst ==
    /\ \A w \in Worker : pc[w] \in Past => Entry(w).post \in docs
    /\ \A w \in Worker : pc[w] = "publish" => snapshot # {}
    /\ ingestDone \subseteq docs
    /\ \A p \in Post : postPubs[p] > 0 => p \in docs
    /\ snapPubs # <<>> => snapshot # {}

LEMMA StoredInit == Init => StoredFirst
BY DEF Init, StoredFirst, Past

(* A step of worker w that neither publishes nor sets a key. *)
LEMMA StoredFrame ==
    ASSUME TypeInv, StoredFirst, NEW w \in Worker,
           \A v \in Worker \ {w} : pc'[v] = pc[v] /\ cur'[v] = cur[v],
           \A i \in 1 .. Len(stream) : stream'[i] = stream[i],
           docs \subseteq docs', snapshot # {} => snapshot' # {},
           pc'[w] \in Past => pc[w] \in CanRaise /\ cur'[w] = cur[w] /\ Entry(w).post \in docs',
           pc'[w] = "publish" => snapshot' # {},
           ingestDone' \subseteq docs', \A p \in Post : postPubs'[p] > 0 => p \in docs',
           snapPubs' # <<>> => snapshot' # {}
    PROVE  StoredFirst'
<1>1. ASSUME NEW v \in Worker, pc[v] \in CanRaise, cur'[v] = cur[v] PROVE Entry(v)' = Entry(v)
    <2>1. cur[v] \in 1 .. Len(stream)
        BY <1>1 DEF TypeInv, LocalOK, QueueTypeOK
    <2> QED BY <1>1, <2>1 DEF Entry
<1>2. ASSUME NEW v \in Worker, pc'[v] \in Past PROVE Entry(v)'.post \in docs'
    <2>1. CASE v = w
        BY <1>1, <1>2, <2>1
    <2>2. CASE v # w
        <3>1. pc[v] \in CanRaise /\ cur'[v] = cur[v] /\ Entry(v).post \in docs
            BY <1>2, <2>2 DEF StoredFirst, Past, CanRaise, Steps
        <3> QED BY <1>1, <3>1
    <2> QED BY <2>1, <2>2
<1>3. \A v \in Worker : pc'[v] = "publish" => snapshot' # {}
    BY DEF StoredFirst
<1> QED BY <1>2, <1>3 DEF StoredFirst

(* Going on to s, or to the exception handler. *)
LEMMA ProceedPast ==
    ASSUME TypeInv, NEW w \in Worker, NEW s \in Steps, pc[w] \in CanRaise, Proceed(w, s)
    PROVE  /\ \A v \in Worker \ {w} : pc'[v] = pc[v] /\ cur'[v] = cur[v]
           /\ pc'[w] = s \/ pc'[w] = Catch(pc[w])
           /\ pc'[w] # "loop" => cur'[w] = cur[w]
           /\ pc'[w] \in Past \cup {"publish"} => s \in Past \cup {"publish"} \/ pc[w] = "mark"
<1>1. pc \in [Worker -> Steps] /\ cur \in [Worker -> 0 .. lastId]
    BY DEF TypeInv, LocalOK
<1>2. pc'[w] = s \/ pc'[w] = Catch(pc[w])
    BY <1>1 DEF Proceed, GoTo
<1>3. \A v \in Worker \ {w} : pc'[v] = pc[v] /\ cur'[v] = cur[v]
    BY <1>1 DEF Proceed, GoTo
<1>4. pc'[w] # "loop" => cur'[w] = cur[w]
    BY <1>1 DEF Proceed, GoTo
<1>5. Catch(pc[w]) \in Past \cup {"publish"} => pc[w] = "mark"
    BY DEF Catch, Past
<1> QED BY <1>2, <1>3, <1>4, <1>5

LEMMA StoredHandle ==
    ASSUME TypeInv, TypeInv', StoredFirst, NEW w \in Worker, Handle(w)
    PROVE  StoredFirst'
<1>s. /\ stream \in Seq(Fields) /\ pc \in [Worker -> Steps] /\ cur \in [Worker -> 0 .. lastId]
      /\ postPubs \in [Post -> Nat] /\ snapPubs \in Seq(SUBSET Post)
    BY DEF TypeInv, QueueTypeOK, LocalOK, DataOK
<1>k. /\ ingestDone \subseteq docs /\ (snapPubs # <<>> => snapshot # {})
      /\ \A p \in Post : postPubs[p] > 0 => p \in docs
      /\ pc[w] \in Past => Entry(w).post \in docs
      /\ pc[w] = "publish" => snapshot # {}
    BY DEF StoredFirst
<1>c. "publishPost" \in Steps /\ (pc[w] \notin {"loop", "escaped", "dead"} => pc[w] \in CanRaise)
    BY <1>s DEF CanRaise, Steps
<1>q. ASSUME UNCHANGED <<docs, snapshot, snapPubs, postPubs, ingestDone>>,
             \A i \in 1 .. Len(stream) : stream'[i] = stream[i],
             pc[w] \in CanRaise \ {"mark"}, NEW s \in Steps \ {"ack", "mark", "publishPost", "publish"}, Proceed(w, s)
      PROVE  StoredFirst'
    BY <1>k, <1>q, ProceedPast, StoredFrame DEF Past
<1>1. CASE StartMessage(w)
    <2>1. /\ UNCHANGED <<docs, snapshot, snapPubs, postPubs, ingestDone, stream>>
          /\ \A v \in Worker \ {w} : pc'[v] = pc[v] /\ cur'[v] = cur[v]
          /\ pc'[w] \in {"escaped", "dlqBad", "ingest"}
        BY <1>1, <1>s DEF StartMessage, GoTo, queueVars, pubVars
    <2> QED BY <1>k, <2>1, StoredFrame DEF Past
<1>2. CASE SetFailed(w)
    <2>1. /\ UNCHANGED <<docs, snapshot, snapPubs, postPubs, ingestDone, stream, cur>>
          /\ \A v \in Worker \ {w} : pc'[v] = pc[v]
          /\ pc'[w] = "failed"
        BY <1>2, <1>s DEF SetFailed, GoTo, queueVars, dbVars, pubVars
    <2> QED BY <1>k, <2>1, StoredFrame DEF Past
<1> USE DEF queueVars, dbVars, pubVars, Steps, Section
<1>3. CASE DlqBad(w)
    BY <1>3, <1>q, <1>c DEF DlqBad, SendToDlq
<1>4. CASE AckBad(w)
    BY <1>4, <1>q, <1>c DEF AckBad, Ack
<1>5. CASE SetMetadata(w) \/ AddDocId(w)
    BY <1>5, <1>q, <1>c DEF SetMetadata, AddDocId
<1>6. CASE CountCompleted(w)
    <2>1. \E s \in {"lock", "loop"} : Proceed(w, s)
        BY <1>6 DEF CountCompleted
    <2> QED BY <1>6, <1>q, <1>c, <2>1 DEF CountCompleted
<1>7. CASE LockSnapshot(w)
    <2>1. \E s \in {"snapshot", "getStatus"} : Proceed(w, s)
        BY <1>7 DEF LockSnapshot
    <2> QED BY <1>7, <1>q, <1>c, <2>1 DEF LockSnapshot
<1>8. CASE GetStatus(w)
    <2>1. \E s \in {"loop", "reclaim"} : Proceed(w, s)
        BY <1>8 DEF GetStatus
    <2> QED BY <1>8, <1>q, <1>c, <2>1 DEF GetStatus
<1>9. CASE ReclaimFailed(w)
    <2>1. \E s \in {"snapshot", "loop"} : Proceed(w, s)
        BY <1>9 DEF ReclaimFailed
    <2> QED BY <1>9, <1>q, <1>c, <2>1 DEF ReclaimFailed
<1>10. CASE SetCompleted(w)
    BY <1>10, <1>q, <1>c DEF SetCompleted
<1>11. CASE RetryOrDlq(w)
    <2>1. \A i \in 1 .. Len(stream) : stream'[i] = stream[i]
        <3>1. Entry(w) \in Fields
            BY <1>11, <1>c, EntryType DEF RetryOrDlq
        <3>2. [Entry(w) EXCEPT !.retry = @ + 1] \in Fields
            BY <3>1 DEF Fields
        <3>3. ASSUME Requeue([Entry(w) EXCEPT !.retry = @ + 1]) PROVE \A i \in 1 .. Len(stream) : stream'[i] = stream[i]
            BY <3>2, <3>3, RequeueType DEF TypeInv
        <3>4. ASSUME SendToDlq(Entry(w)) PROVE \A i \in 1 .. Len(stream) : stream'[i] = stream[i]
            BY <3>4 DEF SendToDlq
        <3> QED BY <1>11, <3>3, <3>4 DEF RetryOrDlq
    <2> QED BY <1>11, <1>q, <1>c, <2>1 DEF RetryOrDlq
<1>12. CASE AckFailed(w)
    BY <1>12, <1>q, <1>c DEF AckFailed, Ack
<1>13. CASE Ingest(w)
    <2>1. /\ docs' = docs \cup {Entry(w).post} /\ pc[w] = "ingest" /\ Proceed(w, "ack")
          /\ UNCHANGED <<stream, snapshot, snapPubs, postPubs, ingestDone>>
        BY <1>13 DEF Ingest
    <2>2. pc'[w] = "ack" \/ pc'[w] = "failed"
        BY <1>c, <2>1, ProceedPast DEF Catch
    <2> QED BY <1>c, <1>k, <2>1, <2>2, ProceedPast, StoredFrame DEF Past
<1>14. CASE AckIngested(w)
    <2>1. /\ pc[w] = "ack" /\ \E s \in {"meta", "mark", "loop"} : Proceed(w, s)
          /\ UNCHANGED <<docs, stream, snapshot, snapPubs, postPubs, ingestDone>>
        BY <1>14 DEF AckIngested, Ack
    <2>2. pc'[w] \in {"meta", "mark", "loop", "failed"}
        BY <1>c, <2>1, ProceedPast DEF Catch
    <2> QED BY <1>c, <1>k, <2>1, <2>2, ProceedPast, StoredFrame DEF Past
<1>15. CASE CreateSnapshot(w)
    <2>1. /\ pc[w] = "snapshot" /\ snapshot' = SnapshotRow(docIds)
          /\ Proceed(w, IF SnapshotRow(docIds) = {} THEN "setFailed" ELSE "publish")
          /\ UNCHANGED <<docs, stream, snapPubs, postPubs, ingestDone>>
        BY <1>15 DEF CreateSnapshot
    <2>2. snapshot # {} => snapshot' # {}
        BY <2>1 DEF SnapshotRow
    <2>3. pc'[w] = "publish" => snapshot' # {}
        BY <1>s, <2>1 DEF Proceed, GoTo, Catch
    <2>4. pc'[w] \notin Past
        BY <1>s, <2>1 DEF Proceed, GoTo, Catch, Past
    <2>5. \A v \in Worker \ {w} : pc'[v] = pc[v] /\ cur'[v] = cur[v]
        BY <1>s, <2>1 DEF Proceed, GoTo
    <2> QED BY <1>k, <2>1, <2>2, <2>3, <2>4, <2>5, StoredFrame
<1>16. CASE PublishSnapshot(w)
    <2>1. /\ pc[w] = "publish" /\ Proceed(w, "setCompleted")
          /\ UNCHANGED <<docs, stream, snapshot, postPubs, ingestDone>>
        BY <1>16 DEF PublishSnapshot
    <2>2. pc'[w] \in {"setCompleted", "setFailed"}
        BY <1>c, <2>1, ProceedPast DEF Catch
    <2> QED BY <1>c, <1>k, <2>1, <2>2, ProceedPast, StoredFrame DEF Past
<1>17. CASE MarkDone(w)
    <2>1. /\ pc[w] = "mark" /\ Proceed(w, "publishPost") /\ ingestDone' = ingestDone \cup {Entry(w).post}
          /\ UNCHANGED <<docs, stream, snapshot, snapPubs, postPubs>>
        BY <1>17 DEF MarkDone
    <2>2. pc'[w] = "publishPost"
        BY <1>c, <2>1, ProceedPast DEF Catch
    <2> QED BY <1>c, <1>k, <2>1, <2>2, ProceedPast, StoredFrame DEF Past
<1>18. CASE PublishPost(w)
    <2>1. /\ pc[w] = "publishPost" /\ Proceed(w, "loop") /\ postPubs' = [postPubs EXCEPT ![Entry(w).post] = @ + 1]
          /\ UNCHANGED <<docs, stream, snapshot, snapPubs, ingestDone>>
        BY <1>18 DEF PublishPost
    <2>2. pc'[w] \in {"loop", "failed"}
        BY <1>c, <2>1, ProceedPast DEF Catch
    <2>3. \A p \in Post : postPubs'[p] > 0 => p \in docs'
        BY <1>s, <1>k, <2>1 DEF Past
    <2> QED BY <1>c, <1>k, <2>1, <2>2, <2>3, ProceedPast, StoredFrame DEF Past
<1> QED
    BY <1>1, <1>2, <1>3, <1>4, <1>5, <1>6, <1>7, <1>8, <1>9, <1>10, <1>11, <1>12, <1>13, <1>14, <1>15, <1>16, <1>17,
       <1>18 DEF Handle

LEMMA StoredNext == TypeInv /\ StoredFirst /\ [Next]_vars => StoredFirst'
<1> SUFFICES ASSUME TypeInv, StoredFirst, [Next]_vars PROVE StoredFirst'
    OBVIOUS
<1>s. stream \in Seq(Fields) /\ pc \in [Worker -> Steps] /\ cur \in [Worker -> 0 .. lastId]
    BY DEF TypeInv, QueueTypeOK, LocalOK
<1>k. /\ ingestDone \subseteq docs /\ (snapPubs # <<>> => snapshot # {})
      /\ \A p \in Post : postPubs[p] > 0 => p \in docs
      /\ \A w \in Worker : pc[w] = "publish" => snapshot # {}
      /\ \A w \in Worker : pc[w] \in Past => Entry(w).post \in docs /\ pc[w] \in CanRaise
    BY DEF StoredFirst, Past, CanRaise, Steps
<1>e. ASSUME UNCHANGED <<docs, snapshot, snapPubs, postPubs, ingestDone, pc, cur>>,
             \A i \in 1 .. Len(stream) : stream'[i] = stream[i]
      PROVE  StoredFirst'
    <2>1. \A w \in Worker : pc[w] \in Past => cur[w] \in 1 .. Len(stream)
        BY <1>k DEF TypeInv, LocalOK, QueueTypeOK
    <2>2. \A w \in Worker : pc[w] \in Past => Entry(w)' = Entry(w)
        BY <1>e, <2>1 DEF Entry
    <2> QED BY <1>e, <1>k, <2>2 DEF StoredFirst
<1>1. ASSUME NEW p \in Post, Crawl(p) PROVE StoredFirst'
    <2>1. [post |-> p, retry |-> 0] \in Fields
        BY DEF Fields
    <2>2. \A i \in 1 .. Len(stream) : stream'[i] = stream[i]
        BY <1>1, <2>1, RequeueType DEF Crawl, TypeInv
    <2> QED BY <1>1, <1>e, <2>2 DEF Crawl, localVars, dbVars, pubVars
<1>2. CASE DeadlinePasses
    BY <1>2, <1>e DEF DeadlinePasses, queueVars, localVars, dbVars, pubVars
<1>3. ASSUME NEW w \in Worker, Poll(w) PROVE StoredFirst'
    BY <1>3, <1>e DEF Poll, ClaimPending, ReadNew, Read, queueVars, dbVars, pubVars
<1>4. ASSUME NEW w \in Worker, Handle(w) PROVE StoredFirst'
    BY <1>4, TypeNext, StoredHandle DEF Next
<1>5. ASSUME NEW w \in Worker, Raise(w) PROVE StoredFirst'
    <2>1. /\ UNCHANGED <<docs, stream, snapshot, snapPubs, postPubs, ingestDone, cur>>
          /\ \A v \in Worker \ {w} : pc'[v] = pc[v]
          /\ pc[w] \in CanRaise /\ pc'[w] = Catch(pc[w])
        BY <1>5, <1>s DEF Raise, GoTo, queueVars, dbVars, pubVars
    <2>2. Catch(pc[w]) # "publish" /\ (Catch(pc[w]) \in Past => pc[w] = "mark")
        BY DEF Catch, Past
    <2>3. pc[w] = "mark" => Entry(w).post \in docs
        BY <1>k DEF Past
    <2> QED BY <1>k, <2>1, <2>2, <2>3, StoredFrame
<1>6. ASSUME NEW w \in Worker, Crash(w) \/ Exit(w) \/ Restart(w) PROVE StoredFirst'
    <2>1. /\ UNCHANGED <<docs, stream, snapshot, snapPubs, postPubs, ingestDone>>
          /\ \A v \in Worker \ {w} : pc'[v] = pc[v] /\ cur'[v] = cur[v]
          /\ pc'[w] \in {"dead", "loop"}
        BY <1>6, <1>s DEF Crash, Exit, Restart, Die, GoTo, queueVars, dbVars, pubVars
    <2> QED BY <1>k, <2>1, StoredFrame DEF Past
<1>7. CASE UNCHANGED vars
    BY <1>7, <1>e DEF vars, queueVars, localVars, dbVars, pubVars
<1> QED BY <1>1, <1>2, <1>3, <1>4, <1>5, <1>6, <1>7 DEF Next

(* A key is set and a message published for what is committed: the row of the post, or of the batch   *)
(* (ingest_worker.py:135, :294).                                                                     *)
THEOREM PublishedAreStored == Spec => []StoredFirst
<1>1. Init => TypeInv /\ StoredFirst
    BY TypeInit, StoredInit
<1>2. TypeInv /\ StoredFirst /\ [Next]_vars => TypeInv' /\ StoredFirst'
    BY TypeNext, StoredNext
<1> QED BY <1>1, <1>2, PTL DEF Spec

-----------------------------------------------------------------------------
(* CreatingOwned: who leaves the section with the status "creating" died, or a Redis command raised. *)

(* A worker in the section stays there, or the status is another one. *)
LEMMA SectionKept ==
    ASSUME TypeInv, [Next]_vars, crashes' = 0, redisFaults' = 0, NEW w \in Worker, pc[w] \in Section
    PROVE  pc'[w] \in Section \/ status' # "creating"
<1>f. /\ pc \in [Worker -> Steps] /\ {crashes, redisFaults} \subseteq Nat
      /\ {"snapshot", "publish", "setCompleted", "setFailed"} = Section
      /\ {"loop", "dlqBad", "ackBad", "ingest", "ack", "meta", "sadd", "incr", "lock", "getStatus",
          "reclaim", "mark", "publishPost", "failed", "ackFailed", "escaped", "dead"} \cap Section = {}
    BY DEF TypeInv, LocalOK, CountersOK, Section
<1>o. ASSUME NEW v \in Worker \ {w}, NEW s, pc' = [pc EXCEPT ![v] = s] PROVE pc'[w] \in Section
    BY <1>f, <1>o
<1>h. ASSUME NEW v \in Worker, NEW s, v # w \/ s \in Section, pc' = [pc EXCEPT ![v] = s] PROVE pc'[w] \in Section
    BY <1>f, <1>h
<1>c. ASSUME NEW s \in {"snapshot", "publish", "setCompleted"} PROVE Catch(s) \in Section
    BY <1>f DEF Catch
<1>1. CASE \/ UNCHANGED vars \/ DeadlinePasses \/ \E p \in Post : Crawl(p)
           \/ \E v \in Worker : Poll(v)
    BY <1>1 DEF vars, DeadlinePasses, Crawl, Poll, ClaimPending, ReadNew, localVars
<1>2. ASSUME NEW v \in Worker \ {w}, Handle(v) \/ Raise(v) \/ Crash(v) \/ Exit(v) \/ Restart(v)
      PROVE  pc'[w] \in Section
    <2>1. \E s : pc' = [pc EXCEPT ![v] = s]
        BY <1>2 DEF Handle, StartMessage, DlqBad, AckBad, Ingest, AckIngested, SetMetadata, AddDocId, CountCompleted,
                    LockSnapshot, GetStatus, ReclaimFailed, CreateSnapshot, PublishSnapshot, SetCompleted, SetFailed,
                    MarkDone, PublishPost, RetryOrDlq, AckFailed, Raise, Crash, Exit, Restart, Die, Proceed, GoTo
    <2> QED BY <1>o, <2>1
<1>3. CASE CreateSnapshot(w)
    <2>1. \E s \in Section : pc' = [pc EXCEPT ![w] = s]
        BY <1>3, <1>f, <1>c DEF CreateSnapshot, Proceed, GoTo
    <2> QED BY <1>h, <2>1
<1>4. CASE PublishSnapshot(w)
    <2>1. \E s \in Section : pc' = [pc EXCEPT ![w] = s]
        BY <1>4, <1>f, <1>c DEF PublishSnapshot, Proceed, GoTo
    <2> QED BY <1>h, <2>1
<1>5. CASE SetCompleted(w) \/ SetFailed(w)
    BY <1>5 DEF SetCompleted, SetFailed
<1>6. CASE Raise(w)
    <2>1. CASE pc[w] = "setFailed"
        <3>1. redisFaults' = redisFaults + 1
            BY <1>6, <2>1 DEF Raise, ChargeFault, WorkSteps
        <3> QED BY <1>f, <3>1
    <2>2. CASE pc[w] # "setFailed"
        BY <1>6, <1>c, <1>f, <1>h, <2>2 DEF Raise, GoTo
    <2> QED BY <2>1, <2>2
<1>7. CASE Crash(w)
    BY <1>7, <1>f DEF Crash
<1>8. ~Exit(w) /\ ~Restart(w)
    BY <1>f DEF Exit, Restart
<1>9. Handle(w) => CreateSnapshot(w) \/ PublishSnapshot(w) \/ SetCompleted(w) \/ SetFailed(w)
    BY <1>f DEF Handle, StartMessage, DlqBad, AckBad, Ingest, AckIngested, SetMetadata, AddDocId, CountCompleted,
            LockSnapshot, GetStatus, ReclaimFailed, MarkDone, PublishPost, RetryOrDlq, AckFailed
<1> QED BY <1>1, <1>2, <1>3, <1>4, <1>5, <1>6, <1>7, <1>8, <1>9 DEF Next

(* Who sets "creating" is in the section then. *)
LEMMA CreatingTaken ==
    ASSUME TypeInv, [Next]_vars, redisFaults' = 0, status # "creating", status' = "creating"
    PROVE  \E w \in Worker : pc'[w] \in Section
<1>f. pc \in [Worker -> Steps] /\ redisFaults \in Nat
    BY DEF TypeInv, LocalOK, CountersOK
<1>1. PICK w \in Worker : LockSnapshot(w) \/ ReclaimFailed(w)
    <2>1. PICK w \in Worker : Poll(w) \/ Handle(w) \/ Raise(w) \/ Crash(w) \/ Exit(w) \/ Restart(w)
        BY DEF Next, vars, batchVars, Crawl, DeadlinePasses
    <2>2. ~(Poll(w) \/ Raise(w) \/ Crash(w) \/ Exit(w) \/ Restart(w))
        BY DEF Poll, ClaimPending, ReadNew, Raise, Crash, Exit, Die, Restart, batchVars
    <2>3. ~(StartMessage(w) \/ DlqBad(w) \/ AckBad(w) \/ Ingest(w) \/ AckIngested(w) \/ SetMetadata(w) \/ AddDocId(w)
            \/ CountCompleted(w))
        BY DEF StartMessage, DlqBad, AckBad, Ingest, AckIngested, SetMetadata, AddDocId, CountCompleted, batchVars
    <2>4. ~(GetStatus(w) \/ CreateSnapshot(w) \/ PublishSnapshot(w) \/ SetCompleted(w) \/ SetFailed(w)
            \/ MarkDone(w) \/ PublishPost(w) \/ RetryOrDlq(w) \/ AckFailed(w))
        BY DEF GetStatus, CreateSnapshot, PublishSnapshot, SetCompleted, SetFailed, MarkDone, PublishPost, RetryOrDlq,
               AckFailed, batchVars
    <2> QED BY <2>1, <2>2, <2>3, <2>4 DEF Handle
<1>2. pc[w] \in {"lock", "reclaim"} /\ Proceed(w, "snapshot")
    BY <1>1 DEF LockSnapshot, ReclaimFailed
<1>3. ~ChargeFault(pc[w])
    BY <1>2, <1>f DEF ChargeFault, WorkSteps
<1>4. pc' = [pc EXCEPT ![w] = "snapshot"]
    BY <1>2, <1>3 DEF Proceed, GoTo
<1> QED BY <1>4, <1>f DEF Section

LEMMA FaultsOnlyGrow ==
    ASSUME TypeInv, [Next]_vars
    PROVE  crashes <= crashes' /\ redisFaults <= redisFaults'
<1>f. crashes \in Nat /\ redisFaults \in Nat
    BY DEF TypeInv, CountersOK
<1>u. ASSUME UNCHANGED faultVars PROVE crashes <= crashes' /\ redisFaults <= redisFaults'
    BY <1>f, <1>u DEF faultVars
<1>p. ASSUME NEW w \in Worker, NEW s, Proceed(w, s) PROVE crashes <= crashes' /\ redisFaults <= redisFaults'
    BY <1>f, <1>p DEF Proceed, ChargeFault, faultVars
<1>1. CASE UNCHANGED vars \/ DeadlinePasses \/ \E p \in Post : Crawl(p)
    BY <1>1, <1>u DEF vars, DeadlinePasses, Crawl
<1>2. ASSUME NEW w \in Worker, Poll(w) PROVE crashes <= crashes' /\ redisFaults <= redisFaults'
    BY <1>2, <1>f DEF Poll, ClaimPending, ReadNew, faultVars
<1>3. ASSUME NEW w \in Worker, Raise(w) \/ Crash(w) \/ Exit(w) \/ Restart(w)
      PROVE  crashes <= crashes' /\ redisFaults <= redisFaults'
    BY <1>3, <1>f DEF Raise, ChargeFault, Crash, Exit, Restart, faultVars
<1>4. ASSUME NEW w \in Worker, StartMessage(w) \/ SetFailed(w)
      PROVE  crashes <= crashes' /\ redisFaults <= redisFaults'
    BY <1>4, <1>u DEF StartMessage, SetFailed
<1>5. ASSUME NEW w \in Worker, Handle(w), ~(StartMessage(w) \/ SetFailed(w)) PROVE \E s : Proceed(w, s)
    BY <1>5 DEF Handle, DlqBad, AckBad, Ingest, AckIngested, SetMetadata, AddDocId, CountCompleted,
                LockSnapshot, GetStatus, ReclaimFailed, CreateSnapshot, PublishSnapshot, SetCompleted,
                MarkDone, PublishPost, RetryOrDlq, AckFailed
<1> QED BY <1>1, <1>2, <1>3, <1>4, <1>5, <1>p DEF Next

(* An error of the database, the LLM or RabbitMQ never leaves the batch locked with nobody at work    *)
(* (ingest_worker.py:231).                                                                           *)
THEOREM LockedIsOwned == Spec => []CreatingOwned
<1>1. Init => TypeInv /\ CreatingOwned
    BY TypeInit DEF Init, CreatingOwned
<1>2. TypeInv /\ CreatingOwned /\ [Next]_vars => TypeInv' /\ CreatingOwned'
    <2> SUFFICES ASSUME TypeInv, CreatingOwned, [Next]_vars, status' = "creating", crashes' = 0, redisFaults' = 0
                 PROVE  \E w \in Worker : pc'[w] \in Section
        BY TypeNext DEF CreatingOwned
    <2>1. {crashes, redisFaults} \subseteq Nat /\ crashes <= crashes' /\ redisFaults <= redisFaults'
        BY FaultsOnlyGrow DEF TypeInv, CountersOK
    <2>2. crashes = 0 /\ redisFaults = 0
        BY <2>1
    <2>3. CASE status = "creating"
        <3>1. PICK w \in Worker : pc[w] \in Section
            BY <2>2, <2>3 DEF CreatingOwned
        <3> QED BY <3>1, SectionKept
    <2>4. CASE status # "creating"
        BY <2>4, CreatingTaken
    <2> QED BY <2>3, <2>4
<1> QED BY <1>1, <1>2, PTL DEF Spec

(* Whatever raises, crashes or is delivered twice, at most one worker builds a batch's snapshot; and the *)
(* batch is not locked with nobody at work unless a worker died or a Redis command raised.               *)
THEOREM OneSnapshotOwner == Spec => []SnapshotOwner
<1>1. LockInv /\ CreatingOwned => SnapshotOwner
    BY DEF LockInv, SnapshotOwner
<1> QED BY <1>1, LockInvariant, LockedIsOwned, PTL

-----------------------------------------------------------------------------
(***************************************************************************)
(* SourcesCommitted.  The set of ids holds committed posts only, and all   *)
(* that the snapshot was built from; so does what a worker read of it      *)
(* before it publishes.                                                    *)
(***************************************************************************)

Batched == {"meta", "sadd"}

Named ==
    /\ docIds \subseteq docs /\ snapshot \subseteq docIds
    /\ \A w \in Worker : pc[w] \in Batched => Entry(w).post \in docs
    /\ \A w \in Worker : pc[w] = "publish" => snapshot \subseteq ids[w] /\ ids[w] \subseteq docs
    /\ \A i \in DOMAIN snapPubs : snapshot \subseteq snapPubs[i] /\ snapPubs[i] \subseteq docs

(* A step of worker w: the others keep what they have read, and a snapshot once built stays. *)
LEMMA NamedFrame ==
    ASSUME TypeInv, StoredFirst, Named, NEW w \in Worker,
           \A v \in Worker \ {w} : pc'[v] = pc[v] /\ cur'[v] = cur[v] /\ ids'[v] = ids[v],
           \A i \in 1 .. Len(stream) : stream'[i] = stream[i],
           docs \subseteq docs', docIds' \subseteq docs', snapshot' \subseteq docIds',
           snapshot' = snapshot \/ snapshot = {},
           pc'[w] \in Batched => pc[w] \in CanRaise /\ cur'[w] = cur[w] /\ Entry(w).post \in docs',
           pc'[w] = "publish" => snapshot' \subseteq ids'[w] /\ ids'[w] \subseteq docs',
           \A i \in DOMAIN snapPubs' : snapshot' \subseteq snapPubs'[i] /\ snapPubs'[i] \subseteq docs'
    PROVE  Named'
<1>1. ASSUME NEW v \in Worker, pc[v] \in CanRaise, cur'[v] = cur[v] PROVE Entry(v)' = Entry(v)
    <2>1. cur[v] \in 1 .. Len(stream)
        BY <1>1 DEF TypeInv, LocalOK, QueueTypeOK
    <2> QED BY <1>1, <2>1 DEF Entry
<1>2. ASSUME NEW v \in Worker, pc'[v] \in Batched PROVE Entry(v)'.post \in docs'
    <2>1. CASE v = w
        BY <1>1, <1>2, <2>1
    <2>2. CASE v # w
        <3>1. pc[v] \in CanRaise /\ cur'[v] = cur[v] /\ Entry(v).post \in docs
            BY <1>2, <2>2 DEF Named, Batched, CanRaise, Steps
        <3> QED BY <1>1, <3>1
    <2> QED BY <2>1, <2>2
<1>3. ASSUME NEW v \in Worker, pc'[v] = "publish" PROVE snapshot' \subseteq ids'[v] /\ ids'[v] \subseteq docs'
    <2>1. CASE v # w
        <3>1. pc[v] = "publish" /\ ids'[v] = ids[v] /\ snapshot # {}
            BY <1>3, <2>1 DEF StoredFirst
        <3> QED BY <3>1 DEF Named
    <2> QED BY <1>3, <2>1
<1> QED BY <1>2, <1>3 DEF Named

LEMMA NamedHandle ==
    ASSUME TypeInv, StoredFirst, Named, NEW w \in Worker, Handle(w)
    PROVE  Named'
<1>s. /\ stream \in Seq(Fields) /\ pc \in [Worker -> Steps] /\ cur \in [Worker -> 0 .. lastId]
      /\ ids \in [Worker -> SUBSET Post] /\ snapPubs \in Seq(SUBSET Post)
    BY DEF TypeInv, QueueTypeOK, LocalOK, DataOK
<1>k. /\ docIds \subseteq docs /\ snapshot \subseteq docIds
      /\ pc[w] \in Batched => Entry(w).post \in docs
      /\ pc[w] = "publish" => snapshot \subseteq ids[w] /\ ids[w] \subseteq docs /\ snapshot # {}
      /\ \A i \in DOMAIN snapPubs : snapshot \subseteq snapPubs[i] /\ snapPubs[i] \subseteq docs
      /\ snapPubs # <<>> => snapshot # {}
    BY DEF Named, StoredFirst
<1>c. pc[w] \notin {"loop", "escaped", "dead"} => pc[w] \in CanRaise
    BY <1>s DEF CanRaise, Steps
<1>p. ASSUME NEW s, Proceed(w, s)
      PROVE  /\ \A v \in Worker \ {w} : pc'[v] = pc[v] /\ cur'[v] = cur[v]
             /\ pc'[w] \in {s, Catch(pc[w])} /\ (pc'[w] # "loop" => cur'[w] = cur[w])
             /\ Catch(pc[w]) \notin Batched \cup {"publish"}
    BY <1>p, <1>s DEF Proceed, GoTo, Catch, Batched
<1>q. ASSUME UNCHANGED <<ids, docs, docIds, snapshot, snapPubs>>,
             \A i \in 1 .. Len(stream) : stream'[i] = stream[i],
             NEW s, s \notin {"meta", "sadd", "publish"}, Proceed(w, s)
      PROVE  Named'
    BY <1>k, <1>p, <1>q, NamedFrame DEF Batched
<1>1. CASE StartMessage(w)
    <2>1. /\ UNCHANGED <<ids, docs, docIds, snapshot, snapPubs, stream>>
          /\ \A v \in Worker \ {w} : pc'[v] = pc[v] /\ cur'[v] = cur[v]
          /\ pc'[w] \in {"escaped", "dlqBad", "ingest"}
        BY <1>1, <1>s DEF StartMessage, GoTo, queueVars, batchVars, pubVars
    <2> QED BY <1>k, <2>1, NamedFrame DEF Batched
<1>2. CASE SetFailed(w)
    <2>1. /\ UNCHANGED <<docs, docIds, snapshot, snapPubs, stream, cur>>
          /\ \A v \in Worker \ {w} : pc'[v] = pc[v] /\ ids'[v] = ids[v]
          /\ pc'[w] = "failed"
        BY <1>2, <1>s DEF SetFailed, GoTo, queueVars, dbVars, pubVars
    <2> QED BY <1>k, <2>1, NamedFrame DEF Batched
<1> USE DEF queueVars, dbVars, batchVars, pubVars
<1>3. CASE DlqBad(w)
    BY <1>3, <1>q DEF DlqBad, SendToDlq
<1>4. CASE AckBad(w)
    BY <1>4, <1>q DEF AckBad, Ack
<1>5. CASE Ingest(w)
    <2>1. /\ docs' = docs \cup {Entry(w).post} /\ Proceed(w, "ack")
          /\ UNCHANGED <<stream, ids, docIds, snapshot, snapPubs>>
        BY <1>5 DEF Ingest
    <2> QED BY <1>k, <1>p, <2>1, NamedFrame DEF Batched
<1>6. CASE AckIngested(w)
    <2>1. /\ pc[w] = "ack" /\ \E s \in {"meta", "mark", "loop"} : Proceed(w, s)
          /\ UNCHANGED <<stream, ids, docs, docIds, snapshot, snapPubs>>
        BY <1>6 DEF AckIngested, Ack
    <2>2. Entry(w).post \in docs
        BY <2>1 DEF StoredFirst, Past
    <2> QED BY <1>c, <1>k, <1>p, <2>1, <2>2, NamedFrame DEF Batched
<1>7. CASE SetMetadata(w)
    <2>1. /\ pc[w] = "meta" /\ Proceed(w, "sadd")
          /\ UNCHANGED <<stream, ids, docs, docIds, snapshot, snapPubs>>
        BY <1>7 DEF SetMetadata
    <2> QED BY <1>c, <1>k, <1>p, <2>1, NamedFrame DEF Batched
<1>8. CASE AddDocId(w)
    <2>1. /\ pc[w] = "sadd" /\ Proceed(w, "incr") /\ docIds' = docIds \cup {Entry(w).post}
          /\ UNCHANGED <<stream, ids, docs, snapshot, snapPubs>>
        BY <1>8 DEF AddDocId
    <2> QED BY <1>k, <1>p, <2>1, NamedFrame DEF Batched
<1>9. CASE CountCompleted(w)
    <2>1. \E s \in {"lock", "loop"} : Proceed(w, s)
        BY <1>9 DEF CountCompleted
    <2> QED BY <1>9, <1>q, <2>1 DEF CountCompleted
<1>10. CASE LockSnapshot(w)
    <2>1. \E s \in {"snapshot", "getStatus"} : Proceed(w, s)
        BY <1>10 DEF LockSnapshot
    <2> QED BY <1>10, <1>q, <2>1 DEF LockSnapshot
<1>11. CASE GetStatus(w)
    <2>1. \E s \in {"loop", "reclaim"} : Proceed(w, s)
        BY <1>11 DEF GetStatus
    <2> QED BY <1>11, <1>q, <2>1 DEF GetStatus
<1>12. CASE ReclaimFailed(w)
    <2>1. \E s \in {"snapshot", "loop"} : Proceed(w, s)
        BY <1>12 DEF ReclaimFailed
    <2> QED BY <1>12, <1>q, <2>1 DEF ReclaimFailed
<1>13. CASE CreateSnapshot(w)
    <2>1. /\ ids' = [ids EXCEPT ![w] = docIds] /\ snapshot' = SnapshotRow(docIds)
          /\ \E s \in {"setFailed", "publish"} : Proceed(w, s)
          /\ UNCHANGED <<stream, docs, docIds, snapPubs>>
        BY <1>13 DEF CreateSnapshot
    <2>2. snapshot' \subseteq docIds /\ (snapshot' = snapshot \/ snapshot = {})
        BY <1>k, <2>1 DEF SnapshotRow
    <2>3. ids'[w] = docIds /\ \A v \in Worker \ {w} : ids'[v] = ids[v]
        BY <1>s, <2>1
    <2>4. \A i \in DOMAIN snapPubs' : snapshot' \subseteq snapPubs'[i] /\ snapPubs'[i] \subseteq docs'
        BY <1>k, <1>s, <2>1, <2>2
    <2>5. /\ \A v \in Worker \ {w} : pc'[v] = pc[v] /\ cur'[v] = cur[v]
          /\ pc'[w] \notin Batched
        BY <1>p, <2>1 DEF Batched
    <2> QED BY <1>k, <2>1, <2>2, <2>3, <2>4, <2>5, NamedFrame
<1>14. CASE PublishSnapshot(w)
    <2>1. /\ pc[w] = "publish" /\ snapPubs' = Append(snapPubs, ids[w]) /\ ids' = [ids EXCEPT ![w] = {}]
          /\ Proceed(w, "setCompleted")
          /\ UNCHANGED <<stream, docs, docIds, snapshot>>
        BY <1>14 DEF PublishSnapshot
    <2>2. ids[w] \in SUBSET Post /\ \A v \in Worker \ {w} : ids'[v] = ids[v]
        BY <1>s, <2>1
    <2>3. \A i \in DOMAIN snapPubs' : snapPubs'[i] = ids[w] \/ (i \in DOMAIN snapPubs /\ snapPubs'[i] = snapPubs[i])
        BY <1>s, <2>1, <2>2
    <2>4. \A i \in DOMAIN snapPubs' : snapshot' \subseteq snapPubs'[i] /\ snapPubs'[i] \subseteq docs'
        BY <1>k, <2>1, <2>3
    <2>5. /\ \A v \in Worker \ {w} : pc'[v] = pc[v] /\ cur'[v] = cur[v]
          /\ pc'[w] \notin Batched \cup {"publish"}
        BY <1>p, <2>1 DEF Batched
    <2> QED BY <1>k, <2>1, <2>2, <2>4, <2>5, NamedFrame
<1>15. CASE SetCompleted(w)
    BY <1>15, <1>q DEF SetCompleted
<1>16. CASE MarkDone(w)
    BY <1>16, <1>q DEF MarkDone
<1>17. CASE PublishPost(w)
    BY <1>17, <1>q DEF PublishPost
<1>18. CASE RetryOrDlq(w)
    <2>1. \A i \in 1 .. Len(stream) : stream'[i] = stream[i]
        <3>1. Entry(w) \in Fields
            BY <1>18, <1>c, EntryType DEF RetryOrDlq
        <3>2. [Entry(w) EXCEPT !.retry = @ + 1] \in Fields
            BY <3>1 DEF Fields
        <3>3. ASSUME Requeue([Entry(w) EXCEPT !.retry = @ + 1]) PROVE \A i \in 1 .. Len(stream) : stream'[i] = stream[i]
            BY <3>2, <3>3, RequeueType DEF TypeInv
        <3> QED BY <1>18, <3>3 DEF RetryOrDlq, SendToDlq
    <2> QED BY <1>18, <1>q, <2>1 DEF RetryOrDlq
<1>19. CASE AckFailed(w)
    BY <1>19, <1>q DEF AckFailed, Ack
<1> QED
    BY <1>1, <1>2, <1>3, <1>4, <1>5, <1>6, <1>7, <1>8, <1>9, <1>10, <1>11, <1>12, <1>13, <1>14, <1>15, <1>16, <1>17,
       <1>18, <1>19 DEF Handle

LEMMA NamedNext == TypeInv /\ StoredFirst /\ Named /\ [Next]_vars => Named'
<1> SUFFICES ASSUME TypeInv, StoredFirst, Named, [Next]_vars PROVE Named'
    OBVIOUS
<1>s. stream \in Seq(Fields) /\ pc \in [Worker -> Steps] /\ cur \in [Worker -> 0 .. lastId] /\ ids \in [Worker -> SUBSET Post]
    BY DEF TypeInv, QueueTypeOK, LocalOK, DataOK
<1>k. /\ docIds \subseteq docs /\ snapshot \subseteq docIds
      /\ \A i \in DOMAIN snapPubs : snapshot \subseteq snapPubs[i] /\ snapPubs[i] \subseteq docs
      /\ \A w \in Worker : pc[w] \in Batched => Entry(w).post \in docs /\ pc[w] \in CanRaise
    BY DEF Named, Batched, CanRaise, Steps
<1>e. ASSUME UNCHANGED <<docs, docIds, snapshot, snapPubs, pc, cur, ids>>,
             \A i \in 1 .. Len(stream) : stream'[i] = stream[i]
      PROVE  Named'
    <2>1. \A w \in Worker : pc[w] \in Batched => cur[w] \in 1 .. Len(stream)
        BY <1>k DEF TypeInv, LocalOK, QueueTypeOK
    <2>2. \A w \in Worker : pc[w] \in Batched => Entry(w)' = Entry(w)
        BY <1>e, <2>1 DEF Entry
    <2> QED BY <1>e, <1>k, <2>2 DEF Named
<1>1. ASSUME NEW p \in Post, Crawl(p) PROVE Named'
    <2>1. [post |-> p, retry |-> 0] \in Fields
        BY DEF Fields
    <2>2. \A i \in 1 .. Len(stream) : stream'[i] = stream[i]
        BY <1>1, <2>1, RequeueType DEF Crawl, TypeInv
    <2> QED BY <1>1, <1>e, <2>2 DEF Crawl, localVars, dbVars, batchVars, pubVars
<1>2. CASE DeadlinePasses
    BY <1>2, <1>e DEF DeadlinePasses, queueVars, localVars, dbVars, pubVars
<1>3. ASSUME NEW w \in Worker, Poll(w) PROVE Named'
    BY <1>3, <1>e DEF Poll, ClaimPending, ReadNew, Read, queueVars, dbVars, batchVars, pubVars
<1>4. ASSUME NEW w \in Worker, Handle(w) PROVE Named'
    BY <1>4, NamedHandle
<1>5. ASSUME NEW w \in Worker, Raise(w) \/ Crash(w) \/ Exit(w) \/ Restart(w) PROVE Named'
    <2>1. /\ UNCHANGED <<docs, docIds, stream, snapshot, snapPubs>>
          /\ \A v \in Worker \ {w} : pc'[v] = pc[v] /\ cur'[v] = cur[v] /\ ids'[v] = ids[v]
        BY <1>5, <1>s DEF Raise, Crash, Exit, Restart, Die, GoTo, queueVars, dbVars, batchVars, pubVars
    <2>2. pc'[w] \in {"dead", "loop", Catch(pc[w])}
        BY <1>5, <1>s DEF Raise, Crash, Exit, Restart, Die, GoTo
    <2>3. pc'[w] \notin Batched \cup {"publish"}
        BY <2>2 DEF Catch, Batched
    <2> QED BY <1>k, <2>1, <2>3, NamedFrame
<1>6. CASE UNCHANGED vars
    BY <1>6, <1>e DEF vars, queueVars, localVars, dbVars, batchVars, pubVars
<1> QED BY <1>1, <1>2, <1>3, <1>4, <1>5, <1>6 DEF Next

(* A FULL_BLOG analysis names the posts of its snapshot, and committed documents only                 *)
(* (ingest_worker.py:250, blog_snapshot_service.py:55).                                              *)
THEOREM SourcesAreCommitted == Spec => []SourcesCommitted
<1>1. Init => Named
    BY DEF Init, Named, Batched
<1>2. StoredFirst /\ Named => SourcesCommitted
    <2> SUFFICES ASSUME StoredFirst, Named, NEW i \in DOMAIN snapPubs
                 PROVE  snapshot # {} /\ snapshot \subseteq snapPubs[i] /\ snapPubs[i] \subseteq docs
        BY DEF SourcesCommitted
    <2>1. snapPubs # <<>>
        OBVIOUS
    <2> QED BY <2>1 DEF StoredFirst, Named
<1>3. Init => TypeInv /\ StoredFirst
    BY TypeInit, StoredInit
<1>4. TypeInv /\ StoredFirst /\ [Next]_vars => TypeInv' /\ StoredFirst'
    BY TypeNext, StoredNext
<1> QED BY <1>1, <1>2, <1>3, <1>4, NamedNext, PTL DEF Spec
-----------------------------------------------------------------------------
(***************************************************************************)
(* PostPublishBound.  What may still publish a post is counted: the crawl  *)
(* that has not added it, each of its entries that is waiting for a        *)
(* worker, and each worker that has one of them.  A worker that gives up   *)
(* an entry leaves it waiting at most once; only a crash, a Redis command  *)
(* that raised, or a steal makes more of them.                             *)
(***************************************************************************)

(* The entry at hand is done with, but for its acknowledgement. *)
Closing == {"dlqBad", "ackBad", "ackFailed"}

Working == CanRaise \ Closing

Handled(i) == \E w \in Worker : i \in inbox[w] \/ (cur[w] = i /\ pc[w] \in CanRaise)

(* The ids of p's entries that wait for a worker; 0 is the entry the crawler has not added. *)
Free(p) ==
    {i \in 0 .. Len(stream) :
        IF i = 0 THEN \A j \in 1 .. Len(stream) : stream[j].post # p
        ELSE stream[i].post = p /\ (i > lastId \/ (i \in pel /\ ~Handled(i)))}

(* Who has which of p's entries. *)
Hold(p) ==
    {h \in Worker \X (1 .. Len(stream)) :
        /\ stream[h[2]].post = p
        /\ h[2] \in inbox[h[1]] \/ (cur[h[1]] = h[2] /\ pc[h[1]] \in Working)}

Live(p) == Cardinality(Free(p)) + Cardinality(Hold(p))

(* The entries of p among ids. *)
OfPost(is, p) == {i \in is : stream[i].post = p}

Given(w, is) == {<<w, i>> : i \in is}

(* What accounts for a further live entry. *)
Charges == crashes + BatchSize * steals + redisFaults

(* Steps that come after the XACK of an entry that was ingested. *)
Acked == Section \cup {"meta", "sadd", "incr", "lock", "getStatus", "reclaim", "mark", "publishPost"}

(* A worker handles an entry once, has none between two of them, and has acknowledged it at those steps. *)
HandInv ==
    \A w \in Worker :
        /\ cur[w] \notin inbox[w]
        /\ pc[w] \in {"loop", "dead"} => cur[w] = 0
        /\ pc[w] \in Acked => cur[w] \notin pel

(* Cardinalities of sets that gain and lose elements. *)
LEMMA CardSame ==
    ASSUME NEW A, NEW B, IsFiniteSet(A), B \subseteq A
    PROVE  IsFiniteSet(B) /\ Cardinality(A) \in Nat /\ Cardinality(B) \in Nat /\ Cardinality(B) <= Cardinality(A)
BY FS_Subset, FS_CardinalityType

LEMMA CardMore ==
    ASSUME NEW A, NEW B, NEW x, IsFiniteSet(A), B \subseteq A \cup {x}
    PROVE  IsFiniteSet(B) /\ Cardinality(A) \in Nat /\ Cardinality(B) \in Nat /\ Cardinality(B) <= Cardinality(A) + 1
<1>1. /\ IsFiniteSet(A \cup {x}) /\ Cardinality(A) \in Nat
      /\ Cardinality(A \cup {x}) = IF x \in A THEN Cardinality(A) ELSE Cardinality(A) + 1
    BY FS_AddElement, FS_CardinalityType
<1>2. /\ Cardinality(B) <= Cardinality(A \cup {x}) /\ IsFiniteSet(B)
      /\ Cardinality(A \cup {x}) \in Nat /\ Cardinality(B) \in Nat
    BY <1>1, CardSame
<1> QED BY <1>1, <1>2

LEMMA CardLess ==
    ASSUME NEW A, NEW B, NEW x \in A, IsFiniteSet(A), B \subseteq A \ {x}
    PROVE  IsFiniteSet(B) /\ Cardinality(A) \in Nat /\ Cardinality(B) \in Nat /\ Cardinality(B) + 1 <= Cardinality(A)
<1>1. IsFiniteSet(A \ {x}) /\ Cardinality(A \ {x}) = Cardinality(A) - 1 /\ Cardinality(A) \in Nat
    BY FS_RemoveElement, FS_CardinalityType
<1>2. Cardinality(B) <= Cardinality(A \ {x}) /\ IsFiniteSet(B) /\ Cardinality(B) \in Nat
    BY <1>1, CardSame
<1> QED BY <1>1, <1>2

LEMMA CardSwap ==
    ASSUME NEW A, NEW B, NEW x \in A, NEW y, IsFiniteSet(A), B \subseteq (A \ {x}) \cup {y}
    PROVE  IsFiniteSet(B) /\ Cardinality(A) \in Nat /\ Cardinality(B) \in Nat /\ Cardinality(B) <= Cardinality(A)
<1>1. IsFiniteSet(A \ {x}) /\ Cardinality(A \ {x}) \in Nat /\ Cardinality(A \ {x}) + 1 <= Cardinality(A) /\ Cardinality(A) \in Nat
    BY CardLess
<1>2. IsFiniteSet(B) /\ Cardinality(B) \in Nat /\ Cardinality(B) <= Cardinality(A \ {x}) + 1
    BY <1>1, CardMore
<1> QED BY <1>1, <1>2

LEMMA CardJoin ==
    ASSUME NEW A, NEW B, NEW M, IsFiniteSet(A), IsFiniteSet(M), B \subseteq A \cup M
    PROVE  /\ IsFiniteSet(B) /\ Cardinality(B) \in Nat /\ Cardinality(A) \in Nat /\ Cardinality(M) \in Nat
           /\ Cardinality(B) <= Cardinality(A) + Cardinality(M)
<1>1. /\ IsFiniteSet(A \cup M) /\ IsFiniteSet(A \cap M)
      /\ Cardinality(A \cup M) = Cardinality(A) + Cardinality(M) - Cardinality(A \cap M)
    BY FS_Union, FS_Intersection
<1>2. Cardinality(A) \in Nat /\ Cardinality(M) \in Nat /\ Cardinality(A \cap M) \in Nat /\ Cardinality(A \cup M) \in Nat
    BY <1>1, FS_CardinalityType
<1>3. IsFiniteSet(B) /\ Cardinality(B) \in Nat /\ Cardinality(B) <= Cardinality(A \cup M)
    BY <1>1, CardSame
<1> QED BY <1>1, <1>2, <1>3

LEMMA CardTake ==
    ASSUME NEW A, NEW B, NEW M, IsFiniteSet(A), M \subseteq A, B \subseteq A \ M
    PROVE  /\ IsFiniteSet(B) /\ IsFiniteSet(M)
           /\ Cardinality(B) \in Nat /\ Cardinality(A) \in Nat /\ Cardinality(M) \in Nat
           /\ Cardinality(B) + Cardinality(M) <= Cardinality(A)
<1>1. /\ IsFiniteSet(A \ M) /\ IsFiniteSet(A \cap M) /\ A \cap M = M
      /\ Cardinality(A \ M) = Cardinality(A) - Cardinality(A \cap M)
    BY FS_Difference, FS_Intersection
<1>2. Cardinality(A) \in Nat /\ Cardinality(M) \in Nat /\ IsFiniteSet(M)
    BY <1>1, FS_CardinalityType
<1>3. Cardinality(A \ M) = Cardinality(A) - Cardinality(M)
    BY <1>1
<1>4. IsFiniteSet(B) /\ Cardinality(B) \in Nat /\ Cardinality(B) <= Cardinality(A \ M)
    BY <1>1, CardSame
<1> QED BY <1>2, <1>3, <1>4

LEMMA CardGiven ==
    ASSUME NEW w, NEW M, IsFiniteSet(M)
    PROVE  IsFiniteSet(Given(w, M)) /\ Cardinality(Given(w, M)) = Cardinality(M)
<1> DEFINE f == [i \in M |-> <<w, i>>]
<1>1. f \in Bijection(M, Given(w, M))
    <2>1. f \in [M -> Given(w, M)] /\ \A i, j \in M : f[i] = f[j] => i = j
        BY DEF Given
    <2>2. \A t \in Given(w, M) : \E i \in M : f[i] = t
        BY DEF Given
    <2> QED BY <2>1, <2>2 DEF Bijection, Injection, IsInjective, Surjection
<1> QED BY <1>1, FS_Bijection DEF ExistsBijection

(* Entries that pass from waiting to a worker, and back. *)
LEMMA CardGive ==
    ASSUME NEW w, NEW A, NEW B, NEW C, NEW D, NEW M, IsFiniteSet(A), IsFiniteSet(C),
           M \subseteq A, B \subseteq A \ M, D \subseteq C \cup Given(w, M)
    PROVE  /\ IsFiniteSet(D) /\ Cardinality(B) \in Nat /\ Cardinality(D) \in Nat
           /\ Cardinality(A) \in Nat /\ Cardinality(C) \in Nat
           /\ Cardinality(B) + Cardinality(D) <= Cardinality(A) + Cardinality(C)
<1>1. /\ IsFiniteSet(M) /\ Cardinality(B) \in Nat /\ Cardinality(A) \in Nat /\ Cardinality(M) \in Nat
      /\ Cardinality(B) + Cardinality(M) <= Cardinality(A)
    BY CardTake
<1>2. IsFiniteSet(Given(w, M)) /\ Cardinality(Given(w, M)) = Cardinality(M)
    BY <1>1, CardGiven
<1>3. /\ IsFiniteSet(D) /\ Cardinality(D) \in Nat /\ Cardinality(C) \in Nat
      /\ Cardinality(D) <= Cardinality(C) + Cardinality(M)
    BY <1>2, CardJoin
<1> QED BY <1>1, <1>3

Others(w) == \A v \in Worker \ {w} : pc'[v] = pc[v] /\ cur'[v] = cur[v] /\ inbox'[v] = inbox[v]

(* It goes on with the entry at hand. *)
Onward(w) ==
    /\ Others(w) /\ pc[w] \in CanRaise /\ pc'[w] \in CanRaise
    /\ pc[w] \in Closing => pc'[w] \in Closing
    /\ pc'[w] \in Acked => cur[w] \notin pel'
    /\ UNCHANGED <<inbox, cur, stream, lastId>> /\ pel' \subseteq pel /\ Charges' >= Charges

(* It is done with the entry, which is acknowledged. *)
Ended(w) ==
    /\ Others(w) /\ pc[w] \in CanRaise /\ pc'[w] = "loop" /\ cur'[w] = 0 /\ cur[w] \notin pel'
    /\ UNCHANGED <<inbox, stream, lastId>> /\ pel' \subseteq pel /\ Charges' >= Charges

(* An exception that nothing catches ends it. *)
Thrown(w) ==
    /\ Others(w) /\ pc[w] \in CanRaise /\ pc'[w] = "escaped"
    /\ UNCHANGED <<inbox, cur, stream, lastId>> /\ pel' \subseteq pel /\ Charges' >= Charges + 1

(* It has added the entry anew. *)
Retried(w) ==
    /\ Others(w) /\ pc[w] = "failed" /\ UNCHANGED <<inbox, cur>>
    /\ \E f \in Fields : f.post = Entry(w).post /\ Requeue(f)
    /\ \/ pc'[w] = "ackFailed" /\ Charges' >= Charges
       \/ pc'[w] = "escaped" /\ Charges' >= Charges + 1

LEMMA ChargesType ==
    ASSUME CountersOK
    PROVE  Charges \in Nat
<1>1. BatchSize * steals \in Nat
    BY BatchSizeAssumption DEF CountersOK
<1> QED BY <1>1 DEF CountersOK, Charges

LEMMA ChargesGrow ==
    ASSUME CountersOK, UNCHANGED steals
    PROVE  /\ crashes' = crashes /\ redisFaults' = redisFaults => Charges' = Charges
           /\ crashes' = crashes /\ redisFaults' = redisFaults + 1 => Charges' = Charges + 1
           /\ crashes' = crashes + 1 /\ redisFaults' = redisFaults => Charges' = Charges + 1
<1>1. PICK k \in Nat : k = BatchSize * steals
    BY BatchSizeAssumption DEF CountersOK
<1>2. Charges = crashes + k + redisFaults /\ Charges' = crashes' + k + redisFaults'
    BY <1>1 DEF Charges
<1>3. crashes \in Nat /\ redisFaults \in Nat
    BY DEF CountersOK
<1> HIDE DEF Charges
<1> QED BY <1>1, <1>2, <1>3

LEMMA ChargesSteal ==
    ASSUME CountersOK, steals' = steals + 1, UNCHANGED <<crashes, redisFaults>>
    PROVE  Charges' = Charges + BatchSize
<1>1. PICK k \in Nat : k = BatchSize * steals
    BY BatchSizeAssumption DEF CountersOK
<1>2. BatchSize * (steals + 1) = k + BatchSize
    BY <1>1, BatchSizeAssumption DEF CountersOK
<1>3. Charges = crashes + k + redisFaults /\ Charges' = crashes + (k + BatchSize) + redisFaults
    BY <1>1, <1>2 DEF Charges
<1>4. crashes \in Nat /\ redisFaults \in Nat /\ BatchSize \in Nat
    BY BatchSizeAssumption DEF CountersOK
<1> HIDE DEF Charges
<1> QED BY <1>1, <1>3, <1>4

LEMMA FaultCharges ==
    ASSUME CountersOK, NEW s, ChargeFault(s)
    PROVE  Charges' >= Charges /\ (s \notin WorkSteps => Charges' = Charges + 1)
<1>1. UNCHANGED <<crashes, steals>>
    BY DEF ChargeFault
<1>2. redisFaults' = redisFaults \/ redisFaults' = redisFaults + 1
    BY DEF ChargeFault
<1>3. s \notin WorkSteps => redisFaults' = redisFaults + 1
    BY DEF ChargeFault
<1>4. Charges \in Nat
    BY ChargesType
<1>5. Charges' = Charges \/ Charges' = Charges + 1
    BY <1>1, <1>2, ChargesGrow
<1>6. s \notin WorkSteps => Charges' = Charges + 1
    BY <1>1, <1>3, ChargesGrow
<1> HIDE DEF Charges
<1> QED BY <1>4, <1>5, <1>6

(* Where an exception leads. *)
LEMMA CatchHand ==
    ASSUME NEW s \in CanRaise
    PROVE  \/ s \notin Closing /\ Catch(s) \in CanRaise /\ (Catch(s) \in Acked => s \in Acked)
           \/ s \notin WorkSteps /\ Catch(s) = "escaped"
BY DEF CanRaise, Steps, Section, Catch, Closing, Acked, WorkSteps

LEMMA RaiseHand ==
    ASSUME TypeInv, HandInv, NEW w \in Worker, pc[w] \in CanRaise, GoTo(w, Catch(pc[w])), ChargeFault(pc[w]),
           UNCHANGED <<inbox, cur, stream, lastId>>, pel' \subseteq pel
    PROVE  Onward(w) \/ Thrown(w)
<1>1. pc' = [pc EXCEPT ![w] = Catch(pc[w])] /\ pc \in [Worker -> Steps] /\ CountersOK
    BY DEF GoTo, TypeInv, LocalOK
<1>2. Others(w) /\ pc'[w] = Catch(pc[w])
    BY <1>1 DEF Others
<1>3. Charges' >= Charges /\ (pc[w] \notin WorkSteps => Charges' = Charges + 1) /\ Charges \in Nat
    BY <1>1, FaultCharges, ChargesType
<1>4. pc[w] \in Acked => cur[w] \notin pel'
    BY DEF HandInv
<1> HIDE DEF Charges
<1>5. CASE pc[w] \notin Closing /\ Catch(pc[w]) \in CanRaise /\ (Catch(pc[w]) \in Acked => pc[w] \in Acked)
    BY <1>2, <1>3, <1>4, <1>5 DEF Onward
<1>6. CASE pc[w] \notin WorkSteps /\ Catch(pc[w]) = "escaped"
    <2>1. Charges' >= Charges + 1
        BY <1>3, <1>6
    <2> QED BY <1>2, <1>6, <2>1 DEF Thrown
<1> QED BY <1>5, <1>6, CatchHand

LEMMA ProceedHand ==
    ASSUME TypeInv, HandInv, NEW w \in Worker, pc[w] \in CanRaise,
           NEW s \in CanRaise \cup {"loop"}, Proceed(w, s),
           s \in Acked \cup {"loop"} => cur[w] \notin pel',
           pc[w] \in Closing => s \in Closing \cup {"loop"},
           UNCHANGED <<stream, lastId>>, pel' \subseteq pel
    PROVE  Onward(w) \/ Ended(w) \/ Thrown(w)
<1>1. pc \in [Worker -> Steps] /\ cur \in [Worker -> 0 .. lastId] /\ CountersOK /\ UNCHANGED inbox
    BY DEF Proceed, TypeInv, LocalOK
<1>2. CASE GoTo(w, s) /\ cur' = [cur EXCEPT ![w] = IF s = "loop" THEN 0 ELSE @] /\ UNCHANGED faultVars
    <2>1. Charges \in Nat /\ Charges' = Charges
        BY <1>1, <1>2, ChargesType, ChargesGrow DEF faultVars
    <2>2. Others(w) /\ pc'[w] = s /\ cur'[w] = IF s = "loop" THEN 0 ELSE cur[w]
        BY <1>1, <1>2 DEF GoTo, Others
    <2>3. Charges' >= Charges
        BY <2>1
    <2>4. CASE s = "loop"
        BY <1>1, <2>2, <2>3, <2>4 DEF Ended
    <2>5. CASE s # "loop"
        <3>1. UNCHANGED cur
            BY <1>1, <1>2, <2>5
        <3> QED BY <1>1, <2>2, <2>3, <2>5, <3>1 DEF Onward
    <2> QED BY <2>4, <2>5
<1>3. CASE GoTo(w, Catch(pc[w])) /\ ChargeFault(pc[w]) /\ UNCHANGED cur
    BY <1>1, <1>3, RaiseHand
<1> QED BY <1>2, <1>3 DEF Proceed
(* One step per action; all but SetFailed and RetryOrDlq go on through Proceed. *)
LEMMA HandleHand ==
    ASSUME TypeInv, HandInv, NEW w \in Worker, Handle(w), ~StartMessage(w)
    PROVE  Onward(w) \/ Ended(w) \/ Thrown(w) \/ Retried(w)
<1>s. pc \in [Worker -> Steps] /\ (pc[w] \in Acked => cur[w] \notin pel) /\ CountersOK
    BY DEF HandInv, TypeInv, LocalOK
<1>c. /\ {"snapshot", "publish", "setCompleted", "setFailed", "dlqBad", "ackBad", "ingest", "ack", "meta", "sadd",
          "incr", "lock", "getStatus", "reclaim", "mark", "publishPost", "failed", "ackFailed"} \subseteq CanRaise
      /\ Acked = {"snapshot", "publish", "setCompleted", "setFailed", "meta", "sadd", "incr", "lock", "getStatus",
                  "reclaim", "mark", "publishPost"}
      /\ Closing = {"dlqBad", "ackBad", "ackFailed"}
    BY DEF CanRaise, Steps, Section, Acked, Closing
<1>p. ASSUME pc[w] \in Acked, NEW s \in Acked \cup {"loop"}, Proceed(w, s), UNCHANGED queueVars
      PROVE  Onward(w) \/ Ended(w) \/ Thrown(w)
    <2>1. /\ pc[w] \in CanRaise /\ s \in CanRaise \cup {"loop"} /\ pc[w] \notin Closing
          /\ UNCHANGED <<stream, lastId, pel>>
        BY <1>c, <1>p DEF queueVars
    <2>2. cur[w] \notin pel' /\ pel' \subseteq pel
        BY <1>p, <1>s, <2>1
    <2> QED BY <1>p, <2>1, <2>2, ProceedHand
<1>a. ASSUME Ack(cur[w]), pc[w] \in CanRaise, NEW s \in CanRaise \cup {"loop"}, Proceed(w, s),
             pc[w] \in Closing => s = "loop"
      PROVE  Onward(w) \/ Ended(w) \/ Thrown(w)
    <2>1. UNCHANGED <<stream, lastId>> /\ pel' \subseteq pel /\ cur[w] \notin pel'
        BY <1>a DEF Ack
    <2> QED BY <1>a, <2>1, ProceedHand
<1>1. CASE DlqBad(w)
    <2>1. pc[w] = "dlqBad" /\ Proceed(w, "ackBad") /\ UNCHANGED <<stream, lastId, pel>>
        BY <1>1 DEF DlqBad, SendToDlq
    <2> QED BY <1>c, <2>1, ProceedHand
<1>2. CASE AckBad(w)
    BY <1>2, <1>c, <1>a DEF AckBad
<1>3. CASE Ingest(w)
    <2>1. pc[w] = "ingest" /\ Proceed(w, "ack") /\ UNCHANGED <<stream, lastId, pel>>
        BY <1>3 DEF Ingest, queueVars
    <2> QED BY <1>c, <2>1, ProceedHand
<1>4. CASE AckIngested(w)
    <2>1. pc[w] = "ack" /\ Ack(cur[w]) /\ \E s \in {"meta", "mark", "loop"} : Proceed(w, s)
        BY <1>4 DEF AckIngested
    <2> QED BY <1>c, <1>a, <2>1
<1>5. CASE SetMetadata(w) \/ AddDocId(w)
    BY <1>5, <1>c, <1>p DEF SetMetadata, AddDocId
<1>6. CASE CountCompleted(w)
    <2>1. pc[w] = "incr" /\ UNCHANGED queueVars /\ \E s \in {"lock", "loop"} : Proceed(w, s)
        BY <1>6 DEF CountCompleted
    <2> QED BY <1>c, <1>p, <2>1
<1>7. CASE LockSnapshot(w)
    <2>1. pc[w] = "lock" /\ UNCHANGED queueVars /\ \E s \in {"snapshot", "getStatus"} : Proceed(w, s)
        BY <1>7 DEF LockSnapshot
    <2> QED BY <1>c, <1>p, <2>1
<1>8. CASE GetStatus(w)
    <2>1. pc[w] = "getStatus" /\ UNCHANGED queueVars /\ \E s \in {"loop", "reclaim"} : Proceed(w, s)
        BY <1>8 DEF GetStatus
    <2> QED BY <1>c, <1>p, <2>1
<1>9. CASE ReclaimFailed(w)
    <2>1. pc[w] = "reclaim" /\ UNCHANGED queueVars /\ \E s \in {"snapshot", "loop"} : Proceed(w, s)
        BY <1>9 DEF ReclaimFailed
    <2> QED BY <1>c, <1>p, <2>1
<1>10. CASE CreateSnapshot(w)
    <2>1. pc[w] = "snapshot" /\ UNCHANGED queueVars /\ \E s \in {"setFailed", "publish"} : Proceed(w, s)
        BY <1>10 DEF CreateSnapshot
    <2> QED BY <1>c, <1>p, <2>1
<1>11. CASE PublishSnapshot(w) \/ SetCompleted(w)
    BY <1>11, <1>c, <1>p DEF PublishSnapshot, SetCompleted
<1>12. CASE SetFailed(w)
    <2>1. /\ pc[w] = "setFailed" /\ pc' = [pc EXCEPT ![w] = "failed"]
          /\ UNCHANGED <<inbox, cur, stream, lastId, pel, crashes, steals, redisFaults>>
        BY <1>12 DEF SetFailed, GoTo, queueVars, faultVars
    <2>2. Others(w) /\ pc'[w] = "failed"
        BY <1>s, <2>1 DEF Others
    <2>3. Charges \in Nat /\ Charges' = Charges
        BY <1>s, <2>1, ChargesType, ChargesGrow
    <2>4. Charges' >= Charges
        BY <2>3
    <2> QED BY <1>c, <2>1, <2>2, <2>4 DEF Onward
<1>13. CASE MarkDone(w) \/ PublishPost(w)
    BY <1>13, <1>c, <1>p DEF MarkDone, PublishPost
<1>14. CASE RetryOrDlq(w)
    <2>1. pc[w] = "failed" /\ Proceed(w, "ackFailed") /\ Entry(w) \in Fields
        BY <1>14, <1>c, EntryType DEF RetryOrDlq
    <2>2. CASE SendToDlq(Entry(w))
        <3>1. UNCHANGED <<stream, lastId, pel>>
            BY <2>2 DEF SendToDlq
        <3> QED BY <1>c, <2>1, <3>1, ProceedHand
    <2>3. CASE Requeue([Entry(w) EXCEPT !.retry = @ + 1])
        <3>1. \E f \in Fields : f.post = Entry(w).post /\ Requeue(f)
            <4>1. [Entry(w) EXCEPT !.retry = @ + 1] \in Fields /\ [Entry(w) EXCEPT !.retry = @ + 1].post = Entry(w).post
                BY <2>1 DEF Fields
            <4> QED BY <2>3, <4>1
        <3>2. UNCHANGED inbox
            BY <2>1 DEF Proceed
        <3>3. CASE GoTo(w, "ackFailed") /\ cur' = [cur EXCEPT ![w] = cur[w]] /\ UNCHANGED faultVars
            <4>1. Others(w) /\ pc'[w] = "ackFailed" /\ UNCHANGED cur
                BY <1>s, <3>2, <3>3 DEF GoTo, Others, TypeInv, LocalOK
            <4>2. Charges \in Nat /\ Charges' = Charges
                BY <1>s, <3>3, ChargesType, ChargesGrow DEF faultVars
            <4>3. Charges' >= Charges
                BY <4>2
            <4> QED BY <2>1, <3>1, <3>2, <4>1, <4>3 DEF Retried
        <3>4. CASE GoTo(w, Catch(pc[w])) /\ ChargeFault(pc[w]) /\ UNCHANGED cur
            <4>1. Others(w) /\ pc'[w] = "escaped"
                BY <1>s, <2>1, <3>2, <3>4 DEF GoTo, Others, Catch
            <4>2. Charges \in Nat /\ Charges' = Charges + 1
                BY <1>s, <2>1, <3>4, ChargesType, FaultCharges DEF WorkSteps
            <4>3. Charges' >= Charges + 1
                BY <4>2
            <4> QED BY <2>1, <3>1, <3>2, <3>4, <4>1, <4>3 DEF Retried
        <3> QED BY <2>1, <3>3, <3>4 DEF Proceed
    <2> QED BY <1>14, <2>2, <2>3 DEF RetryOrDlq
<1>15. CASE AckFailed(w)
    BY <1>15, <1>c, <1>a DEF AckFailed
<1> QED
    BY <1>1, <1>2, <1>3, <1>4, <1>5, <1>6, <1>7, <1>8, <1>9, <1>10, <1>11, <1>12, <1>13, <1>14, <1>15 DEF Handle

(* Nothing moves. *)
Still == UNCHANGED <<stream, lastId, pel, pc, cur, inbox, crashes, steals, redisFaults>>

LEMMA NextHand ==
    ASSUME TypeInv, HandInv, [Next]_vars
    PROVE  \/ Still \/ \E p \in Post : Crawl(p)
           \/ \E w \in Worker : \/ Onward(w) \/ Ended(w) \/ Thrown(w) \/ Retried(w)
                                \/ StartMessage(w) \/ Poll(w) \/ Crash(w) \/ Exit(w) \/ Restart(w)
<1>1. CASE DeadlinePasses \/ UNCHANGED vars
    BY <1>1 DEF DeadlinePasses, vars, queueVars, localVars, faultVars, Still
<1>2. ASSUME NEW w \in Worker, Raise(w) PROVE Onward(w) \/ Thrown(w)
    <2>1. UNCHANGED <<inbox, cur, stream, lastId>> /\ pel' \subseteq pel
        BY <1>2 DEF Raise, queueVars
    <2> QED BY <1>2, <2>1, RaiseHand DEF Raise
<1> QED BY <1>1, <1>2, HandleHand DEF Next

LEMMA HandNext == TypeInv /\ HandInv /\ [Next]_vars => HandInv'
<1> SUFFICES ASSUME TypeInv, HandInv, [Next]_vars PROVE HandInv'
    OBVIOUS
<1>s. /\ pc \in [Worker -> Steps] /\ cur \in [Worker -> 0 .. lastId] /\ inbox \in [Worker -> SUBSET (1 .. lastId)]
      /\ lastId \in Nat /\ pel \subseteq 1 .. lastId
    BY DEF TypeInv, LocalOK, QueueTypeOK
<1>c. {"loop", "dead", "escaped", "dlqBad", "ingest", "ackFailed"} \cap Acked = {}
    BY DEF Acked, Section
<1>r. "loop" \notin CanRaise /\ "dead" \notin CanRaise
    BY DEF CanRaise
<1>1. CASE Still
    BY <1>1 DEF Still, HandInv
<1>2. ASSUME NEW p \in Post, Crawl(p) PROVE HandInv'
    BY <1>2 DEF Crawl, Requeue, localVars, HandInv
<1>3. ASSUME NEW w \in Worker, Onward(w) PROVE HandInv'
    BY <1>3, <1>r DEF Onward, Others, HandInv
<1>4. ASSUME NEW w \in Worker, Ended(w) PROVE HandInv'
    <2>1. 0 \notin inbox[w]
        BY <1>s
    <2> QED BY <1>4, <1>c, <2>1 DEF Ended, Others, HandInv
<1>5. ASSUME NEW w \in Worker, Thrown(w) PROVE HandInv'
    BY <1>5, <1>c DEF Thrown, Others, HandInv
<1>6. ASSUME NEW w \in Worker, Retried(w) PROVE HandInv'
    BY <1>6, <1>c DEF Retried, Requeue, Others, HandInv
<1>7. ASSUME NEW w \in Worker, StartMessage(w) PROVE HandInv'
    <2>1. PICK id \in inbox[w] :
            /\ cur' = [cur EXCEPT ![w] = id] /\ inbox' = [inbox EXCEPT ![w] = @ \ {id}]
            /\ pc'[w] \in {"escaped", "dlqBad", "ingest"}
        BY <1>7, <1>s DEF StartMessage, GoTo
    <2>2. \A v \in Worker \ {w} : pc'[v] = pc[v] /\ cur'[v] = cur[v] /\ inbox'[v] = inbox[v]
        BY <1>7, <1>s, <2>1 DEF StartMessage, GoTo
    <2>3. pel' = pel /\ cur'[w] = id /\ inbox'[w] = inbox[w] \ {id}
        BY <1>7, <1>s, <2>1 DEF StartMessage, queueVars
    <2> QED BY <1>c, <2>1, <2>2, <2>3 DEF HandInv
<1>8. ASSUME NEW w \in Worker, Poll(w) PROVE HandInv'
    <2>1. /\ UNCHANGED <<pc, cur>> /\ pc[w] = "loop"
          /\ \A v \in Worker \ {w} : inbox'[v] = inbox[v]
          /\ 0 \notin inbox'[w]
        <3>1. CASE ClaimPending(w)
            <4>1. PICK claimed \in Claimable : inbox' = [inbox EXCEPT ![w] = claimed]
                BY <3>1 DEF ClaimPending
            <4>2. 0 \notin claimed
                BY <1>s DEF Claimable
            <4> QED BY <1>s, <3>1, <4>1, <4>2 DEF ClaimPending
        <3>2. CASE ReadNew(w)
            <4>1. 0 \notin Unread
                BY DEF Unread
            <4> QED BY <1>s, <3>2, <4>1 DEF ReadNew
        <3> QED BY <1>8, <3>1, <3>2 DEF Poll
    <2>2. \A v \in Worker : cur[v] \notin pel => cur[v] = 0 \/ cur[v] \notin pel'
        <3>1. CASE ClaimPending(w)
            BY <3>1 DEF ClaimPending, queueVars
        <3>2. CASE ReadNew(w)
            <4>1. pel' = pel \cup Unread /\ \A v \in Worker : cur[v] \notin Unread
                BY <1>s, <3>2 DEF ReadNew, Read, Unread
            <4> QED BY <4>1
        <3> QED BY <1>8, <3>1, <3>2 DEF Poll
    <2>3. \A v \in Worker : pc[v] \in Acked => cur[v] # 0
        BY DEF Acked, Section, TypeInv, LocalOK, CanRaise, Steps
    <2> QED BY <1>c, <2>1, <2>2, <2>3 DEF HandInv
<1>9. ASSUME NEW w \in Worker, Crash(w) \/ Exit(w) PROVE HandInv'
    BY <1>9, <1>s, <1>c DEF Crash, Exit, Die, GoTo, queueVars, HandInv
<1>10. ASSUME NEW w \in Worker, Restart(w) PROVE HandInv'
    BY <1>10, <1>s, <1>c DEF Restart, GoTo, queueVars, HandInv
<1> QED BY <1>1, <1>2, <1>3, <1>4, <1>5, <1>6, <1>7, <1>8, <1>9, <1>10, NextHand
-----------------------------------------------------------------------------
(* What each step makes of the live entries of post p. *)

LEMMA SmallFinite ==
    ASSUME NEW n \in Nat, NEW A, A \subseteq 0 .. n
    PROVE  IsFiniteSet(A)
<1>1. IsFiniteSet(0 .. n)
    BY FS_Interval
<1> QED BY <1>1, FS_Subset

LEMMA FreeFinite ==
    ASSUME NEW p
    PROVE  (TypeInv => IsFiniteSet(Free(p))) /\ (TypeInv' => IsFiniteSet(Free(p)'))
<1>1. ASSUME TypeInv PROVE IsFiniteSet(Free(p))
    <2>1. Len(stream) \in Nat /\ Free(p) \subseteq 0 .. Len(stream)
        BY <1>1 DEF TypeInv, QueueTypeOK, Free
    <2> QED BY <2>1, SmallFinite
<1>2. ASSUME TypeInv' PROVE IsFiniteSet(Free(p)')
    <2>1. Len(stream') \in Nat /\ Free(p)' \subseteq 0 .. Len(stream')
        BY <1>2 DEF TypeInv, QueueTypeOK, Free
    <2> QED BY <2>1, SmallFinite
<1> QED BY <1>1, <1>2

Fewer(p) == IsFiniteSet(Hold(p)') /\ Live(p)' \in Nat /\ Live(p) \in Nat /\ Live(p)' <= Live(p)
OneMore(p) == IsFiniteSet(Hold(p)') /\ Live(p)' \in Nat /\ Live(p) \in Nat /\ Live(p)' <= Live(p) + 1

LEMMA FewerHeld ==
    ASSUME TypeInv, NEW p, IsFiniteSet(Hold(p)), Free(p)' \subseteq Free(p), Hold(p)' \subseteq Hold(p)
    PROVE  Fewer(p)
<1>1. /\ IsFiniteSet(Hold(p)') /\ Cardinality(Hold(p)) \in Nat /\ Cardinality(Hold(p)') \in Nat
      /\ Cardinality(Hold(p)') <= Cardinality(Hold(p))
    BY CardSame
<1>2. /\ Cardinality(Free(p)) \in Nat /\ Cardinality(Free(p)') \in Nat
      /\ Cardinality(Free(p)') <= Cardinality(Free(p))
    BY FreeFinite, CardSame
<1>3. Live(p) = Cardinality(Free(p)) + Cardinality(Hold(p)) /\ Live(p)' = Cardinality(Free(p)') + Cardinality(Hold(p)')
    BY DEF Live
<1> QED BY <1>1, <1>2, <1>3 DEF Fewer

LEMMA OneFreed ==
    ASSUME TypeInv, NEW p, NEW i, IsFiniteSet(Hold(p)), Free(p)' \subseteq Free(p) \cup {i}, Hold(p)' \subseteq Hold(p)
    PROVE  OneMore(p)
<1>1. /\ IsFiniteSet(Hold(p)') /\ Cardinality(Hold(p)) \in Nat /\ Cardinality(Hold(p)') \in Nat
      /\ Cardinality(Hold(p)') <= Cardinality(Hold(p))
    BY CardSame
<1>2. /\ Cardinality(Free(p)) \in Nat /\ Cardinality(Free(p)') \in Nat
      /\ Cardinality(Free(p)') <= Cardinality(Free(p)) + 1
    BY FreeFinite, CardMore
<1>3. Live(p) = Cardinality(Free(p)) + Cardinality(Hold(p)) /\ Live(p)' = Cardinality(Free(p)') + Cardinality(Hold(p)')
    BY DEF Live
<1> QED BY <1>1, <1>2, <1>3 DEF OneMore

(* Who had an entry gives it back, or adds it anew. *)
LEMMA HeldFreed ==
    ASSUME TypeInv, NEW p, NEW i, NEW h \in Hold(p), IsFiniteSet(Hold(p)),
           Free(p)' \subseteq Free(p) \cup {i}, Hold(p)' \subseteq Hold(p) \ {h}
    PROVE  Fewer(p)
<1>1. /\ IsFiniteSet(Hold(p)') /\ Cardinality(Hold(p)) \in Nat /\ Cardinality(Hold(p)') \in Nat
      /\ Cardinality(Hold(p)') + 1 <= Cardinality(Hold(p))
    BY CardLess
<1>2. /\ Cardinality(Free(p)) \in Nat /\ Cardinality(Free(p)') \in Nat
      /\ Cardinality(Free(p)') <= Cardinality(Free(p)) + 1
    BY FreeFinite, CardMore
<1>3. Live(p) = Cardinality(Free(p)) + Cardinality(Hold(p)) /\ Live(p)' = Cardinality(Free(p)') + Cardinality(Hold(p)')
    BY DEF Live
<1> QED BY <1>1, <1>2, <1>3 DEF Fewer

(* The entries of the stream are found where they were. *)
LEMMA HandsType ==
    ASSUME TypeInv
    PROVE  /\ Len(stream) \in Nat /\ lastId \in Nat /\ lastId <= Len(stream) /\ pel \subseteq 1 .. lastId
           /\ inbox \in [Worker -> SUBSET (1 .. lastId)] /\ cur \in [Worker -> 0 .. lastId] /\ pc \in [Worker -> Steps]
           /\ \A w \in Worker : pc[w] \in CanRaise => cur[w] \in 1 .. Len(stream)
           /\ \A w \in Worker : inbox[w] \subseteq 1 .. Len(stream)
BY DEF TypeInv, QueueTypeOK, LocalOK

LEMMA OnwardLive ==
    ASSUME TypeInv, NEW p, IsFiniteSet(Hold(p)), NEW w \in Worker, Onward(w)
    PROVE  Fewer(p)
<1>1. \A i : Handled(i) => Handled(i)'
    BY DEF Handled, Onward, Others
<1>2. Free(p)' \subseteq Free(p)
    BY <1>1 DEF Free, Onward
<1>3. Hold(p)' \subseteq Hold(p)
    BY DEF Hold, Onward, Others, Working
<1> QED BY <1>2, <1>3, FewerHeld

LEMMA EndedSets ==
    ASSUME TypeInv, HandInv, NEW p, NEW w \in Worker, Ended(w)
    PROVE  Free(p)' \subseteq Free(p) /\ Hold(p)' \subseteq Hold(p) \ {<<w, cur[w]>>}
<1>1. \A i : Handled(i) => Handled(i)' \/ i = cur[w]
    BY DEF Handled, Ended, Others
<1>2. Free(p)' \subseteq Free(p)
    BY <1>1 DEF Free, Ended
<1>3. "loop" \notin Working
    BY DEF Working, CanRaise
<1>4. Hold(p)' \subseteq Hold(p) \ {<<w, cur[w]>>}
    BY <1>3 DEF Hold, Ended, Others, HandInv
<1> QED BY <1>2, <1>4

LEMMA ThrownLive ==
    ASSUME TypeInv, NEW p, IsFiniteSet(Hold(p)), NEW w \in Worker, Thrown(w)
    PROVE  OneMore(p)
<1>1. \A i : Handled(i) => Handled(i)' \/ i = cur[w]
    BY DEF Handled, Thrown, Others
<1>2. Free(p)' \subseteq Free(p) \cup {cur[w]}
    BY <1>1 DEF Free, Thrown
<1>3. "escaped" \notin Working
    BY DEF Working, CanRaise
<1>4. Hold(p)' \subseteq Hold(p)
    BY <1>3 DEF Hold, Thrown, Others
<1> QED BY <1>2, <1>4, OneFreed
(* An entry is added; the others stay where they are. *)
LEMMA RequeueStream ==
    ASSUME TypeInv, NEW f \in Fields, Requeue(f)
    PROVE  /\ Len(stream') = Len(stream) + 1 /\ stream'[Len(stream) + 1] = f
           /\ \A i \in 1 .. Len(stream) : stream'[i] = stream[i]
           /\ UNCHANGED <<lastId, pel>>
BY DEF Requeue, TypeInv, QueueTypeOK

(* A new entry is free, and no other is if the handlers keep theirs. *)
LEMMA RequeueFree ==
    ASSUME TypeInv, NEW f \in Fields, Requeue(f), NEW p, NEW M,
           \A i \in 1 .. Len(stream) : Handled(i) => Handled(i)' \/ i \in M
    PROVE  /\ f.post # p => Free(p)' \subseteq Free(p) \cup OfPost(M, p)
           /\ f.post = p => Free(p)' \subseteq (Free(p) \ {0}) \cup OfPost(M, p) \cup {Len(stream) + 1}
<1> DEFINE n == Len(stream)
<1>1. /\ n \in Nat /\ Len(stream') = n + 1 /\ stream'[n + 1] = f /\ \A i \in 1 .. n : stream'[i] = stream[i]
      /\ UNCHANGED <<lastId, pel>> /\ lastId \in Nat
    BY RequeueStream, HandsType
<1>2. ASSUME NEW i \in Free(p)', i # n + 1, i # 0 PROVE i \in Free(p) \cup OfPost(M, p)
    <2>1. i \in 1 .. n /\ stream[i].post = p /\ (i > lastId \/ (i \in pel /\ ~Handled(i)'))
        BY <1>1, <1>2 DEF Free
    <2> QED BY <2>1 DEF Free, OfPost
<1>3. ASSUME 0 \in Free(p)' PROVE 0 \in Free(p) /\ f.post # p
    <2>1. \A j \in 1 .. n + 1 : stream'[j].post # p
        BY <1>1, <1>3 DEF Free
    <2>2. stream'[n + 1].post # p /\ \A j \in 1 .. n : stream[j].post # p
        BY <1>1, <2>1
    <2> QED BY <1>1, <2>2 DEF Free
<1>4. n + 1 \in Free(p)' => f.post = p
    BY <1>1 DEF Free
<1> QED BY <1>2, <1>3, <1>4

LEMMA RequeueHold ==
    ASSUME TypeInv, NEW f \in Fields, Requeue(f), NEW p, NEW h \in Hold(p)',
           h[2] \in 1 .. Len(stream),
           h[2] \in inbox[h[1]] \/ (cur[h[1]] = h[2] /\ pc[h[1]] \in Working)
    PROVE  h \in Hold(p)
<1>1. \A i \in 1 .. Len(stream) : stream'[i] = stream[i]
    BY RequeueStream
<1>2. h \in Worker \X (1 .. Len(stream')) /\ stream'[h[2]].post = p
    BY DEF Hold
<1>3. h \in Worker \X (1 .. Len(stream))
    BY <1>2
<1> QED BY <1>1, <1>2, <1>3 DEF Hold

LEMMA RetriedLive ==
    ASSUME TypeInv, HandInv, NEW p, IsFiniteSet(Hold(p)), NEW w \in Worker, Retried(w)
    PROVE  Fewer(p) \/ (OneMore(p) /\ Charges' >= Charges + 1)
<1>1. PICK f \in Fields : f.post = Entry(w).post /\ Requeue(f)
    BY DEF Retried
<1>2. pc[w] \in Working /\ pc[w] \in CanRaise /\ {"ackFailed", "escaped"} \cap Working = {} /\ "ackFailed" \in CanRaise
    BY DEF Retried, Working, CanRaise, Steps, Closing
<1>3. cur[w] \in 1 .. Len(stream) /\ \A v \in Worker : inbox[v] \subseteq 1 .. Len(stream)
    BY <1>2, HandsType
<1>4. Hold(p)' \subseteq Hold(p) \ {<<w, cur[w]>>}
    <2> SUFFICES ASSUME NEW h \in Hold(p)' PROVE h \in Hold(p) /\ h # <<w, cur[w]>>
        OBVIOUS
    <2>1. /\ h[1] \in Worker /\ h = <<h[1], h[2]>>
          /\ h[2] \in inbox[h[1]] \/ (h[1] # w /\ cur[h[1]] = h[2] /\ pc[h[1]] \in Working)
        BY <1>2 DEF Hold, Retried, Others
    <2>2. h[2] \in 1 .. Len(stream)
        <3>1. Working \subseteq CanRaise
            BY DEF Working
        <3> QED BY <1>3, <2>1, <3>1, HandsType
    <2>3. h # <<w, cur[w]>>
        BY <2>1 DEF HandInv
    <2> QED BY <1>1, <2>1, <2>2, <2>3, RequeueHold
<1>5. Entry(w).post = p => <<w, cur[w]>> \in Hold(p)
    BY <1>2, <1>3 DEF Hold, Entry
<1>6. CASE pc'[w] = "ackFailed"
    <2>1. \A i \in 1 .. Len(stream) : Handled(i) => Handled(i)' \/ i \in {}
        BY <1>2, <1>6 DEF Handled, Retried, Others
    <2>2. /\ f.post # p => Free(p)' \subseteq Free(p)
          /\ f.post = p => Free(p)' \subseteq Free(p) \cup {Len(stream) + 1}
        BY <1>1, <2>1, RequeueFree DEF OfPost
    <2>3. CASE f.post # p
        BY <1>4, <2>2, <2>3, FewerHeld
    <2>4. CASE f.post = p
        BY <1>1, <1>4, <1>5, <2>2, <2>4, HeldFreed
    <2> QED BY <2>3, <2>4
<1>7. CASE pc'[w] = "escaped" /\ Charges' >= Charges + 1
    <2>1. \A i \in 1 .. Len(stream) : Handled(i) => Handled(i)' \/ i \in {cur[w]}
        BY DEF Handled, Retried, Others
    <2>2. OfPost({cur[w]}, p) \subseteq {cur[w]} /\ (Entry(w).post # p => OfPost({cur[w]}, p) = {})
        BY DEF OfPost, Entry
    <2>3. /\ f.post # p => Free(p)' \subseteq Free(p)
          /\ f.post = p => Free(p)' \subseteq Free(p) \cup {cur[w]} \cup {Len(stream) + 1}
        BY <1>1, <2>1, <2>2, RequeueFree
    <2>4. CASE f.post # p
        BY <1>4, <2>3, <2>4, FewerHeld
    <2>5. CASE f.post = p
        <3>a. IsFiniteSet(Free(p)) /\ Free(p)' \subseteq (Free(p) \cup {cur[w]}) \cup {Len(stream) + 1}
            BY <1>1, <2>3, <2>5, FreeFinite
        <3>b. PICK A : A = Free(p) \cup {cur[w]}
            OBVIOUS
        <3>1. /\ IsFiniteSet(A) /\ Cardinality(A) \in Nat
              /\ Cardinality(Free(p)) \in Nat /\ Cardinality(A) <= Cardinality(Free(p)) + 1
            BY <3>a, <3>b, CardMore
        <3>2. Cardinality(Free(p)') \in Nat /\ Cardinality(Free(p)') <= Cardinality(A) + 1
            BY <3>a, <3>b, <3>1, CardMore
        <3>3. /\ IsFiniteSet(Hold(p)') /\ Cardinality(Hold(p)) \in Nat /\ Cardinality(Hold(p)') \in Nat
              /\ Cardinality(Hold(p)') + 1 <= Cardinality(Hold(p))
            BY <1>1, <1>4, <1>5, <2>5, CardLess
        <3>4. Live(p) = Cardinality(Free(p)) + Cardinality(Hold(p)) /\ Live(p)' = Cardinality(Free(p)') + Cardinality(Hold(p)')
            BY DEF Live
        <3>5. OneMore(p)
            BY <3>1, <3>2, <3>3, <3>4 DEF OneMore
        <3> QED BY <1>7, <3>5
    <2> QED BY <2>4, <2>5
<1> QED BY <1>6, <1>7 DEF Retried

LEMMA CrawlLive ==
    ASSUME TypeInv, NEW p, IsFiniteSet(Hold(p)), NEW q \in Post, Crawl(q)
    PROVE  Fewer(p)
<1>1. PICK f \in Fields : f.post = q /\ Requeue(f)
    <2>1. [post |-> q, retry |-> 0] \in Fields
        BY DEF Fields
    <2> QED BY <2>1 DEF Crawl
<1>2. UNCHANGED <<pc, cur, inbox>>
    BY DEF Crawl, localVars
<1>3. \A i \in 1 .. Len(stream) : Handled(i) => Handled(i)' \/ i \in {}
    BY <1>2 DEF Handled
<1>4. /\ f.post # p => Free(p)' \subseteq Free(p)
      /\ f.post = p => Free(p)' \subseteq (Free(p) \ {0}) \cup {Len(stream) + 1}
    BY <1>1, <1>3, RequeueFree DEF OfPost
<1>5. Hold(p)' \subseteq Hold(p)
    <2> SUFFICES ASSUME NEW h \in Hold(p)' PROVE h \in Hold(p)
        OBVIOUS
    <2>1. h[1] \in Worker /\ (h[2] \in inbox[h[1]] \/ (cur[h[1]] = h[2] /\ pc[h[1]] \in Working))
        BY <1>2 DEF Hold
    <2>2. h[2] \in 1 .. Len(stream)
        <3>1. Working \subseteq CanRaise
            BY DEF Working
        <3> QED BY <2>1, <3>1, HandsType
    <2> QED BY <1>1, <2>1, <2>2, RequeueHold
<1>6. CASE q # p
    BY <1>1, <1>4, <1>5, <1>6, FewerHeld
<1>7. CASE q = p
    <2>1. 0 \in Free(p)
        BY <1>7, HandsType DEF Crawl, Free
    <2>a. IsFiniteSet(Free(p)) /\ Free(p)' \subseteq (Free(p) \ {0}) \cup {Len(stream) + 1}
        BY <1>1, <1>4, <1>7, FreeFinite
    <2>2. /\ Cardinality(Free(p)) \in Nat /\ Cardinality(Free(p)') \in Nat
          /\ Cardinality(Free(p)') <= Cardinality(Free(p))
        BY <2>1, <2>a, CardSwap
    <2>3. /\ IsFiniteSet(Hold(p)') /\ Cardinality(Hold(p)) \in Nat /\ Cardinality(Hold(p)') \in Nat
          /\ Cardinality(Hold(p)') <= Cardinality(Hold(p))
        BY <1>5, CardSame
    <2>4. Live(p) = Cardinality(Free(p)) + Cardinality(Hold(p)) /\ Live(p)' = Cardinality(Free(p)') + Cardinality(Hold(p)')
        BY DEF Live
    <2> QED BY <2>2, <2>3, <2>4 DEF Fewer
<1> QED BY <1>6, <1>7
(* An entry of the batch comes to hand, or ends the worker. *)
LEMMA StartLive ==
    ASSUME TypeInv, NEW p, IsFiniteSet(Hold(p)), NEW w \in Worker, StartMessage(w)
    PROVE  Fewer(p)
<1>1. PICK id \in inbox[w] :
        /\ cur' = [cur EXCEPT ![w] = id] /\ inbox' = [inbox EXCEPT ![w] = @ \ {id}]
        /\ \E s \in {"escaped", "dlqBad", "ingest"} : pc' = [pc EXCEPT ![w] = s]
    BY DEF StartMessage, GoTo
<1>2. /\ \A v \in Worker \ {w} : pc'[v] = pc[v] /\ cur'[v] = cur[v] /\ inbox'[v] = inbox[v]
      /\ pc'[w] \in {"escaped", "dlqBad", "ingest"} /\ cur'[w] = id /\ inbox'[w] = inbox[w] \ {id}
      /\ pc[w] = "loop" /\ UNCHANGED <<stream, lastId, pel>>
    BY <1>1, HandsType DEF StartMessage, queueVars
<1>3. "loop" \notin CanRaise /\ "escaped" \notin CanRaise /\ {"dlqBad", "ingest"} \subseteq CanRaise
    BY DEF CanRaise, Steps
<1>4. id \in 1 .. Len(stream)
    BY HandsType
<1>5. CASE pc'[w] # "escaped"
    <2>1. \A i : Handled(i) => Handled(i)'
        BY <1>2, <1>3, <1>5 DEF Handled
    <2>2. Free(p)' \subseteq Free(p)
        BY <1>2, <2>1 DEF Free
    <2>3. Hold(p)' \subseteq Hold(p)
        BY <1>2, <1>3 DEF Hold, Working
    <2> QED BY <2>2, <2>3, FewerHeld
<1>6. CASE pc'[w] = "escaped"
    <2>1. \A i : Handled(i) => Handled(i)' \/ i = id
        BY <1>2, <1>3 DEF Handled
    <2>2. Free(p)' \subseteq Free(p) \cup OfPost({id}, p)
        BY <1>2, <2>1 DEF Free, OfPost
    <2>3. Hold(p)' \subseteq Hold(p) \ {<<w, id>>}
        BY <1>2, <1>3, <1>6 DEF Hold, Working
    <2>4. CASE stream[id].post = p
        <3>1. <<w, id>> \in Hold(p)
            BY <1>4, <2>4 DEF Hold
        <3>2. Free(p)' \subseteq Free(p) \cup {id}
            BY <2>2 DEF OfPost
        <3> QED BY <2>3, <3>1, <3>2, HeldFreed
    <2>5. CASE stream[id].post # p
        <3>1. Free(p)' \subseteq Free(p) /\ Hold(p)' \subseteq Hold(p)
            BY <2>2, <2>3, <2>5 DEF OfPost
        <3> QED BY <3>1, FewerHeld
    <2> QED BY <2>4, <2>5
<1> QED BY <1>5, <1>6

(* Worker w is given the entries is, and was handling none. *)
LEMMA PollSets ==
    ASSUME TypeInv, NEW p, NEW w \in Worker, NEW is, inbox' = [inbox EXCEPT ![w] = is], inbox[w] = {},
           UNCHANGED <<stream, pc, cur>>, is \subseteq 1 .. Len(stream), lastId' \in Nat, lastId' >= lastId,
           pel' \subseteq pel \cup is
    PROVE  Free(p)' \subseteq Free(p) \ OfPost({i \in is : i <= lastId'}, p) /\ Hold(p)' \subseteq Hold(p) \cup Given(w, OfPost(is, p))
<1>1. inbox'[w] = is /\ \A v \in Worker \ {w} : inbox'[v] = inbox[v]
    BY HandsType
<1>2. \A i : Handled(i) => Handled(i)'
    BY <1>1 DEF Handled
<1>3. \A i \in is : Handled(i)'
    BY <1>1 DEF Handled
<1>4. lastId \in Nat
    BY HandsType
<1>5. Free(p)' \subseteq Free(p) \ OfPost({i \in is : i <= lastId'}, p)
    <2> SUFFICES ASSUME NEW i \in Free(p)' PROVE i \in Free(p) /\ i \notin OfPost({j \in is : j <= lastId'}, p)
        OBVIOUS
    <2>1. i \in 0 .. Len(stream)
        BY DEF Free
    <2>2. CASE i = 0
        BY <2>1, <2>2 DEF Free, OfPost
    <2>3. CASE i # 0
        <3>1. stream[i].post = p /\ (i > lastId' \/ (i \in pel' /\ ~Handled(i)'))
            BY <2>3 DEF Free
        <3>2. CASE i > lastId'
            BY <1>4, <2>1, <2>3, <3>1, <3>2 DEF Free, OfPost
        <3>3. CASE i \in pel' /\ ~Handled(i)'
            BY <1>2, <1>3, <2>1, <2>3, <3>1, <3>3 DEF Free, OfPost
        <3> QED BY <3>1, <3>2, <3>3
    <2> QED BY <2>2, <2>3
<1>6. Hold(p)' \subseteq Hold(p) \cup Given(w, OfPost(is, p))
    BY <1>1 DEF Hold, Given, OfPost
<1> QED BY <1>5, <1>6

(* Waiting entries are given to a worker. *)
LEMMA GivenLive ==
    ASSUME TypeInv, NEW p, IsFiniteSet(Hold(p)), NEW w, NEW M, M \subseteq Free(p),
           Free(p)' \subseteq Free(p) \ M, Hold(p)' \subseteq Hold(p) \cup Given(w, M)
    PROVE  Fewer(p)
<1>1. IsFiniteSet(Free(p))
    BY FreeFinite
<1>2. /\ IsFiniteSet(Hold(p)')
      /\ Cardinality(Free(p)') \in Nat /\ Cardinality(Hold(p)') \in Nat
      /\ Cardinality(Free(p)) \in Nat /\ Cardinality(Hold(p)) \in Nat
      /\ Cardinality(Free(p)') + Cardinality(Hold(p)') <= Cardinality(Free(p)) + Cardinality(Hold(p))
    <2>1. PICK A, B, C, D : A = Free(p) /\ B = Free(p)' /\ C = Hold(p) /\ D = Hold(p)'
        OBVIOUS
    <2>2. IsFiniteSet(A) /\ IsFiniteSet(C) /\ M \subseteq A /\ B \subseteq A \ M /\ D \subseteq C \cup Given(w, M)
        BY <1>1, <2>1
    <2>3. /\ IsFiniteSet(D) /\ Cardinality(B) \in Nat /\ Cardinality(D) \in Nat
          /\ Cardinality(A) \in Nat /\ Cardinality(C) \in Nat
          /\ Cardinality(B) + Cardinality(D) <= Cardinality(A) + Cardinality(C)
        BY <2>2, CardGive
    <2> QED BY <2>1, <2>3
<1>3. Live(p) = Cardinality(Free(p)) + Cardinality(Hold(p)) /\ Live(p)' = Cardinality(Free(p)') + Cardinality(Hold(p)')
    BY DEF Live
<1> QED BY <1>2, <1>3 DEF Fewer

LEMMA ReadLive ==
    ASSUME TypeInv, NEW p, IsFiniteSet(Hold(p)), NEW w \in Worker, ReadNew(w)
    PROVE  Fewer(p)
<1>1. /\ inbox' = [inbox EXCEPT ![w] = Unread] /\ inbox[w] = {} /\ UNCHANGED <<stream, pc, cur>>
      /\ pel' = pel \cup Unread
    BY DEF ReadNew, Read
<1>2. lastId' \in lastId .. Len(stream) /\ Unread = (lastId + 1) .. lastId' /\ lastId \in Nat /\ Len(stream) \in Nat
    BY ReadType, HandsType DEF ReadNew, TypeInv
<1>3. /\ Unread \subseteq 1 .. Len(stream) /\ lastId' \in Nat /\ lastId' >= lastId
      /\ {i \in Unread : i <= lastId'} = Unread
    BY <1>2
<1>4. /\ Free(p)' \subseteq Free(p) \ OfPost(Unread, p)
      /\ Hold(p)' \subseteq Hold(p) \cup Given(w, OfPost(Unread, p))
    <2>1. /\ Free(p)' \subseteq Free(p) \ OfPost({i \in Unread : i <= lastId'}, p)
          /\ Hold(p)' \subseteq Hold(p) \cup Given(w, OfPost(Unread, p))
        BY <1>1, <1>3, PollSets
    <2> QED BY <1>3, <2>1
<1>5. OfPost(Unread, p) \subseteq Free(p)
    BY <1>2, <1>3 DEF OfPost, Free
<1> QED BY <1>4, <1>5, GivenLive

(* A claim that takes nothing from anybody gives what waited; a steal makes as many more as a claim returns. *)
LEMMA ClaimLive ==
    ASSUME TypeInv, NEW p, IsFiniteSet(Hold(p)), NEW w \in Worker, ClaimPending(w)
    PROVE  \/ Fewer(p) /\ Charges' = Charges
           \/ /\ IsFiniteSet(Hold(p)') /\ Live(p)' \in Nat /\ Live(p) \in Nat
              /\ Live(p)' <= Live(p) + BatchSize /\ Charges' = Charges + BatchSize
<1>1. PICK is \in Claimable :
        /\ inbox' = [inbox EXCEPT ![w] = is]
        /\ IF is \cap Held = {} THEN UNCHANGED steals ELSE steals' = steals + 1
    BY DEF ClaimPending
<1>2. inbox[w] = {} /\ UNCHANGED <<stream, lastId, pel, pc, cur, crashes, redisFaults>> /\ CountersOK
    BY DEF ClaimPending, queueVars, TypeInv
<1>3. /\ is \subseteq pel /\ Cardinality(is) <= BatchSize /\ BatchSize \in Nat
      /\ is \subseteq 1 .. lastId /\ lastId \in Nat /\ is \subseteq 1 .. Len(stream)
    BY BatchSizeAssumption, HandsType DEF Claimable
<1>4. /\ Free(p)' \subseteq Free(p) \ OfPost(is, p)
      /\ Hold(p)' \subseteq Hold(p) \cup Given(w, OfPost(is, p))
    <2>1. lastId' \in Nat /\ lastId' >= lastId /\ pel' \subseteq pel \cup is /\ \A i \in is : i <= lastId'
        <3>1. lastId' = lastId /\ pel' = pel
            BY <1>2
        <3> QED BY <1>3, <3>1
    <2>2. /\ Free(p)' \subseteq Free(p) \ OfPost({i \in is : i <= lastId'}, p)
          /\ Hold(p)' \subseteq Hold(p) \cup Given(w, OfPost(is, p))
        BY <1>1, <1>2, <1>3, <2>1, PollSets
    <2>3. {i \in is : i <= lastId'} = is
        BY <2>1
    <2> QED BY <2>2, <2>3
<1>5. CASE is \cap Held = {}
    <2>1. \A i \in is : ~Handled(i)
        BY <1>5 DEF Handled, Held
    <2>2. OfPost(is, p) \subseteq Free(p)
        <3>1. \A i \in is : i \in 0 .. Len(stream) /\ i # 0 /\ i \in pel /\ ~Handled(i)
            BY <1>3, <2>1, HandsType
        <3> QED BY <3>1 DEF OfPost, Free
    <2>3. Charges' = Charges
        BY <1>1, <1>2, <1>5, ChargesGrow
    <2> QED BY <1>4, <2>2, <2>3, GivenLive
<1>6. CASE is \cap Held # {}
    <2>1. Charges' = Charges + BatchSize
        BY <1>1, <1>2, <1>6, ChargesSteal
    <2>2. IsFiniteSet(is)
        <3>1. 1 .. lastId \subseteq 0 .. lastId
            BY <1>3
        <3> QED BY <1>3, <3>1, SmallFinite
    <2>3. /\ IsFiniteSet(OfPost(is, p)) /\ Cardinality(OfPost(is, p)) \in Nat /\ Cardinality(is) \in Nat
          /\ Cardinality(OfPost(is, p)) <= Cardinality(is)
        <3>1. OfPost(is, p) \subseteq is
            BY DEF OfPost
        <3> QED BY <2>2, <3>1, CardSame
    <2>4. /\ IsFiniteSet(Given(w, OfPost(is, p)))
          /\ Cardinality(Given(w, OfPost(is, p))) = Cardinality(OfPost(is, p))
        BY <2>3, CardGiven
    <2>5. /\ IsFiniteSet(Hold(p)') /\ Cardinality(Hold(p)') \in Nat /\ Cardinality(Hold(p)) \in Nat
          /\ Cardinality(Hold(p)') <= Cardinality(Hold(p)) + Cardinality(OfPost(is, p))
        BY <1>4, <2>4, CardJoin
    <2>6. /\ Cardinality(Free(p)') \in Nat /\ Cardinality(Free(p)) \in Nat
          /\ Cardinality(Free(p)') <= Cardinality(Free(p))
        <3>1. IsFiniteSet(Free(p)) /\ Free(p)' \subseteq Free(p)
            BY <1>4, FreeFinite
        <3> QED BY <3>1, CardSame
    <2>7. Live(p) = Cardinality(Free(p)) + Cardinality(Hold(p)) /\ Live(p)' = Cardinality(Free(p)') + Cardinality(Hold(p)')
        BY DEF Live
    <2>8. Live(p)' \in Nat /\ Live(p) \in Nat /\ Live(p)' <= Live(p) + BatchSize
        BY <1>3, <2>3, <2>5, <2>6, <2>7
    <2> QED BY <2>1, <2>5, <2>8
<1> QED BY <1>5, <1>6
(* A process that ends gives back what it had, and a crash the entry it was closing. *)
LEMMA DieSets ==
    ASSUME TypeInv, NEW p, NEW w \in Worker, Die(w)
    PROVE  \E M : /\ M \subseteq 1 .. Len(stream) /\ Given(w, M) \subseteq Hold(p)
                  /\ Hold(p)' \subseteq Hold(p) \ Given(w, M)
                  /\ Free(p)' \subseteq Free(p) \cup M \cup {cur[w]}
                  /\ pc[w] \notin CanRaise => Free(p)' \subseteq Free(p) \cup M
<1> DEFINE M == {i \in 1 .. Len(stream) : stream[i].post = p /\ (i \in inbox[w] \/ (cur[w] = i /\ pc[w] \in Working))}
<1>1. /\ \A v \in Worker \ {w} : pc'[v] = pc[v] /\ cur'[v] = cur[v] /\ inbox'[v] = inbox[v]
      /\ pc'[w] = "dead" /\ inbox'[w] = {} /\ UNCHANGED <<stream, lastId, pel>>
    BY HandsType DEF Die, GoTo, queueVars
<1>2. "dead" \notin Working
    BY DEF Working, CanRaise
<1>3. Given(w, M) \subseteq Hold(p)
    BY DEF Given, Hold
<1>4. Hold(p)' \subseteq Hold(p) \ Given(w, M)
    <2> SUFFICES ASSUME NEW h \in Hold(p)' PROVE h \in Hold(p) /\ h \notin Given(w, M)
        OBVIOUS
    <2>1. h[1] # w /\ h \in Hold(p)
        BY <1>1, <1>2 DEF Hold
    <2> QED BY <2>1 DEF Given
<1>5. \A i : Handled(i) => Handled(i)' \/ i \in inbox[w] \/ (i = cur[w] /\ pc[w] \in CanRaise)
    BY <1>1 DEF Handled
<1>6. ASSUME NEW i \in Free(p)', i \notin Free(p) PROVE i \in M \/ (i = cur[w] /\ pc[w] \in CanRaise)
    <2>1. i \in 1 .. Len(stream) /\ stream[i].post = p /\ Handled(i) /\ ~Handled(i)'
        BY <1>1, <1>6 DEF Free
    <2> QED BY <1>5, <2>1
<1>7. M \subseteq 1 .. Len(stream) /\ Free(p)' \subseteq Free(p) \cup M \cup {cur[w]}
    BY <1>6
<1>8. pc[w] \notin CanRaise => Free(p)' \subseteq Free(p) \cup M
    BY <1>6
<1> HIDE DEF M
<1> QED BY <1>3, <1>4, <1>7, <1>8

LEMMA DieLive ==
    ASSUME TypeInv, NEW p, IsFiniteSet(Hold(p)), NEW w \in Worker, Die(w)
    PROVE  OneMore(p) /\ (pc[w] \notin CanRaise => Fewer(p))
<1>1. PICK M : /\ M \subseteq 1 .. Len(stream) /\ Given(w, M) \subseteq Hold(p)
               /\ Hold(p)' \subseteq Hold(p) \ Given(w, M)
               /\ Free(p)' \subseteq Free(p) \cup M \cup {cur[w]}
               /\ pc[w] \notin CanRaise => Free(p)' \subseteq Free(p) \cup M
    BY DieSets
<1>2. PICK A, B, C, D : A = Free(p) /\ B = Free(p)' /\ C = Hold(p) /\ D = Hold(p)'
    OBVIOUS
<1>3. IsFiniteSet(A) /\ IsFiniteSet(C) /\ IsFiniteSet(M)
    <2>1. M \subseteq 0 .. Len(stream) /\ Len(stream) \in Nat
        BY <1>1, HandsType
    <2> QED BY <1>2, <2>1, FreeFinite, SmallFinite
<1>4. Live(p) = Cardinality(A) + Cardinality(C) /\ Live(p)' = Cardinality(B) + Cardinality(D)
    BY <1>2 DEF Live
<1>5. PICK G : /\ G \subseteq C /\ D \subseteq C \ G
               /\ IsFiniteSet(G) /\ Cardinality(G) = Cardinality(M)
    <2>1. IsFiniteSet(Given(w, M)) /\ Cardinality(Given(w, M)) = Cardinality(M)
        BY <1>3, CardGiven
    <2> QED BY <1>1, <1>2, <2>1
<1>g. /\ IsFiniteSet(D) /\ Cardinality(D) \in Nat /\ Cardinality(C) \in Nat
      /\ Cardinality(D) + Cardinality(G) <= Cardinality(C)
    BY <1>3, <1>5, CardTake
<1>6. OneMore(p)
    <2>1. PICK E : E = A \cup M
        OBVIOUS
    <2>2. /\ IsFiniteSet(E) /\ Cardinality(E) \in Nat /\ Cardinality(A) \in Nat /\ Cardinality(M) \in Nat
          /\ Cardinality(E) <= Cardinality(A) + Cardinality(M)
        BY <1>3, <2>1, CardJoin
    <2>3. B \subseteq E \cup {cur[w]}
        BY <1>1, <1>2, <2>1
    <2>4. Cardinality(B) \in Nat /\ Cardinality(B) <= Cardinality(E) + 1
        BY <2>2, <2>3, CardMore
    <2>5. IsFiniteSet(Hold(p)')
        BY <1>2, <1>g
    <2>6. /\ Cardinality(A) + Cardinality(C) \in Nat /\ Cardinality(B) + Cardinality(D) \in Nat
          /\ Cardinality(B) + Cardinality(D) <= Cardinality(A) + Cardinality(C) + 1
        BY <1>5, <1>g, <2>2, <2>4
    <2> QED BY <1>4, <2>5, <2>6 DEF OneMore
<1>7. ASSUME pc[w] \notin CanRaise PROVE Fewer(p)
    <2>1. B \subseteq A \cup M
        BY <1>1, <1>2, <1>7
    <2>2. /\ Cardinality(B) \in Nat /\ Cardinality(A) \in Nat /\ Cardinality(M) \in Nat
          /\ Cardinality(B) <= Cardinality(A) + Cardinality(M)
        BY <1>3, <2>1, CardJoin
    <2>3. IsFiniteSet(Hold(p)')
        BY <1>2, <1>g
    <2>4. /\ Cardinality(A) + Cardinality(C) \in Nat /\ Cardinality(B) + Cardinality(D) \in Nat
          /\ Cardinality(B) + Cardinality(D) <= Cardinality(A) + Cardinality(C)
        BY <1>5, <1>g, <2>2
    <2> QED BY <1>4, <2>3, <2>4 DEF Fewer
<1> QED BY <1>6, <1>7

LEMMA StillLive ==
    ASSUME TypeInv, NEW p, IsFiniteSet(Hold(p)), Still \/ \E w \in Worker : Restart(w)
    PROVE  Fewer(p)
<1>1. CASE Still
    <2>1. Free(p)' = Free(p) /\ Hold(p)' = Hold(p)
        BY <1>1 DEF Still, Free, Hold, Handled
    <2> QED BY <2>1, FewerHeld
<1>2. ASSUME NEW w \in Worker, Restart(w) PROVE Fewer(p)
    <2>1. /\ \A v \in Worker \ {w} : pc'[v] = pc[v]
          /\ pc'[w] = "loop" /\ pc[w] = "dead" /\ UNCHANGED <<stream, lastId, pel, cur, inbox>>
        BY <1>2, HandsType DEF Restart, GoTo, queueVars
    <2>2. "dead" \notin CanRaise /\ "loop" \notin CanRaise
        BY DEF CanRaise
    <2>3. \A i : Handled(i) => Handled(i)'
        BY <2>1, <2>2 DEF Handled
    <2>4. Free(p)' \subseteq Free(p)
        BY <2>1, <2>3 DEF Free
    <2>5. Hold(p)' \subseteq Hold(p)
        BY <2>1, <2>2 DEF Hold, Working
    <2> QED BY <2>4, <2>5, FewerHeld
<1> QED BY <1>1, <1>2

(* A step makes live entries of p only at the price of a crash, a steal or a Redis command that raised. *)
LEMMA LiveStep ==
    ASSUME TypeInv, HandInv, [Next]_vars, NEW p, IsFiniteSet(Hold(p))
    PROVE  /\ IsFiniteSet(Hold(p)') /\ Live(p) \in Nat /\ Live(p)' \in Nat /\ Charges \in Nat /\ Charges' \in Nat
           /\ Charges' >= Charges /\ Live(p)' + Charges <= Live(p) + Charges'
<1>t. CountersOK /\ CountersOK'
    BY TypeNext DEF TypeInv
<1>c. Charges \in Nat /\ Charges' \in Nat
    <2>1. PICK n \in Nat : n = steals'
        BY <1>t DEF CountersOK
    <2>2. BatchSize * n \in Nat
        BY BatchSizeAssumption
    <2>3. Charges' = crashes' + BatchSize * n + redisFaults'
        BY <2>1 DEF Charges
    <2>4. crashes' \in Nat /\ redisFaults' \in Nat
        BY <1>t DEF CountersOK
    <2>5. Charges' \in Nat
        BY <2>2, <2>3, <2>4
    <2> QED BY <1>t, <2>5, ChargesType
<1> DEFINE Goal == /\ IsFiniteSet(Hold(p)') /\ Live(p) \in Nat /\ Live(p)' \in Nat
                   /\ Charges' >= Charges /\ Live(p)' + Charges <= Live(p) + Charges'
<1>f. ASSUME Fewer(p), Charges' >= Charges PROVE Goal
    <2>1. PICK a, b, c, d \in Nat : a = Live(p) /\ b = Live(p)' /\ c = Charges /\ d = Charges'
        BY <1>c, <1>f DEF Fewer
    <2>2. b <= a /\ d >= c
        BY <1>f, <2>1 DEF Fewer
    <2>3. b + c <= a + d
        BY <2>1, <2>2
    <2> QED BY <1>f, <2>1, <2>3 DEF Fewer
<1>m. ASSUME OneMore(p), Charges' >= Charges + 1 PROVE Goal
    <2>1. PICK a, b, c, d \in Nat : a = Live(p) /\ b = Live(p)' /\ c = Charges /\ d = Charges'
        BY <1>c, <1>m DEF OneMore
    <2>2. b <= a + 1 /\ d >= c + 1
        BY <1>m, <2>1 DEF OneMore
    <2>3. b + c <= a + d /\ d >= c
        BY <2>1, <2>2
    <2> QED BY <1>m, <2>1, <2>3 DEF OneMore
<1>e. ASSUME UNCHANGED <<crashes, steals, redisFaults>> PROVE Charges' >= Charges
    <2>1. Charges' = Charges
        BY <1>t, <1>e, ChargesGrow
    <2> QED BY <1>c, <2>1
<1>1. ASSUME Still PROVE Goal
    <2>1. Charges' >= Charges
        BY <1>1, <1>e DEF Still
    <2>2. Fewer(p)
        BY <1>1, StillLive
    <2> QED BY <1>f, <2>1, <2>2
<1>2. ASSUME NEW q \in Post, Crawl(q) PROVE Goal
    BY <1>2, <1>f, <1>e, CrawlLive DEF Crawl, faultVars
<1>3. ASSUME NEW w \in Worker, Onward(w) PROVE Goal
    <2>1. Charges' >= Charges
        BY <1>3 DEF Onward
    <2> QED BY <1>3, <1>f, <2>1, OnwardLive
<1>4. ASSUME NEW w \in Worker, Ended(w) PROVE Goal
    <2>1. Charges' >= Charges
        BY <1>4 DEF Ended
    <2>2. Free(p)' \subseteq Free(p) /\ Hold(p)' \subseteq Hold(p)
        BY <1>4, EndedSets
    <2> QED BY <1>f, <2>1, <2>2, FewerHeld
<1>5. ASSUME NEW w \in Worker, Thrown(w) PROVE Goal
    <2>1. Charges' >= Charges + 1
        BY <1>5 DEF Thrown
    <2> QED BY <1>5, <1>m, <2>1, ThrownLive
<1>6. ASSUME NEW w \in Worker, Retried(w) PROVE Goal
    <2>1. Charges' >= Charges
        <3>1. Charges' >= Charges \/ Charges' >= Charges + 1
            BY <1>6 DEF Retried
        <3> QED BY <1>c, <3>1
    <2> QED BY <1>6, <1>f, <1>m, <2>1, RetriedLive
<1>7. ASSUME NEW w \in Worker, StartMessage(w) PROVE Goal
    BY <1>7, <1>f, <1>e, StartLive DEF StartMessage, faultVars
<1>8. ASSUME NEW w \in Worker, Poll(w) PROVE Goal
    <2>1. CASE ReadNew(w)
        BY <2>1, <1>f, <1>e, ReadLive DEF ReadNew, faultVars
    <2>2. CASE ClaimPending(w)
        <3>1. CASE Fewer(p) /\ Charges' = Charges
            BY <1>c, <1>f, <3>1
        <3>2. CASE /\ IsFiniteSet(Hold(p)') /\ Live(p)' \in Nat /\ Live(p) \in Nat
                   /\ Live(p)' <= Live(p) + BatchSize /\ Charges' = Charges + BatchSize
            <4>1. PICK a, b, c, d, k \in Nat :
                    a = Live(p) /\ b = Live(p)' /\ c = Charges /\ d = Charges' /\ k = BatchSize
                BY <1>c, <3>2, BatchSizeAssumption
            <4>2. b <= a + k /\ d = c + k
                BY <3>2, <4>1
            <4>3. b + c <= a + d /\ d >= c
                BY <4>1, <4>2
            <4> QED BY <3>2, <4>1, <4>3
        <3> QED BY <2>2, <3>1, <3>2, ClaimLive
    <2> QED BY <1>8, <2>1, <2>2 DEF Poll
<1>9. ASSUME NEW w \in Worker, Crash(w) PROVE Goal
    <2>1. Charges' = Charges + 1
        BY <1>9, <1>t, ChargesGrow DEF Crash
    <2>2. Charges' >= Charges + 1
        BY <1>c, <2>1
    <2> QED BY <1>9, <1>m, <2>2, DieLive DEF Crash
<1>10. ASSUME NEW w \in Worker, Exit(w) PROVE Goal
    <2>1. "escaped" \notin CanRaise
        BY DEF CanRaise
    <2> QED BY <1>10, <1>f, <1>e, <2>1, DieLive DEF Exit, faultVars
<1>11. ASSUME NEW w \in Worker, Restart(w) PROVE Goal
    BY <1>11, <1>f, <1>e, StillLive DEF Restart, faultVars
<1>12. Goal
    BY <1>1, <1>2, <1>3, <1>4, <1>5, <1>6, <1>7, <1>8, <1>9, <1>10, <1>11, NextHand
<1> QED BY <1>c, <1>12
LEMMA EndedFalls ==
    ASSUME TypeInv, HandInv, NEW p, IsFiniteSet(Hold(p)), NEW w \in Worker, Ended(w),
           pc[w] \in Working, Entry(w).post = p
    PROVE  Live(p) \in Nat /\ Live(p)' \in Nat /\ Live(p)' + 1 <= Live(p)
<1>1. Free(p)' \subseteq Free(p) /\ Hold(p)' \subseteq Hold(p) \ {<<w, cur[w]>>}
    BY EndedSets
<1>2. <<w, cur[w]>> \in Hold(p)
    BY HandsType DEF Ended, Hold, Entry
<1>3. /\ Cardinality(Hold(p)) \in Nat /\ Cardinality(Hold(p)') \in Nat
      /\ Cardinality(Hold(p)') + 1 <= Cardinality(Hold(p))
    <2>1. PICK A, B, h : A = Hold(p) /\ B = Hold(p)' /\ h = <<w, cur[w]>>
        OBVIOUS
    <2>2. h \in A /\ IsFiniteSet(A) /\ B \subseteq A \ {h}
        BY <1>1, <1>2, <2>1
    <2>3. Cardinality(A) \in Nat /\ Cardinality(B) \in Nat /\ Cardinality(B) + 1 <= Cardinality(A)
        BY <2>2, CardLess
    <2> QED BY <2>1, <2>3
<1>4. /\ Cardinality(Free(p)) \in Nat /\ Cardinality(Free(p)') \in Nat
      /\ Cardinality(Free(p)') <= Cardinality(Free(p))
    BY <1>1, FreeFinite, CardSame
<1>5. Live(p) = Cardinality(Free(p)) + Cardinality(Hold(p)) /\ Live(p)' = Cardinality(Free(p)') + Cardinality(Hold(p)')
    BY DEF Live
<1> QED BY <1>3, <1>4, <1>5

(* Initially the crawler has one entry to add. *)
LEMMA LiveInit ==
    ASSUME Init, NEW p
    PROVE  IsFiniteSet(Hold(p)) /\ Live(p) = 1
<1>1. Len(stream) = 0 /\ \A w \in Worker : inbox[w] = {} /\ pc[w] = "loop"
    BY DEF Init, QueueInit
<1>2. Hold(p) = {}
    BY <1>1 DEF Hold
<1>3. Free(p) = {0}
    BY <1>1 DEF Free
<1>4. Cardinality({0}) = 1 /\ Cardinality({}) = 0 /\ IsFiniteSet({})
    BY FS_Singleton, FS_EmptySet
<1> QED BY <1>2, <1>3, <1>4 DEF Live

(* A message published was a live entry, or its publish raised: what may still come fits under the bound. *)
Paid == \A p \in Post : IsFiniteSet(Hold(p)) /\ postPubs[p] + Live(p) <= 1 + Charges + workFaults

LEMMA PublishPaid ==
    ASSUME TypeInv, HandInv, NEW p, IsFiniteSet(Hold(p)), NEW w \in Worker, PublishPost(w), p = Entry(w).post
    PROVE  \/ workFaults' = workFaults /\ Live(p) \in Nat /\ Live(p)' \in Nat /\ Live(p)' + 1 <= Live(p)
           \/ workFaults' = workFaults + 1
<1>1. /\ pc[w] = "publishPost" /\ Proceed(w, "loop") /\ UNCHANGED queueVars
      /\ pc \in [Worker -> Steps] /\ cur \in [Worker -> 0 .. lastId]
    BY HandsType DEF PublishPost
<1>2. CASE ChargeFault(pc[w])
    BY <1>1, <1>2 DEF ChargeFault, WorkSteps
<1>3. CASE GoTo(w, "loop") /\ cur' = [cur EXCEPT ![w] = 0] /\ UNCHANGED faultVars
    <2>1. pc[w] \in Working /\ pc[w] \in CanRaise /\ pc[w] \in Acked
        BY <1>1 DEF Working, CanRaise, Steps, Closing, Acked
    <2>2. Others(w) /\ pc'[w] = "loop" /\ cur'[w] = 0 /\ UNCHANGED inbox
        BY <1>1, <1>3 DEF GoTo, Others, Proceed
    <2>3. UNCHANGED <<stream, lastId, pel>> /\ cur[w] \notin pel
        BY <1>1, <2>1 DEF queueVars, HandInv
    <2>4. Charges' >= Charges
        <3>1. CountersOK
            BY DEF TypeInv
        <3>2. Charges \in Nat /\ Charges' = Charges
            BY <1>3, <3>1, ChargesType, ChargesGrow DEF faultVars
        <3> QED BY <3>2
    <2>5. Ended(w)
        BY <2>1, <2>2, <2>3, <2>4 DEF Ended
    <2>6. workFaults' = workFaults
        BY <1>3 DEF faultVars
    <2> QED BY <2>1, <2>5, <2>6, EndedFalls
<1> QED BY <1>1, <1>2, <1>3 DEF Proceed

(* No other step publishes a post. *)
LEMMA PostPubsKept ==
    ASSUME TypeInv, [Next]_vars, NEW p \in Post, postPubs'[p] # postPubs[p]
    PROVE  \E w \in Worker : PublishPost(w) /\ Entry(w).post = p /\ postPubs'[p] = postPubs[p] + 1
<1>1. PICK w \in Worker : Handle(w)
    <2>1. ~(UNCHANGED vars \/ DeadlinePasses \/ \E q \in Post : Crawl(q))
        BY DEF vars, DeadlinePasses, Crawl, pubVars
    <2>2. \A w \in Worker : ~(Poll(w) \/ Raise(w) \/ Crash(w) \/ Exit(w) \/ Restart(w))
        BY DEF Poll, ClaimPending, ReadNew, Raise, Crash, Exit, Die, Restart, pubVars
    <2> QED BY <2>1, <2>2 DEF Next
<1>2. ~(StartMessage(w) \/ DlqBad(w) \/ AckBad(w) \/ Ingest(w) \/ AckIngested(w) \/ SetMetadata(w) \/ AddDocId(w)
        \/ CountCompleted(w) \/ LockSnapshot(w))
    BY DEF StartMessage, DlqBad, AckBad, Ingest, AckIngested, SetMetadata, AddDocId, CountCompleted, LockSnapshot, pubVars
<1>3. ~(GetStatus(w) \/ ReclaimFailed(w) \/ CreateSnapshot(w) \/ PublishSnapshot(w) \/ SetCompleted(w) \/ SetFailed(w)
        \/ MarkDone(w) \/ RetryOrDlq(w) \/ AckFailed(w))
    BY DEF GetStatus, ReclaimFailed, CreateSnapshot, PublishSnapshot, SetCompleted, SetFailed, MarkDone, RetryOrDlq,
           AckFailed, pubVars
<1>4. PublishPost(w)
    BY <1>1, <1>2, <1>3 DEF Handle
<1>5. postPubs \in [Post -> Nat]
    BY DEF TypeInv, DataOK
<1> QED BY <1>4, <1>5 DEF PublishPost

LEMMA WorkFaultsGrow ==
    ASSUME TypeInv, [Next]_vars
    PROVE  workFaults \in Nat /\ workFaults' \in Nat /\ workFaults <= workFaults'
<1>f. workFaults \in Nat
    BY DEF TypeInv, CountersOK
<1>u. ASSUME UNCHANGED faultVars PROVE workFaults' = workFaults
    BY <1>u DEF faultVars
<1>p. ASSUME NEW w \in Worker, NEW s, Proceed(w, s) PROVE workFaults' = workFaults \/ workFaults' = workFaults + 1
    BY <1>p DEF Proceed, ChargeFault, faultVars
<1>1. ASSUME UNCHANGED vars \/ DeadlinePasses \/ \E p \in Post : Crawl(p) PROVE workFaults' = workFaults
    BY <1>1, <1>u DEF vars, DeadlinePasses, Crawl
<1>2. ASSUME NEW w \in Worker, Poll(w) \/ Raise(w) \/ Crash(w) \/ Exit(w) \/ Restart(w)
      PROVE  workFaults' = workFaults \/ workFaults' = workFaults + 1
    BY <1>2 DEF Poll, ClaimPending, ReadNew, Raise, ChargeFault, Crash, Exit, Restart, faultVars
<1>3. ASSUME NEW w \in Worker, Handle(w) PROVE workFaults' = workFaults \/ workFaults' = workFaults + 1
    <2>1. ~(StartMessage(w) \/ SetFailed(w)) => \E s : Proceed(w, s)
        BY <1>3 DEF Handle, DlqBad, AckBad, Ingest, AckIngested, SetMetadata, AddDocId, CountCompleted,
                    LockSnapshot, GetStatus, ReclaimFailed, CreateSnapshot, PublishSnapshot, SetCompleted,
                    MarkDone, PublishPost, RetryOrDlq, AckFailed
    <2>2. StartMessage(w) \/ SetFailed(w) => UNCHANGED faultVars
        BY DEF StartMessage, SetFailed
    <2> QED BY <1>p, <1>u, <2>1, <2>2
<1> QED BY <1>f, <1>1, <1>2, <1>3 DEF Next

LEMMA PaidNext == TypeInv /\ HandInv /\ Paid /\ [Next]_vars => Paid'
<1> SUFFICES ASSUME TypeInv, HandInv, Paid, [Next]_vars, NEW p \in Post
             PROVE  IsFiniteSet(Hold(p)') /\ postPubs'[p] + Live(p)' <= 1 + Charges' + workFaults'
    BY DEF Paid
<1>1. /\ IsFiniteSet(Hold(p)) /\ postPubs[p] + Live(p) <= 1 + Charges + workFaults
      /\ postPubs[p] \in Nat
    BY DEF Paid, TypeInv, DataOK
<1>2. /\ IsFiniteSet(Hold(p)') /\ Live(p) \in Nat /\ Live(p)' \in Nat /\ Charges \in Nat /\ Charges' \in Nat
      /\ Charges' >= Charges /\ Live(p)' + Charges <= Live(p) + Charges'
    BY <1>1, LiveStep
<1>3. workFaults \in Nat /\ workFaults' \in Nat /\ workFaults <= workFaults'
    BY WorkFaultsGrow
<1>4. PICK a, b, c, d, f, g, n \in Nat : /\ a = Live(p) /\ b = Live(p)' /\ c = Charges /\ d = Charges'
                                         /\ f = workFaults /\ g = workFaults' /\ n = postPubs[p]
    BY <1>1, <1>2, <1>3
<1>5. n + a <= 1 + c + f /\ c <= d /\ f <= g /\ b + c <= a + d
    BY <1>1, <1>2, <1>3, <1>4
<1>6. CASE postPubs'[p] = postPubs[p]
    <2>1. n + b <= 1 + d + g
        BY <1>4, <1>5
    <2> QED BY <1>2, <1>4, <1>6, <2>1
<1>7. CASE postPubs'[p] # postPubs[p]
    <2>1. PICK w \in Worker : PublishPost(w) /\ Entry(w).post = p /\ postPubs'[p] = n + 1
        BY <1>4, <1>7, PostPubsKept
    <2>2. (g = f /\ b + 1 <= a) \/ g = f + 1
        BY <1>1, <1>4, <2>1, PublishPaid
    <2>3. (n + 1) + b <= 1 + d + g
        BY <1>4, <1>5, <2>2
    <2> QED BY <1>2, <1>4, <2>1, <2>3
<1> QED BY <1>6, <1>7

(* POST mode publishes a post once more only for a crash, a steal (as often as one claim returns entries) *)
(* or a call that raised: retries, bad entries and racing workers add none (ingest_worker.py:126-140).   *)
THEOREM PostPublishesBounded == Spec => []PostPublishBound
<1>1. Init => TypeInv /\ HandInv /\ Paid
    <2> SUFFICES ASSUME Init PROVE TypeInv /\ HandInv /\ Paid
        OBVIOUS
    <2>1. HandInv
        BY DEF Init, HandInv, Acked, Section
    <2>2. ASSUME NEW p \in Post PROVE IsFiniteSet(Hold(p)) /\ postPubs[p] + Live(p) <= 1 + Charges + workFaults
        <3>1. postPubs[p] = 0 /\ workFaults = 0 /\ CountersOK
            BY DEF Init, CountersOK
        <3>2. Charges \in Nat
            BY <3>1, ChargesType
        <3> QED BY <3>1, <3>2, LiveInit
    <2> QED BY <2>1, <2>2, TypeInit DEF Paid
<1>2. TypeInv /\ HandInv /\ Paid /\ [Next]_vars => (TypeInv /\ HandInv /\ Paid)'
    BY TypeNext, HandNext, PaidNext
<1>3. TypeInv /\ Paid => PostPublishBound
    <2> SUFFICES ASSUME TypeInv, Paid, NEW p \in Post
                 PROVE  postPubs[p] <= 1 + crashes + BatchSize * steals + redisFaults + workFaults
        BY DEF PostPublishBound
    <2>1. CountersOK /\ IsFiniteSet(Hold(p)) /\ postPubs[p] \in Nat /\ postPubs[p] + Live(p) <= 1 + Charges + workFaults
        BY DEF TypeInv, DataOK, Paid
    <2>2. Live(p) \in Nat
        BY <2>1, FreeFinite, FS_CardinalityType DEF Live
    <2>3. PICK k \in Nat : k = BatchSize * steals
        BY <2>1, BatchSizeAssumption DEF CountersOK
    <2>4. Charges = crashes + k + redisFaults
        BY <2>3 DEF Charges
    <2>5. postPubs[p] <= 1 + crashes + k + redisFaults + workFaults
        BY <2>1, <2>2, <2>4 DEF CountersOK
    <2> QED BY <2>3, <2>5
<1> QED BY <1>1, <1>2, <1>3, PTL DEF Spec
-----------------------------------------------------------------------------
(***************************************************************************)
(* SnapshotComplete.  With no crash, steal or Redis error a post has one   *)
(* live entry at most, and none once it is counted: so the counter is the  *)
(* number of the posts counted, each of them stored and among the ids.     *)
(***************************************************************************)

Calm == crashes + steals + redisFaults = 0

Inside == Section \cup {"lock", "getStatus", "reclaim"}

(* The steps of the batch before and at its counter. *)
Tallying == {"meta", "sadd", "incr"}

WellTallied ==
    \A w \in Worker :
        /\ pc[w] \in Tallying => Kind[Entry(w).post] = "full"
        /\ pc[w] = "incr" => Entry(w).post \in docIds

Lives == \A p \in Post : IsFiniteSet(Hold(p)) /\ Live(p) <= 1 + Charges

(* The posts that the counter has counted. *)
Counted == {p \in docIds : \A w \in Worker : pc[w] = "incr" => Entry(w).post # p}

(* Nobody has gone on to the snapshot yet. *)
Counting ==
    /\ snapshot = {} /\ \A w \in Worker : pc[w] \notin Inside
    /\ docIds \subseteq FullPosts
    /\ completed = Cardinality(Counted)
    /\ \A p \in Counted : Live(p) = 0

Whole ==
    Calm => \/ deadline = "past"
            \/ FullPosts \subseteq docIds /\ (snapshot = {} \/ FullPosts \subseteq snapshot)
            \/ Counting

(* How a worker comes to a step of the batch. *)
LEMMA TallyEntered ==
    ASSUME TypeInv, [Next]_vars, NEW v \in Worker, pc'[v] \in Tallying
    PROVE  /\ pc[v] \in CanRaise /\ cur'[v] = cur[v]
           /\ \/ pc'[v] = pc[v]
              \/ pc'[v] = "meta" /\ Kind[Entry(v).post] = "full"
              \/ pc'[v] = "sadd" /\ pc[v] = "meta"
              \/ pc'[v] = "incr" /\ pc[v] = "sadd" /\ docIds' = docIds \cup {Entry(v).post}
<1> DEFINE Goal == /\ pc[v] \in CanRaise /\ cur'[v] = cur[v]
                   /\ \/ pc'[v] = pc[v]
                      \/ pc'[v] = "meta" /\ Kind[Entry(v).post] = "full"
                      \/ pc'[v] = "sadd" /\ pc[v] = "meta"
                      \/ pc'[v] = "incr" /\ pc[v] = "sadd" /\ docIds' = docIds \cup {Entry(v).post}
<1>s. pc \in [Worker -> Steps] /\ cur \in [Worker -> 0 .. lastId]
    BY HandsType
<1>b. \A s : Catch(s) \notin Tallying
    BY DEF Catch, Tallying
<1>c. /\ Tallying = {"meta", "sadd", "incr"} /\ Tallying \subseteq CanRaise
      /\ "ack" \in CanRaise
      /\ {"loop", "dlqBad", "ackBad", "ingest", "ack", "lock", "getStatus", "reclaim", "mark", "publishPost", "failed",
          "ackFailed", "escaped", "dead", "snapshot", "publish", "setCompleted", "setFailed"} \cap Tallying = {}
    BY DEF Tallying, CanRaise, Steps, Section
<1>k. ASSUME pc'[v] = pc[v], cur'[v] = cur[v] PROVE Goal
    BY <1>k, <1>c
<1>p. ASSUME NEW s, Proceed(v, s) PROVE pc'[v] = s /\ (s # "loop" => cur'[v] = cur[v])
    BY <1>p, <1>s, <1>b DEF Proceed, GoTo
<1>1. ASSUME UNCHANGED vars \/ DeadlinePasses \/ (\E p \in Post : Crawl(p)) \/ (\E w \in Worker : Poll(w)) PROVE Goal
    BY <1>1, <1>k DEF vars, localVars, DeadlinePasses, Crawl, Poll, ClaimPending, ReadNew
<1>2. ASSUME NEW w \in Worker \ {v}, Handle(w) \/ Raise(w) \/ Crash(w) \/ Exit(w) \/ Restart(w) PROVE Goal
    <2>1. pc'[v] = pc[v] /\ cur'[v] = cur[v]
        BY <1>2, <1>s DEF Handle, StartMessage, DlqBad, AckBad, Ingest, AckIngested, SetMetadata, AddDocId, CountCompleted,
                    LockSnapshot, GetStatus, ReclaimFailed, CreateSnapshot, PublishSnapshot, SetCompleted, SetFailed,
                    MarkDone, PublishPost, RetryOrDlq, AckFailed, Raise, Crash, Exit, Restart, Die, Proceed, GoTo
    <2> QED BY <1>k, <2>1
<1>3. ~(Raise(v) \/ Crash(v) \/ Exit(v) \/ Restart(v))
    BY <1>s, <1>b, <1>c DEF Raise, Crash, Exit, Restart, Die, GoTo
<1>4. ~StartMessage(v)
    BY <1>s, <1>c DEF StartMessage, GoTo
<1>5. ~(DlqBad(v) \/ AckBad(v) \/ Ingest(v) \/ CountCompleted(v) \/ LockSnapshot(v) \/ GetStatus(v) \/ ReclaimFailed(v))
    BY <1>p, <1>c DEF DlqBad, AckBad, Ingest, CountCompleted, LockSnapshot, GetStatus, ReclaimFailed
<1>6. ~(CreateSnapshot(v) \/ PublishSnapshot(v) \/ SetCompleted(v) \/ SetFailed(v) \/ MarkDone(v) \/ PublishPost(v)
        \/ RetryOrDlq(v) \/ AckFailed(v))
    BY <1>p, <1>s, <1>c DEF CreateSnapshot, PublishSnapshot, SetCompleted, SetFailed, GoTo, MarkDone, PublishPost, RetryOrDlq,
                       AckFailed
<1>7. ASSUME AckIngested(v) PROVE Goal
    <2>1. PICK s : /\ Proceed(v, s) /\ pc[v] = "ack"
                   /\ s = CASE Kind[Entry(v).post] = "full" -> "meta"
                            [] Kind[Entry(v).post] = "post" -> "mark"
                            [] OTHER                        -> "loop"
        BY <1>7 DEF AckIngested
    <2>2. pc'[v] = s
        BY <1>p, <2>1
    <2>3. Kind[Entry(v).post] = "full" /\ s = "meta"
        BY <1>c, <2>1, <2>2
    <2> QED BY <1>c, <1>p, <2>1, <2>2, <2>3
<1>8. ASSUME SetMetadata(v) PROVE Goal
    BY <1>8, <1>c, <1>p DEF SetMetadata
<1>9. ASSUME AddDocId(v) PROVE Goal
    BY <1>9, <1>c, <1>p DEF AddDocId
<1>10. Goal
    BY <1>1, <1>2, <1>3, <1>4, <1>5, <1>6, <1>7, <1>8, <1>9 DEF Next, Handle
<1> QED BY <1>10

(* Entries stay in the stream as they were added. *)
LEMMA StreamKept ==
    ASSUME TypeInv, [Next]_vars
    PROVE  \A i \in 1 .. Len(stream) : stream'[i] = stream[i]
<1>1. ASSUME NEW f \in Fields, Requeue(f) PROVE \A i \in 1 .. Len(stream) : stream'[i] = stream[i]
    BY <1>1, RequeueStream
<1>2. ASSUME NEW p \in Post, Crawl(p) PROVE \A i \in 1 .. Len(stream) : stream'[i] = stream[i]
    <2>1. [post |-> p, retry |-> 0] \in Fields
        BY DEF Fields
    <2> QED BY <1>1, <1>2, <2>1 DEF Crawl
<1>3. ASSUME NEW w \in Worker, RetryOrDlq(w) PROVE \A i \in 1 .. Len(stream) : stream'[i] = stream[i]
    <2>1. Entry(w) \in Fields
        BY <1>3, EntryType DEF RetryOrDlq, CanRaise, Steps
    <2>2. [Entry(w) EXCEPT !.retry = @ + 1] \in Fields
        BY <2>1 DEF Fields
    <2> QED BY <1>1, <1>3, <2>2 DEF RetryOrDlq, SendToDlq
<1>4. ASSUME NEW w \in Worker, Handle(w), ~RetryOrDlq(w) PROVE UNCHANGED stream
    BY <1>4 DEF Handle, StartMessage, DlqBad, AckBad, Ingest, AckIngested, SetMetadata, AddDocId, CountCompleted,
                LockSnapshot, GetStatus, ReclaimFailed, CreateSnapshot, PublishSnapshot, SetCompleted, SetFailed,
                MarkDone, PublishPost, AckFailed, SendToDlq, Ack, queueVars
<1>5. ASSUME NEW w \in Worker, Poll(w) \/ Raise(w) \/ Crash(w) \/ Exit(w) \/ Restart(w) PROVE UNCHANGED stream
    BY <1>5 DEF Poll, ClaimPending, ReadNew, Read, Raise, Crash, Exit, Restart, Die, queueVars
<1>6. DeadlinePasses \/ UNCHANGED vars => UNCHANGED stream
    BY DEF DeadlinePasses, vars, queueVars
<1> QED BY <1>2, <1>3, <1>4, <1>5, <1>6 DEF Next

(* The entry at hand is what it was. *)
LEMMA EntryKept ==
    ASSUME TypeInv, [Next]_vars, NEW v \in Worker, pc[v] \in CanRaise, cur'[v] = cur[v]
    PROVE  Entry(v)' = Entry(v)
<1>1. cur[v] \in 1 .. Len(stream)
    BY HandsType
<1> QED BY <1>1, StreamKept DEF Entry

LEMMA DocIdsGrow ==
    ASSUME [Next]_vars
    PROVE  docIds \subseteq docIds'
BY DEF Next, vars, batchVars, DeadlinePasses, Crawl, Poll, ClaimPending, ReadNew, Raise, Crash, Exit, Restart, Die,
       Handle, StartMessage, DlqBad, AckBad, Ingest, AckIngested, SetMetadata, AddDocId, CountCompleted,
       LockSnapshot, GetStatus, ReclaimFailed, CreateSnapshot, PublishSnapshot, SetCompleted, SetFailed,
       MarkDone, PublishPost, RetryOrDlq, AckFailed

LEMMA WellTalliedNext == TypeInv /\ WellTallied /\ [Next]_vars => WellTallied'
<1> SUFFICES ASSUME TypeInv, WellTallied, [Next]_vars, NEW v \in Worker, pc'[v] \in Tallying
             PROVE  Kind[Entry(v)'.post] = "full" /\ (pc'[v] = "incr" => Entry(v)'.post \in docIds')
    BY DEF WellTallied, Tallying
<1>1. /\ pc[v] \in CanRaise /\ cur'[v] = cur[v]
      /\ \/ pc'[v] = pc[v]
         \/ pc'[v] = "meta" /\ Kind[Entry(v).post] = "full"
         \/ pc'[v] = "sadd" /\ pc[v] = "meta"
         \/ pc'[v] = "incr" /\ pc[v] = "sadd" /\ docIds' = docIds \cup {Entry(v).post}
    BY TallyEntered
<1>2. Entry(v)' = Entry(v)
    BY <1>1, EntryKept
<1>3. docIds \subseteq docIds'
    BY DocIdsGrow
<1> QED BY <1>1, <1>2, <1>3 DEF WellTallied, Tallying

LEMMA LivesNext == TypeInv /\ HandInv /\ Lives /\ [Next]_vars => Lives'
<1> SUFFICES ASSUME TypeInv, HandInv, Lives, [Next]_vars, NEW p \in Post
             PROVE  IsFiniteSet(Hold(p)') /\ Live(p)' <= 1 + Charges'
    BY DEF Lives
<1>1. IsFiniteSet(Hold(p)) /\ Live(p) <= 1 + Charges
    BY DEF Lives
<1>2. /\ IsFiniteSet(Hold(p)') /\ Live(p) \in Nat /\ Live(p)' \in Nat /\ Charges \in Nat /\ Charges' \in Nat
      /\ Live(p)' + Charges <= Live(p) + Charges'
    BY <1>1, LiveStep
<1>3. PICK a, b, c, d \in Nat : a = Live(p) /\ b = Live(p)' /\ c = Charges /\ d = Charges'
    BY <1>2
<1>4. b <= 1 + d
    BY <1>1, <1>2, <1>3
<1> QED BY <1>2, <1>3, <1>4
LEMMA CalmBefore ==
    ASSUME TypeInv, [Next]_vars, Calm'
    PROVE  /\ Calm /\ crashes' = crashes /\ steals' = steals /\ redisFaults' = redisFaults
           /\ crashes = 0 /\ redisFaults = 0 /\ Charges = 0 /\ Charges' = 0
<1>1. crashes \in Nat /\ steals \in Nat /\ redisFaults \in Nat
    BY DEF TypeInv, CountersOK
<1>2. crashes' \in Nat /\ steals' \in Nat /\ redisFaults' \in Nat
    BY TypeNext DEF TypeInv, CountersOK
<1>3. crashes' = 0 /\ steals' = 0 /\ redisFaults' = 0
    <2>1. PICK a, b, c \in Nat : a = crashes' /\ b = steals' /\ c = redisFaults'
        BY <1>2
    <2>2. a + b + c = 0
        BY <2>1 DEF Calm
    <2>3. a = 0 /\ b = 0 /\ c = 0
        BY <2>2
    <2> QED BY <2>1, <2>3
<1>4. crashes <= crashes' /\ redisFaults <= redisFaults'
    BY FaultsOnlyGrow
<1>5. crashes = 0 /\ redisFaults = 0
    BY <1>1, <1>3, <1>4
<1>6. steals' = steals \/ steals' = steals + 1
    <2>1. ASSUME NEW w \in Worker, Handle(w) PROVE UNCHANGED steals
        BY <2>1 DEF Handle, StartMessage, DlqBad, AckBad, Ingest, AckIngested, SetMetadata, AddDocId, CountCompleted,
                    LockSnapshot, GetStatus, ReclaimFailed, CreateSnapshot, PublishSnapshot, SetCompleted, SetFailed,
                    MarkDone, PublishPost, RetryOrDlq, AckFailed, Proceed, ChargeFault, faultVars
    <2> QED BY <2>1 DEF Next, vars, faultVars, DeadlinePasses, Crawl, Poll, ClaimPending, ReadNew, Raise, ChargeFault,
                        Crash, Exit, Restart
<1>7. steals = 0
    BY <1>1, <1>3, <1>6
<1>8. Calm
    BY <1>5, <1>7 DEF Calm
<1>9. CountersOK /\ BatchSize * 0 = 0
    BY BatchSizeAssumption DEF TypeInv
<1>10. Charges = 0 /\ Charges' = 0
    BY <1>3, <1>5, <1>7, <1>9 DEF Charges
<1> QED BY <1>3, <1>5, <1>7, <1>8, <1>10

(* With no crash and no Redis error a worker comes to the snapshot, and leaves the counter, by counting only. *)
LEMMA CalmStep ==
    ASSUME TypeInv, [Next]_vars, Calm', NEW v \in Worker, ~CountCompleted(v)
    PROVE  /\ pc'[v] \in Inside => pc[v] \in Inside
           /\ pc[v] = "incr" => pc'[v] = "incr" /\ cur'[v] = cur[v]
<1> DEFINE Goal == (pc'[v] \in Inside => pc[v] \in Inside) /\ (pc[v] = "incr" => pc'[v] = "incr" /\ cur'[v] = cur[v])
<1>s. pc \in [Worker -> Steps] /\ cur \in [Worker -> 0 .. lastId]
    BY HandsType
<1>f. crashes = 0 /\ redisFaults = 0 /\ crashes' = crashes /\ redisFaults' = redisFaults
    BY CalmBefore
<1>c. Inside = {"snapshot", "publish", "setCompleted", "setFailed", "lock", "getStatus", "reclaim"}
    BY DEF Inside, Section
<1>b. \A s : Catch(s) \in Inside => s \in Inside
    BY <1>c DEF Catch
<1>p. ASSUME NEW s, Proceed(v, s), pc[v] # "incr", s \in Inside => pc[v] \in Inside PROVE Goal
    BY <1>p, <1>s, <1>b DEF Proceed, GoTo
<1>k. ASSUME pc'[v] = pc[v], cur'[v] = cur[v] PROVE Goal
    BY <1>k
<1>1. ASSUME UNCHANGED vars \/ DeadlinePasses \/ (\E p \in Post : Crawl(p)) \/ (\E w \in Worker : Poll(w)) PROVE Goal
    BY <1>1, <1>k DEF vars, localVars, DeadlinePasses, Crawl, Poll, ClaimPending, ReadNew
<1>2. ASSUME NEW w \in Worker \ {v}, Handle(w) \/ Raise(w) \/ Crash(w) \/ Exit(w) \/ Restart(w) PROVE Goal
    <2>1. pc'[v] = pc[v] /\ cur'[v] = cur[v]
        BY <1>2, <1>s DEF Handle, StartMessage, DlqBad, AckBad, Ingest, AckIngested, SetMetadata, AddDocId, CountCompleted,
                    LockSnapshot, GetStatus, ReclaimFailed, CreateSnapshot, PublishSnapshot, SetCompleted, SetFailed,
                    MarkDone, PublishPost, RetryOrDlq, AckFailed, Raise, Crash, Exit, Restart, Die, Proceed, GoTo
    <2> QED BY <1>k, <2>1
<1>3. ASSUME Raise(v) PROVE Goal
    <2>1. pc'[v] = Catch(pc[v])
        BY <1>3, <1>s DEF Raise, GoTo
    <2>2. pc[v] # "incr"
        BY <1>3, <1>f DEF Raise, ChargeFault, WorkSteps
    <2> QED BY <1>b, <2>1, <2>2
<1>4. ~Crash(v)
    BY <1>f DEF Crash
<1>5. ASSUME Exit(v) \/ Restart(v) PROVE Goal
    BY <1>5, <1>s, <1>c DEF Exit, Restart, Die, GoTo
<1>6. ASSUME StartMessage(v) PROVE Goal
    BY <1>6, <1>s, <1>c DEF StartMessage, GoTo
<1>7. ASSUME DlqBad(v) \/ AckBad(v) \/ Ingest(v) \/ SetMetadata(v) PROVE Goal
    BY <1>7, <1>c, <1>p DEF DlqBad, AckBad, Ingest, SetMetadata
<1>8. ASSUME AckIngested(v) PROVE Goal
    <2>1. pc[v] = "ack" /\ \E s \in {"meta", "mark", "loop"} : Proceed(v, s)
        BY <1>8 DEF AckIngested
    <2> QED BY <1>c, <1>p, <2>1
<1>9. ASSUME AddDocId(v) PROVE Goal
    BY <1>9, <1>c, <1>p DEF AddDocId
<1>10. ASSUME LockSnapshot(v) \/ GetStatus(v) \/ ReclaimFailed(v) PROVE Goal
    BY <1>10, <1>c DEF LockSnapshot, GetStatus, ReclaimFailed
<1>11. ASSUME CreateSnapshot(v) \/ PublishSnapshot(v) \/ SetCompleted(v) \/ SetFailed(v) PROVE Goal
    BY <1>11, <1>c DEF CreateSnapshot, PublishSnapshot, SetCompleted, SetFailed
<1>12. ASSUME MarkDone(v) \/ PublishPost(v) \/ RetryOrDlq(v) \/ AckFailed(v) PROVE Goal
    BY <1>12, <1>c, <1>p DEF MarkDone, PublishPost, RetryOrDlq, AckFailed
<1>13. Goal
    BY <1>1, <1>2, <1>3, <1>4, <1>5, <1>6, <1>7, <1>8, <1>9, <1>10, <1>11, <1>12 DEF Next, Handle
<1> QED BY <1>13

(* Who changes the data of the batch. *)
LEMMA BatchData ==
    ASSUME [Next]_vars
    PROVE  /\ docIds' = docIds \/ \E w \in Worker : AddDocId(w)
           /\ completed' = completed \/ \E w \in Worker : CountCompleted(w)
           /\ snapshot' = snapshot \/ \E w \in Worker : CreateSnapshot(w)
           /\ deadline = "past" => deadline' = "past"
<1>1. ASSUME NEW w \in Worker, Handle(w)
      PROVE  /\ docIds' = docIds \/ AddDocId(w)
             /\ completed' = completed \/ CountCompleted(w)
             /\ snapshot' = snapshot \/ CreateSnapshot(w)
             /\ deadline = "past" => deadline' = "past"
    BY <1>1 DEF Handle, StartMessage, DlqBad, AckBad, Ingest, AckIngested, SetMetadata, AddDocId, CountCompleted,
                LockSnapshot, GetStatus, ReclaimFailed, CreateSnapshot, PublishSnapshot, SetCompleted, SetFailed,
                MarkDone, PublishPost, RetryOrDlq, AckFailed, dbVars, batchVars
<1>2. ASSUME \/ UNCHANGED vars \/ DeadlinePasses \/ \E p \in Post : Crawl(p)
             \/ \E w \in Worker : Poll(w) \/ Raise(w) \/ Crash(w) \/ Exit(w) \/ Restart(w)
      PROVE  UNCHANGED <<docIds, completed, snapshot>> /\ (deadline = "past" => deadline' = "past")
    BY <1>2 DEF vars, dbVars, batchVars, DeadlinePasses, Crawl, Poll, ClaimPending, ReadNew, Raise, Crash, Exit, Restart, Die
<1> QED BY <1>1, <1>2 DEF Next

(* A worker at work on an entry of p is one live entry; two workers are two. *)
LEMMA AtWork ==
    ASSUME TypeInv, NEW p, IsFiniteSet(Hold(p)), NEW w \in Worker, pc[w] \in Working, Entry(w).post = p
    PROVE  /\ Live(p) \in Nat /\ Live(p) >= 1
           /\ \A v \in Worker \ {w} : pc[v] \in Working /\ Entry(v).post = p => Live(p) >= 2
<1>1. /\ Cardinality(Free(p)) \in Nat /\ Cardinality(Hold(p)) \in Nat
      /\ Live(p) = Cardinality(Free(p)) + Cardinality(Hold(p))
    BY FreeFinite, FS_CardinalityType DEF Live
<1>2. \A v \in Worker : pc[v] \in Working /\ Entry(v).post = p => <<v, cur[v]>> \in Hold(p)
    BY HandsType DEF Working, Hold, Entry
<1>3. PICK A, h : A = Hold(p) /\ h = <<w, cur[w]>> /\ h \in A
    BY <1>2
<1>4. IsFiniteSet(A \ {h}) /\ Cardinality(A \ {h}) \in Nat /\ Cardinality(A \ {h}) + 1 <= Cardinality(A)
    BY <1>3, CardLess
<1>5. Cardinality(Hold(p)) >= 1 /\ Cardinality(A) \in Nat
    BY <1>1, <1>3, <1>4
<1>6. ASSUME NEW v \in Worker \ {w}, pc[v] \in Working, Entry(v).post = p PROVE Cardinality(Hold(p)) >= 2
    <2>1. PICK g : g = <<v, cur[v]>>
        OBVIOUS
    <2>2. g \in A \ {h}
        BY <1>2, <1>3, <1>6, <2>1
    <2>3. /\ Cardinality((A \ {h}) \ {g}) \in Nat
          /\ Cardinality((A \ {h}) \ {g}) + 1 <= Cardinality(A \ {h})
        BY <1>4, <2>2, CardLess
    <2>4. Cardinality(A) >= 2
        BY <1>4, <1>5, <2>3
    <2> QED BY <1>3, <2>4
<1> QED BY <1>1, <1>5, <1>6
(* With no Redis error a command of the batch goes on as it says. *)
LEMMA CalmProceed ==
    ASSUME TypeInv, redisFaults' = redisFaults, NEW w \in Worker, pc[w] \in Tallying, NEW s, Proceed(w, s)
    PROVE  /\ pc'[w] = s /\ Others(w) /\ UNCHANGED <<inbox, faultVars>>
           /\ cur'[w] = IF s = "loop" THEN 0 ELSE cur[w]
<1>1. pc[w] \notin WorkSteps /\ redisFaults \in Nat
    BY DEF Tallying, WorkSteps, TypeInv, CountersOK
<1>2. ~ChargeFault(pc[w])
    BY <1>1 DEF ChargeFault
<1> QED BY <1>2, HandsType DEF Proceed, GoTo, Others

LEMMA LiveCalm ==
    ASSUME TypeInv, HandInv, Lives, [Next]_vars, Calm', NEW p \in Post
    PROVE  /\ IsFiniteSet(Hold(p)) /\ Live(p) \in Nat /\ Live(p) <= 1
           /\ Live(p)' \in Nat /\ Live(p)' <= Live(p)
<1>1. IsFiniteSet(Hold(p)) /\ Live(p) <= 1 + Charges
    BY DEF Lives
<1>2. Charges = 0 /\ Charges' = 0
    BY CalmBefore
<1>3. Live(p) \in Nat /\ Live(p)' \in Nat /\ Live(p)' + Charges <= Live(p) + Charges'
    BY <1>1, LiveStep
<1>4. PICK a, b \in Nat : a = Live(p) /\ b = Live(p)'
    BY <1>3
<1>5. b <= a /\ a <= 1
    BY <1>1, <1>2, <1>3, <1>4
<1> QED BY <1>1, <1>4, <1>5

(* While nobody counts, the posts counted stay the same. *)
LEMMA CountingStays ==
    ASSUME TypeInv, HandInv, Lives, WellTallied, Counting, [Next]_vars, Calm', \A w \in Worker : ~CountCompleted(w)
    PROVE  Counting'
<1>1. \A w \in Worker : pc'[w] \notin Inside
    BY CalmStep DEF Counting
<1>2. snapshot' = {}
    <2>1. \A w \in Worker : ~CreateSnapshot(w)
        BY DEF CreateSnapshot, Counting, Inside, Section
    <2> QED BY <2>1, BatchData DEF Counting
<1>3. completed' = completed
    BY BatchData
<1>4. ASSUME NEW v \in Worker, pc[v] = "incr" PROVE pc'[v] = "incr" /\ Entry(v)' = Entry(v)
    <2>1. pc'[v] = "incr" /\ cur'[v] = cur[v]
        BY <1>4, CalmStep
    <2>2. pc[v] \in CanRaise
        BY <1>4 DEF CanRaise, Steps
    <2> QED BY <2>1, <2>2, EntryKept
<1>5. ASSUME NEW v \in Worker, pc'[v] = "incr"
      PROVE  Entry(v)' = Entry(v) /\ (pc[v] = "incr" \/ Entry(v).post \notin Counted)
    <2>1. /\ pc[v] \in CanRaise /\ cur'[v] = cur[v]
          /\ pc[v] = "incr" \/ pc[v] = "sadd"
        BY <1>5, TallyEntered DEF Tallying
    <2>2. Entry(v)' = Entry(v)
        BY <2>1, EntryKept
    <2>3. ASSUME pc[v] = "sadd", Entry(v).post \in Counted PROVE FALSE
        <3>1. PICK p : p = Entry(v).post
            OBVIOUS
        <3>2. p \in Post /\ Live(p) = 0
            BY <2>1, <2>3, <3>1, EntryType DEF Counting, Fields
        <3>3. pc[v] \in Working /\ IsFiniteSet(Hold(p))
            BY <2>1, <2>3, <3>2, LiveCalm DEF Working, Closing
        <3>4. Live(p) >= 1
            BY <3>1, <3>3, AtWork
        <3> QED BY <3>2, <3>4
    <2> QED BY <2>1, <2>2, <2>3
<1>6. ASSUME NEW v \in Worker, AddDocId(v)
      PROVE  /\ docIds' = docIds \cup {Entry(v).post} /\ pc'[v] = "incr" /\ Entry(v).post \in FullPosts
    <2>1. pc[v] \in Tallying /\ pc[v] \in CanRaise
        BY <1>6 DEF AddDocId, Tallying, CanRaise, Steps
    <2>2. Entry(v).post \in FullPosts
        BY <2>1, EntryType DEF WellTallied, FullPosts, Fields
    <2>3. redisFaults' = redisFaults
        BY CalmBefore
    <2>4. Proceed(v, "incr")
        BY <1>6 DEF AddDocId
    <2>5. pc'[v] = "incr"
        BY <2>1, <2>3, <2>4, CalmProceed
    <2> QED BY <1>6, <2>2, <2>5 DEF AddDocId
<1>7. docIds' \subseteq FullPosts
    BY <1>6, BatchData DEF Counting
<1>8. Counted' = Counted
    <2>1. Counted' = {p \in docIds' : \A w \in Worker : pc'[w] = "incr" => Entry(w)'.post # p}
        BY DEF Counted
    <2>2. Counted \subseteq Counted'
        BY <1>5, <2>1, DocIdsGrow DEF Counted
    <2>3. ASSUME NEW p \in Counted' PROVE p \in docIds
        <3>1. CASE docIds' = docIds
            BY <2>1, <3>1
        <3>2. ASSUME NEW v \in Worker, AddDocId(v) PROVE p \in docIds
            <4>1. docIds' = docIds \cup {Entry(v).post} /\ pc'[v] = "incr"
                BY <1>6, <3>2
            <4>2. Entry(v)'.post # p /\ p \in docIds'
                BY <2>1, <4>1
            <4> QED BY <1>5, <4>1, <4>2
        <3> QED BY <3>1, <3>2, BatchData
    <2>4. Counted' \subseteq Counted
        BY <1>4, <2>1, <2>3 DEF Counted
    <2> QED BY <2>2, <2>4
<1>9. ASSUME NEW p \in Counted PROVE Live(p)' = 0
    <2>1. p \in Post /\ Live(p) = 0
        BY DEF Counting, Counted, FullPosts
    <2>2. Live(p)' \in Nat /\ Live(p)' <= Live(p)
        BY <2>1, LiveCalm
    <2> QED BY <2>1, <2>2
<1>10. completed = Cardinality(Counted)
    BY DEF Counting
<1>11. Counting' = (/\ snapshot' = {} /\ \A w \in Worker : pc'[w] \notin Inside
                    /\ docIds' \subseteq FullPosts
                    /\ completed' = Cardinality(Counted')
                    /\ \A p \in Counted' : Live(p)' = 0)
    BY DEF Counting, FullPosts
<1> QED BY <1>1, <1>2, <1>3, <1>7, <1>8, <1>9, <1>10, <1>11

(* A count adds one post to those counted; when it is the last expected, the ids are complete. *)
LEMMA CountingCounts ==
    ASSUME TypeInv, HandInv, Lives, WellTallied, Counting, [Next]_vars, Calm', NEW w \in Worker, CountCompleted(w),
           deadline # "past", IsFiniteSet(FullPosts), Cardinality(FullPosts) <= Expected
    PROVE  Counting' \/ (FullPosts \subseteq docIds' /\ snapshot' = {})
<1>1. PICK p : p = Entry(w).post
    OBVIOUS
<1>2. /\ pc[w] = "incr" /\ pc[w] \in Tallying /\ pc[w] \in CanRaise /\ pc[w] \in Working /\ pc[w] \in Acked
      /\ completed' = completed + 1 /\ UNCHANGED <<queueVars, docIds, deadline, snapshot>>
    BY DEF CountCompleted, Tallying, CanRaise, Steps, Working, Closing, Acked, dbVars
<1>3. p \in Post /\ p \in docIds
    BY <1>1, <1>2, EntryType DEF WellTallied, Fields
<1>4. IsFiniteSet(Hold(p)) /\ Live(p) \in Nat /\ Live(p) <= 1
    BY <1>3, LiveCalm
<1>5. \A v \in Worker \ {w} : pc[v] = "incr" => Entry(v).post # p
    <2>1. "incr" \in Working
        BY <1>2
    <2>2. \A v \in Worker \ {w} : pc[v] \in Working /\ Entry(v).post = p => Live(p) >= 2
        BY <1>1, <1>2, <1>4, AtWork
    <2> QED BY <1>4, <2>1, <2>2
<1>6. p \notin Counted
    BY <1>1, <1>2 DEF Counted
<1>7. Counted \cup {p} \subseteq FullPosts /\ Counted \cup {p} \subseteq docIds
    BY <1>3 DEF Counting, Counted
<1>8. IsFiniteSet(Counted) /\ IsFiniteSet(Counted \cup {p}) /\ Cardinality(Counted \cup {p}) = completed + 1
    <2>1. IsFiniteSet(Counted)
        BY <1>7, FS_Subset
    <2>2. completed = Cardinality(Counted)
        BY DEF Counting
    <2> QED BY <1>6, <2>1, <2>2, FS_AddElement
<1>9. PICK s : s = (IF completed' >= Expected \/ deadline = "past" THEN "lock" ELSE "loop") /\ Proceed(w, s)
    BY DEF CountCompleted
<1>10. /\ pc'[w] = s /\ Others(w) /\ UNCHANGED <<inbox, faultVars>>
       /\ cur'[w] = IF s = "loop" THEN 0 ELSE cur[w]
    <2>1. redisFaults' = redisFaults
        BY CalmBefore
    <2> QED BY <1>2, <1>9, <2>1, CalmProceed
<1>11. CASE completed + 1 >= Expected
    <2>1. PICK A, B : A = FullPosts /\ B = Counted \cup {p}
        OBVIOUS
    <2>2. /\ IsFiniteSet(A) /\ B \in SUBSET A /\ Cardinality(A) <= Expected
          /\ Cardinality(B) = completed + 1
        BY <1>7, <1>8, <2>1
    <2>3. /\ Cardinality(B) <= Cardinality(A) /\ (Cardinality(A) = Cardinality(B) => A = B)
          /\ Cardinality(A) \in Nat
        BY <2>2, FS_Subset, FS_CardinalityType
    <2>4. completed \in Nat /\ Expected \in Nat
        BY ConstantsAssumption DEF TypeInv, DataOK
    <2>5. A = B
        BY <1>11, <2>2, <2>3, <2>4
    <2>6. FullPosts \subseteq docIds
        BY <1>7, <2>1, <2>5
    <2> QED BY <1>2, <2>6 DEF Counting
<1>12. CASE ~(completed + 1 >= Expected)
    <2>1. s = "loop" /\ cur'[w] = 0 /\ pc'[w] = "loop"
        BY <1>2, <1>9, <1>10, <1>12
    <2>2. \A v \in Worker \ {w} : pc'[v] = pc[v] /\ Entry(v)' = Entry(v)
        BY <1>2, <1>10 DEF Others, Entry, queueVars
    <2>3. \A v \in Worker : pc'[v] \notin Inside
        BY <2>1, <2>2 DEF Counting, Inside, Section
    <2>4. Counted' = Counted \cup {p}
        <3>1. Counted' = {q \in docIds' : \A v \in Worker : pc'[v] = "incr" => Entry(v)'.post # q}
            BY DEF Counted
        <3>2. ASSUME NEW q \in Counted' PROVE q \in Counted \cup {p}
            BY <1>1, <1>2, <2>2, <3>1 DEF Counted
        <3>3. ASSUME NEW q \in Counted PROVE q \in Counted'
            BY <1>2, <2>1, <2>2, <3>1 DEF Counted
        <3>4. p \in Counted'
            BY <1>2, <1>3, <1>5, <2>1, <2>2, <3>1
        <3> QED BY <3>2, <3>3, <3>4
    <2>5. Live(p)' = 0
        <3>1. Charges \in Nat /\ Charges' = Charges
            <4>1. CountersOK
                BY DEF TypeInv
            <4> QED BY <1>10, <4>1, ChargesType, ChargesGrow DEF faultVars
        <3>2. cur[w] \notin pel' /\ UNCHANGED <<inbox, stream, lastId, pel>>
            BY <1>2, <1>10 DEF queueVars, HandInv
        <3>3. Ended(w)
            BY <1>2, <1>10, <2>1, <3>1, <3>2 DEF Ended
        <3>4. Live(p)' \in Nat /\ Live(p)' + 1 <= Live(p)
            BY <1>1, <1>2, <1>4, <3>3, EndedFalls
        <3>5. PICK b \in Nat : b = Live(p)'
            BY <3>4
        <3>6. b = 0
            BY <1>4, <3>4, <3>5
        <3> QED BY <3>5, <3>6
    <2>6. ASSUME NEW q \in Counted PROVE Live(q)' = 0
        <3>1. q \in Post /\ Live(q) = 0
            BY DEF Counting, Counted, FullPosts
        <3>2. Live(q)' \in Nat /\ Live(q)' <= Live(q)
            BY <3>1, LiveCalm
        <3> QED BY <3>1, <3>2
    <2>7. \A q \in Counted' : Live(q)' = 0
        BY <2>4, <2>5, <2>6
    <2>8. completed' = Cardinality(Counted')
        BY <1>2, <1>8, <2>4
    <2>9. Counting' = (/\ snapshot' = {} /\ \A v \in Worker : pc'[v] \notin Inside
                       /\ docIds' \subseteq FullPosts
                       /\ completed' = Cardinality(Counted')
                       /\ \A q \in Counted' : Live(q)' = 0)
        BY DEF Counting, FullPosts
    <2>10. snapshot' = {} /\ docIds' \subseteq FullPosts
        BY <1>2 DEF Counting
    <2> QED BY <2>3, <2>7, <2>8, <2>9, <2>10
<1> QED BY <1>11, <1>12

LEMMA WholeNext ==
    ASSUME TypeInv, HandInv, Lives, WellTallied, Named, Whole, [Next]_vars,
           IsFiniteSet(FullPosts), Cardinality(FullPosts) <= Expected
    PROVE  Whole'
<1> SUFFICES ASSUME Calm'
             PROVE  \/ deadline' = "past"
                    \/ FullPosts \subseteq docIds' /\ (snapshot' = {} \/ FullPosts \subseteq snapshot')
                    \/ Counting'
    BY DEF Whole, FullPosts
<1>1. \/ deadline = "past"
      \/ FullPosts \subseteq docIds /\ (snapshot = {} \/ FullPosts \subseteq snapshot)
      \/ Counting
    BY CalmBefore DEF Whole
<1>2. CASE deadline = "past"
    BY <1>2, BatchData
<1>3. CASE FullPosts \subseteq docIds /\ (snapshot = {} \/ FullPosts \subseteq snapshot)
    <2>1. FullPosts \subseteq docIds'
        BY <1>3, DocIdsGrow
    <2>2. ASSUME NEW w \in Worker, CreateSnapshot(w) PROVE snapshot' = {} \/ FullPosts \subseteq snapshot'
        BY <1>3, <2>2 DEF CreateSnapshot, SnapshotRow, Named
    <2> QED BY <1>3, <2>1, <2>2, BatchData
<1>4. CASE Counting /\ deadline # "past"
    <2>1. CASE \A w \in Worker : ~CountCompleted(w)
        BY <1>4, <2>1, CountingStays
    <2>2. ASSUME NEW w \in Worker, CountCompleted(w) PROVE Counting' \/ (FullPosts \subseteq docIds' /\ snapshot' = {})
        BY <1>4, <2>2, CountingCounts
    <2> QED BY <2>1, <2>2
<1> QED BY <1>1, <1>2, <1>3, <1>4

(* Unless the deadline is past, the snapshot of a batch with at most Expected posts is built from all of *)
(* them, whatever errors the database, the LLM and RabbitMQ raise and whatever retries they lead to, as  *)
(* long as no worker is killed, no entry is stolen and no Redis command raises (ingest_worker.py:149,    *)
(* the order SADD, INCR, SET NX of _handle_full_blog_batch).                                             *)
THEOREM SnapshotsComplete ==
    ASSUME IsFiniteSet(FullPosts), Cardinality(FullPosts) <= Expected
    PROVE  Spec => []SnapshotComplete
<1> DEFINE I == TypeInv /\ StoredFirst /\ HandInv /\ Lives /\ WellTallied /\ Named /\ Whole
<1>1. Init => I
    <2> SUFFICES ASSUME Init PROVE I
        OBVIOUS
    <2>1. TypeInv /\ StoredFirst
        BY TypeInit, StoredInit
    <2>2. HandInv /\ WellTallied /\ Named
        BY DEF Init, HandInv, Acked, Section, WellTallied, Tallying, Named, Batched
    <2>3. Lives
        <3>1. CountersOK
            BY DEF Init, CountersOK
        <3>2. Charges \in Nat
            BY <3>1, ChargesType
        <3> QED BY <3>2, LiveInit DEF Lives
    <2>4. Counting
        <3>1. Counted = {} /\ Cardinality({}) = 0
            BY FS_EmptySet DEF Init, Counted
        <3> QED BY <3>1 DEF Init, Counting, Inside, Section
    <2> QED BY <2>1, <2>2, <2>3, <2>4 DEF Whole
<1>2. I /\ [Next]_vars => I'
    <2>1. I /\ [Next]_vars => (TypeInv /\ StoredFirst /\ HandInv /\ Lives /\ WellTallied /\ Named)'
        BY TypeNext, StoredNext, HandNext, LivesNext, WellTalliedNext, NamedNext
    <2>2. I /\ [Next]_vars => Whole'
        BY WholeNext
    <2> QED BY <2>1, <2>2
<1>3. I => SnapshotComplete
    BY DEF Whole, Counting, SnapshotComplete, SnapshotWaitsForAll, Calm
<1> QED BY <1>1, <1>2, <1>3, PTL DEF Spec
-----------------------------------------------------------------------------
(***************************************************************************)
(* NoPostLost and BatchNotForgotten.  With no crash and no Redis error,    *)
(* what is to become of a post or of the batch is entrusted to the         *)
(* dead-letter stream, to a worker at a step from which it goes on, or to  *)
(* an entry that waits and that nobody is about to acknowledge after       *)
(* having given it up.                                                     *)
(***************************************************************************)

Unbroken == crashes + redisFaults = 0

(* The steps before a post is passed on, and before the batch is. *)
Bringing == {"dlqBad", "ingest", "ack", "meta", "sadd", "mark", "publishPost", "failed"}
Carrying == Bringing \cup Inside \cup {"incr"}

Sealed(j) == \E w \in Worker : cur[w] = j /\ pc[w] \in {"ackBad", "ackFailed"}

ToCome(p) == \E j \in 1 .. Len(stream) : stream[j].post = p /\ Waiting(j) /\ ~Sealed(j)

Entrusted(p, steps) == InDlq(p) \/ ToCome(p) \/ \E w \in Worker : pc[w] \in steps /\ Entry(w).post = p

(* What a worker at a step knows of its entry and of the batch. *)
AtKind ==
    \A w \in Worker :
        /\ pc[w] \in Tallying \cup Inside => Kind[Entry(w).post] = "full"
        /\ pc[w] \in {"mark", "publishPost"} => Kind[Entry(w).post] = "post"

Begun ==
    /\ \A w \in Worker : pc[w] \in {"getStatus", "reclaim"} => status # "none"
    /\ \A w \in Worker : pc[w] = "setCompleted" => snapPubs # <<>>
    /\ status = "completed" => snapPubs # <<>>

PostKept == Unbroken => \A i \in 1 .. Len(stream) : PassedOn(stream[i].post) \/ Entrusted(stream[i].post, Bringing)

BatchKept ==
    Unbroken /\ completed >= Expected => snapPubs # <<>> \/ \E p \in FullPosts : Entrusted(p, Carrying)

LEMMA UnbrokenBefore ==
    ASSUME TypeInv, TypeInv', [Next]_vars, Unbroken'
    PROVE  /\ crashes = 0 /\ redisFaults = 0 /\ crashes' = 0 /\ redisFaults' = 0 /\ Unbroken
<1>1. crashes \in Nat /\ redisFaults \in Nat /\ crashes' \in Nat /\ redisFaults' \in Nat
    BY DEF TypeInv, CountersOK
<1>2. crashes <= crashes' /\ redisFaults <= redisFaults'
    BY FaultsOnlyGrow
<1>3. crashes' + redisFaults' = 0
    BY DEF Unbroken
<1>4. crashes' = 0 /\ redisFaults' = 0
    <2>1. PICK a, b \in Nat : a = crashes' /\ b = redisFaults'
        BY <1>1
    <2>2. a + b = 0
        BY <1>3, <2>1
    <2>3. a = 0 /\ b = 0
        BY <2>2
    <2> QED BY <2>1, <2>3
<1>5. crashes = 0 /\ redisFaults = 0
    BY <1>1, <1>2, <1>4
<1> QED BY <1>4, <1>5 DEF Unbroken

(* Then a call goes on as it says, or it is one of the database, the LLM or RabbitMQ that raised. *)
LEMMA UnbrokenProceed ==
    ASSUME TypeInv, redisFaults = 0, redisFaults' = 0, NEW w \in Worker, NEW s, Proceed(w, s)
    PROVE  /\ Others(w)
           /\ \/ pc'[w] = s /\ (s # "loop" => cur'[w] = cur[w]) /\ (s = "loop" => cur'[w] = 0)
              \/ pc[w] \in WorkSteps /\ pc'[w] = Catch(pc[w]) /\ cur'[w] = cur[w]
<1>1. pc[w] \notin WorkSteps => ~ChargeFault(pc[w])
    BY DEF ChargeFault
<1> QED BY <1>1, HandsType DEF Proceed, GoTo, Others

(* Who moves. *)
LEMMA Mover ==
    ASSUME TypeInv, TypeInv', [Next]_vars, Unbroken'
    PROVE  \/ /\ \A v \in Worker : pc'[v] = pc[v] /\ cur'[v] = cur[v]
              /\ \/ UNCHANGED vars \/ DeadlinePasses \/ \E p \in Post : Crawl(p)
                 \/ \E w \in Worker : Poll(w)
           \/ \E w \in Worker : /\ \A v \in Worker \ {w} : pc'[v] = pc[v] /\ cur'[v] = cur[v]
                                /\ \/ Handle(w)
                                   \/ Raise(w) /\ pc[w] \in WorkSteps
                                   \/ Exit(w) \/ Restart(w)
<1>1. pc \in [Worker -> Steps] /\ cur \in [Worker -> 0 .. lastId]
    BY HandsType
<1>2. crashes = 0 /\ redisFaults = 0 /\ crashes' = 0 /\ redisFaults' = 0
    BY UnbrokenBefore
<1>3. ASSUME UNCHANGED vars \/ DeadlinePasses \/ (\E p \in Post : Crawl(p)) \/ (\E w \in Worker : Poll(w))
      PROVE  \A v \in Worker : pc'[v] = pc[v] /\ cur'[v] = cur[v]
    BY <1>3 DEF vars, localVars, DeadlinePasses, Crawl, Poll, ClaimPending, ReadNew
<1>4. ASSUME NEW w \in Worker, Handle(w) \/ Raise(w) \/ Exit(w) \/ Restart(w)
      PROVE  \A v \in Worker \ {w} : pc'[v] = pc[v] /\ cur'[v] = cur[v]
    BY <1>1, <1>4 DEF Handle, StartMessage, DlqBad, AckBad, Ingest, AckIngested, SetMetadata, AddDocId, CountCompleted,
                    LockSnapshot, GetStatus, ReclaimFailed, CreateSnapshot, PublishSnapshot, SetCompleted, SetFailed,
                    MarkDone, PublishPost, RetryOrDlq, AckFailed, Raise, Exit, Restart, Die, Proceed, GoTo
<1>5. \A w \in Worker : ~Crash(w)
    BY <1>2 DEF Crash
<1>6. ASSUME NEW w \in Worker, Raise(w) PROVE pc[w] \in WorkSteps
    BY <1>2, <1>6 DEF Raise, ChargeFault
<1> QED BY <1>3, <1>4, <1>5, <1>6 DEF Next

(* Nobody is about to acknowledge an entry given up but who has just dead-lettered it or added it anew. *)
LEMMA Sealing ==
    ASSUME TypeInv, TypeInv', [Next]_vars, Unbroken', NEW v \in Worker, pc'[v] \in {"ackBad", "ackFailed"}
    PROVE  /\ cur'[v] = cur[v]
           /\ pc'[v] = pc[v] \/ DlqBad(v) \/ RetryOrDlq(v)
<1> DEFINE Goal == cur'[v] = cur[v] /\ (pc'[v] = pc[v] \/ DlqBad(v) \/ RetryOrDlq(v))
<1>1. crashes = 0 /\ redisFaults = 0 /\ crashes' = 0 /\ redisFaults' = 0
    BY UnbrokenBefore
<1>2. \A s : Catch(s) \notin {"ackBad", "ackFailed"}
    BY DEF Catch
<1>p. ASSUME NEW s, Proceed(v, s), s \notin {"ackBad", "ackFailed"} PROVE Goal
    BY <1>1, <1>2, <1>p, UnbrokenProceed
<1>3. CASE pc'[v] = pc[v] /\ cur'[v] = cur[v]
    BY <1>3
<1>4. CASE Raise(v) \/ Exit(v) \/ Restart(v)
    BY <1>2, <1>4, HandsType DEF Raise, Exit, Restart, Die, GoTo
<1>5. CASE Handle(v)
    <2>1. CASE StartMessage(v) \/ SetFailed(v)
        BY <2>1, HandsType DEF StartMessage, SetFailed, GoTo
    <2>2. CASE DlqBad(v) \/ RetryOrDlq(v)
        <3>1. Proceed(v, "ackBad") \/ Proceed(v, "ackFailed")
            BY <2>2 DEF DlqBad, RetryOrDlq
        <3>2. cur'[v] = cur[v]
            BY <1>1, <3>1, UnbrokenProceed
        <3> QED BY <2>2, <3>2
    <2>3. CASE AckBad(v) \/ Ingest(v) \/ SetMetadata(v) \/ AddDocId(v) \/ SetCompleted(v)
               \/ PublishSnapshot(v) \/ MarkDone(v) \/ PublishPost(v) \/ AckFailed(v)
        BY <2>3, <1>p DEF AckBad, Ingest, SetMetadata, AddDocId, SetCompleted, PublishSnapshot, MarkDone,
                          PublishPost, AckFailed
    <2>4. CASE AckIngested(v) \/ CountCompleted(v) \/ LockSnapshot(v) \/ GetStatus(v) \/ ReclaimFailed(v) \/ CreateSnapshot(v)
        <3>1. PICK s \in {"loop", "meta", "mark", "lock", "snapshot", "getStatus", "reclaim", "setFailed", "publish"} :
                 Proceed(v, s)
            BY <2>4 DEF AckIngested, CountCompleted, LockSnapshot, GetStatus, ReclaimFailed, CreateSnapshot
        <3> QED BY <1>p, <3>1
    <2> QED BY <1>5, <2>1, <2>2, <2>3, <2>4 DEF Handle
<1> QED BY <1>3, <1>4, <1>5, Mover

LEMMA NothingSealed ==
    ASSUME TypeInv, TypeInv', [Next]_vars, Unbroken', NEW i \in 1 .. Len(stream'), i > Len(stream)
    PROVE  Waiting(i)' /\ ~Sealed(i)'
<1>1. /\ lastId \in Nat /\ Len(stream) \in Nat /\ lastId <= Len(stream) /\ Len(stream') \in Nat
      /\ cur' \in [Worker -> 0 .. lastId']
    BY DEF TypeInv, QueueTypeOK, LocalOK
<1>2. lastId' = lastId
    <2>1. ~(UNCHANGED vars \/ DeadlinePasses \/ \E w \in Worker : Poll(w))
        BY <1>1 DEF vars, DeadlinePasses, Poll, ClaimPending, ReadNew, Read, queueVars
    <2>2. (\E p \in Post : Crawl(p)) => UNCHANGED lastId
        BY DEF Crawl, Requeue
    <2>3. ASSUME NEW w \in Worker, Handle(w) \/ Raise(w) \/ Exit(w) \/ Restart(w) PROVE UNCHANGED lastId
        BY <2>3 DEF Handle, StartMessage, DlqBad, AckBad, Ingest, AckIngested, SetMetadata, AddDocId, CountCompleted,
                    LockSnapshot, GetStatus, ReclaimFailed, CreateSnapshot, PublishSnapshot, SetCompleted, SetFailed,
                    MarkDone, PublishPost, RetryOrDlq, AckFailed, Raise, Exit, Restart, Die, queueVars, Ack, SendToDlq,
                    Requeue
    <2> QED BY <2>1, <2>2, <2>3, Mover
<1>3. i > lastId'
    BY <1>1, <1>2
<1>4. \A w \in Worker : cur'[w] # i
    BY <1>1, <1>2, <1>3
<1> QED BY <1>3, <1>4 DEF Waiting, Sealed

(* A worker that retries or gives up an entry leaves its post to a new entry or to the dead-letter stream. *)
LEMMA GivenUp ==
    ASSUME TypeInv, TypeInv', [Next]_vars, Unbroken', NEW w \in Worker, DlqBad(w) \/ RetryOrDlq(w),
           NEW p, p = Entry(w).post
    PROVE  InDlq(p)' \/ ToCome(p)'
<1>1. Entry(w) \in Fields
    BY EntryType DEF DlqBad, RetryOrDlq, CanRaise, Steps
<1>2. CASE SendToDlq(Entry(w))
    <2>1. PICK f \in Fields : f = Entry(w)
        BY <1>1
    <2>2. dlq \in Seq(Fields) /\ dlq' = Append(dlq, f)
        BY <1>2, <2>1 DEF SendToDlq, TypeInv, QueueTypeOK
    <2>3. Len(dlq) + 1 \in DOMAIN dlq' /\ dlq'[Len(dlq) + 1] = f
        BY <2>2
    <2>4. PICK k : k = Len(dlq) + 1
        OBVIOUS
    <2>5. k \in DOMAIN dlq' /\ dlq'[k].post = p
        BY <2>1, <2>3, <2>4
    <2> QED BY <2>5 DEF InDlq
<1>3. CASE Requeue([Entry(w) EXCEPT !.retry = @ + 1])
    <2>1. PICK f \in Fields : f.post = Entry(w).post /\ Requeue(f)
        BY <1>1, <1>3 DEF Fields
    <2>2. Len(stream') = Len(stream) + 1 /\ stream'[Len(stream) + 1] = f /\ Len(stream) \in Nat
        BY <2>1, RequeueStream, HandsType
    <2>3. PICK j : j = Len(stream) + 1
        OBVIOUS
    <2>4. j \in 1 .. Len(stream') /\ j > Len(stream) /\ stream'[j].post = p
        BY <2>1, <2>2, <2>3
    <2>5. Waiting(j)' /\ ~Sealed(j)'
        BY <2>4, NothingSealed
    <2> QED BY <2>4, <2>5 DEF ToCome
<1> QED BY <1>2, <1>3 DEF DlqBad, RetryOrDlq

LEMMA DlqKept ==
    ASSUME TypeInv, TypeInv', [Next]_vars, Unbroken', NEW p, InDlq(p)
    PROVE  InDlq(p)'
<1>1. dlq' = dlq \/ \E w \in Worker : pc[w] \in CanRaise /\ dlq' = Append(dlq, Entry(w))
    <2>1. ASSUME UNCHANGED vars \/ DeadlinePasses \/ (\E q \in Post : Crawl(q)) \/ (\E w \in Worker : Poll(w))
          PROVE  dlq' = dlq
        BY <2>1 DEF vars, DeadlinePasses, Poll, ClaimPending, ReadNew, Read, queueVars, Crawl, Requeue
    <2>2. ASSUME NEW w \in Worker, Handle(w), ~(DlqBad(w) \/ RetryOrDlq(w)) PROVE dlq' = dlq
        BY <2>2 DEF Handle, StartMessage, AckBad, Ingest, AckIngested, SetMetadata, AddDocId, CountCompleted,
                    LockSnapshot, GetStatus, ReclaimFailed, CreateSnapshot, PublishSnapshot, SetCompleted, SetFailed,
                    MarkDone, PublishPost, AckFailed, queueVars, Ack
    <2>3. ASSUME NEW w \in Worker, DlqBad(w) \/ RetryOrDlq(w)
          PROVE  pc[w] \in CanRaise /\ (dlq' = dlq \/ dlq' = Append(dlq, Entry(w)))
        BY <2>3 DEF DlqBad, RetryOrDlq, SendToDlq, Requeue, CanRaise, Steps
    <2>4. ASSUME NEW w \in Worker, Raise(w) \/ Exit(w) \/ Restart(w) PROVE dlq' = dlq
        BY <2>4 DEF Raise, Exit, Restart, Die, queueVars
    <2> QED BY <2>1, <2>2, <2>3, <2>4, Mover
<1>2. ASSUME NEW w \in Worker, pc[w] \in CanRaise, dlq' = Append(dlq, Entry(w)) PROVE InDlq(p)'
    <2>1. PICK f \in Fields : f = Entry(w)
        BY <1>2, EntryType
    <2>2. dlq \in Seq(Fields) /\ dlq' = Append(dlq, f)
        BY <1>2, <2>1 DEF TypeInv, QueueTypeOK
    <2>3. \A k \in DOMAIN dlq : k \in DOMAIN dlq' /\ dlq'[k] = dlq[k]
        BY <2>2
    <2> QED BY <2>3 DEF InDlq
<1> QED BY <1>1, <1>2 DEF InDlq

(* An entry to come stays so until it is ingested, or given up. *)
LEMMA ToComeGoes ==
    ASSUME TypeInv, TypeInv', [Next]_vars, Unbroken', NEW p, ToCome(p)
    PROVE  \/ InDlq(p)' \/ ToCome(p)'
           \/ \E w \in Worker : AckIngested(w) /\ Entry(w).post = p
<1>1. PICK j \in 1 .. Len(stream) : stream[j].post = p /\ Waiting(j) /\ ~Sealed(j)
    BY DEF ToCome
<1>2. j \in 1 .. Len(stream') /\ stream'[j] = stream[j]
    <2>1. Len(stream) \in Nat /\ Len(stream') \in Nat /\ Len(stream) <= Len(stream')
        <3>1. ASSUME UNCHANGED vars \/ DeadlinePasses \/ (\E w \in Worker : Poll(w)) PROVE stream' = stream
            BY <3>1 DEF vars, DeadlinePasses, Poll, ClaimPending, ReadNew, Read, queueVars
        <3>2. ASSUME NEW q \in Post, Crawl(q) PROVE Len(stream') = Len(stream) + 1
            <4>1. [post |-> q, retry |-> 0] \in Fields
                BY DEF Fields
            <4> QED BY <3>2, <4>1, RequeueStream DEF Crawl
        <3>3. ASSUME NEW w \in Worker, RetryOrDlq(w) PROVE stream' = stream \/ Len(stream') = Len(stream) + 1
            <4>1. Entry(w) \in Fields
                BY <3>3, EntryType DEF RetryOrDlq, CanRaise, Steps
            <4>2. [Entry(w) EXCEPT !.retry = @ + 1] \in Fields
                BY <4>1 DEF Fields
            <4> QED BY <3>3, <4>2, RequeueStream DEF RetryOrDlq, SendToDlq
        <3>4. ASSUME NEW w \in Worker, Handle(w) \/ Raise(w) \/ Exit(w) \/ Restart(w), ~RetryOrDlq(w) PROVE stream' = stream
            BY <3>4 DEF Handle, StartMessage, DlqBad, AckBad, Ingest, AckIngested, SetMetadata, AddDocId, CountCompleted,
                LockSnapshot, GetStatus, ReclaimFailed, CreateSnapshot, PublishSnapshot, SetCompleted, SetFailed,
                MarkDone, PublishPost, AckFailed, SendToDlq, Ack, queueVars, Raise, Exit, Restart, Die
        <3>5. stream' = stream \/ Len(stream') = Len(stream) + 1
            BY <3>1, <3>2, <3>3, <3>4, Mover
        <3> QED BY <3>5, HandsType
    <2> QED BY <2>1, StreamKept
<1>3. ASSUME ~Waiting(j)' PROVE \E w \in Worker : AckIngested(w) /\ cur[w] = j
    <2>1. ASSUME UNCHANGED vars \/ DeadlinePasses \/ (\E q \in Post : Crawl(q)) PROVE FALSE
        BY <1>1, <1>3, <2>1 DEF vars, DeadlinePasses, Crawl, Requeue, queueVars, Waiting
    <2>2. ASSUME NEW w \in Worker, Poll(w) PROVE FALSE
        <3>1. UNCHANGED queueVars \/ Read
            BY <2>2 DEF Poll, ClaimPending, ReadNew
        <3>2. Grows(0)
            BY <2>2, <3>1, ReadGrows, QuietGrows DEF Poll, ClaimPending, ReadNew, dbVars
        <3> QED BY <1>1, <1>3, <3>2 DEF Grows
    <2>3. ASSUME NEW w \in Worker, Handle(w) \/ Raise(w) \/ Exit(w) \/ Restart(w),
                 ~(AckBad(w) \/ AckFailed(w) \/ AckIngested(w))
          PROVE  FALSE
        <3>1. UNCHANGED <<lastId, pel>>
            BY <2>3 DEF Handle, StartMessage, DlqBad, Ingest, SetMetadata, AddDocId, CountCompleted,
                LockSnapshot, GetStatus, ReclaimFailed, CreateSnapshot, PublishSnapshot, SetCompleted, SetFailed,
                MarkDone, PublishPost, RetryOrDlq, SendToDlq, Requeue, queueVars, Raise, Exit, Restart, Die
        <3> QED BY <1>1, <1>3, <3>1 DEF Waiting
    <2>4. ASSUME NEW w \in Worker, AckBad(w) \/ AckFailed(w) PROVE FALSE
        BY <1>1, <1>3, <2>4 DEF AckBad, AckFailed, Ack, Waiting, Sealed
    <2>5. ASSUME NEW w \in Worker, AckIngested(w) PROVE cur[w] = j
        BY <1>1, <1>3, <2>5 DEF AckIngested, Ack, Waiting
    <2> QED BY <2>1, <2>2, <2>3, <2>4, <2>5, Mover
<1>4. ASSUME Sealed(j)' PROVE InDlq(p)' \/ ToCome(p)'
    <2>1. PICK w \in Worker : cur'[w] = j /\ pc'[w] \in {"ackBad", "ackFailed"}
        BY <1>4 DEF Sealed
    <2>2. cur[w] = j /\ (DlqBad(w) \/ RetryOrDlq(w))
        BY <1>1, <2>1, Sealing DEF Sealed
    <2> QED BY <1>1, <2>2, GivenUp DEF Entry
<1>5. ASSUME NEW w \in Worker, cur[w] = j PROVE Entry(w).post = p
    BY <1>1, <1>5 DEF Entry
<1> QED BY <1>1, <1>2, <1>3, <1>4, <1>5 DEF ToCome

(* A worker that has a post in hand keeps it, hands it on, or is done with it. *)
LEMMA InHandGoes ==
    ASSUME TypeInv, TypeInv', [Next]_vars, Unbroken', NEW w \in Worker, pc[w] \in Carrying, NEW p, p = Entry(w).post
    PROVE  \/ /\ Entry(w)'.post = p /\ pc'[w] \in Carrying
              /\ pc[w] \in Bringing => pc'[w] \in Bringing \/ (pc[w] = "sadd" /\ p \in docIds')
           \/ InDlq(p)' \/ ToCome(p)'
           \/ AckIngested(w) /\ Kind[p] \notin {"full", "post"}
           \/ PublishPost(w) /\ postPubs' = [postPubs EXCEPT ![p] = @ + 1]
           \/ CountCompleted(w) /\ completed' < Expected
           \/ GetStatus(w) /\ status \in {"completed", "creating"}
           \/ ReclaimFailed(w) /\ status # "failed"
           \/ SetCompleted(w)
<1> DEFINE Goal == \/ /\ Entry(w)'.post = p /\ pc'[w] \in Carrying
                      /\ pc[w] \in Bringing => pc'[w] \in Bringing \/ (pc[w] = "sadd" /\ p \in docIds')
                   \/ InDlq(p)' \/ ToCome(p)'
                   \/ AckIngested(w) /\ Kind[p] \notin {"full", "post"}
                   \/ PublishPost(w) /\ postPubs' = [postPubs EXCEPT ![p] = @ + 1]
                   \/ CountCompleted(w) /\ completed' < Expected
                   \/ GetStatus(w) /\ status \in {"completed", "creating"}
                   \/ ReclaimFailed(w) /\ status # "failed"
                   \/ SetCompleted(w)
<1>0. redisFaults = 0 /\ redisFaults' = 0
    BY UnbrokenBefore
<1>c. /\ Carrying \subseteq CanRaise
      /\ Bringing = {"dlqBad", "ingest", "ack", "meta", "sadd", "mark", "publishPost", "failed"}
      /\ Carrying = Bringing \cup {"snapshot", "publish", "setCompleted", "setFailed", "lock", "getStatus", "reclaim", "incr"}
    BY DEF Carrying, Bringing, Inside, Section, CanRaise, Steps
<1>k. ASSUME cur'[w] = cur[w], pc'[w] \in Carrying, pc'[w] \in Bringing \/ pc[w] \notin Bringing PROVE Goal
    BY <1>c, <1>k, EntryKept
<1>r. ASSUME pc[w] \in WorkSteps, pc'[w] = Catch(pc[w]), cur'[w] = cur[w] PROVE Goal
    <2>1. pc'[w] = "failed" \/ (pc[w] \in {"snapshot", "publish"} /\ pc'[w] = "setFailed")
        BY <1>r DEF WorkSteps, Catch
    <2> QED BY <1>c, <1>k, <1>r, <2>1
<1>p. ASSUME NEW s \in Carrying, Proceed(w, s), s \in Bringing \/ pc[w] \notin Bringing PROVE Goal
    <2>1. CASE pc'[w] = s /\ cur'[w] = cur[w]
        BY <1>k, <1>p, <2>1
    <2> QED BY <1>0, <1>c, <1>p, <1>r, <2>1, UnbrokenProceed
<1>1. CASE pc'[w] = pc[w] /\ cur'[w] = cur[w]
    BY <1>k, <1>1
<1>2. CASE Raise(w) /\ pc[w] \in WorkSteps
    BY <1>2, <1>r, HandsType DEF Raise, GoTo
<1>3. ~(Exit(w) \/ Restart(w) \/ StartMessage(w) \/ AckBad(w) \/ AckFailed(w))
    BY <1>c DEF Exit, Restart, StartMessage, AckBad, AckFailed
<1>4. CASE DlqBad(w) \/ RetryOrDlq(w)
    BY <1>4, GivenUp
<1>5. CASE Ingest(w) \/ SetMetadata(w) \/ MarkDone(w)
    BY <1>5, <1>c, <1>p DEF Ingest, SetMetadata, MarkDone
<1>6. CASE AckIngested(w)
    <2>1. CASE Kind[p] = "full"
        BY <1>6, <1>c, <1>p, <2>1 DEF AckIngested
    <2>2. CASE Kind[p] = "post"
        BY <1>6, <1>c, <1>p, <2>2 DEF AckIngested
    <2> QED BY <1>6, <2>1, <2>2
<1>7. CASE AddDocId(w)
    <2>1. pc[w] = "sadd" /\ p \in docIds' /\ Proceed(w, "incr") /\ pc[w] \notin WorkSteps
        BY <1>7 DEF AddDocId, WorkSteps
    <2>2. pc'[w] = "incr" /\ cur'[w] = cur[w]
        BY <1>0, <2>1, UnbrokenProceed
    <2> QED BY <1>c, <2>1, <2>2, EntryKept
<1>8. CASE CountCompleted(w)
    <2>1. completed' >= Expected \/ completed' < Expected
        BY ConstantsAssumption DEF TypeInv, DataOK
    <2>2. CASE completed' >= Expected
        <3>1. Proceed(w, "lock") /\ pc[w] = "incr"
            BY <1>8, <2>2 DEF CountCompleted
        <3> QED BY <1>c, <1>p, <3>1
    <2> QED BY <1>8, <2>1, <2>2
<1>9. CASE LockSnapshot(w)
    <2>1. PICK s \in {"snapshot", "getStatus"} : Proceed(w, s) /\ pc[w] = "lock"
        BY <1>9 DEF LockSnapshot
    <2> QED BY <1>c, <1>p, <2>1
<1>10. CASE GetStatus(w)
    <2>1. status \notin {"completed", "creating"} => Proceed(w, "reclaim") /\ pc[w] = "getStatus"
        BY <1>10 DEF GetStatus
    <2> QED BY <1>10, <1>c, <1>p, <2>1
<1>11. CASE ReclaimFailed(w)
    <2>1. status = "failed" => Proceed(w, "snapshot") /\ pc[w] = "reclaim"
        BY <1>11 DEF ReclaimFailed
    <2> QED BY <1>11, <1>c, <1>p, <2>1
<1>12. CASE CreateSnapshot(w)
    <2>1. PICK s \in {"setFailed", "publish"} : Proceed(w, s) /\ pc[w] = "snapshot"
        BY <1>12 DEF CreateSnapshot
    <2> QED BY <1>c, <1>p, <2>1
<1>13. CASE PublishSnapshot(w)
    BY <1>13, <1>c, <1>p DEF PublishSnapshot
<1>14. CASE SetFailed(w)
    <2>1. pc'[w] = "failed" /\ cur'[w] = cur[w]
        BY <1>14, HandsType DEF SetFailed, GoTo
    <2> QED BY <1>c, <1>k, <2>1
<1>15. CASE PublishPost(w)
    BY <1>15 DEF PublishPost
<1> QED BY <1>1, <1>2, <1>3, <1>4, <1>5, <1>6, <1>7, <1>8, <1>9, <1>10, <1>11, <1>12, <1>13, <1>14, <1>15, Mover DEF Handle

(* The steps of a kind of entry are entered from one another, or from the acknowledgement of such an entry. *)
LEMMA KindEntered ==
    ASSUME TypeInv, [Next]_vars, NEW v \in Worker
    PROVE  /\ pc'[v] \in Tallying \cup Inside =>
                /\ pc[v] \in CanRaise /\ cur'[v] = cur[v]
                /\ pc[v] \in Tallying \cup Inside \/ Kind[Entry(v).post] = "full"
           /\ pc'[v] \in {"mark", "publishPost"} =>
                /\ pc[v] \in CanRaise /\ cur'[v] = cur[v]
                /\ pc[v] \in {"mark", "publishPost"} \/ Kind[Entry(v).post] = "post"
<1> DEFINE Batch == Tallying \cup Inside
           Single == {"mark", "publishPost"}
           Goal == /\ pc'[v] \in Batch => /\ pc[v] \in CanRaise /\ cur'[v] = cur[v]
                                          /\ pc[v] \in Batch \/ Kind[Entry(v).post] = "full"
                   /\ pc'[v] \in Single => /\ pc[v] \in CanRaise /\ cur'[v] = cur[v]
                                           /\ pc[v] \in Single \/ Kind[Entry(v).post] = "post"
<1>s. pc \in [Worker -> Steps] /\ cur \in [Worker -> 0 .. lastId]
    BY HandsType
<1>c. /\ Batch = {"meta", "sadd", "incr", "lock", "getStatus", "reclaim", "snapshot", "publish", "setCompleted", "setFailed"}
      /\ Batch \cup Single \cup {"ack"} \subseteq CanRaise
    BY DEF Tallying, Inside, CanRaise, Steps, Section
<1>b. \A s : /\ Catch(s) \in Batch => s \in Batch
             /\ Catch(s) \in Single => s \in Single
    BY <1>c DEF Catch
<1> HIDE DEF Batch
<1>g. (/\ pc'[v] \in Batch => /\ pc[v] \in Batch \/ (pc[v] \in CanRaise /\ Kind[Entry(v).post] = "full")
                              /\ cur'[v] = cur[v]
       /\ pc'[v] \in Single => /\ pc[v] \in Single \/ (pc[v] \in CanRaise /\ Kind[Entry(v).post] = "post")
                               /\ cur'[v] = cur[v]) => Goal
    BY <1>c
<1> HIDE DEF Goal
<1>p. ASSUME NEW s, Proceed(v, s), s \in Batch => pc[v] \in Batch, s \in Single => pc[v] \in Single PROVE Goal
    <2>1. (pc'[v] = s \/ pc'[v] = Catch(pc[v])) /\ (s # "loop" => cur'[v] = cur[v]) /\ (pc'[v] = Catch(pc[v]) => s = "loop" \/ cur'[v] = cur[v])
        BY <1>p, <1>s DEF Proceed, GoTo
    <2>2. pc'[v] = "loop" \/ cur'[v] = cur[v]
        BY <1>p, <1>s DEF Proceed, GoTo
    <2> QED BY <1>b, <1>c, <1>g, <1>p, <2>1, <2>2
<1>1. ASSUME pc'[v] = pc[v], cur'[v] = cur[v] PROVE Goal
    BY <1>1, <1>c, <1>g
<1>2. ASSUME UNCHANGED vars \/ DeadlinePasses \/ (\E p \in Post : Crawl(p)) \/ (\E w \in Worker : Poll(w)) PROVE Goal
    BY <1>2, <1>1 DEF vars, localVars, DeadlinePasses, Crawl, Poll, ClaimPending, ReadNew
<1>3. ASSUME NEW w \in Worker \ {v}, Handle(w) \/ Raise(w) \/ Crash(w) \/ Exit(w) \/ Restart(w) PROVE Goal
    <2>1. pc'[v] = pc[v] /\ cur'[v] = cur[v]
        BY <1>3, <1>s DEF Handle, StartMessage, DlqBad, AckBad, Ingest, AckIngested, SetMetadata, AddDocId, CountCompleted,
                    LockSnapshot, GetStatus, ReclaimFailed, CreateSnapshot, PublishSnapshot, SetCompleted, SetFailed,
                    MarkDone, PublishPost, RetryOrDlq, AckFailed, Raise, Crash, Exit, Restart, Die, Proceed, GoTo
    <2> QED BY <1>1, <2>1
<1>4. ASSUME Raise(v) PROVE Goal
    <2>1. pc'[v] = Catch(pc[v]) /\ cur'[v] = cur[v]
        BY <1>4, <1>s DEF Raise, GoTo
    <2> QED BY <1>b, <1>g, <2>1
<1>5. ASSUME Crash(v) \/ Exit(v) \/ Restart(v) \/ StartMessage(v) PROVE Goal
    <2>1. pc'[v] \in {"dead", "loop", "escaped", "dlqBad", "ingest"}
        BY <1>5, <1>s DEF Crash, Exit, Restart, StartMessage, Die, GoTo
    <2> QED BY <1>c, <1>g, <2>1
<1>6. ASSUME SetFailed(v) PROVE Goal
    <2>1. pc'[v] = "failed"
        BY <1>6, <1>s DEF SetFailed, GoTo
    <2> QED BY <1>c, <1>g, <2>1
<1>7. ASSUME DlqBad(v) \/ AckBad(v) \/ Ingest(v) \/ RetryOrDlq(v) \/ AckFailed(v) PROVE Goal
    <2>1. PICK s \in {"ackBad", "loop", "ack", "ackFailed"} : Proceed(v, s)
        BY <1>7 DEF DlqBad, AckBad, Ingest, RetryOrDlq, AckFailed
    <2> QED BY <1>c, <1>p, <2>1
<1>8. ASSUME SetMetadata(v) \/ AddDocId(v) \/ CountCompleted(v) \/ LockSnapshot(v) \/ GetStatus(v) \/ ReclaimFailed(v)
             \/ CreateSnapshot(v) \/ PublishSnapshot(v) \/ SetCompleted(v)
      PROVE  Goal
    <2>1. pc[v] \in Batch
        BY <1>8, <1>c DEF SetMetadata, AddDocId, CountCompleted, LockSnapshot, GetStatus, ReclaimFailed,
               CreateSnapshot, PublishSnapshot, SetCompleted
    <2>2. PICK s \in {"sadd", "incr", "lock", "loop", "snapshot", "getStatus", "reclaim", "setFailed", "publish",
                      "setCompleted"} : Proceed(v, s)
        BY <1>8 DEF SetMetadata, AddDocId, CountCompleted, LockSnapshot, GetStatus, ReclaimFailed,
               CreateSnapshot, PublishSnapshot, SetCompleted
    <2> QED BY <1>c, <1>p, <2>1, <2>2
<1>9. ASSUME MarkDone(v) \/ PublishPost(v) PROVE Goal
    <2>1. PICK s \in {"publishPost", "loop"} : Proceed(v, s) /\ pc[v] \in Single
        BY <1>9 DEF MarkDone, PublishPost
    <2> QED BY <1>c, <1>p, <2>1
<1>10. ASSUME AckIngested(v) PROVE Goal
    <2>1. PICK s : /\ Proceed(v, s) /\ pc[v] = "ack"
                   /\ s = CASE Kind[Entry(v).post] = "full" -> "meta"
                            [] Kind[Entry(v).post] = "post" -> "mark"
                            [] OTHER                        -> "loop"
        BY <1>10 DEF AckIngested
    <2>2. pc'[v] = s \/ pc'[v] = "failed"
        BY <1>s, <2>1 DEF Proceed, GoTo, Catch
    <2>3. s # "loop" => cur'[v] = cur[v]
        BY <1>s, <2>1 DEF Proceed
    <2> QED BY <1>c, <1>g, <2>1, <2>2, <2>3
<1>11. Goal
    BY <1>2, <1>3, <1>4, <1>5, <1>6, <1>7, <1>8, <1>9, <1>10 DEF Next, Handle
<1> QED BY <1>11 DEF Goal, Batch

LEMMA AtKindNext == TypeInv /\ AtKind /\ [Next]_vars => AtKind'
<1> SUFFICES ASSUME TypeInv, AtKind, [Next]_vars, NEW v \in Worker
             PROVE  /\ pc'[v] \in Tallying \cup Inside => Kind[Entry(v)'.post] = "full"
                    /\ pc'[v] \in {"mark", "publishPost"} => Kind[Entry(v)'.post] = "post"
    BY DEF AtKind, Tallying, Inside, Section
<1> QED BY KindEntered, EntryKept DEF AtKind

(* The status is never taken back to "none", and "completed" is set by who published. *)
LEMMA StatusKept ==
    ASSUME TypeInv, [Next]_vars
    PROVE  /\ status # "none" => status' # "none"
           /\ status' = "completed" => status = "completed" \/ \E w \in Worker : pc[w] = "setCompleted"
           /\ snapPubs # <<>> => snapPubs' # <<>>
<1>1. CASE \/ UNCHANGED vars \/ DeadlinePasses \/ \E p \in Post : Crawl(p)
           \/ \E w \in Worker : Poll(w) \/ Raise(w) \/ Crash(w) \/ Exit(w) \/ Restart(w)
    BY <1>1 DEF vars, batchVars, pubVars, DeadlinePasses, Crawl, Poll, ClaimPending, ReadNew, Raise, Crash, Exit, Restart, Die
<1>2. ASSUME NEW w \in Worker, Handle(w), ~PublishSnapshot(w)
      PROVE  /\ status # "none" => status' # "none"
             /\ status' = "completed" => status = "completed" \/ pc[w] = "setCompleted"
             /\ snapPubs' = snapPubs
    BY <1>2 DEF Handle, StartMessage, DlqBad, AckBad, Ingest, AckIngested, SetMetadata, AddDocId, CountCompleted,
                LockSnapshot, GetStatus, ReclaimFailed, CreateSnapshot, SetCompleted, SetFailed,
                MarkDone, PublishPost, RetryOrDlq, AckFailed, batchVars, pubVars
<1>3. ASSUME NEW w \in Worker, PublishSnapshot(w) PROVE status' = status /\ snapPubs' # <<>>
    BY <1>3 DEF PublishSnapshot, batchVars, TypeInv, DataOK, LocalOK
<1> QED BY <1>1, <1>2, <1>3 DEF Next

LEMMA BegunEntered ==
    ASSUME TypeInv, [Next]_vars, NEW v \in Worker, pc'[v] \in {"getStatus", "reclaim", "setCompleted"}
    PROVE  \/ pc'[v] = pc[v]
           \/ pc'[v] = "getStatus" /\ status' # "none"
           \/ pc'[v] = "reclaim" /\ pc[v] = "getStatus"
           \/ pc'[v] = "setCompleted" /\ snapPubs' # <<>>
<1> DEFINE Goal == \/ pc'[v] = pc[v]
                   \/ pc'[v] = "getStatus" /\ status' # "none"
                   \/ pc'[v] = "reclaim" /\ pc[v] = "getStatus"
                   \/ pc'[v] = "setCompleted" /\ snapPubs' # <<>>
<1>s. pc \in [Worker -> Steps]
    BY HandsType
<1>b. \A s : Catch(s) \notin {"getStatus", "reclaim", "setCompleted"}
    BY DEF Catch
<1>p. ASSUME NEW s, Proceed(v, s) PROVE pc'[v] = s
    BY <1>p, <1>s, <1>b DEF Proceed, GoTo
<1>1. ASSUME UNCHANGED vars \/ DeadlinePasses \/ (\E p \in Post : Crawl(p)) \/ (\E w \in Worker : Poll(w)) PROVE Goal
    BY <1>1 DEF vars, localVars, DeadlinePasses, Crawl, Poll, ClaimPending, ReadNew
<1>2. ASSUME NEW w \in Worker \ {v}, Handle(w) \/ Raise(w) \/ Crash(w) \/ Exit(w) \/ Restart(w) PROVE Goal
    <2>1. pc'[v] = pc[v]
        BY <1>2, <1>s DEF Handle, StartMessage, DlqBad, AckBad, Ingest, AckIngested, SetMetadata, AddDocId, CountCompleted,
                    LockSnapshot, GetStatus, ReclaimFailed, CreateSnapshot, PublishSnapshot, SetCompleted, SetFailed,
                    MarkDone, PublishPost, RetryOrDlq, AckFailed, Raise, Crash, Exit, Restart, Die, Proceed, GoTo
    <2> QED BY <2>1
<1>3. ~(Raise(v) \/ Crash(v) \/ Exit(v) \/ Restart(v) \/ StartMessage(v) \/ SetFailed(v))
    BY <1>s, <1>b DEF Raise, Crash, Exit, Restart, Die, StartMessage, SetFailed, GoTo
<1>4. ~(DlqBad(v) \/ AckBad(v) \/ Ingest(v) \/ AckIngested(v) \/ SetMetadata(v) \/ AddDocId(v) \/ CountCompleted(v)
        \/ ReclaimFailed(v) \/ CreateSnapshot(v) \/ SetCompleted(v) \/ MarkDone(v) \/ PublishPost(v)
        \/ RetryOrDlq(v) \/ AckFailed(v))
    BY <1>p DEF DlqBad, AckBad, Ingest, AckIngested, SetMetadata, AddDocId, CountCompleted, ReclaimFailed, CreateSnapshot,
                SetCompleted, MarkDone, PublishPost, RetryOrDlq, AckFailed
<1>5. ASSUME LockSnapshot(v) PROVE Goal
    BY <1>5, <1>p DEF LockSnapshot
<1>6. ASSUME GetStatus(v) PROVE Goal
    BY <1>6, <1>p DEF GetStatus
<1>7. ASSUME PublishSnapshot(v) PROVE Goal
    <2>1. pc'[v] = "setCompleted"
        BY <1>7, <1>p DEF PublishSnapshot
    <2>2. snapPubs' # <<>>
        BY <1>7 DEF PublishSnapshot, TypeInv, DataOK, LocalOK
    <2> QED BY <2>1, <2>2
<1>8. Goal
    BY <1>1, <1>2, <1>3, <1>4, <1>5, <1>6, <1>7 DEF Next, Handle
<1> QED BY <1>8

LEMMA BegunNext == TypeInv /\ Begun /\ [Next]_vars => Begun'
<1> SUFFICES ASSUME TypeInv, Begun, [Next]_vars
             PROVE  /\ \A w \in Worker : pc'[w] \in {"getStatus", "reclaim"} => status' # "none"
                    /\ \A w \in Worker : pc'[w] = "setCompleted" => snapPubs' # <<>>
                    /\ status' = "completed" => snapPubs' # <<>>
    BY DEF Begun
<1> QED BY BegunEntered, StatusKept DEF Begun

(* What is passed on stays so. *)
LEMMA PassedKept ==
    ASSUME TypeInv, [Next]_vars, NEW p \in Post, PassedOn(p)
    PROVE  PassedOn(p)'
<1>1. docIds \subseteq docIds'
    BY DocIdsGrow
<1>2. docs \subseteq docs'
    BY DEF Next, vars, dbVars, DeadlinePasses, Crawl, Poll, ClaimPending, ReadNew, Raise, Crash, Exit, Restart, Die,
       Handle, StartMessage, DlqBad, AckBad, Ingest, AckIngested, SetMetadata, AddDocId, CountCompleted,
       LockSnapshot, GetStatus, ReclaimFailed, CreateSnapshot, PublishSnapshot, SetCompleted, SetFailed,
       MarkDone, PublishPost, RetryOrDlq, AckFailed
<1>3. postPubs[p] > 0 => postPubs'[p] > 0
    <2>1. postPubs[p] \in Nat
        BY DEF TypeInv, DataOK
    <2> QED BY <2>1, PostPubsKept
<1> QED BY <1>1, <1>2, <1>3 DEF PassedOn

(* Each entry's post is passed on, or entrusted to somebody. *)
LEMMA PostKeptNext ==
    ASSUME TypeInv, TypeInv', StoredFirst, AtKind, PostKept, [Next]_vars
    PROVE  PostKept'
<1> SUFFICES ASSUME Unbroken', NEW i \in 1 .. Len(stream'), NEW q, q = stream'[i].post
             PROVE  PassedOn(q)' \/ Entrusted(q, Bringing)'
    BY DEF PostKept, PassedOn, Entrusted, ToCome, InDlq
<1>0. Unbroken /\ Len(stream) \in Nat /\ Len(stream') \in Nat
    BY UnbrokenBefore DEF TypeInv, QueueTypeOK
<1>1. CASE i \notin 1 .. Len(stream)
    <2>1. Waiting(i)' /\ ~Sealed(i)'
        BY <1>0, <1>1, NothingSealed
    <2> QED BY <2>1 DEF Entrusted, ToCome
<1>2. ASSUME i \in 1 .. Len(stream), NEW p \in Post, p = stream[i].post PROVE PassedOn(p)' \/ Entrusted(p, Bringing)'
    <2>1. CASE PassedOn(p)
        BY <2>1, PassedKept
    <2>2. CASE InDlq(p)
        BY <2>2, DlqKept DEF Entrusted
    <2>k. ASSUME NEW w \in Worker, AckIngested(w), Entry(w).post = p PROVE PassedOn(p)' \/ Entrusted(p, Bringing)'
        <3>1. pc[w] = "ack" /\ p \in docs /\ pc[w] \in Carrying
            BY <2>k DEF AckIngested, StoredFirst, Past, Carrying, Bringing
        <3>2. CASE Kind[p] \notin {"full", "post"}
            BY <3>1, <3>2, PassedKept DEF PassedOn
        <3>3. CASE Kind[p] \in {"full", "post"}
            <4>1. \/ Entry(w)'.post = p /\ pc'[w] \in Bringing
                  \/ InDlq(p)' \/ ToCome(p)'
                BY <2>k, <3>1, <3>3, InHandGoes DEF AckIngested, PublishPost, CountCompleted, GetStatus, ReclaimFailed,
                   SetCompleted, Bringing
            <4> QED BY <4>1 DEF Entrusted
        <3> QED BY <3>2, <3>3
    <2>3. CASE ToCome(p)
        BY <2>3, <2>k, ToComeGoes DEF Entrusted
    <2>4. ASSUME NEW w \in Worker, pc[w] \in Bringing, Entry(w).post = p PROVE PassedOn(p)' \/ Entrusted(p, Bringing)'
        <3>1. pc[w] \in Carrying /\ ~(CountCompleted(w) \/ GetStatus(w) \/ ReclaimFailed(w) \/ SetCompleted(w))
            BY <2>4 DEF Carrying, Bringing, CountCompleted, GetStatus, ReclaimFailed, SetCompleted
        <3>2. CASE Entry(w)'.post = p /\ pc'[w] \in Bringing
            BY <3>2 DEF Entrusted
        <3>3. CASE pc[w] = "sadd" /\ p \in docIds'
            <4>1. Kind[p] = "full"
                BY <2>4, <3>3 DEF AtKind, Tallying
            <4> QED BY <3>3, <4>1 DEF PassedOn
        <3>4. CASE PublishPost(w) /\ postPubs' = [postPubs EXCEPT ![p] = @ + 1]
            <4>1. Kind[p] = "post"
                BY <2>4, <3>4 DEF AtKind, PublishPost
            <4>2. postPubs'[p] > 0
                BY <3>4 DEF TypeInv, DataOK
            <4> QED BY <4>1, <4>2 DEF PassedOn
        <3> QED BY <2>4, <2>k, <3>1, <3>2, <3>3, <3>4, InHandGoes DEF Entrusted
    <2> QED BY <1>0, <1>2, <2>1, <2>2, <2>3, <2>4 DEF PostKept, Entrusted
<1>3. CASE i \in 1 .. Len(stream)
    <2>1. q \in Post /\ q = stream[i].post
        BY <1>3, StreamKept, StreamType
    <2> QED BY <1>2, <1>3, <2>1
<1> QED BY <1>1, <1>3

(* A batch that is counted full is published, or entrusted to somebody. *)
LEMMA BatchKeptNext ==
    ASSUME TypeInv, TypeInv', AtKind, AtKind', Begun, CreatingOwned, BatchKept, [Next]_vars
    PROVE  BatchKept'
<1> SUFFICES ASSUME Unbroken', completed' >= Expected, snapPubs' = <<>>
             PROVE  \E p \in FullPosts : Entrusted(p, Carrying)'
    BY DEF BatchKept, FullPosts
<1>0. Unbroken /\ crashes = 0 /\ redisFaults = 0 /\ redisFaults' = 0
    BY UnbrokenBefore
<1>n. snapPubs = <<>>
    BY StatusKept
<1>w. ASSUME NEW w \in Worker, pc[w] \in CanRaise PROVE Entry(w).post \in Post
    BY <1>w, EntryType DEF Fields
<1>c. /\ Carrying = Bringing \cup Inside \cup {"incr"} /\ Carrying \subseteq CanRaise
      /\ Section \subseteq Inside
    BY DEF Carrying, Bringing, Inside, Section, CanRaise, Steps
<1>1. ASSUME NEW p \in FullPosts, NEW w \in Worker, AckIngested(w), Entry(w).post = p PROVE Entrusted(p, Carrying)'
    <2>1. pc[w] = "ack" /\ pc[w] \in Carrying /\ Kind[p] = "full"
        BY <1>1 DEF AckIngested, Carrying, Bringing, FullPosts
    <2>2. (Entry(w)'.post = p /\ pc'[w] \in Carrying) \/ InDlq(p)' \/ ToCome(p)'
        BY <1>1, <2>1, InHandGoes DEF PublishPost, CountCompleted, GetStatus, ReclaimFailed, SetCompleted
    <2> QED BY <2>2 DEF Entrusted
(* Who finds the status taken leaves the batch to its owner. *)
<1>2. ASSUME NEW w \in Worker, GetStatus(w) \/ ReclaimFailed(w), status = "creating"
      PROVE  \E p \in FullPosts : Entrusted(p, Carrying)'
    <2>1. PICK v \in Worker : pc[v] \in Section
        BY <1>0, <1>2 DEF CreatingOwned
    <2>2. v # w
        BY <1>2, <2>1 DEF GetStatus, ReclaimFailed, Section
    <2>3. pc'[v] = pc[v] /\ cur'[v] = cur[v]
        BY <1>2, <2>2, HandsType DEF GetStatus, ReclaimFailed, Proceed, GoTo
    <2>4. pc[v] \in Carrying /\ pc[v] \in CanRaise /\ Kind[Entry(v).post] = "full"
        BY <1>c, <2>1 DEF AtKind
    <2>5. Entry(v)' = Entry(v) /\ Entry(v).post \in FullPosts
        BY <1>w, <2>3, <2>4, EntryKept DEF FullPosts
    <2> QED BY <2>3, <2>4, <2>5 DEF Entrusted
<1>3. ASSUME NEW p \in FullPosts, Entrusted(p, Carrying) PROVE \E q \in FullPosts : Entrusted(q, Carrying)'
    <2>1. CASE InDlq(p)
        BY <2>1, DlqKept DEF Entrusted
    <2>2. CASE ToCome(p)
        BY <1>1, <2>2, ToComeGoes DEF Entrusted
    <2>3. ASSUME NEW w \in Worker, pc[w] \in Carrying, Entry(w).post = p PROVE \E q \in FullPosts : Entrusted(q, Carrying)'
        <3>1. Kind[p] = "full"
            BY DEF FullPosts
        <3>2. CASE (Entry(w)'.post = p /\ pc'[w] \in Carrying) \/ InDlq(p)' \/ ToCome(p)'
            BY <3>2 DEF Entrusted
        <3>3. ~PublishPost(w)
            BY <2>3, <3>1 DEF AtKind, PublishPost
        <3>4. ~(CountCompleted(w) /\ completed' < Expected)
            BY ConstantsAssumption DEF TypeInv, DataOK
        <3>5. CASE GetStatus(w) /\ status \in {"completed", "creating"}
            BY <1>n, <1>2, <3>5 DEF Begun
        <3>6. CASE ReclaimFailed(w) /\ status # "failed"
            <4>1. status \in {"completed", "creating"}
                BY <3>6 DEF Begun, ReclaimFailed, TypeInv, DataOK, Statuses
            <4> QED BY <1>n, <1>2, <3>6, <4>1 DEF Begun
        <3>7. ~SetCompleted(w)
            BY <1>n DEF Begun, SetCompleted
        <3> QED BY <2>3, <3>1, <3>2, <3>3, <3>4, <3>5, <3>6, <3>7, InHandGoes
    <2> QED BY <1>3, <2>1, <2>2, <2>3 DEF Entrusted
<1>4. CASE completed < Expected
    <2>1. PICK w \in Worker : CountCompleted(w)
        <3>1. completed' # completed
            BY <1>4, ConstantsAssumption DEF TypeInv, DataOK
        <3> QED BY <3>1, BatchData
    <2>2. pc[w] = "incr" /\ Proceed(w, "lock") /\ pc[w] \notin WorkSteps
        BY <2>1 DEF CountCompleted, WorkSteps
    <2>3. pc'[w] = "lock" /\ cur'[w] = cur[w]
        BY <1>0, <2>2, UnbrokenProceed
    <2>4. pc[w] \in CanRaise /\ Kind[Entry(w).post] = "full"
        BY <1>c, <2>2 DEF AtKind, Tallying
    <2>5. Entry(w)' = Entry(w) /\ Entry(w).post \in FullPosts
        BY <1>w, <2>3, <2>4, EntryKept DEF FullPosts
    <2>6. pc'[w] \in Carrying
        BY <2>3 DEF Carrying, Inside
    <2> QED BY <2>5, <2>6 DEF Entrusted
<1>5. CASE completed >= Expected
    BY <1>0, <1>3, <1>5, <1>n DEF BatchKept
<1>6. completed < Expected \/ completed >= Expected
    BY ConstantsAssumption DEF TypeInv, DataOK
<1> QED BY <1>4, <1>5, <1>6

(* What is entrusted is to come, or in hand. *)
LEMMA EntrustedShown ==
    ASSUME TypeInv, NEW p, NEW steps, steps \subseteq Carrying, Entrusted(p, steps)
    PROVE  InDlq(p) \/ Outstanding(p) \/ InHand(p)
<1>1. ToCome(p) => Outstanding(p)
    BY DEF ToCome, Outstanding, Waiting, TypeInv, QueueTypeOK
<1>2. steps \subseteq CanRaise \ {"ackBad", "ackFailed"}
    BY DEF Carrying, Bringing, Inside, Section, CanRaise, Steps
<1> QED BY <1>1, <1>2 DEF Entrusted, InHand

LEMMA CarriedInvariant == Spec => [](TypeInv /\ LossInv /\ PostKept /\ BatchKept)
<1> DEFINE I == TypeInv /\ LossInv /\ StoredFirst /\ CreatingOwned /\ AtKind /\ Begun /\ PostKept /\ BatchKept
<1>1. Init => I
    <2>1. Init => AtKind /\ Begun /\ PostKept /\ BatchKept
        BY ConstantsAssumption DEF Init, QueueInit, AtKind, Tallying, Inside, Section, Begun, PostKept, BatchKept
    <2>2. Init => CreatingOwned
        BY DEF Init, CreatingOwned
    <2> QED BY <2>1, <2>2, TypeInit, LossInit, StoredInit
<1>2. TypeInv /\ LossInv /\ StoredFirst /\ AtKind /\ Begun /\ [Next]_vars => (TypeInv /\ LossInv /\ StoredFirst /\ AtKind /\ Begun)'
    BY TypeNext, LossEnvironment, LossHandle, StoredNext, AtKindNext, BegunNext DEF Next
<1>3. TypeInv /\ TypeInv' /\ StoredFirst /\ AtKind /\ AtKind' /\ Begun /\ CreatingOwned /\ PostKept /\ BatchKept /\ [Next]_vars
        => PostKept' /\ BatchKept'
    BY PostKeptNext, BatchKeptNext
<1> QED BY <1>1, <1>2, <1>3, LockedIsOwned, PTL DEF Spec

(* Whatever crashes, raises or is stolen, a post is stored, dead-lettered or still to come; and without a *)
(* crash or a Redis error it is passed on, in somebody's hands, dead-lettered or still to come            *)
(* (ingest_worker.py:267-383).                                                                            *)
THEOREM PostsNotLost == Spec => []NoPostLost
<1>1. TypeInv /\ LossInv /\ PostKept => NoPostLost
    <2> SUFFICES ASSUME TypeInv, LossInv, PostKept, NEW i \in 1 .. Len(stream), NEW p, p = stream[i].post
                 PROVE  /\ p \in docs \/ InDlq(p) \/ Outstanding(p)
                        /\ crashes + redisFaults = 0 => PassedOn(p) \/ InDlq(p) \/ Outstanding(p) \/ InHand(p)
        BY DEF NoPostLost, TypeInv, QueueTypeOK
    <2>1. p \in docs \/ InDlq(p) \/ Outstanding(p)
        BY StoredOrToCome
    <2>2. Unbroken => PassedOn(p) \/ Entrusted(p, Bringing)
        BY DEF PostKept
    <2>3. Bringing \subseteq Carrying
        BY DEF Carrying
    <2> QED BY <2>1, <2>2, <2>3, EntrustedShown DEF Unbroken
<1> QED BY <1>1, CarriedInvariant, PTL

(* Nobody who finds the status taken leaves the batch to one who gives it up: without a crash or a Redis *)
(* error a batch that is counted full is published, or somebody is left to do it (ingest_worker.py:161-309). *)
THEOREM BatchesNotForgotten == Spec => []BatchNotForgotten
<1>1. TypeInv /\ BatchKept => BatchNotForgotten
    BY EntrustedShown DEF BatchKept, BatchNotForgotten, Unbroken
<1> QED BY <1>1, CarriedInvariant, PTL
=============================================================================
