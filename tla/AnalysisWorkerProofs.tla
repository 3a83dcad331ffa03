------------------------ MODULE AnalysisWorkerProofs ------------------------
(***************************************************************************)
(* Proofs about AnalysisWorker: no request is lost, events tell the truth, *)
(* and slots are lost to broker errors only, for any number of requests,   *)
(* processes and handlers and any crashes, lost connections and errors.    *)
(*                                                                         *)
(* NoRequestLost is not inductive: a handler about to acknowledge holds a  *)
(* copy that must not be counted on.  Covered leaves those copies out, and *)
(* Order records what a handler has done when it reaches a step.           *)
(* AnalysesBound is not inductive either: it needs the analyses that may   *)
(* still be committed, which Cost counts.                                  *)
(***************************************************************************)
EXTENDS AnalysisWorker, FiniteSetTheorems, FunctionTheorems, TLAPS

USE ConstantsAssumption, NoneAssumption

Queued(r) == \E m \in Message : m.req = r /\ ready[m] > 0

(* r is done with, queued, or held unacknowledged by a handler that is not about to acknowledge. *)
Covered(r) ==
    \/ Analysed(r)
    \/ dlq[r] > 0
    \/ Queued(r)
    \/ \E s \in owned : msg[s].req = r /\ pc[s] \notin AckSteps

Order ==
    \A s \in Slot :
        /\ pc[s] = "commit" => row[s] = "completed"
        /\ pc[s] = "republish" => CanRetry(s)
        /\ pc[s] \in {"announce", "announceFailed"} => s \notin owned
        /\ pc[s] = "ack" => Analysed(msg[s].req)

IInv == TypeOK /\ Order /\ \A r \in asked : Covered(r)

(* What the variables of the handlers, the broker and the database keep. *)
SlotType ==
    /\ pc \in [Slot -> Steps]
    /\ msg \in [Slot -> Message \cup {None}]
    /\ \A s \in Slot : pc[s] # "idle" => msg[s] \in Message
    /\ owned \subseteq {s \in Slot : pc[s] # "idle"}

StoreType ==
    /\ ready \in [Message -> Nat]
    /\ dlq \in [Request -> Nat]
    /\ row \in [Slot -> RowStatus \cup {"none"}]
    /\ jobs \in [Request \X RowStatus -> Nat]

(* The other variables. *)
RestType ==
    /\ asked \subseteq Request /\ ingested \subseteq Request
    /\ announced \in [Request \X RowStatus -> Nat]
    /\ redelivered \in Nat /\ crashes \in Nat /\ disconnects \in Nat
    /\ workFaults \in Nat /\ brokerFaults \in Nat

LEMMA TypeParts == TypeOK <=> SlotType /\ StoreType /\ RestType
  BY DEF TypeOK, SlotType, StoreType, RestType

(* Nothing that was stored or queued goes away. *)
Grows ==
    /\ \A m \in Message : ready'[m] >= ready[m]
    /\ \A r \in Request : dlq'[r] >= dlq[r]
    /\ \A x \in Request \X RowStatus : jobs'[x] >= jobs[x]

(* What GoTo does to the slots. *)
LEMMA GoToSlots ==
    ASSUME SlotType, NEW s \in Slot, pc[s] # "idle", NEW step \in Steps, GoTo(s, step),
           owned' \subseteq owned, step = "idle" => s \notin owned'
    PROVE  /\ SlotType'
           /\ \A t \in Slot \ {s} : pc'[t] = pc[t] /\ msg'[t] = msg[t]
           /\ (pc'[s] = step /\ msg'[s] = msg[s]) \/ (pc'[s] = "idle" /\ s \notin owned')
<1> DEFINE ended == step = "idle" \/ (step = "stuck" /\ s \notin owned')
<1>1. CASE ended
  <2>1. pc' = [pc EXCEPT ![s] = "idle"] /\ msg' = [msg EXCEPT ![s] = None]
    BY <1>1 DEF GoTo
  <2>2. pc \in [Slot -> Steps] /\ msg \in [Slot -> Message \cup {None}] /\ "idle" \in Steps
    BY DEF SlotType, Steps
  <2>3. s \notin owned'
    BY <1>1
  <2>4. pc'[s] = "idle" /\ \A t \in Slot \ {s} : pc'[t] = pc[t] /\ msg'[t] = msg[t]
    BY <2>1, <2>2
  <2>5. pc' \in [Slot -> Steps] /\ msg' \in [Slot -> Message \cup {None}]
    BY <2>1, <2>2
  <2>6. QED
    BY <2>3, <2>4, <2>5 DEF SlotType
<1>2. CASE ~ended
  <2>1. pc' = [pc EXCEPT ![s] = step] /\ msg' = [msg EXCEPT ![s] = msg[s]]
    BY <1>2 DEF GoTo
  <2>2. pc \in [Slot -> Steps] /\ msg \in [Slot -> Message \cup {None}] /\ step # "idle"
    BY <1>2 DEF SlotType
  <2>3. pc'[s] = step /\ \A t \in Slot \ {s} : pc'[t] = pc[t]
    BY <2>1, <2>2
  <2>4. msg' = msg
    BY <2>1, <2>2
  <2>5. pc' \in [Slot -> Steps] /\ msg' \in [Slot -> Message \cup {None}]
    BY <2>1, <2>2, <2>4
  <2>6. QED
    BY <2>2, <2>3, <2>4, <2>5 DEF SlotType
<1>3. QED
  BY <1>1, <1>2

(* A step that takes the handler of slot s to a step: what it stores stays stored, and what it has   *)
(* to show when it settles its copy, or goes on to acknowledge it.                                   *)
Move(s, step) ==
    /\ GoTo(s, step)
    /\ asked' = asked
    /\ owned' = owned \/ owned' = owned \ {s}
    /\ StoreType' /\ Grows
    /\ \A t \in Slot \ {s} : row'[t] = row[t]

Shows(s, step) ==
    /\ step = "commit" => row'[s] = "completed"
    /\ step = "republish" => CanRetry(s)
    /\ step \in {"idle", "announce", "announceFailed"} => s \notin owned'
    /\ step = "ack" => jobs'[<<msg[s].req, "completed">>] > 0

Settles(s, step) ==
    s \in owned /\ pc[s] \notin AckSteps /\ (s \notin owned' \/ step \in AckSteps)
        => \/ jobs'[<<msg[s].req, "completed">>] > 0
           \/ dlq'[msg[s].req] > 0
           \/ \E m \in Message : m.req = msg[s].req /\ ready'[m] > 0

LEMMA MoveKeeps ==
    ASSUME IInv, NEW s \in Slot, pc[s] # "idle", NEW step \in Steps,
           Move(s, step), Shows(s, step), Settles(s, step)
    PROVE  SlotType' /\ Order' /\ \A r \in asked' : Covered(r)'
<1>1. SlotType /\ StoreType /\ RestType /\ Order
  BY TypeParts DEF IInv
<1>2. owned' \subseteq owned /\ GoTo(s, step) /\ (step = "idle" => s \notin owned')
  BY DEF Move, Shows
<1>3. /\ SlotType'
      /\ \A t \in Slot \ {s} : pc'[t] = pc[t] /\ msg'[t] = msg[t]
      /\ (pc'[s] = step /\ msg'[s] = msg[s]) \/ (pc'[s] = "idle" /\ s \notin owned')
  BY <1>1, <1>2, GoToSlots
<1>4. msg[s] \in Message /\ msg[s].req \in Request
  BY <1>1 DEF SlotType, Message
<1>5. Order'
  <2> SUFFICES ASSUME NEW t \in Slot
               PROVE  /\ pc'[t] = "commit" => row'[t] = "completed"
                      /\ pc'[t] = "republish" => msg'[t].retry < MaxRetries
                      /\ pc'[t] \in {"announce", "announceFailed"} => t \notin owned'
                      /\ pc'[t] = "ack" => jobs'[<<msg'[t].req, "completed">>] > 0
    BY DEF Order, CanRetry, Analysed
  <2>1. CASE t = s
    BY <1>3, <2>1 DEF CanRetry, Shows
  <2>2. CASE t # s
    <3>1. pc'[t] = pc[t] /\ msg'[t] = msg[t] /\ row'[t] = row[t]
      BY <1>3, <2>2 DEF Move
    <3>2. pc[t] = "ack" => jobs'[<<msg[t].req, "completed">>] > 0
      <4> HAVE pc[t] = "ack"
      <4>1. msg[t].req \in Request /\ jobs[<<msg[t].req, "completed">>] > 0
        BY <1>1 DEF Order, Analysed, SlotType, Message
      <4>2. <<msg[t].req, "completed">> \in Request \X RowStatus
        BY <4>1 DEF RowStatus
      <4>3. jobs'[<<msg[t].req, "completed">>] >= jobs[<<msg[t].req, "completed">>]
        BY <4>2 DEF Move, Grows
      <4>4. jobs[<<msg[t].req, "completed">>] \in Nat /\ jobs'[<<msg[t].req, "completed">>] \in Nat
        BY <1>1, <4>2 DEF Move, StoreType
      <4>5. QED
        BY <4>1, <4>3, <4>4
    <3>3. QED
      BY <1>1, <1>2, <3>1, <3>2 DEF Order, CanRetry
  <2>3. QED
    BY <2>1, <2>2
<1>6. ASSUME NEW r \in asked PROVE Covered(r)'
  <2>1. r \in Request /\ Covered(r)
    BY <1>1, <1>6 DEF IInv, RestType, Move
  <2>2. CASE Analysed(r)
    <3>1. <<r, "completed">> \in Request \X RowStatus
      BY <2>1 DEF RowStatus
    <3>2. jobs'[<<r, "completed">>] >= jobs[<<r, "completed">>]
      BY <3>1 DEF Move, Grows
    <3>3. jobs[<<r, "completed">>] \in Nat /\ jobs'[<<r, "completed">>] \in Nat
      BY <1>1, <3>1 DEF Move, StoreType
    <3>4. jobs'[<<r, "completed">>] > 0
      <4>1. jobs[<<r, "completed">>] > 0
        BY <2>2 DEF Analysed
      <4>2. QED
        BY <3>2, <3>3, <4>1
    <3>5. QED
      BY <3>4 DEF Covered, Analysed
  <2>3. CASE dlq[r] > 0
    <3>1. dlq'[r] >= dlq[r] /\ dlq[r] \in Nat /\ dlq'[r] \in Nat
      BY <1>1, <2>1 DEF Move, Grows, StoreType
    <3>2. dlq'[r] > 0
      BY <2>3, <3>1
    <3>3. QED
      BY <3>2 DEF Covered
  <2>4. CASE Queued(r)
    <3>1. PICK m \in Message : m.req = r /\ ready[m] > 0
      BY <2>4 DEF Queued
    <3>2. ready'[m] >= ready[m] /\ ready[m] \in Nat /\ ready'[m] \in Nat
      BY <1>1 DEF Move, Grows, StoreType
    <3>3. ready'[m] > 0
      BY <3>1, <3>2
    <3>4. QED
      BY <3>1, <3>3 DEF Covered, Queued
  <2>5. ASSUME NEW t \in owned, msg[t].req = r, pc[t] \notin AckSteps PROVE Covered(r)'
    <3>1. t \in Slot
      BY <1>1 DEF SlotType
    <3>2. CASE t # s
      <4>1. t \in owned' /\ msg'[t].req = r /\ pc'[t] \notin AckSteps
        BY <1>3, <2>5, <3>1, <3>2 DEF Move
      <4>2. QED
        BY <4>1 DEF Covered, AckSteps
    <3>3. CASE t = s /\ s \in owned' /\ step \notin AckSteps
      <4>1. msg'[s].req = r /\ pc'[s] \notin AckSteps
        BY <1>3, <2>5, <3>3
      <4>2. QED
        BY <3>3, <4>1 DEF Covered, AckSteps
    <3>4. CASE t = s /\ (s \notin owned' \/ step \in AckSteps)
      BY <2>5, <3>4 DEF Covered, Analysed, Queued, Settles
    <3>5. QED
      BY <3>2, <3>3, <3>4
  <2>6. QED
    BY <2>1, <2>2, <2>3, <2>4, <2>5 DEF Covered
<1>7. asked' = asked
  BY DEF Move
<1>8. QED
  BY <1>3, <1>5, <1>6, <1>7

-----------------------------------------------------------------------------
(* Every step of a handler is such a move. *)

LEMMA StoreSame ==
    ASSUME StoreType, ready' = ready, dlq' = dlq, jobs' = jobs,
           row' \in [Slot -> RowStatus \cup {"none"}]
    PROVE  StoreType' /\ Grows
<1>1. ready \in [Message -> Nat] /\ dlq \in [Request -> Nat] /\ jobs \in [Request \X RowStatus -> Nat]
  BY DEF StoreType
<1>2. StoreType'
  BY <1>1 DEF StoreType
<1>3. Grows
  BY <1>1 DEF Grows
<1>4. QED
  BY <1>2, <1>3

(* Adding one to an entry of a table of counters. *)
LEMMA AddOne ==
    ASSUME NEW D, NEW f \in [D -> Nat], NEW x \in D, NEW g, g = [f EXCEPT ![x] = @ + 1]
    PROVE  g \in [D -> Nat] /\ (\A y \in D : g[y] >= f[y]) /\ g[x] > 0
  OBVIOUS

LEMMA Retries ==
    ASSUME NEW s \in Slot
    PROVE  /\ OnFailure(s) = "reject" \/ (OnFailure(s) = "republish" /\ CanRetry(s))
           /\ OnNotReady(s) = "drop" \/ (OnNotReady(s) = "republish" /\ CanRetry(s))
  BY DEF OnFailure, OnNotReady

LEMMA Caught ==
    ASSUME NEW s \in Slot
    PROVE  /\ pc[s] = "resolve" => Catch(s) = OnNotReady(s)
           /\ pc[s] = "commit" => Catch(s) = "rollback"
           /\ pc[s] = "ack" => Catch(s) = OnFailure(s)
           /\ pc[s] \in {"announce", "announceFailed"} => Catch(s) = "idle"
           /\ pc[s] \in {"ackCopy", "reject", "drop", "republish"} => Catch(s) = "stuck"
  BY DEF Catch

(* What the step of a handler is to be shown to be. *)
IsMove(s) == \E step \in Steps : Move(s, step) /\ Shows(s, step) /\ Settles(s, step)

LEMMA MoveResolve ==
    ASSUME IInv, NEW s \in Slot, Resolve(s) PROVE IsMove(s)
<1>1. StoreType /\ SlotType
  BY TypeParts DEF IInv
<1> DEFINE step == IF msg[s].req \in ingested THEN "analyze" ELSE OnNotReady(s)
<1>2. step \in {"analyze", "drop", "republish"} /\ (step = "republish" => CanRetry(s))
  BY Retries
<1>3. GoTo(s, step)
  BY DEF Resolve
<1>4. /\ ready' = ready /\ dlq' = dlq /\ jobs' = jobs /\ row' = row
      /\ asked' = asked /\ owned' = owned
  BY DEF Resolve, brokerVars, resultVars
<1> HIDE DEF step
<1>5. StoreType' /\ Grows
  BY <1>1, <1>4, StoreSame DEF StoreType
<1>6. Move(s, step)
  BY <1>3, <1>4, <1>5 DEF Move
<1>7. Shows(s, step) /\ Settles(s, step)
  BY <1>2, <1>4 DEF Shows, Settles, AckSteps
<1>8. step \in Steps
  BY <1>2 DEF Steps, SettleSteps, PublishSteps, WorkSteps
<1>9. QED
  BY <1>6, <1>7, <1>8 DEF IsMove

LEMMA MoveAnalyze ==
    ASSUME IInv, NEW s \in Slot, Analyze(s) PROVE IsMove(s)
<1>1. StoreType /\ SlotType
  BY TypeParts DEF IInv
<1>2. PICK step \in {"commit", "rollback"} :
         /\ GoTo(s, step)
         /\ \E st \in RowStatus \cup {"none"} : row' = [row EXCEPT ![s] = st]
         /\ step = "commit" => row' = [row EXCEPT ![s] = "completed"]
  <2>1. row = [row EXCEPT ![s] = row[s]] /\ row[s] \in RowStatus \cup {"none"}
    BY <1>1 DEF StoreType
  <2>2. QED
    BY <2>1 DEF Analyze, RowStatus
<1>3. /\ ready' = ready /\ dlq' = dlq /\ jobs' = jobs
      /\ asked' = asked /\ owned' = owned
  BY DEF Analyze, brokerVars, resultVars
<1>4. row \in [Slot -> RowStatus \cup {"none"}]
  BY <1>1 DEF StoreType
<1>5. row' \in [Slot -> RowStatus \cup {"none"}] /\ \A t \in Slot \ {s} : row'[t] = row[t]
  BY <1>2, <1>4
<1>6. step = "commit" => row'[s] = "completed"
  BY <1>2, <1>4
<1>7. StoreType' /\ Grows
  BY <1>1, <1>3, <1>5, StoreSame
<1>8. Move(s, step)
  BY <1>2, <1>3, <1>5, <1>7 DEF Move
<1>9. Shows(s, step) /\ Settles(s, step)
  BY <1>2, <1>3, <1>6 DEF Shows, Settles, AckSteps
<1>10. step \in Steps
  BY DEF Steps, WorkSteps
<1>11. QED
  BY <1>8, <1>9, <1>10 DEF IsMove

LEMMA MoveCommit ==
    ASSUME IInv, NEW s \in Slot, Commit(s) PROVE IsMove(s)
<1>1. StoreType /\ SlotType /\ Order
  BY TypeParts DEF IInv
<1>2. pc[s] = "commit" /\ row[s] = "completed" /\ msg[s].req \in Request
  BY <1>1 DEF Commit, Order, SlotType, Message
<1>3. PICK step \in {"ack", "rollback"} : GoTo(s, step)
  BY <1>2, Caught DEF Commit, Proceed
<1>4. ready' = ready /\ dlq' = dlq /\ asked' = asked /\ owned' = owned
  BY DEF Commit, brokerVars
<1>5. jobs' = [jobs EXCEPT ![<<msg[s].req, "completed">>] = @ + 1]
  BY <1>2 DEF Commit
<1>6. row' = [row EXCEPT ![s] = "none"]
  BY DEF Commit
<1>7. /\ jobs' \in [Request \X RowStatus -> Nat]
      /\ \A x \in Request \X RowStatus : jobs'[x] >= jobs[x]
      /\ jobs'[<<msg[s].req, "completed">>] > 0
  <2>1. <<msg[s].req, "completed">> \in Request \X RowStatus
    BY <1>2 DEF RowStatus
  <2>2. jobs \in [Request \X RowStatus -> Nat]
    BY <1>1 DEF StoreType
  <2>3. QED
    BY <1>5, <2>1, <2>2, AddOne, SMTT(30)
<1>8. row \in [Slot -> RowStatus \cup {"none"}]
  BY <1>1 DEF StoreType
<1>9. row' \in [Slot -> RowStatus \cup {"none"}] /\ \A t \in Slot \ {s} : row'[t] = row[t]
  BY <1>6, <1>8
<1>10. ready \in [Message -> Nat] /\ dlq \in [Request -> Nat]
  BY <1>1 DEF StoreType
<1>11. StoreType' /\ Grows
  BY <1>4, <1>7, <1>9, <1>10 DEF StoreType, Grows
<1>12. Move(s, step)
  BY <1>3, <1>4, <1>9, <1>11 DEF Move
<1>13. Shows(s, step) /\ Settles(s, step)
  BY <1>3, <1>4, <1>7 DEF Shows, Settles
<1>14. step \in Steps
  BY DEF Steps, SettleSteps
<1>15. QED
  BY <1>12, <1>13, <1>14 DEF IsMove

LEMMA MoveRollback ==
    ASSUME IInv, NEW s \in Slot, Rollback(s) PROVE IsMove(s)
<1>1. StoreType /\ SlotType
  BY TypeParts DEF IInv
<1>2. PICK step \in {"reject", "republish"} : GoTo(s, step) /\ (step = "republish" => CanRetry(s))
  BY Retries DEF Rollback
<1>3. /\ ready' = ready /\ dlq' = dlq /\ jobs' = jobs /\ row' = [row EXCEPT ![s] = "none"]
      /\ asked' = asked /\ owned' = owned
  BY DEF Rollback, brokerVars, resultVars
<1>4. row \in [Slot -> RowStatus \cup {"none"}]
  BY <1>1 DEF StoreType
<1>5. row' \in [Slot -> RowStatus \cup {"none"}] /\ \A t \in Slot \ {s} : row'[t] = row[t]
  BY <1>3, <1>4
<1>6. StoreType' /\ Grows
  BY <1>1, <1>3, <1>5, StoreSame
<1>7. Move(s, step)
  BY <1>2, <1>3, <1>5, <1>6 DEF Move
<1>8. Shows(s, step) /\ Settles(s, step)
  BY <1>2, <1>3 DEF Shows, Settles, AckSteps
<1>9. step \in Steps
  BY DEF Steps, SettleSteps, PublishSteps
<1>10. QED
  BY <1>7, <1>8, <1>9 DEF IsMove

(* Acknowledgements, events and exceptions leave what is stored and queued as it is. *)
LEMMA MoveAck ==
    ASSUME IInv, NEW s \in Slot, Ack(s) \/ AckCopy(s) PROVE IsMove(s)
<1>1. StoreType /\ SlotType
  BY TypeParts DEF IInv
<1>2. PICK step \in {"announce", "idle", "stuck", "reject", "republish"} :
         GoTo(s, step) /\ (step = "republish" => CanRetry(s))
  BY Retries, Caught DEF Ack, AckCopy, Proceed
<1>3. /\ ready' = ready /\ dlq' = dlq /\ jobs' = jobs /\ row' = row
      /\ asked' = asked /\ owned' = owned \ {s}
  BY DEF Ack, AckCopy, Settle, resultVars
<1>4. StoreType' /\ Grows
  BY <1>1, <1>3, StoreSame DEF StoreType
<1>5. Move(s, step)
  BY <1>2, <1>3, <1>4 DEF Move
<1>6. Shows(s, step)
  BY <1>2, <1>3 DEF Shows
<1>7. Settles(s, step)
  BY DEF Settles, AckSteps, Ack, AckCopy
<1>8. step \in Steps
  BY DEF Steps, SettleSteps, PublishSteps
<1>9. QED
  BY <1>5, <1>6, <1>7, <1>8 DEF IsMove

LEMMA MoveAnnounce ==
    ASSUME IInv, NEW s \in Slot, Announce(s) \/ AnnounceFailed(s) PROVE IsMove(s)
<1>1. StoreType /\ SlotType /\ Order
  BY TypeParts DEF IInv
<1>2. GoTo(s, "idle") /\ s \notin owned
  BY <1>1, Caught DEF Announce, AnnounceFailed, Proceed, Order
<1>3. /\ ready' = ready /\ dlq' = dlq /\ jobs' = jobs /\ row' = row
      /\ asked' = asked /\ owned' = owned
  BY DEF Announce, AnnounceFailed, brokerVars
<1>4. StoreType' /\ Grows
  BY <1>1, <1>3, StoreSame DEF StoreType
<1>5. Move(s, "idle")
  BY <1>2, <1>3, <1>4 DEF Move
<1>6. Shows(s, "idle") /\ Settles(s, "idle")
  BY <1>2, <1>3 DEF Shows, Settles
<1>7. QED
  BY <1>5, <1>6 DEF IsMove, Steps

LEMMA MoveRaise ==
    ASSUME IInv, NEW s \in Slot, Raise(s) PROVE IsMove(s)
<1>1. StoreType /\ SlotType /\ Order
  BY TypeParts DEF IInv
<1>2. /\ ready' = ready /\ dlq' = dlq /\ jobs' = jobs /\ row' = row
      /\ asked' = asked /\ owned' = owned /\ GoTo(s, Catch(s))
  BY DEF Raise, brokerVars, resultVars
<1>3. pc[s] \in {"resolve", "commit", "ack", "ackCopy", "reject", "drop", "republish",
                 "announce", "announceFailed"}
  BY DEF Raise, SettleSteps, PublishSteps, WorkSteps
<1>4. /\ Catch(s) \in {"rollback", "idle", "stuck", "reject", "republish", "drop"}
      /\ Catch(s) = "republish" => CanRetry(s)
      /\ Catch(s) = "idle" => s \notin owned
  BY <1>1, <1>3, Caught, Retries DEF Order
<1>5. StoreType' /\ Grows
  BY <1>1, <1>2, StoreSame DEF StoreType
<1>6. Move(s, Catch(s))
  BY <1>2, <1>5 DEF Move
<1>7. Shows(s, Catch(s)) /\ Settles(s, Catch(s))
  BY <1>2, <1>4 DEF Shows, Settles, AckSteps
<1>8. Catch(s) \in Steps
  BY <1>4 DEF Steps, SettleSteps, PublishSteps
<1>9. QED
  BY <1>6, <1>7, <1>8 DEF IsMove

(* The next copy takes over from the one about to be acknowledged. *)
LEMMA MoveRepublish ==
    ASSUME IInv, NEW s \in Slot, Republish(s) PROVE IsMove(s)
<1>1. StoreType /\ SlotType /\ Order
  BY TypeParts DEF IInv
<1>2. pc[s] = "republish" /\ msg[s] \in Message /\ msg[s].retry < MaxRetries
  BY <1>1 DEF Republish, Order, SlotType, CanRetry
<1> DEFINE copy == [msg[s] EXCEPT !.retry = @ + 1]
<1>3. copy \in Message /\ copy.req = msg[s].req
  BY <1>2 DEF Message
<1>4. PICK step \in {"ackCopy", "stuck"} : GoTo(s, step)
  BY <1>2, Caught DEF Republish, Proceed
<1>5. ready' = [ready EXCEPT ![copy] = @ + 1] /\ dlq' = dlq /\ jobs' = jobs /\ row' = row
  BY DEF Republish, resultVars
<1>6. asked' = asked /\ owned' = owned
  BY DEF Republish
<1> HIDE DEF copy
<1>7. /\ ready' \in [Message -> Nat] /\ ready'[copy] > 0
      /\ \A m \in Message : ready'[m] >= ready[m]
  <2>1. ready \in [Message -> Nat]
    BY <1>1 DEF StoreType
  <2>2. QED
    BY <1>3, <1>5, <2>1, AddOne
<1>8. /\ dlq \in [Request -> Nat] /\ jobs \in [Request \X RowStatus -> Nat]
      /\ row \in [Slot -> RowStatus \cup {"none"}]
  BY <1>1 DEF StoreType
<1>9. StoreType' /\ Grows
  BY <1>5, <1>7, <1>8 DEF StoreType, Grows
<1>10. Move(s, step)
  BY <1>4, <1>5, <1>6, <1>9 DEF Move
<1>11. Shows(s, step)
  BY <1>4 DEF Shows
<1>12. Settles(s, step)
  BY <1>3, <1>7 DEF Settles
<1>13. step \in Steps
  BY DEF Steps, SettleSteps
<1>14. QED
  BY <1>10, <1>11, <1>12, <1>13 DEF IsMove

LEMMA MoveDeadLetter ==
    ASSUME IInv, NEW s \in Slot, Drop(s) \/ Reject(s) PROVE IsMove(s)
<1>1. StoreType /\ SlotType
  BY TypeParts DEF IInv
<1>2. DeadLetter(s) /\ pc[s] \in {"drop", "reject"}
  BY DEF Drop, Reject
<1>3. msg[s].req \in Request
  BY <1>1, <1>2 DEF SlotType, Message
<1>4. PICK step \in {"idle", "announceFailed", "stuck"} : GoTo(s, step)
  BY Caught DEF Drop, Reject, Proceed
<1>5. /\ dlq' = [dlq EXCEPT ![msg[s].req] = @ + 1]
      /\ ready' = ready /\ jobs' = jobs /\ row' = row /\ asked' = asked /\ owned' = owned \ {s}
  BY <1>2 DEF DeadLetter, Settle, resultVars
<1>6. /\ dlq' \in [Request -> Nat] /\ dlq'[msg[s].req] > 0
      /\ \A r \in Request : dlq'[r] >= dlq[r]
  <2>1. dlq \in [Request -> Nat]
    BY <1>1 DEF StoreType
  <2>2. QED
    BY <1>3, <1>5, <2>1, AddOne
<1>7. /\ ready \in [Message -> Nat] /\ jobs \in [Request \X RowStatus -> Nat]
      /\ row \in [Slot -> RowStatus \cup {"none"}]
  BY <1>1 DEF StoreType
<1>8. StoreType' /\ Grows
  BY <1>5, <1>6, <1>7 DEF StoreType, Grows
<1>9. Move(s, step)
  BY <1>4, <1>5, <1>8 DEF Move
<1>10. Shows(s, step) /\ Settles(s, step)
  BY <1>4, <1>5, <1>6 DEF Shows, Settles
<1>11. step \in Steps
  BY DEF Steps, PublishSteps
<1>12. QED
  BY <1>9, <1>10, <1>11 DEF IsMove

LEMMA HandlerMoves ==
    ASSUME IInv, NEW s \in Slot, Handle(s) \/ Raise(s)
    PROVE  IsMove(s) /\ pc[s] # "idle"
<1>1. pc[s] # "idle"
  BY DEF Handle, Raise, Resolve, Analyze, Commit, Rollback, Ack, Announce, Republish, AckCopy,
         Drop, Reject, AnnounceFailed, SettleSteps, PublishSteps, WorkSteps
<1>2. IsMove(s)
  BY MoveResolve, MoveAnalyze, MoveCommit, MoveRollback, MoveAck, MoveAnnounce, MoveRaise,
     MoveRepublish, MoveDeadLetter DEF Handle
<1>3. QED
  BY <1>1, <1>2

-----------------------------------------------------------------------------
(* The other steps *)

LEMMA SlotsFinite ==
    ASSUME NEW S \in SUBSET Slot
    PROVE  IsFiniteSet(S) /\ Cardinality(S) \in Nat /\ \A s \in S : Cardinality(S) > 0
<1>1. IsFiniteSet(1 .. Prefetch)
  BY FS_Interval
<1>2. IsFiniteSet(Slot)
  BY <1>1, FS_Product DEF Slot
<1>3. IsFiniteSet(S) /\ Cardinality(S) \in Nat
  BY <1>2, FS_Subset, FS_CardinalityType
<1>4. ASSUME NEW s \in S PROVE Cardinality(S) > 0
  <2>1. Cardinality(S) # 0
    BY <1>3, FS_EmptySet
  <2>2. QED
    BY <1>3, <2>1
<1>5. QED
  BY <1>3, <1>4

LEMMA RestInit == Init => RestType
  BY DEF Init, RestType

LEMMA FaultType ==
    ASSUME RestType, NEW s \in Slot, UNCHANGED faultVars \/ ChargeFault(s)
    PROVE  workFaults' \in Nat /\ brokerFaults' \in Nat
  BY DEF RestType, faultVars, ChargeFault

LEMMA RestStep ==
    ASSUME TypeOK, [Next]_vars
    PROVE  RestType'
<1>1. RestType /\ SlotType /\ StoreType
  BY TypeParts
<1>2. ASSUME NEW r \in Request, Publish(r) \/ IngestDone(r) PROVE RestType'
  BY <1>1, <1>2 DEF Publish, IngestDone, resultVars, endVars, faultVars, RestType
<1>3. ASSUME NEW s \in Slot, Receive(s) PROVE RestType'
  BY <1>1, <1>3 DEF Receive, resultVars, endVars, faultVars, RestType
<1>4. ASSUME NEW s \in Slot, Announce(s) \/ AnnounceFailed(s) PROVE RestType'
  <2>1. workFaults' \in Nat /\ brokerFaults' \in Nat
    BY <1>1, <1>4, FaultType DEF Announce, AnnounceFailed, Proceed
  <2>2. msg[s].req \in Request
    BY <1>1, <1>4 DEF Announce, AnnounceFailed, SlotType, Message
  <2>3. PICK st \in RowStatus : announced' = [announced EXCEPT ![<<msg[s].req, st>>] = @ + 1]
    BY <1>4 DEF Announce, AnnounceFailed, RowStatus
  <2>4. <<msg[s].req, st>> \in Request \X RowStatus
    BY <2>2
  <2>5. announced \in [Request \X RowStatus -> Nat]
    BY <1>1 DEF RestType
  <2>6. announced' \in [Request \X RowStatus -> Nat]
    BY <2>3, <2>4, <2>5, AddOne
  <2>7. UNCHANGED <<asked, ingested, redelivered, crashes, disconnects>>
    BY <1>4 DEF Announce, AnnounceFailed, endVars
  <2>8. QED
    BY <1>1, <2>1, <2>6, <2>7 DEF RestType
<1>5. ASSUME NEW s \in Slot, Handle(s) \/ Raise(s), ~(Announce(s) \/ AnnounceFailed(s))
      PROVE  RestType'
  <2>1. UNCHANGED faultVars \/ ChargeFault(s)
    BY <1>5 DEF Handle, Raise, Resolve, Analyze, Commit, Rollback, Ack, Republish, AckCopy,
                Drop, Reject, DeadLetter, Proceed
  <2>2. UNCHANGED <<asked, ingested, announced, redelivered, crashes, disconnects>>
    BY <1>5 DEF Handle, Raise, Resolve, Analyze, Commit, Rollback, Ack, Republish, AckCopy,
                Drop, Reject, DeadLetter, resultVars, endVars
  <2>3. workFaults' \in Nat /\ brokerFaults' \in Nat
    BY <1>1, <2>1, FaultType
  <2>4. QED
    BY <1>1, <2>2, <2>3 DEF RestType
<1>6. ASSUME NEW p \in Process, Crash(p) \/ Disconnect(p) PROVE RestType'
  <2> DEFINE back == {s \in owned : s[1] = p}
  <2>1. Cardinality(back) \in Nat
    BY <1>1, SlotsFinite DEF SlotType
  <2>2. redelivered' = redelivered + Cardinality(back)
    BY <1>6 DEF Crash, Disconnect, Redeliver
  <2>3. redelivered' \in Nat
    BY <1>1, <2>1, <2>2 DEF RestType
  <2>4. crashes' \in Nat /\ disconnects' \in Nat
    BY <1>1, <1>6 DEF Crash, Disconnect, RestType
  <2>5. UNCHANGED <<asked, ingested, announced, workFaults, brokerFaults>>
    BY <1>6 DEF Crash, Disconnect, resultVars, faultVars
  <2>6. QED
    BY <1>1, <2>3, <2>4, <2>5 DEF RestType
<1>7. CASE UNCHANGED vars
  BY <1>1, <1>7 DEF vars, resultVars, endVars, faultVars, RestType
<1>8. QED
  BY <1>2, <1>3, <1>4, <1>5, <1>6, <1>7 DEF Next

(* The part of the invariant that a step must be shown to keep. *)
Kept == SlotType' /\ StoreType' /\ Order' /\ \A r \in asked' : Covered(r)'

LEMMA KeepsPublish ==
    ASSUME IInv, NEW r \in Request, Publish(r) \/ IngestDone(r)
    PROVE  Kept
<1>1. SlotType /\ StoreType /\ Order /\ \A q \in asked : Covered(q)
  BY TypeParts DEF IInv
<1>2. UNCHANGED <<pc, msg, row, owned, dlq, jobs>>
  BY DEF Publish, IngestDone, brokerVars, slotVars, resultVars
<1>3. SlotType' /\ Order'
  BY <1>1, <1>2 DEF SlotType, Order, Analysed, CanRetry
<1> DEFINE new == [req |-> r, retry |-> 0]
<1>4. new \in Message
  BY DEF Message
<1>5. ready' \in [Message -> Nat] /\ (\A m \in Message : ready'[m] >= ready[m])
      /\ (Publish(r) => ready'[new] > 0)
  <2>1. ready \in [Message -> Nat]
    BY <1>1 DEF StoreType
  <2>2. CASE Publish(r)
    <3>1. ready' = [ready EXCEPT ![new] = @ + 1]
      BY <2>2 DEF Publish
    <3>2. QED
      BY <1>4, <2>1, <3>1, AddOne
  <2>3. CASE ~Publish(r)
    <3>1. ready' = ready
      BY <2>3 DEF IngestDone, brokerVars
    <3>2. QED
      BY <2>1, <2>3, <3>1
  <2>4. QED
    BY <2>2, <2>3
<1>6. StoreType'
  BY <1>1, <1>2, <1>5 DEF StoreType
<1>7. ASSUME NEW q \in asked PROVE Covered(q)'
  <2>1. CASE Queued(q)
    <3>1. PICK m \in Message : m.req = q /\ ready[m] > 0
      BY <2>1 DEF Queued
    <3>2. ready[m] \in Nat /\ ready'[m] \in Nat /\ ready'[m] >= ready[m]
      BY <1>1, <1>5 DEF StoreType
    <3>3. ready'[m] > 0
      BY <3>1, <3>2
    <3>4. QED
      BY <3>1, <3>3 DEF Covered, Queued
  <2>2. CASE ~Queued(q)
    BY <1>1, <1>2, <2>2 DEF Covered, Analysed, AckSteps
  <2>3. QED
    BY <2>1, <2>2
<1>8. ASSUME NEW q \in asked', q \notin asked PROVE Covered(q)'
  <2>1. q = r /\ Publish(r)
    BY <1>8 DEF Publish, IngestDone
  <2>2. new.req = q /\ ready'[new] > 0
    BY <1>5, <2>1
  <2>3. QED
    BY <1>4, <2>2 DEF Covered, Queued
<1>9. QED
  BY <1>3, <1>6, <1>7, <1>8 DEF Kept

LEMMA KeepsReceive ==
    ASSUME IInv, NEW s \in Slot, Receive(s)
    PROVE  Kept
<1>1. SlotType /\ StoreType /\ Order /\ \A r \in asked : Covered(r)
  BY TypeParts DEF IInv
<1>2. PICK m \in Message, step \in {"drop", "resolve", "analyze"} :
         /\ ready[m] > 0
         /\ ready' = [ready EXCEPT ![m] = @ - 1]
         /\ msg' = [msg EXCEPT ![s] = m]
         /\ pc' = [pc EXCEPT ![s] = step]
  BY DEF Receive
<1>3. pc[s] = "idle" /\ owned' = owned \cup {s} /\ UNCHANGED <<asked, dlq, row, jobs>>
  BY DEF Receive, resultVars
<1>4. /\ pc'[s] = step /\ msg'[s] = m
      /\ \A t \in Slot \ {s} : pc'[t] = pc[t] /\ msg'[t] = msg[t]
      /\ pc' \in [Slot -> Steps] /\ msg' \in [Slot -> Message \cup {None}]
  <2>1. pc \in [Slot -> Steps] /\ msg \in [Slot -> Message \cup {None}] /\ step \in Steps
    BY <1>1 DEF SlotType, Steps, SettleSteps, WorkSteps
  <2>2. QED
    BY <1>2, <2>1
<1>5. SlotType'
  BY <1>1, <1>3, <1>4 DEF SlotType
<1>6. /\ ready' \in [Message -> Nat]
      /\ \A n \in Message \ {m} : ready'[n] = ready[n]
  <2>1. ready \in [Message -> Nat]
    BY <1>1 DEF StoreType
  <2>2. ready[m] - 1 \in Nat
    BY <1>2, <2>1
  <2>3. QED
    BY <1>2, <2>1, <2>2
<1>7. StoreType'
  BY <1>1, <1>3, <1>6 DEF StoreType
<1>8. Order'
  BY <1>1, <1>3, <1>4 DEF Order, Analysed, CanRetry
<1>9. ASSUME NEW r \in asked PROVE Covered(r)'
  <2>1. CASE Analysed(r) \/ dlq[r] > 0
    BY <1>3, <2>1 DEF Covered, Analysed
  <2>2. ASSUME NEW n \in Message, n.req = r, ready[n] > 0 PROVE Covered(r)'
    <3>1. CASE n = m
      <4>1. s \in owned' /\ msg'[s].req = r /\ pc'[s] \notin AckSteps
        BY <1>2, <1>3, <1>4, <2>2, <3>1 DEF AckSteps
      <4>2. QED
        BY <4>1 DEF Covered, AckSteps
    <3>2. CASE n # m
      <4>1. ready'[n] > 0
        BY <1>6, <2>2, <3>2
      <4>2. QED
        BY <2>2, <4>1 DEF Covered, Queued
    <3>3. QED
      BY <3>1, <3>2
  <2>3. ASSUME NEW t \in owned, msg[t].req = r, pc[t] \notin AckSteps PROVE Covered(r)'
    <3>1. t \in Slot /\ t # s
      BY <1>1, <1>3 DEF SlotType
    <3>2. t \in owned' /\ msg'[t].req = r /\ pc'[t] \notin AckSteps
      BY <1>3, <1>4, <2>3, <3>1
    <3>3. QED
      BY <3>2 DEF Covered, AckSteps
  <2>4. QED
    BY <1>1, <2>1, <2>2, <2>3 DEF Covered, Queued
<1>10. QED
  BY <1>3, <1>5, <1>7, <1>8, <1>9 DEF Kept

(* What the broker takes back is queued again. *)
LEMMA RedeliverReady ==
    ASSUME SlotType, StoreType, NEW p \in Process, Redeliver(p)
    PROVE  /\ ready' \in [Message -> Nat]
           /\ \A m \in Message : ready'[m] >= ready[m]
           /\ \A s \in owned : s[1] = p => ready'[msg[s]] > 0
           /\ owned' = {s \in owned : s[1] # p}
<1> DEFINE back == {s \in owned : s[1] = p}
<1> DEFINE of(m) == {s \in back : msg[s] = m}
<1>1. ready' = [m \in Message |-> ready[m] + Cardinality(of(m))]
  BY DEF Redeliver
<1>2. owned' = {s \in owned : s[1] # p}
  BY DEF Redeliver
<1>3. ASSUME NEW m \in Message
      PROVE  Cardinality(of(m)) \in Nat /\ \A s \in of(m) : Cardinality(of(m)) > 0
  <2>1. of(m) \in SUBSET Slot
    BY DEF SlotType
  <2>2. QED
    BY <2>1, SlotsFinite
<1>4. ready \in [Message -> Nat]
  BY DEF StoreType
<1>5. ASSUME NEW s \in owned, s[1] = p PROVE ready'[msg[s]] > 0
  <2>1. msg[s] \in Message
    BY DEF SlotType
  <2>2. s \in of(msg[s])
    BY <1>5
  <2>3. Cardinality(of(msg[s])) \in Nat /\ Cardinality(of(msg[s])) > 0
    BY <1>3, <2>1, <2>2
  <2>4. ready'[msg[s]] = ready[msg[s]] + Cardinality(of(msg[s]))
    BY <1>1, <2>1
  <2> HIDE DEF of
  <2>5. QED
    BY <1>4, <2>1, <2>3, <2>4
<1> HIDE DEF of
<1>6. ready' \in [Message -> Nat] /\ \A m \in Message : ready'[m] >= ready[m]
  BY <1>1, <1>3, <1>4
<1>7. QED
  BY <1>2, <1>5, <1>6

LEMMA KeepsCrash ==
    ASSUME IInv, NEW p \in Process, Crash(p) \/ Disconnect(p)
    PROVE  Kept
<1>1. SlotType /\ StoreType /\ Order /\ RestType /\ \A r \in asked : Covered(r)
  BY TypeParts DEF IInv
<1>2. Redeliver(p) /\ UNCHANGED <<asked, dlq, jobs>>
  BY DEF Crash, Disconnect, resultVars
<1>3. /\ ready' \in [Message -> Nat]
      /\ \A m \in Message : ready'[m] >= ready[m]
      /\ \A s \in owned : s[1] = p => ready'[msg[s]] > 0
      /\ owned' = {s \in owned : s[1] # p}
  BY <1>1, <1>2, RedeliverReady
(* A handler goes on, except those of p that are dropped. *)
<1>4. PICK gone \in SUBSET {s \in Slot : s[1] = p} :
         /\ pc'  = [s \in Slot |-> IF s \in gone THEN "idle" ELSE pc[s]]
         /\ msg' = [s \in Slot |-> IF s \in gone THEN None ELSE msg[s]]
         /\ row' \in [Slot -> RowStatus \cup {"none"}]
         /\ \A s \in Slot \ gone : row'[s] = row[s]
  <2>1. row \in [Slot -> RowStatus \cup {"none"}]
    BY <1>1 DEF StoreType
  <2>2. CASE Crash(p)
    <3> DEFINE all == {s \in Slot : s[1] = p}
    <3>1. /\ pc'  = [s \in Slot |-> IF s \in all THEN "idle" ELSE pc[s]]
          /\ msg' = [s \in Slot |-> IF s \in all THEN None ELSE msg[s]]
          /\ row' = [s \in Slot |-> IF s \in all THEN "none" ELSE row[s]]
      BY <2>2 DEF Crash
    <3>2. row' \in [Slot -> RowStatus \cup {"none"}] /\ \A s \in Slot \ all : row'[s] = row[s]
      BY <2>1, <3>1
    <3>3. QED
      BY <3>1, <3>2
  <2>3. CASE Disconnect(p)
    <3> DEFINE stuck == {s \in Slot : s[1] = p /\ pc[s] = "stuck"}
    <3>1. /\ pc'  = [s \in Slot |-> IF s \in stuck THEN "idle" ELSE pc[s]]
          /\ msg' = [s \in Slot |-> IF s \in stuck THEN None ELSE msg[s]]
          /\ row' = row
      BY <2>3 DEF Disconnect
    <3>2. QED
      BY <2>1, <3>1
  <2>4. QED
    BY <2>2, <2>3
<1>5. /\ \A s \in gone : pc'[s] = "idle" /\ s \notin owned'
      /\ \A s \in Slot \ gone : pc'[s] = pc[s] /\ msg'[s] = msg[s] /\ row'[s] = row[s]
  BY <1>3, <1>4
<1>6. SlotType'
  <2>1. pc' \in [Slot -> Steps] /\ msg' \in [Slot -> Message \cup {None}]
    BY <1>1, <1>4 DEF SlotType, Steps
  <2>2. QED
    BY <1>1, <1>3, <1>5, <2>1 DEF SlotType
<1>7. StoreType'
  BY <1>1, <1>2, <1>3, <1>4 DEF StoreType
<1>8. Order'
  <2> SUFFICES ASSUME NEW s \in Slot
               PROVE  /\ pc'[s] = "commit" => row'[s] = "completed"
                      /\ pc'[s] = "republish" => msg'[s].retry < MaxRetries
                      /\ pc'[s] \in {"announce", "announceFailed"} => s \notin owned'
                      /\ pc'[s] = "ack" => jobs'[<<msg'[s].req, "completed">>] > 0
    BY DEF Order, CanRetry, Analysed
  <2>1. CASE s \in gone
    BY <1>5, <2>1
  <2>2. CASE s \notin gone
    BY <1>1, <1>2, <1>3, <1>5, <2>2 DEF Order, CanRetry, Analysed
  <2>3. QED
    BY <2>1, <2>2
<1>9. ASSUME NEW r \in asked PROVE Covered(r)'
  <2>1. CASE Analysed(r) \/ dlq[r] > 0
    BY <1>2, <2>1 DEF Covered, Analysed
  <2>2. ASSUME NEW m \in Message, m.req = r, ready[m] > 0 PROVE Covered(r)'
    <3>1. ready[m] \in Nat /\ ready'[m] \in Nat /\ ready'[m] >= ready[m]
      BY <1>1, <1>3 DEF StoreType
    <3>2. ready'[m] > 0
      BY <2>2, <3>1
    <3>3. QED
      BY <2>2, <3>2 DEF Covered, Queued
  <2>3. ASSUME NEW s \in owned, msg[s].req = r, pc[s] \notin AckSteps PROVE Covered(r)'
    <3>1. s \in Slot /\ msg[s] \in Message
      BY <1>1 DEF SlotType
    <3>2. CASE s[1] = p
      <4>1. ready'[msg[s]] > 0
        BY <1>3, <3>2
      <4>2. QED
        BY <2>3, <3>1, <4>1 DEF Covered, Queued
    <3>3. CASE s[1] # p
      <4>1. s \in owned' /\ s \notin gone
        BY <1>3, <3>3
      <4>2. msg'[s].req = r /\ pc'[s] \notin AckSteps
        BY <1>5, <2>3, <3>1, <4>1
      <4>3. QED
        BY <4>1, <4>2 DEF Covered, AckSteps
    <3>4. QED
      BY <3>2, <3>3
  <2>4. QED
    BY <1>1, <2>1, <2>2, <2>3 DEF Covered, Queued
<1>10. QED
  BY <1>2, <1>6, <1>7, <1>8, <1>9 DEF Kept

-----------------------------------------------------------------------------
(* The invariant *)

LEMMA InitInv == Init => IInv
<1> SUFFICES ASSUME Init PROVE IInv
  OBVIOUS
<1>1. RestType
  BY RestInit
<1>2. SlotType /\ StoreType
  BY DEF Init, SlotType, StoreType, Steps
<1>3. Order
  BY DEF Init, Order
<1>4. asked = {}
  BY DEF Init
<1>5. QED
  BY <1>1, <1>2, <1>3, <1>4, TypeParts DEF IInv

LEMMA StepInv == IInv /\ [Next]_vars => IInv'
<1> SUFFICES ASSUME IInv, [Next]_vars PROVE IInv'
  OBVIOUS
<1>1. RestType'
  BY RestStep DEF IInv
<1>2. ASSUME NEW r \in Request, Publish(r) \/ IngestDone(r) PROVE Kept
  BY <1>2, KeepsPublish
<1>3. ASSUME NEW s \in Slot, Receive(s) PROVE Kept
  BY <1>3, KeepsReceive
<1>4. ASSUME NEW s \in Slot, Handle(s) \/ Raise(s) PROVE Kept
  <2>1. IsMove(s) /\ pc[s] # "idle"
    BY <1>4, HandlerMoves
  <2>2. PICK step \in Steps : Move(s, step) /\ Shows(s, step) /\ Settles(s, step)
    BY <2>1 DEF IsMove
  <2>3. StoreType'
    BY <2>2 DEF Move
  <2>4. QED
    BY <2>1, <2>2, <2>3, MoveKeeps DEF Kept
<1>5. ASSUME NEW p \in Process, Crash(p) \/ Disconnect(p) PROVE Kept
  BY <1>5, KeepsCrash
<1>6. ASSUME UNCHANGED vars PROVE Kept
  <2>1. SlotType /\ StoreType /\ Order /\ \A r \in asked : Covered(r)
    BY TypeParts DEF IInv
  <2>2. UNCHANGED <<asked, ready, dlq, owned, pc, msg, row, jobs>>
    BY <1>6 DEF vars, brokerVars, slotVars, resultVars
  <2>3. SlotType' /\ StoreType' /\ Order'
    BY <2>1, <2>2 DEF SlotType, StoreType, Order, CanRetry, Analysed
  <2>4. ASSUME NEW r \in asked' PROVE Covered(r)'
    BY <2>1, <2>2, <2>4 DEF Covered, Analysed, Queued, AckSteps
  <2>5. QED
    BY <2>3, <2>4 DEF Kept
<1>7. Kept
  BY <1>2, <1>3, <1>4, <1>5, <1>6 DEF Next
<1>8. TypeOK'
  BY <1>1, <1>7, TypeParts DEF Kept, TypeOK, SlotType, StoreType, RestType
<1>9. QED
  BY <1>7, <1>8 DEF Kept, IInv

-----------------------------------------------------------------------------
(* The prefetch window and the events *)

(* A step of a handler leaves the other slots alone; its own keeps its copy or is free again. *)
LEMMA HandlerFrame ==
    ASSUME IInv, NEW s \in Slot, Handle(s) \/ Raise(s)
    PROVE  /\ owned' \subseteq owned
           /\ \A t \in Slot \ {s} : pc'[t] = pc[t] /\ msg'[t] = msg[t]
           /\ pc'[s] = "idle" \/ msg'[s] = msg[s]
<1>1. PICK step \in Steps : Move(s, step) /\ Shows(s, step)
  BY HandlerMoves DEF IsMove
<1>2. owned' \subseteq owned /\ GoTo(s, step) /\ (step = "idle" => s \notin owned')
  BY <1>1 DEF Move, Shows
<1>3. SlotType /\ pc[s] # "idle"
  BY TypeParts, HandlerMoves DEF IInv
<1>4. QED
  BY <1>2, <1>3, GoToSlots

LEMMA GoesTo ==
    ASSUME SlotType, NEW s \in Slot, NEW step, GoTo(s, step)
    PROVE  pc'[s] \in {"idle", step}
  BY DEF SlotType, GoTo

(* How a handler comes to the steps that are counted below. *)
LEMMA Reaches ==
    ASSUME IInv, NEW s \in Slot, Handle(s) \/ Raise(s)
    PROVE  /\ pc'[s] \in {"ack", "announce"} => Commit(s) \/ pc[s] = "ack"
           /\ pc'[s] = "announceFailed" => Reject(s)
           /\ pc'[s] = "stuck" /\ s \in owned' => brokerFaults' = brokerFaults + 1
<1>1. SlotType
  BY TypeParts DEF IInv
<1>2. CASE Resolve(s)
  <2>1. pc'[s] \in {"idle", "analyze", "drop", "republish"}
    BY <1>1, <1>2, GoesTo, Retries DEF Resolve
  <2>2. QED
    BY <2>1
<1>3. CASE Analyze(s) \/ Rollback(s)
  <2>1. pc'[s] \in {"idle", "commit", "rollback", "reject", "republish"}
    BY <1>1, <1>3, GoesTo, Retries DEF Analyze, Rollback
  <2>2. QED
    BY <2>1
<1>4. CASE Commit(s)
  <2>1. pc'[s] \in {"idle", "ack", "rollback"}
    BY <1>1, <1>4, GoesTo, Caught DEF Commit, Proceed
  <2>2. QED
    BY <1>4, <2>1
<1>5. CASE Ack(s) \/ AckCopy(s) \/ Drop(s)
  <2>1. s \notin owned'
    BY <1>5 DEF Ack, AckCopy, Drop, DeadLetter, Settle
  <2>2. pc[s] # "ack" => pc'[s] \in {"idle", "stuck"}
    BY <1>1, <1>5, GoesTo, Caught DEF Ack, AckCopy, Drop, Proceed
  <2>3. pc[s] = "ack" => pc'[s] \in {"idle", "announce", "reject", "republish"}
    BY <1>1, <1>5, GoesTo, Caught, Retries DEF Ack, AckCopy, Drop, Proceed
  <2>4. QED
    BY <2>1, <2>2, <2>3
<1>6. CASE Reject(s)
  <2>1. s \notin owned'
    BY <1>6 DEF Reject, DeadLetter, Settle
  <2>2. pc'[s] \in {"idle", "announceFailed", "stuck"}
    BY <1>1, <1>6, GoesTo, Caught DEF Reject, Proceed
  <2>3. QED
    BY <1>6, <2>1, <2>2
<1>7. CASE Announce(s) \/ AnnounceFailed(s)
  <2>1. pc'[s] = "idle"
    BY <1>1, <1>7, GoesTo, Caught DEF Announce, AnnounceFailed, Proceed
  <2>2. QED
    BY <2>1
<1>8. CASE Republish(s)
  <2>1. GoTo(s, "ackCopy") \/ (GoTo(s, "stuck") /\ ChargeFault(s))
    BY <1>8, Caught DEF Republish, Proceed
  <2>2. ChargeFault(s) => brokerFaults' = brokerFaults + 1
    BY <1>8 DEF Republish, ChargeFault, WorkSteps
  <2>3. pc'[s] \in {"idle", "ackCopy"} \/ (pc'[s] = "stuck" /\ brokerFaults' = brokerFaults + 1)
               \/ (pc'[s] = "idle" /\ brokerFaults' = brokerFaults + 1)
    BY <1>1, <2>1, <2>2, GoesTo
  <2>4. QED
    BY <2>3
<1>9. CASE Raise(s)
  <2>1. pc[s] \in {"resolve", "commit", "ack", "ackCopy", "reject", "drop", "republish",
                   "announce", "announceFailed"}
    BY <1>9 DEF Raise, SettleSteps, PublishSteps, WorkSteps
  <2>2. pc'[s] \in {"idle", Catch(s)} /\ owned' = owned
    BY <1>1, <1>9, GoesTo DEF Raise, brokerVars
  <2>3. Catch(s) \in {"rollback", "idle", "stuck", "reject", "republish", "drop"}
    BY <2>1, Caught, Retries
  <2>4. Catch(s) = "stuck" => pc[s] \in {"ackCopy", "reject", "drop", "republish"}
    BY <2>1, Caught, Retries
  <2>5. Catch(s) = "stuck" /\ s \in owned => brokerFaults' = brokerFaults + 1
    BY <1>9, <2>4 DEF Raise, ChargeFault, WorkSteps
  <2>6. QED
    BY <2>2, <2>3, <2>5
<1>10. QED
  BY <1>2, <1>3, <1>4, <1>5, <1>6, <1>7, <1>8, <1>9 DEF Handle

(* The faults of the broker are only ever counted. *)
LEMMA FaultsGrow ==
    ASSUME IInv, [Next]_vars
    PROVE  brokerFaults \in Nat /\ brokerFaults' \in Nat /\ brokerFaults' >= brokerFaults
<1>1. RestType
  BY TypeParts DEF IInv
<1>2. ASSUME NEW s \in Slot, Handle(s) \/ Raise(s)
      PROVE  UNCHANGED faultVars \/ ChargeFault(s)
  BY <1>2 DEF Handle, Raise, Resolve, Analyze, Commit, Rollback, Ack, Republish, AckCopy,
              Drop, Reject, DeadLetter, Announce, AnnounceFailed, Proceed
<1>3. brokerFaults' \in {brokerFaults, brokerFaults + 1}
  BY <1>2 DEF Next, Publish, IngestDone, Receive, Crash, Disconnect, ChargeFault, faultVars, vars
<1>4. QED
  BY <1>1, <1>3 DEF RestType

Stuck == {s \in owned : pc[s] = "stuck"}

LEMMA StuckStep == IInv /\ StuckBound /\ [Next]_vars => StuckBound'
<1> SUFFICES ASSUME IInv, StuckBound, [Next]_vars PROVE StuckBound'
  OBVIOUS
<1>1. SlotType /\ IsFiniteSet(Stuck) /\ Cardinality(Stuck) \in Nat /\ Cardinality(Stuck) <= brokerFaults
  <2>1. SlotType
    BY TypeParts DEF IInv
  <2>2. Stuck \in SUBSET Slot
    BY <2>1 DEF Stuck, SlotType
  <2>3. QED
    BY <2>1, <2>2, SlotsFinite DEF StuckBound, Stuck
<1>2. brokerFaults \in Nat /\ brokerFaults' \in Nat /\ brokerFaults' >= brokerFaults
  BY FaultsGrow
<1>3. ASSUME Stuck' \subseteq Stuck PROVE Cardinality(Stuck') <= brokerFaults'
  <2>1. Cardinality(Stuck') <= Cardinality(Stuck) /\ Cardinality(Stuck') \in Nat
    BY <1>1, <1>3, FS_Subset, FS_CardinalityType
  <2>2. QED
    BY <1>1, <1>2, <2>1
<1>4. ASSUME NEW s \in Slot, Handle(s) \/ Raise(s) PROVE Cardinality(Stuck') <= brokerFaults'
  <2>1. Stuck' \subseteq Stuck \cup {s}
    BY <1>1, <1>4, HandlerFrame DEF Stuck, SlotType
  <2>2. CASE s \notin Stuck'
    <3>1. Stuck' \subseteq Stuck
      BY <2>1, <2>2
    <3>2. QED
      BY <1>3, <3>1
  <2>3. CASE s \in Stuck'
    <3>1. brokerFaults' = brokerFaults + 1
      BY <1>4, <2>3, Reaches DEF Stuck
    <3>2. IsFiniteSet(Stuck \cup {s}) /\ Cardinality(Stuck \cup {s}) <= Cardinality(Stuck) + 1
      <4>1. /\ IsFiniteSet(Stuck \cup {s})
            /\ Cardinality(Stuck \cup {s}) = IF s \in Stuck THEN Cardinality(Stuck) ELSE Cardinality(Stuck) + 1
        BY <1>1, FS_AddElement
      <4>2. QED
        BY <1>1, <4>1
    <3>3. Cardinality(Stuck') <= Cardinality(Stuck \cup {s}) /\ Cardinality(Stuck') \in Nat
          /\ Cardinality(Stuck \cup {s}) \in Nat
      BY <2>1, <3>2, FS_Subset, FS_CardinalityType
    <3>4. QED
      BY <1>1, <1>2, <3>1, <3>2, <3>3
  <2>4. QED
    BY <2>2, <2>3
<1>5. ASSUME NEW s \in Slot, Receive(s) PROVE Stuck' \subseteq Stuck
  <2>1. /\ owned' = owned \cup {s} /\ pc'[s] # "stuck"
        /\ \A t \in Slot \ {s} : pc'[t] = pc[t]
    BY <1>1, <1>5 DEF Receive, SlotType
  <2>2. QED
    BY <1>1, <2>1 DEF Stuck, SlotType
<1>6. ASSUME NEW p \in Process, Crash(p) \/ Disconnect(p) PROVE Stuck' \subseteq Stuck
  <2>1. owned' \subseteq owned
    BY <1>6 DEF Crash, Disconnect, Redeliver
  <2>2. \A s \in Slot : pc'[s] \in {"idle", pc[s]}
    BY <1>6 DEF Crash, Disconnect
  <2>3. QED
    BY <1>1, <2>1, <2>2 DEF Stuck, SlotType
<1>7. ASSUME UNCHANGED vars \/ \E r \in Request : Publish(r) \/ IngestDone(r) PROVE Stuck' \subseteq Stuck
  BY <1>7 DEF vars, Publish, IngestDone, brokerVars, slotVars, Stuck
<1>8. Cardinality(Stuck') <= brokerFaults'
  BY <1>3, <1>4, <1>5, <1>6, <1>7 DEF Next
<1>9. QED
  BY <1>8 DEF StuckBound, Stuck

(* Handlers on their way to an event, and the stock of rows or dead letters that events draw on: the *)
(* stock grows before a handler sets out, and a handler that announces is on its way no more.        *)
LEMMA NobodySetsOut ==
    ASSUME NEW W, NEW V, IsFiniteSet(W), V \subseteq W,
           NEW said \in Nat, NEW stock \in Nat, NEW more \in Nat,
           said + Cardinality(W) <= stock, more >= stock
    PROVE  said + Cardinality(V) <= more
<1>1. /\ Cardinality(W) \in Nat /\ Cardinality(V) \in Nat
      /\ Cardinality(V) <= Cardinality(W)
  BY FS_Subset, FS_CardinalityType
<1>2. QED
  BY <1>1

LEMMA OneSetsOut ==
    ASSUME NEW W, NEW V, NEW s, IsFiniteSet(W), V \subseteq W \cup {s},
           NEW said \in Nat, NEW stock \in Nat, said + Cardinality(W) <= stock
    PROVE  said + Cardinality(V) <= stock + 1
<1>1. /\ IsFiniteSet(W \cup {s})
      /\ Cardinality(W \cup {s}) = IF s \in W THEN Cardinality(W) ELSE Cardinality(W) + 1
  BY FS_AddElement
<1>2. /\ Cardinality(V) <= Cardinality(W \cup {s}) /\ Cardinality(V) \in Nat
      /\ Cardinality(W) \in Nat
  BY <1>1, FS_Subset, FS_CardinalityType
<1>3. Cardinality(W \cup {s}) \in Nat /\ Cardinality(W \cup {s}) <= Cardinality(W) + 1
  BY <1>1, <1>2
<1>4. QED
  BY <1>2, <1>3

LEMMA OneAnnounces ==
    ASSUME NEW W, NEW V, NEW s \in W, IsFiniteSet(W), V \subseteq W \ {s},
           NEW said \in Nat, NEW stock \in Nat, NEW more \in Nat,
           said + Cardinality(W) <= stock, more >= stock
    PROVE  said + 1 + Cardinality(V) <= more
<1>1. IsFiniteSet(W \ {s}) /\ Cardinality(W \ {s}) = Cardinality(W) - 1
  BY FS_RemoveElement
<1>2. /\ Cardinality(V) <= Cardinality(W \ {s}) /\ Cardinality(V) \in Nat
      /\ Cardinality(W) \in Nat
  BY <1>1, FS_Subset, FS_CardinalityType
<1>3. QED
  BY <1>1, <1>2

OnTheWay(r) == {s \in Slot : pc[s] \in {"ack", "announce"} /\ msg[s].req = r}
Failing(r) == {s \in Slot : pc[s] = "announceFailed" /\ msg[s].req = r}

Backed ==
    \A r \in Request :
        /\ announced[<<r, "completed">>] + Cardinality(OnTheWay(r)) <= jobs[<<r, "completed">>]
        /\ announced[<<r, "failed">>] + Cardinality(Failing(r)) <= dlq[r]

(* What a step of a handler does to the events, the rows and the dead letters of a request. *)
LEMMA HandlerCounts ==
    ASSUME IInv, NEW s \in Slot, Handle(s) \/ Raise(s), NEW r \in Request
    PROVE  /\ IF Commit(s) /\ msg[s].req = r
                THEN jobs'[<<r, "completed">>] = jobs[<<r, "completed">>] + 1
                ELSE jobs'[<<r, "completed">>] = jobs[<<r, "completed">>]
           /\ IF Announce(s) /\ msg[s].req = r
                THEN announced'[<<r, "completed">>] = announced[<<r, "completed">>] + 1
                ELSE announced'[<<r, "completed">>] = announced[<<r, "completed">>]
           /\ IF AnnounceFailed(s) /\ msg[s].req = r
                THEN announced'[<<r, "failed">>] = announced[<<r, "failed">>] + 1
                ELSE announced'[<<r, "failed">>] = announced[<<r, "failed">>]
           /\ Reject(s) /\ msg[s].req = r => dlq'[r] = dlq[r] + 1
           /\ dlq'[r] >= dlq[r]
<1>1. SlotType /\ StoreType /\ RestType /\ Order
  BY TypeParts DEF IInv
<1>2. /\ jobs \in [Request \X RowStatus -> Nat] /\ announced \in [Request \X RowStatus -> Nat]
      /\ dlq \in [Request -> Nat]
      /\ <<r, "completed">> \in Request \X RowStatus /\ <<r, "failed">> \in Request \X RowStatus
  BY <1>1 DEF StoreType, RestType, RowStatus
<1>3. msg[s].req \in Request /\ dlq[r] \in Nat
  BY <1>1, <1>2, HandlerMoves DEF SlotType, Message
<1>4. CASE Commit(s)
  <2>1. jobs' = [jobs EXCEPT ![<<msg[s].req, "completed">>] = @ + 1] /\ announced' = announced /\ dlq' = dlq
    BY <1>1, <1>4 DEF Commit, Order, brokerVars
  <2>2. pc[s] = "commit"
    BY <1>4 DEF Commit
  <2>3. ~Announce(s) /\ ~AnnounceFailed(s) /\ ~Reject(s)
    BY <2>2 DEF Announce, AnnounceFailed, Reject
  <2>4. QED
    BY <1>2, <1>3, <1>4, <2>1, <2>3
<1>5. CASE Announce(s)
  <2>1. announced' = [announced EXCEPT ![<<msg[s].req, "completed">>] = @ + 1] /\ jobs' = jobs /\ dlq' = dlq
    BY <1>5 DEF Announce, brokerVars
  <2>2. ~Commit(s) /\ ~AnnounceFailed(s) /\ ~Reject(s)
    BY <1>5 DEF Announce, Commit, AnnounceFailed, Reject
  <2>3. QED
    BY <1>2, <1>3, <1>5, <2>1, <2>2
<1>6. CASE AnnounceFailed(s)
  <2>1. announced' = [announced EXCEPT ![<<msg[s].req, "failed">>] = @ + 1] /\ jobs' = jobs /\ dlq' = dlq
    BY <1>6 DEF AnnounceFailed, brokerVars
  <2>2. ~Commit(s) /\ ~Announce(s) /\ ~Reject(s)
    BY <1>6 DEF Announce, Commit, AnnounceFailed, Reject
  <2>3. QED
    BY <1>2, <1>3, <1>6, <2>1, <2>2
<1>7. CASE Drop(s) \/ Reject(s)
  <2>1. dlq' = [dlq EXCEPT ![msg[s].req] = @ + 1] /\ jobs' = jobs /\ announced' = announced
    BY <1>7 DEF Drop, Reject, DeadLetter, resultVars
  <2>2. ~Commit(s) /\ ~Announce(s) /\ ~AnnounceFailed(s)
    BY <1>7 DEF Announce, Commit, AnnounceFailed, Reject, Drop
  <2>3. QED
    BY <1>2, <1>3, <2>1, <2>2
<1>8. CASE ~(Commit(s) \/ Announce(s) \/ AnnounceFailed(s) \/ Drop(s) \/ Reject(s))
  <2>1. jobs' = jobs /\ announced' = announced /\ dlq' = dlq
    BY <1>8 DEF Handle, Raise, Resolve, Analyze, Rollback, Ack, Republish, AckCopy, brokerVars, resultVars
  <2>2. QED
    BY <1>3, <1>8, <2>1
<1>9. QED
  BY <1>4, <1>5, <1>6, <1>7, <1>8

LEMMA BackedHandler ==
    ASSUME IInv, Backed, TypeOK', NEW s \in Slot, Handle(s) \/ Raise(s), NEW r \in Request
    PROVE  /\ announced'[<<r, "completed">>] + Cardinality(OnTheWay(r)') <= jobs'[<<r, "completed">>]
           /\ announced'[<<r, "failed">>] + Cardinality(Failing(r)') <= dlq'[r]
<1>1. SlotType /\ StoreType /\ RestType /\ StoreType' /\ RestType'
  BY TypeParts DEF IInv, TypeOK, StoreType, RestType
<1>2. /\ \A t \in Slot \ {s} : pc'[t] = pc[t] /\ msg'[t] = msg[t]
      /\ pc'[s] = "idle" \/ msg'[s] = msg[s]
  BY HandlerFrame
<1>3. IsFiniteSet(OnTheWay(r)) /\ IsFiniteSet(Failing(r))
  <2>1. OnTheWay(r) \in SUBSET Slot /\ Failing(r) \in SUBSET Slot
    BY DEF OnTheWay, Failing
  <2>2. QED
    BY <2>1, SlotsFinite
<1>4. /\ <<r, "completed">> \in Request \X RowStatus /\ <<r, "failed">> \in Request \X RowStatus
      /\ announced[<<r, "completed">>] + Cardinality(OnTheWay(r)) <= jobs[<<r, "completed">>]
      /\ announced[<<r, "failed">>] + Cardinality(Failing(r)) <= dlq[r]
  BY DEF Backed, RowStatus
<1>5. /\ announced[<<r, "completed">>] \in Nat /\ announced'[<<r, "completed">>] \in Nat
      /\ announced[<<r, "failed">>] \in Nat /\ announced'[<<r, "failed">>] \in Nat
      /\ jobs[<<r, "completed">>] \in Nat /\ jobs'[<<r, "completed">>] \in Nat
      /\ dlq[r] \in Nat /\ dlq'[r] \in Nat
  BY <1>1, <1>4 DEF StoreType, RestType
<1>6. OnTheWay(r)' \subseteq OnTheWay(r) \cup {s} /\ Failing(r)' \subseteq Failing(r) \cup {s}
  BY <1>2 DEF OnTheWay, Failing
<1>7. announced'[<<r, "completed">>] + Cardinality(OnTheWay(r)') <= jobs'[<<r, "completed">>]
  <2>1. CASE Commit(s) /\ msg[s].req = r
    <3>1. jobs'[<<r, "completed">>] = jobs[<<r, "completed">>] + 1
      BY <2>1, HandlerCounts
    <3>2. ~Announce(s)
      BY <2>1 DEF Commit, Announce
    <3>3. announced'[<<r, "completed">>] = announced[<<r, "completed">>]
      BY <3>2, HandlerCounts
    <3>4. QED
      BY <1>3, <1>4, <1>5, <1>6, <3>1, <3>3, OneSetsOut
  <2>2. CASE Announce(s) /\ msg[s].req = r
    <3>1. pc[s] = "announce" /\ ~Commit(s)
      BY <2>2 DEF Announce, Commit
    <3>2. pc'[s] \notin {"ack", "announce"}
      BY <3>1, Reaches
    <3>3. s \in OnTheWay(r) /\ OnTheWay(r)' \subseteq OnTheWay(r) \ {s}
      BY <1>6, <2>2, <3>1, <3>2 DEF OnTheWay
    <3>4. /\ announced'[<<r, "completed">>] = announced[<<r, "completed">>] + 1
          /\ jobs'[<<r, "completed">>] = jobs[<<r, "completed">>]
      BY <2>2, <3>1, HandlerCounts
    <3>5. QED
      BY <1>3, <1>4, <1>5, <3>3, <3>4, OneAnnounces
  <2>3. CASE ~(Commit(s) /\ msg[s].req = r) /\ ~(Announce(s) /\ msg[s].req = r)
    <3>1. /\ announced'[<<r, "completed">>] = announced[<<r, "completed">>]
          /\ jobs'[<<r, "completed">>] = jobs[<<r, "completed">>]
      BY <2>3, HandlerCounts
    <3>2. s \in OnTheWay(r)' => s \in OnTheWay(r)
      BY <1>2, <2>3, Reaches DEF OnTheWay
    <3>3. OnTheWay(r)' \subseteq OnTheWay(r)
      BY <1>6, <3>2
    <3>4. QED
      BY <1>3, <1>4, <1>5, <3>1, <3>3, NobodySetsOut
  <2>4. QED
    BY <2>1, <2>2, <2>3
<1>8. announced'[<<r, "failed">>] + Cardinality(Failing(r)') <= dlq'[r]
  <2>1. CASE Reject(s) /\ msg[s].req = r
    <3>1. ~AnnounceFailed(s)
      BY <2>1 DEF Reject, AnnounceFailed
    <3>2. dlq'[r] = dlq[r] + 1 /\ announced'[<<r, "failed">>] = announced[<<r, "failed">>]
      BY <2>1, <3>1, HandlerCounts
    <3>3. QED
      BY <1>3, <1>4, <1>5, <1>6, <3>2, OneSetsOut
  <2>2. CASE AnnounceFailed(s) /\ msg[s].req = r
    <3>1. pc[s] = "announceFailed" /\ ~Reject(s)
      BY <2>2 DEF AnnounceFailed, Reject
    <3>2. pc'[s] # "announceFailed"
      BY <3>1, Reaches
    <3>3. s \in Failing(r) /\ Failing(r)' \subseteq Failing(r) \ {s}
      BY <1>6, <2>2, <3>1, <3>2 DEF Failing
    <3>4. announced'[<<r, "failed">>] = announced[<<r, "failed">>] + 1 /\ dlq'[r] >= dlq[r]
      BY <2>2, HandlerCounts
    <3>5. QED
      BY <1>3, <1>4, <1>5, <3>3, <3>4, OneAnnounces
  <2>3. CASE ~(Reject(s) /\ msg[s].req = r) /\ ~(AnnounceFailed(s) /\ msg[s].req = r)
    <3>1. announced'[<<r, "failed">>] = announced[<<r, "failed">>] /\ dlq'[r] >= dlq[r]
      BY <2>3, HandlerCounts
    <3>2. s \notin Failing(r)'
      BY <1>2, <2>3, Reaches DEF Failing
    <3>3. Failing(r)' \subseteq Failing(r)
      BY <1>6, <3>2
    <3>4. QED
      BY <1>3, <1>4, <1>5, <3>1, <3>3, NobodySetsOut
  <2>4. QED
    BY <2>1, <2>2, <2>3
<1>9. QED
  BY <1>7, <1>8

LEMMA BackedStep == IInv /\ Backed /\ [Next]_vars => Backed'
<1> SUFFICES ASSUME IInv, Backed, [Next]_vars, NEW r \in Request
             PROVE  /\ announced'[<<r, "completed">>] + Cardinality(OnTheWay(r)') <= jobs'[<<r, "completed">>]
                    /\ announced'[<<r, "failed">>] + Cardinality(Failing(r)') <= dlq'[r]
  BY DEF Backed
<1>1. TypeOK' /\ SlotType /\ StoreType /\ RestType
  BY StepInv, TypeParts DEF IInv
<1>2. ASSUME NEW s \in Slot, Handle(s) \/ Raise(s)
      PROVE  /\ announced'[<<r, "completed">>] + Cardinality(OnTheWay(r)') <= jobs'[<<r, "completed">>]
             /\ announced'[<<r, "failed">>] + Cardinality(Failing(r)') <= dlq'[r]
  BY <1>1, <1>2, BackedHandler
<1>3. ASSUME OnTheWay(r)' \subseteq OnTheWay(r), Failing(r)' \subseteq Failing(r),
             UNCHANGED <<announced, jobs, dlq>>
      PROVE  /\ announced'[<<r, "completed">>] + Cardinality(OnTheWay(r)') <= jobs'[<<r, "completed">>]
             /\ announced'[<<r, "failed">>] + Cardinality(Failing(r)') <= dlq'[r]
  <2>1. OnTheWay(r) \in SUBSET Slot /\ Failing(r) \in SUBSET Slot
    BY DEF OnTheWay, Failing
  <2>2. IsFiniteSet(OnTheWay(r)) /\ IsFiniteSet(Failing(r))
    BY <2>1, SlotsFinite
  <2>3. /\ announced[<<r, "completed">>] + Cardinality(OnTheWay(r)) <= jobs[<<r, "completed">>]
        /\ announced[<<r, "failed">>] + Cardinality(Failing(r)) <= dlq[r]
    BY DEF Backed
  <2>4. <<r, "completed">> \in Request \X RowStatus /\ <<r, "failed">> \in Request \X RowStatus
    BY DEF RowStatus
  <2>5. /\ announced[<<r, "completed">>] \in Nat /\ announced[<<r, "failed">>] \in Nat
        /\ jobs[<<r, "completed">>] \in Nat /\ dlq[r] \in Nat
    BY <1>1, <2>4 DEF StoreType, RestType
  <2>6. announced[<<r, "completed">>] + Cardinality(OnTheWay(r)') <= jobs[<<r, "completed">>]
    BY <1>3, <2>2, <2>3, <2>5, NobodySetsOut
  <2>7. announced[<<r, "failed">>] + Cardinality(Failing(r)') <= dlq[r]
    BY <1>3, <2>2, <2>3, <2>5, NobodySetsOut
  <2>8. QED
    BY <1>3, <2>6, <2>7
<1>4. ASSUME NEW s \in Slot, Receive(s)
      PROVE  /\ OnTheWay(r)' \subseteq OnTheWay(r) /\ Failing(r)' \subseteq Failing(r)
             /\ UNCHANGED <<announced, jobs, dlq>>
  <2>1. /\ pc'[s] \in {"drop", "resolve", "analyze"}
        /\ \A t \in Slot \ {s} : pc'[t] = pc[t] /\ msg'[t] = msg[t]
    BY <1>1, <1>4 DEF Receive, SlotType
  <2>2. UNCHANGED <<announced, jobs, dlq>>
    BY <1>4 DEF Receive, resultVars
  <2>3. QED
    BY <2>1, <2>2 DEF OnTheWay, Failing
<1>5. ASSUME NEW p \in Process, Crash(p) \/ Disconnect(p)
      PROVE  /\ OnTheWay(r)' \subseteq OnTheWay(r) /\ Failing(r)' \subseteq Failing(r)
             /\ UNCHANGED <<announced, jobs, dlq>>
  <2>1. \A s \in Slot : pc'[s] = "idle" \/ (pc'[s] = pc[s] /\ msg'[s] = msg[s])
    BY <1>5 DEF Crash, Disconnect
  <2>2. UNCHANGED <<announced, jobs, dlq>>
    BY <1>5 DEF Crash, Disconnect, resultVars
  <2>3. QED
    BY <2>1, <2>2 DEF OnTheWay, Failing
<1>6. ASSUME UNCHANGED vars \/ \E q \in Request : Publish(q) \/ IngestDone(q)
      PROVE  /\ OnTheWay(r)' \subseteq OnTheWay(r) /\ Failing(r)' \subseteq Failing(r)
             /\ UNCHANGED <<announced, jobs, dlq>>
  BY <1>6 DEF vars, Publish, IngestDone, brokerVars, slotVars, resultVars, OnTheWay, Failing
<1>7. QED
  BY <1>2, <1>3, <1>4, <1>5, <1>6 DEF Next

LEMMA BackedEvents == IInv /\ Backed => EventsBacked
<1> SUFFICES ASSUME IInv, Backed, NEW r \in Request
             PROVE  /\ announced[r, "completed"] <= jobs[r, "completed"]
                    /\ announced[r, "failed"] <= dlq[r]
  BY DEF EventsBacked
<1>1. StoreType /\ RestType
  BY TypeParts DEF IInv
<1>2. OnTheWay(r) \in SUBSET Slot /\ Failing(r) \in SUBSET Slot
  BY DEF OnTheWay, Failing
<1>3. Cardinality(OnTheWay(r)) \in Nat /\ Cardinality(Failing(r)) \in Nat
  BY <1>2, SlotsFinite
<1>4. <<r, "completed">> \in Request \X RowStatus /\ <<r, "failed">> \in Request \X RowStatus
  BY DEF RowStatus
<1>5. /\ announced[<<r, "completed">>] \in Nat /\ announced[<<r, "failed">>] \in Nat
      /\ jobs[<<r, "completed">>] \in Nat /\ dlq[r] \in Nat
  BY <1>1, <1>4 DEF StoreType, RestType
<1>6. /\ announced[<<r, "completed">>] + Cardinality(OnTheWay(r)) <= jobs[<<r, "completed">>]
      /\ announced[<<r, "failed">>] + Cardinality(Failing(r)) <= dlq[r]
  BY DEF Backed
<1>7. announced[<<r, "completed">>] <= jobs[<<r, "completed">>]
  BY <1>3, <1>5, <1>6
<1>8. announced[<<r, "failed">>] <= dlq[r]
  BY <1>3, <1>5, <1>6
<1>9. QED
  BY <1>7, <1>8

-----------------------------------------------------------------------------
(***************************************************************************)
(* The analyses of one request.  Each may still be committed by somebody:  *)
(* the producer that has not published, a queued copy, a handler at work,  *)
(* and a handler of a lost channel, whose acknowledgement will raise and   *)
(* have it publish a copy of what it has analysed.  The four together with *)
(* the analyses there are never exceed one and what the faults account     *)
(* for: two for a delivery taken back (the copy, and the handler that goes *)
(* on), one for a call that raised.                                        *)
(***************************************************************************)

Copies(r) == {c \in Message \X Nat : c[1].req = r /\ 0 < c[2] /\ c[2] <= ready[c[1]]}

(* The handler of slot s may commit an analysis, or publish a copy. *)
InWork(s) == pc[s] \in {"resolve", "analyze", "commit", "rollback", "republish"}

(* Its acknowledgement is going to raise, or raises now. *)
Unpaid(s) == s \notin owned /\ pc[s] \in {"resolve", "analyze", "commit", "ack"}

Workers(r) == {s \in Slot : InWork(s) /\ msg[s].req = r}
Orphans(r) == {s \in Slot : Unpaid(s) /\ msg[s].req = r}
Unasked(r) == IF r \in asked THEN 0 ELSE 1
Debt == 2 * redelivered + workFaults + brokerFaults

Cost(r) ==
    jobs[<<r, "completed">>] + Unasked(r) + Cardinality(Copies(r))
      + Cardinality(Workers(r)) + Cardinality(Orphans(r))

Charged == \A r \in Request : IsFiniteSet(Copies(r)) /\ Cost(r) <= 1 + Debt

LEMMA CardSame ==
    ASSUME NEW W, NEW V, IsFiniteSet(W), V \subseteq W
    PROVE  /\ Cardinality(V) \in Nat /\ Cardinality(W) \in Nat /\ IsFiniteSet(V)
           /\ Cardinality(V) <= Cardinality(W)
  BY FS_Subset, FS_CardinalityType

LEMMA CardMore ==
    ASSUME NEW W, NEW V, NEW s, IsFiniteSet(W), V \subseteq W \cup {s}
    PROVE  /\ Cardinality(V) \in Nat /\ Cardinality(W) \in Nat /\ IsFiniteSet(V)
           /\ Cardinality(V) <= Cardinality(W) + 1
<1>1. /\ IsFiniteSet(W \cup {s}) /\ Cardinality(W) \in Nat
      /\ Cardinality(W \cup {s}) = IF s \in W THEN Cardinality(W) ELSE Cardinality(W) + 1
  BY FS_AddElement, FS_CardinalityType
<1>2. /\ Cardinality(V) <= Cardinality(W \cup {s}) /\ Cardinality(V) \in Nat /\ IsFiniteSet(V)
      /\ Cardinality(W \cup {s}) \in Nat
  BY <1>1, FS_Subset, FS_CardinalityType
<1>3. QED
  BY <1>1, <1>2

LEMMA CardLess ==
    ASSUME NEW W, NEW V, NEW s \in W, IsFiniteSet(W), V \subseteq W \ {s}
    PROVE  /\ Cardinality(V) \in Nat /\ Cardinality(W) \in Nat /\ IsFiniteSet(V)
           /\ Cardinality(V) + 1 <= Cardinality(W)
<1>1. IsFiniteSet(W \ {s}) /\ Cardinality(W \ {s}) = Cardinality(W) - 1 /\ Cardinality(W) \in Nat
  BY FS_RemoveElement, FS_CardinalityType
<1>2. Cardinality(V) <= Cardinality(W \ {s}) /\ Cardinality(V) \in Nat /\ IsFiniteSet(V)
  BY <1>1, FS_Subset, FS_CardinalityType
<1>3. QED
  BY <1>1, <1>2

(* The numbers of a cost are natural numbers. *)
LEMMA CostParts ==
    ASSUME TypeOK, NEW r \in Request, IsFiniteSet(Copies(r))
    PROVE  /\ jobs[<<r, "completed">>] \in Nat /\ Unasked(r) \in Nat
           /\ IsFiniteSet(Workers(r)) /\ IsFiniteSet(Orphans(r))
           /\ Cardinality(Copies(r)) \in Nat /\ Cardinality(Workers(r)) \in Nat
           /\ Cardinality(Orphans(r)) \in Nat
           /\ Cost(r) \in Nat
<1>1. <<r, "completed">> \in Request \X RowStatus
  BY DEF RowStatus
<1>2. jobs[<<r, "completed">>] \in Nat
  BY <1>1 DEF TypeOK
<1>3. Unasked(r) \in Nat
  BY DEF Unasked
<1>4. Workers(r) \in SUBSET Slot /\ Orphans(r) \in SUBSET Slot
  BY DEF Workers, Orphans
<1>5. /\ IsFiniteSet(Workers(r)) /\ IsFiniteSet(Orphans(r))
      /\ Cardinality(Workers(r)) \in Nat /\ Cardinality(Orphans(r)) \in Nat
  BY <1>4, SlotsFinite
<1>6. Cardinality(Copies(r)) \in Nat
  BY FS_CardinalityType
<1>7. QED
  BY <1>2, <1>3, <1>5, <1>6 DEF Cost

LEMMA DebtNat ==
    ASSUME NEW a \in Nat, NEW b \in Nat, NEW c \in Nat
    PROVE  2 * a + b + c \in Nat
  OBVIOUS

LEMMA DebtType ==
    ASSUME RestType
    PROVE  Debt \in Nat
  BY DEF RestType, Debt

-----------------------------------------------------------------------------
(* The queued copies *)

LEMMA CopyAdded ==
    ASSUME StoreType, NEW m \in Message, ready' = [ready EXCEPT ![m] = @ + 1], NEW r \in Request
    PROVE  /\ m.req = r => Copies(r)' \subseteq Copies(r) \cup {<<m, ready[m] + 1>>}
           /\ m.req # r => Copies(r)' \subseteq Copies(r)
<1>1. ready \in [Message -> Nat]
  BY DEF StoreType
<1>2. ready'[m] = ready[m] + 1 /\ \A n \in Message \ {m} : ready'[n] = ready[n]
  BY <1>1
<1>3. ASSUME NEW n \in Message, NEW k \in Nat, n.req = r, 0 < k, k <= ready'[n]
      PROVE  <<n, k>> \in Copies(r) \/ (n = m /\ k = ready[m] + 1)
  <2>1. CASE n = m /\ k # ready[m] + 1
    <3>1. ready[m] \in Nat /\ k <= ready[m] + 1
      BY <1>1, <1>2, <1>3, <2>1
    <3>2. k <= ready[n]
      BY <2>1, <3>1
    <3>3. QED
      BY <1>3, <3>2 DEF Copies
  <2>2. CASE n # m
    BY <1>2, <1>3, <2>2 DEF Copies
  <2>3. QED
    BY <2>1, <2>2
<1>4. \A c \in Copies(r)' : c \in Copies(r) \/ (c = <<m, ready[m] + 1>> /\ m.req = r)
  <2> SUFFICES ASSUME NEW c \in Copies(r)' PROVE c \in Copies(r) \/ (c = <<m, ready[m] + 1>> /\ m.req = r)
    OBVIOUS
  <2>1. PICK n \in Message, k \in Nat : c = <<n, k>>
    BY DEF Copies
  <2>2. n.req = r /\ 0 < k /\ k <= ready'[n]
    BY <2>1 DEF Copies
  <2>3. QED
    BY <1>3, <2>1, <2>2
<1>5. QED
  BY <1>4

LEMMA CopyTaken ==
    ASSUME StoreType, NEW m \in Message, ready[m] > 0, ready' = [ready EXCEPT ![m] = @ - 1], NEW r \in Request
    PROVE  /\ m.req = r => <<m, ready[m]>> \in Copies(r) /\ Copies(r)' \subseteq Copies(r) \ {<<m, ready[m]>>}
           /\ Copies(r)' \subseteq Copies(r)
<1>1. ready \in [Message -> Nat] /\ ready[m] \in Nat /\ ready[m] > 0
  BY DEF StoreType
<1>2. ready'[m] = ready[m] - 1 /\ \A n \in Message \ {m} : ready'[n] = ready[n]
  BY <1>1
<1>3. \A c \in Copies(r)' : c \in Copies(r) /\ c # <<m, ready[m]>>
  <2> SUFFICES ASSUME NEW c \in Copies(r)' PROVE c \in Copies(r) /\ c # <<m, ready[m]>>
    OBVIOUS
  <2>1. PICK n \in Message, k \in Nat : c = <<n, k>>
    BY DEF Copies
  <2>2. n.req = r /\ 0 < k /\ k <= ready'[n]
    BY <2>1 DEF Copies
  <2>3. k <= ready[n] /\ (n = m => k # ready[m])
    BY <1>1, <1>2, <2>2
  <2>4. QED
    BY <2>1, <2>2, <2>3 DEF Copies
<1>4. m.req = r => <<m, ready[m]>> \in Copies(r)
  BY <1>1 DEF Copies
<1>5. QED
  BY <1>3, <1>4

LEMMA Bijects ==
    ASSUME NEW S, NEW T, NEW f \in Bijection(S, T)
    PROVE  /\ \A x \in S : f[x] \in T
           /\ \A x, y \in S : f[x] = f[y] => x = y
  BY DEF Bijection, Injection, IsInjective

(* The copies the broker makes of what it takes back are as many as the deliveries. *)
Returned(p, r) == {s \in owned : s[1] = p /\ msg[s].req = r}

LEMMA CopiesReturned ==
    ASSUME SlotType, StoreType, NEW p \in Process, Redeliver(p), NEW r \in Request, IsFiniteSet(Copies(r))
    PROVE  /\ IsFiniteSet(Copies(r)')
           /\ Cardinality(Copies(r)') <= Cardinality(Copies(r)) + Cardinality(Returned(p, r))
<1> DEFINE of(m) == {s \in owned : s[1] = p /\ msg[s] = m}
<1> DEFINE new == Copies(r)' \ Copies(r)
<1>1. ready \in [Message -> Nat]
  BY DEF StoreType
<1>2. ASSUME NEW m \in Message
      PROVE  /\ ready'[m] = ready[m] + Cardinality(of(m))
             /\ Cardinality(of(m)) \in Nat
             /\ Bijection(1 .. Cardinality(of(m)), of(m)) # {}
  <2>1. {s \in {s \in owned : s[1] = p} : msg[s] = m} = of(m)
    OBVIOUS
  <2>2. ready'[m] = ready[m] + Cardinality(of(m))
    BY <2>1 DEF Redeliver
  <2>3. of(m) \in SUBSET Slot
    BY DEF SlotType
  <2>4. IsFiniteSet(of(m)) /\ Cardinality(of(m)) \in Nat
    BY <2>3, SlotsFinite
  <2>5. ExistsBijection(1 .. Cardinality(of(m)), of(m))
    BY <2>4, FS_CardinalityType
  <2>6. QED
    BY <2>2, <2>4, <2>5 DEF ExistsBijection
<1> DEFINE slot(m) == CHOOSE f \in Bijection(1 .. Cardinality(of(m)), of(m)) : TRUE
<1>3. ASSUME NEW m \in Message
      PROVE  /\ \A i \in 1 .. Cardinality(of(m)) : slot(m)[i] \in of(m)
             /\ \A i, j \in 1 .. Cardinality(of(m)) : slot(m)[i] = slot(m)[j] => i = j
  <2>1. slot(m) \in Bijection(1 .. Cardinality(of(m)), of(m))
    BY <1>2
  <2> HIDE DEF of, slot
  <2>2. QED
    BY <2>1, Bijects
<1> HIDE DEF slot
<1>4. ASSUME NEW c \in new
      PROVE  /\ c[1] \in Message /\ c[1].req = r /\ c[2] \in Nat /\ c = <<c[1], c[2]>>
             /\ ready[c[1]] \in Nat /\ c[2] - ready[c[1]] \in 1 .. Cardinality(of(c[1]))
  <2>1. PICK m \in Message, k \in Nat : c = <<m, k>>
    BY DEF Copies
  <2>2. m.req = r /\ 0 < k /\ k <= ready'[m] /\ ~(k <= ready[m])
    BY <2>1 DEF Copies
  <2>3. ready[m] \in Nat /\ Cardinality(of(m)) \in Nat /\ ready'[m] = ready[m] + Cardinality(of(m))
    BY <1>1, <1>2
  <2> HIDE DEF of
  <2>4. k - ready[m] \in 1 .. Cardinality(of(m))
    BY <2>2, <2>3
  <2>5. QED
    BY <2>1, <2>2, <2>3, <2>4
<1> DEFINE f == [c \in new |-> slot(c[1])[c[2] - ready[c[1]]]]
<1>5. f \in Injection(new, Returned(p, r))
  <2>1. ASSUME NEW c \in new PROVE f[c] \in of(c[1]) /\ f[c] \in Returned(p, r)
    <3>1. f[c] \in of(c[1])
      BY <1>3, <1>4
    <3>2. QED
      BY <3>1, <1>4 DEF Returned
  <2>2. ASSUME NEW c \in new, NEW d \in new, f[c] = f[d] PROVE c = d
    <3>1. c[1] = d[1]
      <4>1. msg[f[c]] = c[1] /\ msg[f[d]] = d[1]
        BY <2>1
      <4>2. QED
        BY <4>1, <2>2
    <3>2. c[2] - ready[c[1]] = d[2] - ready[c[1]]
      <4>1. /\ c[2] - ready[c[1]] \in 1 .. Cardinality(of(c[1]))
            /\ d[2] - ready[c[1]] \in 1 .. Cardinality(of(c[1]))
            /\ c[1] \in Message
        BY <1>4, <3>1
      <4>2. slot(c[1])[c[2] - ready[c[1]]] = slot(c[1])[d[2] - ready[c[1]]]
        BY <2>2, <3>1
      <4> HIDE DEF of, f
      <4>3. QED
        BY <1>3, <4>1, <4>2
    <3>3. c[2] = d[2]
      <4>1. c[2] \in Nat /\ d[2] \in Nat /\ ready[c[1]] \in Nat
        BY <1>4
      <4>2. QED
        BY <3>2, <4>1
    <3>4. QED
      BY <1>4, <3>1, <3>3
  <2>3. f \in [new -> Returned(p, r)]
    BY <2>1
  <2> HIDE DEF f, new
  <2>4. QED
    BY <2>2, <2>3, Fun_IsInj
<1> HIDE DEF f, new
<1>6. Returned(p, r) \in SUBSET Slot
  BY DEF Returned, SlotType
<1>7. IsFiniteSet(Returned(p, r)) /\ Cardinality(Returned(p, r)) \in Nat
  BY <1>6, SlotsFinite
<1>8. IsFiniteSet(new) /\ Cardinality(new) <= Cardinality(Returned(p, r))
  BY <1>5, <1>7, FS_Injection
<1>9. /\ IsFiniteSet(Copies(r) \cup new)
      /\ Cardinality(Copies(r) \cup new) = Cardinality(Copies(r)) + Cardinality(new) - Cardinality(Copies(r) \cap new)
  BY <1>8, FS_Union
<1>10. /\ Cardinality(Copies(r)) \in Nat /\ Cardinality(new) \in Nat /\ Cardinality(Copies(r) \cup new) \in Nat
       /\ Cardinality(Copies(r) \cap new) \in Nat
  BY <1>8, <1>9, FS_CardinalityType, FS_Intersection
<1>11. Cardinality(Copies(r) \cup new) <= Cardinality(Copies(r)) + Cardinality(Returned(p, r))
  BY <1>7, <1>8, <1>9, <1>10
<1>12. Copies(r)' \subseteq Copies(r) \cup new
  BY DEF new
<1>13. /\ IsFiniteSet(Copies(r)') /\ Cardinality(Copies(r)') \in Nat
       /\ Cardinality(Copies(r)') <= Cardinality(Copies(r) \cup new)
  BY <1>9, <1>12, CardSame
<1>14. QED
  BY <1>7, <1>10, <1>11, <1>13

-----------------------------------------------------------------------------
(* What a step of a handler does to the account of its request. *)

SameStore == jobs' = jobs /\ ready' = ready
Adds(s) == jobs' = [jobs EXCEPT ![<<msg[s].req, "completed">>] = @ + 1] /\ ready' = ready
Copying(s) ==
    /\ jobs' = jobs
    /\ \E m \in Message : m.req = msg[s].req /\ ready' = [ready EXCEPT ![m] = @ + 1]

NoMore(s) == (InWork(s)' => InWork(s)) /\ (Unpaid(s)' => Unpaid(s))

Pays(s) ==
    \/ SameStore /\ NoMore(s)
    \/ SameStore /\ Unpaid(s) /\ ~Unpaid(s)'
    \/ SameStore /\ ~Unpaid(s)' /\ Debt' >= Debt + 1
    \/ Adds(s) /\ NoMore(s) /\ InWork(s) /\ ~InWork(s)'
    \/ Adds(s) /\ NoMore(s) /\ Debt' >= Debt + 1
    \/ Copying(s) /\ NoMore(s) /\ InWork(s) /\ ~InWork(s)'

LEMMA DebtGrows ==
    ASSUME IInv, NEW s \in Slot, Handle(s) \/ Raise(s)
    PROVE  /\ redelivered' = redelivered
           /\ Debt' >= Debt
           /\ ChargeFault(s) => Debt' >= Debt + 1
<1>1. RestType
  BY TypeParts DEF IInv
<1>2. redelivered' = redelivered
  BY DEF Handle, Raise, Resolve, Analyze, Commit, Rollback, Ack, Republish, AckCopy, Announce, AnnounceFailed,
         Drop, Reject, DeadLetter, endVars
<1>3. UNCHANGED faultVars \/ ChargeFault(s)
  BY DEF Handle, Raise, Resolve, Analyze, Commit, Rollback, Ack, Republish, AckCopy,
         Drop, Reject, DeadLetter, Announce, AnnounceFailed, Proceed
<1>4. /\ workFaults' \in {workFaults, workFaults + 1} /\ brokerFaults' \in {brokerFaults, brokerFaults + 1}
      /\ ChargeFault(s) => workFaults' + brokerFaults' = workFaults + brokerFaults + 1
  BY <1>1, <1>3 DEF RestType, ChargeFault, faultVars
<1>5. redelivered \in Nat /\ workFaults \in Nat /\ brokerFaults \in Nat
  BY <1>1 DEF RestType
<1>6. Debt' = 2 * redelivered + workFaults' + brokerFaults'
  BY <1>2 DEF Debt
<1>7. Debt' >= Debt
  BY <1>4, <1>5, <1>6 DEF Debt
<1>8. ChargeFault(s) => Debt' >= Debt + 1
  BY <1>4, <1>5, <1>6 DEF Debt
<1>9. QED
  BY <1>2, <1>7, <1>8

LEMMA HandlerPays ==
    ASSUME IInv, NEW s \in Slot, Handle(s) \/ Raise(s)
    PROVE  Pays(s)
<1>1. SlotType /\ StoreType /\ Order
  BY TypeParts DEF IInv
<1>2. owned' \subseteq owned
  BY HandlerFrame
<1> USE DEF Pays, SameStore, NoMore, InWork, Unpaid
<1>3. CASE Resolve(s)
  <2>1. pc'[s] \in {"idle", "analyze", "drop", "republish"} /\ pc[s] = "resolve"
    BY <1>1, <1>3, GoesTo, Retries DEF Resolve
  <2>2. UNCHANGED <<jobs, ready, owned>>
    BY <1>3 DEF Resolve, brokerVars, resultVars
  <2>3. QED
    BY <2>1, <2>2
<1>4. CASE Analyze(s) \/ Rollback(s)
  <2>1. /\ pc[s] = "analyze" => pc'[s] \in {"idle", "commit", "rollback"}
        /\ pc[s] # "analyze" => pc[s] = "rollback" /\ pc'[s] \in {"idle", "reject", "republish"}
    BY <1>1, <1>4, GoesTo, Retries DEF Analyze, Rollback
  <2>2. UNCHANGED <<jobs, ready, owned>>
    BY <1>4 DEF Analyze, Rollback, brokerVars, resultVars
  <2>3. QED
    BY <2>1, <2>2
<1>5. CASE Commit(s)
  <2>1. pc[s] = "commit" /\ Adds(s) /\ owned' = owned
    BY <1>1, <1>5 DEF Commit, Order, brokerVars, Adds
  <2>2. \/ pc'[s] \in {"idle", "ack"}
        \/ pc'[s] \in {"idle", "rollback"} /\ ChargeFault(s)
    BY <1>1, <1>5, <2>1, GoesTo, Caught DEF Commit, Proceed
  <2>3. QED
    BY <2>1, <2>2, DebtGrows
<1>6. CASE Ack(s)
  <2>1. pc[s] = "ack" /\ s \notin owned'
    BY <1>6 DEF Ack, Settle
  <2>2. UNCHANGED <<jobs, ready>>
    BY <1>6 DEF Ack, resultVars
  <2>3. \/ pc'[s] \in {"idle", "announce"}
        \/ pc'[s] \in {"idle", "reject", "republish"} /\ ChargeFault(s)
    BY <1>1, <1>6, <2>1, GoesTo, Caught, Retries DEF Ack, Proceed
  <2>4. QED
    BY <2>1, <2>2, <2>3, DebtGrows
<1>7. CASE AckCopy(s) \/ Drop(s) \/ Reject(s) \/ Announce(s) \/ AnnounceFailed(s)
  <2>1. pc'[s] \in {"idle", "stuck", "announceFailed"}
    BY <1>1, <1>7, GoesTo, Caught DEF AckCopy, Drop, Reject, Announce, AnnounceFailed, Proceed
  <2>2. UNCHANGED <<jobs, ready>>
    BY <1>7 DEF AckCopy, Drop, Reject, DeadLetter, Announce, AnnounceFailed, resultVars, brokerVars
  <2>3. QED
    BY <2>1, <2>2
<1>8. CASE Republish(s)
  <2>1. pc[s] = "republish" /\ msg[s] \in Message /\ msg[s].retry < MaxRetries
    BY <1>1, <1>8 DEF Republish, Order, SlotType, CanRetry
  <2> DEFINE copy == [msg[s] EXCEPT !.retry = @ + 1]
  <2>2. copy \in Message /\ copy.req = msg[s].req
    BY <2>1 DEF Message
  <2>3. ready' = [ready EXCEPT ![copy] = @ + 1] /\ jobs' = jobs
    BY <1>8 DEF Republish, resultVars
  <2> HIDE DEF copy
  <2>4. Copying(s)
    BY <2>2, <2>3 DEF Copying
  <2>5. pc'[s] \in {"idle", "ackCopy", "stuck"}
    BY <1>1, <1>8, <2>1, GoesTo, Caught DEF Republish, Proceed
  <2>6. QED
    BY <2>1, <2>4, <2>5
<1>9. CASE Raise(s)
  <2>1. /\ pc[s] \in {"resolve", "commit", "ack", "ackCopy", "reject", "drop", "republish",
                      "announce", "announceFailed"}
        /\ UNCHANGED <<jobs, ready, owned>>
        /\ GoTo(s, Catch(s))
    BY <1>9 DEF Raise, SettleSteps, PublishSteps, WorkSteps, brokerVars, resultVars
  <2>2. pc'[s] \in {"idle", Catch(s)}
    BY <1>1, <2>1, GoesTo
  <2>3. CASE pc[s] = "ack"
    <3>1. pc'[s] \in {"idle", "reject", "republish"}
      BY <2>2, <2>3, Caught, Retries
    <3>2. s \in owned => ChargeFault(s)
      BY <1>9, <2>3 DEF Raise, SettleSteps
    <3>3. QED
      BY <2>1, <2>3, <3>1, <3>2, DebtGrows
  <2>4. CASE pc[s] \in {"resolve", "commit"}
    <3>1. pc'[s] \in {"idle", "rollback", "drop", "republish"}
      BY <2>2, <2>4, Caught, Retries
    <3>2. QED
      BY <2>1, <2>4, <3>1
  <2>5. CASE pc[s] \notin {"ack", "resolve", "commit"}
    <3>1. pc'[s] \in {"idle", "stuck"}
      BY <2>1, <2>2, <2>5, Caught
    <3>2. QED
      BY <2>1, <3>1
  <2>6. QED
    BY <2>3, <2>4, <2>5
<1>10. QED
  BY <1>3, <1>4, <1>5, <1>6, <1>7, <1>8, <1>9 DEF Handle

(* A step of a handler, as the account of any request sees it. *)
LEMMA ChargedHandler ==
    ASSUME IInv, TypeOK', Charged, NEW s \in Slot, Handle(s) \/ Raise(s), NEW r \in Request
    PROVE  IsFiniteSet(Copies(r)') /\ Cost(r)' <= 1 + Debt'
<1>1. TypeOK /\ SlotType /\ StoreType /\ RestType /\ Debt \in Nat /\ Debt' \in Nat
  <2>1. TypeOK /\ SlotType /\ StoreType /\ RestType
    BY TypeParts DEF IInv
  <2>2. redelivered' \in Nat /\ workFaults' \in Nat /\ brokerFaults' \in Nat
    BY DEF TypeOK
  <2>3. Debt' = 2 * redelivered' + workFaults' + brokerFaults'
    BY DEF Debt
  <2>4. QED
    BY <2>1, <2>2, <2>3, DebtType, DebtNat
<1>2. Pays(s) /\ Debt' >= Debt /\ pc[s] # "idle"
  BY HandlerPays, DebtGrows, HandlerMoves
<1>3. /\ \A t \in Slot \ {s} : pc'[t] = pc[t] /\ msg'[t] = msg[t] /\ (t \in owned' <=> t \in owned)
      /\ pc'[s] = "idle" \/ msg'[s] = msg[s]
      /\ asked' = asked
  <2>1. PICK step \in Steps : Move(s, step)
    BY HandlerMoves DEF IsMove
  <2>2. QED
    BY <2>1, HandlerFrame DEF Move
<1>4. msg[s] \in Message /\ msg[s].req \in Request
  BY <1>1, <1>2 DEF SlotType, Message
<1>5. IsFiniteSet(Copies(r)) /\ Cost(r) <= 1 + Debt
  BY DEF Charged
<1>6. /\ Workers(r)' \subseteq Workers(r) \cup {s} /\ Orphans(r)' \subseteq Orphans(r) \cup {s}
      /\ s \in Workers(r)' => InWork(s)' /\ msg[s].req = r
      /\ s \in Orphans(r)' => Unpaid(s)' /\ msg[s].req = r
  BY <1>3 DEF Workers, Orphans, InWork, Unpaid
<1>7. s \in Workers(r) <=> InWork(s) /\ msg[s].req = r
  BY DEF Workers
<1>8. s \in Orphans(r) <=> Unpaid(s) /\ msg[s].req = r
  BY DEF Orphans
<1> DEFINE j == jobs[<<r, "completed">>]  u == Unasked(r)
           c == Cardinality(Copies(r))  w == Cardinality(Workers(r))  o == Cardinality(Orphans(r))
<1>9. /\ j \in Nat /\ u \in Nat /\ c \in Nat /\ w \in Nat /\ o \in Nat
      /\ IsFiniteSet(Workers(r)) /\ IsFiniteSet(Orphans(r))
      /\ j + u + c + w + o <= 1 + Debt
  BY <1>1, <1>5, CostParts DEF Cost
<1>10. Unasked(r)' = u
  BY <1>3 DEF Unasked
<1>11. Cost(r)' = jobs'[<<r, "completed">>] + u + Cardinality(Copies(r)') + Cardinality(Workers(r)')
                    + Cardinality(Orphans(r)')
  BY <1>10 DEF Cost
(* What is to be shown of the four numbers that may change. *)
<1> DEFINE Fits ==
      \E j2, c2, w2, o2 \in Nat :
        /\ jobs'[<<r, "completed">>] = j2 /\ IsFiniteSet(Copies(r)') /\ Cardinality(Copies(r)') = c2
        /\ Cardinality(Workers(r)') = w2 /\ Cardinality(Orphans(r)') = o2
        /\ \/ j2 + c2 + w2 + o2 <= j + c + w + o
           \/ j2 + c2 + w2 + o2 <= j + c + w + o + 1 /\ Debt' >= Debt + 1
<1>12. ASSUME Fits PROVE IsFiniteSet(Copies(r)') /\ Cost(r)' <= 1 + Debt'
  <2>1. PICK j2, c2, w2, o2 \in Nat :
          /\ jobs'[<<r, "completed">>] = j2 /\ IsFiniteSet(Copies(r)') /\ Cardinality(Copies(r)') = c2
          /\ Cardinality(Workers(r)') = w2 /\ Cardinality(Orphans(r)') = o2
          /\ \/ j2 + c2 + w2 + o2 <= j + c + w + o
             \/ j2 + c2 + w2 + o2 <= j + c + w + o + 1 /\ Debt' >= Debt + 1
    BY <1>12
  <2>2. Cost(r)' = j2 + u + c2 + w2 + o2
    BY <1>11, <2>1
  <2> HIDE DEF j, u, c, w, o
  <2>3. j2 + u + c2 + w2 + o2 <= 1 + Debt'
    <3>1. PICK debt \in Nat, debt2 \in Nat : debt = Debt /\ debt2 = Debt'
      BY <1>1
    <3>2. j2 + u + c2 + w2 + o2 <= 1 + debt2
      <4>1. j + u + c + w + o <= 1 + debt /\ debt2 >= debt
        BY <1>2, <1>9, <3>1
      <4>2. \/ j2 + c2 + w2 + o2 <= j + c + w + o
            \/ j2 + c2 + w2 + o2 <= j + c + w + o + 1 /\ debt2 >= debt + 1
        BY <2>1, <3>1
      <4>3. QED
        BY <1>9, <4>1, <4>2
    <3>3. QED
      BY <3>1, <3>2
  <2>4. QED
    BY <2>1, <2>2, <2>3
<1>13. <<r, "completed">> \in Request \X RowStatus /\ jobs \in [Request \X RowStatus -> Nat]
  BY <1>1 DEF StoreType, RowStatus
<1>14. (NoMore(s) \/ msg[s].req # r) => Workers(r)' \subseteq Workers(r) /\ Orphans(r)' \subseteq Orphans(r)
  BY <1>6, <1>7, <1>8 DEF NoMore
<1>15. ready' = ready => Copies(r)' = Copies(r)
  BY DEF Copies
<1>16. CASE msg[s].req # r
  <2>1. jobs'[<<r, "completed">>] = j
    BY <1>2, <1>4, <1>13, <1>16 DEF Pays, SameStore, Adds, Copying
  <2>2. Copies(r)' \subseteq Copies(r)
    BY <1>1, <1>2, <1>15, <1>16, CopyAdded DEF Pays, SameStore, Adds, Copying
  <2>3. /\ Cardinality(Workers(r)') \in Nat /\ Cardinality(Workers(r)') <= w
        /\ Cardinality(Orphans(r)') \in Nat /\ Cardinality(Orphans(r)') <= o
        /\ IsFiniteSet(Copies(r)') /\ Cardinality(Copies(r)') \in Nat /\ Cardinality(Copies(r)') <= c
    BY <1>5, <1>9, <1>14, <1>16, <2>2, CardSame
  <2>4. Fits
    BY <1>9, <2>1, <2>3
  <2>5. QED
    BY <1>12, <2>4
<1>17. CASE /\ msg[s].req = r /\ SameStore
            /\ NoMore(s) \/ (Unpaid(s) /\ ~Unpaid(s)') \/ (~Unpaid(s)' /\ Debt' >= Debt + 1)
  <2>1. jobs'[<<r, "completed">>] = j /\ Cardinality(Copies(r)') = c /\ IsFiniteSet(Copies(r)')
    BY <1>5, <1>15, <1>17 DEF SameStore
  <2>2. CASE NoMore(s)
    <3>1. /\ Cardinality(Workers(r)') \in Nat /\ Cardinality(Workers(r)') <= w
          /\ Cardinality(Orphans(r)') \in Nat /\ Cardinality(Orphans(r)') <= o
      BY <1>9, <1>14, <2>2, CardSame
    <3>2. Fits
      BY <1>9, <2>1, <3>1
    <3>3. QED
      BY <1>12, <3>2
  <2>3. CASE Unpaid(s) /\ ~Unpaid(s)'
    <3>1. s \in Orphans(r) /\ Orphans(r)' \subseteq Orphans(r) \ {s}
      BY <1>6, <1>8, <1>17, <2>3
    <3>2. /\ Cardinality(Workers(r)') \in Nat /\ Cardinality(Workers(r)') <= w + 1
          /\ Cardinality(Orphans(r)') \in Nat /\ Cardinality(Orphans(r)') + 1 <= o
      BY <1>6, <1>9, <3>1, CardMore, CardLess
    <3>3. Fits
      BY <1>9, <2>1, <3>2, SMTT(30)
    <3>4. QED
      BY <1>12, <3>3
  <2>4. CASE ~Unpaid(s)' /\ Debt' >= Debt + 1
    <3>1. Orphans(r)' \subseteq Orphans(r)
      BY <1>6, <2>4
    <3>2. /\ Cardinality(Workers(r)') \in Nat /\ Cardinality(Workers(r)') <= w + 1
          /\ Cardinality(Orphans(r)') \in Nat /\ Cardinality(Orphans(r)') <= o
      BY <1>6, <1>9, <3>1, CardMore, CardSame
    <3>3. Fits
      BY <1>9, <2>1, <2>4, <3>2
    <3>4. QED
      BY <1>12, <3>3
  <2>5. QED
    BY <1>17, <2>2, <2>3, <2>4
<1>18. CASE msg[s].req = r /\ Adds(s) /\ NoMore(s) /\ ((InWork(s) /\ ~InWork(s)') \/ Debt' >= Debt + 1)
  <2>1. jobs'[<<r, "completed">>] = j + 1 /\ Cardinality(Copies(r)') = c /\ IsFiniteSet(Copies(r)')
    BY <1>5, <1>13, <1>15, <1>18 DEF Adds
  <2>2. /\ Cardinality(Workers(r)') \in Nat /\ Cardinality(Workers(r)') <= w
        /\ Cardinality(Orphans(r)') \in Nat /\ Cardinality(Orphans(r)') <= o
    BY <1>9, <1>14, <1>18, CardSame
  <2>3. CASE InWork(s) /\ ~InWork(s)'
    <3>1. s \in Workers(r) /\ Workers(r)' \subseteq Workers(r) \ {s}
      BY <1>6, <1>7, <1>18, <2>3
    <3>2. Cardinality(Workers(r)') + 1 <= w
      BY <1>9, <3>1, CardLess
    <3>3. Fits
      BY <1>9, <2>1, <2>2, <3>2, SMTT(30)
    <3>4. QED
      BY <1>12, <3>3
  <2>4. CASE Debt' >= Debt + 1
    <3>1. Fits
      BY <1>9, <2>1, <2>2, <2>4
    <3>2. QED
      BY <1>12, <3>1
  <2>5. QED
    BY <1>18, <2>3, <2>4
<1>19. CASE msg[s].req = r /\ Copying(s) /\ NoMore(s) /\ InWork(s) /\ ~InWork(s)'
  <2>1. jobs'[<<r, "completed">>] = j
    BY <1>19 DEF Copying
  <2>2. PICK m \in Message : m.req = r /\ ready' = [ready EXCEPT ![m] = @ + 1]
    BY <1>19 DEF Copying
  <2>3. Copies(r)' \subseteq Copies(r) \cup {<<m, ready[m] + 1>>}
    BY <1>1, <2>2, CopyAdded
  <2>4. IsFiniteSet(Copies(r)') /\ Cardinality(Copies(r)') \in Nat /\ Cardinality(Copies(r)') <= c + 1
    BY <1>5, <2>3, CardMore
  <2>5. s \in Workers(r) /\ Workers(r)' \subseteq Workers(r) \ {s}
    BY <1>6, <1>7, <1>19
  <2>6. /\ Cardinality(Workers(r)') \in Nat /\ Cardinality(Workers(r)') + 1 <= w
        /\ Cardinality(Orphans(r)') \in Nat /\ Cardinality(Orphans(r)') <= o
    BY <1>9, <1>14, <1>19, <2>5, CardSame, CardLess
  <2>7. Fits
    BY <1>9, <2>1, <2>4, <2>6
  <2>8. QED
    BY <1>12, <2>7
<1>20. QED
  BY <1>2, <1>16, <1>17, <1>18, <1>19 DEF Pays

-----------------------------------------------------------------------------
(* What the producer, the broker and the ends of processes do to the account of a request. *)

LEMMA ChargedSame ==
    ASSUME IInv, Charged, NEW r \in Request, jobs' = jobs, Debt' = Debt, Unasked(r)' = Unasked(r),
           Copies(r)' \subseteq Copies(r), Workers(r)' \subseteq Workers(r), Orphans(r)' \subseteq Orphans(r)
    PROVE  IsFiniteSet(Copies(r)') /\ Cost(r)' <= 1 + Debt'
<1>1. TypeOK /\ RestType /\ IsFiniteSet(Copies(r)) /\ Cost(r) <= 1 + Debt
  BY TypeParts DEF IInv, Charged
<1>2. /\ jobs[<<r, "completed">>] \in Nat /\ Unasked(r) \in Nat /\ Debt \in Nat
      /\ IsFiniteSet(Workers(r)) /\ IsFiniteSet(Orphans(r))
  BY <1>1, CostParts, DebtType
<1>3. /\ IsFiniteSet(Copies(r)')
      /\ Cardinality(Copies(r)') \in Nat /\ Cardinality(Copies(r)') <= Cardinality(Copies(r))
      /\ Cardinality(Workers(r)') \in Nat /\ Cardinality(Workers(r)') <= Cardinality(Workers(r))
      /\ Cardinality(Orphans(r)') \in Nat /\ Cardinality(Orphans(r)') <= Cardinality(Orphans(r))
      /\ Cardinality(Copies(r)) \in Nat /\ Cardinality(Workers(r)) \in Nat /\ Cardinality(Orphans(r)) \in Nat
  BY <1>1, <1>2, CardSame
<1>4. Cost(r)' = jobs[<<r, "completed">>] + Unasked(r) + Cardinality(Copies(r)') + Cardinality(Workers(r)')
                   + Cardinality(Orphans(r)')
  BY DEF Cost
<1>5. Cost(r)' <= Cost(r)
  BY <1>2, <1>3, <1>4 DEF Cost
<1>6. Cost(r)' \in Nat /\ Cost(r) \in Nat
  BY <1>2, <1>3, <1>4 DEF Cost
<1>7. QED
  BY <1>1, <1>2, <1>3, <1>5, <1>6

(* The producer's copy takes the place of the request that was not published. *)
LEMMA ChargedPublish ==
    ASSUME IInv, Charged, NEW q \in Request, Publish(q), NEW r \in Request
    PROVE  IsFiniteSet(Copies(r)') /\ Cost(r)' <= 1 + Debt'
<1>1. TypeOK /\ StoreType /\ RestType /\ IsFiniteSet(Copies(r)) /\ Cost(r) <= 1 + Debt
  BY TypeParts DEF IInv, Charged
<1>2. UNCHANGED <<jobs, pc, msg, owned, redelivered, workFaults, brokerFaults>>
  BY DEF Publish, slotVars, resultVars, endVars, faultVars
<1>3. Workers(r)' = Workers(r) /\ Orphans(r)' = Orphans(r) /\ Debt' = Debt
  BY <1>2 DEF Workers, Orphans, InWork, Unpaid, Debt
<1> DEFINE new == [req |-> q, retry |-> 0]
<1>4. new \in Message /\ new.req = q /\ ready' = [ready EXCEPT ![new] = @ + 1]
  BY DEF Publish, Message
<1> HIDE DEF new
<1>5. asked' = asked \cup {q} /\ q \notin asked
  BY DEF Publish
<1>6. CASE q # r
  <2>1. Copies(r)' \subseteq Copies(r)
    BY <1>1, <1>4, <1>6, CopyAdded
  <2>2. Unasked(r)' = Unasked(r)
    BY <1>5, <1>6 DEF Unasked
  <2>3. QED
    BY <1>2, <1>3, <2>1, <2>2, ChargedSame
<1>7. CASE q = r
  <2>1. Copies(r)' \subseteq Copies(r) \cup {<<new, ready[new] + 1>>}
    BY <1>1, <1>4, <1>7, CopyAdded
  <2>2. /\ IsFiniteSet(Copies(r)') /\ Cardinality(Copies(r)') \in Nat /\ Cardinality(Copies(r)) \in Nat
        /\ Cardinality(Copies(r)') <= Cardinality(Copies(r)) + 1
    BY <1>1, <2>1, CardMore
  <2>3. Unasked(r) = 1 /\ Unasked(r)' = 0
    BY <1>5, <1>7 DEF Unasked
  <2>4. /\ jobs[<<r, "completed">>] \in Nat /\ Cardinality(Workers(r)) \in Nat
        /\ Cardinality(Orphans(r)) \in Nat /\ Debt \in Nat
    BY <1>1, CostParts, DebtType
  <2>5. Cost(r)' = jobs[<<r, "completed">>] + 0 + Cardinality(Copies(r)') + Cardinality(Workers(r))
                     + Cardinality(Orphans(r))
    BY <1>2, <1>3, <2>3 DEF Cost
  <2>6. Cost(r)' <= Cost(r) /\ Cost(r)' \in Nat /\ Cost(r) \in Nat
    BY <2>2, <2>3, <2>4, <2>5 DEF Cost
  <2>7. QED
    BY <1>1, <1>3, <2>2, <2>4, <2>6
<1>8. QED
  BY <1>6, <1>7

(* The handler takes the place of the copy it has received. *)
LEMMA ChargedReceive ==
    ASSUME IInv, Charged, NEW s \in Slot, Receive(s), NEW r \in Request
    PROVE  IsFiniteSet(Copies(r)') /\ Cost(r)' <= 1 + Debt'
<1>1. TypeOK /\ SlotType /\ StoreType /\ RestType /\ IsFiniteSet(Copies(r)) /\ Cost(r) <= 1 + Debt
  BY TypeParts DEF IInv, Charged
<1>2. PICK m \in Message :
         /\ ready[m] > 0
         /\ ready' = [ready EXCEPT ![m] = @ - 1]
         /\ msg' = [msg EXCEPT ![s] = m]
  BY DEF Receive
<1>3. /\ owned' = owned \cup {s}
      /\ UNCHANGED <<jobs, asked, redelivered, workFaults, brokerFaults>>
  BY DEF Receive, resultVars, endVars, faultVars
<1>4. msg'[s] = m /\ \A t \in Slot \ {s} : pc'[t] = pc[t] /\ msg'[t] = msg[t]
  BY <1>1, <1>2 DEF Receive, SlotType
<1>5. Orphans(r)' \subseteq Orphans(r)
  BY <1>3, <1>4 DEF Orphans, Unpaid
<1>6. Workers(r)' \subseteq Workers(r) \cup {s} /\ (m.req # r => Workers(r)' \subseteq Workers(r))
  BY <1>4 DEF Workers, InWork
<1>7. Debt' = Debt /\ Unasked(r)' = Unasked(r)
  BY <1>3 DEF Debt, Unasked
<1>8. Copies(r)' \subseteq Copies(r)
  BY <1>1, <1>2, CopyTaken
<1>9. CASE m.req # r
  BY <1>3, <1>5, <1>6, <1>7, <1>8, <1>9, ChargedSame
<1>10. CASE m.req = r
  <2>1. <<m, ready[m]>> \in Copies(r) /\ Copies(r)' \subseteq Copies(r) \ {<<m, ready[m]>>}
    BY <1>1, <1>2, <1>10, CopyTaken
  <2>2. /\ IsFiniteSet(Copies(r)') /\ Cardinality(Copies(r)') \in Nat /\ Cardinality(Copies(r)) \in Nat
        /\ Cardinality(Copies(r)') + 1 <= Cardinality(Copies(r))
    BY <1>1, <2>1, CardLess
  <2>3. /\ jobs[<<r, "completed">>] \in Nat /\ Unasked(r) \in Nat /\ Debt \in Nat
        /\ IsFiniteSet(Workers(r)) /\ IsFiniteSet(Orphans(r))
    BY <1>1, CostParts, DebtType
  <2>4. /\ Cardinality(Workers(r)') \in Nat /\ Cardinality(Workers(r)) \in Nat
        /\ Cardinality(Workers(r)') <= Cardinality(Workers(r)) + 1
    BY <1>6, <2>3, CardMore
  <2>5. /\ Cardinality(Orphans(r)') \in Nat /\ Cardinality(Orphans(r)) \in Nat
        /\ Cardinality(Orphans(r)') <= Cardinality(Orphans(r))
    BY <1>5, <2>3, CardSame
  <2>6. Cost(r)' = jobs[<<r, "completed">>] + Unasked(r) + Cardinality(Copies(r)') + Cardinality(Workers(r)')
                     + Cardinality(Orphans(r)')
    BY <1>3, <1>7 DEF Cost
  <2>7. Cost(r)' <= Cost(r) /\ Cost(r)' \in Nat /\ Cost(r) \in Nat
    BY <2>2, <2>3, <2>4, <2>5, <2>6 DEF Cost
  <2>8. QED
    BY <1>1, <1>7, <2>2, <2>3, <2>7
<1>11. QED
  BY <1>9, <1>10

(* A delivery taken back is queued again, and its handler, if it goes on, has lost its channel. *)
LEMMA ChargedRedeliver ==
    ASSUME IInv, Charged, NEW p \in Process, Crash(p) \/ Disconnect(p), NEW r \in Request
    PROVE  IsFiniteSet(Copies(r)') /\ Cost(r)' <= 1 + Debt'
<1>1. TypeOK /\ SlotType /\ StoreType /\ RestType /\ IsFiniteSet(Copies(r)) /\ Cost(r) <= 1 + Debt
  BY TypeParts DEF IInv, Charged
<1> DEFINE back == {s \in owned : s[1] = p}
<1>2. /\ Redeliver(p) /\ UNCHANGED <<jobs, asked, workFaults, brokerFaults>>
      /\ \A s \in Slot : pc'[s] = "idle" \/ (pc'[s] = pc[s] /\ msg'[s] = msg[s])
  BY DEF Crash, Disconnect, resultVars, faultVars
<1>3. owned' = owned \ back /\ redelivered' = redelivered + Cardinality(back)
  BY <1>2 DEF Redeliver
<1>4. back \in SUBSET Slot /\ Returned(p, r) \in SUBSET Slot /\ Returned(p, r) \subseteq back
  BY <1>1 DEF SlotType, Returned
<1>5. /\ IsFiniteSet(back) /\ Cardinality(back) \in Nat
      /\ IsFiniteSet(Returned(p, r)) /\ Cardinality(Returned(p, r)) \in Nat
      /\ Cardinality(Returned(p, r)) <= Cardinality(back)
  BY <1>4, SlotsFinite, CardSame
<1>6. /\ IsFiniteSet(Copies(r)')
      /\ Cardinality(Copies(r)') <= Cardinality(Copies(r)) + Cardinality(Returned(p, r))
      /\ Cardinality(Copies(r)') \in Nat
  BY <1>1, <1>2, CopiesReturned, FS_CardinalityType
<1>7. Workers(r)' \subseteq Workers(r)
  BY <1>2 DEF Workers, InWork
<1>8. Orphans(r)' \subseteq Orphans(r) \cup Returned(p, r)
  BY <1>2, <1>3 DEF Orphans, Unpaid, Returned
<1>9. /\ jobs[<<r, "completed">>] \in Nat /\ Unasked(r) \in Nat /\ Debt \in Nat
      /\ IsFiniteSet(Workers(r)) /\ IsFiniteSet(Orphans(r))
      /\ Cardinality(Copies(r)) \in Nat /\ Cardinality(Workers(r)) \in Nat /\ Cardinality(Orphans(r)) \in Nat
  BY <1>1, CostParts, DebtType
<1>10. Cardinality(Workers(r)') \in Nat /\ Cardinality(Workers(r)') <= Cardinality(Workers(r))
  BY <1>7, <1>9, CardSame
<1>11. Cardinality(Orphans(r)') \in Nat
       /\ Cardinality(Orphans(r)') <= Cardinality(Orphans(r)) + Cardinality(Returned(p, r))
  <2>1. /\ IsFiniteSet(Orphans(r) \cup Returned(p, r))
        /\ Cardinality(Orphans(r) \cup Returned(p, r))
             = Cardinality(Orphans(r)) + Cardinality(Returned(p, r)) - Cardinality(Orphans(r) \cap Returned(p, r))
    BY <1>5, <1>9, FS_Union
  <2>2. Cardinality(Orphans(r) \cap Returned(p, r)) \in Nat
    BY <1>9, FS_Intersection, FS_CardinalityType
  <2>3. /\ Cardinality(Orphans(r)') <= Cardinality(Orphans(r) \cup Returned(p, r))
        /\ Cardinality(Orphans(r)') \in Nat /\ Cardinality(Orphans(r) \cup Returned(p, r)) \in Nat
    BY <1>8, <2>1, CardSame
  <2>4. QED
    BY <1>5, <1>9, <2>1, <2>2, <2>3
<1> HIDE DEF back
<1>12. Cost(r)' = jobs[<<r, "completed">>] + Unasked(r) + Cardinality(Copies(r)') + Cardinality(Workers(r)')
                    + Cardinality(Orphans(r)')
  BY <1>2 DEF Cost, Unasked
<1>13. Cost(r)' <= Cost(r) + 2 * Cardinality(back) /\ Cost(r)' \in Nat /\ Cost(r) \in Nat
  BY <1>5, <1>6, <1>9, <1>10, <1>11, <1>12 DEF Cost
<1>14. Debt' = Debt + 2 * Cardinality(back)
  <2>1. redelivered \in Nat /\ workFaults \in Nat /\ brokerFaults \in Nat
    BY <1>1 DEF RestType
  <2>2. Debt' = 2 * (redelivered + Cardinality(back)) + workFaults + brokerFaults
    BY <1>2, <1>3 DEF Debt
  <2>3. QED
    BY <1>5, <2>1, <2>2 DEF Debt
<1>15. PICK more \in Nat : more = 2 * Cardinality(back)
  BY <1>5
<1>16. QED
  BY <1>1, <1>6, <1>9, <1>13, <1>14, <1>15

LEMMA ChargedStep == IInv /\ Charged /\ [Next]_vars => Charged'
<1> SUFFICES ASSUME IInv, Charged, [Next]_vars, NEW r \in Request
             PROVE  IsFiniteSet(Copies(r)') /\ Cost(r)' <= 1 + Debt'
  BY DEF Charged
<1>1. TypeOK'
  BY StepInv DEF IInv
<1>2. ASSUME NEW s \in Slot, Handle(s) \/ Raise(s)
      PROVE  IsFiniteSet(Copies(r)') /\ Cost(r)' <= 1 + Debt'
  BY <1>1, <1>2, ChargedHandler
<1>3. ASSUME NEW s \in Slot, Receive(s)
      PROVE  IsFiniteSet(Copies(r)') /\ Cost(r)' <= 1 + Debt'
  BY <1>3, ChargedReceive
<1>4. ASSUME NEW q \in Request, Publish(q)
      PROVE  IsFiniteSet(Copies(r)') /\ Cost(r)' <= 1 + Debt'
  BY <1>4, ChargedPublish
<1>5. ASSUME NEW p \in Process, Crash(p) \/ Disconnect(p)
      PROVE  IsFiniteSet(Copies(r)') /\ Cost(r)' <= 1 + Debt'
  BY <1>5, ChargedRedeliver
<1>6. ASSUME UNCHANGED vars \/ \E q \in Request : IngestDone(q)
      PROVE  IsFiniteSet(Copies(r)') /\ Cost(r)' <= 1 + Debt'
  <2>1. UNCHANGED <<asked, ready, pc, msg, owned, jobs, redelivered, workFaults, brokerFaults>>
    BY <1>6 DEF vars, IngestDone, brokerVars, slotVars, resultVars, endVars, faultVars
  <2>2. /\ Copies(r)' = Copies(r) /\ Workers(r)' = Workers(r) /\ Orphans(r)' = Orphans(r)
        /\ Debt' = Debt /\ Unasked(r)' = Unasked(r)
    BY <2>1 DEF Copies, Workers, Orphans, InWork, Unpaid, Debt, Unasked
  <2>3. QED
    BY <2>1, <2>2, ChargedSame
<1>7. QED
  BY <1>2, <1>3, <1>4, <1>5, <1>6 DEF Next


-----------------------------------------------------------------------------
(* The theorems *)

(* Every variable keeps its type; in particular a copy a handler holds never exceeds the retry limit *)
(* of _republish_with_retry, and only a running or stuck handler owns a delivery.                    *)
THEOREM TypeCorrect == Spec => []TypeOK
<1>1. IInv => TypeOK
  BY DEF IInv
<1>2. QED
  BY <1>1, InitInv, StepInv, PTL DEF Spec

(* An analysis request is analysed, dead-lettered, queued or unacknowledged at any time, whatever    *)
(* crashes, lost connections and errors _handle_message meets.                                       *)
THEOREM RequestsNotLost == Spec => []NoRequestLost
<1>1. IInv => NoRequestLost
  BY DEF IInv, Covered, NoRequestLost, Alive, Queued
<1>2. QED
  BY <1>1, InitInv, StepInv, PTL DEF Spec

(* A handler that ended with an exception holds its place in the prefetch window only at the price of *)
(* a publish, ack or reject that raised (_handle_message, _handle_failure).                          *)
THEOREM StuckBounded == Spec => []StuckBound
<1>1. Init => StuckBound
  <2> SUFFICES ASSUME Init PROVE StuckBound
    OBVIOUS
  <2>1. {s \in owned : pc[s] = "stuck"} = {} /\ brokerFaults = 0
    BY DEF Init
  <2>2. QED
    BY <2>1, FS_EmptySet DEF StuckBound
<1>2. QED
  BY <1>1, InitInv, StepInv, StuckStep, PTL DEF Spec

(* A success event has a committed row, a failure event a dead letter, one each: no event announces   *)
(* what did not happen, though the row and the event are two systems' (analysis_worker.py:123).       *)
THEOREM EventsAreBacked == Spec => []EventsBacked
<1>1. Init => Backed
  <2> SUFFICES ASSUME Init, NEW r \in Request
               PROVE  /\ announced[<<r, "completed">>] + Cardinality(OnTheWay(r)) <= jobs[<<r, "completed">>]
                      /\ announced[<<r, "failed">>] + Cardinality(Failing(r)) <= dlq[r]
    BY DEF Backed
  <2>1. OnTheWay(r) = {} /\ Failing(r) = {}
    BY DEF Init, OnTheWay, Failing
  <2>2. /\ announced[<<r, "completed">>] = 0 /\ announced[<<r, "failed">>] = 0
        /\ jobs[<<r, "completed">>] = 0 /\ dlq[r] = 0
    BY DEF Init, RowStatus
  <2>3. QED
    BY <2>1, <2>2, FS_EmptySet
<1>2. QED
  BY <1>1, InitInv, StepInv, BackedStep, BackedEvents, PTL DEF Spec

(* The analyses of a request beyond the first are accounted for by deliveries the broker took back,  *)
(* two each, and calls that raised, one each: racing handlers, retries and lost acknowledgements     *)
(* never analyse a document more often by themselves (_handle_message, _republish_with_retry).       *)
THEOREM AnalysesBounded == Spec => []AnalysesBound
<1>1. Init => Charged
  <2> SUFFICES ASSUME Init, NEW r \in Request PROVE IsFiniteSet(Copies(r)) /\ Cost(r) <= 1 + Debt
    BY DEF Charged
  <2>1. Copies(r) = {} /\ Workers(r) = {} /\ Orphans(r) = {}
    BY DEF Init, Copies, Workers, Orphans, InWork, Unpaid
  <2>2. jobs[<<r, "completed">>] = 0 /\ Unasked(r) = 1 /\ Debt = 0
    BY DEF Init, RowStatus, Unasked, Debt
  <2>3. QED
    BY <2>1, <2>2, FS_EmptySet DEF Cost
<1>2. IInv /\ Charged => AnalysesBound
  <2> SUFFICES ASSUME IInv, Charged, NEW r \in Request
               PROVE  jobs[<<r, "completed">>] <= 1 + 2 * redelivered + workFaults + brokerFaults
    BY DEF AnalysesBound
  <2>1. TypeOK /\ RestType /\ IsFiniteSet(Copies(r)) /\ Cost(r) <= 1 + Debt
    BY TypeParts DEF IInv, Charged
  <2>2. /\ jobs[<<r, "completed">>] \in Nat /\ Unasked(r) \in Nat /\ Cardinality(Copies(r)) \in Nat
        /\ Cardinality(Workers(r)) \in Nat /\ Cardinality(Orphans(r)) \in Nat
    BY <2>1, CostParts
  <2>3. jobs[<<r, "completed">>] <= 1 + Debt
    <3>1. Debt \in Nat
      BY <2>1, DebtType
    <3>2. QED
      BY <2>1, <2>2, <3>1 DEF Cost
  <2>4. redelivered \in Nat /\ workFaults \in Nat /\ brokerFaults \in Nat
    BY <2>1 DEF RestType
  <2>5. PICK j \in Nat : j = jobs[<<r, "completed">>]
    BY <2>2
  <2>6. j <= 1 + (2 * redelivered + workFaults + brokerFaults)
    BY <2>3, <2>5, Zenon DEF Debt
  <2>7. j <= 1 + 2 * redelivered + workFaults + brokerFaults
    BY <2>4, <2>5, <2>6
  <2>8. QED
    BY <2>5, <2>7
<1>3. QED
  BY <1>1, <1>2, InitInv, StepInv, ChargedStep, PTL DEF Spec
=============================================================================
