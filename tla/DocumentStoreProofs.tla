------------------------ MODULE DocumentStoreProofs ------------------------
(***************************************************************************)
(* Proofs about DocumentStore: what overlapping upserts of a document      *)
(* leave behind, for any number of them, any values and any errors.        *)
(*                                                                         *)
(* The argument is that the row is the lock: an ingest that changes every  *)
(* column holds the row from its INSERT or UPDATE to its end.  One that    *)
(* leaves a column out goes by what it has read, and that is still stored  *)
(* unless it ran next to an ingest that may commit: then both are in met.  *)
(***************************************************************************)
EXTENDS DocumentStore, TLAPS

USE ConstantsAssumption

TypeInv ==
    /\ TypeOK
    /\ pending = [i \in Ingest |-> pending[i]] /\ removed = [i \in Ingest |-> removed[i]]
    /\ targets = [i \in Ingest |-> targets[i]] /\ seen = [i \in Ingest |-> seen[i]]
    /\ \A i \in Ingest : pending[i] # None => DOMAIN pending[i] = Columns

Wrote(i) == pending[i] = Values[i]

(* What is stored is what the last ingest that committed wrote, if it met none. *)
Stored ==
    /\ row = None => chunks = {}
    /\ ~ mixed /\ row # None => \E j \in Keyed : row = Values[j] /\ chunks = IF Chunked(j) THEN {j} ELSE {}

(* What an ingest knows and holds at each step. *)
Holds(i) ==
    /\ ~ Late(i) => pending[i] = None /\ removed[i] = {}
    /\ pc[i] = "delete" => removed[i] = {}
    /\ pc[i] = "deleting" => removed[i] = {}
    /\ i \notin Keyed => pc[i] \in {"find", "store", "commit", "done", "failed"}
    /\ pc[i] = "find" \/ pc[i] = "insert" => seen[i] = None
    /\ pc[i] = "update" => seen[i] # None
    /\ seen[i] # None => row # None
    /\ Late(i) /\ ~ Partial(i) => Wrote(i)
    /\ pending[i] # None => Wrote(i) \/ (row # None /\ \A c \in Columns : pending[i][c] \in {row[c], Values[i][c]})

(* What it read is still stored, if it met none. *)
Reads(i) ==
    /\ Partial(i) => row = seen[i]
    /\ Partial(i) /\ Late(i) => Wrote(i) \/ (pending[i] = None /\ row = Values[i])
    /\ pc[i] = "deleting" => targets[i] = chunks
    /\ pc[i] \in {"store", "commit"} /\ i \in Keyed => removed[i] = chunks

Knows(i) == Holds(i) /\ (i \in met \/ Reads(i))

DInv ==
    /\ TypeInv
    /\ Stored
    /\ Conflicting \subseteq met
    /\ \A i \in Ingest : Knows(i)

-----------------------------------------------------------------------------
(* Types and locks *)

LEMMA TypeInit == Init => TypeInv
  BY DEF Init, TypeInv, TypeOK, Steps

LEMMA TypeStep == TypeInv /\ [Next]_vars => TypeInv'
<1> SUFFICES ASSUME TypeInv, [Next]_vars PROVE TypeInv'
  OBVIOUS
<1>0. met' \subseteq Keyed /\ mixed' \in BOOLEAN /\ seen' = [i \in Ingest |-> seen'[i]]
  <2>1. met \subseteq Keyed /\ mixed \in BOOLEAN /\ seen = [i \in Ingest |-> seen[i]]
    BY DEF TypeInv, TypeOK
  <2>2. CASE UNCHANGED vars
    BY <2>1, <2>2 DEF vars, past
  <2>3. ASSUME NEW i \in Ingest, Statement(i) \/ (Rollback(i) /\ Remember(i))
        PROVE  met' \subseteq Keyed /\ mixed' \in BOOLEAN /\ seen' = [j \in Ingest |-> seen'[j]]
    <3>1. met' \subseteq Keyed /\ mixed' \in BOOLEAN
      <4>1. Conflicting' \subseteq Keyed
        BY DEF Conflicting
      <4>2. met' = met \cup Conflicting'
        BY <2>3 DEF Statement, Remember
      <4>3. mixed' = mixed \/ mixed' = (i \in met)
        <5>1. Remember(i)
          BY <2>3 DEF Statement
        <5>2. CASE i \in Keyed /\ pc'[i] = "done"
          BY <5>1, <5>2 DEF Remember
        <5>3. CASE ~ (i \in Keyed /\ pc'[i] = "done")
          BY <5>1, <5>3 DEF Remember
        <5> QED BY <5>2, <5>3
      <4>4. (i \in met) \in BOOLEAN
        OBVIOUS
      <4>5. mixed' \in BOOLEAN
        BY <2>1, <4>3, <4>4
      <4> QED BY <2>1, <4>1, <4>2, <4>5
    <3>2. UNCHANGED seen \/ seen' = [seen EXCEPT ![i] = row]
      BY <2>3 DEF Statement, Find, SkipFind, Insert, Update, Delete, Deleted, StoreChunks, Commit, Rollback
    <3> QED BY <2>1, <3>1, <3>2
  <2> QED BY <2>2, <2>3 DEF Next
<1>1. CASE UNCHANGED vars
  BY <1>0, <1>1 DEF TypeInv, TypeOK, vars, stored
<1>2. ASSUME NEW i \in Ingest, Find(i) \/ SkipFind(i) \/ StoreChunks(i) PROVE TypeInv'
  <2>1. /\ \E step \in Steps : GoTo(i, step)
        /\ UNCHANGED <<stored, pending, targets, removed>>
    BY <1>2 DEF Find, SkipFind, StoreChunks, AfterUpsert, Steps
  <2> QED BY <1>0, <2>1 DEF TypeInv, TypeOK, GoTo, stored
<1>3. ASSUME NEW i \in Ingest, Insert(i) \/ Update(i) PROVE TypeInv'
  <2>1. \E step \in Steps : GoTo(i, step)
    BY <1>3 DEF Insert, Update, AfterUpsert, Steps
  <2>2. UNCHANGED <<stored, targets, removed>>
    BY <1>3 DEF Insert, Update
  <2>3. \/ UNCHANGED pending
        \/ /\ ~RowLocked(i)
           /\ \E v : DOMAIN v = Columns /\ pending' = [pending EXCEPT ![i] = v]
    <3>1. DOMAIN Values[i] = Columns
      <4>1. PICK a, b : Values[i] = [content |-> a, other |-> b]
        OBVIOUS
      <4> QED BY <4>1 DEF Columns
    <3> QED BY <1>3, <3>1 DEF Insert, Update
  <2>4. pc' \in [Ingest -> Steps]
    BY <2>1 DEF TypeInv, TypeOK, GoTo
  <2>5. /\ pending' = [j \in Ingest |-> pending'[j]]
        /\ \A j \in Ingest : pending'[j] # None => DOMAIN pending'[j] = Columns
        /\ \A j, k \in Ingest : pending'[j] # None /\ pending'[k] # None => j = k
    BY <2>3 DEF TypeInv, TypeOK, RowLocked
  <2> QED BY <1>0, <2>2, <2>4, <2>5 DEF TypeInv, TypeOK, stored
<1>4. ASSUME NEW i \in Ingest, Delete(i) PROVE TypeInv'
  BY <1>0, <1>4 DEF Delete, GoTo, TypeInv, TypeOK, stored, Steps
<1>5. ASSUME NEW i \in Ingest, Deleted(i) PROVE TypeInv'
  <2>1. /\ \E step \in Steps : GoTo(i, step)
        /\ UNCHANGED <<stored, pending, targets>>
        /\ removed' = [removed EXCEPT ![i] = targets[i] \cap chunks]
        /\ \A j \in Ingest \ {i} : removed[j] \cap targets[i] = {}
    BY <1>5 DEF Deleted, AfterUpsert, Steps, ChunksLocked
  <2>2. /\ removed' = [j \in Ingest |-> removed'[j]]
        /\ \A j \in Ingest : removed'[j] \subseteq Ingest
        /\ \A j, k \in Ingest : j # k => removed'[j] \cap removed'[k] = {}
    BY <2>1 DEF TypeInv, TypeOK
  <2> QED BY <1>0, <2>1, <2>2 DEF TypeInv, TypeOK, GoTo, stored
<1>6. ASSUME NEW i \in Ingest, Commit(i) \/ Rollback(i) PROVE TypeInv'
  <2>1. /\ \E step \in Steps : GoTo(i, step)
        /\ Release(i) /\ UNCHANGED targets
        /\ row' = None \/ DOMAIN row' = Columns
        /\ chunks' \subseteq Ingest /\ loose' \subseteq Ingest
    BY <1>6 DEF Commit, Rollback, TypeInv, TypeOK, Steps, stored
  <2> QED BY <1>0, <2>1 DEF TypeInv, TypeOK, GoTo, Release
<1> QED BY <1>1, <1>2, <1>3, <1>4, <1>5, <1>6 DEF Next, Statement

(* Every variable keeps its type, one transaction at most holds the row, and no chunk is deleted by   *)
(* two: also when the requests write equal values, for any number of them and any errors.            *)
THEOREM TypeCorrect == Spec => []TypeOK
<1>1. TypeInv => TypeOK
  BY DEF TypeInv
<1>2. QED
  BY <1>1, TypeInit, TypeStep, PTL DEF Spec

-----------------------------------------------------------------------------
(* Steps *)

LEMMA InitInv == Init => DInv
<1> SUFFICES ASSUME Init PROVE DInv
  OBVIOUS
<1>1. \A i \in Ingest : ~ Late(i) /\ ~ Partial(i)
  BY DEF Init, Late, Partial
<1>2. Conflicting \subseteq met
  BY <1>1 DEF Conflicting
<1>3. Stored
  BY DEF Init, Stored
<1>4. \A i \in Ingest : Knows(i)
  BY <1>1 DEF Init, Knows, Holds, Reads
<1>5. QED
  BY <1>2, <1>3, <1>4, TypeInit DEF DInv

(* Two ingests that may both commit have met, or both hold the row, which they cannot. *)
LEMMA LateAlone ==
    ASSUME DInv, NEW i \in Keyed, NEW j \in Keyed, i # j, Late(i), Late(j) \/ Partial(j)
    PROVE  j \in met
<1>1. i \in Ingest /\ j \in Ingest /\ Holds(i) /\ Holds(j)
  BY DEF DInv, Knows
<1>2. CASE Partial(j) \/ (Partial(i) /\ Late(j))
  BY <1>2 DEF DInv, Conflicting
<1>3. CASE ~ Partial(j) /\ ~ Partial(i)
  <2>1. pending[i] = Values[i] /\ pending[j] = Values[j]
    BY <1>1, <1>3 DEF Holds, Wrote
  <2>2. pending[i] # None /\ pending[j] # None
    BY <1>1, <2>1
  <2>3. QED
    BY <1>1, <2>2 DEF DInv, TypeInv, TypeOK
<1>4. QED
  BY <1>2, <1>3

(* The step of an ingest that commits nothing leaves the others as they are. *)
LEMMA OthersKeep ==
    ASSUME DInv, NEW i \in Ingest, NEW step, pc' = [pc EXCEPT ![i] = step], met \subseteq met',
           row' = row, chunks' = chunks,
           \A j \in Ingest \ {i} : /\ pending'[j] = pending[j] /\ removed'[j] = removed[j]
                                   /\ targets'[j] = targets[j] /\ seen'[j] = seen[j]
    PROVE  \A j \in Ingest \ {i} : Knows(j)'
<1> SUFFICES ASSUME NEW j \in Ingest \ {i} PROVE Knows(j)'
  OBVIOUS
<1>1. pc'[j] = pc[j]
  BY DEF DInv, TypeInv, TypeOK
<1>2. Knows(j)
  BY DEF DInv
<1>3. (Late(j)' <=> Late(j)) /\ (Partial(j)' <=> Partial(j)) /\ (Wrote(j)' <=> Wrote(j))
  BY <1>1 DEF Late, Partial, Changed, Wrote
<1>4. Holds(j)' /\ (Reads(j) => Reads(j)')
  BY <1>1, <1>2, <1>3 DEF Knows, Holds, Reads
<1>5. QED
  BY <1>2, <1>4 DEF Knows

LEMMA StoredKeeps ==
    ASSUME Stored, row' = row, chunks' = chunks, mixed' = mixed
    PROVE  Stored'
  BY DEF Stored, Chunked

(* What is left to show of a step of i that does not commit. *)
LEMMA Quiet ==
    ASSUME DInv, TypeInv', NEW i \in Ingest, Remember(i), NEW step, step # "done",
           pc' = [pc EXCEPT ![i] = step], row' = row, chunks' = chunks,
           \A j \in Ingest \ {i} : /\ pending'[j] = pending[j] /\ removed'[j] = removed[j]
                                   /\ targets'[j] = targets[j] /\ seen'[j] = seen[j],
           Holds(i)', i \in met \/ Reads(i)'
    PROVE  DInv'
<1>1. met \subseteq met' /\ (Conflicting \subseteq met)'
  BY DEF Remember
<1>2. pc'[i] = step
  BY DEF DInv, TypeInv, TypeOK
<1>3. mixed' = mixed
  BY <1>2 DEF Remember
<1>4. Stored'
  BY <1>3, StoredKeeps DEF DInv
<1>5. \A j \in Ingest \ {i} : Knows(j)'
  BY <1>1, OthersKeep
<1>6. Knows(i)'
  BY <1>1 DEF Knows
<1>7. QED
  BY <1>1, <1>4, <1>5, <1>6 DEF DInv

LEMMA KeepsFind ==
    ASSUME DInv, TypeInv', NEW i \in Ingest, Find(i), Remember(i)
    PROVE  DInv'
<1>1. UNCHANGED <<row, chunks, pending, targets, removed>> /\ pc[i] = "find" /\ i \in Keyed
  BY DEF Find, stored
<1>2. seen'[i] = row /\ \A j \in Ingest \ {i} : seen'[j] = seen[j]
  BY DEF Find, DInv, TypeInv, TypeOK
<1>3. Holds(i)
  BY DEF DInv, Knows
<1>4. pending[i] = None /\ removed[i] = {}
  BY <1>1, <1>3 DEF Holds, Late
<1>5. PICK step \in {"insert", "delete", "update"} :
        /\ pc' = [pc EXCEPT ![i] = step]
        /\ (step = "insert" /\ row = None) \/ (step = "delete" /\ row # None /\ row = Values[i])
             \/ (step = "update" /\ row # None)
  BY DEF Find, GoTo
<1>6. pc'[i] = step
  BY <1>5 DEF DInv, TypeInv, TypeOK
<1>7. Late(i)' <=> step = "delete"
  BY <1>1, <1>5, <1>6 DEF Late
<1>8. step = "delete" => Partial(i)'
  BY <1>2, <1>5, <1>7 DEF Partial, Changed, Columns
<1>9. Holds(i)'
  BY <1>1, <1>2, <1>4, <1>5, <1>6, <1>7, <1>8 DEF Holds
<1>10. Reads(i)'
  BY <1>1, <1>2, <1>4, <1>5, <1>6, <1>7 DEF Reads
<1>11. QED
  BY <1>1, <1>2, <1>5, <1>9, <1>10, Quiet

LEMMA KeepsSkip ==
    ASSUME DInv, TypeInv', NEW i \in Ingest, SkipFind(i), Remember(i)
    PROVE  DInv'
<1>1. UNCHANGED <<row, chunks, seen, pending, targets, removed>> /\ pc[i] = "find" /\ i \notin Keyed
  BY DEF SkipFind, stored
<1>2. PICK step \in {"store", "commit"} : pc' = [pc EXCEPT ![i] = step]
  BY DEF SkipFind, GoTo, AfterUpsert
<1>3. pc'[i] = step
  BY <1>2 DEF DInv, TypeInv, TypeOK
<1>4. Holds(i) /\ ~ Late(i) /\ ~ Late(i)' /\ ~ Partial(i)'
  BY <1>1, <1>3 DEF DInv, Knows, Late, Partial
<1>5. pending[i] = None /\ removed[i] = {} /\ seen[i] = None
  BY <1>1, <1>4 DEF Holds
<1>6. Holds(i)' /\ Reads(i)'
  BY <1>1, <1>2, <1>3, <1>4, <1>5 DEF Holds, Reads
<1>7. QED
  BY <1>1, <1>2, <1>6, Quiet

LEMMA KeepsInsert ==
    ASSUME DInv, TypeInv', NEW i \in Ingest, Insert(i), Remember(i)
    PROVE  DInv'
<1>1. UNCHANGED <<row, chunks, seen, targets, removed>> /\ pc[i] = "insert"
  BY DEF Insert, stored
<1>2. Holds(i) /\ ~ Late(i)
  BY <1>1 DEF DInv, Knows, Late
<1>3. i \in Keyed /\ pending[i] = None /\ removed[i] = {} /\ seen[i] = None
  BY <1>1, <1>2 DEF Holds
<1>4. CASE row = None
  <2>1. pending' = [pending EXCEPT ![i] = Values[i]]
    BY <1>4 DEF Insert
  <2>2. pending'[i] = Values[i] /\ \A j \in Ingest \ {i} : pending'[j] = pending[j]
    BY <2>1 DEF DInv, TypeInv
  <2>3. PICK step \in {"store", "commit"} : pc' = [pc EXCEPT ![i] = step]
    BY <1>4 DEF Insert, GoTo, AfterUpsert
  <2>4. pc'[i] = step
    BY <2>3 DEF DInv, TypeInv, TypeOK
  <2>5. chunks = {}
    BY <1>4 DEF DInv, Stored
  <2>6. Late(i)' /\ ~ Partial(i)' /\ Wrote(i)'
    BY <1>1, <1>3, <2>2, <2>4 DEF Late, Partial, Wrote
  <2>7. Holds(i)' /\ Reads(i)'
    BY <1>1, <1>3, <2>4, <2>5, <2>6 DEF Holds, Reads
  <2>8. QED
    BY <1>1, <2>2, <2>3, <2>7, Quiet
<1>5. CASE row # None
  <2>1. pending' = pending /\ pc' = [pc EXCEPT ![i] = "failed"]
    BY <1>5 DEF Insert, GoTo
  <2>2. pc'[i] = "failed"
    BY <2>1 DEF DInv, TypeInv, TypeOK
  <2>3. ~ Late(i)' /\ ~ Partial(i)'
    BY <2>2 DEF Late, Partial
  <2>4. Holds(i)' /\ Reads(i)'
    BY <1>1, <1>3, <2>1, <2>2, <2>3 DEF Holds, Reads
  <2>5. QED
    BY <1>1, <2>1, <2>4, Quiet
<1>6. QED
  BY <1>4, <1>5

(* The new version has the columns of the request, unless the row is not the one that was read. *)
LEMMA Merged ==
    ASSUME NEW i \in Ingest, Changed(i) = Columns \/ row = seen[i]
    PROVE  [c \in Columns |-> IF c \in Changed(i) THEN Values[i][c] ELSE row[c]] = Values[i]
<1>1. Values[i] = [content |-> Values[i].content, other |-> Values[i].other]
  OBVIOUS
<1>2. Values[i] = [c \in Columns |-> Values[i][c]]
  BY <1>1 DEF Columns
<1>3. \A c \in Columns : c \notin Changed(i) => row[c] = Values[i][c]
  BY DEF Changed
<1>4. QED
  BY <1>2, <1>3

LEMMA KeepsUpdate ==
    ASSUME DInv, TypeInv', NEW i \in Ingest, Update(i), Remember(i)
    PROVE  DInv'
<1>1. UNCHANGED <<row, chunks, seen, targets, removed>> /\ pc[i] = "update"
  BY DEF Update, stored
<1>2. Holds(i) /\ (i \in met \/ Reads(i)) /\ ~ Late(i)
  BY <1>1 DEF DInv, Knows, Late
<1>3. i \in Keyed /\ removed[i] = {} /\ seen[i] # None /\ row # None
  BY <1>1, <1>2 DEF Holds
<1>4. pc' = [pc EXCEPT ![i] = "delete"] /\ pc'[i] = "delete"
  BY DEF Update, GoTo, DInv, TypeInv, TypeOK
<1>5. pending' = [pending EXCEPT ![i] =
                    [c \in Columns |-> IF c \in Changed(i) THEN Values[i][c] ELSE row[c]]]
  BY DEF Update
<1>6. /\ pending'[i] = [c \in Columns |-> IF c \in Changed(i) THEN Values[i][c] ELSE row[c]]
      /\ \A j \in Ingest \ {i} : pending'[j] = pending[j]
  BY <1>5 DEF DInv, TypeInv
<1>7. Late(i)' /\ (Partial(i)' <=> Partial(i)) /\ (Partial(i) <=> Changed(i) # Columns)
  BY <1>1, <1>3, <1>4 DEF Late, Partial, Changed
<1>8. ~ Partial(i) \/ row = seen[i] => Wrote(i)'
  BY <1>6, <1>7, Merged DEF Wrote
<1>9. \A c \in Columns : pending'[i][c] \in {row[c], Values[i][c]}
  BY <1>6
<1>10. Holds(i)'
  BY <1>1, <1>3, <1>4, <1>7, <1>8, <1>9 DEF Holds
<1>11. i \in met \/ Reads(i)'
  BY <1>1, <1>2, <1>4, <1>7, <1>8 DEF Reads
<1>12. QED
  BY <1>1, <1>4, <1>6, <1>10, <1>11, Quiet

LEMMA KeepsDelete ==
    ASSUME DInv, TypeInv', NEW i \in Ingest, Delete(i), Remember(i)
    PROVE  DInv'
<1>1. UNCHANGED <<row, chunks, seen, pending, removed>> /\ pc[i] = "delete"
  BY DEF Delete, stored
<1>2. Holds(i) /\ (i \in met \/ Reads(i))
  BY DEF DInv, Knows
<1>3. pc' = [pc EXCEPT ![i] = "deleting"] /\ pc'[i] = "deleting"
  BY DEF Delete, GoTo, DInv, TypeInv, TypeOK
<1>4. targets'[i] = chunks /\ \A j \in Ingest \ {i} : targets'[j] = targets[j]
  BY DEF Delete, DInv, TypeInv
<1>5. i \in Keyed /\ removed[i] = {}
  BY <1>1, <1>2 DEF Holds
<1>6. Late(i) /\ Late(i)' /\ (Partial(i)' <=> Partial(i)) /\ (Wrote(i)' <=> Wrote(i))
  BY <1>1, <1>3, <1>5 DEF Late, Partial, Changed, Wrote
<1>7. Holds(i)'
  BY <1>1, <1>2, <1>3, <1>5, <1>6 DEF Holds
<1>8. i \in met \/ Reads(i)'
  BY <1>1, <1>2, <1>3, <1>4, <1>6 DEF Reads
<1>9. QED
  BY <1>1, <1>3, <1>4, <1>7, <1>8, Quiet

LEMMA KeepsDeleted ==
    ASSUME DInv, TypeInv', NEW i \in Ingest, Deleted(i), Remember(i)
    PROVE  DInv'
<1>1. UNCHANGED <<row, chunks, seen, targets, pending>> /\ pc[i] = "deleting"
  BY DEF Deleted, stored
<1>2. Holds(i) /\ (i \in met \/ Reads(i))
  BY DEF DInv, Knows
<1>3. PICK step \in {"store", "commit"} : pc' = [pc EXCEPT ![i] = step]
  BY DEF Deleted, GoTo, AfterUpsert
<1>4. pc'[i] = step
  BY <1>3 DEF DInv, TypeInv, TypeOK
<1>5. removed'[i] = targets[i] \cap chunks /\ \A j \in Ingest \ {i} : removed'[j] = removed[j]
  BY DEF Deleted, DInv, TypeInv
<1>6. i \in Keyed
  BY <1>1, <1>2 DEF Holds
<1>7. Late(i) /\ Late(i)' /\ (Partial(i)' <=> Partial(i)) /\ (Wrote(i)' <=> Wrote(i))
  BY <1>1, <1>4, <1>6 DEF Late, Partial, Changed, Wrote
<1>8. Holds(i)'
  BY <1>1, <1>2, <1>4, <1>6, <1>7 DEF Holds
<1>9. i \in met \/ Reads(i)'
  BY <1>1, <1>2, <1>4, <1>5, <1>7 DEF Reads
<1>10. QED
  BY <1>1, <1>3, <1>5, <1>8, <1>9, Quiet

LEMMA KeepsStore ==
    ASSUME DInv, TypeInv', NEW i \in Ingest, StoreChunks(i), Remember(i)
    PROVE  DInv'
<1>1. UNCHANGED <<row, chunks, seen, targets, pending, removed>> /\ pc[i] = "store"
  BY DEF StoreChunks, stored
<1>2. Holds(i) /\ (i \in met \/ Reads(i))
  BY DEF DInv, Knows
<1>3. pc' = [pc EXCEPT ![i] = "commit"] /\ pc'[i] = "commit"
  BY DEF StoreChunks, GoTo, DInv, TypeInv, TypeOK
<1>4. (Late(i)' <=> Late(i)) /\ (Partial(i)' <=> Partial(i)) /\ (Wrote(i)' <=> Wrote(i))
  BY <1>1, <1>3 DEF Late, Partial, Changed, Wrote
<1>5. Holds(i)' /\ (i \in met \/ Reads(i)')
  BY <1>1, <1>2, <1>3, <1>4 DEF Holds, Reads
<1>6. QED
  BY <1>1, <1>3, <1>5, Quiet

(* Releasing what i holds. *)
LEMMA Releases ==
    ASSUME DInv, NEW i \in Ingest, Release(i)
    PROVE  /\ pending'[i] = None /\ removed'[i] = {}
           /\ \A j \in Ingest \ {i} : pending'[j] = pending[j] /\ removed'[j] = removed[j]
  BY DEF DInv, TypeInv, Release

LEMMA KeepsRollback ==
    ASSUME DInv, TypeInv', NEW i \in Ingest, Rollback(i), Remember(i)
    PROVE  DInv'
<1>1. UNCHANGED <<row, chunks, seen, targets>> /\ Release(i)
  BY DEF Rollback, stored
<1>2. pc' = [pc EXCEPT ![i] = "failed"] /\ pc'[i] = "failed"
  BY DEF Rollback, GoTo, DInv, TypeInv, TypeOK
<1>3. /\ pending'[i] = None /\ removed'[i] = {}
      /\ \A j \in Ingest \ {i} : pending'[j] = pending[j] /\ removed'[j] = removed[j]
  BY <1>1, Releases
<1>4. ~ Late(i)' /\ ~ Partial(i)' /\ Holds(i)
  BY <1>2 DEF Late, Partial, DInv, Knows
<1>5. Holds(i)' /\ Reads(i)'
  BY <1>1, <1>2, <1>3, <1>4 DEF Holds, Reads
<1>6. QED
  BY <1>1, <1>2, <1>3, <1>5, Quiet

(* What a commit stores: all of the request, if it met none; else at worst what Mingle says. *)
LEMMA CommitStores ==
    ASSUME DInv, NEW i \in Keyed, Commit(i)
    PROVE  /\ i \notin met => row' = Values[i] /\ chunks' = IF Chunked(i) THEN {i} ELSE {}
           /\ row' # None
           /\ row' = Values[i] \/ (row # None /\ DOMAIN row' = Columns
                                   /\ \A c \in Columns : row'[c] \in {row[c], Values[i][c]})
           /\ chunks' = (chunks \ removed[i]) \cup (IF Chunked(i) THEN {i} ELSE {})
           /\ pending[i] = None => row' = row
<1>1. i \in Ingest /\ pc[i] = "commit" /\ Late(i)
  BY DEF Commit, Late
<1>2. Holds(i) /\ (i \in met \/ Reads(i)) /\ Values[i] # None
  BY <1>1 DEF DInv, Knows
<1>3. /\ row' = IF pending[i] = None THEN row ELSE pending[i]
      /\ chunks' = (chunks \ removed[i]) \cup (IF Chunked(i) THEN {i} ELSE {})
  BY DEF Commit
<1>4. i \notin met => row' = Values[i] /\ removed[i] = chunks
  BY <1>1, <1>2, <1>3 DEF Holds, Reads, Wrote
<1>5. pending[i] = None => seen[i] # None
  BY <1>1, <1>2 DEF Holds, Wrote, Partial
<1>6. row' # None /\ (pending[i] = None => row # None)
  BY <1>2, <1>3, <1>5 DEF Holds
<1>7. row' = Values[i] \/ (row # None /\ DOMAIN row' = Columns
                            /\ \A c \in Columns : row'[c] \in {row[c], Values[i][c]})
  <2>1. CASE pending[i] = None
    BY <1>3, <1>6, <2>1 DEF DInv, TypeInv, TypeOK
  <2>2. CASE pending[i] # None
    <3>1. row' = pending[i] /\ DOMAIN pending[i] = Columns
      BY <1>1, <1>3, <2>2 DEF DInv, TypeInv
    <3>2. QED
      BY <1>2, <2>2, <3>1 DEF Holds, Wrote
  <2>3. QED
    BY <2>1, <2>2
<1>8. QED
  BY <1>3, <1>4, <1>6, <1>7

(* A commit to the document is of no concern to the others that have not met it. *)
LEMMA CommitOthers ==
    ASSUME DInv, TypeInv', NEW i \in Keyed, Commit(i), Remember(i), NEW j \in Ingest \ {i}
    PROVE  Knows(j)'
<1>1. i \in Ingest /\ Late(i) /\ UNCHANGED <<seen, targets>> /\ Release(i) /\ pc' = [pc EXCEPT ![i] = "done"]
  BY DEF Commit, GoTo, Late
<1>2. pc'[j] = pc[j] /\ pending'[j] = pending[j] /\ removed'[j] = removed[j]
  BY <1>1, Releases DEF DInv, TypeInv, TypeOK
<1>3. (Late(j)' <=> Late(j)) /\ (Partial(j)' <=> Partial(j)) /\ (Wrote(j)' <=> Wrote(j))
  BY <1>1, <1>2 DEF Late, Partial, Changed, Wrote
<1>4. Holds(j) /\ (j \in met \/ Reads(j))
  BY DEF DInv, Knows
<1>5. pending[j] # None => row' = row
  <2>1. SUFFICES ASSUME pending[j] # None PROVE row' = row
    OBVIOUS
  <2>2. pending[i] = None
    BY <1>1, <2>1 DEF DInv, TypeInv, TypeOK
  <2>3. QED
    BY <2>2, CommitStores
<1>6. row' # None
  BY CommitStores
<1>7. Holds(j)'
  BY <1>1, <1>2, <1>3, <1>4, <1>5, <1>6 DEF Holds
<1>8. CASE j \in met
  <2>1. j \in met'
    BY <1>8 DEF Remember
  <2>2. QED
    BY <1>7, <2>1 DEF Knows
<1>9. CASE j \notin met
  <2>1. ~ (j \in Keyed /\ Late(j)) /\ ~ (j \in Keyed /\ Partial(j))
    BY <1>1, <1>9, LateAlone
  <2>2. j \notin Keyed => ~ Late(j) /\ ~ Partial(j) /\ pc[j] # "deleting"
    BY <1>4 DEF Holds, Late, Partial
  <2>3. ~ Late(j) /\ ~ Partial(j) /\ pc[j] # "deleting"
    BY <2>1, <2>2 DEF Late
  <2>4. Reads(j)'
    BY <1>2, <1>3, <2>3 DEF Reads, Late
  <2>5. QED
    BY <1>7, <2>4 DEF Knows
<1>10. QED
  BY <1>8, <1>9

LEMMA KeepsCommit ==
    ASSUME DInv, TypeInv', NEW i \in Ingest, Commit(i), Remember(i)
    PROVE  DInv'
<1>1. UNCHANGED <<seen, targets>> /\ pc[i] = "commit" /\ Release(i) /\ pc' = [pc EXCEPT ![i] = "done"]
  BY DEF Commit, GoTo
<1>2. pc'[i] = "done"
  BY <1>1 DEF DInv, TypeInv, TypeOK
<1>3. /\ pending'[i] = None /\ removed'[i] = {}
      /\ \A j \in Ingest \ {i} : pending'[j] = pending[j] /\ removed'[j] = removed[j]
  BY <1>1, Releases
<1>4. met \subseteq met' /\ (Conflicting \subseteq met)'
  BY DEF Remember
<1>5. CASE i \in Keyed
  <2>1. \A j \in Ingest \ {i} : Knows(j)'
    BY <1>5, CommitOthers
  <2>2. ~ Late(i)' /\ ~ Partial(i)' /\ row' # None
    BY <1>2, <1>5, CommitStores DEF Late, Partial
  <2>3. Knows(i)'
    BY <1>2, <1>3, <2>2 DEF Knows, Holds, Reads
  <2>4. mixed' = (i \in met)
    BY <1>2, <1>5 DEF Remember
  <2>5. i \notin met => row' = Values[i] /\ chunks' = IF Chunked(i) THEN {i} ELSE {}
    BY <1>5, CommitStores
  <2>6. Stored'
    BY <1>5, <2>2, <2>4, <2>5 DEF Stored, Chunked
  <2>7. QED
    BY <1>4, <2>1, <2>3, <2>6 DEF DInv
<1>6. CASE i \notin Keyed
  <2>1. row' = row /\ chunks' = chunks /\ mixed' = mixed
    BY <1>6 DEF Commit, Remember
  <2>2. ~ Late(i)' /\ ~ Partial(i)' /\ Holds(i)
    BY <1>2 DEF Late, Partial, DInv, Knows
  <2>3. Knows(i)'
    BY <1>1, <1>2, <1>3, <2>1, <2>2 DEF Knows, Holds, Reads
  <2>4. Stored' /\ \A j \in Ingest \ {i} : Knows(j)'
    BY <1>1, <1>3, <1>4, <2>1, OthersKeep, StoredKeeps DEF DInv
  <2>5. QED
    BY <1>4, <2>3, <2>4 DEF DInv
<1>7. QED
  BY <1>5, <1>6

LEMMA StepInv == DInv /\ [Next]_vars => DInv'
<1> SUFFICES ASSUME DInv, [Next]_vars PROVE DInv'
  OBVIOUS
<1>1. TypeInv'
  BY TypeStep DEF DInv
<1>2. ASSUME NEW i \in Ingest, Statement(i) \/ (Rollback(i) /\ Remember(i)) PROVE DInv'
  BY <1>1, <1>2, KeepsFind, KeepsSkip, KeepsInsert, KeepsUpdate, KeepsDelete, KeepsDeleted, KeepsStore,
     KeepsCommit, KeepsRollback DEF Statement
<1>3. ASSUME UNCHANGED vars PROVE DInv'
  <2>1. UNCHANGED <<pc, row, chunks, seen, pending, targets, removed, met, mixed>>
    BY <1>3 DEF vars, stored, past
  <2>2. \A i \in Ingest : (Late(i)' <=> Late(i)) /\ (Partial(i)' <=> Partial(i)) /\ (Wrote(i)' <=> Wrote(i))
    BY <2>1 DEF Late, Partial, Changed, Wrote
  <2>3. Stored'
    BY <2>1, StoredKeeps DEF DInv
  <2>4. ASSUME NEW i \in Ingest PROVE Knows(i)'
    <3>1. Knows(i)
      BY DEF DInv
    <3>2. Holds(i)' /\ (Reads(i) => Reads(i)')
      BY <2>1, <2>2, <3>1 DEF Knows, Holds, Reads
    <3>3. QED
      BY <2>1, <3>1, <3>2 DEF Knows
  <2>5. (Conflicting \subseteq met)'
    BY <2>1, <2>2 DEF DInv, Conflicting, ConstantsAssumption
  <2>6. QED
    BY <1>1, <2>3, <2>4, <2>5 DEF DInv
<1>4. QED
  BY <1>2, <1>3 DEF Next

(* The chunks that search reads are those of the stored content after each ingest_and_chunk that ran *)
(* next to none that leaves a column out of its UPDATE, whatever the requests write and whatever the *)
(* ingests before it left behind: the upsert deletes and makes them again as one.                    *)
THEOREM ChunksCorrect == Spec => []ChunksFollow
<1>1. DInv => ChunksFollow
  BY DEF DInv, Stored, ChunksFollow, ChunksMatch, Chunked
<1>2. QED
  BY <1>1, InitInv, StepInv, PTL DEF Spec

(* Overlapping ingests of ingest_and_chunk implement Upsert, whatever they write: every step of every *)
(* transaction is a whole replacement of row and chunks, or changes nothing that is stored, or is the *)
(* commit of one that met another and keeps old columns and old chunks at most.                       *)
THEOREM ImplementsUpsert == Spec => UpsertSpec
<1>1. Init => Promise!Init
  BY DEF Init, Promise!Init
<1>2. DInv /\ [Next]_vars => [Promise!Next]_<<row, chunks, mixed>>
  <2> SUFFICES ASSUME DInv, [Next]_vars PROVE [Promise!Next]_<<row, chunks, mixed>>
    OBVIOUS
  <2>1. ASSUME NEW i \in Keyed, Commit(i), Remember(i) PROVE Promise!Next
    <3>1. i \in Ingest /\ pc'[i] = "done"
      BY <2>1 DEF Commit, GoTo, DInv, TypeInv, TypeOK
    <3>2. mixed' = (i \in met)
      BY <2>1, <3>1 DEF Remember
    <3>3. CASE i \notin met
      <4>1. row' = Values[i] /\ chunks' = IF Chunked(i) THEN {i} ELSE {}
        BY <2>1, <3>3, CommitStores
      <4>2. mixed' = FALSE
        <5>1. (i \in met) = FALSE
          BY <3>3
        <5>2. QED
          BY <3>2, <5>1
      <4>3. Promise!Replace(i)
        BY <4>1, <4>2 DEF Promise!Replace, Promise!Own
      <4>4. QED
        BY <4>3 DEF Promise!Next
    <3>4. CASE i \in met
      <4>1. DOMAIN Values[i] = Columns
        <5>1. PICK a, b : Values[i] = [content |-> a, other |-> b]
          BY <3>1
        <5>2. QED
          BY <5>1 DEF Columns
      <4>2. \E kept \in SUBSET chunks : chunks' = kept \cup Promise!Own(i)
        <5>1. chunks' = (chunks \ removed[i]) \cup (IF Chunked(i) THEN {i} ELSE {})
          BY <2>1, CommitStores
        <5>2. chunks \ removed[i] \in SUBSET chunks
          OBVIOUS
        <5>3. QED
          BY <5>1, <5>2 DEF Promise!Own
      <4>3. Promise!Mingle(i)
        BY <2>1, <3>2, <3>4, <4>1, <4>2, CommitStores DEF Promise!Mingle
      <4>4. QED
        BY <4>3 DEF Promise!Next
    <3>5. QED
      BY <3>3, <3>4
  <2>2. ASSUME NEW i \in Ingest, i \notin Keyed, Commit(i), Remember(i)
        PROVE  UNCHANGED <<row, chunks, mixed>>
    BY <2>2 DEF Commit, Remember
  <2>3. ASSUME NEW i \in Ingest, Statement(i) \/ (Rollback(i) /\ Remember(i)), ~ Commit(i)
        PROVE  UNCHANGED <<row, chunks, mixed>>
    <3>1. UNCHANGED <<row, chunks>>
      BY <2>3 DEF Statement, Rollback, Find, SkipFind, Insert, Update, Delete, Deleted, StoreChunks, stored
    <3>2. PICK step : pc' = [pc EXCEPT ![i] = step] /\ step # "done"
      BY <2>3 DEF Statement, Rollback, Find, SkipFind, Insert, Update, Delete, Deleted, StoreChunks,
                  GoTo, AfterUpsert
    <3>3. pc'[i] # "done" /\ Remember(i)
      BY <2>3, <3>2 DEF DInv, TypeInv, TypeOK, Statement
    <3>4. mixed' = mixed
      BY <3>3 DEF Remember
    <3>5. QED
      BY <3>1, <3>4
  <2>4. UNCHANGED vars => UNCHANGED <<row, chunks, mixed>>
    BY DEF vars, stored, past
  <2>5. QED
    BY <2>1, <2>2, <2>3, <2>4 DEF Next, Statement
<1>3. QED
  BY <1>1, <1>2, InitInv, StepInv, PTL DEF Spec, UpsertSpec, Promise!Spec
=============================================================================
