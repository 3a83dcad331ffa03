--------------------------- MODULE DocumentStore ---------------------------
(***************************************************************************)
(* DocumentService.ingest_and_chunk on one external_id of one user: each   *)
(* ingest is one database transaction of an ingest worker or of the API,   *)
(* and transactions of the same document overlap (a redelivered entry, a   *)
(* second crawl, a POST /v1/documents/chunks).                             *)
(*                                                                         *)
(* One step is one SQL statement.  PostgreSQL runs them at READ COMMITTED: *)
(* a statement sees what was committed when it began; UPDATE and DELETE    *)
(* wait for the transaction that has locked a row and then go by what it   *)
(* committed; an INSERT waits for an uncommitted one of the same key.      *)
(***************************************************************************)
EXTENDS FiniteSets

CONSTANTS
    Ingest,     \* the transactions
    Values,     \* Values[i]: the columns of ChunkRequest i
    Keyed,      \* those whose request has an external_id
    Blank,      \* the content that TextChunker cuts into no chunk
    None        \* no row

Columns == {"content", "other"}

ASSUME ConstantsAssumption ==
    /\ IsFiniteSet(Ingest)
    /\ Keyed \subseteq Ingest
    /\ \A i \in Ingest : Values[i] = [content |-> Values[i].content, other |-> Values[i].other]
    /\ \A i \in Ingest : Values[i] # None

VARIABLES
    pc,         \* pc[i]: the next statement of i
    row,        \* the committed row of the document, or None
    chunks,     \* the ingests whose chunks are committed (add_chunks inserts them in one flush)
    seen,       \* seen[i]: the row i read, or None
    pending,    \* pending[i]: the row version i wrote and holds locked, or None
    targets,    \* targets[i]: the chunks the DELETE of i has seen
    removed,    \* removed[i]: the chunks i deleted and holds locked
    loose,      \* ingests without external_id, each with a document of its own
    met,        \* history: the ingests that ran next to one that leaves a column out of its UPDATE
    mixed       \* history: whether the last ingest committed to the document is one of them

stored == <<row, chunks, loose>>
past == <<met, mixed>>
vars == <<pc, stored, seen, pending, targets, removed, past>>

Steps == {"find", "insert", "update", "delete", "deleting", "store", "commit", "done", "failed"}

TypeOK ==
    /\ pc \in [Ingest -> Steps]
    /\ row = None \/ DOMAIN row = Columns
    /\ chunks \subseteq Ingest /\ loose \subseteq Ingest
    /\ met \subseteq Keyed /\ mixed \in BOOLEAN
    /\ \A i \in Ingest : targets[i] \subseteq Ingest /\ removed[i] \subseteq Ingest
    /\ \A i, j \in Ingest : pending[i] # None /\ pending[j] # None => i = j
    /\ \A i, j \in Ingest : i # j => removed[i] \cap removed[j] = {}

Init ==
    /\ pc = [i \in Ingest |-> "find"]
    /\ row = None /\ chunks = {} /\ loose = {}
    /\ seen = [i \in Ingest |-> None]
    /\ pending = [i \in Ingest |-> None]
    /\ targets = [i \in Ingest |-> {}]
    /\ removed = [i \in Ingest |-> {}]
    /\ met = {} /\ mixed = FALSE

-----------------------------------------------------------------------------
GoTo(i, step) == pc' = [pc EXCEPT ![i] = step]

Chunked(i) == Values[i].content # Blank

(* A document with no chunk needs no embedding and no INSERT. *)
AfterUpsert(i) == IF Chunked(i) THEN "store" ELSE "commit"

RowLocked(i) == \E j \in Ingest \ {i} : pending[j] # None
ChunksLocked(i) == \E j \in Ingest \ {i} : removed[j] \cap targets[i] # {}

(* find_by_external_id; the session then finds out which columns the request changes. *)
Find(i) ==
    /\ pc[i] = "find"
    /\ i \in Keyed
    /\ seen' = [seen EXCEPT ![i] = row]
    /\ GoTo(i, IF row = None THEN "insert" ELSE IF row = Values[i] THEN "delete" ELSE "update")
    /\ UNCHANGED <<stored, pending, targets, removed>>

(* Without external_id there is nothing to find. *)
SkipFind(i) ==
    /\ pc[i] = "find"
    /\ i \notin Keyed
    /\ GoTo(i, AfterUpsert(i))
    /\ UNCHANGED <<stored, seen, pending, targets, removed>>

(* INSERT INTO documents.  uq_documents_user_source_external: another uncommitted one is waited for, *)
(* a committed one ends this transaction.                                                            *)
Insert(i) ==
    /\ pc[i] = "insert"
    /\ ~ RowLocked(i) \/ row # None
    /\ IF row = None
         THEN /\ pending' = [pending EXCEPT ![i] = Values[i]]
              /\ GoTo(i, AfterUpsert(i))
         ELSE /\ UNCHANGED pending
              /\ GoTo(i, "failed")
    /\ UNCHANGED <<stored, seen, targets, removed>>

(* Mutant: the UPDATE names the content alone. *)
ChangedContentOnly(i) == {c \in {"content"} : seen[i][c] # Values[i][c]}

(* The columns whose value is not the one that was read. *)
Changed(i) == {c \in Columns : seen[i][c] # Values[i][c]}

(* The flush before the DELETE: UPDATE documents SET the changed columns. *)
Update(i) ==
    /\ pc[i] = "update"
    /\ ~ RowLocked(i)
    /\ pending' = [pending EXCEPT ![i] =
                     [c \in Columns |-> IF c \in Changed(i) THEN Values[i][c] ELSE row[c]]]
    /\ GoTo(i, "delete")
    /\ UNCHANGED <<stored, seen, targets, removed>>

(* delete_chunks_by_document: the chunks it sees ... *)
Delete(i) ==
    /\ pc[i] = "delete"
    /\ targets' = [targets EXCEPT ![i] = chunks]
    /\ GoTo(i, "deleting")
    /\ UNCHANGED <<stored, seen, pending, removed>>

(* Mutant: the old chunks are left where they are. *)
DeletedNone(i) ==
    /\ pc[i] = "deleting"
    /\ GoTo(i, AfterUpsert(i))
    /\ UNCHANGED <<stored, seen, pending, targets, removed>>

(* ... are deleted, except those another transaction has deleted meanwhile. *)
Deleted(i) ==
    /\ pc[i] = "deleting"
    /\ ~ ChunksLocked(i)
    /\ removed' = [removed EXCEPT ![i] = targets[i] \cap chunks]
    /\ GoTo(i, AfterUpsert(i))
    /\ UNCHANGED <<stored, seen, pending, targets>>

(* The embeddings, from the cache or the LLM, and INSERT INTO document_chunks. *)
StoreChunks(i) ==
    /\ pc[i] = "store"
    /\ GoTo(i, "commit")
    /\ UNCHANGED <<stored, seen, pending, targets, removed>>

(* The end of session_scope releases what i holds. *)
Release(i) ==
    /\ pending' = [pending EXCEPT ![i] = None]
    /\ removed' = [removed EXCEPT ![i] = {}]

Commit(i) ==
    /\ pc[i] = "commit"
    /\ IF i \in Keyed
         THEN /\ row' = IF pending[i] = None THEN row ELSE pending[i]
              /\ chunks' = (chunks \ removed[i]) \cup (IF Chunked(i) THEN {i} ELSE {})
              /\ UNCHANGED loose
         ELSE /\ loose' = loose \cup {i}
              /\ UNCHANGED <<row, chunks>>
    /\ Release(i)
    /\ GoTo(i, "done")
    /\ UNCHANGED <<seen, targets>>

(* Mutant: the session is not rolled back. *)
RollbackNever(i) ==
    /\ pc[i] \in Steps \ {"done", "failed"}
    /\ GoTo(i, "failed")
    /\ UNCHANGED <<stored, seen, pending, targets, removed>>

(* An error of the LLM, Redis or the database, or the end of the process. *)
Rollback(i) ==
    /\ pc[i] \in Steps \ {"done", "failed"}
    /\ Release(i)
    /\ GoTo(i, "failed")
    /\ UNCHANGED <<stored, seen, targets>>

(* i has sent its INSERT or UPDATE, or had nothing to send, and has not ended. *)
Late(i) == i \in Keyed /\ pc[i] \in {"delete", "deleting", "store", "commit"}

(* i leaves out of its UPDATE a column whose value it has seen stored. *)
Partial(i) == (pc[i] = "update" \/ Late(i)) /\ seen[i] # None /\ Changed(i) # Columns

(* Next to an ingest that may commit, one that goes by what it has read. *)
Conflicting ==
    {i \in Keyed : \E j \in Keyed \ {i} : (Partial(i) /\ Late(j)) \/ (Partial(j) /\ Late(i))}

Remember(i) ==
    /\ met' = met \cup Conflicting'
    /\ mixed' = IF i \in Keyed /\ pc'[i] = "done" THEN i \in met ELSE mixed

Statement(i) ==
    /\ \/ Find(i) \/ SkipFind(i) \/ Insert(i) \/ Update(i) \/ Delete(i) \/ Deleted(i)
       \/ StoreChunks(i) \/ Commit(i)
    /\ Remember(i)

Next == \E i \in Ingest : Statement(i) \/ (Rollback(i) /\ Remember(i))

Spec == Init /\ [][Next]_vars

(* PostgreSQL lets a statement that has nothing to wait for go on; nothing is assumed of errors. *)
FairSpec == Spec /\ \A i \in Ingest : WF_vars(Statement(i))

-----------------------------------------------------------------------------
(* Properties *)

(* The stored chunks are those of one ingest, made from the content that is stored: the upsert       *)
(* replaced the chunks of the row it replaced (crawl-pipeline.md:214).                               *)
ChunksMatch ==
    row # None =>
      IF row.content = Blank
        THEN chunks = {}
        ELSE \E i \in Keyed : chunks = {i} /\ Values[i].content = row.content

(* They are so after each ingest that met none that leaves a column out, whatever came before it.    *)
ChunksFollow == ~ mixed => ChunksMatch

(* No ingest waits for ever: the waits for rows and chunks are never circular, and an ingest that    *)
(* fails frees the others.                                                                           *)
Terminates == \A i \in Ingest : <>(pc[i] \in {"done", "failed"})

(* Overlapping ingests have the effect of ingests one after another, except those in met, which keep *)
(* columns they did not change and chunks they did not see, and nothing else.                        *)
Promise == INSTANCE Upsert WITH Ingest <- Keyed
UpsertSpec == Promise!Spec
=============================================================================
