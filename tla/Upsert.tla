------------------------------- MODULE Upsert -------------------------------
(***************************************************************************)
(* What DocumentService.ingest_and_chunk does to one document with an      *)
(* external_id.  Its promise ("upsert: the existing chunks are deleted and *)
(* made again") is Replace.  SQLAlchemy sends only the columns that differ *)
(* from what was read, so an ingest that overlaps another may Mingle.      *)
(***************************************************************************)
CONSTANTS
    Ingest,       \* the ingests of the document
    Values,       \* Values[i]: the columns ingest i writes
    Chunked(_),   \* Chunked(i): whether the content of i has any chunk
    None          \* no row

VARIABLES
    row,          \* the stored columns, or None
    chunks,       \* the ingests whose chunks are stored
    mixed         \* whether the last step was Mingle

Init == row = None /\ chunks = {} /\ mixed = FALSE

Own(i) == IF Chunked(i) THEN {i} ELSE {}

(* The row and all of its chunks in one step, whatever was stored. *)
Replace(i) ==
    /\ row' = Values[i]
    /\ chunks' = Own(i)
    /\ mixed' = FALSE

(* Columns of the row may stay, and old chunks; those of i are added. *)
Mingle(i) ==
    /\ \/ row' = Values[i]
       \/ /\ row # None /\ DOMAIN row' = DOMAIN Values[i]
          /\ \A c \in DOMAIN Values[i] : row'[c] \in {row[c], Values[i][c]}
    /\ \E kept \in SUBSET chunks : chunks' = kept \cup Own(i)
    /\ mixed' = TRUE

Next == \E i \in Ingest : Replace(i) \/ Mingle(i)

Spec == Init /\ [][Next]_<<row, chunks, mixed>>
=============================================================================
