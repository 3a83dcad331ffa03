------------------------------ MODULE MCIngest ------------------------------
(* Small instances of IngestWorker for TLC. *)
EXTENDS IngestWorker, TLC

CONSTANTS p1, p2

Full  == [p \in Post |-> "full"]
Mixed == [p \in Post |-> IF p = p1 THEN "post" ELSE "bad"]

Symmetry == Permutations(Worker) \cup Permutations(Post)

=============================================================================
