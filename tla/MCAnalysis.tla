----------------------------- MODULE MCAnalysis -----------------------------
(* Small instances of AnalysisWorker for TLC. *)
EXTENDS AnalysisWorker, TLC

CONSTANTS r1, r2, r3, p1, p2

Stored  == [r \in Request |-> "stored"]
Awaited == [r \in Request |-> CASE r = r1 -> "awaits" [] r = r2 -> "missing" [] OTHER -> "bad"]

Symmetry == Permutations(Process)
=============================================================================
