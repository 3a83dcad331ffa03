----------------------------- MODULE MCPipeline -----------------------------
(* A small instance of Pipeline for TLC. *)
EXTENDS Pipeline

CONSTANTS p1, p2

Modes == [p \in Post |-> IF p = p1 THEN "post" ELSE "full"]
=============================================================================
