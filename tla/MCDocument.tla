----------------------------- MODULE MCDocument -----------------------------
(* Small instances of DocumentStore for TLC. *)
EXTENDS DocumentStore

CONSTANTS i1, i2, i3, i4, i5

(* i2 is a redelivery of i1, i3 a crawl with other metadata only, i4 one of an emptied page. *)
Crawls ==
    [i \in Ingest |-> CASE i \in {i1, i2} -> [content |-> "A", other |-> "x"]
                        [] i = i3 -> [content |-> "A", other |-> "y"]
                        [] i = i4 -> [content |-> Blank, other |-> "y"]
                        [] OTHER  -> [content |-> "D", other |-> "w"]]

(* A redelivered entry next to the ingest it repeats. *)
Repeated == [i \in Ingest |-> [content |-> "A", other |-> "x"]]

=============================================================================
