----------------------------- MODULE MCEmbedding -----------------------------
(* Small instances of ChunkedIngest for TLC. *)
EXTENDS ChunkedIngest

CONSTANTS c1, c2, c3, p1, p2

Mixed  == [c \in Call |-> IF c = c3 THEN "chat" ELSE "ingest"]
Hosted == [c \in Call |-> IF c = c2 THEN p2 ELSE p1]

(* Paragraphs shorter than a chunk, of its size, and longer. *)
Paragraphs == {<<1>>, <<2, 3>>, <<4, 5, 6>>, <<7, 8, 9, 10, 11, 12>>}

(* Three that fit one chunk, after a full one; and three around a long one. *)
Longer == {<< <<4, 5, 6>>, <<1>>, <<2>>, <<3>> >>, << <<1>>, <<7, 8, 9, 10, 11, 12>>, <<2, 3>> >>}

(* One call ingests any of these documents, the other one that shares chunks with some of them. *)
Mixture ==
    [c \in Call |-> IF c = c1 THEN SeqOf(Paragraphs, 2) \cup Longer ELSE {<< <<1>>, <<4, 5, 6>> >>}]
==============================================================================
