-------------------------------- MODULE MCApi --------------------------------
(* Small instances of ApiServer for TLC. *)
EXTENDS ApiServer

CONSTANTS r1, r2, r3, A, B

Ask(x, y, z) == [r \in Request |-> CASE r = r1 -> x [] r = r2 -> y [] r = r3 -> z]

Chunks(doc, user, source, scores) ==
    {[doc |-> doc, user |-> user, source |-> source, score |-> s] : s \in scores}

(* Documents 1 and 3 of the user with chunks of any scores, the analysed document 2 with or without   *)
(* chunks, a better one of another user, an ext_blog, and two job postings.                           *)
Corpora ==
    {Chunks(1, User, "my_blog", x) \cup Chunks(2, User, "my_blog", y) \cup Chunks(3, User, "my_blog", z)
       \cup Chunks(4, None, "my_blog", {3}) \cup Chunks(5, None, "ext_blog", {1, 2})
       \cup Chunks(6, None, "job_posting", x) \cup Chunks(7, None, "job_posting", {2}) :
       x \in SUBSET (1 .. 3), y \in {{}, {3}}, z \in SUBSET (1 .. 3)}

Start(op, corpus, demo, canned, uncountable, first, last) ==
    [op |-> op, corpus |-> corpus, demo |-> demo, canned |-> canned, uncountable |-> uncountable,
     first |-> first, last |-> last]

(* Overlapping analyses of a document that is stored again; analyses, profiles, diagnoses and a probe   *)
(* that compete; three requests with two profiles; a document stored late; llm_provider demo; odd metadata; an analysis per corpus.    *)
Settings ==
    {Start(Ask("analyze", "analyze", "latest"), Chunks(2, User, "my_blog", {3}), FALSE, FALSE, FALSE, 1, 2),
     Start(Ask("analyze", "analyze", "diagnose"), Chunks(2, User, "my_blog", {3}), FALSE, FALSE, FALSE, 1, 1),
     Start(Ask("analyze", A, "diagnose"), {}, FALSE, FALSE, FALSE, 1, 1),
     Start(Ask("analyze", A, "ready"), {}, FALSE, FALSE, FALSE, 1, 1),
     Start(Ask(A, B, A), {}, FALSE, FALSE, FALSE, 0, 0),
     Start(Ask("analyze", None, "diagnose"), {}, TRUE, FALSE, FALSE, 0, 1),
     Start(Ask("analyze", A, "diagnose"), {}, FALSE, TRUE, FALSE, 1, 1),
     Start(Ask("analyze", None, "diagnose"), {}, FALSE, FALSE, TRUE, 1, 1)}
      \cup {Start(Ask("analyze", None, None), corpus, FALSE, FALSE, FALSE, 1, 1) : corpus \in Corpora}
=============================================================================
