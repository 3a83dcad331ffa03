----------------------------- MODULE Retrieval -----------------------------
(***************************************************************************)
(* The vector queries of app/repository/context_retrieval_repository.py,   *)
(* from which an analysis takes its context.  A row is a chunk joined with *)
(* its document, [doc, user, source, score]; score stands for its          *)
(* similarity 1 - (embedding <=> query), the query being the mean vector   *)
(* of the analysed document.                                               *)
(***************************************************************************)
EXTENDS Naturals, FiniteSets, FiniteSetsExt

CONSTANT TopK    \* top_k of each query

ASSUME TopKAssumption == TopK \in Nat \ {0}

(* The CTE: SELECT DISTINCT ON (d.id) ... ORDER BY d.id, distance. *)
BestPerDocument(rows) == {c \in rows : \A e \in rows : e.doc = c.doc => e.score <= c.score}

Capped(rows) == IF Cardinality(rows) < TopK THEN Cardinality(rows) ELSE TopK

(* Mutant: the LIMIT stands in the CTE, which is ordered by d.id. *)
FoundFirst(rows) ==
    LET best == BestPerDocument(rows) IN
    {found \in kSubset(Capped(best), best) :
        \A c \in found, e \in best \ found : c.doc <= e.doc}

(* ORDER BY score DESC LIMIT top_k; rows of equal score come in any order. *)
Found(rows) ==
    LET best == BestPerDocument(rows) IN
    {found \in kSubset(Capped(best), best) :
        \A c \in found, e \in best \ found : c.score >= e.score}

(* What each of the three queries looks at. *)
MyBlogRows(corpus, user, own) ==
    {c \in corpus : c.user = user /\ c.source = "my_blog" /\ c.doc # own}
SourceRows(corpus, source) == {c \in corpus : c.source = source}

(* find_my_blog_context, find_ext_blog_context and find_job_posting_context, if the document has     *)
(* chunks to take the mean of.                                                                       *)
RagContext(corpus, user, own) ==
    IF \A c \in corpus : c.doc # own THEN {{}}
    ELSE {my \cup ext \cup job : my \in Found(MyBlogRows(corpus, user, own)),
                                 ext \in Found(SourceRows(corpus, "ext_blog")),
                                 job \in Found(SourceRows(corpus, "job_posting"))}
=============================================================================
