---------------------------- MODULE ChunkedIngest ----------------------------
(***************************************************************************)
(* The ingests of Embedding with the chunker of the program: what the      *)
(* vectors are made of.                                                    *)
(***************************************************************************)
EXTENDS Embedding, Chunker

(* The chunks ingest_and_chunk embeds. *)
CutByChunker == [d \in UNION {Documents[c] : c \in Call} |-> Chunks(d)]

ASSUME ChunkerAssumption ==
    /\ Separator \in Nat
    /\ Cut = CutByChunker
    /\ \A c \in Call : \A d \in Documents[c] : d \in Seq(Text \ {<<>>})

(* The calls whose document has just been cut. *)
JustCut == {c \in Call : pc[c] = "lookup"}

(* The places of the tokens in a sequence of texts, and a place that does not come after another. *)
Places(parts) == UNION {{i} \X DOMAIN parts[i] : i \in DOMAIN parts}
At(parts, x) == parts[x[1]][x[2]]
NotAfter(x, y) == x[1] < y[1] \/ (x[1] = y[1] /\ x[2] <= y[2])

(* Token t first occurs where u does, or before it. *)
Leads(parts, t, u) ==
    \E x \in Places(parts) :
        At(parts, x) = t /\ \A y \in Places(parts) : At(parts, y) = u => NotAfter(x, y)

Tokens(parts) == {At(parts, x) : x \in Places(parts)}

(* Width tokens of p, from a position on, stand together in one of the parts. *)
Together(parts, p, from, width) ==
    \E k \in DOMAIN parts : \E at \in 1 .. Len(parts[k]) - width + 1 :
        SubSeq(parts[k], at, at + width - 1) = SubSeq(p, from, from + width - 1)

(* The chunks hold the document: its tokens and no others, in the order in which each first occurs;  *)
(* and what stands together is found together, a paragraph that fits in one chunk, and of a longer   *)
(* one any Overlap + 1 tokens in a row, also where it was cut (chunker.py:40, :75).                  *)
HoldsDocument(parts, paragraphs) ==
    /\ \A t, u \in (Tokens(parts) \cup Tokens(paragraphs)) \ {Separator} :
         Leads(parts, t, u) <=> Leads(paragraphs, t, u)
    /\ \A i \in DOMAIN paragraphs :
         LET p == paragraphs[i]
             width == IF Len(p) <= ChunkSize THEN Len(p) ELSE Overlap + 1
         IN  \A from \in 1 .. Len(p) - width + 1 : Together(parts, p, from, width)

ChunksHoldDocument == \A c \in JustCut : HoldsDocument(texts[c], document[c])

(* A chunk may exceed chunk_size by the separators it was not charged and by the overlap, but never  *)
(* by more (chunker.py:51): the limit of the embedding model is to be compared with this.            *)
ChunkBound == \A c \in JustCut : \A k \in DOMAIN texts[c] : Len(texts[c][k]) <= 2 * ChunkSize + Overlap
==============================================================================
