------------------------------- MODULE Chunker -------------------------------
(***************************************************************************)
(* app/service/chunker.py.  A text is a sequence of tokens and a document  *)
(* the sequence of its paragraphs, stripped and without empty ones, as     *)
(* chunk() has split it.  The tokens of a concatenation are taken to be    *)
(* those of its parts, and decode to be the inverse of encode: what        *)
(* tiktoken does at the seams is left out.                                 *)
(***************************************************************************)
EXTENDS Naturals, Sequences

CONSTANTS
    ChunkSize,   \* chunk_size_tokens
    Overlap,     \* chunk_overlap_tokens
    Separator    \* the token of a blank line

ASSUME SizeAssumption == ChunkSize \in Nat /\ Overlap \in Nat /\ Overlap < ChunkSize

(* Two texts with a blank line between them. *)
Spliced(text, next) == text \o <<Separator>> \o next

(* "\n\n".join(paragraphs) *)
Joined(paragraphs) ==
    LET upTo[n \in 0 .. Len(paragraphs)] ==
          IF n = 0 THEN <<>>
          ELSE IF n = 1 THEN paragraphs[1]
          ELSE Spliced(upTo[n - 1], paragraphs[n])
    IN  upTo[Len(paragraphs)]

(* Mutant: a last window that is not full is left out. *)
SlicesCut(text) ==
    LET step == ChunkSize - Overlap
    IN  [k \in 1 .. (Len(text) - Overlap) \div step |->
           SubSeq(text, (k - 1) * step + 1, (k - 1) * step + ChunkSize)]

(* _slice_long_text: windows of ChunkSize tokens that overlap, up to the first that reaches the end. *)
Slices(text) ==
    LET step == ChunkSize - Overlap
        last == CHOOSE k \in 0 .. Len(text) :
                  /\ k * step + ChunkSize >= Len(text)
                  /\ \A j \in 0 .. k - 1 : j * step + ChunkSize < Len(text)
        end(k) == IF k * step + ChunkSize < Len(text) THEN k * step + ChunkSize ELSE Len(text)
    IN  [k \in 1 .. last + 1 |-> SubSeq(text, (k - 1) * step + 1, end(k - 1))]

Empty == [chunks |-> <<>>, buffer |-> <<>>, size |-> 0]

(* The buffered paragraphs become a chunk. *)
Flushed(packing) ==
    IF packing.buffer = <<>> THEN packing
    ELSE [chunks |-> Append(packing.chunks, Joined(packing.buffer)), buffer |-> <<>>, size |-> 0]

(* Mutant: the tokens of the paragraph are not added up. *)
BufferedUncounted(packing, p) == [packing EXCEPT !.buffer = Append(@, p)]

Buffered(packing, p) ==
    [packing EXCEPT !.buffer = Append(@, p), !.size = @ + Len(p)]

(* One paragraph of the loop of chunk(): sliced, or buffered, in a new chunk if it does not fit. *)
Packed(packing, p) ==
    IF Len(p) > ChunkSize
      THEN LET flushed == Flushed(packing) IN [flushed EXCEPT !.chunks = @ \o Slices(p)]
    ELSE IF packing.size + Len(p) > ChunkSize
      THEN Buffered(Flushed(packing), p)
    ELSE Buffered(packing, p)

(* prev_tokens[-overlap:] *)
LastTokens(text) ==
    IF Len(text) <= Overlap THEN text ELSE SubSeq(text, Len(text) - Overlap + 1, Len(text))

(* _apply_overlap: each chunk begins with the end of the one before, as it was without its overlap. *)
WithOverlap(chunks) ==
    IF Overlap = 0 THEN chunks
    ELSE [i \in DOMAIN chunks |->
            IF i = 1 THEN chunks[1] ELSE Spliced(LastTokens(chunks[i - 1]), chunks[i])]

(* The loop of chunk() over the paragraphs. *)
Packing(document) ==
    LET after[n \in 0 .. Len(document)] == IF n = 0 THEN Empty ELSE Packed(after[n - 1], document[n])
    IN  after[Len(document)]

Chunks(document) == WithOverlap(Flushed(Packing(document)).chunks)
==============================================================================
