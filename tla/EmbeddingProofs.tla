--------------------------- MODULE EmbeddingProofs ---------------------------
(***************************************************************************)
(* Proofs about Embedding, for any number of calls, processes, documents,  *)
(* models, permits and faults, and whatever the chunker makes of a         *)
(* document; and about ChunkedIngest, for any documents and sizes.         *)
(*                                                                         *)
(* Made ties a vector to the text it stands for; CallOf follows it through *)
(* one call, from the cache or the provider to the caller, and CacheMade   *)
(* back into the cache.  Permits counts the calls at a provider.           *)
(*                                                                         *)
(* The chunker is a loop over the paragraphs, and PackInv its invariant:   *)
(* each token of them has a home in the chunks, in their order (Placed),   *)
(* and what stands together is found in one chunk (Unbroken).  A paragraph *)
(* is added as windows (WindowsAdd, WindowsFind) or behind the last chunk  *)
(* (SpliceAdds, SpliceCarry), and the overlap shifts the homes.  The loop  *)
(* is a recursive function: Recursion shows that there is one, Inductive   *)
(* that what each turn keeps holds of the last.                            *)
(***************************************************************************)
EXTENDS ChunkedIngest, FiniteSetTheorems, SequenceTheorems, WellFoundedInduction, TLAPS

Made(v, t) == \E mod \in Model : v = Vector(mod, t)

(* What the provider returned stands for the missing texts, in their order. *)
Fresh(c) ==
    \E mod \in Model :
        /\ redeploys = 0 => mod = FirstModel
        /\ fresh[c] = [k \in DOMAIN Misses(c) |-> Vector(mod, MissTexts(c)[k])]

(* A call between its lookup and its end. *)
LookedUp == {"acquire", "provider", "save", "merge"}

CallOf(c) ==
    /\ pc[c] \in Steps
    /\ texts[c] \in Seq(Text)
    /\ pc[c] \in {"lookup", "save", "merge"} => Kind[c] = "ingest"
    /\ pc[c] \in {"begin", "lookup"} => cached[c] = <<>>
    /\ cached[c] = <<>> \/ (cached[c] = [i \in 1 .. Len(texts[c]) |-> cached[c][i]])
    /\ pc[c] # "done" => result[c] = <<>>
    /\ result[c] = <<>> \/ (result[c] = [i \in 1 .. Len(texts[c]) |-> result[c][i]])
    /\ pc[c] \in LookedUp /\ Kind[c] = "ingest" =>
         /\ cached[c] = [i \in 1 .. Len(texts[c]) |-> cached[c][i]]
         /\ \A i \in 1 .. Len(texts[c]) : cached[c][i] # None => Made(cached[c][i], texts[c][i])
    /\ pc[c] = "save" /\ Len(fresh[c]) = Len(Misses(c)) => Fresh(c)
    /\ pc[c] = "merge" => Fresh(c)
    /\ Whole(c) =>
         /\ result[c] = [i \in 1 .. Len(texts[c]) |-> result[c][i]]
         /\ \A i \in 1 .. Len(texts[c]) : Made(result[c][i], texts[c][i])

CacheMade ==
    \A t \in DOMAIN cache :
        /\ Made(cache[t], t)
        /\ redeploys = 0 => cache[t] = Vector(FirstModel, t)

Models == model \in [Process -> Model] /\ redeploys \in Nat /\ (redeploys = 0 => \A p \in Process : model[p] = FirstModel)

Local ==
    /\ pc = [c \in Call |-> pc[c]] /\ texts = [c \in Call |-> texts[c]] /\ cached = [c \in Call |-> cached[c]]
    /\ fresh = [c \in Call |-> fresh[c]] /\ result = [c \in Call |-> result[c]]

IInv == Local /\ Models /\ CacheMade /\ \A c \in Call : CallOf(c)

-----------------------------------------------------------------------------
(* Sequences, and the positions of the misses *)

(* A function on 1 .. n is a sequence of length n. *)
LEMMA LenOf ==
  ASSUME NEW n \in Nat, NEW s, s = [i \in 1 .. n |-> s[i]]
  PROVE  DOMAIN s = 1 .. n /\ Len(s) = n
<1> DEFINE S == {s[i] : i \in 1 .. n}
<1>1. s \in [1 .. n -> S]
  OBVIOUS
<1>2. s \in Seq(S)
  <2> HIDE DEF S
  <2> QED BY <1>1
<1> QED BY <1>1, <1>2

LEMMA Largest ==
  ASSUME NEW n \in Nat, NEW K \in SUBSET (1 .. n), K # {}
  PROVE  \E k \in K : \A j \in K : j <= k
<1> DEFINE Above(k) == {j \in K : j > k}
           T == {Above(k) : k \in K}
<1>1. IsFiniteSet(K) /\ FiniteSubsetsOf(K) = SUBSET K
  <2>1. IsFiniteSet(1 .. n)
    BY FS_Interval
  <2>2. IsFiniteSet(K)
    BY <2>1, FS_Subset
  <2> QED BY <2>2, FS_FiniteSubsetsOfFinite
<1>2. T \subseteq FiniteSubsetsOf(K) /\ T # {}
  <2>1. \A k \in K : Above(k) \in SUBSET K
    OBVIOUS
  <2>2. PICK k \in K : TRUE
    OBVIOUS
  <2>3. T \subseteq SUBSET K /\ Above(k) \in T
    <3> HIDE DEF Above
    <3> QED BY <2>1
  <2> QED BY <1>1, <2>3
<1>3. PICK A \in T : \A B \in T : ~(<<B, A>> \in StrictSubsetOrdering(K))
  <2> HIDE DEF T
  <2> QED BY <1>2, FS_StrictSubsetOrderingWellFounded, WFMin
<1>4. PICK k \in K : A = Above(k)
  OBVIOUS
<1>5. ASSUME NEW j \in K, j > k PROVE FALSE
  <2>1. Above(j) \subseteq A /\ j \in A /\ j \notin Above(j)
    <3>1. \A x \in K : x \in Int
      OBVIOUS
    <3>2. \A x \in K : x > j => x > k
      BY <1>5, <3>1
    <3>3. ~(j > j)
      BY <3>1
    <3>4. Above(j) \subseteq Above(k) /\ j \in Above(k)
      BY <1>5, <3>2
    <3>5. j \notin Above(j)
      BY <3>3
    <3> HIDE DEF Above, T
    <3> QED BY <1>4, <3>4, <3>5
  <2>2. Above(j) \in T
    OBVIOUS
  <2>3. <<Above(j), A>> \in StrictSubsetOrdering(K)
    BY <2>1, <1>4 DEF StrictSubsetOrdering
  <2> QED BY <1>3, <2>2, <2>3
<1> QED BY <1>5

LEMMA GapsType ==
  ASSUME NEW c \in Call, NEW i \in Nat
  PROVE  /\ IsFiniteSet({j \in 1 .. i : cached[c][j] = None}) /\ Gaps(c, i) \in Nat
<1>1. IsFiniteSet(1 .. i)
  BY FS_Interval
<1>2. IsFiniteSet({j \in 1 .. i : cached[c][j] = None})
  BY <1>1, FS_Subset
<1> QED BY <1>2, FS_CardinalityType DEF Gaps

LEMMA MissesLen ==
  ASSUME NEW c \in Call, NEW n \in Nat, n = Len(cached[c])
  PROVE  /\ Gaps(c, n) \in Nat /\ DOMAIN Misses(c) = 1 .. Gaps(c, n) /\ Len(Misses(c)) = Gaps(c, n)
<1>1. Gaps(c, n) \in Nat
  BY GapsType
<1>2. PICK m \in Nat : m = Gaps(c, Len(cached[c]))
  BY <1>1
<1>3. PICK s : s = Misses(c)
  OBVIOUS
<1>4. s = [k \in 1 .. m |-> s[k]]
  BY <1>2, <1>3 DEF Misses
<1>5. DOMAIN s = 1 .. m /\ Len(s) = m
  BY <1>4, LenOf
<1> QED BY <1>2, <1>3, <1>5

(* The miss at position i is the one with its number. *)
LEMMA MissAt ==
  ASSUME NEW c \in Call, NEW n \in Nat, DOMAIN cached[c] = 1 .. n, n = Len(cached[c]),
         NEW i \in 1 .. n, cached[c][i] = None
  PROVE  Gaps(c, i) \in DOMAIN Misses(c) /\ Misses(c)[Gaps(c, i)] = i
<1> DEFINE G(j) == {x \in 1 .. j : cached[c][x] = None}
<1>1. \A j \in 0 .. n : IsFiniteSet(G(j)) /\ Gaps(c, j) \in Nat /\ Gaps(c, j) = Cardinality(G(j))
  BY GapsType DEF Gaps
<1>t. \A j \in Nat : Gaps(c, j) \in Nat
  BY GapsType
<1>2. \A j, k \in 0 .. n : j <= k => G(j) \subseteq G(k)
  OBVIOUS
<1>3. ASSUME NEW j \in 0 .. n, NEW k \in 0 .. n, j <= k
      PROVE  Gaps(c, j) <= Gaps(c, k) /\ (Gaps(c, j) = Gaps(c, k) => G(j) = G(k))
  <2>1. PICK A, B : A = G(j) /\ B = G(k)
    OBVIOUS
  <2>2. A \in SUBSET B /\ IsFiniteSet(B)
    BY <1>1, <1>2, <1>3, <2>1
  <2>3. Cardinality(A) <= Cardinality(B) /\ (Cardinality(B) = Cardinality(A) => B = A)
    BY <2>2, FS_Subset
  <2> QED BY <1>1, <2>1, <2>3
<1>4. Gaps(c, i) \in 1 .. Gaps(c, n)
  <2>1. i \in G(i)
    OBVIOUS
  <2>2. Gaps(c, i) # 0
    <3>1. PICK A : A = G(i)
      OBVIOUS
    <3>2. IsFiniteSet(A) /\ A # {}
      BY <1>1, <2>1, <3>1
    <3>3. Cardinality(A) # 0
      BY <3>2, FS_EmptySet
    <3>4. Gaps(c, i) = Cardinality(A)
      BY <3>1 DEF Gaps
    <3> QED BY <3>3, <3>4
  <2>3. Gaps(c, i) <= Gaps(c, n)
    BY <1>3
  <2>4. Gaps(c, i) \in Nat /\ Gaps(c, n) \in Nat
    BY <1>t
  <2> QED BY <2>2, <2>3, <2>4
<1>5. ASSUME NEW j \in 1 .. n, cached[c][j] = None, Gaps(c, j) = Gaps(c, i) PROVE j = i
  <2>1. i \in G(i) /\ j \in G(j)
    BY <1>5
  <2>2. CASE i <= j
    BY <1>3, <1>5, <2>1, <2>2
  <2>3. CASE j <= i
    BY <1>3, <1>5, <2>1, <2>3
  <2> QED BY <2>2, <2>3
<1>6. Misses(c)[Gaps(c, i)] = CHOOSE x \in DOMAIN cached[c] : cached[c][x] = None /\ Gaps(c, x) = Gaps(c, i)
  BY <1>4 DEF Misses
<1>7. (CHOOSE x \in DOMAIN cached[c] : cached[c][x] = None /\ Gaps(c, x) = Gaps(c, i)) = i
  BY <1>5
<1> QED BY <1>4, <1>6, <1>7, MissesLen
LEMMA RemovedLen ==
  ASSUME NEW m \in Nat, NEW s, s = [i \in 1 .. m |-> s[i]], NEW k \in 1 .. m
  PROVE  Len(RemoveAt(s, k)) # m
<1> DEFINE S == {s[i] : i \in 1 .. m}
<1>1. s \in Seq(S) /\ Len(s) = m
  <2>1. s \in [1 .. m -> S] /\ Len(s) = m
    BY LenOf
  <2> HIDE DEF S
  <2> QED BY <2>1
<1>2. SubSeq(s, 1, k - 1) \in Seq(S) /\ Len(SubSeq(s, 1, k - 1)) = k - 1
  <2> HIDE DEF S
  <2> QED BY <1>1
<1>3. SubSeq(s, k + 1, m) \in Seq(S) /\ Len(SubSeq(s, k + 1, m)) = m - k
  <2> HIDE DEF S
  <2> QED BY <1>1
<1>4. Len(RemoveAt(s, k)) = (k - 1) + (m - k)
  <2> HIDE DEF S
  <2>1. PICK a, b \in Seq(S) : /\ a = SubSeq(s, 1, k - 1) /\ Len(a) = k - 1
                               /\ b = SubSeq(s, k + 1, m) /\ Len(b) = m - k
    BY <1>2, <1>3
  <2>2. RemoveAt(s, k) = a \o b
    BY <1>1, <2>1 DEF RemoveAt
  <2> QED BY <2>1, <2>2
<1> QED BY <1>4

-----------------------------------------------------------------------------
(* The calls, one step at a time *)

LEMMA FreshKept ==
  ASSUME NEW c \in Call, cached'[c] = cached[c], texts'[c] = texts[c], fresh'[c] = fresh[c],
         redeploys' = 0 => redeploys = 0
  PROVE  Misses(c)' = Misses(c) /\ MissTexts(c)' = MissTexts(c) /\ (Fresh(c) => Fresh(c)')
<1>1. \A i : Gaps(c, i)' = Gaps(c, i)
  BY DEF Gaps
<1>2. Misses(c)' = Misses(c)
  BY <1>1 DEF Misses
<1>3. MissTexts(c)' = MissTexts(c)
  BY <1>2 DEF MissTexts
<1> QED BY <1>2, <1>3 DEF Fresh

LEMMA CallFrame ==
  ASSUME NEW c \in Call, CallOf(c), UNCHANGED <<pc[c], texts[c], cached[c], fresh[c], result[c]>>,
         redeploys' = 0 => redeploys = 0
  PROVE  CallOf(c)'
BY FreshKept DEF CallOf, Whole

LEMMA CallFails ==
  ASSUME NEW c \in Call, CallOf(c), pc'[c] = "failed", pc[c] # "done",
         UNCHANGED <<texts[c], cached[c], fresh[c], result[c]>>
  PROVE  CallOf(c)'
BY DEF CallOf, Whole, Steps, LookedUp

(* Only c is at another step; the others are where they were. *)
LEMMA OthersStay ==
  ASSUME IInv, NEW c \in Call, CallOf(c)',
         \A d \in Call \ {c} : UNCHANGED <<pc[d], texts[d], cached[d], fresh[d], result[d]>>,
         redeploys' = redeploys
  PROVE  \A d \in Call : CallOf(d)'
BY CallFrame DEF IInv

LEMMA BeginCall ==
  ASSUME IInv, NEW c \in Call, Begin(c)
  PROVE  CallOf(c)'
<1>1. /\ CallOf(c) /\ pc[c] = "begin" /\ cached[c] = <<>> /\ result[c] = <<>>
      /\ UNCHANGED <<cached, result>>
  BY DEF Begin, IInv, CallOf
<1>2. CASE Kind[c] = "chat"
  <2>1. pc'[c] = "acquire" /\ UNCHANGED texts
    BY <1>2 DEF Begin, GoTo, IInv, Local
  <2> QED BY <1>1, <1>2, <2>1 DEF CallOf, Whole, Steps, LookedUp
<1>3. ASSUME Kind[c] # "chat", NEW d \in Documents[c], texts' = [texts EXCEPT ![c] = Cut[d]],
             GoTo(c, IF Cut[d] = <<>> THEN "done" ELSE "lookup")
      PROVE  CallOf(c)'
  <2>1. Kind[c] = "ingest" /\ Cut[d] \in Seq(Text) /\ texts'[c] = Cut[d]
    BY <1>3, CallAssumption DEF IInv, Local
  <2>2. CASE Cut[d] = <<>>
    <3>1. pc'[c] = "done" /\ texts'[c] = <<>> /\ Len(<<>>) = 0
      BY <1>3, <2>1, <2>2 DEF GoTo, IInv, Local
    <3>2. <<>> = [i \in 1 .. 0 |-> <<>>[i]]
      OBVIOUS
    <3>3. \A i : i \notin 1 .. 0
      OBVIOUS
    <3> QED BY <1>1, <2>1, <3>1, <3>2, <3>3 DEF CallOf, Whole, Steps, LookedUp
  <2>3. CASE Cut[d] # <<>>
    <3>1. pc'[c] = "lookup"
      BY <1>3, <2>3 DEF GoTo, IInv, Local
    <3> QED BY <1>1, <2>1, <3>1 DEF CallOf, Whole, Steps, LookedUp
  <2> QED BY <2>2, <2>3
<1> QED BY <1>2, <1>3 DEF Begin

LEMMA LookupCall ==
  ASSUME IInv, NEW c \in Call, Lookup(c)
  PROVE  CallOf(c)'
<1>1. /\ CallOf(c) /\ pc[c] = "lookup" /\ Kind[c] = "ingest" /\ result[c] = <<>> /\ UNCHANGED texts
      /\ texts[c] \in Seq(Text) /\ DOMAIN texts[c] = 1 .. Len(texts[c])
  <2>1. CallOf(c) /\ pc[c] = "lookup" /\ UNCHANGED texts
    BY DEF Lookup, IInv
  <2>2. texts[c] \in Seq(Text) /\ Kind[c] = "ingest" /\ result[c] = <<>>
    BY <2>1 DEF CallOf
  <2> QED BY <2>1, <2>2
<1>2. cached'[c] = [i \in 1 .. Len(texts[c]) |-> Cached(texts[c][i])]
  BY <1>1 DEF Lookup, IInv, Local
<1>3. cached'[c] = [i \in 1 .. Len(texts[c]) |-> cached'[c][i]]
  BY <1>2
<1>4. \A i \in 1 .. Len(texts[c]) : cached'[c][i] # None => Made(cached'[c][i], texts[c][i])
  BY <1>2 DEF Cached, IInv, CacheMade
<1>5. CASE None \in Range(cached'[c])
  <2>1. pc'[c] = "acquire" /\ UNCHANGED result
    BY <1>5 DEF Lookup, GoTo, IInv, Local
  <2> QED BY <1>1, <1>3, <1>4, <2>1 DEF CallOf, Whole, Steps, LookedUp
<1>6. CASE None \notin Range(cached'[c])
  <2>1. pc'[c] = "done" /\ result'[c] = cached'[c]
    BY <1>6 DEF Lookup, GoTo, IInv, Local
  <2>2. \A i \in 1 .. Len(texts[c]) : cached'[c][i] # None
    BY <1>2, <1>6 DEF Range
  <2> QED BY <1>1, <1>3, <1>4, <2>1, <2>2 DEF CallOf, Whole, Steps, LookedUp
<1> QED BY <1>5, <1>6

LEMMA AcquireCall ==
  ASSUME IInv, NEW c \in Call, Acquire(c)
  PROVE  CallOf(c)'
<1>1. CallOf(c) /\ pc[c] = "acquire" /\ pc'[c] = "provider" /\ UNCHANGED <<texts, cached, fresh, result>>
  BY DEF Acquire, GoTo, IInv, Local, callVars
<1> QED BY <1>1 DEF CallOf, Whole, Steps, LookedUp

LEMMA AnswerCall ==
  ASSUME IInv, NEW c \in Call, Answer(c)
  PROVE  CallOf(c)'
<1>1. CallOf(c) /\ pc[c] = "provider" /\ UNCHANGED <<texts, cached, result, redeploys>>
  BY DEF Answer, IInv, boundVars
<1>2. CASE Kind[c] = "chat"
  <2>1. pc'[c] = "done"
    BY <1>2 DEF Answer, GoTo, IInv, Local
  <2> QED BY <1>1, <1>2, <2>1 DEF CallOf, Whole, Steps, LookedUp
<1>3. CASE Kind[c] # "chat"
  <2>1. /\ pc'[c] = "save" /\ Kind[c] = "ingest"
        /\ fresh'[c] = [k \in DOMAIN Misses(c) |-> Vector(model[Host[c]], MissTexts(c)[k])]
    BY <1>3, CallAssumption DEF Answer, GoTo, IInv, Local
  <2>2. Misses(c)' = Misses(c) /\ MissTexts(c)' = MissTexts(c)
    <3>1. \A i : Gaps(c, i)' = Gaps(c, i)
      BY <1>1 DEF Gaps
    <3>2. Misses(c)' = Misses(c)
      BY <1>1, <3>1 DEF Misses
    <3> QED BY <1>1, <3>2 DEF MissTexts
  <2>3. model[Host[c]] \in Model /\ (redeploys = 0 => model[Host[c]] = FirstModel)
    BY CallAssumption DEF IInv, Models
  <2>4. Fresh(c)'
    BY <1>1, <2>1, <2>2, <2>3 DEF Fresh
  <2> QED BY <1>1, <2>1, <2>4 DEF CallOf, Whole, Steps, LookedUp
<1> QED BY <1>2, <1>3

LEMMA AnswerShortCall ==
  ASSUME IInv, NEW c \in Call, AnswerShort(c)
  PROVE  CallOf(c)'
<1>1. CallOf(c) /\ pc[c] = "provider" /\ Kind[c] = "ingest" /\ UNCHANGED <<texts, cached, result>> /\ pc'[c] = "save"
  BY DEF AnswerShort, GoTo, IInv, Local
<1>2. PICK k \in DOMAIN Misses(c) :
        fresh'[c] = RemoveAt([j \in DOMAIN Misses(c) |-> Vector(model[Host[c]], MissTexts(c)[j])], k)
  BY DEF AnswerShort, IInv, Local
<1>3. PICK m \in Nat : DOMAIN Misses(c) = 1 .. m /\ Len(Misses(c)) = m
  <2>1. cached[c] = [i \in 1 .. Len(texts[c]) |-> cached[c][i]] /\ Len(texts[c]) \in Nat
    BY <1>1 DEF CallOf, LookedUp
  <2>2. Len(cached[c]) = Len(texts[c])
    BY <2>1, LenOf
  <2> QED BY <2>1, <2>2, MissesLen
<1>4. Len(fresh'[c]) # m
  <2>1. PICK s : s = [j \in DOMAIN Misses(c) |-> Vector(model[Host[c]], MissTexts(c)[j])]
    OBVIOUS
  <2>2. s = [j \in 1 .. m |-> s[j]] /\ k \in 1 .. m
    BY <1>3, <2>1
  <2> QED BY <1>2, <2>1, <2>2, RemovedLen
<1>5. Len(Misses(c)') = m
  <2>1. \A i : Gaps(c, i)' = Gaps(c, i)
    BY <1>1 DEF Gaps
  <2>2. Misses(c)' = Misses(c)
    BY <1>1, <2>1 DEF Misses
  <2> QED BY <1>3, <2>2
<1> QED BY <1>1, <1>4, <1>5 DEF CallOf, Whole, Steps, LookedUp

LEMMA SaveCall ==
  ASSUME IInv, NEW c \in Call, Save(c)
  PROVE  CallOf(c)'
<1>1. CallOf(c) /\ pc[c] = "save" /\ UNCHANGED <<texts, cached, fresh, result, redeploys>>
  BY DEF Save, IInv, callVars, boundVars
<1>2. CASE Len(fresh[c]) = Len(Misses(c))
  <2>1. pc'[c] = "merge"
    BY <1>2 DEF Save, GoTo, IInv, Local
  <2>2. Fresh(c)'
    BY <1>1, <1>2, FreshKept DEF CallOf
  <2> QED BY <1>1, <2>1, <2>2 DEF CallOf, Whole, Steps, LookedUp
<1>3. CASE Len(fresh[c]) # Len(Misses(c))
  <2>1. pc'[c] = "failed"
    BY <1>3 DEF Save, GoTo, IInv, Local
  <2> QED BY <1>1, <2>1, CallFails
<1> QED BY <1>2, <1>3

(* The hits are of their texts, and the fresh vectors fall into the gaps they were made for. *)
LEMMA MergeCall ==
  ASSUME IInv, NEW c \in Call, Merge(c)
  PROVE  CallOf(c)'
<1>1. CallOf(c) /\ pc[c] = "merge" /\ pc'[c] = "done" /\ Kind[c] = "ingest" /\ UNCHANGED <<texts, cached, fresh>>
  BY DEF Merge, GoTo, IInv, Local, CallOf
<1>2. PICK n \in Nat : n = Len(texts[c])
  BY <1>1 DEF CallOf
<1>3. /\ cached[c] = [i \in 1 .. n |-> cached[c][i]]
      /\ \A i \in 1 .. n : cached[c][i] # None => Made(cached[c][i], texts[c][i])
  BY <1>1, <1>2 DEF CallOf, LookedUp
<1>4. DOMAIN cached[c] = 1 .. n /\ Len(cached[c]) = n
  BY <1>3, LenOf
<1>5. PICK mod \in Model : fresh[c] = [k \in DOMAIN Misses(c) |-> Vector(mod, MissTexts(c)[k])]
  BY <1>1 DEF CallOf, Fresh
<1>6. result'[c] = [i \in 1 .. n |-> IF cached[c][i] # None THEN cached[c][i] ELSE fresh[c][Gaps(c, i)]]
  BY <1>4 DEF Merge, IInv, Local
<1>7. ASSUME NEW i \in 1 .. n PROVE Made(result'[c][i], texts[c][i])
  <2>1. CASE cached[c][i] # None
    BY <1>3, <1>6, <2>1
  <2>2. CASE cached[c][i] = None
    <3>1. Gaps(c, i) \in DOMAIN Misses(c) /\ Misses(c)[Gaps(c, i)] = i
      BY <1>4, <2>2, MissAt
    <3>2. MissTexts(c)[Gaps(c, i)] = texts[c][i]
      BY <3>1 DEF MissTexts
    <3>3. result'[c][i] = Vector(mod, texts[c][i])
      BY <1>5, <1>6, <2>2, <3>1, <3>2
    <3> QED BY <3>3 DEF Made
  <2> QED BY <2>1, <2>2
<1>8. result'[c] = [i \in 1 .. n |-> result'[c][i]]
  BY <1>6
<1> QED BY <1>1, <1>2, <1>7, <1>8 DEF CallOf, Whole, Steps, LookedUp
-----------------------------------------------------------------------------
(* The cache *)

(* A pipeline stores each missing text with a vector of it, the last one if the text repeats. *)
LEMMA StoredMade ==
  ASSUME IInv, NEW c \in Call, pc[c] = "save", Len(fresh[c]) = Len(Misses(c)), NEW t \in DOMAIN Stored(c)
  PROVE  Made(Stored(c)[t], t) /\ (redeploys = 0 => Stored(c)[t] = Vector(FirstModel, t))
<1>1. PICK mod \in Model : /\ redeploys = 0 => mod = FirstModel
                           /\ fresh[c] = [k \in DOMAIN Misses(c) |-> Vector(mod, MissTexts(c)[k])]
  BY DEF IInv, CallOf, Fresh
<1>2. PICK m \in Nat : DOMAIN Misses(c) = 1 .. m
  <2>1. CallOf(c) /\ Kind[c] = "ingest"
    BY DEF IInv, CallOf
  <2>2. cached[c] = [i \in 1 .. Len(texts[c]) |-> cached[c][i]] /\ Len(texts[c]) \in Nat
    BY <2>1 DEF CallOf, LookedUp
  <2>3. Len(cached[c]) = Len(texts[c])
    BY <2>2, LenOf
  <2> QED BY <2>2, <2>3, MissesLen
<1>3. DOMAIN MissTexts(c) = 1 .. m /\ DOMAIN fresh[c] = 1 .. m
  BY <1>1, <1>2 DEF MissTexts
<1>4. CASE t \in Range(MissTexts(c))
  <2> DEFINE K == {k \in 1 .. m : MissTexts(c)[k] = t}
  <2>1. PICK k \in K : \A j \in K : j <= k
    <3>1. K \in SUBSET (1 .. m) /\ K # {}
      BY <1>3, <1>4 DEF Range
    <3> HIDE DEF K
    <3> QED BY <3>1, Largest
  <2> DEFINE FromLast(x) == MissTexts(c)[x] = t /\ \A j \in DOMAIN fresh[c] : MissTexts(c)[j] = t => j <= x
  <2>2. k \in DOMAIN fresh[c] /\ FromLast(k)
    BY <1>3, <2>1
  <2>3. PICK x \in DOMAIN fresh[c] : x = (CHOOSE y \in DOMAIN fresh[c] : FromLast(y)) /\ MissTexts(c)[x] = t
    BY <2>2
  <2>4. Stored(c)[t] = fresh[c][x]
    BY <1>4, <2>3 DEF Stored
  <2>5. fresh[c][x] = Vector(mod, t)
    BY <1>1, <1>3, <2>3
  <2> QED BY <1>1, <2>4, <2>5 DEF Made
<1>5. CASE t \notin Range(MissTexts(c))
  <2>1. t \in DOMAIN cache /\ Stored(c)[t] = cache[t]
    BY <1>5 DEF Stored
  <2> QED BY <2>1 DEF IInv, CacheMade
<1> QED BY <1>4, <1>5

LEMMA CacheStep == IInv /\ [Next]_vars => CacheMade'
<1> SUFFICES ASSUME IInv, [Next]_vars PROVE CacheMade'
  OBVIOUS
<1>k. ASSUME cache' = cache, redeploys' = 0 => redeploys = 0 PROVE CacheMade'
  BY <1>k DEF IInv, CacheMade
<1>1. CASE UNCHANGED vars
  BY <1>1, <1>k DEF vars, boundVars
<1>2. ASSUME NEW c \in Call, Begin(c) \/ Lookup(c) \/ Acquire(c) \/ Answer(c) \/ Merge(c) PROVE CacheMade'
  BY <1>2, <1>k DEF Begin, Lookup, Acquire, Answer, Merge, boundVars
<1>3. ASSUME NEW c \in Call, AnswerShort(c) \/ AnswerError(c) PROVE CacheMade'
  BY <1>3, <1>k DEF AnswerShort, AnswerError, Fault
<1>4. ASSUME NEW c \in Call, Save(c) \/ RedisError(c) PROVE CacheMade'
  <2>1. redeploys' = redeploys
    BY <1>4 DEF Save, RedisError, Fault, boundVars
  <2>2. cache' = cache \/ (cache' = Stored(c) /\ pc[c] = "save" /\ Len(fresh[c]) = Len(Misses(c)))
    BY <1>4 DEF Save, RedisError
  <2>3. CASE cache' = Stored(c) /\ pc[c] = "save" /\ Len(fresh[c]) = Len(Misses(c))
    BY <2>1, <2>3, StoredMade DEF CacheMade
  <2> QED BY <1>k, <2>1, <2>2, <2>3
<1>5. ASSUME NEW text, Expire(text) PROVE CacheMade'
  <2>1. redeploys' = redeploys /\ \A t \in DOMAIN cache' : t \in DOMAIN cache /\ cache'[t] = cache[t]
    BY <1>5 DEF Expire
  <2> QED BY <2>1 DEF IInv, CacheMade
<1>6. ASSUME NEW p \in Process, Redeploy(p) PROVE CacheMade'
  <2>1. cache' = cache /\ redeploys' # 0
    BY <1>6 DEF Redeploy, IInv, Models
  <2> QED BY <1>k, <2>1
<1> QED BY <1>1, <1>2, <1>3, <1>4, <1>5, <1>6 DEF Next, Step

LEMMA ModelsStep == IInv /\ [Next]_vars => Models'
<1> SUFFICES ASSUME IInv, [Next]_vars PROVE Models'
  OBVIOUS
<1>k. ASSUME UNCHANGED <<model, redeploys>> PROVE Models'
  BY <1>k DEF IInv, Models
<1>1. CASE UNCHANGED vars
  BY <1>1, <1>k DEF vars, boundVars
<1>2. ASSUME NEW c \in Call, Begin(c) \/ Step(c) \/ AnswerShort(c) \/ AnswerError(c) \/ RedisError(c) PROVE Models'
  BY <1>2, <1>k DEF Begin, Step, Lookup, Acquire, Answer, Save, Merge, AnswerShort, AnswerError, RedisError, Fault, boundVars
<1>3. ASSUME NEW text, Expire(text) PROVE Models'
  BY <1>3, <1>k DEF Expire
<1>4. ASSUME NEW p \in Process, Redeploy(p) PROVE Models'
  BY <1>4 DEF Redeploy, IInv, Models
<1> QED BY <1>1, <1>2, <1>3, <1>4 DEF Next

LEMMA CallsStep == IInv /\ [Next]_vars => Local' /\ \A c \in Call : CallOf(c)'
<1> SUFFICES ASSUME IInv, [Next]_vars PROVE Local' /\ \A c \in Call : CallOf(c)'
  OBVIOUS
<1>1. CASE UNCHANGED vars
  BY <1>1, CallFrame DEF IInv, Local, vars, callVars, boundVars
<1>2. ASSUME NEW c \in Call, Begin(c) \/ Step(c) \/ AnswerShort(c) \/ AnswerError(c) \/ RedisError(c)
      PROVE  Local' /\ \A d \in Call : CallOf(d)'
  <2>1. /\ Local' /\ redeploys' = redeploys
        /\ \A d \in Call \ {c} : UNCHANGED <<pc[d], texts[d], cached[d], fresh[d], result[d]>>
    <3> USE DEF GoTo, Fault, IInv, Local, callVars, boundVars
    <3>1. CASE Begin(c)
      BY <3>1 DEF Begin
    <3>2. CASE Lookup(c)
      BY <3>2 DEF Lookup
    <3>3. CASE Acquire(c)
      BY <3>3 DEF Acquire
    <3>4. CASE Answer(c)
      BY <3>4 DEF Answer
    <3>5. CASE AnswerShort(c)
      BY <3>5 DEF AnswerShort
    <3>6. CASE Save(c)
      BY <3>6 DEF Save
    <3>7. CASE Merge(c)
      BY <3>7 DEF Merge
    <3>8. CASE AnswerError(c) \/ RedisError(c)
      BY <3>8 DEF AnswerError, RedisError
    <3> QED BY <1>2, <3>1, <3>2, <3>3, <3>4, <3>5, <3>6, <3>7, <3>8 DEF Step
  <2>2. CASE AnswerError(c) \/ RedisError(c)
    <3>1. /\ CallOf(c) /\ pc'[c] = "failed" /\ pc[c] # "done"
          /\ UNCHANGED <<texts[c], cached[c], fresh[c], result[c]>>
      BY <2>2 DEF AnswerError, RedisError, GoTo, IInv, Local, callVars
    <3>2. CallOf(c)'
      BY <3>1, CallFails
    <3> QED BY <2>1, <3>2, OthersStay
  <2>3. CASE Begin(c) \/ Step(c) \/ AnswerShort(c)
    <3>1. CallOf(c)'
      BY <2>3, BeginCall, LookupCall, AcquireCall, AnswerCall, AnswerShortCall, SaveCall, MergeCall DEF Step
    <3> QED BY <2>1, <3>1, OthersStay
  <2> QED BY <1>2, <2>1, <2>2, <2>3
<1>3. ASSUME NEW text, Expire(text) PROVE Local' /\ \A c \in Call : CallOf(c)'
  BY <1>3, CallFrame DEF Expire, IInv, Local, callVars
<1>4. ASSUME NEW p \in Process, Redeploy(p) PROVE Local' /\ \A c \in Call : CallOf(c)'
  <2>1. /\ UNCHANGED <<texts, cached, fresh, result>> /\ redeploys' # 0
        /\ pc' = [c \in Call |-> IF Host[c] = p /\ pc[c] \notin Ended \cup {"begin"} THEN "failed" ELSE pc[c]]
    BY <1>4 DEF Redeploy, callVars, IInv, Models
  <2>2. ASSUME NEW c \in Call PROVE CallOf(c)'
    <3>1. CallOf(c)
      BY DEF IInv
    <3>2. CASE Host[c] = p /\ pc[c] \notin Ended \cup {"begin"}
      BY <2>1, <3>1, <3>2, CallFails DEF Ended
    <3>3. CASE ~(Host[c] = p /\ pc[c] \notin Ended \cup {"begin"})
      BY <2>1, <3>1, <3>3, CallFrame
    <3> QED BY <3>2, <3>3
  <2> QED BY <2>1, <2>2 DEF IInv, Local
<1> QED BY <1>1, <1>2, <1>3, <1>4 DEF Next

LEMMA InitInv == Init => IInv
<1> SUFFICES ASSUME Init PROVE IInv
  OBVIOUS
<1>1. Local /\ Models /\ CacheMade
  BY CallAssumption DEF Init, Local, Models, CacheMade
<1>2. ASSUME NEW c \in Call PROVE CallOf(c)
  <2>1. /\ pc[c] = "begin" /\ texts[c] = <<>> /\ cached[c] = <<>> /\ result[c] = <<>>
    BY DEF Init
  <2> QED BY <2>1 DEF CallOf, Steps, LookedUp, Whole
<1> QED BY <1>1, <1>2 DEF IInv

LEMMA Invariance == Spec => []IInv
<1>1. IInv /\ [Next]_vars => IInv'
  BY CacheStep, ModelsStep, CallsStep DEF IInv
<1> QED BY <1>1, InitInv, PTL DEF Spec

(* While no process changes its provider, the cache holds for a text what the model would answer, *)
(* whatever errors, short replies, expiries and races there are (document_service.py:186).        *)
THEOREM CacheStaysSound == Spec => []CacheSound
<1>1. IInv => CacheSound
  BY DEF IInv, CacheMade, CacheSound
<1> QED BY <1>1, Invariance, PTL

(* An ingest stores each chunk with a vector of its own text, whatever the chunker made of the document *)
(* and however many of its texts were cached, expired or repeated (document_service.py:192).            *)
THEOREM VectorsAreTheirs == Spec => []ChunksGetTheirVectors
<1>1. IInv => ChunksGetTheirVectors
  <2> SUFFICES ASSUME IInv, NEW c \in Call, Whole(c)
               PROVE  /\ Len(result[c]) = Len(texts[c])
                      /\ \A i \in DOMAIN texts[c] : result[c][i] = Vector(result[c][i].model, texts[c][i])
    BY DEF ChunksGetTheirVectors
  <2>1. /\ texts[c] \in Seq(Text)
        /\ result[c] = [i \in 1 .. Len(texts[c]) |-> result[c][i]]
        /\ \A i \in 1 .. Len(texts[c]) : Made(result[c][i], texts[c][i])
    BY DEF IInv, CallOf
  <2>2. DOMAIN texts[c] = 1 .. Len(texts[c]) /\ Len(texts[c]) \in Nat
    BY <2>1
  <2>3. Len(result[c]) = Len(texts[c])
    BY <2>1, <2>2, LenOf
  <2>4. ASSUME NEW v, NEW t, Made(v, t) PROVE v = Vector(v.model, t)
    BY <2>4 DEF Made, Vector
  <2>5. ASSUME NEW i \in DOMAIN texts[c] PROVE result[c][i] = Vector(result[c][i].model, texts[c][i])
    <3>1. Made(result[c][i], texts[c][i])
      BY <2>1, <2>2
    <3> QED BY <2>4, <3>1
  <2> QED BY <2>3, <2>5
<1> QED BY <1>1, Invariance, PTL
-----------------------------------------------------------------------------
(* The semaphore of a process *)

AtProvider(p) == {c \in Call : Host[c] = p /\ pc[c] = "provider" /\ model[p] # Demo}

Permits ==
    /\ permits \in [Process -> Nat]
    /\ \A p \in Process : permits[p] + Cardinality(AtProvider(p)) = MaxConcurrency

LEMMA AtProviderType ==
  ASSUME NEW p
  PROVE  IsFiniteSet(AtProvider(p)) /\ Cardinality(AtProvider(p)) \in Nat
<1>1. IsFiniteSet(AtProvider(p))
  BY CallAssumption, FS_Subset DEF AtProvider
<1> QED BY <1>1, FS_CardinalityType

(* A step that leaves the permits and the callers of every process as they are. *)
LEMMA PermitsFrame ==
  ASSUME Permits, UNCHANGED permits, \A p \in Process : AtProvider(p)' = AtProvider(p)
  PROVE  Permits'
BY DEF Permits

(* A call takes a permit and goes to the provider. *)
LEMMA PermitTaken ==
  ASSUME IInv, Permits, NEW c \in Call, Acquire(c)
  PROVE  Permits'
<1> DEFINE h == Host[c]
<1>1. h \in Process /\ model' = model /\ pc[c] = "acquire" /\ pc' = [pc EXCEPT ![c] = "provider"]
  BY CallAssumption DEF Acquire, GoTo
<1>2. \A p \in Process \ {h} : AtProvider(p)' = AtProvider(p)
  BY <1>1 DEF AtProvider, IInv, Local
<1>3. CASE model[h] = Demo
  <2>1. AtProvider(h)' = AtProvider(h)
    BY <1>1, <1>3 DEF AtProvider
  <2>2. UNCHANGED permits
    BY <1>3 DEF Acquire
  <2> QED BY <1>2, <2>1, <2>2, PermitsFrame
<1>4. CASE model[h] # Demo
  <2>1. permits[h] > 0 /\ permits' = [permits EXCEPT ![h] = @ - 1]
    BY <1>4 DEF Acquire
  <2>2. AtProvider(h)' = AtProvider(h) \cup {c} /\ c \notin AtProvider(h)
    BY <1>1, <1>4 DEF AtProvider, IInv, Local
  <2>3. Cardinality(AtProvider(h)') = Cardinality(AtProvider(h)) + 1
    BY <2>2, AtProviderType, FS_AddElement
  <2>4. \A k, m \in Nat : k > 0 => k - 1 \in Nat /\ (k + m = MaxConcurrency => (k - 1) + (m + 1) = MaxConcurrency)
    BY CallAssumption
  <2>5. permits[h] \in Nat /\ permits[h] - 1 \in Nat
        /\ (permits[h] - 1) + (Cardinality(AtProvider(h)) + 1) = MaxConcurrency
    BY <1>1, <2>1, <2>4, AtProviderType DEF Permits
  <2>6. permits' \in [Process -> Nat] /\ permits'[h] = permits[h] - 1
        /\ \A p \in Process \ {h} : permits'[p] = permits[p]
    BY <1>1, <2>1, <2>5 DEF Permits
  <2> QED BY <1>2, <2>3, <2>5, <2>6 DEF Permits
<1> QED BY <1>3, <1>4

(* Whatever the answer is, the call leaves the provider with its permit given back. *)
LEMMA PermitReturned ==
  ASSUME IInv, Permits, NEW c \in Call, pc[c] = "provider", NEW step, step # "provider",
         GoTo(c, step), Release(c), UNCHANGED model
  PROVE  Permits'
<1> DEFINE h == Host[c]
<1>1. h \in Process /\ pc' = [pc EXCEPT ![c] = step]
  BY CallAssumption DEF GoTo
<1>2. \A p \in Process \ {h} : AtProvider(p)' = AtProvider(p)
  BY <1>1 DEF AtProvider, IInv, Local
<1>3. CASE model[h] = Demo
  <2>1. AtProvider(h)' = AtProvider(h)
    BY <1>3 DEF AtProvider
  <2>2. UNCHANGED permits
    BY <1>3 DEF Release
  <2> QED BY <1>2, <2>1, <2>2, PermitsFrame
<1>4. CASE model[h] # Demo
  <2>1. permits' = [permits EXCEPT ![h] = @ + 1]
    BY <1>4 DEF Release
  <2>2. AtProvider(h)' = AtProvider(h) \ {c} /\ c \in AtProvider(h)
    BY <1>1, <1>4 DEF AtProvider, IInv, Local
  <2>3. Cardinality(AtProvider(h)') = Cardinality(AtProvider(h)) - 1
    BY <2>2, AtProviderType, FS_RemoveElement
  <2>4. \A k, m \in Nat : k + 1 \in Nat /\ (k + m = MaxConcurrency => (k + 1) + (m - 1) = MaxConcurrency)
    BY CallAssumption
  <2>5. permits[h] \in Nat /\ permits[h] + 1 \in Nat
        /\ (permits[h] + 1) + (Cardinality(AtProvider(h)) - 1) = MaxConcurrency
    BY <1>1, <2>4, AtProviderType DEF Permits
  <2>6. permits' \in [Process -> Nat] /\ permits'[h] = permits[h] + 1
        /\ \A p \in Process \ {h} : permits'[p] = permits[p]
    BY <1>1, <2>1, <2>5 DEF Permits
  <2> QED BY <1>2, <2>3, <2>5, <2>6 DEF Permits
<1> QED BY <1>3, <1>4

(* A process that starts again has no call at its provider; the others keep theirs. *)
LEMMA PermitsAnew ==
  ASSUME IInv, Permits, NEW p \in Process, Redeploy(p)
  PROVE  Permits'
<1>1. /\ permits' = [permits EXCEPT ![p] = MaxConcurrency]
      /\ pc' = [c \in Call |-> IF Host[c] = p /\ pc[c] \notin Ended \cup {"begin"} THEN "failed" ELSE pc[c]]
      /\ \A q \in Process \ {p} : model'[q] = model[q]
  BY DEF Redeploy, IInv, Models
<1>2. AtProvider(p)' = {}
  BY <1>1 DEF AtProvider, Ended
<1>3. \A q \in Process \ {p} : AtProvider(q)' = AtProvider(q)
  BY <1>1 DEF AtProvider
<1>4. MaxConcurrency \in Nat /\ MaxConcurrency + 0 = MaxConcurrency
  BY CallAssumption
<1>5. Cardinality(AtProvider(p)') = 0
  BY <1>2, FS_EmptySet
<1>6. /\ permits' \in [Process -> Nat] /\ permits'[p] = MaxConcurrency
      /\ \A q \in Process \ {p} : permits'[q] = permits[q]
  BY <1>1, <1>4 DEF Permits
<1> QED BY <1>3, <1>4, <1>5, <1>6 DEF Permits

LEMMA PermitsStep == IInv /\ Permits /\ [Next]_vars => Permits'
<1> SUFFICES ASSUME IInv, Permits, [Next]_vars PROVE Permits'
  OBVIOUS
<1>1. CASE UNCHANGED vars
  BY <1>1, PermitsFrame DEF vars, AtProvider
<1>2. ASSUME NEW c \in Call, pc[c] # "provider", NEW step, step # "provider", GoTo(c, step), UNCHANGED <<permits, model>>
      PROVE  Permits'
  <2>1. \A p \in Process : AtProvider(p)' = AtProvider(p)
    BY <1>2 DEF AtProvider, GoTo, IInv, Local
  <2> QED BY <1>2, <2>1, PermitsFrame
<1>3. ASSUME NEW c \in Call, Begin(c) PROVE Permits'
  BY <1>2, <1>3 DEF Begin
<1>4. ASSUME NEW c \in Call, Lookup(c) PROVE Permits'
  BY <1>2, <1>4 DEF Lookup
<1>5. ASSUME NEW c \in Call, Answer(c) PROVE Permits'
  BY <1>5, PermitReturned DEF Answer
<1>6. ASSUME NEW c \in Call, AnswerShort(c) PROVE Permits'
  BY <1>6, PermitReturned DEF AnswerShort
<1>7. ASSUME NEW c \in Call, AnswerError(c) PROVE Permits'
  BY <1>7, PermitReturned DEF AnswerError
<1>8. ASSUME NEW c \in Call, Save(c) PROVE Permits'
  BY <1>2, <1>8 DEF Save
<1>9. ASSUME NEW c \in Call, RedisError(c) PROVE Permits'
  BY <1>2, <1>9 DEF RedisError
<1>10. ASSUME NEW c \in Call, Merge(c) PROVE Permits'
  BY <1>2, <1>10 DEF Merge
<1>11. ASSUME NEW text, Expire(text) PROVE Permits'
  <2>1. \A p \in Process : AtProvider(p)' = AtProvider(p)
    BY <1>11 DEF AtProvider, Expire
  <2> QED BY <1>11, <2>1, PermitsFrame DEF Expire
<1> QED BY <1>1, <1>3, <1>4, <1>5, <1>6, <1>7, <1>8, <1>9, <1>10, <1>11, PermitTaken, PermitsAnew DEF Next, Step

(* The types; and every permit of a process's semaphore is left or held by a call that is at the      *)
(* provider: neither errors nor short answers nor new starts lose one (llm_client.py:149).            *)
THEOREM TypeCorrect == Spec => []TypeOK
<1>1. Init => Permits
  <2> SUFFICES ASSUME Init PROVE Permits
    OBVIOUS
  <2>1. permits = [p \in Process |-> MaxConcurrency] /\ MaxConcurrency \in Nat /\ MaxConcurrency + 0 = MaxConcurrency
    BY CallAssumption DEF Init
  <2>2. \A p \in Process : AtProvider(p) = {}
    BY DEF Init, AtProvider
  <2>3. \A p \in Process : Cardinality(AtProvider(p)) = 0
    BY <2>2, FS_EmptySet
  <2> QED BY <2>1, <2>3 DEF Permits
<1>2. IInv /\ Permits => TypeOK
  <2> SUFFICES ASSUME IInv, Permits PROVE TypeOK
    OBVIOUS
  <2>1. pc \in [Call -> Steps] /\ model \in [Process -> Model]
    BY DEF IInv, Local, CallOf, Models
  <2>2. ASSUME NEW c \in Call PROVE Len(cached[c]) \in {0, Len(texts[c])} /\ Len(result[c]) \in {0, Len(texts[c])}
    <3>1. /\ Len(texts[c]) \in Nat
          /\ cached[c] = <<>> \/ (cached[c] = [i \in 1 .. Len(texts[c]) |-> cached[c][i]])
          /\ result[c] = <<>> \/ (result[c] = [i \in 1 .. Len(texts[c]) |-> result[c][i]])
      BY DEF IInv, CallOf
    <3>2. Len(cached[c]) = 0 \/ Len(cached[c]) = Len(texts[c])
      BY <3>1, LenOf
    <3>3. Len(result[c]) = 0 \/ Len(result[c]) = Len(texts[c])
      BY <3>1, LenOf
    <3> QED BY <3>2, <3>3
  <2> QED BY <2>1, <2>2 DEF TypeOK, Permits, AtProvider
<1> QED BY <1>1, <1>2, PermitsStep, Invariance, PTL DEF Spec

-----------------------------------------------------------------------------
(* Induction on a set of numbers, from the least one that is not in it. *)
LEMMA LeastNumber ==
  ASSUME NEW T, T \subseteq Nat, T # {}
  PROVE  \E n \in T : \A k \in T : n <= k
<1> DEFINE R == OpToRel(<, Nat)
<1>1. PICK n \in T : \A k \in T : ~(<<k, n>> \in R)
  <2>1. IsWellFoundedOn(R, Nat)
    BY NatLessThanWellFounded
  <2> HIDE DEF R
  <2> QED BY <2>1, WFMin
<1>2. \A k \in T : ~(k < n)
  BY <1>1 DEF OpToRel
<1> QED BY <1>2

LEMMA Inductive ==
  ASSUME NEW T, 0 \in T, \A n \in Nat : n \in T => n + 1 \in T
  PROVE  Nat \subseteq T
<1> SUFFICES ASSUME Nat \ T # {} PROVE FALSE
  OBVIOUS
<1>1. PICK n \in Nat \ T : \A k \in Nat \ T : n <= k
  BY LeastNumber
<1>2. n # 0 /\ n - 1 \in Nat /\ (n - 1) + 1 = n
  BY <1>1
<1>3. n - 1 \in T
  BY <1>1, <1>2
<1> QED BY <1>1, <1>2, <1>3

(* What follows a value at each of N steps, and a sequence of values that goes on so. *)
StepsIn(after, N, S) == \A n \in 1 .. N, x \in S : after[n][x] \in S
Goes(f, first, after, N) == f[0] = first /\ \A n \in 1 .. N : f[n] = after[n][f[n - 1]]

LEMMA Recursion ==
  ASSUME NEW N \in Nat, NEW S, NEW first \in S, NEW after, StepsIn(after, N, S)
  PROVE  \E f \in [0 .. N -> S] : Goes(f, first, after, N)
<1> USE DEF StepsIn, Goes
<1> DEFINE T == {m \in Nat : m <= N => \E f \in [0 .. m -> S] : Goes(f, first, after, m)}
<1>1. 0 \in T
  <2>1. [n \in 0 .. 0 |-> first] \in [0 .. 0 -> S] /\ Goes([n \in 0 .. 0 |-> first], first, after, 0)
    OBVIOUS
  <2> QED BY <2>1
<1>2. ASSUME NEW m \in Nat, m \in T PROVE m + 1 \in T
  <2> SUFFICES ASSUME m + 1 <= N PROVE \E f \in [0 .. m + 1 -> S] : Goes(f, first, after, m + 1)
    OBVIOUS
  <2>1. PICK f \in [0 .. m -> S] : Goes(f, first, after, m)
    BY <1>2
  <2> DEFINE g == [n \in 0 .. m + 1 |-> IF n <= m THEN f[n] ELSE after[m + 1][f[m]]]
  <2>2. f[m] \in S /\ m + 1 \in 1 .. N
    OBVIOUS
  <2>3. after[m + 1][f[m]] \in S
    BY <2>2
  <2>4. \A n \in 0 .. m + 1 : g[n] \in S
    BY <2>3
  <2>5. g \in [0 .. m + 1 -> S]
    BY <2>4
  <2>6. g[0] = first
    BY <2>1
  <2>7. ASSUME NEW n \in 1 .. m + 1 PROVE g[n] = after[n][g[n - 1]]
    <3>1. CASE n <= m
      <4>1. n \in 1 .. m /\ n - 1 \in 0 .. m + 1 /\ n - 1 <= m
        BY <3>1
      <4> QED BY <2>1, <3>1, <4>1
    <3>2. CASE ~(n <= m)
      <4>1. n = m + 1 /\ n - 1 = m
        BY <3>2
      <4> QED BY <4>1
    <3> QED BY <3>1, <3>2
  <2>8. Goes(g, first, after, m + 1)
    BY <2>6, <2>7
  <2> QED BY <2>5, <2>8
<1>3. N \in T
  <2> HIDE DEF T
  <2> QED BY <1>1, <1>2, Inductive
<1> QED BY <1>3

(* "\n\n".join, one paragraph at a time. *)
JoinOf(b, f) ==
  f = [n \in 0 .. Len(b) |->
         IF n = 0 THEN <<>> ELSE IF n = 1 THEN b[1] ELSE Spliced(f[n - 1], b[n])]

LEMMA JoinedBy ==
  ASSUME NEW b \in Seq(Text)
  PROVE  \E f \in [0 .. Len(b) -> Text] : JoinOf(b, f) /\ Joined(b) = f[Len(b)]
<1> DEFINE after == [n \in 1 .. Len(b) |-> [x \in Text |-> IF n = 1 THEN b[1] ELSE Spliced(x, b[n])]]
<1>0. Len(b) \in Nat /\ <<>> \in Text /\ \A n \in 1 .. Len(b) : b[n] \in Text
  BY DEF Text
<1>1. \A x, y \in Text : Spliced(x, y) \in Text
  BY ChunkerAssumption DEF Text, Spliced
<1>2. \A n \in 1 .. Len(b), x \in Text : after[n][x] \in Text
  BY <1>0, <1>1
<1> DEFINE first == <<>>
<1>3. PICK f \in [0 .. Len(b) -> Text] : f[0] = first /\ \A n \in 1 .. Len(b) : f[n] = after[n][f[n - 1]]
  <2>1. first \in Text
    BY <1>0
  <2> HIDE DEF after, first
  <2>2. StepsIn(after, Len(b), Text)
    BY <1>2 DEF StepsIn
  <2>3. \E f \in [0 .. Len(b) -> Text] : Goes(f, first, after, Len(b))
    BY <1>0, <2>1, <2>2, Recursion
  <2> QED BY <2>3 DEF Goes
<1>4. ASSUME NEW n \in 1 .. Len(b)
      PROVE  f[n] = IF n = 1 THEN b[1] ELSE Spliced(f[n - 1], b[n])
  <2>1. n - 1 \in 0 .. Len(b)
    BY <1>0
  <2>2. f[n - 1] \in Text
    BY <2>1
  <2> QED BY <1>3, <2>2
<1>5. JoinOf(b, f)
  <2>1. f = [n \in 0 .. Len(b) |-> f[n]]
    OBVIOUS
  <2>2. \A n \in 0 .. Len(b) :
          f[n] = IF n = 0 THEN <<>> ELSE IF n = 1 THEN b[1] ELSE Spliced(f[n - 1], b[n])
    BY <1>0, <1>3, <1>4
  <2> QED BY <2>1, <2>2 DEF JoinOf
<1> DEFINE g == CHOOSE g : JoinOf(b, g)
<1>6. JoinOf(b, g)
  BY <1>5
<1>7. Joined(b) = g[Len(b)]
  BY DEF Joined, JoinOf
<1>8. g \in [0 .. Len(b) -> Text]
  <2> HIDE DEF g
  <2> DEFINE T == {n \in Nat : n <= Len(b) => g[n] \in Text}
  <2>1. 0 \in T
    BY <1>0, <1>6 DEF JoinOf
  <2>2. ASSUME NEW n \in Nat, n \in T PROVE n + 1 \in T
    <3> SUFFICES ASSUME n + 1 <= Len(b) PROVE g[n + 1] \in Text
      OBVIOUS
    <3>1. n + 1 \in 1 .. Len(b) /\ g[n] \in Text /\ (n + 1) - 1 = n
      BY <1>0, <2>2
    <3>2. g[n + 1] = IF n + 1 = 1 THEN b[1] ELSE Spliced(g[n], b[n + 1])
      BY <1>0, <1>6, <3>1 DEF JoinOf
    <3> QED BY <1>0, <1>1, <3>1, <3>2
  <2>3. Nat \subseteq T
    <3> HIDE DEF T
    <3> QED BY <2>1, <2>2, Inductive
  <2>4. \A n \in 0 .. Len(b) : g[n] \in Text
    BY <1>0, <2>3
  <2>5. g = [n \in 0 .. Len(b) |-> g[n]]
    BY <1>6 DEF JoinOf
  <2> QED BY <2>4, <2>5
<1> QED BY <1>6, <1>7, <1>8

LEMMA JoinedMore ==
  ASSUME NEW b \in Seq(Text), NEW p \in Text
  PROVE  /\ Joined(b) \in Text
         /\ Joined(Append(b, p)) = IF b = <<>> THEN p ELSE Spliced(Joined(b), p)
<1> DEFINE N == Len(b)
           c == Append(b, p)
<1>0. N \in Nat /\ c \in Seq(Text) /\ Len(c) = N + 1 /\ c[N + 1] = p /\ \A n \in 1 .. N : c[n] = b[n]
  OBVIOUS
<1>1. PICK f \in [0 .. N -> Text] : JoinOf(b, f) /\ Joined(b) = f[N]
  BY JoinedBy
<1>2. PICK g \in [0 .. N + 1 -> Text] : JoinOf(c, g) /\ Joined(c) = g[N + 1]
  <2> HIDE DEF c
  <2> QED BY <1>0, JoinedBy
<1> DEFINE T == {n \in Nat : n <= N => g[n] = f[n]}
<1> HIDE DEF c
<1>3. 0 \in T
  BY <1>0, <1>1, <1>2 DEF JoinOf
<1>4. ASSUME NEW n \in Nat, n \in T PROVE n + 1 \in T
  <2> SUFFICES ASSUME n + 1 <= N PROVE g[n + 1] = f[n + 1]
    OBVIOUS
  <2>1. n + 1 \in 1 .. N /\ g[n] = f[n] /\ (n + 1) - 1 = n /\ c[n + 1] = b[n + 1]
    <3>1. n + 1 \in 1 .. N /\ n <= N /\ (n + 1) - 1 = n
      BY <1>0
    <3>2. g[n] = f[n]
      BY <1>4, <3>1
    <3> QED BY <1>0, <3>1, <3>2
  <2>2. g[n + 1] = IF n + 1 = 1 THEN c[1] ELSE Spliced(g[n], c[n + 1])
    BY <1>0, <1>2, <2>1 DEF JoinOf
  <2>3. f[n + 1] = IF n + 1 = 1 THEN b[1] ELSE Spliced(f[n], b[n + 1])
    BY <1>0, <1>1, <2>1 DEF JoinOf
  <2> QED BY <2>1, <2>2, <2>3
<1>5. g[N] = f[N]
  <2>1. Nat \subseteq T
    <3> HIDE DEF T
    <3> QED BY <1>3, <1>4, Inductive
  <2> QED BY <1>0, <2>1
<1>6. g[N + 1] = IF N + 1 = 1 THEN c[1] ELSE Spliced(g[N], c[N + 1])
  <2>1. N + 1 \in 1 .. Len(c) /\ (N + 1) - 1 = N
    BY <1>0
  <2> QED BY <1>0, <1>2, <2>1 DEF JoinOf
<1>7. b = <<>> <=> N = 0
  OBVIOUS
<1>8. Joined(b) \in Text
  BY <1>0, <1>1
<1> QED BY <1>0, <1>1, <1>2, <1>5, <1>6, <1>7, <1>8 DEF c

-----------------------------------------------------------------------------
(* The windows of a long paragraph *)

LEMMA PartOf ==
  ASSUME NEW s \in Text, NEW a \in Nat, NEW b \in Nat, b <= Len(s)
  PROVE  SubSeq(s, a + 1, b) = [i \in 1 .. b - a |-> s[i + a]]
<1> DEFINE S == Nat
<1>1. Len(s) \in Nat /\ \A i \in 1 .. Len(s) : s[i] \in S
  BY DEF Text
<1> DEFINE m == a + 1
           t == SubSeq(s, m, b)
<1>2. m \in Int /\ b \in Int /\ \A i \in m .. b : s[i] \in S
  BY <1>1
<1>3. /\ t \in Seq(S) /\ Len(t) = IF m <= b THEN b - m + 1 ELSE 0
      /\ \A i \in 1 .. b - m + 1 : t[i] = s[m + i - 1]
  <2> HIDE DEF m, S
  <2> QED BY <1>2, SubSeqProperties
<1>4. t = [i \in 1 .. Len(t) |-> t[i]]
  <2> HIDE DEF t
  <2> QED BY <1>3
<1> HIDE DEF t
<1>5. b - m + 1 = b - a /\ \A i \in 1 .. b - a : m + i - 1 = i + a
  OBVIOUS
<1>6. \A i \in 1 .. b - a : t[i] = s[i + a]
  BY <1>3, <1>5
<1>7. 1 .. Len(t) = 1 .. b - a
  BY <1>3
<1> QED BY <1>4, <1>6, <1>7 DEF t

LEMMA Multiples ==
  ASSUME NEW d \in Nat, d > 0
  PROVE  \A k \in Nat : k * d \in Nat /\ k <= k * d /\ (k + 1) * d = k * d + d
OBVIOUS

(* V are windows of p: one ends with token end[k], the next one begins Overlap tokens before. *)
Windows(V, p, last, start, end) ==
  /\ last \in Nat /\ start \in [0 .. last -> Nat] /\ end \in [0 .. last -> Nat]
  /\ V = [k \in 1 .. last + 1 |-> SubSeq(p, start[k - 1] + 1, end[k - 1])]
  /\ start[0] = 0 /\ end[last] = Len(p)
  /\ \A k \in 0 .. last : start[k] < end[k] /\ end[k] <= start[k] + ChunkSize /\ end[k] <= Len(p)
  /\ \A k \in 1 .. last : end[k - 1] = start[k] + Overlap /\ end[k - 1] < end[k]
  /\ Len(p) <= ChunkSize => last = 0

LEMMA SlicesAre ==
  ASSUME NEW p \in Text, Len(p) > ChunkSize
  PROVE  \E last, start, end : Windows(Slices(p), p, last, start, end)
<1> DEFINE L == Len(p)
           step == ChunkSize - Overlap
           Far(k) == k * step + ChunkSize >= L
<1>0. /\ L \in Nat /\ ChunkSize \in Nat /\ Overlap \in Nat /\ Overlap < ChunkSize /\ L > ChunkSize
      /\ step \in Nat /\ step > 0
  BY SizeAssumption DEF Text
<1>m. \A k \in Nat : k * step \in Nat /\ k <= k * step /\ (k + 1) * step = k * step + step
  <2> HIDE DEF step
  <2> QED BY <1>0, Multiples
<1> DEFINE Reach == {k \in Nat : Far(k)}
<1>1. PICK K \in Reach : \A k \in Reach : K <= k
  <2>1. L \in Reach
    BY <1>0, <1>m
  <2> HIDE DEF Reach
  <2>2. Reach \subseteq Nat
    BY DEF Reach
  <2> QED BY <2>1, <2>2, LeastNumber
<1>2. K \in Nat /\ Far(K) /\ (\A j \in 0 .. K - 1 : ~Far(j)) /\ K \in 0 .. L
  <2>1. L \in Reach
    BY <1>0, <1>m
  <2>2. K \in Nat /\ Far(K)
    BY <1>1
  <2>3. K <= L
    BY <1>1, <2>1
  <2>4. ASSUME NEW j \in 0 .. K - 1 PROVE ~Far(j)
    <3>1. j \in Nat /\ j < K
      BY <2>2
    <3>2. j \notin Reach
      BY <1>1, <2>2, <3>1
    <3> QED BY <3>1, <3>2
  <2> QED BY <1>0, <2>2, <2>3, <2>4
<1> DEFINE st == [k \in 0 .. K |-> k * step]
           en == [k \in 0 .. K |-> IF k * step + ChunkSize < L THEN k * step + ChunkSize ELSE L]
           least == CHOOSE k \in 0 .. L : k * step + ChunkSize >= L /\ \A j \in 0 .. k - 1 : j * step + ChunkSize < L
<1>c. \A j \in Nat : j * step + ChunkSize < L <=> ~Far(j)
  BY <1>0, <1>m
<1>3. least = K
  <2>1. K * step + ChunkSize >= L /\ \A j \in 0 .. K - 1 : j * step + ChunkSize < L
    BY <1>2, <1>c
  <2>2. least \in 0 .. L /\ least * step + ChunkSize >= L /\ \A j \in 0 .. least - 1 : j * step + ChunkSize < L
    BY <1>2, <2>1
  <2>3. PICK k : k = least
    OBVIOUS
  <2>4. k \in Nat /\ Far(k) /\ \A j \in 0 .. k - 1 : ~Far(j)
    <3>1. k \in Nat /\ Far(k)
      BY <1>0, <2>2, <2>3
    <3>2. \A j \in 0 .. k - 1 : j \in Nat /\ j * step + ChunkSize < L
      BY <2>2, <2>3, <3>1
    <3> HIDE DEF Far
    <3> QED BY <1>c, <3>1, <3>2
  <2>5. ~(k < K) /\ ~(K < k)
    <3> HIDE DEF Far
    <3> QED BY <1>2, <2>4
  <2> QED BY <1>2, <2>3, <2>4, <2>5
<1>4. Slices(p) = [k \in 1 .. K + 1 |-> SubSeq(p, st[k - 1] + 1, en[k - 1])]
  <2>1. Slices(p) = [k \in 1 .. least + 1 |->
                       SubSeq(p, (k - 1) * step + 1,
                              IF (k - 1) * step + ChunkSize < L THEN (k - 1) * step + ChunkSize ELSE L)]
    BY DEF Slices
  <2>2. \A k \in 1 .. K + 1 : k - 1 \in 0 .. K
    BY <1>2
  <2> HIDE DEF least
  <2> QED BY <1>3, <2>1, <2>2
<1>5. \A k \in 0 .. K : /\ st[k] = k * step /\ st[k] \in Nat
                        /\ en[k] = (IF st[k] + ChunkSize < L THEN st[k] + ChunkSize ELSE L) /\ en[k] \in Nat
  BY <1>0, <1>m
<1>6. \A k \in 1 .. K : k - 1 \in 0 .. K /\ st[k] = st[k - 1] + step /\ st[k - 1] + ChunkSize < L
  <2> SUFFICES ASSUME NEW k \in 1 .. K PROVE k - 1 \in 0 .. K /\ st[k] = st[k - 1] + step /\ st[k - 1] + ChunkSize < L
    OBVIOUS
  <2>1. k - 1 \in Nat /\ k - 1 \in 0 .. K - 1 /\ k - 1 \in 0 .. K /\ k \in 0 .. K /\ (k - 1) + 1 = k
    BY <1>2
  <2>2. k * step = (k - 1) * step + step
    <3>1. ((k - 1) + 1) * step = (k - 1) * step + step
      BY <1>m, <2>1
    <3> QED BY <2>1, <3>1
  <2>3. (k - 1) * step + ChunkSize < L
    BY <1>2, <1>c, <2>1
  <2> QED BY <1>5, <2>1, <2>2, <2>3
<1>7. st \in [0 .. K -> Nat] /\ en \in [0 .. K -> Nat]
  <2>1. \A k \in 0 .. K : st[k] \in Nat /\ en[k] \in Nat
    BY <1>5
  <2>2. st = [k \in 0 .. K |-> st[k]] /\ en = [k \in 0 .. K |-> en[k]]
    OBVIOUS
  <2> HIDE DEF st, en
  <2> QED BY <2>1, <2>2
<1>8. st[0] = 0 /\ en[K] = L
  <2>1. 0 * step = 0 /\ K * step + ChunkSize >= L
    BY <1>0, <1>2
  <2> QED BY <1>0, <1>2, <1>5, <2>1
<1> HIDE DEF st, en, Far
<1>9. \A k \in 1 .. K : en[k - 1] = st[k] + Overlap /\ en[k - 1] < en[k]
  <2> SUFFICES ASSUME NEW k \in 1 .. K PROVE en[k - 1] = st[k] + Overlap /\ en[k - 1] < en[k]
    OBVIOUS
  <2>1. k \in 0 .. K
    BY <1>2
  <2>2. k - 1 \in 0 .. K /\ st[k] = st[k - 1] + step /\ st[k - 1] + ChunkSize < L
    BY <1>6
  <2>3. /\ st[k] \in Nat /\ en[k] = (IF st[k] + ChunkSize < L THEN st[k] + ChunkSize ELSE L)
        /\ st[k - 1] \in Nat /\ en[k - 1] = st[k - 1] + ChunkSize
    BY <1>5, <2>1, <2>2
  <2> QED BY <1>0, <2>2, <2>3
<1>10. \A k \in 0 .. K : st[k] < en[k] /\ en[k] <= st[k] + ChunkSize /\ en[k] <= L
  <2> SUFFICES ASSUME NEW k \in 0 .. K PROVE st[k] < en[k] /\ en[k] <= st[k] + ChunkSize /\ en[k] <= L
    OBVIOUS
  <2>1. st[k] < L
    <3>1. CASE k = 0
      BY <1>0, <1>8, <3>1
    <3>2. CASE k # 0
      <4>1. k \in 1 .. K
        BY <1>2, <3>2
      <4>2. k - 1 \in 0 .. K /\ st[k] = st[k - 1] + step /\ st[k - 1] + ChunkSize < L
        BY <1>6, <4>1
      <4>3. st[k - 1] \in Nat
        BY <1>5, <4>2
      <4> QED BY <1>0, <4>2, <4>3
    <3> QED BY <3>1, <3>2
  <2>2. st[k] \in Nat /\ en[k] = IF st[k] + ChunkSize < L THEN st[k] + ChunkSize ELSE L
    BY <1>5
  <2>3. CASE st[k] + ChunkSize < L
    BY <1>0, <2>2, <2>3
  <2>4. CASE ~(st[k] + ChunkSize < L)
    BY <1>0, <2>1, <2>2, <2>4
  <2> QED BY <2>3, <2>4
<1>11. Windows(Slices(p), p, K, st, en)
  <2>1. ~(L <= ChunkSize)
    BY <1>0
  <2> QED BY <1>2, <1>4, <1>7, <1>8, <1>9, <1>10, <2>1 DEF Windows
<1> QED BY <1>11

(* A paragraph that fits in one chunk is its own window. *)
LEMMA OneWindow ==
  ASSUME NEW p \in Text, p # <<>>, Len(p) <= ChunkSize
  PROVE  \E last, start, end : Windows(<<p>>, p, last, start, end)
<1> DEFINE st == [k \in 0 .. 0 |-> 0]
           en == [k \in 0 .. 0 |-> Len(p)]
<1>1. Len(p) \in Nat /\ Len(p) > 0 /\ ChunkSize \in Nat
  BY SizeAssumption DEF Text
<1>2. \A k \in 0 .. 0 : k = 0
  OBVIOUS
<1>3. \A k \in 1 .. 0 : FALSE
  OBVIOUS
<1>4. SubSeq(p, 1, Len(p)) = p
  BY DEF Text
<1>5. <<p>> = [k \in 1 .. 0 + 1 |-> SubSeq(p, st[k - 1] + 1, en[k - 1])]
  <2>1. \A k \in 1 .. 0 + 1 : SubSeq(p, st[k - 1] + 1, en[k - 1]) = p
    BY <1>4
  <2>2. <<p>> = [k \in 1 .. 0 + 1 |-> p]
    OBVIOUS
  <2>3. [k \in 1 .. 0 + 1 |-> SubSeq(p, st[k - 1] + 1, en[k - 1])] = [k \in 1 .. 0 + 1 |-> p]
    <3> HIDE DEF st, en
    <3> QED BY <2>1
  <2> QED BY <2>2, <2>3
<1>6. Windows(<<p>>, p, 0, st, en)
  <2>1. st \in [0 .. 0 -> Nat] /\ en \in [0 .. 0 -> Nat] /\ st[0] = 0 /\ en[0] = Len(p)
    BY <1>1
  <2> HIDE DEF st, en
  <2> QED BY <1>1, <1>2, <1>3, <1>5, <2>1 DEF Windows
<1> QED BY <1>6

LEMMA WindowsAre ==
  ASSUME NEW p \in Text, NEW V, NEW last, NEW start, NEW end, Windows(V, p, last, start, end)
  PROVE  /\ V \in Seq(Text) /\ Len(V) = last + 1 /\ last \in Nat /\ Len(p) \in Nat
         /\ \A k \in 0 .. last :
              /\ start[k] \in Nat /\ end[k] \in Nat /\ start[k] < end[k] /\ end[k] <= Len(p)
              /\ V[k + 1] \in Text /\ Len(V[k + 1]) = end[k] - start[k]
              /\ Len(V[k + 1]) <= ChunkSize
              /\ \A j \in 1 .. Len(V[k + 1]) : V[k + 1][j] = p[start[k] + j]
<1>0. Len(p) \in Nat /\ \A n \in 1 .. Len(p) : p[n] \in Nat
  BY DEF Text
<1>1. /\ last \in Nat
      /\ V = [k \in 1 .. last + 1 |-> SubSeq(p, start[k - 1] + 1, end[k - 1])]
      /\ \A k \in 0 .. last : /\ start[k] \in Nat /\ end[k] \in Nat /\ start[k] < end[k]
                              /\ end[k] <= start[k] + ChunkSize /\ end[k] <= Len(p)
  BY DEF Windows
<1>2. ASSUME NEW k \in 0 .. last
      PROVE  /\ V[k + 1] \in Text /\ Len(V[k + 1]) = end[k] - start[k] /\ Len(V[k + 1]) <= ChunkSize
             /\ \A j \in 1 .. Len(V[k + 1]) : V[k + 1][j] = p[start[k] + j]
  <2>1. k + 1 \in 1 .. last + 1 /\ (k + 1) - 1 = k
    BY <1>1
  <2>2. V[k + 1] = SubSeq(p, start[k] + 1, end[k])
    BY <1>1, <2>1
  <2>3. PICK a \in Nat, b \in Nat : a = start[k] /\ b = end[k] /\ a < b /\ b <= a + ChunkSize /\ b <= Len(p)
    BY <1>1
  <2>4. SubSeq(p, a + 1, b) = [i \in 1 .. b - a |-> p[i + a]]
    BY <2>3, PartOf
  <2>5. \A i \in 1 .. b - a : i + a \in 1 .. Len(p) /\ i + a = a + i
    BY <1>0, <2>3
  <2>6. V[k + 1] = [i \in 1 .. b - a |-> p[a + i]]
    BY <2>2, <2>3, <2>4, <2>5
  <2>7. b - a \in Nat
    BY <2>3
  <2>8. V[k + 1] \in Text /\ Len(V[k + 1]) = b - a
    <3>1. \A i \in 1 .. b - a : p[a + i] \in Nat
      BY <1>0, <2>5
    <3>2. PICK n \in Nat : n = b - a
      BY <2>7
    <3>3. [i \in 1 .. n |-> p[a + i]] \in Seq(Nat) /\ Len([i \in 1 .. n |-> p[a + i]]) = n
      BY <3>1, <3>2
    <3> QED BY <2>6, <3>2, <3>3 DEF Text
  <2>9. b - a <= ChunkSize
    BY <2>3, SizeAssumption
  <2>10. ASSUME NEW j \in 1 .. b - a PROVE V[k + 1][j] = p[a + j]
    BY <2>6
  <2> QED BY <2>3, <2>8, <2>9, <2>10
<1>3. \A k \in 1 .. last + 1 : V[k] \in Text
  <2> SUFFICES ASSUME NEW k \in 1 .. last + 1 PROVE V[k] \in Text
    OBVIOUS
  <2>1. k - 1 \in 0 .. last /\ (k - 1) + 1 = k
    BY <1>1
  <2> QED BY <1>2, <2>1
<1>4. V \in Seq(Text) /\ Len(V) = last + 1
  BY <1>1, <1>3
<1> QED BY <1>0, <1>1, <1>2, <1>4

-----------------------------------------------------------------------------
(* Where the tokens of the paragraphs are in the chunks: in the same order, and a token of a chunk *)
(* that is no separator is not before the home of an equal one.                                    *)
Homes(W, D, home) ==
  /\ \A x \in Places(D) : home[x] \in Places(W) /\ At(W, home[x]) = At(D, x)
  /\ \A x, y \in Places(D) : NotAfter(x, y) <=> NotAfter(home[x], home[y])
  /\ \A w \in Places(W) : \/ At(W, w) = Separator
                          \/ \E x \in Places(D) : At(D, x) = At(W, w) /\ NotAfter(home[x], w)
Placed(W, D) == \E home : Homes(W, D, home)

LEMMA PlacesAre ==
  ASSUME NEW D \in Seq(Text)
  PROVE  \A x : x \in Places(D) <=> \E i \in 1 .. Len(D) : \E j \in 1 .. Len(D[i]) : x = <<i, j>>
<1>1. DOMAIN D = 1 .. Len(D) /\ \A i \in 1 .. Len(D) : DOMAIN D[i] = 1 .. Len(D[i])
  BY DEF Text
<1>2. \A x : x \in Places(D) <=> \E i \in DOMAIN D : \E j \in DOMAIN D[i] : x = <<i, j>>
  BY DEF Places
<1> QED BY <1>1, <1>2

LEMMA PlacesHave ==
  ASSUME NEW D \in Seq(Text), NEW x \in Places(D)
  PROVE  /\ x[1] \in 1 .. Len(D) /\ x[2] \in 1 .. Len(D[x[1]]) /\ x = <<x[1], x[2]>>
         /\ x[1] \in Nat /\ x[2] \in Nat /\ D[x[1]] \in Text /\ Len(D[x[1]]) \in Nat
<1>1. PICK i \in 1 .. Len(D) : \E j \in 1 .. Len(D[i]) : x = <<i, j>>
  BY PlacesAre
<1>2. PICK j \in 1 .. Len(D[i]) : x = <<i, j>>
  BY <1>1
<1>3. D[i] \in Text /\ Len(D[i]) \in Nat /\ Len(D) \in Nat
  BY DEF Text
<1> QED BY <1>2, <1>3

LEMMA OrderOfPlaces ==
  ASSUME NEW D \in Seq(Text)
  PROVE  \A x, y, z \in Places(D) :
           /\ NotAfter(x, x) /\ (NotAfter(x, y) \/ NotAfter(y, x))
           /\ NotAfter(x, y) /\ NotAfter(y, z) => NotAfter(x, z)
           /\ NotAfter(x, y) /\ NotAfter(y, x) => x = y
<1> SUFFICES ASSUME NEW x \in Places(D), NEW y \in Places(D), NEW z \in Places(D)
             PROVE  /\ NotAfter(x, x) /\ (NotAfter(x, y) \/ NotAfter(y, x))
                    /\ NotAfter(x, y) /\ NotAfter(y, z) => NotAfter(x, z)
                    /\ NotAfter(x, y) /\ NotAfter(y, x) => x = y
  OBVIOUS
<1>1. /\ x = <<x[1], x[2]>> /\ x[1] \in Nat /\ x[2] \in Nat
      /\ y = <<y[1], y[2]>> /\ y[1] \in Nat /\ y[2] \in Nat
      /\ z = <<z[1], z[2]>> /\ z[1] \in Nat /\ z[2] \in Nat
  BY PlacesHave
<1>2. PICK x1 \in Nat, x2 \in Nat : x1 = x[1] /\ x2 = x[2]
  BY <1>1
<1>3. PICK y1 \in Nat, y2 \in Nat : y1 = y[1] /\ y2 = y[2]
  BY <1>1
<1>4. PICK z1 \in Nat, z2 \in Nat : z1 = z[1] /\ z2 = z[2]
  BY <1>1
<1>5. x = <<x1, x2>> /\ y = <<y1, y2>>
  BY <1>1, <1>2, <1>3
<1>6. /\ NotAfter(x, x) <=> x1 < x1 \/ (x1 = x1 /\ x2 <= x2)
      /\ NotAfter(x, y) <=> x1 < y1 \/ (x1 = y1 /\ x2 <= y2)
      /\ NotAfter(y, x) <=> y1 < x1 \/ (y1 = x1 /\ y2 <= x2)
      /\ NotAfter(y, z) <=> y1 < z1 \/ (y1 = z1 /\ y2 <= z2)
      /\ NotAfter(x, z) <=> x1 < z1 \/ (x1 = z1 /\ x2 <= z2)
  BY <1>2, <1>3, <1>4 DEF NotAfter
<1>7. NotAfter(x, x) /\ (NotAfter(x, y) \/ NotAfter(y, x))
  BY <1>6
<1>8. NotAfter(x, y) /\ NotAfter(y, z) => NotAfter(x, z)
  BY <1>6
<1>9. NotAfter(x, y) /\ NotAfter(y, x) => x1 = y1 /\ x2 = y2
  BY <1>6
<1> QED BY <1>5, <1>7, <1>8, <1>9

(* What is placed so is ordered so. *)
LEMMA PlacedLeads ==
  ASSUME NEW W \in Seq(Text), NEW D \in Seq(Text), Placed(W, D)
  PROVE  \A t, u : t # Separator /\ u # Separator => (Leads(W, t, u) <=> Leads(D, t, u))
<1> SUFFICES ASSUME NEW t, NEW u, t # Separator, u # Separator
             PROVE  Leads(W, t, u) <=> Leads(D, t, u)
  OBVIOUS
<1>1. PICK home : Homes(W, D, home)
  BY DEF Placed
<1>2. \A x \in Places(D) : home[x] \in Places(W) /\ At(W, home[x]) = At(D, x)
  BY <1>1 DEF Homes
<1>3. \A x, y \in Places(D) : NotAfter(x, y) <=> NotAfter(home[x], home[y])
  BY <1>1 DEF Homes
<1>4. \A w \in Places(W) : At(W, w) # Separator
                             => \E x \in Places(D) : At(D, x) = At(W, w) /\ NotAfter(home[x], w)
  BY <1>1 DEF Homes
<1>5. ASSUME Leads(D, t, u) PROVE Leads(W, t, u)
  <2>1. PICK x \in Places(D) : At(D, x) = t /\ \A y \in Places(D) : At(D, y) = u => NotAfter(x, y)
    BY <1>5 DEF Leads
  <2>2. ASSUME NEW w \in Places(W), At(W, w) = u PROVE NotAfter(home[x], w)
    <3>1. PICK y \in Places(D) : At(D, y) = u /\ NotAfter(home[y], w)
      BY <1>4, <2>2
    <3>2. NotAfter(home[x], home[y])
      BY <1>3, <2>1, <3>1
    <3> QED BY <1>2, <2>1, <3>1, <3>2, OrderOfPlaces
  <2> QED BY <1>2, <2>1, <2>2 DEF Leads
<1>6. ASSUME Leads(W, t, u) PROVE Leads(D, t, u)
  <2>1. PICK w \in Places(W) : At(W, w) = t /\ \A v \in Places(W) : At(W, v) = u => NotAfter(w, v)
    BY <1>6 DEF Leads
  <2>2. PICK x \in Places(D) : At(D, x) = t /\ NotAfter(home[x], w)
    BY <1>4, <2>1
  <2>3. ASSUME NEW y \in Places(D), At(D, y) = u PROVE NotAfter(x, y)
    <3>1. home[x] \in Places(W) /\ home[y] \in Places(W) /\ NotAfter(w, home[y])
      BY <1>2, <2>1, <2>2, <2>3
    <3>2. NotAfter(home[x], home[y])
      BY <2>2, <3>1, OrderOfPlaces
    <3> QED BY <1>3, <2>2, <2>3, <3>2
  <2> QED BY <2>2, <2>3 DEF Leads
<1> QED BY <1>5, <1>6

(* Token o of p is at spot[o] of the chunks W2, which keep what W has and add only p to it, behind it. *)
Adds(W, W2, p, spot) ==
  /\ \A w \in Places(W) : w \in Places(W2) /\ At(W2, w) = At(W, w)
  /\ \A o \in 1 .. Len(p) : spot[o] \in Places(W2) /\ At(W2, spot[o]) = p[o]
  /\ \A o \in 1 .. Len(p), w \in Places(W) : NotAfter(w, spot[o]) /\ ~NotAfter(spot[o], w)
  /\ \A o, q \in 1 .. Len(p) : o <= q <=> NotAfter(spot[o], spot[q])
  /\ \A w \in Places(W2) : \/ w \in Places(W) \/ At(W2, w) = Separator
                           \/ \E o \in 1 .. Len(p) : p[o] = At(W2, w) /\ NotAfter(spot[o], w)

LEMMA PlacesAppended ==
  ASSUME NEW D \in Seq(Text), NEW p \in Text
  PROVE  LET E == Append(D, p)
         IN  /\ E \in Seq(Text) /\ Len(D) \in Nat /\ Len(p) \in Nat
             /\ \A x : x \in Places(E)
                         <=> x \in Places(D) \/ \E o \in 1 .. Len(p) : x = <<Len(D) + 1, o>>
             /\ \A x \in Places(D) : x[1] <= Len(D) /\ x[1] \in Nat /\ At(E, x) = At(D, x)
             /\ \A o \in 1 .. Len(p) : At(E, <<Len(D) + 1, o>>) = p[o]
<1> DEFINE E == Append(D, p)
           N == Len(D)
<1>1. /\ E \in Seq(Text) /\ N \in Nat /\ Len(E) = N + 1 /\ E[N + 1] = p /\ Len(p) \in Nat
      /\ \A i \in 1 .. N : E[i] = D[i]
  BY DEF Text
<1> HIDE DEF E
<1>2. ASSUME NEW x PROVE x \in Places(E) <=> x \in Places(D) \/ \E o \in 1 .. Len(p) : x = <<N + 1, o>>
  <2>1. x \in Places(E) <=> \E i \in 1 .. N + 1 : \E j \in 1 .. Len(E[i]) : x = <<i, j>>
    BY <1>1, PlacesAre
  <2>2. x \in Places(D) <=> \E i \in 1 .. N : \E j \in 1 .. Len(D[i]) : x = <<i, j>>
    BY PlacesAre
  <2>3. \A i : i \in 1 .. N + 1 <=> i \in 1 .. N \/ i = N + 1
    BY <1>1
  <2> QED BY <1>1, <2>1, <2>2, <2>3
<1>3. \A x \in Places(D) : x[1] <= N /\ x[1] \in Nat /\ At(E, x) = At(D, x)
  <2> SUFFICES ASSUME NEW x \in Places(D) PROVE x[1] <= N /\ x[1] \in Nat /\ At(E, x) = At(D, x)
    OBVIOUS
  <2>1. x[1] \in 1 .. N
    BY PlacesHave
  <2> QED BY <1>1, <2>1 DEF At
<1>4. \A o \in 1 .. Len(p) : At(E, <<N + 1, o>>) = p[o]
  BY <1>1 DEF At
<1> QED BY <1>1, <1>2, <1>3, <1>4 DEF E

LEMMA PlacedMore ==
  ASSUME NEW W \in Seq(Text), NEW D \in Seq(Text), NEW W2 \in Seq(Text), NEW p \in Text,
         NEW spot, Placed(W, D), Adds(W, W2, p, spot)
  PROVE  Placed(W2, Append(D, p))
<1> DEFINE E == Append(D, p)
           N == Len(D)
<1>1. PICK home : Homes(W, D, home)
  BY DEF Placed
<1>2. /\ \A x \in Places(D) : home[x] \in Places(W) /\ At(W, home[x]) = At(D, x)
      /\ \A x, y \in Places(D) : NotAfter(x, y) <=> NotAfter(home[x], home[y])
      /\ \A w \in Places(W) : \/ At(W, w) = Separator
                              \/ \E x \in Places(D) : At(D, x) = At(W, w) /\ NotAfter(home[x], w)
  BY <1>1 DEF Homes
<1>3. /\ \A w \in Places(W) : w \in Places(W2) /\ At(W2, w) = At(W, w)
      /\ \A o \in 1 .. Len(p) : spot[o] \in Places(W2) /\ At(W2, spot[o]) = p[o]
      /\ \A o \in 1 .. Len(p), w \in Places(W) : NotAfter(w, spot[o]) /\ ~NotAfter(spot[o], w)
      /\ \A o, q \in 1 .. Len(p) : o <= q <=> NotAfter(spot[o], spot[q])
  BY DEF Adds
<1>4. \A w \in Places(W2) : \/ w \in Places(W) \/ At(W2, w) = Separator
                            \/ \E o \in 1 .. Len(p) : p[o] = At(W2, w) /\ NotAfter(spot[o], w)
  BY DEF Adds
<1>5. /\ E \in Seq(Text) /\ N \in Nat /\ Len(p) \in Nat
      /\ \A x : x \in Places(E) <=> x \in Places(D) \/ \E o \in 1 .. Len(p) : x = <<N + 1, o>>
      /\ \A x \in Places(D) : x[1] <= N /\ x[1] \in Nat /\ At(E, x) = At(D, x)
      /\ \A o \in 1 .. Len(p) : At(E, <<N + 1, o>>) = p[o]
  BY PlacesAppended
<1> DEFINE new == [x \in Places(E) |-> IF x[1] <= N THEN home[x] ELSE spot[x[2]]]
<1>6. \A x \in Places(D) : x \in Places(E) /\ new[x] = home[x]
  BY <1>5
<1>7. \A o \in 1 .. Len(p) : <<N + 1, o>> \in Places(E) /\ new[<<N + 1, o>>] = spot[o]
  <2> SUFFICES ASSUME NEW o \in 1 .. Len(p)
               PROVE  <<N + 1, o>> \in Places(E) /\ new[<<N + 1, o>>] = spot[o]
    OBVIOUS
  <2>1. <<N + 1, o>> \in Places(E)
    BY <1>5
  <2>2. PICK x : x = <<N + 1, o>>
    OBVIOUS
  <2>3. ~(x[1] <= N) /\ x[2] = o
    BY <1>5, <2>2
  <2> QED BY <2>1, <2>2, <2>3
<1> HIDE DEF E, new, N
<1>8. ASSUME NEW x \in Places(E) PROVE new[x] \in Places(W2) /\ At(W2, new[x]) = At(E, x)
  <2>1. CASE x \in Places(D)
    BY <1>2, <1>3, <1>5, <1>6, <2>1
  <2>2. CASE \E o \in 1 .. Len(p) : x = <<N + 1, o>>
    <3>1. PICK o \in 1 .. Len(p) : x = <<N + 1, o>>
      BY <2>2
    <3>2. new[x] \in Places(W2) /\ At(W2, new[x]) = p[o]
      BY <1>3, <1>7, <3>1
    <3>3. At(E, x) = p[o]
      BY <1>5, <3>1
    <3> QED BY <3>2, <3>3
  <2> QED BY <1>5, <2>1, <2>2
<1>9. ASSUME NEW x \in Places(E), NEW y \in Places(E) PROVE NotAfter(x, y) <=> NotAfter(new[x], new[y])
  <2>1. CASE x \in Places(D) /\ y \in Places(D)
    BY <1>2, <1>6, <2>1
  <2>2. CASE x \in Places(D) /\ \E o \in 1 .. Len(p) : y = <<N + 1, o>>
    <3>1. PICK o \in 1 .. Len(p) : y = <<N + 1, o>>
      BY <2>2
    <3>2. NotAfter(x, y)
      BY <1>5, <2>2, <3>1 DEF NotAfter
    <3> QED BY <1>2, <1>3, <1>6, <1>7, <2>2, <3>1, <3>2
  <2>3. CASE y \in Places(D) /\ \E o \in 1 .. Len(p) : x = <<N + 1, o>>
    <3>1. PICK o \in 1 .. Len(p) : x = <<N + 1, o>>
      BY <2>3
    <3>2. ~NotAfter(x, y)
      BY <1>5, <2>3, <3>1 DEF NotAfter
    <3> QED BY <1>2, <1>3, <1>6, <1>7, <2>3, <3>1, <3>2
  <2>4. CASE (\E o \in 1 .. Len(p) : x = <<N + 1, o>>) /\ (\E q \in 1 .. Len(p) : y = <<N + 1, q>>)
    <3>1. PICK o \in 1 .. Len(p) : x = <<N + 1, o>>
      BY <2>4
    <3>2. PICK q \in 1 .. Len(p) : y = <<N + 1, q>>
      BY <2>4
    <3>3. NotAfter(x, y) <=> o <= q
      BY <1>5, <3>1, <3>2 DEF NotAfter
    <3> QED BY <1>3, <1>7, <3>1, <3>2, <3>3
  <2> QED BY <1>5, <2>1, <2>2, <2>3, <2>4
<1>10. ASSUME NEW w \in Places(W2), At(W2, w) # Separator
       PROVE  \E x \in Places(E) : At(E, x) = At(W2, w) /\ NotAfter(new[x], w)
  <2>1. CASE w \in Places(W)
    <3>1. PICK x \in Places(D) : At(D, x) = At(W, w) /\ NotAfter(home[x], w)
      BY <1>2, <1>3, <1>10, <2>1
    <3> QED BY <1>3, <1>5, <1>6, <2>1, <3>1
  <2>2. CASE \E o \in 1 .. Len(p) : p[o] = At(W2, w) /\ NotAfter(spot[o], w)
    <3>1. PICK o \in 1 .. Len(p) : p[o] = At(W2, w) /\ NotAfter(spot[o], w)
      BY <2>2
    <3> QED BY <1>5, <1>7, <3>1
  <2> QED BY <1>4, <1>10, <2>1, <2>2
<1>11. Homes(W2, E, new)
  BY <1>8, <1>9, <1>10 DEF Homes
<1> QED BY <1>11 DEF Placed, E

LEMMA PlacesJoined ==
  ASSUME NEW W \in Seq(Text), NEW V \in Seq(Text)
  PROVE  LET U == W \o V
         IN  /\ U \in Seq(Text) /\ Len(W) \in Nat /\ Len(V) \in Nat /\ Len(U) = Len(W) + Len(V)
             /\ \A m \in 1 .. Len(W) : U[m] = W[m]
             /\ \A m \in 1 .. Len(V) : U[Len(W) + m] = V[m]
             /\ \A x : x \in Places(U)
                         <=> \/ x \in Places(W)
                             \/ \E m \in 1 .. Len(V) : \E j \in 1 .. Len(V[m]) : x = <<Len(W) + m, j>>
             /\ \A x \in Places(W) : x[1] <= Len(W) /\ x[1] \in Nat /\ At(U, x) = At(W, x)
             /\ \A m \in 1 .. Len(V) : \A j \in 1 .. Len(V[m]) : At(U, <<Len(W) + m, j>>) = V[m][j]
<1> DEFINE U == W \o V
           M == Len(W)
           N == Len(V)
<1>1. /\ U \in Seq(Text) /\ M \in Nat /\ N \in Nat /\ Len(U) = M + N
      /\ \A m \in 1 .. M : U[m] = W[m]
      /\ \A m \in 1 .. N : U[M + m] = V[m]
  BY DEF Text
<1> HIDE DEF U
<1>2. ASSUME NEW x
      PROVE  x \in Places(U) <=> \/ x \in Places(W)
                                 \/ \E m \in 1 .. N : \E j \in 1 .. Len(V[m]) : x = <<M + m, j>>
  <2>1. x \in Places(U) <=> \E i \in 1 .. M + N : \E j \in 1 .. Len(U[i]) : x = <<i, j>>
    <3>1. x \in Places(U) <=> \E i \in 1 .. Len(U) : \E j \in 1 .. Len(U[i]) : x = <<i, j>>
      <4>1. U \in Seq(Text)
        BY <1>1
      <4> QED BY <4>1, PlacesAre
    <3> QED BY <1>1, <3>1
  <2>2. x \in Places(W) <=> \E i \in 1 .. M : \E j \in 1 .. Len(W[i]) : x = <<i, j>>
    BY PlacesAre
  <2>3. \A m \in 1 .. N : M + m \in 1 .. M + N
    BY <1>1
  <2>4. \A i \in 1 .. M : i \in 1 .. M + N
    BY <1>1
  <2>5. \A i \in 1 .. M + N : i \notin 1 .. M => i - M \in 1 .. N /\ M + (i - M) = i
    BY <1>1
  <2>6. ASSUME x \in Places(U), x \notin Places(W)
        PROVE  \E m \in 1 .. N : \E j \in 1 .. Len(V[m]) : x = <<M + m, j>>
    <3>1. PICK i \in 1 .. M + N : \E j \in 1 .. Len(U[i]) : x = <<i, j>>
      BY <2>1, <2>6
    <3>2. i \notin 1 .. M
      BY <1>1, <2>2, <2>6, <3>1
    <3>3. PICK m \in 1 .. N : M + m = i
      BY <2>5, <3>1, <3>2
    <3> QED BY <1>1, <3>1, <3>3
  <2>7. ASSUME x \in Places(W) PROVE x \in Places(U)
    BY <1>1, <2>1, <2>2, <2>4, <2>7
  <2>8. ASSUME NEW m \in 1 .. N, NEW j \in 1 .. Len(V[m]), x = <<M + m, j>> PROVE x \in Places(U)
    BY <1>1, <2>1, <2>3, <2>8
  <2> QED BY <2>6, <2>7, <2>8
<1>3. \A x \in Places(W) : x[1] <= M /\ x[1] \in Nat /\ At(U, x) = At(W, x)
  <2> SUFFICES ASSUME NEW x \in Places(W) PROVE x[1] <= M /\ x[1] \in Nat /\ At(U, x) = At(W, x)
    OBVIOUS
  <2>1. x[1] \in 1 .. M
    BY PlacesHave
  <2> QED BY <1>1, <2>1 DEF At
<1>4. \A m \in 1 .. N : \A j \in 1 .. Len(V[m]) : At(U, <<M + m, j>>) = V[m][j]
  BY <1>1 DEF At
<1> QED BY <1>1, <1>2, <1>3, <1>4 DEF U

(* Token o of a paragraph is at home in the first window that reaches it. *)
LEMMA FirstWindow ==
  ASSUME NEW p \in Text, NEW V, NEW last, NEW start, NEW end, Windows(V, p, last, start, end)
  PROVE  \E home : \A o \in 1 .. Len(p) :
           /\ home[o] \in 0 .. last /\ start[home[o]] < o /\ o <= end[home[o]]
           /\ \A j \in 0 .. last : o <= end[j] => home[o] <= j
<1>1. /\ last \in Nat /\ Len(p) \in Nat /\ start[0] = 0 /\ end[last] = Len(p)
      /\ \A k \in 0 .. last : start[k] \in Nat /\ end[k] \in Nat
      /\ \A k \in 1 .. last : end[k - 1] = start[k] + Overlap
  <2>1. \A k \in 0 .. last : start[k] \in Nat /\ end[k] \in Nat
    BY WindowsAre
  <2>2. last \in Nat /\ Len(p) \in Nat
    BY WindowsAre
  <2> QED BY <2>1, <2>2 DEF Windows
<1> DEFINE Reaches(k, o) == k \in 0 .. last /\ start[k] < o /\ o <= end[k]
                            /\ \A j \in 0 .. last : o <= end[j] => k <= j
<1>2. ASSUME NEW o \in 1 .. Len(p) PROVE \E k : Reaches(k, o)
  <2> DEFINE T == {k \in 0 .. last : o <= end[k]}
  <2>1. last \in T /\ T \subseteq Nat
    BY <1>1
  <2>2. PICK k \in T : \A j \in T : k <= j
    <3> HIDE DEF T
    <3> QED BY <2>1, LeastNumber
  <2>3. start[k] < o
    <3>1. CASE k = 0
      BY <1>1, <3>1
    <3>2. CASE k # 0
      <4>1. k \in 1 .. last /\ k - 1 \in 0 .. last /\ ~(k <= k - 1)
        BY <1>1, <2>2, <3>2
      <4>2. ~(o <= end[k - 1])
        BY <2>2, <4>1
      <4>3. end[k - 1] = start[k] + Overlap /\ start[k] \in Nat /\ Overlap \in Nat
        BY <1>1, <2>2, <4>1, SizeAssumption
      <4> QED BY <1>1, <4>2, <4>3
    <3> QED BY <3>1, <3>2
  <2> QED BY <2>2, <2>3
<1> DEFINE home == [o \in 1 .. Len(p) |-> CHOOSE k : Reaches(k, o)]
<1>3. \A o \in 1 .. Len(p) : Reaches(home[o], o)
  <2> HIDE DEF Reaches
  <2> QED BY <1>2
<1> QED BY <1>3

(* The windows of a paragraph as new chunks. *)
LEMMA WindowsAdd ==
  ASSUME NEW W \in Seq(Text), NEW p \in Text, NEW V, NEW last, NEW start, NEW end,
         Windows(V, p, last, start, end)
  PROVE  \E spot : Adds(W, W \o V, p, spot)
<1> DEFINE U == W \o V
           M == Len(W)
<1>1. /\ V \in Seq(Text) /\ Len(V) = last + 1 /\ last \in Nat /\ Len(p) \in Nat
      /\ \A k \in 0 .. last : /\ start[k] \in Nat /\ end[k] \in Nat /\ start[k] < end[k] /\ end[k] <= Len(p)
                              /\ Len(V[k + 1]) = end[k] - start[k]
                              /\ \A j \in 1 .. Len(V[k + 1]) : V[k + 1][j] = p[start[k] + j]
  BY WindowsAre
<1>2. PICK home : \A o \in 1 .. Len(p) :
        /\ home[o] \in 0 .. last /\ start[home[o]] < o /\ o <= end[home[o]]
        /\ \A j \in 0 .. last : o <= end[j] => home[o] <= j
  BY FirstWindow
<1>3. /\ U \in Seq(Text) /\ M \in Nat
      /\ \A x : x \in Places(U)
                  <=> \/ x \in Places(W)
                      \/ \E m \in 1 .. Len(V) : \E j \in 1 .. Len(V[m]) : x = <<M + m, j>>
      /\ \A x \in Places(W) : x[1] <= M /\ x[1] \in Nat /\ At(U, x) = At(W, x)
      /\ \A m \in 1 .. Len(V) : \A j \in 1 .. Len(V[m]) : At(U, <<M + m, j>>) = V[m][j]
  BY <1>1, PlacesJoined
<1> DEFINE spot == [o \in 1 .. Len(p) |-> <<M + (home[o] + 1), o - start[home[o]]>>]
<1> HIDE DEF U
<1>4. ASSUME NEW o \in 1 .. Len(p)
      PROVE  \E k \in 0 .. last, j \in Nat :
               /\ spot[o] = <<M + (k + 1), j>> /\ j \in 1 .. Len(V[k + 1]) /\ home[o] = k
               /\ o = start[k] + j
  <2>1. PICK k \in 0 .. last : k = home[o]
    BY <1>2
  <2>2. start[k] < o /\ o <= end[k] /\ start[k] \in Nat /\ end[k] \in Nat /\ Len(V[k + 1]) = end[k] - start[k]
    BY <1>1, <1>2, <2>1
  <2>0. o \in Nat
    BY <1>1
  <2>3. PICK j \in Nat : j = o - start[k]
    BY <2>0, <2>2
  <2>4. j \in 1 .. Len(V[k + 1]) /\ o = start[k] + j
    <3>1. PICK a \in Nat, b \in Nat : a = start[k] /\ b = end[k]
      BY <2>2
    <3>2. Len(V[k + 1]) = b - a /\ j = o - a /\ a < o /\ o <= b
      BY <2>2, <2>3, <3>1
    <3>3. j \in 1 .. b - a /\ o = a + j
      BY <2>0, <3>2
    <3> QED BY <3>1, <3>2, <3>3
  <2> QED BY <2>1, <2>3, <2>4
<1> HIDE DEF spot
<1>5. ASSUME NEW o \in 1 .. Len(p)
      PROVE  /\ spot[o] \in Places(U) /\ At(U, spot[o]) = p[o]
             /\ \A w \in Places(W) : NotAfter(w, spot[o]) /\ ~NotAfter(spot[o], w)
  <2>1. PICK k \in 0 .. last, j \in Nat :
          /\ spot[o] = <<M + (k + 1), j>> /\ j \in 1 .. Len(V[k + 1]) /\ home[o] = k /\ o = start[k] + j
    BY <1>4
  <2>2. k + 1 \in 1 .. Len(V)
    BY <1>1
  <2>3. spot[o] \in Places(U)
    BY <1>3, <2>1, <2>2
  <2>4. At(U, spot[o]) = p[o]
    <3>1. At(U, spot[o]) = V[k + 1][j]
      BY <1>3, <2>1, <2>2
    <3>2. V[k + 1][j] = p[start[k] + j]
      BY <1>1, <2>1
    <3> QED BY <2>1, <3>1, <3>2
  <2>5. ASSUME NEW w \in Places(W) PROVE NotAfter(w, spot[o]) /\ ~NotAfter(spot[o], w)
    <3>1. w[1] <= M /\ w[1] \in Nat /\ spot[o][1] = M + (k + 1) /\ k \in Nat
      BY <1>1, <1>3, <2>1
    <3>2. w[1] < spot[o][1] /\ ~(spot[o][1] < w[1]) /\ spot[o][1] # w[1]
      BY <1>3, <3>1
    <3> QED BY <3>2 DEF NotAfter
  <2> QED BY <2>3, <2>4, <2>5
<1>6. ASSUME NEW o \in 1 .. Len(p), NEW q \in 1 .. Len(p) PROVE o <= q <=> NotAfter(spot[o], spot[q])
  <2>1. PICK k \in 0 .. last, j \in Nat :
          /\ spot[o] = <<M + (k + 1), j>> /\ j \in 1 .. Len(V[k + 1]) /\ home[o] = k /\ o = start[k] + j
    BY <1>4
  <2>2. PICK l \in 0 .. last, i \in Nat :
          /\ spot[q] = <<M + (l + 1), i>> /\ i \in 1 .. Len(V[l + 1]) /\ home[q] = l /\ q = start[l] + i
    BY <1>4
  <2>0. M \in Nat /\ k \in Nat /\ l \in Nat
    BY <1>1, <1>3
  <2>3. NotAfter(spot[o], spot[q]) <=> k < l \/ (k = l /\ j <= i)
    <3>1. /\ spot[o][1] = M + (k + 1) /\ spot[o][2] = j
          /\ spot[q][1] = M + (l + 1) /\ spot[q][2] = i
      BY <2>1, <2>2
    <3>2. (M + (k + 1) < M + (l + 1) <=> k < l) /\ (M + (k + 1) = M + (l + 1) <=> k = l)
      BY <2>0
    <3> QED BY <3>1, <3>2 DEF NotAfter
  <2>5. (o <= end[l] => k <= l) /\ (q <= end[k] => l <= k) /\ o <= end[k] /\ q <= end[l]
    BY <1>2, <2>1, <2>2
  <2>6. /\ start[k] \in Nat /\ end[k] \in Nat /\ end[l] \in Nat /\ o \in Nat /\ q \in Nat
        /\ k \in Nat /\ l \in Nat
    <3>1. o \in Nat /\ q \in Nat /\ k \in Nat /\ l \in Nat
      BY <1>1
    <3>2. start[k] \in Nat /\ end[k] \in Nat /\ end[l] \in Nat
      BY <1>1
    <3> QED BY <3>1, <3>2
  <2>7. CASE k = l
    <3>1. PICK a \in Nat : a = start[k]
      BY <2>6
    <3>2. o = a + j /\ q = a + i
      BY <2>1, <2>2, <2>7, <3>1
    <3>3. o <= q <=> j <= i
      BY <3>2
    <3> QED BY <2>3, <2>6, <2>7, <3>3
  <2>8. CASE k < l
    BY <2>3, <2>5, <2>6, <2>8
  <2>9. CASE l < k
    BY <2>3, <2>5, <2>6, <2>9
  <2> QED BY <2>6, <2>7, <2>8, <2>9
<1>7. ASSUME NEW w \in Places(U), w \notin Places(W)
      PROVE  \E o \in 1 .. Len(p) : p[o] = At(U, w) /\ NotAfter(spot[o], w)
  <2>1. PICK m \in 1 .. Len(V) : \E j \in 1 .. Len(V[m]) : w = <<M + m, j>>
    BY <1>3, <1>7
  <2>2. PICK j \in 1 .. Len(V[m]) : w = <<M + m, j>>
    BY <2>1
  <2>3. PICK k \in 0 .. last : k + 1 = m /\ k \in Nat
    <3>1. m - 1 \in 0 .. last /\ (m - 1) + 1 = m /\ m - 1 \in Nat
      BY <1>1
    <3> QED BY <3>1
  <2>4. PICK o \in 1 .. Len(p) : o = start[k] + j /\ o <= end[k]
    <3>1. /\ start[k] \in Nat /\ end[k] \in Nat /\ end[k] <= Len(p) /\ Len(V[m]) = end[k] - start[k]
          /\ j \in Nat /\ 1 <= j /\ j <= Len(V[m])
      <4>1. /\ start[k] \in Nat /\ end[k] \in Nat /\ end[k] <= Len(p) /\ Len(V[m]) = end[k] - start[k]
        BY <1>1, <2>3
      <4> QED BY <4>1
    <3>2. PICK a \in Nat, b \in Nat : a = start[k] /\ b = end[k]
      BY <3>1
    <3>3. Len(p) \in Nat /\ b <= Len(p) /\ j <= b - a /\ a \in Nat /\ b \in Nat /\ j \in Nat /\ 1 <= j
      BY <1>1, <3>1, <3>2
    <3>4. a + j \in 1 .. Len(p) /\ a + j <= b
      BY <3>3
    <3> QED BY <3>2, <3>4
  <2>5. p[o] = At(U, w)
    BY <1>1, <1>3, <2>2, <2>3, <2>4
  <2>6. PICK l \in 0 .. last, i \in Nat : spot[o] = <<M + (l + 1), i>> /\ home[o] = l /\ o = start[l] + i
    BY <1>4
  <2>7. l <= k /\ l \in Nat
    <3>1. l <= k
      BY <1>2, <2>4, <2>6
    <3>2. l \in Nat
      BY <1>1
    <3> QED BY <3>1, <3>2
  <2>8. l = k => i = j
    <3>1. start[k] \in Nat
      BY <1>1
    <3>2. j \in Nat
      BY <1>1
    <3>3. PICK a \in Nat : a = start[k]
      BY <3>1
    <3>4. l = k => a + j = a + i
      BY <2>4, <2>6, <3>3
    <3> QED BY <3>2, <3>4
  <2>9. NotAfter(spot[o], w)
    <3>1. M + (l + 1) < M + (k + 1) \/ (l = k /\ i = j)
      BY <1>3, <2>3, <2>7, <2>8
    <3>2. w[1] = M + (k + 1) /\ w[2] = j /\ j <= j
      <4>1. w = <<M + (k + 1), j>>
        BY <2>2, <2>3
      <4>2. j \in Nat
        BY <1>1
      <4> QED BY <4>1, <4>2
    <3>3. spot[o][1] = M + (l + 1) /\ spot[o][2] = i
      BY <2>6
    <3>4. l = k => M + (l + 1) = M + (k + 1)
      OBVIOUS
    <3> QED BY <3>1, <3>2, <3>3, <3>4 DEF NotAfter
  <2> QED BY <2>5, <2>9
<1>8. Adds(W, U, p, spot)
  BY <1>3, <1>5, <1>6, <1>7 DEF Adds
<1> QED BY <1>8 DEF U

LEMMA SplicedAre ==
  ASSUME NEW q \in Text, NEW p \in Text
  PROVE  LET r == Spliced(q, p)
         IN  /\ r \in Text /\ Len(q) \in Nat /\ Len(p) \in Nat /\ Len(r) = Len(q) + 1 + Len(p)
             /\ \A j \in 1 .. Len(q) : r[j] = q[j]
             /\ r[Len(q) + 1] = Separator
             /\ \A j \in 1 .. Len(p) : r[Len(q) + 1 + j] = p[j]
BY ChunkerAssumption DEF Text, Spliced

(* A paragraph behind the last chunk, after a separator. *)
LEMMA SpliceAdds ==
  ASSUME NEW V \in Seq(Text), NEW q \in Text, NEW p \in Text
  PROVE  \E spot : Adds(Append(V, q), Append(V, Spliced(q, p)), p, spot)
<1> DEFINE r == Spliced(q, p)
           N == Len(V)
           Q == Len(q)
           W == Append(V, q)
           U == Append(V, r)
<1>1. /\ r \in Text /\ Q \in Nat /\ Len(p) \in Nat /\ Len(r) = Q + 1 + Len(p)
      /\ \A j \in 1 .. Q : r[j] = q[j]
      /\ r[Q + 1] = Separator
      /\ \A j \in 1 .. Len(p) : r[Q + 1 + j] = p[j]
  BY SplicedAre
<1> HIDE DEF r
<1>2. /\ W \in Seq(Text) /\ N \in Nat
      /\ \A x : x \in Places(W) <=> x \in Places(V) \/ \E o \in 1 .. Q : x = <<N + 1, o>>
      /\ \A x \in Places(V) : x[1] <= N /\ x[1] \in Nat /\ At(W, x) = At(V, x)
      /\ \A o \in 1 .. Q : At(W, <<N + 1, o>>) = q[o]
  BY PlacesAppended
<1>3. /\ U \in Seq(Text)
      /\ \A x : x \in Places(U) <=> x \in Places(V) \/ \E o \in 1 .. Len(r) : x = <<N + 1, o>>
      /\ \A x \in Places(V) : At(U, x) = At(V, x)
      /\ \A o \in 1 .. Len(r) : At(U, <<N + 1, o>>) = r[o]
  BY <1>1, PlacesAppended
<1> HIDE DEF W, U
<1> DEFINE spot == [o \in 1 .. Len(p) |-> <<N + 1, Q + 1 + o>>]
<1>4. \A o \in 1 .. Len(p) : spot[o] = <<N + 1, Q + 1 + o>>
  OBVIOUS
<1> HIDE DEF spot, N
<1>5. ASSUME NEW w \in Places(W) PROVE w \in Places(U) /\ At(U, w) = At(W, w)
  <2>1. CASE w \in Places(V)
    BY <1>2, <1>3, <2>1
  <2>2. CASE \E o \in 1 .. Q : w = <<N + 1, o>>
    <3>1. PICK o \in 1 .. Q : w = <<N + 1, o>>
      BY <2>2
    <3>2. o \in 1 .. Len(r)
      BY <1>1
    <3> QED BY <1>1, <1>2, <1>3, <3>1, <3>2
  <2> QED BY <1>2, <2>1, <2>2
<1>6. ASSUME NEW o \in 1 .. Len(p)
      PROVE  /\ spot[o] \in Places(U) /\ At(U, spot[o]) = p[o]
             /\ \A w \in Places(W) : NotAfter(w, spot[o]) /\ ~NotAfter(spot[o], w)
  <2>1. Q + 1 + o \in 1 .. Len(r)
    BY <1>1
  <2>2. spot[o] \in Places(U) /\ At(U, spot[o]) = p[o]
    BY <1>1, <1>3, <1>4, <2>1
  <2>3. ASSUME NEW w \in Places(W) PROVE NotAfter(w, spot[o]) /\ ~NotAfter(spot[o], w)
    <3>1. spot[o][1] = N + 1 /\ spot[o][2] = Q + 1 + o /\ o \in Nat
      BY <1>1, <1>4
    <3>2. CASE w \in Places(V)
      <4>1. w[1] < N + 1 /\ ~(N + 1 < w[1]) /\ N + 1 # w[1]
        BY <1>2, <3>2
      <4> QED BY <3>1, <4>1 DEF NotAfter
    <3>3. CASE \E j \in 1 .. Q : w = <<N + 1, j>>
      <4>1. PICK j \in 1 .. Q : w = <<N + 1, j>>
        BY <3>3
      <4>2. w[1] = N + 1 /\ w[2] = j /\ j <= Q + 1 + o /\ ~(Q + 1 + o <= j) /\ ~(N + 1 < N + 1)
        BY <1>1, <1>2, <3>1, <4>1
      <4> QED BY <3>1, <4>2 DEF NotAfter
    <3> QED BY <1>2, <3>2, <3>3
  <2> QED BY <2>2, <2>3
<1>7. ASSUME NEW o \in 1 .. Len(p), NEW i \in 1 .. Len(p) PROVE o <= i <=> NotAfter(spot[o], spot[i])
  <2>1. spot[o][1] = N + 1 /\ spot[o][2] = Q + 1 + o /\ spot[i][1] = N + 1 /\ spot[i][2] = Q + 1 + i
    BY <1>4
  <2>2. (o <= i <=> Q + 1 + o <= Q + 1 + i) /\ ~(N + 1 < N + 1)
    BY <1>1, <1>2
  <2> QED BY <2>1, <2>2 DEF NotAfter
<1>8. ASSUME NEW w \in Places(U), w \notin Places(W), At(U, w) # Separator
      PROVE  \E o \in 1 .. Len(p) : p[o] = At(U, w) /\ NotAfter(spot[o], w)
  <2>1. PICK j \in 1 .. Len(r) : w = <<N + 1, j>> /\ j \notin 1 .. Q
    BY <1>2, <1>3, <1>8
  <2>2. j # Q + 1
    BY <1>1, <1>3, <1>8, <2>1
  <2>3. PICK o \in 1 .. Len(p) : j = Q + 1 + o
    <3>1. PICK L \in Nat : L = Len(p) /\ Len(r) = Q + 1 + L
      BY <1>1
    <3>2. j \in 1 .. Q + 1 + L /\ j \notin 1 .. Q /\ j # Q + 1 /\ Q \in Nat
      BY <1>1, <2>1, <2>2, <3>1
    <3>3. j - Q - 1 \in 1 .. L /\ j = Q + 1 + (j - Q - 1)
      BY <3>2
    <3> QED BY <3>1, <3>3
  <2>4. spot[o] = w /\ p[o] = At(U, w)
    BY <1>1, <1>3, <1>4, <2>1, <2>3
  <2>5. NotAfter(w, w)
    BY <1>3, OrderOfPlaces
  <2> QED BY <2>4, <2>5
<1>9. Adds(W, U, p, spot)
  BY <1>5, <1>6, <1>7, <1>8 DEF Adds
<1> QED BY <1>9 DEF W, U, r

LEMMA LastTokensAre ==
  ASSUME NEW t \in Text
  PROVE  /\ LastTokens(t) \in Text /\ Len(LastTokens(t)) \in Nat /\ Len(LastTokens(t)) <= Overlap
         /\ \A j \in 1 .. Len(LastTokens(t)) : \E l \in 1 .. Len(t) : t[l] = LastTokens(t)[j]
<1>0. Len(t) \in Nat /\ Overlap \in Nat /\ \A l \in 1 .. Len(t) : t[l] \in Nat
  BY SizeAssumption DEF Text
<1>1. CASE Len(t) <= Overlap
  <2>1. LastTokens(t) = t
    BY <1>1 DEF LastTokens
  <2> QED BY <1>0, <1>1, <2>1
<1>2. CASE ~(Len(t) <= Overlap)
  <2>1. PICK a \in Nat : a = Len(t) - Overlap
    <3>1. PICK n \in Nat : n = Len(t) /\ ~(n <= Overlap)
      BY <1>0, <1>2
    <3>2. n - Overlap \in Nat
      BY <3>1, SizeAssumption
    <3> QED BY <3>1, <3>2
  <2>2. LastTokens(t) = SubSeq(t, a + 1, Len(t))
    BY <1>2, <2>1 DEF LastTokens
  <2>3. SubSeq(t, a + 1, Len(t)) = [i \in 1 .. Len(t) - a |-> t[i + a]]
    BY <1>0, PartOf
  <2>4. Len(t) - a = Overlap /\ \A i \in 1 .. Overlap : i + a \in 1 .. Len(t)
    BY <1>0, <2>1
  <2>5. LastTokens(t) = [i \in 1 .. Overlap |-> t[i + a]]
    BY <2>2, <2>3, <2>4
  <2>6. LastTokens(t) \in Text /\ Len(LastTokens(t)) = Overlap
    BY <1>0, <2>4, <2>5 DEF Text
  <2> QED BY <1>0, <2>4, <2>5, <2>6
<1> QED BY <1>1, <1>2

(* A chunk of U is the one of W behind shift[i] more tokens, separators or tokens of the chunk before. *)
Shifts(W, U, shift) ==
  /\ U \in Seq(Text) /\ Len(U) = Len(W)
  /\ \A i \in 1 .. Len(W) :
       /\ shift[i] \in Nat /\ Len(U[i]) = shift[i] + Len(W[i]) /\ shift[i] <= Overlap + 1
       /\ \A j \in 1 .. Len(W[i]) : U[i][shift[i] + j] = W[i][j]
       /\ \A j \in 1 .. shift[i] :
            \/ U[i][j] = Separator
            \/ i - 1 \in 1 .. Len(W) /\ \E l \in 1 .. Len(W[i - 1]) : W[i - 1][l] = U[i][j]

LEMMA OverlapShifts ==
  ASSUME NEW W \in Seq(Text)
  PROVE  \E shift : Shifts(W, WithOverlap(W), shift)
<1>0. Len(W) \in Nat /\ Overlap \in Nat /\ \A i \in 1 .. Len(W) : W[i] \in Text /\ Len(W[i]) \in Nat
  BY SizeAssumption DEF Text
<1>1. CASE Overlap = 0
  <2> DEFINE shift == [i \in 1 .. Len(W) |-> 0]
  <2>1. WithOverlap(W) = W
    BY <1>1 DEF WithOverlap
  <2>2. \A i \in 1 .. Len(W) : shift[i] = 0
    OBVIOUS
  <2> HIDE DEF shift
  <2>3. \A i \in 1 .. Len(W) : /\ shift[i] \in Nat /\ Len(W[i]) = shift[i] + Len(W[i]) /\ shift[i] <= Overlap + 1
                               /\ \A j \in 1 .. Len(W[i]) : shift[i] + j = j
                               /\ \A j \in 1 .. shift[i] : FALSE
    BY <1>0, <2>2
  <2>4. Shifts(W, W, shift)
    BY <2>3 DEF Shifts
  <2> QED BY <2>1, <2>4
<1>2. CASE Overlap # 0
  <2> DEFINE U == WithOverlap(W)
             shift == [i \in 1 .. Len(W) |-> IF i = 1 THEN 0 ELSE Len(LastTokens(W[i - 1])) + 1]
  <2>1. U = [i \in 1 .. Len(W) |-> IF i = 1 THEN W[1] ELSE Spliced(LastTokens(W[i - 1]), W[i])]
    BY <1>2 DEF WithOverlap
  <2>2. \A i \in 1 .. Len(W) : /\ U[i] = (IF i = 1 THEN W[1] ELSE Spliced(LastTokens(W[i - 1]), W[i]))
                               /\ shift[i] = IF i = 1 THEN 0 ELSE Len(LastTokens(W[i - 1])) + 1
    BY <2>1
  <2> HIDE DEF shift
  <2>3. ASSUME NEW i \in 1 .. Len(W)
        PROVE  /\ shift[i] \in Nat /\ Len(U[i]) = shift[i] + Len(W[i]) /\ shift[i] <= Overlap + 1
               /\ \A j \in 1 .. Len(W[i]) : U[i][shift[i] + j] = W[i][j]
               /\ \A j \in 1 .. shift[i] :
                    \/ U[i][j] = Separator
                    \/ i - 1 \in 1 .. Len(W) /\ \E l \in 1 .. Len(W[i - 1]) : W[i - 1][l] = U[i][j]
               /\ U[i] \in Text
    <3>1. CASE i = 1
      <4>1. U[i] = W[i] /\ shift[i] = 0
        BY <2>2, <3>1
      <4>2. \A j \in 1 .. Len(W[i]) : 0 + j = j
        BY <1>0
      <4> QED BY <1>0, <4>1, <4>2
    <3>2. CASE i # 1
      <4>1. i - 1 \in 1 .. Len(W)
        BY <1>0, <3>2
      <4>2. PICK q \in Text : q = LastTokens(W[i - 1])
        BY <1>0, <4>1, LastTokensAre
      <4>3. /\ Len(q) \in Nat /\ Len(q) <= Overlap
            /\ \A j \in 1 .. Len(q) : \E l \in 1 .. Len(W[i - 1]) : W[i - 1][l] = q[j]
        BY <1>0, <4>1, <4>2, LastTokensAre
      <4>4. W[i] \in Text
        BY <1>0
      <4>5. /\ U[i] \in Text /\ Len(U[i]) = Len(q) + 1 + Len(W[i])
            /\ \A j \in 1 .. Len(q) : U[i][j] = q[j]
            /\ U[i][Len(q) + 1] = Separator
            /\ \A j \in 1 .. Len(W[i]) : U[i][Len(q) + 1 + j] = W[i][j]
        <5>1. U[i] = Spliced(q, W[i])
          BY <2>2, <3>2, <4>2
        <5>2. PICK t \in Text : t = W[i]
          BY <4>4
        <5>3. /\ Spliced(q, t) \in Text /\ Len(Spliced(q, t)) = Len(q) + 1 + Len(t)
              /\ \A j \in 1 .. Len(q) : Spliced(q, t)[j] = q[j]
              /\ Spliced(q, t)[Len(q) + 1] = Separator
              /\ \A j \in 1 .. Len(t) : Spliced(q, t)[Len(q) + 1 + j] = t[j]
          BY SplicedAre
        <5> HIDE DEF U
        <5> QED BY <5>1, <5>2, <5>3
      <4>6. shift[i] = Len(q) + 1
        BY <2>2, <3>2, <4>2
      <4>7. \A j \in 1 .. Len(q) + 1 : j \in 1 .. Len(q) \/ j = Len(q) + 1
        BY <4>3
      <4>8. Len(q) + 1 \in Nat /\ Len(q) + 1 <= Overlap + 1
        BY <1>0, <4>3
      <4>9. \A j \in 1 .. shift[i] :
              U[i][j] = Separator \/ \E l \in 1 .. Len(W[i - 1]) : W[i - 1][l] = U[i][j]
        <5> SUFFICES ASSUME NEW j \in 1 .. Len(q) + 1
                     PROVE  U[i][j] = Separator \/ \E l \in 1 .. Len(W[i - 1]) : W[i - 1][l] = U[i][j]
          BY <4>6
        <5>1. CASE j \in 1 .. Len(q)
          BY <4>3, <4>5, <5>1
        <5>2. CASE j = Len(q) + 1
          BY <4>5, <5>2
        <5> QED BY <4>7, <5>1, <5>2
      <4> HIDE DEF U
      <4> QED BY <4>1, <4>5, <4>6, <4>8, <4>9
    <3> QED BY <3>1, <3>2
  <2>4. U \in Seq(Text) /\ Len(U) = Len(W)
    BY <1>0, <2>1, <2>3
  <2>5. Shifts(W, U, shift)
    <3> HIDE DEF U
    <3> QED BY <2>3, <2>4 DEF Shifts
  <2> QED BY <2>5
<1> QED BY <1>1, <1>2

LEMMA ShiftsPlaced ==
  ASSUME NEW W \in Seq(Text), NEW U, NEW shift, Shifts(W, U, shift), NEW D \in Seq(Text), Placed(W, D)
  PROVE  Placed(U, D)
<1>1. PICK home : Homes(W, D, home)
  BY DEF Placed
<1>2. /\ \A x \in Places(D) : home[x] \in Places(W) /\ At(W, home[x]) = At(D, x)
      /\ \A x, y \in Places(D) : NotAfter(x, y) <=> NotAfter(home[x], home[y])
      /\ \A w \in Places(W) : \/ At(W, w) = Separator
                              \/ \E x \in Places(D) : At(D, x) = At(W, w) /\ NotAfter(home[x], w)
  BY <1>1 DEF Homes
<1>3. /\ U \in Seq(Text) /\ Len(U) = Len(W)
      /\ \A i \in 1 .. Len(W) :
           /\ shift[i] \in Nat /\ Len(U[i]) = shift[i] + Len(W[i])
           /\ \A j \in 1 .. Len(W[i]) : U[i][shift[i] + j] = W[i][j]
           /\ \A j \in 1 .. shift[i] :
                \/ U[i][j] = Separator
                \/ i - 1 \in 1 .. Len(W) /\ \E l \in 1 .. Len(W[i - 1]) : W[i - 1][l] = U[i][j]
  BY DEF Shifts
<1> DEFINE moved == [w \in Places(W) |-> <<w[1], shift[w[1]] + w[2]>>]
<1>4. \A w \in Places(W) : moved[w] = <<w[1], shift[w[1]] + w[2]>>
  OBVIOUS
<1> HIDE DEF moved
<1>5. ASSUME NEW w \in Places(W) PROVE moved[w] \in Places(U) /\ At(U, moved[w]) = At(W, w)
  <2>1. PICK i \in 1 .. Len(W) : \E j \in 1 .. Len(W[i]) : w = <<i, j>>
    BY PlacesAre
  <2>2. PICK j \in 1 .. Len(W[i]) : w = <<i, j>>
    BY <2>1
  <2>3. moved[w] = <<i, shift[i] + j>>
    BY <1>4, <2>2
  <2>4. shift[i] \in Nat /\ Len(W[i]) \in Nat /\ Len(U[i]) = shift[i] + Len(W[i])
    <3>1. W[i] \in Text
      OBVIOUS
    <3> QED BY <1>3, <3>1 DEF Text
  <2>5. shift[i] + j \in 1 .. Len(U[i]) /\ i \in 1 .. Len(U)
    <3>1. PICK a \in Nat, b \in Nat : a = shift[i] /\ b = Len(W[i]) /\ Len(U[i]) = a + b
      BY <2>4
    <3>2. a + j \in 1 .. a + b
      BY <3>1
    <3> QED BY <1>3, <3>1, <3>2
  <2>6. moved[w] \in Places(U)
    BY <1>3, <2>3, <2>5, PlacesAre
  <2>7. U[i][shift[i] + j] = W[i][j]
    BY <1>3
  <2> QED BY <2>2, <2>3, <2>6, <2>7 DEF At
<1>6. ASSUME NEW v \in Places(W), NEW w \in Places(W) PROVE NotAfter(v, w) <=> NotAfter(moved[v], moved[w])
  <2>1. /\ v[1] \in 1 .. Len(W) /\ v[1] \in Nat /\ v[2] \in Nat
        /\ w[1] \in 1 .. Len(W) /\ w[1] \in Nat /\ w[2] \in Nat
    BY PlacesHave
  <2>2. shift[v[1]] \in Nat /\ shift[w[1]] \in Nat
    BY <1>3, <2>1
  <2>3. /\ moved[v][1] = v[1] /\ moved[v][2] = shift[v[1]] + v[2]
        /\ moved[w][1] = w[1] /\ moved[w][2] = shift[w[1]] + w[2]
    BY <1>4
  <2>4. v[1] = w[1] => (v[2] <= w[2] <=> shift[v[1]] + v[2] <= shift[w[1]] + w[2])
    BY <2>1, <2>2
  <2> QED BY <2>3, <2>4 DEF NotAfter
<1>7. ASSUME NEW u \in Places(U), At(U, u) # Separator
      PROVE  \E w \in Places(W) : At(W, w) = At(U, u) /\ NotAfter(moved[w], u)
  <2>1. PICK i \in 1 .. Len(W) : \E j \in 1 .. Len(U[i]) : u = <<i, j>>
    BY <1>3, PlacesAre
  <2>2. PICK j \in 1 .. Len(U[i]) : u = <<i, j>>
    BY <2>1
  <2>3. shift[i] \in Nat /\ Len(W[i]) \in Nat /\ Len(U[i]) = shift[i] + Len(W[i]) /\ i \in Nat
    <3>1. W[i] \in Text /\ Len(W) \in Nat
      OBVIOUS
    <3> QED BY <1>3, <3>1 DEF Text
  <2>4. CASE j \in 1 .. shift[i]
    <3>1. U[i][j] # Separator
      BY <1>7, <2>2 DEF At
    <3>2. PICK l \in 1 .. Len(W[i - 1]) : i - 1 \in 1 .. Len(W) /\ W[i - 1][l] = U[i][j]
      BY <1>3, <2>4, <3>1
    <3>3. <<i - 1, l>> \in Places(W) /\ At(W, <<i - 1, l>>) = At(U, u)
      BY <2>2, <3>2, PlacesAre DEF At
    <3>4. moved[<<i - 1, l>>][1] = i - 1 /\ u[1] = i /\ i - 1 < i
      BY <1>4, <2>2, <2>3, <3>3
    <3> QED BY <3>3, <3>4 DEF NotAfter
  <2>5. CASE j \notin 1 .. shift[i]
    <3>1. PICK a \in Nat, b \in Nat : a = shift[i] /\ b = Len(W[i]) /\ Len(U[i]) = a + b
      BY <2>3
    <3>2. PICK l \in 1 .. b : j = a + l
      <4>1. j - a \in 1 .. b /\ j = a + (j - a)
        BY <2>5, <3>1
      <4> QED BY <4>1
    <3>3. <<i, l>> \in Places(W) /\ moved[<<i, l>>] = u
      <4>1. <<i, l>> \in Places(W)
        BY <3>1, <3>2, PlacesAre
      <4>2. moved[<<i, l>>] = <<i, shift[i] + l>>
        BY <1>4, <4>1
      <4> QED BY <2>2, <3>1, <3>2, <4>1, <4>2
    <3>4. At(W, <<i, l>>) = At(U, u)
      BY <1>5, <3>3
    <3>5. NotAfter(u, u)
      BY <1>3, OrderOfPlaces
    <3> QED BY <3>3, <3>4, <3>5
  <2> QED BY <2>4, <2>5
<1> DEFINE new == [x \in Places(D) |-> moved[home[x]]]
<1>8. \A x \in Places(D) : new[x] = moved[home[x]]
  OBVIOUS
<1> HIDE DEF new
<1>9. \A x \in Places(D) : new[x] \in Places(U) /\ At(U, new[x]) = At(D, x)
  BY <1>2, <1>5, <1>8
<1>10. \A x, y \in Places(D) : NotAfter(x, y) <=> NotAfter(new[x], new[y])
  BY <1>2, <1>6, <1>8
<1>11. ASSUME NEW u \in Places(U), At(U, u) # Separator
       PROVE  \E x \in Places(D) : At(D, x) = At(U, u) /\ NotAfter(new[x], u)
  <2>1. PICK w \in Places(W) : At(W, w) = At(U, u) /\ NotAfter(moved[w], u)
    BY <1>7, <1>11
  <2>2. PICK x \in Places(D) : At(D, x) = At(W, w) /\ NotAfter(home[x], w)
    BY <1>2, <1>11, <2>1
  <2>3. NotAfter(new[x], moved[w]) /\ new[x] \in Places(U) /\ moved[w] \in Places(U)
    BY <1>2, <1>5, <1>6, <1>8, <1>9, <2>1, <2>2
  <2>4. NotAfter(new[x], u)
    BY <1>3, <2>1, <2>3, OrderOfPlaces
  <2> QED BY <2>1, <2>2, <2>4
<1>12. Homes(U, D, new)
  BY <1>9, <1>10, <1>11 DEF Homes
<1> QED BY <1>12 DEF Placed

-----------------------------------------------------------------------------
(* What stands together *)

Width(p) == IF Len(p) <= ChunkSize THEN Len(p) ELSE Overlap + 1

(* The tokens of p behind token b, width of them, are in a row in a chunk. *)
Found(W, p, b, width) ==
  \E k \in 1 .. Len(W) : \E a \in Nat :
    a + width <= Len(W[k]) /\ \A i \in 1 .. width : W[k][a + i] = p[b + i]

Unbroken(W, D) ==
  \A i \in 1 .. Len(D) : \A b \in Nat :
    b + Width(D[i]) <= Len(D[i]) => Found(W, D[i], b, Width(D[i]))

(* Every chunk of W is in a row in one of U. *)
CarriedOver(W, U) ==
  \A k \in 1 .. Len(W) : \E m \in 1 .. Len(U) : \E s \in Nat :
    s + Len(W[k]) <= Len(U[m]) /\ \A j \in 1 .. Len(W[k]) : U[m][s + j] = W[k][j]

LEMMA FoundTogether ==
  ASSUME NEW W \in Seq(Text), NEW p \in Text, NEW b \in Nat, NEW width \in Nat,
         b + width <= Len(p), Found(W, p, b, width)
  PROVE  Together(W, p, b + 1, width)
<1>1. PICK k \in 1 .. Len(W), a \in Nat :
        a + width <= Len(W[k]) /\ \A i \in 1 .. width : W[k][a + i] = p[b + i]
  BY DEF Found
<1>2. PICK t \in Text : t = W[k]
  OBVIOUS
<1>3. Len(t) \in Nat /\ a + width <= Len(t) /\ \A i \in 1 .. width : t[a + i] = p[b + i]
  <2>1. Len(t) \in Nat
    BY DEF Text
  <2> QED BY <1>1, <1>2, <2>1
<1>4. SubSeq(t, a + 1, a + width) = [i \in 1 .. (a + width) - a |-> t[i + a]]
  BY <1>3, PartOf
<1>5. SubSeq(p, b + 1, b + width) = [i \in 1 .. (b + width) - b |-> p[i + b]]
  BY PartOf
<1>6. (a + width) - a = width /\ (b + width) - b = width
  OBVIOUS
<1>7. \A i \in 1 .. width : t[i + a] = p[i + b]
  <2>1. \A i \in 1 .. width : i + a = a + i /\ i + b = b + i
    OBVIOUS
  <2> QED BY <1>3, <2>1
<1>8. SubSeq(t, a + 1, a + width) = SubSeq(p, b + 1, b + width)
  BY <1>4, <1>5, <1>6, <1>7
<1>9. (a + 1) + width - 1 = a + width /\ (b + 1) + width - 1 = b + width
  OBVIOUS
<1>10. a + 1 \in 1 .. Len(t) - width + 1
  BY <1>3
<1>11. k \in DOMAIN W
  OBVIOUS
<1> QED BY <1>2, <1>8, <1>9, <1>10, <1>11 DEF Together

LEMMA FoundCarriedOver ==
  ASSUME NEW W \in Seq(Text), NEW U \in Seq(Text), CarriedOver(W, U), NEW p, NEW b \in Nat, NEW width \in Nat,
         Found(W, p, b, width)
  PROVE  Found(U, p, b, width)
<1>1. PICK k \in 1 .. Len(W), a \in Nat :
        a + width <= Len(W[k]) /\ \A i \in 1 .. width : W[k][a + i] = p[b + i]
  BY DEF Found
<1>2. PICK m \in 1 .. Len(U), s \in Nat :
        s + Len(W[k]) <= Len(U[m]) /\ \A j \in 1 .. Len(W[k]) : U[m][s + j] = W[k][j]
  BY DEF CarriedOver
<1>3. PICK n \in Nat, l \in Nat : n = Len(W[k]) /\ l = Len(U[m])
  <2>1. W[k] \in Text /\ U[m] \in Text
    OBVIOUS
  <2> QED BY <2>1 DEF Text
<1>4. s + a \in Nat /\ (s + a) + width <= l
  BY <1>1, <1>2, <1>3
<1>5. ASSUME NEW i \in 1 .. width PROVE U[m][(s + a) + i] = p[b + i]
  <2>1. a + i \in 1 .. n /\ (s + a) + i = s + (a + i)
    BY <1>1, <1>3
  <2>2. U[m][s + (a + i)] = W[k][a + i]
    BY <1>2, <1>3, <2>1
  <2> QED BY <1>1, <2>1, <2>2
<1> QED BY <1>3, <1>4, <1>5 DEF Found

LEMMA WidthIs ==
  ASSUME NEW p \in Text, p # <<>>
  PROVE  /\ Len(p) \in Nat /\ Len(p) > 0 /\ Width(p) \in Nat /\ Width(p) > 0 /\ Width(p) <= Len(p)
         /\ Len(p) <= ChunkSize \/ Width(p) = Overlap + 1
BY SizeAssumption DEF Text, Width

LEMMA UnbrokenMore ==
  ASSUME NEW W \in Seq(Text), NEW U \in Seq(Text), NEW D \in Seq(Text \ {<<>>}), NEW p \in Text \ {<<>>},
         Unbroken(W, D), CarriedOver(W, U),
         \A b \in Nat : b + Width(p) <= Len(p) => Found(U, p, b, Width(p))
  PROVE  Unbroken(U, Append(D, p))
<1> DEFINE E == Append(D, p)
           N == Len(D)
<1>1. N \in Nat /\ Len(E) = N + 1 /\ E[N + 1] = p /\ \A i \in 1 .. N : E[i] = D[i] /\ D[i] \in Text \ {<<>>}
  OBVIOUS
<1> HIDE DEF E
<1> SUFFICES ASSUME NEW i \in 1 .. Len(E), NEW b \in Nat, b + Width(E[i]) <= Len(E[i])
             PROVE  Found(U, E[i], b, Width(E[i]))
  BY DEF Unbroken, E
<1>2. CASE i = N + 1
  BY <1>1, <1>2
<1>3. CASE i # N + 1
  <2>1. i \in 1 .. N
    BY <1>1, <1>3
  <2>2. E[i] = D[i] /\ D[i] \in Text \ {<<>>}
    BY <1>1, <2>1
  <2>3. Found(W, D[i], b, Width(D[i]))
    BY <2>1, <2>2 DEF Unbroken
  <2>4. Width(D[i]) \in Nat
    BY <2>2, WidthIs
  <2>5. Found(U, D[i], b, Width(D[i]))
    BY <2>3, <2>4, FoundCarriedOver
  <2> QED BY <2>2, <2>5
<1> QED BY <1>2, <1>3

LEMMA JoinedCarry ==
  ASSUME NEW W \in Seq(Text), NEW V \in Seq(Text)
  PROVE  CarriedOver(W, W \o V)
<1> DEFINE U == W \o V
<1>1. /\ U \in Seq(Text) /\ Len(W) \in Nat /\ Len(V) \in Nat /\ Len(U) = Len(W) + Len(V)
      /\ \A m \in 1 .. Len(W) : U[m] = W[m]
  BY PlacesJoined
<1> HIDE DEF U
<1>2. ASSUME NEW k \in 1 .. Len(W)
      PROVE  \E m \in 1 .. Len(U) : \E s \in Nat :
               s + Len(W[k]) <= Len(U[m]) /\ \A j \in 1 .. Len(W[k]) : U[m][s + j] = W[k][j]
  <2>1. k \in 1 .. Len(U) /\ U[k] = W[k]
    BY <1>1
  <2>2. W[k] \in Text
    OBVIOUS
  <2>3. Len(W[k]) \in Nat
    BY <2>2 DEF Text
  <2>4. 0 + Len(W[k]) <= Len(U[k]) /\ \A j \in 1 .. Len(W[k]) : 0 + j = j
    BY <2>1, <2>3
  <2>5. \A j \in 1 .. Len(W[k]) : U[k][0 + j] = W[k][j]
    BY <2>1, <2>4
  <2>6. 0 \in Nat
    OBVIOUS
  <2> QED BY <2>1, <2>4, <2>5, <2>6
<1> QED BY <1>2 DEF CarriedOver, U

LEMMA ShiftsCarry ==
  ASSUME NEW W \in Seq(Text), NEW U, NEW shift, Shifts(W, U, shift)
  PROVE  CarriedOver(W, U)
<1>1. ASSUME NEW k \in 1 .. Len(W)
      PROVE  \E m \in 1 .. Len(U) : \E s \in Nat :
               s + Len(W[k]) <= Len(U[m]) /\ \A j \in 1 .. Len(W[k]) : U[m][s + j] = W[k][j]
  <2>1. /\ k \in 1 .. Len(U) /\ shift[k] \in Nat /\ Len(U[k]) = shift[k] + Len(W[k])
        /\ \A j \in 1 .. Len(W[k]) : U[k][shift[k] + j] = W[k][j]
    BY DEF Shifts
  <2>2. U[k] \in Text /\ W[k] \in Text
    BY <2>1 DEF Shifts
  <2>3. Len(W[k]) \in Nat /\ Len(U[k]) \in Nat
    BY <2>2 DEF Text
  <2>4. shift[k] + Len(W[k]) <= Len(U[k])
    BY <2>1, <2>3
  <2> QED BY <2>1, <2>4
<1> QED BY <1>1 DEF CarriedOver

(* What follows the last chunk leaves it at the beginning of the longer one. *)
LEMMA SpliceCarry ==
  ASSUME NEW V \in Seq(Text), NEW q \in Text, NEW p \in Text
  PROVE  LET U == Append(V, Spliced(q, p))
         IN  /\ CarriedOver(Append(V, q), U) /\ U \in Seq(Text)
             /\ \A b \in Nat, width \in Nat : b + width <= Len(p) => Found(U, p, b, width)
<1> DEFINE W == Append(V, q)
           r == Spliced(q, p)
           U == Append(V, r)
           N == Len(V)
<1>1. /\ r \in Text /\ Len(q) \in Nat /\ Len(p) \in Nat /\ Len(r) = Len(q) + 1 + Len(p)
      /\ \A j \in 1 .. Len(q) : r[j] = q[j]
      /\ \A j \in 1 .. Len(p) : r[Len(q) + 1 + j] = p[j]
  BY SplicedAre
<1> HIDE DEF r
<1>2. /\ N \in Nat /\ Len(W) = N + 1 /\ W[N + 1] = q /\ \A i \in 1 .. N : W[i] = V[i]
      /\ U \in Seq(Text) /\ Len(U) = N + 1 /\ U[N + 1] = r /\ \A i \in 1 .. N : U[i] = V[i]
  BY <1>1
<1>3. \A i \in 1 .. N : V[i] \in Text
  OBVIOUS
<1> HIDE DEF U, W, N
<1>4. ASSUME NEW k \in 1 .. Len(W)
      PROVE  \E m \in 1 .. Len(U) : \E s \in Nat :
               s + Len(W[k]) <= Len(U[m]) /\ \A j \in 1 .. Len(W[k]) : U[m][s + j] = W[k][j]
  <2>1. Len(W[k]) \in Nat /\ Len(W[k]) <= Len(U[k]) /\ \A j \in 1 .. Len(W[k]) : U[k][j] = W[k][j]
    <3>1. CASE k = N + 1
      BY <1>1, <1>2, <3>1
    <3>2. CASE k # N + 1
      <4>1. k \in 1 .. N
        BY <1>2, <3>2
      <4>2. V[k] \in Text
        BY <1>3, <4>1
      <4>3. Len(V[k]) \in Nat
        BY <4>2 DEF Text
      <4> QED BY <1>2, <4>1, <4>3
    <3> QED BY <3>1, <3>2
  <2>2. 0 + Len(W[k]) <= Len(U[k]) /\ (\A j \in 1 .. Len(W[k]) : 0 + j = j) /\ 0 \in Nat
    BY <2>1
  <2>3. \A j \in 1 .. Len(W[k]) : U[k][0 + j] = W[k][j]
    BY <2>1, <2>2
  <2>4. k \in 1 .. Len(U)
    BY <1>2
  <2> QED BY <2>2, <2>3, <2>4
<1>5. ASSUME NEW b \in Nat, NEW width \in Nat, b + width <= Len(p) PROVE Found(U, p, b, width)
  <2>1. PICK a \in Nat : a = Len(q) + 1 + b
    BY <1>1
  <2>2. a + width <= Len(U[N + 1])
    BY <1>1, <1>2, <1>5, <2>1
  <2>3. \A i \in 1 .. width : U[N + 1][a + i] = p[b + i]
    <3> SUFFICES ASSUME NEW i \in 1 .. width PROVE r[a + i] = p[b + i]
      BY <1>2
    <3>1. b + i \in 1 .. Len(p) /\ a + i = Len(q) + 1 + (b + i)
      BY <1>1, <1>5, <2>1
    <3> QED BY <1>1, <3>1
  <2>4. N + 1 \in 1 .. Len(U)
    BY <1>2
  <2> QED BY <2>2, <2>3, <2>4 DEF Found
<1> QED BY <1>2, <1>4, <1>5 DEF CarriedOver, U, W, r

(* Of a long paragraph any Overlap + 1 tokens in a row are in the first window that reaches the last. *)
LEMMA WindowsFind ==
  ASSUME NEW W \in Seq(Text), NEW p \in Text \ {<<>>}, NEW V, NEW last, NEW start, NEW end,
         Windows(V, p, last, start, end)
  PROVE  \A b \in Nat : b + Width(p) <= Len(p) => Found(W \o V, p, b, Width(p))
<1> DEFINE U == W \o V
           M == Len(W)
           width == Width(p)
<1> SUFFICES ASSUME NEW b \in Nat, b + width <= Len(p) PROVE Found(U, p, b, width)
  OBVIOUS
<1>1. /\ V \in Seq(Text) /\ Len(V) = last + 1 /\ last \in Nat /\ Len(p) \in Nat
      /\ \A k \in 0 .. last : /\ start[k] \in Nat /\ end[k] \in Nat
                              /\ Len(V[k + 1]) = end[k] - start[k]
                              /\ \A j \in 1 .. Len(V[k + 1]) : V[k + 1][j] = p[start[k] + j]
  BY WindowsAre
<1>2. /\ start[0] = 0 /\ \A k \in 1 .. last : end[k - 1] = start[k] + Overlap
      /\ Len(p) <= ChunkSize => last = 0
  BY DEF Windows
<1>3. width \in Nat /\ width > 0 /\ (last = 0 \/ width = Overlap + 1)
  BY <1>2, WidthIs
<1> HIDE DEF width
<1>4. PICK home : \A o \in 1 .. Len(p) :
        /\ home[o] \in 0 .. last /\ start[home[o]] < o /\ o <= end[home[o]]
        /\ \A j \in 0 .. last : o <= end[j] => home[o] <= j
  BY FirstWindow
<1>5. PICK o \in 1 .. Len(p) : o = b + width
  BY <1>1, <1>3
<1>6. PICK k \in 0 .. last : k = home[o]
  BY <1>4
<1>7. PICK s \in Nat, e \in Nat : s = start[k] /\ e = end[k] /\ o <= e
  BY <1>1, <1>4, <1>6
<1>8. s <= b
  <2>1. CASE k = 0
    BY <1>2, <1>7, <2>1
  <2>2. CASE k # 0
    <3>1. k \in 1 .. last /\ k - 1 \in 0 .. last /\ ~(k <= k - 1) /\ last # 0
      BY <1>1, <2>2
    <3>2. ~(o <= end[k - 1]) /\ end[k - 1] = s + Overlap /\ width = Overlap + 1
      BY <1>2, <1>3, <1>4, <1>6, <1>7, <3>1
    <3>3. Overlap \in Nat /\ o \in Nat
      BY <1>1, SizeAssumption
    <3> QED BY <1>5, <3>2, <3>3
  <2> QED BY <2>1, <2>2
<1>9. /\ U \in Seq(Text) /\ M \in Nat /\ Len(U) = M + Len(V)
      /\ \A m \in 1 .. Len(V) : U[M + m] = V[m]
  BY <1>1, PlacesJoined
<1> HIDE DEF U
<1>10. PICK m \in 1 .. Len(U) : m = M + (k + 1) /\ U[m] = V[k + 1]
  <2>1. k \in Nat /\ k <= last /\ Len(V) = last + 1 /\ Len(U) = M + Len(V) /\ last \in Nat /\ M \in Nat
    BY <1>1, <1>9
  <2>2. k + 1 \in 1 .. Len(V) /\ M + (k + 1) \in 1 .. Len(U)
    BY <2>1
  <2> QED BY <1>9, <2>2
<1>11. PICK a \in Nat : a = b - s
  BY <1>8
<1>0. width \in Nat /\ width > 0 /\ b + width <= e
  BY <1>3, <1>5, <1>7
<1>12. Len(U[m]) = e - s /\ \A j \in 1 .. e - s : U[m][j] = p[s + j]
  <2>1. Len(V[k + 1]) = end[k] - start[k] /\ \A j \in 1 .. Len(V[k + 1]) : V[k + 1][j] = p[start[k] + j]
    BY <1>1
  <2> QED BY <1>7, <1>10, <2>1
<1>13. a + width <= Len(U[m])
  <2>1. a + width <= e - s
    BY <1>0, <1>8, <1>11
  <2> QED BY <1>12, <2>1
<1>14. ASSUME NEW i \in 1 .. width PROVE U[m][a + i] = p[b + i]
  <2>1. a + i \in 1 .. e - s /\ s + (a + i) = b + i
    <3>1. a + i \in 1 .. e - s
      BY <1>0, <1>8, <1>11
    <3>2. s + (a + i) = b + i
      BY <1>8, <1>11
    <3> QED BY <3>1, <3>2
  <2> QED BY <1>12, <2>1
<1> QED BY <1>13, <1>14 DEF Found

-----------------------------------------------------------------------------
(* The loop of chunk() *)

Gathers(W, D) == Placed(W, D) /\ Unbroken(W, D)

LEMMA GathersHold ==
  ASSUME NEW W \in Seq(Text), NEW D \in Seq(Text \ {<<>>}), Gathers(W, D)
  PROVE  HoldsDocument(W, D)
<1>1. D \in Seq(Text)
  OBVIOUS
<1>2. \A t, u : t # Separator /\ u # Separator => (Leads(W, t, u) <=> Leads(D, t, u))
  BY <1>1, PlacedLeads DEF Gathers
<1>3. ASSUME NEW i \in DOMAIN D, NEW from \in 1 .. Len(D[i]) - Width(D[i]) + 1
      PROVE  Together(W, D[i], from, Width(D[i]))
  <2>1. PICK p \in Text \ {<<>>} : p = D[i]
    OBVIOUS
  <2>2. i \in 1 .. Len(D)
    OBVIOUS
  <2>3. Len(p) \in Nat /\ Width(p) \in Nat /\ Width(p) <= Len(p)
    BY WidthIs
  <2>4. PICK b \in Nat : b + 1 = from /\ b + Width(p) <= Len(p)
    <3>1. from - 1 \in Nat /\ (from - 1) + 1 = from /\ (from - 1) + Width(p) <= Len(p)
      BY <2>1, <2>3
    <3> QED BY <3>1
  <2>5. Found(W, p, b, Width(p))
    BY <2>1, <2>2, <2>4 DEF Gathers, Unbroken
  <2>6. Together(W, p, b + 1, Width(p))
    BY <2>3, <2>4, <2>5, FoundTogether
  <2> QED BY <2>1, <2>4, <2>6
<1>4. \A i \in DOMAIN D :
        LET p == D[i]
            width == IF Len(p) <= ChunkSize THEN Len(p) ELSE Overlap + 1
        IN  \A from \in 1 .. Len(p) - width + 1 : Together(W, p, from, width)
  BY <1>3 DEF Width
<1> QED BY <1>2, <1>4 DEF HoldsDocument

LEMMA GathersWindows ==
  ASSUME NEW W \in Seq(Text), NEW D \in Seq(Text \ {<<>>}), NEW p \in Text \ {<<>>}, Gathers(W, D),
         NEW V, \E last, start, end : Windows(V, p, last, start, end)
  PROVE  W \o V \in Seq(Text) /\ V \in Seq(Text) /\ Gathers(W \o V, Append(D, p))
<1>1. PICK last, start, end : Windows(V, p, last, start, end)
  OBVIOUS
<1>2. V \in Seq(Text) /\ D \in Seq(Text)
  BY <1>1, WindowsAre
<1> DEFINE U == W \o V
<1>3. U \in Seq(Text)
  BY <1>2
<1>4. PICK spot : Adds(W, U, p, spot)
  BY <1>1, WindowsAdd
<1>5. CarriedOver(W, U)
  BY <1>2, JoinedCarry
<1>6. \A b \in Nat : b + Width(p) <= Len(p) => Found(U, p, b, Width(p))
  BY <1>1, WindowsFind
<1> HIDE DEF U
<1>7. Placed(U, Append(D, p))
  BY <1>2, <1>3, <1>4, PlacedMore DEF Gathers
<1>8. Unbroken(U, Append(D, p))
  BY <1>3, <1>5, <1>6, UnbrokenMore DEF Gathers
<1> QED BY <1>2, <1>3, <1>7, <1>8 DEF Gathers, U

LEMMA GathersSpliced ==
  ASSUME NEW V \in Seq(Text), NEW q \in Text, NEW D \in Seq(Text \ {<<>>}), NEW p \in Text \ {<<>>},
         Gathers(Append(V, q), D)
  PROVE  Gathers(Append(V, Spliced(q, p)), Append(D, p))
<1> DEFINE W == Append(V, q)
           U == Append(V, Spliced(q, p))
<1>1. W \in Seq(Text) /\ D \in Seq(Text)
  OBVIOUS
<1>2. /\ U \in Seq(Text) /\ CarriedOver(W, U)
      /\ \A b \in Nat, width \in Nat : b + width <= Len(p) => Found(U, p, b, width)
  BY SpliceCarry
<1>3. PICK spot : Adds(W, U, p, spot)
  BY SpliceAdds
<1> HIDE DEF U
<1>4. Gathers(W, D)
  OBVIOUS
<1> HIDE DEF W
<1>5. Placed(U, Append(D, p))
  BY <1>1, <1>2, <1>3, <1>4, PlacedMore DEF Gathers
<1>6. \A b \in Nat : b + Width(p) <= Len(p) => Found(U, p, b, Width(p))
  BY <1>2, WidthIs
<1>7. Unbroken(U, Append(D, p))
  BY <1>1, <1>2, <1>4, <1>6, UnbrokenMore DEF Gathers
<1> QED BY <1>5, <1>7 DEF Gathers, U

LEMMA GathersOverlapped ==
  ASSUME NEW W \in Seq(Text), NEW D \in Seq(Text \ {<<>>}), Gathers(W, D)
  PROVE  WithOverlap(W) \in Seq(Text) /\ Gathers(WithOverlap(W), D)
<1> DEFINE U == WithOverlap(W)
<1>1. PICK shift : Shifts(W, U, shift)
  BY OverlapShifts
<1> HIDE DEF U
<1>2. U \in Seq(Text) /\ D \in Seq(Text)
  BY <1>1 DEF Shifts
<1>3. Placed(U, D)
  BY <1>1, <1>2, ShiftsPlaced DEF Gathers
<1>4. CarriedOver(W, U)
  BY <1>1, ShiftsCarry
<1>5. ASSUME NEW i \in 1 .. Len(D), NEW b \in Nat, b + Width(D[i]) <= Len(D[i])
      PROVE  Found(U, D[i], b, Width(D[i]))
  <2>1. D[i] \in Text \ {<<>>}
    OBVIOUS
  <2>2. Width(D[i]) \in Nat
    BY <2>1, WidthIs
  <2>3. Found(W, D[i], b, Width(D[i]))
    BY <1>5 DEF Gathers, Unbroken
  <2> QED BY <1>2, <1>4, <2>2, <2>3, FoundCarriedOver
<1> QED BY <1>2, <1>3, <1>5 DEF Gathers, Unbroken, U

LEMMA GathersNothing ==
  Gathers(<<>>, <<>>)
<1> DEFINE nothing == <<>>
<1>1. nothing \in Seq(Text) /\ Len(nothing) = 0
  OBVIOUS
<1> HIDE DEF nothing
<1>2. \A x : x \notin Places(nothing)
  <2>1. \A x : x \in Places(nothing) <=> \E i \in 1 .. Len(nothing) : \E j \in 1 .. Len(nothing[i]) : x = <<i, j>>
    BY <1>1, PlacesAre
  <2>2. \A i \in 1 .. Len(nothing) : FALSE
    BY <1>1
  <2> QED BY <2>1, <2>2
<1>3. Homes(nothing, nothing, nothing)
  BY <1>2 DEF Homes
<1>4. Unbroken(nothing, nothing)
  BY <1>1 DEF Unbroken
<1> QED BY <1>3, <1>4 DEF Gathers, Placed, nothing

Packings == [chunks : Seq(Text), buffer : Seq(Text \ {<<>>}), size : Nat]
Full(packing) == Flushed(packing).chunks

PackingOf(W, b, size) == [chunks |-> W, buffer |-> b, size |-> size]
Longer(packing, V) == [packing EXCEPT !.chunks = @ \o V]

LEMMA BufferedIs ==
  ASSUME NEW W, NEW b, NEW size, NEW p
  PROVE  Buffered(PackingOf(W, b, size), p) = PackingOf(W, Append(b, p), size + Len(p))
<1> DEFINE old == [chunks |-> W, buffer |-> b, size |-> size]
           c == Append(b, p)
           s == size + Len(p)
           new == [old EXCEPT !.buffer = c, !.size = s]
<1>0. Buffered(old, p) = new
  BY DEF Buffered
<1> HIDE DEF c, s
<1>1. new = [[old EXCEPT !.buffer = c] EXCEPT !.size = s]
  OBVIOUS
<1>2. PICK m : m = [old EXCEPT !.buffer = c]
  OBVIOUS
<1>3. new = [m EXCEPT !.size = s]
  BY <1>1, <1>2
<1>4. m = [chunks |-> W, buffer |-> c, size |-> size]
  BY <1>2
<1>5. [[chunks |-> W, buffer |-> c, size |-> size] EXCEPT !.size = s] = [chunks |-> W, buffer |-> c, size |-> s]
  OBVIOUS
<1>6. new = [chunks |-> W, buffer |-> c, size |-> s]
  <2> HIDE DEF new, old
  <2> QED BY <1>3, <1>4, <1>5
<1> QED BY <1>0, <1>6 DEF c, s, PackingOf

LEMMA LongerIs ==
  ASSUME NEW W, NEW b, NEW size, NEW V
  PROVE  Longer(PackingOf(W, b, size), V) = PackingOf(W \o V, b, size)
<1> DEFINE x == [chunks |-> W, buffer |-> b, size |-> size]
<1>1. PICK c : c = W \o V
  OBVIOUS
<1>2. x.chunks = W
  OBVIOUS
<1>3. [x EXCEPT !.chunks = @ \o V] = [x EXCEPT !.chunks = c]
  BY <1>1, <1>2
<1>4. [x EXCEPT !.chunks = c] = [chunks |-> c, buffer |-> b, size |-> size]
  OBVIOUS
<1> QED BY <1>1, <1>3, <1>4 DEF Longer, PackingOf

LEMMA PrefixGrows ==
  ASSUME NEW S, NEW D \in Seq(S), NEW n \in Nat, n + 1 <= Len(D)
  PROVE  SubSeq(D, 1, n) \in Seq(S) /\ SubSeq(D, 1, n + 1) = Append(SubSeq(D, 1, n), D[n + 1])
OBVIOUS

(* What holds after the paragraphs of D. *)
PackInv(packing, D) ==
  /\ packing \in Packings
  /\ packing.buffer = <<>> => packing.size = 0
  /\ packing.buffer # <<>> => Len(Joined(packing.buffer)) < 2 * packing.size
  /\ packing.size <= ChunkSize
  /\ \A k \in 1 .. Len(packing.chunks) : Len(packing.chunks[k]) < 2 * ChunkSize
  /\ Gathers(Full(packing), D)

LEMMA FullAre ==
  ASSUME NEW packing \in Packings
  PROVE  /\ packing.buffer = <<>> => Full(packing) = packing.chunks
         /\ packing.buffer # <<>> => Full(packing) = Append(packing.chunks, Joined(packing.buffer))
         /\ Joined(packing.buffer) \in Text /\ Full(packing) \in Seq(Text)
<1>1. packing.chunks \in Seq(Text) /\ packing.buffer \in Seq(Text)
  BY DEF Packings
<1>2. Joined(packing.buffer) \in Text
  <2>1. <<>> \in Text
    BY DEF Text
  <2> QED BY <1>1, <2>1, JoinedMore
<1>3. CASE packing.buffer = <<>>
  BY <1>1, <1>2, <1>3 DEF Full, Flushed
<1>4. CASE packing.buffer # <<>>
  <2>1. Full(packing) = Append(packing.chunks, Joined(packing.buffer))
    BY <1>4 DEF Full, Flushed
  <2> QED BY <1>1, <1>2, <1>4, <2>1
<1> QED BY <1>3, <1>4

LEMMA FullBounded ==
  ASSUME NEW packing, NEW D, PackInv(packing, D)
  PROVE  \A k \in 1 .. Len(Full(packing)) : Len(Full(packing)[k]) < 2 * ChunkSize
<1>1. packing \in Packings /\ \A k \in 1 .. Len(packing.chunks) : Len(packing.chunks[k]) < 2 * ChunkSize
  BY DEF PackInv
<1>2. CASE packing.buffer = <<>>
  BY <1>1, <1>2, FullAre
<1>3. CASE packing.buffer # <<>>
  <2>1. PICK W \in Seq(Text), q \in Text : W = packing.chunks /\ q = Joined(packing.buffer)
    BY <1>1, FullAre DEF Packings
  <2>2. Full(packing) = Append(W, q)
    BY <1>1, <1>3, <2>1, FullAre
  <2>3. Len(q) < 2 * ChunkSize
    <3>1. Len(q) < 2 * packing.size /\ packing.size <= ChunkSize /\ packing.size \in Nat /\ Len(q) \in Nat
      BY <1>3, <2>1 DEF PackInv, Packings, Text
    <3> QED BY <3>1, SizeAssumption
  <2>4. \A k \in 1 .. Len(Append(W, q)) : Append(W, q)[k] = IF k = Len(W) + 1 THEN q ELSE W[k]
    OBVIOUS
  <2>5. \A k \in 1 .. Len(Append(W, q)) : k \in 1 .. Len(W) \/ k = Len(W) + 1
    OBVIOUS
  <2> QED BY <1>1, <2>1, <2>2, <2>3, <2>4, <2>5
<1> QED BY <1>2, <1>3

LEMMA PackStart ==
  PackInv(Empty, <<>>)
<1>1. Empty \in Packings
  BY DEF Empty, Packings
<1>2. Full(Empty) = <<>>
  BY DEF Empty, Full, Flushed
<1>3. Empty.buffer = <<>> /\ Empty.size = 0 /\ Empty.chunks = <<>> /\ 0 <= ChunkSize
  BY SizeAssumption DEF Empty
<1> QED BY <1>1, <1>2, <1>3, GathersNothing DEF PackInv

(* The paragraph begins a new chunk behind the full ones. *)
LEMMA PackNew ==
  ASSUME NEW W \in Seq(Text), NEW D \in Seq(Text \ {<<>>}), NEW p \in Text \ {<<>>}, Gathers(W, D),
         \A k \in 1 .. Len(W) : Len(W[k]) < 2 * ChunkSize, Len(p) <= ChunkSize
  PROVE  PackInv([chunks |-> W, buffer |-> <<p>>, size |-> Len(p)], Append(D, p))
<1> DEFINE next == [chunks |-> W, buffer |-> <<p>>, size |-> Len(p)]
<1>1. Len(p) \in Nat /\ Len(p) > 0
  BY WidthIs
<1>2. next \in Packings
  BY <1>1 DEF Packings
<1>3. next.chunks = W /\ next.buffer = <<p>> /\ next.size = Len(p) /\ <<p>> # <<>>
  OBVIOUS
<1>4. Joined(<<p>>) = p
  <2>1. Joined(Append(<<>>, p)) = p
    <3> DEFINE none == <<>>
    <3>1. none \in Seq(Text) /\ none = <<>>
      OBVIOUS
    <3> HIDE DEF none
    <3> QED BY <3>1, JoinedMore
  <2>2. Append(<<>>, p) = <<p>>
    OBVIOUS
  <2> QED BY <2>1, <2>2
<1> HIDE DEF next
<1>5. Full(next) = Append(W, p)
  BY <1>2, <1>3, <1>4, FullAre
<1>6. Append(W, p) = W \o <<p>>
  OBVIOUS
<1>7. Gathers(W \o <<p>>, Append(D, p))
  BY OneWindow, GathersWindows
<1>8. Len(p) < 2 * Len(p)
  BY <1>1
<1> QED BY <1>2, <1>3, <1>4, <1>5, <1>6, <1>7, <1>8 DEF PackInv, next

LEMMA PackLong ==
  ASSUME NEW W \in Seq(Text), NEW D \in Seq(Text \ {<<>>}), NEW p \in Text \ {<<>>}, Gathers(W, D),
         \A k \in 1 .. Len(W) : Len(W[k]) < 2 * ChunkSize, Len(p) > ChunkSize
  PROVE  PackInv([chunks |-> W \o Slices(p), buffer |-> <<>>, size |-> 0], Append(D, p))
<1> DEFINE V == Slices(p)
           U == W \o V
           next == [chunks |-> U, buffer |-> <<>>, size |-> 0]
<1>1. PICK last, start, end : Windows(V, p, last, start, end)
  BY SlicesAre
<1> HIDE DEF V
<1>2. V \in Seq(Text) /\ U \in Seq(Text) /\ Gathers(U, Append(D, p))
  BY <1>1, GathersWindows
<1>3. \A k \in 1 .. Len(V) : Len(V[k]) <= ChunkSize /\ Len(V[k]) \in Nat
  <2> SUFFICES ASSUME NEW k \in 1 .. Len(V) PROVE Len(V[k]) <= ChunkSize /\ Len(V[k]) \in Nat
    OBVIOUS
  <2>0. Len(V) = last + 1 /\ last \in Nat
    BY <1>1, WindowsAre
  <2>1. \A l \in 0 .. last : V[l + 1] \in Text /\ Len(V[l + 1]) <= ChunkSize
    BY <1>1, WindowsAre
  <2>2. k - 1 \in 0 .. last /\ (k - 1) + 1 = k
    BY <2>0
  <2>3. V[k] \in Text /\ Len(V[k]) <= ChunkSize
    BY <2>1, <2>2
  <2> QED BY <2>3 DEF Text
<1>4. ASSUME NEW k \in 1 .. Len(U) PROVE Len(U[k]) < 2 * ChunkSize
  <2>1. /\ Len(W) \in Nat /\ Len(V) \in Nat /\ Len(U) = Len(W) + Len(V)
        /\ \A m \in 1 .. Len(W) : U[m] = W[m]
        /\ \A m \in 1 .. Len(V) : U[Len(W) + m] = V[m]
    BY <1>2, PlacesJoined
  <2>2. CASE k \in 1 .. Len(W)
    BY <2>1, <2>2
  <2>3. CASE k \notin 1 .. Len(W)
    <3>1. PICK m \in 1 .. Len(V) : k = Len(W) + m
      <4>1. k - Len(W) \in 1 .. Len(V) /\ k = Len(W) + (k - Len(W))
        BY <2>1, <2>3
      <4> QED BY <4>1
    <3>2. Len(U[k]) <= ChunkSize /\ Len(U[k]) \in Nat
      BY <1>3, <2>1, <3>1
    <3>3. ChunkSize < 2 * ChunkSize /\ ChunkSize \in Nat
      BY SizeAssumption
    <3> QED BY <3>2, <3>3
  <2> QED BY <2>2, <2>3
<1> HIDE DEF U
<1>5. next \in Packings
  BY <1>2 DEF Packings
<1>6. next.chunks = U /\ next.buffer = <<>> /\ next.size = 0 /\ 0 <= ChunkSize
  BY SizeAssumption
<1> HIDE DEF next
<1>7. Full(next) = U
  BY <1>5, <1>6, FullAre
<1> QED BY <1>2, <1>4, <1>5, <1>6, <1>7 DEF PackInv, next, U, V

LEMMA PackSplice ==
  ASSUME NEW packing, NEW D \in Seq(Text \ {<<>>}), NEW p \in Text \ {<<>>}, PackInv(packing, D),
         packing.buffer # <<>>, packing.size + Len(p) <= ChunkSize
  PROVE  PackInv(Buffered(packing, p), Append(D, p))
<1>1. /\ packing \in Packings /\ Len(Joined(packing.buffer)) < 2 * packing.size
      /\ \A k \in 1 .. Len(packing.chunks) : Len(packing.chunks[k]) < 2 * ChunkSize
      /\ Gathers(Full(packing), D)
  BY DEF PackInv
<1>2. PICK W \in Seq(Text), b \in Seq(Text \ {<<>>}), size \in Nat :
        W = packing.chunks /\ b = packing.buffer /\ size = packing.size
        /\ packing = [chunks |-> W, buffer |-> b, size |-> size]
  BY <1>1 DEF Packings
<1> DEFINE next == [chunks |-> W, buffer |-> Append(b, p), size |-> size + Len(p)]
<1>3. Buffered(packing, p) = next
  <2>1. packing = PackingOf(W, b, size)
    BY <1>2 DEF PackingOf
  <2>2. Buffered(packing, p) = PackingOf(W, Append(b, p), size + Len(p))
    BY <2>1, BufferedIs
  <2> QED BY <2>2 DEF PackingOf
<1>4. Len(p) \in Nat /\ Len(p) > 0
  BY WidthIs
<1>5. next \in Packings /\ Append(b, p) # <<>>
  <2>1. Append(b, p) \in Seq(Text \ {<<>>}) /\ Append(b, p) # <<>>
    OBVIOUS
  <2>2. size + Len(p) \in Nat
    BY <1>4
  <2> QED BY <2>1, <2>2 DEF Packings
<1>6. next.chunks = W /\ next.buffer = Append(b, p) /\ next.size = size + Len(p)
  OBVIOUS
<1> HIDE DEF next
<1>7. PICK q \in Text : q = Joined(b)
  BY <1>1, <1>2, FullAre
<1>8. Joined(Append(b, p)) = Spliced(q, p)
  <2>1. b \in Seq(Text) /\ b # <<>>
    BY <1>2
  <2> QED BY <1>7, <2>1, JoinedMore
<1>9. Full(packing) = Append(W, q)
  BY <1>1, <1>2, <1>7, FullAre
<1>10. Full(next) = Append(W, Spliced(q, p))
  BY <1>5, <1>6, <1>8, FullAre
<1>11. Gathers(Full(next), Append(D, p))
  BY <1>1, <1>9, <1>10, GathersSpliced
<1>12. Len(Joined(next.buffer)) < 2 * next.size
  <2>1. Len(Spliced(q, p)) = Len(q) + 1 + Len(p) /\ Len(q) \in Nat
    BY SplicedAre
  <2>2. Len(q) < 2 * size
    BY <1>1, <1>2, <1>7
  <2>3. Len(q) + 1 + Len(p) < 2 * (size + Len(p))
    BY <1>4, <2>1, <2>2
  <2> QED BY <1>6, <1>8, <2>1, <2>3
<1> QED BY <1>1, <1>2, <1>3, <1>5, <1>6, <1>11, <1>12 DEF PackInv

LEMMA PackStep ==
  ASSUME NEW packing, NEW D \in Seq(Text \ {<<>>}), NEW p \in Text \ {<<>>}, PackInv(packing, D)
  PROVE  PackInv(Packed(packing, p), Append(D, p))
<1> DEFINE W == Full(packing)
<1>1. /\ packing \in Packings /\ packing.size \in Nat /\ Len(p) \in Nat /\ ChunkSize \in Nat
      /\ packing.buffer = <<>> => packing.size = 0
  BY SizeAssumption, WidthIs DEF PackInv, Packings
<1>2. W \in Seq(Text) /\ Gathers(W, D) /\ \A k \in 1 .. Len(W) : Len(W[k]) < 2 * ChunkSize
  BY <1>1, FullAre, FullBounded DEF PackInv
<1>3. Flushed(packing) = [chunks |-> W, buffer |-> <<>>, size |-> 0]
  <2>1. CASE packing.buffer = <<>>
    <3>1. packing = [chunks |-> packing.chunks, buffer |-> packing.buffer, size |-> packing.size]
      BY <1>1 DEF Packings
    <3>2. W = packing.chunks
      BY <1>1, <2>1, FullAre
    <3>3. Flushed(packing) = packing
      BY <2>1 DEF Flushed
    <3> HIDE DEF W
    <3> QED BY <1>1, <2>1, <3>1, <3>2, <3>3
  <2>2. CASE packing.buffer # <<>>
    BY <2>2 DEF Full, Flushed
  <2> QED BY <2>1, <2>2
<1> HIDE DEF W
<1>4. CASE Len(p) > ChunkSize
  <2>1. Packed(packing, p) = [chunks |-> W \o Slices(p), buffer |-> <<>>, size |-> 0]
    <3>1. Packed(packing, p) = Longer(Flushed(packing), Slices(p))
      BY <1>4 DEF Packed, Longer
    <3>2. Flushed(packing) = PackingOf(W, <<>>, 0)
      BY <1>3 DEF PackingOf
    <3>3. Packed(packing, p) = PackingOf(W \o Slices(p), <<>>, 0)
      BY <3>1, <3>2, LongerIs
    <3> QED BY <3>3 DEF PackingOf
  <2> QED BY <1>2, <1>4, <2>1, PackLong
<1>5. CASE Len(p) <= ChunkSize
  <2>0. ~(Len(p) > ChunkSize)
    BY <1>1, <1>5
  <2>n. PackInv([chunks |-> W, buffer |-> <<p>>, size |-> Len(p)], Append(D, p))
    BY <1>2, <1>5, PackNew
  <2>b. Buffered([chunks |-> W, buffer |-> <<>>, size |-> 0], p)
          = [chunks |-> W, buffer |-> <<p>>, size |-> Len(p)]
    <3>1. Buffered(PackingOf(W, <<>>, 0), p) = PackingOf(W, Append(<<>>, p), 0 + Len(p))
      <4>1. PICK none : none = <<>>
        OBVIOUS
      <4>2. Buffered(PackingOf(W, none, 0), p) = PackingOf(W, Append(none, p), 0 + Len(p))
        BY BufferedIs
      <4> QED BY <4>1, <4>2
    <3>2. Append(<<>>, p) = <<p>> /\ 0 + Len(p) = Len(p)
      BY <1>1
    <3> QED BY <3>1, <3>2 DEF PackingOf
  <2>1. CASE packing.size + Len(p) > ChunkSize
    <3>1. Packed(packing, p) = Buffered(Flushed(packing), p)
      BY <2>0, <2>1 DEF Packed
    <3> QED BY <1>3, <2>n, <2>b, <3>1
  <2>2. CASE ~(packing.size + Len(p) > ChunkSize)
    <3>1. Packed(packing, p) = Buffered(packing, p)
      BY <2>0, <2>2 DEF Packed
    <3>2. CASE packing.buffer = <<>>
      <4>1. Flushed(packing) = packing
        BY <3>2 DEF Flushed
      <4> QED BY <1>3, <2>n, <2>b, <3>1, <4>1
    <3>3. CASE packing.buffer # <<>>
      <4>1. packing.size + Len(p) <= ChunkSize
        BY <1>1, <2>2
      <4> QED BY <3>1, <3>3, <4>1, PackSplice
    <3> QED BY <3>2, <3>3
  <2> QED BY <2>1, <2>2
<1> QED BY <1>1, <1>4, <1>5

-----------------------------------------------------------------------------
(* The chunks of a document *)

LEMMA PackedIn ==
  ASSUME NEW packing \in Packings, NEW p \in Text \ {<<>>}
  PROVE  Packed(packing, p) \in Packings
<1>1. /\ packing.chunks \in Seq(Text) /\ packing.buffer \in Seq(Text \ {<<>>}) /\ packing.size \in Nat
      /\ packing = [chunks |-> packing.chunks, buffer |-> packing.buffer, size |-> packing.size]
  BY DEF Packings
<1>2. Len(p) \in Nat /\ ChunkSize \in Nat
  BY SizeAssumption, WidthIs
<1>3. Flushed(packing) \in Packings
  BY <1>1, FullAre DEF Full, Flushed, Packings
<1>4. ASSUME NEW x \in Packings PROVE Buffered(x, p) \in Packings
  <2>1. PICK W \in Seq(Text), b \in Seq(Text \ {<<>>}), size \in Nat :
          x = PackingOf(W, b, size)
    BY DEF Packings, PackingOf
  <2>2. Append(b, p) \in Seq(Text \ {<<>>}) /\ size + Len(p) \in Nat
    BY <1>2
  <2>3. Buffered(x, p) = PackingOf(W, Append(b, p), size + Len(p))
    BY <2>1, BufferedIs
  <2> QED BY <2>2, <2>3 DEF Packings, PackingOf
<1>5. ASSUME Len(p) > ChunkSize PROVE Longer(Flushed(packing), Slices(p)) \in Packings
  <2>1. PICK last, start, end : Windows(Slices(p), p, last, start, end)
    BY <1>5, SlicesAre
  <2>2. Slices(p) \in Seq(Text)
    BY <2>1, WindowsAre
  <2>3. PICK W \in Seq(Text), b \in Seq(Text \ {<<>>}), size \in Nat :
          Flushed(packing) = PackingOf(W, b, size)
    BY <1>3 DEF Packings, PackingOf
  <2>4. Longer(Flushed(packing), Slices(p)) = PackingOf(W \o Slices(p), b, size)
    BY <2>3, LongerIs
  <2>5. W \o Slices(p) \in Seq(Text)
    BY <2>2
  <2> QED BY <2>4, <2>5 DEF Packings, PackingOf
<1> QED BY <1>3, <1>4, <1>5 DEF Packed, Longer

(* The loop over the paragraphs. *)
PackingBy(D, f) ==
  f = [n \in 0 .. Len(D) |-> IF n = 0 THEN Empty ELSE Packed(f[n - 1], D[n])]

LEMMA PackingIs ==
  ASSUME NEW D \in Seq(Text \ {<<>>})
  PROVE  \E f : PackingBy(D, f) /\ Packing(D) = f[Len(D)]
<1>0. Len(D) \in Nat /\ \A n \in 1 .. Len(D) : D[n] \in Text \ {<<>>}
  OBVIOUS
<1> DEFINE after == [n \in 1 .. Len(D) |-> [x \in Packings |-> Packed(x, D[n])]]
           first == Empty
<1>1. PICK f \in [0 .. Len(D) -> Packings] : Goes(f, first, after, Len(D))
  <2>1. first \in Packings
    BY DEF Empty, Packings
  <2>2. StepsIn(after, Len(D), Packings)
    BY <1>0, PackedIn DEF StepsIn
  <2> HIDE DEF after, first
  <2> QED BY <1>0, <2>1, <2>2, Recursion
<1>2. ASSUME NEW n \in 1 .. Len(D) PROVE f[n] = Packed(f[n - 1], D[n])
  <2>1. n - 1 \in 0 .. Len(D)
    BY <1>0
  <2>2. f[n - 1] \in Packings
    BY <2>1
  <2> QED BY <1>1, <2>2 DEF Goes
<1>3. PackingBy(D, f)
  <2>1. f = [n \in 0 .. Len(D) |-> f[n]]
    OBVIOUS
  <2>2. \A n \in 0 .. Len(D) : f[n] = IF n = 0 THEN Empty ELSE Packed(f[n - 1], D[n])
    BY <1>0, <1>1, <1>2 DEF Goes
  <2> QED BY <2>1, <2>2 DEF PackingBy
<1> DEFINE g == CHOOSE g : PackingBy(D, g)
<1>4. PackingBy(D, g)
  BY <1>3
<1>5. Packing(D) = g[Len(D)]
  BY DEF Packing, PackingBy
<1> QED BY <1>4, <1>5

LEMMA PackingHolds ==
  ASSUME NEW D \in Seq(Text \ {<<>>})
  PROVE  PackInv(Packing(D), D)
<1> DEFINE N == Len(D)
           upTo(n) == SubSeq(D, 1, n)
<1>0. N \in Nat /\ \A n \in 1 .. N : D[n] \in Text \ {<<>>}
  OBVIOUS
<1>1. PICK f : PackingBy(D, f) /\ Packing(D) = f[N]
  BY PackingIs
<1>2. f[0] = Empty /\ \A n \in 1 .. N : f[n] = Packed(f[n - 1], D[n])
  BY <1>0, <1>1 DEF PackingBy
<1>3. upTo(0) = <<>> /\ upTo(N) = D
  OBVIOUS
<1>4. ASSUME NEW n \in Nat, n + 1 <= N
      PROVE  upTo(n) \in Seq(Text \ {<<>>}) /\ upTo(n + 1) = Append(upTo(n), D[n + 1])
  BY <1>4, PrefixGrows
<1> HIDE DEF upTo
<1> DEFINE T == {n \in Nat : n <= N => PackInv(f[n], upTo(n))}
<1>5. 0 \in T
  BY <1>2, <1>3, PackStart
<1>6. ASSUME NEW n \in Nat, n \in T PROVE n + 1 \in T
  <2> SUFFICES ASSUME n + 1 <= N PROVE PackInv(f[n + 1], upTo(n + 1))
    OBVIOUS
  <2>1. n + 1 \in 1 .. N /\ (n + 1) - 1 = n /\ PackInv(f[n], upTo(n))
    BY <1>0, <1>6
  <2>2. f[n + 1] = Packed(f[n], D[n + 1]) /\ D[n + 1] \in Text \ {<<>>}
    BY <1>0, <1>2, <2>1
  <2> QED BY <1>4, <2>1, <2>2, PackStep
<1>7. PackInv(f[N], upTo(N))
  <2>1. Nat \subseteq T
    <3> HIDE DEF T
    <3> QED BY <1>5, <1>6, Inductive
  <2> QED BY <1>0, <2>1
<1> QED BY <1>1, <1>3, <1>7

(* chunk() holds the document and keeps to the bound. *)
LEMMA ChunksAre ==
  ASSUME NEW D \in Seq(Text \ {<<>>})
  PROVE  /\ HoldsDocument(Chunks(D), D)
         /\ \A k \in DOMAIN Chunks(D) : Len(Chunks(D)[k]) <= 2 * ChunkSize + Overlap
<1>1. PICK packing : packing = Packing(D)
  OBVIOUS
<1>2. PackInv(packing, D)
  BY <1>1, PackingHolds
<1> DEFINE W == Full(packing)
           U == WithOverlap(W)
<1>3. /\ W \in Seq(Text) /\ Gathers(W, D)
      /\ \A k \in 1 .. Len(W) : Len(W[k]) < 2 * ChunkSize
  BY <1>2, FullAre, FullBounded DEF PackInv
<1>4. Chunks(D) = U
  BY <1>1 DEF Chunks, Full
<1> HIDE DEF W
<1>5. U \in Seq(Text) /\ Gathers(U, D)
  BY <1>3, GathersOverlapped
<1>6. PICK shift : Shifts(W, U, shift)
  BY <1>3, OverlapShifts
<1> HIDE DEF U
<1>7. HoldsDocument(U, D)
  BY <1>5, GathersHold
<1>8. ASSUME NEW k \in DOMAIN U PROVE Len(U[k]) <= 2 * ChunkSize + Overlap
  <2>1. k \in 1 .. Len(W)
    BY <1>5, <1>6 DEF Shifts
  <2>2. shift[k] \in Nat /\ shift[k] <= Overlap + 1 /\ Len(U[k]) = shift[k] + Len(W[k])
    BY <1>6, <2>1 DEF Shifts
  <2>3. Len(W[k]) < 2 * ChunkSize /\ W[k] \in Text
    BY <1>3, <2>1
  <2>4. Len(W[k]) \in Nat
    BY <2>3 DEF Text
  <2> QED BY <2>2, <2>3, <2>4, SizeAssumption
<1> QED BY <1>4, <1>7, <1>8

(* A call that has just cut its document has the chunks of it. *)
CutOfDocument ==
  /\ pc = [c \in Call |-> pc[c]] /\ document = [c \in Call |-> document[c]] /\ texts = [c \in Call |-> texts[c]]
  /\ \A c \in JustCut : document[c] \in Documents[c] /\ texts[c] = Cut[document[c]]

LEMMA CutFrame ==
  ASSUME CutOfDocument, document' = document, texts' = texts, pc' = [c \in Call |-> pc'[c]], JustCut' \subseteq JustCut
  PROVE  CutOfDocument'
<1>1. JustCut' \subseteq JustCut /\ JustCut' \subseteq Call
  BY DEF JustCut
<1> QED BY <1>1 DEF CutOfDocument

LEMMA CutGoes ==
  ASSUME CutOfDocument, document' = document, texts' = texts, NEW c \in Call, NEW step, GoTo(c, step), step # "lookup"
  PROVE  CutOfDocument'
<1>1. pc' = [pc EXCEPT ![c] = step] /\ pc = [d \in Call |-> pc[d]]
  BY DEF GoTo, CutOfDocument
<1>2. pc' = [d \in Call |-> pc'[d]] /\ JustCut' \subseteq JustCut
  BY <1>1 DEF JustCut
<1> QED BY <1>2, CutFrame

LEMMA CutBegins ==
  ASSUME CutOfDocument, NEW c \in Call, Begin(c)
  PROVE  CutOfDocument'
<1>1. CASE Kind[c] = "chat"
  <2>1. GoTo(c, "acquire") /\ document' = document /\ texts' = texts
    BY <1>1 DEF Begin
  <2> QED BY <2>1, CutGoes
<1>2. CASE Kind[c] # "chat"
  <2>1. PICK d \in Documents[c] : /\ document' = [document EXCEPT ![c] = d]
                                  /\ texts' = [texts EXCEPT ![c] = Cut[d]]
                                  /\ GoTo(c, IF Cut[d] = <<>> THEN "done" ELSE "lookup")
    BY <1>2 DEF Begin
  <2>2. PICK step : pc' = [pc EXCEPT ![c] = step]
    BY <2>1 DEF GoTo
  <2>3. /\ pc = [b \in Call |-> pc[b]] /\ document = [b \in Call |-> document[b]]
        /\ texts = [b \in Call |-> texts[b]]
        /\ \A b \in JustCut : document[b] \in Documents[b] /\ texts[b] = Cut[document[b]]
    BY DEF CutOfDocument
  <2>4. ASSUME NEW b \in Call
        PROVE  /\ b # c => pc'[b] = pc[b] /\ document'[b] = document[b] /\ texts'[b] = texts[b]
               /\ b = c => document'[b] = d /\ texts'[b] = Cut[d]
    BY <2>1, <2>2, <2>3
  <2>5. ASSUME NEW b \in JustCut' PROVE document'[b] \in Documents[b] /\ texts'[b] = Cut[document'[b]]
    <3>1. b \in Call /\ pc'[b] = "lookup"
      BY DEF JustCut
    <3>2. CASE b = c
      BY <2>4, <3>1, <3>2
    <3>3. CASE b # c
      <4>1. b \in JustCut
        BY <2>4, <3>1, <3>3 DEF JustCut
      <4> QED BY <2>3, <2>4, <3>1, <3>3, <4>1
    <3> QED BY <3>2, <3>3
  <2>6. /\ pc' = [b \in Call |-> pc'[b]] /\ document' = [b \in Call |-> document'[b]]
        /\ texts' = [b \in Call |-> texts'[b]]
    BY <2>1, <2>2, <2>3
  <2> QED BY <2>5, <2>6 DEF CutOfDocument
<1> QED BY <1>1, <1>2

LEMMA CutStays == CutOfDocument /\ [Next]_vars => CutOfDocument'
<1> SUFFICES ASSUME CutOfDocument, [Next]_vars PROVE CutOfDocument'
  OBVIOUS
<1>1. CASE UNCHANGED vars
  BY <1>1 DEF vars, callVars, CutOfDocument, JustCut
<1>2. ASSUME NEW c \in Call, Begin(c) PROVE CutOfDocument'
  BY <1>2, CutBegins
<1>3. ASSUME NEW c \in Call, Lookup(c) PROVE CutOfDocument'
  BY <1>3, CutGoes DEF Lookup
<1>4. ASSUME NEW c \in Call, Acquire(c) PROVE CutOfDocument'
  BY <1>4, CutGoes DEF Acquire, callVars
<1>5. ASSUME NEW c \in Call, Answer(c) PROVE CutOfDocument'
  BY <1>5, CutGoes DEF Answer
<1>6. ASSUME NEW c \in Call, AnswerShort(c) PROVE CutOfDocument'
  BY <1>6, CutGoes DEF AnswerShort
<1>7. ASSUME NEW c \in Call, AnswerError(c) PROVE CutOfDocument'
  BY <1>7, CutGoes DEF AnswerError, callVars
<1>8. ASSUME NEW c \in Call, Save(c) PROVE CutOfDocument'
  BY <1>8, CutGoes DEF Save, callVars
<1>9. ASSUME NEW c \in Call, RedisError(c) PROVE CutOfDocument'
  BY <1>9, CutGoes DEF RedisError, callVars
<1>10. ASSUME NEW c \in Call, Merge(c) PROVE CutOfDocument'
  BY <1>10, CutGoes DEF Merge
<1>11. ASSUME NEW text, Expire(text) PROVE CutOfDocument'
  BY <1>11 DEF Expire, callVars, CutOfDocument, JustCut
<1>12. ASSUME NEW p \in Process, Redeploy(p) PROVE CutOfDocument'
  <2>1. document' = document /\ texts' = texts /\ pc' = [c \in Call |-> pc'[c]]
    BY <1>12 DEF Redeploy, callVars
  <2>2. JustCut' \subseteq JustCut
    BY <1>12 DEF Redeploy, JustCut
  <2> QED BY <2>1, <2>2, CutFrame
<1> QED BY <1>1, <1>2, <1>3, <1>4, <1>5, <1>6, <1>7, <1>8, <1>9, <1>10, <1>11, <1>12 DEF Next, Step

LEMMA CutInitially == Init => CutOfDocument
<1>1. Init => JustCut = {}
  BY DEF Init, JustCut
<1> QED BY <1>1 DEF Init, CutOfDocument

LEMMA CutHeld ==
  ASSUME CutOfDocument, NEW c \in JustCut
  PROVE  document[c] \in Seq(Text \ {<<>>}) /\ texts[c] = Chunks(document[c])
<1>1. c \in Call /\ document[c] \in Documents[c] /\ texts[c] = Cut[document[c]]
  BY DEF CutOfDocument, JustCut
<1>2. document[c] \in UNION {Documents[b] : b \in Call}
  BY <1>1
<1>3. Cut[document[c]] = Chunks(document[c])
  BY <1>2, ChunkerAssumption DEF CutByChunker
<1> QED BY <1>1, <1>3, ChunkerAssumption

(* Whatever the paragraphs of a document, its chunks hold its tokens in the order in which they       *)
(* first occur, and what stands together is found together (chunker.py:40, :75).                      *)
THEOREM ChunksHoldTheDocument == Spec => []ChunksHoldDocument
<1>1. CutOfDocument => ChunksHoldDocument
  <2> SUFFICES ASSUME CutOfDocument, NEW c \in JustCut PROVE HoldsDocument(texts[c], document[c])
    BY DEF ChunksHoldDocument
  <2>1. document[c] \in Seq(Text \ {<<>>}) /\ texts[c] = Chunks(document[c])
    BY CutHeld
  <2> QED BY <2>1, ChunksAre
<1> QED BY <1>1, CutInitially, CutStays, PTL DEF Spec

(* No chunk is longer than twice chunk_size and the overlap: a separator is charged to nobody, but    *)
(* there are fewer of them than tokens (chunker.py:51).                                               *)
THEOREM ChunksAreBounded == Spec => []ChunkBound
<1>1. CutOfDocument => ChunkBound
  <2> SUFFICES ASSUME CutOfDocument, NEW c \in JustCut, NEW k \in DOMAIN texts[c]
               PROVE  Len(texts[c][k]) <= 2 * ChunkSize + Overlap
    BY DEF ChunkBound
  <2>1. document[c] \in Seq(Text \ {<<>>}) /\ texts[c] = Chunks(document[c])
    BY CutHeld
  <2> QED BY <2>1, ChunksAre
<1> QED BY <1>1, CutInitially, CutStays, PTL DEF Spec
=============================================================================
