------------------------------ MODULE Embedding ------------------------------
(***************************************************************************)
(* The calls of app/client/llm_client.py that the processes of one         *)
(* deployment make: an ingest embeds the chunks of its document through    *)
(* the cache (DocumentService._embed_with_cache, EmbeddingCache), a chat   *)
(* or an analysis asks for a completion.  The cache is shared, in Redis;   *)
(* the semaphore and the choice of the provider belong to a process.       *)
(*                                                                         *)
(* One step is one Redis command, the acquisition of the semaphore, or the *)
(* answer of the provider.  A vector is the text it stands for and the     *)
(* model that made it.                                                     *)
(***************************************************************************)
EXTENDS Naturals, Sequences, SequencesExt, FiniteSets

CONSTANTS
    Call,             \* the calls
    Kind,             \* Kind[c]: "ingest" or "chat"
    Process, Host,    \* Host[c]: the process that makes call c
    Documents,        \* Documents[c]: the documents call c may be about
    Cut,              \* Cut[d]: the texts of the chunks that TextChunker makes of document d
    Model, Demo,      \* the embedding models of the providers; that of the demo provider
    FirstModel,       \* the one the deployment starts with
    None,             \* a miss
    MaxConcurrency,   \* llm_max_concurrency
    MaxFaults,        \* bound: errors of the provider or Redis, and replies of a wrong length
    MaxExpiries,      \* bound: cache entries that expire
    MaxRedeploys      \* bound: processes started again, with any provider

(* A text is a sequence of tokens, which are numbers. *)
Text == Seq(Nat)

ASSUME CallAssumption ==
    /\ IsFiniteSet(Call)
    /\ Kind \in [Call -> {"ingest", "chat"}]
    /\ \A c \in Call : \A d \in Documents[c] : Cut[d] \in Seq(Text)
    /\ Host \in [Call -> Process]
    /\ FirstModel \in Model /\ Demo \in Model
    /\ MaxConcurrency \in Nat \ {0}
    /\ {MaxFaults, MaxExpiries, MaxRedeploys} \subseteq Nat

VARIABLES
    pc,        \* pc[c]: the next step of call c
    document,  \* document[c]: what call c ingests
    texts,     \* texts[c]: its chunks
    cached,    \* cached[c]: what get_many returned for each of them
    fresh,     \* fresh[c]: what the provider returned
    result,    \* result[c]: the embeddings handed to the caller
    cache,     \* the Redis keys embed:{model}:{digest}
    permits,   \* permits[p]: what is left of the semaphore
    model,     \* model[p]: the model of the provider p is configured for
    faults, expiries, redeploys   \* how much of each bound is used

callVars == <<document, texts, cached, fresh, result>>
boundVars == <<faults, expiries, redeploys>>
vars == <<pc, callVars, cache, permits, model, boundVars>>

Steps == {"begin", "lookup", "acquire", "provider", "save", "merge", "done", "failed"}
Ended == {"done", "failed"}

(* embed(): the demo provider gives every text the same vector. *)
Vector(mod, text) == [model |-> mod, text |-> IF mod = Demo THEN <<>> ELSE text]

Init ==
    /\ pc = [c \in Call |-> "begin"]
    /\ document = [c \in Call |-> <<>>]
    /\ texts = [c \in Call |-> <<>>]
    /\ cached = [c \in Call |-> <<>>]
    /\ fresh = [c \in Call |-> <<>>]
    /\ result = [c \in Call |-> <<>>]
    /\ cache = <<>>
    /\ permits = [p \in Process |-> MaxConcurrency]
    /\ model = [p \in Process |-> FirstModel]
    /\ faults = 0 /\ expiries = 0 /\ redeploys = 0

TypeOK ==
    /\ pc \in [Call -> Steps]
    /\ model \in [Process -> Model]
    /\ \A c \in Call : Len(cached[c]) \in {0, Len(texts[c])} /\ Len(result[c]) \in {0, Len(texts[c])}
    /\ \A p \in Process :
         permits[p] + Cardinality({c \in Call : Host[c] = p /\ pc[c] = "provider" /\ model[p] # Demo})
           = MaxConcurrency

-----------------------------------------------------------------------------
GoTo(c, step) == pc' = [pc EXCEPT ![c] = step]

Fault == faults < MaxFaults /\ faults' = faults + 1 /\ UNCHANGED <<expiries, redeploys>>

(* A request arrives; an ingest cuts the document into chunks and has nothing more to do without any. *)
Begin(c) ==
    /\ pc[c] = "begin"
    /\ IF Kind[c] = "chat"
         THEN GoTo(c, "acquire") /\ UNCHANGED <<document, texts>>
         ELSE \E d \in Documents[c] :
                /\ document' = [document EXCEPT ![c] = d]
                /\ texts' = [texts EXCEPT ![c] = Cut[d]]
                /\ GoTo(c, IF Cut[d] = <<>> THEN "done" ELSE "lookup")
    /\ UNCHANGED <<cached, fresh, result, cache, permits, model, boundVars>>

Cached(text) == IF text \in DOMAIN cache THEN cache[text] ELSE None

(* get_many: one MGET.  Without a miss its answer is the result. *)
Lookup(c) ==
    /\ pc[c] = "lookup"
    /\ cached' = [cached EXCEPT ![c] = [i \in DOMAIN texts[c] |-> Cached(texts[c][i])]]
    /\ IF None \in Range(cached'[c])
         THEN GoTo(c, "acquire") /\ UNCHANGED result
         ELSE GoTo(c, "done") /\ result' = [result EXCEPT ![c] = cached'[c]]
    /\ UNCHANGED <<document, texts, fresh, cache, permits, model, boundVars>>

(* The misses up to the i-th text; miss_indexes, in their order; and miss_texts. *)
Gaps(c, i) == Cardinality({j \in 1 .. i : cached[c][j] = None})
Misses(c) ==
    [k \in 1 .. Gaps(c, Len(cached[c])) |->
       CHOOSE i \in DOMAIN cached[c] : cached[c][i] = None /\ Gaps(c, i) = k]
MissTexts(c) == [k \in DOMAIN Misses(c) |-> texts[c][Misses(c)[k]]]

(* async with self._semaphore, which the demo provider passes by. *)
Acquire(c) ==
    /\ pc[c] = "acquire"
    /\ IF model[Host[c]] = Demo THEN UNCHANGED permits
       ELSE permits[Host[c]] > 0 /\ permits' = [permits EXCEPT ![Host[c]] = @ - 1]
    /\ GoTo(c, "provider")
    /\ UNCHANGED <<callVars, cache, model, boundVars>>

Release(c) ==
    permits' = IF model[Host[c]] = Demo THEN permits ELSE [permits EXCEPT ![Host[c]] = @ + 1]

(* The provider answers: a completion, or the vectors of the texts that were missing. *)
Answer(c) ==
    /\ pc[c] = "provider"
    /\ IF Kind[c] = "chat"
         THEN GoTo(c, "done") /\ UNCHANGED fresh
         ELSE /\ fresh' = [fresh EXCEPT ![c] =
                             [k \in DOMAIN Misses(c) |-> Vector(model[Host[c]], MissTexts(c)[k])]]
              /\ GoTo(c, "save")
    /\ Release(c)
    /\ UNCHANGED <<document, texts, cached, result, cache, model, boundVars>>

(* It leaves one of them out; nothing looks at the index of an item of the response. *)
AnswerShort(c) ==
    /\ pc[c] = "provider" /\ Kind[c] = "ingest" /\ model[Host[c]] # Demo
    /\ \E k \in DOMAIN Misses(c) :
         fresh' = [fresh EXCEPT ![c] =
                     RemoveAt([j \in DOMAIN Misses(c) |-> Vector(model[Host[c]], MissTexts(c)[j])], k)]
    /\ GoTo(c, "save")
    /\ Release(c)
    /\ Fault
    /\ UNCHANGED <<document, texts, cached, result, cache, model>>

(* Mutant: the semaphore is not given back when the provider raises. *)
AnswerErrorKeepsPermit(c) ==
    /\ pc[c] = "provider" /\ model[Host[c]] # Demo
    /\ GoTo(c, "failed")
    /\ Fault
    /\ UNCHANGED <<callVars, cache, permits, model>>

(* It raises, or times out.  The decorator waits for RateLimitError and APIError to try again, but   *)
(* the body turns every exception into LLMClientError: the first error ends the call.                 *)
AnswerError(c) ==
    /\ pc[c] = "provider" /\ model[Host[c]] # Demo
    /\ GoTo(c, "failed")
    /\ Release(c)
    /\ Fault
    /\ UNCHANGED <<callVars, cache, model>>

(* The keys of one pipeline, whose texts may repeat: the last SET of a key counts. *)
Stored(c) ==
    [t \in Range(MissTexts(c)) \cup DOMAIN cache |->
       IF t \in Range(MissTexts(c))
         THEN fresh[c][CHOOSE k \in DOMAIN fresh[c] :
                         /\ MissTexts(c)[k] = t
                         /\ \A j \in DOMAIN fresh[c] : MissTexts(c)[j] = t => j <= k]
         ELSE cache[t]]

(* Mutant: the lengths are not compared, and zip pairs what it finds. *)
SaveUnchecked(c) ==
    /\ pc[c] = "save"
    /\ cache' = [t \in {MissTexts(c)[k] : k \in DOMAIN fresh[c]} \cup DOMAIN cache |->
                   IF \E k \in DOMAIN fresh[c] : MissTexts(c)[k] = t
                     THEN fresh[c][CHOOSE k \in DOMAIN fresh[c] : MissTexts(c)[k] = t]
                     ELSE cache[t]]
    /\ GoTo(c, IF Len(fresh[c]) = Len(Misses(c)) THEN "merge" ELSE "failed")
    /\ UNCHANGED <<callVars, permits, model, boundVars>>

(* set_many: a reply of the wrong length is a ValueError; else one pipeline, in MULTI. *)
Save(c) ==
    /\ pc[c] = "save"
    /\ IF Len(fresh[c]) = Len(Misses(c))
         THEN cache' = Stored(c) /\ GoTo(c, "merge")
         ELSE UNCHANGED cache /\ GoTo(c, "failed")
    /\ UNCHANGED <<callVars, permits, model, boundVars>>

(* MGET raises; or the pipeline does, without or with its effect. *)
RedisError(c) ==
    /\ \/ pc[c] = "lookup" /\ UNCHANGED cache
       \/ pc[c] = "save" /\ Len(fresh[c]) = Len(Misses(c)) /\ cache' \in {cache, Stored(c)}
    /\ GoTo(c, "failed")
    /\ Fault
    /\ UNCHANGED <<callVars, permits, model>>

(* Mutant: the hits first, then the misses. *)
MergeAppended(c) ==
    /\ pc[c] = "merge"
    /\ result' = [result EXCEPT ![c] = SelectSeq(cached[c], LAMBDA v : v # None) \o fresh[c]]
    /\ GoTo(c, "done")
    /\ UNCHANGED <<document, texts, cached, fresh, cache, permits, model, boundVars>>

(* The hits stay where they are, and the fresh vectors fill the gaps in their order. *)
Merge(c) ==
    /\ pc[c] = "merge"
    /\ result' = [result EXCEPT ![c] =
                     [i \in DOMAIN cached[c] |->
                        IF cached[c][i] # None THEN cached[c][i] ELSE fresh[c][Gaps(c, i)]]]
    /\ GoTo(c, "done")
    /\ UNCHANGED <<document, texts, cached, fresh, cache, permits, model, boundVars>>

(* After 30 days a key expires. *)
Expire(text) ==
    /\ expiries < MaxExpiries
    /\ expiries' = expiries + 1
    /\ cache' = [t \in DOMAIN cache \ {text} |-> cache[t]]
    /\ UNCHANGED <<pc, callVars, permits, model, faults, redeploys>>

(* A process is started again, perhaps for another LLM_PROVIDER; its calls are lost.  The name of the *)
(* cache keys, settings.embedding_model, is the same for every provider.                              *)
Redeploy(p) ==
    /\ redeploys < MaxRedeploys
    /\ redeploys' = redeploys + 1
    /\ \E mod \in Model : model' = [model EXCEPT ![p] = mod]
    /\ permits' = [permits EXCEPT ![p] = MaxConcurrency]
    /\ pc' = [c \in Call |-> IF Host[c] = p /\ pc[c] \notin Ended \cup {"begin"} THEN "failed" ELSE pc[c]]
    /\ UNCHANGED <<callVars, cache, faults, expiries>>

Step(c) == Lookup(c) \/ Acquire(c) \/ Answer(c) \/ Save(c) \/ Merge(c)

Next ==
    \/ \E c \in Call : Begin(c) \/ Step(c) \/ AnswerShort(c) \/ AnswerError(c) \/ RedisError(c)
    \/ \E text \in DOMAIN cache : Expire(text)
    \/ \E p \in Process : Redeploy(p)

Spec == Init /\ [][Next]_vars

(* The event loop goes on with every call that waits for nothing, and the provider answers; requests *)
(* need not come.                                                                                     *)
FairSpec == Spec /\ \A c \in Call : WF_vars(Step(c))

-----------------------------------------------------------------------------
(* Properties *)

Whole(c) == pc[c] = "done" /\ Kind[c] = "ingest"

(* Each chunk is stored with the vector of its own text, whatever part of the document was cached,   *)
(* expired or repeated, and whatever the provider left out (document_service.py:192).                *)
ChunksGetTheirVectors ==
    \A c \in Call : Whole(c) =>
        /\ Len(result[c]) = Len(texts[c])
        /\ \A i \in DOMAIN texts[c] : result[c][i] = Vector(result[c][i].model, texts[c][i])

(* While every process keeps its provider, what the cache holds for a text is what the model would   *)
(* answer: a reply of a wrong length, an error or a race never leaves another vector there.          *)
CacheSound ==
    redeploys = 0 => \A t \in DOMAIN cache : cache[t] = Vector(FirstModel, t)

(* Nobody waits for ever for the semaphore: whatever ends a call, its permit comes back. *)
Served == \A c \in Call : pc[c] # "begin" ~> pc[c] \in Ended
==============================================================================
