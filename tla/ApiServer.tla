----------------------------- MODULE ApiServer -----------------------------
(***************************************************************************)
(* One process of the HTTP API while it serves requests about one user and *)
(* one document: POST /v1/analysis, GET /v1/analysis/documents/{id}, POST  *)
(* /v1/diagnosis, POST /v1/profile/embed and GET /health/ready.  Each      *)
(* request runs in one session of get_session, which takes a connection of *)
(* the pool at its first statement, holds it through the calls to the LLM, *)
(* and commits before the response goes out (fastapi 0.115.0).  The        *)
(* analysis workers run the same analyze; to the database they are more    *)
(* such requests.                                                          *)
(*                                                                         *)
(* One step is one statement, one call to the LLM or the commit, with the  *)
(* local code up to it.  Transactions are READ COMMITTED: a SELECT sees    *)
(* what is committed when it runs.  created_at is now(), the time of BEGIN.*)
(***************************************************************************)
EXTENDS Retrieval, Sequences

CONSTANTS
    Request,        \* the requests
    Text,           \* profile texts; to embed one is an operation
    Setting,        \* the settings to start from, see SettingType
    User, Own,      \* the user, and the document the requests are about
    PoolSize,       \* db_pool_size + db_max_overflow
    Permits,        \* llm_max_concurrency
    MaxLlmFaults,   \* bound: LLM calls that raise or answer badly
    MaxDbFaults,    \* bound: statements and commits that raise
    None            \* no operation, no row

Routes == {"analyze", "latest", "diagnose", "ready"}
Operation == Routes \cup Text

(* What each request asks for, the chunks in the database, settings.demo_mode, whether llm_provider   *)
(* is "demo", whether a count in the metadata of the document is no number, and how often the         *)
(* document is stored: at the start, and in the end at most (0: it has no row).                       *)
Chunk == [doc: Nat, user: {User, None}, source: {"my_blog", "ext_blog", "job_posting"}, score: Nat]
SettingType ==
    [op: [Request -> Operation \cup {None}], corpus: SUBSET Chunk, demo: BOOLEAN, canned: BOOLEAN,
     uncountable: BOOLEAN, first: Nat, last: Nat]

ASSUME ApiAssumption ==
    /\ Setting \subseteq SettingType
    /\ Text \cap Routes = {} /\ None \notin Operation
    /\ {PoolSize, Permits} \subseteq Nat \ {0}
    /\ {MaxLlmFaults, MaxDbFaults} \subseteq Nat

(* A row is a chunk joined with its document, which has one owner and one source. *)
ASSUME CorpusAssumption ==
    \A s \in Setting :
        /\ IsFiniteSet(s.corpus)
        /\ \A c, d \in s.corpus : c.doc = d.doc => c.user = d.user /\ c.source = d.source

VARIABLES
    setting,      \* the setting of this behaviour
    version,      \* how often the document was stored (0: no row)
    clock,        \* transactions begun so far
    jobs,         \* committed rows of analysis_jobs, in the order of their commits
    diagnosed,    \* requests with a committed row of blog_diagnoses
    profiles,     \* committed rows of profile_embeddings
    pc,           \* pc[r]: the next step of request r
    at,           \* at[r]: when its transaction began, the created_at of its row
    base,         \* base[r]: the version of the document at that moment
    seen,         \* seen[r]: the version it read
    found,        \* found[r]: the row it read of analysis_jobs or profile_embeddings
    context,      \* context[r]: the chunks in its prompt
    doomed,       \* requests that can no longer be stored or answered: an error that was swallowed
                  \* has aborted the transaction, or the LLM replied what the row or the response
                  \* cannot hold, or the metadata cannot be added up
    answer,       \* answer[r]: the response, once it is decided
    after,        \* after[r]: the requests answered before r arrived
    llmFaults, dbFaults   \* how much of each bound is used

rowVars   == <<jobs, diagnosed, profiles>>
readVars  == <<at, base, seen, found, context>>
faultVars == <<llmFaults, dbFaults>>
vars == <<setting, version, clock, rowVars, pc, readVars, doomed, answer, after, faultVars>>

Op(r) == setting.op[r]

Statements == {"document", "latest", "profile", "probe", "retrieve", "write", "commit", "rollback"}
Steps == {"new", "connect", "wantChat", "chat", "wantEmbed", "embed", "done"} \cup Statements
Answers == {"none", "ok", "refused", "degraded", "notFound", "llmError", "error"}

(* A row of analysis_jobs: of is the version analysed; the others are those of the request by. *)
Job == [by: Request, at: Nat, base: Nat, of: Nat]
Profile == [by: Request, at: Nat, text: Text]

ASSUME NoRowAssumption == None \notin Job \cup Profile

TypeOK ==
    /\ setting \in Setting
    /\ version \in Nat /\ clock \in Nat
    /\ jobs \in Seq(Job) /\ diagnosed \subseteq Request /\ profiles \subseteq Profile
    /\ pc \in [Request -> Steps]
    /\ at \in [Request -> Nat] /\ base \in [Request -> Nat] /\ seen \in [Request -> Nat]
    /\ found \in [Request -> Job \cup Profile \cup {None}]
    /\ context \in [Request -> SUBSET setting.corpus]
    /\ doomed \subseteq Request
    /\ answer \in [Request -> Answers]
    /\ after \in [Request -> SUBSET Request]
    /\ llmFaults \in Nat /\ dbFaults \in Nat

(* Connections and permits are held through these steps. *)
Holders == {r \in Request : pc[r] \in Statements \cup {"wantChat", "chat", "wantEmbed", "embed"}}
Callers == {r \in Request : pc[r] \in {"chat", "embed"}}

(* Mutant: the response goes out before the session is closed, as fastapi has it from 0.118 on. *)
AnsweredEarly(r) == pc[r] \in {"commit", "done"}

(* The client has its response. *)
Answered(r) == pc[r] = "done"

Init ==
    /\ setting \in Setting
    /\ version = setting.first
    /\ clock = 0
    /\ jobs = <<>> /\ diagnosed = {} /\ profiles = {}
    /\ pc = [r \in Request |-> "new"]
    /\ at = [r \in Request |-> 0] /\ base = [r \in Request |-> 0] /\ seen = [r \in Request |-> 0]
    /\ found = [r \in Request |-> None]
    /\ context = [r \in Request |-> {}]
    /\ doomed = {}
    /\ answer = [r \in Request |-> "none"]
    /\ after = [r \in Request |-> {}]
    /\ llmFaults = 0 /\ dbFaults = 0

-----------------------------------------------------------------------------
GoTo(r, step) == pc' = [pc EXCEPT ![r] = step]
Decide(r, what) == answer' = [answer EXCEPT ![r] = what]

(* An exception leaves the endpoint: session_scope rolls back, then the handler of main answers. *)
Fail(r, what) == Decide(r, what) /\ GoTo(r, "rollback")

Doom(r) == doomed' = doomed \cup {r}

(* An exception nobody expects: 500 INTERNAL_ERROR; the readiness check catches it and answers 503. *)
Unhandled(r) == IF Op(r) = "ready" THEN "degraded" ELSE "error"

LlmFault == llmFaults < MaxLlmFaults /\ llmFaults' = llmFaults + 1 /\ UNCHANGED dbFaults
DbFault == dbFaults < MaxDbFaults /\ dbFaults' = dbFaults + 1 /\ UNCHANGED llmFaults

(* An ingest worker, or POST /v1/documents, stores the document again. *)
Ingest ==
    /\ version < setting.last
    /\ version' = version + 1
    /\ UNCHANGED <<setting, clock, rowVars, pc, readVars, doomed, answer, after, faultVars>>

(* A request comes in. *)
Arrive(r) ==
    /\ pc[r] = "new" /\ Op(r) # None
    /\ after' = [after EXCEPT ![r] = {q \in Request : Answered(q)}]
    /\ GoTo(r, "connect")
    /\ UNCHANGED <<setting, version, clock, rowVars, readVars, doomed, answer, faultVars>>

(* The rate limit of analyses refuses it, or the text of a profile is too short, before any statement; *)
(* or Redis fails in the limiter.                                                                     *)
Refuse(r) ==
    /\ pc[r] = "connect" /\ Op(r) \in {"analyze"} \cup Text
    /\ Decide(r, "refused") \/ (Op(r) = "analyze" /\ Decide(r, "error"))
    /\ GoTo(r, "done")
    /\ UNCHANGED <<setting, version, clock, rowVars, readVars, doomed, after, faultVars>>

(* The first statement takes a connection of the pool and sends BEGIN. *)
Begin(r) ==
    /\ pc[r] = "connect" /\ Cardinality(Holders) < PoolSize
    /\ clock' = clock + 1
    /\ at' = [at EXCEPT ![r] = clock + 1]
    /\ base' = [base EXCEPT ![r] = version]
    /\ GoTo(r, CASE Op(r) \in {"analyze", "diagnose"} -> "document"
                 [] Op(r) = "latest"                  -> "latest"
                 [] Op(r) = "ready"                   -> "probe"
                 [] OTHER                             -> "profile")
    /\ UNCHANGED <<setting, version, rowVars, seen, found, context, doomed, answer, after, faultVars>>

(* All connections are taken for the 30 seconds QueuePool waits, or the 2 of the readiness check. *)
PoolTimeout(r) ==
    /\ pc[r] = "connect" /\ Cardinality(Holders) >= PoolSize
    /\ Decide(r, Unhandled(r))
    /\ GoTo(r, "done")
    /\ UNCHANGED <<setting, version, clock, rowVars, readVars, doomed, after, faultVars>>

-----------------------------------------------------------------------------
(* Mutant: ordered by the time of the commit. *)
LatestCommitted == jobs[Len(jobs)]

(* get_latest_by_document: ORDER BY created_at DESC LIMIT 1. *)
Latest == LET rows == {jobs[i] : i \in DOMAIN jobs} IN CHOOSE j \in rows : \A k \in rows : k.at <= j.at

(* get_by_id; analyze then inserts its row and marks it IN_PROGRESS, which nobody else can see. *)
SelectDocument(r) ==
    /\ pc[r] = "document"
    /\ seen' = [seen EXCEPT ![r] = version]
    /\ \/ version = 0 /\ Fail(r, "notFound")
       \/ /\ version > 0
          /\ GoTo(r, IF Op(r) = "diagnose" THEN "latest"
                     ELSE IF setting.demo \/ setting.canned THEN "write" ELSE "retrieve")
          /\ UNCHANGED answer
    /\ UNCHANGED <<setting, version, clock, rowVars, at, base, found, context, doomed, after, faultVars>>

(* get_analysis_for_document, and diagnose, which does without an analysis if there is none and then  *)
(* adds up the counts in the metadata.                                                                *)
SelectLatest(r) ==
    /\ pc[r] = "latest"
    /\ found' = [found EXCEPT ![r] = IF jobs = <<>> THEN None ELSE Latest]
    /\ \/ Op(r) = "latest" /\ jobs = <<>> /\ Fail(r, "notFound") /\ UNCHANGED doomed
       \/ Op(r) = "latest" /\ jobs # <<>> /\ Decide(r, "ok") /\ GoTo(r, "commit") /\ UNCHANGED doomed
       \/ Op(r) = "diagnose" /\ setting.uncountable /\ Doom(r) /\ Fail(r, "error")
       \/ /\ Op(r) = "diagnose" /\ ~ setting.uncountable
          /\ GoTo(r, IF setting.demo THEN "wantEmbed" ELSE "wantChat")
          /\ UNCHANGED <<answer, doomed>>
    /\ UNCHANGED <<setting, version, clock, rowVars, at, base, seen, context, after, faultVars>>

(* Mutant: the user's row is taken whatever its profile_hash. *)
SameProfileAny(r) == profiles

SameProfile(r) == {p \in profiles : p.text = Op(r)}

(* embed_and_store: a row with the same profile_hash is returned as it is. *)
SelectProfile(r) ==
    /\ pc[r] = "profile"
    /\ \/ /\ SameProfile(r) = {}
          /\ GoTo(r, "wantEmbed")
          /\ UNCHANGED <<found, answer>>
       \/ /\ \E p \in SameProfile(r) : found' = [found EXCEPT ![r] = p]
          /\ Decide(r, "ok")
          /\ GoTo(r, "commit")
    /\ UNCHANGED <<setting, version, clock, rowVars, at, base, seen, context, doomed, after, faultVars>>

(* The SELECT 1 of _check_db. *)
Probe(r) ==
    /\ pc[r] = "probe"
    /\ Decide(r, "ok")
    /\ GoTo(r, "commit")
    /\ UNCHANGED <<setting, version, clock, rowVars, readVars, doomed, after, faultVars>>

(* _build_rag_context goes on without context if a query raises; but then the transaction is aborted. *)
Retrieve(r) ==
    /\ pc[r] = "retrieve"
    /\ \/ /\ \E rows \in RagContext(setting.corpus, User, Own) : context' = [context EXCEPT ![r] = rows]
          /\ UNCHANGED <<doomed, faultVars>>
       \/ Doom(r) /\ DbFault /\ UNCHANGED context
    /\ GoTo(r, "wantChat")
    /\ UNCHANGED <<setting, version, clock, rowVars, at, base, seen, found, answer, after>>

(* A statement raises. *)
RaiseDb(r) ==
    /\ pc[r] \in {"document", "latest", "profile", "probe", "write"}
    /\ DbFault
    /\ Fail(r, Unhandled(r))
    /\ UNCHANGED <<setting, version, clock, rowVars, readVars, doomed, after>>

-----------------------------------------------------------------------------
(* Mutant: a request that waits to embed has kept the permit of its chat call. *)
AcquireNested(r) ==
    /\ \/ pc[r] = "wantChat" /\ Cardinality(Callers \cup {q \in Request : pc[q] = "wantEmbed"}) < Permits
                             /\ GoTo(r, "chat")
       \/ pc[r] = "wantEmbed" /\ Cardinality(Callers \cup {q \in Request : pc[q] = "wantEmbed"}) < Permits
                              /\ GoTo(r, "embed")
    /\ UNCHANGED <<setting, version, clock, rowVars, readVars, doomed, answer, after, faultVars>>

(* The semaphore of LLMClient; llm_provider "demo" answers without. *)
Acquire(r) ==
    /\ ~ setting.canned
    /\ Cardinality(Callers) < Permits
    /\ \/ pc[r] = "wantChat" /\ GoTo(r, "chat")
       \/ pc[r] = "wantEmbed" /\ GoTo(r, "embed")
    /\ UNCHANGED <<setting, version, clock, rowVars, readVars, doomed, answer, after, faultVars>>

AfterChat(r) == IF Op(r) = "diagnose" THEN "wantEmbed" ELSE "write"

(* The fixed replies of llm_provider "demo": that of chat is an analysis, of no use for a diagnosis.   *)
Canned(r) ==
    /\ setting.canned
    /\ \/ pc[r] = "wantChat" /\ Doom(r) /\ GoTo(r, AfterChat(r))
       \/ pc[r] = "wantEmbed" /\ GoTo(r, "write") /\ UNCHANGED doomed
    /\ UNCHANGED <<setting, version, clock, rowVars, readVars, answer, after, faultVars>>

(* chat, and the parsing of its reply.  analyze marks the row FAILED before it raises again, which    *)
(* raises as well if the transaction is aborted.  A reply that parses may still be one the row or the *)
(* response cannot hold, and one that is no object has no text to embed.                              *)
ChatReturns(r) ==
    /\ pc[r] = "chat"
    /\ \/ GoTo(r, AfterChat(r)) /\ UNCHANGED <<answer, doomed, faultVars>>
       \/ LlmFault /\ Fail(r, IF r \in doomed THEN "error" ELSE "llmError") /\ UNCHANGED doomed
       \/ LlmFault /\ Doom(r) /\ GoTo(r, AfterChat(r)) /\ UNCHANGED answer
       \/ LlmFault /\ Doom(r) /\ GoTo(r, "write") /\ UNCHANGED answer
    /\ UNCHANGED <<setting, version, clock, rowVars, readVars, after>>

(* embed; diagnose does without a vector if it raises.  The vector may have the wrong dimension. *)
EmbedReturns(r) ==
    /\ pc[r] = "embed"
    /\ \/ GoTo(r, "write") /\ UNCHANGED <<answer, doomed, faultVars>>
       \/ LlmFault /\ Op(r) = "diagnose" /\ GoTo(r, "write") /\ UNCHANGED <<answer, doomed>>
       \/ LlmFault /\ Op(r) # "diagnose" /\ Fail(r, "llmError") /\ UNCHANGED doomed
       \/ LlmFault /\ Doom(r) /\ GoTo(r, "write") /\ UNCHANGED answer
    /\ UNCHANGED <<setting, version, clock, rowVars, readVars, after>>

(* Uncommitted rows of the same profile, on which the unique index makes an INSERT wait. *)
Inserting(r) == {q \in Request : pc[q] = "commit" /\ found[q] = None /\ Op(q) = Op(r)}

(* Mutant: no unique constraint (migrations up to 0004). *)
ViolatesNothing(r) == FALSE

Violates(r) == r \in doomed \/ (Op(r) \in Text /\ SameProfile(r) # {})

(* The last flush, of the completed analysis, the diagnosis or the profile, and the response built    *)
(* of it, which validates.                                                                            *)
Write(r) ==
    /\ pc[r] = "write"
    /\ Op(r) \in Text /\ r \notin doomed => Inserting(r) = {}
    /\ \/ Violates(r) /\ Fail(r, "error")
       \/ ~Violates(r) /\ Decide(r, "ok") /\ GoTo(r, "commit")
    /\ UNCHANGED <<setting, version, clock, rowVars, readVars, doomed, after, faultVars>>

(* What the commit of r makes visible. *)
StoreRow(r) ==
    /\ jobs' = IF Op(r) = "analyze"
                 THEN Append(jobs, [by |-> r, at |-> at[r], base |-> base[r], of |-> seen[r]]) ELSE jobs
    /\ diagnosed' = IF Op(r) = "diagnose" THEN diagnosed \cup {r} ELSE diagnosed
    /\ profiles' = IF Op(r) \in Text /\ found[r] = None
                     THEN profiles \cup {[by |-> r, at |-> at[r], text |-> Op(r)]} ELSE profiles

(* The commit of session_scope, and the response; it may raise, with or without its effect. *)
Commit(r) ==
    /\ pc[r] = "commit"
    /\ \/ StoreRow(r) /\ UNCHANGED <<answer, faultVars>>
       \/ (StoreRow(r) \/ UNCHANGED rowVars) /\ Decide(r, Unhandled(r)) /\ DbFault
    /\ GoTo(r, "done")
    /\ UNCHANGED <<setting, version, clock, readVars, doomed, after>>

(* Mutant: session_scope commits in its finally clause. *)
RollbackCommits(r) ==
    /\ pc[r] = "rollback"
    /\ StoreRow(r)
    /\ GoTo(r, "done")
    /\ UNCHANGED <<setting, version, clock, readVars, doomed, answer, after, faultVars>>

Rollback(r) ==
    /\ pc[r] = "rollback"
    /\ GoTo(r, "done")
    /\ UNCHANGED <<setting, version, clock, rowVars, readVars, doomed, answer, after, faultVars>>

-----------------------------------------------------------------------------
Serve(r) ==
    \/ Begin(r) \/ PoolTimeout(r) \/ SelectDocument(r) \/ SelectLatest(r) \/ SelectProfile(r)
    \/ Probe(r) \/ Retrieve(r) \/ Acquire(r) \/ Canned(r) \/ ChatReturns(r) \/ EmbedReturns(r) \/ Write(r)
    \/ Commit(r) \/ Rollback(r)

Next == Ingest \/ \E r \in Request : Arrive(r) \/ Refuse(r) \/ Serve(r) \/ RaiseDb(r)

Spec == Init /\ [][Next]_vars

(* A request comes in and goes on: a connection or a permit that is free is given away, in the order *)
(* of arrival, and the timeouts of the pool and of the LLM client end every wait for them.           *)
Fairness == \A r \in Request : WF_vars(Arrive(r)) /\ WF_vars(Serve(r))

FairSpec == Spec /\ Fairness

-----------------------------------------------------------------------------
(* Properties *)

(* Who asks after an analysis was answered, for the result or for a diagnosis, finds that analysis    *)
(* or one begun later: it is committed before the response, and the order is that of the beginnings   *)
(* (database.py:37, analysis_repository.py:27).                                                      *)
HasReadLatest(r) ==
    \/ Op(r) = "latest" /\ answer[r] \in {"ok", "notFound"}
    \/ Op(r) = "diagnose" /\ pc[r] \in {"wantChat", "chat", "wantEmbed", "embed", "write", "commit"}
ReadYourAnalysis ==
    \A r, a \in Request :
        HasReadLatest(r) /\ a \in after[r] /\ Op(a) = "analyze" /\ answer[a] = "ok" =>
            found[r] \in Job /\ found[r].at >= at[a]

(* The analysis taken for the latest is of a document at least as new as any other analysis found     *)
(* when it began, although a longer one may commit after it ("use the most recent", CONTRACT.md:233). *)
LatestFresh == \A i \in DOMAIN jobs : Latest.of >= jobs[i].base

(* A response tells what is stored: ok, and the row is there; anything else, and no row of this        *)
(* request is, unless the reply of a commit was lost.  Without a database error an internal error is   *)
(* the answer before the transaction only, or to a request a reply or the metadata has doomed, or to  *)
(* the loser of two inserts of one profile, and that profile is stored.                               *)
HasProfile(text) == \E p \in profiles : p.text = text
HasRow(r) ==
    \/ \E i \in DOMAIN jobs : jobs[i].by = r
    \/ r \in diagnosed
    \/ \E p \in profiles : p.by = r
AnswersTrue ==
    \A r \in Request : Answered(r) =>
        /\ answer[r] = "ok" /\ Op(r) \notin {"latest", "ready"} => HasRow(r) \/ HasProfile(Op(r))
        /\ answer[r] # "ok" /\ HasRow(r) => dbFaults > 0
        /\ answer[r] = "error" => dbFaults > 0 \/ at[r] = 0 \/ r \in doomed \/ HasProfile(Op(r))

(* A profile is stored once, however many requests bring it at a time (README.md:140). *)
ProfileOnce == \A p, q \in profiles : p.text = q.text => p = q

(* The newest profile, the one Spring reads, is that of the request answered last, if that did not    *)
(* overlap with another one and its text was not stored already: who returns to an earlier profile    *)
(* stays with the one in between (profile_embedding_service.py:39).                                  *)
NewestIs(text) == \E p \in profiles : p.text = text /\ \A q \in profiles : q.at <= p.at
CurrentProfile ==
    \A r \in Request :
        /\ Op(r) \in Text /\ Answered(r) /\ answer[r] = "ok"
        /\ \A q \in Request \ {r} : Op(q) \in Text /\ pc[q] # "new" => q \in after[r]
        => NewestIs(Op(r)) \/ \E p \in profiles : p.text = Op(r) /\ p.by \in after[r]

(* The prompt holds the best of each source: one chunk of a document, none of the analysed one among   *)
(* the user's own, and no document left out for one that is less similar (the comment at              *)
(* context_retrieval_repository.py:65).                                                              *)
Eligible(c) == c.source # "my_blog" \/ (c.user = User /\ c.doc # Own)
ContextBest ==
    \A r \in Request : \A c \in context[r] :
        /\ c \in setting.corpus /\ Eligible(c)
        /\ \A d \in context[r] : d.doc = c.doc => d = c
        /\ \A e \in setting.corpus :
              e.source = c.source /\ Eligible(e) /\ e.score > c.score =>
                  \E d \in context[r] : d.doc = e.doc /\ d.score >= e.score

(* Every request is answered: nobody waits for ever for a connection, a permit or another's insert. *)
AllAnswered == <>(\A r \in Request : Op(r) = None \/ Answered(r))
=============================================================================
