--------------------------- MODULE ApiServerProofs ---------------------------
(***************************************************************************)
(* Proofs about ApiServer, for any number of requests, connections,        *)
(* permits, document versions and faults.                                  *)
(*                                                                         *)
(* Times orders the transactions by their beginnings; Rows ties each       *)
(* committed row to the request that stored it, which is answered; Local   *)
(* says which operations reach a step and what is decided by then.         *)
(***************************************************************************)
EXTENDS ApiServer, FiniteSetTheorems, WellFoundedInduction, TLAPS

USE ApiAssumption, TopKAssumption

Times ==
    /\ \A r \in Request : at[r] <= clock /\ base[r] <= version
    /\ \A q, r \in Request : at[q] <= at[r] => base[q] <= base[r]

(* One of the rows is the newest; that it exists is shown along the steps, not by induction on jobs. *)
Newest == jobs # <<>> => \E i \in DOMAIN jobs : \A k \in DOMAIN jobs : jobs[k].at <= jobs[i].at

Rows ==
    /\ \A i \in DOMAIN jobs :
          /\ jobs[i].at = at[jobs[i].by] /\ jobs[i].base = base[jobs[i].by]
          /\ jobs[i].base <= jobs[i].of
          /\ pc[jobs[i].by] = "done"
    /\ \A r \in diagnosed : pc[r] = "done"
    /\ \A p \in profiles : pc[p.by] = "done"

(* A successful analysis has its row. *)
Stored ==
    \A r \in Request : Op(r) = "analyze" /\ pc[r] = "done" /\ answer[r] = "ok" => \E i \in DOMAIN jobs : jobs[i].by = r

(* Which operations reach a step. *)
PathOf(r) ==
    /\ pc[r] = "document" => Op(r) \in {"analyze", "diagnose"}
    /\ pc[r] = "latest" => Op(r) \in {"latest", "diagnose"}
    /\ pc[r] = "profile" => Op(r) \in Text
    /\ pc[r] = "probe" => Op(r) = "ready"
    /\ pc[r] = "retrieve" => Op(r) = "analyze"
    /\ pc[r] \in {"wantChat", "chat"} => Op(r) \in {"analyze", "diagnose"}
    /\ pc[r] \in {"wantEmbed", "embed"} => Op(r) \in {"diagnose"} \cup Text
    /\ pc[r] = "write" => Op(r) \in {"analyze", "diagnose"} \cup Text
    /\ pc[r] # "new" => Op(r) \in Operation

(* Later steps of analyze have read the document after BEGIN. *)
ReadOf(r) ==
    Op(r) = "analyze" /\ pc[r] \in {"retrieve", "wantChat", "chat", "write", "commit"} => base[r] <= seen[r]

(* What is decided about the response at each step. *)
DecidedOf(r) ==
    /\ pc[r] \notin {"commit", "rollback", "done"} => answer[r] = "none"
    /\ pc[r] = "commit" => answer[r] = "ok"
    /\ pc[r] = "rollback" => answer[r] # "ok"
    /\ answer[r] = "error" => dbFaults > 0 \/ at[r] = 0 \/ r \in doomed \/ HasProfile(Op(r))
    /\ pc[r] \in {"new", "connect"} => at[r] = 0
    /\ Op(r) \in Text => found[r] = None \/ HasProfile(Op(r))

LocalOf(r) == PathOf(r) /\ ReadOf(r) /\ DecidedOf(r)
Local == \A r \in Request : LocalOf(r)

(* An insert of a profile that is not committed yet is the only one, and there is no row. *)
Inserts ==
    \A r \in Request :
        pc[r] = "commit" /\ Op(r) \in Text /\ found[r] = None =>
            /\ ~HasProfile(Op(r))
            /\ \A q \in Inserting(r) : q = r

Order == \A r \in Request : \A q \in after[r] : pc[q] = "done"

Inductive ==
    /\ Times /\ Newest /\ Rows /\ Stored /\ Local /\ Inserts /\ Order
    /\ AnswersTrue /\ ProfileOnce /\ ReadYourAnalysis

IInv == TypeOK /\ Inductive

(* A step of a request other than BEGIN and the commit leaves the rows and the times alone. *)
Quiet(r) ==
    \/ Arrive(r) \/ Refuse(r) \/ PoolTimeout(r) \/ SelectDocument(r) \/ SelectLatest(r) \/ SelectProfile(r)
    \/ Probe(r) \/ Retrieve(r) \/ RaiseDb(r) \/ Acquire(r) \/ Canned(r) \/ ChatReturns(r)
    \/ EmbedReturns(r) \/ Write(r) \/ Rollback(r)

LEMMA NextCases == Next => Ingest \/ \E r \in Request : Begin(r) \/ Commit(r) \/ Quiet(r)
  BY DEF Next, Serve, Quiet

-----------------------------------------------------------------------------
(* Types *)

(* What the queries find are chunks of the corpus. *)
LEMMA RagContextType ==
  ASSUME NEW corpus, NEW user, NEW own, NEW rows \in RagContext(corpus, user, own)
  PROVE  rows \subseteq corpus
<1>1. ASSUME NEW S, S \subseteq corpus, NEW R \in Found(S)  PROVE R \subseteq corpus
  BY <1>1 DEF Found, kSubset, BestPerDocument
<1>2. MyBlogRows(corpus, user, own) \subseteq corpus
  BY DEF MyBlogRows
<1>3. \A source : SourceRows(corpus, source) \subseteq corpus
  BY DEF SourceRows
<1> QED BY <1>1, <1>2, <1>3 DEF RagContext

(* The row chosen as the latest is a row, and none began later. *)
LEMMA LatestIsNewest ==
  ASSUME Newest, jobs # <<>>, jobs \in Seq(Job)
  PROVE  /\ \E i \in DOMAIN jobs : Latest = jobs[i]
         /\ Latest \in Job
         /\ \A k \in DOMAIN jobs : jobs[k].at <= Latest.at
<1> DEFINE rows == {jobs[i] : i \in DOMAIN jobs}
           Last(j) == \A k \in rows : k.at <= j.at
<1>1. \E j \in rows : Last(j)
  BY DEF Newest
<1>2. Latest \in rows /\ Last(Latest)
  BY <1>1 DEF Latest
<1>3. \A i \in DOMAIN jobs : jobs[i] \in Job
  OBVIOUS
<1> QED BY <1>2, <1>3

LEMMA InitType == Init => TypeOK
<1> SUFFICES ASSUME Init PROVE TypeOK
  OBVIOUS
<1>1. setting.first \in Nat
  BY DEF Init, SettingType
<1> QED BY <1>1 DEF Init, TypeOK, Steps, Answers, Job, Profile

(* A quiet step is one of one request; the rows and the times stay. *)
LEMMA QuietFrame ==
  ASSUME TypeOK, NEW r \in Request, Quiet(r)
  PROVE  /\ UNCHANGED <<setting, version, clock, jobs, diagnosed, profiles, at, base>>
         /\ pc[r] # "done" /\ pc[r] # "commit"
         /\ \A q \in Request \ {r} : pc'[q] = pc[q] /\ answer'[q] = answer[q] /\ seen'[q] = seen[q]
                                     /\ found'[q] = found[q] /\ after'[q] = after[q]
                                     /\ (q \in doomed' <=> q \in doomed)
         /\ dbFaults' \in Nat /\ dbFaults' >= dbFaults
<1> USE DEF GoTo, Fail, Decide, Doom, LlmFault, DbFault, rowVars, readVars, faultVars, TypeOK
<1>1. CASE Arrive(r)
  BY <1>1 DEF Arrive
<1>2. CASE Refuse(r) \/ PoolTimeout(r)
  BY <1>2, SMTT(30) DEF Refuse, PoolTimeout
<1>3. CASE SelectDocument(r)
  BY <1>3 DEF SelectDocument
<1>4. CASE SelectLatest(r)
  BY <1>4 DEF SelectLatest
<1>5. CASE SelectProfile(r)
  BY <1>5 DEF SelectProfile
<1>6. CASE Probe(r)
  BY <1>6 DEF Probe
<1>12. CASE RaiseDb(r)
  <2>1. pc[r] # "done" /\ pc[r] # "commit"
    BY <1>12 DEF RaiseDb
  <2> QED BY <1>12, <2>1 DEF RaiseDb
<1>7. CASE Retrieve(r)
  BY <1>7 DEF Retrieve
<1>8. CASE Acquire(r)
  BY <1>8 DEF Acquire
<1>9. CASE Canned(r) \/ ChatReturns(r) \/ EmbedReturns(r)
  <2>1. \E step \in Steps : pc' = [pc EXCEPT ![r] = step]
    BY <1>9 DEF Canned, ChatReturns, EmbedReturns, AfterChat, Steps, Statements
  <2>2. answer' = answer \/ \E what : answer' = [answer EXCEPT ![r] = what]
    BY <1>9 DEF Canned, ChatReturns, EmbedReturns
  <2>3. pc[r] \in {"wantChat", "wantEmbed", "chat", "embed"} /\ dbFaults' = dbFaults
    BY <1>9 DEF Canned, ChatReturns, EmbedReturns
  <2>4. UNCHANGED <<setting, version, clock, jobs, diagnosed, profiles, at, base, seen, found, after>>
    BY <1>9 DEF Canned, ChatReturns, EmbedReturns
  <2>5. doomed' = doomed \/ doomed' = doomed \cup {r}
    BY <1>9 DEF Canned, ChatReturns, EmbedReturns
  <2> QED BY <2>1, <2>2, <2>3, <2>4, <2>5
<1>10. CASE Write(r)
  BY <1>10 DEF Write
<1>13. CASE Rollback(r)
  BY <1>13 DEF Rollback
<1> QED BY <1>1, <1>2, <1>3, <1>4, <1>5, <1>6, <1>7, <1>8, <1>9, <1>10, <1>12, <1>13 DEF Quiet

LEMMA QuietType ==
  ASSUME TypeOK, Newest, NEW r \in Request, Quiet(r)
  PROVE  TypeOK'
<1> USE DEF GoTo, Fail, Decide, Doom, Unhandled, LlmFault, DbFault, rowVars, readVars, faultVars, Steps, Statements, Answers
<1>1. CASE Arrive(r)
  <2>1. {q \in Request : Answered(q)} \in SUBSET Request
    OBVIOUS
  <2> QED BY <1>1, <2>1 DEF Arrive, TypeOK
<1>2. CASE Refuse(r) \/ PoolTimeout(r)
  <2>1. pc' \in [Request -> Steps] /\ answer' \in [Request -> Answers]
    <3>1. pc \in [Request -> Steps] /\ answer \in [Request -> Answers]
      BY DEF TypeOK
    <3> QED BY <1>2, <3>1 DEF Refuse, PoolTimeout
  <2> HIDE DEF Steps, Answers
  <2> QED BY <1>2, <2>1 DEF Refuse, PoolTimeout, TypeOK
<1>3. CASE SelectDocument(r)
  BY <1>3 DEF SelectDocument, TypeOK
<1>4. CASE SelectLatest(r)
  <2>1. jobs # <<>> => Latest \in Job
    BY LatestIsNewest DEF TypeOK
  <2>2. found' \in [Request -> Job \cup Profile \cup {None}]
    BY <1>4, <2>1 DEF SelectLatest, TypeOK
  <2>3. pc' \in [Request -> Steps] /\ answer' \in [Request -> Answers]
    <3>1. pc \in [Request -> Steps] /\ answer \in [Request -> Answers]
      BY DEF TypeOK
    <3> QED BY <1>4, <3>1 DEF SelectLatest
  <2>4. doomed' \subseteq Request
    BY <1>4 DEF SelectLatest, TypeOK
  <2> HIDE DEF Steps, Answers
  <2> QED BY <1>4, <2>2, <2>3, <2>4 DEF SelectLatest, TypeOK
<1>5. CASE SelectProfile(r)
  <2>1. found' \in [Request -> Job \cup Profile \cup {None}]
    <3>1. CASE UNCHANGED found
      BY <3>1 DEF TypeOK
    <3>2. CASE \E p \in SameProfile(r) : found' = [found EXCEPT ![r] = p]
      BY <3>2 DEF SameProfile, TypeOK
    <3> QED BY <1>5, <3>1, <3>2 DEF SelectProfile
  <2>2. pc' \in [Request -> Steps] /\ answer' \in [Request -> Answers]
    <3>1. pc \in [Request -> Steps] /\ answer \in [Request -> Answers]
      BY DEF TypeOK
    <3> QED BY <1>5, <3>1 DEF SelectProfile
  <2> HIDE DEF Steps, Answers
  <2> QED BY <1>5, <2>1, <2>2 DEF SelectProfile, TypeOK
<1>6. CASE Probe(r) \/ RaiseDb(r)
  <2>1. pc' \in [Request -> Steps] /\ answer' \in [Request -> Answers]
    <3>1. pc \in [Request -> Steps] /\ answer \in [Request -> Answers]
      BY DEF TypeOK
    <3> QED BY <1>6, <3>1 DEF Probe, RaiseDb
  <2>2. llmFaults' \in Nat /\ dbFaults' \in Nat
    <3>1. llmFaults \in Nat /\ dbFaults \in Nat
      BY DEF TypeOK
    <3> QED BY <1>6, <3>1 DEF Probe, RaiseDb
  <2> HIDE DEF Steps, Answers
  <2> QED BY <1>6, <2>1, <2>2 DEF Probe, RaiseDb, TypeOK
<1>7. CASE Retrieve(r)
  <2>1. context' \in [Request -> SUBSET setting.corpus]
    <3>1. CASE \E rows \in RagContext(setting.corpus, User, Own) : context' = [context EXCEPT ![r] = rows]
      <4>1. PICK rows \in RagContext(setting.corpus, User, Own) : context' = [context EXCEPT ![r] = rows]
        BY <3>1
      <4>2. rows \in SUBSET setting.corpus
        BY RagContextType
      <4> QED BY <4>1, <4>2 DEF TypeOK
    <3>2. CASE UNCHANGED context
      BY <3>2 DEF TypeOK
    <3> QED BY <1>7, <3>1, <3>2 DEF Retrieve
  <2>2. pc' \in [Request -> Steps] /\ doomed' \subseteq Request /\ llmFaults' \in Nat /\ dbFaults' \in Nat
    BY <1>7 DEF Retrieve, TypeOK
  <2> HIDE DEF Steps, Answers
  <2> QED BY <1>7, <2>1, <2>2 DEF Retrieve, TypeOK
<1>8. CASE Acquire(r)
  BY <1>8 DEF Acquire, TypeOK
<1>9. CASE Canned(r) \/ ChatReturns(r) \/ EmbedReturns(r)
  <2>1. pc' \in [Request -> Steps]
    <3>1. pc \in [Request -> Steps]
      BY DEF TypeOK
    <3> QED BY <1>9, <3>1 DEF Canned, ChatReturns, EmbedReturns, AfterChat
  <2>2. answer' \in [Request -> Answers]
    <3>1. answer \in [Request -> Answers]
      BY DEF TypeOK
    <3> QED BY <1>9, <3>1 DEF Canned, ChatReturns, EmbedReturns
  <2>3. llmFaults' \in Nat /\ dbFaults' \in Nat
    <3>1. llmFaults \in Nat /\ dbFaults \in Nat
      BY DEF TypeOK
    <3> QED BY <1>9, <3>1 DEF Canned, ChatReturns, EmbedReturns
  <2>4. doomed' \subseteq Request
    <3>1. doomed \subseteq Request
      BY DEF TypeOK
    <3> QED BY <1>9, <3>1 DEF Canned, ChatReturns, EmbedReturns
  <2>5. UNCHANGED <<setting, version, clock, jobs, diagnosed, profiles, at, base, seen, found, context, after>>
    BY <1>9 DEF Canned, ChatReturns, EmbedReturns
  <2> HIDE DEF Steps, Answers
  <2> QED BY <2>1, <2>2, <2>3, <2>4, <2>5 DEF TypeOK
<1>10. CASE Write(r) \/ Rollback(r)
  BY <1>10 DEF Write, Rollback, TypeOK
<1> QED BY <1>1, <1>2, <1>3, <1>4, <1>5, <1>6, <1>7, <1>8, <1>9, <1>10 DEF Quiet

(* The commit of a request stores its row, or nothing. *)
LEMMA CommitFrame ==
  ASSUME TypeOK, NEW r \in Request, Commit(r)
  PROVE  /\ UNCHANGED <<setting, version, clock, at, base, seen, found, context, doomed, after>>
         /\ pc[r] = "commit" /\ pc' = [pc EXCEPT ![r] = "done"]
         /\ \/ /\ answer' = answer /\ UNCHANGED <<llmFaults, dbFaults>>
               /\ StoreRow(r)
            \/ /\ answer' = [answer EXCEPT ![r] = Unhandled(r)]
               /\ dbFaults' > 0 /\ dbFaults' \in Nat /\ UNCHANGED llmFaults
               /\ StoreRow(r) \/ UNCHANGED <<jobs, diagnosed, profiles>>
BY DEF Commit, GoTo, Decide, DbFault, rowVars, readVars, faultVars, TypeOK

LEMMA StoreType ==
  ASSUME TypeOK, NEW r \in Request, StoreRow(r)
  PROVE  jobs' \in Seq(Job) /\ diagnosed' \subseteq Request /\ profiles' \subseteq Profile
<1>1. [by |-> r, at |-> at[r], base |-> base[r], of |-> seen[r]] \in Job
  BY DEF Job, TypeOK
<1>2. Op(r) \in Text => [by |-> r, at |-> at[r], text |-> Op(r)] \in Profile
  BY DEF Profile, TypeOK
<1>3. jobs' \in Seq(Job)
  <2>1. CASE Op(r) = "analyze"
    BY <1>1, <2>1 DEF StoreRow, TypeOK
  <2>2. CASE Op(r) # "analyze"
    BY <2>2 DEF StoreRow, TypeOK
  <2> QED BY <2>1, <2>2
<1>4. diagnosed' \subseteq Request
  BY DEF StoreRow, TypeOK
<1>5. profiles' \subseteq Profile
  BY <1>2 DEF StoreRow, TypeOK
<1> QED BY <1>3, <1>4, <1>5

LEMMA NextType == TypeOK /\ Newest /\ [Next]_vars => TypeOK'
<1> SUFFICES ASSUME TypeOK, Newest, [Next]_vars PROVE TypeOK'
  OBVIOUS
<1>1. CASE UNCHANGED vars
  BY <1>1 DEF vars, rowVars, readVars, faultVars, TypeOK
<1>2. CASE Ingest
  BY <1>2 DEF Ingest, rowVars, readVars, faultVars, TypeOK
<1>3. ASSUME NEW r \in Request, Begin(r) PROVE TypeOK'
  <2>1. pc' \in [Request -> Steps]
    <3>1. \E step \in Steps : pc' = [pc EXCEPT ![r] = step]
      BY <1>3 DEF Begin, GoTo, Steps, Statements
    <3> QED BY <3>1 DEF TypeOK
  <2>2. clock' \in Nat /\ at' \in [Request -> Nat] /\ base' \in [Request -> Nat]
    BY <1>3 DEF Begin, TypeOK
  <2> QED BY <1>3, <2>1, <2>2 DEF Begin, rowVars, faultVars, TypeOK
<1>4. ASSUME NEW r \in Request, Commit(r) PROVE TypeOK'
  <2>1. jobs' \in Seq(Job) /\ diagnosed' \subseteq Request /\ profiles' \subseteq Profile
    BY <1>4, CommitFrame, StoreType DEF TypeOK
  <2>2. "done" \in Steps /\ Unhandled(r) \in Answers
    BY DEF Steps, Answers, Unhandled
  <2>3. answer' \in [Request -> Answers] /\ dbFaults' \in Nat
    <3>1. answer \in [Request -> Answers] /\ dbFaults \in Nat
      BY DEF TypeOK
    <3>2. answer' \in {answer, [answer EXCEPT ![r] = Unhandled(r)]} /\ (dbFaults' = dbFaults \/ dbFaults' \in Nat)
      BY <1>4, CommitFrame
    <3> QED BY <2>2, <3>1, <3>2
  <2>4. pc' \in [Request -> Steps]
    <3>1. pc \in [Request -> Steps]
      BY DEF TypeOK
    <3>2. pc' = [pc EXCEPT ![r] = "done"]
      BY <1>4, CommitFrame
    <3> QED BY <2>2, <3>1, <3>2
  <2>6. UNCHANGED <<setting, version, clock, at, base, seen, found, context, doomed, after>>
    BY <1>4, CommitFrame
  <2>5. llmFaults' \in Nat
    BY <1>4, CommitFrame DEF TypeOK
  <2> QED BY <2>1, <2>3, <2>4, <2>5, <2>6 DEF TypeOK
<1>5. ASSUME NEW r \in Request, Quiet(r) PROVE TypeOK'
  BY <1>5, QuietType
<1> QED BY <1>1, <1>2, <1>3, <1>4, <1>5, NextCases
-----------------------------------------------------------------------------
(* What a request knows of itself *)

LEMMA TextNotRoute == \A t \in Text : t \notin Routes /\ t # None
  BY DEF Operation

LEMMA QuietRead ==
  ASSUME TypeOK, Times, Local, NEW r \in Request, Quiet(r)
  PROVE  ReadOf(r)'
<1> USE TextNotRoute DEF ReadOf, LocalOf, PathOf, Local, GoTo, Fail, Decide, TypeOK, Routes, Op
<1>1. CASE Arrive(r) \/ Refuse(r) \/ PoolTimeout(r) \/ Rollback(r) \/ RaiseDb(r)
  BY <1>1 DEF Arrive, Refuse, PoolTimeout, Rollback, RaiseDb
<1>2. CASE SelectDocument(r)
  BY <1>2 DEF SelectDocument, Times
<1>3. CASE SelectLatest(r)
  BY <1>3 DEF SelectLatest
<1>4. CASE SelectProfile(r) \/ Probe(r)
  BY <1>4 DEF SelectProfile, Probe, readVars
<1>5. CASE Retrieve(r)
  BY <1>5 DEF Retrieve
<1>6. CASE Acquire(r)
  BY <1>6 DEF Acquire, readVars
<1>7. CASE Canned(r) \/ ChatReturns(r) \/ EmbedReturns(r)
  BY <1>7 DEF Canned, ChatReturns, EmbedReturns, AfterChat, readVars
<1>8. CASE Write(r)
  BY <1>8 DEF Write, readVars
<1> QED BY <1>1, <1>2, <1>3, <1>4, <1>5, <1>6, <1>7, <1>8 DEF Quiet

LEMMA QuietPath ==
  ASSUME TypeOK, Local, NEW r \in Request, Quiet(r)
  PROVE  PathOf(r)'
<1>1. Op(r)' = Op(r) /\ (Op(r) # None => Op(r) \in Operation)
  <2>1. setting \in SettingType
    BY DEF TypeOK
  <2> QED BY <2>1, QuietFrame DEF Op, SettingType
<1> USE DEF LocalOf, PathOf, Local, GoTo, Fail, Decide, TypeOK
<1>2. CASE Arrive(r) \/ Refuse(r) \/ PoolTimeout(r) \/ Rollback(r) \/ RaiseDb(r)
  BY <1>1, <1>2 DEF Arrive, Refuse, PoolTimeout, Rollback, RaiseDb
<1>3. CASE SelectDocument(r)
  BY <1>1, <1>3 DEF SelectDocument
<1>4. CASE SelectLatest(r)
  <2>1. Op(r) \in Operation /\ pc' \in {[pc EXCEPT ![r] = step] : step \in {"rollback", "commit", "wantEmbed", "wantChat"}}
    BY <1>4 DEF SelectLatest
  <2>2. pc'[r] \in {"wantEmbed", "wantChat"} => Op(r) = "diagnose"
    BY <1>4 DEF SelectLatest
  <2>3. pc'[r] \in {"rollback", "commit", "wantEmbed", "wantChat"}
    BY <2>1
  <2> QED BY <1>1, <2>1, <2>2, <2>3
<1>5. CASE SelectProfile(r) \/ Probe(r)
  BY <1>1, <1>5 DEF SelectProfile, Probe
<1>6. CASE Retrieve(r) \/ Acquire(r)
  BY <1>1, <1>6 DEF Retrieve, Acquire
<1>7. CASE Canned(r) \/ ChatReturns(r) \/ EmbedReturns(r)
  BY <1>1, <1>7 DEF Canned, ChatReturns, EmbedReturns, AfterChat
<1>8. CASE Write(r)
  BY <1>1, <1>8 DEF Write
<1> QED BY <1>2, <1>3, <1>4, <1>5, <1>6, <1>7, <1>8 DEF Quiet

LEMMA QuietDecided ==
  ASSUME TypeOK, Local, NEW r \in Request, Quiet(r)
  PROVE  /\ DecidedOf(r)'
         /\ pc'[r] = "done" => answer'[r] # "ok"
<1>1. /\ Op(r)' = Op(r) /\ (Op(r) \in Text => Op(r) \notin Routes)
      /\ profiles' = profiles /\ HasProfile(Op(r))' = HasProfile(Op(r))
      /\ dbFaults' >= dbFaults /\ dbFaults \in Nat /\ dbFaults' \in Nat /\ at' = at
  BY QuietFrame, TextNotRoute DEF Op, HasProfile, TypeOK
<1> USE DEF LocalOf, PathOf, DecidedOf, Local, GoTo, Fail, Decide, Doom, Unhandled, TypeOK, Routes
<1>2. CASE Arrive(r) \/ Refuse(r) \/ PoolTimeout(r) \/ Rollback(r)
  BY <1>1, <1>2 DEF Arrive, Refuse, PoolTimeout, Rollback, readVars, faultVars
<1>3. CASE SelectDocument(r)
  BY <1>1, <1>3 DEF SelectDocument, faultVars
<1>4. CASE SelectLatest(r)
  BY <1>1, <1>4 DEF SelectLatest, faultVars
<1>5. CASE SelectProfile(r)
  <2>1. SameProfile(r) # {} => HasProfile(Op(r))
    BY DEF SameProfile, HasProfile
  <2> QED BY <1>1, <1>5, <2>1 DEF SelectProfile, faultVars
<1>6. CASE Probe(r) \/ RaiseDb(r)
  BY <1>1, <1>6 DEF Probe, RaiseDb, readVars, faultVars, DbFault
<1>7. CASE Retrieve(r)
  <2>1. /\ pc'[r] = "wantChat" /\ answer' = answer /\ found' = found /\ pc[r] = "retrieve"
    BY <1>1, <1>7 DEF Retrieve, faultVars, DbFault
  <2>2. answer'[r] = "none"
    BY <2>1
  <2>4. Op(r) \in Text => found[r] = None \/ HasProfile(Op(r))
    OBVIOUS
  <2> HIDE DEF TypeOK, Local, LocalOf, PathOf
  <2> QED BY <1>1, <2>1, <2>2, <2>4
<1>8. CASE Acquire(r)
  BY <1>1, <1>8 DEF Acquire, readVars, faultVars
<1>9. CASE Canned(r) \/ ChatReturns(r) \/ EmbedReturns(r)
  BY <1>1, <1>9 DEF Canned, ChatReturns, EmbedReturns, AfterChat, readVars, faultVars, LlmFault
<1>10. CASE Write(r)
  <2>1. SameProfile(r) # {} => HasProfile(Op(r))
    BY DEF SameProfile, HasProfile
  <2> QED BY <1>1, <1>10, <2>1 DEF Write, Violates, readVars, faultVars
<1> QED BY <1>2, <1>3, <1>4, <1>5, <1>6, <1>7, <1>8, <1>9, <1>10 DEF Quiet

-----------------------------------------------------------------------------
(* The steps of one request and the rest of the invariant *)

(* A step of one request leaves what the others know of themselves. *)
LEMMA OtherLocal ==
  ASSUME Local, NEW r \in Request, NEW q \in Request \ {r},
         setting' = setting, pc'[q] = pc[q], answer'[q] = answer[q], seen'[q] = seen[q], found'[q] = found[q],
         base'[q] = base[q], at'[q] = at[q], q \in doomed' <=> q \in doomed,
         dbFaults > 0 => dbFaults' > 0, \A t : HasProfile(t) => HasProfile(t)'
  PROVE  LocalOf(q)'
<1>1. Op(q)' = Op(q)
  BY DEF Op
<1>2. LocalOf(q)
  BY DEF Local
<1>3. HasProfile(Op(q)) => HasProfile(Op(q))'
  <2>1. HasProfile(Op(q)) => \E p \in profiles' : p.text = Op(q)
    BY DEF HasProfile
  <2> QED BY <1>1, <2>1 DEF HasProfile
<1> QED BY <1>1, <1>2, <1>3 DEF LocalOf, PathOf, ReadOf, DecidedOf

LEMMA QuietLocal ==
  ASSUME TypeOK, Times, Local, NEW r \in Request, Quiet(r)
  PROVE  Local'
<1>1. LocalOf(r)'
  BY QuietRead, QuietPath, QuietDecided DEF LocalOf
<1>2. dbFaults > 0 => dbFaults' > 0
  BY QuietFrame, SMTT(30) DEF TypeOK
<1>3. \A t : HasProfile(t) => HasProfile(t)'
  BY QuietFrame DEF HasProfile
<1>4. ASSUME NEW q \in Request \ {r} PROVE LocalOf(q)'
  BY <1>2, <1>3, OtherLocal, QuietFrame
<1> QED BY <1>1, <1>4 DEF Local

(* Rows are those of requests. *)
LEMMA RowTypes ==
  ASSUME TypeOK
  PROVE  /\ \A i \in DOMAIN jobs : jobs[i] \in Job /\ jobs[i].by \in Request
         /\ \A p \in profiles : p.by \in Request
<1>1. jobs \in Seq(Job) /\ profiles \subseteq Profile
  BY DEF TypeOK
<1>2. \A i \in DOMAIN jobs : jobs[i] \in Job
  BY <1>1
<1> QED BY <1>1, <1>2 DEF Job, Profile

LEMMA QuietRows ==
  ASSUME TypeOK, Times, Newest, Rows, Stored, Local, ProfileOnce, NEW r \in Request, Quiet(r)
  PROVE  (Times /\ Newest /\ Rows /\ Stored /\ ProfileOnce)'
<1>1. Times' /\ Newest' /\ ProfileOnce'
  BY QuietFrame DEF Times, Newest, ProfileOnce
<1>2. \A q \in Request : pc[q] = "done" => pc'[q] = "done"
  BY QuietFrame
<1>3. UNCHANGED <<jobs, diagnosed, profiles, at, base>> /\ diagnosed \subseteq Request
  BY QuietFrame DEF TypeOK
<1>4. Rows'
  BY <1>2, <1>3, RowTypes DEF Rows
<1>6. Stored'
  BY QuietFrame, QuietDecided DEF Stored, Op
<1> QED BY <1>1, <1>4, <1>6

LEMMA QuietOrder ==
  ASSUME TypeOK, Order, NEW r \in Request, Quiet(r)
  PROVE  Order'
<1>1. \A q \in Request : pc[q] = "done" => pc'[q] = "done"
  BY QuietFrame
<1>2. after'[r] = after[r] \/ after'[r] = {q \in Request : Answered(q)}
  BY DEF Quiet, Arrive, Refuse, PoolTimeout, SelectDocument, SelectLatest, SelectProfile, Probe, Retrieve, RaiseDb,
         Acquire, Canned, ChatReturns, EmbedReturns, Write, Rollback, TypeOK
<1>3. \A q \in Request : after[q] \subseteq Request
  BY DEF TypeOK
<1> QED BY <1>1, <1>2, <1>3, QuietFrame DEF Order, Answered

LEMMA QuietInserts ==
  ASSUME TypeOK, Local, Inserts, NEW r \in Request, Quiet(r)
  PROVE  Inserts'
<1>1. \A q \in Request : Op(q)' = Op(q) /\ HasProfile(Op(q))' = HasProfile(Op(q))
  BY QuietFrame DEF Op, HasProfile
<1>2. ASSUME pc'[r] = "commit", Op(r) \in Text, found'[r] = None
      PROVE  /\ ~HasProfile(Op(r))
             /\ Inserting(r) = {}
  <2>1. Write(r) /\ Op(r) \in Text
    <3>1. Op(r) \notin {"latest", "ready", "diagnose", "analyze"}
      BY <1>2, TextNotRoute DEF Routes
    <3>2. ~Arrive(r) /\ ~Refuse(r) /\ ~PoolTimeout(r) /\ ~Rollback(r) /\ ~RaiseDb(r) /\ ~SelectDocument(r)
      BY <1>2 DEF Arrive, Refuse, PoolTimeout, Rollback, RaiseDb, SelectDocument, GoTo, Fail, TypeOK
    <3>3. ~SelectLatest(r) /\ ~Probe(r)
      BY <1>2, <3>1 DEF SelectLatest, Probe, Local, LocalOf, PathOf
    <3>4. ~SelectProfile(r)
      BY <1>2, NoRowAssumption DEF SelectProfile, SameProfile, GoTo, TypeOK
    <3>5. ~Retrieve(r) /\ ~Acquire(r) /\ ~Canned(r) /\ ~ChatReturns(r) /\ ~EmbedReturns(r)
      BY <1>2 DEF Retrieve, Acquire, Canned, ChatReturns, EmbedReturns, AfterChat, GoTo, Fail, TypeOK
    <3> QED BY <1>2, <3>2, <3>3, <3>4, <3>5 DEF Quiet
  <2>2. Inserting(r) = {} /\ SameProfile(r) = {}
    BY <1>2, <2>1 DEF Write, Violates, Fail, GoTo, TypeOK
  <2> QED BY <2>2 DEF SameProfile, HasProfile
<1>3. SUFFICES ASSUME NEW q \in Request, pc'[q] = "commit", Op(q) \in Text, found'[q] = None
               PROVE  ~HasProfile(Op(q)) /\ \A p \in Inserting(q)' : p = q
  BY <1>1 DEF Inserts
<1>4. Inserting(q)' = {p \in Request : pc'[p] = "commit" /\ found'[p] = None /\ Op(p) = Op(q)}
  BY <1>1 DEF Inserting
<1>5. CASE q = r
  <2>1. \A p \in Inserting(q)' \ {r} : p \in Inserting(r)
    BY <1>4, <1>5, QuietFrame DEF Inserting
  <2> QED BY <1>2, <1>3, <1>5, <2>1
<1>6. CASE q # r
  <2>1. pc[q] = "commit" /\ found[q] = None
    BY <1>3, <1>6, QuietFrame
  <2>2. r \notin Inserting(q)'
    <3>1. SUFFICES ASSUME r \in Inserting(q)' PROVE FALSE
      OBVIOUS
    <3>2. Inserting(r) = {}
      BY <1>2, <1>3, <1>4, <3>1
    <3> QED BY <1>4, <2>1, <3>1, <3>2 DEF Inserting
  <2>3. Inserting(q)' \subseteq Inserting(q)
    BY <1>4, <2>2, QuietFrame DEF Inserting
  <2> QED BY <1>3, <2>1, <2>3 DEF Inserts
<1> QED BY <1>5, <1>6

LEMMA QuietAnswers ==
  ASSUME TypeOK, Rows, Local, AnswersTrue, NEW r \in Request, Quiet(r)
  PROVE  AnswersTrue'
<1>1. \A q \in Request : Op(q)' = Op(q) /\ HasRow(q)' = HasRow(q) /\ HasProfile(Op(q))' = HasProfile(Op(q))
  BY QuietFrame DEF Op, HasRow, HasProfile
<1>2. dbFaults > 0 => dbFaults' > 0
  BY QuietFrame DEF TypeOK
<1>3. SUFFICES ASSUME NEW q \in Request, pc'[q] = "done"
               PROVE  /\ answer'[q] = "ok" /\ Op(q) \notin {"latest", "ready"} => HasRow(q) \/ HasProfile(Op(q))
                      /\ answer'[q] # "ok" /\ HasRow(q) => dbFaults' > 0
                      /\ answer'[q] = "error" => dbFaults' > 0 \/ at'[q] = 0 \/ q \in doomed' \/ HasProfile(Op(q))
  BY <1>1 DEF AnswersTrue, Answered
<1>4. CASE q = r
  <2>1. ~HasRow(r)
    BY QuietFrame DEF HasRow, Rows
  <2>2. answer'[r] # "ok" /\ (answer'[r] = "error" => dbFaults' > 0 \/ at'[r] = 0 \/ r \in doomed' \/ HasProfile(Op(r)))
    BY <1>1, <1>3, <1>4, QuietDecided DEF DecidedOf
  <2> QED BY <1>4, <2>1, <2>2
<1>5. CASE q # r
  BY <1>2, <1>3, <1>5, QuietFrame DEF AnswersTrue, Answered
<1> QED BY <1>4, <1>5

(* Who has read the latest analysis in this step finds each of those answered before it came. *)
LEMMA QuietReader ==
  ASSUME TypeOK, Newest, Rows, Stored, Local, Order, ReadYourAnalysis, NEW r \in Request, Quiet(r),
         HasReadLatest(r)', NEW a \in after'[r], Op(a) = "analyze", answer'[a] = "ok"
  PROVE  found'[r] \in Job /\ found'[r].at >= at[a]
<1>1. Op(r)' = Op(r)
  BY QuietFrame DEF Op
<1>2. PathOf(r) /\ DecidedOf(r)
  BY DEF Local, LocalOf
<1>3. ~Arrive(r)
  <2>1. Arrive(r) => pc'[r] = "connect" /\ answer'[r] = "none"
    BY <1>2 DEF Arrive, GoTo, DecidedOf, TypeOK
  <2> QED BY <1>1, <2>1 DEF HasReadLatest
<1>4. after'[r] = after[r]
  BY <1>3 DEF Quiet, Refuse, PoolTimeout, SelectDocument, SelectLatest, SelectProfile, Probe, Retrieve, RaiseDb,
         Acquire, Canned, ChatReturns, EmbedReturns, Write, Rollback
<1>5. a \in Request /\ pc[a] = "done" /\ a # r /\ answer[a] = "ok"
  <2>1. a \in Request /\ pc[a] = "done"
    BY <1>4 DEF Order, TypeOK
  <2> QED BY <2>1, QuietFrame
<1>6. CASE SelectLatest(r)
  <2>1. PICK i \in DOMAIN jobs : jobs[i].by = a
    BY <1>5 DEF Stored
  <2>2. jobs # <<>> /\ jobs[i].at = at[a]
    BY <2>1 DEF Rows
  <2>3. found'[r] = Latest
    BY <1>6, <2>2 DEF SelectLatest, TypeOK
  <2>4. jobs \in Seq(Job)
    BY DEF TypeOK
  <2>5. Latest \in Job /\ jobs[i].at <= Latest.at
    BY <2>1, <2>2, <2>4, LatestIsNewest
  <2>6. Latest.at \in Nat /\ at[a] \in Nat
    BY <1>5, <2>5 DEF Job, TypeOK
  <2> QED BY <2>2, <2>3, <2>5, <2>6
<1>7. CASE ~SelectLatest(r)
  <2> USE DEF HasReadLatest, PathOf, DecidedOf, GoTo, Fail, Decide, TypeOK, Routes
  <2>1. HasReadLatest(r) /\ found'[r] = found[r]
    <3>1. CASE Refuse(r) \/ PoolTimeout(r) \/ Rollback(r) \/ RaiseDb(r)
      BY <1>1, <1>2, <3>1 DEF Refuse, PoolTimeout, Rollback, RaiseDb, Unhandled, readVars
    <3>2. CASE SelectDocument(r)
      BY <1>1, <1>2, <3>2 DEF SelectDocument
    <3>3. CASE SelectProfile(r) \/ Probe(r)
      BY <1>1, <1>2, <3>3, TextNotRoute DEF SelectProfile, Probe
    <3>4. CASE Retrieve(r) \/ Acquire(r)
      BY <1>1, <1>2, <3>4 DEF Retrieve, Acquire, readVars
    <3>5. CASE Canned(r) \/ ChatReturns(r) \/ EmbedReturns(r)
      BY <1>1, <1>2, <3>5, TextNotRoute DEF Canned, ChatReturns, EmbedReturns, AfterChat, readVars
    <3>6. CASE Write(r)
      BY <1>1, <1>2, <3>6, TextNotRoute DEF Write, readVars
    <3> QED BY <1>3, <1>7, <3>1, <3>2, <3>3, <3>4, <3>5, <3>6 DEF Quiet
  <2> QED BY <1>4, <1>5, <2>1 DEF ReadYourAnalysis
<1> QED BY <1>6, <1>7

LEMMA QuietRYA ==
  ASSUME TypeOK, Newest, Rows, Stored, Local, Order, ReadYourAnalysis, NEW r \in Request, Quiet(r)
  PROVE  ReadYourAnalysis'
<1>1. \A q \in Request : Op(q)' = Op(q)
  BY QuietFrame DEF Op
<1>2. SUFFICES ASSUME NEW q \in Request, NEW a \in Request,
                      HasReadLatest(q)', a \in after'[q], Op(a) = "analyze", answer'[a] = "ok"
               PROVE  found'[q] \in Job /\ found'[q].at >= at'[a]
  BY <1>1 DEF ReadYourAnalysis
<1>3. CASE q = r
  BY <1>2, <1>3, QuietReader, QuietFrame
<1>4. CASE q # r
  <2>1. HasReadLatest(q) /\ a \in after[q] /\ found'[q] = found[q]
    BY <1>1, <1>2, <1>4, QuietFrame DEF HasReadLatest
  <2>2. pc[a] = "done"
    BY <2>1 DEF Order
  <2>3. answer[a] = "ok"
    BY <1>2, <2>2, QuietFrame
  <2> QED BY <1>2, <2>1, <2>3, QuietFrame DEF ReadYourAnalysis
<1> QED BY <1>3, <1>4

-----------------------------------------------------------------------------
(* Quiet steps, the storing of the document, and BEGIN *)

LEMMA QuietStep ==
  ASSUME TypeOK, Inductive, NEW r \in Request, Quiet(r)
  PROVE  Inductive'
BY QuietLocal, QuietRows, QuietOrder, QuietInserts, QuietAnswers, QuietRYA DEF Inductive

LEMMA IngestStep ==
  ASSUME TypeOK, Inductive, Ingest
  PROVE  Inductive'
<1>1. UNCHANGED <<setting, clock, jobs, diagnosed, profiles, pc, at, base, seen, found, context, doomed, answer, after,
                  llmFaults, dbFaults>> /\ version' = version + 1
  BY DEF Ingest, rowVars, readVars, faultVars
<1>2. Times'
  <2>1. version \in Nat /\ \A r \in Request : base[r] \in Nat
    BY DEF TypeOK
  <2>2. \A r \in Request : base[r] <= version + 1
    BY <2>1 DEF Inductive, Times
  <2> QED BY <1>1, <2>2 DEF Inductive, Times
<1>3. Newest' /\ Rows' /\ Order' /\ ProfileOnce'
  BY <1>1 DEF Inductive, Newest, Rows, Order, ProfileOnce
<1>4. Stored' /\ AnswersTrue'
  BY <1>1 DEF Inductive, Stored, AnswersTrue, Answered, HasRow, HasProfile, Op
<1>5. Local'
  BY <1>1 DEF Inductive, Local, LocalOf, PathOf, ReadOf, DecidedOf, HasProfile, Op
<1>6. Inserts'
  BY <1>1 DEF Inductive, Inserts, Inserting, HasProfile, Op
<1>7. ReadYourAnalysis'
  BY <1>1 DEF Inductive, ReadYourAnalysis, HasReadLatest, Op
<1> QED BY <1>2, <1>3, <1>4, <1>5, <1>6, <1>7 DEF Inductive

LEMMA BeginStep ==
  ASSUME TypeOK, Inductive, NEW r \in Request, Begin(r)
  PROVE  Inductive'
<1>1. /\ UNCHANGED <<setting, version, jobs, diagnosed, profiles, seen, found, context, doomed, answer, after,
                     llmFaults, dbFaults>>
      /\ pc[r] = "connect" /\ at'[r] = clock + 1 /\ base'[r] = version /\ clock' = clock + 1
      /\ \A q \in Request \ {r} : pc'[q] = pc[q] /\ at'[q] = at[q] /\ base'[q] = base[q]
  BY DEF Begin, GoTo, rowVars, faultVars, TypeOK
<1>2. /\ \A q \in Request : Op(q)' = Op(q) /\ HasRow(q)' = HasRow(q)
      /\ \A t : HasProfile(t) => HasProfile(t)'
  BY <1>1 DEF Op, HasRow, HasProfile
<1>3. /\ pc'[r] \in {"document", "latest", "probe", "profile"}
      /\ pc'[r] = "document" => Op(r) \in {"analyze", "diagnose"}
      /\ pc'[r] = "latest" => Op(r) \in {"latest", "diagnose"}
      /\ pc'[r] = "probe" => Op(r) = "ready"
      /\ pc'[r] = "profile" => Op(r) \notin {"analyze", "diagnose", "latest", "ready"}
  <2>1. CASE Op(r) \in {"analyze", "diagnose"}
    BY <2>1 DEF Begin, GoTo, TypeOK
  <2>2. CASE Op(r) = "latest"
    BY <2>2 DEF Begin, GoTo, TypeOK
  <2>3. CASE Op(r) = "ready"
    BY <2>3 DEF Begin, GoTo, TypeOK
  <2>4. CASE Op(r) \notin {"analyze", "diagnose", "latest", "ready"}
    BY <2>4 DEF Begin, GoTo, TypeOK
  <2> QED BY <2>1, <2>2, <2>3, <2>4
<1>4. \A q \in Request : pc[q] = "done" => q # r
  BY <1>1
<1>5. Times'
  <2>1. clock \in Nat /\ version \in Nat /\ \A q \in Request : at[q] \in Nat /\ base[q] \in Nat
    BY DEF TypeOK
  <2>2. \A q \in Request : at'[q] <= clock' /\ base'[q] <= version'
    BY <1>1, <2>1 DEF Inductive, Times
  <2>3. ASSUME NEW p \in Request, NEW q \in Request, at'[p] <= at'[q]
        PROVE  base'[p] <= base'[q]
    <3>1. CASE q = r
      BY <1>1, <2>2, <3>1
    <3>2. CASE p = r /\ q # r
      BY <1>1, <2>1, <2>3, <3>2 DEF Inductive, Times
    <3>3. CASE p # r /\ q # r
      BY <1>1, <2>3, <3>3 DEF Inductive, Times
    <3> QED BY <3>1, <3>2, <3>3
  <2> QED BY <2>2, <2>3 DEF Times
<1>6. Newest' /\ ProfileOnce'
  BY <1>1 DEF Inductive, Newest, ProfileOnce
<1>7. Rows'
  <2>1. diagnosed \subseteq Request
    BY DEF TypeOK
  <2> QED BY <1>1, <2>1, RowTypes DEF Inductive, Rows
<1>8. Stored'
  BY <1>1, <1>2, <1>3 DEF Inductive, Stored
<1>9. Order'
  <2>1. \A q \in Request : after[q] \subseteq Request
    BY DEF TypeOK
  <2> QED BY <1>1, <2>1 DEF Inductive, Order
<1>10. Local'
  <2>1. LocalOf(r) /\ HasProfile(Op(r))' = HasProfile(Op(r))
    BY <1>1 DEF Inductive, Local, Op, HasProfile
  <2>2. PathOf(r)'
    BY <1>1, <1>2, <1>3, <2>1 DEF LocalOf, PathOf, Operation, Routes
  <2>3. ReadOf(r)'
    BY <1>3 DEF ReadOf
  <2>4. DecidedOf(r)'
    BY <1>1, <1>2, <1>3, <2>1 DEF LocalOf, DecidedOf
  <2>5. ASSUME NEW q \in Request \ {r} PROVE LocalOf(q)'
    BY <1>1, <1>2, OtherLocal DEF Inductive
  <2> QED BY <2>2, <2>3, <2>4, <2>5 DEF Local, LocalOf
<1>11. Inserts'
  <2>1. SUFFICES ASSUME NEW q \in Request, pc'[q] = "commit", Op(q) \in Text, found'[q] = None
                 PROVE  ~HasProfile(Op(q))' /\ \A p \in Inserting(q)' : p = q
    BY <1>2 DEF Inserts
  <2>2. q # r
    BY <1>3, <2>1
  <2>3. Inserting(q)' \subseteq Inserting(q) /\ HasProfile(Op(q))' = HasProfile(Op(q))
    BY <1>1, <1>3 DEF Inserting, Op, HasProfile
  <2> QED BY <1>1, <2>1, <2>2, <2>3 DEF Inductive, Inserts
<1>12. AnswersTrue'
  <2>1. \A q \in Request : Answered(q)' => Answered(q) /\ at'[q] = at[q]
    BY <1>1, <1>3 DEF Answered
  <2> QED BY <1>1, <2>1 DEF Inductive, AnswersTrue, Op, HasRow, HasProfile
<1>13. ReadYourAnalysis'
  <2>1. SUFFICES ASSUME NEW q \in Request, NEW a \in Request,
                        HasReadLatest(q)', a \in after[q], Op(a) = "analyze", answer[a] = "ok"
                 PROVE  found[q] \in Job /\ found[q].at >= at'[a]
    BY <1>1, <1>2 DEF ReadYourAnalysis
  <2>2. q # r
    <3>1. answer[r] = "none"
      BY <1>1 DEF Inductive, Local, LocalOf, DecidedOf
    <3> QED BY <1>1, <1>3, <2>1, <3>1 DEF HasReadLatest
  <2>3. HasReadLatest(q)
    BY <1>1, <1>2, <2>1, <2>2 DEF HasReadLatest
  <2>4. a # r
    BY <1>1, <2>1 DEF Inductive, Order
  <2> QED BY <1>1, <2>1, <2>3, <2>4 DEF Inductive, ReadYourAnalysis
<1> QED BY <1>5, <1>6, <1>7, <1>8, <1>9, <1>10, <1>11, <1>12, <1>13 DEF Inductive

-----------------------------------------------------------------------------
(* The commit *)

(* The rows after a commit are those before it, and perhaps the one of this request. *)
LEMMA StoredRows ==
  ASSUME TypeOK, NEW r \in Request, StoreRow(r) \/ UNCHANGED <<jobs, diagnosed, profiles>>
  PROVE  /\ \/ jobs' = jobs
            \/ /\ Op(r) = "analyze"
               /\ jobs' = Append(jobs, [by |-> r, at |-> at[r], base |-> base[r], of |-> seen[r]])
         /\ diagnosed \subseteq diagnosed' /\ diagnosed' \subseteq diagnosed \cup {r}
         /\ \/ profiles' = profiles
            \/ /\ Op(r) \in Text /\ found[r] = None
               /\ profiles' = profiles \cup {[by |-> r, at |-> at[r], text |-> Op(r)]}
BY DEF StoreRow

(* A row of jobs after a commit is an old one or the new one. *)
LEMMA AppendRow ==
  ASSUME NEW T, NEW s \in Seq(T), NEW e \in T
  PROVE  /\ \A i \in DOMAIN Append(s, e) :
               \/ i \in DOMAIN s /\ Append(s, e)[i] = s[i]
               \/ i = Len(s) + 1 /\ Append(s, e)[i] = e
         /\ \A i \in DOMAIN s : i \in DOMAIN Append(s, e) /\ Append(s, e)[i] = s[i]
         /\ Len(s) + 1 \in DOMAIN Append(s, e) /\ Append(s, e)[Len(s) + 1] = e
<1>1. DOMAIN s = 1 .. Len(s) /\ Len(s) \in Nat
  OBVIOUS
<1>2. DOMAIN Append(s, e) = 1 .. Len(s) + 1
  OBVIOUS
<1>3. Append(s, e)[Len(s) + 1] = e
  OBVIOUS
<1>4. \A i \in 1 .. Len(s) : Append(s, e)[i] = s[i]
  OBVIOUS
<1>5. \A i \in 1 .. Len(s) + 1 : i \in 1 .. Len(s) \/ i = Len(s) + 1
  BY <1>1
<1>6. Len(s) + 1 \in 1 .. Len(s) + 1 /\ \A i \in 1 .. Len(s) : i \in 1 .. Len(s) + 1
  BY <1>1
<1>7. ASSUME NEW i \in DOMAIN Append(s, e)
      PROVE  \/ i \in DOMAIN s /\ Append(s, e)[i] = s[i]
             \/ i = Len(s) + 1 /\ Append(s, e)[i] = e
  <2>1. CASE i \in 1 .. Len(s)
    BY <1>1, <1>4, <2>1
  <2>2. CASE i = Len(s) + 1
    BY <1>3, <2>2
  <2> QED BY <1>2, <1>5, <2>1, <2>2
<1>8. \A i \in DOMAIN s : i \in DOMAIN Append(s, e) /\ Append(s, e)[i] = s[i]
  BY <1>1, <1>2, <1>4, <1>6
<1>9. Len(s) + 1 \in DOMAIN Append(s, e)
  BY <1>2, <1>6
<1> QED BY <1>3, <1>7, <1>8, <1>9

LEMMA CommitStep ==
  ASSUME TypeOK, Inductive, NEW r \in Request, Commit(r)
  PROVE  Inductive'
<1> DEFINE row == [by |-> r, at |-> at[r], base |-> base[r], of |-> seen[r]]
<1>1. /\ UNCHANGED <<setting, version, clock, at, base, seen, found, context, doomed, after>>
      /\ pc[r] = "commit" /\ pc'[r] = "done"
      /\ \A q \in Request \ {r} : pc'[q] = pc[q] /\ answer'[q] = answer[q]
      /\ dbFaults > 0 => dbFaults' > 0
      /\ \/ answer'[r] = answer[r] /\ StoreRow(r)
         \/ answer'[r] = Unhandled(r) /\ dbFaults' > 0 /\ (StoreRow(r) \/ UNCHANGED <<jobs, diagnosed, profiles>>)
  BY CommitFrame, SMTT(30) DEF TypeOK
<1>2. LocalOf(r) /\ answer[r] = "ok" /\ Op(r) \in Operation
  BY <1>1 DEF Inductive, Local, LocalOf, PathOf, DecidedOf
<1>3. \A q \in Request : Op(q)' = Op(q)
  BY <1>1 DEF Op
<1>4. /\ jobs \in Seq(Job) /\ row \in Job
      /\ \A q \in Request : at[q] \in Nat /\ after[q] \subseteq Request
      /\ diagnosed \subseteq Request
  BY DEF TypeOK, Job
<1>5. \/ jobs' = jobs
      \/ Op(r) = "analyze" /\ jobs' = Append(jobs, row)
  BY <1>1, StoredRows
<1>6. /\ \A i \in DOMAIN jobs' :
            \/ i \in DOMAIN jobs /\ jobs'[i] = jobs[i]
            \/ Op(r) = "analyze" /\ jobs'[i] = row
      /\ \A i \in DOMAIN jobs : i \in DOMAIN jobs' /\ jobs'[i] = jobs[i]
  BY <1>4, <1>5, AppendRow
<1>7. /\ diagnosed \subseteq diagnosed' /\ diagnosed' \subseteq diagnosed \cup {r}
      /\ \/ profiles' = profiles
         \/ /\ Op(r) \in Text /\ found[r] = None
            /\ profiles' = profiles \cup {[by |-> r, at |-> at[r], text |-> Op(r)]}
  BY <1>1, StoredRows
<1>8. \A t : HasProfile(t) => HasProfile(t)'
  BY <1>7 DEF HasProfile
<1>9. \A q \in Request : HasRow(q) => HasRow(q)'
  BY <1>6, <1>7 DEF HasRow
<1>10. \A q \in Request \ {r} : HasRow(q)' => HasRow(q)
  BY <1>6, <1>7 DEF HasRow
<1>11. \A q \in Request : pc[q] = "done" => pc'[q] = "done" /\ q # r
  BY <1>1
<1>12. Times' /\ Order'
  BY <1>1, <1>4, <1>11 DEF Inductive, Times, Order
<1>13. Newest'
  <2>1. CASE jobs' = jobs
    BY <2>1 DEF Inductive, Newest
  <2>2. CASE jobs' = Append(jobs, row)
    <3>1. \A k \in DOMAIN jobs : jobs[k].at \in Nat
      BY RowTypes DEF Job
    <3>2. CASE \E i \in DOMAIN jobs : (\A k \in DOMAIN jobs : jobs[k].at <= jobs[i].at) /\ row.at <= jobs[i].at
      <4>1. PICK i \in DOMAIN jobs : (\A k \in DOMAIN jobs : jobs[k].at <= jobs[i].at) /\ row.at <= jobs[i].at
        BY <3>2
      <4>2. i \in DOMAIN jobs' /\ jobs'[i] = jobs[i]
        BY <1>6
      <4>3. \A k \in DOMAIN jobs' : jobs'[k].at <= jobs'[i].at
        BY <1>6, <4>1, <4>2
      <4> QED BY <4>2, <4>3 DEF Newest
    <3>3. CASE \A k \in DOMAIN jobs : jobs[k].at <= row.at
      <4>1. jobs'[Len(jobs) + 1] = row /\ Len(jobs) + 1 \in DOMAIN jobs'
        BY <1>4, <2>2, AppendRow
      <4>2. row.at \in Nat
        BY <1>4
      <4>3. \A k \in DOMAIN jobs' : jobs'[k].at <= jobs'[Len(jobs) + 1].at
        BY <1>4, <2>2, <3>3, <4>1, <4>2, AppendRow
      <4> QED BY <4>1, <4>3 DEF Newest
    <3>4. CASE jobs # <<>> /\ ~\A k \in DOMAIN jobs : jobs[k].at <= row.at
      <4>1. PICK i \in DOMAIN jobs : \A k \in DOMAIN jobs : jobs[k].at <= jobs[i].at
        BY <3>4 DEF Inductive, Newest
      <4>2. row.at <= jobs[i].at
        BY <1>4, <3>1, <3>4, <4>1
      <4> QED BY <3>2, <4>1, <4>2
    <3>5. jobs = <<>> => \A k \in DOMAIN jobs : jobs[k].at <= row.at
      OBVIOUS
    <3> QED BY <3>3, <3>4, <3>5
  <2> QED BY <1>5, <2>1, <2>2
<1>14. Rows'
  <2>1. Op(r) = "analyze" => base[r] <= seen[r]
    BY <1>1, <1>2 DEF LocalOf, ReadOf
  <2>2. ASSUME NEW i \in DOMAIN jobs'
        PROVE  /\ jobs'[i].at = at[jobs'[i].by] /\ jobs'[i].base = base[jobs'[i].by]
               /\ jobs'[i].base <= jobs'[i].of
               /\ pc'[jobs'[i].by] = "done"
    <3>1. CASE i \in DOMAIN jobs /\ jobs'[i] = jobs[i]
      BY <1>11, <3>1, RowTypes DEF Inductive, Rows
    <3>2. CASE Op(r) = "analyze" /\ jobs'[i] = row
      BY <1>1, <2>1, <3>2
    <3> QED BY <1>6, <3>1, <3>2
  <2>3. \A q \in diagnosed' : pc'[q] = "done"
    BY <1>1, <1>4, <1>7, <1>11 DEF Inductive, Rows
  <2>4. \A p \in profiles' : pc'[p.by] = "done"
    BY <1>1, <1>7, <1>11, RowTypes DEF Inductive, Rows
  <2> QED BY <1>1, <2>2, <2>3, <2>4 DEF Rows
<1>15. Stored'
  <2>1. SUFFICES ASSUME NEW q \in Request, Op(q) = "analyze", pc'[q] = "done", answer'[q] = "ok"
                 PROVE  \E i \in DOMAIN jobs' : jobs'[i].by = q
    BY <1>3 DEF Stored
  <2>2. CASE q = r
    <3>1. jobs' = Append(jobs, row)
      BY <1>1, <2>1, <2>2 DEF StoreRow, Unhandled
    <3> QED BY <1>4, <2>2, <3>1, AppendRow
  <2>3. CASE q # r
    BY <1>1, <1>6, <2>1, <2>3 DEF Inductive, Stored
  <2> QED BY <2>2, <2>3
<1>16. Local'
  <2>1. LocalOf(r)'
    <3>1. HasProfile(Op(r)) => HasProfile(Op(r))'
      BY <1>3, <1>8 DEF HasProfile
    <3> QED BY <1>1, <1>2, <1>3, <3>1 DEF LocalOf, PathOf, ReadOf, DecidedOf
  <2>2. ASSUME NEW q \in Request \ {r} PROVE LocalOf(q)'
    BY <1>1, <1>8, OtherLocal DEF Inductive
  <2> QED BY <2>1, <2>2 DEF Local
<1>17. Inserts'
  <2>1. SUFFICES ASSUME NEW q \in Request, pc'[q] = "commit", Op(q) \in Text, found[q] = None
                 PROVE  ~HasProfile(Op(q))' /\ \A p \in Inserting(q)' : p = q
    BY <1>1, <1>3 DEF Inserts
  <2>2. q # r /\ pc[q] = "commit"
    BY <1>1, <2>1
  <2>3. ~HasProfile(Op(q)) /\ \A p \in Inserting(q) : p = q
    BY <2>1, <2>2 DEF Inductive, Inserts
  <2>4. Inserting(q)' \subseteq Inserting(q)
    BY <1>1, <1>3 DEF Inserting
  <2>5. Op(r) = Op(q) => found[r] # None
    BY <1>1, <2>2, <2>3 DEF Inserting
  <2>6. ~HasProfile(Op(q))'
    BY <1>3, <1>7, <2>3, <2>5 DEF HasProfile
  <2> QED BY <2>3, <2>4, <2>6
<1>18. AnswersTrue'
  <2>1. SUFFICES ASSUME NEW q \in Request, pc'[q] = "done"
                 PROVE  /\ answer'[q] = "ok" /\ Op(q) \notin {"latest", "ready"} => HasRow(q)' \/ HasProfile(Op(q))'
                        /\ answer'[q] # "ok" /\ HasRow(q)' => dbFaults' > 0
                        /\ answer'[q] = "error" => dbFaults' > 0 \/ at[q] = 0 \/ q \in doomed \/ HasProfile(Op(q))'
    BY <1>1, <1>3 DEF AnswersTrue, Answered
  <2>2. CASE q # r
    <3>1. HasProfile(Op(q)) => HasProfile(Op(q))'
      BY <1>3, <1>8 DEF HasProfile
    <3> QED BY <1>1, <1>9, <1>10, <2>1, <2>2, <3>1 DEF Inductive, AnswersTrue, Answered
  <2>3. CASE q = r
    <3>1. CASE answer'[r] = Unhandled(r) /\ dbFaults' > 0
      BY <2>3, <3>1 DEF Unhandled
    <3>2. CASE answer'[r] = "ok" /\ StoreRow(r)
      <4>1. CASE Op(r) = "analyze"
        <5>1. \E i \in DOMAIN jobs' : jobs'[i].by = r
          BY <1>4, <3>2, <4>1, AppendRow DEF StoreRow
        <5> QED BY <2>3, <3>2, <5>1 DEF HasRow
      <4>2. CASE Op(r) = "diagnose"
        BY <2>3, <3>2, <4>2 DEF StoreRow, HasRow
      <4>3. CASE Op(r) \in Text /\ found[r] = None
        <5>1. [by |-> r, at |-> at[r], text |-> Op(r)] \in profiles'
          BY <3>2, <4>3 DEF StoreRow
        <5> QED BY <2>3, <3>2, <5>1 DEF HasRow
      <4>4. CASE Op(r) \in Text /\ found[r] # None
        <5>1. HasProfile(Op(r))
          BY <1>2, <4>4 DEF LocalOf, DecidedOf
        <5>2. HasProfile(Op(r))'
          BY <1>3, <1>8, <5>1 DEF HasProfile
        <5> QED BY <2>3, <3>2, <5>2
      <4> QED BY <1>2, <2>3, <3>2, <4>1, <4>2, <4>3, <4>4 DEF Operation, Routes
    <3> QED BY <1>1, <1>2, <3>1, <3>2
  <2> QED BY <2>2, <2>3
<1>19. ProfileOnce'
  <2>1. CASE profiles' = profiles
    BY <2>1 DEF Inductive, ProfileOnce
  <2>2. CASE /\ Op(r) \in Text /\ found[r] = None
             /\ profiles' = profiles \cup {[by |-> r, at |-> at[r], text |-> Op(r)]}
    <3>1. ~HasProfile(Op(r))
      BY <1>1, <2>2 DEF Inductive, Inserts
    <3> QED BY <2>2, <3>1 DEF HasProfile, Inductive, ProfileOnce
  <2> QED BY <1>7, <2>1, <2>2
<1>20. ReadYourAnalysis'
  <2>1. SUFFICES ASSUME NEW q \in Request, NEW a \in Request,
                        HasReadLatest(q)', a \in after[q], Op(a) = "analyze", answer'[a] = "ok"
                 PROVE  found[q] \in Job /\ found[q].at >= at[a]
    BY <1>1, <1>3 DEF ReadYourAnalysis
  <2>2. HasReadLatest(q)
    BY <1>1, <1>2, <1>3, <2>1 DEF HasReadLatest
  <2>3. a # r
    BY <1>1, <2>1 DEF Inductive, Order
  <2> QED BY <1>1, <2>1, <2>2, <2>3 DEF Inductive, ReadYourAnalysis
<1> QED BY <1>12, <1>13, <1>14, <1>15, <1>16, <1>17, <1>18, <1>19, <1>20 DEF Inductive

-----------------------------------------------------------------------------
(* The current profile *)

Running(r) == pc[r] \notin {"new", "connect", "done"}

(* A request under way began after those that had been answered when it came in. *)
Later == \A r \in Request : Running(r) => \A q \in after[r] : at[q] <= at[r]

(* So did the request that stored a profile, whose text and time the row bears. *)
Origin ==
    \A p \in profiles :
        /\ p.text = Op(p.by) /\ p.at = at[p.by]
        /\ \A q \in after[p.by] : at[q] <= p.at

LEMMA LaterStep == IInv /\ Later /\ [Next]_vars => Later'
<1> SUFFICES ASSUME IInv, Later, [Next]_vars, NEW r \in Request, Running(r)', NEW q \in after'[r]
             PROVE  at'[q] <= at'[r]
  BY DEF Later
<1> USE DEF Running, Later
<1>1. TypeOK /\ Times /\ Order
  BY DEF IInv, Inductive
<1>2. CASE UNCHANGED vars \/ Ingest
  BY <1>2 DEF vars, readVars, Ingest
<1>3. ASSUME NEW s \in Request, Begin(s) PROVE at'[q] <= at'[r]
  <2>1. /\ after' = after /\ at' = [at EXCEPT ![s] = clock + 1] /\ pc[s] = "connect"
        /\ \A t \in Request \ {s} : pc'[t] = pc[t]
    BY <1>1, <1>3 DEF Begin, GoTo, TypeOK
  <2>2. q \in Request /\ q # s /\ at'[q] = at[q] /\ at[q] <= clock /\ at[q] \in Nat /\ clock \in Nat
    BY <1>1, <2>1 DEF TypeOK, Order, Times
  <2>3. CASE r = s
    <3>1. at'[r] = clock + 1
      BY <1>1, <2>1, <2>3 DEF TypeOK
    <3> QED BY <2>2, <3>1
  <2>4. CASE r # s
    BY <1>1, <2>1, <2>2, <2>4 DEF TypeOK
  <2> QED BY <2>3, <2>4
<1>4. ASSUME NEW s \in Request, Commit(s) PROVE at'[q] <= at'[r]
  BY <1>1, <1>4, CommitFrame DEF TypeOK
<1>5. ASSUME NEW s \in Request, Quiet(s) PROVE at'[q] <= at'[r]
  <2>1. at' = at /\ \A t \in Request \ {s} : pc'[t] = pc[t] /\ after'[t] = after[t]
    BY <1>1, <1>5, QuietFrame
  <2>2. CASE r # s
    BY <2>1, <2>2
  <2>3. CASE r = s
    <3>1. Running(s) /\ after' = after
      BY <1>1, <1>5, <2>3 DEF Quiet, Arrive, Refuse, PoolTimeout, SelectDocument, SelectLatest,
         SelectProfile, Probe, Retrieve, RaiseDb, Acquire, Canned, ChatReturns, EmbedReturns, Write, Rollback,
         GoTo, TypeOK
    <3> QED BY <2>1, <2>3, <3>1
  <2> QED BY <2>2, <2>3
<1> QED BY <1>2, <1>3, <1>4, <1>5, NextCases

LEMMA OriginStep == IInv /\ Later /\ Origin /\ [Next]_vars => Origin'
<1> SUFFICES ASSUME IInv, Later, Origin, [Next]_vars, NEW p \in profiles'
             PROVE  p.text = Op(p.by)' /\ p.at = at'[p.by] /\ \A q \in after'[p.by] : at'[q] <= p.at
  BY DEF Origin, Op
<1>1. TypeOK /\ Rows /\ Order
  BY DEF IInv, Inductive
<1>2. p \in profiles => /\ p.by \in Request /\ pc[p.by] = "done" /\ p.text = Op(p.by) /\ p.at = at[p.by]
                        /\ \A q \in after[p.by] : q \in Request /\ pc[q] = "done" /\ at[q] <= p.at
  BY <1>1 DEF Origin, Rows, Order, TypeOK, Profile
<1>3. CASE UNCHANGED vars \/ Ingest
  BY <1>2, <1>3 DEF vars, rowVars, readVars, Ingest, Op
<1>4. ASSUME NEW s \in Request, Begin(s)
      PROVE  p.text = Op(p.by)' /\ p.at = at'[p.by] /\ \A q \in after'[p.by] : at'[q] <= p.at
  <2>1. UNCHANGED <<setting, profiles, after>> /\ pc[s] = "connect" /\ at' = [at EXCEPT ![s] = clock + 1]
    BY <1>4 DEF Begin, rowVars
  <2>2. \A t \in Request \ {s} : at'[t] = at[t]
    BY <1>1, <2>1 DEF TypeOK
  <2> QED BY <1>2, <2>1, <2>2 DEF Op
<1>5. ASSUME NEW s \in Request, Commit(s)
      PROVE  p.text = Op(p.by)' /\ p.at = at'[p.by] /\ \A q \in after'[p.by] : at'[q] <= p.at
  <2>1. UNCHANGED <<setting, at, after>> /\ pc[s] = "commit"
    BY <1>1, <1>5, CommitFrame
  <2>2. p \in profiles \/ p = [by |-> s, at |-> at[s], text |-> Op(s)]
    <3>1. StoreRow(s) \/ UNCHANGED <<jobs, diagnosed, profiles>>
      BY <1>1, <1>5, CommitFrame
    <3>2. profiles' \subseteq profiles \cup {[by |-> s, at |-> at[s], text |-> Op(s)]}
      BY <1>1, <3>1, StoredRows
    <3> QED BY <3>2
  <2>3. \A q \in after[s] : at[q] <= at[s]
    BY <2>1 DEF Later, Running
  <2> QED BY <1>2, <2>1, <2>2, <2>3 DEF Op
<1>6. ASSUME NEW s \in Request, Quiet(s)
      PROVE  p.text = Op(p.by)' /\ p.at = at'[p.by] /\ \A q \in after'[p.by] : at'[q] <= p.at
  BY <1>1, <1>2, <1>6, QuietFrame DEF Op
<1> QED BY <1>3, <1>4, <1>5, <1>6, NextCases

(* The rows of the other tables are those of other requests. *)
RowKinds ==
    /\ \A i \in DOMAIN jobs : Op(jobs[i].by) = "analyze"
    /\ \A r \in diagnosed : Op(r) = "diagnose"

LEMMA KindsStep == IInv /\ RowKinds /\ [Next]_vars => RowKinds'
<1> SUFFICES ASSUME IInv, RowKinds, [Next]_vars PROVE RowKinds'
  OBVIOUS
<1>1. TypeOK
  BY DEF IInv
<1>2. ASSUME UNCHANGED <<setting, jobs, diagnosed>> PROVE RowKinds'
  BY <1>2 DEF RowKinds, Op
<1>3. UNCHANGED vars \/ Ingest => UNCHANGED <<setting, jobs, diagnosed>>
  BY DEF vars, rowVars, Ingest
<1>4. ASSUME NEW s \in Request, Begin(s) \/ Quiet(s) PROVE UNCHANGED <<setting, jobs, diagnosed>>
  BY <1>1, <1>4, QuietFrame DEF Begin, rowVars
<1>5. ASSUME NEW s \in Request, Commit(s) PROVE RowKinds'
  <2> DEFINE row == [by |-> s, at |-> at[s], base |-> base[s], of |-> seen[s]]
  <2>1. setting' = setting /\ (StoreRow(s) \/ UNCHANGED <<jobs, diagnosed, profiles>>)
    BY <1>1, <1>5, CommitFrame
  <2>2. \A r \in diagnosed' : r \in diagnosed \/ Op(r) = "diagnose"
    BY <2>1 DEF StoreRow
  <2>3. jobs' = jobs \/ (Op(s) = "analyze" /\ jobs' = Append(jobs, row))
    BY <1>1, <2>1, StoredRows
  <2>4. jobs \in Seq(Job) /\ row \in Job
    BY <1>1 DEF TypeOK, Job
  <2>5. \A i \in DOMAIN jobs' : (i \in DOMAIN jobs /\ jobs'[i] = jobs[i]) \/ (Op(s) = "analyze" /\ jobs'[i] = row)
    BY <2>3, <2>4, AppendRow
  <2> QED BY <2>1, <2>2, <2>5 DEF RowKinds, Op
<1> QED BY <1>2, <1>3, <1>4, <1>5, NextCases

LEMMA CurrentByOrigin == IInv /\ Origin /\ RowKinds => CurrentProfile
<1> SUFFICES ASSUME IInv, Origin, RowKinds, NEW r \in Request,
                    Op(r) \in Text, Answered(r), answer[r] = "ok",
                    \A q \in Request \ {r} : Op(q) \in Text /\ pc[q] # "new" => q \in after[r]
             PROVE  NewestIs(Op(r)) \/ \E p \in profiles : p.text = Op(r) /\ p.by \in after[r]
  BY DEF CurrentProfile
<1>1. \A q \in profiles : /\ q.by \in Request /\ pc[q.by] = "done" /\ q.text \in Text
                          /\ q.text = Op(q.by) /\ q.at = at[q.by] /\ q.at \in Nat
                          /\ \A s \in after[q.by] : at[s] <= q.at
  BY DEF IInv, Inductive, Rows, TypeOK, Profile, Origin
<1>2. PICK p \in profiles : p.text = Op(r)
  <2>1. HasRow(r) \/ HasProfile(Op(r))
    BY TextNotRoute DEF IInv, Inductive, AnswersTrue, Routes
  <2>2. r \notin diagnosed /\ \A i \in DOMAIN jobs : jobs[i].by # r
    BY TextNotRoute DEF RowKinds, Routes
  <2> QED BY <1>1, <2>1, <2>2 DEF HasRow, HasProfile
<1>3. CASE p.by \in after[r]
  BY <1>2, <1>3
<1>4. CASE p.by \notin after[r]
  <2>1. p.by = r
    BY <1>1, <1>2, <1>4
  <2>2. ASSUME NEW q \in profiles PROVE q.at <= p.at
    <3>1. q.by = r \/ q.by \in after[r]
      BY <1>1
    <3> QED BY <1>1, <2>1, <3>1
  <2> QED BY <1>2, <2>2 DEF NewestIs
<1> QED BY <1>3, <1>4

CurrentInv == Later /\ Origin /\ RowKinds

-----------------------------------------------------------------------------
(* Theorems *)

LEMMA InitInductive == Init => Inductive
<1> SUFFICES ASSUME Init PROVE Inductive
  OBVIOUS
<1>1. Times /\ Newest /\ Rows /\ Stored /\ Order
  <2>1. setting.first \in Nat
    BY DEF Init, SettingType
  <2> QED BY <2>1 DEF Init, Times, Newest, Rows, Stored, Order
<1>2. Local /\ Inserts
  BY DEF Init, Local, LocalOf, PathOf, ReadOf, DecidedOf, Inserts
<1>3. AnswersTrue /\ ProfileOnce /\ ReadYourAnalysis
  BY DEF Init, AnswersTrue, Answered, ProfileOnce, ReadYourAnalysis
<1> QED BY <1>1, <1>2, <1>3 DEF Inductive

LEMMA StutterInductive == Inductive /\ UNCHANGED vars => Inductive'
<1> SUFFICES ASSUME Inductive, UNCHANGED vars PROVE Inductive'
  OBVIOUS
<1> USE DEF vars, rowVars, readVars, faultVars, Inductive
<1>1. Times' /\ Newest' /\ Rows' /\ Order' /\ ProfileOnce'
  BY DEF Times, Newest, Rows, Order, ProfileOnce
<1>2. Stored' /\ AnswersTrue'
  BY DEF Stored, AnswersTrue, Answered, HasRow, HasProfile, Op
<1>3. Local' /\ Inserts'
  BY DEF Local, LocalOf, PathOf, ReadOf, DecidedOf, Inserts, Inserting, HasProfile, Op
<1>4. ReadYourAnalysis'
  BY DEF ReadYourAnalysis, HasReadLatest, Op
<1> QED BY <1>1, <1>2, <1>3, <1>4

LEMMA Invariance == Spec => []IInv
<1>1. Init => IInv
  BY InitType, InitInductive DEF IInv
<1>2. IInv /\ [Next]_vars => IInv'
  <2> SUFFICES ASSUME IInv, [Next]_vars PROVE IInv'
    OBVIOUS
  <2>1. TypeOK'
    BY NextType DEF IInv, Inductive
  <2>2. Inductive'
    <3>1. CASE UNCHANGED vars
      BY <3>1, StutterInductive DEF IInv
    <3>2. CASE Next
      BY <3>2, NextCases, IngestStep, BeginStep, CommitStep, QuietStep DEF IInv
    <3> QED BY <3>1, <3>2
  <2> QED BY <2>1, <2>2 DEF IInv
<1> QED BY <1>1, <1>2, PTL DEF Spec

(* Every variable keeps its type, whatever the requests, the settings and the bounds. *)
THEOREM TypeCorrect == Spec => []TypeOK
<1>1. IInv => TypeOK
  BY DEF IInv
<1> QED BY <1>1, Invariance, PTL

(* Who asks after an analysis was answered finds that analysis or one begun later (database.py:37,    *)
(* analysis_repository.py:27).                                                                       *)
THEOREM ReadYourAnalysisHolds == Spec => []ReadYourAnalysis
<1>1. IInv => ReadYourAnalysis
  BY DEF IInv, Inductive
<1> QED BY <1>1, Invariance, PTL

(* The analysis taken for the latest is of a document at least as new as any other analysis found     *)
(* when it began (analysis_repository.py:27).                                                        *)
THEOREM LatestFreshHolds == Spec => []LatestFresh
<1>1. IInv => LatestFresh
  <2> SUFFICES ASSUME IInv, NEW i \in DOMAIN jobs PROVE Latest.of >= jobs[i].base
    BY DEF LatestFresh
  <2>1. jobs \in Seq(Job) /\ jobs # <<>> /\ TypeOK
    BY DEF IInv, TypeOK
  <2>2. PICK m \in DOMAIN jobs : Latest = jobs[m] /\ jobs[i].at <= jobs[m].at
    BY <2>1, LatestIsNewest DEF IInv, Inductive
  <2>3. jobs[i].by \in Request /\ jobs[m].by \in Request /\ jobs[i] \in Job /\ jobs[m] \in Job
    BY <2>1, RowTypes
  <2>4. jobs[i].base <= jobs[m].base
    BY <2>2, <2>3 DEF IInv, Inductive, Rows, Times
  <2>5. jobs[m].base <= jobs[m].of
    BY DEF IInv, Inductive, Rows
  <2> QED BY <2>2, <2>3, <2>4, <2>5 DEF Job
<1> QED BY <1>1, Invariance, PTL

(* A response tells what is stored (database.py:31-48, error_handlers.py). *)
THEOREM AnswersTrueHolds == Spec => []AnswersTrue
<1>1. IInv => AnswersTrue
  BY DEF IInv, Inductive
<1> QED BY <1>1, Invariance, PTL

(* Each profile is stored once, by the unique constraint on profile_hash, although two requests may    *)
(* find none at a time (profile_embedding_service.py:33).                                             *)
THEOREM ProfilesOnce == Spec => []ProfileOnce
<1>1. IInv => ProfileOnce
  BY DEF IInv, Inductive
<1> QED BY <1>1, Invariance, PTL

(* The newest profile is that of the request answered last, unless it overlapped with another one or  *)
(* had been stored before (profile_embedding_service.py:39).                                          *)
THEOREM CurrentProfileHolds == Spec => []CurrentProfile
<1>1. Init => Later /\ Origin /\ RowKinds
  BY DEF Init, Later, Running, Origin, RowKinds
<1>2. IInv /\ CurrentInv /\ [Next]_vars => CurrentInv'
  BY LaterStep, OriginStep, KindsStep DEF CurrentInv
<1>3. Init => CurrentInv
  BY <1>1 DEF CurrentInv
<1>4. IInv /\ CurrentInv => CurrentProfile
  BY CurrentByOrigin DEF CurrentInv
<1> QED BY <1>2, <1>3, <1>4, Invariance, PTL DEF Spec
-----------------------------------------------------------------------------
(***************************************************************************)
(* ContextBest.  A finite set of chunks has a most similar one: that is    *)
(* what DISTINCT ON keeps of a document, and what the LIMIT leaves out is  *)
(* no better than what it lets through.                                    *)
(***************************************************************************)

LEMMA MostSimilar ==
  ASSUME NEW S, IsFiniteSet(S), S # {}, \A c \in S : c.score \in Nat
  PROVE  \E c \in S : \A e \in S : e.score <= c.score
<1> DEFINE Above(c) == {e \in S : e.score > c.score}
           T == {Above(c) : c \in S}
<1>1. T \subseteq FiniteSubsetsOf(S) /\ T # {}
  <2>1. FiniteSubsetsOf(S) = SUBSET S
    BY FS_FiniteSubsetsOfFinite
  <2>2. \A c \in S : Above(c) \in SUBSET S
    OBVIOUS
  <2>3. PICK c \in S : TRUE
    OBVIOUS
  <2>4. T \subseteq SUBSET S /\ Above(c) \in T
    <3> HIDE DEF Above
    <3> QED BY <2>2
  <2> QED BY <2>1, <2>4
<1>2. PICK A \in T : \A B \in T : ~(<<B, A>> \in StrictSubsetOrdering(S))
  <2> HIDE DEF T
  <2> QED BY <1>1, FS_StrictSubsetOrderingWellFounded, WFMin
<1>3. PICK c \in S : A = Above(c)
  OBVIOUS
<1>4. ASSUME NEW e \in S, e.score > c.score PROVE FALSE
  <2>1. Above(e) \in T /\ Above(e) \subseteq A /\ e \in A /\ e \notin Above(e)
    BY <1>3, <1>4
  <2>2. <<Above(e), A>> \in StrictSubsetOrdering(S)
    BY <2>1, <1>3 DEF StrictSubsetOrdering
  <2> QED BY <1>2, <2>1, <2>2
<1> QED BY <1>4

(* A row that a query leaves out is no better than those it returns, or another row of its document is there. *)
LEMMA FoundBest ==
  ASSUME NEW S, IsFiniteSet(S), \A c \in S : c.score \in Nat, NEW F \in Found(S)
  PROVE  /\ F \subseteq S /\ \A c, d \in F : c.doc = d.doc => c.score = d.score
         /\ \A c \in F, e \in S : e.score > c.score => \E d \in F : d.doc = e.doc /\ d.score >= e.score
<1>1. F \subseteq BestPerDocument(S) /\ \A c \in F, e \in BestPerDocument(S) \ F : c.score >= e.score
  BY DEF Found, kSubset
<1>2. F \subseteq S /\ \A c, d \in F : c.doc = d.doc => c.score <= d.score /\ d.score <= c.score
  BY <1>1 DEF BestPerDocument
<1>3. ASSUME NEW c \in F, NEW e \in S, e.score > c.score PROVE \E d \in F : d.doc = e.doc /\ d.score >= e.score
  <2> DEFINE Same == {d \in S : d.doc = e.doc}
  <2>1. PICK d \in Same : \A x \in Same : x.score <= d.score
    <3>1. IsFiniteSet(Same) /\ e \in Same /\ \A x \in Same : x.score \in Nat
      BY FS_Subset
    <3> HIDE DEF Same
    <3> QED BY <3>1, MostSimilar
  <2>2. d \in BestPerDocument(S) /\ d.doc = e.doc /\ d.score >= e.score
    BY <2>1 DEF BestPerDocument
  <2>3. d \in F
    BY <1>1, <1>2, <1>3, <2>1, <2>2
  <2> QED BY <2>2, <2>3
<1> QED BY <1>2, <1>3

(* ContextBest for one set of chunks. *)
BestOf(rows, corpus) ==
  \A c \in rows :
      /\ c \in corpus /\ Eligible(c)
      /\ \A d \in rows : d.doc = c.doc => d = c
      /\ \A e \in corpus :
            e.source = c.source /\ Eligible(e) /\ e.score > c.score =>
                \E d \in rows : d.doc = e.doc /\ d.score >= e.score

LEMMA RagContextBest ==
  ASSUME NEW s \in Setting, NEW rows \in RagContext(s.corpus, User, Own)
  PROVE  BestOf(rows, s.corpus)
<1>1. PICK corpus : corpus = s.corpus
  OBVIOUS
<1>2. /\ corpus \subseteq Chunk /\ IsFiniteSet(corpus)
      /\ \A c, d \in corpus : c.doc = d.doc => c.user = d.user /\ c.source = d.source
  BY <1>1, CorpusAssumption DEF SettingType
<1>3. CASE rows = {}
  BY <1>3 DEF BestOf
<1>4. CASE rows # {}
  <2>1. PICK X, Y, Z : /\ X = MyBlogRows(corpus, User, Own)
                       /\ Y = SourceRows(corpus, "ext_blog") /\ Z = SourceRows(corpus, "job_posting")
    OBVIOUS
  <2>2. PICK my \in Found(X), ext \in Found(Y), job \in Found(Z) : rows = my \cup ext \cup job
    BY <1>1, <1>4, <2>1 DEF RagContext
  <2>3. /\ X = {c \in corpus : c.source = "my_blog" /\ Eligible(c)}
        /\ Y = {c \in corpus : c.source = "ext_blog" /\ Eligible(c)}
        /\ Z = {c \in corpus : c.source = "job_posting" /\ Eligible(c)}
    BY <2>1 DEF MyBlogRows, SourceRows, Eligible
  <2>4. /\ \A c \in corpus : c.score \in Nat /\ c.source \in {"my_blog", "ext_blog", "job_posting"}
        /\ \A c, d \in corpus : c.doc = d.doc /\ c.user = d.user /\ c.source = d.source /\ c.score = d.score => c = d
    BY <1>2 DEF Chunk
  <2>5. /\ IsFiniteSet(X) /\ \A c \in X : c.score \in Nat
        /\ IsFiniteSet(Y) /\ \A c \in Y : c.score \in Nat
        /\ IsFiniteSet(Z) /\ \A c \in Z : c.score \in Nat
    BY <1>2, <2>3, <2>4, FS_Subset
  <2>6. /\ my \subseteq X /\ \A c, d \in my : c.doc = d.doc => c.score = d.score
        /\ \A c \in my, e \in X : e.score > c.score => \E d \in my : d.doc = e.doc /\ d.score >= e.score
    BY <2>5, FoundBest
  <2>7. /\ ext \subseteq Y /\ \A c, d \in ext : c.doc = d.doc => c.score = d.score
        /\ \A c \in ext, e \in Y : e.score > c.score => \E d \in ext : d.doc = e.doc /\ d.score >= e.score
    BY <2>5, FoundBest
  <2>8. /\ job \subseteq Z /\ \A c, d \in job : c.doc = d.doc => c.score = d.score
        /\ \A c \in job, e \in Z : e.score > c.score => \E d \in job : d.doc = e.doc /\ d.score >= e.score
    BY <2>5, FoundBest
  <2>9. ASSUME NEW c \in rows PROVE c \in corpus /\ Eligible(c)
    BY <2>2, <2>3, <2>6, <2>7, <2>8
  <2>10. ASSUME NEW c \in rows, NEW d \in rows, d.doc = c.doc PROVE d = c
    <3>1. c \in corpus /\ d \in corpus /\ c.user = d.user /\ c.source = d.source
      BY <1>2, <2>9, <2>10
    <3>2. c.score = d.score
      BY <2>2, <2>3, <2>6, <2>7, <2>8, <2>10, <3>1
    <3> QED BY <2>4, <2>10, <3>1, <3>2
  <2>11. ASSUME NEW c \in rows, NEW e \in corpus, e.source = c.source, Eligible(e), e.score > c.score
         PROVE  \E d \in rows : d.doc = e.doc /\ d.score >= e.score
    <3>1. CASE c \in my
      BY <2>2, <2>3, <2>6, <2>11, <3>1
    <3>2. CASE c \in ext
      BY <2>2, <2>3, <2>7, <2>11, <3>2
    <3>3. CASE c \in job
      BY <2>2, <2>3, <2>8, <2>11, <3>3
    <3> QED BY <2>2, <3>1, <3>2, <3>3
  <2> QED BY <1>1, <2>9, <2>10, <2>11 DEF BestOf
<1> QED BY <1>3, <1>4

Prompts == setting \in Setting /\ \A r \in Request : context[r] = {} \/ context[r] \in RagContext(setting.corpus, User, Own)

LEMMA PromptsStep == TypeOK /\ Prompts /\ [Next]_vars => Prompts'
<1> SUFFICES ASSUME TypeOK, Prompts, [Next]_vars PROVE Prompts'
  OBVIOUS
<1> USE DEF readVars
<1>1. CASE UNCHANGED vars \/ Ingest
  BY <1>1 DEF Prompts, vars, Ingest
<1>2. ASSUME NEW r \in Request, Retrieve(r) PROVE Prompts'
  <2>1. /\ context \in [Request -> SUBSET setting.corpus] /\ setting' = setting
        /\ \/ \E rows \in RagContext(setting.corpus, User, Own) : context' = [context EXCEPT ![r] = rows]
           \/ context' = context
    BY <1>2 DEF Retrieve, TypeOK
  <2> QED BY <2>1 DEF Prompts
<1>3. ASSUME NEW r \in Request, Arrive(r) \/ Refuse(r) \/ RaiseDb(r) \/ (Serve(r) /\ ~Retrieve(r)) PROVE Prompts'
  <2>1. UNCHANGED <<setting, context>>
    BY <1>3 DEF Arrive, Refuse, RaiseDb, Serve, Begin, PoolTimeout, SelectDocument, SelectLatest, SelectProfile, Probe,
                Acquire, Canned, ChatReturns, EmbedReturns, Write, Commit, Rollback
  <2> QED BY <2>1 DEF Prompts
<1> QED BY <1>1, <1>2, <1>3 DEF Next

(* The prompt of an analysis holds the best of each source, whatever the corpus, the size of the LIMIT *)
(* and the requests beside it (context_retrieval_repository.py:65).                                    *)
THEOREM ContextsAreBest == Spec => []ContextBest
<1>1. Init => Prompts
  BY DEF Init, Prompts
<1>2. Prompts => ContextBest
  <2> SUFFICES ASSUME Prompts, NEW r \in Request PROVE BestOf(context[r], setting.corpus)
    BY DEF ContextBest, BestOf
  <2>1. CASE context[r] = {}
    BY <2>1 DEF BestOf
  <2>2. CASE context[r] \in RagContext(setting.corpus, User, Own)
    BY <2>2, RagContextBest DEF Prompts
  <2> QED BY <2>1, <2>2 DEF Prompts
<1> QED BY <1>1, <1>2, PromptsStep, TypeCorrect, PTL DEF Spec
=============================================================================
