---------------------------- MODULE Conversation ----------------------------
(***************************************************************************)
(* One chat session of app/service/conversation_service.py: requests of    *)
(* any server instance read the limits from Redis, call the LLM, append    *)
(* the question and the reply to the list chat:session:{id} and add what   *)
(* was consumed to the counter chat:tokens:{id}.  One step is one Redis    *)
(* command or one stage that touches no shared state; between two steps    *)
(* the other requests of the session run, and a step may end the request   *)
(* with an error.  The rate limit at the entrance is module RateLimiter.   *)
(***************************************************************************)
EXTENDS Naturals, Sequences, FiniteSets

CONSTANTS
    Chat,          \* the requests that may be in progress at a time
    MaxTokens,     \* max_conversation_tokens
    MaxTurns,      \* max_turns_per_session
    MaxUse,        \* most tokens one request consumes: question, reply and retrieved context
    MaxRequests,   \* bound: requests that reach the session
    MaxResets,     \* bound: resets of the session
    MaxFaults      \* bound: requests ended by an error after the reply of the LLM

ASSUME ConstantsAssumption ==
    /\ IsFiniteSet(Chat)
    /\ MaxTokens \in Nat \ {0} /\ MaxTurns \in Nat \ {0} /\ MaxUse \in Nat \ {0}
    /\ {MaxRequests, MaxResets, MaxFaults} \subseteq Nat

VARIABLES
    pc,          \* pc[c]: the next step of request c
    question,    \* question[c]: tokens of its message
    context,     \* context[c]: tokens of the context retrieved for it
    history,     \* the list chat:session: who said it, in which request, begun after how many resets
    historyTtl,  \* whether the list has a TTL
    tokens,      \* the counter chat:tokens (0: no key)
    tokensTtl,   \* whether the counter has a TTL
    newest,      \* the key whose TTL was renewed last
    lapsed,      \* history variable: the lines the list held when the counter last expired in the middle of the
                 \* writes of a request
    epoch,       \* epoch[c]: resets before c began
    requests, resets, faults   \* how much of each bound is used

sessionVars == <<history, historyTtl, tokens, tokensTtl, newest, lapsed>>
vars == <<pc, question, context, sessionVars, epoch, requests, resets, faults>>

Role == {"user", "assistant"}
Line == [role: Role, chat: Chat, epoch: Nat]

Steps == {"idle", "usage", "turns", "prompt", "llm", "ask", "askTtl", "reply", "replyTtl", "count", "countTtl"}

(* Steps from which a request is still going to add to the counter; to append two lines; to append one. *)
WillCount == Steps \ {"idle", "usage", "countTtl"}
WillAsk == {"prompt", "llm", "ask"}
WillReply == {"askTtl", "reply"}

(* Steps of a request that has one line, or two, in the history and has not been charged for them; of one *)
(* that is still writing.                                                                               *)
OwesOne == {"askTtl", "reply"}
OwesTwo == {"replyTtl", "count"}
Storing == OwesOne \cup OwesTwo \cup {"countTtl"}

TypeOK ==
    /\ pc \in [Chat -> Steps]
    /\ question \in [Chat -> 1 .. MaxUse]
    /\ context \in [Chat -> 0 .. MaxUse]
    /\ history \in Seq(Line)
    /\ historyTtl \in BOOLEAN /\ tokensTtl \in BOOLEAN
    /\ tokens \in Nat
    /\ newest \in {"history", "tokens"}
    /\ lapsed \in Nat
    /\ epoch \in [Chat -> Nat]
    /\ requests \in Nat /\ resets \in Nat /\ faults \in Nat

Init ==
    /\ pc = [c \in Chat |-> "idle"]
    /\ question = [c \in Chat |-> 1]
    /\ context = [c \in Chat |-> 0]
    /\ history = <<>> /\ historyTtl = FALSE
    /\ tokens = 0 /\ tokensTtl = FALSE
    /\ newest = "history" /\ lapsed = 0
    /\ epoch = [c \in Chat |-> 0]
    /\ requests = 0 /\ resets = 0 /\ faults = 0

-----------------------------------------------------------------------------
GoTo(c, step) == pc' = [pc EXCEPT ![c] = step]

(* A request that the rate limiter let through and whose document belongs to the user. *)
Begin(c) ==
    /\ pc[c] = "idle"
    /\ requests < MaxRequests
    /\ requests' = requests + 1
    /\ \E n \in 1 .. MaxUse : question' = [question EXCEPT ![c] = n]
    /\ epoch' = [epoch EXCEPT ![c] = resets]
    /\ GoTo(c, "usage")
    /\ UNCHANGED <<context, sessionVars, resets, faults>>

(* Mutant: a request that reaches the limit exactly is let through. *)
TooManyTokensLax(c) == tokens + question[c] > MaxTokens

(* The usage read and the message at hand reach the limit. *)
TooManyTokens(c) == tokens + question[c] >= MaxTokens

(* GET chat:tokens, and the token limit. *)
CheckTokens(c) ==
    /\ pc[c] = "usage"
    /\ GoTo(c, IF TooManyTokens(c) THEN "idle" ELSE "turns")
    /\ UNCHANGED <<question, context, sessionVars, epoch, requests, resets, faults>>

TooManyTurns == Len(history) >= MaxTurns * 2

(* LRANGE chat:session, and the turn limit. *)
CheckTurns(c) ==
    /\ pc[c] = "turns"
    /\ GoTo(c, IF TooManyTurns THEN "idle" ELSE "prompt")
    /\ UNCHANGED <<question, context, sessionVars, epoch, requests, resets, faults>>

(* _build_system_prompt, of the document, its latest analysis and what the message retrieves: nothing *)
(* if the retrieval finds nothing or fails.  A document deleted meanwhile ends the request.            *)
BuildPrompt(c) ==
    /\ pc[c] = "prompt"
    /\ \/ /\ \E n \in 0 .. MaxUse - question[c] : context' = [context EXCEPT ![c] = n]
          /\ GoTo(c, "llm")
       \/ GoTo(c, "idle") /\ UNCHANGED context
    /\ UNCHANGED <<question, sessionVars, epoch, requests, resets, faults>>

(* The LLM replies, or the request ends with an error. *)
CallLlm(c) ==
    /\ pc[c] = "llm"
    /\ GoTo(c, "ask") \/ GoTo(c, "idle")
    /\ UNCHANGED <<question, context, sessionVars, epoch, requests, resets, faults>>

Push(c, role) == history' = Append(history, [role |-> role, chat |-> c, epoch |-> epoch[c]])

(* append_message: RPUSH ... *)
PushQuestion(c) ==
    /\ pc[c] = "ask"
    /\ Push(c, "user")
    /\ GoTo(c, "askTtl")
    /\ UNCHANGED <<question, context, historyTtl, tokens, tokensTtl, newest, lapsed, epoch, requests, resets, faults>>

PushReply(c) ==
    /\ pc[c] = "reply"
    /\ Push(c, "assistant")
    /\ GoTo(c, "replyTtl")
    /\ UNCHANGED <<question, context, historyTtl, tokens, tokensTtl, newest, lapsed, epoch, requests, resets, faults>>

(* Mutant: only the first message of a request renews the TTL. *)
RenewHistoryOnce(c) ==
    /\ \/ pc[c] = "askTtl" /\ GoTo(c, "reply") /\ historyTtl' = (history # <<>>)
       \/ pc[c] = "replyTtl" /\ GoTo(c, "count") /\ UNCHANGED historyTtl
    /\ newest' = "history"
    /\ UNCHANGED <<question, context, history, tokens, tokensTtl, lapsed, epoch, requests, resets, faults>>

(* ... and EXPIRE, which does nothing if the list is gone. *)
RenewHistory(c) ==
    /\ \/ pc[c] = "askTtl" /\ GoTo(c, "reply")
       \/ pc[c] = "replyTtl" /\ GoTo(c, "count")
    /\ historyTtl' = (history # <<>>)
    /\ newest' = "history"
    /\ UNCHANGED <<question, context, history, tokens, tokensTtl, lapsed, epoch, requests, resets, faults>>

(* add_token_usage: INCRBY of the question, the reply and the retrieved context ... *)
CountTokens(c) ==
    /\ pc[c] = "count"
    /\ \E used \in question[c] + context[c] .. MaxUse : tokens' = tokens + used
    /\ GoTo(c, "countTtl")
    /\ UNCHANGED <<question, context, history, historyTtl, tokensTtl, newest, lapsed, epoch, requests, resets, faults>>

(* Mutant: only a new counter is given a TTL. *)
RenewTokensOnce(c) ==
    /\ pc[c] = "countTtl"
    /\ tokensTtl' = (tokens # 0)
    /\ newest' = IF tokensTtl THEN newest ELSE "tokens"
    /\ GoTo(c, "idle")
    /\ UNCHANGED <<question, context, history, historyTtl, tokens, lapsed, epoch, requests, resets, faults>>

(* ... and EXPIRE; the response is sent. *)
RenewTokens(c) ==
    /\ pc[c] = "countTtl"
    /\ tokensTtl' = (tokens # 0)
    /\ newest' = "tokens"
    /\ GoTo(c, "idle")
    /\ UNCHANGED <<question, context, history, historyTtl, tokens, lapsed, epoch, requests, resets, faults>>

(* A Redis error, or the end of the process, while the reply is being stored; before that an error *)
(* leaves no trace in the session (CallLlm, or a request that never began).                         *)
Fail(c) ==
    /\ pc[c] \in {"ask", "askTtl", "reply", "replyTtl", "count", "countTtl"}
    /\ faults < MaxFaults
    /\ faults' = faults + 1
    /\ GoTo(c, "idle")
    /\ UNCHANGED <<question, context, sessionVars, epoch, requests, resets>>

(* Mutant: a reset that deletes the counter alone. *)
ResetTokensOnly ==
    /\ resets < MaxResets
    /\ resets' = resets + 1
    /\ tokens' = 0 /\ tokensTtl' = FALSE
    /\ UNCHANGED <<pc, question, context, history, historyTtl, newest, lapsed, epoch, requests, faults>>

(* DELETE /v1/conversations/{session_id}: DEL of both keys. *)
Reset ==
    /\ resets < MaxResets
    /\ resets' = resets + 1
    /\ history' = <<>> /\ historyTtl' = FALSE
    /\ tokens' = 0 /\ tokensTtl' = FALSE
    /\ lapsed' = 0
    /\ UNCHANGED <<pc, question, context, newest, epoch, requests, faults>>

(* The TTL of a key runs out, between requests or in the middle of one: of the two keys that of the key *)
(* renewed first.  How long a request takes is not bounded.                                             *)
ExpireHistory ==
    /\ historyTtl
    /\ tokensTtl => newest = "tokens"
    /\ history' = <<>> /\ historyTtl' = FALSE
    /\ lapsed' = 0
    /\ UNCHANGED <<pc, question, context, resets, tokens, tokensTtl, newest, epoch, requests, faults>>

ExpireTokens ==
    /\ tokensTtl
    /\ historyTtl => newest = "history"
    /\ tokens' = 0 /\ tokensTtl' = FALSE
    /\ lapsed' = IF \E c \in Chat : pc[c] \in Storing THEN Len(history) ELSE lapsed
    /\ UNCHANGED <<pc, question, context, resets, history, historyTtl, newest, epoch, requests, faults>>

Next ==
    \/ \E c \in Chat :
         \/ Begin(c) \/ CheckTokens(c) \/ CheckTurns(c) \/ BuildPrompt(c) \/ CallLlm(c)
         \/ PushQuestion(c) \/ PushReply(c) \/ RenewHistory(c) \/ CountTokens(c) \/ RenewTokens(c)
         \/ Fail(c)
    \/ Reset \/ ExpireHistory \/ ExpireTokens

Spec == Init /\ [][Next]_vars

-----------------------------------------------------------------------------
(* Properties *)

(* Racing requests overrun the token limit by what they consume themselves and no more: a request   *)
(* that reads a usage at the limit is turned away, whatever the others are about to add.            *)
TokenOverrun ==
    tokens > 0 => tokens + 2 <= MaxTokens + MaxUse * Cardinality(Chat)

(* They overrun the turn limit by their own two messages each. *)
TurnOverrun ==
    Len(history) + 1 <= 2 * MaxTurns + 2 * Cardinality(Chat)

(* However the requests of a session race, with resets and expiries, it overruns the limits that     *)
(* chat checks before the LLM call by the share of those requests only.                              *)
LimitOverrun == TokenOverrun /\ TurnOverrun

Quiet == \A c \in Chat : pc[c] = "idle"

(* Between requests, and unless one ended half-way, every turn in the history has been charged, but    *)
(* for those that were there when the counter expired between the RPUSH of a request, which renews the *)
(* list first, and its last EXPIRE: that is the only moment at which the counter goes before the list, *)
(* and what comes after it is charged again.  No reset, no race, no expiry between two requests or     *)
(* during an LLM call leaves a history that the token limit does not know of.                          *)
HistoryCharged == Quiet /\ faults = 0 => Len(history) <= 2 * tokens + lapsed

(* Between requests, and unless one ended half-way, what is stored will expire. *)
SessionExpires ==
    Quiet /\ faults = 0 => (history # <<>> => historyTtl) /\ (tokens > 0 => tokensTtl)

(* A reset forgets all but what requests under way at that moment have yet to store: each of them    *)
(* brings at most its own two messages into the session that was reset (DELETE of CONTRACT.md 1.5).  *)
ResetLeftover ==
    Cardinality({i \in DOMAIN history : history[i].epoch < resets}) <= 2 * Cardinality(Chat)
=============================================================================
