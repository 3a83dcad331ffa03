------------------------- MODULE ConversationProofs -------------------------
(***************************************************************************)
(* Proofs about Conversation, for any number of requests, resets and       *)
(* errors: how far racing requests can overrun the limits of a session,    *)
(* that its history is charged and expires, and what a reset leaves.       *)
(***************************************************************************)
EXTENDS Conversation, FiniteSetTheorems, TLAPS

(* How many requests are at a step of S, when f gives the step of each. *)
Count(f, S) == Cardinality({c \in Chat : f[c] \in S})

USE ConstantsAssumption

LEMMA CountType ==
    ASSUME NEW f, NEW S
    PROVE  /\ Count(f, S) \in Nat
           /\ Count(f, S) <= Cardinality(Chat)
           /\ Cardinality(Chat) \in Nat
  BY FS_Subset, FS_CardinalityType DEF Count

(* Two sets of steps with nothing in common hold no request twice. *)
LEMMA CountDisjoint ==
    ASSUME NEW f, NEW S, NEW T, S \cap T = {}
    PROVE  Count(f, S) + Count(f, T) <= Cardinality(Chat)
<1> DEFINE A == {c \in Chat : f[c] \in S}
<1> DEFINE B == {c \in Chat : f[c] \in T}
<1>1. IsFiniteSet(A) /\ IsFiniteSet(B) /\ A \cap B = {} /\ A \cup B \subseteq Chat
  BY FS_Subset
<1>2. Cardinality(A \cup B) = Cardinality(A) + Cardinality(B) - Cardinality(A \cap B)
  BY <1>1, FS_Union
<1>3. Cardinality(A \cap B) = 0
  BY <1>1, FS_EmptySet
<1>4. Cardinality(A \cup B) <= Cardinality(Chat)
  BY <1>1, FS_Subset
<1>5. Cardinality(A) \in Nat /\ Cardinality(B) \in Nat
  BY <1>1, FS_CardinalityType
<1>6. QED
  BY <1>2, <1>3, <1>4, <1>5 DEF Count

(* One request going to a step changes a count by at most one. *)
LEMMA CountStep ==
    ASSUME NEW f \in [Chat -> Steps], NEW c \in Chat, NEW step \in Steps, NEW S,
           NEW g, g[c] = step, \A d \in Chat \ {c} : g[d] = f[d]
    PROVE  Count(g, S) =
             Count(f, S) + (IF step \in S THEN 1 ELSE 0) - (IF f[c] \in S THEN 1 ELSE 0)
<1> DEFINE A == {d \in Chat : f[d] \in S}
<1> DEFINE B == {d \in Chat : g[d] \in S}
<1>0. IsFiniteSet(A) /\ Cardinality(A) \in Nat
  BY FS_Subset, FS_CardinalityType
<1>1. CASE step \in S /\ f[c] \notin S
  <2>1. B = A \cup {c} /\ c \notin A
    BY <1>1
  <2>2. Cardinality(A \cup {c}) = Cardinality(A) + 1
    BY <1>0, <2>1, FS_AddElement
  <2>3. Count(g, S) = Cardinality(A \cup {c})
    BY <2>1 DEF Count
  <2>4. Count(f, S) = Cardinality(A)
    BY DEF Count
  <2> HIDE DEF A, B
  <2>5. QED
    BY <1>0, <1>1, <2>2, <2>3, <2>4
<1>2. CASE step \notin S /\ f[c] \in S
  <2>1. B = A \ {c} /\ c \in A
    BY <1>2
  <2>2. Cardinality(A \ {c}) = Cardinality(A) - 1
    BY <1>0, <2>1, FS_RemoveElement
  <2>3. Count(g, S) = Cardinality(A \ {c})
    BY <2>1 DEF Count
  <2>4. Count(f, S) = Cardinality(A)
    BY DEF Count
  <2> HIDE DEF A, B
  <2>5. QED
    BY <1>0, <1>2, <2>2, <2>3, <2>4
<1>3. CASE step \in S <=> f[c] \in S
  <2>1. B = A
    BY <1>3
  <2>2. Count(g, S) = Cardinality(A)
    BY <2>1 DEF Count
  <2>3. Count(f, S) = Cardinality(A)
    BY DEF Count
  <2> HIDE DEF A, B
  <2>4. QED
    BY <1>0, <1>3, <2>2, <2>3
<1>4. QED
  BY <1>1, <1>2, <1>3
-----------------------------------------------------------------------------
(* Types *)

LEMMA EmptyHistory == <<>> \in Seq(Line)
  OBVIOUS

LEMMA TypeInit == Init => TypeOK
<1> SUFFICES ASSUME Init PROVE TypeOK
  OBVIOUS
<1> USE DEF Init
<1>1. pc \in [Chat -> Steps] /\ epoch \in [Chat -> Nat]
  BY DEF Steps
<1>2. question \in [Chat -> 1 .. MaxUse]
  <2>1. 1 \in 1 .. MaxUse
    OBVIOUS
  <2>2. QED
    BY <2>1
<1>3. history \in Seq(Line) /\ context \in [Chat -> 0 .. MaxUse]
  BY EmptyHistory
<1>4. QED
  BY <1>1, <1>2, <1>3 DEF TypeOK

LEMMA TypeStep == TypeOK /\ [Next]_vars => TypeOK'
<1> SUFFICES ASSUME TypeOK, [Next]_vars PROVE TypeOK'
  OBVIOUS
<1> USE DEF TypeOK, GoTo, Steps
<1>1. ASSUME NEW c \in Chat, Begin(c) PROVE TypeOK'
  BY <1>1 DEF Begin, sessionVars
<1>2. ASSUME NEW c \in Chat, CheckTokens(c) PROVE TypeOK'
  BY <1>2 DEF CheckTokens, sessionVars
<1>3. ASSUME NEW c \in Chat, CheckTurns(c) PROVE TypeOK'
  BY <1>3 DEF CheckTurns, sessionVars
<1>4. ASSUME NEW c \in Chat, BuildPrompt(c) \/ CallLlm(c) PROVE TypeOK'
  <2>1. CASE BuildPrompt(c)
    <3>1. question[c] \in Nat /\ MaxUse \in Nat
      OBVIOUS
    <3>2. context' \in [Chat -> 0 .. MaxUse]
      BY <2>1, <3>1, SMTT(30) DEF BuildPrompt
    <3> QED BY <2>1, <3>2 DEF BuildPrompt, sessionVars
  <2>2. CASE CallLlm(c)
    BY <2>2 DEF CallLlm, sessionVars
  <2> QED BY <1>4, <2>1, <2>2
<1>5. ASSUME NEW c \in Chat, NEW role \in Role, Push(c, role) PROVE history' \in Seq(Line)
  <2>1. [role |-> role, chat |-> c, epoch |-> epoch[c]] \in Line
    BY DEF Line
  <2>2. QED
    BY <1>5, <2>1 DEF Push
<1>6. ASSUME NEW c \in Chat, PushQuestion(c) \/ PushReply(c) PROVE TypeOK'
  <2>1. history' \in Seq(Line)
    BY <1>5, <1>6 DEF PushQuestion, PushReply, Role
  <2>2. QED
    BY <1>6, <2>1 DEF PushQuestion, PushReply
<1>7. ASSUME NEW c \in Chat, RenewHistory(c) PROVE TypeOK'
  BY <1>7 DEF RenewHistory
<1>8. ASSUME NEW c \in Chat, CountTokens(c) PROVE TypeOK'
  BY <1>8 DEF CountTokens
<1>9. ASSUME NEW c \in Chat, RenewTokens(c) PROVE TypeOK'
  BY <1>9 DEF RenewTokens
<1>10. ASSUME NEW c \in Chat, Fail(c) PROVE TypeOK'
  BY <1>10 DEF Fail, sessionVars
<1>11. ASSUME Reset \/ ExpireHistory \/ ExpireTokens PROVE TypeOK'
  <2>1. history' \in Seq(Line)
    BY <1>11, EmptyHistory DEF Reset, ExpireHistory, ExpireTokens
  <2>2. CASE Reset
    <3>1. resets' \in Nat /\ tokens' \in Nat /\ lapsed' \in Nat
      BY <2>2 DEF Reset
    <3>2. historyTtl' \in BOOLEAN /\ tokensTtl' \in BOOLEAN
      BY <2>2 DEF Reset
    <3>3. QED
      BY <2>1, <2>2, <3>1, <3>2 DEF Reset
  <2>3. CASE ExpireHistory
    BY <2>1, <2>3 DEF ExpireHistory
  <2>4. CASE ExpireTokens
    <3>1. lapsed' \in Nat
      BY <2>4 DEF ExpireTokens
    <3> QED BY <2>1, <2>4, <3>1 DEF ExpireTokens
  <2>5. QED
    BY <1>11, <2>2, <2>3, <2>4
<1>12. CASE UNCHANGED vars
  BY <1>12 DEF vars, sessionVars
<1>13. QED
  BY <1>1, <1>2, <1>3, <1>4, <1>6, <1>7, <1>8, <1>9, <1>10, <1>11, <1>12 DEF Next

(* Every variable of a session keeps its type: what add_token_usage and append_message store. *)
THEOREM TypeCorrect == Spec => []TypeOK
  BY TypeInit, TypeStep, PTL DEF Spec

(* The step a request takes changes the counts by that request alone. *)
LEMMA GoToCounts ==
    ASSUME TypeOK, NEW c \in Chat, NEW step \in Steps, GoTo(c, step), NEW S
    PROVE  Count(pc', S) =
             Count(pc, S) + (IF step \in S THEN 1 ELSE 0) - (IF pc[c] \in S THEN 1 ELSE 0)
<1>1. pc \in [Chat -> Steps]
  BY DEF TypeOK
<1>2. pc'[c] = step /\ \A d \in Chat \ {c} : pc'[d] = pc[d]
  BY <1>1 DEF GoTo
<1>3. QED
  BY <1>1, <1>2, CountStep
-----------------------------------------------------------------------------
(* The token limit *)

LEMMA CountNone ==
    ASSUME NEW f, NEW S, \A c \in Chat : f[c] \notin S
    PROVE  Count(f, S) = 0
<1>1. {c \in Chat : f[c] \in S} = {}
  OBVIOUS
<1>2. QED
  BY <1>1, FS_EmptySet DEF Count

LEMMA Scaled ==
    ASSUME NEW k \in Nat, NEW a \in Nat, NEW b \in Nat, a <= b
    PROVE  k * a \in Nat /\ k * b \in Nat /\ k * a <= k * b /\ k * (a + 1) = k * a + k
  OBVIOUS

LEMMA RoomType == MaxTokens + MaxUse * Cardinality(Chat) \in Nat
  BY CountType, Scaled

(* The invariant for a counter of t tokens and n requests that may still add to it. *)
Below(t, n) ==
    IF MaxTokens >= 2
      THEN t + 2 + MaxUse * n <= MaxTokens + MaxUse * Cardinality(Chat)
      ELSE t = 0 /\ n = 0

LEMMA BelowSmaller ==
    ASSUME NEW t \in Nat, NEW n \in Nat, NEW s \in Nat, NEW k \in Nat,
           Below(t, n), s <= t, k <= n
    PROVE  Below(s, k)
<1>1. CASE MaxTokens >= 2
  <2> DEFINE x == MaxUse * n
  <2> DEFINE y == MaxUse * k
  <2> DEFINE z == MaxTokens + MaxUse * Cardinality(Chat)
  <2>1. x \in Nat /\ y \in Nat /\ y <= x
    BY Scaled
  <2>2. z \in Nat
    BY RoomType
  <2>3. t + 2 + x <= z
    BY <1>1 DEF Below
  <2> HIDE DEF x, y, z
  <2>4. s + 2 + y <= z
    BY <2>1, <2>2, <2>3
  <2>5. QED
    BY <1>1, <2>4 DEF Below, y, z
<1>2. CASE ~(MaxTokens >= 2)
  BY <1>2 DEF Below
<1>3. QED
  BY <1>1, <1>2

(* An admitted request: it read a usage below the limit, and is one of at most all the requests. *)
LEMMA BelowAdmitted ==
    ASSUME NEW t \in Nat, NEW n \in Nat, NEW q \in Nat \ {0},
           t + q < MaxTokens, n <= Cardinality(Chat)
    PROVE  Below(t, n)
<1> DEFINE x == MaxUse * n
<1> DEFINE y == MaxUse * Cardinality(Chat)
<1>1. x \in Nat /\ y \in Nat /\ x <= y
  BY CountType, Scaled
<1>2. MaxTokens >= 2 /\ t + 2 <= MaxTokens /\ MaxTokens \in Nat
  OBVIOUS
<1> HIDE DEF x, y
<1>3. t + 2 + x <= MaxTokens + y
  BY <1>1, <1>2
<1>4. QED
  BY <1>2, <1>3 DEF Below, x, y

(* A request that adds what it used is one less to come. *)
LEMMA BelowCharged ==
    ASSUME NEW t \in Nat, NEW n \in Nat, NEW k \in Nat, NEW used \in 1 .. MaxUse,
           Below(t, n), n = k + 1
    PROVE  Below(t + used, k)
<1>1. CASE MaxTokens >= 2
  <2> DEFINE x == MaxUse * n
  <2> DEFINE y == MaxUse * k
  <2> DEFINE z == MaxTokens + MaxUse * Cardinality(Chat)
  <2>1. x \in Nat /\ y \in Nat /\ z \in Nat /\ x = y + MaxUse
    BY CountType, Scaled
  <2>2. t + 2 + x <= z
    BY <1>1 DEF Below
  <2> HIDE DEF x, y, z
  <2>3. t + used + 2 + y <= z
    BY <2>1, <2>2
  <2>4. QED
    BY <1>1, <2>3 DEF Below, y, z
<1>2. CASE ~(MaxTokens >= 2)
  BY <1>2 DEF Below
<1>3. QED
  BY <1>1, <1>2

(* What the limit promises of a counter. *)
LEMMA BelowLimit ==
    ASSUME NEW t \in Nat, NEW n \in Nat, Below(t, n), t > 0
    PROVE  t + 2 <= MaxTokens + MaxUse * Cardinality(Chat)
<1> DEFINE x == MaxUse * n
<1> DEFINE z == MaxTokens + MaxUse * Cardinality(Chat)
<1>1. x \in Nat /\ z \in Nat
  BY CountType, Scaled
<1>2. t + 2 + x <= z
  BY DEF Below
<1> HIDE DEF x, z
<1>3. t + 2 <= z
  BY <1>1, <1>2
<1>4. QED
  BY <1>3 DEF z

TokenInv == TypeOK /\ Below(tokens, Count(pc, WillCount))

LEMMA TokenInit == Init => TokenInv
<1> SUFFICES ASSUME Init PROVE TokenInv
  OBVIOUS
<1>1. Count(pc, WillCount) = 0
  BY CountNone DEF Init, WillCount, Steps
<1>2. tokens = 0
  BY DEF Init
<1>3. Below(0, 0)
  <2> DEFINE z == MaxUse * Cardinality(Chat)
  <2>1. z \in Nat /\ MaxUse * 0 = 0
    BY CountType, Scaled
  <2>2. MaxTokens >= 2 => 2 <= MaxTokens + z
    <3> HIDE DEF z
    <3>1. QED
      BY <2>1
  <2>3. QED
    BY <2>1, <2>2 DEF Below
<1>4. QED
  BY <1>1, <1>2, <1>3, TypeInit DEF TokenInv

LEMMA TokenStep == TokenInv /\ [Next]_vars => TokenInv'
<1> SUFFICES ASSUME TokenInv, [Next]_vars PROVE TokenInv'
  OBVIOUS
<1> DEFINE n == Count(pc, WillCount)
<1> DEFINE m == Count(pc', WillCount)
<1>1. TypeOK /\ Below(tokens, n)
  BY DEF TokenInv
<1>2. tokens \in Nat /\ n \in Nat /\ m \in Nat /\ m <= Cardinality(Chat)
  BY <1>1, CountType DEF TypeOK
<1>3. ASSUME NEW c \in Chat, NEW step \in Steps, GoTo(c, step)
      PROVE  m = n + (IF step \in WillCount THEN 1 ELSE 0) - (IF pc[c] \in WillCount THEN 1 ELSE 0)
  BY <1>1, <1>3, GoToCounts
<1> HIDE DEF n, m
<1>4. ASSUME NEW c \in Chat, NEW step \in Steps, GoTo(c, step), step \in WillCount => pc[c] \in WillCount
      PROVE  m <= n
  <2>1. m = n + (IF step \in WillCount THEN 1 ELSE 0) - (IF pc[c] \in WillCount THEN 1 ELSE 0)
    BY <1>3, <1>4
  <2>2. CASE step \in WillCount
    BY <1>2, <1>4, <2>1, <2>2
  <2>3. CASE step \notin WillCount
    BY <1>2, <2>1, <2>3
  <2>4. QED
    BY <2>2, <2>3
<1>5. ASSUME tokens' \in Nat, tokens' <= tokens, m <= n PROVE Below(tokens', m)
  BY <1>1, <1>2, <1>5, BelowSmaller
<1>6. ASSUME NEW c \in Chat, Begin(c) \/ CheckTurns(c) \/ BuildPrompt(c) \/ CallLlm(c) \/ PushQuestion(c)
                               \/ PushReply(c) \/ RenewHistory(c) \/ RenewTokens(c) \/ Fail(c)
      PROVE  Below(tokens', m)
  <2>1. PICK step \in Steps : GoTo(c, step) /\ (step \in WillCount => pc[c] \in WillCount)
    BY <1>6 DEF Begin, CheckTurns, BuildPrompt, CallLlm, PushQuestion, PushReply, RenewHistory,
                RenewTokens, Fail, WillCount, Steps
  <2>2. tokens' = tokens
    BY <1>6 DEF Begin, CheckTurns, BuildPrompt, CallLlm, PushQuestion, PushReply, RenewHistory,
                RenewTokens, Fail, sessionVars
  <2>3. QED
    BY <1>2, <1>4, <1>5, <2>1, <2>2
<1>7. ASSUME NEW c \in Chat, CheckTokens(c) PROVE Below(tokens', m)
  <2>1. tokens' = tokens
    BY <1>7 DEF CheckTokens, sessionVars
  <2>2. CASE TooManyTokens(c)
    <3>1. GoTo(c, "idle")
      BY <1>7, <2>2 DEF CheckTokens
    <3>2. m <= n
      BY <1>4, <3>1 DEF WillCount, Steps
    <3>3. QED
      BY <1>2, <1>5, <2>1, <3>2
  <2>3. CASE ~TooManyTokens(c)
    <3>1. question[c] \in Nat \ {0}
      BY <1>1 DEF TypeOK
    <3>2. tokens + question[c] < MaxTokens
      BY <1>2, <2>3, <3>1 DEF TooManyTokens
    <3>3. QED
      BY <1>2, <2>1, <3>1, <3>2, BelowAdmitted
  <2>4. QED
    BY <2>2, <2>3
<1>8. ASSUME NEW c \in Chat, CountTokens(c) PROVE Below(tokens', m)
  <2>1. pc[c] \in WillCount /\ GoTo(c, "countTtl") /\ "countTtl" \notin WillCount /\ "countTtl" \in Steps
    BY <1>8 DEF CountTokens, WillCount, Steps
  <2>2. m = n + 0 - 1
    BY <1>3, <2>1
  <2>3. question[c] \in 1 .. MaxUse /\ context[c] \in 0 .. MaxUse
    BY <1>1 DEF TypeOK
  <2>4. PICK used \in question[c] + context[c] .. MaxUse : tokens' = tokens + used
    BY <1>8 DEF CountTokens
  <2>5. used \in 1 .. MaxUse
    BY <2>3, <2>4
  <2>6. n = m + 1
    BY <1>2, <2>2
  <2>7. QED
    BY <1>1, <1>2, <2>4, <2>5, <2>6, BelowCharged
<1>9. ASSUME UNCHANGED pc PROVE m = n
  BY <1>9 DEF n, m
<1>10. ASSUME Reset \/ ExpireHistory \/ ExpireTokens \/ UNCHANGED vars PROVE Below(tokens', m)
  <2>1. UNCHANGED pc /\ (tokens' = 0 \/ tokens' = tokens)
    BY <1>10 DEF Reset, ExpireHistory, ExpireTokens, vars, sessionVars
  <2>2. QED
    BY <1>2, <1>5, <1>9, <2>1
<1>11. Below(tokens', m)
  BY <1>6, <1>7, <1>8, <1>10 DEF Next
<1>12. TypeOK'
  BY <1>1, TypeStep
<1>13. Count(pc, WillCount)' = m
  BY DEF m, Count, WillCount, Steps
<1>14. QED
  BY <1>11, <1>12, <1>13 DEF TokenInv, Below

(* Racing requests overrun max_conversation_tokens by what they consume themselves and no more, for  *)
(* any limit, any number of requests and any resets, expiries and errors (the check of               *)
(* conversation_service.chat against INCRBY at its end).                                             *)
THEOREM TokensBounded == Spec => []TokenOverrun
<1>1. TokenInv => TokenOverrun
  <2> SUFFICES ASSUME TokenInv, tokens > 0
               PROVE  tokens + 2 <= MaxTokens + MaxUse * Cardinality(Chat)
    BY DEF TokenOverrun
  <2>1. tokens \in Nat /\ Count(pc, WillCount) \in Nat /\ Below(tokens, Count(pc, WillCount))
    BY CountType DEF TokenInv, TypeOK
  <2>2. QED
    BY <2>1, BelowLimit
<1>2. QED
  BY <1>1, TokenInit, TokenStep, PTL DEF Spec
-----------------------------------------------------------------------------
(* The turn limit *)

(* The list and the lines the requests under way may still append: two before the question is       *)
(* appended, one after.                                                                             *)
TurnInv ==
    /\ TypeOK
    /\ Len(history) + 1 + 2 * Count(pc, WillAsk) + Count(pc, WillReply)
         <= 2 * MaxTurns + 2 * Cardinality(Chat)

LEMMA LenType == TypeOK => Len(history) \in Nat
  BY DEF TypeOK

LEMMA TurnInit == Init => TurnInv
<1> SUFFICES ASSUME Init PROVE TurnInv
  OBVIOUS
<1>1. Count(pc, WillAsk) = 0 /\ Count(pc, WillReply) = 0
  BY CountNone DEF Init, WillAsk, WillReply
<1>2. Len(history) = 0
  BY DEF Init
<1>3. 1 <= 2 * MaxTurns + 2 * Cardinality(Chat)
  BY CountType
<1>4. QED
  BY <1>1, <1>2, <1>3, TypeInit DEF TurnInv

LEMMA TurnStep == TurnInv /\ [Next]_vars => TurnInv'
<1> SUFFICES ASSUME TurnInv, [Next]_vars PROVE TurnInv'
  OBVIOUS
<1> DEFINE a == Count(pc, WillAsk)
<1> DEFINE b == Count(pc, WillReply)
<1> DEFINE x == Count(pc', WillAsk)
<1> DEFINE y == Count(pc', WillReply)
<1> DEFINE h == Len(history)
<1> DEFINE k == Len(history')
<1> DEFINE n == Cardinality(Chat)
<1>1. TypeOK /\ h + 1 + 2 * a + b <= 2 * MaxTurns + 2 * n
  BY DEF TurnInv
<1>2. a \in Nat /\ b \in Nat /\ x \in Nat /\ y \in Nat /\ n \in Nat
  BY CountType
<1>3. x + y <= n
  BY CountDisjoint DEF WillAsk, WillReply
<1>4. TypeOK' /\ h \in Nat /\ k \in Nat
  <2>1. TypeOK'
    BY <1>1, TypeStep
  <2>2. h \in Nat
    BY <1>1, LenType
  <2>3. history' \in Seq(Line)
    BY <2>1 DEF TypeOK, Line, Role
  <2>4. QED
    BY <2>1, <2>2, <2>3
<1>5. ASSUME NEW c \in Chat, NEW step \in Steps, GoTo(c, step)
      PROVE  /\ x = a + (IF step \in WillAsk THEN 1 ELSE 0) - (IF pc[c] \in WillAsk THEN 1 ELSE 0)
             /\ y = b + (IF step \in WillReply THEN 1 ELSE 0) - (IF pc[c] \in WillReply THEN 1 ELSE 0)
  BY <1>1, <1>5, GoToCounts
<1>6. Count(pc, WillAsk)' = x /\ Count(pc, WillReply)' = y
  BY DEF Count, WillAsk, WillReply
<1>7. UNCHANGED pc => x = a /\ y = b
  OBVIOUS
<1>8. UNCHANGED history => k = h
  OBVIOUS
<1> HIDE DEF a, b, x, y, h, k, n
<1>9. ASSUME k <= h, x <= a, y <= b PROVE k + 1 + 2 * x + y <= 2 * MaxTurns + 2 * n
  BY <1>1, <1>2, <1>4, <1>9
<1>10. ASSUME NEW c \in Chat, Begin(c) \/ CheckTokens(c) \/ BuildPrompt(c) \/ CallLlm(c) \/ RenewHistory(c)
                                \/ CountTokens(c) \/ RenewTokens(c) \/ Fail(c)
       PROVE  k + 1 + 2 * x + y <= 2 * MaxTurns + 2 * n
  <2>1. PICK step \in Steps : /\ GoTo(c, step)
                              /\ step \in WillAsk => pc[c] \in WillAsk
                              /\ step \in WillReply => pc[c] \in WillReply
    BY <1>10 DEF Begin, CheckTokens, BuildPrompt, CallLlm, RenewHistory, CountTokens, RenewTokens, Fail,
                 WillAsk, WillReply, Steps
  <2>2. k = h
    BY <1>8, <1>10 DEF Begin, CheckTokens, BuildPrompt, CallLlm, RenewHistory, CountTokens, RenewTokens,
                       Fail, sessionVars
  <2>3. x <= a
    <3>1. x = a + (IF step \in WillAsk THEN 1 ELSE 0) - (IF pc[c] \in WillAsk THEN 1 ELSE 0)
      BY <1>5, <2>1
    <3>2. CASE step \in WillAsk
      BY <1>2, <2>1, <3>1, <3>2
    <3>3. CASE step \notin WillAsk
      BY <1>2, <3>1, <3>3
    <3>4. QED
      BY <3>2, <3>3
  <2>4. y <= b
    <3>1. y = b + (IF step \in WillReply THEN 1 ELSE 0) - (IF pc[c] \in WillReply THEN 1 ELSE 0)
      BY <1>5, <2>1
    <3>2. CASE step \in WillReply
      BY <1>2, <2>1, <3>1, <3>2
    <3>3. CASE step \notin WillReply
      BY <1>2, <3>1, <3>3
    <3>4. QED
      BY <3>2, <3>3
  <2>5. QED
    BY <1>4, <1>9, <2>2, <2>3, <2>4
<1>11. ASSUME NEW c \in Chat, CheckTurns(c) PROVE k + 1 + 2 * x + y <= 2 * MaxTurns + 2 * n
  <2>1. k = h
    BY <1>8, <1>11 DEF CheckTurns, sessionVars
  <2>2. CASE TooManyTurns
    <3>1. GoTo(c, "idle") /\ "idle" \in Steps /\ "idle" \notin WillAsk /\ "idle" \notin WillReply
      BY <1>11, <2>2 DEF CheckTurns, Steps, WillAsk, WillReply
    <3>2. pc[c] \notin WillAsk /\ pc[c] \notin WillReply
      BY <1>11 DEF CheckTurns, WillAsk, WillReply
    <3>3. x = a + 0 - 0 /\ y = b + 0 - 0
      BY <1>5, <3>1, <3>2
    <3>4. QED
      BY <1>2, <1>4, <1>9, <2>1, <3>3
  <2>3. CASE ~TooManyTurns
    <3>1. h < MaxTurns * 2
      BY <1>4, <2>3 DEF TooManyTurns, h
    <3>2. QED
      BY <1>2, <1>3, <1>4, <2>1, <3>1
  <2>4. QED
    BY <2>2, <2>3
<1>12. ASSUME NEW c \in Chat, NEW role \in Role, Push(c, role) PROVE k = h + 1
  <2>1. history' = Append(history, [role |-> role, chat |-> c, epoch |-> epoch[c]])
    BY <1>12 DEF Push
  <2>2. history \in Seq(Line)
    BY <1>1 DEF TypeOK
  <2>3. [role |-> role, chat |-> c, epoch |-> epoch[c]] \in Line
    BY <1>1 DEF TypeOK, Line
  <2>4. QED
    BY <2>1, <2>2, <2>3 DEF h, k
<1>13. ASSUME NEW c \in Chat, PushQuestion(c) PROVE k + 1 + 2 * x + y <= 2 * MaxTurns + 2 * n
  <2>1. k = h + 1
    BY <1>12, <1>13 DEF PushQuestion, Role
  <2>2. /\ GoTo(c, "askTtl") /\ "askTtl" \in Steps /\ "askTtl" \notin WillAsk /\ "askTtl" \in WillReply
        /\ pc[c] \in WillAsk /\ pc[c] \notin WillReply
    BY <1>13 DEF PushQuestion, WillAsk, WillReply, Steps
  <2>3. x = a + 0 - 1 /\ y = b + 1 - 0
    BY <1>5, <2>2
  <2>4. QED
    BY <1>1, <1>2, <1>4, <2>1, <2>3
<1>14. ASSUME NEW c \in Chat, PushReply(c) PROVE k + 1 + 2 * x + y <= 2 * MaxTurns + 2 * n
  <2>1. k = h + 1
    BY <1>12, <1>14 DEF PushReply, Role
  <2>2. /\ GoTo(c, "replyTtl") /\ "replyTtl" \in Steps /\ "replyTtl" \notin WillAsk /\ "replyTtl" \notin WillReply
        /\ pc[c] \notin WillAsk /\ pc[c] \in WillReply
    BY <1>14 DEF PushReply, WillAsk, WillReply, Steps
  <2>3. x = a + 0 - 0 /\ y = b + 0 - 1
    BY <1>5, <2>2
  <2>4. QED
    BY <1>1, <1>2, <1>4, <2>1, <2>3
<1>15. ASSUME Reset \/ ExpireHistory \/ ExpireTokens \/ UNCHANGED vars
       PROVE  k + 1 + 2 * x + y <= 2 * MaxTurns + 2 * n
  <2>1. UNCHANGED pc /\ (history' = <<>> \/ history' = history)
    BY <1>15 DEF Reset, ExpireHistory, ExpireTokens, vars, sessionVars
  <2>2. k = 0 \/ k = h
    BY <2>1 DEF k, h
  <2>3. QED
    BY <1>2, <1>4, <1>7, <1>9, <2>1, <2>2
<1>16. k + 1 + 2 * x + y <= 2 * MaxTurns + 2 * n
  BY <1>10, <1>11, <1>13, <1>14, <1>15 DEF Next
<1>17. QED
  BY <1>4, <1>6, <1>16 DEF TurnInv, k, n

(* Racing requests overrun max_turns_per_session by their own two messages each, for any limit, any  *)
(* number of requests and any resets, expiries and errors.                                           *)
THEOREM TurnsBounded == Spec => []TurnOverrun
<1>1. TurnInv => TurnOverrun
  <2> SUFFICES ASSUME TurnInv PROVE TurnOverrun
    OBVIOUS
  <2>1. Count(pc, WillAsk) \in Nat /\ Count(pc, WillReply) \in Nat /\ Len(history) \in Nat
    BY CountType, LenType DEF TurnInv
  <2>2. QED
    BY <2>1, CountType DEF TurnInv, TurnOverrun
<1>2. QED
  BY <1>1, TurnInit, TurnStep, PTL DEF Spec

(* Both limits of a session, which chat checks before the LLM call and which its racing requests    *)
(* overrun by their own share only (conversation_service.py:80-88, :110-117).                        *)
THEOREM LimitsBounded == Spec => []LimitOverrun
BY TokensBounded, TurnsBounded, PTL DEF LimitOverrun
-----------------------------------------------------------------------------
(* Expiry *)

(* Without an error, a key without a TTL is one whose EXPIRE is still to come. *)
ExpiryInv ==
    /\ TypeOK
    /\ faults = 0 =>
         /\ history # <<>> /\ ~historyTtl => \E c \in Chat : pc[c] \in {"askTtl", "replyTtl"}
         /\ tokens > 0 /\ ~tokensTtl => \E c \in Chat : pc[c] = "countTtl"

LEMMA ExpiryInit == Init => ExpiryInv
  BY TypeInit DEF Init, ExpiryInv

LEMMA ExpiryStep == ExpiryInv /\ [Next]_vars => ExpiryInv'
<1> SUFFICES ASSUME ExpiryInv, [Next]_vars PROVE ExpiryInv'
  OBVIOUS
<1> DEFINE Goal == /\ history' # <<>> /\ ~historyTtl' => \E c \in Chat : pc'[c] \in {"askTtl", "replyTtl"}
                   /\ tokens' > 0 /\ ~tokensTtl' => \E c \in Chat : pc'[c] = "countTtl"
<1>1. TypeOK /\ TypeOK'
  BY TypeStep DEF ExpiryInv
<1>t. pc \in [Chat -> Steps] /\ faults \in Nat /\ tokens \in Nat
  BY <1>1 DEF TypeOK
<1> SUFFICES ASSUME faults' = 0 PROVE Goal
  BY <1>1 DEF ExpiryInv
<1>2. faults = 0
  BY <1>t DEF Next, Begin, CheckTokens, CheckTurns, BuildPrompt, CallLlm, PushQuestion, PushReply, RenewHistory,
         CountTokens, RenewTokens, Fail, Reset, ExpireHistory, ExpireTokens, vars
<1>3. /\ history # <<>> /\ ~historyTtl => \E c \in Chat : pc[c] \in {"askTtl", "replyTtl"}
      /\ tokens > 0 /\ ~tokensTtl => \E c \in Chat : pc[c] = "countTtl"
  BY <1>2 DEF ExpiryInv
<1>4. ASSUME NEW c \in Chat, NEW step, GoTo(c, step)
      PROVE  pc'[c] = step /\ \A d \in Chat \ {c} : pc'[d] = pc[d]
  BY <1>t, <1>4 DEF GoTo
<1>5. ASSUME NEW c \in Chat, Begin(c) \/ CheckTokens(c) \/ CheckTurns(c) \/ BuildPrompt(c) \/ CallLlm(c) PROVE Goal
  <2>1. /\ pc[c] \notin {"askTtl", "replyTtl", "countTtl"}
        /\ \E step : GoTo(c, step)
        /\ UNCHANGED sessionVars
    BY <1>5 DEF Begin, CheckTokens, CheckTurns, BuildPrompt, CallLlm
  <2> QED BY <1>3, <1>4, <2>1 DEF sessionVars
<1>6. ASSUME NEW c \in Chat, PushQuestion(c) \/ PushReply(c) PROVE Goal
  <2>1. /\ pc[c] # "countTtl"
        /\ GoTo(c, "askTtl") \/ GoTo(c, "replyTtl")
        /\ UNCHANGED <<tokens, tokensTtl>>
    BY <1>6 DEF PushQuestion, PushReply
  <2> QED BY <1>3, <1>4, <2>1
<1>7. ASSUME NEW c \in Chat, RenewHistory(c) PROVE Goal
  <2>1. /\ pc[c] # "countTtl"
        /\ \E step : GoTo(c, step)
        /\ historyTtl' = (history # <<>>)
        /\ UNCHANGED <<history, tokens, tokensTtl>>
    BY <1>7 DEF RenewHistory
  <2> QED BY <1>3, <1>4, <2>1
<1>8. ASSUME NEW c \in Chat, CountTokens(c) PROVE Goal
  <2>1. pc[c] = "count" /\ GoTo(c, "countTtl") /\ UNCHANGED <<history, historyTtl>>
    BY <1>8 DEF CountTokens
  <2> QED BY <1>3, <1>4, <2>1
<1>9. ASSUME NEW c \in Chat, RenewTokens(c) PROVE Goal
  <2>1. pc[c] = "countTtl" /\ GoTo(c, "idle") /\ tokensTtl' = (tokens # 0) /\ UNCHANGED <<history, historyTtl, tokens>>
    BY <1>9 DEF RenewTokens
  <2>2. tokens' > 0 => tokensTtl'
    <3>1. tokens' > 0 => tokens # 0
      BY <1>t, <2>1
    <3> QED BY <2>1, <3>1, Zenon
  <2>3. /\ history' # <<>> /\ ~historyTtl' => history # <<>> /\ ~historyTtl
        /\ \A d \in Chat : pc[d] \in {"askTtl", "replyTtl"} => pc'[d] = pc[d]
    BY <1>4, <2>1
  <2> QED BY <1>3, <2>2, <2>3
<1>10. ASSUME NEW c \in Chat, Fail(c) PROVE Goal
  BY <1>t, <1>10 DEF Fail
<1>11. CASE Reset \/ ExpireHistory \/ ExpireTokens \/ UNCHANGED vars
  <2>1. /\ pc' = pc
        /\ history' = <<>> \/ UNCHANGED <<history, historyTtl>>
        /\ tokens' = 0 \/ UNCHANGED <<tokens, tokensTtl>>
    BY <1>11 DEF Reset, ExpireHistory, ExpireTokens, vars, sessionVars
  <2> QED BY <1>3, <2>1
<1> QED BY <1>5, <1>6, <1>7, <1>8, <1>9, <1>10, <1>11 DEF Next

(* What append_message and add_token_usage store expires: between requests, if no error came between *)
(* RPUSH or INCRBY and its EXPIRE, each key that exists has a TTL, for any number of requests.       *)
THEOREM SessionsExpire == Spec => []SessionExpires
<1>1. ExpiryInv => SessionExpires
  BY DEF ExpiryInv, SessionExpires, Quiet
<1>2. QED
  BY <1>1, ExpiryInit, ExpiryStep, PTL DEF Spec
-----------------------------------------------------------------------------
(* What the token limit knows of *)

(* Without an error, lines that are not charged are those of requests still to count them or were in   *)
(* the list when the counter lapsed, and while no request is storing anything the counter is the key   *)
(* that expires last.                                                                                  *)
ChargeInv ==
    /\ ExpiryInv
    /\ faults = 0 =>
         /\ history # <<>> /\ newest = "history" => \E c \in Chat : pc[c] \in Storing
         /\ Len(history) <= 2 * tokens + Count(pc, OwesOne) + 2 * Count(pc, OwesTwo) + lapsed

LEMMA NothingOwed ==
    \A s \in Nat, x \in Nat, y \in Nat, z \in Nat : /\ z <= 2 * s + x + 2 * y + z
                                                    /\ 0 <= 2 * s + x + 2 * y + z
  OBVIOUS

LEMMA Charged ==
    ASSUME NEW h \in Nat, NEW s \in Nat, NEW t \in Nat, NEW a \in Nat, NEW b \in Nat, NEW x \in Nat, NEW y \in Nat,
           NEW z \in Nat, h <= 2 * s + a + 2 * b + z, t >= s + 1, x = a, y = b - 1
    PROVE  h <= 2 * t + x + 2 * y + z
  OBVIOUS

LEMMA ChargeInit == Init => ChargeInv
<1> SUFFICES ASSUME Init PROVE ChargeInv
  OBVIOUS
<1>1. Count(pc, OwesOne) = 0 /\ Count(pc, OwesTwo) = 0
  BY CountNone DEF Init, OwesOne, OwesTwo
<1>2. history = <<>> /\ tokens = 0 /\ lapsed = 0 /\ Len(history) = 0
  BY DEF Init
<1> QED BY <1>1, <1>2, ExpiryInit DEF ChargeInv

LEMMA ChargeStep == ChargeInv /\ [Next]_vars => ChargeInv'
<1> SUFFICES ASSUME ChargeInv, [Next]_vars PROVE ChargeInv'
  OBVIOUS
<1> DEFINE a == Count(pc, OwesOne)
<1> DEFINE b == Count(pc, OwesTwo)
<1> DEFINE x == Count(pc', OwesOne)
<1> DEFINE y == Count(pc', OwesTwo)
<1> DEFINE h == Len(history)
<1> DEFINE k == Len(history')
<1> DEFINE Goal == /\ history' # <<>> /\ newest' = "history" => \E c \in Chat : pc'[c] \in Storing
                   /\ k <= 2 * tokens' + x + 2 * y + lapsed'
<1>1. TypeOK /\ TypeOK' /\ ExpiryInv /\ ExpiryInv'
  BY TypeStep, ExpiryStep DEF ChargeInv, ExpiryInv
<1>t. /\ pc \in [Chat -> Steps] /\ faults \in Nat /\ tokens \in Nat /\ tokens' \in Nat /\ lapsed \in Nat /\ lapsed' \in Nat
      /\ a \in Nat /\ b \in Nat /\ x \in Nat /\ y \in Nat /\ h \in Nat /\ k \in Nat
  <2>1. pc \in [Chat -> Steps] /\ faults \in Nat /\ tokens \in Nat /\ tokens' \in Nat /\ lapsed \in Nat /\ lapsed' \in Nat
    BY <1>1 DEF TypeOK
  <2>2. a \in Nat /\ b \in Nat /\ x \in Nat /\ y \in Nat
    BY CountType
  <2>3. history \in Seq(Line) /\ history' \in Seq(Line)
    BY <1>1 DEF TypeOK, Line, Role
  <2>4. h \in Nat /\ k \in Nat
    BY <2>3
  <2> QED BY <2>1, <2>2, <2>4
<1>u. Count(pc, OwesOne)' = x /\ Count(pc, OwesTwo)' = y
  BY DEF Count, OwesOne, OwesTwo
<1> SUFFICES ASSUME faults' = 0 PROVE Goal
  BY <1>1, <1>u DEF ChargeInv
<1>2. faults = 0
  BY <1>t DEF Next, Begin, CheckTokens, CheckTurns, BuildPrompt, CallLlm, PushQuestion, PushReply, RenewHistory,
         CountTokens, RenewTokens, Fail, Reset, ExpireHistory, ExpireTokens, vars
<1>3. /\ history # <<>> /\ newest = "history" => \E c \in Chat : pc[c] \in Storing
      /\ h <= 2 * tokens + a + 2 * b + lapsed
  BY <1>2 DEF ChargeInv
<1>4. ASSUME NEW c \in Chat, NEW step \in Steps, GoTo(c, step)
      PROVE  /\ pc'[c] = step /\ \A d \in Chat \ {c} : pc'[d] = pc[d]
             /\ x = a + (IF step \in OwesOne THEN 1 ELSE 0) - (IF pc[c] \in OwesOne THEN 1 ELSE 0)
             /\ y = b + (IF step \in OwesTwo THEN 1 ELSE 0) - (IF pc[c] \in OwesTwo THEN 1 ELSE 0)
  <2>1. pc'[c] = step /\ \A d \in Chat \ {c} : pc'[d] = pc[d]
    BY <1>t, <1>4 DEF GoTo
  <2> QED BY <1>1, <1>4, <2>1, GoToCounts
<1>5. /\ UNCHANGED pc => x = a /\ y = b
      /\ UNCHANGED history => k = h
      /\ history' = <<>> => k = 0
  OBVIOUS
<1> HIDE DEF a, b, x, y, h, k
<1>6. ASSUME NEW c \in Chat, Begin(c) \/ CheckTokens(c) \/ CheckTurns(c) \/ BuildPrompt(c) \/ CallLlm(c) PROVE Goal
  <2>1. PICK step \in Steps : GoTo(c, step) /\ step \notin Storing
    BY <1>6 DEF Begin, CheckTokens, CheckTurns, BuildPrompt, CallLlm, Steps, Storing, OwesOne, OwesTwo
  <2>2. pc[c] \notin Storing /\ UNCHANGED sessionVars
    BY <1>6 DEF Begin, CheckTokens, CheckTurns, BuildPrompt, CallLlm, Storing, OwesOne, OwesTwo
  <2>3. x = a /\ y = b
    BY <1>4, <1>t, <2>1, <2>2 DEF Storing
  <2>4. history' # <<>> /\ newest' = "history" => \E d \in Chat : pc'[d] \in Storing
    BY <1>3, <1>4, <2>1, <2>2 DEF sessionVars
  <2> QED BY <1>3, <1>5, <2>2, <2>3, <2>4 DEF sessionVars
<1>7. ASSUME NEW c \in Chat, NEW role \in Role, Push(c, role) PROVE k = h + 1
  <2>1. history' = Append(history, [role |-> role, chat |-> c, epoch |-> epoch[c]])
    BY <1>7 DEF Push
  <2>2. history \in Seq(Line)
    BY <1>1 DEF TypeOK
  <2>3. [role |-> role, chat |-> c, epoch |-> epoch[c]] \in Line
    BY <1>1 DEF TypeOK, Line
  <2>4. QED
    BY <2>1, <2>2, <2>3 DEF h, k
<1>8. ASSUME NEW c \in Chat, PushQuestion(c) PROVE Goal
  <2>1. k = h + 1 /\ tokens' = tokens /\ lapsed' = lapsed
    BY <1>7, <1>8 DEF PushQuestion, Role
  <2>2. GoTo(c, "askTtl") /\ pc[c] = "ask" /\ "askTtl" \in Steps
    BY <1>8 DEF PushQuestion, Steps
  <2>3. x = a + 1 - 0 /\ y = b + 0 - 0 /\ pc'[c] \in Storing
    BY <1>4, <2>2 DEF OwesOne, OwesTwo, Storing
  <2>4. k <= 2 * tokens' + x + 2 * y + lapsed'
    <3>1. x = a + 1 /\ y = b
      BY <1>t, <2>3
    <3> QED BY <1>3, <1>t, <2>1, <3>1
  <2> QED BY <2>3, <2>4
<1>9. ASSUME NEW c \in Chat, PushReply(c) PROVE Goal
  <2>1. k = h + 1 /\ tokens' = tokens /\ lapsed' = lapsed
    BY <1>7, <1>9 DEF PushReply, Role
  <2>2. GoTo(c, "replyTtl") /\ pc[c] = "reply" /\ "replyTtl" \in Steps
    BY <1>9 DEF PushReply, Steps
  <2>3. x = a + 0 - 1 /\ y = b + 1 - 0 /\ pc'[c] \in Storing
    BY <1>4, <2>2 DEF OwesOne, OwesTwo, Storing
  <2> QED BY <1>3, <1>t, <2>1, <2>3
<1>10. ASSUME NEW c \in Chat, RenewHistory(c) PROVE Goal
  <2>1. k = h /\ tokens' = tokens /\ lapsed' = lapsed
    BY <1>5, <1>10 DEF RenewHistory
  <2>2. \/ GoTo(c, "reply") /\ pc[c] = "askTtl"
        \/ GoTo(c, "count") /\ pc[c] = "replyTtl"
    BY <1>10 DEF RenewHistory
  <2>3. CASE GoTo(c, "reply") /\ pc[c] = "askTtl"
    <3>1. x = a + 1 - 1 /\ y = b + 0 - 0 /\ pc'[c] \in Storing
      BY <1>4, <2>3 DEF OwesOne, OwesTwo, Storing, Steps
    <3> QED BY <1>3, <1>t, <2>1, <3>1
  <2>4. CASE GoTo(c, "count") /\ pc[c] = "replyTtl"
    <3>1. x = a + 0 - 0 /\ y = b + 1 - 1 /\ pc'[c] \in Storing
      BY <1>4, <2>4 DEF OwesOne, OwesTwo, Storing, Steps
    <3> QED BY <1>3, <1>t, <2>1, <3>1
  <2> QED BY <2>2, <2>3, <2>4
<1>11. ASSUME NEW c \in Chat, CountTokens(c) PROVE Goal
  <2>1. question[c] \in 1 .. MaxUse /\ context[c] \in 0 .. MaxUse
    BY <1>1 DEF TypeOK
  <2>2. PICK used \in question[c] + context[c] .. MaxUse : tokens' = tokens + used
    BY <1>11 DEF CountTokens
  <2>3. used \in Nat /\ used >= 1
    BY <2>1, <2>2
  <2>4. k = h /\ lapsed' = lapsed
    BY <1>5, <1>11 DEF CountTokens
  <2>5. GoTo(c, "countTtl") /\ pc[c] = "count" /\ "countTtl" \in Steps
    BY <1>11 DEF CountTokens, Steps
  <2>6. x = a + 0 - 0 /\ y = b + 0 - 1 /\ pc'[c] \in Storing
    BY <1>4, <2>5 DEF OwesOne, OwesTwo, Storing
  <2>7. k <= 2 * tokens' + x + 2 * y + lapsed'
    <3>1. x = a /\ y = b - 1
      BY <1>t, <2>6
    <3>2. tokens' >= tokens + 1
      BY <1>t, <2>2, <2>3
    <3> QED BY <1>3, <1>t, <2>4, <3>1, <3>2, Charged
  <2> QED BY <2>6, <2>7
<1>12. ASSUME NEW c \in Chat, RenewTokens(c) PROVE Goal
  <2>1. k = h /\ tokens' = tokens /\ lapsed' = lapsed /\ newest' = "tokens"
    BY <1>5, <1>12 DEF RenewTokens
  <2>2. GoTo(c, "idle") /\ pc[c] = "countTtl" /\ "idle" \in Steps
    BY <1>12 DEF RenewTokens, Steps
  <2>3. x = a + 0 - 0 /\ y = b + 0 - 0
    BY <1>4, <2>2 DEF OwesOne, OwesTwo
  <2> QED BY <1>3, <1>t, <2>1, <2>3
<1>13. ASSUME NEW c \in Chat, Fail(c) PROVE Goal
  BY <1>t, <1>13 DEF Fail
<1>14. CASE Reset \/ ExpireHistory
  <2>1. history' = <<>>
    BY <1>14 DEF Reset, ExpireHistory
  <2>2. k = 0
    BY <1>5, <2>1
  <2>3. k <= 2 * tokens' + x + 2 * y + lapsed'
    BY <1>t, <2>2, NothingOwed
  <2> QED BY <2>1, <2>3
<1>15. CASE ExpireTokens
  <2>1. (historyTtl => newest = "history") /\ UNCHANGED <<pc, history, newest>> /\ tokensTtl
    BY <1>15 DEF ExpireTokens
  <2>2. x = a /\ y = b /\ k = h
    BY <1>5, <2>1
  <2>3. CASE \E c \in Chat : pc[c] \in Storing
    <3>1. lapsed' = k
      BY <1>15, <2>2, <2>3 DEF ExpireTokens, h
    <3>2. k <= 2 * tokens' + x + 2 * y + lapsed'
      BY <1>t, <3>1, NothingOwed
    <3> QED BY <2>1, <2>3, <3>2
  <2>4. CASE ~\E c \in Chat : pc[c] \in Storing
    <3>1. ~historyTtl => history = <<>>
      BY <1>1, <1>2, <2>4 DEF ExpiryInv, Storing, OwesOne, OwesTwo
    <3>2. history = <<>>
      BY <1>3, <2>1, <2>4, <3>1
    <3>3. k = 0
      BY <1>5, <2>1, <3>2
    <3>4. k <= 2 * tokens' + x + 2 * y + lapsed'
      BY <1>t, <3>3, NothingOwed
    <3> QED BY <2>1, <3>2, <3>4
  <2> QED BY <2>3, <2>4
<1>16. CASE UNCHANGED vars
  <2>1. UNCHANGED <<pc, history, tokens, newest, lapsed>>
    BY <1>16 DEF vars, sessionVars
  <2> QED BY <1>3, <1>5, <2>1
<1> QED BY <1>6, <1>8, <1>9, <1>10, <1>11, <1>12, <1>13, <1>14, <1>15, <1>16 DEF Next

(* Between requests, if none ended half-way, every turn in the history has been charged, except those   *)
(* in the list when the counter expired in the middle of the writes of a request (append_message renews *)
(* the list before add_token_usage renews the counter): at no other moment does the counter go first,   *)
(* for any number of requests, resets and expiries.                                                     *)
THEOREM HistoryIsCharged == Spec => []HistoryCharged
<1>1. ChargeInv => HistoryCharged
  <2> SUFFICES ASSUME ChargeInv, Quiet, faults = 0 PROVE Len(history) <= 2 * tokens + lapsed
    BY DEF HistoryCharged
  <2>1. Count(pc, OwesOne) = 0 /\ Count(pc, OwesTwo) = 0
    BY CountNone DEF Quiet, OwesOne, OwesTwo
  <2>2. Len(history) <= 2 * tokens + Count(pc, OwesOne) + 2 * Count(pc, OwesTwo) + lapsed
    BY DEF ChargeInv
  <2>3. tokens \in Nat /\ lapsed \in Nat /\ Len(history) \in Nat
    BY LenType DEF ChargeInv, ExpiryInv, TypeOK
  <2> QED BY <2>1, <2>2, <2>3
<1>2. QED
  BY <1>1, ChargeInit, ChargeStep, PTL DEF Spec
-----------------------------------------------------------------------------
(* What a reset leaves behind *)

(* The lines of requests that began before the last reset. *)
Leftover == {i \in DOMAIN history : history[i].epoch < resets}

(* The steps of those requests; of the others nothing is left behind. *)
OldPc == [c \in Chat |-> IF epoch[c] < resets THEN pc[c] ELSE "idle"]

WillAskYet == {"usage", "turns"} \cup WillAsk

(* The lines left behind, and those that requests from before the reset may still append. *)
ResetInv ==
    /\ TypeOK
    /\ Cardinality(Leftover) + 2 * Count(OldPc, WillAskYet) + Count(OldPc, WillReply) <= 2 * Cardinality(Chat)

LEMMA LeftoverFinite ==
    ASSUME TypeOK PROVE IsFiniteSet(Leftover) /\ Cardinality(Leftover) \in Nat
<1>1. DOMAIN history = 1 .. Len(history) /\ Len(history) \in Nat
  BY DEF TypeOK
<1>2. IsFiniteSet(DOMAIN history)
  BY <1>1, FS_Interval
<1> QED BY <1>2, FS_Subset, FS_CardinalityType DEF Leftover

LEMMA LeftoverAppend ==
    ASSUME TypeOK, NEW c \in Chat, NEW role \in Role, Push(c, role), resets' = resets
    PROVE  Cardinality(Leftover') = Cardinality(Leftover) + (IF epoch[c] < resets THEN 1 ELSE 0)
<1> DEFINE l == [role |-> role, chat |-> c, epoch |-> epoch[c]]
<1> DEFINE k == Len(history) + 1
<1>1. history \in Seq(Line) /\ l \in Line /\ history' = Append(history, l)
  BY DEF TypeOK, Line, Push
<1>2. /\ DOMAIN history' = DOMAIN history \cup {k} /\ k \notin DOMAIN history
      /\ history'[k] = l /\ \A i \in DOMAIN history : history'[i] = history[i]
  BY <1>1
<1>3. IsFiniteSet(Leftover) /\ Cardinality(Leftover) \in Nat
  BY LeftoverFinite
<1>4. CASE epoch[c] < resets
  <2>1. Leftover' = Leftover \cup {k} /\ k \notin Leftover
    BY <1>2, <1>4 DEF Leftover
  <2>2. Cardinality(Leftover \cup {k}) = Cardinality(Leftover) + 1
    BY <1>3, <2>1, FS_AddElement
  <2> QED BY <1>4, <2>1, <2>2
<1>5. CASE ~(epoch[c] < resets)
  <2>1. Leftover' = Leftover
    BY <1>2, <1>5 DEF Leftover
  <2> QED BY <1>3, <1>5, <2>1
<1> QED BY <1>4, <1>5

LEMMA NoneLeft == history = <<>> => Cardinality(Leftover) = 0
<1>1. history = <<>> => Leftover = {}
  BY DEF Leftover
<1> QED BY <1>1, FS_EmptySet

LEMMA ResetInit == Init => ResetInv
<1> SUFFICES ASSUME Init PROVE ResetInv
  OBVIOUS
<1>1. Count(OldPc, WillAskYet) = 0 /\ Count(OldPc, WillReply) = 0
  BY CountNone DEF Init, OldPc, WillAskYet, WillAsk, WillReply
<1>2. Cardinality(Leftover) = 0
  BY NoneLeft DEF Init
<1> QED BY <1>1, <1>2, TypeInit, CountType DEF ResetInv

(* Room for the lines: l of them, a requests that will append two, b that will append one. *)
LEMMA RoomKept ==
    ASSUME NEW l \in Nat, NEW a \in Nat, NEW b \in Nat, NEW m \in Nat, NEW x \in Nat, NEW y \in Nat, NEW n \in Nat,
           l + 2 * a + b <= 2 * n,
           \/ m <= l /\ x <= a /\ y <= b
           \/ m = l + 1 /\ x = a - 1 /\ y = b + 1
           \/ m = l + 1 /\ x = a /\ y = b - 1
    PROVE  m + 2 * x + y <= 2 * n
  OBVIOUS

LEMMA RoomFresh ==
    ASSUME NEW x \in Nat, NEW y \in Nat, NEW n \in Nat, x + y <= n
    PROVE  0 + 2 * x + y <= 2 * n
  OBVIOUS

LEMMA ResetStep == ResetInv /\ [Next]_vars => ResetInv'
<1> SUFFICES ASSUME ResetInv, [Next]_vars PROVE ResetInv'
  OBVIOUS
<1> DEFINE a == Count(OldPc, WillAskYet)
<1> DEFINE b == Count(OldPc, WillReply)
<1> DEFINE x == Count(OldPc', WillAskYet)
<1> DEFINE y == Count(OldPc', WillReply)
<1> DEFINE l == Cardinality(Leftover)
<1> DEFINE m == Cardinality(Leftover')
<1> DEFINE n == Cardinality(Chat)
<1>1. TypeOK /\ l + 2 * a + b <= 2 * n
  BY DEF ResetInv
<1>2. TypeOK'
  BY <1>1, TypeStep
<1>t. /\ OldPc \in [Chat -> Steps] /\ pc \in [Chat -> Steps] /\ resets \in Nat /\ epoch \in [Chat -> Nat]
      /\ a \in Nat /\ b \in Nat /\ x \in Nat /\ y \in Nat /\ l \in Nat /\ m \in Nat /\ n \in Nat
  <2>1. pc \in [Chat -> Steps] /\ resets \in Nat /\ epoch \in [Chat -> Nat]
    BY <1>1 DEF TypeOK
  <2>2. OldPc \in [Chat -> Steps]
    BY <2>1 DEF OldPc, Steps
  <2>3. a \in Nat /\ b \in Nat /\ x \in Nat /\ y \in Nat /\ n \in Nat
    BY CountType
  <2>4. l \in Nat
    BY <1>1, LeftoverFinite
  <2>5. m \in Nat
    <3>1. history' \in Seq(Line)
      BY <1>2 DEF TypeOK, Line, Role
    <3>2. IsFiniteSet(DOMAIN history')
      <4>1. DOMAIN history' = 1 .. Len(history') /\ Len(history') \in Nat
        BY <3>1
      <4> QED BY <4>1, FS_Interval
    <3> QED BY <3>2, FS_Subset, FS_CardinalityType DEF Leftover
  <2> QED BY <2>1, <2>2, <2>3, <2>4, <2>5
<1>3. x + y <= n
  BY CountDisjoint DEF WillAskYet, WillAsk, WillReply
<1>u. Cardinality(Leftover)' = m /\ Count(OldPc, WillAskYet)' = x /\ Count(OldPc, WillReply)' = y
  BY DEF Count, WillAskYet, WillAsk, WillReply
<1>4. ASSUME NEW c \in Chat, NEW step \in Steps, OldPc'[c] = step, \A d \in Chat \ {c} : OldPc'[d] = OldPc[d]
      PROVE  /\ x = a + (IF step \in WillAskYet THEN 1 ELSE 0) - (IF OldPc[c] \in WillAskYet THEN 1 ELSE 0)
             /\ y = b + (IF step \in WillReply THEN 1 ELSE 0) - (IF OldPc[c] \in WillReply THEN 1 ELSE 0)
  BY <1>t, <1>4, CountStep, SMTT(30)
<1>5. ASSUME NEW c \in Chat, NEW step \in Steps, GoTo(c, step), UNCHANGED <<epoch, resets>>
      PROVE  /\ OldPc'[c] = (IF epoch[c] < resets THEN step ELSE "idle")
             /\ \A d \in Chat \ {c} : OldPc'[d] = OldPc[d]
  BY <1>t, <1>5 DEF GoTo, OldPc
<1>6. UNCHANGED <<history, resets>> => m = l
  BY DEF Leftover
<1> SUFFICES m + 2 * x + y <= 2 * n
  BY <1>2, <1>u DEF ResetInv
<1> HIDE DEF a, b, x, y, l, m, n
<1>7. ASSUME NEW c \in Chat, Begin(c) PROVE m + 2 * x + y <= 2 * n
  <2>1. /\ pc[c] = "idle" /\ GoTo(c, "usage") /\ UNCHANGED <<history, resets>>
        /\ epoch' = [epoch EXCEPT ![c] = resets]
    BY <1>7 DEF Begin, sessionVars
  <2>2. OldPc' = OldPc
    BY <1>t, <2>1 DEF OldPc, GoTo
  <2>3. x = a /\ y = b
    BY <2>2 DEF a, b, x, y
  <2> QED BY <1>1, <1>6, <1>t, <2>1, <2>3, RoomKept
<1>8. ASSUME NEW c \in Chat, CheckTokens(c) \/ CheckTurns(c) \/ BuildPrompt(c) \/ CallLlm(c) \/ RenewHistory(c)
                             \/ CountTokens(c) \/ RenewTokens(c) \/ Fail(c)
      PROVE  m + 2 * x + y <= 2 * n
  <2>1. PICK step \in Steps : /\ GoTo(c, step)
                              /\ step \in WillAskYet => pc[c] \in WillAskYet
                              /\ step \in WillReply => pc[c] \in WillReply
    BY <1>8 DEF CheckTokens, CheckTurns, BuildPrompt, CallLlm, RenewHistory, CountTokens, RenewTokens, Fail,
                WillAskYet, WillAsk, WillReply, Steps
  <2>2. UNCHANGED <<epoch, resets, history>>
    BY <1>8 DEF CheckTokens, CheckTurns, BuildPrompt, CallLlm, RenewHistory, CountTokens, RenewTokens, Fail, sessionVars
  <2> DEFINE s == IF epoch[c] < resets THEN step ELSE "idle"
  <2>3. /\ s \in Steps /\ OldPc'[c] = s /\ \A d \in Chat \ {c} : OldPc'[d] = OldPc[d]
    BY <1>5, <2>1, <2>2 DEF Steps
  <2>4. /\ s \in WillAskYet => OldPc[c] \in WillAskYet
        /\ s \in WillReply => OldPc[c] \in WillReply
    BY <2>1 DEF OldPc, WillAskYet, WillAsk, WillReply
  <2> HIDE DEF s
  <2>5. x <= a /\ y <= b
    <3>1. /\ x = a + (IF s \in WillAskYet THEN 1 ELSE 0) - (IF OldPc[c] \in WillAskYet THEN 1 ELSE 0)
          /\ y = b + (IF s \in WillReply THEN 1 ELSE 0) - (IF OldPc[c] \in WillReply THEN 1 ELSE 0)
      BY <1>4, <2>3
    <3>2. x <= a
      BY <1>t, <2>4, <3>1
    <3>3. y <= b
      BY <1>t, <2>4, <3>1
    <3> QED BY <3>2, <3>3
  <2> QED BY <1>1, <1>6, <1>t, <2>2, <2>5, RoomKept
<1>9. ASSUME NEW c \in Chat, PushQuestion(c) \/ PushReply(c) PROVE m + 2 * x + y <= 2 * n
  <2>1. /\ UNCHANGED <<epoch, resets>> /\ {"askTtl", "replyTtl"} \subseteq Steps
        /\ \/ pc[c] = "ask" /\ GoTo(c, "askTtl")
           \/ pc[c] = "reply" /\ GoTo(c, "replyTtl")
    BY <1>9 DEF PushQuestion, PushReply, Steps
  <2>2. PICK role \in Role : Push(c, role)
    BY <1>9 DEF PushQuestion, PushReply, Role
  <2>3. m = l + (IF epoch[c] < resets THEN 1 ELSE 0)
    BY <1>1, <2>1, <2>2, LeftoverAppend DEF m, l
  <2>4. CASE ~(epoch[c] < resets)
    <3>1. OldPc[c] = "idle" /\ "idle" \in Steps
      BY <2>4 DEF OldPc, Steps
    <3>2. OldPc'[c] = "idle" /\ \A d \in Chat \ {c} : OldPc'[d] = OldPc[d]
      BY <1>5, <2>1, <2>4
    <3>3. x = a /\ y = b
      <4>1. x = a + 0 - 0 /\ y = b + 0 - 0
        BY <1>4, <3>1, <3>2 DEF WillAskYet, WillAsk, WillReply
      <4> QED BY <1>t, <4>1
    <3>4. m = l
      BY <1>t, <2>3, <2>4
    <3> QED BY <1>1, <1>t, <3>3, <3>4, RoomKept
  <2>5. CASE epoch[c] < resets /\ pc[c] = "ask"
    <3>1. OldPc[c] = "ask" /\ OldPc'[c] = "askTtl" /\ \A d \in Chat \ {c} : OldPc'[d] = OldPc[d]
      <4>1. OldPc[c] = "ask"
        BY <2>5 DEF OldPc
      <4> QED BY <1>5, <2>1, <2>5, <4>1
    <3>2. x = a + 0 - 1 /\ y = b + 1 - 0
      BY <1>4, <2>1, <3>1 DEF WillAskYet, WillAsk, WillReply
    <3>3. m = l + 1 /\ x = a - 1 /\ y = b + 1
      BY <1>t, <2>3, <2>5, <3>2
    <3> QED BY <1>1, <1>t, <3>3, RoomKept
  <2>6. CASE epoch[c] < resets /\ pc[c] = "reply"
    <3>1. OldPc[c] = "reply" /\ OldPc'[c] = "replyTtl" /\ \A d \in Chat \ {c} : OldPc'[d] = OldPc[d]
      <4>1. OldPc[c] = "reply"
        BY <2>6 DEF OldPc
      <4> QED BY <1>5, <2>1, <2>6, <4>1
    <3>2. x = a + 0 - 0 /\ y = b + 0 - 1
      BY <1>4, <2>1, <3>1 DEF WillAskYet, WillAsk, WillReply
    <3>3. m = l + 1 /\ x = a /\ y = b - 1
      BY <1>t, <2>3, <2>6, <3>2
    <3> QED BY <1>1, <1>t, <3>3, RoomKept
  <2> QED BY <2>1, <2>4, <2>5, <2>6
<1>10. CASE Reset \/ ExpireHistory
  <2>1. history' = <<>>
    BY <1>10 DEF Reset, ExpireHistory
  <2>2. m = 0
    <3>1. Leftover' = {}
      BY <2>1 DEF Leftover
    <3> QED BY <3>1, FS_EmptySet DEF m
  <2> QED BY <1>3, <1>t, <2>2, RoomFresh
<1>11. CASE ExpireTokens \/ UNCHANGED vars
  <2>1. UNCHANGED <<pc, epoch, resets, history>>
    BY <1>11 DEF ExpireTokens, vars, sessionVars
  <2>2. x = a /\ y = b
    BY <2>1 DEF OldPc, a, b, x, y
  <2> QED BY <1>1, <1>6, <1>t, <2>1, <2>2, RoomKept
<1> QED BY <1>7, <1>8, <1>9, <1>10, <1>11 DEF Next

(* A session that was reset holds at most two lines of each request that was under way, for any number *)
(* of requests and resets: what DELETE of the session leaves to the requests it did not wait for.      *)
THEOREM ResetForgets == Spec => []ResetLeftover
<1>1. ResetInv => ResetLeftover
  <2> SUFFICES ASSUME ResetInv PROVE Cardinality(Leftover) <= 2 * Cardinality(Chat)
    BY DEF ResetLeftover, Leftover
  <2> DEFINE a == Count(OldPc, WillAskYet)
  <2> DEFINE b == Count(OldPc, WillReply)
  <2> DEFINE l == Cardinality(Leftover)
  <2>1. a \in Nat /\ b \in Nat /\ l \in Nat /\ Cardinality(Chat) \in Nat
    BY CountType, LeftoverFinite DEF ResetInv
  <2>2. l + 2 * a + b <= 2 * Cardinality(Chat)
    BY DEF ResetInv
  <2> HIDE DEF a, b, l
  <2>3. l <= 2 * Cardinality(Chat)
    BY <2>1, <2>2
  <2> QED BY <2>3 DEF l
<1>2. QED
  BY <1>1, ResetInit, ResetStep, PTL DEF Spec
=============================================================================
