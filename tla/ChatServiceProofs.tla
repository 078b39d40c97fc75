--------------------------- MODULE ChatServiceProofs ---------------------------
(* What ChatService keeps true however long it runs, however many threads     *)
(* press stop and wherever the library throws.                                *)
EXTENDS ChatService, SequenceTheorems, TLAPS

-----------------------------------------------------------------------------
\* The worker is on a task, and has not answered it yet.
Busy == pc \notin {"pop", "exited"}

\* Tasks are taken from the queue in the order of their ids and answered in
\* that order, one at a time; only a restart that has not been answered yet
\* has a generator of its own already.
OrderOK ==
  /\ Len(queue) <= submitted
  /\ \A i \in 1..Len(queue) : queue[i].id = submitted - Len(queue) + i
  /\ Busy => /\ task \in Task
             /\ task.id = submitted - Len(queue)
             /\ Len(answered) = submitted - Len(queue) - 1
  /\ ~Busy => task = NoTask /\ Len(answered) = submitted - Len(queue)
  /\ \A i \in 1..Len(answered) : answered[i] = i
  /\ gen <= Len(answered) + (IF pc \in {"start", "answer"} THEN 2 ELSE 1)

\* A step that leaves the order of things alone.
Steady ==
  /\ UNCHANGED <<queue, submitted, task, answered, gen>>
  /\ \/ pc' = pc
     \/ /\ Busy /\ Busy'
        /\ pc \in {"start", "answer"} => pc' \in {"start", "answer"}

LEMMA SteadyKeepsOrder ==
  ASSUME TypeOK, OrderOK, Steady
  PROVE  OrderOK'
<1>1. Busy' = Busy
  BY DEF Steady, Busy
<1>2. gen' <= Len(answered') + (IF pc' \in {"start", "answer"} THEN 2 ELSE 1)
  <2>1. gen \in Nat /\ Len(answered) \in Nat
    BY ChatAssumption, LenProperties DEF TypeOK
  <2> QED BY <2>1 DEF Steady, OrderOK
<1> QED BY <1>1, <1>2 DEF Steady, OrderOK

\* The steps that are steady.
LEMMA SteadySteps ==
  ASSUME \/ \E k \in Stoppers : StopRead(k) \/ StopSet(k)
         \/ Shutdown
         \/ ChatClear \/ ChatAppend \/ Generate \/ GenerateDone \/ GenerateThrows
         \/ AbortClear \/ AbortRewind \/ Reset \/ RestartStart
         \/ UNCHANGED vars
  PROVE  Steady
<1> USE DEF Steady, Busy, vars, generator, history
<1>1. CASE \E k \in Stoppers : StopRead(k) \/ StopSet(k)
  BY <1>1 DEF StopRead, StopSet
<1>2. CASE Shutdown \/ UNCHANGED vars
  BY <1>2 DEF Shutdown
<1>3. CASE ChatClear \/ ChatAppend
  BY <1>3 DEF ChatClear, ChatAppend
<1>4. CASE Generate \/ GenerateDone \/ GenerateThrows
  BY <1>4 DEF Generate, GenerateDone, GenerateThrows
<1>5. CASE AbortClear \/ AbortRewind
  BY <1>5 DEF AbortClear, AbortRewind
<1>6. CASE Reset \/ RestartStart
  BY <1>6 DEF Reset, RestartStart
<1> QED BY <1>1, <1>2, <1>3, <1>4, <1>5, <1>6

-----------------------------------------------------------------------------
\* Every step keeps the order.
LEMMA OrderStep ==
  ASSUME TypeOK, OrderOK, [Next]_vars
  PROVE  OrderOK'
<1> USE DEF generator, history
<1>0. /\ queue \in Seq(Task) /\ Len(queue) \in Nat
      /\ answered \in Seq(1..MaxTasks) /\ Len(answered) \in Nat
      /\ submitted \in Nat /\ gen \in Nat
  BY ChatAssumption, LenProperties DEF TypeOK
<1>1. ASSUME NEW kind \in Kinds, Submit(kind) PROVE OrderOK'
  <2> DEFINE t == [id |-> submitted + 1, kind |-> kind]
  <2>1. t \in Task
    <3>1. submitted + 1 \in 1..MaxTasks
      BY <1>0, <1>1, ChatAssumption DEF Submit
    <3> QED BY <3>1 DEF Task
  <2>2. /\ Len(queue') = Len(queue) + 1
        /\ \A i \in 1..Len(queue) : queue'[i] = queue[i]
        /\ queue'[Len(queue) + 1] = t
    <3> HIDE DEF t
    <3>1. queue' = Append(queue, t)
      BY <1>1 DEF Submit, t
    <3> QED BY <1>0, <2>1, <3>1, AppendProperties
  <2>3. /\ submitted' = submitted + 1
        /\ UNCHANGED <<pc, task, answered, gen>>
    BY <1>1 DEF Submit
  <2>4. ASSUME NEW i \in 1..Len(queue')
        PROVE  queue'[i].id = submitted' - Len(queue') + i
    <3>1. CASE i \in 1..Len(queue)
      <4>1. queue[i].id = submitted - Len(queue) + i
        BY <3>1 DEF OrderOK
      <4> QED BY <1>0, <2>2, <2>3, <3>1, <4>1
    <3>2. CASE i = Len(queue) + 1
      BY <1>0, <2>2, <2>3, <3>2
    <3> QED BY <1>0, <2>2, <3>1, <3>2
  <2>5. /\ Len(queue') <= submitted'
        /\ submitted' - Len(queue') = submitted - Len(queue)
    BY <1>0, <2>2, <2>3 DEF OrderOK
  <2> HIDE DEF t
  <2> QED BY <2>3, <2>4, <2>5 DEF OrderOK, Busy
<1>2. CASE Pop
  <2>1. /\ queue # <<>> /\ task' = Head(queue) /\ queue' = Tail(queue)
        /\ UNCHANGED <<submitted, answered, gen>>
        /\ pc = "pop" /\ pc' = FirstLabel(Head(queue).kind)
    BY <1>2 DEF Pop
  <2>2. /\ Head(queue) = queue[1] /\ Head(queue) \in Task
        /\ Len(queue') = Len(queue) - 1
        /\ \A i \in 1..Len(queue') : queue'[i] = queue[i + 1]
    BY <1>0, <2>1, HeadTailProperties
  <2>3. pc' \in {"clear", "reset", "restart"}
    BY <2>1, <2>2 DEF Task, Kinds, FirstLabel
  <2>4. Len(queue) >= 1
    BY <1>0, <2>1, EmptySeq
  <2>5. task'.id = submitted' - Len(queue')
    <3>1. queue[1].id = submitted - Len(queue) + 1
      BY <1>0, <2>4 DEF OrderOK
    <3> QED BY <1>0, <2>1, <2>2, <3>1
  <2>6. ASSUME NEW i \in 1..Len(queue')
        PROVE  queue'[i].id = submitted' - Len(queue') + i
    <3>1. queue[i + 1].id = submitted - Len(queue) + (i + 1)
      BY <1>0, <2>2 DEF OrderOK
    <3> QED BY <1>0, <2>1, <2>2, <3>1
  <2>7. Len(answered') = submitted' - Len(queue') - 1 /\ Len(queue') <= submitted'
    <3>1. Len(answered) = submitted - Len(queue) /\ Len(queue) <= submitted
      BY <2>1 DEF OrderOK, Busy
    <3> QED BY <1>0, <2>1, <2>2, <2>4, <3>1
  <2>8. gen' <= Len(answered') + (IF pc' \in {"start", "answer"} THEN 2 ELSE 1)
    BY <2>1, <2>3 DEF OrderOK
  <2>9. task' \in Task /\ Busy' /\ answered' = answered
    BY <2>1, <2>2, <2>3 DEF Busy
  <2> QED BY <2>5, <2>6, <2>7, <2>8, <2>9 DEF OrderOK
<1>3. CASE Exit
  BY <1>0, <1>3 DEF Exit, OrderOK, Busy
<1>4. CASE Answer
  <2>1. /\ answered' = Append(answered, task.id)
        /\ task' = NoTask /\ pc = "answer" /\ pc' = "pop"
        /\ UNCHANGED <<queue, submitted, gen>>
    BY <1>4 DEF Answer
  <2>2. /\ task \in Task /\ task.id = submitted - Len(queue)
        /\ Len(answered) = submitted - Len(queue) - 1
    BY <2>1 DEF OrderOK, Busy
  <2>3. task.id = Len(answered) + 1 /\ task.id \in 1..MaxTasks
    BY <1>0, <2>2 DEF Task
  <2>4. /\ Len(answered') = Len(answered) + 1
        /\ \A i \in 1..Len(answered) : answered'[i] = answered[i]
        /\ answered'[Len(answered) + 1] = task.id
    BY <1>0, <2>1, <2>3, AppendProperties
  <2>5. \A i \in 1..Len(answered') : answered'[i] = i
    <3>1. \A i \in 1..Len(answered) : answered[i] = i
      BY DEF OrderOK
    <3>2. \A i \in 1..Len(answered') : i \in 1..Len(answered) \/ i = Len(answered) + 1
      BY <1>0, <2>4
    <3> QED BY ONLY <2>3, <2>4, <3>1, <3>2
  <2>6. Len(answered') = submitted' - Len(queue')
    BY <1>0, <2>1, <2>2, <2>4
  <2>7. gen' <= Len(answered') + (IF pc' \in {"start", "answer"} THEN 2 ELSE 1)
    BY <1>0, <2>1, <2>4 DEF OrderOK
  <2> QED BY <2>1, <2>5, <2>6, <2>7 DEF OrderOK, Busy
<1>5. CASE RestartReplace
  <2>1. /\ pc = "restart"
        /\ UNCHANGED <<queue, submitted, task, answered>>
        /\ \/ pc' = "start" /\ gen' = gen + 1
           \/ pc' = "answer" /\ gen' = gen
    BY <1>5 DEF RestartReplace
  <2>2. gen' <= Len(answered') + 2 /\ pc' \in {"start", "answer"}
    BY <1>0, <2>1 DEF OrderOK
  <2> QED BY <2>1, <2>2 DEF OrderOK, Busy
<1>6. CASE Steady
  BY <1>6, SteadyKeepsOrder
<1> QED
  BY <1>1, <1>2, <1>3, <1>4, <1>5, <1>6, SteadySteps DEF Next, Worker

\* What the cuts and the growth of the cache rely on: the length the turn began
\* with lies between the system prompt and the prompt of the turn, and a
\* generator that is being started is empty.
KvOK ==
  /\ SystemPromptFirst
  /\ pc \in {"generate", "abort", "rewind"} =>
       systemTokenCount <= before /\ before < Len(kv)
  /\ pc = "start" => kv = <<>> /\ systemTokenCount = 0

\* A rewind leaves the tokens it keeps alone.
LEMMA Rewind ==
  ASSUME NEW tokens \in Seq(Token), NEW n \in 0..Len(tokens)
  PROVE  /\ SubSeq(tokens, 1, n) \in Seq(Token)
         /\ Len(SubSeq(tokens, 1, n)) = n
         /\ \A i \in 1..n : SubSeq(tokens, 1, n)[i] = tokens[i]
<1>1. Len(tokens) \in Nat
  BY LenProperties
<1>2. \A i \in 1..n : tokens[i] \in Token
  BY <1>1, ElementOfSeq
<1>3. n \in Int /\ 1 \in Int
  BY <1>1
<1>4. /\ SubSeq(tokens, 1, n) \in Seq(Token)
      /\ Len(SubSeq(tokens, 1, n)) = IF 1 <= n THEN n - 1 + 1 ELSE 0
      /\ \A i \in 1..(n - 1 + 1) : SubSeq(tokens, 1, n)[i] = tokens[1 + i - 1]
  BY <1>2, <1>3, SubSeqProperties
<1> QED BY <1>1, <1>4

\* An append adds one token at the end.
LEMMA Grow ==
  ASSUME NEW tokens \in Seq(Token), NEW tok \in Token
  PROVE  /\ Append(tokens, tok) \in Seq(Token)
         /\ Len(Append(tokens, tok)) = Len(tokens) + 1
         /\ \A i \in 1..Len(tokens) : Append(tokens, tok)[i] = tokens[i]
         /\ Append(tokens, tok)[Len(tokens) + 1] = tok
BY AppendProperties

\* The tokens the worker appends.
LEMMA TokensAreTyped ==
  ASSUME TypeOK
  PROVE  TurnToken \in Token /\ SystemToken(task.id) \in Token
BY ChatAssumption DEF TypeOK, Task, NoTask, TurnToken, SystemToken, Token

\* Every step keeps the types.
LEMMA TypeStep ==
  ASSUME TypeOK, OrderOK, KvOK, [Next]_vars
  PROVE  TypeOK'
<1> USE ChatAssumption DEF TypeOK, Labels, ChatLabels, generator, history
<1>0. /\ Len(queue) \in Nat /\ Len(answered) \in Nat /\ Len(kv) \in Nat
      /\ submitted \in Nat
  BY LenProperties
<1>1. ASSUME NEW kind \in Kinds, Submit(kind) PROVE TypeOK'
  <2> DEFINE t == [id |-> submitted + 1, kind |-> kind]
  <2>1. t \in Task /\ submitted' \in 0..MaxTasks
    BY <1>1 DEF Submit, Task
  <2>2. queue' \in Seq(Task)
    <3> HIDE DEF t
    <3> QED BY <1>1, <2>1, AppendProperties DEF Submit, t
  <2> QED BY <1>1, <2>1, <2>2 DEF Submit
<1>2. ASSUME NEW k \in Stoppers, StopRead(k) \/ StopSet(k) PROVE TypeOK'
  <2>1. CASE StopRead(k)
    <3>1. ptr' \in [Stoppers -> 0..(MaxTasks + 1)]
      BY <2>1 DEF StopRead
    <3> QED BY <2>1, <3>1 DEF StopRead
  <2>2. CASE StopSet(k)
    <3>1. ptr' \in [Stoppers -> 0..(MaxTasks + 1)]
      BY <2>2 DEF StopSet
    <3>2. stopped' \subseteq {"early", "late"}
      BY <2>2 DEF StopSet
    <3>3. terminate' \in BOOLEAN
      <4>1. terminate' = (terminate \/ ptr[k] = gen)
        BY <2>2 DEF StopSet
      <4> HIDE DEF TypeOK
      <4> QED BY <4>1
    <3>4. UNCHANGED <<queue, stop, pc, task, kv, systemTokenCount, before, gen,
                      submitted, answered, completed, dirty>>
      BY <2>2 DEF StopSet
    <3> QED BY <3>1, <3>2, <3>3, <3>4
  <2> QED BY <1>2, <2>1, <2>2
<1>3. CASE Shutdown
  BY <1>3 DEF Shutdown
<1>4. CASE Pop
  <2>1. Head(queue) \in Task /\ queue' \in Seq(Task)
    <3>1. queue \in Seq(Task) /\ queue # <<>> /\ queue' = Tail(queue)
      BY <1>4 DEF Pop
    <3> HIDE DEF TypeOK
    <3> QED BY <3>1, HeadTailProperties
  <2>2. pc' \in Labels
    BY <1>4, <2>1 DEF Pop, FirstLabel, Task, Kinds
  <2> QED BY <1>4, <2>1, <2>2 DEF Pop
<1>5. CASE Exit \/ ChatClear \/ GenerateThrows \/ AbortClear
  BY <1>5 DEF Exit, ChatClear, GenerateThrows, AbortClear
<1>6. CASE ChatAppend \/ Generate
  <2>1. kv' = kv \/ kv' = Append(kv, TurnToken)
    BY <1>6 DEF ChatAppend, Generate
  <2>2. kv' \in Seq(Token)
    BY <2>1, TokensAreTyped, Grow
  <2> QED BY <1>0, <1>6, <2>2 DEF ChatAppend, Generate
<1>7. CASE GenerateDone
  <2>1. task.id \in 1..MaxTasks
    BY <1>7 DEF GenerateDone, OrderOK, Busy, Task
  <2> QED BY <1>7, <2>1 DEF GenerateDone
<1>8. CASE AbortRewind
  <2>1. before \in 0..Len(kv)
    BY <1>0, <1>8 DEF AbortRewind, KvOK
  <2>2. kv' \in Seq(Token)
    BY <1>8, <2>1, Rewind DEF AbortRewind
  <2> QED BY <1>8, <2>2 DEF AbortRewind
<1>9. CASE Reset
  <2>1. systemTokenCount \in 0..Len(kv)
    BY <1>0 DEF KvOK, SystemPromptFirst
  <2>2. kv' \in Seq(Token)
    BY <1>9, <2>1, Rewind DEF Reset
  <2> QED BY <1>9, <2>2 DEF Reset
<1>10. CASE RestartReplace
  <2>1. gen' \in 1..(MaxTasks + 1)
    <3>1. gen <= Len(answered) + 1 /\ Len(answered) = submitted - Len(queue) - 1
      BY <1>10 DEF RestartReplace, OrderOK, Busy
    <3>2. submitted <= MaxTasks /\ gen \in 1..(MaxTasks + 1)
      OBVIOUS
    <3>3. gen + 1 \in 1..(MaxTasks + 1)
      <4> HIDE DEF TypeOK
      <4> QED BY <1>0, <3>1, <3>2
    <3> QED BY <1>10, <3>2, <3>3 DEF RestartReplace
  <2>2. kv' \in Seq(Token)
    BY <1>10, EmptySeq DEF RestartReplace
  <2> QED BY <1>10, <2>1, <2>2 DEF RestartReplace
<1>11. CASE RestartStart
  <2>1. kv = <<>> /\ systemTokenCount = 0
    BY <1>11 DEF RestartStart, KvOK
  <2>2. Append(kv, SystemToken(task.id)) \in Seq(Token)
        /\ Len(Append(kv, SystemToken(task.id))) = 1
    <3>1. kv \in Seq(Token) /\ Len(kv) = 0
      BY <2>1, EmptySeq
    <3>2. SystemToken(task.id) \in Token
      BY TokensAreTyped
    <3> HIDE DEF TypeOK
    <3> QED BY <3>1, <3>2, Grow
  <2> QED BY <1>11, <2>1, <2>2 DEF RestartStart
<1>12. CASE Answer
  <2>1. task.id \in 1..MaxTasks
    BY <1>12 DEF Answer, OrderOK, Busy, Task
  <2>2. answered' \in Seq(1..MaxTasks)
    BY <1>12, <2>1, AppendProperties DEF Answer
  <2> QED BY <1>12, <2>2 DEF Answer
<1>13. CASE UNCHANGED vars
  BY <1>13 DEF vars
<1> QED
  BY <1>1, <1>2, <1>3, <1>4, <1>5, <1>6, <1>7, <1>8, <1>9, <1>10, <1>11, <1>12,
     <1>13
  DEF Next, Worker

\* Every step keeps the shape of the cache.
LEMMA KvStep ==
  ASSUME TypeOK, KvOK, [Next]_vars
  PROVE  KvOK'
<1> USE ChatAssumption DEF KvOK, SystemPromptFirst, generator, history
<1>0. /\ kv \in Seq(Token) /\ Len(kv) \in Nat
      /\ systemTokenCount \in Nat /\ before \in Nat
  BY LenProperties DEF TypeOK
<1>1. CASE ChatAppend \/ Generate
  <2>1. \/ kv' = Append(kv, TurnToken)
        \/ kv' = kv /\ pc' = "answer"
    BY <1>1 DEF ChatAppend, Generate
  <2>2. CASE kv' = kv /\ pc' = "answer"
    BY <1>1, <2>2 DEF ChatAppend, Generate
  <2>3. CASE kv' = Append(kv, TurnToken)
    <3>1. /\ Len(kv') = Len(kv) + 1
          /\ \A i \in 1..Len(kv) : kv'[i] = kv[i]
          /\ kv'[Len(kv) + 1] = TurnToken
      BY <1>0, <2>3, TokensAreTyped, Grow
    <3>2. ~TurnToken.sys
      BY DEF TurnToken
    <3>3. \A i \in 1..Len(kv') : kv'[i].sys <=> i <= systemTokenCount
      BY <1>0, <3>1, <3>2
    <3>4. /\ systemTokenCount' = systemTokenCount
          /\ pc' \in {"generate", "answer"}
          /\ pc' = "generate" =>
               systemTokenCount <= before' /\ before' \in Nat /\ before' <= Len(kv)
      BY <1>0, <1>1 DEF ChatAppend, Generate
    <3> QED BY <1>0, <3>1, <3>3, <3>4
  <2> QED BY <2>1, <2>2, <2>3
<1>2. CASE AbortRewind \/ Reset
  <2>1. ASSUME NEW n \in 0..Len(kv), systemTokenCount <= n,
               kv' = SubSeq(kv, 1, n), pc' = "answer",
               systemTokenCount' = systemTokenCount
        PROVE  KvOK'
    BY <1>0, <2>1, Rewind
  <2>2. CASE kv' = kv
    BY <1>2, <2>2 DEF AbortRewind, Reset
  <2>3. CASE AbortRewind /\ kv' = SubSeq(kv, 1, before)
    <3>1. before \in 0..Len(kv) /\ systemTokenCount <= before
      BY <1>0, <2>3 DEF AbortRewind
    <3> QED BY <2>1, <2>3, <3>1 DEF AbortRewind
  <2>4. CASE Reset /\ kv' = SubSeq(kv, 1, systemTokenCount)
    <3>1. systemTokenCount \in 0..Len(kv) /\ systemTokenCount <= systemTokenCount
      BY <1>0
    <3> QED BY <2>1, <2>4, <3>1 DEF Reset
  <2> QED BY <1>2, <2>2, <2>3, <2>4 DEF AbortRewind, Reset
<1>3. CASE RestartReplace
  <2>1. CASE kv' = <<>> /\ systemTokenCount' = 0 /\ pc' = "start"
    BY <2>1
  <2>2. CASE UNCHANGED <<kv, systemTokenCount>> /\ pc' = "answer"
    BY <2>2
  <2> QED BY <1>3, <2>1, <2>2 DEF RestartReplace
<1>4. CASE RestartStart
  <2>1. kv = <<>> /\ systemTokenCount = 0 /\ pc' = "answer"
    BY <1>4 DEF RestartStart
  <2>2. CASE kv' = kv
    BY <1>4, <2>1, <2>2 DEF RestartStart
  <2>3. CASE kv' = Append(kv, SystemToken(task.id)) /\ systemTokenCount' = Len(kv')
    <3>1. Len(kv') = 1 /\ kv'[1] = SystemToken(task.id)
      BY <1>0, <2>1, <2>3, TokensAreTyped, Grow, EmptySeq
    <3>2. SystemToken(task.id).sys
      BY DEF SystemToken
    <3> QED BY <2>1, <2>3, <3>1, <3>2
  <2> QED BY <1>4, <2>2, <2>3 DEF RestartStart
<1>5. CASE /\ UNCHANGED <<kv, systemTokenCount, before>>
           /\ \/ pc' = pc
              \/ /\ pc \in {"generate", "abort"}
                 /\ pc' \in {"abort", "rewind", "answer"}
              \/ pc' \notin {"generate", "abort", "rewind", "start"}
  BY <1>5
<1>6. CASE Answer
  BY <1>6 DEF Answer
<1>7. CASE Pop
  <2>1. pc' \in {"clear", "reset", "restart"}
    <3>1. Head(queue) \in Task
      BY <1>7, HeadTailProperties DEF Pop, TypeOK
    <3> QED BY <1>7, <3>1 DEF Pop, FirstLabel, Task, Kinds
  <2> QED BY <1>5, <1>7, <2>1 DEF Pop
<1>8. CASE \/ \E kind \in Kinds : Submit(kind)
           \/ \E k \in Stoppers : StopRead(k) \/ StopSet(k)
           \/ Shutdown \/ UNCHANGED vars
  BY <1>5, <1>8 DEF Submit, StopRead, StopSet, Shutdown, vars
<1>9. CASE Exit \/ ChatClear \/ GenerateDone \/ GenerateThrows \/ AbortClear
  BY <1>5, <1>9 DEF Exit, ChatClear, GenerateDone, GenerateThrows, AbortClear
<1> QED
  BY <1>1, <1>2, <1>3, <1>4, <1>6, <1>7, <1>8, <1>9 DEF Next, Worker

-----------------------------------------------------------------------------
\* The inductive invariant.
IInv == TypeOK /\ OrderOK /\ KvOK

LEMMA Inductive == Spec => []IInv
<1>1. Init => IInv
  <2> SUFFICES ASSUME Init PROVE IInv
    OBVIOUS
  <2> USE ChatAssumption DEF Init
  <2>1. SystemToken(0) \in Token
    BY DEF SystemToken, Token
  <2>2. /\ kv \in Seq(Token) /\ Len(kv) = 1 /\ kv[1] = SystemToken(0)
    BY <2>1
  <2>3. TypeOK
    <3>1. queue \in Seq(Task) /\ answered \in Seq(1..MaxTasks)
      BY EmptySeq
    <3>2. gen \in 1..(MaxTasks + 1)
      OBVIOUS
    <3>3. ptr \in [Stoppers -> 0..(MaxTasks + 1)]
      OBVIOUS
    <3>4. /\ pc \in Labels /\ task \in Task \union {NoTask}
          /\ systemTokenCount \in {0, 1} /\ before \in Nat
          /\ submitted \in 0..MaxTasks
      BY DEF Labels
    <3>5. /\ stop \in BOOLEAN /\ terminate \in BOOLEAN /\ dirty \in BOOLEAN
          /\ completed \subseteq 1..MaxTasks /\ stopped \subseteq {"early", "late"}
      OBVIOUS
    <3> HIDE DEF Init
    <3> QED BY <2>2, <3>1, <3>2, <3>3, <3>4, <3>5 DEF TypeOK
  <2>4. OrderOK
    <3>1. Len(queue) = 0 /\ Len(answered) = 0
      BY EmptySeq
    <3>2. /\ pc = "pop" /\ task = NoTask /\ submitted = 0 /\ gen = 1
      OBVIOUS
    <3> HIDE DEF Init
    <3>3. ~Busy
      BY <3>2 DEF Busy
    <3>4. 1..Len(queue) = {} /\ 1..Len(answered) = {}
      BY <3>1
    <3>5. gen <= Len(answered) + (IF pc \in {"start", "answer"} THEN 2 ELSE 1)
      BY <3>1, <3>2
    <3> QED BY <3>1, <3>2, <3>3, <3>4, <3>5 DEF OrderOK
  <2>5. KvOK
    BY <2>2 DEF KvOK, SystemPromptFirst, SystemToken
  <2> QED BY <2>3, <2>4, <2>5 DEF IInv
<1>2. IInv /\ [Next]_vars => IInv'
  BY TypeStep, OrderStep, KvStep DEF IInv
<1> QED BY <1>1, <1>2, PTL DEF Spec, Safety

\* Every variable keeps its type; in particular the bound on the number of
\* generators follows from the order in which tasks are answered.
THEOREM TypeCorrect == Spec => []TypeOK
BY Inductive, PTL DEF IInv

\* No rewind, reset or restart cuts into the system prompt.
THEOREM SystemPromptTheorem == Spec => []SystemPromptFirst
BY Inductive, PTL DEF IInv, KvOK

\* Tasks are answered once and in order.
THEOREM AnswersTheorem == Spec => []AnsweredInOrder
BY Inductive, PTL DEF IInv, OrderOK, AnsweredInOrder

-----------------------------------------------------------------------------
(* RequestStop. *)

\* A stop that came after the worker's reset of the option is not undone while
\* the turn can still generate.
StopOK ==
  "late" \in stopped =>
    /\ pc \in {"append", "generate", "abort", "rewind", "answer"}
    /\ pc \in {"append", "generate"} => terminate

LEMMA StopStep ==
  ASSUME StopOK, [Next]_vars
  PROVE  StopOK'
<1> USE DEF StopOK, generator, history
<1>1. ASSUME NEW k \in Stoppers, StopSet(k) PROVE StopOK'
  <2>1. CASE stopped' = stopped
    BY <1>1, <2>1 DEF StopSet
  <2>2. CASE pc \in ChatLabels /\ ptr[k] = gen
    <3>1. terminate' = TRUE /\ pc' = pc
      BY <1>1, <2>2 DEF StopSet
    <3>2. pc = "clear" => stopped' = stopped \union {"early"}
      BY <1>1, <2>2 DEF StopSet
    <3> QED BY <2>2, <3>1, <3>2 DEF ChatLabels
  <2> QED BY <1>1, <2>1, <2>2 DEF StopSet
<1>2. CASE \/ \E kind \in Kinds : Submit(kind)
           \/ \E k \in Stoppers : StopRead(k)
           \/ Shutdown \/ UNCHANGED vars
  BY <1>2 DEF Submit, StopRead, Shutdown, vars
<1>3. CASE Pop \/ Exit \/ ChatClear
  BY <1>3 DEF Pop, Exit, ChatClear
<1>4. CASE ChatAppend \/ Generate \/ GenerateDone \/ GenerateThrows
  BY <1>4 DEF ChatAppend, Generate, GenerateDone, GenerateThrows
<1>5. CASE AbortClear \/ AbortRewind
  BY <1>5 DEF AbortClear, AbortRewind
<1>6. CASE Reset \/ RestartReplace \/ RestartStart \/ Answer
  BY <1>6 DEF Reset, RestartReplace, RestartStart, Answer
<1> QED BY <1>1, <1>2, <1>3, <1>4, <1>5, <1>6 DEF Next, Worker

\* A RequestStop that comes once the worker has reset the option for the turn
\* is final, whatever other threads and the library do after it.
THEOREM StopTheorem == Spec => StopIsFinal
<1>1. Init => StopOK
  BY DEF Init, StopOK
<1>2. StopOK /\ [Next]_vars => StopOK'
  BY StopStep
<1>3. StopOK /\ [Next]_vars => [Generate => "late" \notin stopped]_vars
  BY DEF StopOK, Generate
<1> QED BY <1>1, <1>2, <1>3, PTL DEF Spec, Safety, StopIsFinal

-----------------------------------------------------------------------------
(* What the cache remembers. *)

\* Nothing in the cache is of a task that has not been taken up yet.
InOrderOK ==
  /\ MemoryInOrder
  /\ \A i \in (systemTokenCount + 1)..Len(kv) : kv[i].of <= submitted - Len(queue)

\* A step that leaves the cache alone, and takes up tasks in order.
LEMMA QuietKeepsOrder ==
  ASSUME IInv, IInv', InOrderOK, UNCHANGED <<kv, systemTokenCount>>,
         submitted' - Len(queue') >= submitted - Len(queue)
  PROVE  InOrderOK'
<1>1. \A i \in 1..Len(kv) : kv[i].of \in Nat
  <2>1. kv \in Seq(Token)
    BY DEF IInv, TypeOK
  <2>2. \A i \in 1..Len(kv) : kv[i] \in Token
    BY <2>1, ElementOfSeq
  <2> QED BY <2>2, ChatAssumption DEF Token
<1>2. /\ submitted - Len(queue) \in Int /\ submitted' - Len(queue') \in Int
      /\ systemTokenCount \in Nat /\ Len(kv) \in Nat
  BY ChatAssumption, LenProperties DEF IInv, TypeOK
<1>3. MemoryInOrder'
  BY DEF InOrderOK, MemoryInOrder
<1>4. \A i \in (systemTokenCount + 1)..Len(kv) : kv[i].of <= submitted' - Len(queue')
  <2>1. \A i \in (systemTokenCount + 1)..Len(kv) : i \in 1..Len(kv)
    BY <1>2
  <2>2. \A i \in (systemTokenCount + 1)..Len(kv) :
          kv[i].of \in Nat /\ kv[i].of <= submitted - Len(queue)
    BY <1>1, <2>1 DEF InOrderOK
  <2> QED BY <1>2, <2>2
<1> QED BY <1>3, <1>4 DEF InOrderOK

\* A cut keeps the order.
LEMMA CutKeepsOrder ==
  ASSUME IInv, InOrderOK, NEW n \in 0..Len(kv), kv' = SubSeq(kv, 1, n),
         UNCHANGED <<systemTokenCount, submitted, queue>>
  PROVE  InOrderOK'
<1>1. kv \in Seq(Token) /\ systemTokenCount \in Nat /\ Len(kv) \in Nat
  BY LenProperties DEF IInv, TypeOK
<1>2. Len(kv') = n /\ \A i \in 1..n : kv'[i] = kv[i]
  BY <1>1, Rewind
<1>3. \A i \in (systemTokenCount + 1)..n : i \in (systemTokenCount + 1)..Len(kv)
  BY <1>1
<1>4. ASSUME NEW i \in (systemTokenCount + 1)..n PROVE kv'[i] = kv[i]
  BY <1>1, <1>2
<1>5. \A i, j \in (systemTokenCount + 1)..n : i < j => kv'[i].of <= kv'[j].of
  BY <1>3, <1>4 DEF InOrderOK, MemoryInOrder
<1>6. \A i \in (systemTokenCount + 1)..n : kv'[i].of <= submitted - Len(queue)
  BY <1>3, <1>4 DEF InOrderOK
<1> QED BY <1>2, <1>5, <1>6 DEF InOrderOK, MemoryInOrder

\* A token of the turn keeps the order.
LEMMA GrowthKeepsOrder ==
  ASSUME IInv, InOrderOK, Busy, kv' = Append(kv, TurnToken),
         UNCHANGED <<systemTokenCount, submitted, queue>>
  PROVE  InOrderOK'
<1>1. /\ kv \in Seq(Token) /\ systemTokenCount \in Nat /\ Len(kv) \in Nat
      /\ submitted - Len(queue) \in Int
  BY ChatAssumption, LenProperties DEF IInv, TypeOK
<1>2. /\ Len(kv') = Len(kv) + 1
      /\ \A i \in 1..Len(kv) : kv'[i] = kv[i]
      /\ kv'[Len(kv) + 1] = TurnToken
  BY <1>1, TokensAreTyped, Grow DEF IInv
<1>3. kv'[Len(kv) + 1].of = submitted - Len(queue)
  BY <1>2 DEF TurnToken, IInv, OrderOK
<1>4. \A i \in (systemTokenCount + 1)..Len(kv) : kv'[i].of <= submitted - Len(queue)
  BY <1>1, <1>2 DEF InOrderOK
<1>5. \A i \in (systemTokenCount + 1)..Len(kv') :
        kv'[i].of <= submitted' - Len(queue')
  BY <1>1, <1>2, <1>3, <1>4
<1>6. ASSUME NEW i \in (systemTokenCount + 1)..Len(kv'),
             NEW j \in (systemTokenCount + 1)..Len(kv'), i < j
      PROVE  kv'[i].of <= kv'[j].of
  <2>1. CASE j = Len(kv) + 1
    BY <1>1, <1>2, <1>3, <1>4, <1>6, <2>1
  <2>2. CASE j <= Len(kv)
    BY <1>1, <1>2, <1>6, <2>2 DEF InOrderOK, MemoryInOrder
  <2> QED BY <1>1, <1>2, <2>1, <2>2
<1> QED BY <1>5, <1>6 DEF InOrderOK, MemoryInOrder

LEMMA InOrderStep ==
  ASSUME IInv, IInv', InOrderOK, [Next]_vars
  PROVE  InOrderOK'
<1> USE DEF generator, history
<1>0. /\ kv \in Seq(Token) /\ systemTokenCount \in Nat /\ Len(kv) \in Nat
      /\ submitted \in Nat /\ queue \in Seq(Task) /\ Len(queue) \in Nat
  BY ChatAssumption, LenProperties DEF IInv, TypeOK
<1>1. ASSUME NEW kind \in Kinds, Submit(kind) PROVE InOrderOK'
  <2> DEFINE t == [id |-> submitted + 1, kind |-> kind]
  <2>1. queue' = Append(queue, t) /\ submitted' = submitted + 1
        /\ UNCHANGED <<kv, systemTokenCount>>
    BY <1>1 DEF Submit
  <2>2. t \in Task
    <3>1. submitted + 1 \in 1..MaxTasks
      BY <1>0, <1>1, ChatAssumption DEF Submit
    <3> QED BY <3>1, <1>1 DEF Task
  <2> HIDE DEF t
  <2>3. Len(queue') = Len(queue) + 1
    BY <1>0, <2>1, <2>2, AppendProperties
  <2> QED BY <1>0, <2>1, <2>3, QuietKeepsOrder
<1>2. CASE Pop
  <2>1. queue # <<>> /\ queue' = Tail(queue)
        /\ UNCHANGED <<kv, systemTokenCount, submitted>>
    BY <1>2 DEF Pop
  <2>2. Len(queue') = Len(queue) - 1
    BY <1>0, <2>1, HeadTailProperties
  <2> QED BY <1>0, <2>1, <2>2, QuietKeepsOrder
<1>3. CASE UNCHANGED <<kv, systemTokenCount, submitted, queue>>
  BY <1>0, <1>3, QuietKeepsOrder
<1>4. CASE ChatAppend \/ Generate
  <2>1. Busy /\ UNCHANGED <<systemTokenCount, submitted, queue>>
        /\ (kv' = kv \/ kv' = Append(kv, TurnToken))
    BY <1>4 DEF ChatAppend, Generate, Busy
  <2> QED BY <1>3, <2>1, GrowthKeepsOrder
<1>5. CASE AbortRewind
  <2>1. UNCHANGED <<systemTokenCount, submitted, queue>>
        /\ (kv' = kv \/ kv' = SubSeq(kv, 1, before))
    BY <1>5 DEF AbortRewind
  <2>2. before \in 0..Len(kv)
    BY <1>0, <1>5 DEF AbortRewind, IInv, KvOK, TypeOK
  <2> QED BY <1>3, <2>1, <2>2, CutKeepsOrder
<1>6. CASE Reset
  <2>1. UNCHANGED <<systemTokenCount, submitted, queue>>
        /\ (kv' = kv \/ kv' = SubSeq(kv, 1, systemTokenCount))
    BY <1>6 DEF Reset
  <2>2. systemTokenCount \in 0..Len(kv)
    BY <1>0 DEF IInv, KvOK, SystemPromptFirst
  <2> QED BY <1>3, <2>1, <2>2, CutKeepsOrder
<1>7. CASE RestartReplace \/ RestartStart
  <2>1. CASE UNCHANGED <<kv, systemTokenCount>>
    BY <1>3, <1>7, <2>1 DEF RestartReplace, RestartStart
  <2>2. CASE kv' = <<>> /\ systemTokenCount' = 0
    BY <2>2 DEF InOrderOK, MemoryInOrder
  <2>3. CASE systemTokenCount' = Len(kv')
    <3>1. Len(kv') \in Nat
      BY LenProperties DEF IInv, TypeOK
    <3> QED BY <2>3, <3>1 DEF InOrderOK, MemoryInOrder
  <2> QED BY <1>7, <2>1, <2>2, <2>3 DEF RestartReplace, RestartStart
<1>8. CASE \/ \E k \in Stoppers : StopRead(k) \/ StopSet(k)
           \/ Shutdown \/ UNCHANGED vars
  BY <1>3, <1>8 DEF StopRead, StopSet, Shutdown, vars
<1>9. CASE \/ Exit \/ ChatClear \/ GenerateDone \/ GenerateThrows
           \/ AbortClear \/ Answer
  BY <1>3, <1>9 DEF Exit, ChatClear, GenerateDone, GenerateThrows, AbortClear, Answer
<1> QED
  BY <1>1, <1>2, <1>4, <1>5, <1>6, <1>7, <1>8, <1>9 DEF Next, Worker

\* The turns in the cache are in the order they were submitted.
THEOREM MemoryOrderTheorem == Spec => []MemoryInOrder
<1>1. Init => InOrderOK
  <2>1. Init => systemTokenCount = 1 /\ kv = <<SystemToken(0)>>
    BY DEF Init
  <2>2. Len(<<SystemToken(0)>>) = 1
    OBVIOUS
  <2>3. Init => (systemTokenCount + 1)..Len(kv) = {}
    BY <2>1, <2>2
  <2> QED BY <2>3 DEF InOrderOK, MemoryInOrder
<1>2. IInv /\ IInv' /\ InOrderOK /\ [Next]_vars => InOrderOK'
  BY InOrderStep
<1>3. InOrderOK => MemoryInOrder
  BY DEF InOrderOK
<1> QED BY <1>1, <1>2, <1>3, Inductive, PTL DEF Spec, Safety

-----------------------------------------------------------------------------
(* What the cache leaves out. *)

\* The turns of the first n tokens.
Turns(n) == {kv[i].of : i \in (systemTokenCount + 1)..n}

\* In a turn, what it has added lies above the completed turns.
ConversationOK ==
  ~dirty =>
    /\ pc \notin {"generate", "abort", "rewind"} => Turns(Len(kv)) = completed
    /\ pc \in {"generate", "abort", "rewind"} =>
         /\ Turns(before) = completed
         /\ \A i \in (before + 1)..Len(kv) : kv[i].of = task.id

\* A step outside the tokens of a turn that keeps the cache and what is
\* completed.
LEMMA QuietKeepsConversation ==
  ASSUME ConversationOK,
         UNCHANGED <<kv, systemTokenCount, completed, dirty>>,
         \/ UNCHANGED <<pc, before, task>>
         \/ /\ pc \notin {"generate", "abort", "rewind"}
            /\ pc' \notin {"generate", "abort", "rewind"}
         \/ /\ pc \in {"generate", "abort", "rewind"}
            /\ pc' \in {"generate", "abort", "rewind"}
            /\ UNCHANGED <<before, task>>
  PROVE  ConversationOK'
BY DEF ConversationOK, Turns

\* A new token, in a turn that has begun at n.
LEMMA GrowthKeepsConversation ==
  ASSUME IInv, kv' = Append(kv, TurnToken), systemTokenCount' = systemTokenCount,
         NEW n \in 0..Len(kv), \A i \in (n + 1)..Len(kv) : kv[i].of = task.id
  PROVE  /\ \A i \in 1..n : kv'[i] = kv[i]
         /\ \A i \in (n + 1)..Len(kv') : kv'[i].of = task.id
<1>1. kv \in Seq(Token) /\ Len(kv) \in Nat
  BY LenProperties DEF IInv, TypeOK
<1>2. /\ Len(kv') = Len(kv) + 1
      /\ \A i \in 1..Len(kv) : kv'[i] = kv[i]
      /\ kv'[Len(kv) + 1].of = task.id
  BY <1>1, TokensAreTyped, Grow DEF IInv, TurnToken
<1>3. \A i \in 1..n : kv'[i] = kv[i]
  BY <1>1, <1>2
<1>4. \A i \in (n + 1)..Len(kv') : i = Len(kv) + 1 \/ i \in (n + 1)..Len(kv)
  BY <1>1, <1>2
<1>5. \A i \in (n + 1)..Len(kv) : i \in 1..Len(kv)
  BY <1>1
<1>6. ASSUME NEW i \in (n + 1)..Len(kv') PROVE kv'[i].of = task.id
  BY <1>2, <1>4, <1>5
<1> QED BY <1>3, <1>6

\* The turns of a prefix depend on that prefix only.
LEMMA TurnsOfPrefix ==
  ASSUME NEW n \in Nat, systemTokenCount \in Nat,
         systemTokenCount' = systemTokenCount,
         \A i \in 1..n : kv'[i] = kv[i]
  PROVE  {kv'[i].of : i \in (systemTokenCount' + 1)..n} = Turns(n)
<1>1. \A i \in (systemTokenCount + 1)..n : kv'[i] = kv[i]
  OBVIOUS
<1> QED BY <1>1 DEF Turns

LEMMA ConversationStep ==
  ASSUME IInv, IInv', ConversationOK, [Next]_vars
  PROVE  ConversationOK'
<1> USE DEF generator, history
<1>0. /\ kv \in Seq(Token) /\ systemTokenCount \in Nat /\ Len(kv) \in Nat
      /\ before \in Nat /\ Len(kv') \in Nat
  BY LenProperties DEF IInv, TypeOK
<1>1. CASE \/ \E kind \in Kinds : Submit(kind)
           \/ \E k \in Stoppers : StopRead(k) \/ StopSet(k)
           \/ Shutdown \/ UNCHANGED vars
  BY <1>1, QuietKeepsConversation DEF Submit, StopRead, StopSet, Shutdown, vars
<1>2. CASE Pop
  <2>1. pc' \in {"clear", "reset", "restart"}
    <3>1. queue \in Seq(Task) /\ queue # <<>>
      BY <1>2 DEF IInv, TypeOK, Pop
    <3>2. Head(queue) \in Task
      BY <3>1, HeadTailProperties
    <3> QED BY <1>2, <3>2 DEF Pop, FirstLabel, Task, Kinds
  <2> QED BY <1>2, <2>1, QuietKeepsConversation DEF Pop
<1>3. CASE Exit \/ ChatClear \/ GenerateThrows \/ Answer
  BY <1>3, QuietKeepsConversation DEF Exit, ChatClear, GenerateThrows, Answer
<1>4. CASE ChatAppend
  <2>1. CASE kv' = kv /\ pc' = "answer"
    BY <1>4, <2>1, QuietKeepsConversation DEF ChatAppend
  <2>2. CASE kv' = Append(kv, TurnToken) /\ pc' = "generate"
    <3>1. /\ before' = Len(kv) /\ pc = "append"
          /\ UNCHANGED <<systemTokenCount, completed, dirty, task>>
      BY <1>4 DEF ChatAppend
    <3>2. Len(kv) \in 0..Len(kv)
          /\ \A i \in (Len(kv) + 1)..Len(kv) : kv[i].of = task.id
      BY <1>0
    <3>3. /\ \A i \in 1..Len(kv) : kv'[i] = kv[i]
          /\ \A i \in (Len(kv) + 1)..Len(kv') : kv'[i].of = task.id
      BY <2>2, <3>1, <3>2, GrowthKeepsConversation
    <3>4. (Turns(before))' = Turns(Len(kv))
      BY <1>0, <3>1, <3>3, TurnsOfPrefix DEF Turns
    <3> QED BY <2>2, <3>1, <3>3, <3>4 DEF ConversationOK
  <2> QED BY <1>4, <2>1, <2>2 DEF ChatAppend
<1>5. CASE Generate
  <2>1. /\ kv' = Append(kv, TurnToken) /\ pc = "generate"
        /\ UNCHANGED <<pc, before, systemTokenCount, completed, dirty, task>>
    BY <1>5 DEF Generate
  <2>2. before \in 0..Len(kv)
    BY <1>0, <2>1 DEF IInv, KvOK
  <2> SUFFICES ASSUME ~dirty PROVE ConversationOK'
    BY <2>1 DEF ConversationOK
  <2>3. /\ Turns(before) = completed
        /\ \A i \in (before + 1)..Len(kv) : kv[i].of = task.id
    BY <2>1 DEF ConversationOK
  <2>4. /\ \A i \in 1..before : kv'[i] = kv[i]
        /\ \A i \in (before + 1)..Len(kv') : kv'[i].of = task.id
    BY <2>1, <2>2, <2>3, GrowthKeepsConversation
  <2>5. (Turns(before))' = Turns(before)
    BY <1>0, <2>1, <2>4, TurnsOfPrefix DEF Turns
  <2> QED BY <2>1, <2>3, <2>4, <2>5 DEF ConversationOK
<1>6. CASE GenerateDone
  <2>1. /\ pc = "generate" /\ pc' = "answer"
        /\ UNCHANGED <<kv, systemTokenCount, dirty>>
        /\ completed' = completed \union {task.id}
    BY <1>6 DEF GenerateDone
  <2>2. systemTokenCount <= before /\ before < Len(kv)
    BY <2>1 DEF IInv, KvOK
  <2> SUFFICES ASSUME ~dirty PROVE ConversationOK'
    BY <2>1 DEF ConversationOK
  <2>3. /\ Turns(before) = completed
        /\ \A i \in (before + 1)..Len(kv) : kv[i].of = task.id
    BY <2>1 DEF ConversationOK
  <2>4. (systemTokenCount + 1)..Len(kv)
          = ((systemTokenCount + 1)..before) \union ((before + 1)..Len(kv))
    BY <1>0, <2>2
  <2>5. Len(kv) \in (before + 1)..Len(kv)
    BY <1>0, <2>2
  <2>6. Turns(Len(kv)) = Turns(before) \union {task.id}
    BY <2>3, <2>4, <2>5 DEF Turns
  <2>7. (Turns(Len(kv)))' = Turns(Len(kv))
    BY <2>1 DEF Turns
  <2> QED BY <2>1, <2>3, <2>6, <2>7 DEF ConversationOK
<1>7. CASE AbortClear
  <2>1. CASE pc' = "rewind" /\ UNCHANGED dirty
    BY <1>7, <2>1, QuietKeepsConversation DEF AbortClear
  <2>2. CASE dirty'
    BY <2>2 DEF ConversationOK
  <2> QED BY <1>7, <2>1, <2>2 DEF AbortClear
<1>8. CASE AbortRewind
  <2>1. CASE dirty'
    BY <2>1 DEF ConversationOK
  <2>2. CASE kv' = SubSeq(kv, 1, before) /\ UNCHANGED dirty
    <3>1. /\ pc = "rewind" /\ pc' = "answer"
          /\ UNCHANGED <<systemTokenCount, completed>>
      BY <1>8 DEF AbortRewind
    <3>2. before \in 0..Len(kv)
      BY <1>0, <3>1 DEF IInv, KvOK
    <3>3. Len(kv') = before /\ \A i \in 1..before : kv'[i] = kv[i]
      BY <1>0, <2>2, <3>2, Rewind
    <3>4. (Turns(Len(kv)))' = Turns(before)
      BY <1>0, <3>1, <3>3, TurnsOfPrefix DEF Turns
    <3> QED BY <2>2, <3>1, <3>4 DEF ConversationOK
  <2> QED BY <1>8, <2>1, <2>2 DEF AbortRewind
<1>9. CASE Reset
  <2>1. CASE UNCHANGED <<kv, completed, dirty>>
    BY <1>9, <2>1, QuietKeepsConversation DEF Reset
  <2>2. CASE kv' = SubSeq(kv, 1, systemTokenCount) /\ completed' = {}
    <3>1. systemTokenCount \in 0..Len(kv)
      BY <1>0 DEF IInv, KvOK, SystemPromptFirst
    <3>2. Len(kv') = systemTokenCount
      BY <1>0, <2>2, <3>1, Rewind
    <3>3. systemTokenCount' = systemTokenCount /\ pc' = "answer"
      BY <1>9 DEF Reset
    <3>4. (systemTokenCount' + 1)..Len(kv') = {}
      BY <1>0, <3>2, <3>3
    <3> QED BY <2>2, <3>3, <3>4 DEF ConversationOK, Turns
  <2> QED BY <1>9, <2>1, <2>2 DEF Reset
<1>10. CASE RestartReplace
  <2>1. CASE UNCHANGED <<kv, systemTokenCount, completed, dirty>> /\ pc' = "answer"
    BY <1>10, <2>1, QuietKeepsConversation DEF RestartReplace
  <2>2. CASE kv' = <<>> /\ systemTokenCount' = 0 /\ completed' = {} /\ pc' = "start"
    <3>1. (systemTokenCount' + 1)..Len(kv') = {}
      BY <2>2, EmptySeq
    <3> QED BY <2>2, <3>1 DEF ConversationOK, Turns
  <2> QED BY <1>10, <2>1, <2>2 DEF RestartReplace
<1>11. CASE RestartStart
  <2>1. /\ pc = "start" /\ pc' = "answer" /\ UNCHANGED <<completed, dirty>>
    BY <1>11 DEF RestartStart
  <2>2. CASE UNCHANGED <<kv, systemTokenCount>>
    BY <2>1, <2>2, QuietKeepsConversation
  <2>3. CASE systemTokenCount' = Len(kv')
    <3>1. (systemTokenCount' + 1)..Len(kv') = {}
      BY <1>0, <2>3
    <3>2. (systemTokenCount + 1)..Len(kv) = {}
      BY <2>1, EmptySeq DEF IInv, KvOK
    <3> QED BY <2>1, <3>1, <3>2 DEF ConversationOK, Turns
  <2> QED BY <1>11, <2>2, <2>3 DEF RestartStart
<1> QED
  BY <1>1, <1>2, <1>3, <1>4, <1>5, <1>6, <1>7, <1>8, <1>9, <1>10, <1>11
  DEF Next, Worker

\* Between turns the cache remembers exactly the turns that ran to their end:
\* nothing of one that was stopped or failed, as long as rewinding works.
THEOREM MemoryTheorem == Spec => []MemoryIsConversation
<1>1. Init => ConversationOK
  <2> SUFFICES ASSUME Init PROVE ConversationOK
    OBVIOUS
  <2>1. /\ systemTokenCount = 1 /\ kv = <<SystemToken(0)>>
        /\ completed = {} /\ pc = "pop"
    BY DEF Init
  <2>2. (systemTokenCount + 1)..Len(kv) = {}
    BY <2>1
  <2> QED BY <2>1, <2>2 DEF ConversationOK, Turns
<1>2. IInv /\ IInv' /\ ConversationOK /\ [Next]_vars => ConversationOK'
  BY ConversationStep
<1>3. ConversationOK => MemoryIsConversation
  BY DEF ConversationOK, MemoryIsConversation, InTurn, ChatLabels, Turns
<1> QED BY <1>1, <1>2, <1>3, Inductive, PTL DEF Spec, Safety

-----------------------------------------------------------------------------
(* What the sessions rely on. *)

\* Each step of the worker and of the other threads is a step of the contract,
\* or changes nothing a session can see.
LEMMA ContractStep ==
  ASSUME IInv, [Next]_vars
  PROVE  [Contract!Next]_Contract!vars
<1> USE DEF generator, history, Contract!vars
<1>1. ASSUME NEW kind \in Kinds, Submit(kind) PROVE Contract!Next
  <2> DEFINE t == [id |-> submitted + 1, kind |-> kind]
  <2>1. t \in Task
    <3>1. submitted + 1 \in 1..MaxTasks
      BY <1>1, ChatAssumption DEF Submit, IInv, TypeOK
    <3> QED BY <1>1, <3>1 DEF Task
  <2>2. Contract!Submit(t)
    BY <1>1 DEF Submit, Contract!Submit
  <2> HIDE DEF t
  <2> QED BY <2>1, <2>2 DEF Contract!Next
<1>2. CASE Pop
  <2>1. task = NoTask
    BY <1>2 DEF Pop, IInv, OrderOK, Busy
  <2> QED BY <1>2, <2>1 DEF Pop, Contract!Start, Contract!Next
<1>3. CASE Answer
  <2>1. task # NoTask
    <3>1. task \in Task
      BY <1>3 DEF Answer, IInv, OrderOK, Busy
    <3>2. task.id # 0
      BY <3>1 DEF Task
    <3> QED BY <3>2 DEF NoTask
  <2> QED BY <1>3, <2>1 DEF Answer, Contract!Finish, Contract!Next
<1>4. CASE Shutdown
  BY <1>4 DEF Shutdown, Contract!Close, Contract!Next
<1>5. CASE UNCHANGED <<queue, task, stop>>
  BY <1>5
<1>6. CASE \/ \E k \in Stoppers : StopRead(k) \/ StopSet(k)
           \/ UNCHANGED vars
  BY <1>5, <1>6 DEF StopRead, StopSet, vars
<1>7. CASE \/ Exit \/ ChatClear \/ ChatAppend
           \/ Generate \/ GenerateDone \/ GenerateThrows
  <2>1. UNCHANGED <<queue, task, stop>>
    BY <1>7 DEF Exit, ChatClear, ChatAppend, Generate, GenerateDone, GenerateThrows
  <2> QED BY <1>5, <2>1
<1>8. CASE AbortClear \/ AbortRewind \/ Reset \/ RestartReplace \/ RestartStart
  <2>1. UNCHANGED <<queue, task, stop>>
    BY <1>8 DEF AbortClear, AbortRewind, Reset, RestartReplace, RestartStart
  <2> QED BY <1>5, <2>1
<1> QED BY <1>1, <1>2, <1>3, <1>4, <1>6, <1>7, <1>8 DEF Next, Worker

\* ChatService implements the safety of the contract WsSession is built on.
THEOREM ContractTheorem == Spec => Contract!Safety
<1>1. Init => Contract!Init
  BY DEF Init, Contract!Init
<1>2. IInv /\ [Next]_vars => [Contract!Next]_Contract!vars
  BY ContractStep
<1> QED BY <1>1, <1>2, Inductive, PTL DEF Spec, Safety, Contract!Safety
=============================================================================
