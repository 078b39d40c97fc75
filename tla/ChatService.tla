------------------------------ MODULE ChatService ------------------------------
(***************************************************************************)
(* src/src/server/chat_service.cpp and src/src/engine/llm/genai_llm.cpp: the *)
(* LLM worker, its task queue, and the one generator (KV cache) all          *)
(* sessions share.  A step of the worker ends where another thread can make  *)
(* a difference: RequestStop sets the generator's terminate_session option   *)
(* at any time, from any thread, and with no lock.                           *)
(*                                                                         *)
(* The onnxruntime-genai library is outside the repository: its calls are    *)
(* modelled as the code uses them.  Any of them may throw; an append that    *)
(* throws has appended nothing.                                              *)
(***************************************************************************)
EXTENDS Integers, Sequences, FiniteSets

CONSTANTS
  Stoppers,   \* the threads that call RequestStop
  Capacity,   \* queue{64}
  MaxLength,  \* max_length: tokens in the KV cache
  MaxTasks    \* bound: tasks submitted

ASSUME ChatAssumption ==
  /\ Capacity \in Nat \ {0}
  /\ MaxLength \in Nat \ {0}
  /\ MaxTasks \in Nat

VARIABLES
  queue,             \* queue
  stop,              \* worker.request_stop() has been called
  pc,                \* where the worker is
  task,              \* the task it is on
  kv,                \* the token sequence of the generator
  systemTokenCount,  \* system_token_count
  before,            \* tokens_before_turn
  terminate,         \* the generator's terminate_session option
  gen,               \* which generator the unique_ptr holds
  ptr,               \* ptr[k]: the generator stopper k has dereferenced and is
                     \* about to use, 0 outside RequestStop
  \* History, read by the properties only.
  submitted,         \* tasks submitted so far: the next one's id is one more
  answered,          \* the ids of the tasks whose callback was made, in order
  completed,         \* chat turns that ran to their end since the last reset
  dirty,             \* a rewind has failed since then
  stopped            \* a RequestStop on the generator in use has been completed
                     \* in this turn: "early", before its ChatClear, or "late"

generator == <<kv, systemTokenCount, before, terminate, gen>>
history == <<answered, completed, dirty, stopped>>
vars == <<queue, stop, pc, task, generator, ptr, submitted, history>>

Kinds == {"chat", "reset", "restart"}
Task == [id : 1..MaxTasks, kind : Kinds]
NoTask == [id |-> 0, kind |-> "none"]

\* A token of the system prompt set by restart task "of" (0: at start-up), or
\* of the chat turn "of" (its prompt and its reply alike).
Token == [sys : BOOLEAN, of : 0..MaxTasks]

ChatLabels == {"clear", "append", "generate", "abort", "rewind"}
Labels == {"pop", "answer", "reset", "restart", "start", "exited"} \union ChatLabels

TypeOK ==
  /\ queue \in Seq(Task)
  /\ stop \in BOOLEAN
  /\ pc \in Labels
  /\ task \in Task \union {NoTask}
  /\ kv \in Seq(Token)
  /\ systemTokenCount \in {0, 1}
  /\ before \in Nat
  /\ terminate \in BOOLEAN
  /\ gen \in 1..(MaxTasks + 1)
  /\ ptr \in [Stoppers -> 0..(MaxTasks + 1)]
  /\ submitted \in 0..MaxTasks
  /\ answered \in Seq(1..MaxTasks)
  /\ completed \subseteq 1..MaxTasks
  /\ dirty \in BOOLEAN
  /\ stopped \subseteq {"early", "late"}

SystemToken(id) == [sys |-> TRUE, of |-> id]
TurnToken == [sys |-> FALSE, of |-> task.id]

\* After Create: a model, a session with its system prompt, an idle worker.
Init ==
  /\ queue = <<>>
  /\ stop = FALSE
  /\ pc = "pop"
  /\ task = NoTask
  /\ kv = <<SystemToken(0)>>
  /\ systemTokenCount = 1
  /\ before = 0
  /\ terminate = FALSE
  /\ gen = 1
  /\ ptr = [k \in Stoppers |-> 0]
  /\ submitted = 0
  /\ answered = <<>>
  /\ completed = {}
  /\ dirty = FALSE
  /\ stopped = {}

-----------------------------------------------------------------------------
(* Calls from other threads. *)

\* SubmitChat, SubmitReset, SubmitRestart.  On a full queue the caller waits,
\* or, once the worker is stopping, its task is dropped: no step either way.
Submit(kind) ==
  /\ submitted < MaxTasks
  /\ Len(queue) < Capacity
  /\ queue' = Append(queue, [id |-> submitted + 1, kind |-> kind])
  /\ submitted' = submitted + 1
  /\ UNCHANGED <<stop, pc, task, generator, ptr, history>>

\* RequestStop: impl_->generator-> ...
StopRead(k) ==
  /\ ptr[k] = 0
  /\ ptr' = [ptr EXCEPT ![k] = gen]
  /\ UNCHANGED <<queue, stop, pc, task, generator, submitted, history>>

\* ... ->SetRuntimeOption("terminate_session", "1").  On a generator that has
\* been replaced in between it does nothing to the current one.
StopSet(k) ==
  /\ ptr[k] # 0
  /\ terminate' = (terminate \/ ptr[k] = gen)
  /\ ptr' = [ptr EXCEPT ![k] = 0]
  /\ stopped' = IF pc \in ChatLabels /\ ptr[k] = gen
                THEN stopped \union {IF pc = "clear" THEN "early" ELSE "late"}
                ELSE stopped
  /\ UNCHANGED <<queue, stop, pc, task, kv, systemTokenCount, before, gen,
                 submitted, answered, completed, dirty>>

\* ~ChatService: worker.request_stop(); the RequestStop that follows is a
\* StopRead and a StopSet of the destroying thread.
Shutdown ==
  /\ ~stop
  /\ stop' = TRUE
  /\ UNCHANGED <<queue, pc, task, generator, ptr, submitted, history>>

-----------------------------------------------------------------------------
(* The worker: Run, and Handle(ChatTask) with GenAiLlm::Chat. *)

FirstLabel(kind) ==
  CASE kind = "chat" -> "clear"
    [] kind = "reset" -> "reset"
    [] kind = "restart" -> "restart"

\* Mutant: the newest task first.
BugPop ==
  /\ pc = "pop"
  /\ queue # <<>>
  /\ task' = queue[Len(queue)]
  /\ queue' = SubSeq(queue, 1, Len(queue) - 1)
  /\ pc' = FirstLabel(task'.kind)
  /\ UNCHANGED <<stop, generator, ptr, submitted, history>>

Pop ==
  /\ pc = "pop"
  /\ queue # <<>>
  /\ task' = Head(queue)
  /\ queue' = Tail(queue)
  /\ pc' = FirstLabel(Head(queue).kind)
  /\ UNCHANGED <<stop, generator, ptr, submitted, history>>

\* The stop request ends the loop only once the queue is empty.
Exit ==
  /\ pc = "pop"
  /\ queue = <<>>
  /\ stop
  /\ pc' = "exited"
  /\ UNCHANGED <<queue, stop, task, generator, ptr, submitted, history>>

\* Forget a RequestStop that came while idle; a failure is only logged.
ChatClear ==
  /\ pc = "clear"
  /\ terminate' \in {FALSE, terminate}
  /\ pc' = "append"
  /\ UNCHANGED <<queue, stop, task, kv, systemTokenCount, before, gen, ptr,
                 submitted, history>>

\* Mutant: the option is reset again once the prompt is appended.
BugChatAppend ==
  /\ pc = "append"
  /\ Len(kv) < MaxLength
  /\ before' = Len(kv)
  /\ kv' = Append(kv, TurnToken)
  /\ terminate' = FALSE
  /\ pc' = "generate"
  /\ UNCHANGED <<queue, stop, task, systemTokenCount, gen, ptr, submitted,
                 history>>

ChatAppend ==
  /\ pc = "append"
  /\ before' = Len(kv)
  /\ \/ /\ Len(kv) < MaxLength
        /\ kv' = Append(kv, TurnToken)
        /\ pc' = "generate"
     \/ /\ pc' = "answer"       \* the append threw: the turn is over
        /\ UNCHANGED kv
  /\ UNCHANGED <<queue, stop, task, systemTokenCount, terminate, gen, ptr,
                 submitted, history>>

\* One token and on_piece.
Generate ==
  /\ pc = "generate"
  /\ ~terminate
  /\ Len(kv) < MaxLength
  /\ kv' = Append(kv, TurnToken)
  /\ UNCHANGED <<queue, stop, pc, task, systemTokenCount, before, terminate,
                 gen, ptr, submitted, history>>

\* Mutant: a full cache is not an end.
BugGenerateDone ==
  /\ pc = "generate"
  /\ Len(kv) > before + 1
  /\ pc' = "answer"
  /\ completed' = completed \union {task.id}
  /\ UNCHANGED <<queue, stop, task, generator, ptr, submitted, answered, dirty,
                 stopped>>

\* IsDone: the reply has ended, or the cache is full.
GenerateDone ==
  /\ pc = "generate"
  /\ Len(kv) > before + 1 \/ Len(kv) = MaxLength
  /\ pc' = "answer"
  /\ completed' = completed \union {task.id}
  /\ UNCHANGED <<queue, stop, task, generator, ptr, submitted, answered, dirty,
                 stopped>>

\* GenerateNextToken throws: terminate_session is set, or the backend failed.
GenerateThrows ==
  /\ pc = "generate"
  /\ Len(kv) < MaxLength
  /\ pc' = "abort"
  /\ UNCHANGED <<queue, stop, task, generator, ptr, submitted, history>>

\* The catch: reset the option, then rewind; if either throws, neither is
\* tried again.
AbortClear ==
  /\ pc = "abort"
  /\ \/ terminate' = FALSE /\ pc' = "rewind" /\ UNCHANGED dirty
     \/ pc' = "answer" /\ dirty' = TRUE /\ UNCHANGED terminate
  /\ UNCHANGED <<queue, stop, task, kv, systemTokenCount, before, gen, ptr,
                 submitted, answered, completed, stopped>>

\* Mutant: rewinds to after the prompt of the turn.
BugAbortRewind ==
  /\ pc = "rewind"
  /\ kv' = SubSeq(kv, 1, before + 1)
  /\ pc' = "answer"
  /\ UNCHANGED <<queue, stop, task, systemTokenCount, before, terminate, gen,
                 ptr, submitted, answered, completed, dirty, stopped>>

AbortRewind ==
  /\ pc = "rewind"
  /\ \/ kv' = SubSeq(kv, 1, before) /\ UNCHANGED dirty
     \/ dirty' = TRUE /\ UNCHANGED kv
  /\ pc' = "answer"
  /\ UNCHANGED <<queue, stop, task, systemTokenCount, before, terminate, gen,
                 ptr, submitted, answered, completed, stopped>>

\* Mutant: on_done only for the turns that ran to their end.
BugAnswer ==
  /\ pc = "answer"
  /\ answered' = IF task.kind = "chat" /\ task.id \notin completed
                 THEN answered ELSE Append(answered, task.id)
  /\ pc' = "pop"
  /\ task' = NoTask
  /\ before' = 0
  /\ stopped' = {}
  /\ UNCHANGED <<queue, stop, kv, systemTokenCount, terminate, gen, ptr,
                 submitted, completed, dirty>>

\* The callback: on_done for a chat however it ended, done(ok) for the others.
Answer ==
  /\ pc = "answer"
  /\ answered' = Append(answered, task.id)
  /\ pc' = "pop"
  /\ task' = NoTask
  /\ before' = 0
  /\ stopped' = {}
  /\ UNCHANGED <<queue, stop, kv, systemTokenCount, terminate, gen, ptr,
                 submitted, completed, dirty>>

-----------------------------------------------------------------------------
(* Handle(ResetTask) and Handle(RestartTask). *)

\* Mutant: rewinds to nothing at all.
BugReset ==
  /\ pc = "reset"
  /\ kv' = <<>>
  /\ completed' = {}
  /\ dirty' = FALSE
  /\ pc' = "answer"
  /\ UNCHANGED <<queue, stop, task, systemTokenCount, before, terminate, gen,
                 ptr, submitted, answered, stopped>>

\* ResetSession: back to the system prompt.
Reset ==
  /\ pc = "reset"
  /\ \/ /\ kv' = SubSeq(kv, 1, systemTokenCount)
        /\ completed' = {}
        /\ dirty' = FALSE
     \/ UNCHANGED <<kv, completed, dirty>>
  /\ pc' = "answer"
  /\ UNCHANGED <<queue, stop, task, systemTokenCount, before, terminate, gen,
                 ptr, submitted, answered, stopped>>

\* RestartSession: a new generator, or an exception that leaves the old one.
RestartReplace ==
  /\ pc = "restart"
  /\ \/ /\ gen' = gen + 1
        /\ kv' = <<>>
        /\ systemTokenCount' = 0
        /\ terminate' = FALSE
        /\ completed' = {}
        /\ dirty' = FALSE
        /\ pc' = "start"
     \/ /\ terminate' \in {FALSE, terminate}
        /\ pc' = "answer"
        /\ UNCHANGED <<gen, kv, systemTokenCount, completed, dirty>>
  /\ UNCHANGED <<queue, stop, task, before, ptr, submitted, answered, stopped>>

\* StartSession: append the new system prompt and count it.
RestartStart ==
  /\ pc = "start"
  /\ \/ /\ kv' = Append(kv, SystemToken(task.id))
        /\ systemTokenCount' = Len(kv')
     \/ UNCHANGED <<kv, systemTokenCount>>
  /\ pc' = "answer"
  /\ UNCHANGED <<queue, stop, task, before, terminate, gen, ptr, submitted,
                 history>>

-----------------------------------------------------------------------------
Worker ==
  \/ Pop \/ Exit
  \/ ChatClear \/ ChatAppend \/ Generate \/ GenerateDone \/ GenerateThrows
  \/ AbortClear \/ AbortRewind
  \/ Reset \/ RestartReplace \/ RestartStart
  \/ Answer

Next ==
  \/ \E kind \in Kinds : Submit(kind)
  \/ \E k \in Stoppers : StopRead(k) \/ StopSet(k)
  \/ Shutdown
  \/ Worker

Safety == Init /\ [][Next]_vars

\* The worker thread is scheduled; every library call returns or throws.
Spec == Safety /\ WF_vars(Worker)

-----------------------------------------------------------------------------
(* Correctness. *)

InTurn == pc \in ChatLabels

\* The system prompt stays at the front of the cache, whole and alone: no
\* rewind, reset or restart cuts into it, moves it or repeats it.
\* (genai_llm.cpp:75, 129, 151, 162)
SystemPromptFirst ==
  /\ systemTokenCount <= Len(kv)
  /\ \A i \in 1..Len(kv) : kv[i].sys <=> i <= systemTokenCount

\* Between turns the cache remembers exactly the turns that ran to their end
\* since the last reset or restart: nothing of a stopped, failed or forgotten
\* one, unless a rewind has failed.  (genai_llm.h:44, genai_llm.cpp:123-133)
MemoryIsConversation ==
  ~InTurn /\ ~dirty =>
    {kv[i].of : i \in (systemTokenCount + 1)..Len(kv)} = completed

\* The turns in the cache are in the order they were submitted, each in one
\* piece.  (chat_service.cpp:37-48, genai_llm.cpp:97-101)
MemoryInOrder ==
  \A i, j \in (systemTokenCount + 1)..Len(kv) : i < j => kv[i].of <= kv[j].of

\* Every task is answered once and in order, however it ended: stopped, failed
\* or complete.  (chat_service.cpp:43-60)
AnsweredInOrder ==
  \A i \in 1..Len(answered) : answered[i] = i

\* A queued task is answered unless it was queued after the worker had left.
\* (chat_service.cpp:37-60, 92-109)
EveryTaskAnswered ==
  \A i \in 1..MaxTasks :
    (submitted >= i) ~>
      (i \in {answered[j] : j \in 1..Len(answered)} \/ pc = "exited")

\* After the stop request the worker ends: no generation goes on for ever.
\* (chat_service.cpp:65-70)
ShutdownCompletes == stop ~> (pc = "exited")

Contract == INSTANCE ChatContract WITH
  Tasks <- Task, running <- task, open <- ~stop

\* The worker does what the sessions rely on.  (chat_service.cpp:36-60)
ImplementsContract == Contract!Spec

\* From the moment the worker has reset the option for a turn, RequestStop is
\* final for it: not one token more.  (genai_llm.cpp:84-88, 112-137, 141-147)
StopIsFinal ==
  [][Generate => "late" \notin stopped]_vars

\* RequestStop interrupts the turn the worker is on, at once, wherever the
\* worker is in it.  (chat_service.h:42)
StopTakesEffect ==
  [][Generate => stopped = {}]_vars

=============================================================================
