--------------------------------- MODULE Server ---------------------------------
(***************************************************************************)
(* src/src/main.cpp: RunServer, with the loops of src/src/server/http_server.cpp *)
(* and what the threads and destructors of the services (chat_service.cpp,     *)
(* speech_service.cpp) and the callbacks of ws_session.cpp do to the objects    *)
(* RunServer owns.  The main thread is the IO thread.  Of a task only the       *)
(* connection it is for is kept; what the callbacks say and do to a turn is in  *)
(* WsSession and History, and what becomes of the model in ChatService.       *)
(***************************************************************************)
EXTENDS Process

CONSTANTS
  Conns,         \* the connections
  Capacity,      \* of each of the queues
  MaxTasks,      \* bound: items brought to queues
  MaxCalls       \* bound: callbacks made for a task

ASSUME ServerAssumption ==
  Capacity \in Nat \ {0} /\ MaxTasks \in Nat /\ MaxCalls \in Nat

Workers == {"llm", "tts", "audio"}
Threads == Workers \union {"main"}
Nothing == "nothing"

VARIABLES
  voiced,        \* ctx.speech is not null
  conn,          \* each connection: "none", "http", "ws" or "closed"
  queue,         \* the queue of each worker
  at,            \* each worker: "off", "wait", "work", "callback" or "exited"
  on,            \* the connection a thread's task or handler is for
  target,        \* the worker whose queue a thread is putting something into
  called,        \* callbacks made for the present task
  stopping,      \* the workers asked to stop
  signalled,     \* the signal_set has seen Ctrl+C
  tasks          \* items brought to queues

serverVars == <<voiced, conn, queue, at, on, target, called, stopping, signalled,
                tasks>>

ServerInit ==
  /\ voiced = FALSE /\ conn = [c \in Conns |-> "none"]
  /\ queue = [w \in Workers |-> <<>>] /\ at = [w \in Workers |-> "off"]
  /\ on = [t \in Threads |-> Nothing] /\ target = [t \in Threads |-> Nothing]
  /\ called = [w \in Workers |-> 0] /\ stopping = {} /\ signalled = FALSE
  /\ tasks = 0

\* A connection's WsSession is held by a handler or by a callback of these.
Held(c, workers) == \/ "ioc" \in alive /\ conn[c] = "ws"
                    \/ \E w \in workers : at[w] = "callback" /\ on[w] = c

-----------------------------------------------------------------------------
(* RunServer: in ... *)

Start(workers) == at' = [w \in Workers |-> IF w \in workers THEN "wait" ELSE at[w]]

CreateChat ==
  /\ pc = "chat"
  /\ \/ /\ Go("speech") /\ alive' = alive \union {"chat"} /\ Start({"llm"})
        /\ UNCHANGED code
     \/ ReturnFailed("leave") /\ UNCHANGED <<alive, at>>
  /\ UNCHANGED <<exit, sigint, interrupts, inside, stray, voiced, conn, queue, on,
                 target, called, stopping, signalled, tasks>>

\* Without the speech models it goes on, for text only.
CreateSpeech ==
  /\ pc = "speech"
  /\ Go("store")
  /\ \/ /\ voiced' = TRUE /\ alive' = alive \union {"speech", "tts_worker"}
        /\ Start({"tts", "audio"})
     \/ UNCHANGED <<voiced, alive, at>>
  /\ UNCHANGED <<code, exit, sigint, interrupts, inside, stray, conn, queue, on,
                 target, called, stopping, signalled, tasks>>

\* SessionStore::Open, and the io_context.
OpenStore ==
  /\ pc = "store"
  /\ \/ Go("listen") /\ alive' = alive \union {"store", "ioc"} /\ UNCHANGED code
     \/ ReturnFailed("~speech") /\ UNCHANGED alive
  /\ UNCHANGED <<exit, sigint, interrupts, inside, stray, serverVars>>

\* StartHttpServer
Listen ==
  /\ pc = "listen"
  /\ \/ Go("run") /\ sigint' = "asio" /\ UNCHANGED code
     \/ ReturnFailed("~ioc") /\ UNCHANGED sigint
  /\ UNCHANGED <<exit, interrupts, alive, inside, stray, serverVars>>

(* ... through ioc.run() ... *)

AtLoop == pc = "run" /\ target["main"] = Nothing

\* An accept, and a coroutine that reads from it.
Accept(c) ==
  /\ AtLoop /\ conn[c] = "none"
  /\ conn' = [conn EXCEPT ![c] = "http"]
  /\ UNCHANGED <<processVars, voiced, queue, at, on, target, called, stopping, signalled,
                 tasks>>

\* A request is answered and the connection kept, which changes nothing, or it
\* is upgraded, or it is over: no keep-alive, 30 seconds of silence, an error.
Request(c) ==
  /\ AtLoop /\ conn[c] = "http"
  /\ conn' \in {[conn EXCEPT ![c] = "ws"], [conn EXCEPT ![c] = "closed"]}
  /\ UNCHANGED <<processVars, voiced, queue, at, on, target, called, stopping, signalled,
                 tasks>>

Disconnect(c) ==
  /\ AtLoop /\ conn[c] = "ws"
  /\ conn' = [conn EXCEPT ![c] = "closed"]
  /\ UNCHANGED <<processVars, voiced, queue, at, on, target, called, stopping, signalled,
                 tasks>>

\* A handler that has something for a worker: a turn, a reset or a new role for
\* the model, audio or the end of it for the recogniser.
Message(c) ==
  /\ AtLoop /\ conn[c] = "ws" /\ tasks < MaxTasks
  /\ \E w \in {"llm", "audio"} :
       /\ w = "audio" => voiced
       /\ target' = [target EXCEPT !["main"] = w]
  /\ on' = [on EXCEPT !["main"] = c]
  /\ tasks' = tasks + 1
  /\ UNCHANGED <<processVars, voiced, conn, queue, at, called, stopping, signalled>>

\* Ctrl+C reaches the signal_set ...
Signal ==
  /\ sigint = "asio" /\ interrupts < MaxInterrupts
  /\ interrupts' = interrupts + 1
  /\ signalled' = TRUE
  /\ UNCHANGED <<pc, code, exit, sigint, alive, inside, stray, voiced, conn, queue, at, on,
                 target, called, stopping, tasks>>

\* ... and its handler stops the loop, once the handler under way is over.  The
\* signal_set is destroyed first.
StopLoop ==
  /\ AtLoop /\ signalled
  /\ Go("~ioc") /\ sigint' = "default"
  /\ UNCHANGED <<code, exit, interrupts, alive, inside, stray, serverVars>>

(* ... and out: the destructors. *)

\* With the io_context its handlers go, and the sessions they held.  A session
\* that a callback holds is still there, and its callbacks go on finding it.
DestroyLoop ==
  /\ pc = "~ioc"
  /\ alive' = alive \ {"ioc"}
  /\ conn' = [c \in Conns |-> "closed"]
  /\ inside' = inside \union {on[w] : w \in {u \in Workers : at[u] = "callback"}}
  /\ Go("~store")
  /\ UNCHANGED <<code, exit, sigint, interrupts, stray, voiced, queue, at, on, target,
                 called, stopping, signalled, tasks>>

DestroyStore ==
  /\ pc = "~store"
  /\ alive' = alive \ {"store"}
  /\ Go("~speech")
  /\ UNCHANGED <<code, exit, sigint, interrupts, inside, stray, serverVars>>

Exited(w) == at[w] \in {"off", "exited"}

StopSpeech ==
  /\ pc = "~speech"
  /\ stopping' = {"audio", "tts"}
  /\ Go("join tts")
  /\ UNCHANGED <<code, exit, sigint, interrupts, alive, inside, stray, voiced, conn, queue,
                 at, on, target, called, signalled, tasks>>

\* tts_worker is declared last: it is joined, and gone, before audio_worker.
JoinTts ==
  /\ pc = "join tts" /\ Exited("tts")
  /\ alive' = alive \ {"tts_worker"}
  /\ Go("join audio")
  /\ UNCHANGED <<code, exit, sigint, interrupts, inside, stray, serverVars>>

JoinAudio ==
  /\ pc = "join audio" /\ Exited("audio")
  /\ alive' = alive \ {"speech"}
  /\ Go("~chat")
  /\ UNCHANGED <<code, exit, sigint, interrupts, inside, stray, serverVars>>

StopChat ==
  /\ pc = "~chat"
  /\ stopping' = stopping \union {"llm"}
  /\ Go("join chat")
  /\ UNCHANGED <<code, exit, sigint, interrupts, alive, inside, stray, voiced, conn, queue,
                 at, on, target, called, signalled, tasks>>

JoinChat ==
  /\ pc = "join chat" /\ Exited("llm")
  /\ alive' = alive \ {"chat"}
  /\ Go("leave")
  /\ UNCHANGED <<code, exit, sigint, interrupts, inside, stray, serverVars>>

-----------------------------------------------------------------------------
(* BoundedQueue::Push, with the stop token of the worker that empties the queue. *)

Service(w) == IF w = "llm" THEN "chat" ELSE "speech"

\* What bringing something to w uses: SubmitSentence and SubmitTtsDoneMarker ask
\* tts_worker for the token, on whichever thread they run.
Needed(w) == {Service(w)} \union (IF w = "tts" THEN {"tts_worker"} ELSE {})

Push(t) ==
  LET w == target[t]
  IN  /\ w # Nothing
      /\ Service(w) \in alive => Len(queue[w]) < Capacity
      /\ queue' = IF Service(w) \in alive
                  THEN [queue EXCEPT ![w] = Append(@, on[t])] ELSE queue
      /\ Use(on[t], Needed(w))
      /\ target' = [target EXCEPT ![t] = Nothing]
      /\ UNCHANGED <<pc, code, exit, sigint, interrupts, alive, inside, voiced, conn, at,
                     on, called, stopping, signalled, tasks>>

\* Mutant: the wait does not end with a stop request.
BugGiveUp(t) == FALSE /\ UNCHANGED <<processVars, serverVars>>

GiveUp(t) ==
  LET w == target[t]
  IN  /\ w \in stopping /\ Len(queue[w]) >= Capacity
      /\ target' = [target EXCEPT ![t] = Nothing]
      /\ Use(on[t], Needed(w))
      /\ UNCHANGED <<pc, code, exit, sigint, interrupts, alive, inside, voiced, conn,
                     queue, at, on, called, stopping, signalled, tasks>>

-----------------------------------------------------------------------------
(* The workers: ChatService's, the TTS and the audio thread. *)

Take(w) ==
  /\ at[w] = "wait" /\ queue[w] # <<>>
  /\ at' = [at EXCEPT ![w] = "work"]
  /\ on' = [on EXCEPT ![w] = Head(queue[w])]
  /\ queue' = [queue EXCEPT ![w] = Tail(@)]
  /\ called' = [called EXCEPT ![w] = 0]
  /\ UNCHANGED <<processVars, voiced, conn, target, stopping, signalled, tasks>>

\* A stop request ends the loop once the queue is empty.
Exit(w) ==
  /\ at[w] = "wait" /\ queue[w] = <<>> /\ w \in stopping
  /\ at' = [at EXCEPT ![w] = "exited"]
  /\ UNCHANGED <<processVars, voiced, conn, queue, on, target, called, stopping,
                 signalled, tasks>>

\* Mutant: the callbacks own the session they belong to.
BugCall(w) ==
  /\ at[w] = "work" /\ called[w] < MaxCalls
  /\ at' = [at EXCEPT ![w] = "callback"]
  /\ called' = [called EXCEPT ![w] = @ + 1]
  /\ UNCHANGED <<processVars, voiced, conn, queue, on, target, stopping, signalled,
                 tasks>>

\* A callback, whose weak.lock() finds the session ...
Call(w) ==
  /\ at[w] = "work" /\ called[w] < MaxCalls /\ Held(on[w], Workers)
  /\ at' = [at EXCEPT ![w] = "callback"]
  /\ called' = [called EXCEPT ![w] = @ + 1]
  /\ UNCHANGED <<processVars, voiced, conn, queue, on, target, stopping, signalled,
                 tasks>>

\* ... stores messages and sends, through the executor of the session ...
CallbackUses(w) ==
  /\ at[w] = "callback" /\ target[w] = Nothing
  /\ Use(on[w], IF w = "tts" THEN {"ioc"} ELSE {"ioc", "store", "chat"})
  /\ UNCHANGED <<pc, code, exit, sigint, interrupts, alive, inside, serverVars>>

\* ... and gives work to others: sentences from on_delta, on_done and a tool's
\* reply, a turn from on_utterance.
CallbackSubmits(w) ==
  /\ at[w] = "callback" /\ target[w] = Nothing /\ tasks < MaxTasks
  /\ \/ w \in {"llm", "audio"} /\ voiced /\ target' = [target EXCEPT ![w] = "tts"]
     \/ w = "audio" /\ target' = [target EXCEPT ![w] = "llm"]
  /\ tasks' = tasks + 1
  /\ UNCHANGED <<processVars, voiced, conn, queue, at, on, called, stopping, signalled>>

\* The callback lets go of the session.  If nobody else holds it, it is
\* destroyed here: with its socket, and with a ReleaseMic.
Return(w) ==
  /\ at[w] = "callback" /\ target[w] = Nothing
  /\ at' = [at EXCEPT ![w] = "work"]
  /\ IF Held(on[w], Workers \ {w}) THEN UNCHANGED stray
     ELSE Use(on[w], {"ioc"} \union (IF voiced THEN {"speech"} ELSE {}))
  /\ UNCHANGED <<pc, code, exit, sigint, interrupts, alive, inside, voiced, conn, queue,
                 on, target, called, stopping, signalled, tasks>>

\* The model, the recogniser or the synthesiser is through with the task.
Finish(w) ==
  /\ at[w] = "work"
  /\ at' = [at EXCEPT ![w] = "wait"]
  /\ on' = [on EXCEPT ![w] = Nothing]
  /\ UNCHANGED <<processVars, voiced, conn, queue, target, called, stopping, signalled,
                 tasks>>

ServerStart == CreateChat \/ CreateSpeech \/ OpenStore \/ Listen
ServerLoop == \E c \in Conns : Accept(c) \/ Request(c) \/ Disconnect(c) \/ Message(c)
ServerEnd == \/ StopLoop \/ DestroyLoop \/ DestroyStore \/ StopSpeech
             \/ JoinTts \/ JoinAudio \/ StopChat \/ JoinChat
Waiter(t) == Push(t) \/ GiveUp(t)
Worker(w) == \/ Take(w) \/ Exit(w) \/ Call(w) \/ CallbackUses(w)
             \/ CallbackSubmits(w) \/ Return(w) \/ Finish(w) \/ Waiter(w)
=============================================================================
