------------------------------- MODULE WsSession -------------------------------
(***************************************************************************)
(* The turns of src/src/server/ws_session.cpp, and the four threads that     *)
(* work on them: the IO thread (messages from the browsers), the audio       *)
(* thread (speech_service.cpp calls on_speech_start and on_utterance there), *)
(* the LLM worker (on_delta, on_done) and the TTS worker (on_tts_audio,      *)
(* on_tts_done).  The chat queue and its worker are ChatContract, which      *)
(* ChatService implements; the TTS loop is that of SpeechTts, cut down to    *)
(* what a turn can see of it.                                               *)
(*                                                                         *)
(* busy_ and turn_cancelled_ are read and written by all four threads with   *)
(* no lock, so every access of InterruptCurrentTurn and StartChatTurn to     *)
(* shared state is a step of its own.  Send only posts to the IO thread and  *)
(* never waits; the messages themselves are not modelled.                    *)
(***************************************************************************)
EXTENDS Integers, Sequences, FiniteSets

CONSTANTS
  Sessions,      \* the connected sessions
  Mic,           \* the one that holds the microphone and the callbacks
  ChatCapacity,  \* the chat queue
  TtsCapacity,   \* the TTS queue
  MaxTurns,      \* bound: turns started
  MaxDeltas,     \* bound: on_delta calls of a turn
  MaxBatch       \* bound: sentences one on_delta completes

ASSUME WsSessionAssumption ==
  /\ Mic \in Sessions
  /\ ChatCapacity \in Nat \ {0} /\ TtsCapacity \in Nat \ {0}
  /\ MaxTurns \in Nat /\ MaxDeltas \in Nat /\ MaxBatch \in Nat

VARIABLES
  \* The chat service, as ChatContract sees it: turns are named by numbers.
  tasks, running, open,
  \* The LLM worker inside the callbacks of the running turn.
  llmPc, deltas, batch,
  \* The TTS worker and its queue.
  \* bumped: tts_epoch has moved since the worker read it.
  ttsQueue, ttsPc, ttsTask, bumped,
  \* WsSession: busy_, and the turn whose flag turn_cancelled_ points to (0:
  \* none yet); the turns whose flag has been set.
  busy, current, cancelled,
  \* The IO and the audio thread, between two calls or inside one.
  pc, call,
  \* The turns started so far: whose they are, and whether they are spoken.
  turns,
  \* History, read by the properties only.
  ended        \* turns whose llm_end was sent

chatVars == <<tasks, running, open>>
llmVars == <<llmPc, deltas, batch>>
ttsVars == <<ttsPc, ttsTask, bumped>>
sessionVars == <<busy, current, cancelled>>
vars == <<chatVars, llmVars, ttsQueue, ttsVars, sessionVars, pc, call,
          turns, ended>>

Threads == {"io", "audio"}
Turns == 1..MaxTurns
\* old (history): a marker whose turn had been cancelled when it was queued.
TtsTask == [kind : {"sentence", "marker"}, turn : Turns, old : BOOLEAN]
NoTtsTask == [kind |-> "none", turn |-> 0, old |-> FALSE]

\* The locals of a call: its session, the speak argument, whether a tool took
\* the turn, where InterruptCurrentTurn returns to, and the turn it starts.
Call == [sess : Sessions, speak : BOOLEAN, tool : BOOLEAN,
         ret : {"idle", "turn", "persist"}, turn : 0..MaxTurns]
NoCall == [sess |-> Mic, speak |-> FALSE, tool |-> FALSE, ret |-> "idle",
           turn |-> 0]

CallLabels == {"idle", "turn", "cancel", "bump", "clear", "unbusy", "persist",
               "begin", "flag", "submit", "sentence", "marker", "free"}
LlmLabels == {"idle", "gen", "push", "persist", "tail", "marker", "free", "end"}
TtsLabels == {"pop", "load", "check", "callback"}

Chat == INSTANCE ChatContract WITH
  Tasks <- Turns, NoTask <- 0, Capacity <- ChatCapacity, queue <- tasks

TypeOK ==
  /\ tasks \in Seq(Turns) /\ running \in 0..MaxTurns /\ open \in BOOLEAN
  /\ llmPc \in LlmLabels /\ deltas \in 0..MaxDeltas /\ batch \in 0..MaxBatch
  /\ ttsQueue \in Seq(TtsTask) /\ ttsPc \in TtsLabels
  /\ ttsTask \in TtsTask \union {NoTtsTask} /\ bumped \in BOOLEAN
  /\ busy \in [Sessions -> BOOLEAN]
  /\ current \in [Sessions -> 0..MaxTurns]
  /\ cancelled \subseteq Turns
  /\ pc \in [Threads -> CallLabels]
  /\ call \in [Threads -> Call]
  /\ turns \in Seq([owner : Sessions, speak : BOOLEAN])
  /\ ended \subseteq Turns

Init ==
  /\ Chat!Init
  /\ llmPc = "idle" /\ deltas = 0 /\ batch = 0
  /\ ttsQueue = <<>> /\ ttsPc = "pop" /\ ttsTask = NoTtsTask /\ bumped = FALSE
  /\ busy = [s \in Sessions |-> FALSE]
  /\ current = [s \in Sessions |-> 0]
  /\ cancelled = {}
  /\ pc = [t \in Threads |-> "idle"]
  /\ call = [t \in Threads |-> NoCall]
  /\ turns = <<>>
  /\ ended = {}

-----------------------------------------------------------------------------
(* The TTS queue, as the threads that push into it see it. *)

Push(kind, turn) ==
  /\ Len(ttsQueue) < TtsCapacity
  /\ LET old == kind = "marker" /\ turn \in cancelled
     IN ttsQueue' = Append(ttsQueue, [kind |-> kind, turn |-> turn, old |-> old])

-----------------------------------------------------------------------------
(* Calls into a session on the IO and on the audio thread. *)

\* On to a label of the same call, or, at "idle", out of it.
Goto(t, label) ==
  /\ pc' = [pc EXCEPT ![t] = label]
  /\ call' = IF label = "idle" THEN [call EXCEPT ![t] = NoCall] ELSE call

\* A call on session s begins at a label; InterruptCurrentTurn, if it comes to
\* that, returns to another.
Begin(t, s, label, return, spoken) ==
  /\ pc[t] = "idle"
  /\ pc' = [pc EXCEPT ![t] = label]
  /\ call' = [call EXCEPT ![t].sess = s, ![t].speak = spoken, ![t].ret = return]
  /\ UNCHANGED <<chatVars, llmVars, ttsQueue, ttsVars, sessionVars, turns,
                 ended>>

\* HandleText: {"type": "chat"}
RecvChat(s) ==
  /\ Len(turns) < MaxTurns
  /\ Begin("io", s, "turn", "idle", FALSE)

\* HandleText: {"type": "stop"}
RecvStop(s) == Begin("io", s, "cancel", "idle", FALSE)

\* on_speech_start: barge-in, only if the session is busy.
SpeechStart ==
  /\ busy[Mic]
  /\ Begin("audio", Mic, "cancel", "idle", TRUE)

\* on_utterance: interrupt if busy, then StartChatTurn.
Utterance ==
  /\ Len(turns) < MaxTurns
  /\ Begin("audio", Mic, IF busy[Mic] THEN "cancel" ELSE "turn", "turn", TRUE)

\* InterruptCurrentTurn: turn_cancelled_->store(true), chat->RequestStop() ...
\* (what RequestStop achieves is left to ChatContract: the turn may end at any
\* time, stopped or not).
InterruptFlag(t) ==
  /\ pc[t] = "cancel"
  /\ cancelled' = cancelled \union ({current[call[t].sess]} \ {0})
  /\ Goto(t, "bump")
  /\ UNCHANGED <<chatVars, llmVars, ttsQueue, ttsVars, busy, current, turns,
                 ended>>

\* ... CancelTts: tts_epoch.fetch_add(1) ...
InterruptBump(t) ==
  /\ pc[t] = "bump"
  /\ bumped' = (ttsPc = "check")
  /\ Goto(t, "clear")
  /\ UNCHANGED <<chatVars, llmVars, ttsQueue, ttsPc, ttsTask, sessionVars,
                 turns, ended>>

\* ... tts_queue.Clear() ...
InterruptClear(t) ==
  /\ pc[t] = "clear"
  /\ ttsQueue' = <<>>
  /\ Goto(t, "unbusy")
  /\ UNCHANGED <<chatVars, llmVars, ttsVars, sessionVars, turns, ended>>

\* Mutant: busy_ is tested, not exchanged.
BugInterruptUnbusy(t) ==
  /\ pc[t] = "unbusy"
  /\ Goto(t, call[t].ret)
  /\ UNCHANGED <<chatVars, llmVars, ttsQueue, ttsVars, sessionVars, turns,
                 ended>>

\* ... if (busy_.exchange(false)) Send(interrupt).
InterruptUnbusy(t) ==
  /\ pc[t] = "unbusy"
  /\ busy' = [busy EXCEPT ![call[t].sess] = FALSE]
  /\ Goto(t, call[t].ret)
  /\ UNCHANGED <<chatVars, llmVars, ttsQueue, ttsVars, current, cancelled,
                 turns, ended>>

\* StartChatTurn: if (busy_) InterruptCurrentTurn() ...
TurnCheckBusy(t) ==
  /\ pc[t] = "turn"
  /\ pc' = [pc EXCEPT ![t] = IF busy[call[t].sess] THEN "cancel" ELSE "persist"]
  /\ call' = [call EXCEPT ![t].ret = "persist"]
  /\ UNCHANGED <<chatVars, llmVars, ttsQueue, ttsVars, sessionVars, turns,
                 ended>>

\* ... Persist("user", ...), and a local tool may take the turn.  The two
\* threads may get here with more turns than the bound allows: one gives up.
TurnPersist(t) ==
  /\ pc[t] = "persist"
  /\ Len(turns) < MaxTurns
  /\ turns' = Append(turns, [owner |-> call[t].sess, speak |-> call[t].speak])
  /\ \E hit \in BOOLEAN :
       call' = [call EXCEPT ![t].tool = hit, ![t].turn = Len(turns) + 1,
                            ![t].ret = "idle"]
  /\ pc' = [pc EXCEPT ![t] = "begin"]
  /\ UNCHANGED <<chatVars, llmVars, ttsQueue, ttsVars, sessionVars, ended>>

TurnBound(t) ==
  /\ pc[t] = "persist"
  /\ Len(turns) = MaxTurns
  /\ Goto(t, "idle")
  /\ UNCHANGED <<chatVars, llmVars, ttsQueue, ttsVars, sessionVars, turns,
                 ended>>

\* ... busy_ = true ...
TurnBusy(t) ==
  /\ pc[t] = "begin"
  /\ busy' = [busy EXCEPT ![call[t].sess] = TRUE]
  /\ Goto(t, "flag")
  /\ UNCHANGED <<chatVars, llmVars, ttsQueue, ttsVars, current, cancelled,
                 turns, ended>>

\* ... turn_cancelled_ = a new flag.  A tool's reply (ReplyDirect) is stored
\* and sent, llm_end included; then it is spoken, or the turn is over.
TurnFlag(t) ==
  /\ pc[t] = "flag"
  /\ current' = [current EXCEPT ![call[t].sess] = call[t].turn]
  /\ Goto(t, IF ~call[t].tool THEN "submit"
             ELSE IF call[t].speak THEN "sentence" ELSE "free")
  /\ ended' = IF call[t].tool THEN ended \union {call[t].turn} ELSE ended
  /\ UNCHANGED <<chatVars, llmVars, ttsQueue, ttsVars, busy, cancelled, turns>>

\* ... chat->SubmitChat(...): waits while the chat queue is full.
TurnSubmit(t) ==
  /\ pc[t] = "submit"
  /\ Chat!Submit(call[t].turn)
  /\ Goto(t, "idle")
  /\ UNCHANGED <<llmVars, ttsQueue, ttsVars, sessionVars, turns, ended>>

\* ReplyDirect: SubmitSentence, SubmitTtsDoneMarker ...
DirectSentence(t) ==
  /\ pc[t] = "sentence"
  /\ Push("sentence", call[t].turn)
  /\ Goto(t, "marker")
  /\ UNCHANGED <<chatVars, llmVars, ttsVars, sessionVars, turns, ended>>

DirectMarker(t) ==
  /\ pc[t] = "marker"
  /\ Push("marker", call[t].turn)
  /\ Goto(t, "idle")
  /\ UNCHANGED <<chatVars, llmVars, ttsVars, sessionVars, turns, ended>>

\* ... or busy_ = false.
DirectFree(t) ==
  /\ pc[t] = "free"
  /\ busy' = [busy EXCEPT ![call[t].sess] = FALSE]
  /\ Goto(t, "idle")
  /\ UNCHANGED <<chatVars, llmVars, ttsQueue, ttsVars, current, cancelled,
                 turns, ended>>

CallStep(t) ==
  \/ InterruptFlag(t) \/ InterruptBump(t) \/ InterruptClear(t)
  \/ InterruptUnbusy(t)
  \/ TurnCheckBusy(t) \/ TurnPersist(t) \/ TurnBound(t) \/ TurnBusy(t)
  \/ TurnFlag(t) \/ TurnSubmit(t)
  \/ DirectSentence(t) \/ DirectMarker(t) \/ DirectFree(t)

-----------------------------------------------------------------------------
(* The callbacks of the running turn, on the LLM worker. *)

Spoken == turns[running].speak

LlmStart ==
  /\ Chat!Start
  /\ llmPc' = "gen"
  /\ deltas' = 0
  /\ UNCHANGED <<batch, ttsQueue, ttsVars, sessionVars, pc, call, turns,
                 ended>>

\* on_delta: the splitter completes some sentences, unless the turn is not
\* spoken or is cancelled by now.
LlmDelta ==
  /\ llmPc = "gen"
  /\ deltas < MaxDeltas
  /\ deltas' = deltas + 1
  /\ \E n \in 0..(IF Spoken /\ running \notin cancelled THEN MaxBatch ELSE 0) :
       /\ batch' = n
       /\ llmPc' = IF n > 0 THEN "push" ELSE "gen"
  /\ UNCHANGED <<chatVars, ttsQueue, ttsVars, sessionVars, pc, call, turns,
                 ended>>

\* The sentences are submitted one by one; the flag is not looked at again.
LlmSentence ==
  /\ llmPc = "push"
  /\ Push("sentence", running)
  /\ batch' = batch - 1
  /\ llmPc' = IF batch = 1 THEN "gen" ELSE "push"
  /\ UNCHANGED <<chatVars, deltas, ttsVars, sessionVars, pc, call, turns,
                 ended>>

\* Mutant: on_done submits the tail without a look at the flag.
BugLlmDone ==
  /\ llmPc = "gen"
  /\ llmPc' \in IF ~Spoken THEN {"free"} ELSE {"tail", "marker"}
  /\ UNCHANGED <<chatVars, deltas, batch, ttsQueue, ttsVars, sessionVars, pc,
                 call, turns, ended>>

\* Chat returns -- reply complete, stopped or failed -- and on_done begins:
\* the reply is stored; of a spoken turn the tail remains to be submitted,
\* unless there is none or the turn is cancelled.
LlmDone ==
  /\ llmPc = "gen"
  /\ llmPc' \in IF ~Spoken THEN {"free"}
                ELSE IF running \in cancelled THEN {"marker"}
                ELSE {"tail", "marker"}
  /\ UNCHANGED <<chatVars, deltas, batch, ttsQueue, ttsVars, sessionVars, pc,
                 call, turns, ended>>

LlmTail ==
  /\ llmPc = "tail"
  /\ Push("sentence", running)
  /\ llmPc' = "marker"
  /\ UNCHANGED <<chatVars, deltas, batch, ttsVars, sessionVars, pc, call,
                 turns, ended>>

\* Mutant: the marker before the tail.
BugLlmMarker ==
  /\ llmPc = "marker"
  /\ Push("marker", running)
  /\ llmPc' \in {"tail", "end"}
  /\ UNCHANGED <<chatVars, deltas, batch, ttsVars, sessionVars, pc, call, turns,
                 ended>>

\* SubmitTtsDoneMarker, cancelled or not.
LlmMarker ==
  /\ llmPc = "marker"
  /\ Push("marker", running)
  /\ llmPc' = "end"
  /\ UNCHANGED <<chatVars, deltas, batch, ttsVars, sessionVars, pc, call,
                 turns, ended>>

\* Mutant: on_done leaves busy_ to the done marker, which a turn that is not
\* spoken does not have.
BugLlmFree ==
  /\ llmPc = "free"
  /\ llmPc' = "end"
  /\ UNCHANGED <<chatVars, deltas, batch, ttsQueue, ttsVars, sessionVars, pc,
                 call, turns, ended>>

\* A turn that is not spoken clears busy_, whoever is busy by now.
LlmFree ==
  /\ llmPc = "free"
  /\ busy' = [busy EXCEPT ![turns[running].owner] = FALSE]
  /\ llmPc' = "end"
  /\ UNCHANGED <<chatVars, deltas, batch, ttsQueue, ttsVars, current,
                 cancelled, pc, call, turns, ended>>

\* Mutant: no llm_end for a cancelled turn.
BugLlmEnd ==
  /\ llmPc = "end"
  /\ ended' = IF running \in cancelled THEN ended ELSE ended \union {running}
  /\ Chat!Finish
  /\ llmPc' = "idle"
  /\ deltas' = 0
  /\ UNCHANGED <<batch, ttsQueue, ttsVars, sessionVars, pc, call, turns>>

\* Send(llm_end); the worker goes back to its queue.
LlmEnd ==
  /\ llmPc = "end"
  /\ ended' = ended \union {running}
  /\ Chat!Finish
  /\ llmPc' = "idle"
  /\ deltas' = 0
  /\ UNCHANGED <<batch, ttsQueue, ttsVars, sessionVars, pc, call, turns>>

LlmStep ==
  LlmDelta \/ LlmSentence \/ LlmDone \/ LlmTail \/ LlmMarker \/ LlmFree \/ LlmEnd

-----------------------------------------------------------------------------
(* The TTS worker; its callbacks are those of the microphone's session. *)

TtsPop ==
  /\ ttsPc = "pop"
  /\ ttsQueue # <<>>
  /\ ttsTask' = Head(ttsQueue)
  /\ ttsQueue' = Tail(ttsQueue)
  /\ ttsPc' = "load"
  /\ UNCHANGED <<chatVars, llmVars, bumped, sessionVars, pc, call, turns,
                 ended>>

\* epoch_at_start = tts_epoch: all the loop learns from it later is whether
\* tts_epoch was bumped since.
TtsLoad ==
  /\ ttsPc = "load"
  /\ bumped' = FALSE
  /\ ttsPc' = "check"
  /\ UNCHANGED <<chatVars, llmVars, ttsQueue, ttsTask, sessionVars, pc, call,
                 turns, ended>>

TtsCheck ==
  /\ ttsPc = "check"
  /\ ttsPc' = IF bumped THEN "pop" ELSE "callback"
  /\ ttsTask' = IF bumped THEN NoTtsTask ELSE ttsTask
  /\ bumped' = FALSE
  /\ UNCHANGED <<chatVars, llmVars, ttsQueue, sessionVars, pc, call, turns,
                 ended>>

\* Mutant: the callback waits for the turn on the LLM worker to be over.
BugTtsCallback ==
  /\ ttsPc = "callback"
  /\ running = 0
  /\ busy' = IF ttsTask.kind = "marker"
             THEN [busy EXCEPT ![Mic] = FALSE] ELSE busy
  /\ ttsPc' = "pop"
  /\ ttsTask' = NoTtsTask
  /\ UNCHANGED <<chatVars, llmVars, ttsQueue, bumped, current, cancelled, pc,
                 call, turns, ended>>

\* on_tts_audio sends a frame, which changes nothing here; on_tts_done clears
\* busy_ and sends tts_end.
TtsCallback ==
  /\ ttsPc = "callback"
  /\ busy' = IF ttsTask.kind = "marker"
             THEN [busy EXCEPT ![Mic] = FALSE] ELSE busy
  /\ ttsPc' = "pop"
  /\ ttsTask' = NoTtsTask
  /\ UNCHANGED <<chatVars, llmVars, ttsQueue, bumped, current, cancelled, pc,
                 call, turns, ended>>

TtsStep == TtsPop \/ TtsLoad \/ TtsCheck \/ TtsCallback

-----------------------------------------------------------------------------
Next ==
  \/ \E s \in Sessions : RecvChat(s) \/ RecvStop(s)
  \/ SpeechStart \/ Utterance
  \/ \E t \in Threads : CallStep(t)
  \/ LlmStart \/ LlmStep
  \/ TtsStep

Safety == Init /\ [][Next]_vars

\* The four threads are scheduled, and the model and the synthesiser return.
\* Nobody is obliged to speak, to type or to press stop.
Fairness ==
  /\ \A t \in Threads : WF_vars(CallStep(t))
  /\ WF_vars(LlmStart) /\ WF_vars(LlmStep)
  /\ WF_vars(TtsStep)

Spec == Safety /\ Fairness

-----------------------------------------------------------------------------
(* Correctness. *)

\* Once the done marker of a turn is queued or popped, no sentence of that turn
\* is behind it, and none will come: "all synthesised" means all.
\* (speech_service.h:60, ws_session.cpp:276-278, 326-332)
MarkerIsLast ==
  LET later(t, i) == \E j \in (i + 1)..Len(ttsQueue) :
                       ttsQueue[j].kind = "sentence" /\ ttsQueue[j].turn = t
      pushing(t) == running = t /\ llmPc \in {"gen", "push", "tail"}
  IN  /\ \A i \in 1..Len(ttsQueue) : ttsQueue[i].kind = "marker" =>
           ~later(ttsQueue[i].turn, i) /\ ~pushing(ttsQueue[i].turn)
      /\ ttsTask.kind = "marker" =>
           ~later(ttsTask.turn, 0) /\ ~pushing(ttsTask.turn)

\* Once an interrupt has cleared the TTS queue, a cancelled turn adds at most
\* the sentences it had split before it looked at its flag: one batch of
\* on_delta, or the one sentence of a tail or of a tool.
\* (ws_session.cpp:310-313, 327, speech_service.cpp:188-191)
CancelledLeaveLittle ==
  (\A th \in Threads : pc[th] \notin {"bump", "clear"}) =>
    \A t \in cancelled :
      Cardinality({i \in 1..Len(ttsQueue) :
                     ttsQueue[i].kind = "sentence" /\ ttsQueue[i].turn = t})
        <= (IF MaxBatch = 0 THEN 1 ELSE MaxBatch)

\* A session is busy for a reason: a call is under way, a turn is waiting or
\* running, or a done marker is on its way to on_tts_done.  However cancelled
\* turns, dropped markers and stale callbacks overlap, busy_ is never left set
\* with nobody to clear it.  (ws_session.cpp:173-180, 225-231, 279-281, 334)
BusyIsAccountedFor ==
  (\E s \in Sessions : busy[s]) =>
    \/ \E th \in Threads : pc[th] # "idle"
    \/ tasks # <<>> \/ running # 0
    \/ ttsTask.kind = "marker"
    \/ \E i \in 1..Len(ttsQueue) : ttsQueue[i].kind = "marker"

\* No call of the IO or the audio thread gets stuck, though it may wait for the
\* LLM worker, which may wait for the TTS worker, on queues of any capacity.
\* (ws_session.cpp:173-180, 284-354)
CallsReturn == \A t \in Threads : (pc[t] # "idle") ~> (pc[t] = "idle")

\* Every turn ends with its llm_end: answered, stopped, failed or taken by a
\* tool.  (ws_session.cpp:269, 336)
EveryTurnEnds == \A t \in Turns : (Len(turns) >= t) ~> (t \in ended)

\* A session does not stay busy for ever: what drops a done marker also
\* clears busy_.  (ws_session.cpp:173-180, 225-231, 280, 334)
BusyEnds == \A s \in Sessions : busy[s] ~> ~busy[s]

\* An old marker, queued after an interrupt, is discarded, and the new turn
\* puts its own: the marker of one turn never clears the busy_ of the next.
\* (speech_service.cpp:92)
OldMarkerDiscarded ==
  [][TtsCallback /\ ttsTask.kind = "marker" /\ ttsTask.old
        /\ ttsTask.turn # current[Mic] => UNCHANGED busy]_vars
=============================================================================
