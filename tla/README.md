# Echo, formally

Echo is a local voice assistant: a C++ server (Boost.Beast, SQLite,
onnxruntime-genai, sherpa-onnx) and a small web client. A browser sends text or
microphone audio over a WebSocket; the server detects and recognises speech,
lets a local language model answer, synthesises the answer sentence by sentence
and streams text and audio back. The user may interrupt at any moment by
speaking, by typing or with the stop button.

This directory holds TLA+ models of the parts where that is hard to get right,
the TLC runs that check them on small instances, and TLAPS proofs of what
holds for every instance. Source lines are those of the commit the models were
read from; `PROJECT.json` maps every definition to its lines.

* [1 The system](#1-the-system)
* [2 The modules, and how they correspond to the code](#2-the-modules-and-how-they-correspond-to-the-code)
* [3 The runs](#3-the-runs)
* [4 Fairness](#4-fairness)
* [5 What is proved](#5-what-is-proved)
* [6 Where the code and its comments disagree](#6-where-the-code-and-its-comments-disagree)
* [7 What is not modelled, and why](#7-what-is-not-modelled-and-why)
* [8 Plan](#8-plan)

Run a model with `tlc -config queue.cfg MCBoundedQueue.tla`, and the proofs
with `tlapm BoundedQueueProofs.tla`.

## 1 The system

`main` becomes one of three programs: the server, a chat in the terminal, or one
that answers a recorded question. Four threads do the work of the server,
connected by bounded queues:

```
 browser ── WebSocket ──> IO thread ───── SubmitChat ─────> [ chat queue, 64 ]
                          WsSession           ^                    |
                              |               |                    v
                     PushAudio, FlushMic      |               LLM worker
                              v               |               ChatService, GenAiLlm
                       [ audio queue ]        |                    |
                              |               |               on_delta, on_done
                              v               |                    |
                         audio thread ── on_speech_start,     SubmitSentence,
                         VAD, ASR        on_utterance         SubmitTtsDoneMarker
                                                                   v
 browser <── outbox <── on_tts_audio, on_tts_done ── TTS worker <─ [ TTS queue, 64 ]
```

| Component | State | Operations | Interacts with | What is hard | What makes it correct |
|---|---|---|---|---|---|
| **BoundedQueue** `common/bounded_queue.h` | a deque, a mutex, two condition variables | `Push`, `TryPush`, `Pop`, `Clear`, each with a stop token or without | every pair of threads | the notify comes after the unlock; spurious wakeups; stop while waiting | no lost wakeup, FIFO, capacity, a stop releases everyone and drains |
| **SpeechService, synthesis** `server/speech_service.cpp` | `tts_queue`, `tts_epoch`, the installed callbacks | `SubmitSentence`, `SubmitTtsDoneMarker`, `CancelTts`, `SetCallbacks`, `TtsLoop` | LLM, IO and audio threads call it; it calls back into WsSession | cancel is two steps; the worker reads the callbacks and the epoch after its `Pop` | what was cancelled is not queued any more; at most one stale callback for each cancel |
| **SpeechService, microphone** | audio queue, mic owner, VAD stream | `PushAudio`, `FlushMic`, `TryAcquireMic`, `ReleaseMic`, `AudioLoop`, `DrainVad` | IO thread feeds it; it calls `on_speech_start`, `on_utterance` | dropped frames, flush order, release while the loop is in the VAD | one owner; utterances of the owner only, in order |
| **SileroVad** `engine/vad/silero_vad.cpp` | pending samples | `Feed`, `Flush`, `Reset` | audio thread | windows against frames | samples in order, each once |
| **ChatService and GenAiLlm** `server/chat_service.cpp`, `engine/llm/genai_llm.cpp` | task queue, the generator with its KV cache, `system_token_count`, the `terminate_session` option | `SubmitChat`, `SubmitReset`, `SubmitRestart`, `RequestStop`, the worker's `Run` and `Handle`, the destructor | all sessions share it; any thread may stop it | a stop at any point of a turn, exceptions in the middle of one, a restart under a stop | the cache is the system prompt and the completed turns; every task answered once, in order |
| **WsSession, turns** `server/ws_session.cpp` | `busy_`, `turn_cancelled_`, splitter, reply | `HandleText`, `StartChatTurn`, `ReplyDirect`, `InterruptCurrentTurn`, the callbacks | all of the above | four threads, no lock; two turns overlap | marker last, every turn ends, `busy_` never stuck |
| **WsSession, history** | `session_id_`, `role_id_` | `OnAccept`, `HandleSetRole`, `HandleNewSession`, `Persist` | the store; written and read on three threads without a lock | an id switched while others store under it | question and reply filed together, roles that agree |
| **WsSession, outbox** | `outbox_` | `Send`, `QueueWrite`, `DoWrite`, `OnWrite` | posts to the IO thread | one write in flight; a write that fails | messages in order, once |
| **SessionStore** `storage/session_store.cpp` | SQLite tables | `CreateSession`, `AppendMessage`, `SetSessionRole`, `ListMessages`, `ListSessions` | called by WsSession and HttpServer on several threads | two statements without a transaction; a death between them | what a reader sees is the conversation |
| **SentenceSplitter, StripForTts** `dialog/sentence_splitter.h` | a byte buffer | `Feed`, `Flush` | on the LLM worker | deltas that end inside a character or a sentence | the same sentences wherever the deltas end; numbers read out as written |
| **ToolRegistry, ExprEval** `dialog/tools.cpp` | none | `TryHandle` | `StartChatTurn` | division, parentheses, precedence | agrees with arithmetic |
| **Web client** `web/app.js` | `generating`, `voiceTurn`, the bubble, the microphone | message handlers, clicks, `startMic`, reconnect | WebSocket | messages that belong to no turn; a handler that awaits | the page agrees with the server |
| **RunServer** `main.cpp` | the owned objects | start, stop on a signal | everything | destruction while workers run callbacks | a signal ends it; nobody who comes late uses a dead object |
| **RunInteractive, RunVoiceFile** `main.cpp` | `g_llm`, the signal's disposition | the loop, `OnInterrupt` | GenAiLlm | the handler runs in a thread of its own | the handler does not outlive the model |
| **HttpServer** `server/http_server.cpp` | connections | accept, read, serve or upgrade | creates WsSessions | – | – |
| **Configuration** `common/config.cpp` | none | `LoadDefault`, `LoadFile` | the page and the model read the roles | files with some of the parts | page and model start as the same role |
| Engine wrappers, logging, demos | none of interest | – | – | – | – |

`PROJECT.json` lists every hazard found in this code, at its line, with the
properties that cover it or the reason why none does.

## 2 The modules, and how they correspond to the code

```
 Channel <──implements── BoundedQueue          ChatContract <──implements── ChatService
    ^ assumed by                                    ^ built on
 SpeechTts, SpeechMic, ChatService               WsSession

 SessionStore <─ History        WebClient <─ Conversation
 Process <─ Terminal, Server <─ Program        SentenceSplitter, Calculator, Config <─ MCText
```

(an arrow to the left: the module on the right extends the one on the left)

Two abstract specifications hold the concurrent part together. `Channel` says what a
queue promises to the threads at both ends, and `BoundedQueue` is shown to
implement it; the other modules then store, take or clear in one step.
`ChatContract` says what a session may rely on when it submits a task, and
`ChatService` is shown to implement it; `WsSession` then takes the chat service
by its contract, and knows nothing of tokens and caches. The two are wired with
`INSTANCE ... WITH`, and each abstract specification is a PROPERTY of the
detailed module's run and (its safety part) a theorem.

One server is seen here through several modules, each with the steps its own
questions need: `WsSession` splits a turn at every access to a shared flag,
`History` at every access to the store and to the ids, `Conversation` at every
message on the socket, `Server` at every object that may be gone.

**BoundedQueue** (`bounded_queue.h`). A step is what a thread does while it
holds the mutex, or one notify, because the code unlocks before it notifies:
between `PushStore` and `NotifyNotEmpty` anything may happen. A waiter that was
notified goes back to evaluate its predicate (`Wake`: notified, spuriously, or
by the stop token). `pc[t]` is where thread `t` is; a consumer is a worker loop
`while (auto task = queue.Pop(stop)) Handle(task)`, which is how the repository
uses it. Threads outside `Stoppable` pass no stop token, as the submitters do.

**SpeechTts** (`speech_service.cpp`, TTS half). One action per access to shared
state: `Pop`, `GetCallbacks`, `LoadEpoch`, `Synthesize`, `CheckEpoch` or
`CheckMarker`, `Callback` on the worker; `Submit`, `CancelBump`, `CancelClear`,
`SetCallbacks` elsewhere. A task carries the number of cancels that had begun
when it was stored (`sub`), and `finished` holds the cancels that have returned:
that is all the properties need to say "cancelled before".

**ChatService** (`chat_service.cpp`, `genai_llm.cpp`). The KV cache is a
sequence of tokens that only know whether they belong to a system prompt and
which task put them there. The worker's label (`pc`) changes wherever another
thread could make a difference: between the reset of `terminate_session`, the
append, each generated token, the two halves of the catch block and the rewind.
Every call into onnxruntime-genai may throw where the code catches it.
`RequestStop` is two steps, because it dereferences the `unique_ptr` that
`RestartSession` assigns. The history variables `completed`, `dirty`, `stopped`
and `answered` are read by the properties only.

**WsSession** (`ws_session.cpp`, turns). The IO and the audio thread run the
same code (`StartChatTurn`, `InterruptCurrentTurn`) on `busy_` and
`turn_cancelled_`; each access is a step. The LLM worker runs `on_delta` and
`on_done`; the TTS worker, here cut down to what a turn can see, runs
`on_tts_done`. All waits on the chat and the TTS queue are waits of the model,
so that the circle IO thread – LLM worker – TTS worker can close if it closes in
the code. What the worker learns of `tts_epoch` is only whether it moved
between two reads, which is the Boolean `bumped`.

**SpeechMic** (`speech_service.cpp`, microphone half; `silero_vad.cpp`; what
`ws_session.cpp` does with the microphone). There is one IO thread, so its calls
are sequential (`ioPc`, `ioSession`), but each is as many steps as the audio
thread could tell apart: `ReleaseMic` gives up the ownership (`Disconnect`),
clears the queue (`ReleaseClear`), resets the VAD (`ReleaseReset`) and the
callbacks go (`RemoveCallbacks`). `AudioLoop` is one action per access:
`Pop`, `FeedFrame` or `FeedFlush`, `FeedWindow` for each window, `DrainCallbacks`,
`DrainEdge`, and `PopSegment`, `Recognise` for each segment. Samples are numbers,
so "lost order" and "heard twice" can be said; a frame that is dropped gets none.
The detector may call any window speech or silence, from the second window of a
speech on (a window is 32 ms, `min_speech_seconds` is longer) and end a segment
at any window. `SileroVad::Reset` takes no lock: if it meets the audio thread
inside the VAD, either half of it may be lost. The other outcomes of that data race
(a torn vector, a crash) are left out. `handlers` is the snapshot of the callbacks, by
the session that installed them. `on_speech_start` goes to that session or to nobody,
while `was_speaking` follows the detector either way (`DrainEdge`); `begun` keeps whose frame the speech in
progress began with and `announced` whom it was told to. The `SpeechStart` and `Utterance` of
`WsSession` are what `DrainEdge` and `Recognise` call; the `InterruptCurrentTurn`
of a disconnect does not touch the microphone and is left to `WsSession`.

**SessionStore** and **History** (`session_store.cpp`, what `ws_session.cpp` stores).
The tables outlive the process; `Crash` kills and restarts it at any step. A
store operation is one step (it holds the store's mutex), but `AppendMessage` may
end after its first statement, which says the same as dying there. `session_id_`
is written by the LLM worker after a reset and read by the IO and the audio
thread with no lock: between `FinishReset` and `EndSwitch` a reader sees the old
id, the new one or one that names nothing (`SeenId`), and likewise for `role_id_`
(`SeenRole`). `ListMessages` gives a reader the rows of its session (`RowsOf`) by their
places in the table, the oldest up to the limit. Two connections share the worker, the model's prompt and the
store. A turn here is its question, then a tool's reply or the model's; whether it
was interrupted does not matter to what is stored. A restart that fails leaves
`role_id_` at the role that was asked for (`RestartFailed`), and nobody looks at what
`SetSessionRole` returns (`RestartDone`): `failed` keeps the connections whose last change of role
failed, and `adrift` the sessions whose role cannot be the prompt's because of that, or because
they were made while a change was on its way.

**WebClient** and **Conversation** (`app.js`, and the server as the page sees it).
Handlers run one at a time; `startMic` is three steps, one for each await. The
socket is two sequences, the lower one with the server's outbox, which gets
stuck for good when a write fails (`ws_session.cpp:427`). The calls of the
session are one step each; what their interleaving adds is in `WsSession`.

**Process**, **Terminal**, **Server**, **Program** (`main.cpp`, the accept loop, the
destructors). The main thread builds object after object, each of which may
fail, and destroys them in reverse. The workers take tasks, call back, wait for room
in each other's queues, and leave when they have been asked to and their queue is
empty, which is what the `jthread` destructors wait for. `alive` holds the objects that
exist. A thread that uses one that is gone goes on, and the session it does so for is put into
`stray`; `inside` holds the sessions that a callback held when the io_context, and with it
everything else that held a session, was destroyed. In the terminal both speak of the
signal's `"handler"`, which had loaded `g_llm` before it was reset. The two threads of
SpeechService end one after the other, `tts_worker` first (`JoinTts`, `JoinAudio`): until the audio
thread has been joined it may still be in a callback that reads the stop token of a
`tts_worker` that is no more (`Needed`). A second
Ctrl+C may kill the process, since the C library may have put the default back.

**SentenceSplitter**, **Calculator**, **Config** (pure algorithms). A byte is a pair
of its character and its place in it, so that "cut inside a character" can be said.
`Feed` is one action per delta, and `StripForTts` a recursive function. The
evaluator works on exact fractions; its parsers are one recursive function of what is
parsed, the value so far and the place, and the grammar it is compared with is a
function of the parts of the text, which knows nothing of places or of an order of reading. A configuration is what a file says about
the model, the prompt and the roles; the roles that will do keep their places in the file.

Operators called `Bug...` are not part of the models: each is the definition
that follows it with a slip a programmer could make (a notify too few, a marker
before the tail, a flag reset too late). Put in place of the real definition it
breaks the property `PROJECT.json` lists it under, which shows that the property
depends on that line of the code.

## 3 The runs

| Run | Instance | Distinct states | What it shows |
|---|---|---|---|
| `queue` | 2 producers (one without stop token), 2 workers, 2 items, capacity 2 | 42,544 | no lost wakeup on either side (`NoLostItem`, `NoLostRoom`), refinement of `Channel` with its fairness; after a stop every `Push` returns and every `Pop` yields an item or ends its worker, and workers end when their queue is empty |
| `tts` | 2 cancelling threads, 2 sessions, capacity 2, 3 cancels, 2 callback changes | 577,906 (with symmetry) | nothing a finished `CancelTts` cancelled is still queued; at most one stale callback per cancel and one late one per `SetCallbacks` |
| `chat` | 1 stopping thread, queue of 2, cache of 6 tokens, 3 tasks | 49,608 | system prompt intact, memory is the conversation; every task answered once and in order; a stop is final; shutdown ends; `ChatContract` with fairness |
| `chat_stop` | cache of 5, 2 tasks | violation | section 6 |
| `turns` | 1 session, chat queue 1, TTS queue 2, 2 turns, 2 deltas of at most 1 sentence | 822,764 | marker last; a cancelled turn leaves at most one batch; `busy_` is always accounted for |
| `turns_live` | queues of 1, 2 turns without deltas | 204,245 | calls return, turns end, `busy_` is cleared |
| `turns_marker` | queues of 1, 1 delta | violation | section 6 |
| `mic` | 2 sessions, queue of 2, frames of 2 samples, windows of 3, 6 frames, 1 release | 909,879 | ownership agrees; samples are heard once and in order; the owner is told of every speech it begins, and nobody else is; one stray frame per release; the IO thread gets out of every call |
| `history` | 2 connections, 2 roles, 3 inputs (turns, roles, resets), 1 fault or death, readers get 3 messages | 3,365,898 | question and reply are filed together; a reader sees them once and in order; every question stored is answered; titles; roles follow the prompt |
| `client` | 2 turns, 1 click, 2 `startMic`, 1 lost connection (2 of these together), 1 delta | 1,012,102 | bubbles are not mixed; the page comes to rest when the server does; the microphone is released |
| `text` | replies of 4 characters, questions of 5, configurations of 2 roles at 3 places | 446,617 | the splitter, the spoken numbers, the calculator and the configuration against reference definitions |
| `program` | 2 connections, queues of 1, 3 tasks, 2 callbacks each, 2 Ctrl+C, 2 lines of 2 tokens | 558,512 | a dead object is used on behalf of nobody but those inside; a signal ends the server |

Deadlock is checked in every passing run but three, where the system may come to rest: in `history`
and `client` when the bounds are used up and everything is done, in `text` when the input is complete.

*Why the bounds are enough.* Lost wakeups need a notifier, a waiter that is
overtaken and one that overtakes: two producers, two workers and two slots give
every pattern of the two notifies and the `notify_all`; the proofs of section 5
then remove the bounds from the safety part. In `tts` two threads cancel, so that one cancel can
be half done while the other runs to its end; a third cancel makes the epoch
move twice within one task. In `chat`, six tokens are the system prompt, a
completed turn (prompt and reply, two tokens) and a second turn that either ends
or runs into the full cache; three tasks are enough for a reset or restart between
two chats. In `turns`, two turns are enough for every pair that overlaps: one on
the LLM or the TTS worker, the other being started on the IO or the audio thread,
or both being started at once. Three turns that overlap (one running, one waiting,
one being started) are beyond this instance; the chat queue of one slot makes the
starting thread wait as a longer one would with more turns, and `WsSessionProofs`
removes the bound from the three invariants.
`turns_live` leaves out the deltas (a spoken turn still submits a tail and a
marker) and takes queues of a single slot, where every wait happens.

In `mic`, frames of 2 samples and windows of 3 have the proportions of 320 and
512: windows straddle frames, a frame holds at most one, and 6 frames make four
windows, enough for a speech to begin and end, and for the next user's, whose first
frames may meet what a release has left, to begin after it. One release lets the microphone pass from one session to the other.

In `history`, three inputs are a turn, a reset under way and a turn that meets it,
or two role changes and a reset, from either connection; the one fault may be a
failed statement, a failed reset or restart, or a death. The connections come in one order
(`InTurn`), the one with the microphone first: the other order would differ only in
which of them has a second thread. A limit of three shows a
reader half of the second turn. `HistoryProofs` and `ConversationProofs` remove the
bounds from the properties. In `client`, two turns are the one that is stopped or
lost and the one that is there when its last messages arrive. In `text`, the least
lengths are scaled down (3, 5 and 2 bytes for the code's 12, 90 and 6) and
characters are of 1, 2 and 3 bytes, so that a delta may end inside one and each rule for
ending a sentence is met with one character more and one less; `ProgramProofs` removes these bounds,
and those on files and roles, from `SameSentences`, `SpokenAsWritten` and `StartRoleOffered`. Questions of
five characters hold a product or quotient before or behind a difference, a number with a point
beside an operator, a sign behind a sign, and a bracket around
one number, but no bracket around an operator with another outside; `WsSessionProofs` proves
`AnswersAreRight` and `ExpressionsAreSolved` for questions of any length. In `program`,
a queue of one place makes every thread wait for every queue it puts anything into, and of two
connections one can be held by a callback at the end and the other not.

All bounds are CONSTANTS with `Max` in their name: `MaxEpoch`, `MaxInstalls`,
`MaxTasks`, `MaxTurns`, `MaxDeltas`, `MaxBatch`, `MaxFrames`, `MaxReleases`, `MaxInputs`,
`MaxFaults`, `MaxClicks`, `MaxStarts`, `MaxDrops`, `MaxEvents`, `MaxInterrupts`, `MaxLines`,
`MaxTokens`, `MaxCalls`, `MaxChars`, `MaxQuestion`, `MaxRoles`. (In `History` the turns
are numbered, and `MaxFaults` counts, in types that the proofs keep for every value of the bounds.)
`MaxLength` and the capacities are parameters of the code itself, made small.

## 4 Fairness

* `BoundedQueue!Spec`: a thread inside `Push`, `Pop` or `Clear` is scheduled, a
  worker finishes what it handles, a registered stop callback runs. No fairness
  for calls, stop requests or spurious wakeups; none for a particular waiter
  (`notify_one` picks any).
* `ChatService!Spec`: the worker thread is scheduled and every library call
  returns or throws. Generation is not assumed to end by itself: it ends because
  the cache is bounded by `max_length`.
* `WsSession!Spec`: the IO, audio, LLM and TTS threads are scheduled and the
  model and the synthesiser return. Users need not do anything. `LlmDone` needs
  no assumption of its own: the deltas of a turn are bounded, as `ChatService` shows.
* `SpeechMic!Spec`: the audio thread is scheduled, the recogniser returns, and so
  do the callbacks (`WsSession`'s `CallsReturn`); a call on the IO thread goes on
  when it can. Users need not do anything.
* `Program!Spec`: the main thread of the server goes on (a handler that is ready is
  run, with it the one that stops the loop), and each worker is scheduled and its
  model returns. Users, the terminal programs and start-up need not do anything.
* `SpeechTts`, `History` and `Conversation` have safety properties only and no
  fairness. The run `turns` uses `Safety` for the same reason.

## 5 What is proved

The proofs are in the eight modules called `...Proofs`. They assume only the named assumptions on the constants
(capacities positive, bounds natural numbers, the two kinds of threads finite and disjoint, the
placeholder values not among the real ones; each digit has a value of its own, and neither digits
nor the point are stripped), and two theorems name one more. The type
invariants are no runs' properties: they are proved here.

**BoundedQueue**, for any number of producers, workers, stoppable threads, items
and any capacity:

* `TypeCorrect`, `CapacityBound`: types, and never more than `capacity_` items.
* `ChannelRefinement`: every step is a step of `Channel` or leaves it alone. It
  needs one fact more than the types: a worker holds an item exactly while it is
  past its `Pop` (`HandsMatch`).
* `NoLostItemHolds`, `NoLostRoomHolds`: no wakeup is lost. The invariants are
  inductive by themselves once types hold, but their steps are arithmetic on
  cardinalities: each step moves at most one thread from one label to another
  (or, in `Clear`, all blocked producers at once), and the lemmas say by how much
  the two counts change.

**SpeechTts**, for any number of cancelling threads, sessions, cancels:

* `QueueTheorem`: what is queued is not cancelled. Between `fetch_add` and
  `Clear` a cancel has not returned, so it is not in `finished`; the inductive
  part says that the epochs in progress are distinct, at most `tts_epoch`, and not finished.
* `StaleTheorem`: stale callbacks never outnumber finished cancels. The
  invariant counts the callback the worker may still make for the cancelled task
  in its hands (`InHand`): a cancel that finishes pays for that one, and by
  `QueueTheorem` the next task the worker pops is not cancelled.
* `SynthesisTheorem`: the epoch check catches each cancel within a synthesis.
* `LateTheorem`: at most one callback to a replaced session per `SetCallbacks`.

**ChatService**, for any number of stopping threads, tasks and tokens:

* `TypeCorrect`, `AnswersTheorem`: tasks are answered once and in order. The
  inductive invariant `OrderOK` ties the ids in the queue, the task in hand and
  the answers to one number, `submitted - Len(queue)`, and bounds the generators
  by the answers, which the type invariant needs.
* `SystemPromptTheorem`: no rewind, reset or restart touches the system prompt.
  `KvOK` adds that the length remembered at the start of a turn lies between the
  system prompt and the prompt of the turn, and that a generator about to be
  started is empty.
* `MemoryTheorem`, `MemoryOrderTheorem`: between turns the cache holds exactly
  the completed turns, in order. Within a turn, `ConversationOK` splits the cache
  at `before`: below it the completed turns, above it only the turn in progress;
  so that cutting at `before` or adding the turn to `completed` restores the
  equality.
* `StopTheorem`: a stop that comes after the worker's own reset of the option is
  final. `StopOK` says that the option stays set from there to the end of the
  generation: no step in between clears it.
* `ContractTheorem`: each step is, for the sessions, a step of `ChatContract` or
  a stutter.

**SpeechMic**, for any number of sessions, frames and releases, any sizes of
frames, windows and queue:

* `TypeCorrect`.
* `OwnerTheorem`: `OwnerInv` says who holds the microphone at each point of a
  call, and whose tasks are queued (`Holder`: the owner's, or, until the queue has been
  cleared, those of the session that is going).
* `StrayTheorem`: the inductive invariant charges each release once, either to
  the queue it has yet to clear or to the frame in the hands of the audio thread.
* `HeardTheorem`: samples pass through queue, pending samples, the detector's
  buffer, finished segments and the recogniser. `SamplesInOrder` says that what is
  at an earlier stage is later speech, `FedInOrder` that some frame number separates
  what has been fed from what is to come. It is inductive because a window that joins the
  detector is later than all its segments, whatever the detector makes of it
  (`DetectorKeepsOrder`), and because a reset, whole or half lost, only removes.
* `AnnouncedTheorem`, with the assumption `FrameSize <= WindowSize` (320 and 512
  in the code): a speech that the owner has begun was announced to the owner, though `was_speaking`
  outlives a reset and follows the detector with callbacks or without. `PendingInv`: fewer samples wait
  than make a window, so that a frame completes at most one; `EdgeInv`: what the loop remembers differs
  from the detector only by the window it is about to look at. `HandsInv` says whose callbacks
  the edge will find: the owner's have been installed before any frame of the owner's is
  queued, and whoever has lost the microphone never gets it again (`gone`).

**WsSession**, for any numbers of sessions, turns and sentences and any queues:

* `TypeCorrect`. `Stage` says which turn each thread may be at, and `Places` that
  a turn is in one place only: with a thread that starts it, in the chat queue,
  or with the worker.
* `MarkerCorrect`: `NothingBehind` says of every marker, queued or about to be,
  that nothing of its turn is behind it, and `MarkerInv` that a turn with a
  marker is no longer at a place that could submit a sentence.
* `LittleCorrect`: `FlagInv` ties the threads' view of the turn's flag to
  `cancelled`, and `LittleInv` counts what is queued together with what the call in
  progress has still to submit (`More`).
* `BusyCorrect`, with the assumption that there is one session: `Account` lists who
  will clear `busy_` (a call, a turn, a marker on its way), and `BusyInv` how they
  hand that over. With two sessions it does not hold (section 7).

**History**, for any numbers of connections, roles, turns, resets, failures and deaths:

* `TypeCorrect`. The types need `IdsInv` (the ids being written exist, and only
  the worker inside a reset writes one) and `OpenInv`.
* `FiledTheorem`: `Open` names the turns that may still store a message, wherever they
  are. `OpenInv`: between such a turn and its reply no reset is queued or running, unless the
  turn was started after it was asked for or was told of it. `FileInv`: what has been
  stored of an open turn is where its connection's id points now. `EndSwitch`
  moves that id, but only when no such turn is open.
* `RoleTheorem`: `RestartInv` says that the last restart on its way for a
  connection, queued or running, brings the role the connection has, and
  `PromptInv` that without one the connection the prompt is from has its role, unless that
  connection's last change failed. A change another connection fails to get leaves all that alone.
  `DriftInv` says of that connection's session, and of one just being made for it, that it has
  the role of the prompt or is adrift, at every moment: a session is made with the connection's role
  as it is read then, so only one made while that is not the prompt's can differ.
* `ReadableTheorem`, `AnsweredTheorem`, `TitleTheorem` rest on the one invariant `OrderInv`,
  on top of `Inv`. `ThreadInv`: a turn in the hands of a thread was begun by it. `LineInv`: the
  turns of one thread go along in order, from the thread to the queue, the worker and the
  store, and each is at one place only. That is what makes `RowInv` inductive: a reply that is
  filed is the first of its turn, comes after its question, and no later turn of that
  thread has one yet. `AnswerInv` follows a question from
  the store to its reply (there, or with the thread, the queue or the worker, unless the turn was
  lost). `TitleInv` needs that no message is filed under an id that is still to come. The
  properties follow since a reader gets the rows of one session in the order of the store, the oldest up to
  the limit (`ListMessages`).

**Conversation**, for any numbers of turns, deltas, clicks and lost connections:

* `TypeCorrect`. `StreamInv` bounds the streams by the calls of `startMic`, and `TaskInv`
  bounds the turns the worker may be at.
* `MicTheorem`. `MicInv` counts the streams: one that is held, and one for each
  `startMic` past its first await.
* `MixedTheorem`. `OpenInv`: deltas on their way to the page are followed by an `llm_end`, or the
  worker is still at their turn. `ApartInv`: an `llm_end` lies between the deltas of two turns.
  `PageInv` says both of the bubble, which is a place before the first message. The worker
  leaves a turn with an `llm_end`, so that its deltas cannot mix with those of the next; the
  reply of a tool comes at any time, and is exempt.
* `QuietTheorem`. Behind a spoken turn that is announced (`AsrInv`) or shown (`ShownInv`) there
  is a message that gives the send button back (`Settled`), a marker in the TTS queue, or a
  marker the worker has still to submit (`MarkerToCome`); behind a typed one an `llm_end`, or a question that
  will get one. An interrupt that throws the marker away says so itself, unless it finds the session
  not busy: `muted`. When nothing is on its way, all of these are gone but `muted`.

**Program**: `StrayTheorem`, for any numbers of connections, tasks, failures and
interrupts. `MainInv` says which objects are alive at each label of the main thread.
`InsideInv` adds that, once the loop is gone, each worker in a callback is there for a session
in `inside`: a worker that comes later finds no session but those (`Held`), and nothing but a
callback gives it work for another queue.

**Config**: `StartRoleTheorem`, for any ids, prompts and numbers of roles, in
`ProgramProofs`. It takes that a set of places has a first one (`FirstPlace`), from the
well-foundedness of `<` in the library, and looks at what `LoadFile` makes of a file with and without usable roles.

**SentenceSplitter**, for any reply, any alphabet with characters of one to four bytes, any
limits and any deltas, in `ProgramProofs`:

* `SentencesTheorem`. `SplitterInv` says that the sentences handed on are the text up to
  the last cut `t`, each cut at the first place it may end (`IsCut`), that none may end
  between `t` and what has arrived (`NoEnd`), and that the buffer is what lies there; or that
  the reply has been flushed. `ScanFinds` is the step: the loop of `Feed`, started at a character's
  beginning (`Bound`), finds all ends there are. It takes from the bytes only that they come in
  whole characters (`WholeChars`, of `Bytes` by `BytesAreWhole`): the byte a scan
  has skipped to is again a character's beginning, and a text that ends inside a
  character leaves it in the buffer. `SameAsWhole` and `CutAndRest` turn the
  invariant into the property.
* `SplitterTypeCorrect`: no empty sentence is handed on.
* `SpokenTheorem`. `SpokenIs` says what `StripForTts` does at a place of a sentence, by what stands there: the end,
  a character to strip or to keep, a number, a number with decimals. `Reads`, by
  induction from the end of the sentence, says that what is read out from a place on
  is heard as it was written, and that it begins with a number word only if
  nothing but stripped characters lies before the next digit. That is the
  strengthening: words are heard apart (`HeardApart`) unless a number word meets
  another, and where two meet the sentence has numbers that run together, the case the
  property excepts. `HeardNumber` is the four ways in which
  `AppendChineseNumber` spells two digits.

**Calculator**, for a question of any length, any alphabet and any keywords, in `WsSessionProofs`
(a session tries the tools before it starts a turn):

* `EvalCorrect`. The parsers are compared with the grammar of `ExprValues` in both directions.
  *A value is found* (`AllInside`, by induction on the length of a part): a part that has a value by
  the grammar is read to that value, provided that what follows the part cannot be taken for more of it.
  That proviso is the strengthening, and differs for each rule: behind a factor no
  character of a number (`FollowsFactor`), behind a term no character but an operator or a closing bracket
  (`FollowsTerm`), behind an expression not even `*` or `/` (`FollowsExpr`). A
  term or expression is read by its loop, so what is proved of it is that the loop
  goes on with its value behind the part, from where it stood before it. *What is found is a value*
  (`EverythingIsTrue`, by induction from the end of the text): what a
  parser has read is a part, and its result one of the values of that part, or there is a
  number with two points. The loop has to be told what it has behind
  it: its value is one of a part that begins where the rule did (`RestIsTrue`). That a text has
  no two values follows, since each of them is the parser's answer.
* `AnswersCorrect`: whatever tool rule led to the calculator, the expression it
  names is a part of the question and the value the one of that part.
* `ExpressionsCorrect`: a part with a value is written in the characters of expressions (`AllWritten`),
  so it is the run that `ExtractExpression` finds when no other run of three is there (`FoundAlone`).

What digits and a point amount to (`Decimal`) is one definition that `Stod` and the grammar share: the
theorems say which characters make a number, not that their value is the decimal one.
Both theorems on questions take the question to be a sequence over the alphabet, which is all
that `Type` makes of it.

The provers cannot instantiate the library's induction theorems. Induction here is
`AllNumbers`, which speaks of a set instead of a predicate and follows from the well-foundedness of `<`. What a
recursive function computes is reached in two steps: a function with its equation exists (`LoopEnds`,
`WholeEnds`, `TogetherIs`, `ValuesExist`, `ParseExists`), by induction on what is left of the text, or for
the parsers on a rank of the jobs (what is left of the text, then the rule), and then
what holds of each value by the same induction. That is why `Scan`, `SentencesOf` and `Parse` are
recursive functions of one argument.

*Only model-checked:* liveness. `StopReleases`, `StoppedWorkersExit`, `EveryTaskAnswered`,
`ShutdownCompletes`, `CallsReturn`, `EveryTurnEnds`, `BusyEnds`, `SignalEndsServer` and the fairness parts
of the two refinements rest on fairness, which is out of the prover's reach. Each
safety invariant of the passing runs is a theorem.

## 6 Where the code and its comments disagree

Two runs end in a counterexample, each to a sentence in a comment of the code.

* **`turns_marker`**: `speech_service.cpp:92` says that a done marker queued
  after the interrupt is discarded. It is accepted, since the epoch it is
  compared with was read two lines earlier: it ends the *next* turn's `busy_`, so
  that speech during that turn does not interrupt it.
* **`chat_stop`**: `chat_service.h:42` says that `RequestStop` takes effect at
  once. One that falls between the worker's `Pop` and the reset of
  `terminate_session` (`genai_llm.cpp:85`) is forgotten. `StopTheorem` shows that
  this window is the only one.

More were met while modelling. What the code does in these cases is in the models,
and the properties that hold say how far it goes:

* `speech_service.h:63` says that the sentence being synthesised when `CancelTts` is
  called is not delivered. The worker reads `tts_epoch` after its `Pop`
  (`speech_service.cpp:89`); a cancel between the two is not seen. `StaleTheorem`:
  at most one callback per cancel.
* `chat_service.h:42` calls `RequestStop` thread-safe. It dereferences
  `impl_->generator` while `RestartSession` (`genai_llm.cpp:161`) replaces it on
  the LLM thread, with no lock. The model lets the stop do nothing then; what the
  program does is undefined.
* `speech_service.cpp:156` says that after a release the next user starts from a clean
  state. A frame that the audio thread had popped before (line 53) is fed
  after both the clear and the reset and becomes the beginning of the next session's utterance, or, with
  a reset that is lost, all of what the VAD held does. The `StrayTheorem` of
  `SpeechMicProofs`: at most one frame per release takes the first way. If speech was in
  progress in what was left, the next user's first words are part of it and begin nothing: no
  `on_speech_start` comes for them. `SpeechIsAnnounced` is about the speech the owner has begun, and holds.
* `HandleSetRole` writes `role_id_` when the page asks (`ws_session.cpp:363`), and a restart that
  fails does not put it back (377-381), as a refused `SetSessionRole` is not looked at
  (372). From then on the page has been told of a failure, the model has the old prompt, and the
  next new session is filed under the role that was never granted. Nothing in the repository
  promises otherwise; `RoleFollowsPrompt` says which connections (`failed`) and which sessions
  (`adrift`) this can touch, and that it touches no other.
* `DESIGN.md:107` plans a context for every connection, restored on reconnect. The
  program has one model and one cache for all, and a new session for every connection.
* An interrupt that finds the session not busy sends no `interrupt` message
  (`ws_session.cpp:177`), but it does clear the TTS queue, done markers included. When
  the text turn that went before has just ended `busy_`, a spoken one's `tts_end` may be thrown
  away with nothing in its place, and the page keeps its stop button (`muted` in
  `Conversation`, the exemption of `QuietMeansIdle`).
* The comment at `main.cpp:34` has Ctrl+C end the reply and not the program;
  `std::signal` (line 73) may be good for one only, and the second then kills it.
* A configuration that is JSON with a value of another type than is asked for
  leaves `main` with an exception, where one that is no JSON is reported
  (`Config!Files`, "misshapen"). `RunInteractive` and `RunVoiceFile` use
  `system_prompt` of the configuration and ignore its roles.
* An accept that keeps failing is retried at once, for ever (`http_server.cpp:210`).

## 7 What is not modelled, and why

* *Two sessions in `WsSession`.* They share the model, its cache and the TTS queue,
  and nothing in the repository says what they owe each other. With two of them
  `BusyIsAccountedFor` fails: one browser's stop ends the turn the worker is at,
  whose ever it is, and clears the markers of both, so that the other session stays
  busy until its next interrupt. The runs have one session; the safety proofs but
  `BusyCorrect` do not depend on it. What two connections do to the *history* is in `History`.
* *Torn data.* `SileroVad::Reset` and `session_id_` race with other threads. The
  models give the outcomes in which data is old, new or names nothing; a crash
  of the process in the middle of such a read is the `Crash` of `History` only.
* *The callbacks as a contract.* `WsSession` takes speech and utterances as events
  at any time, which is more than `SpeechMic` can produce; and `SpeechMic` takes it that
  callbacks return, which is `CallsReturn` of `turns_live`. The two are not composed in
  one run.
* *Floating point*: the calculator works on exact fractions. A divisor below `1e-12`
  (`tools.cpp:127`) is one that is zero, rounding is left out, and so are values that
  `FormatNumber`'s `llround` cannot take.
* *Formatting*: `FormatNumber`, `NowString`, `SysInfoString`, `PromptHint`, titles cut
  to a length, log texts, statistics.
* *Reading*: HTTP file serving, the two API routes, `ListSessions`, `get_history`
  beyond `ListMessages`.
* *The page*: playback, status texts, the session list, DOM and style.
* *Libraries* (onnxruntime-genai, sherpa-onnx, Beast, SQLite) are outside the
  repository and modelled from how the code uses them.
* *Engine wrappers, WAV files, logging*: stateless or I/O: a call returns a result or an
  error, which is how the models take them.
* *Demos* (`src/demos`): sample programs of the vendored libraries, about 1,600 lines, not part of the server.

## 8 Plan

Done, in this order: `BoundedQueue`, `SpeechTts`, `ChatService`, `WsSession`, `SpeechMic`
and the two contracts; then `SessionStore` and `History`, `WebClient` and
`Conversation`, the terminal programs and the server's life in `Program`, the pure
algorithms in `MCText`; and the proofs of section 5. What would come next:

1. An abstract `Microphone` (who is listened to, and what was said) as the
   contract between `SpeechMic` and `WsSession`.
2. A statement of what sessions owe each other, and a `turns` instance with two.
3. Playback in `WebClient`, with the audio chunks that are still queued in the page when a
   turn is interrupted.
