------------------------------- MODULE SpeechTts -------------------------------
(***************************************************************************)
(* The synthesis half of src/src/server/speech_service.cpp: TtsLoop on the  *)
(* TTS thread, and the calls other threads make into it -- SubmitSentence,  *)
(* SubmitTtsDoneMarker, CancelTts, SetCallbacks.                            *)
(*                                                                         *)
(* tts_queue is taken as the channel BoundedQueue was shown to implement:   *)
(* one step per store, take or clear.  What BoundedQueue does not give is    *)
(* atomicity ACROSS calls: CancelTts is two steps (fetch_add, Clear), and    *)
(* the worker reads the callbacks and the epoch only after its Pop.         *)
(***************************************************************************)
EXTENDS Integers, Sequences, FiniteSets

CONSTANTS
  Cancellers,   \* the threads that call CancelTts
  Sessions,     \* the sessions that install callbacks
  NoCallbacks,  \* SetCallbacks({})
  Capacity,     \* tts_queue{64}
  MaxEpoch,     \* bound: CancelTts calls
  MaxInstalls   \* bound: SetCallbacks calls

ASSUME SpeechTtsAssumption ==
  /\ Capacity \in Nat \ {0}
  /\ MaxEpoch \in Nat /\ MaxInstalls \in Nat
  /\ NoCallbacks \notin Sessions

VARIABLES
  queue,      \* tts_queue
  epoch,      \* tts_epoch: how many CancelTts calls have begun
  cancel,     \* cancel[k]: the epoch thread k has moved to without having
              \* cleared the queue yet, 0 outside CancelTts
  callbacks,  \* callbacks: whose they are
  pc,         \* where TtsLoop is
  task,       \* the task it popped
  handlers,   \* its snapshot of the callbacks
  epochAtStart,
  \* History, read by the properties only.
  finished,   \* the epochs of the CancelTts calls that have returned
  installs,   \* SetCallbacks calls
  stale,      \* callbacks made for a task cancelled by a finished CancelTts
  late        \* callbacks made to a session whose callbacks are replaced

worker == <<pc, task, handlers, epochAtStart>>
history == <<finished, installs, stale, late>>
vars == <<queue, epoch, cancel, callbacks, worker, history>>

\* A TtsTask; sub records how many CancelTts calls had begun when it was stored.
Task == [kind : {"sentence", "blank", "marker"}, sub : 0..MaxEpoch]

Labels == {"pop", "snapshot", "load", "synth", "check", "audio", "marker", "done"}

TypeOK ==
  /\ queue \in Seq(Task)
  /\ epoch \in 0..MaxEpoch
  /\ cancel \in [Cancellers -> 0..MaxEpoch]
  /\ callbacks \in Sessions \union {NoCallbacks}
  /\ pc \in Labels
  /\ task \in Task
  /\ handlers \in Sessions \union {NoCallbacks}
  /\ epochAtStart \in 0..MaxEpoch
  /\ finished \subseteq 1..MaxEpoch
  /\ installs \in 0..MaxInstalls
  /\ stale \in Nat
  /\ late \in Nat

NoTask == [kind |-> "blank", sub |-> 0]

Init ==
  /\ queue = <<>>
  /\ epoch = 0
  /\ cancel = [k \in Cancellers |-> 0]
  /\ callbacks = NoCallbacks
  /\ pc = "pop"
  /\ task = NoTask
  /\ handlers = NoCallbacks
  /\ epochAtStart = 0
  /\ finished = {}
  /\ installs = 0
  /\ stale = 0
  /\ late = 0

\* t was queued before some CancelTts call that has since returned.
Cancelled(t) == \E e \in finished : e > t.sub

-----------------------------------------------------------------------------
(* Calls from the LLM, IO and audio threads. *)

\* SubmitSentence, SubmitTtsDoneMarker: a full queue makes the caller wait.
Submit(kind) ==
  /\ Len(queue) < Capacity
  /\ queue' = Append(queue, [kind |-> kind, sub |-> epoch])
  /\ UNCHANGED <<epoch, cancel, callbacks, worker, history>>

\* CancelTts: tts_epoch.fetch_add(1) ...
CancelBump(k) ==
  /\ cancel[k] = 0
  /\ epoch < MaxEpoch
  /\ epoch' = epoch + 1
  /\ cancel' = [cancel EXCEPT ![k] = epoch + 1]
  /\ UNCHANGED <<queue, callbacks, worker, history>>

\* Mutant: the queue is not cleared.
BugCancelClear(k) ==
  /\ cancel[k] # 0
  /\ finished' = finished \union {cancel[k]}
  /\ cancel' = [cancel EXCEPT ![k] = 0]
  /\ UNCHANGED <<queue, epoch, callbacks, worker, installs, stale, late>>

\* ... then tts_queue.Clear(), and it returns.
CancelClear(k) ==
  /\ cancel[k] # 0
  /\ queue' = <<>>
  /\ finished' = finished \union {cancel[k]}
  /\ cancel' = [cancel EXCEPT ![k] = 0]
  /\ UNCHANGED <<epoch, callbacks, worker, installs, stale, late>>

SetCallbacks(s) ==
  /\ installs < MaxInstalls
  /\ callbacks' = s
  /\ installs' = installs + 1
  /\ UNCHANGED <<queue, epoch, cancel, worker, finished, stale, late>>

-----------------------------------------------------------------------------
(* TtsLoop. *)

Pop ==
  /\ pc = "pop"
  /\ queue # <<>>
  /\ task' = Head(queue)
  /\ queue' = Tail(queue)
  /\ pc' = "snapshot"
  /\ UNCHANGED <<epoch, cancel, callbacks, handlers, epochAtStart, history>>

\* Mutant: one snapshot, kept from task to task.
BugGetCallbacks ==
  /\ pc = "snapshot"
  /\ handlers' = IF handlers = NoCallbacks THEN callbacks ELSE handlers
  /\ pc' = "load"
  /\ UNCHANGED <<queue, epoch, cancel, callbacks, task, epochAtStart, history>>

GetCallbacks ==
  /\ pc = "snapshot"
  /\ handlers' = callbacks
  /\ pc' = "load"
  /\ UNCHANGED <<queue, epoch, cancel, callbacks, task, epochAtStart, history>>

\* Reads tts_epoch, then branches on the task; a sentence of which nothing
\* speakable is left goes back to the loop.
LoadEpoch ==
  /\ pc = "load"
  /\ epochAtStart' = epoch
  /\ pc' = CASE task.kind = "marker" -> "marker"
             [] task.kind = "blank" -> "pop"
             [] task.kind = "sentence" -> "synth"
  /\ UNCHANGED <<queue, epoch, cancel, callbacks, task, handlers, history>>

Synthesize ==
  /\ pc = "synth"
  /\ pc' = "check"
  /\ UNCHANGED <<queue, epoch, cancel, callbacks, task, handlers, epochAtStart,
                 history>>

\* tts_epoch.load() != epoch_at_start: cancelled meanwhile, drop the result.
CheckEpoch ==
  /\ pc = "check"
  /\ pc' = IF epoch = epochAtStart THEN "audio" ELSE "pop"
  /\ UNCHANGED <<queue, epoch, cancel, callbacks, task, handlers, epochAtStart,
                 history>>

CheckMarker ==
  /\ pc = "marker"
  /\ pc' = IF epoch = epochAtStart THEN "done" ELSE "pop"
  /\ UNCHANGED <<queue, epoch, cancel, callbacks, task, handlers, epochAtStart,
                 history>>

\* on_tts_audio (or on_error, when the synthesis failed), on_tts_done: called
\* only if the snapshot has it.
Callback ==
  /\ pc \in {"audio", "done"}
  /\ pc' = "pop"
  /\ stale' = IF handlers # NoCallbacks /\ Cancelled(task)
              THEN stale + 1 ELSE stale
  /\ late' = IF handlers # NoCallbacks /\ handlers # callbacks
             THEN late + 1 ELSE late
  /\ UNCHANGED <<queue, epoch, cancel, callbacks, task, handlers, epochAtStart,
                 finished, installs>>

-----------------------------------------------------------------------------
TtsLoop ==
  Pop \/ GetCallbacks \/ LoadEpoch \/ Synthesize \/ CheckEpoch \/ CheckMarker
    \/ Callback

Next ==
  \/ \E kind \in {"sentence", "blank", "marker"} : Submit(kind)
  \/ \E k \in Cancellers : CancelBump(k) \/ CancelClear(k)
  \/ \E s \in Sessions \union {NoCallbacks} : SetCallbacks(s)
  \/ TtsLoop

Spec == Init /\ [][Next]_vars

-----------------------------------------------------------------------------
(* Correctness. *)

\* Once a CancelTts has returned, nothing that was queued before it began is
\* queued any more, whatever other cancels and submits run beside it.
\* (speech_service.cpp:188-191, speech_service.h:63)
QueueHoldsNoCancelled ==
  \A i \in 1..Len(queue) : ~Cancelled(queue[i])

\* Each CancelTts lets through at most one callback for the tasks it cancelled:
\* the one for the task the worker had already popped.
\* (speech_service.cpp:87-112)
StaleAtMostOncePerCancel == stale <= Cardinality(finished)

\* The epoch check does what it is there for: a cancelled sentence is let
\* through only if a CancelTts had begun before the worker read the epoch, so
\* never one whose every cancel fell within its synthesis.
\* (speech_service.cpp:89, 104-105)
CancelDuringSynthesisCaught ==
  [][CheckEpoch /\ pc' = "audio" /\ Cancelled(task) => task.sub < epochAtStart]_vars

\* A session whose callbacks were replaced or removed hears from the worker at
\* most once more per SetCallbacks: the worker works on a snapshot, and takes
\* a new one with every task.  (speech_service.cpp:88, 162-165)
LateAtMostOncePerInstall == late <= installs

=============================================================================
