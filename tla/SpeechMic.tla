------------------------------- MODULE SpeechMic -------------------------------
(***************************************************************************)
(* The microphone half of src/src/server/speech_service.cpp: the audio      *)
(* thread (AudioLoop, DrainVad), the windows of engine/vad/silero_vad.cpp,   *)
(* and what the sessions of ws_session.cpp do with the microphone on the IO  *)
(* thread -- there is one, io_context::run is called once.                   *)
(*                                                                         *)
(* A sample is a number: frame n, the n-th that found room in audio_queue,   *)
(* has the samples after those of frame n - 1.  The detector and the         *)
(* recogniser are libraries outside the repository; the detector is modelled *)
(* as far as the code uses it.                                               *)
(***************************************************************************)
EXTENDS Integers, Sequences, Functions

CONSTANTS
  Sessions,    \* the connections
  Nobody,      \* nullptr; no callbacks
  Capacity,    \* audio_queue{256}
  FrameSize,   \* samples of a frame: 320 (web/worklet.js)
  WindowSize,  \* window_size: 512
  MaxFrames,   \* bound: frames that found room
  MaxReleases  \* bound: disconnects of a session that had the microphone

ASSUME SpeechMicAssumption ==
  /\ Nobody \notin Sessions
  /\ Capacity \in Nat \ {0}
  /\ FrameSize \in Nat \ {0} /\ WindowSize \in Nat \ {0}
  /\ MaxFrames \in Nat /\ MaxReleases \in Nat

VARIABLES
  owner,       \* mic_owner
  acquired,    \* the sessions with mic_acquired_
  gone,        \* the connections that are lost: none of them comes back
  callbacks,   \* callbacks: whose they are
  queue,       \* audio_queue
  ioPc, ioSession,  \* the IO thread: inside which call, of which session
  pc,          \* where AudioLoop is
  task,        \* the task it popped
  handlers,    \* DrainVad's snapshot of the callbacks
  segment,     \* the segment it has popped
  wasSpeaking, \* was_speaking
  pending,     \* SileroVad: the samples that do not fill a window yet
  vad,         \* the detector
  \* History, read by the properties only.
  sent,        \* sent[n]: the session that sent frame n
  releases,    \* disconnects of an owner
  strays,      \* frames fed to the VAD after a release had cleared the queue
  begun,       \* the session whose frame began the speech in progress
  announced,   \* the session whose on_speech_start was called for it
  heard        \* the last sample a recognised segment had

io == <<ioPc, ioSession>>
mic == <<owner, acquired, gone, callbacks>>
worker == <<pc, task, handlers, segment, wasSpeaking>>
history == <<sent, releases, strays, begun, announced, heard>>
vars == <<mic, queue, io, worker, pending, vad, history>>

Task == [kind : {"frame"}, of : Sessions, frame : 1..MaxFrames]
        \union [kind : {"flush"}, of : Sessions, frame : {0}]
NoTask == [kind |-> "none", of |-> Nobody, frame |-> 0]
Samples == 1..(MaxFrames * FrameSize)
SamplesOf(n) == [i \in 1..FrameSize |-> (n - 1) * FrameSize + i]

\* The detector keeps what it may yet count as speech, knows whether somebody
\* is speaking, and has a queue of finished segments.
Vad == [buffer : SUBSET Samples, speaking : BOOLEAN, segments : Seq(SUBSET Samples)]
CleanVad == [buffer |-> {}, speaking |-> FALSE, segments |-> <<>>]

IoLabels == {"install", "flush", "clear", "reset", "remove"}
Labels == {"pop", "feed", "window", "drain", "edge", "segments", "recognise"}

TypeOK ==
  /\ owner \in Sessions \union {Nobody}
  /\ acquired \subseteq Sessions /\ gone \subseteq Sessions
  /\ callbacks \in Sessions \union {Nobody}
  /\ queue \in Seq(Task)
  /\ \/ ioPc = "idle" /\ ioSession = Nobody
     \/ ioPc \in IoLabels /\ ioSession \in Sessions
  /\ pc \in Labels
  /\ task \in Task \union {NoTask}
  /\ handlers \in Sessions \union {Nobody}
  /\ segment \subseteq Samples
  /\ wasSpeaking \in BOOLEAN
  /\ pending \in Seq(Samples)
  /\ vad \in Vad
  /\ sent \in Seq(Sessions) /\ Len(sent) <= MaxFrames
  /\ releases \in 0..MaxReleases /\ strays \in Nat
  /\ begun \in Sessions \union {Nobody}
  /\ announced \in Sessions \union {Nobody}
  /\ heard \in Samples \union {0}

Init ==
  /\ owner = Nobody /\ acquired = {} /\ gone = {} /\ callbacks = Nobody
  /\ queue = <<>>
  /\ ioPc = "idle" /\ ioSession = Nobody
  /\ pc = "pop" /\ task = NoTask /\ handlers = Nobody /\ segment = {}
  /\ wasSpeaking = FALSE
  /\ pending = <<>> /\ vad = CleanVad
  /\ sent = <<>> /\ releases = 0 /\ strays = 0 /\ heard = 0
  /\ begun = Nobody /\ announced = Nobody

-----------------------------------------------------------------------------
(* The sessions, on the IO thread: one call at a time. *)

IoGoto(label, s) ==
  /\ ioPc' = label
  /\ ioSession' = IF label = "idle" THEN Nobody ELSE s

\* StartMic: TryAcquireMic ...  (If another session has the microphone the
\* browser is told so, and nothing changes.)
StartMic(s) ==
  /\ ioPc = "idle"
  /\ s \notin gone
  /\ owner \in {Nobody, s}
  /\ owner' = s
  /\ acquired' = acquired \union {s}
  /\ IoGoto("install", s)
  /\ UNCHANGED <<gone, callbacks, queue, worker, pending, vad, history>>

\* ... SetCallbacks.
InstallCallbacks ==
  /\ ioPc = "install"
  /\ callbacks' = ioSession
  /\ IoGoto("idle", Nobody)
  /\ UNCHANGED <<owner, acquired, gone, queue, worker, pending, vad, history>>

\* HandleBinary, PushAudio: a frame that finds the queue full is dropped (no
\* step).
PushAudio(s) ==
  /\ ioPc = "idle"
  /\ s \in acquired
  /\ Len(queue) < Capacity
  /\ Len(sent) < MaxFrames
  /\ sent' = Append(sent, s)
  /\ queue' = Append(queue, [kind |-> "frame", of |-> s, frame |-> Len(sent')])
  /\ UNCHANGED <<mic, io, worker, pending, vad, releases, strays,
                 begun, announced, heard>>

\* StopMic, FlushMic: waits while the queue is full.  The session keeps the
\* microphone.
StopMic(s) ==
  /\ ioPc = "idle"
  /\ s \in acquired
  /\ IoGoto("flush", s)
  /\ UNCHANGED <<mic, queue, worker, pending, vad, history>>

FlushMic ==
  /\ ioPc = "flush"
  /\ Len(queue) < Capacity
  /\ queue' = Append(queue, [kind |-> "flush", of |-> ioSession, frame |-> 0])
  /\ IoGoto("idle", Nobody)
  /\ UNCHANGED <<mic, worker, pending, vad, history>>

\* OnDisconnect of a session with mic_acquired_: ReleaseMic gives up the
\* ownership ...
Disconnect(s) ==
  /\ ioPc = "idle"
  /\ s \in acquired
  /\ releases < MaxReleases
  /\ releases' = releases + 1
  /\ gone' = gone \union {s}
  /\ IF owner = s THEN owner' = Nobody /\ IoGoto("clear", s)
                  ELSE UNCHANGED owner /\ IoGoto("remove", s)
  /\ UNCHANGED <<acquired, callbacks, queue, worker, pending, vad, sent, strays,
                 begun, announced, heard>>

\* Mutant: the queue is left as it is.
BugReleaseClear ==
  /\ ioPc = "clear"
  /\ IoGoto("reset", ioSession)
  /\ UNCHANGED <<mic, queue, worker, pending, vad, history>>

\* ... drops what is queued ...
ReleaseClear ==
  /\ ioPc = "clear"
  /\ queue' = <<>>
  /\ IoGoto("reset", ioSession)
  /\ UNCHANGED <<mic, worker, pending, vad, history>>

\* What the history keeps of the speech in progress, while it lasts.
WhileSpeaking(who) == IF vad'.speaking THEN who ELSE Nobody

\* ... and resets the VAD, without a lock: if the audio thread is using it,
\* any part of the reset may be lost.
ReleaseReset ==
  /\ ioPc = "reset"
  /\ \/ pending' = <<>> /\ vad' = CleanVad
     \/ /\ pc \in {"feed", "window", "segments"}
        /\ pending' \in {<<>>, pending}
        /\ vad' \in {CleanVad, vad}
  /\ begun' = WhileSpeaking(begun) /\ announced' = WhileSpeaking(announced)
  /\ IoGoto("remove", ioSession)
  /\ UNCHANGED <<mic, queue, worker, sent, releases, strays, heard>>

\* Mutant: the session goes on thinking it has the microphone.
BugRemoveCallbacks ==
  /\ ioPc = "remove"
  /\ callbacks' = Nobody
  /\ IoGoto("idle", Nobody)
  /\ UNCHANGED <<owner, acquired, gone, queue, worker, pending, vad, history>>

\* SetCallbacks({}), mic_acquired_ = false.
RemoveCallbacks ==
  /\ ioPc = "remove"
  /\ callbacks' = Nobody
  /\ acquired' = acquired \ {ioSession}
  /\ IoGoto("idle", Nobody)
  /\ UNCHANGED <<owner, gone, queue, worker, pending, vad, history>>

IoStep ==
  InstallCallbacks \/ FlushMic \/ ReleaseClear \/ ReleaseReset \/ RemoveCallbacks

-----------------------------------------------------------------------------
(* The detector. *)

\* AcceptWaveform: what may become of the detector with one more window.
\* Speech is detected on the second window of it at the earliest (a window is
\* 32 ms, min_speech_seconds longer); a segment includes what was kept before.
Accept(w) ==
  LET all == vad.buffer \union w
  IN IF vad.speaking
     THEN {[vad EXCEPT !.buffer = all],
           [buffer |-> {}, speaking |-> FALSE, segments |-> Append(vad.segments, all)]}
     ELSE {[vad EXCEPT !.buffer = w]} \union
          IF vad.buffer = {} THEN {}
          ELSE {[vad EXCEPT !.buffer = all, !.speaking = TRUE]}

\* Flush: speech in progress becomes a segment.
Flushed(v) ==
  IF v.speaking
  THEN [buffer |-> {}, speaking |-> FALSE, segments |-> Append(v.segments, v.buffer)]
  ELSE v

-----------------------------------------------------------------------------
(* AudioLoop. *)

Pop ==
  /\ pc = "pop"
  /\ queue # <<>>
  /\ task' = Head(queue)
  /\ queue' = Tail(queue)
  /\ pc' = "feed"
  /\ UNCHANGED <<mic, io, handlers, segment, wasSpeaking, pending, vad, history>>

\* SileroVad::Feed: the samples join those left over ...
FeedFrame ==
  /\ pc = "feed"
  /\ task.kind = "frame"
  /\ pending' = pending \o SamplesOf(task.frame)
  /\ strays' = IF owner # task.of /\ ~(ioPc = "clear" /\ ioSession = task.of)
                THEN strays + 1 ELSE strays
  /\ pc' = "window"
  /\ UNCHANGED <<mic, queue, io, task, handlers, segment, wasSpeaking, vad, sent,
                 releases, begun, announced, heard>>

\* ... and full windows of them go to the detector, one by one ...
FeedWindow ==
  /\ pc = "window"
  /\ Len(pending) >= WindowSize
  /\ vad' \in Accept(Range(SubSeq(pending, 1, WindowSize)))
  /\ pending' = SubSeq(pending, WindowSize + 1, Len(pending))
  /\ begun' = WhileSpeaking(IF vad.speaking THEN begun ELSE task.of)
  /\ announced' = WhileSpeaking(announced)
  /\ UNCHANGED <<mic, queue, io, worker, sent, releases, strays, heard>>

\* ... until less than a window is left.
FeedDone ==
  /\ pc = "window"
  /\ Len(pending) < WindowSize
  /\ pc' = "drain"
  /\ UNCHANGED <<mic, queue, io, task, handlers, segment, wasSpeaking, pending,
                 vad, history>>

\* Mutant: the samples left over stay there.
BugFeedFlush ==
  /\ pc = "feed"
  /\ task.kind = "flush"
  /\ vad' \in {Flushed(v) : v \in IF pending = <<>> THEN {vad}
                                  ELSE Accept(Range(pending))}
  /\ begun' = WhileSpeaking(begun) /\ announced' = WhileSpeaking(announced)
  /\ pc' = "drain"
  /\ UNCHANGED <<mic, queue, io, task, handlers, segment, wasSpeaking, pending,
                 sent, releases, strays, heard>>

\* SileroVad::Flush: what is left is filled up to a window with silence.
FeedFlush ==
  /\ pc = "feed"
  /\ task.kind = "flush"
  /\ vad' \in {Flushed(v) : v \in IF pending = <<>> THEN {vad}
                                  ELSE Accept(Range(pending))}
  /\ pending' = <<>>
  /\ begun' = WhileSpeaking(begun) /\ announced' = WhileSpeaking(announced)
  /\ pc' = "drain"
  /\ UNCHANGED <<mic, queue, io, task, handlers, segment, wasSpeaking, sent,
                 releases, strays, heard>>

\* DrainVad: GetCallbacks ...
DrainCallbacks ==
  /\ pc = "drain"
  /\ handlers' = callbacks
  /\ pc' = "edge"
  /\ UNCHANGED <<mic, queue, io, task, segment, wasSpeaking, pending, vad, history>>

\* Mutant: was_speaking is only ever set.
BugDrainEdge ==
  /\ pc = "edge"
  /\ announced' = IF vad.speaking /\ ~wasSpeaking THEN handlers ELSE announced
  /\ wasSpeaking' = (wasSpeaking \/ vad.speaking)
  /\ pc' = "segments"
  /\ UNCHANGED <<mic, queue, io, task, handlers, segment, pending, vad, sent,
                 releases, strays, begun, heard>>

\* ... on_speech_start, on an edge only, of the session in the snapshot if there
\* is one; was_speaking follows either way ...
DrainEdge ==
  /\ pc = "edge"
  /\ announced' = IF vad.speaking /\ ~wasSpeaking THEN handlers ELSE announced
  /\ wasSpeaking' = vad.speaking
  /\ pc' = "segments"
  /\ UNCHANGED <<mic, queue, io, task, handlers, segment, pending, vad, sent,
                 releases, strays, begun, heard>>

\* Mutant: the segment is looked at, and stays where it is.
BugPopSegment ==
  /\ pc = "segments"
  /\ vad.segments # <<>>
  /\ segment' = Head(vad.segments)
  /\ pc' = "recognise"
  /\ UNCHANGED <<mic, queue, io, task, handlers, wasSpeaking, pending, vad, history>>

\* ... PopSegment ...
PopSegment ==
  /\ pc = "segments"
  /\ vad.segments # <<>>
  /\ segment' = Head(vad.segments)
  /\ vad' = [vad EXCEPT !.segments = Tail(@)]
  /\ pc' = "recognise"
  /\ UNCHANGED <<mic, queue, io, task, handlers, wasSpeaking, pending, history>>

\* ... Recognize, and on_utterance with the snapshot (on_error or nothing if
\* there is no text, which is the same here) ...
Recognise ==
  /\ pc = "recognise"
  /\ \E last \in segment : (\A n \in segment : n <= last) /\ heard' = last
  /\ segment' = {}
  /\ pc' = "segments"
  /\ UNCHANGED <<mic, queue, io, task, handlers, wasSpeaking, pending, vad, sent,
                 releases, strays, begun, announced>>

\* ... until there is no segment left.
DrainDone ==
  /\ pc = "segments"
  /\ vad.segments = <<>>
  /\ task' = NoTask
  /\ handlers' = Nobody
  /\ pc' = "pop"
  /\ UNCHANGED <<mic, queue, io, segment, wasSpeaking, pending, vad, history>>

-----------------------------------------------------------------------------
AudioLoop ==
  \/ Pop \/ FeedFrame \/ FeedWindow \/ FeedDone \/ FeedFlush
  \/ DrainCallbacks \/ DrainEdge \/ PopSegment \/ Recognise \/ DrainDone

Next ==
  \/ \E s \in Sessions : StartMic(s) \/ PushAudio(s) \/ StopMic(s) \/ Disconnect(s)
  \/ IoStep
  \/ AudioLoop

Safety == Init /\ [][Next]_vars

\* The audio thread is scheduled, the recogniser and the callbacks return
\* (WsSession: CallsReturn), and a call on the IO thread that can go on does.
Spec == Safety /\ WF_vars(AudioLoop) /\ WF_vars(IoStep)

-----------------------------------------------------------------------------
(* Correctness. *)

\* mic_acquired_ and mic_owner, kept apart by two classes, agree whenever no
\* call is under way, and the queue holds nothing but what the owner sent.
\* (ws_session.cpp:118-122, 126, 195; speech_service.cpp:153-160)
OwnerAgrees ==
  /\ ioPc = "idle" => acquired = {owner} \ {Nobody}
  /\ ioPc # "clear" => \A i \in 1..Len(queue) : queue[i].of = owner

\* A release lets at most one frame of the session through to the VAD: the one
\* the audio thread had taken from the queue already.  (speech_service.cpp:157)
OneStrayPerRelease == strays <= releases

\* No sample is heard twice or out of order, across frames and windows,
\* flushes, segments and resets.  (silero_vad.cpp:53-66, 79-87)
HeardInOrder ==
  [][Recognise => \A n \in segment : n > heard]_vars

\* When the audio thread goes back to its queue and the owner of the microphone
\* is speaking, the owner has been told so: no start of speech is lost or told
\* to somebody else, though was_speaking outlives a reset and the callbacks
\* change hands meanwhile.  Speech that a frame of a session now gone has begun
\* is not covered: its frame strayed or its reset was lost, it is told to nobody
\* or to whoever has the callbacks, and the next user's words may join it.
\* (speech_service.cpp:66-71, 156-158)
SpeechIsAnnounced ==
  pc = "pop" /\ vad.speaking /\ begun = owner => announced = owner

\* The IO thread, which serves all sessions, gets out of every call: FlushMic
\* waits for room in the queue only as long as the audio thread takes to get
\* back to it.  (speech_service.cpp:52-61, 73-82, 174-177)
CallsReturn == (ioPc # "idle") ~> (ioPc = "idle")

=============================================================================
