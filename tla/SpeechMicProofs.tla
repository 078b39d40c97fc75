---------------------------- MODULE SpeechMicProofs ----------------------------
(* The microphone passes from one session to the next, and its samples from   *)
(* the queue to the recogniser, for any numbers of sessions, frames, releases *)
(* and samples, any sizes of frames and windows.                              *)
EXTENDS SpeechMic, SequenceTheorems, TLAPS

-----------------------------------------------------------------------------
(* Samples and the detector. *)

\* The samples of a frame are consecutive numbers, after those of the frames
\* before it.
LEMMA FrameSamples ==
  ASSUME NEW n \in 1..MaxFrames
  PROVE  /\ SamplesOf(n) \in Seq(Samples)
         /\ Len(SamplesOf(n)) = FrameSize
         /\ \A i \in 1..FrameSize : SamplesOf(n)[i] = (n - 1) * FrameSize + i
         /\ \A i \in 1..FrameSize : SamplesOf(n)[i] <= n * FrameSize
<1> USE SpeechMicAssumption
<1>1. (n - 1) * FrameSize \in Nat /\ n * FrameSize = (n - 1) * FrameSize + FrameSize
  OBVIOUS
<1>2. n * FrameSize <= MaxFrames * FrameSize /\ MaxFrames * FrameSize \in Nat
  OBVIOUS
<1>3. \A i \in 1..FrameSize : (n - 1) * FrameSize + i \in Samples
  BY <1>1, <1>2 DEF Samples
<1>4. SamplesOf(n) \in [1..FrameSize -> Samples]
  BY <1>3 DEF SamplesOf
<1> QED BY <1>1, <1>4 DEF SamplesOf

\* The numbers of later frames are larger.
LEMMA FramesAreOrdered ==
  ASSUME NEW m \in Nat, NEW n \in Nat, m <= n
  PROVE  m * FrameSize \in Nat /\ m * FrameSize <= n * FrameSize
BY SpeechMicAssumption

\* Whatever the detector is given, it stays a detector.
LEMMA DetectorType ==
  /\ CleanVad \in Vad
  /\ \A v \in Vad : Flushed(v) \in Vad
  /\ vad \in Vad => \A w \in SUBSET Samples : Accept(w) \subseteq Vad
<1>1. CleanVad \in Vad
  BY EmptySeq DEF CleanVad, Vad
<1>2. ASSUME NEW v \in Vad PROVE Flushed(v) \in Vad
  <2>1. Append(v.segments, v.buffer) \in Seq(SUBSET Samples)
    BY <1>2, AppendProperties DEF Vad
  <2> QED BY <1>2, <2>1 DEF Flushed, Vad
<1>3. ASSUME vad \in Vad, NEW w \in SUBSET Samples PROVE Accept(w) \subseteq Vad
  <2>1. Append(vad.segments, vad.buffer \union w) \in Seq(SUBSET Samples)
    BY <1>3, AppendProperties DEF Vad
  <2>2. /\ [vad EXCEPT !.buffer = vad.buffer \union w] \in Vad
        /\ [vad EXCEPT !.buffer = w] \in Vad
        /\ [vad EXCEPT !.buffer = vad.buffer \union w, !.speaking = TRUE] \in Vad
    BY <1>3 DEF Vad
  <2>3. [buffer |-> {}, speaking |-> FALSE,
         segments |-> Append(vad.segments, vad.buffer \union w)] \in Vad
    BY <2>1 DEF Vad
  <2> HIDE DEF Vad
  <2> QED BY <2>2, <2>3, Zenon DEF Accept
<1> QED BY <1>1, <1>2, <1>3

\* What FeedFlush may make of the detector.
LEMMA FlushType ==
  ASSUME TypeOK, FeedFlush
  PROVE  vad' \in Vad
<1>1. Range(pending) \in SUBSET Samples
  BY RangeOfSeq DEF TypeOK
<1> QED BY <1>1, DetectorType DEF FeedFlush, TypeOK

\* The window that goes to the detector, and what is left.
LEMMA WindowType ==
  ASSUME NEW p \in Seq(Samples), Len(p) >= WindowSize
  PROVE  LET w == SubSeq(p, 1, WindowSize)
             rest == SubSeq(p, WindowSize + 1, Len(p))
         IN /\ Range(w) = {p[i] : i \in 1..WindowSize}
            /\ Range(w) \in SUBSET Samples
            /\ rest \in Seq(Samples)
            /\ Len(rest) = Len(p) - WindowSize
            /\ \A i \in 1..Len(rest) : rest[i] = p[WindowSize + i]
<1> USE SpeechMicAssumption
<1> DEFINE w == SubSeq(p, 1, WindowSize)
           rest == SubSeq(p, WindowSize + 1, Len(p))
<1>1. Len(p) \in Nat /\ \A i \in 1..Len(p) : p[i] \in Samples
  BY LenProperties, ElementOfSeq
<1>2. /\ w \in Seq(Samples)
      /\ Len(w) = WindowSize
      /\ \A i \in 1..WindowSize : w[i] = p[i]
  <2>1. \A i \in 1..WindowSize : p[i] \in Samples
    BY <1>1
  <2>2. w \in Seq(Samples) /\ Len(w) = WindowSize
        /\ \A i \in 1..WindowSize - 1 + 1 : w[i] = p[1 + i - 1]
    BY <2>1, SubSeqProperties
  <2> QED BY <2>2
<1>3. Range(w) = {w[i] : i \in 1..WindowSize} /\ Range(w) \in SUBSET Samples
  BY <1>2, RangeEquality, RangeOfSeq
<1>4. Range(w) = {p[i] : i \in 1..WindowSize}
  BY <1>2, <1>3
<1>5. /\ rest \in Seq(Samples)
      /\ Len(rest) = Len(p) - WindowSize
      /\ \A i \in 1..Len(p) - WindowSize : rest[i] = p[WindowSize + i]
  <2>1. \A i \in WindowSize + 1..Len(p) : p[i] \in Samples
    BY <1>1
  <2>2. /\ rest \in Seq(Samples)
        /\ Len(rest) = IF WindowSize + 1 <= Len(p)
                       THEN Len(p) - (WindowSize + 1) + 1 ELSE 0
        /\ \A i \in 1..Len(p) - (WindowSize + 1) + 1 :
              rest[i] = p[WindowSize + 1 + i - 1]
    BY <1>1, <2>1, SubSeqProperties
  <2> QED BY <1>1, <2>2
<1> QED BY <1>1, <1>3, <1>4, <1>5
-----------------------------------------------------------------------------
\* Every variable keeps its type.
THEOREM TypeCorrect == Spec => []TypeOK
<1> USE SpeechMicAssumption
<1>1. Init => TypeOK
  <2> SUFFICES ASSUME Init PROVE TypeOK
    OBVIOUS
  <2>1. queue \in Seq(Task) /\ pending \in Seq(Samples) /\ vad \in Vad
    BY EmptySeq, DetectorType DEF Init
  <2>2. sent \in Seq(Sessions) /\ Len(sent) <= MaxFrames
    BY EmptySeq DEF Init
  <2>3. /\ owner \in Sessions \union {Nobody} /\ acquired \subseteq Sessions
        /\ callbacks \in Sessions \union {Nobody} /\ handlers \in Sessions \union {Nobody}
        /\ segment \subseteq Samples /\ heard \in Samples \union {0}
    BY DEF Init
  <2>4. ioPc = "idle" /\ ioSession = Nobody /\ task \in Task \union {NoTask}
    BY Zenon DEF Init
  <2>5. /\ pc \in Labels /\ wasSpeaking \in BOOLEAN /\ gone \subseteq Sessions
        /\ begun \in Sessions \union {Nobody} /\ announced \in Sessions \union {Nobody}
    BY DEF Init, Labels
  <2>6. releases \in 0..MaxReleases /\ strays \in Nat
    BY DEF Init
  <2> QED BY <2>1, <2>2, <2>3, <2>4, <2>5, <2>6, Zenon DEF TypeOK
<1>2. TypeOK /\ [Next]_vars => TypeOK'
  <2> SUFFICES ASSUME TypeOK, [Next]_vars PROVE TypeOK'
    OBVIOUS
  <2> USE DEF TypeOK, IoGoto, IoLabels, Labels, io, mic, worker, history
  <2>1. ASSUME NEW s \in Sessions, StartMic(s) \/ StopMic(s) PROVE TypeOK'
    BY <2>1 DEF StartMic, StopMic
  <2>2. ASSUME NEW s \in Sessions, PushAudio(s) PROVE TypeOK'
    <3>1. sent' \in Seq(Sessions) /\ Len(sent') = Len(sent) + 1
      BY <2>2, AppendProperties DEF PushAudio
    <3>2. Len(sent') \in 1..MaxFrames
      BY <2>2, <3>1, LenProperties DEF PushAudio
    <3>3. [kind |-> "frame", of |-> s, frame |-> Len(sent')] \in Task
      BY <3>2 DEF Task
    <3>4. queue' \in Seq(Task)
      BY <2>2, <3>3, AppendProperties DEF PushAudio
    <3> QED BY <2>2, <3>1, <3>2, <3>4 DEF PushAudio
  <2>3. ASSUME NEW s \in Sessions, Disconnect(s) PROVE TypeOK'
    BY <2>3 DEF Disconnect
  <2>4. CASE InstallCallbacks \/ RemoveCallbacks
    BY <2>4 DEF InstallCallbacks, RemoveCallbacks
  <2>5. CASE FlushMic
    <3>1. [kind |-> "flush", of |-> ioSession, frame |-> 0] \in Task
      BY <2>5 DEF FlushMic, Task
    <3> QED BY <2>5, <3>1, AppendProperties DEF FlushMic
  <2>6. CASE ReleaseClear
    BY <2>6, EmptySeq DEF ReleaseClear
  <2>7. CASE ReleaseReset
    <3>1. pending' \in Seq(Samples) /\ vad' \in Vad
      BY <2>7, EmptySeq, DetectorType DEF ReleaseReset
    <3>2. begun' \in Sessions \union {Nobody} /\ announced' \in Sessions \union {Nobody}
      BY <2>7 DEF ReleaseReset, WhileSpeaking
    <3> QED BY <2>7, <3>1, <3>2 DEF ReleaseReset
  <2>8. CASE Pop
    BY <2>8, HeadTailProperties DEF Pop
  <2>9. CASE FeedFrame
    <3>1. task.frame \in 1..MaxFrames
      BY <2>9 DEF FeedFrame, Task, NoTask
    <3>2. pending' \in Seq(Samples)
      BY <2>9, <3>1, FrameSamples, ConcatProperties DEF FeedFrame
    <3> QED BY <2>9, <3>2 DEF FeedFrame
  <2>10. CASE FeedWindow
    <3>1. pending' \in Seq(Samples) /\ vad' \in Vad
      BY <2>10, WindowType, DetectorType DEF FeedWindow
    <3>2. task.of \in Sessions \union {Nobody}
      BY DEF Task, NoTask
    <3>3. begun' \in Sessions \union {Nobody} /\ announced' \in Sessions \union {Nobody}
      BY <2>10, <3>2 DEF FeedWindow, WhileSpeaking
    <3> QED BY <2>10, <3>1, <3>3 DEF FeedWindow
  <2>11. CASE FeedFlush
    <3>1. vad' \in Vad
      BY <2>11, FlushType
    <3>2. /\ begun' \in Sessions \union {Nobody} /\ announced' \in Sessions \union {Nobody}
          /\ pending' \in Seq(Samples)
      BY <2>11, EmptySeq DEF FeedFlush, WhileSpeaking
    <3> QED BY <2>11, <3>1, <3>2 DEF FeedFlush
  <2>12. CASE FeedDone \/ DrainCallbacks \/ DrainDone
    BY <2>12 DEF FeedDone, DrainCallbacks, DrainDone
  <2>13. CASE DrainEdge
    <3>1. vad.speaking \in BOOLEAN
      BY DEF Vad
    <3>2. announced' \in Sessions \union {Nobody}
      BY <2>13 DEF DrainEdge
    <3> QED BY <2>13, <3>1, <3>2 DEF DrainEdge
  <2>14. CASE PopSegment
    <3>1. vad.segments \in Seq(SUBSET Samples)
      BY DEF Vad
    <3>2. /\ Head(vad.segments) \in SUBSET Samples
          /\ Tail(vad.segments) \in Seq(SUBSET Samples)
      BY <2>14, <3>1, HeadTailProperties DEF PopSegment
    <3>3. vad' \in Vad
      BY <2>14, <3>2 DEF PopSegment, Vad
    <3> QED BY <2>14, <3>2, <3>3 DEF PopSegment
  <2>15. CASE Recognise
    BY <2>15 DEF Recognise
  <2>16. CASE UNCHANGED vars
    BY <2>16 DEF vars
  <2> QED
    BY <2>1, <2>2, <2>3, <2>4, <2>5, <2>6, <2>7, <2>8, <2>9, <2>10, <2>11, <2>12,
       <2>13, <2>14, <2>15, <2>16
    DEF Next, IoStep, AudioLoop
<1> QED BY <1>1, <1>2, PTL DEF Spec, Safety
-----------------------------------------------------------------------------
\* Who has the microphone at each point of a call, and whose tasks are queued:
\* the owner's, or, until the queue has been cleared, those of the session that
\* is being disconnected.
Holder == IF ioPc = "clear" THEN ioSession ELSE owner
OwnerInv ==
  /\ ioPc \in {"clear", "reset", "remove"} => owner = Nobody /\ acquired = {ioSession}
  /\ ioPc \in {"install", "flush"} => owner = ioSession /\ acquired = {owner}
  /\ ioPc = "idle" => acquired = {owner} \ {Nobody}
  /\ \A i \in 1..Len(queue) : queue[i].of = Holder

LEMMA OwnerInvariant == Spec => []OwnerInv
<1> USE SpeechMicAssumption
<1>1. Init => OwnerInv
  <2>1. Len(<<>>) = 0
    BY EmptySeq
  <2> QED BY <2>1 DEF Init, OwnerInv
<1>2. TypeOK /\ OwnerInv /\ [Next]_vars => OwnerInv'
  <2> SUFFICES ASSUME TypeOK, OwnerInv, [Next]_vars PROVE OwnerInv'
    OBVIOUS
  <2> USE DEF OwnerInv, Holder, IoGoto, io, mic, worker, history
  <2> DEFINE Queued(t) == /\ queue' = Append(queue, t)
                          /\ t \in Task /\ t.of = Holder
  <2>1. ASSUME NEW t, Queued(t) PROVE \A i \in 1..Len(queue') : queue'[i].of = Holder
    BY <2>1, AppendProperties DEF TypeOK
  <2>2. Len(queue) \in Nat /\ (queue # <<>> => Len(queue) # 0)
        /\ \A i \in 1..Len(queue) : queue[i] \in Task
    BY EmptySeq, LenProperties, ElementOfSeq DEF TypeOK
  <2>3. ASSUME NEW s \in Sessions, StartMic(s) PROVE OwnerInv'
    <3>1. ASSUME owner = Nobody PROVE Len(queue) = 0
      <4>1. \A i \in 1..Len(queue) : queue[i].of \in Sessions
        BY <2>2 DEF Task
      <4> QED BY <2>2, <2>3, <3>1, <4>1 DEF StartMic
    <3>2. \A i \in 1..Len(queue') : queue'[i].of = Holder'
      BY <2>2, <2>3, <3>1 DEF StartMic
    <3> QED BY <2>3, <3>2 DEF StartMic
  <2>4. ASSUME NEW s \in Sessions, PushAudio(s) PROVE OwnerInv'
    <3> DEFINE t == [kind |-> "frame", of |-> s, frame |-> Len(sent')]
    <3>1. Len(sent') \in 1..MaxFrames
      BY <2>4, AppendProperties, LenProperties DEF PushAudio, TypeOK
    <3>2. t \in Task /\ t.of = Holder
      BY <2>4, <3>1 DEF PushAudio, Task
    <3>3. \A i \in 1..Len(queue') : queue'[i].of = Holder
      BY <2>1, <2>4, <3>2 DEF PushAudio
    <3> QED BY <2>4, <3>3 DEF PushAudio
  <2>5. CASE FlushMic
    <3> DEFINE t == [kind |-> "flush", of |-> ioSession, frame |-> 0]
    <3>1. t \in Task /\ t.of = Holder
      BY <2>5 DEF FlushMic, Task, TypeOK
    <3>2. \A i \in 1..Len(queue') : queue'[i].of = Holder
      BY <2>1, <2>5, <3>1 DEF FlushMic
    <3>3. owner # Nobody
      BY <2>5 DEF FlushMic, TypeOK
    <3> QED BY <2>5, <3>2, <3>3 DEF FlushMic
  <2>6. ASSUME NEW s \in Sessions, StopMic(s) \/ Disconnect(s) PROVE OwnerInv'
    <3>1. owner = s /\ acquired = {s} /\ s # Nobody
      BY <2>6 DEF StopMic, Disconnect
    <3> QED BY <2>6, <3>1 DEF StopMic, Disconnect
  <2>7. CASE ReleaseClear
    BY <2>7, EmptySeq DEF ReleaseClear
  <2>8. CASE InstallCallbacks
    BY <2>8 DEF InstallCallbacks, TypeOK
  <2>9. CASE ReleaseReset \/ RemoveCallbacks
    BY <2>9 DEF ReleaseReset, RemoveCallbacks
  <2>10. CASE Pop
    <3>1. \A i \in 1..Len(queue') : i + 1 \in 1..Len(queue) /\ queue'[i] = queue[i + 1]
      BY <2>2, <2>10, HeadTailProperties DEF Pop, TypeOK
    <3> QED BY <2>10, <3>1 DEF Pop
  <2>11. CASE UNCHANGED <<mic, queue, io>>
    BY <2>11
  <2> QED
    BY <2>3, <2>4, <2>5, <2>6, <2>7, <2>8, <2>9, <2>10, <2>11
    DEF Next, IoStep, AudioLoop, FeedFrame, FeedWindow, FeedDone, FeedFlush,
        DrainCallbacks, DrainEdge, PopSegment, Recognise, DrainDone, vars
<1> QED BY <1>1, <1>2, TypeCorrect, PTL DEF Spec, Safety

\* mic_acquired_ and mic_owner agree between calls, and the queue holds only
\* what the owner sent, whichever sessions come and go.
THEOREM OwnerTheorem == Spec => []OwnerAgrees
<1>1. OwnerInv => OwnerAgrees
  BY DEF OwnerInv, OwnerAgrees, Holder
<1> QED BY <1>1, OwnerInvariant, PTL

-----------------------------------------------------------------------------
\* A release that has not yet cleared the queue may still let one frame
\* through; a frame in the hands of the audio thread may be one of them.
Uncleared == IF ioPc = "clear" THEN 1 ELSE 0
StrayInHand ==
  IF pc = "feed" /\ task.kind = "frame" /\ task.of # Holder THEN 1 ELSE 0
StrayInv == strays + StrayInHand + Uncleared <= releases

\* No more frames than releases reach the VAD after their session was released.
THEOREM StrayTheorem == Spec => []OneStrayPerRelease
<1> USE SpeechMicAssumption
<1>1. Init => StrayInv
  BY DEF Init, StrayInv, StrayInHand, Uncleared
<1>2. TypeOK /\ OwnerInv /\ StrayInv /\ [Next]_vars => StrayInv'
  <2> SUFFICES ASSUME TypeOK, OwnerInv, StrayInv, [Next]_vars PROVE StrayInv'
    OBVIOUS
  <2>1. strays \in Nat /\ releases \in Nat
    BY DEF TypeOK
  <2>2. task.kind = "frame" => task.of \in Sessions
    BY DEF TypeOK, Task, NoTask
  <2> USE DEF StrayInv, StrayInHand, Uncleared, Holder, IoGoto, io, mic, worker, history
  <2>3. ASSUME NEW s \in Sessions, StartMic(s) PROVE StrayInv'
    BY <2>1, <2>2, <2>3 DEF StartMic
  <2>4. ASSUME NEW s \in Sessions, PushAudio(s) \/ StopMic(s) PROVE StrayInv'
    BY <2>1, <2>4 DEF PushAudio, StopMic
  <2>5. ASSUME NEW s \in Sessions, Disconnect(s) PROVE StrayInv'
    <3>1. owner = s
      BY <2>5 DEF Disconnect, OwnerInv
    <3>2. releases' = releases + 1 /\ strays' = strays
      BY <2>5 DEF Disconnect
    <3>3. StrayInHand' = StrayInHand /\ Uncleared' = 1 /\ Uncleared = 0
      BY <2>5, <3>1 DEF Disconnect
    <3>4. StrayInHand \in {0, 1}
      OBVIOUS
    <3> HIDE DEF StrayInHand, Uncleared
    <3> QED BY <2>1, <3>2, <3>3, <3>4
  <2>6. CASE InstallCallbacks \/ FlushMic \/ RemoveCallbacks \/ ReleaseReset
    BY <2>1, <2>6 DEF InstallCallbacks, FlushMic, RemoveCallbacks, ReleaseReset
  <2>7. CASE ReleaseClear
    BY <2>1, <2>7 DEF ReleaseClear
  <2>8. CASE Pop
    <3>1. task'.of = Holder
      <4>1. 1 \in 1..Len(queue) /\ task' = queue[1]
        BY <2>8, EmptySeq DEF Pop, TypeOK
      <4> QED BY <4>1 DEF OwnerInv
    <3> QED BY <2>1, <2>8, <3>1 DEF Pop
  <2>9. CASE FeedFrame
    BY <2>1, <2>2, <2>9 DEF FeedFrame, OwnerInv
  <2>10. CASE /\ pc' # "feed"
              /\ UNCHANGED <<owner, io, strays, releases>>
    BY <2>1, <2>10
  <2>11. CASE UNCHANGED vars
    BY <2>11 DEF vars
  <2> QED
    BY <2>3, <2>4, <2>5, <2>6, <2>7, <2>8, <2>9, <2>10, <2>11
    DEF Next, IoStep, AudioLoop, FeedWindow, FeedDone, FeedFlush,
        DrainCallbacks, DrainEdge, PopSegment, Recognise, DrainDone
<1>3. TypeOK /\ StrayInv => OneStrayPerRelease
  BY DEF TypeOK, StrayInv, StrayInHand, Uncleared, OneStrayPerRelease
<1> QED BY <1>1, <1>2, <1>3, TypeCorrect, OwnerInvariant, PTL DEF Spec, Safety
-----------------------------------------------------------------------------
(* The order of the samples.  The stages they pass -- queue, pending, the     *)
(* detector's buffer, its finished segments, the segment with the recogniser  *)
(* -- follow each other: what is at an earlier stage is later speech.         *)

\* A sample after all that has been heard or is with the recogniser; and also
\* after all finished segments.
Ahead(n) == n > heard /\ \A m \in segment : n > m
Later(n) ==
  /\ Ahead(n)
  /\ \A i \in 1..Len(vad.segments) : \A m \in vad.segments[i] : n > m

SegmentsInOrder ==
  /\ \A n \in segment : n > heard
  /\ \A i \in 1..Len(vad.segments) : \A n \in vad.segments[i] :
        /\ Ahead(n)
        /\ \A j \in 1..i - 1 : \A m \in vad.segments[j] : n > m
  /\ \A n \in vad.buffer : Later(n)
PendingInOrder ==
  \A i \in 1..Len(pending) :
    /\ Later(pending[i])
    /\ \A m \in vad.buffer : pending[i] > m
    /\ \A j \in 1..i - 1 : pending[i] > pending[j]

SamplesInOrder == SegmentsInOrder /\ PendingInOrder

\* Frames are fed in the order they were sent: everything the VAD has been fed
\* is from frames up to k, and everything to come from later ones.
InHand == pc = "feed" /\ task.kind = "frame"
FramesInOrder ==
  /\ \A i \in 1..Len(queue) : queue[i].kind = "frame" =>
        /\ queue[i].frame <= Len(sent)
        /\ InHand => task.frame < queue[i].frame
        /\ \A j \in 1..i - 1 :
              queue[j].kind = "frame" => queue[j].frame < queue[i].frame
  /\ InHand => task.frame <= Len(sent)
FedWithin(b) ==
  /\ heard <= b
  /\ \A n \in segment \union vad.buffer : n <= b
  /\ \A i \in 1..Len(vad.segments) : \A n \in vad.segments[i] : n <= b
  /\ \A i \in 1..Len(pending) : pending[i] <= b
ComingAfter(k) ==
  /\ \A i \in 1..Len(queue) : queue[i].kind = "frame" => queue[i].frame > k
  /\ InHand => task.frame > k
FedInOrder == \E k \in 0..Len(sent) : FedWithin(k * FrameSize) /\ ComingAfter(k)

\* What a window w may turn the detector into: it joins the buffer, or the two
\* become a segment.
Grown(w, v) ==
  \/ v.segments = vad.segments /\ v.buffer \subseteq vad.buffer \union w
  \/ /\ v.buffer = {}
     /\ \E b \in SUBSET (vad.buffer \union w) : v.segments = Append(vad.segments, b)

LEMMA DetectorGrows ==
  ASSUME TypeOK, NEW w \in SUBSET Samples
  PROVE  /\ \A v \in Accept(w) : Grown(w, v) /\ Grown(w, Flushed(v))
         /\ Grown(w, Flushed(vad))
<1> DEFINE both == vad.buffer \union w
<1>1. vad \in Vad
  BY DEF TypeOK
<1>2. ASSUME NEW v \in Accept(w)
      PROVE  \/ v.segments = vad.segments /\ v.buffer \subseteq both
             \/ /\ v.buffer = {} /\ ~v.speaking
                /\ v.segments = Append(vad.segments, both)
  <2>1. CASE v \in {[vad EXCEPT !.buffer = both], [vad EXCEPT !.buffer = w],
                    [vad EXCEPT !.buffer = both, !.speaking = TRUE]}
    BY <1>1, <2>1 DEF Vad
  <2>2. CASE v = [buffer |-> {}, speaking |-> FALSE,
                  segments |-> Append(vad.segments, both)]
    BY <2>2
  <2> QED BY <1>2, <2>1, <2>2, Zenon DEF Accept
<1>3. ASSUME NEW v, v.segments = vad.segments, v.buffer \subseteq both
      PROVE  Grown(w, v) /\ Grown(w, Flushed(v))
  BY <1>3 DEF Grown, Flushed
<1>4. ASSUME NEW v, v.buffer = {}, ~v.speaking, v.segments = Append(vad.segments, both)
      PROVE  Grown(w, v) /\ Grown(w, Flushed(v))
  BY <1>4 DEF Grown, Flushed
<1> QED BY <1>2, <1>3, <1>4
\* The detector takes a window that is later than all its segments, or nothing.
LEMMA DetectorKeepsOrder ==
  ASSUME TypeOK, TypeOK', SegmentsInOrder, UNCHANGED <<segment, heard>>,
         NEW w \in SUBSET Samples, \A n \in w : Later(n), Grown(w, vad')
  PROVE  /\ SegmentsInOrder'
         /\ \A n \in Samples : Later(n) /\ (\A m \in vad.buffer \union w : n > m)
              => Later(n)' /\ \A m \in vad'.buffer : n > m
<1>1. /\ vad.segments \in Seq(SUBSET Samples) /\ vad.buffer \subseteq Samples
      /\ Len(vad.segments) \in Nat
  BY LenProperties DEF TypeOK, Vad
<1>2. CASE vad'.segments = vad.segments /\ vad'.buffer \subseteq vad.buffer \union w
  BY <1>2 DEF SegmentsInOrder, Later, Ahead
<1>3. ASSUME NEW b \in SUBSET (vad.buffer \union w), vad'.buffer = {},
             vad'.segments = Append(vad.segments, b)
      PROVE  /\ SegmentsInOrder'
             /\ \A n \in Samples : Later(n) /\ (\A m \in vad.buffer \union w : n > m)
                  => Later(n)' /\ \A m \in vad'.buffer : n > m
  <2> DEFINE k == Len(vad.segments)
  <2>1. b \in SUBSET Samples
    BY <1>1
  <2>2. /\ Len(vad'.segments) = k + 1
        /\ \A i \in 1..k : vad'.segments[i] = vad.segments[i]
        /\ vad'.segments[k + 1] = b
    BY <1>1, <1>3, <2>1, AppendProperties
  <2>3. \A n \in b : Later(n)
    BY DEF SegmentsInOrder
  <2>4. \A n : Ahead(n)' <=> Ahead(n)
    BY DEF Ahead
  <2>5. ASSUME NEW i \in 1..k + 1, NEW n \in vad'.segments[i]
        PROVE  Ahead(n)' /\ \A j \in 1..i - 1 : \A m \in vad'.segments[j] : n > m
    <3>1. CASE i \in 1..k
      <4>1. n \in vad.segments[i]
        BY <2>2, <2>5, <3>1
      <4>2. Ahead(n) /\ \A j \in 1..i - 1 : \A m \in vad.segments[j] : n > m
        BY <3>1, <4>1 DEF SegmentsInOrder
      <4>3. \A j \in 1..i - 1 : j \in 1..k
        BY <1>1, <3>1
      <4> QED BY <2>2, <2>4, <4>2, <4>3
    <3>2. CASE i = k + 1
      <4>1. Later(n)
        BY <2>2, <2>3, <2>5, <3>2
      <4>2. \A j \in 1..i - 1 : j \in 1..k
        BY <1>1, <3>2
      <4> QED BY <2>2, <2>4, <4>1, <4>2 DEF Later
    <3> QED BY <1>1, <3>1, <3>2
  <2>6. SegmentsInOrder'
    <3>1. \A n \in segment' : n > heard'
      BY DEF SegmentsInOrder
    <3> QED BY <1>3, <2>2, <2>5, <3>1 DEF SegmentsInOrder
  <2>7. ASSUME NEW n \in Samples, Later(n), \A m \in vad.buffer \union w : n > m
        PROVE  Later(n)' /\ \A m \in vad'.buffer : n > m
    <3>1. \A i \in 1..k + 1 : \A m \in vad'.segments[i] : n > m
      <4> SUFFICES ASSUME NEW i \in 1..k + 1, NEW m \in vad'.segments[i]
                   PROVE  n > m
        OBVIOUS
      <4>1. CASE i \in 1..k
        BY <2>2, <2>7, <4>1 DEF Later
      <4>2. CASE i = k + 1
        BY <2>2, <2>7, <4>2
      <4> QED BY <1>1, <4>1, <4>2
    <3> QED BY <1>3, <2>2, <2>4, <2>7, <3>1 DEF Later
  <2> QED BY <2>6, <2>7
<1> QED BY <1>2, <1>3 DEF Grown

-----------------------------------------------------------------------------
\* What is queued keeps its order.
LEMMA FramesInvariant == Spec => []FramesInOrder
<1> USE SpeechMicAssumption
<1>1. Init => FramesInOrder
  BY EmptySeq DEF Init, FramesInOrder, InHand
<1>2. TypeOK /\ TypeOK' /\ FramesInOrder /\ [Next]_vars => FramesInOrder'
  <2> SUFFICES ASSUME TypeOK, TypeOK', FramesInOrder, [Next]_vars PROVE FramesInOrder'
    OBVIOUS
  <2> USE DEF FramesInOrder, InHand, mic, worker, history
  <2>1. /\ Len(queue) \in Nat /\ Len(sent) \in Nat
        /\ \A i \in 1..Len(queue) : queue[i] \in Task
    BY LenProperties, ElementOfSeq DEF TypeOK
  <2>2. InHand => task.frame \in Nat
    BY DEF TypeOK, Task, NoTask
  <2>3. \A t \in Task : t.frame \in Nat
    BY DEF Task
  <2>4. ASSUME NEW s \in Sessions, PushAudio(s) PROVE FramesInOrder'
    <3> DEFINE t == [kind |-> "frame", of |-> s, frame |-> Len(sent')]
    <3>1. Len(sent') = Len(sent) + 1
      BY <2>4, AppendProperties DEF PushAudio, TypeOK
    <3>2. Len(sent') \in 1..MaxFrames
      BY <2>1, <2>4, <3>1 DEF PushAudio, TypeOK
    <3>3. t \in Task
      BY <3>2 DEF Task
    <3>4. /\ Len(queue') = Len(queue) + 1
          /\ \A i \in 1..Len(queue) : queue'[i] = queue[i]
          /\ queue'[Len(queue) + 1].frame = Len(sent) + 1
      BY <2>4, <3>1, <3>3, AppendProperties DEF PushAudio, TypeOK
    <3>5. InHand' = InHand /\ task' = task
      BY <2>4 DEF PushAudio
    <3> SUFFICES ASSUME NEW i \in 1..Len(queue) + 1, queue'[i].kind = "frame"
                 PROVE  /\ queue'[i].frame <= Len(sent) + 1
                        /\ InHand => task.frame < queue'[i].frame
                        /\ \A j \in 1..i - 1 : queue'[j].kind = "frame" =>
                              queue'[j].frame < queue'[i].frame
      BY <2>1, <2>2, <3>1, <3>4, <3>5
    <3> HIDE DEF InHand
    <3>6. CASE i \in 1..Len(queue)
      <4>1. \A j \in 1..i - 1 : j \in 1..Len(queue)
        BY <2>1, <3>6
      <4>2. /\ queue[i].frame <= Len(sent) /\ queue[i].frame \in Nat
            /\ InHand => task.frame < queue[i].frame
            /\ \A j \in 1..i - 1 : queue[j].kind = "frame" =>
                  queue[j].frame < queue[i].frame
        BY <2>1, <2>3, <3>4, <3>6
      <4> QED BY <2>1, <3>4, <3>6, <4>1, <4>2
    <3>7. CASE i = Len(queue) + 1
      <4>1. \A j \in 1..i - 1 : j \in 1..Len(queue)
        BY <2>1, <3>7
      <4> QED BY <2>1, <2>2, <2>3, <3>4, <3>7, <4>1
    <3> QED BY <2>1, <3>6, <3>7
  <2>5. CASE FlushMic
    <3> DEFINE t == [kind |-> "flush", of |-> ioSession, frame |-> 0]
    <3>1. t \in Task
      BY <2>5 DEF FlushMic, Task, TypeOK
    <3>2. /\ Len(queue') = Len(queue) + 1
          /\ \A i \in 1..Len(queue) : queue'[i] = queue[i]
          /\ queue'[Len(queue) + 1].kind = "flush"
      BY <2>5, <3>1, AppendProperties DEF FlushMic, TypeOK
    <3>3. \A i \in 1..Len(queue) : \A j \in 1..i - 1 : j \in 1..Len(queue)
      BY <2>1
    <3> QED BY <2>1, <2>5, <3>2, <3>3 DEF FlushMic
  <2>6. CASE ReleaseClear
    BY <2>6, EmptySeq DEF ReleaseClear
  <2>7. CASE Pop
    <3>1. /\ task' = queue[1] /\ sent' = sent
          /\ Len(queue') = Len(queue) - 1
          /\ \A i \in 1..Len(queue') : queue'[i] = queue[i + 1]
      BY <2>7, HeadTailProperties DEF Pop, TypeOK
    <3>2. Len(queue) # 0
      BY <2>7, EmptySeq DEF Pop, TypeOK
    <3>3. ASSUME NEW i \in 1..Len(queue'), queue'[i].kind = "frame"
          PROVE  /\ queue'[i].frame <= Len(sent')
                 /\ InHand' => task'.frame < queue'[i].frame
                 /\ \A j \in 1..i - 1 : queue'[j].kind = "frame" =>
                       queue'[j].frame < queue'[i].frame
      <4>1. i + 1 \in 1..Len(queue) /\ 1 \in 1..(i + 1) - 1
        BY <2>1, <3>1
      <4>2. \A j \in 1..i - 1 : j \in 1..Len(queue') /\ j + 1 \in 1..(i + 1) - 1
        BY <2>1, <3>1
      <4>3. /\ queue[i + 1].frame <= Len(sent)
            /\ \A j \in 1..(i + 1) - 1 : queue[j].kind = "frame" =>
                  queue[j].frame < queue[i + 1].frame
        BY <3>1, <3>3, <4>1
      <4> QED BY <3>1, <3>3, <4>1, <4>2, <4>3
    <3>4. InHand' => task'.frame <= Len(sent')
      BY <2>1, <3>1, <3>2
    <3> QED BY <3>3, <3>4
  <2>8. CASE UNCHANGED <<queue, sent>> /\ (pc' # "feed" \/ UNCHANGED <<pc, task>>)
    BY <2>8
  <2> QED
    BY <2>4, <2>5, <2>6, <2>7, <2>8
    DEF Next, IoStep, AudioLoop, StartMic, StopMic, Disconnect, InstallCallbacks,
        ReleaseReset, RemoveCallbacks, FeedFrame, FeedWindow, FeedDone, FeedFlush,
        DrainCallbacks, DrainEdge, PopSegment, Recognise, DrainDone, vars
<1> QED BY <1>1, <1>2, TypeCorrect, PTL DEF Spec, Safety
\* No step but PushAudio adds to what is to come.
LEMMA ComingStays ==
  ASSUME TypeOK, [Next]_vars, NEW k \in 0..Len(sent), ComingAfter(k)
  PROVE  ComingAfter(k)' /\ k \in 0..Len(sent')
<1> USE SpeechMicAssumption DEF ComingAfter, InHand, mic, worker, history
<1>1. Len(queue) \in Nat /\ Len(sent) \in Nat
  BY LenProperties DEF TypeOK
<1>2. ASSUME NEW s \in Sessions, PushAudio(s) PROVE ComingAfter(k)' /\ k \in 0..Len(sent')
  <2> DEFINE t == [kind |-> "frame", of |-> s, frame |-> Len(sent')]
  <2>1. Len(sent') = Len(sent) + 1
    BY <1>2, AppendProperties DEF PushAudio, TypeOK
  <2>2. t \in Task
    BY <1>1, <1>2, <2>1 DEF PushAudio, Task, TypeOK
  <2>3. /\ Len(queue') = Len(queue) + 1
        /\ \A i \in 1..Len(queue) : queue'[i] = queue[i]
        /\ queue'[Len(queue) + 1].frame = Len(sent) + 1
    BY <1>2, <2>1, <2>2, AppendProperties DEF PushAudio, TypeOK
  <2> QED BY <1>1, <1>2, <2>1, <2>3 DEF PushAudio
<1>3. CASE FlushMic
  <2> DEFINE t == [kind |-> "flush", of |-> ioSession, frame |-> 0]
  <2>1. t \in Task
    BY <1>3 DEF FlushMic, Task, TypeOK
  <2>2. /\ Len(queue') = Len(queue) + 1
        /\ \A i \in 1..Len(queue) : queue'[i] = queue[i]
        /\ queue'[Len(queue) + 1].kind = "flush"
    BY <1>3, <2>1, AppendProperties DEF FlushMic, TypeOK
  <2> QED BY <1>1, <1>3, <2>2 DEF FlushMic
<1>4. CASE ReleaseClear
  BY <1>4, EmptySeq DEF ReleaseClear
<1>5. CASE Pop
  <2>1. /\ task' = queue[1] /\ sent' = sent /\ Len(queue) # 0
        /\ Len(queue') = Len(queue) - 1
        /\ \A i \in 1..Len(queue') : queue'[i] = queue[i + 1]
    BY <1>5, HeadTailProperties, EmptySeq DEF Pop, TypeOK
  <2> QED BY <1>1, <2>1
<1>6. CASE UNCHANGED <<queue, sent>> /\ (pc' # "feed" \/ UNCHANGED <<pc, task>>)
  BY <1>6
<1> QED
  BY <1>2, <1>3, <1>4, <1>5, <1>6
  DEF Next, IoStep, AudioLoop, StartMic, StopMic, Disconnect, InstallCallbacks,
      ReleaseReset, RemoveCallbacks, FeedFrame, FeedWindow, FeedDone, FeedFlush,
      DrainCallbacks, DrainEdge, PopSegment, Recognise, DrainDone, vars

\* FeedWindow and FeedFlush, given what they take from pending (w) and leave.
LEMMA FeedKeepsOrder ==
  ASSUME TypeOK, TypeOK', SamplesInOrder, UNCHANGED <<segment, heard>>,
         NEW c \in 0..Len(pending), NEW w, w = {pending[i] : i \in 1..c},
         Grown(w, vad'),
         Len(pending') \in 0..Len(pending) - c,
         \A i \in 1..Len(pending') : pending'[i] = pending[c + i]
  PROVE  SamplesInOrder' /\ \A b \in Nat : FedWithin(b) => FedWithin(b)'
<1>1. /\ Len(pending) \in Nat /\ Len(vad.segments) \in Nat
      /\ \A i \in 1..Len(pending) : pending[i] \in Samples
      /\ vad.segments \in Seq(SUBSET Samples) /\ vad.buffer \subseteq Samples
  BY LenProperties, ElementOfSeq DEF TypeOK, Vad
<1>2. \A i \in 1..c : i \in 1..Len(pending)
  BY <1>1
<1>3. w \in SUBSET Samples /\ \A n \in w : Later(n)
  BY <1>1, <1>2 DEF SamplesInOrder, PendingInOrder
<1>4. /\ SegmentsInOrder'
      /\ \A n \in Samples : Later(n) /\ (\A m \in vad.buffer \union w : n > m)
           => Later(n)' /\ \A m \in vad'.buffer : n > m
  BY <1>3, DetectorKeepsOrder DEF SamplesInOrder
<1>5. PendingInOrder'
  <2> SUFFICES ASSUME NEW i \in 1..Len(pending')
               PROVE  /\ Later(pending[i])'
                      /\ \A m \in vad'.buffer : pending'[i] > m
                      /\ \A j \in 1..i - 1 : pending'[i] > pending'[j]
    BY DEF PendingInOrder
  <2>1. c + i \in 1..Len(pending) /\ pending'[i] = pending[c + i]
    BY <1>1
  <2>2. /\ Later(pending[c + i])
        /\ \A m \in vad.buffer : pending[c + i] > m
        /\ \A j \in 1..(c + i) - 1 : pending[c + i] > pending[j]
    BY <2>1 DEF SamplesInOrder, PendingInOrder
  <2>3. \A j \in 1..c : j \in 1..(c + i) - 1
    BY <1>1
  <2>4. \A m \in vad.buffer \union w : pending[c + i] > m
    BY <2>2, <2>3
  <2>5. ASSUME NEW n \in Samples, n = pending[c + i]
        PROVE  Later(n)' /\ \A m \in vad'.buffer : n > m
    BY <1>4, <2>2, <2>4, <2>5
  <2>6. Later(pending[i])' /\ \A m \in vad'.buffer : pending'[i] > m
    <3>1. pending[c + i] \in Samples
      BY <1>1, <2>1
    <3> QED BY <2>1, <2>5, <3>1 DEF Later, Ahead
  <2>7. ASSUME NEW j \in 1..i - 1 PROVE pending'[i] > pending'[j]
    <3>1. j \in 1..Len(pending') /\ c + j \in 1..(c + i) - 1
      BY <1>1
    <3> QED BY <2>1, <2>2, <3>1
  <2> QED BY <2>6, <2>7
<1>6. ASSUME NEW b \in Nat, FedWithin(b) PROVE FedWithin(b)'
  <2>1. \A n \in w : n <= b
    BY <1>2, <1>6 DEF FedWithin
  <2>2. heard' <= b /\ \A n \in segment' : n <= b
    BY <1>6 DEF FedWithin
  <2>3. \A i \in 1..Len(pending') : pending'[i] <= b
    <3>1. \A i \in 1..Len(pending') : c + i \in 1..Len(pending)
      BY <1>1
    <3> QED BY <1>6, <3>1 DEF FedWithin
  <2>4. /\ \A n \in vad'.buffer : n <= b
        /\ \A i \in 1..Len(vad'.segments) : \A n \in vad'.segments[i] : n <= b
    <3>1. CASE vad'.segments = vad.segments /\ vad'.buffer \subseteq vad.buffer \union w
      BY <1>6, <2>1, <3>1 DEF FedWithin
    <3>2. ASSUME NEW x \in SUBSET (vad.buffer \union w), vad'.buffer = {},
                 vad'.segments = Append(vad.segments, x)
          PROVE  \A i \in 1..Len(vad'.segments) : \A n \in vad'.segments[i] : n <= b
      <4>1. x \in SUBSET Samples
        BY <1>1, <1>3
      <4>2. /\ Len(vad'.segments) = Len(vad.segments) + 1
            /\ \A i \in 1..Len(vad.segments) : vad'.segments[i] = vad.segments[i]
            /\ vad'.segments[Len(vad.segments) + 1] = x
        BY <1>1, <3>2, <4>1, AppendProperties
      <4>3. \A n \in x : n <= b
        BY <1>6, <2>1 DEF FedWithin
      <4>4. ASSUME NEW i \in 1..Len(vad'.segments)
            PROVE  \A n \in vad'.segments[i] : n <= b
        <5>1. i \in 1..Len(vad.segments) \/ i = Len(vad.segments) + 1
          BY <1>1, <4>2
        <5> QED BY <1>6, <4>2, <4>3, <5>1 DEF FedWithin
      <4> QED BY <4>4
    <3> QED BY <3>1, <3>2 DEF Grown
  <2> QED BY <2>2, <2>3, <2>4 DEF FedWithin
<1> QED BY <1>4, <1>5, <1>6 DEF SamplesInOrder
LEMMA SamplesInvariant == Spec => [](SamplesInOrder /\ FedInOrder)
<1> USE SpeechMicAssumption
<1>1. Init => SamplesInOrder /\ FedInOrder
  <2> SUFFICES ASSUME Init PROVE SamplesInOrder /\ FedInOrder
    OBVIOUS
  <2>1. /\ Len(queue) = 0 /\ Len(pending) = 0 /\ Len(vad.segments) = 0 /\ Len(sent) = 0
        /\ segment = {} /\ vad.buffer = {} /\ heard = 0 /\ pc = "pop"
    BY EmptySeq DEF Init, CleanVad
  <2>2. FedWithin(0 * FrameSize) /\ ComingAfter(0)
    BY <2>1 DEF FedWithin, ComingAfter, InHand
  <2>3. SegmentsInOrder /\ PendingInOrder
    BY <2>1 DEF SegmentsInOrder, PendingInOrder, Later, Ahead
  <2> QED BY <2>1, <2>2, <2>3 DEF FedInOrder, SamplesInOrder
<1>2. /\ TypeOK /\ TypeOK' /\ FramesInOrder
      /\ SamplesInOrder /\ FedInOrder /\ [Next]_vars
      => SamplesInOrder' /\ FedInOrder'
  <2> SUFFICES ASSUME TypeOK, TypeOK', FramesInOrder, SamplesInOrder, FedInOrder, [Next]_vars
               PROVE  SamplesInOrder' /\ FedInOrder'
    OBVIOUS
  <2> USE DEF mic, worker, history
  <2>1. PICK k \in 0..Len(sent) : FedWithin(k * FrameSize) /\ ComingAfter(k)
    BY DEF FedInOrder
  <2>2. Len(sent) \in Nat /\ k \in Nat /\ k * FrameSize \in Nat
    BY <2>1, LenProperties DEF TypeOK
  <2>3. /\ Len(pending) \in Nat /\ Len(vad.segments) \in Nat
        /\ \A i \in 1..Len(pending) : pending[i] \in Samples
        /\ \A i \in 1..Len(vad.segments) : vad.segments[i] \subseteq Samples
        /\ vad.segments \in Seq(SUBSET Samples) /\ vad.buffer \subseteq Samples
        /\ segment \subseteq Samples /\ heard \in Nat /\ Samples \subseteq Nat
    <3>1. Samples \subseteq Nat /\ heard \in Nat
      BY DEF TypeOK, Samples
    <3>2. vad.segments \in Seq(SUBSET Samples) /\ vad.buffer \subseteq Samples
      BY DEF TypeOK, Vad
    <3>3. /\ Len(vad.segments) \in Nat
          /\ \A i \in 1..Len(vad.segments) : vad.segments[i] \subseteq Samples
      BY <3>2, LenProperties, ElementOfSeq
    <3>4. Len(pending) \in Nat /\ \A i \in 1..Len(pending) : pending[i] \in Samples
      BY LenProperties, ElementOfSeq DEF TypeOK
    <3> QED BY <3>1, <3>2, <3>3, <3>4 DEF TypeOK
  <2>4. ASSUME \A b \in Nat : FedWithin(b) => FedWithin(b)' PROVE FedInOrder'
    <3>1. ComingAfter(k)' /\ k \in 0..Len(sent')
      BY <2>1, ComingStays
    <3>2. FedWithin(k * FrameSize)'
      <4> DEFINE b == k * FrameSize
      <4>1. b \in Nat /\ FedWithin(b)
        BY <2>1, <2>2
      <4> HIDE DEF b
      <4>2. FedWithin(b)'
        BY <2>4, <4>1
      <4> QED BY <4>2 DEF b
    <3> QED BY <3>1, <3>2 DEF FedInOrder
  <2>5. CASE ReleaseReset
    <3>1. /\ pending' = pending \/ Len(pending') = 0
          /\ vad' = vad \/ (vad'.buffer = {} /\ Len(vad'.segments) = 0)
          /\ UNCHANGED <<segment, heard>>
      BY <2>5, EmptySeq DEF ReleaseReset, CleanVad
    <3>2. SamplesInOrder'
      BY <3>1 DEF SamplesInOrder, SegmentsInOrder, PendingInOrder, Later, Ahead
    <3>3. \A b \in Nat : FedWithin(b) => FedWithin(b)'
      BY <3>1 DEF FedWithin
    <3> QED BY <2>4, <3>2, <3>3
  <2>6. CASE FeedFrame
    <3> DEFINE f == task.frame
               new == SamplesOf(f)
    <3>1. f \in 1..MaxFrames /\ f > k /\ f <= Len(sent) /\ sent' = sent
      BY <2>1, <2>6 DEF FeedFrame, Task, NoTask, TypeOK, ComingAfter, FramesInOrder, InHand
    <3>2. /\ new \in Seq(Samples) /\ Len(new) = FrameSize
          /\ \A i \in 1..FrameSize : new[i] = (f - 1) * FrameSize + i
          /\ \A i \in 1..FrameSize : new[i] <= f * FrameSize
      BY <3>1, FrameSamples
    <3>3. /\ (f - 1) * FrameSize \in Nat /\ f * FrameSize \in Nat
          /\ k * FrameSize <= (f - 1) * FrameSize /\ k * FrameSize <= f * FrameSize
      <4>1. f - 1 \in Nat /\ k <= f - 1 /\ f \in Nat /\ k <= f
        BY <2>2, <3>1
      <4> DEFINE e == f - 1
      <4> HIDE DEF e, f
      <4>2. e * FrameSize \in Nat /\ k * FrameSize <= e * FrameSize
        BY <2>2, <4>1, FramesAreOrdered DEF e
      <4>3. f * FrameSize \in Nat /\ k * FrameSize <= f * FrameSize
        BY <2>2, <4>1, FramesAreOrdered
      <4> QED BY <4>2, <4>3 DEF e
    <3>4. /\ pending \in Seq(Samples) /\ pending' = pending \o new
          /\ UNCHANGED <<segment, heard, vad, queue>> /\ pc' = "window"
      BY <2>6 DEF FeedFrame, TypeOK
    <3> DEFINE p == Len(pending)
    <3>5. /\ Len(pending') = p + FrameSize
          /\ \A i \in 1..p : pending'[i] = pending[i]
          /\ \A i \in 1..FrameSize : pending'[p + i] = new[i]
      <4>1. /\ Len(pending') = p + FrameSize
            /\ \A i \in 1..p + FrameSize :
                  pending'[i] = IF i <= p THEN pending[i] ELSE new[i - p]
        <5> HIDE DEF new
        <5>1. /\ Len(pending \o new) = Len(pending) + Len(new)
              /\ \A i \in 1..Len(pending) + Len(new) : (pending \o new)[i] =
                    IF i <= Len(pending) THEN pending[i] ELSE new[i - Len(pending)]
          BY <3>2, <3>4, ConcatProperties
        <5> QED BY <3>2, <3>4, <5>1
      <4>2. \A i \in 1..p : i \in 1..p + FrameSize /\ i <= p
        BY <2>3
      <4>3. ASSUME NEW i \in 1..FrameSize PROVE pending'[p + i] = new[i]
        <5>1. p + i \in 1..p + FrameSize /\ ~(p + i <= p) /\ p + i - p = i
          BY <2>3
        <5> QED BY <4>1, <5>1
      <4> HIDE DEF new, p
      <4> QED BY <4>1, <4>2, <4>3
    <3> DEFINE low == k * FrameSize
               base == (f - 1) * FrameSize
               top == f * FrameSize
    <3>6. /\ low \in Nat /\ base \in Nat /\ top \in Nat /\ low <= base /\ low <= top
          /\ FedWithin(low)
          /\ \A i \in 1..FrameSize : new[i] = base + i /\ new[i] <= top
      BY <2>1, <2>2, <3>2, <3>3
    <3> HIDE DEF low, base, top, new, f
    <3>7. \A i \in 1..FrameSize :
            /\ new[i] > low /\ Later(new[i])
            /\ \A m \in vad.buffer : new[i] > m
            /\ \A j \in 1..p : new[i] > pending[j]
            /\ \A j \in 1..i - 1 : new[i] > new[j]
      <4> SUFFICES ASSUME NEW i \in 1..FrameSize
                   PROVE  /\ new[i] > low /\ Later(new[i])
                          /\ \A m \in vad.buffer : new[i] > m
                          /\ \A j \in 1..p : new[i] > pending[j]
                          /\ \A j \in 1..i - 1 : new[i] > new[j]
        OBVIOUS
      <4>1. new[i] > low /\ new[i] \in Nat
        BY <3>6
      <4>2. \A n \in Nat : n <= low => new[i] > n
        BY <3>6, <4>1
      <4>3. \A m \in Samples : m \in Nat
        BY <2>3
      <4>4. /\ \A m \in segment \union vad.buffer : new[i] > m
            /\ \A j \in 1..p : new[i] > pending[j]
            /\ new[i] > heard
        BY <2>3, <3>6, <4>2, <4>3 DEF FedWithin
      <4>5. ASSUME NEW j \in 1..Len(vad.segments), NEW m \in vad.segments[j]
            PROVE  new[i] > m
        <5>1. m \in Nat
          BY <2>3, <4>5
        <5> QED BY <3>6, <4>2, <4>5, <5>1 DEF FedWithin
      <4>6. \A j \in 1..i - 1 : new[i] > new[j]
        BY <3>6
      <4> QED BY <4>1, <4>4, <4>5, <4>6 DEF Later, Ahead
    <3>8. SegmentsInOrder'
      BY <3>4 DEF SamplesInOrder, SegmentsInOrder, Later, Ahead
    <3>9. PendingInOrder'
      <4> SUFFICES ASSUME NEW i \in 1..p + FrameSize
                   PROVE  /\ Later(pending[i])'
                          /\ \A m \in vad.buffer : pending'[i] > m
                          /\ \A j \in 1..i - 1 : pending'[i] > pending'[j]
        BY <3>4, <3>5 DEF PendingInOrder
      <4>1. CASE i \in 1..p
        <5>1. \A j \in 1..i - 1 : j \in 1..p
          BY <2>3, <4>1
        <5>2. /\ Later(pending[i]) /\ \A m \in vad.buffer : pending[i] > m
              /\ \A j \in 1..i - 1 : pending[i] > pending[j]
          BY <4>1 DEF SamplesInOrder, PendingInOrder
        <5> QED BY <3>4, <3>5, <4>1, <5>1, <5>2 DEF Later, Ahead
      <4>2. CASE i \notin 1..p
        <5>1. i - p \in 1..FrameSize /\ i = p + (i - p)
          BY <2>3, <4>2
        <5>2. pending'[i] = new[i - p]
          BY <3>5, <5>1
        <5>3. Later(pending[i])' /\ \A m \in vad.buffer : pending'[i] > m
          BY <3>4, <3>7, <5>1, <5>2 DEF Later, Ahead
        <5>4. ASSUME NEW j \in 1..i - 1 PROVE pending'[i] > pending'[j]
          <6>1. CASE j \in 1..p
            BY <3>5, <3>7, <5>1, <5>2, <6>1
          <6>2. CASE j \notin 1..p
            <7>1. j - p \in 1..FrameSize /\ j - p \in 1..(i - p) - 1 /\ j = p + (j - p)
              BY <2>3, <5>1, <6>2
            <7>2. pending'[j] = new[j - p]
              BY <3>5, <7>1
            <7> QED BY <3>7, <5>1, <5>2, <7>1, <7>2
          <6> QED BY <6>1, <6>2
        <5> QED BY <5>3, <5>4
      <4> QED BY <4>1, <4>2
    <3>10. FedWithin(top)'
      <4>1. /\ heard <= top
            /\ \A n \in segment \union vad.buffer : n <= top
            /\ \A i \in 1..p : pending[i] <= top
        <5>1. \A n \in Nat : n <= low => n <= top
          BY <3>6
        <5>2. /\ heard <= low
              /\ \A n \in segment \union vad.buffer : n \in Nat /\ n <= low
              /\ \A i \in 1..p : pending[i] \in Nat /\ pending[i] <= low
          BY <2>3, <3>6 DEF FedWithin
        <5> QED BY <2>3, <5>1, <5>2
      <4>2. ASSUME NEW i \in 1..Len(vad.segments), NEW n \in vad.segments[i] PROVE n <= top
        <5>1. n \in Nat
          BY <2>3, <4>2
        <5>2. n <= low
          BY <3>6, <4>2 DEF FedWithin
        <5> QED BY <3>6, <5>1, <5>2
      <4>3. ASSUME NEW i \in 1..p + FrameSize PROVE pending'[i] <= top
        <5>1. CASE i \in 1..p
          BY <3>5, <4>1, <5>1
        <5>2. CASE i \notin 1..p
          <6>1. i - p \in 1..FrameSize /\ i = p + (i - p)
            BY <2>3, <5>2
          <6> QED BY <3>5, <3>6, <6>1
        <5> QED BY <5>1, <5>2
      <4>4. UNCHANGED top
        BY <2>6 DEF top, f, FeedFrame
      <4> QED BY <3>4, <3>5, <4>1, <4>2, <4>3, <4>4 DEF FedWithin
    <3>11. ComingAfter(f)'
      <4>1. f' = f
        BY <2>6 DEF f, FeedFrame
      <4> QED BY <2>6, <3>4, <4>1 DEF ComingAfter, FramesInOrder, InHand, FeedFrame, f
    <3>12. f \in 0..Len(sent') /\ f' = f
      BY <2>2, <2>6, <3>1 DEF f, FeedFrame
    <3> QED BY <3>8, <3>9, <3>10, <3>11, <3>12 DEF SamplesInOrder, FedInOrder, top
  <2>7. CASE FeedWindow
    <3> DEFINE w == {pending[i] : i \in 1..WindowSize}
               rest == SubSeq(pending, WindowSize + 1, Len(pending))
    <3>1. /\ pending \in Seq(Samples) /\ Len(pending) >= WindowSize
          /\ vad' \in Accept(Range(SubSeq(pending, 1, WindowSize)))
          /\ pending' = rest /\ UNCHANGED <<segment, heard>>
      BY <2>7 DEF FeedWindow, TypeOK
    <3>2. /\ w = Range(SubSeq(pending, 1, WindowSize)) /\ w \in SUBSET Samples
          /\ Len(rest) = Len(pending) - WindowSize
          /\ \A i \in 1..Len(rest) : rest[i] = pending[WindowSize + i]
      BY <3>1, WindowType
    <3>3. Grown(w, vad')
      BY <3>1, <3>2, DetectorGrows
    <3>4. /\ WindowSize \in 0..Len(pending)
          /\ Len(pending') \in 0..Len(pending) - WindowSize
          /\ \A i \in 1..Len(pending') : pending'[i] = pending[WindowSize + i]
      BY <2>3, <3>1, <3>2
    <3>5. SamplesInOrder' /\ \A b \in Nat : FedWithin(b) => FedWithin(b)'
      BY <3>1, <3>3, <3>4, FeedKeepsOrder
    <3> QED BY <2>4, <3>5
  <2>8. CASE FeedFlush
    <3> DEFINE c == Len(pending)
               w == {pending[i] : i \in 1..c}
    <3>1. /\ pending' = <<>> /\ UNCHANGED <<segment, heard>>
          /\ pending \in Seq(Samples)
          /\ \/ \E v \in Accept(Range(pending)) : vad' = Flushed(v)
             \/ vad' = Flushed(vad)
      BY <2>8 DEF FeedFlush, TypeOK
    <3>2. w = Range(pending) /\ w \in SUBSET Samples
      BY <3>1, RangeEquality, RangeOfSeq
    <3>3. Grown(w, vad')
      BY <3>1, <3>2, DetectorGrows
    <3>4. /\ c \in 0..Len(pending) /\ Len(pending') \in 0..Len(pending) - c
          /\ \A i \in 1..Len(pending') : pending'[i] = pending[c + i]
      BY <2>3, <3>1, EmptySeq
    <3>5. SamplesInOrder' /\ \A b \in Nat : FedWithin(b) => FedWithin(b)'
      BY <3>1, <3>3, <3>4, FeedKeepsOrder
    <3> QED BY <2>4, <3>5
  <2>9. CASE PopSegment
    <3>1. /\ segment' = vad.segments[1] /\ Len(vad.segments) # 0
          /\ Len(vad'.segments) = Len(vad.segments) - 1
          /\ \A i \in 1..Len(vad'.segments) : vad'.segments[i] = vad.segments[i + 1]
          /\ vad'.buffer = vad.buffer /\ UNCHANGED <<pending, heard>>
      BY <2>3, <2>9, HeadTailProperties, EmptySeq DEF PopSegment, TypeOK, Vad
    <3>2. 1 \in 1..Len(vad.segments)
          /\ \A i \in 1..Len(vad'.segments) :
                /\ i + 1 \in 1..Len(vad.segments) /\ 1 \in 1..(i + 1) - 1
                /\ \A j \in 1..i - 1 : j + 1 \in 1..(i + 1) - 1
                                        /\ j \in 1..Len(vad'.segments)
      BY <2>3, <3>1
    <3>3. \A n : Later(n) => Later(n)'
      BY <3>1, <3>2 DEF Later, Ahead
    <3>4. SegmentsInOrder'
      <4>1. \A n \in segment' : n > heard'
        BY <3>1, <3>2 DEF SamplesInOrder, SegmentsInOrder, Ahead
      <4>2. \A n \in vad'.buffer : Later(n)'
        BY <3>1, <3>3 DEF SamplesInOrder, SegmentsInOrder
      <4>3. ASSUME NEW i \in 1..Len(vad'.segments), NEW n \in vad'.segments[i]
            PROVE  Ahead(n)' /\ \A j \in 1..i - 1 : \A m \in vad'.segments[j] : n > m
        <5>1. n \in vad.segments[i + 1] /\ i + 1 \in 1..Len(vad.segments)
          BY <3>1, <3>2, <4>3
        <5>2. Ahead(n) /\ \A j \in 1..(i + 1) - 1 : \A m \in vad.segments[j] : n > m
          BY <5>1 DEF SamplesInOrder, SegmentsInOrder
        <5>3. Ahead(n)'
          BY <3>1, <3>2, <5>2 DEF Ahead
        <5> QED BY <3>1, <3>2, <5>2, <5>3
      <4> QED BY <4>1, <4>2, <4>3 DEF SegmentsInOrder
    <3>5. PendingInOrder'
      BY <3>1, <3>3 DEF SamplesInOrder, PendingInOrder, Later, Ahead
    <3>6. \A b \in Nat : FedWithin(b) => FedWithin(b)'
      BY <3>1, <3>2 DEF FedWithin
    <3> QED BY <2>4, <3>4, <3>5, <3>6 DEF SamplesInOrder
  <2>10. CASE Recognise
    <3>1. /\ heard' \in segment /\ segment' = {} /\ UNCHANGED <<pending, vad>>
          /\ heard' \in Nat
      BY <2>3, <2>10 DEF Recognise
    <3>2. \A n : Ahead(n) => Ahead(n)'
      BY <3>1 DEF Ahead
    <3>3. SamplesInOrder'
      BY <3>1, <3>2 DEF SamplesInOrder, SegmentsInOrder, PendingInOrder, Later, Ahead
    <3>4. \A b \in Nat : FedWithin(b) => FedWithin(b)'
      BY <3>1 DEF FedWithin
    <3> QED BY <2>4, <3>3, <3>4
  <2>11. CASE UNCHANGED <<segment, heard, vad, pending>>
    <3>1. SamplesInOrder'
      BY <2>11 DEF SamplesInOrder, SegmentsInOrder, PendingInOrder, Later, Ahead
    <3>2. \A b \in Nat : FedWithin(b) => FedWithin(b)'
      BY <2>11 DEF FedWithin
    <3> QED BY <2>4, <3>1, <3>2
  <2> QED
    BY <2>5, <2>6, <2>7, <2>8, <2>9, <2>10, <2>11
    DEF Next, IoStep, AudioLoop, StartMic, PushAudio, StopMic, Disconnect,
        InstallCallbacks, FlushMic, ReleaseClear, RemoveCallbacks, Pop, FeedDone,
        DrainCallbacks, DrainEdge, DrainDone, vars
<1> QED BY <1>1, <1>2, TypeCorrect, FramesInvariant, PTL DEF Spec, Safety

\* Whatever the sizes of frames and windows, and whenever flushes, segments and
\* resets fall, no sample is heard twice or out of order.
THEOREM HeardTheorem == Spec => HeardInOrder
<1>1. SamplesInOrder /\ [Next]_vars => (Recognise => \A n \in segment : n > heard)
  BY DEF SamplesInOrder, SegmentsInOrder
<1> QED BY <1>1, SamplesInvariant, PTL DEF Spec, Safety, HeardInOrder

-----------------------------------------------------------------------------
(* Speech that the owner of the microphone has begun has been announced to it. *)

\* Frames no longer than a window fill at most one window each, so that
\* DrainVad looks at the detector after every window.
PendingInv ==
  /\ pc = "window" => Len(pending) < 2 * WindowSize
  /\ pc # "window" => Len(pending) < WindowSize

\* The detector has been given a window since DrainVad looked at it.
Fresh == \/ pc \in {"drain", "edge"}
         \/ pc = "window" /\ Len(pending) < WindowSize

EdgeInv ==
  /\ ~Fresh /\ wasSpeaking => vad.speaking \/ vad.buffer = {}
  /\ vad.speaking /\ (wasSpeaking \/ ~Fresh) /\ begun = owner => announced = owner

\* Whose frames and words are on their way: those of the owner, who has the
\* callbacks, or of sessions that are gone.  A session that has the microphone
\* but not yet the callbacks has sent nothing.
HandsInv ==
  /\ owner \notin gone
  /\ ioPc = "clear" => ioSession \in gone
  /\ pc # "pop" => task \in Task /\ task.of \in gone \union {owner}
  /\ vad.speaking => begun \in Sessions /\ begun \in gone \union {owner}
  /\ owner # Nobody /\ callbacks # owner =>
       /\ ioPc = "install"
       /\ Len(queue) = 0
       /\ pc # "pop" => task.of # owner
       /\ vad.speaking => begun # owner
  /\ pc = "edge" /\ vad.speaking /\ ~wasSpeaking /\ begun = owner => handlers = owner

LEMMA PendingStep ==
  ASSUME FrameSize <= WindowSize, TypeOK, PendingInv, [Next]_vars
  PROVE  PendingInv'
<1> USE SpeechMicAssumption DEF PendingInv, mic, io, worker, history
<1>1. Len(pending) \in Nat /\ pending \in Seq(Samples)
  BY LenProperties DEF TypeOK
<1>2. CASE UNCHANGED <<pending, pc>>
  BY <1>2
<1>3. CASE ReleaseReset
  <2>1. pc' = pc /\ (pending' = pending \/ Len(pending') = 0)
    BY <1>3, EmptySeq DEF ReleaseReset
  <2> QED BY <1>1, <2>1
<1>4. CASE FeedFrame
  <2>1. task \in Task /\ task.frame \in 1..MaxFrames
    BY <1>4 DEF FeedFrame, TypeOK, Task, NoTask
  <2>2. PICK n \in 1..MaxFrames : n = task.frame
    BY <2>1
  <2>3. SamplesOf(n) \in Seq(Samples) /\ Len(SamplesOf(n)) = FrameSize
    BY FrameSamples
  <2>4. pc = "feed" /\ pc' = "window" /\ pending' = pending \o SamplesOf(n)
    BY <1>4, <2>2 DEF FeedFrame
  <2>5. Len(pending') = Len(pending) + FrameSize
    BY <1>1, <2>3, <2>4, ConcatProperties
  <2> QED BY <1>1, <2>4, <2>5
<1>5. CASE FeedWindow
  <2>1. Len(pending') = Len(pending) - WindowSize
    BY <1>1, <1>5 DEF FeedWindow
  <2> QED BY <1>1, <1>5, <2>1 DEF FeedWindow
<1>6. CASE FeedDone
  BY <1>6 DEF FeedDone
<1>7. CASE FeedFlush
  <2>1. Len(pending') = 0 /\ pc' = "drain"
    BY <1>7, EmptySeq DEF FeedFlush
  <2> QED BY <2>1
<1>8. CASE pending' = pending /\ pc # "window" /\ pc' # "window"
  BY <1>8
<1> QED
  BY <1>2, <1>3, <1>4, <1>5, <1>6, <1>7, <1>8
  DEF Next, IoStep, AudioLoop, StartMic, PushAudio, StopMic, Disconnect,
      InstallCallbacks, FlushMic, ReleaseClear, RemoveCallbacks, Pop,
      DrainCallbacks, DrainEdge, PopSegment, Recognise, DrainDone, vars

LEMMA HandsStep ==
  ASSUME TypeOK, OwnerInv, HandsInv, [Next]_vars
  PROVE  HandsInv'
<1> USE SpeechMicAssumption DEF HandsInv, IoGoto, io, mic, worker, history
<1>1. /\ Len(queue) \in Nat /\ (queue # <<>> => Len(queue) # 0)
      /\ \A i \in 1..Len(queue) : queue[i] \in Task /\ queue[i].of = Holder
  BY EmptySeq, LenProperties, ElementOfSeq DEF TypeOK, OwnerInv
<1>2. /\ owner \in Sessions \union {Nobody} /\ gone \subseteq Sessions
      /\ acquired \subseteq Sessions /\ callbacks \in Sessions \union {Nobody}
      /\ \A t \in Task : t.of \in Sessions
  BY DEF TypeOK, Task
<1>3. ASSUME NEW s \in Sessions, StartMic(s) PROVE HandsInv'
  <2>1. ASSUME owner = Nobody PROVE Len(queue) = 0
    BY <1>1, <1>2, <1>3, <2>1 DEF StartMic, Holder
  <2>2. CASE owner = s
    BY <1>2, <1>3, <2>2 DEF StartMic
  <2>3. CASE owner = Nobody
    BY <1>2, <1>3, <2>1, <2>3 DEF StartMic
  <2> QED BY <1>3, <2>2, <2>3 DEF StartMic
<1>4. ASSUME NEW s \in Sessions, PushAudio(s) PROVE HandsInv'
  BY <1>2, <1>4 DEF PushAudio, OwnerInv
<1>5. ASSUME NEW s \in Sessions, Disconnect(s) PROVE HandsInv'
  <2>1. owner = s
    BY <1>5 DEF Disconnect, OwnerInv
  <2> QED BY <1>2, <1>5, <2>1 DEF Disconnect
<1>6. ASSUME NEW s \in Sessions, StopMic(s) PROVE HandsInv'
  BY <1>6 DEF StopMic
<1>7. CASE InstallCallbacks \/ FlushMic \/ RemoveCallbacks
  BY <1>2, <1>7 DEF InstallCallbacks, FlushMic, RemoveCallbacks, OwnerInv
<1>8. CASE ReleaseClear
  BY <1>8, EmptySeq DEF ReleaseClear
<1>9. CASE ReleaseReset
  <2>1. vad' = vad \/ ~vad'.speaking
    BY <1>9 DEF ReleaseReset, CleanVad
  <2> QED BY <1>9, <2>1 DEF ReleaseReset, WhileSpeaking
<1>10. CASE Pop
  <2>1. /\ 1 \in 1..Len(queue) /\ task' = queue[1]
        /\ pc' # "pop" /\ pc' # "edge"
        /\ UNCHANGED <<owner, gone, callbacks, ioPc, ioSession, vad, begun>>
    BY <1>1, <1>10, EmptySeq DEF Pop, TypeOK
  <2>2. task' \in Task /\ task'.of = Holder /\ Holder \in gone \union {owner}
    BY <1>1, <2>1 DEF Holder
  <2>3. ~(owner # Nobody /\ callbacks # owner)
    BY <1>1, <2>1
  <2> QED BY <2>1, <2>2, <2>3
<1>11. CASE FeedWindow
  <2>1. begun' = WhileSpeaking(IF vad.speaking THEN begun ELSE task.of)
        /\ pc = "window" /\ UNCHANGED <<mic, io, queue, worker>>
    BY <1>11 DEF FeedWindow
  <2> QED BY <1>2, <2>1 DEF WhileSpeaking
<1>12. CASE FeedFlush
  <2>1. ~vad'.speaking
    <3>1. \A v : ~Flushed(v).speaking
      BY DEF Flushed
    <3> QED BY <1>12, <3>1 DEF FeedFlush
  <2> QED BY <1>12, <2>1 DEF FeedFlush
<1>13. CASE FeedFrame \/ FeedDone
  BY <1>13 DEF FeedFrame, FeedDone
<1>14. CASE DrainCallbacks
  BY <1>2, <1>14 DEF DrainCallbacks
<1>15. CASE DrainEdge
  BY <1>15 DEF DrainEdge
<1>16. CASE PopSegment \/ Recognise \/ DrainDone
  <2>1. /\ vad'.speaking = vad.speaking
        /\ UNCHANGED <<mic, io, queue, begun>>
        /\ pc # "pop" /\ pc' # "edge" /\ (pc' # "pop" => task' = task)
    BY <1>16 DEF PopSegment, Recognise, DrainDone, TypeOK, Vad
  <2> QED BY <2>1
<1>17. CASE UNCHANGED vars
  BY <1>17 DEF vars
<1> QED
  BY <1>3, <1>4, <1>5, <1>6, <1>7, <1>8, <1>9, <1>10, <1>11, <1>12, <1>13, <1>14,
     <1>15, <1>16, <1>17
  DEF Next, IoStep, AudioLoop

LEMMA EdgeStep ==
  ASSUME FrameSize <= WindowSize, TypeOK, OwnerInv, PendingInv, HandsInv, EdgeInv,
         [Next]_vars
  PROVE  EdgeInv'
<1> USE SpeechMicAssumption DEF EdgeInv, Fresh, io, worker, history
<1>1. /\ Len(pending) \in Nat /\ pending \in Seq(Samples) /\ vad \in Vad
      /\ wasSpeaking \in BOOLEAN /\ gone \subseteq Sessions
  BY LenProperties DEF TypeOK
<1>2. CASE UNCHANGED <<pc, owner, wasSpeaking, pending, vad, begun, announced>>
  BY <1>2
\* A change of hands: nobody is speaking for the new owner.
<1>3. ASSUME UNCHANGED <<pc, wasSpeaking, pending, vad, begun, announced>>,
             owner' # owner => owner' = Nobody \/ owner' \notin gone \union {owner}
      PROVE  EdgeInv'
  BY <1>3 DEF HandsInv
<1>4. ASSUME NEW s \in Sessions, StartMic(s) \/ Disconnect(s) PROVE EdgeInv'
  <2>1. UNCHANGED <<pc, wasSpeaking, pending, vad, begun, announced>>
    BY <1>4 DEF StartMic, Disconnect
  <2>2. owner' # owner => owner' = Nobody \/ owner' \notin gone \union {owner}
    BY <1>4 DEF StartMic, Disconnect
  <2> QED BY <1>3, <2>1, <2>2
<1>5. CASE ReleaseReset
  <2>1. /\ pc' = pc /\ wasSpeaking' = wasSpeaking /\ owner' = owner
        /\ vad' # vad => vad'.speaking = FALSE /\ vad'.buffer = {}
        /\ vad'.speaking => begun' = begun /\ announced' = announced
    BY <1>5 DEF ReleaseReset, CleanVad, WhileSpeaking, mic
  <2>2. pending' = pending \/ Len(pending') = 0
    BY <1>5, EmptySeq DEF ReleaseReset
  <2>3. CASE vad' # vad
    BY <2>1, <2>3
  <2>4. CASE vad' = vad
    <3>1. Fresh => Fresh'
      BY <1>1, <2>1, <2>2
    <3> QED BY <2>1, <2>4, <3>1
  <2> QED BY <2>3, <2>4
<1>6. CASE FeedWindow
  <2>1. /\ ~Fresh /\ pc' = pc /\ pc = "window" /\ wasSpeaking' = wasSpeaking
        /\ owner' = owner
        /\ vad.speaking /\ vad'.speaking => begun' = begun /\ announced' = announced
    BY <1>1, <1>6 DEF FeedWindow, WhileSpeaking, mic
  <2>2. Fresh'
    <3>1. Len(pending') = Len(pending) - WindowSize
      BY <1>1, <1>6 DEF FeedWindow
    <3> QED BY <1>1, <2>1, <3>1 DEF PendingInv
  <2>3. vad'.speaking => vad.speaking \/ vad.buffer # {}
    BY <1>1, <1>6 DEF FeedWindow, Accept, Vad
  <2> QED BY <1>1, <2>1, <2>2, <2>3
<1>7. CASE FeedFlush
  <2>1. ~vad'.speaking
    <3>1. \A v : ~Flushed(v).speaking
      BY DEF Flushed
    <3> QED BY <1>7, <3>1 DEF FeedFlush
  <2> QED BY <1>7, <2>1 DEF FeedFlush
<1>8. CASE FeedFrame \/ Pop
  <2>1. /\ ~Fresh /\ wasSpeaking' = wasSpeaking /\ vad' = vad
        /\ UNCHANGED <<owner, begun, announced>>
    BY <1>8 DEF FeedFrame, Pop, mic
  <2> QED BY <2>1
<1>9. CASE FeedDone \/ DrainCallbacks
  <2>1. /\ Fresh /\ Fresh' /\ wasSpeaking' = wasSpeaking /\ vad' = vad
        /\ UNCHANGED <<owner, begun, announced>>
    BY <1>9 DEF FeedDone, DrainCallbacks, mic
  <2> QED BY <2>1
<1>10. CASE DrainEdge
  BY <1>1, <1>10 DEF DrainEdge, HandsInv, mic
<1>11. CASE PopSegment \/ Recognise \/ DrainDone
  <2>1. /\ ~Fresh /\ ~Fresh' /\ wasSpeaking' = wasSpeaking
        /\ UNCHANGED <<owner, begun, announced>>
        /\ vad'.speaking = vad.speaking /\ vad'.buffer = vad.buffer
    BY <1>1, <1>11 DEF PopSegment, Recognise, DrainDone, Vad, mic
  <2> QED BY <2>1
<1> QED
  BY <1>2, <1>4, <1>5, <1>6, <1>7, <1>8, <1>9, <1>10, <1>11
  DEF Next, IoStep, AudioLoop, PushAudio, StopMic, InstallCallbacks, FlushMic,
      ReleaseClear, RemoveCallbacks, vars, mic

\* No start of the owner's speech is lost, and none told to anybody else, though
\* was_speaking outlives a reset of the detector and the callbacks change hands,
\* as long as a frame is no longer than a window (320 and 512 samples).
THEOREM AnnouncedTheorem ==
  ASSUME FrameSize <= WindowSize
  PROVE  Spec => []SpeechIsAnnounced
<1>1. Init => PendingInv /\ HandsInv /\ EdgeInv
  BY SpeechMicAssumption, EmptySeq
  DEF Init, PendingInv, HandsInv, EdgeInv, Fresh, CleanVad
<1>2. TypeOK /\ OwnerInv /\ PendingInv /\ HandsInv /\ EdgeInv /\ [Next]_vars
        => (PendingInv /\ HandsInv /\ EdgeInv)'
  BY PendingStep, HandsStep, EdgeStep
<1>3. EdgeInv => SpeechIsAnnounced
  BY DEF EdgeInv, Fresh, SpeechIsAnnounced
<1> QED BY <1>1, <1>2, <1>3, TypeCorrect, OwnerInvariant, PTL DEF Spec, Safety
=============================================================================
