---------------------------- MODULE SpeechTtsProofs ----------------------------
(* What a CancelTts and a SetCallbacks can and cannot stop, for any number of *)
(* threads, any queue capacity and any number of calls.                       *)
EXTENDS SpeechTts, SequenceTheorems, FiniteSetTheorems, TLAPS

-----------------------------------------------------------------------------
\* Every variable keeps its type.
THEOREM TypeCorrect == Spec => []TypeOK
<1> USE SpeechTtsAssumption DEF Task, Labels
<1>1. Init => TypeOK
  BY EmptySeq DEF Init, TypeOK, NoTask
<1>2. TypeOK /\ [Next]_vars => TypeOK'
  <2> SUFFICES ASSUME TypeOK, [Next]_vars PROVE TypeOK'
    OBVIOUS
  <2> USE DEF TypeOK, worker, history
  <2>1. ASSUME NEW kind \in {"sentence", "blank", "marker"}, Submit(kind)
        PROVE TypeOK'
    <3>1. [kind |-> kind, sub |-> epoch] \in Task
      OBVIOUS
    <3> HIDE DEF Task
    <3> QED BY <2>1, <3>1 DEF Submit
  <2>2. ASSUME NEW k \in Cancellers, CancelBump(k) PROVE TypeOK'
    BY <2>2 DEF CancelBump
  <2>3. ASSUME NEW k \in Cancellers, CancelClear(k) PROVE TypeOK'
    <3>1. queue' \in Seq(Task)
      <4> HIDE DEF Task
      <4> QED BY <2>3, EmptySeq DEF CancelClear
    <3>2. cancel[k] \in 1..MaxEpoch
      <4>1. cancel[k] \in 0..MaxEpoch /\ cancel[k] # 0
        BY <2>3 DEF CancelClear
      <4> QED BY <4>1
    <3>3. finished' \subseteq 1..MaxEpoch
      BY <2>3, <3>2 DEF CancelClear
    <3>4. 0 \in 0..MaxEpoch
      OBVIOUS
    <3>5. cancel' \in [Cancellers -> 0..MaxEpoch]
      BY <2>3, <3>4 DEF CancelClear
    <3> QED BY <2>3, <3>1, <3>3, <3>5 DEF CancelClear
  <2>4. ASSUME NEW s \in Sessions \union {NoCallbacks}, SetCallbacks(s)
        PROVE TypeOK'
    BY <2>4 DEF SetCallbacks
  <2>5. CASE Pop
    BY <2>5, HeadTailProperties DEF Pop
  <2>6. CASE GetCallbacks \/ LoadEpoch \/ Synthesize
    BY <2>6 DEF GetCallbacks, LoadEpoch, Synthesize
  <2>7. CASE CheckEpoch \/ CheckMarker
    BY <2>7 DEF CheckEpoch, CheckMarker
  <2>8. CASE Callback
    BY <2>8 DEF Callback
  <2>9. CASE UNCHANGED vars
    BY <2>9 DEF vars
  <2> QED
    BY <2>1, <2>2, <2>3, <2>4, <2>5, <2>6, <2>7, <2>8, <2>9 DEF Next, TtsLoop
<1> QED BY <1>1, <1>2, PTL DEF Spec

-----------------------------------------------------------------------------
\* A cancel has its epoch to itself, and no epoch runs ahead of tts_epoch.
EpochsOK ==
  /\ finished \subseteq 1..epoch
  /\ \A k \in Cancellers : cancel[k] <= epoch /\ cancel[k] \notin finished
  /\ \A j, k \in Cancellers : cancel[j] = cancel[k] /\ cancel[j] # 0 => j = k
  /\ \A i \in 1..Len(queue) : queue[i].sub <= epoch

LEMMA EpochsInvariant == Spec => []EpochsOK
<1> USE SpeechTtsAssumption
<1>1. Init => EpochsOK
  BY DEF Init, EpochsOK
<1>2. TypeOK /\ EpochsOK /\ [Next]_vars => EpochsOK'
  <2> SUFFICES ASSUME TypeOK, EpochsOK, [Next]_vars PROVE EpochsOK'
    OBVIOUS
  <2> USE DEF TypeOK, EpochsOK, worker, history, Task
  <2>1. ASSUME NEW kind \in {"sentence", "blank", "marker"}, Submit(kind)
        PROVE EpochsOK'
    BY <2>1 DEF Submit
  <2>2. ASSUME NEW k \in Cancellers, CancelBump(k) PROVE EpochsOK'
    <3>1. epoch' = epoch + 1 /\ cancel' = [cancel EXCEPT ![k] = epoch + 1]
          /\ finished' = finished /\ queue' = queue
      BY <2>2 DEF CancelBump
    <3>2. finished' \subseteq 1..epoch' /\ epoch + 1 \notin finished
      BY <3>1
    <3>3. \A j \in Cancellers : cancel'[j] <= epoch' /\ cancel'[j] \notin finished'
      BY <3>1, <3>2
    <3>4. \A i, j \in Cancellers : cancel'[i] = cancel'[j] /\ cancel'[i] # 0 => i = j
      BY <3>1
    <3>5. \A i \in 1..Len(queue) : queue[i].sub <= epoch + 1
      <4>1. \A i \in 1..Len(queue) : queue[i] \in Task
        <5> HIDE DEF Task
        <5>1. queue \in Seq(Task)
          OBVIOUS
        <5> QED BY ONLY <5>1, ElementOfSeq
      <4>2. \A i \in 1..Len(queue) : queue[i].sub \in Nat /\ queue[i].sub <= epoch
        BY <4>1
      <4>3. epoch \in Nat
        BY SpeechTtsAssumption
      <4> QED BY ONLY <4>2, <4>3
    <3> QED BY <3>1, <3>2, <3>3, <3>4, <3>5
  <2>3. ASSUME NEW k \in Cancellers, CancelClear(k) PROVE EpochsOK'
    <3>1. /\ epoch' = epoch /\ cancel' = [cancel EXCEPT ![k] = 0]
          /\ cancel[k] # 0
          /\ finished' = finished \union {cancel[k]}
          /\ queue' = <<>>
      BY <2>3 DEF CancelClear
    <3>2. finished' \subseteq 1..epoch'
      <4>1. cancel[k] \in 0..MaxEpoch /\ cancel[k] <= epoch
        OBVIOUS
      <4>2. cancel[k] \in 1..epoch
        BY <3>1, <4>1
      <4> QED BY <3>1, <4>2
    <3>3. \A j \in Cancellers : cancel'[j] <= epoch' /\ cancel'[j] \notin finished'
      <4>1. 0 \notin finished'
        BY <3>1
      <4> QED BY <3>1, <4>1
    <3>4. \A i, j \in Cancellers : cancel'[i] = cancel'[j] /\ cancel'[i] # 0 => i = j
      BY <3>1
    <3> QED BY <3>1, <3>2, <3>3, <3>4
  <2>4. CASE Pop
    BY <2>4, HeadTailProperties DEF Pop
  <2>5. CASE UNCHANGED <<queue, epoch, cancel, finished>>
    BY <2>5
  <2> QED
    BY <2>1, <2>2, <2>3, <2>4, <2>5
    DEF Next, TtsLoop, SetCallbacks, GetCallbacks, LoadEpoch, Synthesize,
        CheckEpoch, CheckMarker, Callback, vars
<1> QED BY <1>1, <1>2, TypeCorrect, PTL DEF Spec

-----------------------------------------------------------------------------
\* A CancelTts that has returned has left nothing of what it cancelled queued.
THEOREM QueueTheorem == Spec => []QueueHoldsNoCancelled
<1> USE SpeechTtsAssumption DEF QueueHoldsNoCancelled, Cancelled
<1>1. Init => QueueHoldsNoCancelled
  BY DEF Init
<1>2. TypeOK /\ EpochsOK /\ QueueHoldsNoCancelled /\ [Next]_vars
        => QueueHoldsNoCancelled'
  <2> SUFFICES ASSUME TypeOK, EpochsOK, QueueHoldsNoCancelled, [Next]_vars
               PROVE  QueueHoldsNoCancelled'
    OBVIOUS
  <2> USE DEF TypeOK, worker, history, Task
  <2>1. ASSUME NEW kind \in {"sentence", "blank", "marker"}, Submit(kind)
        PROVE QueueHoldsNoCancelled'
    \* what is stored now is younger than every cancel that has begun
    BY <2>1 DEF Submit, EpochsOK
  <2>2. ASSUME NEW k \in Cancellers, CancelClear(k)
        PROVE QueueHoldsNoCancelled'
    BY <2>2, EmptySeq DEF CancelClear
  <2>3. CASE Pop
    BY <2>3, HeadTailProperties DEF Pop
  <2>4. CASE UNCHANGED <<queue, finished>>
    BY <2>4
  <2> QED
    BY <2>1, <2>2, <2>3, <2>4
    DEF Next, TtsLoop, CancelBump, SetCallbacks, GetCallbacks, LoadEpoch,
        Synthesize, CheckEpoch, CheckMarker, Callback, vars
<1> QED BY <1>1, <1>2, TypeCorrect, EpochsInvariant, PTL DEF Spec

-----------------------------------------------------------------------------
\* Only finitely many cancels have returned.
LEMMA FinishedIsFinite ==
  TypeOK => IsFiniteSet(finished) /\ Cardinality(finished) \in Nat
<1>1. ASSUME TypeOK PROVE IsFiniteSet(finished)
  <2>1. IsFiniteSet(1..MaxEpoch)
    BY FS_Interval, SpeechTtsAssumption
  <2> QED BY <1>1, <2>1, FS_Subset DEF TypeOK
<1> QED BY <1>1, FS_CardinalityType

\* The callbacks already made for cancelled tasks, and the one the worker may
\* still make for the task it holds, are covered by the finished cancels.
InHand == IF pc # "pop" /\ Cancelled(task) THEN 1 ELSE 0
StaleInv == stale + InHand <= Cardinality(finished)

\* At most one callback per CancelTts for what it cancelled.
THEOREM StaleTheorem == Spec => []StaleAtMostOncePerCancel
<1> USE SpeechTtsAssumption
<1>1. Init => StaleInv
  BY FS_EmptySet DEF Init, StaleInv, InHand
<1>2. TypeOK /\ EpochsOK /\ QueueHoldsNoCancelled /\ StaleInv /\ [Next]_vars
        => StaleInv'
  <2> SUFFICES ASSUME TypeOK, EpochsOK, QueueHoldsNoCancelled, StaleInv,
                      [Next]_vars
               PROVE  StaleInv'
    OBVIOUS
  <2>fin. IsFiniteSet(finished) /\ Cardinality(finished) \in Nat
    BY FinishedIsFinite
  <2> USE <2>fin DEF TypeOK, worker, history, StaleInv, InHand
  <2>1. ASSUME NEW k \in Cancellers, CancelClear(k) PROVE StaleInv'
    <3>1. Cardinality(finished') = Cardinality(finished) + 1
      BY <2>1, FS_AddElement DEF CancelClear, EpochsOK
    <3>2. InHand \in {0, 1} /\ InHand' \in {0, 1} /\ stale' = stale
      BY <2>1 DEF CancelClear
    <3>3. InHand = 0 \/ InHand' = 1
      BY <2>1 DEF CancelClear, Cancelled
    <3> QED BY <3>1, <3>2, <3>3
  <2>2. CASE Pop
    <3>1. ~Cancelled(Head(queue))
      BY <2>2, HeadTailProperties DEF Pop, QueueHoldsNoCancelled
    <3> QED BY <2>2, <3>1 DEF Pop, Cancelled
  <2>3. CASE Callback
    BY <2>3 DEF Callback, Cancelled
  <2>4. CASE /\ pc # "pop" \/ pc' = "pop"
             /\ UNCHANGED <<task, finished, stale>>
    BY <2>4 DEF Cancelled
  <2> QED
    BY <2>1, <2>2, <2>3, <2>4
    DEF Next, TtsLoop, Submit, CancelBump, SetCallbacks, GetCallbacks,
        LoadEpoch, Synthesize, CheckEpoch, CheckMarker, vars
<1>3. TypeOK /\ StaleInv => StaleAtMostOncePerCancel
  BY FinishedIsFinite DEF TypeOK, StaleInv, InHand, StaleAtMostOncePerCancel
<1> QED
  BY <1>1, <1>2, <1>3, TypeCorrect, EpochsInvariant, QueueTheorem, PTL DEF Spec

-----------------------------------------------------------------------------
\* A cancel that begins after the worker has read the epoch, and returns before
\* the check, is seen by the check.
THEOREM SynthesisTheorem == Spec => CancelDuringSynthesisCaught
<1>1. TypeOK /\ EpochsOK /\ [Next]_vars =>
        (CheckEpoch /\ pc' = "audio" /\ Cancelled(task) => task.sub < epochAtStart)
  <2> SUFFICES ASSUME TypeOK, EpochsOK, CheckEpoch, pc' = "audio",
                      NEW e \in finished, e > task.sub
               PROVE  task.sub < epochAtStart
    BY DEF Cancelled
  <2>1. epoch = epochAtStart
    BY DEF CheckEpoch
  <2>2. e \in 1..epoch
    BY DEF EpochsOK
  <2>3. task.sub \in Nat /\ epoch \in Nat
    BY SpeechTtsAssumption DEF TypeOK, Task
  <2> QED BY <2>1, <2>2, <2>3
<1> QED
  BY <1>1, TypeCorrect, EpochsInvariant, PTL DEF Spec, CancelDuringSynthesisCaught

-----------------------------------------------------------------------------
\* The worker may hold the callbacks of a session that has been replaced, and
\* then one SetCallbacks is not yet accounted for.
OldSnapshot ==
  IF pc \notin {"pop", "snapshot"} /\ handlers # NoCallbacks /\ handlers # callbacks
  THEN 1 ELSE 0
LateInv == late + OldSnapshot <= installs

\* At most one callback per SetCallbacks reaches a session it has replaced.
THEOREM LateTheorem == Spec => []LateAtMostOncePerInstall
<1>1. Init => LateInv
  BY DEF Init, LateInv, OldSnapshot
<1>2. TypeOK /\ LateInv /\ [Next]_vars => LateInv'
  <2> SUFFICES ASSUME TypeOK, LateInv, [Next]_vars PROVE LateInv'
    OBVIOUS
  <2> USE SpeechTtsAssumption DEF TypeOK, worker, history, LateInv, OldSnapshot
  <2>1. ASSUME NEW s \in Sessions \union {NoCallbacks}, SetCallbacks(s)
        PROVE LateInv'
    BY <2>1 DEF SetCallbacks
  <2>2. CASE GetCallbacks
    BY <2>2 DEF GetCallbacks
  <2>3. CASE Callback
    BY <2>3 DEF Callback
  <2>4. CASE pc' \in {"pop", "snapshot"} /\ UNCHANGED <<late, installs>>
    BY <2>4
  <2>5. CASE /\ pc \notin {"pop", "snapshot"} \/ pc' = pc
             /\ UNCHANGED <<handlers, callbacks, late, installs>>
    BY <2>5
  <2> QED
    BY <2>1, <2>2, <2>3, <2>4, <2>5
    DEF Next, TtsLoop, Submit, CancelBump, CancelClear, Pop, LoadEpoch,
        Synthesize, CheckEpoch, CheckMarker, vars
<1>3. TypeOK /\ LateInv => LateAtMostOncePerInstall
  BY SpeechTtsAssumption
     DEF TypeOK, LateInv, OldSnapshot, LateAtMostOncePerInstall
<1> QED BY <1>1, <1>2, <1>3, TypeCorrect, PTL DEF Spec
=============================================================================
