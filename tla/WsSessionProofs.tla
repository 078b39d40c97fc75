---------------------------- MODULE WsSessionProofs ----------------------------
(* The turns of the sessions on their four threads, for any numbers of          *)
(* sessions, turns, deltas and sentences and any capacities of the queues.      *)
(* Then the question that makes no turn: a session tries the local tools first  *)
(* (ws_session.cpp:290), and the calculator is right about any question.        *)
EXTENDS WsSession, Calculator, FiniteSetTheorems, SequenceTheorems,
        WellFoundedInduction, TLAPS

-----------------------------------------------------------------------------
(* Types, and where a turn is. *)

\* The labels at which a call has started a turn and not given it away.
Owned == {"begin", "flag", "submit", "sentence", "marker", "free"}

Stage ==
  /\ Len(turns) <= MaxTurns
  /\ llmPc = "idle" <=> running = 0
  /\ llmPc = "push" => batch >= 1
  /\ running <= Len(turns)
  /\ \A i \in 1..Len(tasks) : tasks[i] <= Len(turns)
  /\ \A t \in Threads : pc[t] \in Owned => call[t].turn \in 1..Len(turns)
  /\ bumped => ttsPc = "check"
  /\ ttsPc = "pop" => ttsTask.kind = "none"

LEMMA InitStage == Init => TypeOK /\ Stage
<1> SUFFICES ASSUME Init PROVE TypeOK /\ Stage
  OBVIOUS
<1> USE WsSessionAssumption DEF Init, Chat!Init
<1>1. NoCall \in Call
  BY DEF Call, NoCall
<1>2. call \in [Threads -> Call] /\ pc \in [Threads -> CallLabels]
  BY <1>1 DEF CallLabels
<1>3. /\ tasks \in Seq(Turns) /\ ttsQueue \in Seq(TtsTask)
      /\ turns \in Seq([owner : Sessions, speak : BOOLEAN])
  OBVIOUS
<1>4. /\ busy \in [Sessions -> BOOLEAN] /\ current \in [Sessions -> 0..MaxTurns]
      /\ running \in 0..MaxTurns /\ deltas \in 0..MaxDeltas /\ batch \in 0..MaxBatch
  OBVIOUS
<1>5. cancelled \subseteq Turns /\ ended \subseteq Turns
  OBVIOUS
<1>6. /\ open \in BOOLEAN /\ bumped \in BOOLEAN /\ llmPc \in LlmLabels
      /\ ttsPc \in TtsLabels /\ ttsTask \in TtsTask \union {NoTtsTask}
  BY DEF LlmLabels, TtsLabels
<1>7. TypeOK
  BY <1>2, <1>3, <1>4, <1>5, <1>6 DEF TypeOK
<1>8. Stage
  BY DEF Stage, Threads, Owned, NoTtsTask
<1> QED BY <1>7, <1>8

LEMMA TypeStep == TypeOK /\ Stage /\ [Next]_vars => (TypeOK /\ Stage)'
<1> SUFFICES ASSUME TypeOK, Stage, [Next]_vars PROVE (TypeOK /\ Stage)'
  OBVIOUS
<1> USE WsSessionAssumption DEF TypeOK, Stage, Owned, Threads, Turns, chatVars, llmVars, ttsVars, sessionVars
<1>0. ASSUME NEW t \in Threads, NEW s \in Sessions, NEW label \in {"turn", "cancel"},
             NEW ret \in {"idle", "turn"}, NEW spoken \in BOOLEAN,
             Begin(t, s, label, ret, spoken)
      PROVE  (TypeOK /\ Stage)'
  <2>1. /\ pc' = [pc EXCEPT ![t] = label]
        /\ call' = [call EXCEPT ![t] = [call[t] EXCEPT !.sess = s, !.speak = spoken,
                                                       !.ret = ret]]
    BY <1>0 DEF Begin
  <2>2. [call[t] EXCEPT !.sess = s, !.speak = spoken, !.ret = ret] \in Call
    BY DEF Call
  <2>3. call' \in [Threads -> Call] /\ pc' \in [Threads -> CallLabels]
    BY <2>1, <2>2 DEF CallLabels
  <2>4. \A u \in Threads : pc'[u] \in Owned => pc[u] \in Owned /\ call'[u] = call[u]
    BY <2>1
  <2> QED BY <1>0, <2>3, <2>4 DEF Begin
<1>2. ASSUME NEW t \in Threads, NEW label \in CallLabels, Goto(t, label),
             label \in Owned => pc[t] \in Owned
      PROVE  /\ pc' \in [Threads -> CallLabels] /\ call' \in [Threads -> Call]
             /\ \A u \in Threads : pc'[u] \in Owned => pc[u] \in Owned /\ call'[u] = call[u]
  <2>1. pc' = [pc EXCEPT ![t] = label] /\ pc' \in [Threads -> CallLabels]
    BY <1>2 DEF Goto
  <2>2. NoCall \in Call
    BY DEF Call, NoCall
  <2>3. CASE label = "idle"
    <3>1. call' = [call EXCEPT ![t] = NoCall] /\ pc'[t] \notin Owned
      BY <1>2, <2>1, <2>3 DEF Goto
    <3> QED BY <2>1, <2>2, <3>1
  <2>4. CASE label # "idle"
    <3>1. call' = call
      BY <1>2, <2>4 DEF Goto
    <3> QED BY <1>2, <2>1, <3>1
  <2> QED BY <2>3, <2>4
<1>1. ASSUME NEW s \in Sessions, RecvChat(s) \/ RecvStop(s) PROVE (TypeOK /\ Stage)'
  BY <1>0, <1>1 DEF RecvChat, RecvStop
<1>3. ASSUME SpeechStart PROVE (TypeOK /\ Stage)'
  BY <1>0, <1>3 DEF SpeechStart
<1>4. ASSUME Utterance PROVE (TypeOK /\ Stage)'
  <2>1. CASE busy[Mic]
    BY <1>0, <1>4, <2>1 DEF Utterance
  <2>2. CASE ~busy[Mic]
    BY <1>0, <1>4, <2>2 DEF Utterance
  <2> QED BY <2>1, <2>2
<1>5. ASSUME NEW t \in Threads, InterruptFlag(t) PROVE (TypeOK /\ Stage)'
  <2>1. call[t].sess \in Sessions /\ current[call[t].sess] \in 0..MaxTurns
    BY <1>5 DEF Call
  <2>2. cancelled' \subseteq Turns
    <3>1. {current[call[t].sess]} \ {0} \subseteq Turns
      BY <2>1
    <3>2. cancelled' = cancelled \union ({current[call[t].sess]} \ {0})
      BY <1>5 DEF InterruptFlag
    <3> QED BY <3>1, <3>2, Zenon
  <2>3. pc' \in [Threads -> CallLabels] /\ call' = call
    BY <1>5 DEF InterruptFlag, Goto, CallLabels
  <2> QED BY <1>5, <2>2, <2>3 DEF InterruptFlag, Goto
<1>6. ASSUME NEW t \in Threads, InterruptBump(t) PROVE (TypeOK /\ Stage)'
  BY <1>2, <1>6 DEF InterruptBump, CallLabels
<1>7. ASSUME NEW t \in Threads, InterruptClear(t) PROVE (TypeOK /\ Stage)'
  BY <1>2, <1>7 DEF InterruptClear, CallLabels
<1>8. ASSUME NEW t \in Threads, InterruptUnbusy(t) PROVE (TypeOK /\ Stage)'
  <2>1. call[t].ret \in {"idle", "turn", "persist"}
    BY DEF Call
  <2>2. PICK label \in {"idle", "turn", "persist"} : label = call[t].ret /\ Goto(t, label)
    BY <1>8, <2>1 DEF InterruptUnbusy
  <2>3. /\ pc' \in [Threads -> CallLabels] /\ call' \in [Threads -> Call]
        /\ \A u \in Threads : pc'[u] \in Owned => pc[u] \in Owned /\ call'[u] = call[u]
    BY <1>2, <2>2 DEF CallLabels
  <2> QED BY <1>8, <2>3 DEF InterruptUnbusy
<1>9. ASSUME NEW t \in Threads, TurnCheckBusy(t) PROVE (TypeOK /\ Stage)'
  <2>1. /\ call' = [call EXCEPT ![t] = [call[t] EXCEPT !.ret = "persist"]]
        /\ pc' \in {[pc EXCEPT ![t] = "cancel"], [pc EXCEPT ![t] = "persist"]}
    BY <1>9 DEF TurnCheckBusy
  <2>2. [call[t] EXCEPT !.ret = "persist"] \in Call
    BY DEF Call
  <2>3. call' \in [Threads -> Call] /\ pc' \in [Threads -> CallLabels]
    BY <2>1, <2>2 DEF CallLabels
  <2>4. \A u \in Threads : pc'[u] \in Owned => pc[u] \in Owned /\ call'[u] = call[u]
    BY <2>1
  <2> QED BY <1>9, <2>3, <2>4 DEF TurnCheckBusy
<1>10. ASSUME NEW t \in Threads, TurnPersist(t) PROVE (TypeOK /\ Stage)'
  <2>1. call[t] \in Call /\ call[t].sess \in Sessions /\ call[t].speak \in BOOLEAN
    BY <1>10 DEF Call
  <2>2. /\ turns' \in Seq([owner : Sessions, speak : BOOLEAN])
        /\ Len(turns') = Len(turns) + 1 /\ Len(turns') <= MaxTurns
    BY <1>10, <2>1 DEF TurnPersist
  <2>3. call' \in [Threads -> Call] /\ call'[t].turn = Len(turns')
    <3>1. PICK hit \in BOOLEAN :
            call' = [call EXCEPT ![t].tool = hit, ![t].turn = Len(turns) + 1,
                                 ![t].ret = "idle"]
      BY <1>10 DEF TurnPersist
    <3>2. call'[t] = [call[t] EXCEPT !.tool = hit, !.turn = Len(turns) + 1, !.ret = "idle"]
          /\ \A u \in Threads : u # t => call'[u] = call[u]
      BY <3>1
    <3>3. call'[t] \in Call
      <4>1. Len(turns) + 1 \in 0..MaxTurns
        BY <2>2
      <4> QED BY <2>1, <3>1, <3>2, <4>1 DEF Call
    <3> QED BY <2>1, <2>2, <3>1, <3>2, <3>3 DEF Call
  <2>4. pc' = [pc EXCEPT ![t] = "begin"] /\ pc' \in [Threads -> CallLabels]
    BY <1>10 DEF TurnPersist, CallLabels
  <2>5. \A u \in Threads : u # t => call'[u] = call[u]
    BY <1>10 DEF TurnPersist
  <2>6. \A u \in Threads : pc'[u] \in Owned => call'[u].turn \in 1..Len(turns')
    BY <2>2, <2>3, <2>4, <2>5, SMTT(30)
  <2>7. /\ running' <= Len(turns') /\ \A i \in 1..Len(tasks') : tasks'[i] <= Len(turns')
    <3>1. tasks' = tasks /\ running' = running /\ Len(turns) \in Nat
      BY <1>10 DEF TurnPersist
    <3>2. \A i \in 1..Len(tasks) : tasks[i] \in Nat
      BY SMTT(30)
    <3> QED BY <2>2, <3>1, <3>2, SMTT(30)
  <2> QED BY <1>10, <2>2, <2>3, <2>4, <2>6, <2>7 DEF TurnPersist
<1>11. ASSUME NEW t \in Threads, TurnBound(t) PROVE (TypeOK /\ Stage)'
  BY <1>2, <1>11 DEF TurnBound, CallLabels
<1>12. ASSUME NEW t \in Threads, TurnBusy(t) PROVE (TypeOK /\ Stage)'
  BY <1>2, <1>12 DEF TurnBusy, CallLabels
<1>13. ASSUME NEW t \in Threads, TurnFlag(t) PROVE (TypeOK /\ Stage)'
  <2>1. call[t].sess \in Sessions /\ call[t].turn \in 1..MaxTurns
    BY <1>13 DEF TurnFlag, Call
  <2>2. current' \in [Sessions -> 0..MaxTurns] /\ ended' \subseteq Turns
    <3>1. current' = [current EXCEPT ![call[t].sess] = call[t].turn]
          /\ ended' \in {ended, ended \union {call[t].turn}}
      BY <1>13 DEF TurnFlag
    <3>2. call[t].turn \in Turns /\ call[t].turn \in 0..MaxTurns
      BY <2>1
    <3>3. ended' \subseteq Turns
      BY <3>1, <3>2, Zenon DEF TypeOK
    <3> QED BY <2>1, <3>1, <3>2, <3>3
  <2>3. pc' \in [Threads -> CallLabels] /\ call' = call
        /\ \A u \in Threads : pc'[u] \in Owned => pc[u] \in Owned
    BY <1>13 DEF TurnFlag, Goto, CallLabels
  <2> QED BY <1>13, <2>2, <2>3 DEF TurnFlag
<1>14. ASSUME NEW t \in Threads, TurnSubmit(t) PROVE (TypeOK /\ Stage)'
  <2>1. call[t].turn \in 1..Len(turns) /\ call[t].turn \in Turns
    BY <1>14 DEF TurnSubmit, Call
  <2>2. /\ tasks' \in Seq(Turns) /\ running' = running /\ open' = open
        /\ \A i \in 1..Len(tasks') : tasks'[i] <= Len(turns)
    BY <1>14, <2>1 DEF TurnSubmit, Chat!Submit
  <2>3. pc' \in [Threads -> CallLabels] /\ call' \in [Threads -> Call]
        /\ \A u \in Threads : pc'[u] \in Owned => pc[u] \in Owned /\ call'[u] = call[u]
    BY <1>14 DEF TurnSubmit, Goto, Call, NoCall, CallLabels
  <2> QED BY <1>14, <2>2, <2>3 DEF TurnSubmit
<1>15. ASSUME NEW t \in Threads, DirectSentence(t) PROVE (TypeOK /\ Stage)'
  <2>1. call[t].turn \in Turns
    BY <1>15 DEF DirectSentence, Call
  <2>2. ttsQueue' \in Seq(TtsTask)
    BY <1>15, <2>1 DEF DirectSentence, Push, TtsTask
  <2> QED BY <1>2, <1>15, <2>2 DEF DirectSentence, CallLabels
<1>16. ASSUME NEW t \in Threads, DirectMarker(t) PROVE (TypeOK /\ Stage)'
  <2>1. call[t].turn \in Turns
    BY <1>16 DEF DirectMarker, Call
  <2>2. ttsQueue' \in Seq(TtsTask)
    BY <1>16, <2>1 DEF DirectMarker, Push, TtsTask
  <2> QED BY <1>2, <1>16, <2>2 DEF DirectMarker, CallLabels
<1>17. ASSUME NEW t \in Threads, DirectFree(t) PROVE (TypeOK /\ Stage)'
  BY <1>2, <1>17 DEF DirectFree, CallLabels
<1>18. ASSUME LlmStart PROVE (TypeOK /\ Stage)'
  BY <1>18, SMTT(30) DEF LlmStart, LlmLabels, Chat!Start
<1>19. ASSUME LlmDelta PROVE (TypeOK /\ Stage)'
  BY <1>19 DEF LlmDelta, LlmLabels
<1>20. ASSUME LlmSentence PROVE (TypeOK /\ Stage)'
  BY <1>20 DEF LlmSentence, LlmLabels, Push, TtsTask
<1>21. ASSUME LlmDone PROVE (TypeOK /\ Stage)'
  BY <1>21 DEF LlmDone, LlmLabels
<1>22. ASSUME LlmTail PROVE (TypeOK /\ Stage)'
  BY <1>22 DEF LlmTail, LlmLabels, Push, TtsTask
<1>23. ASSUME LlmMarker PROVE (TypeOK /\ Stage)'
  BY <1>23 DEF LlmMarker, LlmLabels, Push, TtsTask
<1>24. ASSUME LlmFree PROVE (TypeOK /\ Stage)'
  BY <1>24 DEF LlmFree, LlmLabels
<1>25. ASSUME LlmEnd PROVE (TypeOK /\ Stage)'
  BY <1>25 DEF LlmEnd, LlmLabels, Chat!Finish
<1>26. ASSUME TtsPop PROVE (TypeOK /\ Stage)'
  <2>1. ttsTask' \in TtsTask /\ ttsQueue' \in Seq(TtsTask)
    BY <1>26 DEF TtsPop
  <2> QED BY <1>26, <2>1 DEF TtsPop, TtsLabels
<1>27. ASSUME TtsLoad PROVE (TypeOK /\ Stage)'
  BY <1>27 DEF TtsLoad, TtsLabels, TtsTask, NoTtsTask
<1>28. ASSUME TtsCheck PROVE (TypeOK /\ Stage)'
  BY <1>28 DEF TtsCheck, TtsLabels, TtsTask, NoTtsTask
<1>29. ASSUME TtsCallback PROVE (TypeOK /\ Stage)'
  BY <1>29 DEF TtsCallback, TtsLabels, TtsTask, NoTtsTask
<1>30. ASSUME UNCHANGED vars PROVE (TypeOK /\ Stage)'
  BY <1>30 DEF vars
<1> QED BY <1>1, <1>3, <1>4, <1>5, <1>6, <1>7, <1>8, <1>9, <1>10, <1>11, <1>12, <1>13, <1>14,
           <1>15, <1>16, <1>17, <1>18, <1>19, <1>20, <1>21, <1>22, <1>23, <1>24, <1>25, <1>26,
           <1>27, <1>28, <1>29, <1>30 DEF Next, CallStep, LlmStep, TtsStep

-----------------------------------------------------------------------------
(* A turn is in one place: in a call, in the chat queue or on the worker. *)

\* Most steps leave every turn where it is, or let go of it.
CalmStep ==
  /\ tasks' = tasks /\ running' = running /\ turns' = turns
  /\ \A u \in Threads : pc'[u] \in Owned => pc[u] \in Owned /\ call'[u].turn = call[u].turn
  /\ llmPc = "end" => llmPc' = "end"

LEMMA StepKinds ==
  ASSUME TypeOK, Stage, [Next]_vars
  PROVE  \/ CalmStep
         \/ \E t \in Threads : TurnPersist(t) \/ TurnSubmit(t)
         \/ LlmStart \/ LlmEnd
<1> USE DEF TypeOK, Stage, Owned, chatVars, llmVars, ttsVars, sessionVars
<1>1. ASSUME NEW s \in Sessions, RecvChat(s) PROVE CalmStep
  BY <1>1 DEF RecvChat, Begin, CalmStep
<1>2. ASSUME NEW s \in Sessions, RecvStop(s) PROVE CalmStep
  BY <1>2 DEF RecvStop, Begin, CalmStep
<1>3. ASSUME SpeechStart PROVE CalmStep
  BY <1>3 DEF SpeechStart, Begin, CalmStep
<1>4. ASSUME Utterance PROVE CalmStep
  BY <1>4 DEF Utterance, Begin, CalmStep
<1>5. ASSUME NEW t \in Threads, InterruptFlag(t) PROVE CalmStep
  BY <1>5 DEF InterruptFlag, Goto, CalmStep
<1>6. ASSUME NEW t \in Threads, InterruptBump(t) PROVE CalmStep
  BY <1>6 DEF InterruptBump, Goto, CalmStep
<1>7. ASSUME NEW t \in Threads, InterruptClear(t) PROVE CalmStep
  BY <1>7 DEF InterruptClear, Goto, CalmStep
<1>8. ASSUME NEW t \in Threads, InterruptUnbusy(t) PROVE CalmStep
  <2>1. call[t].ret \in {"idle", "turn", "persist"}
    BY DEF Call
  <2> QED BY <1>8, <2>1 DEF InterruptUnbusy, Goto, CalmStep
<1>9. ASSUME NEW t \in Threads, TurnCheckBusy(t) PROVE CalmStep
  BY <1>9 DEF TurnCheckBusy, Goto, CalmStep
<1>10. ASSUME NEW t \in Threads, TurnBound(t) PROVE CalmStep
  BY <1>10 DEF TurnBound, Goto, CalmStep
<1>11. ASSUME NEW t \in Threads, TurnBusy(t) PROVE CalmStep
  BY <1>11 DEF TurnBusy, Goto, CalmStep
<1>12. ASSUME NEW t \in Threads, TurnFlag(t) PROVE CalmStep
  BY <1>12 DEF TurnFlag, Goto, CalmStep
<1>13. ASSUME NEW t \in Threads, DirectSentence(t) PROVE CalmStep
  BY <1>13 DEF DirectSentence, Goto, CalmStep
<1>14. ASSUME NEW t \in Threads, DirectMarker(t) PROVE CalmStep
  BY <1>14 DEF DirectMarker, Goto, CalmStep
<1>15. ASSUME NEW t \in Threads, DirectFree(t) PROVE CalmStep
  BY <1>15 DEF DirectFree, Goto, CalmStep
<1>16. ASSUME LlmDelta PROVE CalmStep
  BY <1>16 DEF LlmDelta, CalmStep
<1>17. ASSUME LlmSentence PROVE CalmStep
  BY <1>17 DEF LlmSentence, CalmStep
<1>18. ASSUME LlmDone PROVE CalmStep
  BY <1>18 DEF LlmDone, CalmStep
<1>19. ASSUME LlmTail PROVE CalmStep
  BY <1>19 DEF LlmTail, CalmStep
<1>20. ASSUME LlmMarker PROVE CalmStep
  BY <1>20 DEF LlmMarker, CalmStep
<1>21. ASSUME LlmFree PROVE CalmStep
  BY <1>21 DEF LlmFree, CalmStep
<1>22. ASSUME TtsPop PROVE CalmStep
  BY <1>22 DEF TtsPop, CalmStep
<1>23. ASSUME TtsLoad PROVE CalmStep
  BY <1>23 DEF TtsLoad, CalmStep
<1>24. ASSUME TtsCheck PROVE CalmStep
  BY <1>24 DEF TtsCheck, CalmStep
<1>25. ASSUME TtsCallback PROVE CalmStep
  BY <1>25 DEF TtsCallback, CalmStep
<1>26. ASSUME UNCHANGED vars PROVE CalmStep
  BY <1>26 DEF vars, CalmStep
<1> QED BY <1>1, <1>2, <1>3, <1>4, <1>5, <1>6, <1>7, <1>8, <1>9, <1>10, <1>11, <1>12, <1>13, <1>14,
           <1>15, <1>16, <1>17, <1>18, <1>19, <1>20, <1>21, <1>22, <1>23, <1>24, <1>25, <1>26 DEF
           Next, CallStep, LlmStep, TtsStep

Places ==
  /\ \A t, u \in Threads : t # u /\ pc[t] \in Owned /\ pc[u] \in Owned =>
       call[t].turn # call[u].turn
  /\ \A t \in Threads : pc[t] \in Owned =>
       /\ call[t].turn # running
       /\ \A i \in 1..Len(tasks) : tasks[i] # call[t].turn
  /\ \A i, j \in 1..Len(tasks) : tasks[i] = tasks[j] => i = j
  /\ \A i \in 1..Len(tasks) : tasks[i] # running

LEMMA PlacesStep ==
  ASSUME TypeOK, Stage, Places, [Next]_vars
  PROVE  Places'
<1>1. CASE CalmStep
  BY <1>1 DEF CalmStep, Places
<1>2. ASSUME NEW t \in Threads, TurnPersist(t) PROVE Places'
  <2>1. /\ tasks' = tasks /\ running' = running
        /\ call'[t].turn = Len(turns) + 1
        /\ \A u \in Threads : u # t => pc'[u] = pc[u] /\ call'[u] = call[u]
    BY <1>2 DEF TurnPersist, chatVars, TypeOK, Call
  <2>2. /\ \A i \in 1..Len(tasks) : tasks[i] \in Nat /\ tasks[i] <= Len(turns)
        /\ Len(turns) \in Nat /\ running \in Nat /\ running <= Len(turns)
    <3>1. \A i \in 1..Len(tasks) : tasks[i] \in Turns
      BY DEF TypeOK
    <3>2. /\ Len(turns) \in Nat /\ running \in Nat /\ running <= Len(turns)
          /\ \A i \in 1..Len(tasks) : tasks[i] <= Len(turns)
      BY DEF TypeOK, Stage
    <3> QED BY <3>1, <3>2 DEF Turns
  <2>3. \A u \in Threads : u # t /\ pc[u] \in Owned => call[u].turn \in 1..Len(turns)
    BY DEF Stage
  <2> QED BY <2>1, <2>2, <2>3 DEF Places
<1>3. ASSUME NEW t \in Threads, TurnSubmit(t) PROVE Places'
  <2> DEFINE n == call[t].turn
  <2>1. /\ running' = running /\ tasks' = Append(tasks, n)
        /\ pc' = [pc EXCEPT ![t] = "idle"]
        /\ \A u \in Threads : u # t => pc'[u] = pc[u] /\ call'[u] = call[u]
    BY <1>3 DEF TurnSubmit, Chat!Submit, Goto, TypeOK
  <2>2. pc[t] \in Owned /\ pc'[t] \notin Owned
    BY <1>3, <2>1 DEF TurnSubmit, Owned, TypeOK
  <2>3. tasks \in Seq(Turns)
    BY DEF TypeOK
  <2>4. /\ Len(tasks') = Len(tasks) + 1 /\ tasks'[Len(tasks) + 1] = n
        /\ \A i \in 1..Len(tasks) : tasks'[i] = tasks[i]
        /\ Len(tasks) \in Nat
    BY <2>1, <2>3
  <2>5. \A i \in 1..Len(tasks') : i \in 1..Len(tasks) \/ i = Len(tasks) + 1
    BY <2>4
  <2>6. n # running /\ \A i \in 1..Len(tasks) : tasks[i] # n
    BY <2>2 DEF Places
  <2> HIDE DEF n
  <2>7. \A u \in Threads : pc'[u] \in Owned =>
          u # t /\ pc[u] \in Owned /\ call'[u] = call[u] /\ call[u].turn # n
    BY <2>1, <2>2 DEF Places, n
  <2>8. \A i, j \in 1..Len(tasks') : tasks'[i] = tasks'[j] => i = j
    BY <2>4, <2>5, <2>6 DEF Places
  <2>9. \A i \in 1..Len(tasks') : tasks'[i] # running'
    BY <2>1, <2>4, <2>5, <2>6 DEF Places
  <2>10. \A u \in Threads : pc'[u] \in Owned =>
           /\ call'[u].turn # running'
           /\ \A i \in 1..Len(tasks') : tasks'[i] # call'[u].turn
    BY <2>1, <2>4, <2>5, <2>7 DEF Places
  <2> QED BY <2>7, <2>8, <2>9, <2>10 DEF Places
<1>4. CASE LlmStart
  <2>1. tasks \in Seq(Turns) /\ tasks # <<>>
    BY <1>4 DEF LlmStart, Chat!Start, TypeOK
  <2>2. /\ running' = tasks[1] /\ Len(tasks') = Len(tasks) - 1
        /\ \A i \in 1..Len(tasks') : tasks'[i] = tasks[i + 1] /\ i + 1 \in 1..Len(tasks)
        /\ 1 \in 1..Len(tasks) /\ Len(tasks) \in Nat
    BY <1>4, <2>1 DEF LlmStart, Chat!Start
  <2>3. pc' = pc /\ call' = call
    BY <1>4 DEF LlmStart
  <2>4. \A i, j \in 1..Len(tasks') : tasks'[i] = tasks'[j] => i = j
    BY <2>2 DEF Places
  <2>5. \A i \in 1..Len(tasks') : tasks'[i] # running'
    BY <2>2 DEF Places
  <2> QED BY <2>2, <2>3, <2>4, <2>5 DEF Places
<1>5. CASE LlmEnd
  <2>1. tasks' = tasks /\ running' = 0 /\ pc' = pc /\ call' = call
    BY <1>5 DEF LlmEnd, Chat!Finish
  <2>2. \A i \in 1..Len(tasks) : tasks[i] # 0
    <3>1. \A i \in 1..Len(tasks) : tasks[i] \in Turns
      BY DEF TypeOK
    <3> QED BY <3>1 DEF Turns
  <2>3. \A t \in Threads : pc[t] \in Owned => call[t].turn # 0
    BY DEF Stage
  <2> QED BY <2>1, <2>2, <2>3 DEF Places
<1> QED BY <1>1, <1>2, <1>3, <1>4, <1>5, StepKinds

-----------------------------------------------------------------------------
(* The TTS queue, step by step. *)

\* The turns whose marker has been queued and is queued or popped still.
Marked ==
  {n \in Turns :
     \/ \E i \in 1..Len(ttsQueue) : ttsQueue[i].kind = "marker" /\ ttsQueue[i].turn = n
     \/ ttsTask.kind = "marker" /\ ttsTask.turn = n}

\* Nothing of its turn is behind a marker.
NothingBehind ==
  /\ \A i, j \in 1..Len(ttsQueue) :
       ttsQueue[i].kind = "marker" /\ i < j => ttsQueue[j].turn # ttsQueue[i].turn
  /\ \A j \in 1..Len(ttsQueue) :
       ttsTask.kind = "marker" => ttsQueue[j].turn # ttsTask.turn

\* A step that puts nothing into the queue and takes nothing out to work on.
QuietStep == ttsQueue' \in {ttsQueue, <<>>} /\ ttsTask' \in {ttsTask, NoTtsTask}

LEMMA TtsKinds ==
  ASSUME TypeOK, [Next]_vars
  PROVE  \/ QuietStep
         \/ \E t \in Threads : DirectSentence(t) \/ DirectMarker(t)
         \/ LlmSentence \/ LlmTail \/ LlmMarker \/ TtsPop
<1> USE DEF chatVars, llmVars, ttsVars, sessionVars, QuietStep
<1>1. ASSUME NEW s \in Sessions, RecvChat(s) \/ RecvStop(s) PROVE QuietStep
  BY <1>1 DEF RecvChat, RecvStop, Begin
<1>2. ASSUME SpeechStart \/ Utterance PROVE QuietStep
  BY <1>2 DEF SpeechStart, Utterance, Begin
<1>3. ASSUME NEW t \in Threads,
             \/ InterruptFlag(t) \/ InterruptBump(t) \/ InterruptClear(t)
             \/ InterruptUnbusy(t) \/ TurnCheckBusy(t)
      PROVE  QuietStep
  BY <1>3 DEF InterruptFlag, InterruptBump, InterruptClear, InterruptUnbusy, TurnCheckBusy
<1>4. ASSUME NEW t \in Threads,
             \/ TurnPersist(t) \/ TurnBound(t) \/ TurnBusy(t) \/ TurnFlag(t)
             \/ TurnSubmit(t) \/ DirectFree(t)
      PROVE  QuietStep
  BY <1>4 DEF TurnPersist, TurnBound, TurnBusy, TurnFlag, TurnSubmit, DirectFree
<1>5. ASSUME LlmStart \/ LlmDelta \/ LlmDone \/ LlmFree \/ LlmEnd PROVE QuietStep
  BY <1>5 DEF LlmStart, LlmDelta, LlmDone, LlmFree, LlmEnd
<1>6. ASSUME TtsLoad \/ TtsCheck \/ TtsCallback PROVE QuietStep
  BY <1>6 DEF TtsLoad, TtsCheck, TtsCallback
<1>7. ASSUME UNCHANGED vars PROVE QuietStep
  BY <1>7 DEF vars
<1> QED BY <1>1, <1>2, <1>3, <1>4, <1>5, <1>6, <1>7 DEF Next, CallStep, LlmStep, TtsStep

LEMMA QuietMarks ==
  ASSUME TypeOK, NothingBehind, QuietStep
  PROVE  NothingBehind' /\ Marked' \subseteq Marked
BY DEF TypeOK, NothingBehind, QuietStep, Marked, NoTtsTask

LEMMA PopMarks ==
  ASSUME TypeOK, NothingBehind, TtsPop
  PROVE  NothingBehind' /\ Marked' \subseteq Marked
<1>1. /\ ttsQueue \in Seq(TtsTask) /\ ttsQueue # <<>>
      /\ ttsTask' = Head(ttsQueue) /\ ttsQueue' = Tail(ttsQueue)
  BY DEF TypeOK, TtsPop
<1>2. /\ Len(ttsQueue) \in Nat /\ 1 \in 1..Len(ttsQueue) /\ ttsTask' = ttsQueue[1]
      /\ Len(ttsQueue') = Len(ttsQueue) - 1
      /\ \A i \in 1..Len(ttsQueue') :
           i + 1 \in 1..Len(ttsQueue) /\ 1 < i + 1 /\ ttsQueue'[i] = ttsQueue[i + 1]
  BY <1>1
<1>3. NothingBehind'
  <2>1. \A i, j \in 1..Len(ttsQueue') :
          ttsQueue'[i].kind = "marker" /\ i < j => ttsQueue'[j].turn # ttsQueue'[i].turn
    <3> SUFFICES ASSUME NEW i \in 1..Len(ttsQueue'), NEW j \in 1..Len(ttsQueue'), i < j,
                        ttsQueue'[i].kind = "marker"
                 PROVE  ttsQueue'[j].turn # ttsQueue'[i].turn
      OBVIOUS
    <3>1. /\ i + 1 \in 1..Len(ttsQueue) /\ j + 1 \in 1..Len(ttsQueue) /\ i + 1 < j + 1
          /\ ttsQueue'[i] = ttsQueue[i + 1] /\ ttsQueue'[j] = ttsQueue[j + 1]
      BY <1>2
    <3> QED BY <3>1 DEF NothingBehind
  <2>2. \A j \in 1..Len(ttsQueue') :
          ttsTask'.kind = "marker" => ttsQueue'[j].turn # ttsTask'.turn
    BY <1>2 DEF NothingBehind
  <2> QED BY <2>1, <2>2 DEF NothingBehind
<1>4. Marked' \subseteq Marked
  BY <1>2 DEF Marked
<1> QED BY <1>3, <1>4

LEMMA PushMarks ==
  ASSUME TypeOK, NothingBehind,
         NEW kind \in {"sentence", "marker"}, NEW n \in Turns,
         Push(kind, n), ttsTask' = ttsTask, n \notin Marked
  PROVE  /\ NothingBehind'
         /\ Marked' \subseteq Marked \union (IF kind = "marker" THEN {n} ELSE {})
<1>1. /\ ttsQueue \in Seq(TtsTask)
      /\ \E old \in BOOLEAN :
           ttsQueue' = Append(ttsQueue, [kind |-> kind, turn |-> n, old |-> old])
  BY DEF TypeOK, Push
<1>2. /\ Len(ttsQueue) \in Nat /\ Len(ttsQueue') = Len(ttsQueue) + 1
      /\ \A i \in 1..Len(ttsQueue) : ttsQueue'[i] = ttsQueue[i]
      /\ ttsQueue'[Len(ttsQueue) + 1].kind = kind
      /\ ttsQueue'[Len(ttsQueue) + 1].turn = n
  BY <1>1
<1>3. \A i \in 1..Len(ttsQueue') : i \in 1..Len(ttsQueue) \/ i = Len(ttsQueue) + 1
  BY <1>2
<1>4. \A i, j \in 1..Len(ttsQueue') :
        ttsQueue'[i].kind = "marker" /\ i < j => ttsQueue'[j].turn # ttsQueue'[i].turn
  <2> SUFFICES ASSUME NEW i \in 1..Len(ttsQueue'), NEW j \in 1..Len(ttsQueue'),
                      ttsQueue'[i].kind = "marker", i < j
               PROVE  ttsQueue'[j].turn # ttsQueue'[i].turn
    OBVIOUS
  <2>1. i \in 1..Len(ttsQueue)
    BY <1>2
  <2>2. CASE j \in 1..Len(ttsQueue)
    BY <1>2, <2>1, <2>2 DEF NothingBehind
  <2>3. CASE j = Len(ttsQueue) + 1
    BY <1>2, <2>1, <2>3 DEF Marked
  <2> QED BY <1>3, <2>2, <2>3
<1>5. \A j \in 1..Len(ttsQueue') : ttsTask'.kind = "marker" => ttsQueue'[j].turn # ttsTask'.turn
  BY <1>2, <1>3 DEF NothingBehind, Marked
<1>6. Marked' \subseteq Marked \union (IF kind = "marker" THEN {n} ELSE {})
  BY <1>2, <1>3 DEF Marked
<1> QED BY <1>4, <1>5, <1>6 DEF NothingBehind

-----------------------------------------------------------------------------
(* Markers: a turn that can still queue a sentence is not marked. *)

MarkerInv ==
  /\ NothingBehind
  /\ Marked \subseteq 1..Len(turns)
  /\ \A i \in 1..Len(tasks) : tasks[i] \notin Marked
  /\ \A t \in Threads : pc[t] \in Owned => call[t].turn \notin Marked
  /\ llmPc \notin {"idle", "end"} => running \notin Marked

\* What is marked anew is let go of in the same step.
LEMMA MarkedStep ==
  ASSUME TypeOK, Stage, Places, MarkerInv, [Next]_vars
  PROVE  /\ NothingBehind'
         /\ \/ Marked' \subseteq Marked
            \/ \E t \in Threads : /\ pc[t] \in Owned /\ pc'[t] \notin Owned /\ CalmStep
                                  /\ Marked' \subseteq Marked \union {call[t].turn}
            \/ /\ running # 0 /\ llmPc' = "end" /\ CalmStep
               /\ Marked' \subseteq Marked \union {running}
<1> USE DEF chatVars, llmVars, ttsVars, sessionVars
<1>1. CASE QuietStep
  BY <1>1, QuietMarks DEF MarkerInv
<1>2. CASE TtsPop
  BY <1>2, PopMarks DEF MarkerInv
<1>3. ASSUME NEW t \in Threads, DirectSentence(t) \/ DirectMarker(t)
      PROVE  /\ NothingBehind'
             /\ \/ Marked' \subseteq Marked
                \/ /\ pc[t] \in Owned /\ pc'[t] \notin Owned /\ CalmStep
                   /\ Marked' \subseteq Marked \union {call[t].turn}
  <2>1. pc[t] \in Owned /\ ttsTask' = ttsTask
    BY <1>3 DEF DirectSentence, DirectMarker, Owned
  <2>2. PICK n \in Turns : n = call[t].turn
    BY <2>1 DEF Stage, TypeOK, Call, Turns
  <2>3. n \notin Marked
    BY <2>1, <2>2 DEF MarkerInv
  <2>4. CASE DirectSentence(t)
    <3>1. Push("sentence", n)
      BY <2>2, <2>4 DEF DirectSentence
    <3> QED BY <2>1, <2>3, <3>1, PushMarks DEF MarkerInv
  <2>5. CASE DirectMarker(t)
    <3>1. Push("marker", n) /\ pc'[t] \notin Owned
      BY <2>2, <2>5 DEF DirectMarker, Goto, Owned, TypeOK
    <3>2. CalmStep
      BY <2>5 DEF DirectMarker, Goto, CalmStep, Owned, TypeOK
    <3>3. NothingBehind' /\ Marked' \subseteq Marked \union {n}
      BY <2>1, <2>3, <3>1, PushMarks DEF MarkerInv
    <3> QED BY <2>1, <2>2, <3>1, <3>2, <3>3
  <2> QED BY <1>3, <2>4, <2>5
<1>4. CASE LlmSentence \/ LlmTail \/ LlmMarker
  <2>1. llmPc \notin {"idle", "end"} /\ ttsTask' = ttsTask
    BY <1>4 DEF LlmSentence, LlmTail, LlmMarker
  <2>2. PICK n \in Turns : n = running
    BY <2>1 DEF Stage, TypeOK, Turns
  <2>3. n \notin Marked /\ n # 0
    BY <2>1, <2>2 DEF MarkerInv, Turns
  <2>4. CASE LlmSentence \/ LlmTail
    <3>1. Push("sentence", n)
      BY <2>2, <2>4 DEF LlmSentence, LlmTail
    <3> QED BY <2>1, <2>3, <3>1, PushMarks DEF MarkerInv
  <2>5. CASE LlmMarker
    <3>1. Push("marker", n) /\ llmPc' = "end"
      BY <2>2, <2>5 DEF LlmMarker
    <3>2. CalmStep
      BY <2>5 DEF LlmMarker, CalmStep
    <3>3. NothingBehind' /\ Marked' \subseteq Marked \union {n}
      BY <2>1, <2>3, <3>1, PushMarks DEF MarkerInv
    <3> QED BY <2>2, <2>3, <3>1, <3>2, <3>3
  <2> QED BY <1>4, <2>4, <2>5
<1> QED BY <1>1, <1>2, <1>3, <1>4, TtsKinds

LEMMA MarkerStep ==
  ASSUME TypeOK, Stage, Places, MarkerInv, [Next]_vars, Stage'
  PROVE  MarkerInv'
<1>1. NothingBehind'
  BY MarkedStep
<1>2. CASE CalmStep
  <2>1. llmPc' \notin {"idle", "end"} => llmPc \notin {"idle", "end"}
    BY <1>2 DEF CalmStep, Stage
  <2>2. CASE Marked' \subseteq Marked
    BY <1>1, <1>2, <2>1, <2>2 DEF CalmStep, MarkerInv
  <2>3. ASSUME NEW t \in Threads, pc[t] \in Owned, pc'[t] \notin Owned,
               Marked' \subseteq Marked \union {call[t].turn}
        PROVE  MarkerInv'
    <3>1. call[t].turn \in 1..Len(turns) /\ call[t].turn # running
      BY <2>3 DEF Stage, Places
    <3>2. \A u \in Threads : pc'[u] \in Owned =>
            pc[u] \in Owned /\ call'[u].turn # call[t].turn /\ call'[u].turn = call[u].turn
      BY <1>2, <2>3 DEF CalmStep, Places
    <3>3. \A i \in 1..Len(tasks) : tasks[i] # call[t].turn
      BY <2>3 DEF Places
    <3> QED BY <1>1, <1>2, <2>1, <2>3, <3>1, <3>2, <3>3 DEF CalmStep, MarkerInv
  <2>4. ASSUME running # 0, llmPc' = "end", Marked' \subseteq Marked \union {running}
        PROVE  MarkerInv'
    <3>1. running \in 1..Len(turns)
      BY <2>4 DEF TypeOK, Stage
    <3>2. \A u \in Threads : pc'[u] \in Owned =>
            pc[u] \in Owned /\ call'[u].turn # running /\ call'[u].turn = call[u].turn
      BY <1>2 DEF CalmStep, Places
    <3>3. \A i \in 1..Len(tasks) : tasks[i] # running
      BY DEF Places
    <3> QED BY <1>1, <1>2, <2>4, <3>1, <3>2, <3>3 DEF CalmStep, MarkerInv
  <2> QED BY <2>2, <2>3, <2>4, MarkedStep
<1>3. ASSUME NEW t \in Threads, TurnPersist(t) PROVE MarkerInv'
  <2>1. /\ Marked' \subseteq Marked /\ tasks' = tasks /\ running' = running /\ llmPc' = llmPc
        /\ pc' = [pc EXCEPT ![t] = "begin"] /\ call'[t].turn = Len(turns) + 1
        /\ Len(turns') = Len(turns) + 1 /\ Len(turns) \in Nat
        /\ \A u \in Threads : u # t => pc'[u] = pc[u] /\ call'[u] = call[u]
    BY <1>3, QuietMarks DEF TurnPersist, QuietStep, MarkerInv, TypeOK, Call, chatVars, llmVars, ttsVars
  <2>2. Marked' \subseteq 1..Len(turns') /\ call'[t].turn \notin Marked'
    BY <2>1 DEF MarkerInv
  <2> QED BY <1>1, <2>1, <2>2 DEF MarkerInv
<1>4. ASSUME NEW t \in Threads, TurnSubmit(t) PROVE MarkerInv'
  <2>1. /\ Marked' \subseteq Marked /\ turns' = turns /\ running' = running /\ llmPc' = llmPc
        /\ tasks' = Append(tasks, call[t].turn) /\ pc[t] = "submit"
        /\ \A u \in Threads : pc'[u] \in Owned => pc[u] \in Owned /\ call'[u] = call[u]
    BY <1>4, QuietMarks DEF TurnSubmit, Chat!Submit, Goto, QuietStep, MarkerInv, TypeOK, Owned, chatVars, llmVars, ttsVars
  <2>2. \A i \in 1..Len(tasks') :
          \/ tasks'[i] = call[t].turn
          \/ i \in 1..Len(tasks) /\ tasks'[i] = tasks[i]
    BY <2>1 DEF TypeOK
  <2>3. call[t].turn \notin Marked
    BY <2>1 DEF MarkerInv, Owned
  <2> QED BY <1>1, <2>1, <2>2, <2>3 DEF MarkerInv
<1>5. CASE LlmStart
  <2>1. /\ Marked' \subseteq Marked /\ turns' = turns /\ pc' = pc /\ call' = call
        /\ tasks # <<>> /\ running' = Head(tasks) /\ tasks' = Tail(tasks)
        /\ tasks \in Seq(Turns)
    BY <1>5, QuietMarks DEF LlmStart, Chat!Start, QuietStep, MarkerInv, ttsVars, TypeOK
  <2>2. /\ 1 \in 1..Len(tasks) /\ running' = tasks[1]
        /\ \A i \in 1..Len(tasks') : i + 1 \in 1..Len(tasks) /\ tasks'[i] = tasks[i + 1]
    BY <2>1
  <2> QED BY <1>1, <2>1, <2>2 DEF MarkerInv
<1>6. CASE LlmEnd
  <2>1. /\ Marked' \subseteq Marked /\ turns' = turns /\ pc' = pc /\ call' = call
        /\ tasks' = tasks /\ llmPc' = "idle"
    BY <1>6, QuietMarks DEF LlmEnd, Chat!Finish, QuietStep, MarkerInv, ttsVars
  <2> QED BY <1>1, <2>1 DEF MarkerInv
<1> QED BY <1>2, <1>3, <1>4, <1>5, <1>6, StepKinds

LEMMA MarkerFollows == TypeOK /\ Stage /\ MarkerInv => MarkerIsLast
<1> SUFFICES ASSUME TypeOK, Stage, MarkerInv PROVE MarkerIsLast
  OBVIOUS
<1>1. \A i \in 1..Len(ttsQueue) : ttsQueue[i] \in TtsTask
  BY DEF TypeOK
<1>2. \A i \in 1..Len(ttsQueue) : ttsQueue[i].kind = "marker" => ttsQueue[i].turn \in Marked
  BY <1>1 DEF Marked, TtsTask
<1>3. ttsTask.kind = "marker" => ttsTask.turn \in Marked
  BY DEF TypeOK, Marked, TtsTask, NoTtsTask
<1>4. \A i \in 1..Len(ttsQueue) : \A j \in (i + 1)..Len(ttsQueue) : j \in 1..Len(ttsQueue) /\ i < j
  BY DEF TypeOK
<1>5. \A j \in (0 + 1)..Len(ttsQueue) : j \in 1..Len(ttsQueue)
  OBVIOUS
<1> QED BY <1>2, <1>3, <1>4, <1>5 DEF MarkerInv, NothingBehind, MarkerIsLast

Inv == TypeOK /\ Stage /\ Places /\ MarkerInv

LEMMA InitInv == Init => Inv
<1> SUFFICES ASSUME Init PROVE Inv
  OBVIOUS
<1>1. TypeOK /\ Stage
  BY InitStage
<1>2. /\ tasks = <<>> /\ ttsQueue = <<>> /\ ttsTask.kind = "none"
      /\ llmPc = "idle" /\ \A t \in Threads : pc[t] \notin Owned
  BY DEF Init, Chat!Init, NoTtsTask, Owned
<1>3. Places
  BY <1>2 DEF Places
<1>4. MarkerInv
  BY <1>2 DEF MarkerInv, NothingBehind, Marked
<1> QED BY <1>1, <1>3, <1>4 DEF Inv

LEMMA InvStep == Inv /\ [Next]_vars => Inv'
BY TypeStep, PlacesStep, MarkerStep DEF Inv

LEMMA InvHolds == Spec => []Inv
<1>1. Inv /\ [Next]_vars => Inv'
  BY InvStep
<1> QED BY InitInv, <1>1, PTL DEF Spec, Safety

\* Every variable has its type.
THEOREM TypeCorrect == Spec => []TypeOK
<1>1. Inv => TypeOK
  BY DEF Inv
<1> QED BY <1>1, InvHolds, PTL

\* Nothing of a turn is queued behind its done marker, or will be: "all
\* synthesised" means all.  (speech_service.h:60, ws_session.cpp:326-332)
THEOREM MarkerCorrect == Spec => []MarkerIsLast
<1>1. Inv => MarkerIsLast
  BY MarkerFollows DEF Inv
<1> QED BY <1>1, InvHolds, PTL

-----------------------------------------------------------------------------
(* Cancelled turns: what they can still queue. *)

Few == IF MaxBatch = 0 THEN 1 ELSE MaxBatch
Sentences(n) ==
  {i \in 1..Len(ttsQueue) : ttsQueue[i].kind = "sentence" /\ ttsQueue[i].turn = n}

\* The labels from which a call goes on to queue the sentence of a tool.
Early == {"begin", "flag", "sentence"}

\* At most this many sentences are still to come of a turn that is cancelled.
More(n) ==
  IF \E t \in Threads : pc[t] \in Early /\ call[t].turn = n THEN 1
  ELSE IF running # n THEN 0
  ELSE IF llmPc = "push" THEN batch
  ELSE IF llmPc = "tail" THEN 1 ELSE 0

\* A flag that has been set belongs to a turn that has been started.
FlagInv ==
  /\ \A n \in cancelled : n <= Len(turns)
  /\ \A s \in Sessions : current[s] <= Len(turns)

NoInterrupt == \A t \in Threads : pc[t] \notin {"bump", "clear"}

LittleInv ==
  NoInterrupt => \A n \in cancelled : Cardinality(Sentences(n)) + More(n) <= Few

LEMMA FewMore ==
  ASSUME TypeOK, Stage, NEW n
  PROVE  More(n) \in Nat /\ More(n) <= Few /\ Few \in Nat
BY WsSessionAssumption DEF TypeOK, Stage, More, Few

LEMMA FiniteSentences ==
  ASSUME TypeOK, NEW n
  PROVE  IsFiniteSet(Sentences(n)) /\ Cardinality(Sentences(n)) \in Nat
<1>1. Len(ttsQueue) \in Nat
  BY DEF TypeOK
<1>2. IsFiniteSet(1..Len(ttsQueue))
  BY <1>1, FS_Interval
<1>3. Sentences(n) \subseteq 1..Len(ttsQueue)
  BY DEF Sentences
<1> QED BY <1>2, <1>3, FS_Subset, FS_CardinalityType

LEMMA QuietSentences ==
  ASSUME TypeOK, QuietStep, NEW n
  PROVE  Cardinality(Sentences(n)') <= Cardinality(Sentences(n))
<1>1. Sentences(n)' \subseteq Sentences(n)
  BY DEF TypeOK, QuietStep, Sentences
<1> QED BY <1>1, FiniteSentences, FS_Subset

LEMMA PopSentences ==
  ASSUME TypeOK, TtsPop, NEW n
  PROVE  Cardinality(Sentences(n)') <= Cardinality(Sentences(n))
<1>1. ttsQueue \in Seq(TtsTask) /\ ttsQueue # <<>> /\ ttsQueue' = Tail(ttsQueue)
  BY DEF TypeOK, TtsPop
<1>2. /\ Len(ttsQueue) \in Nat /\ Len(ttsQueue') = Len(ttsQueue) - 1
      /\ \A i \in 1..Len(ttsQueue') :
           i + 1 \in 1..Len(ttsQueue) /\ ttsQueue'[i] = ttsQueue[i + 1]
  BY <1>1
<1>3. \A i \in Sentences(n)' : i \in Nat /\ i + 1 \in Sentences(n)
  BY <1>2 DEF Sentences
<1> DEFINE f == [i \in Sentences(n)' |-> i + 1]
<1>4. f \in Injection(Sentences(n)', Sentences(n))
  BY <1>3 DEF Injection, IsInjective
<1> HIDE DEF f
<1> QED BY <1>4, FiniteSentences, FS_Injection

LEMMA PushSentences ==
  ASSUME TypeOK, NEW kind \in {"sentence", "marker"}, NEW m \in Turns,
         Push(kind, m), NEW n
  PROVE  Cardinality(Sentences(n)')
           = Cardinality(Sentences(n)) + (IF kind = "sentence" /\ n = m THEN 1 ELSE 0)
<1>1. /\ ttsQueue \in Seq(TtsTask)
      /\ \E old \in BOOLEAN :
           ttsQueue' = Append(ttsQueue, [kind |-> kind, turn |-> m, old |-> old])
  BY DEF TypeOK, Push
<1>2. /\ Len(ttsQueue) \in Nat /\ Len(ttsQueue') = Len(ttsQueue) + 1
      /\ \A i \in 1..Len(ttsQueue) : ttsQueue'[i] = ttsQueue[i]
      /\ ttsQueue'[Len(ttsQueue) + 1].kind = kind
      /\ ttsQueue'[Len(ttsQueue) + 1].turn = m
  BY <1>1
<1>3. \A i \in 1..Len(ttsQueue') : i \in 1..Len(ttsQueue) \/ i = Len(ttsQueue) + 1
  BY <1>2
<1>4. Len(ttsQueue) + 1 \notin Sentences(n)
  BY <1>2 DEF Sentences
<1>5. CASE kind = "sentence" /\ n = m
  <2>1. Sentences(n)' = Sentences(n) \union {Len(ttsQueue) + 1}
    BY <1>2, <1>3, <1>5 DEF Sentences
  <2> QED BY <1>4, <1>5, <2>1, FiniteSentences, FS_AddElement
<1>6. CASE ~(kind = "sentence" /\ n = m)
  <2>1. Sentences(n)' = Sentences(n)
    BY <1>2, <1>3, <1>6 DEF Sentences
  <2> QED BY <1>6, <2>1, FiniteSentences
<1> QED BY <1>5, <1>6

\* Most steps of the calls leave what a turn can still queue alone.
CallKeeps ==
  /\ \A u \in Threads : pc'[u] \in Early => pc[u] \in Early /\ call'[u].turn = call[u].turn
  /\ running' = running /\ llmPc' = llmPc /\ batch' = batch

LEMMA KeptMore ==
  ASSUME TypeOK, Stage, Places, CallKeeps, NEW n
  PROVE  More(n)' <= More(n)
<1>1. CASE \E t \in Threads : pc'[t] \in Early /\ call'[t].turn = n
  <2>1. \E t \in Threads : pc[t] \in Early /\ call[t].turn = n
    BY <1>1 DEF CallKeeps
  <2>2. More(n)' = 1 /\ More(n) = 1
    BY <1>1, <2>1 DEF More
  <2> QED BY <2>2
<1>2. CASE ~\E t \in Threads : pc'[t] \in Early /\ call'[t].turn = n
  <2>1. CASE \E t \in Threads : pc[t] \in Early /\ call[t].turn = n
    <3>1. running' # n
      BY <2>1 DEF Places, Early, Owned, CallKeeps
    <3> QED BY <1>2, <2>1, <3>1 DEF More
  <2>2. CASE ~\E t \in Threads : pc[t] \in Early /\ call[t].turn = n
    <3>1. More(n)' = More(n)
      BY <1>2, <2>2 DEF More, CallKeeps
    <3> QED BY <3>1, FewMore
  <2> QED BY <2>1, <2>2
<1> QED BY <1>1, <1>2

\* A step that queues no sentence adds nothing to what is still to come.
LEMMA MoreStep ==
  ASSUME TypeOK, Stage, Places, FlagInv, [Next]_vars, NEW n \in cancelled
  PROVE  \/ More(n)' <= More(n)
         \/ \E t \in Threads : DirectSentence(t)
         \/ LlmSentence \/ LlmTail
<1> USE DEF chatVars, llmVars, ttsVars, sessionVars, Early
<1>1. ASSUME NEW s \in Sessions, RecvChat(s) \/ RecvStop(s) PROVE CallKeeps
  BY <1>1 DEF RecvChat, RecvStop, Begin, CallKeeps, TypeOK
<1>2. ASSUME SpeechStart \/ Utterance PROVE CallKeeps
  BY <1>2 DEF SpeechStart, Utterance, Begin, CallKeeps, TypeOK
<1>3. ASSUME NEW t \in Threads, InterruptFlag(t) \/ InterruptBump(t) \/ InterruptClear(t)
      PROVE  CallKeeps
  BY <1>3 DEF InterruptFlag, InterruptBump, InterruptClear, Goto, CallKeeps, TypeOK
<1>4. ASSUME NEW t \in Threads, InterruptUnbusy(t) PROVE CallKeeps
  <2>1. call[t].ret \in {"idle", "turn", "persist"}
    BY DEF TypeOK, Call
  <2> QED BY <1>4, <2>1 DEF InterruptUnbusy, Goto, CallKeeps, TypeOK
<1>5. ASSUME NEW t \in Threads, TurnCheckBusy(t) \/ TurnBound(t) \/ TurnBusy(t) PROVE CallKeeps
  BY <1>5 DEF TurnCheckBusy, TurnBound, TurnBusy, Goto, CallKeeps, TypeOK
<1>6. ASSUME NEW t \in Threads, TurnFlag(t) PROVE CallKeeps
  BY <1>6 DEF TurnFlag, Goto, CallKeeps, TypeOK
<1>7. ASSUME NEW t \in Threads, TurnSubmit(t) \/ DirectMarker(t) \/ DirectFree(t)
      PROVE  CallKeeps
  BY <1>7 DEF TurnSubmit, Chat!Submit, DirectMarker, DirectFree, Goto, CallKeeps, TypeOK
<1>8. ASSUME NEW t \in Threads, TurnPersist(t) PROVE More(n)' <= More(n)
  <2>1. /\ running' = running /\ llmPc' = llmPc /\ batch' = batch
        /\ call'[t].turn = Len(turns) + 1
        /\ \A u \in Threads : u # t => pc'[u] = pc[u] /\ call'[u] = call[u]
        /\ pc[t] \notin Early
    BY <1>8 DEF TurnPersist, TypeOK, Call
  <2>2. call'[t].turn # n
    BY <2>1 DEF FlagInv, TypeOK, Turns
  <2>3. (\E u \in Threads : pc'[u] \in Early /\ call'[u].turn = n)
          <=> (\E u \in Threads : pc[u] \in Early /\ call[u].turn = n)
    BY <2>1, <2>2
  <2>4. More(n)' = More(n)
    BY <2>1, <2>3 DEF More
  <2> QED BY <2>4, FewMore
<1>9. ASSUME LlmStart \/ LlmEnd PROVE More(n)' <= More(n)
  <2>1. pc' = pc /\ call' = call /\ llmPc' \in {"gen", "idle"}
    BY <1>9 DEF LlmStart, LlmEnd
  <2>2. More(n)' = More(n) \/ More(n)' = 0
    BY <2>1 DEF More
  <2> QED BY <2>2, FewMore
<1>10. ASSUME LlmDelta PROVE More(n)' <= More(n)
  <2>1. /\ pc' = pc /\ call' = call /\ running' = running
        /\ running = n => llmPc' = "gen"
    BY <1>10 DEF LlmDelta
  <2>2. More(n)' = More(n) \/ More(n)' = 0
    BY <2>1 DEF More
  <2> QED BY <2>2, FewMore
<1>11. ASSUME LlmDone \/ LlmMarker \/ LlmFree PROVE More(n)' <= More(n)
  <2>1. /\ pc' = pc /\ call' = call /\ running' = running
        /\ running = n => llmPc' \notin {"push", "tail"}
    BY <1>11 DEF LlmDone, LlmMarker, LlmFree
  <2>2. More(n)' = More(n) \/ More(n)' = 0
    BY <2>1 DEF More
  <2> QED BY <2>2, FewMore
<1>12. ASSUME TtsStep PROVE CallKeeps
  BY <1>12 DEF TtsStep, TtsPop, TtsLoad, TtsCheck, TtsCallback, CallKeeps
<1>13. ASSUME UNCHANGED vars PROVE CallKeeps
  BY <1>13 DEF vars, CallKeeps
<1> QED BY <1>1, <1>2, <1>3, <1>4, <1>5, <1>6, <1>7, <1>8, <1>9, <1>10, <1>11, <1>12, <1>13,
           KeptMore DEF Next, CallStep, LlmStep

LEMMA FlagKinds ==
  ASSUME TypeOK, [Next]_vars
  PROVE  \/ /\ cancelled' = cancelled
            /\ \A t \in Threads : pc[t] \in {"bump", "clear"} => pc'[t] \in {"bump", "clear"}
         \/ \E t \in Threads : pc'[t] = "bump"
         \/ \E t \in Threads : InterruptClear(t)
<1> DEFINE Same == /\ cancelled' = cancelled
                   /\ \A t \in Threads : pc[t] \in {"bump", "clear"} => pc'[t] \in {"bump", "clear"}
<1> USE DEF chatVars, llmVars, ttsVars, sessionVars
<1>1. ASSUME NEW s \in Sessions, RecvChat(s) \/ RecvStop(s) PROVE Same
  BY <1>1 DEF RecvChat, RecvStop, Begin, TypeOK
<1>2. ASSUME SpeechStart \/ Utterance PROVE Same
  BY <1>2 DEF SpeechStart, Utterance, Begin, TypeOK
<1>3. ASSUME NEW t \in Threads, InterruptFlag(t) PROVE pc'[t] = "bump"
  BY <1>3 DEF InterruptFlag, Goto, TypeOK
<1>4. ASSUME NEW t \in Threads, InterruptBump(t) PROVE Same
  BY <1>4 DEF InterruptBump, Goto, TypeOK
<1>5. ASSUME NEW t \in Threads, InterruptUnbusy(t) \/ TurnCheckBusy(t) \/ TurnBound(t)
      PROVE  Same
  BY <1>5 DEF InterruptUnbusy, TurnCheckBusy, TurnBound, Goto, TypeOK
<1>6. ASSUME NEW t \in Threads, TurnBusy(t) \/ TurnFlag(t) \/ TurnPersist(t) PROVE Same
  BY <1>6 DEF TurnPersist, TurnBusy, TurnFlag, Goto, TypeOK
<1>7. ASSUME NEW t \in Threads,
             TurnSubmit(t) \/ DirectSentence(t) \/ DirectMarker(t) \/ DirectFree(t)
      PROVE  Same
  BY <1>7 DEF TurnSubmit, DirectSentence, DirectMarker, DirectFree, Goto, TypeOK
<1>8. ASSUME LlmStart \/ LlmStep PROVE Same
  BY <1>8 DEF LlmStart, LlmStep, LlmDelta, LlmSentence, LlmDone, LlmTail, LlmMarker, LlmFree, LlmEnd
<1>9. ASSUME TtsStep PROVE Same
  BY <1>9 DEF TtsStep, TtsPop, TtsLoad, TtsCheck, TtsCallback
<1>10. ASSUME UNCHANGED vars PROVE Same
  BY <1>10 DEF vars
<1> QED BY <1>1, <1>2, <1>3, <1>4, <1>5, <1>6, <1>7, <1>8, <1>9, <1>10 DEF Next, CallStep

LEMMA FlagStep ==
  ASSUME TypeOK, Stage, FlagInv, [Next]_vars
  PROVE  FlagInv'
<1> USE DEF chatVars, llmVars, ttsVars, sessionVars
<1> DEFINE Same == turns' = turns /\ cancelled' = cancelled /\ current' = current
<1>1. ASSUME NEW s \in Sessions, RecvChat(s) \/ RecvStop(s) PROVE Same
  BY <1>1 DEF RecvChat, RecvStop, Begin
<1>2. ASSUME SpeechStart \/ Utterance PROVE Same
  BY <1>2 DEF SpeechStart, Utterance, Begin
<1>3. ASSUME NEW t \in Threads, InterruptFlag(t) PROVE FlagInv'
  <2>1. call[t].sess \in Sessions
    BY DEF TypeOK, Call
  <2>2. /\ turns' = turns /\ current' = current
        /\ \A n \in cancelled' : n \in cancelled \/ n = current[call[t].sess]
    BY <1>3 DEF InterruptFlag
  <2> QED BY <2>1, <2>2 DEF FlagInv
<1>4. ASSUME NEW t \in Threads,
             \/ InterruptBump(t) \/ InterruptClear(t) \/ InterruptUnbusy(t)
             \/ TurnCheckBusy(t) \/ TurnBound(t) \/ TurnBusy(t)
      PROVE  Same
  BY <1>4 DEF InterruptBump, InterruptClear, InterruptUnbusy, TurnCheckBusy, TurnBound, TurnBusy
<1>5. ASSUME NEW t \in Threads, TurnPersist(t) PROVE FlagInv'
  <2>1. /\ Len(turns') = Len(turns) + 1 /\ Len(turns) \in Nat
        /\ cancelled' = cancelled /\ current' = current
    BY <1>5 DEF TurnPersist, TypeOK
  <2>2. \A n \in cancelled : n \in Nat
    BY DEF TypeOK, Turns
  <2>3. \A s \in Sessions : current[s] \in Nat
    BY DEF TypeOK
  <2> QED BY <2>1, <2>2, <2>3 DEF FlagInv
<1>6. ASSUME NEW t \in Threads, TurnFlag(t) PROVE FlagInv'
  <2>1. /\ turns' = turns /\ cancelled' = cancelled
        /\ current' = [current EXCEPT ![call[t].sess] = call[t].turn]
        /\ call[t].turn <= Len(turns)
    BY <1>6 DEF TurnFlag, Stage, Owned
  <2>2. \A s \in Sessions : current'[s] \in {current[s], call[t].turn}
    BY <2>1 DEF TypeOK
  <2> QED BY <2>1, <2>2 DEF FlagInv
<1>7. ASSUME NEW t \in Threads,
             TurnSubmit(t) \/ DirectSentence(t) \/ DirectMarker(t) \/ DirectFree(t)
      PROVE  Same
  BY <1>7 DEF TurnSubmit, DirectSentence, DirectMarker, DirectFree
<1>8. ASSUME LlmStart \/ LlmStep PROVE Same
  BY <1>8 DEF LlmStart, LlmStep, LlmDelta, LlmSentence, LlmDone, LlmTail, LlmMarker, LlmFree, LlmEnd
<1>9. ASSUME TtsStep PROVE Same
  BY <1>9 DEF TtsStep, TtsPop, TtsLoad, TtsCheck, TtsCallback
<1>10. ASSUME UNCHANGED vars PROVE Same
  BY <1>10 DEF vars
<1>11. Same => FlagInv'
  BY DEF FlagInv
<1> QED BY <1>1, <1>2, <1>3, <1>4, <1>5, <1>6, <1>7, <1>8, <1>9, <1>10, <1>11 DEF Next, CallStep

\* A turn queues a sentence: one less is to come.
LEMMA SpendStep ==
  ASSUME TypeOK, Stage, Places, NEW n \in cancelled,
         \/ \E t \in Threads : DirectSentence(t)
         \/ LlmSentence \/ LlmTail
  PROVE  Cardinality(Sentences(n)') + More(n)' <= Cardinality(Sentences(n)) + More(n)
<1> USE DEF chatVars, llmVars, ttsVars, sessionVars
<1>1. ASSUME NEW t \in Threads, DirectSentence(t)
      PROVE  Cardinality(Sentences(n)') + More(n)' <= Cardinality(Sentences(n)) + More(n)
  <2>1. /\ pc[t] = "sentence" /\ pc' = [pc EXCEPT ![t] = "marker"] /\ call' = call
        /\ running' = running /\ llmPc' = llmPc /\ batch' = batch
    BY <1>1 DEF DirectSentence, Goto
  <2>2. PICK m \in Turns : m = call[t].turn
    BY <2>1 DEF Stage, Owned, TypeOK, Call, Turns
  <2>3. Cardinality(Sentences(n)')
          = Cardinality(Sentences(n)) + (IF n = m THEN 1 ELSE 0)
    <3>1. Push("sentence", m)
      BY <1>1, <2>2 DEF DirectSentence
    <3> QED BY <3>1, PushSentences
  <2>4. CASE n = m
    <3>1. More(n) = 1
      BY <2>1, <2>2, <2>4 DEF More, Early
    <3>2. running # n /\ \A u \in Threads : pc'[u] \in Early => call'[u].turn # n
      BY <2>1, <2>2, <2>4 DEF Places, Owned, Early, TypeOK
    <3>3. More(n)' = 0
      BY <2>1, <3>2 DEF More
    <3> QED BY <2>3, <2>4, <3>1, <3>3, FiniteSentences
  <2>5. CASE n # m
    <3>1. CallKeeps
      BY <2>1 DEF CallKeeps, Early, TypeOK
    <3>2. Cardinality(Sentences(n)') = Cardinality(Sentences(n))
      BY <2>3, <2>5, FiniteSentences
    <3>3. More(n)' <= More(n)
      BY <3>1, KeptMore
    <3>4. More(n)' \in Nat
      BY <2>1 DEF More, TypeOK
    <3> QED BY <3>2, <3>3, <3>4, FewMore, FiniteSentences
  <2> QED BY <2>4, <2>5
<1>2. ASSUME LlmSentence \/ LlmTail
      PROVE  Cardinality(Sentences(n)') + More(n)' <= Cardinality(Sentences(n)) + More(n)
  <2>1. /\ pc' = pc /\ call' = call /\ running' = running
        /\ llmPc \in {"push", "tail"}
        /\ llmPc = "push" => batch' = batch - 1 /\ llmPc' \in {"gen", "push"}
        /\ llmPc = "tail" => llmPc' = "marker"
        /\ batch \in Nat
    BY <1>2 DEF LlmSentence, LlmTail, TypeOK
  <2>2. PICK m \in Turns : m = running
    BY <2>1 DEF Stage, TypeOK, Turns
  <2>3. Cardinality(Sentences(n)')
          = Cardinality(Sentences(n)) + (IF n = m THEN 1 ELSE 0)
    <3>1. Push("sentence", m)
      BY <1>2, <2>2 DEF LlmSentence, LlmTail
    <3> QED BY <3>1, PushSentences
  <2>4. CASE n = m
    <3>1. \A u \in Threads : pc[u] \in Early => call[u].turn # n
      BY <2>2, <2>4 DEF Places, Owned, Early
    <3>2. /\ llmPc = "push" => More(n) = batch /\ batch >= 1
          /\ llmPc = "tail" => More(n) = 1
      BY <2>1, <2>2, <2>4, <3>1 DEF More, Stage
    <3>3. /\ llmPc' = "push" => More(n)' = batch'
          /\ llmPc' \in {"gen", "marker"} => More(n)' = 0
      BY <2>1, <2>2, <2>4, <3>1 DEF More
    <3> QED BY <2>1, <2>3, <2>4, <3>2, <3>3, FiniteSentences
  <2>5. CASE n # m
    <3>1. More(n)' = More(n)
      BY <2>1, <2>2, <2>5 DEF More
    <3>2. Cardinality(Sentences(n)') = Cardinality(Sentences(n))
      BY <2>3, <2>5, FiniteSentences
    <3> QED BY <3>1, <3>2, FewMore, FiniteSentences
  <2> QED BY <2>4, <2>5
<1> QED BY <1>1, <1>2

LEMMA LittleStep ==
  ASSUME TypeOK, Stage, Places, FlagInv, LittleInv, [Next]_vars, TypeOK', Stage'
  PROVE  LittleInv'
<1> SUFFICES ASSUME NoInterrupt', NEW n \in cancelled'
             PROVE  Cardinality(Sentences(n)') + More(n)' <= Few
  BY DEF LittleInv
<1>1. More(n)' \in Nat /\ More(n)' <= Few /\ Few \in Nat
  <2>1. /\ batch' \in 0..MaxBatch /\ (llmPc' = "push" => batch' >= 1)
    BY DEF TypeOK, Stage
  <2> QED BY <2>1, WsSessionAssumption DEF More, Few
<1>2. ASSUME NEW t \in Threads, InterruptClear(t)
      PROVE  Cardinality(Sentences(n)') + More(n)' <= Few
  <2>1. Sentences(n)' = {}
    BY <1>2 DEF InterruptClear, Sentences
  <2> QED BY <1>1, <2>1, FS_EmptySet
<1>3. ASSUME cancelled' = cancelled,
             \A t \in Threads : pc[t] \in {"bump", "clear"} => pc'[t] \in {"bump", "clear"}
      PROVE  Cardinality(Sentences(n)') + More(n)' <= Few
  <2>1. n \in cancelled /\ Cardinality(Sentences(n)) + More(n) <= Few
    BY <1>3 DEF NoInterrupt, LittleInv
  <2>2. CASE (\E t \in Threads : DirectSentence(t)) \/ LlmSentence \/ LlmTail
    <3>1. Cardinality(Sentences(n)') + More(n)' <= Cardinality(Sentences(n)) + More(n)
      BY <2>1, <2>2, SpendStep
    <3>2. Cardinality(Sentences(n)') \in Nat
      <4>1. IsFiniteSet(1..Len(ttsQueue')) /\ Sentences(n)' \subseteq 1..Len(ttsQueue')
        BY FS_Interval DEF TypeOK, Sentences
      <4> QED BY <4>1, FS_Subset, FS_CardinalityType
    <3> QED BY <1>1, <2>1, <3>1, <3>2, FewMore, FiniteSentences
  <2>3. CASE ~((\E t \in Threads : DirectSentence(t)) \/ LlmSentence \/ LlmTail)
    <3>1. More(n)' <= More(n)
      BY <2>1, <2>3, MoreStep
    <3>2. Cardinality(Sentences(n)') <= Cardinality(Sentences(n))
          /\ Cardinality(Sentences(n)') \in Nat
      <4>0. Cardinality(Sentences(n)') \in Nat
        <5>1. IsFiniteSet(1..Len(ttsQueue')) /\ Sentences(n)' \subseteq 1..Len(ttsQueue')
          BY FS_Interval DEF TypeOK, Sentences
        <5> QED BY <5>1, FS_Subset, FS_CardinalityType
      <4>1. CASE QuietStep
        BY <4>0, <4>1, QuietSentences
      <4>2. CASE TtsPop
        BY <4>0, <4>2, PopSentences
      <4>3. ASSUME NEW t \in Threads, DirectMarker(t)
            PROVE  Cardinality(Sentences(n)') = Cardinality(Sentences(n))
        <5>1. PICK m \in Turns : m = call[t].turn
          BY <4>3 DEF DirectMarker, Stage, Owned, TypeOK, Call, Turns
        <5>2. Push("marker", m)
          BY <4>3, <5>1 DEF DirectMarker
        <5> QED BY <5>2, PushSentences, FiniteSentences
      <4>4. ASSUME LlmMarker
            PROVE  Cardinality(Sentences(n)') = Cardinality(Sentences(n))
        <5>1. PICK m \in Turns : m = running
          BY <4>4 DEF LlmMarker, Stage, TypeOK, Turns
        <5>2. Push("marker", m)
          BY <4>4, <5>1 DEF LlmMarker
        <5> QED BY <5>2, PushSentences, FiniteSentences
      <4> QED BY <2>3, <4>0, <4>1, <4>2, <4>3, <4>4, TtsKinds, FiniteSentences
    <3> QED BY <1>1, <2>1, <3>1, <3>2, FewMore, FiniteSentences
  <2> QED BY <2>2, <2>3
<1>4. ASSUME NEW t \in Threads, pc'[t] = "bump" PROVE FALSE
  BY <1>4 DEF NoInterrupt
<1> QED BY <1>2, <1>3, <1>4, FlagKinds

Inv2 == Inv /\ FlagInv /\ LittleInv

LEMMA Inv2Holds == Spec => []Inv2
<1>1. Init => Inv2
  <2> SUFFICES ASSUME Init PROVE Inv2
    OBVIOUS
  <2>1. Inv
    BY InitInv
  <2>2. cancelled = {} /\ current = [s \in Sessions |-> 0] /\ turns = <<>>
    BY DEF Init
  <2> QED BY <2>1, <2>2 DEF Inv2, FlagInv, LittleInv
<1>2. Inv2 /\ [Next]_vars => Inv2'
  <2> SUFFICES ASSUME Inv2, [Next]_vars PROVE Inv2'
    OBVIOUS
  <2>1. TypeOK /\ Stage /\ Places /\ Inv'
    BY InvStep DEF Inv2, Inv
  <2>2. FlagInv'
    BY <2>1, FlagStep DEF Inv2
  <2>3. LittleInv'
    BY <2>1, LittleStep DEF Inv2, Inv
  <2> QED BY <2>1, <2>2, <2>3 DEF Inv2
<1> QED BY <1>1, <1>2, PTL DEF Spec, Safety

\* Once an interrupt has cleared the TTS queue, a cancelled turn adds at most
\* the sentences it had split before it looked at its flag.
\* (ws_session.cpp:310-313, 327, speech_service.cpp:188-191)
THEOREM LittleCorrect == Spec => []CancelledLeaveLittle
<1>1. Inv2 => CancelledLeaveLittle
  <2> SUFFICES ASSUME Inv2, NoInterrupt, NEW n \in cancelled
               PROVE  Cardinality(Sentences(n)) <= Few
    BY DEF CancelledLeaveLittle, NoInterrupt, Sentences, Few
  <2>1. TypeOK /\ Stage /\ Cardinality(Sentences(n)) + More(n) <= Few
    BY DEF Inv2, Inv, LittleInv
  <2> QED BY <2>1, FewMore, FiniteSentences
<1> QED BY <1>1, Inv2Holds, PTL

-----------------------------------------------------------------------------
(* With one session: who will clear busy_. *)

\* The labels from which a call clears busy_ or hands the turn on.
Active == {"cancel", "bump", "clear", "unbusy", "turn", "flag", "submit",
           "sentence", "marker", "free"}

MarkerQueued == \E i \in 1..Len(ttsQueue) : ttsQueue[i].kind = "marker"

Account ==
  \/ \E t \in Threads : pc[t] \in Active
  \/ tasks # <<>>
  \/ llmPc \notin {"idle", "end"}
  \/ MarkerQueued
  \/ ttsTask.kind = "marker" /\ ~bumped

BusyInv == busy[Mic] => Account

LEMMA PushedMarker ==
  ASSUME TypeOK, NEW kind, NEW n, Push(kind, n)
  PROVE  (kind = "marker" \/ MarkerQueued) => MarkerQueued'
<1>1. /\ Len(ttsQueue) \in Nat /\ Len(ttsQueue') = Len(ttsQueue) + 1
      /\ \A i \in 1..Len(ttsQueue) : ttsQueue'[i] = ttsQueue[i]
      /\ ttsQueue'[Len(ttsQueue) + 1].kind = kind
  BY DEF TypeOK, Push
<1>2. Len(ttsQueue) + 1 \in 1..Len(ttsQueue')
      /\ \A i \in 1..Len(ttsQueue) : i \in 1..Len(ttsQueue')
  BY <1>1
<1> QED BY <1>1, <1>2 DEF MarkerQueued

LEMMA BusyStep ==
  ASSUME Sessions = {Mic}, TypeOK, Stage, BusyInv, [Next]_vars
  PROVE  BusyInv'
<1> SUFFICES ASSUME busy'[Mic] PROVE Account'
  BY DEF BusyInv
<1> USE DEF chatVars, llmVars, ttsVars, sessionVars
<1>0. \A t \in Threads : call[t].sess = Mic
  BY DEF TypeOK, Call
<1> DEFINE ThreadsKeep == \A u \in Threads : pc[u] \in Active => pc'[u] \in Active
           ChatKeeps == tasks' = tasks /\ llmPc' = llmPc
           TtsKeeps == ttsQueue' = ttsQueue /\ ttsTask' = ttsTask /\ bumped' = bumped
<1>1. ASSUME busy' = busy, ThreadsKeep, ChatKeeps, TtsKeeps PROVE Account'
  BY <1>1 DEF BusyInv, Account, MarkerQueued
<1>2. ASSUME NEW s \in Sessions, RecvChat(s) \/ RecvStop(s) PROVE Account'
  BY <1>1, <1>2 DEF RecvChat, RecvStop, Begin, Active, TypeOK
<1>3. ASSUME SpeechStart \/ Utterance PROVE Account'
  BY <1>1, <1>3 DEF SpeechStart, Utterance, Begin, Active, TypeOK
<1>4. ASSUME NEW t \in Threads, InterruptFlag(t) \/ InterruptBump(t) \/ InterruptClear(t)
      PROVE  Account'
  <2>1. pc'[t] \in Active
    BY <1>4 DEF InterruptFlag, InterruptBump, InterruptClear, Goto, Active, TypeOK
  <2> QED BY <2>1 DEF Account
<1>5. ASSUME NEW t \in Threads, InterruptUnbusy(t) PROVE FALSE
  BY <1>0, <1>5 DEF InterruptUnbusy, TypeOK
<1>6. ASSUME NEW t \in Threads, TurnCheckBusy(t) PROVE Account'
  <2>1. busy[Mic] /\ pc'[t] = "cancel"
    BY <1>0, <1>6 DEF TurnCheckBusy, TypeOK
  <2> QED BY <2>1 DEF Account, Active
<1>7. ASSUME NEW t \in Threads, TurnPersist(t) \/ TurnBound(t) PROVE Account'
  BY <1>1, <1>7 DEF TurnPersist, TurnBound, Goto, Active, TypeOK
<1>8. ASSUME NEW t \in Threads, TurnBusy(t) \/ TurnFlag(t) \/ DirectSentence(t) PROVE Account'
  <2>1. pc'[t] \in Active
    BY <1>8 DEF TurnBusy, TurnFlag, DirectSentence, Goto, Active, TypeOK
  <2> QED BY <2>1 DEF Account
<1>9. ASSUME NEW t \in Threads, TurnSubmit(t) PROVE Account'
  <2>1. tasks' # <<>>
    BY <1>9 DEF TurnSubmit, Chat!Submit, TypeOK
  <2> QED BY <2>1 DEF Account
<1>10. ASSUME NEW t \in Threads, DirectMarker(t) PROVE Account'
  <2>1. PICK n : n = call[t].turn
    OBVIOUS
  <2>2. Push("marker", n)
    BY <1>10, <2>1 DEF DirectMarker
  <2> QED BY <2>2, PushedMarker DEF Account
<1>11. ASSUME NEW t \in Threads, DirectFree(t) PROVE FALSE
  BY <1>0, <1>11 DEF DirectFree, TypeOK
<1>12. ASSUME LlmStart PROVE Account'
  BY <1>12 DEF LlmStart, Account
<1>13. ASSUME LlmDelta \/ LlmSentence \/ LlmDone \/ LlmTail PROVE Account'
  BY <1>13 DEF LlmDelta, LlmSentence, LlmDone, LlmTail, Account
<1>14. ASSUME LlmMarker PROVE Account'
  <2>1. PICK n : n = running
    OBVIOUS
  <2>2. Push("marker", n)
    BY <1>14, <2>1 DEF LlmMarker
  <2> QED BY <2>2, PushedMarker DEF Account
<1>15. ASSUME LlmFree PROVE FALSE
  <2>1. running \in 1..Len(turns)
    BY <1>15 DEF LlmFree, TypeOK, Stage
  <2>2. turns[running].owner = Mic
    <3> DEFINE Turn == [owner : Sessions, speak : BOOLEAN]
    <3>1. turns \in Seq(Turn)
      BY DEF TypeOK
    <3> HIDE DEF Turn
    <3>2. turns[running] \in Turn
      BY <2>1, <3>1
    <3> QED BY <3>2 DEF Turn
  <2> QED BY <1>15, <2>2 DEF LlmFree, TypeOK
<1>16. ASSUME LlmEnd PROVE Account'
  BY <1>16 DEF LlmEnd, Chat!Finish, BusyInv, Account, MarkerQueued
<1>17. ASSUME TtsPop PROVE Account'
  <2>1. /\ ttsQueue \in Seq(TtsTask) /\ ttsQueue # <<>>
        /\ ttsTask' = Head(ttsQueue) /\ ttsQueue' = Tail(ttsQueue)
        /\ busy' = busy /\ pc' = pc /\ tasks' = tasks /\ llmPc' = llmPc
        /\ ~bumped' /\ ttsPc = "pop"
    BY <1>17 DEF TtsPop, TypeOK, Stage
  <2>2. /\ Len(ttsQueue) \in Nat /\ ttsTask' = ttsQueue[1]
        /\ Len(ttsQueue') = Len(ttsQueue) - 1
        /\ \A i \in 1..Len(ttsQueue') : ttsQueue'[i] = ttsQueue[i + 1]
    BY <2>1
  <2>3. CASE MarkerQueued
    <3>1. PICK i \in 1..Len(ttsQueue) : ttsQueue[i].kind = "marker"
      BY <2>3 DEF MarkerQueued
    <3>2. CASE i = 1
      BY <2>1, <2>2, <3>1, <3>2 DEF Account
    <3>3. CASE i # 1
      <4>1. i - 1 \in 1..Len(ttsQueue') /\ ttsQueue'[i - 1] = ttsQueue[i]
        BY <2>2, <3>3
      <4> QED BY <3>1, <4>1 DEF Account, MarkerQueued
    <3> QED BY <3>2, <3>3
  <2>4. CASE ttsTask.kind = "marker"
    BY <1>17, <2>4 DEF TtsPop, Stage
  <2> QED BY <2>1, <2>3, <2>4 DEF BusyInv, Account
<1>18. ASSUME TtsLoad PROVE Account'
  BY <1>18 DEF TtsLoad, BusyInv, Account, MarkerQueued
<1>19. ASSUME TtsCheck PROVE Account'
  BY <1>19 DEF TtsCheck, BusyInv, Account, MarkerQueued
<1>20. ASSUME TtsCallback PROVE Account'
  BY <1>20 DEF TtsCallback, BusyInv, Account, MarkerQueued, TypeOK
<1>21. ASSUME UNCHANGED vars PROVE Account'
  BY <1>1, <1>21 DEF vars
<1> QED BY <1>2, <1>3, <1>4, <1>5, <1>6, <1>7, <1>8, <1>9, <1>10, <1>11, <1>12, <1>13, <1>14,
           <1>15, <1>16, <1>17, <1>18, <1>19, <1>20, <1>21 DEF Next, CallStep, LlmStep, TtsStep

\* With one session, busy_ is never left set with nobody to clear it.
\* (ws_session.cpp:173-180, 225-231, 279-281, 334)
THEOREM BusyCorrect ==
  ASSUME Sessions = {Mic}
  PROVE  Spec => []BusyIsAccountedFor
<1>1. Init => BusyInv
  BY WsSessionAssumption DEF Init, BusyInv
<1>2. Inv /\ BusyInv /\ [Next]_vars => BusyInv'
  BY BusyStep DEF Inv
<1>3. Inv /\ BusyInv => BusyIsAccountedFor
  BY DEF Inv, TypeOK, Stage, BusyInv, Account, MarkerQueued, Active, BusyIsAccountedFor
<1> QED BY <1>1, <1>2, <1>3, InvHolds, PTL DEF Spec, Safety

-----------------------------------------------------------------------------
(* The calculator.  ExprEval parses from left to right and looks at one
   character at a time; the grammar asks for the ways to divide a text.  Both
   are recursive functions, which exist since each value rests on smaller ones:
   of the parts of a text by their length, of the jobs of the parser by what
   they leave unread.  Then the parser finds every value of a part (by induction
   on its length), and what it answers is one (from the end of the text).
   First, induction on numbers. *)

\* The order of the places, as a relation.
Less == {p \in Nat \X Nat : p[1] < p[2]}

\* A set of numbers has a first one.
LEMMA FirstPlace ==
  ASSUME NEW S, S \subseteq Nat, S # {}
  PROVE  \E k \in S : \A n \in S : k <= n
<1>1. IsWellFoundedOn(Less, Nat)
  BY NatLessThanWellFounded, Zenon DEF OpToRel, Less
<1>2. PICK k \in S : \A n \in S : ~ (<<n, k>> \in Less)
  <2> HIDE DEF Less
  <2> QED BY <1>1, WFMin, Zenon
<1>3. \A n \in S : k <= n
  <2> SUFFICES ASSUME NEW n \in S, n < k
               PROVE  FALSE
    BY <1>2, SMT
  <2>1. n \in Nat /\ k \in Nat
    BY <1>2
  <2>2. <<n, k>> \in Less
    BY <2>1 DEF Less
  <2> QED BY <1>2, <2>2, Zenon
<1> QED BY <1>3

\* Induction: a set of numbers that has a number when it has all smaller ones has
\* them all.
LEMMA AllNumbers ==
  ASSUME NEW S, \A k \in Nat : (\A n \in 0..k - 1 : n \in S) => k \in S
  PROVE  Nat \subseteq S
<1> SUFFICES ASSUME ~ (Nat \subseteq S)
             PROVE  FALSE
  OBVIOUS
<1> DEFINE T == Nat \ S
<1>1. PICK k \in T : \A n \in T : k <= n
  <2> T \subseteq Nat /\ T # {}
    OBVIOUS
  <2> HIDE DEF T
  <2> QED BY FirstPlace
<1>2. \A n \in 0..k - 1 : n \in S
  BY <1>1
<1> QED BY <1>1, <1>2

\* FiniteSetsExt!Min.
LEMMA MinIs ==
  ASSUME NEW S, S \subseteq Int, NEW k \in S, \A n \in S : k <= n
  PROVE  Min(S) = k
<1>1. \A n \in S : (\A y \in S : n <= y) => n = k
  OBVIOUS
<1> QED BY <1>1 DEF Min

LEMMA FirstOf ==
  ASSUME NEW S, S \subseteq Nat, S # {}
  PROVE  Min(S) \in S /\ \A n \in S : Min(S) <= n
<1>1. PICK k \in S : \A n \in S : k <= n
  BY FirstPlace
<1>2. S \subseteq Int
  OBVIOUS
<1>3. Min(S) = k
  BY <1>1, <1>2, MinIs
<1> QED BY <1>1, <1>3

-----------------------------------------------------------------------------
(* The numbers of the calculator. *)

\* FiniteSetsExt!Max.
LEMMA LastOf ==
  ASSUME NEW S, S \subseteq Nat, S # {}, NEW m \in Nat, \A n \in S : n <= m
  PROVE  Max(S) \in S /\ \A n \in S : n <= Max(S)
<1> DEFINE T == {m - n : n \in S}
<1>1. T \subseteq Nat /\ T # {}
  <2>1. PICK x \in S : TRUE
    OBVIOUS
  <2>2. m - x \in T
    OBVIOUS
  <2>3. ASSUME NEW k \in T
        PROVE  k \in Nat
    <3>1. PICK n \in S : k = m - n
      OBVIOUS
    <3>2. n \in Nat /\ n <= m
      OBVIOUS
    <3> HIDE DEF T
    <3> QED BY <3>1, <3>2
  <2> HIDE DEF T
  <2> QED BY <2>2, <2>3
<1>2. PICK k \in T : \A n \in T : k <= n
  <2> HIDE DEF T
  <2> QED BY <1>1, FirstPlace
<1>3. PICK x \in S : k = m - x
  BY <1>2
<1>4. \A n \in S : x >= n
  <2> TAKE n \in S
  <2>1. m - n \in T
    OBVIOUS
  <2>2. k <= m - n
    BY <1>2, <2>1
  <2> QED BY <1>3, <2>2
<1>5. Max(S) \in S /\ \A n \in S : Max(S) >= n
  BY <1>4, Zenon DEF Max
<1> QED BY <1>5

\* The digits, and that each has a number.
LEMMA NumeralsAre ==
  /\ DOMAIN Value = {"0", "1", "2", "3", "4", "5", "6", "7", "8", "9"}
  /\ \A c \in DOMAIN Value : Value[c] \in Nat
<1>1. DOMAIN Value = Range(Numerals)
  BY Zenon DEF Value
<1>2. DOMAIN Numerals = 1..10
  BY DEF Numerals
<1>3. Range(Numerals) = {Numerals[n] : n \in 1..10}
  BY <1>2, Zenon DEF Range
<1>4. Range(Numerals) = {"0", "1", "2", "3", "4", "5", "6", "7", "8", "9"}
  BY <1>3 DEF Numerals
<1>5. ASSUME NEW c \in DOMAIN Value
      PROVE  Value[c] \in Nat
  <2>1. \E n \in 1..10 : Numerals[n] = c
    BY <1>1, <1>3, Zenon
  <2>2. (CHOOSE n \in 1..10 : Numerals[n] = c) \in 1..10
    BY <2>1, Zenon
  <2>3. Value[c] = (CHOOSE n \in 1..10 : Numerals[n] = c) - 1
    BY <1>1, Zenon DEF Value
  <2> DEFINE n == CHOOSE n \in 1..10 : Numerals[n] = c
  <2>4. n \in 1..10 /\ Value[c] = n - 1
    BY <2>2, <2>3
  <2> HIDE DEF n
  <2> QED BY <2>4
<1> QED BY <1>1, <1>4, <1>5

\* A fraction in its lowest terms.
LEMMA FractionIs ==
  ASSUME NEW n \in Int, NEW d \in Int \ {0}
  PROVE  Fraction(n, d) \in Fractions
<1> DEFINE m == Abs(d)
           G == {k \in 1..m : n % k = 0 /\ d % k = 0}
           g == Max(G)
           sign == IF d < 0 THEN -1 ELSE 1
<1>1. m \in Nat \ {0}
  BY DEF Abs
<1>2. 1 \in G
  BY <1>1
<1>3. G \subseteq Nat /\ \A k \in G : k <= m
  BY <1>1
<1>4. g \in G
  <2> HIDE DEF G
  <2> QED BY <1>1, <1>2, <1>3, LastOf
<1>5. g \in 1..m /\ d % g = 0
  BY <1>4
<1>6. Fraction(n, d) = <<sign * (n \div g), m \div g>>
  BY Zenon DEF Fraction
<1>7. g \in Nat \ {0} /\ g <= m /\ sign \in Int
  BY <1>1, <1>5
<1> HIDE DEF g, sign, m
<1>8. sign * (n \div g) \in Int
  <2>1. n \div g \in Int
    BY <1>7
  <2> QED BY <2>1, <1>7
<1>9. m \div g \in Nat \ {0}
  BY <1>1, <1>7
<1> QED BY <1>6, <1>8, <1>9 DEF Fractions

\* Numerator and denominator.
LEMMA FractionParts ==
  ASSUME NEW v \in Fractions
  PROVE  /\ v[1] \in Int /\ v[2] \in Nat \ {0}
         /\ v # None
         /\ <<-v[1], v[2]>> \in Fractions
<1>1. v \in Int \X (Nat \ {0})
  BY Zenon DEF Fractions
<1>2. v[1] \in Int /\ v[2] \in Nat \ {0} /\ v = <<v[1], v[2]>>
  BY <1>1
<1>3. v # None
  BY <1>2 DEF None
<1>4. -v[1] \in Int
  BY <1>2
<1>5. <<-v[1], v[2]>> \in Int \X (Nat \ {0})
  BY <1>2, <1>4, Zenon
<1> QED BY <1>2, <1>3, <1>5, Zenon DEF Fractions

LEMMA NotZero ==
  ASSUME NEW a \in Int \ {0}, NEW b \in Int \ {0}
  PROVE  a * b \in Int \ {0}
OBVIOUS

\* An operation on fractions gives one, unless it divides by zero.
LEMMA ApplyIs ==
  ASSUME NEW op \in Operators, NEW v \in Fractions, NEW w \in Fractions,
         op = "/" => w[1] # 0
  PROVE  Apply(op, v, w) \in Fractions
<1>1. /\ v[1] \in Int /\ v[2] \in Int \ {0}
      /\ w[1] \in Int /\ w[2] \in Int \ {0}
  <2>1. v[1] \in Int /\ v[2] \in Nat \ {0} /\ w[1] \in Int /\ w[2] \in Nat \ {0}
    BY FractionParts, Zenon
  <2> QED BY <2>1
<1>2. v[2] * w[2] \in Int \ {0}
  BY <1>1, NotZero
<1>3. /\ v[1] * w[2] + w[1] * v[2] \in Int /\ v[1] * w[2] - w[1] * v[2] \in Int
      /\ v[1] * w[1] \in Int /\ v[1] * w[2] \in Int
  BY <1>1
<1>4. CASE op = "+"
  <2>1. Apply(op, v, w) = Fraction(v[1] * w[2] + w[1] * v[2], v[2] * w[2])
    BY <1>4 DEF Apply
  <2> QED BY <2>1, <1>2, <1>3, FractionIs
<1>5. CASE op = "-"
  <2>1. Apply(op, v, w) = Fraction(v[1] * w[2] - w[1] * v[2], v[2] * w[2])
    BY <1>5 DEF Apply
  <2> QED BY <2>1, <1>2, <1>3, FractionIs
<1>6. CASE op = "*"
  <2>1. Apply(op, v, w) = Fraction(v[1] * w[1], v[2] * w[2])
    BY <1>6 DEF Apply
  <2> QED BY <2>1, <1>2, <1>3, FractionIs
<1>7. CASE op = "/"
  <2>1. Apply(op, v, w) = Fraction(v[1] * w[2], v[2] * w[1])
    BY <1>7 DEF Apply
  <2>2. v[2] * w[1] \in Int \ {0}
    BY <1>1, <1>7, NotZero
  <2> QED BY <2>1, <2>2, <1>3, FractionIs
<1> QED BY <1>4, <1>5, <1>6, <1>7 DEF Operators

\* The digits of a number, read one after the other.
Reads(digits, whole, f, n) ==
  IF n = 0 THEN <<0, 1>>
  ELSE <<10 * f[n - 1][1] + Value[digits[n]],
         f[n - 1][2] * (IF n > whole THEN 10 ELSE 1)>>

\* The recursive function of Decimal exists: by induction on the digits read.
LEMMA ReadExists ==
  ASSUME NEW digits, NEW whole, NEW N \in Nat
  PROVE  \E f : f = [n \in 0..N |-> Reads(digits, whole, f, n)]
<1> DEFINE Done == {m \in Nat : \E f : f = [n \in 0..m |-> Reads(digits, whole, f, n)]}
<1>1. ASSUME NEW k \in Nat, \A n \in 0..k - 1 : n \in Done
      PROVE  k \in Done
  <2>1. \E f : k > 0 => f = [n \in 0..k - 1 |-> Reads(digits, whole, f, n)]
    <3>1. CASE k = 0
      BY <3>1
    <3>2. CASE k # 0
      <4>1. k - 1 \in 0..k - 1
        BY <3>2
      <4>2. k - 1 \in Done
        BY <1>1, <4>1, Zenon
      <4> QED BY <4>2, Zenon
    <3> QED BY <3>1, <3>2
  <2>2. PICK f : k > 0 => f = [n \in 0..k - 1 |-> Reads(digits, whole, f, n)]
    BY <2>1
  <2> DEFINE g == [n \in 0..k |-> Reads(digits, whole, f, n)]
  <2>3. \A n \in 0..k : g[n] = Reads(digits, whole, f, n)
    OBVIOUS
  <2>4. g = [n \in 0..k |-> g[n]]
    OBVIOUS
  <2> HIDE DEF g
  <2>5. ASSUME NEW n \in 0..k
        PROVE  g[n] = Reads(digits, whole, g, n)
    <3>1. CASE n = 0
      BY <2>3, <3>1, Zenon DEF Reads
    <3>2. CASE n # 0
      <4>1. n - 1 \in 0..k - 1 /\ n - 1 \in 0..k /\ k > 0
        BY <3>2
      <4>2. f[n - 1] = Reads(digits, whole, f, n - 1)
        BY <2>2, <4>1, Zenon
      <4>3. g[n - 1] = f[n - 1]
        BY <2>3, <4>1, <4>2, Zenon
      <4> QED BY <2>3, <4>3, Zenon DEF Reads
    <3> QED BY <3>1, <3>2
  <2>6. g = [n \in 0..k |-> Reads(digits, whole, g, n)]
    BY <2>4, <2>5, Zenon
  <2> QED BY <2>6, Zenon
<1> HIDE DEF Done
<1>2. Nat \subseteq Done
  BY <1>1, AllNumbers
<1> QED BY <1>2, Zenon DEF Done

\* A number read is a fraction.
LEMMA DecimalIs ==
  ASSUME NEW digits, NEW whole \in Nat, Len(digits) \in Nat,
         \A i \in 1..Len(digits) : digits[i] \in DOMAIN Value
  PROVE  Decimal(digits, whole) \in Fractions
<1> DEFINE N == Len(digits)
<1>1. \E f : f = [n \in 0..N |-> Reads(digits, whole, f, n)]
  BY ReadExists
<1>2. PICK f : /\ f = [n \in 0..N |-> Reads(digits, whole, f, n)]
               /\ Decimal(digits, whole) = Fraction(f[N][1], f[N][2])
  BY <1>1, Zenon DEF Decimal, Reads
<1> DEFINE Good == {m \in Nat : m <= N => f[m][1] \in Nat /\ f[m][2] \in Nat \ {0}}
<1>3. ASSUME NEW k \in Nat, \A n \in 0..k - 1 : n \in Good
      PROVE  k \in Good
  <2> SUFFICES ASSUME k <= N
               PROVE  f[k][1] \in Nat /\ f[k][2] \in Nat \ {0}
    OBVIOUS
  <2>1. k \in 0..N
    OBVIOUS
  <2>2. f[k] = Reads(digits, whole, f, k)
    BY <1>2, <2>1, Zenon
  <2>3. CASE k = 0
    BY <2>2, <2>3 DEF Reads
  <2>4. CASE k # 0
    <3>1. k - 1 \in 0..k - 1 /\ k - 1 <= N /\ k \in 1..N
      BY <2>4
    <3>2. f[k - 1][1] \in Nat /\ f[k - 1][2] \in Nat \ {0}
      BY <1>3, <3>1, Zenon
    <3>3. Value[digits[k]] \in Nat
      BY <3>1, NumeralsAre
    <3>4. f[k] = <<10 * f[k - 1][1] + Value[digits[k]],
                   f[k - 1][2] * (IF k > whole THEN 10 ELSE 1)>>
      BY <2>2, <2>4, Zenon DEF Reads
    <3> DEFINE n == 10 * f[k - 1][1] + Value[digits[k]]
               d == f[k - 1][2] * (IF k > whole THEN 10 ELSE 1)
    <3>5. n \in Nat /\ d \in Nat \ {0}
      <4> DEFINE x == f[k - 1][1]
                 y == f[k - 1][2]
                 z == Value[digits[k]]
      <4>1. x \in Nat /\ y \in Nat \ {0} /\ z \in Nat
        BY <3>2, <3>3
      <4> HIDE DEF x, y, z
      <4>2. 10 * x + z \in Nat /\ y * 10 \in Nat \ {0} /\ y * 1 \in Nat \ {0}
        BY <4>1
      <4>3. n = 10 * x + z /\ (d = y * 10 \/ d = y * 1)
        BY Zenon DEF x, y, z
      <4> HIDE DEF n, d
      <4> QED BY <4>2, <4>3
    <3>6. f[k] = <<n, d>>
      BY <3>4
    <3> HIDE DEF n, d
    <3> QED BY <3>5, <3>6
  <2> QED BY <2>3, <2>4
<1> HIDE DEF Good
<1>4. Nat \subseteq Good
  BY <1>3, AllNumbers
<1>5. f[N][1] \in Int /\ f[N][2] \in Int \ {0}
  <2>1. N \in Good /\ N <= N
    BY <1>4
  <2>2. f[N][1] \in Nat /\ f[N][2] \in Nat \ {0}
    BY <2>1, Zenon DEF Good
  <2> QED BY <2>2
<1> QED BY <1>2, <1>5, FractionIs

-----------------------------------------------------------------------------
(* Spaces and numbers in a text. *)

\* Where the characters of a kind end, and that they end only there.
LEMMA PastIs ==
  ASSUME NEW s, Len(s) \in Nat, NEW i \in 0..Len(s), NEW chars
  PROVE  /\ Past(s, i, chars) \in i..Len(s)
         /\ \A j \in (i + 1)..Past(s, i, chars) : s[j] \in chars
         /\ Past(s, i, chars) < Len(s) => s[Past(s, i, chars) + 1] \notin chars
<1> DEFINE P == {j \in i..Len(s) : j = Len(s) \/ s[j + 1] \notin chars}
           p == Min(P)
<1>1. P \subseteq Nat /\ Len(s) \in P
  OBVIOUS
<1>2. p \in P /\ \A n \in P : p <= n
  <2> HIDE DEF P
  <2> QED BY <1>1, FirstOf
<1>3. Past(s, i, chars) = p
  BY DEF Past
<1>4. p \in i..Len(s) /\ (p < Len(s) => s[p + 1] \notin chars)
  BY <1>2
<1>5. ASSUME NEW j \in (i + 1)..p, s[j] \notin chars
      PROVE  FALSE
  <2>1. j - 1 \in i..Len(s) /\ (j - 1) + 1 = j
    BY <1>4
  <2>2. j - 1 \in P
    BY <2>1, <1>5
  <2>3. p <= j - 1
    BY <1>2, <2>2
  <2> HIDE DEF p
  <2> QED BY <1>4, <2>3
<1> QED BY <1>3, <1>4, <1>5

LEMMA PastSame ==
  ASSUME NEW s, Len(s) \in Nat, NEW i \in 0..Len(s), NEW chars, NEW p \in i..Len(s),
         \A j \in (i + 1)..p : s[j] \in chars, p < Len(s) => s[p + 1] \notin chars
  PROVE  Past(s, i, chars) = p
<1> DEFINE q == Past(s, i, chars)
<1>1. /\ q \in i..Len(s)
      /\ \A j \in (i + 1)..q : s[j] \in chars
      /\ q < Len(s) => s[q + 1] \notin chars
  BY PastIs, Zenon
<1> HIDE DEF q
<1>2. ~ (p < q)
  <2> SUFFICES ASSUME p < q
               PROVE  FALSE
    OBVIOUS
  <2>1. p + 1 \in (i + 1)..q /\ p < Len(s)
    BY <1>1
  <2> QED BY <1>1, <2>1
<1>3. ~ (q < p)
  <2> SUFFICES ASSUME q < p
               PROVE  FALSE
    OBVIOUS
  <2>1. q + 1 \in (i + 1)..p /\ q < Len(s)
    BY <1>1
  <2> QED BY <1>1, <2>1
<1>4. p = q
  BY <1>1, <1>2, <1>3
<1> QED BY <1>4 DEF q

\* Nothing but spaces behind the first a characters up to the b-th.
Blank(s, a, b) == \A j \in (a + 1)..b : s[j] = " "

\* ExprEval::Skip stops behind spaces, at something else or at the end.
LEMMA SkipIs ==
  ASSUME NEW s, Len(s) \in Nat, NEW i \in 0..Len(s)
  PROVE  /\ Skip(s, i) \in i..Len(s) /\ Blank(s, i, Skip(s, i))
         /\ Skip(s, i) < Len(s) => s[Skip(s, i) + 1] # " "
<1> DEFINE q == Past(s, i, {" "})
<1>1. /\ q \in i..Len(s)
      /\ \A j \in (i + 1)..q : s[j] \in {" "}
      /\ q < Len(s) => s[q + 1] \notin {" "}
  BY PastIs, Zenon
<1>2. Skip(s, i) = q
  BY Zenon DEF Skip
<1> HIDE DEF q
<1> QED BY <1>1, <1>2 DEF Blank

\* Nothing else is such a place.
LEMMA SkipSame ==
  ASSUME NEW s, Len(s) \in Nat, NEW i \in 0..Len(s), NEW p \in i..Len(s),
         Blank(s, i, p), p < Len(s) => s[p + 1] # " "
  PROVE  Skip(s, i) = p
<1>1. /\ \A j \in (i + 1)..p : s[j] \in {" "}
      /\ p < Len(s) => s[p + 1] \notin {" "}
  BY DEF Blank
<1>2. Past(s, i, {" "}) = p
  BY <1>1, PastSame
<1> QED BY <1>2, Zenon DEF Skip

\* Spaces do not change what is skipped to.
LEMMA SkipOn ==
  ASSUME NEW s, Len(s) \in Nat, NEW i \in 0..Len(s), NEW p \in i..Len(s), Blank(s, i, p)
  PROVE  Skip(s, i) = Skip(s, p)
<1> DEFINE q == Skip(s, p)
<1>0. p \in 0..Len(s)
  OBVIOUS
<1>1. /\ q \in p..Len(s) /\ Blank(s, p, q)
      /\ q < Len(s) => s[q + 1] # " "
  BY <1>0, SkipIs, Zenon
<1>2. q \in i..Len(s) /\ Blank(s, i, q)
  <2>1. q \in p..Len(s) /\ Blank(s, p, q)
    BY <1>1, Zenon
  <2> HIDE DEF q
  <2>2. q \in i..Len(s)
    BY <2>1
  <2>3. ASSUME NEW j \in (i + 1)..q
        PROVE  s[j] = " "
    <3>1. j \in (i + 1)..p \/ j \in (p + 1)..q
      BY <2>1
    <3> QED BY <2>1, <3>1, Zenon DEF Blank
  <2> QED BY <2>2, <2>3, Zenon DEF Blank
<1> HIDE DEF q
<1>3. Skip(s, i) = q
  BY <1>1, <1>2, SkipSame
<1> QED BY <1>3 DEF q

\* std::stod: a number of the grammar if there are not two points.
LEMMA StodIs ==
  ASSUME NEW t, Len(t) \in Nat, \A i \in 1..Len(t) : t[i] \in NumberChars
  PROVE  /\ Stod(t) \in Fractions \union {None}
         /\ IsNumber(t) => Stod(t) = NumberValue(t) /\ NumberValue(t) \in Fractions
         /\ Stod(t) # None /\ (\A i, j \in 1..Len(t) : t[i] = "." /\ t[j] = "." => i = j)
              => IsNumber(t)
<1> DEFINE L == Len(t)
           points == {i \in 1..L : t[i] = "."}
           first == Min(points \union {L + 1})
           second == Min((points \ {first}) \union {L + 1})
           A == SubSeq(t, 1, first - 1)
           B == SubSeq(t, first + 1, second - 1)
           C == SubSeq(t, first + 1, L)
           D == DOMAIN Value
           Single == \A i, j \in 1..L : t[i] = "." /\ t[j] = "." => i = j
<1>1. /\ Stod(t) = IF A \o B = <<>> THEN None ELSE Decimal(A \o B, first - 1)
      /\ NumberValue(t) = Decimal(A \o C, first - 1)
  BY Zenon DEF Stod, NumberValue
<1>2. /\ first \in 1..L + 1 /\ \A i \in 1..(first - 1) : t[i] # "."
  <2>1. points \union {L + 1} \subseteq Nat /\ points \union {L + 1} # {}
    OBVIOUS
  <2>2. first \in points \union {L + 1} /\ \A n \in points \union {L + 1} : first <= n
    <3> HIDE DEF points
    <3> QED BY <2>1, FirstOf
  <2>3. first \in 1..L + 1
    BY <2>2
  <2>4. ASSUME NEW i \in 1..(first - 1), t[i] = "."
        PROVE  FALSE
    <3>1. i \in points /\ i < first
      BY <2>3, <2>4
    <3>2. first <= i
      BY <2>2, <3>1
    <3> HIDE DEF first
    <3> QED BY <2>3, <3>1, <3>2
  <2> QED BY <2>3, <2>4
<1>3. /\ second \in 1..L + 1 /\ \A i \in (first + 1)..(second - 1) : t[i] # "."
      /\ Single => second = L + 1
  <2> DEFINE S == (points \ {first}) \union {L + 1}
  <2>1. S \subseteq Nat /\ S # {}
    OBVIOUS
  <2>2. second \in S /\ \A n \in S : second <= n
    <3>1. second = Min(S)
      OBVIOUS
    <3>2. Min(S) \in S /\ \A n \in S : Min(S) <= n
      <4> HIDE DEF S
      <4> QED BY <2>1, FirstOf
    <3> QED BY <3>1, <3>2, Zenon
  <2> HIDE DEF second
  <2>3. second \in 1..L + 1
    BY <2>2
  <2>4. ASSUME NEW i \in (first + 1)..(second - 1), t[i] = "."
        PROVE  FALSE
    <3> HIDE DEF first
    <3>1. i \in points /\ i < second /\ i # first
      BY <1>2, <2>3, <2>4
    <3>2. second <= i
      BY <2>2, <3>1
    <3> QED BY <1>2, <2>3, <3>1, <3>2
  <2>5. ASSUME Single, second # L + 1
        PROVE  FALSE
    <3>1. second \in points /\ second # first
      BY <2>2, <2>5
    <3>2. first \in points \union {L + 1} /\ \A n \in points \union {L + 1} : first <= n
      <4>1. points \union {L + 1} \subseteq Nat /\ points \union {L + 1} # {}
        OBVIOUS
      <4> HIDE DEF points
      <4> QED BY <4>1, FirstOf
    <3> HIDE DEF first
    <3>3. first \in points
      <4>1. first <= second /\ second <= L
        BY <3>1, <3>2
      <4> QED BY <3>1, <3>2, <4>1, <1>2
    <3> QED BY <2>5, <3>1, <3>3
  <2> QED BY <2>3, <2>4, <2>5
<1> HIDE DEF first, second, Single
<1>4. /\ \A i \in 1..(first - 1) : t[i] \in D
      /\ \A i \in (first + 1)..(second - 1) : t[i] \in D
  BY <1>2, <1>3 DEF NumberChars
<1>5. /\ A \in Seq(D) /\ Len(A) = first - 1 /\ \A i \in 1..(first - 1) : A[i] = t[i]
  <2>1. /\ A \in Seq(D) /\ Len(A) = IF 1 <= first - 1 THEN (first - 1) - 1 + 1 ELSE 0
        /\ \A i \in 1..((first - 1) - 1 + 1) : A[i] = t[1 + i - 1]
    <3>1. 1 \in Int /\ first - 1 \in Int
      BY <1>2
    <3> QED BY <1>4, <3>1, SubSeqProperties
  <2> HIDE DEF A
  <2> QED BY <1>2, <2>1
<1>6. /\ B \in Seq(D)
      /\ Len(B) = IF first + 1 <= second - 1 THEN (second - 1) - (first + 1) + 1 ELSE 0
      /\ \A i \in 1..((second - 1) - (first + 1) + 1) : B[i] = t[(first + 1) + i - 1]
  <2>1. first + 1 \in Int /\ second - 1 \in Int
    BY <1>2, <1>3
  <2> QED BY <1>4, <2>1, SubSeqProperties
<1> HIDE DEF A, B, D
<1>7. /\ A \o B \in Seq(D) /\ Len(A \o B) = Len(A) + Len(B)
      /\ Len(A) \in Nat /\ Len(B) \in Nat /\ first - 1 \in Nat
  BY <1>2, <1>5, <1>6, ConcatProperties, LenProperties
<1>8. Decimal(A \o B, first - 1) \in Fractions
  <2>1. Len(A \o B) \in Nat /\ \A i \in 1..Len(A \o B) : (A \o B)[i] \in DOMAIN Value
    BY <1>7, ElementOfSeq DEF D
  <2> HIDE DEF L
  <2> QED BY <1>7, <2>1, DecimalIs
<1>9. ASSUME IsNumber(t)
      PROVE  Stod(t) = NumberValue(t) /\ NumberValue(t) \in Fractions
  <2>1. Single
    BY <1>9 DEF IsNumber, Single
  <2>2. second - 1 = L
    BY <1>3, <2>1
  <2>3. C = B
    BY <2>2 DEF B
  <2>4. PICK i \in 1..L : t[i] \in DOMAIN Value
    BY <1>9 DEF IsNumber
  <2>5. A \o B # <<>>
    <3>1. Len(A) > 0 \/ Len(B) > 0
      <4>1. i # first
        <5> SUFFICES ASSUME i = first
                     PROVE  FALSE
          OBVIOUS
        <5>1. t[first] = "."
          <6>1. first \in points \union {L + 1}
            <7>1. points \union {L + 1} \subseteq Nat /\ points \union {L + 1} # {}
              OBVIOUS
            <7> HIDE DEF points
            <7> QED BY <7>1, FirstOf DEF first
          <6> QED BY <6>1, <2>4
        <5> QED BY <5>1, <2>4, NumeralsAre
      <4> QED BY <4>1, <2>2, <1>2, <1>3, <1>5, <1>6
    <3>2. Len(A \o B) # 0
      BY <3>1, <1>7
    <3> QED BY <3>2, EmptySeq
  <2> QED BY <1>1, <1>8, <2>3, <2>5
<1>10. ASSUME Stod(t) # None, Single
       PROVE  IsNumber(t)
  <2>1. A \o B # <<>>
    BY <1>1, <1>10
  <2>2. Len(A) > 0 \/ Len(B) > 0
    <3>1. Len(A \o B) # 0
      BY <1>7, <2>1, EmptySeq
    <3> QED BY <3>1, <1>7
  <2>3. \E i \in 1..L : t[i] \in DOMAIN Value
    <3>1. CASE Len(A) > 0
      <4>1. 1 \in 1..(first - 1) /\ 1 \in 1..L
        BY <1>2, <1>5, <3>1
      <4> QED BY <1>4, <4>1, Zenon DEF D
    <3>2. CASE Len(B) > 0
      <4>1. first + 1 \in (first + 1)..(second - 1) /\ first + 1 \in 1..L
        BY <1>2, <1>3, <1>6, <3>2
      <4> QED BY <1>4, <4>1, Zenon DEF D
    <3> QED BY <2>2, <3>1, <3>2
  <2> QED BY <2>3, <1>10, Zenon DEF IsNumber, Single
<1> QED BY <1>1, <1>8, <1>9, <1>10 DEF Single

-----------------------------------------------------------------------------
(* The values of the parts of a text, by the grammar. *)

Parts(s) == (1..Len(s) + 1) \X (0..Len(s))

\* What a part means, if f is what the shorter ones mean.
Meaning(s, f, a, b) ==
  LET text == SubSeq(s, a, b)
      signs(ops) == {i \in a + 1..b - 1 : s[i] \in ops}
      factor == IF a > b THEN {}
                ELSE IF s[a] \in {" ", "+"} THEN f[<<a + 1, b>>].factor
                ELSE IF s[b] = " " THEN f[<<a, b - 1>>].factor
                ELSE IF s[a] = "-"
                THEN {<<-x[1], x[2]>> : x \in f[<<a + 1, b>>].factor}
                ELSE IF s[a] = "(" /\ s[b] = ")" THEN f[<<a + 1, b - 1>>].expr
                ELSE IF IsNumber(text) THEN {NumberValue(text)} ELSE {}
      term == factor \union
              UNION {Results(s[i], f[<<a, i - 1>>].term, f[<<i + 1, b>>].factor) :
                       i \in signs({"*", "/"})}
      expr == term \union
              UNION {Results(s[i], f[<<a, i - 1>>].expr, f[<<i + 1, b>>].term) :
                       i \in signs({"+", "-"})}
  IN  [expr |-> expr, term |-> term, factor |-> factor]

\* The same of one value.
InFactor(s, f, a, b, v) ==
  /\ a <= b
  /\ IF s[a] \in {" ", "+"} THEN v \in f[<<a + 1, b>>].factor
     ELSE IF s[b] = " " THEN v \in f[<<a, b - 1>>].factor
     ELSE IF s[a] = "-" THEN \E x \in f[<<a + 1, b>>].factor : v = <<-x[1], x[2]>>
     ELSE IF s[a] = "(" /\ s[b] = ")" THEN v \in f[<<a + 1, b - 1>>].expr
     ELSE IsNumber(SubSeq(s, a, b)) /\ v = NumberValue(SubSeq(s, a, b))
InTerm(s, f, a, b, v) ==
  \/ InFactor(s, f, a, b, v)
  \/ \E i \in a + 1..b - 1 :
       /\ s[i] \in {"*", "/"}
       /\ \E x \in f[<<a, i - 1>>].term, y \in f[<<i + 1, b>>].factor :
            (s[i] # "/" \/ y[1] # 0) /\ v = Apply(s[i], x, y)
InExpr(s, f, a, b, v) ==
  \/ InTerm(s, f, a, b, v)
  \/ \E i \in a + 1..b - 1 :
       /\ s[i] \in {"+", "-"}
       /\ \E x \in f[<<a, i - 1>>].expr, y \in f[<<i + 1, b>>].term :
            (s[i] # "/" \/ y[1] # 0) /\ v = Apply(s[i], x, y)

LEMMA ResultsAre ==
  \A op, X, Y, v : v \in Results(op, X, Y) <=>
    \E x \in X, y \in Y : (op # "/" \/ y[1] # 0) /\ v = Apply(op, x, y)
BY DEF Results

\* Meaning without its sets: when it holds a value.
LEMMA MeaningIs ==
  ASSUME NEW s, Len(s) \in Nat, NEW a \in 1..Len(s) + 1, NEW b \in 0..Len(s), NEW f
  PROVE  LET m == Meaning(s, f, a, b)
         IN  /\ m = [expr |-> m.expr, term |-> m.term, factor |-> m.factor]
             /\ \A v : v \in m.factor <=> InFactor(s, f, a, b, v)
             /\ \A v : v \in m.term <=> InTerm(s, f, a, b, v)
             /\ \A v : v \in m.expr <=> InExpr(s, f, a, b, v)
<1> DEFINE text == SubSeq(s, a, b)
           muls == {i \in a + 1..b - 1 : s[i] \in {"*", "/"}}
           adds == {i \in a + 1..b - 1 : s[i] \in {"+", "-"}}
           mul(i) == Results(s[i], f[<<a, i - 1>>].term, f[<<i + 1, b>>].factor)
           add(i) == Results(s[i], f[<<a, i - 1>>].expr, f[<<i + 1, b>>].term)
           factor == IF a > b THEN {}
                     ELSE IF s[a] \in {" ", "+"} THEN f[<<a + 1, b>>].factor
                     ELSE IF s[b] = " " THEN f[<<a, b - 1>>].factor
                     ELSE IF s[a] = "-"
                     THEN {<<-x[1], x[2]>> : x \in f[<<a + 1, b>>].factor}
                     ELSE IF s[a] = "(" /\ s[b] = ")" THEN f[<<a + 1, b - 1>>].expr
                     ELSE IF IsNumber(text) THEN {NumberValue(text)} ELSE {}
           products == UNION {mul(i) : i \in muls}
           sums == UNION {add(i) : i \in adds}
           m == Meaning(s, f, a, b)
           term == factor \union products
           expr == term \union sums
<1>1. m = [expr |-> expr, term |-> term, factor |-> factor]
  BY Zenon DEF Meaning
<1>2. \A v : v \in factor <=> InFactor(s, f, a, b, v)
  <2> TAKE v
  <2> HIDE DEF text
  <2>1. CASE a > b
    <3>1. ~ (a <= b)
      BY <2>1
    <3>2. factor = {}
      BY <2>1, Zenon
    <3> HIDE DEF factor
    <3> QED BY <3>1, <3>2, Zenon DEF InFactor
  <2>2. CASE a <= b
    <3>1. ~ (a > b)
      BY <2>2
    <3>2. CASE s[a] \in {" ", "+"}
      BY <3>1, <3>2, <2>2, Zenon DEF InFactor
    <3>3. CASE ~ (s[a] \in {" ", "+"}) /\ s[b] = " "
      BY <3>1, <3>3, <2>2, Zenon DEF InFactor
    <3>4. CASE ~ (s[a] \in {" ", "+"}) /\ ~ (s[b] = " ") /\ s[a] = "-"
      <4>1. factor = {<<-x[1], x[2]>> : x \in f[<<a + 1, b>>].factor}
        BY <3>1, <3>4, Zenon
      <4>2. InFactor(s, f, a, b, v) <=> \E x \in f[<<a + 1, b>>].factor : v = <<-x[1], x[2]>>
        BY <2>2, <3>4, Zenon DEF InFactor
      <4> HIDE DEF factor
      <4> QED BY <4>1, <4>2, Zenon
    <3>5. CASE ~ (s[a] \in {" ", "+"}) /\ ~ (s[b] = " ") /\ ~ (s[a] = "-")
      <4>1. CASE s[a] = "(" /\ s[b] = ")"
        BY <3>1, <3>5, <2>2, <4>1, Zenon DEF InFactor
      <4>2. CASE ~ (s[a] = "(" /\ s[b] = ")")
        <5>1. factor = IF IsNumber(text) THEN {NumberValue(text)} ELSE {}
          BY <3>1, <3>5, <4>2, Zenon
        <5>2. InFactor(s, f, a, b, v) <=> IsNumber(text) /\ v = NumberValue(text)
          BY <2>2, <3>5, <4>2, Zenon DEF InFactor, text
        <5> HIDE DEF factor
        <5> QED BY <5>1, <5>2, Zenon
      <4> QED BY <4>1, <4>2, Zenon
    <3> QED BY <3>2, <3>3, <3>4, <3>5, Zenon
  <2>3. a > b \/ a <= b
    OBVIOUS
  <2> QED BY <2>1, <2>2, <2>3, Zenon
<1>3. \A v : v \in products <=>
              \E i \in a + 1..b - 1 :
                /\ s[i] \in {"*", "/"}
                /\ \E x \in f[<<a, i - 1>>].term, y \in f[<<i + 1, b>>].factor :
                     (s[i] # "/" \/ y[1] # 0) /\ v = Apply(s[i], x, y)
  <2>1. \A v : v \in products <=> \E i \in muls : v \in mul(i)
    <3> HIDE DEF muls, mul
    <3> QED BY Zenon
  <2>2. ASSUME NEW i, NEW v
        PROVE  v \in mul(i) <=>
                \E x \in f[<<a, i - 1>>].term, y \in f[<<i + 1, b>>].factor :
                  (s[i] # "/" \/ y[1] # 0) /\ v = Apply(s[i], x, y)
    <3> DEFINE op == s[i]
               X == f[<<a, i - 1>>].term
               Y == f[<<i + 1, b>>].factor
    <3> HIDE DEF op, X, Y
    <3>1. v \in Results(op, X, Y) <=>
            \E x \in X, y \in Y : (op # "/" \/ y[1] # 0) /\ v = Apply(op, x, y)
      BY ResultsAre
    <3> QED BY <3>1 DEF op, X, Y
  <2>3. \A i : i \in muls <=> i \in a + 1..b - 1 /\ s[i] \in {"*", "/"}
    OBVIOUS
  <2> DEFINE R == a + 1..b - 1
             O == {"*", "/"}
             Q(i, v) == \E x \in f[<<a, i - 1>>].term, y \in f[<<i + 1, b>>].factor :
                          (s[i] # "/" \/ y[1] # 0) /\ v = Apply(s[i], x, y)
  <2>4. \A i, v : v \in mul(i) <=> Q(i, v)
    BY <2>2
  <2>5. \A i : i \in muls <=> i \in R /\ s[i] \in O
    BY <2>3
  <2> HIDE DEF products, mul, muls, R, O, Q
  <2>6. \A v : v \in products <=> \E i \in R : s[i] \in O /\ Q(i, v)
    BY <2>1, <2>4, <2>5, Zenon
  <2> QED BY <2>6, Zenon DEF Q, R, O
<1>4. \A v : v \in sums <=>
              \E i \in a + 1..b - 1 :
                /\ s[i] \in {"+", "-"}
                /\ \E x \in f[<<a, i - 1>>].expr, y \in f[<<i + 1, b>>].term :
                     (s[i] # "/" \/ y[1] # 0) /\ v = Apply(s[i], x, y)
  <2>1. \A v : v \in sums <=> \E i \in adds : v \in add(i)
    <3> HIDE DEF adds, add
    <3> QED BY Zenon
  <2>2. ASSUME NEW i, NEW v
        PROVE  v \in add(i) <=>
                \E x \in f[<<a, i - 1>>].expr, y \in f[<<i + 1, b>>].term :
                  (s[i] # "/" \/ y[1] # 0) /\ v = Apply(s[i], x, y)
    <3> DEFINE op == s[i]
               X == f[<<a, i - 1>>].expr
               Y == f[<<i + 1, b>>].term
    <3> HIDE DEF op, X, Y
    <3>1. v \in Results(op, X, Y) <=>
            \E x \in X, y \in Y : (op # "/" \/ y[1] # 0) /\ v = Apply(op, x, y)
      BY ResultsAre
    <3> QED BY <3>1 DEF op, X, Y
  <2>3. \A i : i \in adds <=> i \in a + 1..b - 1 /\ s[i] \in {"+", "-"}
    OBVIOUS
  <2> DEFINE R == a + 1..b - 1
             O == {"+", "-"}
             Q(i, v) == \E x \in f[<<a, i - 1>>].expr, y \in f[<<i + 1, b>>].term :
                          (s[i] # "/" \/ y[1] # 0) /\ v = Apply(s[i], x, y)
  <2>4. \A i, v : v \in add(i) <=> Q(i, v)
    BY <2>2
  <2>5. \A i : i \in adds <=> i \in R /\ s[i] \in O
    BY <2>3
  <2> HIDE DEF sums, add, adds, R, O, Q
  <2>6. \A v : v \in sums <=> \E i \in R : s[i] \in O /\ Q(i, v)
    BY <2>1, <2>4, <2>5, Zenon
  <2> QED BY <2>6, Zenon DEF Q, R, O
<1> HIDE DEF factor, products, sums, m
<1>5. m.expr = expr /\ m.term = term /\ m.factor = factor
  BY <1>1, Zenon
<1>6. \A v : v \in term <=> InTerm(s, f, a, b, v)
  BY <1>2, <1>3, Zenon DEF InTerm
<1>7. \A v : v \in expr <=> InExpr(s, f, a, b, v)
  BY <1>6, <1>4, Zenon DEF InExpr
<1> HIDE DEF term, expr
<1>8. /\ m = [expr |-> m.expr, term |-> m.term, factor |-> m.factor]
      /\ \A v : v \in m.factor <=> InFactor(s, f, a, b, v)
      /\ \A v : v \in m.term <=> InTerm(s, f, a, b, v)
      /\ \A v : v \in m.expr <=> InExpr(s, f, a, b, v)
  BY <1>1, <1>2, <1>5, <1>6, <1>7, Zenon
<1> QED BY <1>8 DEF m

\* What a part means depends on shorter parts only.
LEMMA MeaningLooksInside ==
  ASSUME NEW s, Len(s) \in Nat, NEW a \in 1..Len(s) + 1, NEW b \in 0..Len(s),
         NEW f, NEW g,
         \A c \in 1..Len(s) + 1, d \in 0..Len(s) :
           a <= b /\ d - c < b - a => f[<<c, d>>] = g[<<c, d>>]
  PROVE  Meaning(s, f, a, b) = Meaning(s, g, a, b)
<1>1. ASSUME a <= b
      PROVE  /\ f[<<a + 1, b>>] = g[<<a + 1, b>>]
             /\ f[<<a, b - 1>>] = g[<<a, b - 1>>]
             /\ f[<<a + 1, b - 1>>] = g[<<a + 1, b - 1>>]
  <2>1. /\ a + 1 \in 1..Len(s) + 1 /\ b - 1 \in 0..Len(s)
        /\ b - (a + 1) < b - a /\ (b - 1) - a < b - a /\ (b - 1) - (a + 1) < b - a
    BY <1>1
  <2> QED BY <1>1, <2>1
<1>2. ASSUME NEW i \in a + 1..b - 1
      PROVE  f[<<a, i - 1>>] = g[<<a, i - 1>>] /\ f[<<i + 1, b>>] = g[<<i + 1, b>>]
  <2>1. /\ i - 1 \in 0..Len(s) /\ i + 1 \in 1..Len(s) + 1 /\ a <= b
        /\ (i - 1) - a < b - a /\ b - (i + 1) < b - a
    OBVIOUS
  <2> QED BY <2>1
<1>3. \A v : InFactor(s, f, a, b, v) <=> InFactor(s, g, a, b, v)
  BY <1>1, Zenon DEF InFactor
<1>4. \A v : InTerm(s, f, a, b, v) <=> InTerm(s, g, a, b, v)
  BY <1>2, <1>3, Zenon DEF InTerm
<1>5. \A v : InExpr(s, f, a, b, v) <=> InExpr(s, g, a, b, v)
  BY <1>2, <1>4, Zenon DEF InExpr
<1> DEFINE m == Meaning(s, f, a, b)
           n == Meaning(s, g, a, b)
<1>6. /\ m = [expr |-> m.expr, term |-> m.term, factor |-> m.factor]
      /\ \A v : v \in m.factor <=> InFactor(s, f, a, b, v)
      /\ \A v : v \in m.term <=> InTerm(s, f, a, b, v)
      /\ \A v : v \in m.expr <=> InExpr(s, f, a, b, v)
  BY MeaningIs, Zenon
<1>7. /\ n = [expr |-> n.expr, term |-> n.term, factor |-> n.factor]
      /\ \A v : v \in n.factor <=> InFactor(s, g, a, b, v)
      /\ \A v : v \in n.term <=> InTerm(s, g, a, b, v)
      /\ \A v : v \in n.expr <=> InExpr(s, g, a, b, v)
  BY MeaningIs, Zenon
<1> HIDE DEF m, n
<1>8. \A v : /\ v \in m.factor <=> v \in n.factor
             /\ v \in m.term <=> v \in n.term
             /\ v \in m.expr <=> v \in n.expr
  BY <1>3, <1>4, <1>5, <1>6, <1>7, Zenon
<1>9. m.factor = n.factor /\ m.term = n.term /\ m.expr = n.expr
  BY <1>8
<1>10. m = n
  BY <1>6, <1>7, <1>9, Zenon
<1> QED BY <1>10, Zenon DEF m, n

\* The function that gives each part of a text its values.
Values(s, f) == f = [part \in Parts(s) |-> Meaning(s, f, part[1], part[2])]

\* So the recursive function of ExprValues exists.
LEMMA ValuesExist ==
  ASSUME NEW s, Len(s) \in Nat
  PROVE  \E f : Values(s, f)
<1> DEFINE L == Len(s)
           Short(n) == {p \in Parts(s) : p[2] + 1 - p[1] <= n}
           Done == {n \in Nat : \E f : f = [p \in Short(n) |-> Meaning(s, f, p[1], p[2])]}
<1>0. \A p \in Parts(s) : p[1] \in 1..L + 1 /\ p[2] \in 0..L /\ p = <<p[1], p[2]>>
  BY DEF Parts
<1>1. ASSUME NEW k \in Nat, \A n \in 0..k - 1 : n \in Done
      PROVE  k \in Done
  <2>1. \E f : k > 0 => f = [p \in Short(k - 1) |-> Meaning(s, f, p[1], p[2])]
    <3>1. CASE k = 0
      BY <3>1
    <3>2. CASE k # 0
      <4>1. k - 1 \in 0..k - 1
        BY <3>2
      <4>2. k - 1 \in Done
        BY <1>1, <4>1, Zenon
      <4> QED BY <4>2, Zenon
    <3> QED BY <3>1, <3>2
  <2>2. PICK f : k > 0 => f = [p \in Short(k - 1) |-> Meaning(s, f, p[1], p[2])]
    BY <2>1
  <2> DEFINE g == [p \in Short(k) |-> Meaning(s, f, p[1], p[2])]
  <2>3. \A p \in Short(k) : g[p] = Meaning(s, f, p[1], p[2])
    OBVIOUS
  <2>4. g = [p \in Short(k) |-> g[p]]
    OBVIOUS
  <2> HIDE DEF g
  <2>5. ASSUME NEW p \in Short(k - 1), k > 0
        PROVE  g[p] = f[p]
    <3>1. p \in Short(k)
      <4>1. p \in Parts(s) /\ p[2] + 1 - p[1] <= k - 1
        OBVIOUS
      <4>2. p[2] + 1 - p[1] <= k
        BY <1>0, <4>1
      <4> QED BY <4>1, <4>2
    <3>2. f[p] = Meaning(s, f, p[1], p[2])
      BY <2>2, <2>5, Zenon
    <3> QED BY <2>3, <3>1, <3>2, Zenon
  <2>6. ASSUME NEW p \in Short(k)
        PROVE  Meaning(s, f, p[1], p[2]) = Meaning(s, g, p[1], p[2])
    <3> DEFINE a == p[1]
               b == p[2]
    <3>1. a \in 1..L + 1 /\ b \in 0..L /\ b + 1 - a <= k
      BY <1>0
    <3> HIDE DEF a, b
    <3>2. ASSUME NEW c \in 1..L + 1, NEW d \in 0..L, a <= b, d - c < b - a
          PROVE  f[<<c, d>>] = g[<<c, d>>]
      <4> DEFINE q == <<c, d>>
      <4>1. q \in Parts(s) /\ q[1] = c /\ q[2] = d
        BY DEF Parts
      <4>2. k > 0 /\ d + 1 - c <= k - 1
        BY <3>1, <3>2
      <4> HIDE DEF q
      <4>3. q \in Short(k - 1)
        BY <4>1, <4>2
      <4>4. g[q] = f[q]
        BY <2>5, <4>2, <4>3, Zenon
      <4> QED BY <4>4, Zenon DEF q
    <3>3. Meaning(s, f, a, b) = Meaning(s, g, a, b)
      BY <3>1, <3>2, MeaningLooksInside
    <3> QED BY <3>3, Zenon DEF a, b
  <2>7. \A p \in Short(k) : g[p] = Meaning(s, g, p[1], p[2])
    BY <2>3, <2>6, Zenon
  <2>8. g = [p \in Short(k) |-> Meaning(s, g, p[1], p[2])]
    BY <2>4, <2>7, Zenon
  <2> QED BY <2>8, Zenon
<1> HIDE DEF Done
<1>2. Nat \subseteq Done
  BY <1>1, AllNumbers
<1> USE DEF Done
<1>3. PICK f : f = [p \in Short(L) |-> Meaning(s, f, p[1], p[2])]
  BY <1>2
<1>4. Short(L) = Parts(s)
  <2>1. \A p \in Parts(s) : p[2] + 1 - p[1] <= L
    BY <1>0
  <2> QED BY <2>1
<1> QED BY <1>3, <1>4, Zenon DEF Values

LEMMA ExprValuesIs ==
  ASSUME NEW s, Len(s) \in Nat
  PROVE  \E f : Values(s, f) /\ ExprValues(s) = f[<<1, Len(s)>>].expr
<1>1. \E f : f = [part \in Parts(s) |-> Meaning(s, f, part[1], part[2])]
  BY ValuesExist, Zenon DEF Values
<1> QED BY <1>1, Zenon DEF ExprValues, Values, Meaning, Parts

\* The values of a part, by the grammar.
LEMMA ValuesAre ==
  ASSUME NEW s, Len(s) \in Nat, NEW f, Values(s, f),
         NEW a \in 1..Len(s) + 1, NEW b \in 0..Len(s)
  PROVE  /\ \A v : v \in f[<<a, b>>].factor <=> InFactor(s, f, a, b, v)
         /\ \A v : v \in f[<<a, b>>].term <=> InTerm(s, f, a, b, v)
         /\ \A v : v \in f[<<a, b>>].expr <=> InExpr(s, f, a, b, v)
<1> DEFINE p == <<a, b>>
           m == Meaning(s, f, a, b)
<1>1. p \in Parts(s) /\ p[1] = a /\ p[2] = b
  BY DEF Parts
<1> HIDE DEF p
<1>2. f[p] = Meaning(s, f, p[1], p[2])
  BY <1>1, Zenon DEF Values
<1>3. f[p] = m
  BY <1>1, <1>2, Zenon
<1>4. /\ \A v : v \in m.factor <=> InFactor(s, f, a, b, v)
      /\ \A v : v \in m.term <=> InTerm(s, f, a, b, v)
      /\ \A v : v \in m.expr <=> InExpr(s, f, a, b, v)
  BY MeaningIs, Zenon
<1> HIDE DEF m
<1> QED BY <1>3, <1>4, Zenon DEF p

\* The characters of a part.
LEMMA PartIs ==
  ASSUME NEW s, Len(s) \in Nat, NEW a \in 1..Len(s) + 1, NEW b \in 0..Len(s)
  PROVE  LET t == SubSeq(s, a, b)
         IN  /\ Len(t) \in Nat /\ Len(t) = IF a <= b THEN b - a + 1 ELSE 0
             /\ \A i \in 1..Len(t) : t[i] = s[a + i - 1]
<1> DEFINE S == {s[i] : i \in 1..Len(s)}
           t == SubSeq(s, a, b)
<1>1. \A i \in a..b : s[i] \in S
  <2> TAKE i \in a..b
  <2>1. i \in 1..Len(s)
    OBVIOUS
  <2> QED BY <2>1, Zenon
<1>2. /\ Len(t) = IF a <= b THEN b - a + 1 ELSE 0
      /\ \A i \in 1..b - a + 1 : t[i] = s[a + i - 1]
  <2>1. a \in Int /\ b \in Int
    OBVIOUS
  <2> HIDE DEF S
  <2> QED BY <1>1, <2>1, SubSeqProperties
<1> HIDE DEF t
<1>3. Len(t) \in Nat /\ \A i \in 1..Len(t) : t[i] = s[a + i - 1]
  BY <1>2
<1> QED BY <1>2, <1>3 DEF t

\* The values of a part are fractions: by induction on its length.
LEMMA ValuesTyped ==
  ASSUME NEW s, Len(s) \in Nat, NEW f, Values(s, f),
         NEW a \in 1..Len(s) + 1, NEW b \in 0..Len(s)
  PROVE  /\ \A v \in f[<<a, b>>].factor : v \in Fractions
         /\ \A v \in f[<<a, b>>].term : v \in Fractions
         /\ \A v \in f[<<a, b>>].expr : v \in Fractions
<1> DEFINE Fine(c, d) == /\ \A v \in f[<<c, d>>].factor : v \in Fractions
                         /\ \A v \in f[<<c, d>>].term : v \in Fractions
                         /\ \A v \in f[<<c, d>>].expr : v \in Fractions
           Good == {n \in Nat : \A c \in 1..Len(s) + 1, d \in 0..Len(s) :
                                  d + 1 - c <= n => Fine(c, d)}
<1>1. ASSUME NEW k \in Nat, \A n \in 0..k - 1 : n \in Good
      PROVE  k \in Good
  <2> SUFFICES ASSUME NEW c \in 1..Len(s) + 1, NEW d \in 0..Len(s), d + 1 - c <= k
               PROVE  Fine(c, d)
    OBVIOUS
  <2>0. ASSUME NEW x \in 1..Len(s) + 1, NEW y \in 0..Len(s), c <= d, y - x < d - c
        PROVE  Fine(x, y)
    <3>1. k - 1 \in 0..k - 1 /\ y + 1 - x <= k - 1
      BY <2>0
    <3>2. k - 1 \in Good
      BY <1>1, <3>1, Zenon
    <3> HIDE DEF Fine
    <3> QED BY <3>1, <3>2
  <2> HIDE DEF Good
  <2>1. ASSUME NEW v, InFactor(s, f, c, d, v)
        PROVE  v \in Fractions
    <3>1. c <= d
      BY <2>1, Zenon DEF InFactor
    <3>2. /\ c + 1 \in 1..Len(s) + 1 /\ d - 1 \in 0..Len(s)
          /\ d - (c + 1) < d - c /\ (d - 1) - c < d - c /\ (d - 1) - (c + 1) < d - c
      BY <3>1
    <3>3. Fine(c + 1, d) /\ Fine(c, d - 1) /\ Fine(c + 1, d - 1)
      <4> HIDE DEF Fine
      <4> QED BY <2>0, <3>1, <3>2
    <3>4. CASE v \in f[<<c + 1, d>>].factor
      BY <3>3, <3>4, Zenon
    <3>5. CASE v \in f[<<c, d - 1>>].factor
      BY <3>3, <3>5, Zenon
    <3>6. CASE v \in f[<<c + 1, d - 1>>].expr
      BY <3>3, <3>6, Zenon
    <3>7. CASE \E x \in f[<<c + 1, d>>].factor : v = <<-x[1], x[2]>>
      <4>1. PICK x \in f[<<c + 1, d>>].factor : v = <<-x[1], x[2]>>
        BY <3>7
      <4>2. x \in Fractions
        BY <3>3, Zenon
      <4> QED BY <4>1, <4>2, FractionParts
    <3>8. CASE IsNumber(SubSeq(s, c, d)) /\ v = NumberValue(SubSeq(s, c, d))
      <4> DEFINE t == SubSeq(s, c, d)
      <4>1. Len(t) \in Nat
        BY PartIs
      <4>2. \A i \in 1..Len(t) : t[i] \in NumberChars
        BY <3>8, Zenon DEF IsNumber
      <4>3. IsNumber(t) /\ v = NumberValue(t)
        BY <3>8
      <4> HIDE DEF t
      <4> QED BY <4>1, <4>2, <4>3, StodIs
    <3> QED BY <2>1, <3>4, <3>5, <3>6, <3>7, <3>8, Zenon DEF InFactor
  <2>2. ASSUME NEW i \in c + 1..d - 1, s[i] \in Operators,
               NEW x, NEW y, NEW v, s[i] # "/" \/ y[1] # 0, v = Apply(s[i], x, y),
               \/ x \in f[<<c, i - 1>>].term /\ y \in f[<<i + 1, d>>].factor
               \/ x \in f[<<c, i - 1>>].expr /\ y \in f[<<i + 1, d>>].term
        PROVE  v \in Fractions
    <3>1. /\ i - 1 \in 0..Len(s) /\ i + 1 \in 1..Len(s) + 1 /\ c <= d
          /\ (i - 1) - c < d - c /\ d - (i + 1) < d - c
      OBVIOUS
    <3>2. Fine(c, i - 1) /\ Fine(i + 1, d)
      <4> HIDE DEF Fine
      <4> QED BY <2>0, <3>1
    <3>3. x \in Fractions /\ y \in Fractions
      BY <2>2, <3>2, Zenon
    <3> QED BY <2>2, <3>3, ApplyIs
  <2>3. ASSUME NEW v, InTerm(s, f, c, d, v)
        PROVE  v \in Fractions
    <3>1. CASE InFactor(s, f, c, d, v)
      BY <2>1, <3>1, Zenon
    <3>2. CASE ~ InFactor(s, f, c, d, v)
      <4>1. PICK i \in c + 1..d - 1 :
              /\ s[i] \in {"*", "/"}
              /\ \E x \in f[<<c, i - 1>>].term, y \in f[<<i + 1, d>>].factor :
                   (s[i] # "/" \/ y[1] # 0) /\ v = Apply(s[i], x, y)
        BY <2>3, <3>2, Zenon DEF InTerm
      <4>2. s[i] \in Operators
        BY <4>1 DEF Operators
      <4> QED BY <2>2, <4>1, <4>2, Zenon
    <3> QED BY <3>1, <3>2, Zenon
  <2>4. ASSUME NEW v, InExpr(s, f, c, d, v)
        PROVE  v \in Fractions
    <3>1. CASE InTerm(s, f, c, d, v)
      BY <2>3, <3>1, Zenon
    <3>2. CASE ~ InTerm(s, f, c, d, v)
      <4>1. PICK i \in c + 1..d - 1 :
              /\ s[i] \in {"+", "-"}
              /\ \E x \in f[<<c, i - 1>>].expr, y \in f[<<i + 1, d>>].term :
                   (s[i] # "/" \/ y[1] # 0) /\ v = Apply(s[i], x, y)
        BY <2>4, <3>2, Zenon DEF InExpr
      <4>2. s[i] \in Operators
        BY <4>1 DEF Operators
      <4> QED BY <2>2, <4>1, <4>2, Zenon
    <3> QED BY <3>1, <3>2, Zenon
  <2> QED BY <2>1, <2>3, <2>4, ValuesAre, Zenon
<1> HIDE DEF Good
<1>2. Nat \subseteq Good
  BY <1>1, AllNumbers
<1>3. Len(s) + 1 \in Good /\ b + 1 - a <= Len(s) + 1
  BY <1>2
<1> QED BY <1>3, Zenon DEF Good

\* Spaces behind a part leave its values.
LEMMA SpaceBehind ==
  ASSUME NEW s, Len(s) \in Nat, NEW f, Values(s, f),
         NEW b \in 0..Len(s) - 1, Blank(s, b, b + 1), NEW a \in 1..Len(s) + 1
  PROVE  /\ \A v \in f[<<a, b>>].factor : v \in f[<<a, b + 1>>].factor
         /\ \A v \in f[<<a, b>>].term : v \in f[<<a, b + 1>>].term
         /\ \A v \in f[<<a, b>>].expr : v \in f[<<a, b + 1>>].expr
<1> DEFINE Good == {n \in Nat : \A c \in 1..Len(s) + 1 : b + 1 - c <= n =>
                      \A v \in f[<<c, b>>].factor : v \in f[<<c, b + 1>>].factor}
<1>0. b \in 0..Len(s) /\ b + 1 \in 0..Len(s) /\ (b + 1) - 1 = b
      /\ b + 1 \in (b + 1)..(b + 1)
  OBVIOUS
<1>s. s[b + 1] = " "
  BY <1>0, Zenon DEF Blank
<1>1. ASSUME NEW k \in Nat, \A n \in 0..k - 1 : n \in Good
      PROVE  k \in Good
  <2> SUFFICES ASSUME NEW c \in 1..Len(s) + 1, b + 1 - c <= k,
                      NEW v \in f[<<c, b>>].factor
               PROVE  v \in f[<<c, b + 1>>].factor
    OBVIOUS
  <2>1. InFactor(s, f, c, b, v)
    BY <1>0, ValuesAre, Zenon
  <2>2. c <= b
    BY <2>1, Zenon DEF InFactor
  <2>3. c <= b + 1
    BY <2>2
  <2>4. CASE s[c] \in {" ", "+"}
    <3>1. /\ k - 1 \in 0..k - 1 /\ c + 1 \in 1..Len(s) + 1 /\ b + 1 - (c + 1) <= k - 1
      BY <2>2
    <3>2. v \in f[<<c + 1, b>>].factor
      BY <2>1, <2>4, Zenon DEF InFactor
    <3>3. k - 1 \in Good
      BY <1>1, <3>1, Zenon
    <3>4. v \in f[<<c + 1, b + 1>>].factor
      BY <3>1, <3>2, <3>3, Zenon
    <3>5. InFactor(s, f, c, b + 1, v)
      BY <2>3, <2>4, <3>4, Zenon DEF InFactor
    <3> QED BY <1>0, <3>5, ValuesAre, Zenon
  <2>5. CASE ~ (s[c] \in {" ", "+"})
    <3>1. InFactor(s, f, c, b + 1, v)
      BY <1>0, <1>s, <2>3, <2>5, Zenon DEF InFactor
    <3> QED BY <1>0, <3>1, ValuesAre, Zenon
  <2> QED BY <2>4, <2>5, Zenon
<1> HIDE DEF Good
<1>2. Nat \subseteq Good
  BY <1>1, AllNumbers
<1>3. ASSUME NEW c \in 1..Len(s) + 1
      PROVE  \A v \in f[<<c, b>>].factor : v \in f[<<c, b + 1>>].factor
  <2>1. Len(s) + 1 \in Good /\ b + 1 - c <= Len(s) + 1
    BY <1>2
  <2> QED BY <2>1, Zenon DEF Good
<1>4. ASSUME NEW c \in 1..Len(s) + 1, NEW v \in f[<<c, b>>].term
      PROVE  v \in f[<<c, b + 1>>].term
  <2>1. InTerm(s, f, c, b, v)
    BY <1>0, ValuesAre, Zenon
  <2>2. InTerm(s, f, c, b + 1, v)
    <3>1. CASE InFactor(s, f, c, b, v)
      <4>1. v \in f[<<c, b + 1>>].factor
        BY <1>0, <1>3, <3>1, ValuesAre, Zenon
      <4>2. InFactor(s, f, c, b + 1, v)
        BY <1>0, <4>1, ValuesAre, Zenon
      <4> QED BY <4>2, Zenon DEF InTerm
    <3>2. CASE ~ InFactor(s, f, c, b, v)
      <4>1. PICK i \in c + 1..b - 1 :
              /\ s[i] \in {"*", "/"}
              /\ \E x \in f[<<c, i - 1>>].term, y \in f[<<i + 1, b>>].factor :
                   (s[i] # "/" \/ y[1] # 0) /\ v = Apply(s[i], x, y)
        BY <2>1, <3>2, Zenon DEF InTerm
      <4>2. i + 1 \in 1..Len(s) + 1 /\ i \in c + 1..(b + 1) - 1
        OBVIOUS
      <4>3. \E x \in f[<<c, i - 1>>].term, y \in f[<<i + 1, b + 1>>].factor :
                   (s[i] # "/" \/ y[1] # 0) /\ v = Apply(s[i], x, y)
        BY <1>3, <4>1, <4>2, Zenon
      <4> QED BY <4>1, <4>2, <4>3, Zenon DEF InTerm
    <3> QED BY <3>1, <3>2, Zenon
  <2> QED BY <1>0, <2>2, ValuesAre, Zenon
<1>5. ASSUME NEW c \in 1..Len(s) + 1, NEW v \in f[<<c, b>>].expr
      PROVE  v \in f[<<c, b + 1>>].expr
  <2>1. InExpr(s, f, c, b, v)
    BY <1>0, ValuesAre, Zenon
  <2>2. InExpr(s, f, c, b + 1, v)
    <3>1. CASE InTerm(s, f, c, b, v)
      <4>1. v \in f[<<c, b + 1>>].term
        BY <1>0, <1>4, <3>1, ValuesAre, Zenon
      <4>2. InTerm(s, f, c, b + 1, v)
        BY <1>0, <4>1, ValuesAre, Zenon
      <4> QED BY <4>2, Zenon DEF InExpr
    <3>2. CASE ~ InTerm(s, f, c, b, v)
      <4>1. PICK i \in c + 1..b - 1 :
              /\ s[i] \in {"+", "-"}
              /\ \E x \in f[<<c, i - 1>>].expr, y \in f[<<i + 1, b>>].term :
                   (s[i] # "/" \/ y[1] # 0) /\ v = Apply(s[i], x, y)
        BY <2>1, <3>2, Zenon DEF InExpr
      <4>2. i + 1 \in 1..Len(s) + 1 /\ i \in c + 1..(b + 1) - 1
        OBVIOUS
      <4>3. \E x \in f[<<c, i - 1>>].expr, y \in f[<<i + 1, b + 1>>].term :
                   (s[i] # "/" \/ y[1] # 0) /\ v = Apply(s[i], x, y)
        BY <1>4, <4>1, <4>2, Zenon
      <4> QED BY <4>1, <4>2, <4>3, Zenon DEF InExpr
    <3> QED BY <3>1, <3>2, Zenon
  <2> QED BY <1>0, <2>2, ValuesAre, Zenon
<1> QED BY <1>3, <1>4, <1>5

\* Spaces behind a part change none of its values.
LEMMA SpacesBehind ==
  ASSUME NEW s, Len(s) \in Nat, NEW f, Values(s, f),
         NEW b \in 0..Len(s), NEW e \in b..Len(s), Blank(s, b, e), NEW a \in 1..Len(s) + 1
  PROVE  /\ \A v \in f[<<a, b>>].factor : v \in f[<<a, e>>].factor
         /\ \A v \in f[<<a, b>>].term : v \in f[<<a, e>>].term
         /\ \A v \in f[<<a, b>>].expr : v \in f[<<a, e>>].expr
<1> DEFINE Fine(d) == /\ \A v \in f[<<a, b>>].factor : v \in f[<<a, d>>].factor
                      /\ \A v \in f[<<a, b>>].term : v \in f[<<a, d>>].term
                      /\ \A v \in f[<<a, b>>].expr : v \in f[<<a, d>>].expr
           Good == {n \in Nat : b + n <= e => Fine(b + n)}
<1>1. ASSUME NEW k \in Nat, \A n \in 0..k - 1 : n \in Good
      PROVE  k \in Good
  <2> SUFFICES ASSUME b + k <= e
               PROVE  Fine(b + k)
    OBVIOUS
  <2>1. CASE k = 0
    <3>1. b + k = b
      BY <2>1
    <3> QED BY <3>1
  <2>2. CASE k # 0
    <3> DEFINE d == b + k - 1
    <3>1. k - 1 \in 0..k - 1 /\ b + (k - 1) <= e /\ b + (k - 1) = d
      BY <2>2
    <3>2. k - 1 \in Good
      BY <1>1, <3>1, Zenon
    <3>3. Fine(d)
      <4>1. Fine(b + (k - 1))
        BY <3>1, <3>2, Zenon
      <4> HIDE DEF Fine, d
      <4> QED BY <3>1, <4>1
    <3>4. d \in 0..Len(s) - 1 /\ d + 1 \in (b + 1)..e /\ d + 1 = b + k
      BY <2>2
    <3> HIDE DEF d
    <3>5. Blank(s, d, d + 1)
      <4>1. \A j \in (d + 1)..(d + 1) : j \in (b + 1)..e
        BY <3>4
      <4> QED BY <4>1, Zenon DEF Blank
    <3>6. /\ \A v \in f[<<a, d>>].factor : v \in f[<<a, d + 1>>].factor
          /\ \A v \in f[<<a, d>>].term : v \in f[<<a, d + 1>>].term
          /\ \A v \in f[<<a, d>>].expr : v \in f[<<a, d + 1>>].expr
      BY <3>4, <3>5, SpaceBehind, Zenon
    <3>7. Fine(d + 1)
      BY <3>3, <3>6, Zenon
    <3> HIDE DEF Fine
    <3> QED BY <3>4, <3>7
  <2> QED BY <2>1, <2>2
<1> HIDE DEF Good
<1>2. Nat \subseteq Good
  BY <1>1, AllNumbers
<1>3. e - b \in Good /\ b + (e - b) = e
  BY <1>2
<1>4. b + (e - b) <= e
  BY <1>3
<1>5. Fine(b + (e - b))
  BY <1>3, <1>4, Zenon DEF Good
<1>6. Fine(e)
  <2> HIDE DEF Fine
  <2> QED BY <1>3, <1>5
<1> QED BY <1>6

\* So do spaces in front of a factor.
LEMMA SpacesBefore ==
  ASSUME NEW s, Len(s) \in Nat, NEW f, Values(s, f),
         NEW b \in 0..Len(s), NEW c \in 0..b, NEW a \in 0..c, Blank(s, a, c),
         NEW v \in f[<<c + 1, b>>].factor
  PROVE  v \in f[<<a + 1, b>>].factor
<1> DEFINE Good == {n \in Nat : c - n >= a => v \in f[<<c - n + 1, b>>].factor}
<1>1. ASSUME NEW k \in Nat, \A n \in 0..k - 1 : n \in Good
      PROVE  k \in Good
  <2> SUFFICES ASSUME c - k >= a
               PROVE  v \in f[<<c - k + 1, b>>].factor
    OBVIOUS
  <2>1. CASE k = 0
    <3>1. c - k + 1 = c + 1
      BY <2>1
    <3> QED BY <3>1
  <2>2. CASE k # 0
    <3> DEFINE d == c - k + 1
    <3>1. k - 1 \in 0..k - 1 /\ c - (k - 1) >= a /\ c - (k - 1) + 1 = d + 1
      BY <2>2
    <3>2. k - 1 \in Good
      BY <1>1, <3>1, Zenon
    <3>3. v \in f[<<c - (k - 1) + 1, b>>].factor
      BY <3>1, <3>2
    <3>4. /\ d \in 1..Len(s) + 1 /\ d \in (a + 1)..c /\ d <= b
      BY <2>2
    <3> HIDE DEF d
    <3>5. s[d] = " "
      BY <3>4, Zenon DEF Blank
    <3>6. v \in f[<<d + 1, b>>].factor
      BY <3>1, <3>3, Zenon
    <3>7. InFactor(s, f, d, b, v)
      <4>1. s[d] \in {" ", "+"}
        BY <3>5
      <4> QED BY <3>4, <3>6, <4>1, Zenon DEF InFactor
    <3>8. v \in f[<<d, b>>].factor
      BY <3>4, <3>7, ValuesAre, Zenon
    <3> QED BY <3>8 DEF d
  <2> QED BY <2>1, <2>2
<1> HIDE DEF Good
<1>2. Nat \subseteq Good
  BY <1>1, AllNumbers
<1>3. c - a \in Good /\ c - (c - a) >= a /\ c - (c - a) + 1 = a + 1
  BY <1>2
<1>4. v \in f[<<c - (c - a) + 1, b>>].factor
  BY <1>3 DEF Good
<1> QED BY <1>3, <1>4, Zenon

-----------------------------------------------------------------------------
(* The parser. *)

Jobs(s) == [rule : Rules, value : Fractions \union {None}, at : 0..Len(s)]
Job(rule, value, here) == [rule |-> rule, value |-> value, at |-> here]

\* What a job does, if f is what the jobs it needs do.
Parsed(s, f, job) ==
  LET do(rule, left) == f[[rule |-> rule, value |-> left.value, at |-> left.at]]
      i == Skip(s, job.at)
      sign == s[i + 1]
      right == do(Operand[job.rule], Behind(i + 1))
      signed == do("factor", Behind(i + 1))
      inner == do("expr", Behind(i + 1))
      close == Skip(s, inner.at)
      end == Past(s, i, NumberChars)
      read == Stod(SubSeq(s, i + 1, end))
  IN  CASE job.rule = "expr" -> do("exprRest", do("term", Behind(job.at)))
        [] job.rule = "term" -> do("termRest", do("factor", Behind(job.at)))
        [] job.rule \in DOMAIN Signs ->
             IF job.value = None THEN Failure
             ELSE IF ~NextIs(s, i, Signs[job.rule]) THEN [value |-> job.value, at |-> i]
             ELSE IF right.value = None \/ (sign = "/" /\ right.value[1] = 0)
             THEN Failure
             ELSE do(job.rule, [value |-> Apply(sign, job.value, right.value),
                                at |-> right.at])
        [] job.rule = "factor" ->
             IF NextIs(s, i, {"+"}) THEN signed
             ELSE IF NextIs(s, i, {"-"})
             THEN IF signed.value = None THEN Failure
                  ELSE [signed EXCEPT !.value = <<-@[1], @[2]>>]
             ELSE IF NextIs(s, i, {"("})
             THEN IF inner.value # None /\ NextIs(s, close, {")"})
                  THEN [inner EXCEPT !.at = close + 1] ELSE Failure
             ELSE IF read = None THEN Failure ELSE [value |-> read, at |-> end]

LEMMA RulesAre ==
  /\ DOMAIN Signs = {"exprRest", "termRest"} /\ DOMAIN Operand = {"exprRest", "termRest"}
  /\ Signs["exprRest"] = {"+", "-"} /\ Signs["termRest"] = {"*", "/"}
  /\ Operand["exprRest"] = "term" /\ Operand["termRest"] = "factor"
BY DEF Signs, Operand

\* ParseExpr and ParseTerm: an operand, then the loop.
LEMMA ExprIs ==
  ASSUME NEW s, NEW f, NEW v, NEW a
  PROVE  /\ LET r == f[Job("term", None, a)]
            IN  Parsed(s, f, Job("expr", v, a)) = f[Job("exprRest", r.value, r.at)]
         /\ LET r == f[Job("factor", None, a)]
            IN  Parsed(s, f, Job("term", v, a)) = f[Job("termRest", r.value, r.at)]
<1>1. "expr" \notin DOMAIN Signs /\ "term" \notin DOMAIN Signs
  BY RulesAre
<1>2. Parsed(s, f, Job("expr", v, a))
        = f[Job("exprRest", f[Job("term", None, a)].value, f[Job("term", None, a)].at)]
  BY <1>1, Zenon DEF Parsed, Job, Behind
<1>3. Parsed(s, f, Job("term", v, a))
        = f[Job("termRest", f[Job("factor", None, a)].value, f[Job("factor", None, a)].at)]
  BY <1>1, Zenon DEF Parsed, Job, Behind
<1> QED BY <1>2, <1>3, Zenon

\* The loop of ParseExpr and of ParseTerm.
LEMMA RestIs ==
  ASSUME NEW s, NEW f, NEW v, NEW a, NEW rule \in {"exprRest", "termRest"}
  PROVE  LET i == Skip(s, a)
             right == f[Job(Operand[rule], None, i + 1)]
             job == Job(rule, v, a)
         IN  Parsed(s, f, job) =
               IF v = None THEN Failure
               ELSE IF ~NextIs(s, i, Signs[rule]) THEN [value |-> v, at |-> i]
               ELSE IF right.value = None \/ (s[i + 1] = "/" /\ right.value[1] = 0)
               THEN Failure
               ELSE f[Job(rule, Apply(s[i + 1], v, right.value), right.at)]
<1>1. rule \in DOMAIN Signs /\ rule # "expr" /\ rule # "term"
  BY RulesAre
<1> QED BY <1>1, Zenon DEF Parsed, Job, Behind

\* ParseFactor.
LEMMA FactorIs ==
  ASSUME NEW s, NEW f, NEW v, NEW a
  PROVE  LET i == Skip(s, a)
             signed == f[Job("factor", None, i + 1)]
             inner == f[Job("expr", None, i + 1)]
             close == Skip(s, inner.at)
             end == Past(s, i, NumberChars)
             read == Stod(SubSeq(s, i + 1, end))
         IN  Parsed(s, f, Job("factor", v, a)) =
               IF NextIs(s, i, {"+"}) THEN signed
               ELSE IF NextIs(s, i, {"-"})
               THEN IF signed.value = None THEN Failure
                    ELSE [signed EXCEPT !.value = <<-@[1], @[2]>>]
               ELSE IF NextIs(s, i, {"("})
               THEN IF inner.value # None /\ NextIs(s, close, {")"})
                    THEN [inner EXCEPT !.at = close + 1] ELSE Failure
               ELSE IF read = None THEN Failure ELSE [value |-> read, at |-> end]
<1>1. "factor" \notin DOMAIN Signs
  BY RulesAre
<1> QED BY <1>1, Zenon DEF Parsed, Job, Behind

Rests == {"exprRest", "termRest"}
\* A job only needs those that read on, and at the same place those of operands.
Rank(s, job) ==
  LET left == 4 * (Len(s) - job.at)
  IN  IF job.rule \in Rests THEN IF job.value = None THEN 0 ELSE left + 1
      ELSE left + (IF job.rule = "factor" THEN 1 ELSE IF job.rule = "term" THEN 2 ELSE 3)

\* The results a job may have.
Read(s, from, r) == \E v \in Fractions, p \in from..Len(s) : r = [value |-> v, at |-> p]
Result(s, job, r) ==
  \/ r = Failure
  \/ /\ job.rule \in Rests => job.value # None
     /\ Read(s, IF job.rule \in Rests THEN job.at ELSE job.at + 1, r)

Agree(s, f, g, n) ==
  \A j \in Jobs(s) : Rank(s, j) < n => f[j] = g[j] /\ Result(s, j, f[j])

LEMMA JobIs ==
  ASSUME NEW s, Len(s) \in Nat, NEW rule \in Rules, NEW v \in Fractions \union {None},
         NEW a \in 0..Len(s)
  PROVE  /\ Job(rule, v, a) \in Jobs(s)
         /\ Job(rule, v, a).rule = rule /\ Job(rule, v, a).value = v
         /\ Job(rule, v, a).at = a
BY DEF Job, Jobs

\* The ranks of the jobs at a place.
LEMMA RankIs ==
  ASSUME NEW s, Len(s) \in Nat, NEW v \in Fractions \union {None}, NEW a \in 0..Len(s)
  PROVE  /\ Rank(s, Job("factor", v, a)) = 4 * (Len(s) - a) + 1
         /\ Rank(s, Job("term", v, a)) = 4 * (Len(s) - a) + 2
         /\ Rank(s, Job("expr", v, a)) = 4 * (Len(s) - a) + 3
         /\ \A rule \in Rests : /\ v = None => Rank(s, Job(rule, v, a)) = 0
                                /\ v # None => Rank(s, Job(rule, v, a)) = 4 * (Len(s) - a) + 1
BY JobIs DEF Rank, Rests, Rules, Job

\* Two functions that agree below a rank agree on a job of it.
LEMMA Agreed ==
  ASSUME NEW s, Len(s) \in Nat, NEW f, NEW g, NEW n, Agree(s, f, g, n),
         NEW rule \in Rules, NEW v \in Fractions \union {None}, NEW a \in 0..Len(s),
         Rank(s, Job(rule, v, a)) < n
  PROVE  LET r == f[Job(rule, v, a)]
         IN  /\ r = g[Job(rule, v, a)]
             /\ rule \notin Rests => r = Failure \/ Read(s, a + 1, r)
             /\ rule \in Rests => r = Failure \/ (v # None /\ Read(s, a, r))
<1> DEFINE j == Job(rule, v, a)
           r == f[j]
<1>1. j \in Jobs(s) /\ j.rule = rule /\ j.value = v /\ j.at = a
  BY JobIs
<1> HIDE DEF j
<1>2. Rank(s, j) < n
  BY DEF j
<1>3. f[j] = g[j] /\ Result(s, j, f[j])
  BY <1>1, <1>2, Zenon DEF Agree
<1> HIDE DEF r
<1>4. r = g[j] /\ Result(s, j, r)
  BY <1>3 DEF r
<1>5. /\ r = g[j]
      /\ rule \notin Rests => r = Failure \/ Read(s, a + 1, r)
      /\ rule \in Rests => r = Failure \/ (v # None /\ Read(s, a, r))
  BY <1>1, <1>4, Zenon DEF Result
<1> QED BY <1>5 DEF r, j

LEMMA AgreedOperand ==
  ASSUME NEW s, Len(s) \in Nat, NEW f, NEW g, NEW n, Agree(s, f, g, n),
         NEW rule \in Rules \ Rests, NEW a \in 0..Len(s), Rank(s, Job(rule, None, a)) < n
  PROVE  LET r == f[Job(rule, None, a)]
         IN  r = g[Job(rule, None, a)] /\ (r = Failure \/ Read(s, a + 1, r))
<1>1. rule \in Rules /\ rule \notin Rests /\ None \in Fractions \union {None}
  OBVIOUS
<1> DEFINE v == None
           r == f[Job(rule, v, a)]
<1>2. v \in Fractions \union {None} /\ Rank(s, Job(rule, v, a)) < n
  OBVIOUS
<1> HIDE DEF v
<1>3. r = g[Job(rule, v, a)] /\ (rule \notin Rests => r = Failure \/ Read(s, a + 1, r))
  BY <1>1, <1>2, Agreed
<1> HIDE DEF r
<1>4. r = g[Job(rule, v, a)] /\ (r = Failure \/ Read(s, a + 1, r))
  BY <1>1, <1>3
<1> QED BY <1>4 DEF r, v

LEMMA AgreedRest ==
  ASSUME NEW s, Len(s) \in Nat, NEW f, NEW g, NEW n, Agree(s, f, g, n),
         NEW rule \in Rests, NEW v \in Fractions \union {None}, NEW a \in 0..Len(s),
         Rank(s, Job(rule, v, a)) < n
  PROVE  LET r == f[Job(rule, v, a)]
         IN  r = g[Job(rule, v, a)] /\ (r = Failure \/ (v # None /\ Read(s, a, r)))
<1>1. rule \in Rules
  BY DEF Rests, Rules
<1> DEFINE r == f[Job(rule, v, a)]
<1>2. /\ r = g[Job(rule, v, a)]
      /\ rule \notin Rests => r = Failure \/ Read(s, a + 1, r)
      /\ rule \in Rests => r = Failure \/ (v # None /\ Read(s, a, r))
  BY <1>1, Agreed
<1> HIDE DEF r
<1>3. r = g[Job(rule, v, a)] /\ (r = Failure \/ (v # None /\ Read(s, a, r)))
  BY <1>2
<1> QED BY <1>3 DEF r

LEMMA ReadIs ==
  ASSUME NEW s, Len(s) \in Nat, NEW from \in Nat, NEW r, Read(s, from, r)
  PROVE  /\ r.value \in Fractions /\ r.value # None /\ r.at \in from..Len(s)
         /\ r = [value |-> r.value, at |-> r.at]
<1>1. PICK v \in Fractions, p \in from..Len(s) : r = [value |-> v, at |-> p]
  BY Zenon DEF Read
<1>2. v # None
  BY FractionParts
<1> QED BY <1>1, <1>2

LEMMA ReadFrom ==
  ASSUME NEW s, Len(s) \in Nat, NEW from \in Nat, NEW to \in from..Len(s), NEW r, Read(s, to, r)
  PROVE  Read(s, from, r)
<1>1. PICK v \in Fractions, p \in to..Len(s) : r = [value |-> v, at |-> p]
  BY Zenon DEF Read
<1>2. p \in from..Len(s)
  OBVIOUS
<1> QED BY <1>1, <1>2, Zenon DEF Read

LEMMA FailureIs == Failure.value = None /\ Failure.at = 0 /\ None \notin Fractions
<1>1. None \notin Fractions
  BY FractionParts
<1> QED BY <1>1 DEF Failure

\* An operand and the loop behind it need jobs of a lower rank only.
LEMMA ChainKnown ==
  ASSUME NEW s, Len(s) \in Nat, NEW f, NEW g, NEW n \in Nat, Agree(s, f, g, n),
         NEW a \in 0..Len(s), NEW operand \in Rules \ Rests, NEW rest \in Rests,
         Rank(s, Job(operand, None, a)) < n, 4 * (Len(s) - a) < n
  PROVE  LET r == f[Job(operand, None, a)]
             q == g[Job(operand, None, a)]
             t == f[Job(rest, r.value, r.at)]
         IN  /\ t = g[Job(rest, q.value, q.at)]
             /\ t = Failure \/ Read(s, a + 1, t)
<1> DEFINE r == f[Job(operand, None, a)]
           q == g[Job(operand, None, a)]
           t == f[Job(rest, r.value, r.at)]
<1>1. None \in Fractions \union {None} /\ rest \in Rules
  BY DEF Rests, Rules
<1>2. q = r /\ (r = Failure \/ Read(s, a + 1, r))
  BY AgreedOperand
<1> HIDE DEF r, q
<1>3. ASSUME NEW v \in Fractions \union {None}, NEW p \in 0..Len(s), v # None => p > a
      PROVE  /\ f[Job(rest, v, p)] = g[Job(rest, v, p)]
             /\ \/ f[Job(rest, v, p)] = Failure
                \/ v # None /\ Read(s, p, f[Job(rest, v, p)])
  <2>1. Rank(s, Job(rest, v, p)) < n
    <3>0. /\ v = None => Rank(s, Job(rest, v, p)) = 0
          /\ v # None => Rank(s, Job(rest, v, p)) = 4 * (Len(s) - p) + 1
      BY RankIs, Zenon
    <3>1. CASE v = None
      <4>1. Rank(s, Job(rest, v, p)) = 0
        BY <3>0, <3>1
      <4>2. 4 * (Len(s) - a) >= 0
        OBVIOUS
      <4> QED BY <4>1, <4>2
    <3>2. CASE v # None
      <4>1. Rank(s, Job(rest, v, p)) = 4 * (Len(s) - p) + 1
        BY <3>0, <3>2
      <4> QED BY <1>3, <3>2, <4>1
    <3> QED BY <3>1, <3>2
  <2> QED BY <2>1, AgreedRest
<1>4. CASE r = Failure
  <2>1. r.value = None /\ r.at = 0 /\ 0 \in 0..Len(s)
    BY <1>4, FailureIs
  <2>2. f[Job(rest, None, 0)] = g[Job(rest, None, 0)] /\ f[Job(rest, None, 0)] = Failure
    BY <1>1, <1>3, <2>1, Zenon
  <2>3. t = f[Job(rest, None, 0)] /\ g[Job(rest, q.value, q.at)] = g[Job(rest, None, 0)]
    BY <1>2, <2>1, Zenon
  <2> HIDE DEF t
  <2>4. t = g[Job(rest, q.value, q.at)] /\ t = Failure
    BY <2>2, <2>3, Zenon
  <2> QED BY <2>4 DEF r, q, t
<1>5. CASE Read(s, a + 1, r)
  <2> DEFINE v == r.value
             p == r.at
  <2>1. v \in Fractions /\ v # None /\ p \in a + 1..Len(s)
    <3>1. a + 1 \in Nat
      OBVIOUS
    <3> QED BY <1>5, <3>1, ReadIs, Zenon
  <2>2. t = f[Job(rest, v, p)] /\ g[Job(rest, q.value, q.at)] = g[Job(rest, v, p)]
    BY <1>2, Zenon
  <2> HIDE DEF v, p, t
  <2>3. v \in Fractions \union {None} /\ p \in 0..Len(s) /\ p > a /\ a + 1 \in Nat
    BY <2>1
  <2>4. /\ f[Job(rest, v, p)] = g[Job(rest, v, p)]
        /\ f[Job(rest, v, p)] = Failure \/ Read(s, p, f[Job(rest, v, p)])
    BY <1>3, <2>3, Zenon
  <2>5. t = g[Job(rest, q.value, q.at)]
    BY <2>2, <2>4, Zenon
  <2>6. t = Failure \/ Read(s, a + 1, t)
    <3>1. CASE Read(s, p, t)
      <4>1. Read(s, a + 1, t)
        BY <2>1, <2>3, <3>1, ReadFrom
      <4> QED BY <4>1
    <3> QED BY <2>2, <2>4, <3>1, Zenon
  <2> QED BY <2>5, <2>6 DEF r, q, t
<1> QED BY <1>2, <1>4, <1>5, Zenon

\* So do the loop and ParseFactor.
LEMMA RestKnown ==
  ASSUME NEW s, Len(s) \in Nat, NEW f, NEW g, NEW rule \in Rests,
         NEW v \in Fractions \union {None}, NEW a \in 0..Len(s),
         Agree(s, f, g, Rank(s, Job(rule, v, a)))
  PROVE  /\ Parsed(s, f, Job(rule, v, a)) = Parsed(s, g, Job(rule, v, a))
         /\ Result(s, Job(rule, v, a), Parsed(s, f, Job(rule, v, a)))
<1> DEFINE i == Skip(s, a)
           operand == Operand[rule]
           r == f[Job(operand, None, i + 1)]
           q == g[Job(operand, None, i + 1)]
           w == Apply(s[i + 1], v, r.value)
           j == Job(rule, v, a)
           F == Parsed(s, f, j)
           G == Parsed(s, g, j)
           n == Rank(s, j)
<1>0. /\ rule \in Rules /\ rule \in {"exprRest", "termRest"}
      /\ operand \in {"term", "factor"} /\ operand \in Rules /\ operand \notin Rests
      /\ Signs[rule] \subseteq Operators
  BY RulesAre DEF Rests, Rules, Operators
<1>1. i \in a..Len(s)
  BY SkipIs
<1>2. /\ F = IF v = None THEN Failure
             ELSE IF ~NextIs(s, i, Signs[rule]) THEN [value |-> v, at |-> i]
             ELSE IF r.value = None \/ (s[i + 1] = "/" /\ r.value[1] = 0)
             THEN Failure
             ELSE f[Job(rule, w, r.at)]
      /\ G = IF v = None THEN Failure
             ELSE IF ~NextIs(s, i, Signs[rule]) THEN [value |-> v, at |-> i]
             ELSE IF q.value = None \/ (s[i + 1] = "/" /\ q.value[1] = 0)
             THEN Failure
             ELSE g[Job(rule, Apply(s[i + 1], v, q.value), q.at)]
  BY <1>0, RestIs
<1>j. j.rule = rule /\ j.value = v /\ j.at = a
  BY DEF Job
<1> HIDE DEF F, G, j
<1>3. SUFFICES F = G /\ (F = Failure \/ (v # None /\ Read(s, a, F)))
  BY <1>j, Zenon DEF F, G, j, Result
<1>4. CASE v = None
  BY <1>2, <1>4, Zenon
<1>5. CASE v # None /\ ~NextIs(s, i, Signs[rule])
  <2>1. F = [value |-> v, at |-> i] /\ G = F
    BY <1>2, <1>5, Zenon
  <2>2. v \in Fractions
    BY <1>5
  <2> HIDE DEF i
  <2> QED BY <1>1, <1>5, <2>1, <2>2, Zenon DEF Read
<1>6. CASE v # None /\ NextIs(s, i, Signs[rule])
  <2>1. i + 1 \in 0..Len(s) /\ i + 1 > a /\ i + 2 \in Nat
    BY <1>1, <1>6 DEF NextIs
  <2>2. n = 4 * (Len(s) - a) + 1
    BY <1>0, <1>6, RankIs, Zenon DEF j
  <2>3. Agree(s, f, g, n)
    BY DEF j
  <2> HIDE DEF i, operand, n
  <2>4. Rank(s, Job(operand, None, i + 1)) < n
    <3> DEFINE x == i + 1
               o == None
    <3>1. x \in 0..Len(s) /\ o \in Fractions \union {None}
      BY <2>1
    <3> HIDE DEF x, o
    <3>2. /\ Rank(s, Job("factor", o, x)) = 4 * (Len(s) - x) + 1
          /\ Rank(s, Job("term", o, x)) = 4 * (Len(s) - x) + 2
      BY <3>1, RankIs, Zenon
    <3>3. \/ Rank(s, Job(operand, o, x)) = 4 * (Len(s) - x) + 1
          \/ Rank(s, Job(operand, o, x)) = 4 * (Len(s) - x) + 2
      BY <1>0, <3>2
    <3>4. \/ Rank(s, Job(operand, None, i + 1)) = 4 * (Len(s) - (i + 1)) + 1
          \/ Rank(s, Job(operand, None, i + 1)) = 4 * (Len(s) - (i + 1)) + 2
      BY <3>3 DEF x, o
    <3> QED BY <1>1, <2>1, <2>2, <3>4
  <2>5. q = r /\ (r = Failure \/ Read(s, i + 2, r))
    <3>1. (i + 1) + 1 = i + 2
      BY <1>1
    <3>2. q = r /\ (r = Failure \/ Read(s, (i + 1) + 1, r))
      <4> DEFINE x == i + 1
      <4>1. x \in 0..Len(s) /\ operand \in Rules \ Rests /\ Rank(s, Job(operand, None, x)) < n
        BY <1>0, <2>1, <2>4
      <4> HIDE DEF x
      <4>2. /\ f[Job(operand, None, x)] = g[Job(operand, None, x)]
            /\ f[Job(operand, None, x)] = Failure \/ Read(s, x + 1, f[Job(operand, None, x)])
        BY <2>3, <4>1, AgreedOperand
      <4> QED BY <4>2, Zenon DEF x
    <3> HIDE DEF q, r
    <3> QED BY <3>1, <3>2
  <2>6. CASE r.value = None \/ (s[i + 1] = "/" /\ r.value[1] = 0)
    BY <1>2, <1>6, <2>5, <2>6, Zenon
  <2>7. CASE ~ (r.value = None \/ (s[i + 1] = "/" /\ r.value[1] = 0))
    <3>1. F = f[Job(rule, w, r.at)] /\ G = g[Job(rule, w, r.at)]
      BY <1>2, <1>6, <2>5, <2>7, Zenon
    <3>2. Read(s, i + 2, r)
      BY <2>5, <2>7, FailureIs, Zenon
    <3> DEFINE p == r.at
    <3>3. r.value \in Fractions /\ p \in i + 2..Len(s)
      BY <2>1, <3>2, ReadIs, Zenon
    <3>4. w \in Fractions
      <4>1. s[i + 1] \in Operators
        BY <1>0, <1>6 DEF NextIs
      <4>2. v \in Fractions
        BY <1>6
      <4>3. s[i + 1] = "/" => r.value[1] # 0
        BY <2>7, Zenon
      <4> DEFINE op == s[i + 1]
                 x == r.value
      <4>4. op \in Operators /\ x \in Fractions /\ (op = "/" => x[1] # 0)
        BY <3>3, <4>1, <4>3
      <4> HIDE DEF op, x
      <4>5. Apply(op, v, x) \in Fractions
        BY <4>2, <4>4, ApplyIs
      <4> QED BY <4>5 DEF op, x
    <3>5. w # None
      BY <3>4, FailureIs
    <3> HIDE DEF w, r, q, p
    <3>6. p \in 0..Len(s) /\ p > a /\ p \in a..Len(s)
      BY <1>1, <2>1, <3>3
    <3>7. Rank(s, Job(rule, w, p)) < n
      <4>0. w \in Fractions \union {None}
        BY <3>4
      <4>1. Rank(s, Job(rule, w, p)) = 4 * (Len(s) - p) + 1
        BY <4>0, <3>5, <3>6, RankIs, Zenon
      <4> QED BY <2>2, <3>6, <4>1
    <3>8. /\ f[Job(rule, w, p)] = g[Job(rule, w, p)]
          /\ f[Job(rule, w, p)] = Failure \/ Read(s, p, f[Job(rule, w, p)])
      BY <1>0, <2>3, <3>4, <3>6, <3>7, Agreed
    <3>9. F = G /\ (F = Failure \/ Read(s, p, F))
      BY <3>1, <3>8, Zenon DEF p
    <3> QED BY <1>6, <3>6, <3>9, ReadFrom
  <2> QED BY <2>6, <2>7, Zenon
<1> QED BY <1>4, <1>5, <1>6, Zenon

\* No number is read from nothing.
LEMMA StodEmpty == Stod(<<>>) = None
<1> DEFINE t == <<>>
<1>1. Len(t) = 0
  OBVIOUS
<1> HIDE DEF t
<1>2. /\ Len(t) \in Nat /\ \A i \in 1..Len(t) : t[i] \in NumberChars
      /\ \A i, j \in 1..Len(t) : t[i] = "." /\ t[j] = "." => i = j
      /\ ~ \E i \in 1..Len(t) : t[i] \in DOMAIN Value
  BY <1>1
<1>3. ~ IsNumber(t)
  BY <1>2, Zenon DEF IsNumber
<1>4. Stod(t) # None /\ (\A i, j \in 1..Len(t) : t[i] = "." /\ t[j] = "." => i = j)
        => IsNumber(t)
  BY <1>2, StodIs
<1> QED BY <1>2, <1>3, <1>4 DEF t

\* The number read behind the first i characters.
LEMMA NumberRead ==
  ASSUME NEW s, Len(s) \in Nat, NEW i \in 0..Len(s)
  PROVE  LET end == Past(s, i, NumberChars)
             t == SubSeq(s, i + 1, end)
         IN  /\ end \in i..Len(s)
             /\ Len(t) = end - i /\ \A k \in 1..Len(t) : t[k] \in NumberChars
             /\ \A k \in 1..Len(t) : t[k] = s[i + k]
             /\ Stod(t) # None => Stod(t) \in Fractions /\ end \in i + 1..Len(s)
<1> DEFINE end == Past(s, i, NumberChars)
           t == SubSeq(s, i + 1, end)
<1>1. end \in i..Len(s) /\ \A j \in (i + 1)..end : s[j] \in NumberChars
  BY PastIs
<1> HIDE DEF end
<1>2. Len(t) = end - i /\ \A k \in 1..Len(t) : t[k] = s[i + k]
  <2>1. i + 1 \in 1..Len(s) + 1 /\ end \in 0..Len(s)
    BY <1>1
  <2>2. /\ Len(t) \in Nat /\ Len(t) = IF i + 1 <= end THEN end - (i + 1) + 1 ELSE 0
        /\ \A k \in 1..Len(t) : t[k] = s[(i + 1) + k - 1]
    BY <2>1, PartIs
  <2> HIDE DEF t
  <2>3. Len(t) = end - i
    BY <1>1, <2>2
  <2>4. ASSUME NEW k \in 1..Len(t)
        PROVE  t[k] = s[i + k]
    <3>1. (i + 1) + k - 1 = i + k
      BY <1>1, <2>3
    <3>2. t[k] = s[(i + 1) + k - 1]
      BY <2>2
    <3> QED BY <3>1, <3>2
  <2> QED BY <2>3, <2>4
<1>3. ASSUME end = i
      PROVE  Stod(t) = None
  <2>1. t = <<>>
    BY <1>1, <1>3, SubSeqEmpty
  <2> QED BY <2>1, StodEmpty, Zenon
<1> HIDE DEF t
<1>4. ASSUME NEW k \in 1..Len(t)
      PROVE  t[k] \in NumberChars
  <2>1. i + k \in (i + 1)..end
    BY <1>1, <1>2
  <2>2. t[k] = s[i + k]
    BY <1>2
  <2> QED BY <1>1, <2>1, <2>2, Zenon
<1>5. Stod(t) \in Fractions \union {None}
  <2>1. Len(t) \in Nat
    BY <1>1, <1>2
  <2> QED BY <1>4, <2>1, StodIs
<1>6. Stod(t) # None => Stod(t) \in Fractions /\ end \in i + 1..Len(s)
  BY <1>1, <1>3, <1>5
<1> QED BY <1>1, <1>2, <1>4, <1>6 DEF end, t

LEMMA FactorKnown ==
  ASSUME NEW s, Len(s) \in Nat, NEW f, NEW g,
         NEW v \in Fractions \union {None}, NEW a \in 0..Len(s),
         Agree(s, f, g, Rank(s, Job("factor", v, a)))
  PROVE  /\ Parsed(s, f, Job("factor", v, a)) = Parsed(s, g, Job("factor", v, a))
         /\ Result(s, Job("factor", v, a), Parsed(s, f, Job("factor", v, a)))
<1> DEFINE i == Skip(s, a)
           r(h) == h[Job("factor", None, i + 1)]
           q(h) == h[Job("expr", None, i + 1)]
           close(h) == Skip(s, q(h).at)
           end == Past(s, i, NumberChars)
           read == Stod(SubSeq(s, i + 1, end))
           j == Job("factor", v, a)
           F == Parsed(s, f, j)
           n == Rank(s, j)
           Is(h) == Parsed(s, h, j) =
               IF NextIs(s, i, {"+"}) THEN r(h)
               ELSE IF NextIs(s, i, {"-"})
               THEN IF r(h).value = None THEN Failure
                    ELSE [r(h) EXCEPT !.value = <<-@[1], @[2]>>]
               ELSE IF NextIs(s, i, {"("})
               THEN IF q(h).value # None /\ NextIs(s, close(h), {")"})
                    THEN [q(h) EXCEPT !.at = close(h) + 1] ELSE Failure
               ELSE IF read = None THEN Failure ELSE [value |-> read, at |-> end]
<1>0. i \in a..Len(s) /\ i \in 0..Len(s)
  <2>1. i \in a..Len(s)
    BY SkipIs
  <2> HIDE DEF i
  <2> QED BY <2>1
<1>1. \A h : Is(h)
  BY FactorIs, Zenon
<1>2. ASSUME i < Len(s)
      PROVE  /\ r(f) = r(g) /\ (r(f) = Failure \/ Read(s, i + 2, r(f)))
             /\ q(f) = q(g) /\ (q(f) = Failure \/ Read(s, i + 2, q(f)))
  <2> DEFINE x == i + 1
             o == None
  <2>1. /\ x \in 0..Len(s) /\ o \in Fractions \union {None} /\ x + 1 = i + 2
        /\ x > a
    BY <1>0, <1>2
  <2>2. n = 4 * (Len(s) - a) + 1
    BY RankIs DEF j
  <2>3. "factor" \in Rules \ Rests /\ "expr" \in Rules \ Rests
    BY DEF Rules, Rests
  <2>4. Agree(s, f, g, n)
    OBVIOUS
  <2> HIDE DEF x, o, n, i
  <2>5. /\ Rank(s, Job("factor", o, x)) = 4 * (Len(s) - x) + 1
        /\ Rank(s, Job("expr", o, x)) = 4 * (Len(s) - x) + 3
    BY <2>1, RankIs
  <2>6. Rank(s, Job("factor", None, x)) < n /\ Rank(s, Job("expr", None, x)) < n
    BY <2>1, <2>2, <2>5 DEF o
  <2>7. LET t == f[Job("factor", None, x)]
        IN  t = g[Job("factor", None, x)] /\ (t = Failure \/ Read(s, x + 1, t))
    BY <2>1, <2>3, <2>4, <2>6, AgreedOperand
  <2>8. LET t == f[Job("expr", None, x)]
        IN  t = g[Job("expr", None, x)] /\ (t = Failure \/ Read(s, x + 1, t))
    BY <2>1, <2>3, <2>4, <2>6, AgreedOperand
  <2> QED BY <2>1, <2>7, <2>8, Zenon DEF x
<1>3. \A chars : NextIs(s, i, chars) => i < Len(s)
  BY Zenon DEF NextIs
<1>4. \A w \in Fractions, p \in i + 1..Len(s) : Read(s, a + 1, [value |-> w, at |-> p])
  <2> HIDE DEF i
  <2>1. i + 1..Len(s) \subseteq a + 1..Len(s)
    BY <1>0
  <2> QED BY <2>1, Zenon DEF Read
<1>5. Parsed(s, f, j) = Parsed(s, g, j) /\ (F = Failure \/ Read(s, a + 1, F))
  <2>1. CASE NextIs(s, i, {"+"})
    <3>1. Parsed(s, f, j) = r(f) /\ Parsed(s, g, j) = r(g)
      BY <1>1, <2>1, Zenon
    <3>2. a + 1 \in Nat /\ i + 2 \in Nat /\ (i < Len(s) => i + 2 \in a + 1..(Len(s) + 1))
      BY <1>0
    <3>3. r(f) = r(g) /\ (r(f) = Failure \/ Read(s, i + 2, r(f)))
      BY <1>2, <1>3, <2>1, Zenon
    <3>4. CASE Read(s, i + 2, r(f))
      <4> DEFINE t == r(f)
      <4>1. t.value \in Fractions /\ t.at \in i + 2..Len(s) /\ t = [value |-> t.value, at |-> t.at]
        BY <3>2, <3>4, ReadIs, Zenon
      <4> HIDE DEF t, i
      <4>2. t.at \in i + 1..Len(s)
        BY <1>0, <4>1
      <4>3. Read(s, a + 1, [value |-> t.value, at |-> t.at])
        BY <1>4, <4>1, <4>2, Zenon
      <4>4. Read(s, a + 1, t)
        BY <4>1, <4>3, Zenon
      <4> QED BY <3>1, <3>3, <4>4, Zenon DEF t
    <3> QED BY <3>1, <3>3, <3>4, Zenon
  <2>2. CASE ~NextIs(s, i, {"+"}) /\ NextIs(s, i, {"-"})
    <3>1. r(f) = r(g) /\ (r(f) = Failure \/ Read(s, i + 2, r(f)))
      BY <1>2, <1>3, <2>2, Zenon
    <3> DEFINE t == r(f)
    <3>2. /\ F = IF t.value = None THEN Failure ELSE [t EXCEPT !.value = <<-@[1], @[2]>>]
          /\ Parsed(s, g, j) = F
      BY <1>1, <2>2, <3>1, Zenon
    <3>3. CASE t.value = None
      BY <3>2, <3>3, Zenon
    <3>4. CASE t.value # None
      <4>1. Read(s, i + 2, t)
        BY <3>1, <3>4, FailureIs, Zenon
      <4>2. i + 2 \in Nat
        BY <1>0
      <4>3. t.value \in Fractions /\ t.at \in i + 2..Len(s) /\ t = [value |-> t.value, at |-> t.at]
        BY <4>1, <4>2, ReadIs, Zenon
      <4> DEFINE w == t.value
                 p == t.at
      <4>4. F = [t EXCEPT !.value = <<-@[1], @[2]>>]
        BY <3>2, <3>4, Zenon
      <4> HIDE DEF t, i, F
      <4>5. F = [value |-> <<-w[1], w[2]>>, at |-> p]
        BY <4>3, <4>4
      <4>6. <<-w[1], w[2]>> \in Fractions /\ p \in i + 1..Len(s)
        BY <1>0, <4>3, FractionParts
      <4>7. Read(s, a + 1, F)
        BY <1>4, <4>5, <4>6, Zenon
      <4> QED BY <3>2, <4>7, Zenon DEF F
    <3> QED BY <3>3, <3>4, Zenon
  <2>3. CASE ~NextIs(s, i, {"+"}) /\ ~NextIs(s, i, {"-"}) /\ NextIs(s, i, {"("})
    <3>1. q(f) = q(g) /\ (q(f) = Failure \/ Read(s, i + 2, q(f)))
      BY <1>2, <1>3, <2>3, Zenon
    <3> DEFINE t == q(f)
               c == Skip(s, t.at)
    <3>2. /\ F = IF t.value # None /\ NextIs(s, c, {")"})
                 THEN [t EXCEPT !.at = c + 1] ELSE Failure
          /\ Parsed(s, g, j) = F
      BY <1>1, <2>3, <3>1, Zenon
    <3>3. CASE ~ (t.value # None /\ NextIs(s, c, {")"}))
      BY <3>2, <3>3, Zenon
    <3>4. CASE t.value # None /\ NextIs(s, c, {")"})
      <4>1. Read(s, i + 2, t)
        BY <3>1, <3>4, FailureIs, Zenon
      <4>2. i + 2 \in Nat
        BY <1>0
      <4>3. t.value \in Fractions /\ t.at \in i + 2..Len(s) /\ t = [value |-> t.value, at |-> t.at]
        BY <4>1, <4>2, ReadIs, Zenon
      <4>4. F = [t EXCEPT !.at = c + 1]
        BY <3>2, <3>4, Zenon
      <4>5. c < Len(s)
        BY <3>4 DEF NextIs
      <4> DEFINE w == t.value
                 p == t.at
      <4>6. c \in p..Len(s)
        <5> HIDE DEF t, i
        <5>1. p \in 0..Len(s)
          BY <1>0, <4>3
        <5> HIDE DEF p
        <5> QED BY <5>1, SkipIs DEF p
      <4> HIDE DEF t, i, F, c
      <4>7. F = [value |-> w, at |-> c + 1]
        BY <4>3, <4>4
      <4>8. w \in Fractions /\ c + 1 \in i + 1..Len(s)
        BY <1>0, <4>3, <4>5, <4>6
      <4>9. Read(s, a + 1, F)
        BY <1>4, <4>7, <4>8, Zenon
      <4> QED BY <3>2, <4>9, Zenon DEF F
    <3> QED BY <3>3, <3>4, Zenon
  <2>4. CASE ~NextIs(s, i, {"+"}) /\ ~NextIs(s, i, {"-"}) /\ ~NextIs(s, i, {"("})
    <3>1. /\ F = IF read = None THEN Failure ELSE [value |-> read, at |-> end]
          /\ Parsed(s, g, j) = F
      BY <1>1, <2>4, Zenon
    <3>2. read # None => read \in Fractions /\ end \in i + 1..Len(s)
      BY <1>0, NumberRead
    <3> HIDE DEF F, i, read, end
    <3>3. CASE read = None
      BY <3>1, <3>3, Zenon DEF F
    <3>4. CASE read # None
      <4>1. Read(s, a + 1, F)
        BY <1>4, <3>1, <3>2, <3>4, Zenon
      <4> QED BY <3>1, <4>1, Zenon DEF F
    <3> QED BY <3>3, <3>4, Zenon
  <2> QED BY <2>1, <2>2, <2>3, <2>4, Zenon
<1>6. j.rule = "factor" /\ j.at = a /\ "factor" \notin Rests
  BY DEF Job, Rests
<1> HIDE DEF j
<1>7. Result(s, j, F)
  BY <1>5, <1>6, Zenon DEF Result
<1> QED BY <1>5, <1>7, Zenon DEF j

\* A job needs jobs of a lower rank only, and gives a result it may give.
LEMMA ParsedKnown ==
  ASSUME NEW s, Len(s) \in Nat, NEW f, NEW g, NEW job \in Jobs(s),
         Agree(s, f, g, Rank(s, job))
  PROVE  Parsed(s, f, job) = Parsed(s, g, job) /\ Result(s, job, Parsed(s, f, job))
<1> DEFINE v == job.value
           a == job.at
<1>1. job = Job(job.rule, v, a) /\ v \in Fractions \union {None} /\ a \in 0..Len(s)
  BY DEF Jobs, Job
<1>2. job.rule \in Rules
  BY DEF Jobs
<1> HIDE DEF v, a
<1>3. CASE job.rule \in Rests
  BY <1>1, <1>3, RestKnown
<1>4. CASE job.rule = "factor"
  <2>1. job = Job("factor", v, a)
    BY <1>1, <1>4, Zenon
  <2> QED BY <1>1, <2>1, FactorKnown
<1>5. CASE job.rule = "expr" \/ job.rule = "term"
  <2> DEFINE rule == job.rule
             operand == IF rule = "expr" THEN "term" ELSE "factor"
             rest == IF rule = "expr" THEN "exprRest" ELSE "termRest"
             n == Rank(s, job)
             r(h) == h[Job(operand, None, a)]
             t(h) == h[Job(rest, r(h).value, r(h).at)]
  <2>1. operand \in Rules \ Rests /\ rest \in Rests /\ rule \notin Rests
    BY <1>5 DEF Rules, Rests
  <2>2. \A h : Parsed(s, h, job) = t(h)
    <3>1. ASSUME NEW h
          PROVE  /\ Parsed(s, h, Job("expr", v, a))
                      = h[Job("exprRest", h[Job("term", None, a)].value, h[Job("term", None, a)].at)]
                 /\ Parsed(s, h, Job("term", v, a))
                      = h[Job("termRest", h[Job("factor", None, a)].value, h[Job("factor", None, a)].at)]
      BY ExprIs
    <3>2. CASE rule = "expr"
      BY <1>1, <3>1, <3>2, Zenon
    <3>3. CASE rule = "term"
      BY <1>1, <3>1, <3>3, Zenon
    <3> QED BY <1>5, <3>2, <3>3, Zenon
  <2>3. Rank(s, Job(operand, None, a)) < n /\ 4 * (Len(s) - a) < n /\ n \in Nat
    <3> DEFINE o == None
    <3>0. o \in Fractions \union {None}
      OBVIOUS
    <3> HIDE DEF o
    <3>1. /\ Rank(s, Job("factor", o, a)) = 4 * (Len(s) - a) + 1
          /\ Rank(s, Job("term", o, a)) = 4 * (Len(s) - a) + 2
      BY <1>1, <3>0, RankIs
    <3>2. /\ Rank(s, Job("term", v, a)) = 4 * (Len(s) - a) + 2
          /\ Rank(s, Job("expr", v, a)) = 4 * (Len(s) - a) + 3
      BY <1>1, RankIs
    <3>3. CASE rule = "expr"
      <4>1. n = 4 * (Len(s) - a) + 3 /\ Rank(s, Job(operand, o, a)) = 4 * (Len(s) - a) + 2
        BY <1>1, <3>1, <3>2, <3>3, Zenon
      <4> HIDE DEF n, operand
      <4> QED BY <1>1, <4>1 DEF o
    <3>4. CASE rule = "term"
      <4>1. n = 4 * (Len(s) - a) + 2 /\ Rank(s, Job(operand, o, a)) = 4 * (Len(s) - a) + 1
        BY <1>1, <3>1, <3>2, <3>4, Zenon
      <4> HIDE DEF n, operand
      <4> QED BY <1>1, <4>1 DEF o
    <3> QED BY <1>5, <3>3, <3>4
  <2>4. Agree(s, f, g, n)
    OBVIOUS
  <2> HIDE DEF operand, rest, n
  <2>5. t(f) = t(g) /\ (t(f) = Failure \/ Read(s, a + 1, t(f)))
    BY <1>1, <2>1, <2>3, <2>4, ChainKnown
  <2>6. job.at = a
    BY DEF a
  <2> HIDE DEF t, a
  <2> QED BY <2>1, <2>2, <2>5, <2>6, Zenon DEF Result
<1> QED BY <1>2, <1>3, <1>4, <1>5 DEF Rules, Rests

\* There are finitely many ranks.
LEMMA RankTyped ==
  ASSUME NEW s, Len(s) \in Nat, NEW job \in Jobs(s)
  PROVE  Rank(s, job) \in 0..4 * Len(s) + 3
<1>1. job.at \in 0..Len(s)
  BY DEF Jobs
<1> DEFINE a == job.at
<1>2. 4 * (Len(s) - a) \in 0..4 * Len(s)
  <2>1. Len(s) - a \in Nat /\ Len(s) - a <= Len(s)
    BY <1>1
  <2> QED BY <2>1
<1> DEFINE left == 4 * (Len(s) - a)
<1> HIDE DEF left
<1>3. left \in 0..4 * Len(s)
  BY <1>2 DEF left
<1>4. Rank(s, job) \in {0, left + 1, left + 2, left + 3}
  BY DEF Rank, left
<1> QED BY <1>3, <1>4

\* The jobs up to a rank.
Upto(s, n) == {job \in Jobs(s) : Rank(s, job) <= n}

\* What is computed is what a job may have.
LEMMA UptoResults ==
  ASSUME NEW s, Len(s) \in Nat, NEW n \in Nat, NEW f,
         f = [job \in Upto(s, n) |-> Parsed(s, f, job)]
  PROVE  \A job \in Upto(s, n) : Result(s, job, f[job])
<1> DEFINE Good == {m \in Nat : \A job \in Upto(s, n) : Rank(s, job) <= m
                                                      => Result(s, job, f[job])}
<1>1. ASSUME NEW k \in Nat, \A m \in 0..k - 1 : m \in Good
      PROVE  k \in Good
  <2> SUFFICES ASSUME NEW job \in Upto(s, n), Rank(s, job) <= k
               PROVE  Result(s, job, f[job])
    OBVIOUS
  <2>1. job \in Jobs(s) /\ Rank(s, job) <= n
    BY DEF Upto
  <2>2. Agree(s, f, f, Rank(s, job))
    <3> SUFFICES ASSUME NEW j \in Jobs(s), Rank(s, j) < Rank(s, job)
                 PROVE  Result(s, j, f[j])
      BY Zenon DEF Agree
    <3>1. Rank(s, j) \in Nat /\ Rank(s, job) \in Nat
      BY <2>1, RankTyped
    <3>2. Rank(s, j) <= n /\ k - 1 \in 0..k - 1 /\ Rank(s, j) <= k - 1
      BY <2>1, <3>1
    <3>3. j \in Upto(s, n)
      BY <3>2, Zenon DEF Upto
    <3>4. k - 1 \in Good
      BY <1>1, <3>2, Zenon
    <3> QED BY <3>2, <3>3, <3>4, Zenon
  <2>3. f[job] = Parsed(s, f, job)
    BY Zenon
  <2>4. Result(s, job, Parsed(s, f, job))
    BY <2>1, <2>2, ParsedKnown
  <2> QED BY <2>3, <2>4, Zenon
<1> HIDE DEF Good
<1>2. Nat \subseteq Good
  BY <1>1, AllNumbers
<1>3. ASSUME NEW job \in Upto(s, n)
      PROVE  Result(s, job, f[job])
  <2>1. Rank(s, job) <= n /\ n \in Good
    BY <1>2 DEF Upto
  <2> QED BY <2>1, Zenon DEF Good
<1> QED BY <1>3

\* So the recursive function of Parse exists: by induction on the rank.
LEMMA ParseExists ==
  ASSUME NEW s, Len(s) \in Nat
  PROVE  \E f : f = [job \in Jobs(s) |-> Parsed(s, f, job)]
<1> DEFINE Done == {n \in Nat : \E f : f = [job \in Upto(s, n) |-> Parsed(s, f, job)]}
<1>1. ASSUME NEW k \in Nat, \A n \in 0..k - 1 : n \in Done
      PROVE  k \in Done
  <2>1. \E f : k > 0 => f = [job \in Upto(s, k - 1) |-> Parsed(s, f, job)]
    <3>1. CASE k = 0
      BY <3>1
    <3>2. CASE k # 0
      <4>1. k - 1 \in 0..k - 1
        BY <3>2
      <4>2. k - 1 \in Done
        BY <1>1, <4>1, Zenon
      <4> QED BY <4>2, Zenon
    <3> QED BY <3>1, <3>2
  <2>2. PICK f : k > 0 => f = [job \in Upto(s, k - 1) |-> Parsed(s, f, job)]
    BY <2>1
  <2> DEFINE g == [job \in Upto(s, k) |-> Parsed(s, f, job)]
  <2>3. \A job \in Upto(s, k) : g[job] = Parsed(s, f, job)
    OBVIOUS
  <2>4. g = [job \in Upto(s, k) |-> g[job]]
    OBVIOUS
  <2> HIDE DEF g
  <2>5. ASSUME NEW job \in Upto(s, k)
        PROVE  Parsed(s, f, job) = Parsed(s, g, job)
    <3>1. job \in Jobs(s) /\ Rank(s, job) \in Nat /\ Rank(s, job) <= k
      BY RankTyped DEF Upto
    <3>2. Agree(s, f, g, Rank(s, job))
      <4> SUFFICES ASSUME NEW j \in Jobs(s), Rank(s, j) < Rank(s, job)
                   PROVE  f[j] = g[j] /\ Result(s, j, f[j])
        BY Zenon DEF Agree
      <4>1. Rank(s, j) \in Nat
        BY RankTyped
      <4>2. k > 0 /\ k - 1 \in Nat /\ Rank(s, j) <= k - 1 /\ Rank(s, j) <= k
        BY <3>1, <4>1
      <4>3. j \in Upto(s, k - 1) /\ j \in Upto(s, k)
        BY <4>2, Zenon DEF Upto
      <4>4. f = [i \in Upto(s, k - 1) |-> Parsed(s, f, i)]
        BY <2>2, <4>2, Zenon
      <4>5. Result(s, j, f[j])
        <5> DEFINE m == k - 1
        <5>1. m \in Nat /\ f = [i \in Upto(s, m) |-> Parsed(s, f, i)] /\ j \in Upto(s, m)
          BY <4>2, <4>3, <4>4
        <5> HIDE DEF m
        <5> QED BY <5>1, UptoResults
      <4>6. f[j] = g[j]
        BY <2>3, <4>3, <4>4, Zenon
      <4> QED BY <4>5, <4>6
    <3> QED BY <3>1, <3>2, ParsedKnown
  <2>6. \A job \in Upto(s, k) : g[job] = Parsed(s, g, job)
    BY <2>3, <2>5, Zenon
  <2>7. g = [job \in Upto(s, k) |-> Parsed(s, g, job)]
    BY <2>4, <2>6, Zenon
  <2> QED BY <2>7, Zenon
<1> HIDE DEF Done
<1>2. Nat \subseteq Done
  BY <1>1, AllNumbers
<1> USE DEF Done
<1>3. PICK f : f = [job \in Upto(s, 4 * Len(s) + 3) |-> Parsed(s, f, job)]
  BY <1>2
<1>4. Upto(s, 4 * Len(s) + 3) = Jobs(s)
  BY RankTyped DEF Upto
<1> QED BY <1>3, <1>4, Zenon

\* The parser of a text.
Parser(s, f) ==
  /\ f = [job \in Jobs(s) |-> Parsed(s, f, job)]
  /\ \A job \in Jobs(s) : Result(s, job, f[job])

\* Parse is such a function at the start of the text.
LEMMA ParseIs ==
  ASSUME NEW s, Len(s) \in Nat
  PROVE  \E f : Parser(s, f) /\ Parse(s) = f[Job("expr", None, 0)]
<1>1. \E f : f = [job \in Jobs(s) |-> Parsed(s, f, job)]
  BY ParseExists
<1>2. PICK f : /\ f = [job \in Jobs(s) |-> Parsed(s, f, job)]
               /\ Parse(s) = f[Job("expr", None, 0)]
  BY <1>1, Zenon DEF Parse, Parsed, Job, Jobs
<1>3. Upto(s, 4 * Len(s) + 3) = Jobs(s)
  BY RankTyped DEF Upto
<1>4. f = [job \in Upto(s, 4 * Len(s) + 3) |-> Parsed(s, f, job)]
  BY <1>2, <1>3, Zenon
<1>5. \A job \in Upto(s, 4 * Len(s) + 3) : Result(s, job, f[job])
  <2> DEFINE n == 4 * Len(s) + 3
  <2>1. n \in Nat /\ f = [job \in Upto(s, n) |-> Parsed(s, f, job)]
    BY <1>4
  <2> HIDE DEF n
  <2>2. \A job \in Upto(s, n) : Result(s, job, f[job])
    BY <2>1, UptoResults
  <2> QED BY <2>2 DEF n
<1> QED BY <1>2, <1>3, <1>5, Zenon DEF Parser

-----------------------------------------------------------------------------
(* What the parser of a text does with its parts. *)

LEMMA NoneOr == None \in Fractions \union {None}
OBVIOUS

\* A parser does what the rules say.
LEMMA Operate ==
  ASSUME NEW s, Len(s) \in Nat, NEW f, Parser(s, f),
         NEW rule \in Rules, NEW v \in Fractions \union {None}, NEW a \in 0..Len(s)
  PROVE  f[Job(rule, v, a)] = Parsed(s, f, Job(rule, v, a))
<1> DEFINE j == Job(rule, v, a)
<1>1. j \in Jobs(s)
  BY JobIs
<1> HIDE DEF j
<1>2. f[j] = Parsed(s, f, j)
  BY <1>1, Zenon DEF Parser
<1> QED BY <1>2 DEF j

\* The value and the place of a result that is no failure.
LEMMA ResultIs ==
  ASSUME NEW s, Len(s) \in Nat, NEW f, Parser(s, f),
         NEW rule \in Rules, NEW v \in Fractions \union {None}, NEW a \in 0..Len(s)
  PROVE  LET r == f[Job(rule, v, a)]
         IN  r.value # None =>
               /\ r.value \in Fractions /\ r = [value |-> r.value, at |-> r.at]
               /\ rule \in Rests => v # None /\ r.at \in a..Len(s)
               /\ rule \notin Rests => r.at \in a + 1..Len(s)
<1> DEFINE j == Job(rule, v, a)
           r == f[j]
<1>1. j \in Jobs(s) /\ j.rule = rule /\ j.value = v /\ j.at = a
  BY DEF Job, Jobs
<1> HIDE DEF j
<1>2. Result(s, j, r)
  BY <1>1, Zenon DEF Parser
<1> HIDE DEF r
<1>3. ASSUME r.value # None
      PROVE  /\ r.value \in Fractions /\ r = [value |-> r.value, at |-> r.at]
             /\ rule \in Rests => v # None /\ r.at \in a..Len(s)
             /\ rule \notin Rests => r.at \in a + 1..Len(s)
  <2>1. r # Failure
    BY <1>3, FailureIs
  <2>2. /\ rule \in Rests => v # None
        /\ Read(s, IF rule \in Rests THEN a ELSE a + 1, r)
    BY <1>1, <1>2, <2>1, Zenon DEF Result
  <2>3. CASE rule \in Rests
    <3>1. Read(s, a, r) /\ a \in Nat
      BY <2>2, <2>3
    <3> QED BY <2>2, <2>3, <3>1, ReadIs
  <2>4. CASE rule \notin Rests
    <3>1. Read(s, a + 1, r) /\ a + 1 \in Nat
      BY <2>2, <2>4
    <3>2. r.value \in Fractions /\ r = [value |-> r.value, at |-> r.at] /\ r.at \in a + 1..Len(s)
      BY <3>1, ReadIs
    <3> QED BY <2>4, <3>2
  <2> QED BY <2>3, <2>4
<1> QED BY <1>3 DEF r, j

\* ParseExpr and ParseTerm: an operand, then the loop.
LEMMA ChainStep ==
  ASSUME NEW s, Len(s) \in Nat, NEW f, Parser(s, f), NEW a \in 0..Len(s)
  PROVE  /\ LET r == f[Job("term", None, a)]
            IN  f[Job("expr", None, a)] = f[Job("exprRest", r.value, r.at)]
         /\ LET r == f[Job("factor", None, a)]
            IN  f[Job("term", None, a)] = f[Job("termRest", r.value, r.at)]
<1>1. "expr" \in Rules /\ "term" \in Rules
  BY DEF Rules
<1>2. /\ f[Job("expr", None, a)] = Parsed(s, f, Job("expr", None, a))
      /\ f[Job("term", None, a)] = Parsed(s, f, Job("term", None, a))
  BY <1>1, NoneOr, Operate
<1> QED BY <1>2, ExprIs

\* The loop with a value.
LEMMA RestEqual ==
  ASSUME NEW s, Len(s) \in Nat, NEW f, Parser(s, f), NEW rule \in Rests,
         NEW v \in Fractions, NEW a \in 0..Len(s)
  PROVE  LET i == Skip(s, a)
             right == f[Job(Operand[rule], None, i + 1)]
         IN  f[Job(rule, v, a)] =
               IF ~NextIs(s, i, Signs[rule]) THEN [value |-> v, at |-> i]
               ELSE IF right.value = None \/ (s[i + 1] = "/" /\ right.value[1] = 0)
               THEN Failure
               ELSE f[Job(rule, Apply(s[i + 1], v, right.value), right.at)]
<1>1. rule \in Rules /\ rule \in {"exprRest", "termRest"}
  BY DEF Rules, Rests
<1>2. v \in Fractions \union {None} /\ v # None
  BY FailureIs
<1>3. f[Job(rule, v, a)] = Parsed(s, f, Job(rule, v, a))
  BY <1>1, <1>2, Operate
<1> DEFINE i == Skip(s, a)
           right == f[Job(Operand[rule], None, i + 1)]
           e == IF ~NextIs(s, i, Signs[rule]) THEN [value |-> v, at |-> i]
               ELSE IF right.value = None \/ (s[i + 1] = "/" /\ right.value[1] = 0)
               THEN Failure
               ELSE f[Job(rule, Apply(s[i + 1], v, right.value), right.at)]
<1>4. Parsed(s, f, Job(rule, v, a)) = IF v = None THEN Failure ELSE e
  BY <1>1, RestIs
<1> HIDE DEF e
<1>5. f[Job(rule, v, a)] = e
  BY <1>2, <1>3, <1>4, Zenon
<1> QED BY <1>5, Zenon DEF e

\* A loop first skips the spaces.
LEMMA RestAt ==
  ASSUME NEW s, Len(s) \in Nat, NEW f, Parser(s, f), NEW rule \in Rests,
         NEW v \in Fractions, NEW a \in 0..Len(s), NEW b \in a..Len(s), Blank(s, a, b)
  PROVE  f[Job(rule, v, a)] = f[Job(rule, v, b)]
<1>1. b \in 0..Len(s) /\ Skip(s, a) = Skip(s, b)
  BY SkipOn
<1> DEFINE i == Skip(s, a)
           right == f[Job(Operand[rule], None, i + 1)]
           e == IF ~NextIs(s, i, Signs[rule]) THEN [value |-> v, at |-> i]
               ELSE IF right.value = None \/ (s[i + 1] = "/" /\ right.value[1] = 0)
               THEN Failure
               ELSE f[Job(rule, Apply(s[i + 1], v, right.value), right.at)]
<1>2. f[Job(rule, v, a)] = e
  BY RestEqual
<1>3. f[Job(rule, v, b)] = e
  <2> DEFINE k == Skip(s, b)
             other == f[Job(Operand[rule], None, k + 1)]
             d == IF ~NextIs(s, k, Signs[rule]) THEN [value |-> v, at |-> k]
                 ELSE IF other.value = None \/ (s[k + 1] = "/" /\ other.value[1] = 0)
                 THEN Failure
                 ELSE f[Job(rule, Apply(s[k + 1], v, other.value), other.at)]
  <2>1. f[Job(rule, v, b)] = d
    BY <1>1, RestEqual
  <2>2. d = e
    BY <1>1, Zenon
  <2> HIDE DEF d, e
  <2> QED BY <2>1, <2>2
<1> HIDE DEF e
<1> QED BY <1>2, <1>3

\* The loop ends where none of its operators is next.
LEMMA RestStops ==
  ASSUME NEW s, Len(s) \in Nat, NEW f, Parser(s, f), NEW rule \in Rests,
         NEW v \in Fractions, NEW a \in 0..Len(s), ~NextIs(s, Skip(s, a), Signs[rule])
  PROVE  f[Job(rule, v, a)] = [value |-> v, at |-> Skip(s, a)]
<1> DEFINE i == Skip(s, a)
           right == f[Job(Operand[rule], None, i + 1)]
           e == IF right.value = None \/ (s[i + 1] = "/" /\ right.value[1] = 0)
                THEN Failure
                ELSE f[Job(rule, Apply(s[i + 1], v, right.value), right.at)]
<1>1. f[Job(rule, v, a)] = IF ~NextIs(s, i, Signs[rule]) THEN [value |-> v, at |-> i] ELSE e
  BY RestEqual
<1> HIDE DEF e
<1> QED BY <1>1, Zenon

\* An operator and an operand.
LEMMA RestGoesOn ==
  ASSUME NEW s, Len(s) \in Nat, NEW f, Parser(s, f), NEW rule \in Rests,
         NEW v \in Fractions, NEW i \in 1..Len(s), s[i] \in Signs[rule],
         NEW y \in Fractions, NEW p, s[i] # "/" \/ y[1] # 0,
         f[Job(Operand[rule], None, i)] = [value |-> y, at |-> p]
  PROVE  f[Job(rule, v, i - 1)] = f[Job(rule, Apply(s[i], v, y), p)]
<1> DEFINE a == i - 1
<1>1. a \in 0..Len(s) /\ a + 1 = i /\ a < Len(s) /\ i \in Int
  OBVIOUS
<1>s. s[i] # " "
  BY RulesAre DEF Rests
<1> HIDE DEF a
<1>2. Skip(s, a) = a
  <2>1. Blank(s, a, a) /\ a \in a..Len(s)
    <3>1. a \in a..Len(s) /\ \A j \in (a + 1)..a : FALSE
      BY <1>1
    <3> QED BY <3>1, Zenon DEF Blank
  <2>2. s[a + 1] # " "
    BY <1>1, <1>s
  <2> QED BY <1>1, <2>1, <2>2, SkipSame
<1>3. NextIs(s, a, Signs[rule])
  BY <1>1 DEF NextIs
<1> DEFINE k == Skip(s, a)
           right == f[Job(Operand[rule], None, k + 1)]
<1>4. f[Job(rule, v, a)] =
               IF ~NextIs(s, k, Signs[rule]) THEN [value |-> v, at |-> k]
               ELSE IF right.value = None \/ (s[k + 1] = "/" /\ right.value[1] = 0)
               THEN Failure
               ELSE f[Job(rule, Apply(s[k + 1], v, right.value), right.at)]
  BY <1>1, RestEqual
<1>5. k + 1 = i
  BY <1>1, <1>2
<1>6. right = [value |-> y, at |-> p]
  BY <1>5
<1>7. right.value = y /\ right.at = p /\ y # None
  BY <1>6, FailureIs
<1> HIDE DEF k, right
<1>8. f[Job(rule, v, a)] = f[Job(rule, Apply(s[i], v, y), p)]
  BY <1>2, <1>3, <1>4, <1>5, <1>7, Zenon DEF k
<1> QED BY <1>8 DEF a

\* ParseFactor, whatever is next.
LEMMA FactorEqual ==
  ASSUME NEW s, Len(s) \in Nat, NEW f, Parser(s, f), NEW a \in 0..Len(s)
  PROVE  LET i == Skip(s, a)
             signed == f[Job("factor", None, i + 1)]
             inner == f[Job("expr", None, i + 1)]
             close == Skip(s, inner.at)
             end == Past(s, i, NumberChars)
             read == Stod(SubSeq(s, i + 1, end))
         IN  f[Job("factor", None, a)] =
               IF NextIs(s, i, {"+"}) THEN signed
               ELSE IF NextIs(s, i, {"-"})
               THEN IF signed.value = None THEN Failure
                    ELSE [signed EXCEPT !.value = <<-@[1], @[2]>>]
               ELSE IF NextIs(s, i, {"("})
               THEN IF inner.value # None /\ NextIs(s, close, {")"})
                    THEN [inner EXCEPT !.at = close + 1] ELSE Failure
               ELSE IF read = None THEN Failure ELSE [value |-> read, at |-> end]
<1>1. "factor" \in Rules
  BY DEF Rules
<1>2. f[Job("factor", None, a)] = Parsed(s, f, Job("factor", None, a))
  BY <1>1, NoneOr, Operate
<1> QED BY <1>2, FactorIs, Zenon

\* What is at the first character that is not a space.
LEMMA FactorAt ==
  ASSUME NEW s, Len(s) \in Nat, NEW f, Parser(s, f), NEW a \in 0..Len(s), NEW i, i = Skip(s, a)
  PROVE  LET r == f[Job("factor", None, a)]
             signed == f[Job("factor", None, i + 1)]
             inner == f[Job("expr", None, i + 1)]
             close == Skip(s, inner.at)
             end == Past(s, i, NumberChars)
             read == Stod(SubSeq(s, i + 1, end))
         IN  /\ NextIs(s, i, {"+"}) => r = signed
             /\ NextIs(s, i, {"-"}) =>
                  r = IF signed.value = None THEN Failure
                      ELSE [signed EXCEPT !.value = <<-@[1], @[2]>>]
             /\ NextIs(s, i, {"("}) =>
                  r = IF inner.value # None /\ NextIs(s, close, {")"})
                      THEN [inner EXCEPT !.at = close + 1] ELSE Failure
             /\ ~NextIs(s, i, {"+", "-", "("}) =>
                  r = IF read = None THEN Failure ELSE [value |-> read, at |-> end]
<1> DEFINE r == f[Job("factor", None, a)]
           signed == f[Job("factor", None, i + 1)]
           inner == f[Job("expr", None, i + 1)]
           close == Skip(s, inner.at)
           end == Past(s, i, NumberChars)
           read == Stod(SubSeq(s, i + 1, end))
           A == signed
           B == IF signed.value = None THEN Failure
                ELSE [signed EXCEPT !.value = <<-@[1], @[2]>>]
           C == IF inner.value # None /\ NextIs(s, close, {")"})
                THEN [inner EXCEPT !.at = close + 1] ELSE Failure
           D == IF read = None THEN Failure ELSE [value |-> read, at |-> end]
<1>1. r = IF NextIs(s, i, {"+"}) THEN A ELSE IF NextIs(s, i, {"-"}) THEN B
          ELSE IF NextIs(s, i, {"("}) THEN C ELSE D
  BY FactorEqual, Zenon
<1> HIDE DEF r, A, B, C, D
<1>2. /\ NextIs(s, i, {"-"}) => ~NextIs(s, i, {"+"})
      /\ NextIs(s, i, {"("}) => ~NextIs(s, i, {"+"}) /\ ~NextIs(s, i, {"-"})
      /\ ~NextIs(s, i, {"+", "-", "("}) =>
           ~NextIs(s, i, {"+"}) /\ ~NextIs(s, i, {"-"}) /\ ~NextIs(s, i, {"("})
  BY Zenon DEF NextIs
<1>3. /\ NextIs(s, i, {"+"}) => r = A
      /\ NextIs(s, i, {"-"}) => r = B
      /\ NextIs(s, i, {"("}) => r = C
      /\ ~NextIs(s, i, {"+", "-", "("}) => r = D
  BY <1>1, <1>2, Zenon
<1> QED BY <1>3, Zenon DEF r, A, B, C, D

-----------------------------------------------------------------------------
(* The parser finds every value a part has by the grammar, if the part is not
   continued. *)

FollowsFactor(s, b) == b < Len(s) => s[b + 1] \notin NumberChars
FollowsTerm(s, b) == Skip(s, b) < Len(s) => s[Skip(s, b) + 1] \in {"+", "-", "*", "/", ")"}
FollowsExpr(s, b) == Skip(s, b) < Len(s) => s[Skip(s, b) + 1] \in {"+", "-", ")"}

FactorFound(s, g, f, a, b) ==
  \A v \in g[<<a + 1, b>>].factor : FollowsFactor(s, b) =>
    \E p \in a + 1..b : /\ f[Job("factor", None, a)] = [value |-> v, at |-> p]
                        /\ Blank(s, p, b)
TermFound(s, g, f, a, b) ==
  \A v \in g[<<a + 1, b>>].term : FollowsTerm(s, b) =>
    f[Job("term", None, a)] = f[Job("termRest", v, b)]
ExprFound(s, g, f, a, b) ==
  \A v \in g[<<a + 1, b>>].expr : FollowsExpr(s, b) =>
    f[Job("expr", None, a)] = f[Job("exprRest", v, b)]

\* No operator, bracket or space is a character of a number.
LEMMA CharsApart ==
  /\ \A c \in {"+", "-", "*", "/", "(", ")", " "} : c \notin NumberChars
  /\ \A c \in NumberChars : c \notin {"+", "-", "*", "/", "(", ")", " "}
BY NumeralsAre DEF NumberChars

LEMMA BlankNone ==
  ASSUME NEW s, NEW a \in Nat
  PROVE  Blank(s, a, a)
<1>1. \A j \in (a + 1)..a : FALSE
  OBVIOUS
<1> QED BY <1>1, Zenon DEF Blank

LEMMA SkipNone ==
  ASSUME NEW s, Len(s) \in Nat, NEW a \in 0..Len(s) - 1
  PROVE  s[a + 1] # " " => Skip(s, a) = a
<1>1. a \in 0..Len(s) /\ a \in a..Len(s) /\ a \in Nat
  OBVIOUS
<1>2. Blank(s, a, a)
  BY <1>1, BlankNone
<1> QED BY <1>1, <1>2, SkipSame

\* Each thing that may follow a longer part may follow a shorter one.
LEMMA FollowsAll ==
  ASSUME NEW s, Len(s) \in Nat, NEW b \in 0..Len(s)
  PROVE  /\ FollowsExpr(s, b) => FollowsTerm(s, b)
         /\ FollowsTerm(s, b) => FollowsFactor(s, b)
<1>1. FollowsExpr(s, b) => FollowsTerm(s, b)
  BY Zenon DEF FollowsExpr, FollowsTerm
<1>2. ASSUME FollowsTerm(s, b), b < Len(s)
      PROVE  s[b + 1] \notin NumberChars
  <2>1. CASE s[b + 1] = " "
    BY <2>1, CharsApart
  <2>2. CASE s[b + 1] # " "
    <3>1. b \in 0..Len(s) - 1
      BY <1>2
    <3>2. Skip(s, b) = b
      BY <3>1, <2>2, SkipNone
    <3>3. s[b + 1] \in {"+", "-", "*", "/", ")"}
      BY <1>2, <3>2, Zenon DEF FollowsTerm
    <3> QED BY <3>3, CharsApart
  <2> QED BY <2>1, <2>2
<1> QED BY <1>1, <1>2, Zenon DEF FollowsFactor

\* What follows an operand is what the operator needs.
LEMMA FollowsBefore ==
  ASSUME NEW s, Len(s) \in Nat, NEW i \in 1..Len(s)
  PROVE  /\ s[i] \in {"*", "/"} => FollowsTerm(s, i - 1)
         /\ s[i] \in {"+", "-", ")"} => FollowsExpr(s, i - 1)
         /\ s[i] = " " => FollowsFactor(s, i - 1)
<1> DEFINE b == i - 1
<1>1. b \in 0..Len(s) - 1 /\ b + 1 = i
  OBVIOUS
<1> HIDE DEF b
<1>2. s[i] # " " => Skip(s, b) = b
  BY <1>1, SkipNone
<1>3. s[i] \in {"*", "/"} => FollowsTerm(s, b)
  BY <1>1, <1>2 DEF FollowsTerm
<1>4. s[i] \in {"+", "-", ")"} => FollowsExpr(s, b)
  BY <1>1, <1>2 DEF FollowsExpr
<1>5. s[i] = " " => FollowsFactor(s, b)
  BY <1>1, CharsApart DEF FollowsFactor
<1> QED BY <1>3, <1>4, <1>5 DEF b

Inside(s, g, f, n) ==
  \A c \in 0..Len(s), d \in 0..Len(s) : d - c < n =>
    FactorFound(s, g, f, c, d) /\ TermFound(s, g, f, c, d) /\ ExprFound(s, g, f, c, d)

\* ParseFactor where no space is next.
LEMMA FactorHere ==
  ASSUME NEW s, Len(s) \in Nat, NEW f, Parser(s, f), NEW a \in 0..Len(s), Skip(s, a) = a
  PROVE  LET r == f[Job("factor", None, a)]
             signed == f[Job("factor", None, a + 1)]
             inner == f[Job("expr", None, a + 1)]
             close == Skip(s, inner.at)
             end == Past(s, a, NumberChars)
             read == Stod(SubSeq(s, a + 1, end))
         IN  /\ NextIs(s, a, {"+"}) => r = signed
             /\ NextIs(s, a, {"-"}) =>
                  r = IF signed.value = None THEN Failure
                      ELSE [signed EXCEPT !.value = <<-@[1], @[2]>>]
             /\ NextIs(s, a, {"("}) =>
                  r = IF inner.value # None /\ NextIs(s, close, {")"})
                      THEN [inner EXCEPT !.at = close + 1] ELSE Failure
             /\ ~NextIs(s, a, {"+", "-", "("}) =>
                  r = IF read = None THEN Failure ELSE [value |-> read, at |-> end]
<1>1. a = Skip(s, a)
  OBVIOUS
<1> QED BY <1>1, FactorAt, SMT

\* The rule of ParseFactor that applies to a part.
LEMMA FactorFinds ==
  ASSUME NEW s, Len(s) \in Nat, NEW g, Values(s, g), NEW f, Parser(s, f),
         NEW a \in 0..Len(s), NEW b \in 0..Len(s), Inside(s, g, f, b - a)
  PROVE  FactorFound(s, g, f, a, b)
<1> SUFFICES ASSUME NEW v \in g[<<a + 1, b>>].factor, FollowsFactor(s, b)
             PROVE  \E p \in a + 1..b : /\ f[Job("factor", None, a)] = [value |-> v, at |-> p]
                                        /\ Blank(s, p, b)
  BY Zenon DEF FactorFound
<1> DEFINE F == f[Job("factor", None, a)]
<1>1. a + 1 \in 1..Len(s) + 1
  OBVIOUS
<1>2. InFactor(s, g, a + 1, b, v)
  BY <1>1, ValuesAre, Zenon
<1>3. a + 1 <= b
  BY <1>2, Zenon DEF InFactor
<1>4. /\ a + 1 \in 0..Len(s) /\ a < Len(s) /\ a \in 0..Len(s) - 1
      /\ (a + 1) + 1 = a + 2 /\ b - (a + 1) < b - a
      /\ b - 1 \in 0..Len(s) /\ (b - 1) - a < b - a /\ (b - 1) - (a + 1) < b - a
      /\ b \in 1..Len(s) /\ b - 1 < Len(s) /\ (b - 1) + 1 = b /\ b \in a + 1..b
  BY <1>3
<1>5. /\ FactorFound(s, g, f, a + 1, b) /\ FactorFound(s, g, f, a, b - 1)
      /\ ExprFound(s, g, f, a + 1, b - 1)
  BY <1>4, Zenon DEF Inside
<1>6. ASSUME s[a + 1] # " "
      PROVE  LET signed == f[Job("factor", None, a + 1)]
                 inner == f[Job("expr", None, a + 1)]
                 close == Skip(s, inner.at)
                 end == Past(s, a, NumberChars)
                 read == Stod(SubSeq(s, a + 1, end))
             IN  /\ s[a + 1] = "+" => F = signed
                 /\ s[a + 1] = "-" =>
                      F = IF signed.value = None THEN Failure
                          ELSE [signed EXCEPT !.value = <<-@[1], @[2]>>]
                 /\ s[a + 1] = "(" =>
                      F = IF inner.value # None /\ NextIs(s, close, {")"})
                          THEN [inner EXCEPT !.at = close + 1] ELSE Failure
                 /\ s[a + 1] \in NumberChars =>
                      F = IF read = None THEN Failure ELSE [value |-> read, at |-> end]
  <2>1. Skip(s, a) = a
    BY <1>4, <1>6, SkipNone, Zenon
  <2>2. /\ s[a + 1] = "+" => NextIs(s, a, {"+"})
        /\ s[a + 1] = "-" => NextIs(s, a, {"-"})
        /\ s[a + 1] = "(" => NextIs(s, a, {"("})
        /\ s[a + 1] \in NumberChars => ~NextIs(s, a, {"+", "-", "("})
    BY <1>4, CharsApart, Zenon DEF NextIs
  <2> DEFINE signed == f[Job("factor", None, a + 1)]
             inner == f[Job("expr", None, a + 1)]
             close == Skip(s, inner.at)
             end == Past(s, a, NumberChars)
             read == Stod(SubSeq(s, a + 1, end))
             B == IF signed.value = None THEN Failure
                  ELSE [signed EXCEPT !.value = <<-@[1], @[2]>>]
             C == IF inner.value # None /\ NextIs(s, close, {")"})
                  THEN [inner EXCEPT !.at = close + 1] ELSE Failure
             D == IF read = None THEN Failure ELSE [value |-> read, at |-> end]
  <2>3. /\ NextIs(s, a, {"+"}) => F = signed
        /\ NextIs(s, a, {"-"}) => F = B
        /\ NextIs(s, a, {"("}) => F = C
        /\ ~NextIs(s, a, {"+", "-", "("}) => F = D
    BY <2>1, FactorHere, SMT
  <2> HIDE DEF F, signed, B, C, D
  <2>4. /\ s[a + 1] = "+" => F = signed
        /\ s[a + 1] = "-" => F = B
        /\ s[a + 1] = "(" => F = C
        /\ s[a + 1] \in NumberChars => F = D
    BY <2>2, <2>3, Zenon
  <2> QED BY <2>4, Zenon DEF F, signed, B, C, D
<1>7. CASE s[a + 1] = " "
  <2>1. v \in g[<<a + 2, b>>].factor
    BY <1>2, <1>4, <1>7, Zenon DEF InFactor
  <2>2. PICK p \in (a + 1) + 1..b :
          /\ f[Job("factor", None, a + 1)] = [value |-> v, at |-> p]
          /\ Blank(s, p, b)
    BY <1>4, <1>5, <2>1, Zenon DEF FactorFound
  <2>3. Skip(s, a) = Skip(s, a + 1)
    <3>1. Blank(s, a, a + 1)
      <4>1. \A j \in (a + 1)..(a + 1) : j = a + 1
        OBVIOUS
      <4> QED BY <1>7, <4>1, Zenon DEF Blank
    <3>2. a + 1 \in a..Len(s)
      BY <1>4
    <3> QED BY <3>1, <3>2, SkipOn
  <2>4. F = f[Job("factor", None, a + 1)]
    <3> DEFINE i == Skip(s, a)
               signed == f[Job("factor", None, i + 1)]
               inner == f[Job("expr", None, i + 1)]
               close == Skip(s, inner.at)
               end == Past(s, i, NumberChars)
               read == Stod(SubSeq(s, i + 1, end))
               e == IF NextIs(s, i, {"+"}) THEN signed
               ELSE IF NextIs(s, i, {"-"})
               THEN IF signed.value = None THEN Failure
                    ELSE [signed EXCEPT !.value = <<-@[1], @[2]>>]
               ELSE IF NextIs(s, i, {"("})
               THEN IF inner.value # None /\ NextIs(s, close, {")"})
                    THEN [inner EXCEPT !.at = close + 1] ELSE Failure
               ELSE IF read = None THEN Failure ELSE [value |-> read, at |-> end]
    <3>1. F = e
      BY FactorEqual
    <3> DEFINE c == a + 1
               k == Skip(s, c)
               other == f[Job("factor", None, k + 1)]
               within == f[Job("expr", None, k + 1)]
               shut == Skip(s, within.at)
               last == Past(s, k, NumberChars)
               number == Stod(SubSeq(s, k + 1, last))
               d == IF NextIs(s, k, {"+"}) THEN other
               ELSE IF NextIs(s, k, {"-"})
               THEN IF other.value = None THEN Failure
                    ELSE [other EXCEPT !.value = <<-@[1], @[2]>>]
               ELSE IF NextIs(s, k, {"("})
               THEN IF within.value # None /\ NextIs(s, shut, {")"})
                    THEN [within EXCEPT !.at = shut + 1] ELSE Failure
               ELSE IF number = None THEN Failure ELSE [value |-> number, at |-> last]
    <3>2. c \in 0..Len(s)
      BY <1>4
    <3> HIDE DEF c
    <3>3. f[Job("factor", None, c)] = d
      BY <3>2, FactorEqual, Zenon
    <3>4. k = i
      BY <2>3, Zenon DEF c
    <3> HIDE DEF i, k
    <3>5. d = e
      BY <3>4, Zenon
    <3> HIDE DEF d, e
    <3> QED BY <3>1, <3>3, <3>5, Zenon DEF c
  <2>5. p \in a + 1..b
    OBVIOUS
  <2> QED BY <2>2, <2>4, <2>5, Zenon
<1>8. CASE s[a + 1] = "+"
  <2>1. v \in g[<<a + 2, b>>].factor
    BY <1>2, <1>4, <1>8, Zenon DEF InFactor
  <2>2. PICK p \in (a + 1) + 1..b :
          /\ f[Job("factor", None, a + 1)] = [value |-> v, at |-> p]
          /\ Blank(s, p, b)
    BY <1>4, <1>5, <2>1, Zenon DEF FactorFound
  <2>3. F = f[Job("factor", None, a + 1)]
    BY <1>6, <1>8, Zenon
  <2>4. p \in a + 1..b
    OBVIOUS
  <2> QED BY <2>2, <2>3, <2>4, Zenon
<1>9. CASE ~ (s[a + 1] \in {" ", "+"}) /\ s[b] = " "
  <2>1. v \in g[<<a + 1, b - 1>>].factor
    BY <1>2, <1>9, Zenon DEF InFactor
  <2>2. FollowsFactor(s, b - 1)
    BY <1>4, <1>9, FollowsBefore, Zenon
  <2>3. PICK p \in a + 1..b - 1 : /\ F = [value |-> v, at |-> p]
                                  /\ Blank(s, p, b - 1)
    BY <1>5, <2>1, <2>2, Zenon DEF FactorFound
  <2>4. p \in a + 1..b
    OBVIOUS
  <2>5. Blank(s, p, b)
    <3>1. \A j \in (p + 1)..b : j \in (p + 1)..(b - 1) \/ j = b
      OBVIOUS
    <3> QED BY <1>9, <2>3, <3>1, Zenon DEF Blank
  <2> QED BY <2>3, <2>4, <2>5, Zenon
<1>10. CASE s[b] # " " /\ s[a + 1] = "-"
  <2>1. PICK x \in g[<<a + 2, b>>].factor : v = <<-x[1], x[2]>>
    BY <1>2, <1>4, <1>10, Zenon DEF InFactor
  <2>2. PICK p \in (a + 1) + 1..b :
          /\ f[Job("factor", None, a + 1)] = [value |-> x, at |-> p]
          /\ Blank(s, p, b)
    BY <1>4, <1>5, <2>1, Zenon DEF FactorFound
  <2> DEFINE t == f[Job("factor", None, a + 1)]
  <2>3. F = IF t.value = None THEN Failure ELSE [t EXCEPT !.value = <<-@[1], @[2]>>]
    BY <1>6, <1>10, Zenon
  <2>4. x # None
    <3>1. a + 2 \in 1..Len(s) + 1
      BY <1>4
    <3>2. x \in Fractions
      BY <2>1, <3>1, ValuesTyped, Zenon
    <3> QED BY <3>2, FailureIs
  <2>5. t = [value |-> x, at |-> p] /\ t.value = x
    BY <2>2
  <2> HIDE DEF t, F
  <2>6. F = [t EXCEPT !.value = <<-@[1], @[2]>>]
    BY <2>3, <2>4, <2>5, Zenon
  <2>7. F = [value |-> v, at |-> p]
    BY <2>1, <2>5, <2>6
  <2>8. p \in a + 1..b
    OBVIOUS
  <2> QED BY <2>2, <2>7, <2>8, Zenon DEF F
<1>11. CASE s[b] = ")" /\ s[a + 1] = "("
  <2>1. v \in g[<<a + 2, b - 1>>].expr
    BY <1>2, <1>4, <1>11, Zenon DEF InFactor
  <2>2. FollowsExpr(s, b - 1)
    BY <1>4, <1>11, FollowsBefore, Zenon
  <2> DEFINE t == f[Job("expr", None, a + 1)]
  <2>3. t = f[Job("exprRest", v, b - 1)]
    BY <1>4, <1>5, <2>1, <2>2, Zenon DEF ExprFound
  <2>4. v \in Fractions
    <3>1. a + 2 \in 1..Len(s) + 1
      BY <1>4
    <3> QED BY <1>4, <2>1, <3>1, ValuesTyped, Zenon
  <2>5. Skip(s, b - 1) = b - 1
    <3>1. b - 1 \in 0..Len(s) - 1
      BY <1>4
    <3>2. s[(b - 1) + 1] # " "
      <4>1. ")" # " "
        OBVIOUS
      <4> QED BY <1>4, <1>11, <4>1, Zenon
    <3> QED BY <3>1, <3>2, SkipNone, Zenon
  <2>6. t = [value |-> v, at |-> b - 1]
    <3>1. "exprRest" \in Rests /\ Signs["exprRest"] = {"+", "-"}
      BY RulesAre DEF Rests
    <3>2. ~NextIs(s, Skip(s, b - 1), Signs["exprRest"])
      BY <1>4, <1>11, <2>5, <3>1 DEF NextIs
    <3> DEFINE c == b - 1
    <3>3. c \in 0..Len(s) /\ ~NextIs(s, Skip(s, c), Signs["exprRest"])
      BY <1>4, <3>2
    <3> DEFINE rule == "exprRest"
    <3>r. rule \in Rests /\ ~NextIs(s, Skip(s, c), Signs[rule])
      BY <3>1, <3>3
    <3> HIDE DEF c, rule
    <3>t. f[Job(rule, v, c)] = [value |-> v, at |-> Skip(s, c)]
      BY <2>4, <3>r, <3>3, RestStops, Zenon
    <3>4. f[Job("exprRest", v, c)] = [value |-> v, at |-> Skip(s, c)]
      BY <3>t DEF rule
    <3> QED BY <2>3, <2>5, <3>4, Zenon DEF c
  <2>7. t.value # None /\ NextIs(s, Skip(s, t.at), {")"}) /\ t.at = b - 1
    <3>1. t.value = v /\ t.at = b - 1
      BY <2>6
    <3>2. NextIs(s, b - 1, {")"})
      BY <1>4, <1>11 DEF NextIs
    <3>3. v # None
      BY <2>4, FailureIs
    <3> QED BY <2>5, <3>1, <3>2, <3>3, Zenon
  <2>8. F = IF t.value # None /\ NextIs(s, Skip(s, t.at), {")"})
            THEN [t EXCEPT !.at = Skip(s, t.at) + 1] ELSE Failure
    BY <1>6, <1>11, Zenon
  <2>9. F = [t EXCEPT !.at = b]
    <3>1. F = [t EXCEPT !.at = Skip(s, t.at) + 1]
      BY <2>7, <2>8, Zenon
    <3>2. Skip(s, t.at) + 1 = b
      BY <1>4, <2>5, <2>7
    <3> QED BY <3>1, <3>2
  <2> HIDE DEF F, t
  <2>10. F = [value |-> v, at |-> b]
    BY <2>6, <2>9
  <2>11. Blank(s, b, b)
    BY BlankNone
  <2> QED BY <1>4, <2>10, <2>11, Zenon DEF F
<1>12. CASE ~ (s[a + 1] \in {" ", "+", "-"}) /\ s[b] # " " /\ ~ (s[b] = ")" /\ s[a + 1] = "(")
  <2> DEFINE t == SubSeq(s, a + 1, b)
             end == Past(s, a, NumberChars)
  <2>1. IsNumber(t) /\ v = NumberValue(t)
    BY <1>2, <1>12, Zenon DEF InFactor
  <2>2. /\ Len(t) = b - a /\ Len(t) \in Nat /\ \A i \in 1..Len(t) : t[i] = s[(a + 1) + i - 1]
    <3>1. /\ Len(t) \in Nat /\ Len(t) = IF a + 1 <= b THEN b - (a + 1) + 1 ELSE 0
          /\ \A i \in 1..Len(t) : t[i] = s[(a + 1) + i - 1]
      BY <1>1, PartIs
    <3> HIDE DEF t
    <3> QED BY <1>3, <3>1
  <2>3. \A i \in 1..Len(t) : t[i] \in NumberChars
    BY <2>1, Zenon DEF IsNumber
  <2>4. Stod(t) = v /\ v \in Fractions
    <3> HIDE DEF t
    <3> QED BY <2>1, <2>2, <2>3, StodIs
  <2> HIDE DEF t
  <2>5. \A j \in a + 1..b : s[j] \in NumberChars
    <3> TAKE j \in a + 1..b
    <3>1. j - a \in 1..Len(t) /\ (a + 1) + (j - a) - 1 = j
      <4>1. j - a \in 1..b - a /\ (a + 1) + (j - a) - 1 = j
        OBVIOUS
      <4>2. Len(t) = b - a
        BY <2>2, Zenon
      <4> QED BY <4>1, <4>2, Zenon
    <3>2. t[j - a] = s[(a + 1) + (j - a) - 1] /\ t[j - a] \in NumberChars
      BY <2>2, <2>3, <3>1
    <3> QED BY <3>1, <3>2
  <2>6. end = b
    <3>1. b \in a..Len(s)
      BY <1>3
    <3> QED BY <2>5, <3>1, PastSame DEF FollowsFactor
  <2>7. s[a + 1] \in NumberChars
    <3>1. a + 1 \in a + 1..b
      BY <1>3
    <3> QED BY <2>5, <3>1
  <2>8. F = LET read == Stod(SubSeq(s, a + 1, end))
            IN  IF read = None THEN Failure ELSE [value |-> read, at |-> end]
    BY <1>6, <1>12, <2>7, Zenon
  <2>9. F = IF Stod(t) = None THEN Failure ELSE [value |-> Stod(t), at |-> b]
    BY <2>6, <2>8, Zenon DEF t
  <2>10. v # None
    BY <2>4, FailureIs
  <2>11. F = [value |-> v, at |-> b]
    BY <2>4, <2>9, <2>10, Zenon
  <2>12. Blank(s, b, b)
    BY BlankNone
  <2> QED BY <1>4, <2>11, <2>12, Zenon
<1> QED BY <1>7, <1>8, <1>9, <1>10, <1>11, <1>12, Zenon

\* An operator, an operand and the spaces behind it.
LEMMA RestTakes ==
  ASSUME NEW s, Len(s) \in Nat, NEW f, Parser(s, f), NEW rule \in Rests,
         NEW v \in Fractions, NEW i \in 1..Len(s), s[i] \in Signs[rule],
         NEW y \in Fractions, s[i] # "/" \/ y[1] # 0,
         NEW p \in 0..Len(s), NEW b \in p..Len(s), Blank(s, p, b),
         f[Job(Operand[rule], None, i)] = [value |-> y, at |-> p]
  PROVE  /\ f[Job(rule, v, i - 1)] = f[Job(rule, Apply(s[i], v, y), b)]
         /\ Apply(s[i], v, y) \in Fractions
<1> DEFINE w == Apply(s[i], v, y)
           op == s[i]
<1>1. f[Job(rule, v, i - 1)] = f[Job(rule, w, p)]
  BY RestGoesOn
<1>2. op \in Operators
  BY RulesAre DEF Operators, Rests
<1>3. op = "/" => y[1] # 0
  OBVIOUS
<1> HIDE DEF op
<1>4. Apply(op, v, y) \in Fractions
  BY <1>2, <1>3, ApplyIs
<1>5. w \in Fractions
  BY <1>4, Zenon DEF op
<1> HIDE DEF w
<1>6. f[Job(rule, w, p)] = f[Job(rule, w, b)]
  BY <1>5, RestAt
<1> QED BY <1>1, <1>5, <1>6, Zenon DEF w

\* A term that no operator of a term follows.
LEMMA TermEnds ==
  ASSUME NEW s, Len(s) \in Nat, NEW f, Parser(s, f),
         NEW v \in Fractions, NEW b \in 0..Len(s), FollowsExpr(s, b)
  PROVE  /\ f[Job("termRest", v, b)] = [value |-> v, at |-> Skip(s, b)]
         /\ Skip(s, b) \in b..Len(s) /\ Blank(s, b, Skip(s, b))
         /\ f[Job("exprRest", v, b)] = f[Job("exprRest", v, Skip(s, b))]
<1> DEFINE i == Skip(s, b)
           rule == "termRest"
           other == "exprRest"
<1>1. i \in b..Len(s) /\ Blank(s, b, i)
  BY SkipIs
<1>2. rule \in Rests /\ other \in Rests /\ Signs[rule] = {"*", "/"}
  BY RulesAre DEF Rests
<1>3. ~NextIs(s, i, {"*", "/"})
  BY DEF NextIs, FollowsExpr
<1>4. ~NextIs(s, i, Signs[rule])
  BY <1>2, <1>3, Zenon
<1> HIDE DEF rule, other
<1>5. f[Job(rule, v, b)] = [value |-> v, at |-> i]
  <2>1. rule \in Rests /\ ~NextIs(s, Skip(s, b), Signs[rule])
    BY <1>2, <1>4
  <2> QED BY <2>1, RestStops, SMTT(20)
<1> HIDE DEF i
<1>6. f[Job(other, v, b)] = f[Job(other, v, i)]
  BY <1>1, <1>2, RestAt
<1> QED BY <1>1, <1>5, <1>6, Zenon DEF i, rule, other

\* ParseTerm finds a value of a term and goes on behind it.
LEMMA TermFinds ==
  ASSUME NEW s, Len(s) \in Nat, NEW g, Values(s, g), NEW f, Parser(s, f),
         NEW a \in 0..Len(s), NEW b \in 0..Len(s), Inside(s, g, f, b - a),
         FactorFound(s, g, f, a, b)
  PROVE  TermFound(s, g, f, a, b)
<1> SUFFICES ASSUME NEW v \in g[<<a + 1, b>>].term, FollowsTerm(s, b)
             PROVE  f[Job("term", None, a)] = f[Job("termRest", v, b)]
  BY Zenon DEF TermFound
<1>1. a + 1 \in 1..Len(s) + 1
  OBVIOUS
<1>2. InTerm(s, g, a + 1, b, v) /\ v \in Fractions
  BY <1>1, ValuesAre, ValuesTyped, Zenon
<1>3. FollowsFactor(s, b)
  BY FollowsAll, Zenon
<1> DEFINE rule == "termRest"
<1>4. rule \in Rests /\ Signs[rule] = {"*", "/"} /\ Operand[rule] = "factor"
  BY RulesAre DEF Rests
<1>5. CASE InFactor(s, g, a + 1, b, v)
  <2>1. v \in g[<<a + 1, b>>].factor
    BY <1>1, <1>5, ValuesAre, Zenon
  <2>2. PICK p \in a + 1..b : /\ f[Job("factor", None, a)] = [value |-> v, at |-> p]
                              /\ Blank(s, p, b)
    BY <1>3, <2>1, Zenon DEF FactorFound
  <2> DEFINE r == f[Job("factor", None, a)]
  <2>3. f[Job("term", None, a)] = f[Job(rule, r.value, r.at)]
    BY ChainStep
  <2>4. r.value = v /\ r.at = p
    BY <2>2
  <2> HIDE DEF r, rule
  <2>5. p \in 0..Len(s) /\ b \in p..Len(s)
    OBVIOUS
  <2>6. f[Job(rule, v, p)] = f[Job(rule, v, b)]
    BY <1>2, <1>4, <2>2, <2>5, RestAt
  <2> QED BY <2>3, <2>4, <2>6, Zenon DEF rule
<1>6. ASSUME NEW i \in (a + 1) + 1..b - 1, s[i] \in {"*", "/"},
             NEW x \in g[<<a + 1, i - 1>>].term, NEW y \in g[<<i + 1, b>>].factor,
             s[i] # "/" \/ y[1] # 0, v = Apply(s[i], x, y)
      PROVE  f[Job("term", None, a)] = f[Job("termRest", v, b)]
  <2>1. /\ i - 1 \in 0..Len(s) /\ (i - 1) - a < b - a /\ i \in 0..Len(s) /\ b - i < b - a
        /\ i \in 1..Len(s) /\ i + 1 \in 1..Len(s) + 1
    OBVIOUS
  <2>2. TermFound(s, g, f, a, i - 1) /\ FactorFound(s, g, f, i, b)
    BY <2>1, Zenon DEF Inside
  <2>3. FollowsTerm(s, i - 1)
    BY <1>6, <2>1, FollowsBefore, Zenon
  <2>4. x \in Fractions /\ y \in Fractions
    BY <1>1, <2>1, ValuesTyped, Zenon
  <2>5. f[Job("term", None, a)] = f[Job("termRest", x, i - 1)]
    BY <2>2, <2>3, Zenon DEF TermFound
  <2>6. PICK p \in i + 1..b : /\ f[Job("factor", None, i)] = [value |-> y, at |-> p]
                              /\ Blank(s, p, b)
    BY <1>3, <2>2, Zenon DEF FactorFound
  <2>7. p \in 0..Len(s) /\ b \in p..Len(s)
    BY <2>1
  <2>8. s[i] \in Signs[rule] /\ f[Job(Operand[rule], None, i)] = [value |-> y, at |-> p]
    BY <1>4, <1>6, <2>6, Zenon
  <2> HIDE DEF rule
  <2>9. f[Job(rule, x, i - 1)] = f[Job(rule, Apply(s[i], x, y), b)]
    BY <1>4, <1>6, <2>1, <2>4, <2>6, <2>7, <2>8, RestTakes, SMTT(60)
  <2> QED BY <1>6, <2>5, <2>9, Zenon DEF rule
<1> QED BY <1>2, <1>5, <1>6, Zenon DEF InTerm

\* ParseExpr finds a value of an expression and goes on behind it.
LEMMA ExprFinds ==
  ASSUME NEW s, Len(s) \in Nat, NEW g, Values(s, g), NEW f, Parser(s, f),
         NEW a \in 0..Len(s), NEW b \in 0..Len(s), Inside(s, g, f, b - a),
         TermFound(s, g, f, a, b)
  PROVE  ExprFound(s, g, f, a, b)
<1> SUFFICES ASSUME NEW v \in g[<<a + 1, b>>].expr, FollowsExpr(s, b)
             PROVE  f[Job("expr", None, a)] = f[Job("exprRest", v, b)]
  BY Zenon DEF ExprFound
<1>1. a + 1 \in 1..Len(s) + 1
  OBVIOUS
<1>2. InExpr(s, g, a + 1, b, v) /\ v \in Fractions
  BY <1>1, ValuesAre, ValuesTyped, Zenon
<1>3. FollowsTerm(s, b)
  BY FollowsAll, Zenon
<1> DEFINE rule == "exprRest"
           p == Skip(s, b)
<1>4. rule \in Rests /\ Signs[rule] = {"+", "-"} /\ Operand[rule] = "term"
  BY RulesAre DEF Rests
<1>5. CASE InTerm(s, g, a + 1, b, v)
  <2>1. v \in g[<<a + 1, b>>].term
    BY <1>1, <1>5, ValuesAre, Zenon
  <2> DEFINE r == f[Job("term", None, a)]
  <2>2. r = f[Job("termRest", v, b)]
    BY <1>3, <2>1, Zenon DEF TermFound
  <2>3. /\ f[Job("termRest", v, b)] = [value |-> v, at |-> p]
        /\ f[Job("exprRest", v, b)] = f[Job("exprRest", v, p)]
    BY <1>2, TermEnds, Zenon
  <2>4. f[Job("expr", None, a)] = f[Job("exprRest", r.value, r.at)]
    BY ChainStep
  <2> HIDE DEF p, r
  <2>5. r.value = v /\ r.at = p
    BY <2>2, <2>3
  <2> QED BY <2>3, <2>4, <2>5, Zenon
<1>6. ASSUME NEW i \in (a + 1) + 1..b - 1, s[i] \in {"+", "-"},
             NEW x \in g[<<a + 1, i - 1>>].expr, NEW y \in g[<<i + 1, b>>].term,
             s[i] # "/" \/ y[1] # 0, v = Apply(s[i], x, y)
      PROVE  f[Job("expr", None, a)] = f[Job("exprRest", v, b)]
  <2>1. /\ i - 1 \in 0..Len(s) /\ (i - 1) - a < b - a /\ i \in 0..Len(s) /\ b - i < b - a
        /\ i \in 1..Len(s) /\ i + 1 \in 1..Len(s) + 1
    OBVIOUS
  <2>2. ExprFound(s, g, f, a, i - 1) /\ TermFound(s, g, f, i, b)
    BY <2>1, Zenon DEF Inside
  <2>3. FollowsExpr(s, i - 1)
    BY <1>6, <2>1, FollowsBefore, Zenon
  <2>4. x \in Fractions /\ y \in Fractions
    BY <1>1, <2>1, ValuesTyped, Zenon
  <2>5. f[Job("expr", None, a)] = f[Job("exprRest", x, i - 1)]
    BY <2>2, <2>3, Zenon DEF ExprFound
  <2>6. f[Job("term", None, i)] = f[Job("termRest", y, b)]
    BY <1>3, <2>2, Zenon DEF TermFound
  <2>a. /\ f[Job("termRest", y, b)] = [value |-> y, at |-> p]
        /\ p \in b..Len(s) /\ Blank(s, b, p)
    BY <2>4, TermEnds, Zenon
  <2>b. f[Job("exprRest", v, b)] = f[Job("exprRest", v, p)]
    BY <1>2, TermEnds, Zenon
  <2>7. /\ f[Job("termRest", y, b)] = [value |-> y, at |-> p]
        /\ p \in b..Len(s) /\ Blank(s, b, p)
        /\ f[Job("exprRest", v, b)] = f[Job("exprRest", v, p)]
    BY <2>a, <2>b, Zenon
  <2>8. s[i] \in Signs[rule] /\ f[Job(Operand[rule], None, i)] = [value |-> y, at |-> p]
    BY <1>4, <1>6, <2>6, <2>7, Zenon
  <2>9. Blank(s, p, p) /\ p \in p..Len(s) /\ p \in 0..Len(s)
    <3>1. p \in Nat
      BY <2>7
    <3> HIDE DEF p
    <3> QED BY <3>1, <2>7, BlankNone
  <2> HIDE DEF rule, p
  <2>10. f[Job(rule, x, i - 1)] = f[Job(rule, Apply(s[i], x, y), p)]
    BY <1>4, <1>6, <2>1, <2>4, <2>8, <2>9, RestTakes, SMTT(60)
  <2> QED BY <1>6, <2>5, <2>7, <2>10, Zenon DEF rule
<1> QED BY <1>2, <1>5, <1>6, Zenon DEF InExpr

\* Every value of every part is found: by induction on the part's length.
LEMMA AllInside ==
  ASSUME NEW s, Len(s) \in Nat, NEW g, Values(s, g), NEW f, Parser(s, f)
  PROVE  \A n \in Nat : Inside(s, g, f, n)
<1> DEFINE Good == {n \in Nat : Inside(s, g, f, n)}
<1>1. ASSUME NEW n \in Nat, \A m \in 0..n - 1 : m \in Good
      PROVE  n \in Good
  <2> SUFFICES ASSUME NEW c \in 0..Len(s), NEW d \in 0..Len(s), d - c < n
               PROVE  /\ FactorFound(s, g, f, c, d) /\ TermFound(s, g, f, c, d)
                      /\ ExprFound(s, g, f, c, d)
    BY Zenon DEF Inside
  <2>1. CASE d - c >= 0
    <3>1. d - c \in 0..n - 1
      BY <2>1
    <3>2. Inside(s, g, f, d - c)
      BY <1>1, <3>1, Zenon
    <3>3. FactorFound(s, g, f, c, d)
      BY <3>2, FactorFinds, Zenon
    <3>4. TermFound(s, g, f, c, d)
      BY <3>2, <3>3, TermFinds, Zenon
    <3>5. ExprFound(s, g, f, c, d)
      BY <3>2, <3>4, ExprFinds, Zenon
    <3> QED BY <3>3, <3>4, <3>5
  <2>2. CASE d - c < 0
    <3>1. c + 1 \in 1..Len(s) + 1 /\ ~ (c + 1 <= d) /\ \A i \in (c + 1) + 1..d - 1 : FALSE
      BY <2>2
    <3>2. \A v : /\ v \notin g[<<c + 1, d>>].factor /\ v \notin g[<<c + 1, d>>].term
                 /\ v \notin g[<<c + 1, d>>].expr
      <4> TAKE v
      <4>1. /\ ~ InFactor(s, g, c + 1, d, v) /\ ~ InTerm(s, g, c + 1, d, v)
            /\ ~ InExpr(s, g, c + 1, d, v)
        BY <3>1, Zenon DEF InFactor, InTerm, InExpr
      <4> QED BY <3>1, <4>1, ValuesAre, Zenon
    <3> QED BY <3>2, Zenon DEF FactorFound, TermFound, ExprFound
  <2> QED BY <2>1, <2>2
<1> HIDE DEF Good
<1>2. \A n \in Nat : n \in Good
  BY <1>1, AllNumbers, Zenon
<1> QED BY <1>2, Zenon DEF Good

\* What the grammar finds in a text is what the calculator answers.
LEMMA Complete ==
  ASSUME NEW s, Len(s) \in Nat, NEW v \in ExprValues(s)
  PROVE  Eval(s) = v /\ v \in Fractions
<1>1. PICK g : Values(s, g) /\ ExprValues(s) = g[<<1, Len(s)>>].expr
  BY ExprValuesIs
<1>2. PICK f : Parser(s, f) /\ Parse(s) = f[Job("expr", None, 0)]
  BY ParseIs
<1> DEFINE b == Len(s)
           rule == "exprRest"
<1>3. 0 \in 0..b /\ b \in 0..b /\ b - 0 < b + 1 /\ b + 1 \in Nat /\ 0 + 1 = 1 /\ 1 \in 1..b + 1
  OBVIOUS
<1>4. Inside(s, g, f, b + 1)
  BY <1>1, <1>2, <1>3, AllInside, Zenon
<1>5. ExprFound(s, g, f, 0, b)
  BY <1>3, <1>4, Zenon DEF Inside
<1>6. Skip(s, b) = b
  <2>1. Skip(s, b) \in b..b
    BY <1>3, SkipIs, Zenon
  <2> HIDE DEF b
  <2>2. b \in Int
    BY DEF b
  <2> QED BY <2>1, <2>2
<1>7. FollowsExpr(s, b)
  BY <1>6 DEF FollowsExpr
<1>8. Parse(s) = f[Job(rule, v, b)]
  BY <1>1, <1>2, <1>3, <1>5, <1>7, Zenon DEF ExprFound
<1>9. v \in Fractions
  <2>1. 1 \in 1..Len(s) + 1 /\ Len(s) \in 0..Len(s)
    BY <1>3
  <2>2. v \in g[<<1, Len(s)>>].expr
    BY <1>1, Zenon
  <2> QED BY <1>1, <2>1, <2>2, ValuesTyped, Zenon
<1>10. rule \in Rests /\ ~NextIs(s, Skip(s, b), Signs[rule])
  BY <1>6 DEF NextIs, Rests
<1> HIDE DEF b, rule
<1>11. f[Job(rule, v, b)] = [value |-> v, at |-> Skip(s, b)]
  <2>1. b \in 0..Len(s)
    BY DEF b
  <2> QED BY <1>2, <1>9, <1>10, <2>1, RestStops
<1>12. Parse(s).value = v /\ Parse(s).at = b /\ v # None
  BY <1>6, <1>8, <1>9, <1>11, FailureIs
<1> QED BY <1>6, <1>9, <1>12, Zenon DEF Eval, b

-----------------------------------------------------------------------------
(* What the parser answers is a value by the grammar, if no number has two
   points. *)

\* What the loop of a rule has read, and what it reads next.
Whole(g, rule, a, b) == IF rule = "termRest" THEN g[<<a, b>>].term ELSE g[<<a, b>>].expr
Part(g, rule, a, b) == IF rule = "termRest" THEN g[<<a, b>>].factor ELSE g[<<a, b>>].term

\* A part with a value is not empty.
LEMMA WholeIs ==
  ASSUME NEW s, Len(s) \in Nat, NEW g, Values(s, g), NEW rule \in Rests,
         NEW a \in 1..Len(s) + 1, NEW b \in 0..Len(s), NEW v \in Whole(g, rule, a, b)
  PROVE  a <= b /\ v \in Fractions
<1>1. v \in g[<<a, b>>].term \/ v \in g[<<a, b>>].expr
  BY Zenon DEF Whole
<1>2. v \in Fractions
  BY <1>1, ValuesTyped, Zenon
<1>3. InTerm(s, g, a, b, v) \/ InExpr(s, g, a, b, v)
  BY <1>1, ValuesAre, Zenon
<1>4. a <= b \/ (\E i \in a + 1..b - 1 : TRUE)
  BY <1>3, Zenon DEF InExpr, InTerm, InFactor
<1> QED BY <1>2, <1>4

LEMMA WholeBehind ==
  ASSUME NEW s, Len(s) \in Nat, NEW g, Values(s, g), NEW rule \in Rests,
         NEW a \in 1..Len(s) + 1, NEW b \in 0..Len(s), NEW v \in Whole(g, rule, a, b),
         NEW e \in b..Len(s), Blank(s, b, e)
  PROVE  v \in Whole(g, rule, a, e)
<1>1. /\ \A w \in g[<<a, b>>].term : w \in g[<<a, e>>].term
      /\ \A w \in g[<<a, b>>].expr : w \in g[<<a, e>>].expr
  BY SpacesBehind, Zenon
<1> QED BY <1>1, Zenon DEF Whole

LEMMA PartWhole ==
  ASSUME NEW s, Len(s) \in Nat, NEW g, Values(s, g), NEW rule \in Rests,
         NEW a \in 1..Len(s) + 1, NEW b \in 0..Len(s), NEW v \in Part(g, rule, a, b)
  PROVE  v \in Whole(g, rule, a, b)
<1>1. v \in g[<<a, b>>].factor => v \in g[<<a, b>>].term
  BY ValuesAre, Zenon DEF InTerm
<1>2. v \in g[<<a, b>>].term => v \in g[<<a, b>>].expr
  BY ValuesAre, Zenon DEF InExpr
<1> QED BY <1>1, <1>2, Zenon DEF Whole, Part

\* A whole, an operator and a part are a whole.
LEMMA WholeJoins ==
  ASSUME NEW s, Len(s) \in Nat, NEW g, Values(s, g), NEW rule \in Rests,
         NEW a \in 1..Len(s) + 1, NEW b \in 0..Len(s), NEW i \in a + 1..b - 1,
         s[i] \in Signs[rule], NEW x \in Whole(g, rule, a, i - 1),
         NEW y \in Part(g, rule, i + 1, b), s[i] # "/" \/ y[1] # 0
  PROVE  Apply(s[i], x, y) \in Whole(g, rule, a, b)
<1> DEFINE v == Apply(s[i], x, y)
<1>1. CASE rule = "termRest"
  <2>1. s[i] \in {"*", "/"}
    BY <1>1, RulesAre
  <2>2. x \in g[<<a, i - 1>>].term /\ y \in g[<<i + 1, b>>].factor
    BY <1>1, Zenon DEF Whole, Part
  <2>3. InTerm(s, g, a, b, v)
    BY <2>1, <2>2, Zenon DEF InTerm
  <2>4. v \in g[<<a, b>>].term
    BY <2>3, ValuesAre, Zenon
  <2> QED BY <1>1, <2>4, Zenon DEF Whole
<1>2. CASE rule = "exprRest"
  <2>1. s[i] \in {"+", "-"}
    BY <1>2, RulesAre
  <2>r. rule # "termRest"
    BY <1>2
  <2>2. x \in g[<<a, i - 1>>].expr /\ y \in g[<<i + 1, b>>].term
    BY <2>r, Zenon DEF Whole, Part
  <2>3. InExpr(s, g, a, b, v)
    BY <2>1, <2>2, Zenon DEF InExpr
  <2>4. v \in g[<<a, b>>].expr
    BY <2>3, ValuesAre, Zenon
  <2> QED BY <2>r, <2>4, Zenon DEF Whole
<1> QED BY <1>1, <1>2 DEF Rests

FactorTrue(s, g, f, a) ==
  LET r == f[Job("factor", None, a)]
  IN  r.value # None => r.value \in g[<<a + 1, r.at>>].factor /\ s[r.at] # " "
TermTrue(s, g, f, a) ==
  LET r == f[Job("term", None, a)]
  IN  r.value # None => r.value \in g[<<a + 1, r.at>>].term
ExprTrue(s, g, f, a) ==
  LET r == f[Job("expr", None, a)]
  IN  r.value # None => r.value \in g[<<a + 1, r.at>>].expr
OperandTrue(s, g, f, rule, a) ==
  LET r == f[Job(Operand[rule], None, a)]
  IN  r.value # None => r.value \in Part(g, rule, a + 1, r.at)
RestTrue(s, g, f, rule, a) ==
  \A c \in 0..a : \A v \in Whole(g, rule, c + 1, a) :
    LET r == f[Job(rule, v, a)]
    IN  r.value # None => r.value \in Whole(g, rule, c + 1, r.at)
AllTrue(s, g, f, a) ==
  /\ FactorTrue(s, g, f, a) /\ TermTrue(s, g, f, a) /\ ExprTrue(s, g, f, a)
  /\ \A rule \in Rests : RestTrue(s, g, f, rule, a)

LEMMA OperandIsTrue ==
  ASSUME NEW s, NEW g, NEW f, NEW a, FactorTrue(s, g, f, a), TermTrue(s, g, f, a),
         NEW rule \in Rests
  PROVE  OperandTrue(s, g, f, rule, a)
<1>1. CASE rule = "termRest"
  <2>1. Operand[rule] = "factor"
    BY <1>1, RulesAre
  <2> QED BY <1>1, <2>1, Zenon DEF OperandTrue, FactorTrue, Part
<1>2. CASE rule = "exprRest"
  <2>1. Operand[rule] = "term" /\ rule # "termRest"
    BY <1>2, RulesAre
  <2> QED BY <2>1, Zenon DEF OperandTrue, TermTrue, Part
<1> QED BY <1>1, <1>2 DEF Rests

\* The loop of ParseExpr and of ParseTerm.
LEMMA RestIsTrue ==
  ASSUME NEW s, Len(s) \in Nat, NEW g, Values(s, g), NEW f, Parser(s, f),
         NEW a \in 0..Len(s), NEW rule \in Rests,
         \A c \in a + 1..Len(s) : OperandTrue(s, g, f, rule, c) /\ RestTrue(s, g, f, rule, c)
  PROVE  RestTrue(s, g, f, rule, a)
<1> SUFFICES ASSUME NEW c \in 0..a, NEW v \in Whole(g, rule, c + 1, a),
                    f[Job(rule, v, a)].value # None
             PROVE  f[Job(rule, v, a)].value
                      \in Whole(g, rule, c + 1, f[Job(rule, v, a)].at)
  BY Zenon DEF RestTrue
<1> DEFINE k == c + 1
           i == Skip(s, a)
           r == f[Job(rule, v, a)]
<1>1. k \in 1..Len(s) + 1
  OBVIOUS
<1>2. v \in Fractions
  BY <1>1, WholeIs, Zenon
<1>3. i \in a..Len(s) /\ Blank(s, a, i) /\ i \in 0..Len(s)
  <2>1. i \in a..Len(s) /\ Blank(s, a, i)
    BY SkipIs, Zenon
  <2> HIDE DEF i
  <2> QED BY <2>1
<1>4. v \in Whole(g, rule, k, i)
  <2> HIDE DEF i, k
  <2>1. v \in Whole(g, rule, k, a)
    BY DEF k
  <2> QED BY <1>1, <1>3, <2>1, WholeBehind, Zenon
<1>5. CASE ~NextIs(s, i, Signs[rule])
  <2>1. r = [value |-> v, at |-> i]
    BY <1>2, <1>5, RestStops, SMTT(20)
  <2> HIDE DEF i, k, r
  <2>2. r.value = v /\ r.at = i
    BY <2>1
  <2>3. r.value \in Whole(g, rule, k, r.at)
    BY <1>4, <2>2, Zenon
  <2> QED BY <2>3, Zenon DEF r, k
<1>6. CASE NextIs(s, i, Signs[rule])
  <2> DEFINE j == i + 1
             y == f[Job(Operand[rule], None, j)]
             w == Apply(s[j], v, y.value)
             t == f[Job(rule, w, y.at)]
  <2>1. j \in 1..Len(s) /\ j \in 0..Len(s) /\ j \in a + 1..Len(s) /\ j - 1 = i
    <3>1. i < Len(s)
      BY <1>6, Zenon DEF NextIs
    <3> HIDE DEF i
    <3> QED BY <1>3, <3>1
  <2>s. s[j] \in Signs[rule]
    BY <1>6, Zenon DEF NextIs
  <2>2. r = IF y.value = None \/ (s[j] = "/" /\ y.value[1] = 0) THEN Failure ELSE t
    <3>1. r = IF ~NextIs(s, i, Signs[rule]) THEN [value |-> v, at |-> i]
              ELSE IF y.value = None \/ (s[j] = "/" /\ y.value[1] = 0) THEN Failure ELSE t
      BY <1>2, RestEqual, SMTT(20)
    <3> HIDE DEF i, j, y, r, t
    <3> QED BY <1>6, <3>1, Zenon
  <2>3. y.value # None /\ ~(s[j] = "/" /\ y.value[1] = 0) /\ r = t
    <3> HIDE DEF y, t, j
    <3> QED BY <2>2, FailureIs, Zenon
  <2>4. y.value \in Part(g, rule, j + 1, y.at)
    BY <2>1, <2>3, Zenon DEF OperandTrue
  <2>5. y.value \in Fractions /\ y.at \in j + 1..Len(s)
    <3> DEFINE operand == Operand[rule]
    <3>1. operand \in Rules /\ operand \notin Rests /\ None \in Fractions \union {None}
      BY RulesAre DEF Rests, Rules
    <3> HIDE DEF operand, j
    <3> DEFINE z == f[Job(operand, None, j)]
    <3>2. z.value # None =>
               /\ z.value \in Fractions /\ z = [value |-> z.value, at |-> z.at]
               /\ operand \in Rests => None # None /\ z.at \in j..Len(s)
               /\ operand \notin Rests => z.at \in j + 1..Len(s)
      BY <2>1, <3>1, ResultIs, Zenon
    <3> QED BY <2>3, <3>1, <3>2, Zenon DEF operand
  <2>6. k <= i
    <3> HIDE DEF i, k
    <3> QED BY <1>1, <1>3, <1>4, WholeIs, Zenon
  <2> HIDE DEF i, k, y
  <2>7. j \in k + 1..y.at - 1 /\ y.at \in 0..Len(s) /\ y.at \in a + 1..Len(s)
        /\ k - 1 \in 0..y.at /\ (k - 1) + 1 = k
    BY <1>1, <2>1, <2>5, <2>6
  <2> HIDE DEF j
  <2>8. v \in Whole(g, rule, k, j - 1)
    BY <1>4, <2>1, Zenon
  <2>9. w \in Whole(g, rule, k, y.at)
    <3> DEFINE z == y.value
               b == y.at
    <3>1. s[j] # "/" \/ z[1] # 0
      BY <2>3, Zenon
    <3>2. z \in Part(g, rule, j + 1, b) /\ b \in 0..Len(s) /\ j \in k + 1..b - 1
      BY <2>4, <2>7
    <3> HIDE DEF z, b
    <3>3. Apply(s[j], v, z) \in Whole(g, rule, k, b)
      BY <1>1, <2>s, <2>8, <3>1, <3>2, WholeJoins
    <3> QED BY <3>3, Zenon DEF z, b
  <2>10. RestTrue(s, g, f, rule, y.at)
    BY <2>7, Zenon
  <2> HIDE DEF w
  <2>11. t.value # None => t.value \in Whole(g, rule, k, t.at)
    BY <2>7, <2>9, <2>10, Zenon DEF RestTrue
  <2> HIDE DEF t
  <2> QED BY <2>3, <2>11, Zenon DEF k
<1> QED BY <1>5, <1>6

LEMMA Between ==
  ASSUME NEW n \in Nat, NEW a \in 0..n, NEW k \in a..n, NEW e \in k + 1..n
  PROVE  e \in 0..n /\ k \in 0..e /\ a \in 0..k
OBVIOUS

\* A result of ParseFactor, ParseTerm or ParseExpr lies behind its start.
LEMMA OperandResult ==
  ASSUME NEW s, Len(s) \in Nat, NEW f, Parser(s, f), NEW rule \in Rules \ Rests,
         NEW a \in 0..Len(s), f[Job(rule, None, a)].value # None
  PROVE  LET r == f[Job(rule, None, a)]
         IN  /\ r.value \in Fractions /\ r = [value |-> r.value, at |-> r.at]
             /\ r.at \in a + 1..Len(s)
<1> DEFINE v == None
           r == f[Job(rule, v, a)]
<1>1. v \in Fractions \union {None}
  BY NoneOr
<1> HIDE DEF v
<1>2. r.value # None =>
        /\ r.value \in Fractions /\ r = [value |-> r.value, at |-> r.at]
        /\ rule \in Rests => v # None /\ r.at \in a..Len(s)
        /\ rule \notin Rests => r.at \in a + 1..Len(s)
  BY <1>1, ResultIs, Zenon
<1> QED BY <1>2, Zenon DEF v

\* A number of the text is one by the grammar.
LEMMA NumberHere ==
  ASSUME NEW s, Len(s) \in Nat, ~HasOddNumber(s), NEW i \in 0..Len(s),
         Stod(SubSeq(s, i + 1, Past(s, i, NumberChars))) # None
  PROVE  LET end == Past(s, i, NumberChars)
             t == SubSeq(s, i + 1, end)
         IN  /\ IsNumber(t) /\ Stod(t) = NumberValue(t) /\ Stod(t) \in Fractions
             /\ end \in i + 1..Len(s)
             /\ s[i + 1] \in NumberChars /\ s[end] \in NumberChars
<1> DEFINE end == Past(s, i, NumberChars)
           t == SubSeq(s, i + 1, end)
<1>1. /\ Len(t) = end - i /\ \A k \in 1..Len(t) : t[k] \in NumberChars
      /\ \A k \in 1..Len(t) : t[k] = s[i + k]
      /\ Stod(t) \in Fractions /\ end \in i + 1..Len(s)
  BY NumberRead
<1> HIDE DEF end, t
<1>2. Len(t) \in Nat
  BY <1>1
<1>3. \A k \in i + 1..end : s[k] \in NumberChars
  <2> TAKE k \in i + 1..end
  <2>1. k - i \in 1..Len(t) /\ i + (k - i) = k
    BY <1>1
  <2> QED BY <1>1, <2>1
<1>4. ASSUME NEW p \in 1..Len(t), NEW q \in 1..Len(t), t[p] = ".", t[q] = ".", p < q
      PROVE  FALSE
  <2> DEFINE c == i + p
             d == i + q
  <2>1. c \in 1..Len(s) /\ d \in 1..Len(s) /\ c < d /\ \A k \in c..d : k \in i + 1..end
    BY <1>1, <1>4
  <2>2. s[c] = "." /\ s[d] = "."
    BY <1>1, <1>4
  <2> HIDE DEF c, d
  <2>3. \A k \in c..d : s[k] \in NumberChars
    BY <1>3, <2>1, Zenon
  <2> QED BY <2>1, <2>2, <2>3, Zenon DEF HasOddNumber
<1>5. \A p, q \in 1..Len(t) : t[p] = "." /\ t[q] = "." => p = q
  <2> SUFFICES ASSUME NEW p \in 1..Len(t), NEW q \in 1..Len(t), t[p] = ".", t[q] = ".", p # q
               PROVE  FALSE
    BY Zenon
  <2>1. p < q \/ q < p
    BY <1>2
  <2> QED BY <1>4, <2>1, Zenon
<1>6. IsNumber(t) /\ Stod(t) = NumberValue(t)
  <2>1. Stod(t) # None
    BY <1>1, FailureIs
  <2> QED BY <1>1, <1>2, <1>5, <2>1, StodIs, Zenon
<1>7. i + 1 \in i + 1..end /\ end \in i + 1..end
  BY <1>1
<1>8. s[i + 1] \in NumberChars /\ s[end] \in NumberChars
  BY <1>3, <1>7, Zenon
<1> QED BY <1>1, <1>6, <1>8, Zenon DEF end, t

\* ParseFactor.
LEMMA FactorIsTrue ==
  ASSUME NEW s, Len(s) \in Nat, ~HasOddNumber(s), NEW g, Values(s, g), NEW f, Parser(s, f),
         NEW a \in 0..Len(s),
         \A c \in a + 1..Len(s) : FactorTrue(s, g, f, c) /\ ExprTrue(s, g, f, c)
  PROVE  FactorTrue(s, g, f, a)
<1> DEFINE r == f[Job("factor", None, a)]
           i == Skip(s, a)
           j == i + 1
           signed == f[Job("factor", None, j)]
           inner == f[Job("expr", None, j)]
           close == Skip(s, inner.at)
           end == Past(s, i, NumberChars)
           read == Stod(SubSeq(s, j, end))
           minus == IF signed.value = None THEN Failure
                    ELSE [signed EXCEPT !.value = <<-@[1], @[2]>>]
           group == IF inner.value # None /\ NextIs(s, close, {")"})
                    THEN [inner EXCEPT !.at = close + 1] ELSE Failure
           number == IF read = None THEN Failure ELSE [value |-> read, at |-> end]
<1> SUFFICES ASSUME r.value # None
             PROVE  \E b \in j..Len(s) : r.at = b /\ r.value \in g[<<j, b>>].factor /\ s[b] # " "
  <2>1. ASSUME NEW b \in j..Len(s), r.at = b, r.value \in g[<<j, b>>].factor, s[b] # " "
        PROVE  r.value \in g[<<a + 1, r.at>>].factor /\ s[r.at] # " "
    <3>1. i \in a..Len(s) /\ Blank(s, a, i)
      BY SkipIs, Zenon
    <3>i. i \in a..Len(s)
      BY <3>1, Zenon
    <3> HIDE DEF i, r
    <3>2. b \in 0..Len(s) /\ i \in 0..b /\ a \in 0..i
      BY <3>i, Between, Zenon
    <3> DEFINE v == r.value
    <3>3. v \in g[<<i + 1, b>>].factor
      BY <2>1, Zenon
    <3> HIDE DEF v
    <3>4. v \in g[<<a + 1, b>>].factor
      BY <3>1, <3>2, <3>3, SpacesBefore
    <3> QED BY <2>1, <3>4, Zenon DEF v
  <2> HIDE DEF r, j
  <2> QED BY <2>1, Zenon DEF FactorTrue, r
<1>1. i \in a..Len(s)
  BY SkipIs, Zenon
<1>2. /\ NextIs(s, i, {"+"}) => r = signed
      /\ NextIs(s, i, {"-"}) => r = minus
      /\ NextIs(s, i, {"("}) => r = group
      /\ ~NextIs(s, i, {"+", "-", "("}) => r = number
  BY FactorAt, SMTT(20)
<1>3. ASSUME i < Len(s)
      PROVE  /\ j \in 0..Len(s) /\ j \in a + 1..Len(s) /\ j \in 1..Len(s) + 1
             /\ FactorTrue(s, g, f, j) /\ ExprTrue(s, g, f, j)
  <2>1. j \in 0..Len(s) /\ j \in a + 1..Len(s) /\ j \in 1..Len(s) + 1
    <3> HIDE DEF i
    <3> QED BY <1>1, <1>3
  <2> HIDE DEF j
  <2> QED BY <2>1, Zenon
<1>4. ASSUME NextIs(s, i, {"+", "-"}), signed.value # None, NEW v,
             s[j] = "+" => v = signed.value,
             s[j] = "-" => v = <<-signed.value[1], signed.value[2]>>
      PROVE  /\ signed.at \in j..Len(s) /\ v \in g[<<j, signed.at>>].factor
             /\ s[signed.at] # " " /\ signed = [value |-> signed.value, at |-> signed.at]
             /\ v # None
  <2>1. i < Len(s) /\ s[j] \in {"+", "-"}
    BY <1>4, Zenon DEF NextIs
  <2>2. /\ j \in 0..Len(s) /\ j \in 1..Len(s) + 1 /\ FactorTrue(s, g, f, j)
    BY <1>3, <2>1, Zenon
  <2> HIDE DEF i, j
  <2>3. "factor" \in Rules \ Rests
    BY DEF Rules, Rests
  <2>4. /\ signed = [value |-> signed.value, at |-> signed.at]
        /\ signed.at \in j + 1..Len(s) /\ signed.value \in Fractions
    <3> DEFINE rule == "factor"
    <3>1. rule \in Rules \ Rests /\ f[Job(rule, None, j)].value # None
      BY <1>4, <2>2, <2>3, Zenon
    <3> HIDE DEF rule
    <3>2. LET t == f[Job(rule, None, j)]
          IN  /\ t.value \in Fractions /\ t = [value |-> t.value, at |-> t.at]
              /\ t.at \in j + 1..Len(s)
      BY <2>2, <3>1, OperandResult
    <3> QED BY <3>2, Zenon DEF rule
  <2>5. signed.value \in g[<<j + 1, signed.at>>].factor /\ s[signed.at] # " "
    BY <1>4, <2>2, Zenon DEF FactorTrue
  <2> HIDE DEF signed
  <2>6. signed.at \in j..Len(s) /\ signed.at \in 0..Len(s) /\ j <= signed.at
    BY <2>2, <2>4
  <2>7. InFactor(s, g, j, signed.at, v)
    <3>1. CASE s[j] = "+"
      BY <1>4, <2>5, <2>6, <3>1, Zenon DEF InFactor
    <3>2. CASE s[j] = "-"
      <4>1. s[j] \notin {" ", "+"}
        BY <3>2
      <4> QED BY <1>4, <2>5, <2>6, <3>2, <4>1, Zenon DEF InFactor
    <3> QED BY <2>1, <3>1, <3>2
  <2>8. v \in g[<<j, signed.at>>].factor
    BY <2>2, <2>6, <2>7, ValuesAre, Zenon
  <2>9. v # None
    <3>1. v \in Fractions
      BY <2>2, <2>6, <2>8, ValuesTyped, Zenon
    <3> QED BY <3>1, FailureIs
  <2> QED BY <2>4, <2>5, <2>6, <2>8, <2>9
<1>5. CASE NextIs(s, i, {"+"})
  <2>1. NextIs(s, i, {"+", "-"}) /\ s[j] = "+"
    BY <1>5, Zenon DEF NextIs
  <2>2. r = signed
    BY <1>2, <1>5, Zenon
  <2> DEFINE v == signed.value
  <2>3. s[j] = "+" => v = signed.value
    OBVIOUS
  <2>4. s[j] = "-" => v = <<-signed.value[1], signed.value[2]>>
    <3>1. "+" # "-"
      OBVIOUS
    <3> QED BY <2>1, <3>1
  <2>5. signed.value # None
    BY <2>2, Zenon
  <2> HIDE DEF v
  <2>6. /\ signed.at \in j..Len(s) /\ v \in g[<<j, signed.at>>].factor
        /\ s[signed.at] # " "
    BY <1>4, <2>1, <2>3, <2>4, <2>5, Zenon
  <2> HIDE DEF r, signed, j
  <2> QED BY <2>2, <2>6, Zenon DEF v
<1>6. CASE NextIs(s, i, {"-"})
  <2>1. NextIs(s, i, {"+", "-"}) /\ s[j] = "-"
    BY <1>6, Zenon DEF NextIs
  <2>2. r = minus
    BY <1>2, <1>6, Zenon
  <2>3. signed.value # None /\ r = [signed EXCEPT !.value = <<-@[1], @[2]>>]
    <3> HIDE DEF signed, r
    <3> QED BY <2>2, FailureIs, Zenon
  <2> DEFINE v == <<-signed.value[1], signed.value[2]>>
  <2>4. s[j] = "+" => v = signed.value
    <3>1. "+" # "-"
      OBVIOUS
    <3> QED BY <2>1, <3>1
  <2>5. s[j] = "-" => v = <<-signed.value[1], signed.value[2]>>
    OBVIOUS
  <2>6. /\ signed.at \in j..Len(s) /\ v \in g[<<j, signed.at>>].factor
        /\ s[signed.at] # " " /\ signed = [value |-> signed.value, at |-> signed.at]
    <3> HIDE DEF v
    <3> QED BY <1>4, <2>1, <2>3, <2>4, <2>5, Zenon
  <2>7. r.value = v /\ r.at = signed.at
    <3> HIDE DEF signed, r
    <3> QED BY <2>3, <2>6
  <2> HIDE DEF r, signed, j, v
  <2> QED BY <2>6, <2>7, Zenon
<1>7. CASE NextIs(s, i, {"("})
  <2>1. i < Len(s) /\ s[j] = "("
    BY <1>7, Zenon DEF NextIs
  <2>2. /\ j \in 0..Len(s) /\ j \in 1..Len(s) + 1 /\ ExprTrue(s, g, f, j)
    BY <1>3, <2>1, Zenon
  <2>3. r = group
    BY <1>2, <1>7, Zenon
  <2> HIDE DEF i, j
  <2>4. inner.value # None /\ NextIs(s, close, {")"}) /\ r = [inner EXCEPT !.at = close + 1]
    <3> HIDE DEF inner, r, close
    <3> QED BY <2>3, FailureIs, Zenon
  <2>5. "expr" \in Rules \ Rests
    BY DEF Rules, Rests
  <2>6. /\ inner = [value |-> inner.value, at |-> inner.at]
        /\ inner.at \in j + 1..Len(s) /\ inner.value \in Fractions
    <3> DEFINE rule == "expr"
    <3>1. rule \in Rules \ Rests /\ f[Job(rule, None, j)].value # None
      BY <2>2, <2>4, <2>5, Zenon
    <3> HIDE DEF rule
    <3>2. LET t == f[Job(rule, None, j)]
          IN  /\ t.value \in Fractions /\ t = [value |-> t.value, at |-> t.at]
              /\ t.at \in j + 1..Len(s)
      BY <2>2, <3>1, OperandResult
    <3> QED BY <3>2, Zenon DEF rule
  <2>7. inner.value \in g[<<j + 1, inner.at>>].expr
    BY <2>2, <2>4, Zenon DEF ExprTrue
  <2> HIDE DEF inner
  <2>8. inner.at \in 0..Len(s) /\ j + 1 \in 1..Len(s) + 1
    BY <2>2, <2>6
  <2>9. close \in inner.at..Len(s) /\ Blank(s, inner.at, close)
    BY <2>8, SkipIs, Zenon
  <2> HIDE DEF close
  <2>10. inner.value \in g[<<j + 1, close>>].expr
    BY <2>7, <2>8, <2>9, SpacesBehind, Zenon
  <2> DEFINE b == close + 1
             v == inner.value
  <2>11. close < Len(s) /\ s[b] = ")"
    BY <2>4, Zenon DEF NextIs
  <2>12. b \in j..Len(s) /\ b \in 0..Len(s) /\ j <= b /\ b - 1 = close
    BY <2>2, <2>6, <2>8, <2>9, <2>11
  <2>13. r.value = v /\ r.at = b
    <3> HIDE DEF r
    <3> QED BY <2>4, <2>6
  <2> HIDE DEF b, v
  <2>14. s[b] # " " /\ s[j] \notin {" ", "+"} /\ s[j] # "-"
    BY <2>1, <2>11
  <2>15. v \in g[<<j + 1, b - 1>>].expr
    BY <2>10, <2>12, Zenon DEF v
  <2>16. InFactor(s, g, j, b, v)
    BY <2>1, <2>11, <2>12, <2>14, <2>15, Zenon DEF InFactor
  <2>17. v \in g[<<j, b>>].factor
    BY <2>2, <2>12, <2>16, ValuesAre, Zenon
  <2> HIDE DEF r
  <2> QED BY <2>12, <2>13, <2>14, <2>17, Zenon
<1>8. CASE ~NextIs(s, i, {"+", "-", "("})
  <2>1. r = number
    BY <1>2, <1>8, Zenon
  <2>2. read # None /\ r = [value |-> read, at |-> end]
    <3> HIDE DEF read, r, end
    <3> QED BY <2>1, FailureIs, Zenon
  <2>3. i \in 0..Len(s)
    <3> HIDE DEF i
    <3> QED BY <1>1
  <2> DEFINE t == SubSeq(s, j, end)
  <2>4. /\ IsNumber(t) /\ read = NumberValue(t)
        /\ end \in j..Len(s)
        /\ s[j] \in NumberChars /\ s[end] \in NumberChars
    <3> HIDE DEF i
    <3> QED BY <2>2, <2>3, NumberHere, Zenon
  <2>5. r.value = read /\ r.at = end
    <3> HIDE DEF read, r, end
    <3> QED BY <2>2
  <2>6. j \in 1..Len(s) + 1 /\ end \in 0..Len(s) /\ j <= end
    <3> HIDE DEF i, end
    <3> QED BY <2>3, <2>4
  <2> HIDE DEF r, end, j, read
  <2>7. /\ s[end] # " " /\ s[end] # ")" /\ s[j] \notin {" ", "+"}
        /\ s[j] # "-" /\ s[j] # "("
    BY <2>4, CharsApart
  <2>8. InFactor(s, g, j, end, read)
    BY <2>4, <2>6, <2>7, Zenon DEF InFactor
  <2>9. read \in g[<<j, end>>].factor
    BY <2>6, <2>8, ValuesAre, Zenon
  <2> QED BY <2>4, <2>5, <2>7, <2>9, Zenon
<1>9. NextIs(s, i, {"+", "-", "("}) => NextIs(s, i, {"+"}) \/ NextIs(s, i, {"-"}) \/ NextIs(s, i, {"("})
  BY Zenon DEF NextIs
<1> HIDE DEF i, j, r
<1> QED BY <1>5, <1>6, <1>7, <1>8, <1>9, Zenon

\* What a result is made of, a failure too.
LEMMA ResultTyped ==
  ASSUME NEW s, Len(s) \in Nat, NEW f, Parser(s, f),
         NEW rule \in Rules, NEW a \in 0..Len(s)
  PROVE  LET r == f[Job(rule, None, a)]
         IN  r.value \in Fractions \union {None} /\ r.at \in 0..Len(s)
<1> DEFINE v == None
           j == Job(rule, v, a)
           r == f[j]
           from == IF j.rule \in Rests THEN j.at ELSE j.at + 1
<1>1. v \in Fractions \union {None}
  BY NoneOr
<1> HIDE DEF v
<1> SUFFICES r.value \in Fractions \union {None} /\ r.at \in 0..Len(s)
  BY Zenon DEF v
<1>2. j \in Jobs(s) /\ j.at = a
  BY <1>1, JobIs
<1>3. from \in Nat
  <2> HIDE DEF j
  <2> QED BY <1>2
<1> HIDE DEF j
<1>4. r = Failure \/ Read(s, from, r)
  BY <1>2, Zenon DEF Parser, Result
<1> HIDE DEF r, from
<1>5. CASE r = Failure
  BY <1>5, FailureIs
<1>6. CASE Read(s, from, r)
  <2>1. r.value \in Fractions /\ r.at \in from..Len(s)
    BY <1>3, <1>6, ReadIs, Zenon
  <2> QED BY <1>3, <2>1
<1> QED BY <1>4, <1>5, <1>6, Zenon

\* A loop without a value fails.
LEMMA RestOfSome ==
  ASSUME NEW s, Len(s) \in Nat, NEW f, Parser(s, f), NEW rule \in Rests,
         NEW v \in Fractions \union {None}, NEW a \in 0..Len(s),
         f[Job(rule, v, a)].value # None
  PROVE  v # None
<1> DEFINE r == f[Job(rule, v, a)]
<1>1. rule \in Rules
  BY DEF Rules, Rests
<1>2. r.value # None =>
        /\ r.value \in Fractions /\ r = [value |-> r.value, at |-> r.at]
        /\ rule \in Rests => v # None /\ r.at \in a..Len(s)
        /\ rule \notin Rests => r.at \in a + 1..Len(s)
  BY <1>1, ResultIs, SMT
<1> QED BY <1>2, Zenon

\* ParseExpr and ParseTerm give a value of what they have read.
LEMMA ChainIsTrue ==
  ASSUME NEW s, Len(s) \in Nat, NEW g, Values(s, g), NEW f, Parser(s, f),
         NEW a \in 0..Len(s), NEW rule \in Rests, OperandTrue(s, g, f, rule, a),
         \A c \in a + 1..Len(s) : RestTrue(s, g, f, rule, c), NEW t,
         t = f[Job(rule, f[Job(Operand[rule], None, a)].value,
                         f[Job(Operand[rule], None, a)].at)],
         t.value # None
  PROVE  t.value \in Whole(g, rule, a + 1, t.at)
<1> DEFINE operand == Operand[rule]
           r == f[Job(operand, None, a)]
           v == r.value
           b == r.at
           k == a + 1
<1>1. operand \in Rules \ Rests /\ operand \in Rules /\ rule \in Rules
  BY RulesAre DEF Rules, Rests
<1> HIDE DEF operand
<1>2. v \in Fractions \union {None} /\ b \in 0..Len(s)
  BY <1>1, ResultTyped, Zenon
<1>3. t = f[Job(rule, v, b)]
  BY Zenon DEF operand
<1>4. v # None
  <2> HIDE DEF v, b
  <2>1. f[Job(rule, v, b)].value # None
    BY <1>3, Zenon
  <2> QED BY <1>2, <2>1, RestOfSome, SMT
<1>5. v \in Fractions /\ b \in k..Len(s)
  BY <1>1, <1>4, OperandResult, Zenon
<1>6. v \in Part(g, rule, k, b)
  BY <1>4, Zenon DEF OperandTrue, operand
<1>7. k \in 1..Len(s) + 1 /\ a \in 0..b
  <2> HIDE DEF b
  <2> QED BY <1>2, <1>5
<1> HIDE DEF v, b
<1>8. v \in Whole(g, rule, k, b)
  <2> HIDE DEF k
  <2> QED BY <1>2, <1>6, <1>7, PartWhole
<1>9. RestTrue(s, g, f, rule, b)
  BY <1>5, Zenon
<1> QED BY <1>3, <1>7, <1>8, <1>9, Zenon DEF RestTrue

\* All the parsers do, wherever they start: by induction from the end of the text.
LEMMA EverythingIsTrue ==
  ASSUME NEW s, Len(s) \in Nat, ~HasOddNumber(s), NEW g, Values(s, g), NEW f, Parser(s, f)
  PROVE  \A a \in 0..Len(s) : AllTrue(s, g, f, a)
<1> DEFINE Good == {n \in Nat : \A a \in 0..Len(s) : Len(s) - a = n => AllTrue(s, g, f, a)}
<1>1. ASSUME NEW n \in Nat, \A m \in 0..n - 1 : m \in Good
      PROVE  n \in Good
  <2> SUFFICES ASSUME NEW a \in 0..Len(s), Len(s) - a = n
               PROVE  AllTrue(s, g, f, a)
    BY Zenon
  <2>1. \A c \in a + 1..Len(s) : AllTrue(s, g, f, c)
    <3> TAKE c \in a + 1..Len(s)
    <3>1. Len(s) - c \in 0..n - 1 /\ c \in 0..Len(s)
      OBVIOUS
    <3> QED BY <1>1, <3>1, Zenon
  <2>2. FactorTrue(s, g, f, a)
    <3>1. \A c \in a + 1..Len(s) : FactorTrue(s, g, f, c) /\ ExprTrue(s, g, f, c)
      BY <2>1, Zenon DEF AllTrue
    <3> QED BY <3>1, FactorIsTrue, Zenon
  <2> DEFINE product == "termRest"
             sum == "exprRest"
  <2>3. /\ product \in Rests /\ sum \in Rests /\ product = "termRest" /\ sum # "termRest"
        /\ Operand[product] = "factor" /\ Operand[sum] = "term"
    BY RulesAre DEF Rests
  <2>4. ASSUME NEW rule \in Rests
        PROVE  \A c \in a + 1..Len(s) :
                 OperandTrue(s, g, f, rule, c) /\ RestTrue(s, g, f, rule, c)
    BY <2>1, OperandIsTrue, Zenon DEF AllTrue
  <2>5. \A rule \in Rests : RestTrue(s, g, f, rule, a)
    BY <2>4, RestIsTrue, Zenon
  <2>6. TermTrue(s, g, f, a)
    <3> DEFINE r == f[Job("factor", None, a)]
               t == f[Job("term", None, a)]
    <3> SUFFICES ASSUME t.value # None
                 PROVE  t.value \in g[<<a + 1, t.at>>].term
      BY Zenon DEF TermTrue
    <3>1. t = f[Job("termRest", r.value, r.at)]
      BY ChainStep
    <3> HIDE DEF t, product, sum
    <3>2. t = f[Job(product, f[Job(Operand[product], None, a)].value,
                             f[Job(Operand[product], None, a)].at)]
      BY <2>3, <3>1, Zenon
    <3>3. OperandTrue(s, g, f, product, a)
      BY <2>2, <2>3, Zenon DEF OperandTrue, FactorTrue, Part
    <3>4. t.value \in Whole(g, product, a + 1, t.at)
      BY <2>3, <2>4, <3>2, <3>3, ChainIsTrue, Zenon
    <3> QED BY <2>3, <3>4, Zenon DEF Whole
  <2>7. ExprTrue(s, g, f, a)
    <3> DEFINE r == f[Job("term", None, a)]
               t == f[Job("expr", None, a)]
    <3> SUFFICES ASSUME t.value # None
                 PROVE  t.value \in g[<<a + 1, t.at>>].expr
      BY Zenon DEF ExprTrue
    <3>1. t = f[Job("exprRest", r.value, r.at)]
      BY ChainStep
    <3> HIDE DEF t, product
    <3>2. t = f[Job(sum, f[Job(Operand[sum], None, a)].value,
                         f[Job(Operand[sum], None, a)].at)]
      BY <2>3, <3>1, Zenon
    <3> HIDE DEF sum
    <3>3. OperandTrue(s, g, f, sum, a)
      BY <2>2, <2>3, <2>6, OperandIsTrue, Zenon
    <3>4. t.value \in Whole(g, sum, a + 1, t.at)
      BY <2>3, <2>4, <3>2, <3>3, ChainIsTrue, Zenon
    <3> QED BY <2>3, <3>4, Zenon DEF Whole
  <2> QED BY <2>2, <2>5, <2>6, <2>7, Zenon DEF AllTrue
<1> SUFFICES ASSUME NEW a \in 0..Len(s)
             PROVE  AllTrue(s, g, f, a)
  OBVIOUS
<1>2. Len(s) - a \in Nat
  OBVIOUS
<1> HIDE DEF Good
<1>3. \A n \in Nat : n \in Good
  BY <1>1, AllNumbers, Zenon
<1> QED BY <1>2, <1>3, Zenon DEF Good

\* What the calculator answers is what the grammar finds in the text.
LEMMA Sound ==
  ASSUME NEW s, Len(s) \in Nat, ~HasOddNumber(s), Eval(s) # None
  PROVE  Eval(s) \in ExprValues(s)
<1>1. PICK g : Values(s, g) /\ ExprValues(s) = g[<<1, Len(s)>>].expr
  BY ExprValuesIs
<1>2. PICK f : Parser(s, f) /\ Parse(s) = f[Job("expr", None, 0)]
  BY ParseIs
<1> DEFINE a == 0
           rule == "expr"
           r == f[Job(rule, None, a)]
           n == Len(s)
<1>3. a \in 0..n /\ a + 1 = 1 /\ rule \in Rules \ Rests /\ 1 \in 1..n + 1
  BY DEF Rules, Rests
<1>4. r.value # None /\ Skip(s, r.at) = n /\ Eval(s) = r.value
  <2> HIDE DEF r, n
  <2>1. Parse(s) = r
    BY <1>2, Zenon DEF r
  <2> QED BY <2>1, Zenon DEF Eval, n
<1> HIDE DEF a, rule
<1>5. r.at \in a + 1..n
  BY <1>2, <1>3, <1>4, OperandResult, Zenon
<1>6. r.value \in g[<<1, r.at>>].expr
  <2>1. ExprTrue(s, g, f, a)
    BY <1>1, <1>2, <1>3, EverythingIsTrue, Zenon DEF AllTrue
  <2> QED BY <1>3, <1>4, <2>1, Zenon DEF ExprTrue, rule
<1> DEFINE b == r.at
<1>7. b \in 0..n /\ n \in b..n
  <2> HIDE DEF r
  <2>1. b \in 1..n
    BY <1>3, <1>5, Zenon
  <2> QED BY <2>1
<1>8. Blank(s, b, n)
  <2> HIDE DEF b, r
  <2> QED BY <1>4, <1>7, SkipIs, Zenon DEF b
<1>9. r.value \in g[<<1, n>>].expr
  <2> DEFINE k == 1
             v == r.value
  <2>1. k \in 1..n + 1 /\ v \in g[<<k, b>>].expr
    BY <1>3, <1>6
  <2> HIDE DEF r, b, v, k
  <2>2. v \in g[<<k, n>>].expr
    BY <1>1, <1>7, <1>8, <2>1, SpacesBehind, Zenon
  <2> QED BY <2>2, Zenon DEF k, v
<1> QED BY <1>1, <1>4, <1>9, Zenon

\* The calculator is right about any text of any length: what it answers is the one
\* value the text has by the grammar, unless a number has two points, and it has an
\* answer whenever the text has a value.  (tools.cpp:82-168)
THEOREM EvalCorrect ==
  ASSUME NEW s, Len(s) \in Nat
  PROVE  /\ Eval(s) # None => ExprValues(s) = {Eval(s)} \/ HasOddNumber(s)
         /\ \A v \in ExprValues(s) : ExprValues(s) = {v} /\ Eval(s) = v /\ v # None
<1>1. \A v \in ExprValues(s) : Eval(s) = v /\ v \in Fractions
  BY Complete, Zenon
<1>2. \A v \in ExprValues(s) : ExprValues(s) = {v} /\ Eval(s) = v /\ v # None
  BY <1>1, FailureIs
<1> QED BY <1>2, Sound, Zenon

-----------------------------------------------------------------------------
(* The expression of a question, and its answer. *)

LEMMA CharKinds ==
  /\ NumberChars \subseteq ExprChars
  /\ \A c \in {"+", "-", "*", "/", "(", ")", " "} : c \in ExprChars
BY DEF NumberChars, ExprChars, Operators

Written(s, a, b) == \A k \in a..b : s[k] \in ExprChars

\* Characters before, at and behind a place.
LEMMA WrittenAt ==
  ASSUME NEW s, NEW a \in Int, NEW b \in Int, NEW k \in a..b, s[k] \in ExprChars,
         Written(s, a, k - 1), Written(s, k + 1, b)
  PROVE  Written(s, a, b)
<1>1. \A n \in a..b : n \in a..k - 1 \/ n = k \/ n \in k + 1..b
  OBVIOUS
<1> QED BY <1>1, Zenon DEF Written

LEMMA WrittenOne ==
  ASSUME NEW s, NEW a \in Int, NEW b \in Int, b < a
  PROVE  Written(s, a, b)
<1>1. \A n \in a..b : FALSE
  OBVIOUS
<1> QED BY <1>1, Zenon DEF Written

\* A part with a value has the characters of an expression.
ValuesWritten(s, f, a, b) ==
  /\ \A v \in f[<<a, b>>].factor : Written(s, a, b)
  /\ \A v \in f[<<a, b>>].term : Written(s, a, b)
  /\ \A v \in f[<<a, b>>].expr : Written(s, a, b)

\* A factor is written in the characters of an expression, if shorter parts are.
LEMMA FactorWritten ==
  ASSUME NEW s, Len(s) \in Nat, NEW f, Values(s, f),
         NEW a \in 1..Len(s) + 1, NEW b \in 0..Len(s), NEW v, InFactor(s, f, a, b, v),
         \A c \in 1..Len(s) + 1, d \in 0..Len(s) :
           d - c < b - a => ValuesWritten(s, f, c, d)
  PROVE  Written(s, a, b)
<1>1. a <= b
  BY Zenon DEF InFactor
<1>2. /\ a + 1 \in 1..Len(s) + 1 /\ b - 1 \in 0..Len(s)
      /\ b - (a + 1) < b - a /\ (b - 1) - a < b - a /\ (b - 1) - (a + 1) < b - a
      /\ a \in Int /\ b \in Int /\ a \in a..b /\ b \in a..b
      /\ a - 1 \in Int /\ a - 1 < a /\ b + 1 \in Int /\ b < b + 1 /\ a + 1 \in Int /\ b - 1 \in Int
  BY <1>1
<1>3. /\ ValuesWritten(s, f, a + 1, b) /\ ValuesWritten(s, f, a, b - 1)
      /\ ValuesWritten(s, f, a + 1, b - 1)
  BY <1>2, Zenon
<1>4. Written(s, a, a - 1) /\ Written(s, b + 1, b)
  BY <1>2, WrittenOne, Zenon
<1>5. ASSUME s[a] \in {" ", "+", "-"}, Written(s, a + 1, b)
      PROVE  Written(s, a, b)
  <2>1. s[a] \in ExprChars
    BY <1>5, CharKinds
  <2> QED BY <1>2, <1>4, <1>5, <2>1, WrittenAt, Zenon
<1>6. ASSUME s[b] \in {" ", ")"}, Written(s, a, b - 1)
      PROVE  Written(s, a, b)
  <2>1. s[b] \in ExprChars
    BY <1>6, CharKinds
  <2> QED BY <1>2, <1>4, <1>6, <2>1, WrittenAt, Zenon
<1>7. CASE s[a] \in {" ", "+"}
  <2>1. v \in f[<<a + 1, b>>].factor
    BY <1>7, Zenon DEF InFactor
  <2>2. Written(s, a + 1, b)
    BY <1>3, <2>1, Zenon DEF ValuesWritten
  <2> QED BY <1>5, <1>7, <2>2, Zenon
<1>8. CASE s[a] \notin {" ", "+"} /\ s[b] = " "
  <2>1. v \in f[<<a, b - 1>>].factor
    BY <1>8, Zenon DEF InFactor
  <2>2. Written(s, a, b - 1)
    BY <1>3, <2>1, Zenon DEF ValuesWritten
  <2> QED BY <1>6, <1>8, <2>2, Zenon
<1>9. CASE s[a] \notin {" ", "+"} /\ s[b] # " " /\ s[a] = "-"
  <2>1. \E x \in f[<<a + 1, b>>].factor : TRUE
    BY <1>9, Zenon DEF InFactor
  <2>2. Written(s, a + 1, b)
    BY <1>3, <2>1, Zenon DEF ValuesWritten
  <2> QED BY <1>5, <1>9, <2>2, Zenon
<1>10. CASE s[a] \notin {" ", "+", "-"} /\ s[b] # " " /\ s[a] = "(" /\ s[b] = ")"
  <2>1. v \in f[<<a + 1, b - 1>>].expr
    BY <1>10, Zenon DEF InFactor
  <2>2. Written(s, a + 1, b - 1)
    BY <1>3, <2>1, Zenon DEF ValuesWritten
  <2>3. s[a] \in ExprChars /\ s[b] \in ExprChars
    BY <1>10, CharKinds
  <2>4. a # b
    BY <1>10
  <2>5. b \in a + 1..b
    BY <1>1, <1>2, <2>4
  <2>6. Written(s, a + 1, b)
    BY <1>2, <1>4, <2>2, <2>3, <2>5, WrittenAt, Zenon
  <2> QED BY <1>2, <1>4, <2>3, <2>6, WrittenAt, Zenon
<1>11. CASE s[a] \notin {" ", "+", "-"} /\ s[b] # " " /\ ~ (s[a] = "(" /\ s[b] = ")")
  <2> DEFINE t == SubSeq(s, a, b)
  <2>1. IsNumber(t)
    BY <1>11, Zenon DEF InFactor
  <2>2. /\ Len(t) \in Nat /\ Len(t) = IF a <= b THEN b - a + 1 ELSE 0
        /\ \A i \in 1..Len(t) : t[i] = s[a + i - 1]
    BY PartIs
  <2> HIDE DEF t
  <2>3. ASSUME NEW k \in a..b
        PROVE  s[k] \in ExprChars
    <3>1. k - a + 1 \in 1..Len(t) /\ a + (k - a + 1) - 1 = k
      BY <1>1, <2>2
    <3>2. t[k - a + 1] \in NumberChars
      BY <2>1, <3>1, Zenon DEF IsNumber
    <3>3. t[k - a + 1] = s[k]
      BY <2>2, <3>1
    <3> QED BY <3>2, <3>3, CharKinds
  <2> QED BY <2>3, Zenon DEF Written
<1> QED BY <1>7, <1>8, <1>9, <1>10, <1>11

\* So is every part: by induction on its length.
LEMMA AllWritten ==
  ASSUME NEW s, Len(s) \in Nat, NEW f, Values(s, f)
  PROVE  \A a \in 1..Len(s) + 1, b \in 0..Len(s) : ValuesWritten(s, f, a, b)
<1> DEFINE Good == {n \in Nat : \A a \in 1..Len(s) + 1, b \in 0..Len(s) :
                                  b + 1 - a = n => ValuesWritten(s, f, a, b)}
<1>0. ASSUME NEW a \in 1..Len(s) + 1, NEW b \in 0..Len(s), b < a
      PROVE  ValuesWritten(s, f, a, b)
  <2>1. a \in Int /\ b \in Int
    OBVIOUS
  <2> QED BY <1>0, <2>1, WrittenOne, Zenon DEF ValuesWritten
<1>1. ASSUME NEW n \in Nat, \A m \in 0..n - 1 : m \in Good
      PROVE  n \in Good
  <2> SUFFICES ASSUME NEW a \in 1..Len(s) + 1, NEW b \in 0..Len(s), b + 1 - a = n
               PROVE  ValuesWritten(s, f, a, b)
    BY Zenon
  <2>1. \A c \in 1..Len(s) + 1, d \in 0..Len(s) :
          d - c < b - a => ValuesWritten(s, f, c, d)
    <3> TAKE c \in 1..Len(s) + 1, d \in 0..Len(s)
    <3> HAVE d - c < b - a
    <3>1. d < c \/ d + 1 - c \in 0..n - 1
      OBVIOUS
    <3> QED BY <1>0, <1>1, <3>1, Zenon
  <2>2. \A v : InFactor(s, f, a, b, v) => Written(s, a, b)
    BY <2>1, FactorWritten, Zenon
  <2>3. ASSUME NEW i \in a + 1..b - 1, s[i] \in {"*", "/", "+", "-"},
               NEW x, x \in f[<<a, i - 1>>].term \/ x \in f[<<a, i - 1>>].expr,
               NEW y, y \in f[<<i + 1, b>>].factor \/ y \in f[<<i + 1, b>>].term
        PROVE  Written(s, a, b)
    <3>1. /\ i \in a..b /\ i - 1 \in 0..Len(s) /\ i + 1 \in 1..Len(s) + 1
          /\ (i - 1) - a < b - a /\ b - (i + 1) < b - a /\ a \in Int /\ b \in Int
      OBVIOUS
    <3>2. Written(s, a, i - 1) /\ Written(s, i + 1, b)
      BY <2>1, <2>3, <3>1, Zenon DEF ValuesWritten
    <3>3. s[i] \in ExprChars
      BY <2>3, CharKinds
    <3> QED BY <3>1, <3>2, <3>3, WrittenAt, Zenon
  <2>4. \A v : InTerm(s, f, a, b, v) => Written(s, a, b)
    BY <2>2, <2>3, Zenon DEF InTerm
  <2>5. \A v : InExpr(s, f, a, b, v) => Written(s, a, b)
    BY <2>3, <2>4, Zenon DEF InExpr
  <2> QED BY <2>2, <2>4, <2>5, ValuesAre, Zenon DEF ValuesWritten
<1> SUFFICES ASSUME NEW a \in 1..Len(s) + 1, NEW b \in 0..Len(s)
             PROVE  ValuesWritten(s, f, a, b)
  BY Zenon
<1>2. b < a \/ b + 1 - a \in Nat
  OBVIOUS
<1> HIDE DEF Good
<1>3. \A n \in Nat : n \in Good
  BY <1>1, AllNumbers, Zenon
<1> QED BY <1>0, <1>2, <1>3, Zenon DEF Good

LEMMA ExprWritten ==
  ASSUME NEW s, Len(s) \in Nat, ExprValues(s) # {}
  PROVE  \A k \in 1..Len(s) : s[k] \in ExprChars
<1>1. PICK f : Values(s, f) /\ ExprValues(s) = f[<<1, Len(s)>>].expr
  BY ExprValuesIs
<1>2. PICK v \in f[<<1, Len(s)>>].expr : TRUE
  BY <1>1, Zenon
<1>3. 1 \in 1..Len(s) + 1 /\ Len(s) \in 0..Len(s)
  OBVIOUS
<1>4. ValuesWritten(s, f, 1, Len(s))
  BY <1>1, <1>3, AllWritten, Zenon
<1> QED BY <1>2, <1>4, Zenon DEF ValuesWritten, Written

\* The run of expression characters that the pattern finds.
Runs(text) == {a \in 1..(Len(text) - 2) : \A i \in a..(a + 2) : text[i] \in ExprChars}
RunEnds(text, a) == {x \in (a + 2)..Len(text) : \A i \in a..x : text[i] \in ExprChars}
Found(text) == SubSeq(text, Min(Runs(text)), Max(RunEnds(text, Min(Runs(text)))))

\* ExtractExpression gives that run, if it holds an operator.
LEMMA ExtractIs ==
  ASSUME NEW text
  PROVE  ExtractExpression(text) =
           IF Runs(text) = {} THEN None
           ELSE IF \E i \in 1..Len(Found(text)) : Found(text)[i] \in Operators
                THEN Found(text) ELSE None
BY Zenon DEF ExtractExpression, Runs, RunEnds, Found

\* The run is a part of the question.
LEMMA FoundInside ==
  ASSUME NEW text, Len(text) \in Nat, Runs(text) # {}
  PROVE  \E i \in 1..Len(text) : \E j \in i..Len(text) : Found(text) = SubSeq(text, i, j)
<1> DEFINE a == Min(Runs(text))
           E == RunEnds(text, a)
           b == Max(E)
<1>1. Runs(text) \subseteq Nat
  BY DEF Runs
<1>2. a \in Runs(text)
  BY <1>1, FirstOf
<1> HIDE DEF a
<1>3. a \in 1..Len(text) - 2 /\ \A i \in a..a + 2 : text[i] \in ExprChars
  BY <1>2, Zenon DEF Runs
<1>4. a + 2 \in (a + 2)..Len(text) /\ a + 2 \in Nat
  BY <1>3
<1>5. a + 2 \in E
  BY <1>3, <1>4, Zenon DEF RunEnds
<1>6. \A n \in E : n \in (a + 2)..Len(text)
  BY Zenon DEF RunEnds
<1> HIDE DEF E
<1>7. b \in E
  <2>1. E \subseteq Nat /\ E # {} /\ \A n \in E : n <= Len(text)
    BY <1>4, <1>5, <1>6
  <2> QED BY <2>1, LastOf, Zenon
<1> HIDE DEF b
<1>8. b \in (a + 2)..Len(text)
  BY <1>6, <1>7, Zenon
<1>9. a \in 1..Len(text) /\ b \in a..Len(text)
  BY <1>3, <1>8
<1>10. Found(text) = SubSeq(text, a, b)
  BY Zenon DEF Found, a, b, E
<1> QED BY <1>9, <1>10, Zenon

\* A run that nothing else of the text could be taken for.
LEMMA FoundAlone ==
  ASSUME NEW text, Len(text) \in Nat, NEW i \in 1..Len(text), NEW j \in i + 2..Len(text),
         \A k \in i..j : text[k] \in ExprChars,
         \A k \in 1..Len(text) : k \notin i..j => text[k] \notin ExprChars
  PROVE  Runs(text) # {} /\ Found(text) = SubSeq(text, i, j)
<1>1. i \in 1..Len(text) - 2 /\ \A k \in i..i + 2 : k \in i..j
  OBVIOUS
<1>2. i \in Runs(text)
  BY <1>1, Zenon DEF Runs
<1>3. ASSUME NEW a \in Runs(text)
      PROVE  i <= a
  <2>1. a \in 1..Len(text) - 2 /\ \A k \in a..a + 2 : text[k] \in ExprChars
    BY Zenon DEF Runs
  <2>2. a \in 1..Len(text) /\ a \in a..a + 2
    BY <2>1
  <2>3. a \in i..j
    BY <2>1, <2>2, Zenon
  <2> QED BY <2>3
<1>4. Min(Runs(text)) = i
  <2>1. Runs(text) \subseteq Int
    BY DEF Runs
  <2> QED BY <1>2, <1>3, <2>1, MinIs
<1> DEFINE E == RunEnds(text, i)
<1>5. j \in E
  BY Zenon DEF RunEnds
<1>6. ASSUME NEW x \in E
      PROVE  x \in (i + 2)..Len(text) /\ x <= j
  <2>1. x \in (i + 2)..Len(text) /\ \A k \in i..x : text[k] \in ExprChars
    BY Zenon DEF RunEnds
  <2>2. x \in 1..Len(text) /\ x \in i..x
    BY <2>1
  <2>3. x \in i..j
    BY <2>1, <2>2, Zenon
  <2> QED BY <2>1, <2>3
<1> HIDE DEF E
<1>7. Max(E) = j
  <2>1. E \subseteq Nat /\ E # {} /\ \A n \in E : n <= Len(text)
    BY <1>5, <1>6
  <2>2. Max(E) \in E /\ \A n \in E : n <= Max(E)
    BY <2>1, LastOf, Zenon
  <2>3. Max(E) <= j /\ j <= Max(E) /\ Max(E) \in Nat
    BY <1>5, <1>6, <2>1, <2>2
  <2> HIDE DEF E
  <2> QED BY <2>3
<1> QED BY <1>2, <1>4, <1>7, Zenon DEF Found, E

\* A value the calculator answers with is that of a part of the question, by
\* the rules of arithmetic, for any question of any length; numbers with two
\* points excepted.  (tools.cpp:82-168)
THEOREM AnswersCorrect ==
  ASSUME question \in Seq(Alphabet)
  PROVE  AnswersAreRight
<1> DEFINE result == TryHandle(question)
           expr == ExtractExpression(question)
<1> SUFFICES ASSUME result.tool = "calc", result.value # None
             PROVE  /\ \E i \in 1..Len(question) : \E j \in i..Len(question) :
                         result.expr = SubSeq(question, i, j)
                    /\ ExprValues(result.expr) = {result.value} \/ HasOddNumber(result.expr)
  BY Zenon DEF AnswersAreRight
<1>1. Len(question) \in Nat
  OBVIOUS
<1>2. result = CalcHandler(question)
  <2>1. \E tool \in {"calc", "time", "sysinfo", "none"} :
          result = IF tool = "calc" THEN CalcHandler(question)
                   ELSE [NoTool EXCEPT !.tool = tool]
    BY DEF TryHandle
  <2>2. PICK tool \in {"calc", "time", "sysinfo", "none"} :
          result = IF tool = "calc" THEN CalcHandler(question)
                   ELSE [NoTool EXCEPT !.tool = tool]
    BY <2>1, Zenon
  <2>3. \A t : [NoTool EXCEPT !.tool = t].tool = t
    BY DEF NoTool
  <2> HIDE DEF result
  <2>4. tool = "calc"
    BY <2>2, <2>3, Zenon
  <2> QED BY <2>2, <2>4, Zenon
<1>3. /\ result.expr = expr
      /\ result.value = IF expr = None THEN None ELSE Eval(expr)
  <2> HIDE DEF result, expr
  <2> QED BY <1>2 DEF CalcHandler, expr
<1> HIDE DEF result, expr
<1>4. expr # None /\ result.value = Eval(expr) /\ Eval(expr) # None
  BY <1>3, Zenon
<1>5. Runs(question) # {} /\ expr = Found(question)
  BY <1>4, ExtractIs, Zenon DEF expr
<1>6. PICK i \in 1..Len(question) : \E j \in i..Len(question) : expr = SubSeq(question, i, j)
  BY <1>1, <1>5, FoundInside, Zenon
<1>7. PICK j \in i..Len(question) : expr = SubSeq(question, i, j)
  BY <1>6, Zenon
<1>8. Len(expr) \in Nat
  <2>1. i \in 1..Len(question) + 1 /\ j \in 0..Len(question)
    BY <1>1
  <2>2. Len(SubSeq(question, i, j)) \in Nat
    BY <1>1, <2>1, PartIs, Zenon
  <2> QED BY <1>7, <2>2, Zenon
<1>9. ExprValues(expr) = {Eval(expr)} \/ HasOddNumber(expr)
  BY <1>4, <1>8, EvalCorrect, Zenon
<1> QED BY <1>3, <1>4, <1>6, <1>9, Zenon

\* A question that is an expression with an operator gets its value, and so does
\* one with a keyword of the calculator, unless it has one of the time too or
\* holds another run of three expression characters: for any question of any
\* length and any keywords.  (tools.cpp:69-79, 253-274)
THEOREM ExpressionsCorrect ==
  ASSUME question \in Seq(Alphabet)
  PROVE  ExpressionsAreSolved
<1> SUFFICES ASSUME NEW i \in 1..Len(question), NEW j \in (i + 2)..Len(question)
             PROVE  LET expr == SubSeq(question, i, j)
                        outside == 1..Len(question) \ (i..j)
                    IN  /\ ExprValues(expr) # {}
                        /\ \E k \in i..j : question[k] \in Operators
                        /\ outside = {}
                           \/ /\ HasKeyword(question, Calc) /\ ~HasKeyword(question, Time)
                              /\ \A k \in outside : question[k] \notin ExprChars
                        => TryHandle(question) = [tool |-> "calc", expr |-> expr,
                                                  value |-> CHOOSE v \in ExprValues(expr) : TRUE]
  BY Zenon DEF ExpressionsAreSolved
<1> DEFINE expr == SubSeq(question, i, j)
           outside == 1..Len(question) \ (i..j)
           v == CHOOSE x \in ExprValues(expr) : TRUE
           keyed == /\ HasKeyword(question, Calc) /\ ~HasKeyword(question, Time)
                    /\ \A k \in outside : question[k] \notin ExprChars
<1> SUFFICES ASSUME ExprValues(expr) # {}, \E k \in i..j : question[k] \in Operators,
                    outside = {} \/ keyed
             PROVE  TryHandle(question) = [tool |-> "calc", expr |-> expr, value |-> v]
  BY Zenon
<1>1. /\ Len(question) \in Nat /\ i \in 1..Len(question) + 1 /\ j \in 0..Len(question)
      /\ i <= j
  OBVIOUS
<1>2. /\ Len(expr) \in Nat /\ Len(expr) = j - i + 1
      /\ \A k \in 1..Len(expr) : expr[k] = question[i + k - 1]
  <2>1. /\ Len(expr) \in Nat /\ Len(expr) = IF i <= j THEN j - i + 1 ELSE 0
        /\ \A k \in 1..Len(expr) : expr[k] = question[i + k - 1]
    BY <1>1, PartIs
  <2> HIDE DEF expr
  <2> QED BY <1>1, <2>1
<1>3. v \in ExprValues(expr)
  <2> HIDE DEF expr
  <2> QED BY Zenon
<1> HIDE DEF v, expr
<1>4. Eval(expr) = v /\ v # None
  BY <1>2, <1>3, EvalCorrect, Zenon
<1>5. \A k \in i..j : k - i + 1 \in 1..Len(expr) /\ i + (k - i + 1) - 1 = k
  BY <1>2
<1>6. \A k \in i..j : expr[k - i + 1] = question[k]
  <2> TAKE k \in i..j
  <2>1. k - i + 1 \in 1..Len(expr) /\ i + (k - i + 1) - 1 = k
    BY <1>5, Zenon
  <2> QED BY <1>2, <2>1
<1>7. \A k \in i..j : question[k] \in ExprChars
  <2> TAKE k \in i..j
  <2>1. expr[k - i + 1] \in ExprChars
    BY <1>2, <1>3, <1>5, ExprWritten, Zenon
  <2> QED BY <1>6, <2>1, Zenon
<1>8. \A k \in 1..Len(question) : k \notin i..j => question[k] \notin ExprChars
  <2>1. \A k \in 1..Len(question) : k \notin i..j => k \in outside
    BY Zenon
  <2> QED BY <2>1, Zenon
<1>9. Runs(question) # {} /\ Found(question) = expr
  BY <1>1, <1>7, <1>8, FoundAlone, Zenon DEF expr
<1>10. \E k \in 1..Len(expr) : expr[k] \in Operators
  <2>1. PICK k \in i..j : question[k] \in Operators
    BY Zenon
  <2> QED BY <1>5, <1>6, <2>1, Zenon
<1>11. ExtractExpression(question) = expr
  BY <1>9, <1>10, ExtractIs, Zenon
<1>12. expr # None
  <2>1. Len(expr) # 0
    BY <1>1, <1>2
  <2>2. Len(None) = 0
    BY DEF None
  <2> QED BY <2>1, <2>2, Zenon
<1>13. CalcHandler(question) = [tool |-> "calc", expr |-> expr, value |-> v]
  BY <1>4, <1>11, <1>12, Zenon DEF CalcHandler
<1>14. CalcHandler(question).value # None
  BY <1>4, <1>13
<1>15. \/ \A k \in 1..Len(question) : question[k] \in ExprChars
       \/ HasKeyword(question, Calc) /\ ~HasKeyword(question, Time)
  <2>1. CASE outside = {}
    <3>1. \A k \in 1..Len(question) : k \in i..j
      BY <2>1, Zenon
    <3> QED BY <1>7, <3>1, Zenon
  <2>2. CASE keyed
    BY <2>2, Zenon
  <2> QED BY <2>1, <2>2
<1>16. TryHandle(question) = CalcHandler(question)
  BY <1>14, <1>15, Zenon DEF TryHandle
<1> QED BY <1>13, <1>16, Zenon
=============================================================================
