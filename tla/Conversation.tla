------------------------------- MODULE Conversation -------------------------------
(***************************************************************************)
(* A page and the server together, message by message.  Of the server this is   *)
(* what the page can see: the calls of src/src/server/ws_session.cpp are one    *)
(* step each (what their interleaving adds is WsSession), the LLM worker takes  *)
(* its tasks in order, and CancelTts empties the TTS queue.                   *)
(*                                                                         *)
(* When a connection is lost the WsSession goes with it, but not its turn: the  *)
(* worker finishes it, and its messages go nowhere.  The next connection has a  *)
(* session of its own.                                                      *)
(***************************************************************************)
EXTENDS WebClient

CONSTANT MaxDeltas     \* bound: deltas of a turn

ASSUME ConversationAssumption == MaxDeltas \in Nat

VARIABLES
  turns,       \* the turns started: the connection, whether spoken, and whether
               \* a tool replied
  busy,        \* busy_
  mic,         \* mic_acquired_
  tasks,       \* the chat queue: turns, "reset" and "restart", by connection
  running, deltas, ending,   \* the worker: its task, the deltas sent, on_done run
  tts,         \* the markers in the TTS queue
  muted        \* history: an interrupt threw a marker away and found the
               \* session not busy

serverVars == <<turns, busy, mic, tasks, running, deltas,
                ending, tts, muted>>
vars == <<clientVars, serverVars>>

Idle == [kind |-> "none", arg |-> 0]

TypeOK ==
  /\ socket \in {"connecting", "open"} /\ stuck \in BOOLEAN
  /\ generating \in BOOLEAN /\ voiceTurn \in BOOLEAN /\ carried \in BOOLEAN
  /\ bubble \subseteq 1..MaxTurns
  /\ micOn \in BOOLEAN /\ held \in BOOLEAN /\ leaky \in BOOLEAN
  /\ captures \in 0..MaxStarts
  /\ turns \in Seq([conn : 0..MaxDrops, spoken : BOOLEAN, tool : BOOLEAN])
  /\ busy \in BOOLEAN /\ mic \in BOOLEAN /\ ending \in BOOLEAN
  /\ deltas \in 0..MaxDeltas /\ muted \in BOOLEAN

Init ==
  /\ ClientInit
  /\ turns = <<>> /\ busy = FALSE /\ mic = FALSE
  /\ tasks = <<>> /\ running = Idle /\ deltas = 0 /\ ending = FALSE
  /\ tts = <<>> /\ muted = FALSE

-----------------------------------------------------------------------------
(* Send: to the outbox of the connection, as long as it is there. *)

Down(conn, msgs) == IF conn = drops /\ socket = "open" THEN down \o msgs ELSE down
Mine(turn) == turns[turn].conn = drops /\ socket = "open"

-----------------------------------------------------------------------------
(* Calls into the session, on the IO and on the audio thread. *)

\* InterruptCurrentTurn clears the TTS queue, and tells the page if the session
\* was busy; the flag of the turn only matters to the audio, which is left out.
InterruptMsgs == IF busy THEN <<Message("interrupt", 0)>> ELSE <<>>

\* StartChatTurn: a session that is busy is interrupted; a tool replies at once,
\* or the model is asked.  on_utterance has interrupted before it sends asr_text.
StartChatTurn(spoken) ==
  LET turn == Len(turns) + 1
      cleared == IF busy THEN <<>> ELSE tts
      sent == down \o InterruptMsgs
              \o IF spoken THEN <<Message("asr_text", turn)>> ELSE <<>>
  IN  /\ turn <= MaxTurns
      /\ \/ /\ turns' = Append(turns, [conn |-> drops, spoken |-> spoken,
                                       tool |-> TRUE])
            /\ down' = sent \o <<Message("llm_delta", turn), Message("llm_end", turn)>>
            /\ tts' = IF spoken THEN Append(cleared, turn) ELSE cleared
            /\ busy' = spoken
            /\ UNCHANGED tasks
         \/ /\ turns' = Append(turns, [conn |-> drops, spoken |-> spoken,
                                       tool |-> FALSE])
            /\ down' = sent
            /\ tts' = cleared
            /\ busy' = TRUE
            /\ tasks' = Append(tasks, [kind |-> "chat", arg |-> turn])
      /\ UNCHANGED <<mic, running, deltas, ending, muted>>

InterruptCurrentTurn ==
  /\ tts' = <<>>
  /\ muted' = (muted \/ (~busy /\ tts # <<>>))
  /\ busy' = FALSE
  /\ down' = down \o InterruptMsgs
  /\ UNCHANGED <<turns, mic, running, deltas, ending>>

\* HandleText, for the messages of the page that change anything.
HandleText ==
  /\ socket = "open" /\ up # <<>>
  /\ up' = Tail(up)
  /\ LET msg == Head(up)
     IN  \/ msg.type = "chat" /\ StartChatTurn(FALSE)
         \/ msg.type = "stop" /\ InterruptCurrentTurn /\ UNCHANGED tasks
         \/ /\ msg.type = "new_session"
            /\ InterruptCurrentTurn
            /\ tasks' = Append(tasks, [kind |-> "reset", arg |-> drops])
         \/ /\ msg.type = "set_role"
            /\ InterruptCurrentTurn
            /\ tasks' = Append(tasks, [kind |-> "restart", arg |-> drops])
         \/ /\ msg.type = "mic_start"
            /\ \/ mic' = TRUE /\ UNCHANGED down
               \/ /\ ~mic /\ UNCHANGED mic
                  /\ down' = Append(down, Message("error", 0))
            /\ UNCHANGED <<turns, busy, tasks, running, deltas,
                           ending, tts, muted>>
  /\ UNCHANGED <<micVars, pageVars, socket, stuck, drops, clicks>>

\* on_speech_start interrupts; the page shows nothing else of it.
SpeechStart ==
  /\ mic /\ busy /\ socket = "open" /\ More(clicks, MaxClicks)
  /\ clicks' = clicks + 1
  /\ InterruptCurrentTurn
  /\ UNCHANGED <<micVars, pageVars, socket, up, stuck, drops, tasks>>

\* on_utterance
Utterance ==
  /\ mic /\ socket = "open"
  /\ StartChatTurn(TRUE)
  /\ UNCHANGED <<micVars, pageVars, socket, up, stuck, drops, clicks>>

-----------------------------------------------------------------------------
(* The LLM worker *)

Pop ==
  /\ running = Idle /\ tasks # <<>>
  /\ running' = Head(tasks) /\ tasks' = Tail(tasks)
  /\ deltas' = 0
  /\ UNCHANGED <<clientVars, turns, busy, mic, ending, tts,
                 muted>>

\* on_delta
Delta ==
  LET turn == running.arg
  IN  /\ running.kind = "chat" /\ ~ending /\ deltas < MaxDeltas
      /\ deltas' = deltas + 1
      /\ down' = Down(turns[turn].conn, <<Message("llm_delta", turn)>>)
      /\ UNCHANGED <<turns, busy, mic, tasks, running, ending,
                     tts, muted, micVars, pageVars, socket, up, stuck, drops,
                     clicks>>

\* on_done: the marker, or busy_ = false; nothing, once the session is freed ...
Done ==
  LET turn == running.arg
  IN  /\ running.kind = "chat" /\ ~ending
      /\ ending' = TRUE
      /\ \/ /\ turns[turn].spoken
            /\ tts' = Append(tts, turn)
            /\ UNCHANGED busy
         \/ ~turns[turn].spoken /\ Mine(turn) /\ busy' = FALSE /\ UNCHANGED tts
         \/ ~Mine(turn) /\ UNCHANGED <<busy, tts>>
      /\ UNCHANGED <<clientVars, turns, mic, tasks, running,
                     deltas, muted>>

\* ... and llm_end.
End ==
  /\ ending
  /\ ending' = FALSE /\ running' = Idle
  /\ down' = Down(turns[running.arg].conn, <<Message("llm_end", running.arg)>>)
  /\ UNCHANGED <<turns, busy, mic, tasks, deltas, tts, muted,
                 micVars, pageVars, socket, up, stuck, drops, clicks>>

\* A reset or a restart has been tried: reset_done, role_changed, or error.
Switched ==
  /\ running.kind \in {"reset", "restart"}
  /\ running' = Idle
  /\ \/ down' = Down(running.arg, <<Message("error", 0)>>)
     \/ running.kind = "reset" /\ down' = Down(running.arg, <<Message("reset_done", 0)>>)
     \/ running.kind = "restart" /\ UNCHANGED down
  /\ UNCHANGED <<turns, busy, mic, tasks, deltas, ending, tts,
                 muted, micVars, pageVars, socket, up, stuck, drops, clicks>>

\* The TTS worker has come to a marker: on_tts_done, for the session that holds
\* the callbacks, whoever's turn it was.
Speak ==
  /\ tts # <<>>
  /\ tts' = Tail(tts)
  /\ IF mic
     THEN /\ busy' = FALSE
          /\ down' = Down(drops, <<Message("tts_end", 0)>>)
     ELSE UNCHANGED <<busy, down>>
  /\ UNCHANGED <<turns, mic, tasks, running, deltas, ending,
                 muted, micVars, pageVars, socket, up, stuck, drops, clicks>>

-----------------------------------------------------------------------------
(* The socket *)

\* OnWrite: the first message is out, and the page has it.
Deliver ==
  /\ socket = "open" /\ down # <<>> /\ ~stuck
  /\ down' = Tail(down)
  /\ OnMessage(Head(down))
  /\ UNCHANGED <<serverVars, micVars, socket, up, stuck, drops, clicks>>

\* OnWrite with an error: the message stays at the head for good.
WriteFails ==
  /\ socket = "open" /\ down # <<>> /\ ~stuck /\ More(drops, MaxDrops)
  /\ stuck' = TRUE
  /\ UNCHANGED <<serverVars, micVars, pageVars, socket, up, down, drops, clicks>>

\* The connection is lost: OnDisconnect on one side, onclose on the other.
Lose ==
  /\ socket = "open" /\ More(drops, MaxDrops)
  /\ OnClose
  /\ tts' = <<>> /\ busy' = FALSE /\ mic' = FALSE
  /\ UNCHANGED <<turns, tasks, running, deltas, ending, muted>>

User ==
  \/ SendChat(0) /\ Len(turns) < MaxTurns
  \/ ClickStop \/ ClickReset \/ ChangeRole
  \/ ClickMic \/ ClickMicOff
  \/ \E i \in DOMAIN starts : MicCaptured(i) \/ MicStarted(i)
  \/ OnOpen

Server ==
  \/ HandleText \/ SpeechStart \/ Utterance
  \/ Pop \/ Delta \/ Done \/ End \/ Switched \/ Speak

Next ==
  \/ User /\ UNCHANGED serverVars
  \/ Server
  \/ Deliver \/ WriteFails \/ Lose

Spec == Init /\ [][Next]_vars

-----------------------------------------------------------------------------
(* Correctness. *)

\* The deltas of two turns share a bubble only if one is the reply of a tool,
\* which does not wait for the model to stop, or the connection was lost while
\* the bubble was open.  (app.js:75-80, 88-98, 313-337; ws_session.cpp:303-317)
NoMixedBubble ==
  Cardinality(bubble) > 1 => carried \/ \E t \in bubble : turns[t].tool

\* When nothing is under way the page has its send button and no bubble open,
\* unless an interrupt that found the session not busy threw the end of a
\* spoken turn away.  (app.js:43-125, 323-375; ws_session.cpp:175-182, 236-239)
QuietMeansIdle ==
  /\ socket = "open" /\ up = <<>> /\ down = <<>>
  /\ tasks = <<>> /\ running = Idle /\ tts = <<>>
  => /\ ~generating \/ muted
     /\ bubble = {} \/ carried

\* With the button off and no startMic under way the microphone is released,
\* unless two startMic overlapped or one broke off.  (app.js:212-257)
MicReleased == ~micOn /\ starts = <<>> => captures = 0 \/ leaky
=============================================================================
