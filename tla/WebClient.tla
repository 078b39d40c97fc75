-------------------------------- MODULE WebClient --------------------------------
(***************************************************************************)
(* src/web/app.js: the page.  Its handlers run one at a time; only startMic    *)
(* gives way to others while it waits for the browser.  What the page shows of  *)
(* a turn is the bubble the deltas go into and whether the button says stop     *)
(* (generating) or send; status texts, notices and playback are left out, and  *)
(* with them the messages that change nothing else: hello, tool_result,        *)
(* mic_ready, speech_start, role_changed and audio, and mic_stop upward.       *)
(*                                                                         *)
(* down and up are the two directions of the socket of the present connection,  *)
(* down with the server's outbox (ws_session.cpp: QueueWrite, DoWrite, OnWrite), *)
(* which is written in order, one message at a time.                          *)
(***************************************************************************)
EXTENDS Integers, Sequences, FiniteSets

CONSTANTS
  MaxTurns,      \* bound: turns started, by text or by voice
  MaxClicks,     \* bound: stop, reset and role messages
  MaxStarts,     \* bound: calls of startMic
  MaxDrops,      \* bound: connections lost
  MaxEvents      \* bound: these three together

ASSUME WebClientAssumption ==
  {MaxTurns, MaxClicks, MaxStarts, MaxDrops, MaxEvents} \subseteq Nat

VARIABLES
  socket,        \* ws: "open", or "connecting" again
  up, down,      \* messages on their way
  stuck,         \* a write has failed: OnWrite returned and nothing follows it
  generating, voiceTurn,
  bubble,        \* the turns whose deltas are in currentBubble ({}: there is none)
  carried,       \* history: the bubble was open when its connection was lost
  micOn,
  starts,        \* startMic calls under way: "asked" or "captured"
  held,          \* micStream is a live stream
  captures,      \* live streams
  leaky,         \* history: a startMic broke off after it had its stream, or
                 \* began while another one was under way
  started, clicks, drops  \* history: startMic calls, clicks, lost connections

micVars == <<micOn, starts, held, captures, leaky, started>>
pageVars == <<generating, voiceTurn, bubble, carried>>
netVars == <<socket, up, down, stuck, drops>>
clientVars == <<micVars, pageVars, netVars, clicks>>

\* One more event of a kind the bounds allow.
More(count, max) == count < max /\ started + clicks + drops < MaxEvents

Message(type, turn) == [type |-> type, turn |-> turn]

ClientInit ==
  /\ socket = "open" /\ up = <<>> /\ down = <<>> /\ stuck = FALSE
  /\ generating = FALSE /\ voiceTurn = FALSE /\ bubble = {} /\ carried = FALSE
  /\ micOn = FALSE /\ starts = <<>> /\ held = FALSE /\ captures = 0
  /\ leaky = FALSE
  /\ started = 0 /\ clicks = 0 /\ drops = 0

-----------------------------------------------------------------------------
(* ws.onmessage *)

\* Mutant: the bubble is finished, but stays the current one.
BugFinishGeneration ==
  /\ generating' = (generating /\ voiceTurn)
  /\ UNCHANGED <<voiceTurn, bubble, carried>>

FinishGeneration ==
  /\ bubble' = {} /\ carried' = FALSE
  /\ generating' = (generating /\ voiceTurn)
  /\ UNCHANGED voiceTurn

AppendDelta(turn) ==
  /\ bubble' = bubble \union {turn}
  /\ UNCHANGED <<generating, voiceTurn, carried>>

\* The user is heard: the unfinished bubble is closed, a spoken turn begins.
AsrText ==
  /\ bubble' = {} /\ carried' = FALSE
  /\ generating' = TRUE /\ voiceTurn' = TRUE

Interrupt ==
  /\ bubble' = {} /\ carried' = FALSE
  /\ generating' = FALSE /\ voiceTurn' = FALSE

\* Mutant: the end of playback does not give the send button back.
BugTtsEnd == voiceTurn' = FALSE /\ UNCHANGED <<generating, bubble, carried>>

TtsEnd ==
  /\ generating' = FALSE /\ voiceTurn' = FALSE
  /\ UNCHANGED <<bubble, carried>>

ClearChat ==
  /\ bubble' = {} /\ carried' = FALSE
  /\ UNCHANGED <<generating, voiceTurn>>

Error == generating' = FALSE /\ UNCHANGED <<voiceTurn, bubble, carried>>

OnMessage(msg) ==
  \/ msg.type = "llm_delta"  /\ AppendDelta(msg.turn)
  \/ msg.type = "llm_end"    /\ FinishGeneration
  \/ msg.type = "asr_text"   /\ AsrText
  \/ msg.type = "interrupt"  /\ Interrupt
  \/ msg.type = "tts_end"    /\ TtsEnd
  \/ msg.type = "reset_done" /\ ClearChat
  \/ msg.type = "error"      /\ Error

-----------------------------------------------------------------------------
(* The user *)

\* ws.send on a socket that is open; the callers look first, startMic does not.
SendUp(type, turn) == up' = Append(up, Message(type, turn))

\* sendChat, the caller names the turn.
SendChat(turn) ==
  /\ socket = "open" /\ ~generating
  /\ SendUp("chat", turn)
  /\ generating' = TRUE /\ voiceTurn' = FALSE
  /\ UNCHANGED <<bubble, carried, micVars, socket, down, stuck, drops, clicks>>

\* The stop button shows while generating ...
ClickStop ==
  /\ generating /\ More(clicks, MaxClicks)
  /\ clicks' = clicks + 1
  /\ IF socket = "open" THEN SendUp("stop", 0) ELSE UNCHANGED up
  /\ generating' = FALSE /\ voiceTurn' = FALSE
  /\ UNCHANGED <<bubble, carried, micVars, socket, down, stuck, drops>>

\* ... the reset button always ...
ClickReset ==
  /\ More(clicks, MaxClicks)
  /\ clicks' = clicks + 1
  /\ IF socket = "open" THEN SendUp("new_session", 0) ELSE UNCHANGED up
  /\ generating' = FALSE
  /\ UNCHANGED <<voiceTurn, bubble, carried, micVars, socket, down, stuck, drops>>

\* ... and the role list, which has no effect without a connection.
ChangeRole ==
  /\ socket = "open" /\ More(clicks, MaxClicks)
  /\ clicks' = clicks + 1
  /\ SendUp("set_role", 0)
  /\ UNCHANGED <<pageVars, micVars, socket, down, stuck, drops>>

-----------------------------------------------------------------------------
(* The microphone *)

\* A click on the button while micOn is false: startMic asks for the device.
ClickMic ==
  /\ ~micOn /\ More(started, MaxStarts)
  /\ started' = started + 1
  /\ starts' = Append(starts, "asked")
  /\ leaky' = (leaky \/ starts # <<>>)
  /\ UNCHANGED <<micOn, held, captures, pageVars, netVars, clicks>>

Without(i) == SubSeq(starts, 1, i - 1) \o SubSeq(starts, i + 1, Len(starts))

\* getUserMedia gives the stream to micStream, whatever was there, or fails.
MicCaptured(i) ==
  /\ starts[i] = "asked"
  /\ \/ /\ starts' = [starts EXCEPT ![i] = "captured"]
        /\ held' = TRUE
        /\ captures' = captures + 1
     \/ starts' = Without(i) /\ UNCHANGED <<held, captures>>
  /\ UNCHANGED <<micOn, leaky, started, pageVars, netVars, clicks>>

\* The worklet and the playback are there: mic_start is sent.  On a socket that
\* is connecting send throws, on one that is closed the message is dropped.
\* Nothing catches an error of the worklet: the call breaks off.
MicStarted(i) ==
  /\ starts[i] = "captured"
  /\ starts' = Without(i)
  /\ \/ /\ micOn' = TRUE
        /\ IF socket = "open" THEN SendUp("mic_start", 0) ELSE UNCHANGED up
        /\ UNCHANGED leaky
     \/ leaky' = TRUE /\ UNCHANGED <<micOn, up>>
  /\ UNCHANGED <<held, captures, started, pageVars, socket, down, stuck, drops,
                 clicks>>

\* Mutant: the button goes back, the stream stays.
BugStopMic ==
  /\ micOn' = FALSE
  /\ UNCHANGED <<held, captures, starts, leaky, started>>

\* stopMic, once micOn is true.
StopMic ==
  /\ micOn' = FALSE
  /\ held' = FALSE
  /\ captures' = IF micOn /\ held THEN captures - 1 ELSE captures
  /\ UNCHANGED <<starts, leaky, started>>

ClickMicOff ==
  /\ micOn
  /\ StopMic
  /\ UNCHANGED <<pageVars, netVars, clicks>>

-----------------------------------------------------------------------------
(* The connection *)

\* ws.onclose: what was on its way is lost.  currentBubble and voiceTurn stay.
OnClose ==
  /\ socket' = "connecting"
  /\ up' = <<>> /\ down' = <<>> /\ stuck' = FALSE
  /\ drops' = drops + 1
  /\ generating' = FALSE
  /\ carried' = (bubble # {})
  /\ IF micOn THEN StopMic ELSE UNCHANGED micVars
  /\ UNCHANGED <<voiceTurn, bubble, clicks>>

\* connect, after a while: ws.onopen.
OnOpen ==
  /\ socket = "connecting"
  /\ socket' = "open"
  /\ UNCHANGED <<up, down, stuck, drops, pageVars, micVars, clicks>>
=============================================================================
