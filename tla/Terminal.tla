-------------------------------- MODULE Terminal --------------------------------
(***************************************************************************)
(* src/src/main.cpp: RunInteractive, RunVoiceFile and OnInterrupt, which the    *)
(* platform may run in a thread of its own, and of genai_llm.cpp the flag they  *)
(* meet in, terminate_session.  Texts and audio are left out, but for whether   *)
(* there is a reply; what a reset does to the model is in ChatService.        *)
(***************************************************************************)
EXTENDS Process

CONSTANTS
  MaxLines,    \* bound: lines typed
  MaxTokens    \* bound: tokens of a reply

ASSUME TerminalAssumption == {MaxLines, MaxTokens} \subseteq Nat

VARIABLES
  voice,       \* RunVoiceFile, and not RunInteractive
  gLlm,        \* g_llm holds the address of the model
  handler,     \* OnInterrupt: "none", "entered", or "loaded" the address
  terminate,   \* terminate_session
  lines,       \* lines typed
  tokens       \* tokens of the present reply

terminalVars == <<voice, gLlm, handler, terminate, lines, tokens>>

TerminalInit ==
  /\ voice = FALSE /\ gLlm = FALSE /\ handler = "none"
  /\ terminate = FALSE /\ lines = 0 /\ tokens = 0

Unheard == UNCHANGED <<exit, interrupts, stray>>

-----------------------------------------------------------------------------
(* The main thread. *)

\* The statements that may fail, and what follows when they do not.
After == IF voice
         THEN [read |-> "load", load |-> "recognise", recognise |-> "session",
               session |-> "publish", synthesise |-> "write", write |-> "unwind"]
         ELSE [load |-> "session", session |-> "publish"]

\* One of them.  RunVoiceFile loads three models before it looks at the results.
Attempt ==
  /\ pc \in DOMAIN After
  /\ \/ /\ Go(After[pc])
        /\ alive' = alive \union (IF pc = "load" THEN {"llm"} ELSE {})
        /\ UNCHANGED code
     \/ /\ ReturnFailed("unwind")
        /\ alive' \in IF pc = "load" /\ voice THEN {{}, {"llm"}} ELSE {alive}
  /\ Unheard /\ UNCHANGED <<terminalVars, sigint, inside>>

\* g_llm.store(llm->get()); std::signal(SIGINT, OnInterrupt)
Publish ==
  /\ pc = "publish"
  /\ gLlm' = TRUE /\ sigint' = "OnInterrupt"
  /\ Go(IF voice THEN "clear" ELSE "prompt")
  /\ Unheard
  /\ UNCHANGED <<code, alive, inside, voice, handler, terminate, lines, tokens>>

\* What the user does, and what comes of it: on a Windows console Ctrl+Z at the
\* beginning of a line is the end of the input, and Ctrl+C an empty line.
Inputs == {"end", "Ctrl+Z", "Ctrl+C", "blank", "/exit", "/reset", "question"}
ReadLineUtf8(input) == CASE input \in {"end", "Ctrl+Z"} -> "end"
                         [] input \in {"Ctrl+C", "blank"} -> "blank"
                         [] OTHER -> input

ReadLine ==
  /\ pc = "prompt"
  /\ \E input \in Inputs :
       LET line == ReadLineUtf8(input)
       IN  \/ line \in {"end", "/exit"} /\ Go("retract") /\ UNCHANGED lines
           \/ /\ lines < MaxLines /\ lines' = lines + 1
              /\ \/ line \in {"blank", "/reset"} /\ Go("prompt")
                 \/ line = "question" /\ Go("clear")
  /\ Unheard
  /\ UNCHANGED <<code, alive, sigint, inside, voice, gLlm, handler, terminate, tokens>>

\* Chat returns.
AfterChat == IF voice THEN "retract" ELSE "prompt"

\* Chat: forget a RequestStop that came while idle (if that fails it is only
\* logged), and append the prompt (if that fails the turn is over).
ChatClear ==
  /\ pc = "clear"
  /\ tokens' = 0
  /\ terminate' \in {FALSE, terminate}
  /\ pc' \in {"generate", AfterChat}
  /\ Unheard
  /\ UNCHANGED <<code, alive, sigint, inside, voice, gLlm, handler, lines>>

\* Chat: one token; or the reply is complete; or the generator throws, because
\* terminate_session is set or for a reason of its own, and that may leave the
\* flag as it is.
Generate ==
  /\ pc = "generate"
  /\ \/ ~terminate /\ tokens < MaxTokens /\ tokens' = tokens + 1
        /\ UNCHANGED <<pc, terminate>>
     \/ Go(AfterChat) /\ terminate' \in {FALSE, terminate} /\ UNCHANGED tokens
  /\ Unheard
  /\ UNCHANGED <<code, alive, sigint, inside, voice, gLlm, handler, lines>>

\* Mutant: the address stays where the handler finds it.
BugRetract ==
  /\ pc = "retract"
  /\ IF voice THEN IF tokens = 0 THEN ReturnFailed("unwind")
                                 ELSE Go("synthesise") /\ UNCHANGED code
              ELSE Go("unwind") /\ UNCHANGED code
  /\ inside' = inside \union (IF handler = "loaded" THEN {"handler"} ELSE {})
  /\ Unheard
  /\ UNCHANGED <<alive, sigint, terminalVars>>

\* g_llm.store(nullptr); without a reply there is nothing to synthesise.
Retract ==
  /\ pc = "retract"
  /\ gLlm' = FALSE
  /\ IF voice THEN IF tokens = 0 THEN ReturnFailed("unwind")
                                 ELSE Go("synthesise") /\ UNCHANGED code
              ELSE Go("unwind") /\ UNCHANGED code
  /\ inside' = inside \union (IF handler = "loaded" THEN {"handler"} ELSE {})
  /\ Unheard
  /\ UNCHANGED <<alive, sigint, voice, handler, terminate, lines, tokens>>

\* The unique_ptr of the model goes out of scope.
Unwind ==
  /\ pc = "unwind"
  /\ alive' = {}
  /\ Go("leave")
  /\ Unheard /\ UNCHANGED <<code, sigint, inside, terminalVars>>

-----------------------------------------------------------------------------
(* OnInterrupt.  Whether std::signal lasts for more than one Ctrl+C is left to *)
(* the C library.                                                          *)

Interrupt ==
  /\ sigint = "OnInterrupt" /\ interrupts < MaxInterrupts /\ handler = "none"
  /\ interrupts' = interrupts + 1
  /\ sigint' \in {"OnInterrupt", "default"}
  /\ handler' = "entered"
  /\ UNCHANGED <<pc, code, exit, alive, inside, stray, voice, gLlm, terminate, lines,
                 tokens>>

LoadAddress ==
  /\ handler = "entered"
  /\ handler' = IF gLlm THEN "loaded" ELSE "none"
  /\ UNCHANGED <<processVars, voice, gLlm, terminate, lines, tokens>>

\* llm->RequestStop()
StopModel ==
  /\ handler = "loaded"
  /\ handler' = "none"
  /\ Use("handler", {"llm"})
  /\ terminate' = (terminate \/ "llm" \in alive)
  /\ UNCHANGED <<pc, code, exit, sigint, interrupts, alive, inside, voice, gLlm, lines,
                 tokens>>

TerminalMain == \/ Attempt \/ Publish \/ ReadLine \/ ChatClear \/ Generate
                \/ Retract \/ Unwind
TerminalHandler == Interrupt \/ LoadAddress \/ StopModel
=============================================================================
