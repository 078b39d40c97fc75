--------------------------------- MODULE Program ---------------------------------
(***************************************************************************)
(* src/src/main.cpp: main, which becomes a terminal program or the server.     *)
(* Of the command line and the configuration it is only known whether they     *)
(* will do.                                                               *)
(***************************************************************************)
EXTENDS Terminal, Server

vars == <<processVars, terminalVars, serverVars>>

Init == ProcessInit /\ TerminalInit /\ ServerInit

\* --help, a missing file name and a configuration that cannot be read end the
\* program; --serve goes before --voice.
Main ==
  /\ pc = "main"
  /\ \/ Go("read") /\ voice' = TRUE /\ UNCHANGED code
     \/ pc' \in {"load", "chat"} /\ UNCHANGED <<voice, code>>
     \/ Go("leave") /\ code' \in {"ok", "failed"} /\ UNCHANGED voice
  /\ UNCHANGED <<exit, sigint, interrupts, alive, inside, stray, gLlm, handler, terminate,
                 lines, tokens, serverVars>>

\* The end of the process.
Ended == exit # "running" /\ UNCHANGED vars

TerminalThreads == (TerminalMain \/ TerminalHandler) /\ UNCHANGED serverVars
ServerThreads ==
  \/ ServerStart \/ ServerLoop \/ Signal \/ ServerEnd \/ Waiter("main")
  \/ \E w \in Workers : Worker(w)

Next ==
  \/ /\ exit = "running"
     /\ \/ Main
        \/ (Kill \/ Leave) /\ UNCHANGED <<terminalVars, serverVars>>
        \/ TerminalThreads
        \/ ServerThreads /\ UNCHANGED terminalVars
  \/ Ended

Running(A) == exit = "running" /\ A

\* The main thread goes on: a handler that is ready is run, and with it the
\* one that stops the loop.  The workers go on: the models return.
Fairness ==
  /\ WF_vars(Running(ServerEnd /\ UNCHANGED terminalVars))
  /\ WF_vars(Running(Waiter("main") /\ UNCHANGED terminalVars))
  /\ WF_vars(Running(Leave /\ UNCHANGED <<terminalVars, serverVars>>))
  /\ \A w \in Workers : WF_vars(Running(Worker(w) /\ UNCHANGED terminalVars))

Spec == Init /\ [][Next]_vars /\ Fairness

-----------------------------------------------------------------------------
(* Correctness. *)

\* An object that is gone is used on behalf of nobody but those at work when it
\* was withdrawn: the Ctrl+C that had loaded g_llm before it was reset, and the
\* sessions a callback held when the loop was destroyed.  Such a session stays
\* while a callback holds it, and other workers may find it too; no worker finds
\* any other.  (main.cpp:35-37, 105, 167, 226-255, ws_session.cpp:197-240, 303-352)
StrayOnlyFromInside == stray \subseteq inside

\* Ctrl+C ends the server, whatever the threads wait for at that moment and
\* whatever is still queued.  (main.cpp:233-255, chat_service.cpp:65-70,
\* speech_service.cpp:119-123, bounded_queue.h:27-31, 53-57)
SignalEndsServer == signalled ~> exit # "running"
=============================================================================
