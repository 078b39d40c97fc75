-------------------------------- MODULE Process --------------------------------
(***************************************************************************)
(* What the modes of src/src/main.cpp share: the main thread, which builds    *)
(* objects on its way in and destroys them on its way out, and the signal.    *)
(* Other threads keep plain pointers to those objects.  Using one that is      *)
(* gone is undefined behaviour; stray remembers it, and the thread goes on.   *)
(***************************************************************************)
EXTENDS Integers, Sequences, FiniteSets

CONSTANT MaxInterrupts   \* bound: how often Ctrl+C is pressed

ASSUME ProcessAssumption == MaxInterrupts \in Nat

VARIABLES
  pc,          \* where the main thread is
  code,        \* what it is about to return
  exit,        \* "running", or how the process ended: "ok", "failed", "killed"
  sigint,      \* what Ctrl+C does: "default", "OnInterrupt" or "asio"
  interrupts,  \* how often it was pressed
  alive,       \* the objects that exist
  \* History, read by the properties only.
  inside,      \* for whom a thread was at work with an object when it was taken
               \* from the others: a session, or "handler" for the signal's
  stray        \* for whom an object that was gone has been used

processVars == <<pc, code, exit, sigint, interrupts, alive, inside, stray>>

ProcessInit ==
  /\ pc = "main" /\ code = "ok" /\ exit = "running" /\ sigint = "default"
  /\ interrupts = 0 /\ alive = {} /\ inside = {} /\ stray = {}

\* On to the next statement.
Go(label) == pc' = label

\* return 1; label is the first destructor that has something to destroy.
ReturnFailed(label) == code' = "failed" /\ pc' = label

\* These objects are used, on behalf of a session or of the handler.
Use(whom, objects) ==
  stray' = IF objects \subseteq alive THEN stray ELSE stray \union {whom}

\* Without a handler Ctrl+C ends the process.
Kill ==
  /\ sigint = "default" /\ interrupts < MaxInterrupts
  /\ interrupts' = interrupts + 1
  /\ exit' = "killed"
  /\ UNCHANGED <<pc, code, sigint, alive, inside, stray>>

\* main returns.
Leave ==
  /\ pc = "leave"
  /\ exit' = code
  /\ UNCHANGED <<pc, code, sigint, interrupts, alive, inside, stray>>
=============================================================================
