----------------------------- MODULE ChatContract -----------------------------
(***************************************************************************)
(* What a web session may rely on when it hands ChatService a task: tasks    *)
(* run one at a time in the order they were queued, and each one that starts *)
(* finishes.  Nothing is said of tokens, of the KV cache or of RequestStop.  *)
(* ChatService.tla implements it, WsSession.tla is built on it.              *)
(***************************************************************************)
EXTENDS Integers, Sequences

CONSTANTS
  Tasks,      \* what can be submitted
  NoTask,     \* the worker is between tasks
  Capacity    \* the most tasks that wait

VARIABLES
  queue,    \* the tasks waiting
  running,  \* the task the worker is on
  open      \* the worker has not been asked to stop

vars == <<queue, running, open>>

Init ==
  /\ queue = <<>>
  /\ running = NoTask
  /\ open = TRUE

Submit(t) ==
  /\ Len(queue) < Capacity
  /\ queue' = Append(queue, t)
  /\ UNCHANGED <<running, open>>

Start ==
  /\ running = NoTask
  /\ queue # <<>>
  /\ running' = Head(queue)
  /\ queue' = Tail(queue)
  /\ UNCHANGED open

Finish ==
  /\ running # NoTask
  /\ running' = NoTask
  /\ UNCHANGED <<queue, open>>

Close ==
  /\ open' = FALSE
  /\ UNCHANGED <<queue, running>>

Next ==
  \/ \E t \in Tasks : Submit(t)
  \/ Start
  \/ Finish
  \/ Close

Safety == Init /\ [][Next]_vars

\* An open service takes up what is queued and finishes what it took up.
Spec ==
  /\ Safety
  /\ WF_vars(open /\ Start)
  /\ WF_vars(Finish)

=============================================================================
