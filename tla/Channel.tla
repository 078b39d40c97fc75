------------------------------- MODULE Channel -------------------------------
(***************************************************************************)
(* What the rest of Echo relies on when it puts a BoundedQueue between two  *)
(* threads: a bounded first-in first-out channel whose items a clear may    *)
(* drop, but only while they are still queued, and which keeps delivering   *)
(* for as long as it is open.  No locks and no condition variables: this is *)
(* the promise, BoundedQueue.tla is the code that has to keep it.           *)
(***************************************************************************)
EXTENDS Integers, Sequences

CONSTANTS
  Consumers,   \* the threads that receive
  Capacity,    \* the most items the channel holds
  Values,      \* what is sent
  None         \* no item in hand

VARIABLES
  buf,    \* the items sent and neither received nor dropped, oldest first
  held,   \* held[c]: the item c received and is still working on
  open    \* nobody has asked the channel to stop

vars == <<buf, held, open>>

Init ==
  /\ buf = <<>>
  /\ held = [c \in Consumers |-> None]
  /\ open = TRUE

Send(v) ==
  /\ Len(buf) < Capacity
  /\ buf' = Append(buf, v)
  /\ UNCHANGED <<held, open>>

Receive(c) ==
  /\ held[c] = None
  /\ buf # <<>>
  /\ held' = [held EXCEPT ![c] = Head(buf)]
  /\ buf' = Tail(buf)
  /\ UNCHANGED open

Finish(c) ==
  /\ held[c] # None
  /\ held' = [held EXCEPT ![c] = None]
  /\ UNCHANGED <<buf, open>>

\* Everything queued is lost, nothing a consumer already holds is.
Drop ==
  /\ buf' = <<>>
  /\ UNCHANGED <<held, open>>

Close ==
  /\ open' = FALSE
  /\ UNCHANGED <<buf, held>>

ReceiveAny == open /\ \E c \in Consumers : Receive(c)

Next ==
  \/ \E v \in Values : Send(v)
  \/ \E c \in Consumers : Receive(c) \/ Finish(c)
  \/ Drop
  \/ Close

Safety == Init /\ [][Next]_vars

\* An open channel with an item and a free consumer delivers.
Spec ==
  /\ Safety
  /\ WF_vars(ReceiveAny)
  /\ \A c \in Consumers : WF_vars(Finish(c))

=============================================================================
