----------------------------- MODULE BoundedQueue -----------------------------
(***************************************************************************)
(* src/src/common/bounded_queue.h, the queue between every two stages of   *)
(* the Echo server: one mutex, two condition variables, a deque.           *)
(*                                                                         *)
(* A step is what a thread does while it holds the mutex, or one notify.   *)
(* The mutex is released BEFORE notify_one/notify_all is called, so any    *)
(* other thread may run between the two: that is the window in which a     *)
(* wakeup could get lost.  A notified waiter must take the mutex again and *)
(* evaluates its predicate again; waits may also end spuriously.           *)
(***************************************************************************)
EXTENDS Integers, Sequences, FiniteSets

CONSTANTS
  Producers,   \* threads that call Push, TryPush and Clear
  Consumers,   \* worker threads: while (auto task = queue.Pop(stop)) Handle(task)
  Stoppable,   \* the threads whose stop_token has stop_possible()
  Capacity,    \* capacity_
  Values,      \* the items
  None         \* a worker that holds no item

Threads == Producers \union Consumers

ASSUME QueueAssumption ==
  /\ IsFiniteSet(Producers) /\ IsFiniteSet(Consumers)
  /\ Producers \intersect Consumers = {}
  /\ Stoppable \subseteq Threads
  /\ Capacity \in Nat \ {0}
  /\ None \notin Values

VARIABLES
  items,   \* items_
  pc,      \* pc[t]: where thread t is
  arg,     \* arg[p]: the argument of the Push producer p is in
  held,    \* held[c]: the item worker c popped and is handling
  stop     \* the stop request has been made

vars == <<items, pc, arg, held, stop>>

ProducerPC == {"idle", "push", "blocked", "signal", "clearing"}
ConsumerPC == {"pop", "blocked", "signal", "handle", "exited"}

TypeOK ==
  /\ items \in Seq(Values)
  /\ pc \in [Threads -> ProducerPC \union ConsumerPC]
  /\ \A p \in Producers : pc[p] \in ProducerPC
  /\ \A c \in Consumers : pc[c] \in ConsumerPC
  /\ arg \in [Producers -> Values]
  /\ held \in [Consumers -> Values \union {None}]
  /\ stop \in BOOLEAN

Init ==
  /\ items = <<>>
  /\ pc = [t \in Threads |-> IF t \in Producers THEN "idle" ELSE "pop"]
  /\ arg \in [Producers -> Values]
  /\ held = [c \in Consumers |-> None]
  /\ stop = FALSE

Goto(t, label) == pc' = [pc EXCEPT ![t] = label]

HasRoom == Len(items) < Capacity
HasItem == items # <<>>

At(S, label) == {t \in S : pc[t] = label}
Count(S, label) == Cardinality(At(S, label))

\* wait(lock, stop, pred) gives up instead of blocking.
StopSeen(t) == stop /\ t \in Stoppable

-----------------------------------------------------------------------------
(* Push(value, stop), lines 24-36. *)

CallPush(p, v) ==
  /\ pc[p] = "idle"
  /\ arg' = [arg EXCEPT ![p] = v]
  /\ Goto(p, "push")
  /\ UNCHANGED <<items, held, stop>>

PushStore(p) ==
  /\ pc[p] = "push"
  /\ HasRoom
  /\ items' = Append(items, arg[p])
  /\ Goto(p, "signal")
  /\ UNCHANGED <<arg, held, stop>>

\* Mutant: a woken Push looks at the room only, and sleeps again.
BugPushBlock(p) ==
  /\ pc[p] = "push"
  /\ ~HasRoom
  /\ Goto(p, "blocked")
  /\ UNCHANGED <<items, arg, held, stop>>

PushBlock(p) ==
  /\ pc[p] = "push"
  /\ ~HasRoom
  /\ ~StopSeen(p)
  /\ Goto(p, "blocked")
  /\ UNCHANGED <<items, arg, held, stop>>

\* Returns false.
PushGiveUp(p) ==
  /\ pc[p] = "push"
  /\ ~HasRoom
  /\ StopSeen(p)
  /\ Goto(p, "idle")
  /\ UNCHANGED <<items, arg, held, stop>>

\* TryPush, lines 39-47: a full queue is left alone (no step), otherwise the
\* item goes in and the notify of Push follows.
TryPush(p, v) ==
  /\ pc[p] = "idle"
  /\ HasRoom
  /\ items' = Append(items, v)
  /\ Goto(p, "signal")
  /\ UNCHANGED <<arg, held, stop>>

\* Mutant: notifies not_full_, where only producers wait.
BugNotifyNotEmpty(p) ==
  /\ pc[p] = "signal"
  /\ pc' = [t \in Threads |->
              IF t = p THEN "idle"
              ELSE IF t \in Producers /\ pc[t] = "blocked" THEN "push" ELSE pc[t]]
  /\ UNCHANGED <<items, arg, held, stop>>

\* not_empty_.notify_one(), the mutex not held: one waiter, if there is one.
NotifyNotEmpty(p) ==
  /\ pc[p] = "signal"
  /\ LET waiting == {c \in Consumers : pc[c] = "blocked"}
     IN \/ /\ waiting = {}
           /\ Goto(p, "idle")
        \/ \E c \in waiting : pc' = [pc EXCEPT ![p] = "idle", ![c] = "pop"]
  /\ UNCHANGED <<items, arg, held, stop>>

-----------------------------------------------------------------------------
(* Pop(stop), lines 50-63, called in a loop by the worker. *)

\* Mutant: takes the newest item.
BugPopTake(c) ==
  /\ pc[c] = "pop"
  /\ HasItem
  /\ held' = [held EXCEPT ![c] = items[Len(items)]]
  /\ items' = SubSeq(items, 1, Len(items) - 1)
  /\ Goto(c, "signal")
  /\ UNCHANGED <<arg, stop>>

PopTake(c) ==
  /\ pc[c] = "pop"
  /\ HasItem
  /\ held' = [held EXCEPT ![c] = Head(items)]
  /\ items' = Tail(items)
  /\ Goto(c, "signal")
  /\ UNCHANGED <<arg, stop>>

PopBlock(c) ==
  /\ pc[c] = "pop"
  /\ ~HasItem
  /\ ~StopSeen(c)
  /\ Goto(c, "blocked")
  /\ UNCHANGED <<items, arg, held, stop>>

\* Mutant: leaves on the stop request, whatever is still queued.
BugPopGiveUp(c) ==
  /\ pc[c] = "pop"
  /\ StopSeen(c)
  /\ Goto(c, "exited")
  /\ UNCHANGED <<items, arg, held, stop>>

\* Returns nullopt: the worker leaves its loop.  The wait returns the
\* predicate, so this needs an EMPTY queue as well as the stop request.
PopGiveUp(c) ==
  /\ pc[c] = "pop"
  /\ ~HasItem
  /\ StopSeen(c)
  /\ Goto(c, "exited")
  /\ UNCHANGED <<items, arg, held, stop>>

NotifyNotFull(c) ==
  /\ pc[c] = "signal"
  /\ LET waiting == {p \in Producers : pc[p] = "blocked"}
     IN \/ /\ waiting = {}
           /\ Goto(c, "handle")
        \/ \E p \in waiting : pc' = [pc EXCEPT ![c] = "handle", ![p] = "push"]
  /\ UNCHANGED <<items, arg, held, stop>>

\* The worker is done with the item and calls Pop again.
PopAgain(c) ==
  /\ pc[c] = "handle"
  /\ held' = [held EXCEPT ![c] = None]
  /\ Goto(c, "pop")
  /\ UNCHANGED <<items, arg, stop>>

-----------------------------------------------------------------------------
(* Clear(), lines 71-77: two steps, as the notify follows the unlock. *)

ClearItems(p) ==
  /\ pc[p] = "idle"
  /\ items' = <<>>
  /\ Goto(p, "clearing")
  /\ UNCHANGED <<arg, held, stop>>

\* Mutant: Clear notifies nobody.
BugNotifyAllNotFull(p) ==
  /\ pc[p] = "clearing"
  /\ Goto(p, "idle")
  /\ UNCHANGED <<items, arg, held, stop>>

NotifyAllNotFull(p) ==
  /\ pc[p] = "clearing"
  /\ pc' = [t \in Threads |->
              IF t = p THEN "idle"
              ELSE IF t \in Producers /\ pc[t] = "blocked" THEN "push"
              ELSE pc[t]]
  /\ UNCHANGED <<items, arg, held, stop>>

-----------------------------------------------------------------------------
(* The waits, and std::jthread::request_stop. *)

Wake(t) ==
  /\ pc[t] = "blocked"
  /\ Goto(t, IF t \in Producers THEN "push" ELSE "pop")
  /\ UNCHANGED <<items, arg, held, stop>>

\* Nobody notified: condition variables may do this.
SpuriousWake(t) == Wake(t)

RequestStop ==
  /\ ~stop
  /\ stop' = TRUE
  /\ UNCHANGED <<items, pc, arg, held>>

\* The stop callback that wait() registered wakes its waiter.
StopWake(t) == StopSeen(t) /\ Wake(t)

-----------------------------------------------------------------------------
PushStep(p) ==
  PushStore(p) \/ PushBlock(p) \/ PushGiveUp(p) \/ NotifyNotEmpty(p)
    \/ NotifyAllNotFull(p)
PopStep(c) ==
  PopTake(c) \/ PopBlock(c) \/ PopGiveUp(c) \/ NotifyNotFull(c) \/ PopAgain(c)

Call(p) ==
  \/ \E v \in Values : CallPush(p, v) \/ TryPush(p, v)
  \/ ClearItems(p)

Next ==
  \/ \E p \in Producers : Call(p) \/ PushStep(p)
  \/ \E c \in Consumers : PopStep(c)
  \/ \E t \in Threads : SpuriousWake(t) \/ StopWake(t)
  \/ RequestStop

\* A thread inside Push, Pop or Clear is scheduled (the mutex is never held
\* across a wait for something else), a worker finishes what it handles, and a
\* stop callback runs.  Nothing obliges anyone to call, to stop, or to wake
\* without a reason.
Fairness ==
  /\ \A p \in Producers : WF_vars(PushStep(p))
  /\ \A c \in Consumers : WF_vars(PopStep(c))
  /\ \A t \in Threads : WF_vars(StopWake(t))

Safety == Init /\ [][Next]_vars
Spec == Safety /\ Fairness

-----------------------------------------------------------------------------
(* Correctness. *)

\* A worker sleeps on a non-empty queue only while every queued item still has
\* a notify_one on its way or a worker that is about to look: notifying after
\* the unlock, one waiter at a time, loses no wakeup.  (bounded_queue.h:33-34)
NoLostItem ==
  At(Consumers, "blocked") # {} =>
    Len(items) <= Count(Producers, "signal") + Count(Consumers, "pop")

\* A producer sleeps while there is room only if every free slot has a
\* notify_one or a waking producer on its way, or a Clear still owes its
\* notify_all.  (bounded_queue.h:60-61 and 76)
NoLostRoom ==
  \/ At(Producers, "blocked") = {}
  \/ At(Producers, "clearing") # {}
  \/ Capacity - Len(items)
       <= Count(Consumers, "signal") + Count(Producers, "push")

\* The queue never holds more than its capacity, whichever producers were let
\* in between the wait and the push_back.  (bounded_queue.h:26-32, 42)
WithinCapacity == Len(items) <= Capacity

\* The channel this queue implements: same items, same hands.
Abstract == INSTANCE Channel WITH buf <- items, open <- ~stop

\* The queue delivers in order, drops only what is queued, and keeps
\* delivering: every behaviour of the code is one of the channel.
ImplementsChannel == Abstract!Spec

\* The part of it that says what a step may do, without the fairness.
StepsAreChannelSteps == Abstract!Safety

\* A stop request ends every wait it reaches, wherever it meets the call and
\* whatever the others go on doing with the queue: a Push under way returns,
\* its item stored or given up, and a Pop under way returns with an item or,
\* the queue found empty, with nothing.  A thread woken by the request may find
\* that others filled or emptied the queue again and must still not go back to
\* sleep.  (bounded_queue.h:28, 54)
StopReleases ==
  /\ \A p \in Producers \intersect Stoppable :
       (stop /\ pc[p] \in {"push", "blocked"}) ~> pc[p] = "idle"
  /\ \A c \in Consumers \intersect Stoppable :
       (stop /\ pc[c] \in {"pop", "blocked"}) ~> pc[c] \in {"handle", "exited"}

\* Once the producers have gone quiet, a stopped worker leaves its loop --
\* after it has handled everything that was still queued.
StoppedWorkersExit ==
  <>[](stop /\ \A p \in Producers : pc[p] = "idle")
    => \A c \in Consumers \intersect Stoppable :
         <>(pc[c] = "exited" /\ items = <<>>)
=============================================================================
