-------------------------- MODULE BoundedQueueProofs --------------------------
(* For every set of producers and workers and every capacity: the types, the *)
(* bound, the two facts about wakeups, and that every step of the code is a  *)
(* step of Channel.                                                          *)
EXTENDS BoundedQueue, FiniteSetTheorems, SequenceTheorems, TLAPS

-----------------------------------------------------------------------------
(* Counting the threads at a label when one of them moves. *)

\* One thread t arrives at a label and the others stay: the count grows by 1.
LEMMA CountArrives ==
  ASSUME NEW S, IsFiniteSet(S), NEW f, NEW g, NEW label, NEW t \in S,
         f[t] # label, g[t] = label, \A u \in S \ {t} : g[u] = f[u]
  PROVE  Cardinality({u \in S : g[u] = label})
           = Cardinality({u \in S : f[u] = label}) + 1
<1>1. {u \in S : g[u] = label} = {u \in S : f[u] = label} \union {t}
  OBVIOUS
<1>2. t \notin {u \in S : f[u] = label}
  OBVIOUS
<1>3. IsFiniteSet({u \in S : f[u] = label})
  BY FS_Subset
<1> QED BY <1>1, <1>2, <1>3, FS_AddElement

LEMMA CountLeaves ==
  ASSUME NEW S, IsFiniteSet(S), NEW f, NEW g, NEW label, NEW t \in S,
         f[t] = label, g[t] # label, \A u \in S \ {t} : g[u] = f[u]
  PROVE  Cardinality({u \in S : f[u] = label})
           = Cardinality({u \in S : g[u] = label}) + 1
<1>1. \A u \in S \ {t} : f[u] = g[u]
  OBVIOUS
<1> QED BY <1>1, CountArrives

-----------------------------------------------------------------------------
\* Every variable keeps the type its C++ declaration gives it.
THEOREM TypeCorrect == Spec => []TypeOK
<1>1. Init => TypeOK
  <2> SUFFICES ASSUME Init PROVE TypeOK
    OBVIOUS
  <2>1. items \in Seq(Values)
    BY EmptySeq DEF Init
  <2>2. /\ pc \in [Threads -> ProducerPC \union ConsumerPC]
        /\ \A p \in Producers : pc[p] \in ProducerPC
        /\ \A c \in Consumers : pc[c] \in ConsumerPC
    BY QueueAssumption DEF Init, Threads, ProducerPC, ConsumerPC
  <2> QED BY <2>1, <2>2 DEF Init, TypeOK
<1>2. TypeOK /\ [Next]_vars => TypeOK'
  <2> SUFFICES ASSUME TypeOK, [Next]_vars PROVE TypeOK'
    OBVIOUS
  <2> USE QueueAssumption DEF TypeOK, Threads, ProducerPC, ConsumerPC, Goto
  <2>1. ASSUME NEW p \in Producers, Call(p) PROVE TypeOK'
    <3>1. ASSUME NEW v \in Values, CallPush(p, v) PROVE TypeOK'
      BY <3>1 DEF CallPush
    <3>2. ASSUME NEW v \in Values, TryPush(p, v) PROVE TypeOK'
      BY <3>2 DEF TryPush
    <3>3. CASE ClearItems(p)
      BY <3>3, EmptySeq DEF ClearItems
    <3> QED BY <2>1, <3>1, <3>2, <3>3 DEF Call
  <2>2. ASSUME NEW p \in Producers, PushStep(p) PROVE TypeOK'
    <3>1. CASE PushStore(p)
      BY <3>1 DEF PushStore
    <3>2. CASE PushBlock(p) \/ PushGiveUp(p)
      BY <3>2 DEF PushBlock, PushGiveUp
    <3>3. CASE NotifyNotEmpty(p)
      BY <3>3 DEF NotifyNotEmpty
    <3>4. CASE NotifyAllNotFull(p)
      BY <3>4 DEF NotifyAllNotFull
    <3> QED BY <2>2, <3>1, <3>2, <3>3, <3>4 DEF PushStep
  <2>3. ASSUME NEW c \in Consumers, PopStep(c) PROVE TypeOK'
    <3>1. CASE PopTake(c)
      BY <3>1 DEF PopTake, HasItem
    <3>2. CASE PopBlock(c) \/ PopGiveUp(c)
      BY <3>2 DEF PopBlock, PopGiveUp
    <3>3. CASE NotifyNotFull(c)
      BY <3>3 DEF NotifyNotFull
    <3>4. CASE PopAgain(c)
      BY <3>4 DEF PopAgain
    <3> QED BY <2>3, <3>1, <3>2, <3>3, <3>4 DEF PopStep
  <2>4. ASSUME NEW t \in Threads, Wake(t) PROVE TypeOK'
    BY <2>4 DEF Wake
  <2>5. CASE RequestStop
    BY <2>5 DEF RequestStop
  <2>6. CASE UNCHANGED vars
    BY <2>6 DEF vars
  <2> QED
    BY <2>1, <2>2, <2>3, <2>4, <2>5, <2>6 DEF Next, SpuriousWake, StopWake
<1> QED BY <1>1, <1>2, PTL DEF Spec, Safety

-----------------------------------------------------------------------------
\* A queue is never longer than its capacity: the predicate is evaluated and
\* the item stored under one lock.
THEOREM CapacityBound == Spec => []WithinCapacity
<1>1. Init => WithinCapacity
  BY QueueAssumption DEF Init, WithinCapacity
<1>2. TypeOK /\ WithinCapacity /\ [Next]_vars => WithinCapacity'
  <2> SUFFICES ASSUME TypeOK, WithinCapacity, [Next]_vars PROVE WithinCapacity'
    OBVIOUS
  <2> USE QueueAssumption DEF TypeOK, WithinCapacity
  <2>1. ASSUME NEW p \in Producers, NEW v \in Values, TryPush(p, v)
        PROVE WithinCapacity'
    BY <2>1 DEF TryPush, HasRoom
  <2>2. ASSUME NEW p \in Producers, PushStore(p) PROVE WithinCapacity'
    BY <2>2 DEF PushStore, HasRoom
  <2>3. ASSUME NEW c \in Consumers, PopTake(c) PROVE WithinCapacity'
    BY <2>3 DEF PopTake, HasItem
  <2>4. ASSUME NEW p \in Producers, ClearItems(p) PROVE WithinCapacity'
    BY <2>4 DEF ClearItems
  <2>5. CASE items' = items
    BY <2>5
  <2> QED
    BY <2>1, <2>2, <2>3, <2>4, <2>5
    DEF Next, Call, PushStep, PopStep, SpuriousWake, StopWake, Wake, CallPush,
        PushBlock, PushGiveUp, NotifyNotEmpty, NotifyAllNotFull, PopBlock,
        PopGiveUp, NotifyNotFull, PopAgain, RequestStop, vars
<1> QED BY <1>1, <1>2, TypeCorrect, PTL DEF Spec, Safety

-----------------------------------------------------------------------------
\* A worker holds an item exactly from Pop's take to its next call of Pop.
HandsMatch ==
  \A c \in Consumers : held[c] = None <=> pc[c] \in {"pop", "blocked", "exited"}

LEMMA HandsMatchInvariant == Spec => []HandsMatch
<1>1. Init => HandsMatch
  BY QueueAssumption DEF Init, HandsMatch, Threads
<1>2. TypeOK /\ HandsMatch /\ [Next]_vars => HandsMatch'
  <2> SUFFICES ASSUME TypeOK, HandsMatch, [Next]_vars PROVE HandsMatch'
    OBVIOUS
  <2> USE QueueAssumption DEF TypeOK, HandsMatch, Threads, Goto
  <2>1. ASSUME NEW p \in Producers, Call(p) PROVE HandsMatch'
    BY <2>1 DEF Call, CallPush, TryPush, ClearItems
  <2>2. ASSUME NEW p \in Producers, PushStep(p) PROVE HandsMatch'
    <3>1. CASE NotifyAllNotFull(p)
      BY <3>1 DEF NotifyAllNotFull
    <3>2. CASE NotifyNotEmpty(p)
      BY <3>2 DEF NotifyNotEmpty
    <3> QED
      BY <2>2, <3>1, <3>2 DEF PushStep, PushStore, PushBlock, PushGiveUp
  <2>3. ASSUME NEW c \in Consumers, PopStep(c) PROVE HandsMatch'
    <3>1. CASE PopTake(c)
      BY <3>1, HeadTailProperties DEF PopTake, HasItem
    <3>2. CASE NotifyNotFull(c)
      BY <3>2 DEF NotifyNotFull
    <3> QED
      BY <2>3, <3>1, <3>2 DEF PopStep, PopBlock, PopGiveUp, PopAgain
  <2>4. ASSUME NEW t \in Threads, Wake(t) PROVE HandsMatch'
    BY <2>4 DEF Wake
  <2>5. CASE RequestStop \/ UNCHANGED vars
    BY <2>5 DEF RequestStop, vars
  <2> QED
    BY <2>1, <2>2, <2>3, <2>4, <2>5 DEF Next, SpuriousWake, StopWake
<1> QED BY <1>1, <1>2, TypeCorrect, PTL DEF Spec, Safety

\* Every step of the queue is a step of the channel or leaves it alone.
THEOREM ChannelRefinement == Spec => StepsAreChannelSteps
<1>1. Init => Abstract!Init
  BY DEF Init, Abstract!Init
<1>2. TypeOK /\ HandsMatch /\ [Next]_vars => [Abstract!Next]_(Abstract!vars)
  <2> SUFFICES ASSUME TypeOK, HandsMatch, [Next]_vars
               PROVE  Abstract!Next \/ UNCHANGED <<items, held, stop>>
    BY DEF Abstract!vars
  <2>1. ASSUME NEW p \in Producers, NEW v \in Values, TryPush(p, v)
        PROVE Abstract!Send(v)
    BY <2>1 DEF TryPush, HasRoom, Abstract!Send
  <2>2. ASSUME NEW p \in Producers, PushStore(p)
        PROVE Abstract!Send(arg[p])
    BY <2>2 DEF PushStore, HasRoom, Abstract!Send
  <2>3. ASSUME NEW p \in Producers, PushStore(p)
        PROVE \E v \in Values : Abstract!Send(v)
    BY <2>2, <2>3 DEF TypeOK
  <2>4. ASSUME NEW c \in Consumers, PopTake(c) PROVE Abstract!Receive(c)
    BY <2>4 DEF PopTake, HasItem, HandsMatch, Abstract!Receive
  <2>5. ASSUME NEW c \in Consumers, PopAgain(c) PROVE Abstract!Finish(c)
    BY <2>5 DEF PopAgain, HandsMatch, Abstract!Finish
  <2>6. ASSUME NEW p \in Producers, ClearItems(p) PROVE Abstract!Drop
    BY <2>6 DEF ClearItems, Abstract!Drop
  <2>7. CASE RequestStop
    BY <2>7 DEF RequestStop, Abstract!Close, Abstract!Next
  <2>8. CASE UNCHANGED <<items, held, stop>>
    BY <2>8
  <2> QED
    BY <2>1, <2>3, <2>4, <2>5, <2>6, <2>7, <2>8
    DEF Next, Call, PushStep, PopStep, SpuriousWake, StopWake, Wake, CallPush,
        PushBlock, PushGiveUp, NotifyNotEmpty, NotifyAllNotFull, PopBlock,
        PopGiveUp, NotifyNotFull, vars, Abstract!Next
<1> QED
  BY <1>1, <1>2, TypeCorrect, HandsMatchInvariant, PTL
  DEF Spec, Safety, StepsAreChannelSteps, Abstract!Safety

-----------------------------------------------------------------------------
\* Counts are natural numbers, before and after a step.
LEMMA CountsAreNat ==
  ASSUME NEW S, IsFiniteSet(S), NEW label
  PROVE  Count(S, label) \in Nat /\ Count(S, label)' \in Nat
<1>1. At(S, label) \subseteq S /\ At(S, label)' \subseteq S
  BY DEF At
<1>2. IsFiniteSet(At(S, label)) /\ IsFiniteSet(At(S, label)')
  BY <1>1, FS_Subset
<1> QED BY <1>2, FS_CardinalityType DEF Count

\* A thread of S arrives at a label while the others of S stay where they are.
LEMMA Arrives ==
  ASSUME NEW S, IsFiniteSet(S), NEW label, NEW t \in S,
         pc[t] # label, pc'[t] = label, \A u \in S \ {t} : pc'[u] = pc[u]
  PROVE  Count(S, label)' = Count(S, label) + 1
  BY CountArrives DEF Count, At

LEMMA Leaves ==
  ASSUME NEW S, IsFiniteSet(S), NEW label, NEW t \in S,
         pc[t] = label, pc'[t] # label, \A u \in S \ {t} : pc'[u] = pc[u]
  PROVE  Count(S, label) = Count(S, label)' + 1
  BY CountLeaves DEF Count, At

\* Nobody of S arrives at or leaves the label.
LEMMA Stays ==
  ASSUME NEW S, NEW label,
         \A u \in S : (pc'[u] = label) <=> (pc[u] = label)
  PROVE  Count(S, label)' = Count(S, label) /\ At(S, label)' = At(S, label)
<1>1. At(S, label)' = At(S, label)
  BY DEF At
<1> QED BY <1>1 DEF Count

-----------------------------------------------------------------------------
\* No wakeup for an item is lost, for any number of producers and workers.
THEOREM NoLostItemHolds == Spec => []NoLostItem
<1>1. Init => NoLostItem
  BY QueueAssumption DEF Init, NoLostItem, At, Threads
<1>2. TypeOK /\ NoLostItem /\ [Next]_vars => NoLostItem'
  <2> DEFINE Goal == Len(items)' <= Count(Producers, "signal")'
                                      + Count(Consumers, "pop")'
             Was == Len(items) <= Count(Producers, "signal")
                                    + Count(Consumers, "pop")
  <2> SUFFICES ASSUME TypeOK, NoLostItem, [Next]_vars,
                      At(Consumers, "blocked")' # {}
               PROVE  Goal
    BY DEF NoLostItem
  <2>nat. /\ Count(Producers, "signal") \in Nat
          /\ Count(Producers, "signal")' \in Nat
          /\ Count(Consumers, "pop") \in Nat
          /\ Count(Consumers, "pop")' \in Nat
          /\ Len(items) \in Nat
    BY QueueAssumption, CountsAreNat DEF TypeOK
  <2>was. At(Consumers, "blocked") # {} => Was
    BY DEF NoLostItem
  <2>fin. /\ IsFiniteSet(Producers) /\ IsFiniteSet(Consumers)
          /\ \A p \in Producers : p \notin Consumers
    BY QueueAssumption
  \* Nobody touches what the property counts, or the queue is empty.
  <2>same. ASSUME items' = items,
                  \A u \in Producers : (pc'[u] = "signal") <=> (pc[u] = "signal"),
                  \A u \in Consumers : pc'[u] = pc[u] \/ (pc[u] = "signal" /\ pc'[u] = "handle")
           PROVE  Goal
    <3>1. Count(Producers, "signal")' = Count(Producers, "signal")
      BY <2>same, Stays
    <3>2. /\ Count(Consumers, "pop")' = Count(Consumers, "pop")
          /\ At(Consumers, "blocked")' = At(Consumers, "blocked")
      <4>1. \A u \in Consumers : (pc'[u] = "pop") <=> (pc[u] = "pop")
        BY <2>same
      <4>2. \A u \in Consumers : (pc'[u] = "blocked") <=> (pc[u] = "blocked")
        BY <2>same
      <4> QED BY <4>1, <4>2, Stays
    <3> QED BY <3>1, <3>2, <2>same, <2>was
  <2>empty. ASSUME items' = <<>> PROVE Goal
    BY <2>empty, <2>nat
  \* An item is stored, and its notify is owed from then on.
  <2>store. ASSUME NEW p \in Producers, pc[p] # "signal",
                   pc' = [pc EXCEPT ![p] = "signal"],
                   Len(items)' = Len(items) + 1
            PROVE  Goal
    <3>1. Count(Producers, "signal")' = Count(Producers, "signal") + 1
      BY <2>store, <2>fin, Arrives DEF TypeOK, Threads
    <3>2. \A u \in Consumers : pc'[u] = pc[u]
      BY <2>store, <2>fin DEF TypeOK, Threads
    <3>3. /\ Count(Consumers, "pop")' = Count(Consumers, "pop")
          /\ At(Consumers, "blocked")' = At(Consumers, "blocked")
      BY <3>2, Stays
    <3> QED BY <3>1, <3>3, <2>store, <2>nat, <2>was
  \* A worker is about to look again; a producer may have notified it.
  <2>look. ASSUME NEW c \in Consumers, pc[c] # "pop", pc'[c] = "pop",
                  \A u \in Consumers \ {c} : pc'[u] = pc[u],
                  items' = items, At(Consumers, "blocked") # {},
                  Count(Producers, "signal") <= Count(Producers, "signal")' + 1
           PROVE  Goal
    <3>1. Count(Consumers, "pop")' = Count(Consumers, "pop") + 1
      BY <2>look, <2>fin, Arrives
    <3> QED BY <3>1, <2>look, <2>nat, <2>was
  <2> HIDE DEF Goal, Was
  <2> USE <2>fin DEF TypeOK, Threads, Goto, ProducerPC, ConsumerPC
  <2>1. ASSUME NEW p \in Producers, NEW v \in Values, TryPush(p, v) PROVE Goal
    <3>1. /\ pc[p] # "signal" /\ pc' = [pc EXCEPT ![p] = "signal"]
          /\ Len(items)' = Len(items) + 1
      BY <2>1 DEF TryPush
    <3> QED BY <3>1, <2>store
  <2>2. ASSUME NEW p \in Producers, PushStore(p) PROVE Goal
    <3>1. /\ pc[p] # "signal" /\ pc' = [pc EXCEPT ![p] = "signal"]
          /\ Len(items)' = Len(items) + 1
      BY <2>2 DEF PushStore
    <3> QED BY <3>1, <2>store
  <2>3. ASSUME NEW p \in Producers, NEW v \in Values, CallPush(p, v) PROVE Goal
    <3>1. /\ items' = items
          /\ \A u \in Producers : (pc'[u] = "signal") <=> (pc[u] = "signal")
          /\ \A u \in Consumers : pc'[u] = pc[u] \/ (pc[u] = "signal" /\ pc'[u] = "handle")
      BY <2>3 DEF CallPush
    <3> QED BY <3>1, <2>same
  <2>4. ASSUME NEW p \in Producers, PushBlock(p) \/ PushGiveUp(p) PROVE Goal
    <3>1. /\ items' = items
          /\ \A u \in Producers : (pc'[u] = "signal") <=> (pc[u] = "signal")
          /\ \A u \in Consumers : pc'[u] = pc[u] \/ (pc[u] = "signal" /\ pc'[u] = "handle")
      BY <2>4 DEF PushBlock, PushGiveUp
    <3> QED BY <3>1, <2>same
  <2>5. ASSUME NEW p \in Producers, NotifyAllNotFull(p) PROVE Goal
    <3>1. /\ items' = items
          /\ \A u \in Producers : (pc'[u] = "signal") <=> (pc[u] = "signal")
          /\ \A u \in Consumers : pc'[u] = pc[u] \/ (pc[u] = "signal" /\ pc'[u] = "handle")
      BY <2>5 DEF NotifyAllNotFull
    <3> QED BY <3>1, <2>same
  <2>6. ASSUME NEW p \in Producers, NotifyNotEmpty(p) PROVE Goal
    <3>1. CASE At(Consumers, "blocked") = {}
      <4>1. \A u \in Consumers : pc'[u] = pc[u]
        BY <2>6, <3>1 DEF NotifyNotEmpty, At
      <4>2. At(Consumers, "blocked")' = {}
        BY <3>1, <4>1, Stays
      <4> QED BY <4>2
    <3>2. ASSUME NEW c \in Consumers, pc[c] = "blocked",
                 pc' = [pc EXCEPT ![p] = "idle", ![c] = "pop"]
          PROVE  Goal
      <4>1. Count(Producers, "signal") = Count(Producers, "signal")' + 1
        BY <2>6, <3>2, Leaves DEF NotifyNotEmpty
      <4>2. At(Consumers, "blocked") # {} /\ items' = items
        BY <2>6, <3>2 DEF At, NotifyNotEmpty
      <4> QED BY <2>look, <2>nat, <3>2, <4>1, <4>2
    <3> QED BY <2>6, <3>1, <3>2 DEF NotifyNotEmpty, At
  <2>7. ASSUME NEW c \in Consumers, PopTake(c) PROVE Goal
    <3>1. Count(Consumers, "pop") = Count(Consumers, "pop")' + 1
      BY <2>7, Leaves DEF PopTake
    <3>2. \A u \in Producers : pc'[u] = pc[u]
      BY <2>7 DEF PopTake
    <3>3. Count(Producers, "signal")' = Count(Producers, "signal")
      BY <3>2, Stays
    <3>4. \A u \in Consumers : (pc'[u] = "blocked") <=> (pc[u] = "blocked")
      BY <2>7 DEF PopTake
    <3>5. At(Consumers, "blocked")' = At(Consumers, "blocked")
      BY <3>4, Stays
    <3>6. Len(items)' = Len(items) - 1
      BY <2>7, HeadTailProperties DEF PopTake, HasItem
    <3> QED BY <3>1, <3>3, <3>5, <3>6, <2>nat, <2>was DEF Goal, Was
  <2>8. ASSUME NEW c \in Consumers, PopBlock(c) \/ PopGiveUp(c) PROVE Goal
    BY <2>8, <2>empty DEF PopBlock, PopGiveUp, HasItem
  <2>9. ASSUME NEW c \in Consumers, NotifyNotFull(c) PROVE Goal
    <3>1. /\ items' = items
          /\ \A u \in Producers : (pc'[u] = "signal") <=> (pc[u] = "signal")
          /\ \A u \in Consumers : pc'[u] = pc[u] \/ (pc[u] = "signal" /\ pc'[u] = "handle")
      BY <2>9 DEF NotifyNotFull
    <3> QED BY <3>1, <2>same
  <2>10. ASSUME NEW c \in Consumers, PopAgain(c) \/ Wake(c) PROVE Goal
    <3>1. \A u \in Producers : pc'[u] = pc[u]
      BY <2>10 DEF PopAgain, Wake
    <3>2. Count(Producers, "signal")' = Count(Producers, "signal")
      BY <3>1, Stays
    <3>3. /\ pc[c] # "pop" /\ pc'[c] = "pop" /\ items' = items
          /\ \A u \in Consumers \ {c} : pc'[u] = pc[u]
      BY <2>10 DEF PopAgain, Wake
    <3>4. At(Consumers, "blocked") # {}
      BY <3>3 DEF At
    <3> QED BY <3>2, <3>3, <3>4, <2>nat, <2>look
  <2>11. ASSUME NEW p \in Producers, Wake(p) PROVE Goal
    <3>1. /\ items' = items
          /\ \A u \in Producers : (pc'[u] = "signal") <=> (pc[u] = "signal")
          /\ \A u \in Consumers : pc'[u] = pc[u] \/ (pc[u] = "signal" /\ pc'[u] = "handle")
      BY <2>11 DEF Wake
    <3> QED BY <3>1, <2>same
  <2>12. ASSUME NEW p \in Producers, ClearItems(p) PROVE Goal
    BY <2>12, <2>empty DEF ClearItems
  <2>13. CASE RequestStop \/ UNCHANGED vars
    <3>1. /\ items' = items
          /\ \A u \in Producers : (pc'[u] = "signal") <=> (pc[u] = "signal")
          /\ \A u \in Consumers : pc'[u] = pc[u] \/ (pc[u] = "signal" /\ pc'[u] = "handle")
      BY <2>13 DEF RequestStop, vars
    <3> QED BY <3>1, <2>same
  <2> QED
    BY <2>1, <2>2, <2>3, <2>4, <2>5, <2>6, <2>7, <2>8, <2>9, <2>10, <2>11,
       <2>12, <2>13
    DEF Next, Call, PushStep, PopStep, SpuriousWake, StopWake
<1> QED BY <1>1, <1>2, TypeCorrect, PTL DEF Spec, Safety

-----------------------------------------------------------------------------
\* No wakeup for a free slot is lost either.
THEOREM NoLostRoomHolds == Spec => []NoLostRoom
<1>1. Init => NoLostRoom
  BY QueueAssumption DEF Init, NoLostRoom, At, Threads
<1>2. TypeOK /\ NoLostRoom /\ [Next]_vars => NoLostRoom'
  <2> DEFINE Owed == Count(Consumers, "signal") + Count(Producers, "push")
             Goal == Capacity - Len(items)' <= Owed'
  <2> SUFFICES ASSUME TypeOK, NoLostRoom, [Next]_vars,
                      At(Producers, "blocked")' # {},
                      At(Producers, "clearing")' = {}
               PROVE  Goal
    BY DEF NoLostRoom
  <2>nat. /\ Count(Consumers, "signal") \in Nat
          /\ Count(Consumers, "signal")' \in Nat
          /\ Count(Producers, "push") \in Nat
          /\ Count(Producers, "push")' \in Nat
          /\ Len(items) \in Nat
          /\ Capacity \in Nat
    BY QueueAssumption, CountsAreNat DEF TypeOK
  <2>fin. /\ IsFiniteSet(Producers) /\ IsFiniteSet(Consumers)
          /\ \A p \in Producers : p \notin Consumers
    BY QueueAssumption
  \* The queue is full.
  <2>full. ASSUME items' = items, ~HasRoom PROVE Goal
    BY <2>full, <2>nat DEF HasRoom
  \* What is queued and what is owed together do not shrink.
  <2>carry. ASSUME At(Producers, "clearing")' = At(Producers, "clearing"),
                   At(Producers, "blocked") # {},
                   NEW n \in Nat, Len(items)' = n,
                   Len(items) + Owed <= n + Owed'
            PROVE  Goal
    BY <2>carry, <2>nat DEF NoLostRoom
  \* Nobody touches what the property counts.
  <2>same. ASSUME items' = items,
                  \A u \in Producers :
                    pc'[u] = pc[u] \/ (pc[u] = "signal" /\ pc'[u] = "idle"),
                  \A u \in Consumers :
                    (pc'[u] = "signal") <=> (pc[u] = "signal")
           PROVE  Goal
    <3>1. \A label \in {"push", "blocked", "clearing"} :
            \A u \in Producers : (pc'[u] = label) <=> (pc[u] = label)
      BY <2>same
    <3>2. Count(Consumers, "signal")' = Count(Consumers, "signal")
      BY <2>same, Stays
    <3>3. /\ Count(Producers, "push")' = Count(Producers, "push")
          /\ At(Producers, "blocked")' = At(Producers, "blocked")
          /\ At(Producers, "clearing")' = At(Producers, "clearing")
      BY <3>1, Stays
    <3> QED BY <3>2, <3>3, <2>same, <2>carry, <2>nat
  <2> HIDE DEF Goal
  <2> USE <2>fin DEF TypeOK, Threads, Goto, ProducerPC, ConsumerPC
  <2>1. ASSUME NEW p \in Producers, NEW v \in Values, TryPush(p, v) PROVE Goal
    <3>1. \A label \in {"push", "blocked", "clearing"} :
            \A u \in Producers : (pc'[u] = label) <=> (pc[u] = label)
      BY <2>1 DEF TryPush
    <3>2. /\ Count(Producers, "push")' = Count(Producers, "push")
          /\ At(Producers, "blocked")' = At(Producers, "blocked")
          /\ At(Producers, "clearing")' = At(Producers, "clearing")
      BY <3>1, Stays
    <3>3. \A u \in Consumers : (pc'[u] = "signal") <=> (pc[u] = "signal")
      BY <2>1 DEF TryPush
    <3>4. Count(Consumers, "signal")' = Count(Consumers, "signal")
      BY <3>3, Stays
    <3>5. Len(items)' = Len(items) + 1
      BY <2>1 DEF TryPush
    <3> QED BY <3>2, <3>4, <3>5, <2>carry, <2>nat
  <2>2. ASSUME NEW p \in Producers, PushStore(p) PROVE Goal
    <3>1. \A label \in {"blocked", "clearing"} :
            \A u \in Producers : (pc'[u] = label) <=> (pc[u] = label)
      BY <2>2 DEF PushStore
    <3>2. /\ At(Producers, "blocked")' = At(Producers, "blocked")
          /\ At(Producers, "clearing")' = At(Producers, "clearing")
      BY <3>1, Stays
    <3>3. \A u \in Consumers : (pc'[u] = "signal") <=> (pc[u] = "signal")
      BY <2>2 DEF PushStore
    <3>4. Count(Consumers, "signal")' = Count(Consumers, "signal")
      BY <3>3, Stays
    <3>5. Count(Producers, "push") = Count(Producers, "push")' + 1
      BY <2>2, Leaves DEF PushStore
    <3>6. Len(items)' = Len(items) + 1
      BY <2>2 DEF PushStore
    <3> QED BY <3>2, <3>4, <3>5, <3>6, <2>carry, <2>nat
  \* A producer is about to look: it calls Push, or it wakes up.
  <2>look. ASSUME NEW p \in Producers, items' = items,
                  pc[p] # "push", pc' = [pc EXCEPT ![p] = "push"],
                  pc[p] # "clearing", At(Producers, "blocked") # {}
           PROVE  Goal
    <3>1. \A u \in Producers : (pc'[u] = "clearing") <=> (pc[u] = "clearing")
      BY <2>look
    <3>2. At(Producers, "clearing")' = At(Producers, "clearing")
      BY <3>1, Stays
    <3>3. Count(Producers, "push")' = Count(Producers, "push") + 1
      BY <2>look, Arrives
    <3>4. \A u \in Consumers : (pc'[u] = "signal") <=> (pc[u] = "signal")
      BY <2>look
    <3>5. Count(Consumers, "signal")' = Count(Consumers, "signal")
      BY <3>4, Stays
    <3> QED BY <3>2, <3>3, <3>5, <2>look, <2>carry, <2>nat
  <2>3. ASSUME NEW p \in Producers, NEW v \in Values, CallPush(p, v) PROVE Goal
    <3>1. \A u \in Producers : (pc'[u] = "blocked") <=> (pc[u] = "blocked")
      BY <2>3 DEF CallPush
    <3>2. At(Producers, "blocked")' = At(Producers, "blocked")
      BY <3>1, Stays
    <3> QED BY <2>3, <3>2, <2>look DEF CallPush
  <2>4. ASSUME NEW p \in Producers, PushBlock(p) \/ PushGiveUp(p) PROVE Goal
    BY <2>4, <2>full DEF PushBlock, PushGiveUp
  <2>5. ASSUME NEW p \in Producers, NotifyAllNotFull(p) PROVE Goal
    <3>1. At(Producers, "blocked")' = {}
      BY <2>5 DEF NotifyAllNotFull, At
    <3> QED BY <3>1
  <2>6. ASSUME NEW p \in Producers, NotifyNotEmpty(p) PROVE Goal
    <3>1. /\ items' = items
          /\ \A u \in Producers :
               pc'[u] = pc[u] \/ (pc[u] = "signal" /\ pc'[u] = "idle")
          /\ \A u \in Consumers : (pc'[u] = "signal") <=> (pc[u] = "signal")
      BY <2>6 DEF NotifyNotEmpty
    <3> QED BY <3>1, <2>same
  <2>7. ASSUME NEW c \in Consumers, PopTake(c) PROVE Goal
    <3>1. Count(Consumers, "signal")' = Count(Consumers, "signal") + 1
      BY <2>7, Arrives DEF PopTake
    <3>2. \A u \in Producers : pc'[u] = pc[u]
      BY <2>7 DEF PopTake
    <3>3. /\ Count(Producers, "push")' = Count(Producers, "push")
          /\ At(Producers, "blocked")' = At(Producers, "blocked")
          /\ At(Producers, "clearing")' = At(Producers, "clearing")
      BY <3>2, Stays
    <3>4. Len(items)' = Len(items) - 1 /\ Len(items) # 0
      BY <2>7, HeadTailProperties, EmptySeq DEF PopTake, HasItem
    <3>5. Len(items) - 1 \in Nat /\ Owed' = Owed + 1
      BY <3>1, <3>3, <3>4, <2>nat
    <3>6. At(Producers, "blocked") # {}
      BY <3>3
    <3>7. Len(items) + Owed <= (Len(items) - 1) + Owed'
      BY <3>5, <2>nat
    <3> QED BY <3>3, <3>4, <3>5, <3>6, <3>7, <2>carry
  <2>8. ASSUME NEW c \in Consumers,
               PopBlock(c) \/ PopGiveUp(c) \/ PopAgain(c) \/ Wake(c)
        PROVE  Goal
    <3>1. /\ items' = items
          /\ \A u \in Producers : pc'[u] = pc[u]
          /\ \A u \in Consumers : (pc'[u] = "signal") <=> (pc[u] = "signal")
      BY <2>8 DEF PopBlock, PopGiveUp, PopAgain, Wake
    <3> QED BY <3>1, <2>same
  <2>9. ASSUME NEW c \in Consumers, NotifyNotFull(c) PROVE Goal
    <3>1. CASE At(Producers, "blocked") = {}
      <4>1. \A u \in Producers : pc'[u] = pc[u]
        BY <2>9, <3>1 DEF NotifyNotFull, At
      <4>2. At(Producers, "blocked")' = {}
        BY <3>1, <4>1, Stays
      <4> QED BY <4>2
    <3>2. ASSUME NEW p \in Producers, pc[p] = "blocked",
                 pc' = [pc EXCEPT ![c] = "handle", ![p] = "push"]
          PROVE  Goal
      <4>1. Count(Consumers, "signal") = Count(Consumers, "signal")' + 1
        BY <2>9, <3>2, Leaves DEF NotifyNotFull
      <4>2. Count(Producers, "push")' = Count(Producers, "push") + 1
        BY <2>9, <3>2, Arrives
      <4>3. \A u \in Producers : (pc'[u] = "clearing") <=> (pc[u] = "clearing")
        BY <3>2
      <4>4. At(Producers, "clearing")' = At(Producers, "clearing")
        BY <4>3, Stays
      <4>5. At(Producers, "blocked") # {} /\ items' = items
        BY <2>9, <3>2 DEF At, NotifyNotFull
      <4>6. Owed' = Owed
        BY <4>1, <4>2, <2>nat
      <4> QED BY <4>4, <4>5, <4>6, <2>carry, <2>nat
    <3> QED BY <2>9, <3>1, <3>2 DEF NotifyNotFull, At
  <2>10. ASSUME NEW p \in Producers, Wake(p) PROVE Goal
    <3>1. At(Producers, "blocked") # {}
      BY <2>10 DEF Wake, At
    <3> QED BY <2>10, <3>1, <2>look DEF Wake
  <2>11. ASSUME NEW p \in Producers, ClearItems(p) PROVE Goal
    <3>1. At(Producers, "clearing")' # {}
      BY <2>11 DEF ClearItems, At
    <3> QED BY <3>1
  <2>12. CASE RequestStop \/ UNCHANGED vars
    <3>1. items' = items /\ pc' = pc
      BY <2>12 DEF RequestStop, vars
    <3> QED BY <3>1, <2>same
  <2> QED
    BY <2>1, <2>2, <2>3, <2>4, <2>5, <2>6, <2>7, <2>8, <2>9, <2>10, <2>11,
       <2>12
    DEF Next, Call, PushStep, PopStep, SpuriousWake, StopWake
<1> QED BY <1>1, <1>2, TypeCorrect, PTL DEF Spec, Safety
=============================================================================
