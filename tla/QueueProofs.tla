---------------------------- MODULE QueueProofs ----------------------------
(***************************************************************************)
(* Proofs about lib/Queue.h (module Queue) for every number of threads,    *)
(* every item set and every capacity that QueueAssumption and EnoughSlots  *)
(* allow: its types and its bound, and that no wakeup is lost.             *)
(***************************************************************************)
EXTENDS Queue, TLAPS, FiniteSetTheorems, SequenceTheorems

-----------------------------------------------------------------------------
(* Types and the bound.                                                    *)

\* What notify_one followed by the return does to thread.
LEMMA NotifyTypes ==
  ASSUME TypeOK, NEW t \in Threads, NotifyOneAndReturn(t), thread[t] # "waiting"
  PROVE  /\ thread' \in [Threads -> ThreadState]
         /\ thread'[t] = "idle"
         /\ \A u \in Threads \ {t} : thread'[u] = "idle" <=> thread[u] = "idle"
BY DEF TypeOK, NotifyOneAndReturn, WaitSet, ThreadState

LEMMA TypeStep == TypeOK /\ [Next]_vars => TypeOK'
<1> SUFFICES ASSUME TypeOK, [Next]_vars PROVE TypeOK'
  OBVIOUS
<1> USE QueueAssumption DEF TypeOK
<1>1. ASSUME NEW p \in Producers, NEW x \in Items, CallPush(p, x),
             UNCHANGED clearedUnderProducer
      PROVE  TypeOK'
  BY <1>1 DEF CallPush, Threads, ThreadState
<1>2. ASSUME NEW p \in Producers, PushStep(p),
             UNCHANGED clearedUnderProducer
      PROVE  TypeOK'
  <2>1. CASE IsFull(p)
    BY <1>2, <2>1 DEF PushStep, Wait, Runnable, Threads, ThreadState
  <2>2. CASE ~IsFull(p)
    <3>1. /\ queue' = Append(queue, arg[p])
          /\ arg' = [arg EXCEPT ![p] = NoItem]
          /\ NotifyOneAndReturn(p)
          /\ Runnable(p)
          /\ UNCHANGED clearedUnderProducer
      BY <1>2, <2>2 DEF PushStep
    <3>2. p \in Threads /\ thread[p] # "waiting" /\ thread[p] # "idle"
      BY <3>1 DEF Runnable, Threads
    <3>3. /\ thread' \in [Threads -> ThreadState]
          /\ \A q \in Producers : arg'[q] = NoItem <=> thread'[q] = "idle"
      BY <3>1, <3>2, NotifyTypes DEF Threads
    <3>4. arg[p] \in Items
      BY <3>2
    <3>5. queue' \in Seq(Items) /\ Len(queue') = Len(queue) + 1
      BY <3>1, <3>4, AppendProperties
    <3>6. Len(queue') <= Capacity
      <4>1. Len(queue) \in Nat /\ Len(queue) < Capacity
        BY <2>2, LenProperties DEF IsFull
      <4>2. QED
        BY <4>1, <3>5
    <3>7. QED
      BY <3>1, <3>3, <3>5, <3>6
  <2>3. QED
    BY <2>1, <2>2
<1>3. ASSUME NEW c \in Consumers, CallPop(c),
             UNCHANGED clearedUnderProducer
      PROVE  TypeOK'
  BY <1>3 DEF CallPop, Threads, ThreadState
<1>4. ASSUME NEW c \in Consumers, PopStep(c),
             UNCHANGED clearedUnderProducer
      PROVE  TypeOK'
  <2> c \notin Producers /\ c \in Threads
    BY DEF Threads
  <2>1. CASE IsEmpty(c)
    BY <1>4, <2>1 DEF PopStep, Wait, Runnable, Threads, ThreadState
  <2>2. CASE ~IsEmpty(c)
    <3>1. /\ queue' = Tail(queue)
          /\ NotifyOneAndReturn(c)
          /\ Runnable(c)
          /\ UNCHANGED <<arg, clearedUnderProducer>>
      BY <1>4, <2>2 DEF PopStep
    <3>2. thread[c] # "waiting"
      BY <3>1 DEF Runnable
    <3>3. /\ thread' \in [Threads -> ThreadState]
          /\ \A q \in Producers : arg'[q] = NoItem <=> thread'[q] = "idle"
      BY <3>1, <3>2, NotifyTypes DEF Threads
    <3>4. queue' \in Seq(Items) /\ Len(queue') = Len(queue) - 1
      BY <3>1, <2>2, HeadTailProperties DEF IsEmpty
    <3>5. QED
      BY <3>1, <3>3, <3>4, LenProperties
  <2>3. QED
    BY <2>1, <2>2
<1>5. ASSUME NEW t \in Threads, SpuriousWakeup(t),
             UNCHANGED clearedUnderProducer
      PROVE  TypeOK'
  BY <1>5 DEF SpuriousWakeup, Threads, ThreadState
<1>6. ASSUME Clear
      PROVE  TypeOK'
  BY <1>6 DEF Clear
<1>7. ASSUME UNCHANGED vars
      PROVE  TypeOK'
  BY <1>7 DEF vars, WaitSet
<1>8. QED
  BY <1>1, <1>2, <1>3, <1>4, <1>5, <1>6, <1>7 DEF Next, Call

LEMMA TypeCorrectInit == Init => TypeOK
<1> SUFFICES ASSUME Init PROVE TypeOK
  OBVIOUS
<1>1. queue \in Seq(Items) /\ Len(queue) = 0
  BY EmptySeq DEF Init
<1>2. thread \in [Threads -> ThreadState]
  BY DEF Init, ThreadState
<1>3. \A p \in Producers : arg[p] = NoItem /\ thread[p] = "idle"
  BY DEF Init, Threads
<1>4. clearedUnderProducer \in BOOLEAN
  BY DEF Init
<1>5. arg \in [Producers -> Items \cup {NoItem}]
  BY DEF Init
<1>6. Len(queue) <= Capacity
  BY <1>1, QueueAssumption
<1>7. QED
  BY <1>1, <1>2, <1>3, <1>4, <1>5, <1>6, Zenon DEF TypeOK

\* The variables keep their types and the queue its bound: neither Push's nor
\* Pop's loop ever lets more than _capacity items in.
THEOREM TypeCorrect == Spec => []TypeOK
BY TypeCorrectInit, TypeStep, PTL DEF Spec

-----------------------------------------------------------------------------
(* No lost wakeup.  TypeOK, OneKindWaits and NoLostWakeup together are      *)
(* inductive: a consumer starts to wait on an empty queue; a producer that  *)
(* was still waiting then would have Capacity woken producers besides, more *)
(* producers than EnoughSlots allows.  The other side is its mirror image.  *)

IInv == TypeOK /\ OneKindWaits /\ NoLostWakeup

LEMMA SubsetCard ==
  ASSUME NEW T, IsFiniteSet(T), NEW S \in SUBSET T
  PROVE  /\ IsFiniteSet(S)
         /\ Cardinality(S) \in Nat
         /\ Cardinality(T) \in Nat
         /\ Cardinality(S) <= Cardinality(T)
         /\ S # T => Cardinality(S) < Cardinality(T)
BY FS_Subset, FS_CardinalityType

LEMMA WokenFinite ==
  /\ IsFiniteSet(WokenProducers) /\ Cardinality(WokenProducers) \in Nat
  /\ IsFiniteSet(WokenConsumers) /\ Cardinality(WokenConsumers) \in Nat
  /\ Cardinality(WokenProducers') \in Nat
  /\ Cardinality(WokenConsumers') \in Nat
BY SubsetCard, QueueAssumption DEF WokenProducers, WokenConsumers

\* A waiting thread is not woken, so the woken threads of its kind are fewer
\* than the slots.
LEMMA WokenBound ==
  /\ WaitingProducers # {} => Cardinality(WokenProducers) < Capacity
  /\ WaitingConsumers # {} => Cardinality(WokenConsumers) < Capacity
<1>1. /\ WaitingProducers # {} => WokenProducers # Producers
      /\ WaitingConsumers # {} => WokenConsumers # Consumers
  BY DEF WaitingProducers, WaitingConsumers, WokenProducers, WokenConsumers, WaitSet
<1>2. WokenProducers \in SUBSET Producers /\ WokenConsumers \in SUBSET Consumers
  BY DEF WokenProducers, WokenConsumers
<1>3. /\ WaitingProducers # {} => Cardinality(WokenProducers) < Cardinality(Producers)
      /\ WaitingConsumers # {} => Cardinality(WokenConsumers) < Cardinality(Consumers)
  BY <1>1, <1>2, SubsetCard, QueueAssumption
<1>4. Cardinality(Producers) \in Nat /\ Cardinality(Consumers) \in Nat
  BY FS_CardinalityType, QueueAssumption
<1>5. QED
  BY <1>3, <1>4, WokenFinite, EnoughSlots, QueueAssumption

\* While it holds, a full queue has no waiting consumer and an empty one no
\* waiting producer.
LEMMA WaitersMatch ==
  ASSUME IInv, ~clearedUnderProducer
  PROVE  /\ Len(queue) >= Capacity => WaitingConsumers = {}
         /\ queue = <<>> => WaitingProducers = {}
<1>1. Len(queue) \in Nat /\ (queue = <<>> => Len(queue) = 0)
  BY LenProperties, EmptySeq DEF IInv, TypeOK
<1>2. QED
  BY <1>1, WokenBound, WokenFinite, QueueAssumption DEF IInv, NoLostWakeup

\* How the counts of NoLostWakeup change when t returns and w is woken.
LEMMA NotifyCounts ==
  ASSUME TypeOK, NEW t \in Threads, NEW w \in WaitSet, Runnable(t),
         thread' = [[thread EXCEPT ![t] = "idle"] EXCEPT ![w] = "woken"]
  PROVE  /\ WaitSet' \subseteq WaitSet
         /\ w \in Producers => Cardinality(WokenProducers) <= Cardinality(WokenProducers')
         /\ w \in Consumers => Cardinality(WokenConsumers) <= Cardinality(WokenConsumers')
         /\ w \in Producers /\ t \in Consumers =>
              Cardinality(WokenProducers') = Cardinality(WokenProducers) + 1
         /\ w \in Consumers /\ t \in Producers =>
              Cardinality(WokenConsumers') = Cardinality(WokenConsumers) + 1
<1>1. w # t /\ w \in Threads /\ thread[w] = "waiting"
  BY DEF WaitSet, Runnable
<1>2. /\ thread'[w] = "woken"
      /\ thread'[t] = "idle"
      /\ \A u \in Threads : u # t /\ u # w => thread'[u] = thread[u]
  BY <1>1 DEF TypeOK
<1>3. WaitSet' \subseteq WaitSet
  <2> SUFFICES ASSUME NEW u \in Threads, thread'[u] = "waiting"
               PROVE  thread[u] = "waiting"
    BY DEF WaitSet
  <2>1. QED
    BY <1>2
<1>4. ASSUME w \in Producers
      PROVE  /\ WokenProducers' = (WokenProducers \ {t}) \cup {w}
             /\ w \notin WokenProducers
  <2>1. \A u \in Producers :
          thread'[u] = "woken" <=> u = w \/ (u # t /\ thread[u] = "woken")
    BY <1>1, <1>2 DEF Threads
  <2>2. QED
    BY <1>1, <1>4, <2>1 DEF WokenProducers
<1>5. ASSUME w \in Consumers
      PROVE  /\ WokenConsumers' = (WokenConsumers \ {t}) \cup {w}
             /\ w \notin WokenConsumers
  <2>1. \A u \in Consumers :
          thread'[u] = "woken" <=> u = w \/ (u # t /\ thread[u] = "woken")
    BY <1>1, <1>2 DEF Threads
  <2>2. QED
    BY <1>1, <1>5, <2>1 DEF WokenConsumers
<1>6. ASSUME w \in Producers
      PROVE  Cardinality(WokenProducers') =
               IF t \in WokenProducers THEN Cardinality(WokenProducers)
               ELSE Cardinality(WokenProducers) + 1
  <2>1. /\ IsFiniteSet(WokenProducers \ {t})
        /\ Cardinality(WokenProducers \ {t}) =
             IF t \in WokenProducers THEN Cardinality(WokenProducers) - 1
             ELSE Cardinality(WokenProducers)
    BY WokenFinite, FS_RemoveElement
  <2>2. w \notin WokenProducers \ {t}
    BY <1>4, <1>6
  <2>3. Cardinality((WokenProducers \ {t}) \cup {w}) = Cardinality(WokenProducers \ {t}) + 1
    BY <2>1, <2>2, FS_AddElement
  <2>4. Cardinality(WokenProducers') = Cardinality(WokenProducers \ {t}) + 1
    BY <1>4, <1>6, <2>3
  <2>5. Cardinality(WokenProducers) \in Nat
    BY WokenFinite
  <2>6. QED
    BY <2>1, <2>4, <2>5
<1>7. ASSUME w \in Consumers
      PROVE  Cardinality(WokenConsumers') =
               IF t \in WokenConsumers THEN Cardinality(WokenConsumers)
               ELSE Cardinality(WokenConsumers) + 1
  <2>1. /\ IsFiniteSet(WokenConsumers \ {t})
        /\ Cardinality(WokenConsumers \ {t}) =
             IF t \in WokenConsumers THEN Cardinality(WokenConsumers) - 1
             ELSE Cardinality(WokenConsumers)
    BY WokenFinite, FS_RemoveElement
  <2>2. w \notin WokenConsumers \ {t}
    BY <1>5, <1>7
  <2>3. Cardinality((WokenConsumers \ {t}) \cup {w}) = Cardinality(WokenConsumers \ {t}) + 1
    BY <2>1, <2>2, FS_AddElement
  <2>4. Cardinality(WokenConsumers') = Cardinality(WokenConsumers \ {t}) + 1
    BY <1>5, <1>7, <2>3
  <2>5. Cardinality(WokenConsumers) \in Nat
    BY WokenFinite
  <2>6. QED
    BY <2>1, <2>4, <2>5
<1>8. /\ t \in Consumers => t \notin WokenProducers
      /\ t \in Producers => t \notin WokenConsumers
  BY QueueAssumption DEF WokenProducers, WokenConsumers
<1>9. QED
  BY <1>3, <1>6, <1>7, <1>8, WokenFinite

\* Clear aside, the waiters and the woken threads change only as follows.
LEMMA CallKeepsWaiters ==
  ASSUME TypeOK, NEW t \in Threads, thread[t] = "idle",
         thread' = [thread EXCEPT ![t] = "entering"]
  PROVE  UNCHANGED <<WaitSet, WokenProducers, WokenConsumers>>
<1>1. /\ thread'[t] = "entering"
      /\ \A u \in Threads : u # t => thread'[u] = thread[u]
  BY DEF TypeOK
<1>2. UNCHANGED WaitSet
  BY <1>1 DEF WaitSet
<1>3. UNCHANGED WokenProducers
  BY <1>1 DEF WokenProducers, Threads
<1>4. UNCHANGED WokenConsumers
  BY <1>1 DEF WokenConsumers, Threads
<1>5. QED
  BY <1>2, <1>3, <1>4

LEMMA WaitAddsWaiter ==
  ASSUME TypeOK, NEW t \in Threads, Wait(t)
  PROVE  WaitSet' = WaitSet \cup {t}
<1>1. /\ thread'[t] = "waiting"
      /\ \A u \in Threads : u # t => thread'[u] = thread[u]
  BY DEF TypeOK, Wait
<1>2. QED
  BY <1>1 DEF WaitSet

\* Push preserves the pair, whether p waits or pushes and wakes w.
LEMMA PushKeepsWakeups ==
  ASSUME IInv, NEW p \in Producers, PushStep(p),
         UNCHANGED clearedUnderProducer
  PROVE  OneKindWaits' /\ NoLostWakeup'
<1>0. CASE clearedUnderProducer
  BY <1>0 DEF PushStep, OneKindWaits, NoLostWakeup
<1> SUFFICES ASSUME ~clearedUnderProducer
             PROVE  /\ WaitingProducers' = {} \/ WaitingConsumers' = {}
                    /\ WaitingConsumers' # {} =>
                         Len(queue') <= Cardinality(WokenConsumers')
                    /\ WaitingProducers' # {} =>
                         Capacity - Len(queue') <= Cardinality(WokenProducers')
  BY <1>0 DEF OneKindWaits, NoLostWakeup
<1>1. /\ p \in Threads /\ p \notin Consumers
      /\ Len(queue) \in Nat /\ Len(queue) <= Capacity /\ Capacity \in Nat
  BY QueueAssumption, LenProperties DEF IInv, TypeOK, Threads
<1>2. CASE IsFull(p)
  <2>1. Wait(p) /\ queue' = queue
    BY <1>2 DEF PushStep
  <2>2. Len(queue) = Capacity /\ WaitingConsumers = {}
    BY <1>1, <1>2, WaitersMatch DEF IsFull
  <2>3. WaitingConsumers' = {}
    BY <1>1, <2>1, <2>2, WaitAddsWaiter DEF IInv, WaitingConsumers
  <2>4. Cardinality(WokenProducers') \in Nat
    BY WokenFinite
  <2>5. QED
    BY <1>1, <2>1, <2>2, <2>3, <2>4
<1>3. CASE ~IsFull(p)
  <2>1. /\ queue' = Append(queue, arg[p])
        /\ NotifyOneAndReturn(p)
        /\ Runnable(p)
    BY <1>3 DEF PushStep
  <2>2. Len(queue') = Len(queue) + 1
    BY <2>1, <1>1, AppendProperties DEF IInv, TypeOK, Runnable
  <2>3. CASE WaitSet = {}
    <3>1. thread' = [thread EXCEPT ![p] = "idle"]
      BY <2>1, <2>3 DEF NotifyOneAndReturn
    <3>2. WaitSet' = {}
      BY <1>1, <2>3, <3>1 DEF WaitSet, IInv, TypeOK
    <3>3. QED
      BY <3>2 DEF WaitingProducers, WaitingConsumers
  <2>4. CASE WaitSet # {}
    <3>1. PICK w \in WaitSet :
            thread' = [[thread EXCEPT ![p] = "idle"] EXCEPT ![w] = "woken"]
      BY <2>1, <2>4 DEF NotifyOneAndReturn
    <3>2. /\ WaitSet' \subseteq WaitSet
          /\ w \in Producers => Cardinality(WokenProducers) <= Cardinality(WokenProducers')
          /\ w \in Consumers =>
               Cardinality(WokenConsumers') = Cardinality(WokenConsumers) + 1
      BY <1>1, <2>1, <3>1, NotifyCounts DEF IInv
    <3>3. Cardinality(WokenProducers) \in Nat /\ Cardinality(WokenConsumers) \in Nat
      BY WokenFinite
    <3>4. Cardinality(WokenProducers') \in Nat /\ Cardinality(WokenConsumers') \in Nat
      BY WokenFinite
    <3>5. CASE w \in Producers
      <4>1. WaitingProducers # {} /\ WaitingConsumers = {}
        BY <3>5 DEF IInv, OneKindWaits, WaitingProducers
      <4>2. WaitingConsumers' = {}
        BY <3>2, <4>1 DEF WaitingConsumers
      <4>3. Capacity - Len(queue) <= Cardinality(WokenProducers)
        BY <4>1 DEF IInv, NoLostWakeup
      <4>4. Capacity - Len(queue') <= Cardinality(WokenProducers')
        BY <1>1, <2>2, <3>2, <3>3, <3>4, <3>5, <4>3
      <4>5. QED
        BY <4>2, <4>4
    <3>6. CASE w \in Consumers
      <4>1. WaitingConsumers # {} /\ WaitingProducers = {}
        BY <3>6 DEF IInv, OneKindWaits, WaitingConsumers
      <4>2. WaitingProducers' = {}
        BY <3>2, <4>1 DEF WaitingProducers
      <4>3. Len(queue) <= Cardinality(WokenConsumers)
        BY <4>1 DEF IInv, NoLostWakeup
      <4>4. Len(queue') <= Cardinality(WokenConsumers')
        BY <1>1, <2>2, <3>2, <3>3, <3>4, <3>6, <4>3
      <4>5. QED
        BY <4>2, <4>4
    <3>7. QED
      BY <3>5, <3>6 DEF WaitSet, Threads
  <2>5. QED
    BY <2>3, <2>4
<1>4. QED
  BY <1>2, <1>3

\* The mirror image: Pop preserves the pair.
LEMMA PopKeepsWakeups ==
  ASSUME IInv, NEW c \in Consumers, PopStep(c),
         UNCHANGED clearedUnderProducer
  PROVE  OneKindWaits' /\ NoLostWakeup'
<1>0. CASE clearedUnderProducer
  BY <1>0 DEF PopStep, OneKindWaits, NoLostWakeup
<1> SUFFICES ASSUME ~clearedUnderProducer
             PROVE  /\ WaitingProducers' = {} \/ WaitingConsumers' = {}
                    /\ WaitingConsumers' # {} =>
                         Len(queue') <= Cardinality(WokenConsumers')
                    /\ WaitingProducers' # {} =>
                         Capacity - Len(queue') <= Cardinality(WokenProducers')
  BY <1>0 DEF OneKindWaits, NoLostWakeup
<1>1. /\ c \in Threads /\ c \notin Producers
      /\ Len(queue) \in Nat /\ Capacity \in Nat
  BY QueueAssumption, LenProperties DEF IInv, TypeOK, Threads
<1>2. CASE IsEmpty(c)
  <2>1. Wait(c) /\ queue' = queue
    BY <1>2 DEF PopStep
  <2>2. queue' = <<>> /\ WaitingProducers = {}
    BY <1>2, <2>1, WaitersMatch DEF IsEmpty
  <2>3. WaitingProducers' = {}
    BY <1>1, <2>1, <2>2, WaitAddsWaiter DEF IInv, WaitingProducers
  <2>4. Len(queue') = 0 /\ Cardinality(WokenConsumers') \in Nat
    BY <2>2, EmptySeq, WokenFinite
  <2>5. QED
    BY <2>3, <2>4
<1>3. CASE ~IsEmpty(c)
  <2>1. /\ queue' = Tail(queue)
        /\ NotifyOneAndReturn(c)
        /\ Runnable(c)
    BY <1>3 DEF PopStep
  <2>2. Len(queue') = Len(queue) - 1
    BY <1>3, <2>1, HeadTailProperties DEF IInv, TypeOK, IsEmpty
  <2>3. CASE WaitSet = {}
    <3>1. thread' = [thread EXCEPT ![c] = "idle"]
      BY <2>1, <2>3 DEF NotifyOneAndReturn
    <3>2. WaitSet' = {}
      BY <1>1, <2>3, <3>1 DEF WaitSet, IInv, TypeOK
    <3>3. QED
      BY <3>2 DEF WaitingProducers, WaitingConsumers
  <2>4. CASE WaitSet # {}
    <3>1. PICK w \in WaitSet :
            thread' = [[thread EXCEPT ![c] = "idle"] EXCEPT ![w] = "woken"]
      BY <2>1, <2>4 DEF NotifyOneAndReturn
    <3>2. /\ WaitSet' \subseteq WaitSet
          /\ w \in Consumers => Cardinality(WokenConsumers) <= Cardinality(WokenConsumers')
          /\ w \in Producers =>
               Cardinality(WokenProducers') = Cardinality(WokenProducers) + 1
      BY <1>1, <2>1, <3>1, NotifyCounts DEF IInv
    <3>3. /\ Cardinality(WokenProducers) \in Nat
          /\ Cardinality(WokenConsumers) \in Nat
          /\ Cardinality(WokenProducers') \in Nat
          /\ Cardinality(WokenConsumers') \in Nat
      BY WokenFinite
    <3>4. CASE w \in Consumers
      <4>1. WaitingConsumers # {} /\ WaitingProducers = {}
        BY <3>4 DEF IInv, OneKindWaits, WaitingConsumers
      <4>2. WaitingProducers' = {}
        BY <3>2, <4>1 DEF WaitingProducers
      <4>3. Len(queue) <= Cardinality(WokenConsumers)
        BY <4>1 DEF IInv, NoLostWakeup
      <4>4. Len(queue') <= Cardinality(WokenConsumers')
        BY <1>1, <2>2, <3>2, <3>3, <3>4, <4>3
      <4>5. QED
        BY <4>2, <4>4
    <3>5. CASE w \in Producers
      <4>1. WaitingProducers # {} /\ WaitingConsumers = {}
        BY <3>5 DEF IInv, OneKindWaits, WaitingProducers
      <4>2. WaitingConsumers' = {}
        BY <3>2, <4>1 DEF WaitingConsumers
      <4>3. Capacity - Len(queue) <= Cardinality(WokenProducers)
        BY <4>1 DEF IInv, NoLostWakeup
      <4>4. Capacity - Len(queue') <= Cardinality(WokenProducers')
        BY <1>1, <2>2, <3>2, <3>3, <3>5, <4>3
      <4>5. QED
        BY <4>2, <4>4
    <3>6. QED
      BY <3>4, <3>5 DEF WaitSet, Threads
  <2>5. QED
    BY <2>3, <2>4
<1>4. QED
  BY <1>2, <1>3

\* A spurious wakeup takes a waiter away and adds a woken thread.
LEMMA SpuriousKeepsWakeups ==
  ASSUME IInv, NEW t \in Threads, SpuriousWakeup(t),
         UNCHANGED clearedUnderProducer
  PROVE  OneKindWaits' /\ NoLostWakeup'
<1>1. /\ thread'[t] = "woken"
      /\ \A u \in Threads : u # t => thread'[u] = thread[u]
      /\ queue' = queue /\ clearedUnderProducer' = clearedUnderProducer
  BY DEF SpuriousWakeup, IInv, TypeOK
<1>2. WaitSet' \subseteq WaitSet
  BY <1>1 DEF WaitSet
<1>3. WaitingProducers' \subseteq WaitingProducers /\ WaitingConsumers' \subseteq WaitingConsumers
  BY <1>2 DEF WaitingProducers, WaitingConsumers
<1>4. /\ WokenProducers \in SUBSET WokenProducers' /\ WokenProducers' \in SUBSET Producers
      /\ WokenConsumers \in SUBSET WokenConsumers' /\ WokenConsumers' \in SUBSET Consumers
  BY <1>1 DEF WokenProducers, WokenConsumers, Threads
<1>5. IsFiniteSet(WokenProducers') /\ IsFiniteSet(WokenConsumers')
  BY <1>4, FS_Subset, QueueAssumption
<1>6. /\ Cardinality(WokenProducers) <= Cardinality(WokenProducers')
      /\ Cardinality(WokenConsumers) <= Cardinality(WokenConsumers')
  BY <1>4, <1>5, FS_Subset
<1>7. Len(queue) \in Nat /\ Capacity \in Nat
  BY LenProperties, QueueAssumption DEF IInv, TypeOK
<1>8. OneKindWaits'
  BY <1>1, <1>3 DEF IInv, OneKindWaits
<1>9. NoLostWakeup'
  BY <1>1, <1>3, <1>6, <1>7, WokenFinite DEF IInv, NoLostWakeup
<1>10. QED
  BY <1>8, <1>9

\* A call that only enters changes neither the waiters nor the woken threads.
LEMMA SameWaitersKeepWakeups ==
  ASSUME IInv, UNCHANGED <<queue, WaitSet, WokenProducers, WokenConsumers,
                           clearedUnderProducer>>
  PROVE  OneKindWaits' /\ NoLostWakeup'
BY DEF IInv, OneKindWaits, NoLostWakeup, WaitingProducers, WaitingConsumers

\* Clear empties the queue: harmless to waiting consumers, and recorded when
\* a producer waits.
LEMMA ClearKeepsWakeups ==
  ASSUME IInv, Clear
  PROVE  OneKindWaits' /\ NoLostWakeup'
<1>1. WaitSet' = WaitSet /\ queue' = <<>>
  BY DEF Clear, WaitSet
<1>2. CASE clearedUnderProducer'
  BY <1>2 DEF OneKindWaits, NoLostWakeup
<1>3. CASE ~clearedUnderProducer'
  <2>1. WaitingProducers' = {}
    BY <1>1, <1>3 DEF Clear, WaitingProducers
  <2>2. Len(queue') = 0
    BY <1>1, EmptySeq
  <2>3. Len(queue') <= Cardinality(WokenConsumers')
    BY <2>2, WokenFinite
  <2>4. QED
    BY <2>1, <2>3 DEF OneKindWaits, NoLostWakeup
<1>4. QED
  BY <1>2, <1>3

LEMMA WakeupStep == IInv /\ [Next]_vars => IInv'
<1> SUFFICES ASSUME IInv, [Next]_vars PROVE OneKindWaits' /\ NoLostWakeup'
  BY TypeStep DEF IInv
<1>1. ASSUME NEW p \in Producers, NEW x \in Items, CallPush(p, x),
             UNCHANGED clearedUnderProducer
      PROVE  OneKindWaits' /\ NoLostWakeup'
  BY <1>1, CallKeepsWaiters, SameWaitersKeepWakeups DEF CallPush, IInv, Threads
<1>2. ASSUME NEW p \in Producers, PushStep(p),
             UNCHANGED clearedUnderProducer
      PROVE  OneKindWaits' /\ NoLostWakeup'
  BY <1>2, PushKeepsWakeups
<1>3. ASSUME NEW c \in Consumers, CallPop(c),
             UNCHANGED clearedUnderProducer
      PROVE  OneKindWaits' /\ NoLostWakeup'
  BY <1>3, CallKeepsWaiters, SameWaitersKeepWakeups DEF CallPop, IInv, Threads
<1>4. ASSUME NEW c \in Consumers, PopStep(c),
             UNCHANGED clearedUnderProducer
      PROVE  OneKindWaits' /\ NoLostWakeup'
  BY <1>4, PopKeepsWakeups
<1>5. ASSUME NEW t \in Threads, SpuriousWakeup(t),
             UNCHANGED clearedUnderProducer
      PROVE  OneKindWaits' /\ NoLostWakeup'
  BY <1>5, SpuriousKeepsWakeups
<1>6. ASSUME Clear
      PROVE  OneKindWaits' /\ NoLostWakeup'
  BY <1>6, ClearKeepsWakeups
<1>7. ASSUME UNCHANGED vars
      PROVE  OneKindWaits' /\ NoLostWakeup'
  BY <1>7, SameWaitersKeepWakeups DEF vars, WaitSet, WokenProducers, WokenConsumers
<1>8. QED
  BY <1>1, <1>2, <1>3, <1>4, <1>5, <1>6, <1>7 DEF Next, Call

LEMMA IInvCorrect == Spec => []IInv
<1>1. Init => IInv
  <2>1. Init => WaitSet = {}
    BY DEF Init, WaitSet
  <2>2. Init => TypeOK
    BY TypeCorrectInit
  <2>3. QED
    BY <2>1, <2>2 DEF IInv, OneKindWaits, NoLostWakeup, WaitingProducers, WaitingConsumers
<1>2. QED
  BY <1>1, WakeupStep, PTL DEF Spec

\* notify_one on the shared condition never has both kinds to choose from,
\* for any number of threads up to the capacity on each side.
THEOREM OneKindWaitsAlways == Spec => []OneKindWaits
<1>1. IInv => OneKindWaits
  BY DEF IInv
<1>2. QED
  BY <1>1, IInvCorrect, PTL

\* No call of Push or Pop is left waiting for an item or a slot that is there
\* and that no woken thread is on its way to.
THEOREM NoWakeupIsLost == Spec => []NoLostWakeup
<1>1. IInv => NoLostWakeup
  BY DEF IInv
<1>2. QED
  BY <1>1, IInvCorrect, PTL

-----------------------------------------------------------------------------
(* The monitor implements the blocking FIFO.                               *)

\* The pending Pops of the abstract queue.
Popping == {c \in Consumers : thread[c] # "idle"}

LEMMA PushImplements ==
  ASSUME TypeOK, NEW p \in Producers, PushStep(p)
  PROVE  [Fifo!Next]_Fifo!vars
<1>1. p \in Threads /\ p \notin Consumers /\ thread[p] # "waiting" /\ thread[p] # "idle"
  BY QueueAssumption DEF PushStep, Runnable, Threads
<1>2. CASE IsFull(p)
  <2>1. UNCHANGED <<queue, arg>> /\ Wait(p)
    BY <1>2 DEF PushStep
  <2>2. Popping' = Popping
    BY <1>1, <2>1 DEF Wait, Popping, TypeOK, Threads
  <2>3. QED
    BY <2>1, <2>2 DEF Fifo!vars, Popping
<1>3. CASE ~IsFull(p)
  <2>1. /\ queue' = Append(queue, arg[p])
        /\ arg' = [arg EXCEPT ![p] = NoItem]
        /\ NotifyOneAndReturn(p)
    BY <1>3 DEF PushStep
  <2>2. Popping' = Popping
    BY <1>1, <2>1, NotifyTypes DEF Popping, Threads
  <2>3. arg[p] # NoItem
    BY <1>1 DEF TypeOK
  <2>4. Len(queue) < Capacity
    BY <1>3, LenProperties, QueueAssumption DEF IsFull, TypeOK
  <2>5. Fifo!Put(p)
    BY <2>1, <2>2, <2>3, <2>4 DEF Fifo!Put, Popping
  <2>6. QED
    BY <2>5 DEF Fifo!Next, Fifo!SomePut
<1>4. QED
  BY <1>2, <1>3

LEMMA PopImplements ==
  ASSUME TypeOK, NEW c \in Consumers, PopStep(c)
  PROVE  [Fifo!Next]_Fifo!vars
<1>1. c \in Threads /\ thread[c] # "waiting" /\ thread[c] # "idle"
  BY DEF PopStep, Runnable, Threads
<1>2. CASE IsEmpty(c)
  <2>1. UNCHANGED <<queue, arg>> /\ Wait(c)
    BY <1>2 DEF PopStep
  <2>2. Popping' = Popping
    BY <1>1, <2>1 DEF Wait, Popping, TypeOK, Threads
  <2>3. QED
    BY <2>1, <2>2 DEF Fifo!vars, Popping
<1>3. CASE ~IsEmpty(c)
  <2>1. /\ queue' = Tail(queue)
        /\ arg' = arg
        /\ NotifyOneAndReturn(c)
    BY <1>3 DEF PopStep
  <2>2. c \in Popping /\ Popping' = Popping \ {c}
    BY <1>1, <2>1, NotifyTypes DEF Popping, Threads
  <2>3. Fifo!Take(c)
    BY <1>3, <2>1, <2>2 DEF Fifo!Take, Popping, IsEmpty
  <2>4. QED
    BY <2>3 DEF Fifo!Next, Fifo!SomeTake
<1>4. QED
  BY <1>2, <1>3

LEMMA StepImplements == TypeOK /\ [Next]_vars => [Fifo!Next]_Fifo!vars
<1> SUFFICES ASSUME TypeOK, [Next]_vars PROVE [Fifo!Next]_Fifo!vars
  OBVIOUS
<1>1. ASSUME NEW p \in Producers, NEW x \in Items, CallPush(p, x),
             UNCHANGED clearedUnderProducer
      PROVE  [Fifo!Next]_Fifo!vars
  <2>1. p \in Threads /\ p \notin Consumers /\ arg[p] = NoItem
    BY <1>1, QueueAssumption DEF CallPush, Threads, TypeOK
  <2>2. Popping' = Popping
    BY <1>1, <2>1 DEF CallPush, Popping, TypeOK, Threads
  <2>3. Fifo!CallPush(p, x)
    BY <1>1, <2>1, <2>2 DEF CallPush, Fifo!CallPush, Popping
  <2>4. QED
    BY <2>3 DEF Fifo!Next
<1>2. ASSUME NEW p \in Producers, PushStep(p),
             UNCHANGED clearedUnderProducer
      PROVE  [Fifo!Next]_Fifo!vars
  BY <1>2, PushImplements
<1>3. ASSUME NEW c \in Consumers, CallPop(c),
             UNCHANGED clearedUnderProducer
      PROVE  [Fifo!Next]_Fifo!vars
  <2>1. c \notin Popping /\ Popping' = Popping \cup {c}
    BY <1>3 DEF CallPop, Popping, TypeOK, Threads
  <2>2. Fifo!CallPop(c)
    BY <1>3, <2>1 DEF CallPop, Fifo!CallPop, Popping
  <2>3. QED
    BY <2>2 DEF Fifo!Next
<1>4. ASSUME NEW c \in Consumers, PopStep(c),
             UNCHANGED clearedUnderProducer
      PROVE  [Fifo!Next]_Fifo!vars
  BY <1>4, PopImplements
<1>5. ASSUME NEW t \in Threads, SpuriousWakeup(t),
             UNCHANGED clearedUnderProducer
      PROVE  [Fifo!Next]_Fifo!vars
  <2>1. Popping' = Popping
    BY <1>5 DEF SpuriousWakeup, Popping, TypeOK, Threads
  <2>2. QED
    BY <1>5, <2>1 DEF SpuriousWakeup, Fifo!vars, Popping
<1>6. ASSUME Clear
      PROVE  [Fifo!Next]_Fifo!vars
  BY <1>6 DEF Clear, Fifo!Next, Fifo!Discard
<1>7. ASSUME UNCHANGED vars
      PROVE  [Fifo!Next]_Fifo!vars
  BY <1>7 DEF vars, Fifo!vars
<1>8. QED
  BY <1>1, <1>2, <1>3, <1>4, <1>5, <1>6, <1>7 DEF Next, Call

\* Push, Pop and Clear, loops and notifications included, are a blocking
\* bounded FIFO: every behaviour of the monitor is one of BlockingFifo.
THEOREM MonitorImplementsFifo == Spec => ImplementsFifo
<1>1. Init => Fifo!Init
  BY DEF Init, Fifo!Init, Threads
<1>2. QED
  BY <1>1, StepImplements, TypeCorrect, PTL DEF Spec, ImplementsFifo, Fifo!Spec
=============================================================================
