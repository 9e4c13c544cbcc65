------------------------------- MODULE Queue -------------------------------
(***************************************************************************)
(* lib/Queue.h: a bounded FIFO that threads share, one mutex and ONE       *)
(* condition variable on which blocked producers and blocked consumers     *)
(* wait together.  Push and Pop call notify_one, which wakes an arbitrary  *)
(* waiter of either kind.                                                  *)
(*                                                                         *)
(* A step is one critical section of the mutex: the code between taking    *)
(* the lock (on entry, or on return from wait) and releasing it (by        *)
(* returning, or by waiting again).                                        *)
(***************************************************************************)
EXTENDS Naturals, Sequences, FiniteSets

CONSTANTS
  Producers,   \* threads that call Push
  Consumers,   \* threads that call Pop
  Items,       \* what is pushed
  Capacity,    \* _capacity
  NoItem       \* arg of a producer that is not in Push

ASSUME QueueAssumption ==
  /\ IsFiniteSet(Producers)
  /\ IsFiniteSet(Consumers)
  /\ Producers \cap Consumers = {}
  /\ Capacity \in Nat
  /\ NoItem \notin Items

\* Every instance in the program has more slots than threads on either side
\* (100 and two producers in Streamer and DataRouter, 300 and up elsewhere).
ASSUME EnoughSlots ==
  /\ Cardinality(Producers) <= Capacity
  /\ Cardinality(Consumers) <= Capacity

Threads == Producers \cup Consumers

VARIABLES
  queue,   \* _queue
  thread,  \* [Threads -> where the thread is in its call, see ThreadState]
  arg,     \* [Producers -> the argument of the Push it is in, or NoItem]
  clearedUnderProducer  \* history: Clear has run while a producer was waiting

vars == <<queue, thread, arg, clearedUnderProducer>>

\* idle: outside Push and Pop; entering: has called, wants the mutex;
\* waiting: in _condition.wait; woken: left the wait, wants the mutex back.
ThreadState == {"idle", "entering", "waiting", "woken"}

WaitSet == {t \in Threads : thread[t] = "waiting"}

\* The thread wants the mutex and runs when it gets it.
Runnable(t) == thread[t] \in {"entering", "woken"}

Init ==
  /\ queue = <<>>
  /\ thread = [t \in Threads |-> "idle"]
  /\ arg = [p \in Producers |-> NoItem]
  /\ clearedUnderProducer = FALSE

-----------------------------------------------------------------------------
\* _condition.wait(_mutex): the mutex is released and t joins the wait set.
Wait(t) == thread' = [thread EXCEPT ![t] = "waiting"]

\* Mutant: notify only when the queue leaves empty or full, the shortcut
\* that is sound for one waiter and loses wakeups for two.
NotifyOnEdgeAndReturn(t) ==
  LET returned == [thread EXCEPT ![t] = "idle"]
  IN  IF WaitSet = {} \/ Len(queue) \notin {0, Capacity}
      THEN thread' = returned
      ELSE \E w \in WaitSet : thread' = [returned EXCEPT ![w] = "woken"]

\* _condition.notify_one() as the last act of t's call: one waiter of
\* either kind is woken, if there is any.  Then t returns.
NotifyOneAndReturn(t) ==
  LET returned == [thread EXCEPT ![t] = "idle"]
  IN  IF WaitSet = {}
      THEN thread' = returned
      ELSE \E w \in WaitSet : thread' = [returned EXCEPT ![w] = "woken"]

CallPush(p, x) ==
  /\ thread[p] = "idle"
  /\ thread' = [thread EXCEPT ![p] = "entering"]
  /\ arg' = [arg EXCEPT ![p] = x]
  /\ UNCHANGED queue

CallPop(c) ==
  /\ thread[c] = "idle"
  /\ thread' = [thread EXCEPT ![c] = "entering"]
  /\ UNCHANGED <<queue, arg>>

\* Mutants: Push lets one item too many in; Push tests with an if, so that
\* a woken producer does not look again.
IsFullOffByOne(t) == Len(queue) > Capacity
IsFullTestedOnce(t) == thread[t] = "entering" /\ Len(queue) >= Capacity

\* The conditions of the two while loops, evaluated by t on entry and again
\* after every wakeup.
IsFull(t)  == Len(queue) >= Capacity
IsEmpty(t) == queue = <<>>

\* Mutant: Push returns without notify_one.
PushStepNoNotify(p) ==
  /\ Runnable(p)
  /\ \/ /\ IsFull(p)
        /\ Wait(p)
        /\ UNCHANGED <<queue, arg>>
     \/ /\ ~IsFull(p)
        /\ queue' = Append(queue, arg[p])
        /\ arg' = [arg EXCEPT ![p] = NoItem]
        /\ thread' = [thread EXCEPT ![p] = "idle"]

\* Mutant: Push puts the item in front of the others.
PushStepInFront(p) ==
  /\ Runnable(p)
  /\ \/ /\ IsFull(p)
        /\ Wait(p)
        /\ UNCHANGED <<queue, arg>>
     \/ /\ ~IsFull(p)
        /\ queue' = <<arg[p]>> \o queue
        /\ arg' = [arg EXCEPT ![p] = NoItem]
        /\ NotifyOneAndReturn(p)

\* One critical section of p's Push.
PushStep(p) ==
  /\ Runnable(p)
  /\ \/ /\ IsFull(p)
        /\ Wait(p)
        /\ UNCHANGED <<queue, arg>>
     \/ /\ ~IsFull(p)
        /\ queue' = Append(queue, arg[p])
        /\ arg' = [arg EXCEPT ![p] = NoItem]
        /\ NotifyOneAndReturn(p)

\* Mutant: Pop returns without notify_one.
PopStepNoNotify(c) ==
  /\ Runnable(c)
  /\ \/ /\ IsEmpty(c)
        /\ Wait(c)
        /\ UNCHANGED queue
     \/ /\ ~IsEmpty(c)
        /\ queue' = Tail(queue)
        /\ thread' = [thread EXCEPT ![c] = "idle"]
  /\ UNCHANGED arg

\* The item Pop returns, _queue.front().
Front == Head(queue)

\* One critical section of c's Pop; it returns Front.
PopStep(c) ==
  /\ Runnable(c)
  /\ \/ /\ IsEmpty(c)
        /\ Wait(c)
        /\ UNCHANGED queue
     \/ /\ ~IsEmpty(c)
        /\ queue' = Tail(queue)
        /\ NotifyOneAndReturn(c)
  /\ UNCHANGED arg

\* Clear drops every item and notifies nobody.  Any thread may call it.
Clear ==
  /\ queue' = <<>>
  /\ clearedUnderProducer' =
       (clearedUnderProducer \/ WaitSet \cap Producers # {})
  /\ UNCHANGED <<thread, arg>>

\* A condition variable may return from wait without a notification.
SpuriousWakeup(t) ==
  /\ thread[t] = "waiting"
  /\ thread' = [thread EXCEPT ![t] = "woken"]
  /\ UNCHANGED <<queue, arg>>

Call ==
  \/ \E p \in Producers, x \in Items : CallPush(p, x)
  \/ \E p \in Producers : PushStep(p)
  \/ \E c \in Consumers : CallPop(c)
  \/ \E c \in Consumers : PopStep(c)
  \/ \E t \in Threads : SpuriousWakeup(t)

Next == (Call /\ UNCHANGED clearedUnderProducer) \/ Clear

\* A thread that wants the mutex gets it: sections are short and the
\* scheduler runs every thread.  Nobody has to call, and nothing makes a
\* spurious wakeup or a Clear happen.
Fairness ==
  /\ \A p \in Producers : WF_vars(PushStep(p) /\ UNCHANGED clearedUnderProducer)
  /\ \A c \in Consumers : WF_vars(PopStep(c) /\ UNCHANGED clearedUnderProducer)

Spec == Init /\ [][Next]_vars
FairSpec == Spec /\ Fairness

-----------------------------------------------------------------------------
WaitingProducers == WaitSet \cap Producers
WaitingConsumers == WaitSet \cap Consumers
WokenProducers == {p \in Producers : thread[p] = "woken"}
WokenConsumers == {c \in Consumers : thread[c] = "woken"}

\* Types, and Push's bound: the queue never holds more than _capacity items,
\* also when producers wake up out of order.
TypeOK ==
  /\ queue \in Seq(Items)
  /\ Len(queue) <= Capacity
  /\ thread \in [Threads -> ThreadState]
  /\ arg \in [Producers -> Items \cup {NoItem}]
  /\ \A p \in Producers : arg[p] = NoItem <=> thread[p] = "idle"
  /\ clearedUnderProducer \in BOOLEAN

\* notify_one on the condition that both kinds share can never wake the wrong
\* kind: Push's waiters and Pop's waiters are never in the wait set together.
OneKindWaits ==
  clearedUnderProducer \/ WaitingProducers = {} \/ WaitingConsumers = {}

\* No wakeup is lost between Push and Pop: while a consumer waits, every
\* buffered item has a woken consumer on its way, and while a producer waits,
\* every free slot has a woken producer.
NoLostWakeup ==
  \/ clearedUnderProducer
  \/ /\ WaitingConsumers # {} => Len(queue) <= Cardinality(WokenConsumers)
     /\ WaitingProducers # {} =>
          Capacity - Len(queue) <= Cardinality(WokenProducers)

\* The monitor is a blocking FIFO: hide the wait set, and every step is a
\* step of BlockingFifo (Queue.h's Push and Pop, their loops included).
Fifo == INSTANCE BlockingFifo WITH
          buffer <- queue,
          pushing <- arg,
          popping <- {c \in Consumers : thread[c] # "idle"}

ImplementsFifo == Fifo!Spec

\* ... and it completes calls like one: a Pop is not left pending for ever on
\* a filled queue, nor a Push on one with room (Queue.h's notify_one), unless
\* Clear, which notifies nobody, has run over a waiting producer.
CanPut  == Len(queue) < Capacity /\ \E p \in Producers : arg[p] # NoItem
CanTake == queue # <<>> /\ \E c \in Consumers : thread[c] # "idle"

CallsComplete ==
  \/ <>clearedUnderProducer
  \/ /\ []<>~CanPut  \/ []<><<Fifo!SomePut>>_vars
     /\ []<>~CanTake \/ []<><<Fifo!SomeTake>>_vars
=============================================================================
