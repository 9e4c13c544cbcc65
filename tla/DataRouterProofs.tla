-------------------------- MODULE DataRouterProofs --------------------------
(***************************************************************************)
(* DataRouter for any number of keys, handlers and messages and a queue of *)
(* any capacity: the types, and what _handlers is good for although three  *)
(* threads use it without a lock.                                          *)
(***************************************************************************)
EXTENDS DataRouter, TLAPS, SequenceTheorems

-----------------------------------------------------------------------------
(* The inductive invariant.                                                *)

\* The dummy, number 0, is seen only after the flag has been cleared, so that
\* what _RouteForever handles is a message.
QueueInv ==
  /\ \A p \in {Sink, Main} : arg[p] = NoItem <=> thread[p] = "idle"
  /\ thread[RouterThread] # "idle" <=> routerPc = "pop"
  /\ thread[Main] # "idle" <=> mainPc = "pushing"
  /\ arg[Sink].id # 0
  /\ running <=> mainPc \in {"running", "stopping", "flag"}
  /\ running => /\ arg[Main] = NoItem
                /\ \A i \in 1..Len(queue) : queue[i].id # 0
                /\ routerPc = "popped" => item.id # 0
  /\ routerPc \in {"find", "handle", "handled"} => item.id # 0

\* What _handlers holds are live handlers under their own keys, and the router
\* thread is about to free no handler that is still there.
HandlerInv ==
  /\ \A k \in Keys :
       handlers[k] # NoHandler =>
         handlers[k] \in registered \ deleted /\ KeyOf[handlers[k]] = k
  /\ current # NoHandler => current \in registered \ deleted
  /\ routerPc \in {"erase", "free"} => current \in exiting
  /\ routerPc = "free" => handlers[KeyOf[current]] # current

IInv == TypeOK /\ QueueInv /\ HandlerInv /\ RegistrationKept

-----------------------------------------------------------------------------
(* What a critical section of the queue does, seen from its threads.       *)

LEMMA ItemTypes ==
  /\ Dummy \in Item /\ NoItem \notin Item /\ NoItem.id # 0 /\ Dummy.id = 0
  /\ \A x \in Item : x.id \in 0..MaxMessages
  /\ \A n \in 1..MaxMessages, k \in Keys \cup {NoKey} : [id |-> n, key |-> k] \in Item
BY DataRouterAssumption DEF Dummy, NoItem, Item

LEMMA Notified ==
  ASSUME thread \in [{Sink, Main, RouterThread} -> Q!ThreadState],
         NEW t \in {Sink, Main, RouterThread},
         Q!NotifyOneAndReturn(t), thread[t] # "waiting"
  PROVE  /\ thread' \in [{Sink, Main, RouterThread} -> Q!ThreadState]
         /\ thread'[t] = "idle"
         /\ \A u \in {Sink, Main, RouterThread} \ {t} :
              thread'[u] = "idle" <=> thread[u] = "idle"
BY DEF Q!NotifyOneAndReturn, Q!WaitSet, Q!ThreadState, Q!Threads

\* A round of Push's loop by p.
LEMMA PushRound ==
  ASSUME TypeOK, QueueInv, NEW p \in {Sink, Main}, Q!PushStep(p)
  PROVE  /\ queue' \in Seq(Item) /\ Len(queue') <= Capacity
         /\ thread' \in [{Sink, Main, RouterThread} -> Q!ThreadState]
         /\ \/ UNCHANGED <<queue, arg>> /\ thread'[p] # "idle"
            \/ /\ queue' = Append(queue, arg[p]) /\ arg[p] \in Item
               /\ arg' = [arg EXCEPT ![p] = NoItem] /\ thread'[p] = "idle"
         /\ \A u \in {Sink, Main, RouterThread} \ {p} :
              thread'[u] = "idle" <=> thread[u] = "idle"
<1>1. /\ queue \in Seq(Item) /\ Len(queue) <= Capacity /\ Capacity \in Nat
      /\ thread \in [{Sink, Main, RouterThread} -> Q!ThreadState]
      /\ arg \in [{Sink, Main} -> Item \cup {NoItem}]
      /\ thread[p] \in {"entering", "woken"}
  BY DataRouterAssumption DEF TypeOK, Q!PushStep, Q!Runnable
<1>2. arg[p] \in Item
  BY <1>1 DEF QueueInv
<1>3. CASE Q!IsFull(p)
  <2>1. UNCHANGED <<queue, arg>> /\ thread' = [thread EXCEPT ![p] = "waiting"]
    BY <1>3 DEF Q!PushStep, Q!Wait
  <2> QED
    BY <1>1, <2>1 DEF Q!ThreadState
<1>4. CASE ~Q!IsFull(p)
  <2>1. /\ queue' = Append(queue, arg[p])
        /\ arg' = [arg EXCEPT ![p] = NoItem]
        /\ Q!NotifyOneAndReturn(p)
    BY <1>4 DEF Q!PushStep
  <2>2. Len(queue) < Capacity
    BY <1>1, <1>4, LenProperties DEF Q!IsFull
  <2>3. queue' \in Seq(Item) /\ Len(queue') = Len(queue) + 1
    BY <1>1, <1>2, <2>1, AppendProperties
  <2>4. /\ thread' \in [{Sink, Main, RouterThread} -> Q!ThreadState]
        /\ thread'[p] = "idle"
        /\ \A u \in {Sink, Main, RouterThread} \ {p} :
             thread'[u] = "idle" <=> thread[u] = "idle"
    BY <1>1, <2>1, Notified
  <2> QED
    BY <1>1, <1>2, <2>1, <2>2, <2>3, <2>4, LenProperties
<1> QED
  BY <1>3, <1>4

\* A round of Pop's loop by the router thread.
LEMMA PopRound ==
  ASSUME TypeOK, Q!PopStep(RouterThread)
  PROVE  /\ queue' \in Seq(Item) /\ Len(queue') <= Capacity
         /\ thread' \in [{Sink, Main, RouterThread} -> Q!ThreadState]
         /\ UNCHANGED arg
         /\ \/ UNCHANGED queue /\ thread'[RouterThread] # "idle"
            \/ /\ queue # <<>> /\ queue' = Tail(queue)
               /\ thread'[RouterThread] = "idle"
               /\ Q!Front \in Item /\ Q!Front = queue[1]
         /\ \A p \in {Sink, Main} : thread'[p] = "idle" <=> thread[p] = "idle"
<1>1. /\ queue \in Seq(Item) /\ Len(queue) <= Capacity /\ Capacity \in Nat
      /\ thread \in [{Sink, Main, RouterThread} -> Q!ThreadState]
      /\ thread[RouterThread] \in {"entering", "woken"}
      /\ UNCHANGED arg
  BY DataRouterAssumption DEF TypeOK, Q!PopStep, Q!Runnable
<1>2. CASE queue = <<>>
  <2>1. UNCHANGED queue /\ thread' = [thread EXCEPT ![RouterThread] = "waiting"]
    BY <1>2 DEF Q!PopStep, Q!Wait, Q!IsEmpty
  <2> QED
    BY <1>1, <2>1 DEF Q!ThreadState, Sink, Main, RouterThread
<1>3. CASE queue # <<>>
  <2>1. queue' = Tail(queue) /\ Q!NotifyOneAndReturn(RouterThread)
    BY <1>3 DEF Q!PopStep, Q!IsEmpty
  <2>2. /\ queue' \in Seq(Item) /\ Len(queue') = Len(queue) - 1
        /\ Q!Front \in Item /\ Q!Front = queue[1]
    BY <1>1, <1>3, <2>1, HeadTailProperties DEF Q!Front
  <2>3. /\ thread' \in [{Sink, Main, RouterThread} -> Q!ThreadState]
        /\ thread'[RouterThread] = "idle"
        /\ \A u \in {Sink, Main, RouterThread} \ {RouterThread} :
             thread'[u] = "idle" <=> thread[u] = "idle"
    BY <1>1, <2>1, Notified
  <2>4. Len(queue) \in Nat
    BY <1>1, LenProperties
  <2> QED
    BY <1>1, <1>3, <2>1, <2>2, <2>3, <2>4 DEF Sink, Main, RouterThread
<1> QED
  BY <1>2, <1>3

-----------------------------------------------------------------------------
LEMMA InvInit == Init => IInv
<1> SUFFICES ASSUME Init PROVE IInv
  OBVIOUS
<1>1. queue = <<>> /\ queue \in Seq(Item) /\ Len(queue) = 0
  BY EmptySeq DEF Init, Q!Init
<1>2. settled \in Seq(1..MaxMessages)
  BY EmptySeq DEF Init
<1>3. /\ thread = [t \in {Sink, Main, RouterThread} |-> "idle"]
      /\ arg = [p \in {Sink, Main} |-> NoItem]
  BY DEF Init, Q!Init, Q!Threads
<1>4. TypeOK
  <2>1. /\ thread \in [{Sink, Main, RouterThread} -> Q!ThreadState]
        /\ arg \in [{Sink, Main} -> Item \cup {NoItem}]
    BY <1>3 DEF Q!ThreadState
  <2>2. Len(queue) <= Capacity /\ nextId \in 1..(MaxMessages + 1)
    BY <1>1, DataRouterAssumption DEF Init
  <2>3. /\ handlers \in [Keys -> Handlers \cup {NoHandler}]
        /\ latest \in [Keys -> Handlers \cup {NoHandler}]
        /\ registered \subseteq Handlers /\ exiting \subseteq registered
        /\ deleted \subseteq exiting /\ overtaken \subseteq Keys
    BY DEF Init
  <2>4. /\ routerPc \in RouterState /\ mainPc \in MainState
        /\ item \in Item /\ current \in Handlers \cup {NoHandler}
        /\ current # NoHandler <=> routerPc \in {"handle", "handled", "erase", "free"}
        /\ sinkPc \in {"idle", "callback", "push"}
        /\ running \in BOOLEAN /\ dispatcher \in BOOLEAN /\ aborted \in BOOLEAN
    BY ItemTypes DEF Init, RouterState, MainState
  <2> QED
    BY <1>1, <1>2, <2>1, <2>2, <2>3, <2>4, Zenon DEF TypeOK
<1>5. QueueInv
  BY <1>1, <1>3, ItemTypes DEF Init, QueueInv
<1>6. HandlerInv /\ RegistrationKept
  BY DEF Init, HandlerInv, RegistrationKept
<1> QED
  BY <1>4, <1>5, <1>6 DEF IInv

\* The steps that leave _handlers and what the router thread holds alone.
LEMMA HandlersUntouched ==
  ASSUME HandlerInv, RegistrationKept,
         UNCHANGED <<handlerVars, exitVars, current>>,
         routerPc' \in {"erase", "free"} => routerPc' = routerPc
  PROVE  HandlerInv' /\ RegistrationKept'
BY DEF HandlerInv, RegistrationKept, handlerVars, exitVars

\* The sink's loop thread.
LEMMA SinkKeeps ==
  ASSUME IInv
  PROVE  /\ CallbackBegins => IInv'
         /\ \A key \in Keys \cup {NoKey} : CallRoute(key) => IInv'
         /\ PushItem => IInv'
         /\ CallbackEnds => IInv'
         /\ UseDeletedRouter => IInv'
<1> USE DEF IInv
<1>1. ASSUME CallbackBegins \/ CallbackEnds \/ UseDeletedRouter
      PROVE  IInv'
  <2>1. /\ UNCHANGED <<queueVars, handlerVars, routerVars, exitVars, settled, mainVars,
                       nextId>>
        /\ sinkPc' \in {"idle", "callback", "push"} /\ aborted' \in BOOLEAN
    BY <1>1 DEF CallbackBegins, CallbackEnds, UseDeletedRouter, TypeOK
  <2>2. HandlerInv' /\ RegistrationKept'
    BY <2>1, HandlersUntouched DEF routerVars
  <2>3. TypeOK' /\ QueueInv'
    BY <2>1 DEF TypeOK, QueueInv, queueVars, handlerVars, routerVars, exitVars, mainVars
  <2> QED
    BY <2>2, <2>3
<1>2. ASSUME NEW key \in Keys \cup {NoKey}, CallRoute(key)
      PROVE  IInv'
  <2> DEFINE x == [id |-> nextId, key |-> key]
  <2>1. /\ nextId \in 1..MaxMessages /\ nextId' = nextId + 1 /\ sinkPc' = "push"
        /\ thread[Sink] = "idle"
        /\ thread' = [thread EXCEPT ![Sink] = "entering"]
        /\ arg' = [arg EXCEPT ![Sink] = x]
        /\ UNCHANGED <<queue, handlerVars, routerVars, exitVars, settled, mainVars,
                       aborted>>
    BY <1>2, DataRouterAssumption DEF CallRoute, Q!CallPush, TypeOK
  <2>2. x \in Item /\ x # NoItem /\ x.id = nextId /\ nextId # 0
    BY <2>1, ItemTypes
  <2>3. HandlerInv' /\ RegistrationKept'
    BY <2>1, HandlersUntouched DEF routerVars
  <2> HIDE DEF x
  <2>4. TypeOK'
    BY <2>1, <2>2, DataRouterAssumption
    DEF TypeOK, Q!ThreadState, handlerVars, routerVars, exitVars, mainVars
  <2>5. QueueInv'
    BY <2>1, <2>2
    DEF TypeOK, QueueInv, handlerVars, routerVars, mainVars, Sink, Main, RouterThread
  <2> QED
    BY <2>3, <2>4, <2>5
<1>3. ASSUME PushItem
      PROVE  IInv'
  <2>1. /\ Q!PushStep(Sink)
        /\ sinkPc' \in {"callback", sinkPc}
        /\ UNCHANGED <<handlerVars, routerVars, exitVars, settled, mainVars, nextId,
                       aborted>>
    BY <1>3 DEF PushItem
  <2>2. /\ queue' \in Seq(Item) /\ Len(queue') <= Capacity
        /\ thread' \in [{Sink, Main, RouterThread} -> Q!ThreadState]
        /\ \/ UNCHANGED <<queue, arg>> /\ thread'[Sink] # "idle"
           \/ /\ queue' = Append(queue, arg[Sink]) /\ arg[Sink] \in Item
              /\ arg' = [arg EXCEPT ![Sink] = NoItem] /\ thread'[Sink] = "idle"
        /\ \A u \in {Main, RouterThread} : thread'[u] = "idle" <=> thread[u] = "idle"
    BY <2>1, PushRound DEF Sink, Main, RouterThread
  <2>3. HandlerInv' /\ RegistrationKept'
    BY <2>1, HandlersUntouched DEF routerVars
  <2>4. TypeOK'
    BY <2>1, <2>2 DEF TypeOK, handlerVars, routerVars, exitVars, mainVars
  <2>5. arg[Sink] # NoItem
    BY <2>1, ItemTypes DEF QueueInv, Q!PushStep, Q!Runnable
  <2>6. /\ \A p \in {Sink, Main} : arg'[p] = NoItem <=> thread'[p] = "idle"
        /\ arg'[Sink].id # 0 /\ arg'[Main] = arg[Main]
    BY <2>2, <2>5, ItemTypes DEF QueueInv, TypeOK, Sink, Main, RouterThread
  <2>7. (\A i \in 1..Len(queue) : queue[i].id # 0) =>
          \A i \in 1..Len(queue') : queue'[i].id # 0
    <3>1. CASE UNCHANGED queue
      BY <3>1
    <3>2. CASE queue' = Append(queue, arg[Sink])
      BY <3>2, AppendProperties DEF QueueInv, TypeOK
    <3> QED
      BY <2>2, <3>1, <3>2
  <2>8. QueueInv'
    BY <2>1, <2>2, <2>6, <2>7 DEF QueueInv, routerVars, mainVars
  <2> QED
    BY <2>3, <2>4, <2>8
<1> QED
  BY <1>1, <1>2, <1>3

\* The dispatcher thread and the handlers' own.
LEMMA RegistrationKeeps ==
  ASSUME IInv, NEW h \in Handlers
  PROVE  (Register(h) => IInv') /\ (Exit(h) => IInv')
<1> USE DEF IInv
<1>1. ASSUME Register(h)
      PROVE  IInv'
  <2>1. /\ h \notin registered /\ registered' = registered \cup {h}
        /\ handlers' = [handlers EXCEPT ![KeyOf[h]] = h]
        /\ latest' = [latest EXCEPT ![KeyOf[h]] = h]
        /\ overtaken' = overtaken \ {KeyOf[h]}
        /\ UNCHANGED <<queueVars, routerVars, exitVars, settled, mainVars, sinkPc,
                       nextId, aborted>>
    BY <1>1 DEF Register
  <2>2. KeyOf[h] \in Keys /\ h # NoHandler
    BY DataRouterAssumption
  <2>3. TypeOK' /\ QueueInv'
    BY <2>1, <2>2 DEF TypeOK, QueueInv, queueVars, routerVars, exitVars, mainVars
  <2>4. HandlerInv'
    BY <2>1, <2>2, DataRouterAssumption DEF TypeOK, HandlerInv, routerVars, exitVars
  <2>5. RegistrationKept'
    BY <2>1, <2>2 DEF TypeOK, RegistrationKept, exitVars
  <2> QED
    BY <2>3, <2>4, <2>5
<1>2. ASSUME Exit(h)
      PROVE  IInv'
  <2>1. /\ h \in registered /\ exiting' = exiting \cup {h}
        /\ UNCHANGED <<queueVars, handlerVars, routerVars, deleted, settled, mainVars,
                       sinkPc, nextId, aborted>>
    BY <1>2 DEF Exit
  <2>2. TypeOK' /\ QueueInv'
    BY <2>1 DEF TypeOK, QueueInv, queueVars, handlerVars, routerVars, mainVars
  <2>3. HandlerInv' /\ RegistrationKept'
    BY <2>1 DEF HandlerInv, RegistrationKept, handlerVars, routerVars
  <2> QED
    BY <2>2, <2>3
<1> QED
  BY <1>1, <1>2

\* The router thread, from Pop to the test of the flag.
LEMMA PopKeeps ==
  ASSUME IInv
  PROVE  (CallPop => IInv') /\ (PopItem => IInv') /\ (CheckRunning => IInv')
<1> USE DEF IInv
<1>1. ASSUME CallPop
      PROVE  IInv'
  <2>1. /\ routerPc = "loop" /\ routerPc' = "pop"
        /\ thread' = [thread EXCEPT ![RouterThread] = "entering"]
        /\ UNCHANGED <<queue, arg, handlerVars, item, current, exitVars, settled,
                       mainVars, sinkPc, nextId, aborted>>
    BY <1>1 DEF CallPop, Q!CallPop
  <2>2. TypeOK'
    BY <2>1 DEF TypeOK, Q!ThreadState, RouterState, handlerVars, exitVars, mainVars
  <2>3. QueueInv'
    BY <2>1 DEF TypeOK, QueueInv, mainVars, Sink, Main, RouterThread
  <2>4. HandlerInv' /\ RegistrationKept'
    BY <2>1, HandlersUntouched
  <2> QED
    BY <2>2, <2>3, <2>4
<1>2. ASSUME PopItem
      PROVE  IInv'
  <2>1. /\ Q!PopStep(RouterThread)
        /\ \/ thread'[RouterThread] = "idle" /\ routerPc' = "popped" /\ item' = Q!Front
           \/ thread'[RouterThread] # "idle" /\ UNCHANGED <<routerPc, item>>
        /\ UNCHANGED <<handlerVars, current, exitVars, settled, mainVars, sinkPc, nextId,
                       aborted>>
    BY <1>2 DEF PopItem
  <2>2. /\ queue' \in Seq(Item) /\ Len(queue') <= Capacity
        /\ thread' \in [{Sink, Main, RouterThread} -> Q!ThreadState]
        /\ UNCHANGED arg
        /\ \/ UNCHANGED queue /\ thread'[RouterThread] # "idle"
           \/ /\ queue # <<>> /\ queue' = Tail(queue)
              /\ thread'[RouterThread] = "idle"
              /\ Q!Front \in Item /\ Q!Front = queue[1]
        /\ \A p \in {Sink, Main} : thread'[p] = "idle" <=> thread[p] = "idle"
    BY <2>1, PopRound
  <2>3. CASE /\ UNCHANGED <<queue, routerPc, item>>
             /\ thread'[RouterThread] # "idle" /\ thread[RouterThread] # "idle"
    <3>1. TypeOK'
      BY <2>1, <2>2, <2>3 DEF TypeOK, handlerVars, exitVars, mainVars
    <3>2. QueueInv'
      BY <2>1, <2>2, <2>3 DEF QueueInv, mainVars
    <3>3. HandlerInv' /\ RegistrationKept'
      BY <2>1, <2>3, HandlersUntouched
    <3> QED
      BY <3>1, <3>2, <3>3
  <2>4. CASE /\ queue # <<>> /\ queue' = Tail(queue)
             /\ routerPc' = "popped" /\ item' = queue[1] /\ queue[1] \in Item
    <3>1. routerPc = "pop"
      BY <2>1 DEF QueueInv, Q!PopStep, Q!Runnable
    <3>2. current = NoHandler
      BY <3>1 DEF TypeOK
    <3>3. TypeOK'
      BY <2>1, <2>2, <2>4, <3>2
      DEF TypeOK, RouterState, handlerVars, exitVars, mainVars
    <3>4. thread'[RouterThread] = "idle"
      BY <2>1, <2>4, <3>1
    <3>5. running => /\ \A i \in 1..Len(queue') : queue'[i].id # 0
                     /\ item'.id # 0
      <4> SUFFICES ASSUME running
                   PROVE  /\ \A i \in 1..Len(queue') : queue'[i].id # 0
                          /\ item'.id # 0
        OBVIOUS
      <4>1. queue \in Seq(Item) /\ \A i \in 1..Len(queue) : queue[i].id # 0
        BY DEF QueueInv, TypeOK
      <4>2. /\ Len(queue) \in Nat \ {0} /\ Len(queue') = Len(queue) - 1
            /\ \A i \in 1..(Len(queue) - 1) : queue'[i] = queue[i + 1]
        BY <2>4, <4>1, HeadTailProperties, LenProperties, EmptySeq
      <4> QED
        BY <2>4, <4>1, <4>2
    <3>6. QueueInv'
      BY <2>1, <2>2, <2>4, <3>4, <3>5 DEF QueueInv, mainVars
    <3>7. HandlerInv' /\ RegistrationKept'
      BY <2>1, <2>4, HandlersUntouched
    <3> QED
      BY <3>3, <3>6, <3>7
  <2>5. thread[RouterThread] # "idle"
    BY <2>1 DEF Q!PopStep, Q!Runnable
  <2> QED
    BY <2>1, <2>2, <2>3, <2>4, <2>5
<1>3. ASSUME CheckRunning
      PROVE  IInv'
  <2>1. /\ routerPc = "popped" /\ routerPc' = IF running THEN "find" ELSE "done"
        /\ UNCHANGED <<queueVars, handlerVars, item, current, exitVars, settled, mainVars,
                       sinkPc, nextId, aborted>>
    BY <1>3 DEF CheckRunning
  <2>2. TypeOK'
    BY <2>1 DEF TypeOK, RouterState, queueVars, handlerVars, exitVars, mainVars
  <2>3. QueueInv'
    BY <2>1 DEF QueueInv, queueVars, mainVars
  <2>4. HandlerInv' /\ RegistrationKept'
    BY <2>1, HandlersUntouched
  <2> QED
    BY <2>2, <2>3, <2>4
<1> QED
  BY <1>1, <1>2, <1>3

\* The router thread, from the lookup to the next item.
LEMMA HandleKeeps ==
  ASSUME IInv
  PROVE  /\ (FindNone \/ FindHandler \/ Handle) => IInv'
         /\ (CheckExit \/ EraseHandler \/ FreeHandler) => IInv'
<1> USE DEF IInv
<1>1. ASSUME FindNone
      PROVE  IInv'
  <2>1. /\ routerPc = "find" /\ settled' = Append(settled, item.id)
        /\ routerPc' = "loop" /\ item' = Dummy /\ current' = NoHandler
        /\ current = NoHandler
        /\ UNCHANGED <<queueVars, handlerVars, exitVars, mainVars, sinkPc, nextId, aborted>>
    BY <1>1 DEF FindNone, ItemDone, TypeOK
  <2>2. settled' \in Seq(1..MaxMessages)
    <3>1. item.id \in 1..MaxMessages
      BY <2>1, ItemTypes, DataRouterAssumption DEF QueueInv, TypeOK
    <3> QED
      BY <2>1, <3>1, AppendProperties DEF TypeOK
  <2>3. TypeOK'
    BY <2>1, <2>2, ItemTypes
    DEF TypeOK, RouterState, queueVars, handlerVars, exitVars, mainVars
  <2>4. QueueInv'
    BY <2>1 DEF QueueInv, queueVars, mainVars
  <2>5. HandlerInv' /\ RegistrationKept'
    BY <2>1, HandlersUntouched
  <2> QED
    BY <2>3, <2>4, <2>5
<1>2. ASSUME FindHandler
      PROVE  IInv'
  <2>1. /\ routerPc = "find" /\ item.key \in Keys /\ handlers[item.key] # NoHandler
        /\ current' = handlers[item.key] /\ routerPc' = "handle"
        /\ UNCHANGED <<queueVars, handlerVars, item, exitVars, settled, mainVars, sinkPc,
                       nextId, aborted>>
    BY <1>2 DEF FindHandler
  <2>2. TypeOK' /\ QueueInv'
    BY <2>1 DEF TypeOK, QueueInv, RouterState, queueVars, handlerVars, exitVars, mainVars
  <2>3. HandlerInv' /\ RegistrationKept'
    BY <2>1 DEF HandlerInv, RegistrationKept, handlerVars, exitVars
  <2> QED
    BY <2>2, <2>3
<1>3. ASSUME Handle
      PROVE  IInv'
  <2>1. /\ routerPc = "handle"
        /\ UNCHANGED <<queueVars, handlerVars, item, current, exitVars, mainVars, sinkPc,
                       nextId>>
        /\ \/ /\ settled' = Append(settled, item.id)
              /\ routerPc' = "handled" /\ UNCHANGED aborted
           \/ aborted' = TRUE /\ UNCHANGED <<settled, routerPc>>
    BY <1>3 DEF Handle
  <2>2. settled' \in Seq(1..MaxMessages)
    <3>1. item.id \in 1..MaxMessages
      BY <2>1, ItemTypes, DataRouterAssumption DEF QueueInv, TypeOK
    <3>2. settled \in Seq(1..MaxMessages)
      BY DEF TypeOK
    <3>3. Append(settled, item.id) \in Seq(1..MaxMessages)
      BY <3>1, <3>2, AppendProperties
    <3> QED
      BY <2>1, <3>2, <3>3
  <2>3. TypeOK'
    BY <2>1, <2>2 DEF TypeOK, RouterState, queueVars, handlerVars, exitVars, mainVars
  <2>4. QueueInv'
    BY <2>1 DEF QueueInv, queueVars, mainVars
  <2>5. HandlerInv' /\ RegistrationKept'
    BY <2>1, HandlersUntouched
  <2> QED
    BY <2>3, <2>4, <2>5
<1>4. ASSUME CheckExit
      PROVE  IInv'
  <2>1. /\ routerPc = "handled"
        /\ UNCHANGED <<queueVars, handlerVars, exitVars, settled, mainVars, sinkPc, nextId,
                       aborted>>
        /\ \/ routerPc' = "loop" /\ item' = Dummy /\ current' = NoHandler
           \/ current \in exiting /\ routerPc' = "erase" /\ UNCHANGED <<item, current>>
    BY <1>4 DEF CheckExit, ItemDone
  <2>2. TypeOK' /\ QueueInv'
    BY <2>1, ItemTypes
    DEF TypeOK, QueueInv, RouterState, queueVars, handlerVars, exitVars, mainVars
  <2>3. HandlerInv' /\ RegistrationKept'
    BY <2>1 DEF HandlerInv, RegistrationKept, handlerVars, exitVars
  <2> QED
    BY <2>2, <2>3
<1>5. ASSUME EraseHandler
      PROVE  IInv'
  <2> DEFINE k == KeyOf[current]
  <2>1. /\ routerPc = "erase" /\ routerPc' = "free"
        /\ handlers' = [handlers EXCEPT ![k] = NoHandler]
        /\ overtaken' = IF handlers[k] # current THEN overtaken \cup {k} ELSE overtaken
        /\ UNCHANGED <<queueVars, registered, latest, item, current, exitVars, settled,
                       mainVars, sinkPc, nextId, aborted>>
    BY <1>5 DEF EraseHandler
  <2>2. current # NoHandler /\ current \in exiting /\ k \in Keys
    BY <2>1, DataRouterAssumption DEF TypeOK, HandlerInv
  <2> HIDE DEF k
  <2>3. TypeOK' /\ QueueInv'
    BY <2>1, <2>2 DEF TypeOK, QueueInv, RouterState, queueVars, exitVars, mainVars
  <2>4. HandlerInv'
    BY <2>1, <2>2 DEF TypeOK, HandlerInv, exitVars, k
  <2>5. RegistrationKept'
    BY <2>1, <2>2 DEF TypeOK, RegistrationKept, exitVars
  <2> QED
    BY <2>3, <2>4, <2>5
<1>6. ASSUME FreeHandler
      PROVE  IInv'
  <2>1. /\ routerPc = "free" /\ deleted' = deleted \cup {current}
        /\ routerPc' = "loop" /\ item' = Dummy /\ current' = NoHandler
        /\ UNCHANGED <<queueVars, handlerVars, exiting, settled, mainVars, sinkPc, nextId,
                       aborted>>
    BY <1>6 DEF FreeHandler, ItemDone
  <2>2. /\ current \in exiting
        /\ \A k \in Keys : handlers[k] # current
    BY <2>1 DEF HandlerInv, TypeOK
  <2>3. TypeOK' /\ QueueInv'
    BY <2>1, <2>2, ItemTypes
    DEF TypeOK, QueueInv, RouterState, queueVars, handlerVars, mainVars
  <2>4. HandlerInv' /\ RegistrationKept'
    BY <2>1, <2>2 DEF HandlerInv, RegistrationKept, handlerVars
  <2> QED
    BY <2>3, <2>4
<1> QED
  BY <1>1, <1>2, <1>3, <1>4, <1>5, <1>6

\* The main thread.
LEMMA MainKeeps ==
  ASSUME IInv
  PROVE  /\ DispatcherStopped \/ SinkStopped \/ StopClearsFlag \/ Join => IInv'
         /\ StopPushesDummy => IInv'
         /\ PushDummy => IInv'
         /\ SpuriousWakeup => IInv'
<1> USE DEF IInv
<1>1. ASSUME DispatcherStopped \/ SinkStopped \/ StopClearsFlag \/ Join
      PROVE  IInv'
  <2>1. /\ UNCHANGED <<queueVars, handlerVars, routerVars, exitVars, settled, sinkPc,
                       nextId, aborted>>
        /\ dispatcher' \in BOOLEAN
        /\ \/ mainPc = "running" /\ mainPc' = "stopping" /\ running' = running
           \/ mainPc = "stopping" /\ mainPc' = "flag" /\ running' = running
           \/ mainPc = "flag" /\ mainPc' = "dummy" /\ running' = FALSE
           \/ mainPc = "joining" /\ mainPc' = "ended" /\ running' = running
    BY <1>1 DEF DispatcherStopped, SinkStopped, StopClearsFlag, Join, TypeOK
  <2>2. TypeOK'
    BY <2>1 DEF TypeOK, MainState, queueVars, handlerVars, routerVars, exitVars
  <2>3. QueueInv'
    BY <2>1 DEF TypeOK, QueueInv, queueVars, routerVars
  <2>4. HandlerInv' /\ RegistrationKept'
    BY <2>1, HandlersUntouched DEF routerVars
  <2> QED
    BY <2>2, <2>3, <2>4
<1>2. ASSUME StopPushesDummy
      PROVE  IInv'
  <2>1. /\ mainPc = "dummy" /\ mainPc' = "pushing"
        /\ thread' = [thread EXCEPT ![Main] = "entering"]
        /\ arg' = [arg EXCEPT ![Main] = Dummy]
        /\ UNCHANGED <<queue, handlerVars, routerVars, exitVars, settled, running,
                       dispatcher, sinkPc, nextId, aborted>>
    BY <1>2 DEF StopPushesDummy, Q!CallPush
  <2>2. Dummy \in Item /\ Dummy # NoItem /\ ~running
    BY <2>1, ItemTypes DEF QueueInv
  <2>3. TypeOK'
    BY <2>1, <2>2
    DEF TypeOK, MainState, Q!ThreadState, handlerVars, routerVars, exitVars
  <2>4. QueueInv'
    BY <2>1, <2>2 DEF TypeOK, QueueInv, routerVars, Sink, Main, RouterThread
  <2>5. HandlerInv' /\ RegistrationKept'
    BY <2>1, HandlersUntouched DEF routerVars
  <2> QED
    BY <2>3, <2>4, <2>5
<1>3. ASSUME PushDummy
      PROVE  IInv'
  <2>1. /\ Q!PushStep(Main)
        /\ mainPc' = IF thread'[Main] = "idle" THEN "joining" ELSE mainPc
        /\ UNCHANGED <<handlerVars, routerVars, exitVars, settled, running, dispatcher,
                       sinkPc, nextId, aborted>>
    BY <1>3 DEF PushDummy
  <2>2. mainPc = "pushing" /\ ~running
    BY <2>1 DEF QueueInv, Q!PushStep, Q!Runnable
  <2>3. /\ queue' \in Seq(Item) /\ Len(queue') <= Capacity
        /\ thread' \in [{Sink, Main, RouterThread} -> Q!ThreadState]
        /\ \/ UNCHANGED <<queue, arg>> /\ thread'[Main] # "idle"
           \/ /\ queue' = Append(queue, arg[Main]) /\ arg[Main] \in Item
              /\ arg' = [arg EXCEPT ![Main] = NoItem] /\ thread'[Main] = "idle"
        /\ \A u \in {Sink, RouterThread} : thread'[u] = "idle" <=> thread[u] = "idle"
    BY <2>1, PushRound DEF Sink, Main, RouterThread
  <2>4. TypeOK'
    BY <2>1, <2>2, <2>3 DEF TypeOK, MainState, handlerVars, routerVars, exitVars
  <2>5. /\ \A p \in {Sink, Main} : arg'[p] = NoItem <=> thread'[p] = "idle"
        /\ arg'[Sink] = arg[Sink]
    <3>1. arg[Main] # NoItem /\ Sink # Main
      BY <2>1 DEF QueueInv, Q!PushStep, Q!Runnable, Sink, Main
    <3> QED
      BY <2>3, <3>1 DEF QueueInv, TypeOK
  <2>6. QueueInv'
    BY <2>1, <2>2, <2>3, <2>5 DEF QueueInv, routerVars
  <2>7. HandlerInv' /\ RegistrationKept'
    BY <2>1, HandlersUntouched DEF routerVars
  <2> QED
    BY <2>4, <2>6, <2>7
<1>4. ASSUME SpuriousWakeup
      PROVE  IInv'
  <2>1. PICK t \in {Sink, Main, RouterThread} : Q!SpuriousWakeup(t)
    BY <1>4 DEF SpuriousWakeup
  <2>2. /\ thread[t] = "waiting" /\ thread' = [thread EXCEPT ![t] = "woken"]
        /\ UNCHANGED <<queue, arg, handlerVars, routerVars, exitVars, settled, mainVars,
                       sinkPc, nextId, aborted>>
    BY <1>4, <2>1 DEF SpuriousWakeup, Q!SpuriousWakeup
  <2>3. TypeOK'
    BY <2>2 DEF TypeOK, Q!ThreadState, handlerVars, routerVars, exitVars, mainVars
  <2>4. QueueInv'
    BY <2>2 DEF TypeOK, QueueInv, routerVars, mainVars
  <2>5. HandlerInv' /\ RegistrationKept'
    BY <2>2, HandlersUntouched DEF routerVars
  <2> QED
    BY <2>3, <2>4, <2>5
<1> QED
  BY <1>1, <1>2, <1>3, <1>4

LEMMA InvStep == IInv /\ [Next]_vars => IInv'
<1> SUFFICES ASSUME IInv, [Next]_vars PROVE IInv'
  OBVIOUS
<1>1. ASSUME UNCHANGED vars PROVE IInv'
  <2>1. UNCHANGED <<queueVars, handlerVars, routerVars, exitVars, settled, mainVars,
                    sinkPc, nextId, aborted>>
    BY <1>1 DEF vars
  <2>2. TypeOK' /\ QueueInv'
    BY <2>1
    DEF IInv, TypeOK, QueueInv, queueVars, handlerVars, routerVars, exitVars, mainVars
  <2>3. HandlerInv' /\ RegistrationKept'
    BY <2>1, HandlersUntouched DEF IInv, routerVars
  <2> QED
    BY <2>2, <2>3 DEF IInv
<1>2. ASSUME Ended PROVE IInv'
  BY <1>1, <1>2 DEF Ended
<1>3. ASSUME RouterStep PROVE IInv'
  BY <1>3, PopKeeps, HandleKeeps DEF RouterStep
<1>4. ASSUME StopStep PROVE IInv'
  BY <1>4, MainKeeps DEF StopStep
<1> QED
  BY <1>1, <1>2, <1>3, <1>4, SinkKeeps, RegistrationKeeps, MainKeeps DEF Next

-----------------------------------------------------------------------------
\* The variables keep their types: whatever the threads do, what is handled is
\* a message and never Stop's dummy, a handler is freed only after it has
\* exited, and the queue keeps its bound (_RouteForever, Stop).
THEOREM TypeCorrect == Spec => []TypeOK
<1>1. IInv => TypeOK
  BY DEF IInv
<1> QED
  BY <1>1, InvInit, InvStep, PTL DEF Spec

\* For any number of handlers and keys, and however registrations race with
\* _DeleteHandler, a handler that was freed is not called and not found again.
THEOREM FreedIsGone == Spec => []DeletedNotUsed
<1>1. IInv => DeletedNotUsed
  <2> SUFFICES ASSUME IInv PROVE DeletedNotUsed
    OBVIOUS
  <2>1. NoHandler \notin deleted
    BY DataRouterAssumption DEF IInv, TypeOK
  <2> QED
    BY <2>1 DEF IInv, HandlerInv, DeletedNotUsed
<1> QED
  BY <1>1, InvInit, InvStep, PTL DEF Spec

\* For any number of handlers and keys, the handler registered last under a
\* key keeps its entry until it exits, unless an older handler of the key,
\* still in Handle when it was replaced, exits and is erased by its key.
THEOREM LastRegisteredKept == Spec => []RegistrationKept
<1>1. IInv => RegistrationKept
  BY DEF IInv
<1> QED
  BY <1>1, InvInit, InvStep, PTL DEF Spec

-----------------------------------------------------------------------------
(* The order of the messages.  Numbers grow from what is settled over the  *)
(* item that is held and the queue to the argument of Route; the dummy, 0, *)
(* may stand anywhere between.                                             *)

Holding == routerPc \in {"popped", "find", "handle"}

\* Everything that has left the queue has a number below n.
LeftBefore(n) ==
  /\ \A s \in 1..Len(settled) : settled[s] < n
  /\ Holding => item.id < n

OrderInv ==
  /\ SettledInOrder
  /\ Holding /\ item.id # 0 => \A s \in 1..Len(settled) : settled[s] < item.id
  /\ LeftBefore(nextId)
  /\ \A i \in 1..Len(queue) :
       queue[i].id # 0 => queue[i].id < nextId /\ LeftBefore(queue[i].id)
  /\ \A i, j \in 1..Len(queue) :
       i < j /\ queue[i].id # 0 /\ queue[j].id # 0 => queue[i].id < queue[j].id
  /\ arg[Sink] # NoItem =>
       /\ arg[Sink].id < nextId /\ LeftBefore(arg[Sink].id)
       /\ \A i \in 1..Len(queue) : queue[i].id < arg[Sink].id

LEMMA OrderInit == Init => OrderInv
<1> SUFFICES ASSUME Init PROVE OrderInv
  OBVIOUS
<1>1. queue = <<>> /\ settled = <<>> /\ ~Holding /\ arg[Sink] = NoItem
  BY DEF Init, Q!Init, Holding
<1> QED
  BY <1>1 DEF OrderInv, SettledInOrder, LeftBefore

\* The steps that let no message move.
LEMMA OrderUntouched ==
  ASSUME OrderInv, UNCHANGED <<queue, arg, settled, nextId>>,
         \/ ~Holding'
         \/ Holding /\ UNCHANGED item
  PROVE  OrderInv'
BY DEF OrderInv, SettledInOrder, LeftBefore

\* A message gets the next number.
LEMMA OrderCall ==
  ASSUME IInv, OrderInv, NEW key \in Keys \cup {NoKey}, CallRoute(key)
  PROVE  OrderInv'
<1> DEFINE x == [id |-> nextId, key |-> key]
<1>1. /\ nextId \in Nat /\ nextId' = nextId + 1
      /\ arg' = [arg EXCEPT ![Sink] = x]
      /\ UNCHANGED <<queue, routerPc, item, settled>>
  BY DEF CallRoute, Q!CallPush, IInv, TypeOK, routerVars
<1>2. arg'[Sink].id = nextId
  BY <1>1 DEF IInv, TypeOK
<1>3. /\ \A i \in 1..Len(queue) : queue[i].id \in Nat
      /\ item.id \in Nat
      /\ \A s \in 1..Len(settled) : settled[s] \in Nat
  <2>1. queue \in Seq(Item) /\ item \in Item /\ settled \in Seq(1..MaxMessages)
    BY DEF IInv, TypeOK
  <2>2. \A s \in 1..Len(settled) : settled[s] \in 1..MaxMessages
    BY <2>1, ElementOfSeq
  <2>3. \A i \in 1..Len(queue) : queue[i] \in Item
    BY <2>1
  <2> QED
    BY <2>1, <2>2, <2>3, ItemTypes
<1>4. nextId # 0
  BY DEF IInv, TypeOK
<1> HIDE DEF x
<1>5. \A i \in 1..Len(queue) : queue[i].id < nextId
  BY <1>1, <1>3, <1>4 DEF OrderInv
<1>6. LeftBefore(nextId)' = LeftBefore(nextId + 1)
  BY <1>1 DEF LeftBefore, Holding
<1>7. LeftBefore(nextId + 1) /\ LeftBefore(nextId)
  BY <1>1, <1>3 DEF OrderInv, LeftBefore
<1> QED
  BY <1>1, <1>2, <1>3, <1>5, <1>6, <1>7
  DEF OrderInv, SettledInOrder, LeftBefore, Holding

\* The queue gets the message of the Push, or the dummy, at its end.
LEMMA OrderAppend ==
  ASSUME IInv, OrderInv, NEW p \in {Sink, Main}, arg[p] \in Item,
         queue' = Append(queue, arg[p]), arg' = [arg EXCEPT ![p] = NoItem],
         p = Main => arg[p].id = 0,
         UNCHANGED <<routerVars, settled, nextId>>
  PROVE  OrderInv'
<1>1. /\ Len(queue) \in Nat /\ Len(queue') = Len(queue) + 1
      /\ \A i \in 1..Len(queue) : queue'[i] = queue[i]
      /\ queue'[Len(queue) + 1] = arg[p]
  BY AppendProperties DEF IInv, TypeOK
<1>2. UNCHANGED <<settled, item, routerPc, nextId>>
  BY DEF routerVars
<1>3. CASE p = Sink
  <2>1. arg[Sink] # NoItem /\ arg'[Sink] = NoItem
    BY <1>3, ItemTypes DEF IInv, TypeOK
  <2> QED
    BY <1>1, <1>2, <1>3, <2>1 DEF OrderInv, SettledInOrder, LeftBefore, Holding
<1>4. CASE p = Main
  <2>1. arg[p].id = 0 /\ arg'[Sink] = arg[Sink]
    BY <1>4 DEF IInv, TypeOK, Sink, Main
  <2>2. arg[Sink] # NoItem => 0 < arg[Sink].id
    BY ItemTypes DEF IInv, TypeOK, QueueInv
  <2> QED
    BY <1>1, <1>2, <2>1, <2>2 DEF OrderInv, SettledInOrder, LeftBefore, Holding
<1> QED
  BY <1>3, <1>4

\* The first of the queue becomes the item held.
LEMMA OrderTail ==
  ASSUME IInv, OrderInv, queue # <<>>, queue' = Tail(queue), item' = queue[1],
         ~Holding, Holding', UNCHANGED <<arg, settled, nextId>>
  PROVE  OrderInv'
<1>1. /\ Len(queue) \in Nat \ {0} /\ Len(queue') = Len(queue) - 1
      /\ \A i \in 1..(Len(queue) - 1) : queue'[i] = queue[i + 1]
  BY HeadTailProperties, LenProperties, EmptySeq DEF IInv, TypeOK
<1>2. \A i \in 1..Len(queue) : queue[i].id \in Nat
  BY ItemTypes DEF IInv, TypeOK
<1>3. nextId \in Nat /\ nextId # 0
  BY DEF IInv, TypeOK
<1>4. item'.id # 0 => /\ item'.id < nextId
                      /\ \A s \in 1..Len(settled) : settled[s] < item'.id
  BY <1>1 DEF OrderInv, LeftBefore
<1>5. LeftBefore(nextId)'
  BY <1>1, <1>2, <1>3, <1>4 DEF OrderInv, LeftBefore
<1>6. ASSUME NEW i \in 1..Len(queue'), queue'[i].id # 0
      PROVE  /\ queue'[i].id < nextId /\ item'.id < queue'[i].id
             /\ \A s \in 1..Len(settled) : settled[s] < queue'[i].id
  <2>1. /\ i + 1 \in 1..Len(queue) /\ 1 < i + 1 /\ 1 \in 1..Len(queue)
        /\ queue'[i] = queue[i + 1]
    BY <1>1
  <2>2. queue[1].id < queue[i + 1].id
    BY <1>2, <1>6, <2>1 DEF OrderInv
  <2> QED
    BY <1>6, <2>1, <2>2 DEF OrderInv, LeftBefore
<1>7. arg[Sink] # NoItem =>
        /\ LeftBefore(arg[Sink].id)'
        /\ \A i \in 1..Len(queue') : queue'[i].id < arg[Sink].id
  BY <1>1 DEF OrderInv, LeftBefore
<1>8. \A i, j \in 1..Len(queue') :
        i < j /\ queue'[i].id # 0 /\ queue'[j].id # 0 => queue'[i].id < queue'[j].id
  BY <1>1 DEF OrderInv
<1> QED
  BY <1>1, <1>4, <1>5, <1>6, <1>7, <1>8 DEF OrderInv, SettledInOrder, LeftBefore

\* The item held is settled.
LEMMA OrderSettle ==
  ASSUME IInv, OrderInv, Holding, item.id # 0, ~Holding',
         settled' = Append(settled, item.id), UNCHANGED <<queueVars, nextId>>
  PROVE  OrderInv'
<1>1. /\ Len(settled) \in Nat /\ Len(settled') = Len(settled) + 1
      /\ \A s \in 1..Len(settled) : settled'[s] = settled[s]
      /\ settled'[Len(settled) + 1] = item.id
  <2>1. settled \in Seq(1..MaxMessages)
    BY DEF IInv, TypeOK
  <2> QED
    BY <2>1, AppendProperties
<1>2. UNCHANGED <<queue, arg>>
  BY DEF queueVars
<1>3. \A s \in 1..Len(settled) : settled[s] < item.id
  BY DEF OrderInv
<1>4. ASSUME NEW n, LeftBefore(n) PROVE \A s \in 1..Len(settled') : settled'[s] < n
  BY <1>1, <1>4 DEF LeftBefore
<1> QED
  BY <1>1, <1>2, <1>3, <1>4 DEF OrderInv, SettledInOrder, LeftBefore

OInv == IInv /\ OrderInv /\ (arg[Main] # NoItem => arg[Main].id = 0)

LEMMA OrderStep == OInv /\ [Next]_vars => OInv'
<1> SUFFICES ASSUME OInv, [Next]_vars
             PROVE  OrderInv' /\ (arg'[Main] # NoItem => arg'[Main].id = 0)
  BY InvStep DEF OInv
<1> USE DEF OInv
<1>1. ASSUME UNCHANGED <<queue, arg, settled, nextId>>,
             ~Holding' \/ (Holding /\ UNCHANGED item)
      PROVE  OrderInv' /\ (arg'[Main] # NoItem => arg'[Main].id = 0)
  BY <1>1, OrderUntouched
<1>2. CASE \/ UNCHANGED vars \/ Ended
           \/ CallbackBegins \/ CallbackEnds \/ UseDeletedRouter
           \/ \E h \in Handlers : Register(h) \/ Exit(h)
           \/ DispatcherStopped \/ SinkStopped \/ StopClearsFlag \/ Join
  <2>1. UNCHANGED <<queue, arg, settled, nextId, routerPc, item>>
    BY <1>2
    DEF Ended, vars, CallbackBegins, CallbackEnds, UseDeletedRouter, Register, Exit,
        DispatcherStopped, SinkStopped, StopClearsFlag, Join, queueVars, routerVars
  <2> QED
    BY <1>1, <2>1 DEF Holding
<1>3. CASE SpuriousWakeup
  <2>1. UNCHANGED <<queue, arg, settled, nextId, routerPc, item>>
    BY <1>3 DEF SpuriousWakeup, Q!SpuriousWakeup, routerVars
  <2> QED
    BY <1>1, <2>1 DEF Holding
<1>4. CASE \E key \in Keys \cup {NoKey} : CallRoute(key)
  <2>1. PICK key \in Keys \cup {NoKey} : CallRoute(key)
    BY <1>4
  <2>2. arg'[Main] = arg[Main]
    BY <2>1 DEF CallRoute, Q!CallPush, IInv, TypeOK, Sink, Main
  <2> QED
    BY <2>1, <2>2, OrderCall
<1>5. CASE PushItem
  <2>1. Q!PushStep(Sink) /\ UNCHANGED <<routerVars, settled, nextId>>
    BY <1>5 DEF PushItem
  <2>2. CASE UNCHANGED <<queue, arg>>
    BY <1>1, <2>1, <2>2 DEF routerVars, Holding
  <2>3. CASE /\ queue' = Append(queue, arg[Sink]) /\ arg[Sink] \in Item
             /\ arg' = [arg EXCEPT ![Sink] = NoItem]
    <3>1. Sink # Main
      BY DEF Sink, Main
    <3>2. arg'[Main] = arg[Main]
      BY <2>3, <3>1 DEF IInv, TypeOK
    <3> QED
      BY <2>1, <2>3, <3>1, <3>2, OrderAppend
  <2> QED
    BY <2>1, <2>2, <2>3, PushRound DEF IInv
<1>6. CASE PushDummy
  <2>1. Q!PushStep(Main) /\ UNCHANGED <<routerVars, settled, nextId>>
    BY <1>6 DEF PushDummy
  <2>2. CASE UNCHANGED <<queue, arg>>
    BY <1>1, <2>1, <2>2 DEF routerVars, Holding
  <2>3. CASE /\ queue' = Append(queue, arg[Main]) /\ arg[Main] \in Item
             /\ arg' = [arg EXCEPT ![Main] = NoItem]
    <3>1. arg[Main].id = 0 /\ arg'[Main] = NoItem
      BY <2>3, ItemTypes DEF IInv, TypeOK
    <3> QED
      BY <2>1, <2>3, <3>1, OrderAppend
  <2> QED
    BY <2>1, <2>2, <2>3, PushRound DEF IInv
<1>7. CASE StopPushesDummy
  <2>1. /\ arg' = [arg EXCEPT ![Main] = Dummy]
        /\ UNCHANGED <<queue, routerPc, item, settled, nextId>>
    BY <1>7 DEF StopPushesDummy, Q!CallPush, routerVars
  <2>2. arg'[Sink] = arg[Sink] /\ arg'[Main].id = 0
    BY <2>1, ItemTypes DEF IInv, TypeOK, Sink, Main
  <2> QED
    BY <2>1, <2>2 DEF OrderInv, SettledInOrder, LeftBefore, Holding
<1>8. CASE CallPop \/ CheckRunning \/ FindHandler \/ CheckExit \/ EraseHandler \/ FreeHandler
  <2>1. /\ UNCHANGED <<queue, arg, settled, nextId>>
        /\ \/ routerPc' \in {"pop", "done", "loop", "erase", "free"}
           \/ routerPc \in {"popped", "find", "handle"} /\ UNCHANGED item
    BY <1>8
    DEF CallPop, Q!CallPop, CheckRunning, FindHandler, CheckExit, EraseHandler,
        FreeHandler, ItemDone, queueVars
  <2> QED
    BY <1>1, <2>1 DEF Holding
<1>9. CASE PopItem
  <2>1. /\ Q!PopStep(RouterThread)
        /\ \/ thread'[RouterThread] = "idle" /\ routerPc' = "popped" /\ item' = Q!Front
           \/ thread'[RouterThread] # "idle" /\ UNCHANGED <<routerPc, item>>
        /\ UNCHANGED <<settled, nextId>>
    BY <1>9 DEF PopItem
  <2>2. routerPc = "pop"
    BY <2>1 DEF IInv, QueueInv, Q!PopStep, Q!Runnable
  <2>3. /\ UNCHANGED arg
        /\ \/ UNCHANGED queue /\ thread'[RouterThread] # "idle"
           \/ /\ queue # <<>> /\ queue' = Tail(queue)
              /\ thread'[RouterThread] = "idle" /\ Q!Front = queue[1]
    BY <2>1, PopRound DEF IInv
  <2>4. CASE UNCHANGED queue /\ thread'[RouterThread] # "idle"
    BY <1>1, <2>1, <2>2, <2>3, <2>4 DEF Holding
  <2>5. CASE queue # <<>> /\ queue' = Tail(queue) /\ thread'[RouterThread] = "idle"
    BY <2>1, <2>2, <2>3, <2>5, OrderTail DEF Holding
  <2> QED
    BY <2>3, <2>4, <2>5
<1>10. CASE FindNone \/ Handle
  <2>1. /\ routerPc \in {"find", "handle"} /\ UNCHANGED <<queueVars, nextId>>
        /\ \/ settled' = Append(settled, item.id) /\ routerPc' \in {"loop", "handled"}
           \/ UNCHANGED <<settled, routerPc, item>>
    BY <1>10 DEF FindNone, Handle, ItemDone, routerVars
  <2>2. Holding /\ item.id # 0
    BY <2>1 DEF Holding, IInv, QueueInv
  <2>3. CASE settled' = Append(settled, item.id) /\ routerPc' \in {"loop", "handled"}
    BY <2>1, <2>2, <2>3, OrderSettle DEF Holding, queueVars
  <2>4. CASE UNCHANGED <<settled, routerPc, item>>
    BY <1>1, <2>1, <2>2, <2>4 DEF Holding, queueVars
  <2> QED
    BY <2>1, <2>3, <2>4
<1> QED
  BY <1>2, <1>3, <1>4, <1>5, <1>6, <1>7, <1>8, <1>9, <1>10 DEF Next, RouterStep, StopStep

\* For any number of messages and a queue of any capacity, messages come to
\* their handlers in the order of the calls of Route, and none twice.
THEOREM RoutedInOrder == Spec => []SettledInOrder
<1>1. Init => OInv
  BY InvInit, OrderInit DEF OInv, Init, Q!Init
<1>2. OInv => SettledInOrder
  BY DEF OInv, OrderInv
<1> QED
  BY <1>1, <1>2, OrderStep, PTL DEF Spec
=============================================================================
