--------------------------- MODULE StreamerProofs ---------------------------
(***************************************************************************)
(* Streamer for any number of servers, descriptors and messages and a      *)
(* queue of any capacity: the types, and that the race of SetupStream with *)
(* _RemoveAndCleanupSockFd neither mixes up descriptors in the map nor     *)
(* loses track of a connection.                                            *)
(***************************************************************************)
EXTENDS Streamer, TLAPS, SequenceTheorems

AllThreads == {Scheduler, Main, StreamerThread}

-----------------------------------------------------------------------------
(* The inductive invariant.                                                *)

\* What the types rest on: a thread in Push has an argument, a thread in a call
\* of the queue waits for nothing else, and a callback that looks up servers is
\* one of those that MaxItems bounds.
CallInv ==
  /\ \A p \in {Scheduler, Main} : arg[p] = NoItem <=> thread[p] = "idle"
  /\ thread[Scheduler] # "idle" <=> sched.pc = "push"
  /\ thread[Main] # "idle" <=> mainPc = "pushing"
  /\ thread[StreamerThread] # "idle" <=> streamerPc = "pop"
  /\ sched.pc \in {"lookup", "read", "connect", "record"} => nextId <= MaxItems
  /\ sched.pc \in {"read", "connect", "record"} => sched.todo # <<>>
  /\ streamerPc \in {"cleanup", "close"} => sending # <<>>

\* Stop clears the flag after the scheduler thread has been joined.
StopInv ==
  /\ mainPc # "running" => sched.pc = "stopped"
  /\ running \/ mainPc # "running"
  /\ streamerPc \in {"closing", "done"} => ~running

\* The entry goes before the descriptor is closed: a descriptor in the map is
\* not free, one that is being closed is not in the map, and one that is about
\* to be recorded is neither.
DescriptorInv ==
  /\ \A a \in Addresses :
       serverMap[a] \notin {NoFd, Stdin} /\ streamerPc # "done" =>
         peer[serverMap[a]] # Closed
  /\ sched.pc \in {"connect", "record"} => serverMap[Server] = NoFd
  /\ sched.pc = "record" /\ sched.newFd # Stdin =>
       /\ peer[sched.newFd] # Closed
       /\ \A a \in Addresses : serverMap[a] # sched.newFd
  /\ streamerPc = "close" /\ Head(sending).fd # Stdin =>
       /\ peer[Head(sending).fd] # Closed
       /\ \A a \in Addresses : serverMap[a] # Head(sending).fd
       /\ sched.pc = "record" => sched.newFd # Head(sending).fd

MapInv == StopInv /\ DescriptorInv /\ OneServerPerFd /\ ConnectionsTracked

IInv == TypeOK /\ CallInv /\ MapInv

-----------------------------------------------------------------------------
(* What a critical section of the queue does, seen from its threads.       *)

LEMMA ItemTypes ==
  /\ Dummy \in Item /\ NoItem \notin Item
  /\ \A x \in Item : x.id \in 0..MaxItems /\ x.to \in Seq(Target)
  /\ \A n \in 0..MaxItems, to \in Seq(Target) : [id |-> n, to |-> to] \in Item
<1>1. MaxItems \in Nat
  BY StreamerAssumption
<1>2. <<>> \in Seq(Target)
  BY EmptySeq
<1> QED
  BY <1>1, <1>2 DEF Dummy, NoItem, Item

LEMMA Notified ==
  ASSUME thread \in [AllThreads -> Q!ThreadState], NEW t \in AllThreads,
         Q!NotifyOneAndReturn(t), thread[t] # "waiting"
  PROVE  /\ thread' \in [AllThreads -> Q!ThreadState]
         /\ thread'[t] = "idle"
         /\ \A u \in AllThreads \ {t} : thread'[u] = "idle" <=> thread[u] = "idle"
BY DEF Q!NotifyOneAndReturn, Q!WaitSet, Q!ThreadState, Q!Threads, AllThreads

\* A round of Push's loop by p.
LEMMA PushRound ==
  ASSUME TypeOK, CallInv, NEW p \in {Scheduler, Main}, Q!PushStep(p)
  PROVE  /\ queue' \in Seq(Item) /\ Len(queue') <= Capacity
         /\ thread' \in [AllThreads -> Q!ThreadState]
         /\ arg' \in [{Scheduler, Main} -> Item \cup {NoItem}]
         /\ \A q \in {Scheduler, Main} : arg'[q] = NoItem <=> thread'[q] = "idle"
         /\ \A u \in AllThreads \ {p} : thread'[u] = "idle" <=> thread[u] = "idle"
<1>1. /\ queue \in Seq(Item) /\ Len(queue) <= Capacity /\ Capacity \in Nat
      /\ thread \in [AllThreads -> Q!ThreadState]
      /\ arg \in [{Scheduler, Main} -> Item \cup {NoItem}]
      /\ thread[p] \in {"entering", "woken"} /\ p \in AllThreads
  BY StreamerAssumption DEF TypeOK, Q!PushStep, Q!Runnable, AllThreads
<1>2. arg[p] \in Item
  BY <1>1 DEF CallInv
<1>3. CASE Q!IsFull(p)
  <2>1. UNCHANGED <<queue, arg>> /\ thread' = [thread EXCEPT ![p] = "waiting"]
    BY <1>3 DEF Q!PushStep, Q!Wait
  <2> QED
    BY <1>1, <2>1 DEF Q!ThreadState, CallInv, AllThreads
<1>4. CASE ~Q!IsFull(p)
  <2>1. /\ queue' = Append(queue, arg[p])
        /\ arg' = [arg EXCEPT ![p] = NoItem]
        /\ Q!NotifyOneAndReturn(p)
    BY <1>4 DEF Q!PushStep
  <2>2. Len(queue) \in Nat /\ Len(queue) < Capacity
    BY <1>1, <1>4, LenProperties DEF Q!IsFull
  <2>3. queue' \in Seq(Item) /\ Len(queue') = Len(queue) + 1
    BY <1>1, <1>2, <2>1, AppendProperties
  <2>4. /\ thread' \in [AllThreads -> Q!ThreadState]
        /\ thread'[p] = "idle"
        /\ \A u \in AllThreads \ {p} : thread'[u] = "idle" <=> thread[u] = "idle"
    BY <1>1, <2>1, Notified
  <2>5. \A q \in {Scheduler, Main} : arg'[q] = NoItem <=> thread'[q] = "idle"
    BY <1>1, <2>1, <2>4 DEF CallInv, AllThreads
  <2> QED
    BY <1>1, <2>1, <2>2, <2>3, <2>4, <2>5
<1> QED
  BY <1>3, <1>4

\* A round of Pop's loop by the streamer thread.
LEMMA PopRound ==
  ASSUME TypeOK, CallInv, Q!PopStep(StreamerThread)
  PROVE  /\ queue' \in Seq(Item) /\ Len(queue') <= Capacity
         /\ thread' \in [AllThreads -> Q!ThreadState]
         /\ UNCHANGED arg
         /\ \A p \in {Scheduler, Main} : arg'[p] = NoItem <=> thread'[p] = "idle"
         /\ thread'[StreamerThread] = "idle" => Q!Front \in Item
         /\ \A p \in {Scheduler, Main} : thread'[p] = "idle" <=> thread[p] = "idle"
<1>1. /\ queue \in Seq(Item) /\ Len(queue) <= Capacity /\ Capacity \in Nat
      /\ thread \in [AllThreads -> Q!ThreadState]
      /\ thread[StreamerThread] \in {"entering", "woken"}
      /\ StreamerThread \in AllThreads
      /\ UNCHANGED arg
  BY StreamerAssumption DEF TypeOK, Q!PopStep, Q!Runnable, AllThreads
<1>2. CASE queue = <<>>
  <2>1. UNCHANGED queue /\ thread' = [thread EXCEPT ![StreamerThread] = "waiting"]
    BY <1>2 DEF Q!PopStep, Q!Wait, Q!IsEmpty
  <2> QED
    BY <1>1, <2>1 DEF Q!ThreadState, CallInv, AllThreads, Scheduler, Main, StreamerThread
<1>3. CASE queue # <<>>
  <2>1. queue' = Tail(queue) /\ Q!NotifyOneAndReturn(StreamerThread)
    BY <1>3 DEF Q!PopStep, Q!IsEmpty
  <2>2. /\ queue' \in Seq(Item) /\ Len(queue') = Len(queue) - 1 /\ Q!Front \in Item
    BY <1>1, <1>3, <2>1, HeadTailProperties DEF Q!Front
  <2>3. /\ thread' \in [AllThreads -> Q!ThreadState]
        /\ \A u \in AllThreads \ {StreamerThread} :
             thread'[u] = "idle" <=> thread[u] = "idle"
    BY <1>1, <2>1, Notified
  <2>4. Len(queue) \in Nat
    BY <1>1, LenProperties
  <2>5. \A p \in {Scheduler, Main} : arg'[p] = NoItem <=> thread'[p] = "idle"
    BY <1>1, <2>3 DEF CallInv, AllThreads, Scheduler, Main, StreamerThread
  <2>6. \A p \in {Scheduler, Main} : thread'[p] = "idle" <=> thread[p] = "idle"
    BY <2>3 DEF AllThreads, Scheduler, Main, StreamerThread
  <2> QED
    BY <1>1, <2>1, <2>2, <2>3, <2>4, <2>5, <2>6
<1> QED
  BY <1>2, <1>3

-----------------------------------------------------------------------------
LEMMA InvInit == Init => IInv
<1> SUFFICES ASSUME Init PROVE IInv
  OBVIOUS
<1>1. queue = <<>> /\ queue \in Seq(Item) /\ Len(queue) = 0
  BY EmptySeq DEF Init, Q!Init
<1>2. /\ thread = [t \in AllThreads |-> "idle"]
      /\ arg = [p \in {Scheduler, Main} |-> NoItem]
  BY DEF Init, Q!Init, Q!Threads, AllThreads
<1>3. <<>> \in Seq(Target) /\ <<>> \in Seq(Addresses)
  BY EmptySeq
<1>4. TypeOK
  <2>1. /\ thread \in [AllThreads -> Q!ThreadState]
        /\ arg \in [{Scheduler, Main} -> Item \cup {NoItem}]
    BY <1>2 DEF Q!ThreadState
  <2>2. Len(queue) <= Capacity /\ nextId \in 1..(MaxItems + 1)
    BY <1>1, StreamerAssumption DEF Init
  <2>3. /\ serverMap \in [Addresses -> Fds \cup {NoFd}]
        /\ peer \in [Fds -> Addresses \cup {Closed, Unconnected}]
        /\ torn \subseteq Fds
    BY DEF Init
  <2>4. lastSent \in [Fds -> 0..MaxItems] /\ since \in [Fds -> 0..MaxItems]
    BY StreamerAssumption DEF Init
  <2>5. sched \in SchedState /\ sending \in Seq(Target) /\ sendingId \in 0..MaxItems
    BY <1>3, StreamerAssumption DEF Init, SchedState
  <2>6. /\ streamerPc \in {"loop", "pop", "popped", "send", "cleanup", "close",
                           "closing", "done"}
        /\ mainPc \in {"running", "flagged", "pushing", "joining", "stopped"}
        /\ running \in BOOLEAN /\ aborted \in BOOLEAN
        /\ crossed \in BOOLEAN /\ stale \in BOOLEAN /\ corrupt \in BOOLEAN
    BY DEF Init
  <2> QED
    BY <1>1, <2>1, <2>2, <2>3, <2>4, <2>5, <2>6, Zenon DEF TypeOK, AllThreads
<1>5. CallInv
  BY <1>2 DEF Init, CallInv, AllThreads
<1>6. MapInv
  BY StreamerAssumption
  DEF Init, MapInv, StopInv, DescriptorInv, OneServerPerFd, ConnectionsTracked
<1> QED
  BY <1>4, <1>5, <1>6 DEF IInv

LEMMA TargetType ==
  ASSUME TypeOK, sending # <<>>
  PROVE  Head(sending).fd \in Fds /\ Tail(sending) \in Seq(Target)
<1>1. sending \in Seq(Target)
  BY DEF TypeOK
<1>2. Head(sending) \in Target /\ Tail(sending) \in Seq(Target)
  BY <1>1, HeadTailProperties
<1> QED
  BY <1>2 DEF Target

\* The scheduler thread in SetupStream.
LEMMA SetupKeeps ==
  ASSUME IInv
  PROVE  /\ \A servers \in ServerLists : StartItem(servers) => IInv'
         /\ LookUp \/ ResolveFails \/ SocketFails => IInv'
         /\ ReadEntry => IInv'
         /\ ConnectFails => IInv'
         /\ Connect => IInv'
         /\ RecordEntry => IInv'
<1> USE DEF IInv
<1>0. /\ sched \in SchedState /\ Stdin \in Fds /\ NoFd \notin Fds
      /\ sched.todo # <<>> => /\ Server \in Addresses
                              /\ Tail(sched.todo) \in Seq(Addresses)
  BY StreamerAssumption DEF TypeOK, SchedState, Server
<1>1. ASSUME NEW servers \in ServerLists, StartItem(servers)
      PROVE  IInv'
  <2>1. /\ sched.pc = "idle" /\ nextId <= MaxItems
        /\ sched' = [sched EXCEPT !.pc = "lookup", !.todo = servers, !.to = <<>>]
        /\ UNCHANGED <<queueVars, running, serverMap, kernelVars, nextId, streamVars,
                       mainPc, aborted>>
    BY <1>1 DEF StartItem
  <2>2. sched' \in SchedState /\ sched'.pc = "lookup"
    BY <1>0, <2>1, EmptySeq, StreamerAssumption DEF SchedState
  <2>3. TypeOK'
    BY <2>1, <2>2 DEF TypeOK, queueVars, kernelVars, streamVars
  <2>4. CallInv' /\ MapInv'
    BY <2>1, <2>2
    DEF CallInv, MapInv, StopInv, DescriptorInv, OneServerPerFd, ConnectionsTracked,
        queueVars, kernelVars, streamVars
  <2> QED
    BY <2>3, <2>4
<1>2. ASSUME LookUp \/ ResolveFails \/ SocketFails
      PROVE  IInv'
  <2>1. /\ UNCHANGED <<queueVars, running, serverMap, kernelVars, nextId, streamVars,
                       mainPc>>
        /\ aborted' \in BOOLEAN
        /\ \/ /\ sched.pc = "lookup" /\ sched.todo # <<>>
              /\ sched' = [sched EXCEPT !.pc =
                             IF serverMap[Server] = NoFd THEN "connect" ELSE "read"]
           \/ /\ sched.pc = "connect"
              /\ sched' = [sched EXCEPT !.pc = "lookup", !.todo = Tail(@)]
           \/ sched.pc = "connect" /\ sched' = sched
    BY <1>2 DEF LookUp, ResolveFails, SocketFails, NotFound, TypeOK
  <2>2. sched' \in SchedState
    BY <1>0, <2>1 DEF SchedState, CallInv
  <2>3. TypeOK'
    BY <2>1, <2>2 DEF TypeOK, queueVars, kernelVars, streamVars
  <2>4. CallInv' /\ MapInv'
    <3>1. CASE /\ sched.pc = "lookup" /\ sched.todo # <<>>
               /\ sched' = [sched EXCEPT !.pc =
                              IF serverMap[Server] = NoFd THEN "connect" ELSE "read"]
      <4>1. /\ sched'.pc \in {"connect", "read"} /\ sched'.todo = sched.todo
            /\ sched'.pc = "connect" => serverMap[Server] = NoFd
        BY <1>0, <3>1 DEF SchedState
      <4> QED
        BY <2>1, <3>1, <4>1
        DEF CallInv, MapInv, StopInv, DescriptorInv, OneServerPerFd, ConnectionsTracked,
            queueVars, kernelVars, streamVars, Server
    <3>2. CASE /\ sched.pc = "connect"
               /\ sched' = [sched EXCEPT !.pc = "lookup", !.todo = Tail(@)]
      <4>1. sched'.pc = "lookup"
        BY <1>0, <3>2 DEF SchedState
      <4> QED
        BY <2>1, <3>2, <4>1
        DEF CallInv, MapInv, StopInv, DescriptorInv, OneServerPerFd, ConnectionsTracked,
            queueVars, kernelVars, streamVars
    <3>3. CASE sched.pc = "connect" /\ sched' = sched
      BY <2>1, <3>3
      DEF CallInv, MapInv, StopInv, DescriptorInv, OneServerPerFd, ConnectionsTracked,
          queueVars, kernelVars, streamVars, Server
    <3> QED
      BY <2>1, <3>1, <3>2, <3>3
  <2> QED
    BY <2>3, <2>4
<1>3. ASSUME ReadEntry
      PROVE  IInv'
  <2> DEFINE fd == IF serverMap[Server] = NoFd THEN Stdin ELSE serverMap[Server]
  <2>1. /\ sched.pc = "read"
        /\ serverMap' = [serverMap EXCEPT ![Server] = fd]
        /\ sched' = [sched EXCEPT !.pc = "lookup", !.todo = Tail(@),
                                  !.to = Append(@, [fd |-> fd, server |-> Server])]
        /\ UNCHANGED <<queueVars, running, kernelVars, nextId, streamVars, mainPc, aborted>>
    BY <1>3 DEF ReadEntry, Found
  <2>2. Server \in Addresses /\ fd \in Fds
    BY <1>0, <2>1 DEF CallInv, TypeOK
  <2>3. sched' \in SchedState /\ sched'.pc = "lookup"
    <3>1. Append(sched.to, [fd |-> fd, server |-> Server]) \in Seq(Target)
      BY <1>0, <2>2, AppendProperties DEF SchedState, Target
    <3> QED
      BY <1>0, <2>1, <3>1 DEF SchedState, CallInv
  <2> HIDE DEF fd
  <2>4. TypeOK'
    BY <2>1, <2>2, <2>3 DEF TypeOK, queueVars, kernelVars, streamVars
  <2>5. CallInv' /\ StopInv'
    BY <2>1, <2>3 DEF CallInv, StopInv, MapInv, queueVars, streamVars
  <2>6. DescriptorInv' /\ OneServerPerFd' /\ ConnectionsTracked'
    <3>1. \A a \in Addresses : serverMap'[a] # serverMap[a] => serverMap[a] = NoFd
                                                            /\ serverMap'[a] = Stdin
      BY <2>1, <2>2 DEF TypeOK, fd
    <3> QED
      BY <1>0, <2>1, <2>3, <3>1
      DEF DescriptorInv, OneServerPerFd, ConnectionsTracked, MapInv, TypeOK,
          kernelVars, streamVars
  <2> QED
    BY <2>4, <2>5, <2>6 DEF MapInv
<1>4. ASSUME ConnectFails
      PROVE  IInv'
  <2>1. PICK fd \in Fds : peer[fd] = Closed /\ peer' = [peer EXCEPT ![fd] = Unconnected]
    BY <1>4 DEF ConnectFails
  <2>2. /\ sched.pc = "connect"
        /\ sched' = [sched EXCEPT !.pc = "lookup", !.todo = Tail(@)]
        /\ UNCHANGED <<queueVars, running, serverMap, torn, lastSent, since, crossed, stale,
                       corrupt, nextId, streamVars, mainPc, aborted>>
    BY <1>4 DEF ConnectFails, NotFound
  <2>3. sched' \in SchedState /\ sched'.pc = "lookup"
    BY <1>0, <2>2 DEF SchedState, CallInv
  <2>4. TypeOK'
    BY <2>1, <2>2, <2>3 DEF TypeOK, queueVars, streamVars
  <2>5. CallInv' /\ StopInv' /\ OneServerPerFd'
    BY <2>2, <2>3 DEF CallInv, StopInv, OneServerPerFd, MapInv, queueVars, streamVars
  <2>6. \A f \in Fds : /\ peer[f] # Closed => peer'[f] = peer[f]
                       /\ peer'[f] \in Addresses => peer'[f] = peer[f]
    BY <2>1, StreamerAssumption DEF TypeOK
  <2>7. ConnectionsTracked'
    BY <2>2, <2>6 DEF ConnectionsTracked, MapInv, streamVars
  <2>8. DescriptorInv'
    BY <1>0, <2>2, <2>3, <2>6, TargetType
    DEF DescriptorInv, MapInv, TypeOK, CallInv, streamVars
  <2> QED
    BY <2>4, <2>5, <2>7, <2>8 DEF MapInv
<1>5. ASSUME Connect
      PROVE  IInv'
  <2>1. PICK fd \in Fds :
          /\ peer[fd] = Closed /\ peer' = [peer EXCEPT ![fd] = Server]
          /\ lastSent' = [lastSent EXCEPT ![fd] = 0]
          /\ since' = [since EXCEPT ![fd] = nextId]
          /\ sched' = [sched EXCEPT !.pc = "record", !.newFd = fd]
    BY <1>5 DEF Connect
  <2>2. /\ sched.pc = "connect"
        /\ UNCHANGED <<queueVars, running, serverMap, torn, crossed, stale, corrupt,
                       nextId, streamVars, mainPc, aborted>>
    BY <1>5 DEF Connect
  <2>3. /\ sched' \in SchedState /\ sched'.pc = "record" /\ sched'.newFd = fd
        /\ sched'.todo = sched.todo
    BY <1>0, <2>1 DEF SchedState
  <2>4. Server \in Addresses /\ nextId \in 0..MaxItems /\ 0 \in 0..MaxItems
    BY <1>0, <2>2, StreamerAssumption DEF CallInv, TypeOK
  <2>5. TypeOK'
    BY <2>1, <2>2, <2>3, <2>4 DEF TypeOK, queueVars, streamVars
  <2>6. CallInv' /\ StopInv' /\ OneServerPerFd'
    BY <2>2, <2>3 DEF CallInv, StopInv, OneServerPerFd, MapInv, queueVars, streamVars
  <2>7. /\ \A f \in Fds \ {fd} : peer'[f] = peer[f]
        /\ peer'[fd] # Closed
    BY <2>1, <2>4, StreamerAssumption DEF TypeOK
  <2>8. ConnectionsTracked'
    <3>1. streamerPc # "done"
      BY <2>2 DEF StopInv, MapInv
    <3> QED
      BY <2>2, <2>3, <2>7, <3>1 DEF ConnectionsTracked, MapInv, streamVars
  <2>9. DescriptorInv'
    <3>1. streamerPc # "done"
      BY <2>2 DEF StopInv, MapInv
    <3>2. fd # Stdin => \A a \in Addresses : serverMap[a] # fd
      BY <1>0, <2>1, <3>1 DEF DescriptorInv, MapInv
    <3>3. fd # Stdin /\ streamerPc = "close" => Head(sending).fd # fd
      BY <2>1 DEF DescriptorInv, MapInv
    <3>4. sending # <<>> => Head(sending).fd \in Fds
      BY TargetType
    <3> QED
      BY <1>0, <2>2, <2>3, <2>7, <3>2, <3>3, <3>4, SMTT(20)
      DEF DescriptorInv, MapInv, TypeOK, CallInv, Server, streamVars
  <2> QED
    BY <2>5, <2>6, <2>8, <2>9 DEF MapInv
<1>6. ASSUME RecordEntry
      PROVE  IInv'
  <2> DEFINE fd == sched.newFd
  <2>1. /\ sched.pc = "record"
        /\ serverMap' = [serverMap EXCEPT ![Server] = fd]
        /\ sched' = [sched EXCEPT !.pc = "lookup", !.todo = Tail(@),
                                  !.to = Append(@, [fd |-> fd, server |-> Server])]
        /\ UNCHANGED <<queueVars, running, kernelVars, nextId, streamVars, mainPc, aborted>>
    BY <1>6 DEF RecordEntry, Found
  <2>2. Server \in Addresses /\ fd \in Fds /\ serverMap[Server] = NoFd
    BY <1>0, <2>1 DEF CallInv, SchedState, DescriptorInv, MapInv
  <2>3. sched' \in SchedState /\ sched'.pc = "lookup"
    <3>1. Append(sched.to, [fd |-> fd, server |-> Server]) \in Seq(Target)
      BY <1>0, <2>2, AppendProperties DEF SchedState, Target
    <3> QED
      BY <1>0, <2>1, <3>1 DEF SchedState, CallInv
  <2>4. TypeOK'
    BY <2>1, <2>2, <2>3 DEF TypeOK, queueVars, kernelVars, streamVars
  <2>5. CallInv' /\ StopInv'
    BY <2>1, <2>3 DEF CallInv, StopInv, MapInv, queueVars, streamVars
  <2>6. \A a \in Addresses : serverMap'[a] = IF a = Server THEN fd ELSE serverMap[a]
    BY <2>1, <2>2 DEF TypeOK
  <2>7. OneServerPerFd'
    BY <2>1, <2>2, <2>6 DEF OneServerPerFd, DescriptorInv, MapInv
  <2>8. ConnectionsTracked'
    BY <1>0, <2>1, <2>2, <2>3, <2>6
    DEF ConnectionsTracked, MapInv, kernelVars, streamVars
  <2>9. DescriptorInv'
    BY <1>0, <2>1, <2>2, <2>3, <2>6
    DEF DescriptorInv, MapInv, kernelVars, streamVars
  <2> QED
    BY <2>4, <2>5, <2>7, <2>8, <2>9 DEF MapInv
<1> QED
  BY <1>1, <1>2, <1>3, <1>4, <1>5, <1>6

\* The steps that touch neither the map nor the kernel's descriptors, nor what
\* SetupStream and _RemoveAndCleanupSockFd are about to do to them.
LEMMA MapUntouched ==
  ASSUME DescriptorInv, OneServerPerFd, ConnectionsTracked,
         UNCHANGED <<serverMap, peer>>,
         \/ UNCHANGED sched
         \/ {sched.pc, sched'.pc} \cap {"connect", "record"} = {},
         \/ UNCHANGED <<sending, streamerPc>>
         \/ {streamerPc, streamerPc'} \cap {"close", "done"} = {}
  PROVE  DescriptorInv' /\ OneServerPerFd' /\ ConnectionsTracked'
<1>1. CASE UNCHANGED sched
  BY <1>1 DEF DescriptorInv, OneServerPerFd, ConnectionsTracked, Server
<1>2. CASE sched.pc \notin {"connect", "record"} /\ sched'.pc \notin {"connect", "record"}
  BY <1>2 DEF DescriptorInv, OneServerPerFd, ConnectionsTracked
<1> QED
  BY <1>1, <1>2

\* The scheduler thread in Stream, and the threads' spurious wakeups.
LEMMA StreamKeeps ==
  ASSUME IInv
  PROVE  (CallStream => IInv') /\ (PushItem => IInv') /\ (SpuriousWakeup => IInv')
<1> USE DEF IInv
<1>0. sched \in SchedState
  BY DEF TypeOK
<1>1. ASSUME CallStream
      PROVE  IInv'
  <2> DEFINE x == [id |-> nextId, to |-> sched.to]
  <2>1. /\ sched.pc = "lookup" /\ thread[Scheduler] = "idle"
        /\ thread' = [thread EXCEPT ![Scheduler] = "entering"]
        /\ arg' = [arg EXCEPT ![Scheduler] = x]
        /\ sched' = [sched EXCEPT !.pc = "push"] /\ nextId' = nextId + 1
        /\ UNCHANGED <<queue, running, serverMap, kernelVars, streamVars, mainPc, aborted>>
    BY <1>1 DEF CallStream, Q!CallPush
  <2>2. nextId \in 1..MaxItems /\ MaxItems \in Nat
    BY <2>1, StreamerAssumption DEF TypeOK, CallInv
  <2>3. x \in Item /\ x # NoItem
    <3>1. sched.to \in Seq(Target)
      BY <1>0 DEF SchedState
    <3> QED
      BY <2>2, <3>1, ItemTypes
  <2> HIDE DEF x
  <2>4. sched' \in SchedState /\ sched'.pc = "push"
    BY <1>0, <2>1 DEF SchedState
  <2>5. TypeOK'
    BY <2>1, <2>2, <2>3, <2>4
    DEF TypeOK, Q!ThreadState, kernelVars, streamVars
  <2>6. CallInv'
    BY <2>1, <2>3, <2>4 DEF CallInv, TypeOK, streamVars, Scheduler, Main, StreamerThread
  <2>7. StopInv'
    BY <2>1 DEF StopInv, MapInv, streamVars
  <2>8. DescriptorInv' /\ OneServerPerFd' /\ ConnectionsTracked'
    BY <2>1, <2>4, MapUntouched DEF MapInv, kernelVars, streamVars
  <2> QED
    BY <2>5, <2>6, <2>7, <2>8 DEF MapInv
<1>2. ASSUME PushItem
      PROVE  IInv'
  <2>1. /\ Q!PushStep(Scheduler)
        /\ \/ sched' = [sched EXCEPT !.pc = "idle"]
           \/ sched' = sched
        /\ UNCHANGED <<running, serverMap, kernelVars, nextId, streamVars, mainPc, aborted>>
    BY <1>2 DEF PushItem
  <2>2. sched.pc = "push"
    BY <2>1 DEF CallInv, Q!PushStep, Q!Runnable
  <2>3. /\ queue' \in Seq(Item) /\ Len(queue') <= Capacity
        /\ thread' \in [AllThreads -> Q!ThreadState]
        /\ arg' \in [{Scheduler, Main} -> Item \cup {NoItem}]
        /\ \A q \in {Scheduler, Main} : arg'[q] = NoItem <=> thread'[q] = "idle"
        /\ thread'[Main] = "idle" <=> thread[Main] = "idle"
        /\ thread'[StreamerThread] = "idle" <=> thread[StreamerThread] = "idle"
    BY <2>1, PushRound DEF AllThreads, Scheduler, Main, StreamerThread
  <2>4. /\ sched' \in SchedState /\ sched'.pc \in {"idle", "push"}
        /\ thread'[Scheduler] # "idle" <=> sched'.pc = "push"
    BY <1>0, <1>2, <2>1, <2>2 DEF PushItem, SchedState
  <2>5. TypeOK'
    BY <2>1, <2>3, <2>4 DEF TypeOK, AllThreads, kernelVars, streamVars
  <2>6. CallInv'
    BY <2>1, <2>3, <2>4 DEF CallInv, streamVars
  <2>7. StopInv'
    BY <2>1, <2>2 DEF StopInv, MapInv, streamVars
  <2>8. DescriptorInv' /\ OneServerPerFd' /\ ConnectionsTracked'
    BY <2>1, <2>2, <2>4, MapUntouched DEF MapInv, kernelVars, streamVars
  <2> QED
    BY <2>5, <2>6, <2>7, <2>8 DEF MapInv
<1>3. ASSUME SpuriousWakeup
      PROVE  IInv'
  <2>1. PICK t \in AllThreads : Q!SpuriousWakeup(t)
    BY <1>3 DEF SpuriousWakeup, AllThreads
  <2>2. /\ thread[t] = "waiting" /\ thread' = [thread EXCEPT ![t] = "woken"]
        /\ UNCHANGED <<queue, arg, running, serverMap, kernelVars, sched, nextId,
                       streamVars, mainPc, aborted>>
    BY <1>3, <2>1 DEF SpuriousWakeup, Q!SpuriousWakeup
  <2>3. TypeOK'
    BY <2>2 DEF TypeOK, Q!ThreadState, AllThreads, kernelVars, streamVars
  <2>4. CallInv'
    BY <2>2 DEF TypeOK, CallInv, AllThreads, streamVars
  <2>5. StopInv'
    BY <2>2 DEF StopInv, MapInv, streamVars
  <2>6. DescriptorInv' /\ OneServerPerFd' /\ ConnectionsTracked'
    BY <2>2, MapUntouched DEF MapInv, kernelVars, streamVars
  <2> QED
    BY <2>3, <2>4, <2>5, <2>6 DEF MapInv
<1> QED
  BY <1>1, <1>2, <1>3

\* The streamer thread, from Pop to the end of an item.
LEMMA SendKeeps ==
  ASSUME IInv
  PROVE  /\ CallPop => IInv'
         /\ PopItem => IInv'
         /\ CheckRunning \/ ItemSent => IInv'
         /\ SendAll => IInv'
         /\ SendFails => IInv'
<1> USE DEF IInv
<1>1. ASSUME CallPop
      PROVE  IInv'
  <2>1. /\ streamerPc = "loop" /\ streamerPc' = "pop"
        /\ thread' = [thread EXCEPT ![StreamerThread] = "entering"]
        /\ UNCHANGED <<queue, arg, running, serverMap, kernelVars, sched, nextId, sending,
                       sendingId, mainPc, aborted>>
    BY <1>1 DEF CallPop, Q!CallPop
  <2>2. TypeOK'
    BY <2>1 DEF TypeOK, Q!ThreadState, kernelVars
  <2>3. CallInv'
    BY <2>1 DEF TypeOK, CallInv, Scheduler, Main, StreamerThread
  <2>4. StopInv'
    BY <2>1 DEF StopInv, MapInv
  <2>5. DescriptorInv' /\ OneServerPerFd' /\ ConnectionsTracked'
    BY <2>1, MapUntouched DEF MapInv, kernelVars
  <2> QED
    BY <2>2, <2>3, <2>4, <2>5 DEF MapInv
<1>2. ASSUME PopItem
      PROVE  IInv'
  <2>1. /\ Q!PopStep(StreamerThread)
        /\ IF thread'[StreamerThread] = "idle"
           THEN streamerPc' = "popped" /\ sending' = Q!Front.to /\ sendingId' = Q!Front.id
           ELSE UNCHANGED <<sending, sendingId, streamerPc>>
        /\ UNCHANGED <<running, serverMap, kernelVars, sched, nextId, mainPc, aborted>>
    BY <1>2 DEF PopItem, streamVars
  <2>2. streamerPc = "pop"
    BY <2>1 DEF CallInv, Q!PopStep, Q!Runnable
  <2>3. /\ queue' \in Seq(Item) /\ Len(queue') <= Capacity
        /\ thread' \in [AllThreads -> Q!ThreadState]
        /\ UNCHANGED arg
        /\ \A p \in {Scheduler, Main} : arg'[p] = NoItem <=> thread'[p] = "idle"
        /\ thread'[StreamerThread] = "idle" => Q!Front \in Item
        /\ \A p \in {Scheduler, Main} : thread'[p] = "idle" <=> thread[p] = "idle"
    BY <2>1, PopRound
  <2>4. /\ sending' \in Seq(Target) /\ sendingId' \in 0..MaxItems
        /\ streamerPc' \in {"pop", "popped"}
        /\ thread'[StreamerThread] # "idle" <=> streamerPc' = "pop"
    BY <2>1, <2>2, <2>3, ItemTypes DEF TypeOK
  <2>5. TypeOK'
    BY <2>1, <2>3, <2>4 DEF TypeOK, AllThreads, kernelVars
  <2>6. CallInv'
    BY <2>1, <2>3, <2>4 DEF CallInv
  <2>7. StopInv'
    BY <2>1, <2>4 DEF StopInv, MapInv
  <2>8. DescriptorInv' /\ OneServerPerFd' /\ ConnectionsTracked'
    BY <2>1, <2>2, <2>4, MapUntouched DEF MapInv, kernelVars
  <2> QED
    BY <2>5, <2>6, <2>7, <2>8 DEF MapInv
<1>3. ASSUME CheckRunning \/ ItemSent
      PROVE  IInv'
  <2>1. /\ \/ streamerPc = "popped" /\ streamerPc' = IF running THEN "send" ELSE "closing"
           \/ streamerPc = "send" /\ streamerPc' = "loop"
        /\ UNCHANGED <<queueVars, running, serverMap, kernelVars, sched, nextId, sending,
                       sendingId, mainPc, aborted>>
    BY <1>3 DEF CheckRunning, ItemSent
  <2>2. TypeOK'
    BY <2>1 DEF TypeOK, queueVars, kernelVars
  <2>3. CallInv' /\ StopInv'
    BY <2>1 DEF CallInv, StopInv, MapInv, queueVars
  <2>4. DescriptorInv' /\ OneServerPerFd' /\ ConnectionsTracked'
    BY <2>1, MapUntouched DEF MapInv, kernelVars
  <2> QED
    BY <2>2, <2>3, <2>4 DEF MapInv
<1>4. ASSUME SendAll
      PROVE  IInv'
  <2>1. /\ streamerPc = "send" /\ sending # <<>> /\ sending' = Tail(sending)
        /\ lastSent' = [lastSent EXCEPT ![Head(sending).fd] = sendingId]
        /\ crossed' \in BOOLEAN /\ stale' \in BOOLEAN /\ corrupt' \in BOOLEAN
        /\ UNCHANGED <<queueVars, running, serverMap, peer, torn, since, sched, nextId,
                       sendingId, streamerPc, mainPc, aborted>>
    BY <1>4 DEF SendAll, BytesSentOn, TypeOK
  <2>2. TypeOK'
    BY <2>1, TargetType DEF TypeOK, queueVars
  <2>3. CallInv' /\ StopInv'
    BY <2>1 DEF CallInv, StopInv, MapInv, queueVars
  <2>4. DescriptorInv' /\ OneServerPerFd' /\ ConnectionsTracked'
    BY <2>1, MapUntouched DEF MapInv
  <2> QED
    BY <2>2, <2>3, <2>4 DEF MapInv
<1>5. ASSUME SendFails
      PROVE  IInv'
  <2>1. /\ streamerPc = "send" /\ sending # <<>> /\ streamerPc' = "cleanup"
        /\ torn' \in {torn, torn \cup {Head(sending).fd}}
        /\ crossed' \in BOOLEAN /\ stale' \in BOOLEAN /\ corrupt' \in BOOLEAN
        /\ UNCHANGED <<queueVars, running, serverMap, peer, lastSent, since, sched, nextId,
                       sending, sendingId, mainPc, aborted>>
    BY <1>5 DEF SendFails, BytesSentOn, TypeOK, kernelVars
  <2>2. TypeOK'
    BY <2>1, TargetType DEF TypeOK, queueVars
  <2>3. CallInv' /\ StopInv'
    BY <2>1 DEF CallInv, StopInv, MapInv, queueVars
  <2>4. DescriptorInv' /\ OneServerPerFd' /\ ConnectionsTracked'
    BY <2>1, MapUntouched DEF MapInv
  <2> QED
    BY <2>2, <2>3, <2>4 DEF MapInv
<1> QED
  BY <1>1, <1>2, <1>3, <1>4, <1>5

\* The streamer thread in _RemoveAndCleanupSockFd and after its loop.
LEMMA CleanupKeeps ==
  ASSUME IInv
  PROVE  (RemoveEntry => IInv') /\ (CloseFd => IInv') /\ (CloseAll => IInv')
<1> USE DEF IInv
<1> DEFINE f == Head(sending).fd
<1>0. Stdin \in Fds /\ NoFd \notin Fds /\ Closed \notin Addresses /\ Unconnected # Closed
  BY StreamerAssumption
<1>1. ASSUME RemoveEntry
      PROVE  IInv'
  <2>1. /\ streamerPc = "cleanup" /\ sending # <<>>
        /\ UNCHANGED <<queueVars, running, kernelVars, sched, nextId, sendingId, mainPc,
                       aborted>>
    BY <1>1 DEF RemoveEntry, CallInv
  <2>2. f \in Fds /\ Tail(sending) \in Seq(Target)
    BY <2>1, TargetType
  <2>3. CASE /\ \A a \in Addresses : serverMap[a] # f
             /\ streamerPc' = "send" /\ sending' = Tail(sending) /\ UNCHANGED serverMap
    <3>1. TypeOK'
      BY <2>1, <2>2, <2>3 DEF TypeOK, queueVars, kernelVars
    <3>2. CallInv' /\ StopInv'
      BY <2>1, <2>3 DEF CallInv, StopInv, MapInv, queueVars
    <3>3. DescriptorInv' /\ OneServerPerFd' /\ ConnectionsTracked'
      BY <2>1, <2>3, MapUntouched DEF MapInv, kernelVars
    <3> QED
      BY <3>1, <3>2, <3>3 DEF MapInv
  <2>4. ASSUME NEW a \in Addresses, serverMap[a] = f,
               serverMap' = [serverMap EXCEPT ![a] = NoFd],
               streamerPc' = "close", UNCHANGED sending
        PROVE  IInv'
    <3>1. TypeOK'
      BY <2>1, <2>4 DEF TypeOK, queueVars, kernelVars
    <3>2. CallInv' /\ StopInv'
      BY <2>1, <2>4 DEF CallInv, StopInv, MapInv, queueVars
    <3>3. \A b \in Addresses : serverMap'[b] = IF b = a THEN NoFd ELSE serverMap[b]
      BY <2>4 DEF TypeOK
    <3>4. OneServerPerFd'
      BY <3>3 DEF OneServerPerFd, MapInv
    <3>5. ConnectionsTracked'
      BY <2>1, <2>4, <3>3 DEF ConnectionsTracked, MapInv, kernelVars
    <3>6. f # Stdin => /\ \A b \in Addresses : serverMap'[b] # f
                       /\ peer[f] # Closed
                       /\ sched.pc = "record" => sched.newFd # f
      BY <1>0, <2>1, <2>2, <2>4, <3>3 DEF OneServerPerFd, DescriptorInv, MapInv
    <3>7. sched.pc \in {"connect", "record"} => Server \in Addresses
      BY DEF CallInv, TypeOK, SchedState, Server
    <3> HIDE DEF f
    <3>8. DescriptorInv'
      BY <1>0, <2>1, <2>4, <3>3, <3>6, <3>7
      DEF DescriptorInv, MapInv, kernelVars, Server, f
    <3> QED
      BY <3>1, <3>2, <3>4, <3>5, <3>8 DEF MapInv
  <2> QED
    BY <1>1, <2>3, <2>4 DEF RemoveEntry
<1>2. ASSUME CloseFd
      PROVE  IInv'
  <2>1. /\ streamerPc = "close" /\ streamerPc' = "send" /\ sending # <<>>
        /\ sending' = Tail(sending)
        /\ peer' = [g \in Fds |-> IF g \in {f} THEN Closed ELSE peer[g]]
        /\ torn' = torn \ {f}
        /\ UNCHANGED <<queueVars, running, serverMap, lastSent, since, crossed, stale,
                       corrupt, sched, nextId, sendingId, mainPc, aborted>>
    BY <1>2 DEF CloseFd, CloseFds, CallInv
  <2>2. f \in Fds /\ Tail(sending) \in Seq(Target)
    BY <2>1, TargetType
  <2>3. TypeOK'
    BY <2>1, <2>2 DEF TypeOK, queueVars
  <2>4. CallInv' /\ StopInv' /\ OneServerPerFd'
    BY <2>1 DEF CallInv, StopInv, OneServerPerFd, MapInv, queueVars
  <2> HIDE DEF f
  <2>5. ConnectionsTracked'
    BY <1>0, <2>1 DEF ConnectionsTracked, MapInv, f
  <2>6. f # Stdin => /\ \A a \in Addresses : serverMap[a] # f
                     /\ sched.pc = "record" => sched.newFd # f
    BY <2>1 DEF DescriptorInv, MapInv, f
  <2>7. DescriptorInv'
    <3>1. \A g \in Fds : g # f => peer'[g] = peer[g]
      BY <2>1
    <3>2. sched.newFd \in Fds /\ \A a \in Addresses : serverMap[a] \in Fds \cup {NoFd}
      BY DEF TypeOK, SchedState
    <3> QED
      BY <2>1, <2>6, <3>1, <3>2 DEF DescriptorInv, MapInv, Server
  <2> QED
    BY <2>3, <2>4, <2>5, <2>7 DEF MapInv
<1>3. ASSUME CloseAll
      PROVE  IInv'
  <2>1. /\ streamerPc = "closing" /\ streamerPc' = "done"
        /\ peer' = [g \in Fds |-> IF g \in {serverMap[a] : a \in Addresses}
                                  THEN Closed ELSE peer[g]]
        /\ torn' = torn \ {serverMap[a] : a \in Addresses}
        /\ UNCHANGED <<queueVars, running, serverMap, lastSent, since, crossed, stale,
                       corrupt, sched, nextId, sending, sendingId, mainPc, aborted>>
    BY <1>3 DEF CloseAll, CloseFds
  <2>2. TypeOK'
    BY <2>1 DEF TypeOK, queueVars
  <2>3. CallInv' /\ StopInv' /\ OneServerPerFd'
    BY <2>1 DEF CallInv, StopInv, OneServerPerFd, MapInv, queueVars
  <2>4. sched.pc = "stopped"
    BY <2>1 DEF StopInv, MapInv
  <2>5. ConnectionsTracked'
    BY <1>0, <2>1, <2>4 DEF ConnectionsTracked, MapInv
  <2>6. DescriptorInv'
    BY <2>1, <2>4 DEF DescriptorInv
  <2> QED
    BY <2>2, <2>3, <2>5, <2>6 DEF MapInv
<1> QED
  BY <1>1, <1>2, <1>3

\* The main thread in Stop.
LEMMA StopKeeps ==
  ASSUME IInv
  PROVE  /\ SchedulerStopped => IInv'
         /\ StopClearsFlag \/ Join => IInv'
         /\ StopPushesDummy => IInv'
         /\ PushDummy => IInv'
<1> USE DEF IInv
<1>0. sched \in SchedState
  BY DEF TypeOK
<1>1. ASSUME SchedulerStopped
      PROVE  IInv'
  <2>1. /\ sched.pc = "idle" /\ sched' = [sched EXCEPT !.pc = "stopped"]
        /\ UNCHANGED <<queueVars, running, serverMap, kernelVars, nextId, streamVars,
                       mainPc, aborted>>
    BY <1>1 DEF SchedulerStopped
  <2>2. sched' \in SchedState /\ sched'.pc = "stopped"
    BY <1>0, <2>1 DEF SchedState
  <2>3. TypeOK'
    BY <2>1, <2>2 DEF TypeOK, queueVars, kernelVars, streamVars
  <2>4. CallInv' /\ StopInv'
    BY <2>1, <2>2 DEF CallInv, StopInv, MapInv, queueVars, streamVars
  <2>5. DescriptorInv' /\ OneServerPerFd' /\ ConnectionsTracked'
    BY <2>1, <2>2, MapUntouched DEF MapInv, kernelVars, streamVars
  <2> QED
    BY <2>3, <2>4, <2>5 DEF MapInv
<1>2. ASSUME StopClearsFlag \/ Join
      PROVE  IInv'
  <2>1. /\ \/ /\ mainPc = "running" /\ sched.pc = "stopped"
              /\ running' = FALSE /\ mainPc' = "flagged"
           \/ mainPc = "joining" /\ mainPc' = "stopped" /\ UNCHANGED running
        /\ UNCHANGED <<queueVars, serverMap, kernelVars, sched, nextId, streamVars,
                       aborted>>
    BY <1>2 DEF StopClearsFlag, Join
  <2>2. TypeOK'
    BY <2>1 DEF TypeOK, queueVars, kernelVars, streamVars
  <2>3. CallInv' /\ StopInv'
    BY <2>1 DEF CallInv, StopInv, MapInv, queueVars, streamVars
  <2>4. DescriptorInv' /\ OneServerPerFd' /\ ConnectionsTracked'
    BY <2>1, MapUntouched DEF MapInv, kernelVars, streamVars
  <2> QED
    BY <2>2, <2>3, <2>4 DEF MapInv
<1>3. ASSUME StopPushesDummy
      PROVE  IInv'
  <2>1. /\ mainPc = "flagged" /\ mainPc' = "pushing"
        /\ thread' = [thread EXCEPT ![Main] = "entering"]
        /\ arg' = [arg EXCEPT ![Main] = Dummy]
        /\ UNCHANGED <<queue, running, serverMap, kernelVars, sched, nextId, streamVars,
                       aborted>>
    BY <1>3 DEF StopPushesDummy, Q!CallPush
  <2>2. Dummy \in Item /\ Dummy # NoItem
    BY ItemTypes
  <2>3. TypeOK'
    BY <2>1, <2>2 DEF TypeOK, Q!ThreadState, kernelVars, streamVars
  <2>4. CallInv'
    BY <2>1, <2>2 DEF TypeOK, CallInv, streamVars, Scheduler, Main, StreamerThread
  <2>5. StopInv'
    BY <2>1 DEF StopInv, MapInv, streamVars
  <2>6. DescriptorInv' /\ OneServerPerFd' /\ ConnectionsTracked'
    BY <2>1, MapUntouched DEF MapInv, kernelVars, streamVars
  <2> QED
    BY <2>3, <2>4, <2>5, <2>6 DEF MapInv
<1>4. ASSUME PushDummy
      PROVE  IInv'
  <2>1. /\ Q!PushStep(Main)
        /\ mainPc' = IF thread'[Main] = "idle" THEN "joining" ELSE mainPc
        /\ UNCHANGED <<running, serverMap, kernelVars, sched, nextId, streamVars, aborted>>
    BY <1>4 DEF PushDummy
  <2>2. mainPc = "pushing"
    BY <2>1 DEF CallInv, Q!PushStep, Q!Runnable
  <2>3. /\ queue' \in Seq(Item) /\ Len(queue') <= Capacity
        /\ thread' \in [AllThreads -> Q!ThreadState]
        /\ arg' \in [{Scheduler, Main} -> Item \cup {NoItem}]
        /\ \A q \in {Scheduler, Main} : arg'[q] = NoItem <=> thread'[q] = "idle"
        /\ thread'[Scheduler] = "idle" <=> thread[Scheduler] = "idle"
        /\ thread'[StreamerThread] = "idle" <=> thread[StreamerThread] = "idle"
    BY <2>1, PushRound DEF AllThreads, Scheduler, Main, StreamerThread
  <2>4. TypeOK'
    BY <2>1, <2>2, <2>3 DEF TypeOK, AllThreads, kernelVars, streamVars
  <2>5. CallInv'
    BY <2>1, <2>2, <2>3 DEF CallInv, streamVars
  <2>6. StopInv'
    BY <2>1, <2>2 DEF StopInv, MapInv, streamVars
  <2>7. DescriptorInv' /\ OneServerPerFd' /\ ConnectionsTracked'
    BY <2>1, MapUntouched DEF MapInv, kernelVars, streamVars
  <2> QED
    BY <2>4, <2>5, <2>6, <2>7 DEF MapInv
<1> QED
  BY <1>1, <1>2, <1>3, <1>4

LEMMA InvStep == IInv /\ [Next]_vars => IInv'
<1> SUFFICES ASSUME IInv, [Next]_vars PROVE IInv'
  OBVIOUS
<1>1. ASSUME UNCHANGED vars PROVE IInv'
  <2>1. UNCHANGED <<queueVars, running, serverMap, kernelVars, sched, nextId, streamVars,
                    mainPc, aborted>>
    BY <1>1 DEF vars
  <2>2. TypeOK'
    BY <2>1 DEF IInv, TypeOK, queueVars, kernelVars, streamVars
  <2>3. CallInv' /\ StopInv'
    BY <2>1 DEF IInv, CallInv, StopInv, MapInv, queueVars, streamVars
  <2>4. DescriptorInv' /\ OneServerPerFd' /\ ConnectionsTracked'
    BY <2>1, MapUntouched DEF IInv, MapInv, kernelVars, streamVars
  <2> QED
    BY <2>2, <2>3, <2>4 DEF IInv, MapInv
<1>2. ASSUME Ended PROVE IInv'
  BY <1>1, <1>2 DEF Ended
<1>3. ASSUME SchedulerStep PROVE IInv'
  BY <1>3, SetupKeeps, StreamKeeps DEF SchedulerStep
<1>4. ASSUME StreamerStep PROVE IInv'
  BY <1>4, SendKeeps, CleanupKeeps DEF StreamerStep
<1>5. ASSUME MainStep PROVE IInv'
  BY <1>5, StopKeeps DEF MainStep
<1> QED
  BY <1>1, <1>2, <1>3, <1>4, <1>5, SetupKeeps, StreamKeeps, StopKeeps DEF Next

-----------------------------------------------------------------------------
\* The variables keep their types: the queue its bound, a message its targets,
\* and what is sent to is always a descriptor (Stream, _SendItem).
THEOREM TypeCorrect == Spec => []TypeOK
<1>1. IInv => TypeOK
  BY DEF IInv
<1> QED
  BY <1>1, InvInit, InvStep, PTL DEF Spec

\* For any number of servers and descriptors: no descriptor but 0 is ever
\* recorded for two servers, although SetupStream and _RemoveAndCleanupSockFd
\* share the map without a lock and the kernel hands closed descriptors out
\* again.
THEOREM DescriptorsApart == Spec => []OneServerPerFd
<1>1. IInv => OneServerPerFd
  BY DEF IInv, MapInv
<1> QED
  BY <1>1, InvInit, InvStep, PTL DEF Spec

\* For any number of servers and descriptors: an open connection is in the
\* map, on its way in or on its way out, and none is left when the streamer
\* thread has ended.
THEOREM NoConnectionLost == Spec => []ConnectionsTracked
<1>1. IInv => ConnectionsTracked
  BY DEF IInv, MapInv
<1> QED
  BY <1>1, InvInit, InvStep, PTL DEF Spec

-----------------------------------------------------------------------------
(* The order of messages.                                                  *)

\* The number of the next message to enter the queue.
NextPushed == IF sched.pc = "push" THEN nextId - 1 ELSE nextId

\* Messages enter the queue in the order of their numbers and leave it so; what
\* has been sent is no younger than what is being sent, and that than what is
\* queued.  The dummy, number 0, is sent to nobody.
OrderInv ==
  /\ \A i, j \in 1..Len(queue) :
       i < j /\ queue[j].id # 0 => queue[i].id < queue[j].id
  /\ \A i \in 1..Len(queue) :
       /\ queue[i].id < NextPushed
       /\ queue[i].id = 0 => queue[i].to = <<>>
       /\ queue[i].id # 0 => /\ sendingId < queue[i].id
                             /\ \A f \in Fds : lastSent[f] <= queue[i].id
  /\ sched.pc = "push" => arg[Scheduler].id = nextId - 1 /\ nextId - 1 # 0
  /\ mainPc = "pushing" => arg[Main] = Dummy
  /\ sendingId < NextPushed /\ NextPushed # 0
  /\ \A f \in Fds : lastSent[f] < NextPushed
  /\ sending # <<>> => sendingId # 0 /\ \A f \in Fds : lastSent[f] <= sendingId

\* The numbers OrderInv speaks of.
LEMMA Numbers ==
  ASSUME TypeOK
  PROVE  /\ Len(queue) \in Nat /\ nextId \in Nat \ {0} /\ sendingId \in Nat
         /\ \A i \in 1..Len(queue) :
              queue[i] \in Item /\ queue[i].id \in Nat /\ queue[i].to \in Seq(Target)
         /\ \A f \in Fds : lastSent[f] \in Nat /\ since[f] \in Nat
         /\ sched.pc = "push" => NextPushed = nextId - 1
         /\ sched.pc # "push" => NextPushed = nextId
<1>1. MaxItems \in Nat
  BY StreamerAssumption
<1>2. queue \in Seq(Item)
  BY DEF TypeOK
<1>3. Len(queue) \in Nat /\ \A i \in 1..Len(queue) : queue[i] \in Item
  BY <1>2, ElementOfSeq, LenProperties
<1>4. \A x \in Item : x.id \in Nat /\ x.to \in Seq(Target)
  BY <1>1, ItemTypes
<1> QED
  BY <1>1, <1>3, <1>4 DEF TypeOK, NextPushed

\* Steps that leave the messages in their places.
LEMMA OrderUntouched ==
  ASSUME TypeOK, OrderInv,
         UNCHANGED <<queue, sendingId, NextPushed>>,
         \A f \in Fds : lastSent'[f] <= lastSent[f] /\ lastSent'[f] \in Nat,
         sending' = sending \/ (sending' = Tail(sending) /\ sending # <<>>),
         sched'.pc = "push" => sched.pc = "push" /\ UNCHANGED <<arg, nextId>>,
         mainPc' = "pushing" => mainPc = "pushing" /\ UNCHANGED arg
  PROVE  OrderInv'
<1>1. sending' # <<>> => sending # <<>>
  OBVIOUS
<1>2. /\ sendingId \in Nat /\ NextPushed \in Nat
      /\ \A i \in 1..Len(queue) : queue[i].id \in Nat
      /\ \A f \in Fds : lastSent[f] \in Nat
  BY Numbers
<1>3. \A i, j \in 1..Len(queue') :
        i < j /\ queue'[j].id # 0 => queue'[i].id < queue'[j].id
  BY DEF OrderInv
<1>4. ASSUME NEW i \in 1..Len(queue')
      PROVE  /\ queue'[i].id < NextPushed'
             /\ queue'[i].id = 0 => queue'[i].to = <<>>
             /\ queue'[i].id # 0 => /\ sendingId' < queue'[i].id
                                    /\ \A f \in Fds : lastSent'[f] <= queue'[i].id
  BY <1>2 DEF OrderInv
<1>5. /\ sched'.pc = "push" => arg'[Scheduler].id = nextId' - 1 /\ nextId' - 1 # 0
      /\ mainPc' = "pushing" => arg'[Main] = Dummy
  BY DEF OrderInv
<1>6. /\ sendingId' < NextPushed' /\ NextPushed' # 0
      /\ \A f \in Fds : lastSent'[f] < NextPushed'
  BY <1>2 DEF OrderInv
<1>7. sending' # <<>> => sendingId' # 0 /\ \A f \in Fds : lastSent'[f] <= sendingId'
  BY <1>1, <1>2 DEF OrderInv
<1> QED
  BY <1>3, <1>4, <1>5, <1>6, <1>7 DEF OrderInv

\* A round of Push's loop by p waits, or appends the argument and returns.
LEMMA PushOutcome ==
  ASSUME TypeOK, CallInv, NEW p \in {Scheduler, Main}, Q!PushStep(p)
  PROVE  \/ thread'[p] = "waiting" /\ UNCHANGED <<queue, arg>>
         \/ /\ thread'[p] = "idle" /\ queue' = Append(queue, arg[p]) /\ arg[p] \in Item
            /\ arg' = [arg EXCEPT ![p] = NoItem]
<1>1. /\ thread \in [AllThreads -> Q!ThreadState]
      /\ thread[p] \in {"entering", "woken"} /\ p \in AllThreads
  BY DEF TypeOK, Q!PushStep, Q!Runnable, AllThreads
<1>2. CASE Q!IsFull(p)
  BY <1>1, <1>2 DEF Q!PushStep, Q!Wait
<1>3. CASE ~Q!IsFull(p)
  <2>1. Q!NotifyOneAndReturn(p)
    BY <1>3 DEF Q!PushStep
  <2>2. thread'[p] = "idle"
    BY <1>1, <2>1, Notified
  <2>3. arg[p] \in Item
    BY <1>1 DEF TypeOK, CallInv
  <2> QED
    BY <1>3, <2>2, <2>3 DEF Q!PushStep
<1> QED
  BY <1>2, <1>3

\* A round of Pop's loop waits, or takes the first item and returns.
LEMMA PopOutcome ==
  ASSUME TypeOK, Q!PopStep(StreamerThread)
  PROVE  \/ thread'[StreamerThread] # "idle" /\ UNCHANGED queue
         \/ /\ thread'[StreamerThread] = "idle"
            /\ queue # <<>> /\ queue' = Tail(queue)
<1>1. /\ thread \in [AllThreads -> Q!ThreadState] /\ StreamerThread \in AllThreads
      /\ thread[StreamerThread] \in {"entering", "woken"}
  BY DEF TypeOK, Q!PopStep, Q!Runnable, AllThreads
<1>2. CASE Q!IsEmpty(StreamerThread)
  BY <1>1, <1>2 DEF Q!PopStep, Q!Wait
<1>3. CASE ~Q!IsEmpty(StreamerThread)
  <2>1. Q!NotifyOneAndReturn(StreamerThread)
    BY <1>3 DEF Q!PopStep
  <2>2. thread'[StreamerThread] = "idle"
    BY <1>1, <2>1, Notified
  <2> QED
    BY <1>3, <2>2 DEF Q!PopStep, Q!IsEmpty
<1> QED
  BY <1>2, <1>3

\* What Push appends is younger than what is queued, or the dummy.
LEMMA OrderAfterPush ==
  ASSUME TypeOK, TypeOK', OrderInv, NEW x \in Item, queue' = Append(queue, x),
         \/ x.id = NextPushed /\ NextPushed' = NextPushed + 1
         \/ x = Dummy /\ NextPushed' = NextPushed,
         UNCHANGED <<sendingId, sending, lastSent>>,
         \/ sched'.pc # "push"
         \/ sched'.pc = sched.pc /\ UNCHANGED nextId /\ arg'[Scheduler] = arg[Scheduler],
         mainPc' # "pushing" \/ (mainPc' = mainPc /\ arg'[Main] = arg[Main])
  PROVE  OrderInv'
<1> DEFINE n == Len(queue)
<1>1. /\ n \in Nat /\ Len(queue') = n + 1
      /\ \A i \in 1..n : queue'[i] = queue[i]
      /\ queue'[n + 1] = x
  <2>1. queue \in Seq(Item)
    BY DEF TypeOK
  <2> QED
    BY <2>1, AppendProperties, LenProperties
<1>2. /\ sendingId \in Nat /\ NextPushed \in Nat
      /\ \A i \in 1..n : queue[i].id \in Nat
      /\ \A f \in Fds : lastSent[f] \in Nat
  BY Numbers
<1>3. /\ x.id = 0 => x.to = <<>>
      /\ x.id = 0 \/ x.id = NextPushed
      /\ x.id < NextPushed' /\ NextPushed <= NextPushed' /\ NextPushed' # 0
      /\ NextPushed' \in Nat
  BY <1>2 DEF OrderInv, Dummy
<1> HIDE DEF n
<1>4. \A i \in 1..(n + 1) : i \in 1..n \/ i = n + 1
  BY <1>1
<1>5. ASSUME NEW i \in 1..(n + 1), NEW j \in 1..(n + 1), i < j, queue'[j].id # 0
      PROVE  queue'[i].id < queue'[j].id
  <2>1. i \in 1..n
    BY <1>1, <1>5
  <2>2. CASE j \in 1..n
    BY <1>1, <1>5, <2>1, <2>2 DEF OrderInv, n
  <2>3. CASE j = n + 1
    BY <1>1, <1>3, <1>5, <2>1, <2>3 DEF OrderInv, n
  <2> QED
    BY <1>4, <2>2, <2>3
<1>6. ASSUME NEW i \in 1..(n + 1)
      PROVE  /\ queue'[i].id < NextPushed'
             /\ queue'[i].id = 0 => queue'[i].to = <<>>
             /\ queue'[i].id # 0 => /\ sendingId' < queue'[i].id
                                    /\ \A f \in Fds : lastSent'[f] <= queue'[i].id
  <2>1. CASE i \in 1..n
    <3>1. queue'[i] = queue[i] /\ queue[i].id < NextPushed
      BY <1>1, <2>1 DEF OrderInv, n
    <3>2. queue'[i].id < NextPushed'
      BY <1>2, <1>3, <2>1, <3>1
    <3> QED
      BY <2>1, <3>1, <3>2 DEF OrderInv, n
  <2>2. CASE i = n + 1
    BY <1>1, <1>2, <1>3, <2>2 DEF OrderInv
  <2> QED
    BY <1>4, <2>1, <2>2
<1>7. /\ sched'.pc = "push" => arg'[Scheduler].id = nextId' - 1 /\ nextId' - 1 # 0
      /\ mainPc' = "pushing" => arg'[Main] = Dummy
  BY DEF OrderInv
<1>8. /\ sendingId' < NextPushed' /\ NextPushed' # 0
      /\ \A f \in Fds : lastSent'[f] < NextPushed'
  BY <1>2, <1>3 DEF OrderInv
<1>9. sending' # <<>> => sendingId' # 0 /\ \A f \in Fds : lastSent'[f] <= sendingId'
  BY DEF OrderInv
<1> QED
  BY <1>1, <1>5, <1>6, <1>7, <1>8, <1>9 DEF OrderInv

\* What Pop takes is older than the rest and younger than what was sent.
LEMMA OrderAfterPop ==
  ASSUME TypeOK, OrderInv, queue # <<>>, queue' = Tail(queue),
         sending' = Q!Front.to, sendingId' = Q!Front.id,
         UNCHANGED <<sched, nextId, mainPc, arg, lastSent>>
  PROVE  OrderInv'
<1> DEFINE n == Len(queue)
<1>1. /\ n \in Nat \ {0} /\ Len(queue') = n - 1
      /\ \A i \in 1..(n - 1) : queue'[i] = queue[i + 1]
      /\ Q!Front = queue[1]
  <2>1. queue \in Seq(Item)
    BY DEF TypeOK
  <2>2. Q!Front = queue[1]
    BY <2>1 DEF Q!Front
  <2> QED
    BY <2>1, <2>2, HeadTailProperties, LenProperties, EmptySeq
<1>2. /\ NextPushed \in Nat /\ NextPushed' = NextPushed
      /\ \A i \in 1..n : queue[i].id \in Nat
      /\ \A f \in Fds : lastSent[f] \in Nat
  BY Numbers DEF NextPushed
<1> HIDE DEF n
<1>3. 1 \in 1..n /\ \A i \in 1..(n - 1) : i + 1 \in 1..n /\ 1 < i + 1
  BY <1>1
<1>4. ASSUME NEW i \in 1..(n - 1), NEW j \in 1..(n - 1), i < j, queue'[j].id # 0
      PROVE  queue'[i].id < queue'[j].id
  <2>1. i + 1 \in 1..n /\ j + 1 \in 1..n /\ i + 1 < j + 1
    BY <1>1, <1>4
  <2> QED
    BY <1>1, <1>4, <2>1 DEF OrderInv, n
<1>5. ASSUME NEW i \in 1..(n - 1)
      PROVE  /\ queue'[i].id < NextPushed'
             /\ queue'[i].id = 0 => queue'[i].to = <<>>
             /\ queue'[i].id # 0 => /\ sendingId' < queue'[i].id
                                    /\ \A f \in Fds : lastSent'[f] <= queue'[i].id
  BY <1>1, <1>2, <1>3 DEF OrderInv, n
<1>6. /\ sched'.pc = "push" => arg'[Scheduler].id = nextId' - 1 /\ nextId' - 1 # 0
      /\ mainPc' = "pushing" => arg'[Main] = Dummy
  BY DEF OrderInv
<1>7. /\ sendingId' < NextPushed' /\ NextPushed' # 0
      /\ \A f \in Fds : lastSent'[f] < NextPushed'
  BY <1>1, <1>2, <1>3 DEF OrderInv, n
<1>8. sending' # <<>> => sendingId' # 0 /\ \A f \in Fds : lastSent'[f] <= sendingId'
  BY <1>1, <1>3 DEF OrderInv, n
<1> QED
  BY <1>1, <1>4, <1>5, <1>6, <1>7, <1>8 DEF OrderInv

LEMMA OrderStep == IInv /\ IInv' /\ OrderInv /\ [Next]_vars => OrderInv'
<1> SUFFICES ASSUME IInv, IInv', OrderInv, [Next]_vars PROVE OrderInv'
  OBVIOUS
<1>0. TypeOK /\ TypeOK' /\ CallInv /\ sched \in SchedState
  BY DEF IInv, TypeOK
<1>1. \A f \in Fds : lastSent[f] \in Nat /\ lastSent[f] <= lastSent[f]
  BY <1>0, Numbers
<1> USE DEF queueVars, kernelVars, streamVars
<1>2. ASSUME UNCHANGED <<queue, arg, sched, nextId, sendingId, sending, mainPc, lastSent>>
      PROVE  OrderInv'
  BY <1>0, <1>1, <1>2, OrderUntouched DEF NextPushed
<1>3. ASSUME UNCHANGED <<queue, arg, nextId, sendingId, sending, mainPc, lastSent>>,
             sched.pc # "push", sched'.pc # "push"
      PROVE  OrderInv'
  BY <1>0, <1>1, <1>3, OrderUntouched DEF NextPushed
<1>4. CASE UNCHANGED vars \/ Ended
  BY <1>2, <1>4 DEF vars, Ended
<1>5. CASE SchedulerStopped \/ \E servers \in ServerLists : StartItem(servers)
  <2>1. sched'.pc # "push"
    BY <1>0, <1>5 DEF SchedulerStopped, StartItem, SchedState
  <2> QED
    BY <1>3, <1>5, <2>1 DEF SchedulerStopped, StartItem
<1>6. CASE LookUp \/ ReadEntry \/ ResolveFails \/ ConnectFails \/ RecordEntry
  <2>1. sched'.pc # "push"
    BY <1>0, <1>6 DEF LookUp, ReadEntry, ResolveFails, ConnectFails, RecordEntry,
                      Found, NotFound, SchedState
  <2> QED
    BY <1>3, <1>6, <2>1
    DEF LookUp, ReadEntry, ResolveFails, ConnectFails, RecordEntry
<1>7. CASE Connect
  <2>1. /\ UNCHANGED <<queue, arg, nextId, sendingId, sending, mainPc>>
        /\ sched.pc = "connect" /\ sched'.pc = "record"
        /\ \E fd \in Fds : lastSent' = [lastSent EXCEPT ![fd] = 0]
    BY <1>0, <1>7 DEF Connect, SchedState
  <2>2. \A f \in Fds : lastSent'[f] <= lastSent[f] /\ lastSent'[f] \in Nat
    BY <1>0, <1>1, <2>1 DEF TypeOK
  <2> QED
    BY <1>0, <2>1, <2>2, OrderUntouched DEF NextPushed
<1>8. CASE SocketFails
  BY <1>2, <1>8 DEF SocketFails
<1>9. CASE CallStream
  <2>1. /\ sched.pc = "lookup" /\ sched'.pc = "push" /\ nextId' = nextId + 1
        /\ arg' = [arg EXCEPT ![Scheduler] = [id |-> nextId, to |-> sched.to]]
        /\ UNCHANGED <<queue, sendingId, sending, mainPc, lastSent>>
    BY <1>0, <1>9 DEF CallStream, Q!CallPush, SchedState
  <2>2. nextId \in Nat \ {0}
    BY <1>0, Numbers
  <2>3. /\ NextPushed = nextId /\ NextPushed' = nextId
        /\ arg'[Scheduler].id = nextId' - 1 /\ nextId' - 1 # 0
        /\ arg'[Main] = arg[Main]
    BY <1>0, <2>1, <2>2 DEF NextPushed, TypeOK, Scheduler, Main
  <2> QED
    BY <1>1, <2>1, <2>3 DEF OrderInv
<1>10. CASE PushItem
  <2>1. /\ Q!PushStep(Scheduler)
        /\ sched' = IF thread'[Scheduler] = "idle"
                    THEN [sched EXCEPT !.pc = "idle"] ELSE sched
        /\ UNCHANGED <<nextId, sendingId, sending, mainPc, lastSent>>
        /\ sched.pc = "push"
    BY <1>0, <1>10 DEF PushItem, CallInv, Q!PushStep, Q!Runnable
  <2>2. CASE thread'[Scheduler] = "waiting" /\ UNCHANGED <<queue, arg>>
    BY <1>2, <2>1, <2>2
  <2>3. CASE /\ thread'[Scheduler] = "idle" /\ queue' = Append(queue, arg[Scheduler])
             /\ arg[Scheduler] \in Item /\ arg' = [arg EXCEPT ![Scheduler] = NoItem]
    <3>1. sched'.pc = "idle" /\ arg'[Main] = arg[Main]
      BY <1>0, <2>1, <2>3 DEF SchedState, TypeOK, Scheduler, Main
    <3>2. /\ arg[Scheduler].id = NextPushed
          /\ NextPushed' = NextPushed + 1
      BY <1>0, <2>1, <3>1, Numbers DEF OrderInv, NextPushed
    <3> QED
      BY <1>0, <2>1, <2>3, <3>1, <3>2, OrderAfterPush
  <2> QED
    BY <1>0, <2>1, <2>2, <2>3, PushOutcome
<1>11. CASE CallPop
  BY <1>2, <1>11 DEF CallPop, Q!CallPop
<1>12. CASE PopItem
  <2>1. /\ Q!PopStep(StreamerThread) /\ UNCHANGED <<arg, sched, nextId, mainPc, lastSent>>
        /\ IF thread'[StreamerThread] = "idle"
           THEN sending' = Q!Front.to /\ sendingId' = Q!Front.id
           ELSE UNCHANGED <<sending, sendingId>>
    BY <1>12 DEF PopItem, Q!PopStep
  <2> QED
    BY <1>0, <1>2, <2>1, PopOutcome, OrderAfterPop
<1>13. CASE CheckRunning \/ ItemSent \/ CloseAll
  BY <1>2, <1>13 DEF CheckRunning, ItemSent, CloseAll
<1>14. CASE SendAll
  <2>1. /\ sending # <<>> /\ sending' = Tail(sending)
        /\ lastSent' = [lastSent EXCEPT ![Head(sending).fd] = sendingId]
        /\ UNCHANGED <<queue, arg, sched, nextId, sendingId, mainPc>>
    BY <1>14 DEF SendAll
  <2>2. \A f \in Fds : lastSent'[f] \in {lastSent[f], sendingId}
    BY <1>0, <2>1 DEF TypeOK
  <2>3. sendingId \in Nat /\ \A i \in 1..Len(queue) : queue[i].id \in Nat
    BY <1>0, Numbers
  <2>4. \A i \in 1..Len(queue) : queue[i].id # 0 =>
          \A f \in Fds : lastSent'[f] <= queue[i].id
    BY <2>2, <2>3 DEF OrderInv
  <2>5. \A f \in Fds : lastSent'[f] < NextPushed
    BY <2>2 DEF OrderInv
  <2>6. sendingId # 0 /\ \A f \in Fds : lastSent'[f] <= sendingId
    BY <2>1, <2>2, <2>3 DEF OrderInv
  <2>7. NextPushed' = NextPushed
    BY <2>1 DEF NextPushed
  <2> QED
    BY <2>1, <2>4, <2>5, <2>6, <2>7 DEF OrderInv
<1>15. CASE SendFails
  BY <1>2, <1>15 DEF SendFails
<1>16. CASE RemoveEntry \/ CloseFd
  <2>1. /\ UNCHANGED <<queue, arg, sched, nextId, sendingId, mainPc, lastSent>>
        /\ sending' = sending \/ sending' = Tail(sending)
        /\ sending # <<>>
    BY <1>0, <1>16 DEF RemoveEntry, CloseFd, CallInv
  <2> QED
    BY <1>0, <1>1, <2>1, OrderUntouched DEF NextPushed
<1>17. CASE StopClearsFlag \/ Join
  <2>1. /\ UNCHANGED <<queue, arg, sched, nextId, sendingId, sending, lastSent>>
        /\ mainPc' # "pushing"
    BY <1>17 DEF StopClearsFlag, Join
  <2> QED
    BY <1>0, <1>1, <2>1, OrderUntouched DEF NextPushed
<1>18. CASE StopPushesDummy
  <2>1. /\ UNCHANGED <<queue, sched, nextId, sendingId, sending, lastSent>>
        /\ arg' = [arg EXCEPT ![Main] = Dummy]
    BY <1>18 DEF StopPushesDummy, Q!CallPush
  <2>2. arg'[Main] = Dummy /\ arg'[Scheduler] = arg[Scheduler] /\ NextPushed' = NextPushed
    BY <1>0, <2>1 DEF TypeOK, Scheduler, Main, NextPushed
  <2> QED
    BY <2>1, <2>2 DEF OrderInv
<1>19. CASE PushDummy
  <2>1. /\ Q!PushStep(Main)
        /\ mainPc' = IF thread'[Main] = "idle" THEN "joining" ELSE mainPc
        /\ UNCHANGED <<sched, nextId, sendingId, sending, lastSent>>
        /\ mainPc = "pushing" /\ NextPushed' = NextPushed
    BY <1>0, <1>19 DEF PushDummy, CallInv, Q!PushStep, Q!Runnable, NextPushed
  <2>2. CASE thread'[Main] = "waiting" /\ UNCHANGED <<queue, arg>>
    BY <1>2, <2>1, <2>2
  <2>3. CASE /\ thread'[Main] = "idle" /\ queue' = Append(queue, arg[Main])
             /\ arg[Main] \in Item /\ arg' = [arg EXCEPT ![Main] = NoItem]
    <3>1. mainPc' = "joining" /\ arg'[Scheduler] = arg[Scheduler] /\ arg[Main] = Dummy
      BY <1>0, <2>1, <2>3 DEF TypeOK, Scheduler, Main, OrderInv
    <3> QED
      BY <1>0, <2>1, <2>3, <3>1, OrderAfterPush
  <2> QED
    BY <1>0, <2>1, <2>2, <2>3, PushOutcome
<1>20. CASE SpuriousWakeup
  BY <1>2, <1>20 DEF SpuriousWakeup, Q!SpuriousWakeup
<1> QED
  BY <1>4, <1>5, <1>6, <1>7, <1>8, <1>9, <1>10, <1>11, <1>12, <1>13, <1>14, <1>15,
     <1>16, <1>17, <1>18, <1>19, <1>20
     DEF Next, SchedulerStep, StreamerStep, MainStep

LEMMA OrderInit == Init => OrderInv
<1> SUFFICES ASSUME Init PROVE OrderInv
  OBVIOUS
<1>1. Len(queue) = 0
  BY EmptySeq DEF Init, Q!Init
<1> QED
  BY <1>1 DEF Init, OrderInv, NextPushed

\* For any number of servers and descriptors, any capacity and any failures and
\* reconnections: what a connection carries, it carries in the order of the
\* samples (Stream, Push and Pop, _SendItem).
THEOREM ConnectionsInOrder == Spec => SentInOrder
<1>1. IInv /\ OrderInv /\ [Next]_vars =>
        [\A f \in Fds : peer'[f] = peer[f] /\ peer[f] \in Addresses =>
                          lastSent'[f] >= lastSent[f]]_vars
  <2> SUFFICES ASSUME IInv, OrderInv, Next, NEW f \in Fds,
                      peer'[f] = peer[f], peer[f] \in Addresses
               PROVE  lastSent'[f] >= lastSent[f]
    OBVIOUS
  <2>1. TypeOK /\ lastSent[f] \in Nat /\ sendingId \in Nat
    BY Numbers DEF IInv
  <2>2. lastSent'[f] = lastSent[f] => lastSent'[f] >= lastSent[f]
    BY <2>1
  <2> USE DEF kernelVars
  <2>3. CASE SendAll
    <3>1. sending # <<>> /\ lastSent' = [lastSent EXCEPT ![Head(sending).fd] = sendingId]
      BY <2>3 DEF SendAll
    <3>2. lastSent[f] <= sendingId
      BY <3>1 DEF OrderInv
    <3> QED
      BY <2>1, <3>1, <3>2 DEF TypeOK
  <2>4. CASE Connect
    <3>1. PICK fd \in Fds : peer[fd] = Closed /\ lastSent' = [lastSent EXCEPT ![fd] = 0]
      BY <2>4 DEF Connect
    <3>2. f # fd
      BY <3>1, StreamerAssumption
    <3> QED
      BY <2>1, <2>2, <3>1, <3>2 DEF TypeOK
  <2>5. CASE Ended \/ SpuriousWakeup \/ SchedulerStopped \/ StopClearsFlag \/ MainStep
             \/ \E servers \in ServerLists : StartItem(servers)
    BY <2>2, <2>5 DEF Ended, vars, SpuriousWakeup, SchedulerStopped, StopClearsFlag,
      MainStep, StopPushesDummy, PushDummy, Join, StartItem
  <2>6. CASE SchedulerStep /\ ~Connect
    BY <2>2, <2>6 DEF SchedulerStep, LookUp, ReadEntry, ResolveFails, ConnectFails,
      SocketFails, RecordEntry, CallStream, PushItem
  <2>7. CASE StreamerStep /\ ~SendAll
    BY <2>2, <2>7 DEF StreamerStep, CallPop, PopItem, CheckRunning, SendFails,
      RemoveEntry, CloseFd, ItemSent, CloseAll
  <2> QED
    BY <2>3, <2>4, <2>5, <2>6, <2>7 DEF Next
<1> QED
  BY <1>1, InvInit, InvStep, OrderInit, OrderStep, PTL DEF Spec, SentInOrder

-----------------------------------------------------------------------------
(* Torn connections.                                                       *)

\* As long as every message has gone where it was meant to, at most the
\* connection that is being cleaned up is torn, and it is as old as the message
\* that failed.
TornInv ==
  /\ sched.pc = "record" => since[sched.newFd] = nextId
  /\ ~crossed /\ ~stale =>
       /\ ~corrupt
       /\ \A f \in torn : /\ streamerPc \in {"cleanup", "close"}
                          /\ f = Head(sending).fd
                          /\ peer[f] \in Addresses
                          /\ since[f] <= sendingId

\* Steps of the scheduler thread and of main.
LEMMA TornUntouched ==
  ASSUME TornInv, UNCHANGED <<torn, crossed, stale, corrupt, streamerPc, sending, sendingId>>,
         \A f \in Fds : peer[f] # Closed => peer'[f] = peer[f] /\ since'[f] = since[f],
         torn \subseteq Fds,
         sched'.pc = "record" => since'[sched'.newFd] = nextId'
  PROVE  TornInv'
<1>1. Closed \notin Addresses
  BY StreamerAssumption
<1> QED
  BY <1>1 DEF TornInv

\* Steps of the streamer thread outside of _SendItem.
LEMMA NothingTorn ==
  ASSUME TornInv, streamerPc \notin {"cleanup", "close"},
         UNCHANGED <<crossed, stale, corrupt, sched, since, nextId>>,
         torn' \subseteq torn
  PROVE  TornInv'
BY DEF TornInv

LEMMA TornStep == IInv /\ IInv' /\ OrderInv /\ TornInv /\ [Next]_vars => TornInv'
<1> SUFFICES ASSUME IInv, IInv', OrderInv, TornInv, [Next]_vars PROVE TornInv'
  OBVIOUS
<1>0. TypeOK /\ TypeOK' /\ CallInv /\ sched \in SchedState /\ torn \subseteq Fds
  BY DEF IInv, TypeOK
<1> USE DEF queueVars, kernelVars, streamVars
<1>1. ASSUME UNCHANGED <<kernelVars, streamVars, nextId>>, sched' = sched \/ sched'.pc # "record"
      PROVE  TornInv'
  BY <1>0, <1>1, TornUntouched DEF TornInv
<1>2. CASE UNCHANGED vars \/ Ended
  BY <1>1, <1>2 DEF vars, Ended
<1>3. CASE SchedulerStopped \/ \E servers \in ServerLists : StartItem(servers)
  <2>1. sched'.pc # "record"
    BY <1>0, <1>3 DEF SchedulerStopped, StartItem, SchedState
  <2> QED
    BY <1>1, <1>3, <2>1 DEF SchedulerStopped, StartItem
<1>4. CASE LookUp \/ ReadEntry \/ ResolveFails \/ RecordEntry
  <2>1. sched'.pc # "record"
    BY <1>0, <1>4 DEF LookUp, ReadEntry, ResolveFails, RecordEntry, Found, NotFound,
                      SchedState
  <2> QED
    BY <1>1, <1>4, <2>1 DEF LookUp, ReadEntry, ResolveFails, RecordEntry
<1>5. CASE ConnectFails
  <2>1. sched'.pc # "record"
    BY <1>0, <1>5 DEF ConnectFails, NotFound, SchedState
  <2>2. \A f \in Fds : peer[f] # Closed => peer'[f] = peer[f] /\ since'[f] = since[f]
    BY <1>0, <1>5 DEF ConnectFails, TypeOK
  <2> QED
    BY <1>0, <1>5, <2>1, <2>2, TornUntouched DEF ConnectFails
<1>6. CASE Connect
  <2>1. PICK fd \in Fds : /\ peer[fd] = Closed
                          /\ peer' = [peer EXCEPT ![fd] = Server]
                          /\ since' = [since EXCEPT ![fd] = nextId]
                          /\ sched' = [sched EXCEPT !.pc = "record", !.newFd = fd]
    BY <1>6 DEF Connect
  <2>2. sched'.newFd = fd /\ since'[fd] = nextId
    BY <1>0, <2>1 DEF SchedState, TypeOK
  <2>3. \A f \in Fds : peer[f] # Closed => peer'[f] = peer[f] /\ since'[f] = since[f]
    BY <1>0, <2>1 DEF TypeOK
  <2> QED
    BY <1>0, <1>6, <2>2, <2>3, TornUntouched DEF Connect
<1>7. CASE SocketFails
  BY <1>1, <1>7 DEF SocketFails
<1>8. CASE CallStream
  <2>1. sched'.pc = "push" /\ UNCHANGED <<kernelVars, streamVars>>
    BY <1>0, <1>8 DEF CallStream, SchedState
  <2> QED
    BY <1>0, <2>1, TornUntouched
<1>9. CASE PushItem
  <2>1. sched' = sched \/ sched'.pc # "record"
    BY <1>0, <1>9 DEF PushItem, SchedState
  <2> QED
    BY <1>1, <1>9, <2>1 DEF PushItem
<1>10. CASE CallPop \/ CheckRunning \/ ItemSent
  BY <1>10, NothingTorn DEF CallPop, CheckRunning, ItemSent
<1>11. CASE PopItem
  <2>1. streamerPc = "pop"
    BY <1>0, <1>11 DEF PopItem, CallInv, Q!PopStep, Q!Runnable
  <2> QED
    BY <1>11, <2>1, NothingTorn DEF PopItem
<1>12. CASE CloseAll
  BY <1>12, NothingTorn DEF CloseAll, CloseFds
<1>13. CASE SendAll
  <2>1. /\ streamerPc = "send"
        /\ crossed => crossed'
        /\ stale => stale'
        /\ corrupt' => corrupt \/ Head(sending).fd \in torn
        /\ UNCHANGED <<torn, sched, since, nextId>>
    BY <1>13, Zenon DEF SendAll, BytesSentOn
  <2> QED
    BY <2>1 DEF TornInv
<1>14. CASE SendFails
  <2> DEFINE fd == Head(sending).fd
  <2>1. /\ streamerPc = "send" /\ streamerPc' = "cleanup"
        /\ UNCHANGED <<sched, since, nextId, peer, sending, sendingId>>
    BY <1>14 DEF SendFails
  <2>2. CASE UNCHANGED kernelVars
    BY <2>1, <2>2 DEF TornInv
  <2>3. CASE /\ peer[fd] \in Addresses /\ BytesSentOn(fd)
             /\ torn' = torn \cup {fd}
    <3>1. /\ crossed => crossed'
          /\ stale => stale'
          /\ sendingId < since[fd] => stale'
          /\ corrupt' => corrupt \/ fd \in torn
      BY <2>3, Zenon DEF BytesSentOn
    <3>2. sending # <<>>
      BY <1>14 DEF SendFails
    <3>3. sendingId \in Nat /\ since[fd] \in Nat
      BY <1>0, <3>2, Numbers, TargetType
    <3>4. ~stale' => since[fd] <= sendingId
      BY <3>1, <3>3
    <3>5. ~crossed' /\ ~stale' => ~corrupt' /\ torn = {}
      BY <2>1, <3>1 DEF TornInv
    <3> HIDE DEF fd
    <3> QED
      BY <2>1, <2>3, <3>4, <3>5 DEF TornInv, fd
  <2> QED
    BY <1>14, <2>2, <2>3 DEF SendFails
<1>15. CASE RemoveEntry
  <2>1. /\ streamerPc = "cleanup"
        /\ UNCHANGED <<kernelVars, sched, nextId, sendingId>>
    BY <1>15 DEF RemoveEntry
  <2>2. CASE streamerPc' = "close" /\ UNCHANGED sending
    BY <2>1, <2>2 DEF TornInv
  <2>3. CASE \A a \in Addresses : serverMap[a] # Head(sending).fd
    <3>1. ASSUME NEW f \in torn, ~crossed, ~stale PROVE FALSE
      <4>1. f = Head(sending).fd /\ peer[f] \in Addresses /\ since[f] <= sendingId
        BY <3>1 DEF TornInv
      <4>2. sched.pc = "record" /\ sched.newFd = f
        BY <1>0, <2>1, <2>3, <4>1 DEF IInv, MapInv, ConnectionsTracked
      <4>3. since[f] = nextId
        BY <4>2 DEF TornInv
      <4>4. sendingId < nextId /\ sendingId \in Nat /\ nextId \in Nat
        BY <1>0, <4>2, Numbers DEF OrderInv
      <4> QED
        BY <4>1, <4>3, <4>4
    <3> QED
      BY <2>1, <3>1 DEF TornInv
  <2> QED
    BY <1>15, <2>2, <2>3 DEF RemoveEntry
<1>16. CASE CloseFd
  BY <1>16 DEF CloseFd, CloseFds, TornInv
<1>17. CASE StopClearsFlag \/ MainStep
  BY <1>1, <1>17 DEF StopClearsFlag, MainStep, StopPushesDummy, PushDummy, Join
<1>18. CASE SpuriousWakeup
  BY <1>1, <1>18 DEF SpuriousWakeup
<1> QED
  BY <1>2, <1>3, <1>4, <1>5, <1>6, <1>7, <1>8, <1>9, <1>10, <1>11, <1>12, <1>13,
     <1>14, <1>15, <1>16, <1>17, <1>18
     DEF Next, SchedulerStep, StreamerStep

\* For any number of servers, descriptors and messages: a connection on which a
\* message was cut short is closed before anything more is sent on it, unless a
\* queued descriptor has come to name another connection.
THEOREM FramingIsKept == Spec => []FramingKept
<1>1. Init => TornInv
  BY DEF Init, TornInv
<1>2. TornInv => FramingKept
  BY DEF TornInv, FramingKept
<1> QED
  BY <1>1, <1>2, InvInit, InvStep, OrderInit, OrderStep, TornStep, PTL DEF Spec
=============================================================================
