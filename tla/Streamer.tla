------------------------------ MODULE Streamer ------------------------------
(***************************************************************************)
(* daemon/Streamer.cpp with the two threads that feed it: the scheduler    *)
(* thread, whose timer callback resolves the servers of a sample to file   *)
(* descriptors and queues the message, and the main thread, whose Stop     *)
(* ends the streamer thread with a dummy item.                             *)
(*                                                                         *)
(* The queue is module Queue.  _serverMap is shared without a lock: each   *)
(* of its operations is one step here.  The kernel's descriptor table is   *)
(* part of the state because descriptors are the program's only names for  *)
(* connections, and the kernel hands a closed one out again.               *)
(***************************************************************************)
EXTENDS Naturals, Sequences, FiniteSets

CONSTANTS
  Addresses,    \* servers that collectors name
  Fds,          \* descriptors the process may hold
  Stdin,        \* descriptor 0, what operator[] inserts for a missing key
  NoFd,         \* no entry in _serverMap
  Closed,       \* a descriptor the kernel may hand out
  Unconnected,  \* an open descriptor that is no connection
  ServerLists,  \* the ctx->servers of the collectors, sequences of addresses
  Capacity,     \* of the queue
  MaxItems      \* bound: timer callbacks that get as far as their servers

ASSUME StreamerAssumption ==
  /\ Stdin \in Fds
  /\ NoFd \notin Fds
  /\ Closed # Unconnected /\ {Closed, Unconnected} \cap Addresses = {}
  /\ ServerLists \subseteq Seq(Addresses)
  /\ Capacity \in Nat
  /\ MaxItems \in Nat

Scheduler == "scheduler"
Main == "main"
StreamerThread == "streamer"

VARIABLES
  queue, thread, arg,  \* of module Queue
  running,     \* _running
  serverMap,   \* _serverMap: [Addresses -> Fds or NoFd]
  peer,        \* kernel: [Fds -> the server connected to, Closed, Unconnected]
  sched,       \* the timer callback being run, see SchedState
  nextId,      \* number of the next message
  sending,     \* what _SendItem has left: a sequence of targets
  sendingId,   \* the message it sends
  streamerPc,  \* where _StreamForever is
  mainPc,      \* where the main thread is in Streamer::Stop
  torn,        \* history: connections on which a message was cut short
  lastSent,    \* history: [Fds -> the last message sent on the connection]
  since,       \* history: [Fds -> the message the connection was made for]
  crossed,     \* history: a message reached a server it was not meant for
  stale,       \* history: ... or a connection younger than itself
  corrupt,     \* history: bytes were sent on a torn connection
  aborted      \* LOG(FATAL) has ended the process

queueVars  == <<queue, thread, arg>>
kernelVars == <<peer, torn, lastSent, since, crossed, stale, corrupt>>
streamVars == <<sending, sendingId, streamerPc>>
vars == <<queueVars, running, serverMap, kernelVars, sched, nextId, streamVars,
          mainPc, aborted>>

\* A descriptor in serversSockFd, with the server it was looked up for.
Target == [fd : Fds, server : Addresses]
\* StreamItem; the dummy of Stop has no targets.
Item == [id : 0..MaxItems, to : Seq(Target)]
Dummy == [id |-> 0, to |-> <<>>]
NoItem == [id |-> MaxItems + 1, to |-> <<>>]

Q == INSTANCE Queue WITH
       Producers <- {Scheduler, Main},
       Consumers <- {StreamerThread},
       Items <- Item,
       clearedUnderProducer <- FALSE

\* pc idle: between callbacks; lookup: at SetupStream's count; read: at its
\* operator[]; connect: resolving and connecting; record: connected, not yet
\* in the map; push: in Stream; stopped: the scheduler thread has been joined.
SchedState ==
  [pc : {"idle", "lookup", "read", "connect", "record", "push", "stopped"},
   todo : Seq(Addresses),  \* servers not yet looked up
   to : Seq(Target),       \* item.serversSockFd
   newFd : Fds]            \* the descriptor SetupStream is about to record

Init ==
  /\ Q!Init
  /\ running = TRUE
  /\ serverMap = [a \in Addresses |-> NoFd]
  /\ peer = [f \in Fds |-> IF f = Stdin THEN Unconnected ELSE Closed]
  /\ sched = [pc |-> "idle", todo |-> <<>>, to |-> <<>>, newFd |-> Stdin]
  /\ nextId = 1
  /\ sending = <<>> /\ sendingId = 0 /\ streamerPc = "loop"
  /\ mainPc = "running"
  /\ torn = {}
  /\ lastSent = [f \in Fds |-> 0]
  /\ since = [f \in Fds |-> 0]
  /\ crossed = FALSE /\ stale = FALSE /\ corrupt = FALSE /\ aborted = FALSE

-----------------------------------------------------------------------------
(* The scheduler thread: from the sample to the queue.                     *)

\* The callback has a sample for the collector's servers.
StartItem(servers) ==
  /\ sched.pc = "idle"
  /\ nextId <= MaxItems
  /\ sched' = [sched EXCEPT !.pc = "lookup", !.todo = servers, !.to = <<>>]
  /\ UNCHANGED <<queueVars, running, serverMap, kernelVars, nextId, streamVars,
                 mainPc, aborted>>

Server == Head(sched.todo)

\* SetupStream returns a descriptor, or -1, for the current server.
Found(fd) ==
  sched' = [sched EXCEPT !.pc = "lookup", !.todo = Tail(@),
                         !.to = Append(@, [fd |-> fd, server |-> Server])]
NotFound == sched' = [sched EXCEPT !.pc = "lookup", !.todo = Tail(@)]

\* _serverMap->count(serverAddress) > 0
LookUp ==
  /\ sched.pc = "lookup" /\ sched.todo # <<>>
  /\ sched' = [sched EXCEPT !.pc = IF serverMap[Server] = NoFd THEN "connect" ELSE "read"]
  /\ UNCHANGED <<queueVars, running, serverMap, kernelVars, nextId, streamVars,
                 mainPc, aborted>>

\* (*_serverMap)[serverAddress]: inserts 0 if the entry went away since.
ReadEntry ==
  LET fd == IF serverMap[Server] = NoFd THEN Stdin ELSE serverMap[Server]
  IN  /\ sched.pc = "read"
      /\ serverMap' = [serverMap EXCEPT ![Server] = fd]
      /\ Found(fd)
      /\ UNCHANGED <<queueVars, running, kernelVars, nextId, streamVars,
                     mainPc, aborted>>

\* Neither way to resolve the host name gives an address.
ResolveFails ==
  /\ sched.pc = "connect"
  /\ NotFound
  /\ UNCHANGED <<queueVars, running, serverMap, kernelVars, nextId, streamVars,
                 mainPc, aborted>>

\* connect() fails; the socket stays open.
ConnectFails ==
  /\ sched.pc = "connect"
  /\ \E fd \in Fds :
       /\ peer[fd] = Closed
       /\ peer' = [peer EXCEPT ![fd] = Unconnected]
  /\ NotFound
  /\ UNCHANGED <<queueVars, running, serverMap, torn, lastSent, since, crossed, stale,
                 corrupt, nextId, streamVars, mainPc, aborted>>

Connect ==
  /\ sched.pc = "connect"
  /\ \E fd \in Fds :
       /\ peer[fd] = Closed
       /\ peer' = [peer EXCEPT ![fd] = Server]
       /\ lastSent' = [lastSent EXCEPT ![fd] = 0]
       /\ since' = [since EXCEPT ![fd] = nextId]
       /\ sched' = [sched EXCEPT !.pc = "record", !.newFd = fd]
  /\ UNCHANGED <<queueVars, running, serverMap, torn, crossed, stale, corrupt, nextId,
                 streamVars, mainPc, aborted>>

\* socket() has no descriptor to give: LOG(FATAL).
SocketFails ==
  /\ sched.pc = "connect"
  /\ \A fd \in Fds : peer[fd] # Closed
  /\ aborted' = TRUE
  /\ UNCHANGED <<queueVars, running, serverMap, kernelVars, sched, nextId,
                 streamVars, mainPc>>

\* (*_serverMap)[serverAddress] = fd
RecordEntry ==
  /\ sched.pc = "record"
  /\ serverMap' = [serverMap EXCEPT ![Server] = sched.newFd]
  /\ Found(sched.newFd)
  /\ UNCHANGED <<queueVars, running, kernelVars, nextId, streamVars, mainPc, aborted>>

\* Stream(item), also when no server was found.
CallStream ==
  /\ sched.pc = "lookup" /\ sched.todo = <<>>
  /\ Q!CallPush(Scheduler, [id |-> nextId, to |-> sched.to])
  /\ sched' = [sched EXCEPT !.pc = "push"]
  /\ nextId' = nextId + 1
  /\ UNCHANGED <<running, serverMap, kernelVars, streamVars, mainPc, aborted>>

PushItem ==
  /\ Q!PushStep(Scheduler)
  /\ sched' = IF thread'[Scheduler] = "idle"
              THEN [sched EXCEPT !.pc = "idle"] ELSE sched
  /\ UNCHANGED <<running, serverMap, kernelVars, nextId, streamVars, mainPc, aborted>>

-----------------------------------------------------------------------------
(* The streamer thread.                                                    *)

CallPop ==
  /\ streamerPc = "loop"
  /\ Q!CallPop(StreamerThread)
  /\ streamerPc' = "pop"
  /\ UNCHANGED <<running, serverMap, kernelVars, sched, nextId, sending, sendingId,
                 mainPc, aborted>>

PopItem ==
  /\ Q!PopStep(StreamerThread)
  /\ IF thread'[StreamerThread] = "idle"
     THEN /\ streamerPc' = "popped"
          /\ sending' = Q!Front.to
          /\ sendingId' = Q!Front.id
     ELSE UNCHANGED streamVars
  /\ UNCHANGED <<running, serverMap, kernelVars, sched, nextId, mainPc, aborted>>

\* if (_running == false) break;
CheckRunning ==
  /\ streamerPc = "popped"
  /\ streamerPc' = IF running THEN "send" ELSE "closing"
  /\ UNCHANGED <<queueVars, running, serverMap, kernelVars, sched, nextId, sending,
                 sendingId, mainPc, aborted>>

\* What a send() of n > 0 bytes on fd does to the history.
BytesSentOn(fd) ==
  /\ crossed' = (crossed \/ peer[fd] # Head(sending).server)
  /\ stale' = (stale \/ sendingId < since[fd])
  /\ corrupt' = (corrupt \/ fd \in torn)

\* _SendAll returns messageLength.
SendAll ==
  /\ streamerPc = "send" /\ sending # <<>>
  /\ LET fd == Head(sending).fd
     IN  /\ peer[fd] \in Addresses
         /\ BytesSentOn(fd)
         /\ lastSent' = [lastSent EXCEPT ![fd] = sendingId]
  /\ sending' = Tail(sending)
  /\ UNCHANGED <<queueVars, running, serverMap, peer, torn, since, sched, nextId, sendingId,
                 streamerPc, mainPc, aborted>>

\* Mutant: _SendItem goes on to the next server without the cleanup.
SendFailsNoCleanup ==
  /\ streamerPc = "send" /\ sending # <<>>
  /\ LET fd == Head(sending).fd
     IN  \/ UNCHANGED kernelVars
         \/ /\ peer[fd] \in Addresses
            /\ BytesSentOn(fd)
            /\ torn' = torn \cup {fd}
            /\ UNCHANGED <<peer, lastSent, since>>
  /\ sending' = Tail(sending)
  /\ UNCHANGED <<queueVars, running, serverMap, sched, nextId, sendingId,
                 streamerPc, mainPc, aborted>>

\* send() fails at once, or after part of the message; _SendItem then calls
\* _RemoveAndCleanupSockFd.  On what is not a connection it always fails.
SendFails ==
  /\ streamerPc = "send" /\ sending # <<>>
  /\ LET fd == Head(sending).fd
     IN  \/ UNCHANGED kernelVars
         \/ /\ peer[fd] \in Addresses
            /\ BytesSentOn(fd)
            /\ torn' = torn \cup {fd}
            /\ UNCHANGED <<peer, lastSent, since>>
  /\ streamerPc' = "cleanup"
  /\ UNCHANGED <<queueVars, running, serverMap, sched, nextId, sending, sendingId,
                 mainPc, aborted>>

\* Mutant: the descriptor is closed and its entry left.
RemoveEntryNot ==
  /\ streamerPc = "cleanup"
  /\ streamerPc' = "close"
  /\ UNCHANGED <<queueVars, running, serverMap, kernelVars, sched, nextId, sending,
                 sendingId, mainPc, aborted>>

\* _RemoveAndCleanupSockFd: the entry with the failed descriptor goes, if the
\* map has one, and then the descriptor is closed.
RemoveEntry ==
  /\ streamerPc = "cleanup"
  /\ \/ \E a \in Addresses :
          /\ serverMap[a] = Head(sending).fd
          /\ serverMap' = [serverMap EXCEPT ![a] = NoFd]
          /\ streamerPc' = "close"
          /\ UNCHANGED sending
     \/ /\ \A a \in Addresses : serverMap[a] # Head(sending).fd
        /\ streamerPc' = "send"
        /\ sending' = Tail(sending)
        /\ UNCHANGED serverMap
  /\ UNCHANGED <<queueVars, running, kernelVars, sched, nextId, sendingId, mainPc,
                 aborted>>

\* Mutant: the descriptor is not closed.
CloseFdsNot(S) == UNCHANGED <<peer, torn>>

\* close() of the descriptors in S.
CloseFds(S) ==
  /\ peer' = [f \in Fds |-> IF f \in S THEN Closed ELSE peer[f]]
  /\ torn' = torn \ S

CloseFd ==
  /\ streamerPc = "close"
  /\ CloseFds({Head(sending).fd})
  /\ streamerPc' = "send"
  /\ sending' = Tail(sending)
  /\ UNCHANGED <<queueVars, running, serverMap, lastSent, since, crossed, stale, corrupt,
                 sched, nextId, sendingId, mainPc, aborted>>

\* _SendItem returns and the item is deleted.
ItemSent ==
  /\ streamerPc = "send" /\ sending = <<>>
  /\ streamerPc' = "loop"
  /\ UNCHANGED <<queueVars, running, serverMap, kernelVars, sched, nextId, sending,
                 sendingId, mainPc, aborted>>

\* After the loop: every descriptor in the map is closed.
CloseAll ==
  /\ streamerPc = "closing"
  /\ CloseFds({serverMap[a] : a \in Addresses})
  /\ streamerPc' = "done"
  /\ UNCHANGED <<queueVars, running, serverMap, lastSent, since, crossed, stale, corrupt,
                 sched, nextId, sending, sendingId, mainPc, aborted>>

-----------------------------------------------------------------------------
(* The main thread.                                                        *)

\* Scheduler::Stop has joined the scheduler thread (daemon/Main.cpp stops the
\* scheduler before the streamer).
SchedulerStopped ==
  /\ sched.pc = "idle"
  /\ sched' = [sched EXCEPT !.pc = "stopped"]
  /\ UNCHANGED <<queueVars, running, serverMap, kernelVars, nextId, streamVars,
                 mainPc, aborted>>

\* Streamer::Stop: clear the flag, push the dummy, join.
StopClearsFlag ==
  /\ mainPc = "running" /\ sched.pc = "stopped"
  /\ running' = FALSE
  /\ mainPc' = "flagged"
  /\ UNCHANGED <<queueVars, serverMap, kernelVars, sched, nextId, streamVars, aborted>>

\* Mutant: Stop relies on the flag alone.
StopPushesNothing ==
  /\ mainPc = "flagged"
  /\ mainPc' = "joining"
  /\ UNCHANGED <<queueVars, running, serverMap, kernelVars, sched, nextId, streamVars,
                 aborted>>

StopPushesDummy ==
  /\ mainPc = "flagged"
  /\ Q!CallPush(Main, Dummy)
  /\ mainPc' = "pushing"
  /\ UNCHANGED <<running, serverMap, kernelVars, sched, nextId, streamVars, aborted>>

PushDummy ==
  /\ Q!PushStep(Main)
  /\ mainPc' = IF thread'[Main] = "idle" THEN "joining" ELSE mainPc
  /\ UNCHANGED <<running, serverMap, kernelVars, sched, nextId, streamVars, aborted>>

Join ==
  /\ mainPc = "joining" /\ streamerPc = "done"
  /\ mainPc' = "stopped"
  /\ UNCHANGED <<queueVars, running, serverMap, kernelVars, sched, nextId, streamVars,
                 aborted>>

SpuriousWakeup ==
  /\ \E t \in {Scheduler, Main, StreamerThread} : Q!SpuriousWakeup(t)
  /\ UNCHANGED <<running, serverMap, kernelVars, sched, nextId, streamVars, mainPc,
                 aborted>>

-----------------------------------------------------------------------------
\* What the threads do once they are in a call.
SchedulerStep ==
  \/ LookUp \/ ReadEntry \/ ResolveFails \/ ConnectFails \/ Connect
  \/ SocketFails \/ RecordEntry \/ CallStream \/ PushItem

StreamerStep ==
  \/ CallPop \/ PopItem \/ CheckRunning \/ SendAll \/ SendFails
  \/ RemoveEntry \/ CloseFd \/ ItemSent \/ CloseAll

MainStep == StopPushesDummy \/ PushDummy \/ Join

\* The process has ended; nothing more happens.
Ended == (mainPc = "stopped" \/ aborted) /\ UNCHANGED vars

Next ==
  \/ /\ ~aborted
     /\ \/ \E servers \in ServerLists : StartItem(servers)
        \/ SchedulerStep
        \/ StreamerStep
        \/ SchedulerStopped
        \/ StopClearsFlag
        \/ MainStep
        \/ SpuriousWakeup
  \/ Ended

\* Every thread runs; samples and the termination signal may never come.  A
\* send() ends, with or without an error: it does not block for ever.
Fairness ==
  /\ WF_vars(~aborted /\ SchedulerStep)
  /\ WF_vars(~aborted /\ StreamerStep)
  /\ WF_vars(~aborted /\ MainStep)

Spec == Init /\ [][Next]_vars
FairSpec == Spec /\ Fairness

-----------------------------------------------------------------------------
TypeOK ==
  /\ queue \in Seq(Item) /\ Len(queue) <= Capacity
  /\ thread \in [{Scheduler, Main, StreamerThread} -> Q!ThreadState]
  /\ arg \in [{Scheduler, Main} -> Item \cup {NoItem}]
  /\ running \in BOOLEAN /\ aborted \in BOOLEAN
  /\ crossed \in BOOLEAN /\ stale \in BOOLEAN /\ corrupt \in BOOLEAN
  /\ serverMap \in [Addresses -> Fds \cup {NoFd}]
  /\ peer \in [Fds -> Addresses \cup {Closed, Unconnected}]
  /\ sched \in SchedState
  /\ nextId \in 1..(MaxItems + 1)
  /\ sending \in Seq(Target) /\ sendingId \in 0..MaxItems
  /\ streamerPc \in {"loop", "pop", "popped", "send", "cleanup", "close",
                     "closing", "done"}
  /\ mainPc \in {"running", "flagged", "pushing", "joining", "stopped"}
  /\ torn \subseteq Fds
  /\ lastSent \in [Fds -> 0..MaxItems] /\ since \in [Fds -> 0..MaxItems]

\* SetupStream and _RemoveAndCleanupSockFd race on the map and on the kernel's
\* descriptors, yet no descriptor is ever recorded for two servers: the entry
\* goes before the descriptor is closed.  (0 is what the race in SetupStream
\* inserts, for any number of servers.)
OneServerPerFd ==
  \A a, b \in Addresses :
    serverMap[a] = serverMap[b] /\ a # b => serverMap[a] \in {NoFd, Stdin}

\* No connection is lost track of: whatever _RemoveAndCleanupSockFd removes
\* while SetupStream connects, an open connection is in the map, on its way in
\* (SetupStream) or on its way out (being closed), and none outlives the
\* streamer thread.
ConnectionsTracked ==
  \A f \in Fds :
    peer[f] \in Addresses =>
      /\ streamerPc # "done"
      /\ \/ \E a \in Addresses : serverMap[a] = f
         \/ sched.pc = "record" /\ sched.newFd = f
         \/ streamerPc = "close" /\ Head(sending).fd = f

\* Messages are length-prefixed, so a connection on which _SendAll stopped
\* half-way must not be written again.  _RemoveAndCleanupSockFd sees to that
\* except when a queued descriptor has come to name another connection: that
\* one may not be in the map yet, and stays torn when it is recorded.
FramingKept == corrupt => crossed \/ stale

\* One connection carries messages in the order they were sampled in, however
\* the queue, failures and reconnects interleave.
SentInOrder ==
  [][\A f \in Fds : peer'[f] = peer[f] /\ peer[f] \in Addresses =>
                       lastSent'[f] >= lastSent[f]]_vars

\* Streamer::Stop ends the thread with the flag and the dummy item, as its
\* comment says (Streamer.cpp:40-43), and returns.
StopReturns == mainPc = "flagged" ~> mainPc = "stopped"

\* The thread has taken an item and not yet looked at the flag, or has seen it
\* cleared: it will not pop again, and the queue has no room for the dummy.
StopCaught == Len(queue) = Capacity /\ streamerPc \in {"popped", "closing", "done"}

\* ... which is the only way in which Stop does not return: the dummy gets the
\* thread out of Pop, or the thread meets the flag and leaves, whatever it was
\* doing when the flag went down.
StopReturnsUnlessCaught ==
  mainPc = "flagged" /\ ~StopCaught ~> mainPc = "stopped"

\* SetupStream "returns a socket descriptor for the given server address":
\* what is sent to that descriptor reaches that server and no other.
SentToItsServer == ~crossed
=============================================================================
