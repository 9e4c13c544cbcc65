------------------------------- MODULE Daemon -------------------------------
(***************************************************************************)
(* daemon/Main.cpp and lib/MonitorDispatcher.cpp around module Scheduler:  *)
(* the dispatcher thread, which takes INIT, STOP and EVENT datagrams and   *)
(* keeps the collectors by path; and the main thread, which waits for a    *)
(* signal and stops first the dispatcher and then the scheduler.           *)
(*                                                                         *)
(* Datagrams of the tool come at any time and in any order, repeated or    *)
(* not at all.  A member of Collectors is one instance that an INIT loads. *)
(***************************************************************************)
EXTENDS Scheduler

CONSTANTS
  Paths,        \* file paths of collectors
  NoPath

ASSUME DaemonAssumption == NoPath \notin Paths

VARIABLES
  bossPc,    \* the main thread up to the scheduler's Stop, see BossState
  signalled, \* none; early: before main waited; woken: its wait has returned
  listening, \* MonitorDispatcher::_running
  ended,     \* the dispatcher thread has left its loop and deleted the socket
  token,     \* the datagram of Stop: none under way, sent, or lost
  monitors,  \* _monitors: [Paths -> Collectors or Nobody]
  pathOf,    \* [Collectors -> the path it was loaded from]
  onStopped  \* collectors whose OnStop has been called

mainLoopVars == <<bossPc, signalled>>
listenVars == <<listening, ended, token>>
monitorVars == <<monitors, pathOf, onStopped>>
daemonVars == <<mainLoopVars, listenVars, monitorVars>>
allVars == <<vars, daemonVars>>

\* starting: before the wait; flag, send, join: in the dispatcher's Stop.
BossState == {"starting", "waiting", "flag", "send", "join", "stopping"}

DaemonInit ==
  /\ Init
  /\ bossPc = "starting" /\ signalled = "none"
  /\ listening = TRUE /\ ended = FALSE /\ token = "none"
  /\ monitors = [p \in Paths |-> Nobody]
  /\ pathOf = [c \in Collectors |-> NoPath]
  /\ onStopped = {}

-----------------------------------------------------------------------------
(* The dispatcher thread.                                                  *)

AtReceive == ~ended /\ dispPc = "idle"
Receive == AtReceive /\ listening

\* A failure of recvFrom ends the loop at any time, and so does any datagram
\* once _running is false, Stop's own (ReceiveToken) or another.
LoopEnds ==
  /\ AtReceive /\ token # "sent"
  /\ ended' = TRUE
  /\ UNCHANGED <<vars, mainLoopVars, listening, token, monitorVars>>

\* INIT: a new instance is made and its timer started, with the frequency that
\* OnInit, whether it returned or threw, has left in the context.
ReceiveInit(p, c, f) ==
  /\ Receive
  /\ StartTimer(c, f)
  /\ pathOf' = [pathOf EXCEPT ![c] = p]
  /\ UNCHANGED <<mainLoopVars, listenVars, monitors, onStopped>>

\* Mutant: the dispatcher does not keep what it has registered.
RecordMonitorNot ==
  /\ BookKeep
  /\ UNCHANGED daemonVars

RecordMonitor ==
  /\ BookKeep
  /\ monitors' = [monitors EXCEPT ![pathOf[registering]] = registering]
  /\ UNCHANGED <<mainLoopVars, listenVars, pathOf, onStopped>>

\* STOP: Remove does nothing in the scheduler, so that the timer stays.
ReceiveStop(p) ==
  /\ Receive /\ monitors[p] # Nobody
  /\ onStopped' = onStopped \cup {monitors[p]}
  /\ monitors' = [monitors EXCEPT ![p] = Nobody]
  /\ UNCHANGED <<vars, mainLoopVars, listenVars, pathOf>>

\* STOP of a path without a collector calls OnStop of NULL.
StopOfNone(p) ==
  /\ Receive /\ monitors[p] = Nobody
  /\ crashed' = TRUE
  /\ UNCHANGED <<loopVars, timerVars, dispVars, timers, stopVars, usedFreed,
                 mainLoopVars, listenVars, monitorVars>>

\* INIT of a file that cannot be opened, or without the factory: dlsym's NULL
\* is called.
LoadFails ==
  /\ Receive
  /\ crashed' = TRUE
  /\ UNCHANGED <<loopVars, timerVars, dispVars, timers, stopVars, usedFreed,
                 mainLoopVars, listenVars, monitorVars>>

\* EVENT, a datagram that does not parse, a factory that throws.
ReceiveOther ==
  /\ Receive
  /\ UNCHANGED <<vars, mainLoopVars, listenVars, monitorVars>>

\* Stop's empty datagram parses as no message, were _running still set.
ReceiveToken ==
  /\ AtReceive /\ token = "sent"
  /\ token' = "none" /\ ended' = ~listening
  /\ UNCHANGED <<vars, mainLoopVars, listening, monitorVars>>

-----------------------------------------------------------------------------
(* The main thread.                                                        *)

StartWaiting ==
  /\ bossPc = "starting"
  /\ bossPc' = "waiting"
  /\ UNCHANGED <<vars, signalled, listenVars, monitorVars>>

\* sigproc notifies.  That wakes main only if it waits already, and main may
\* wake without a signal as well: it does not test for one.
Signal ==
  \/ /\ bossPc = "starting"
     /\ signalled' = "early"
     /\ UNCHANGED <<vars, bossPc, listenVars, monitorVars>>
  \/ /\ bossPc = "waiting"
     /\ signalled' = "woken" /\ bossPc' = "flag"
     /\ UNCHANGED <<vars, listenVars, monitorVars>>

\* Mutant: Stop leaves _running set.
ClearListeningNot ==
  /\ bossPc = "flag"
  /\ bossPc' = "send"
  /\ UNCHANGED <<vars, signalled, listenVars, monitorVars>>

ClearListening ==
  /\ bossPc = "flag"
  /\ listening' = FALSE /\ bossPc' = "send"
  /\ UNCHANGED <<vars, signalled, ended, token, monitorVars>>

\* The socket may be deleted by then: undefined, it may kill the process.
SendToken ==
  /\ bossPc = "send"
  /\ bossPc' = "join"
  /\ token' \in IF ended THEN {"lost"} ELSE {"sent", "lost"}
  /\ crashed' \in IF ended THEN BOOLEAN ELSE {crashed}
  /\ UNCHANGED <<loopVars, timerVars, dispVars, timers, stopVars, usedFreed,
                 signalled, listening, ended, monitorVars>>

\* Mutant: main stops the scheduler without having joined the dispatcher.
JoinDispatcherNot ==
  /\ bossPc = "join"
  /\ bossPc' = "stopping"
  /\ UNCHANGED <<vars, signalled, listenVars, monitorVars>>

JoinDispatcher ==
  /\ bossPc = "join" /\ ended
  /\ bossPc' = "stopping"
  /\ DispatcherJoined
  /\ UNCHANGED <<signalled, listenVars, monitorVars>>

-----------------------------------------------------------------------------
ListenStep ==
  \/ \E p \in Paths, c \in Collectors, f \in Frequencies : ReceiveInit(p, c, f)
  \/ \E p \in Paths : ReceiveStop(p) \/ StopOfNone(p)
  \/ LoopEnds \/ LoadFails \/ ReceiveOther \/ ReceiveToken \/ RecordMonitor
BossStep == StartWaiting \/ ClearListening \/ SendToken \/ JoinDispatcher
SchedulerOnly ==
  \/ LoopStep \/ SpuriousWakeup \/ RegisterNotifies
  \/ StopClearsFlag \/ StopStep \/ Crash

DaemonNext ==
  \/ /\ ~crashed
     /\ \/ ListenStep
        \/ Signal
        \/ BossStep
        \/ SchedulerOnly /\ UNCHANGED daemonVars
  \/ Ended /\ UNCHANGED daemonVars

\* The threads run, and a datagram that has not been lost arrives.  Nothing
\* makes the tool or a signal send anything.
DaemonFairness ==
  /\ Fairness
  /\ WF_allVars(~crashed /\ BossStep)
  /\ WF_allVars(~crashed /\ (ReceiveToken \/ RecordMonitor))
  /\ WF_allVars(~crashed /\ StopClearsFlag /\ UNCHANGED daemonVars)

DaemonSpec == DaemonInit /\ [][DaemonNext]_allVars
DaemonFairSpec == DaemonSpec /\ DaemonFairness

-----------------------------------------------------------------------------
\* Types, Scheduler's among them, and what the main thread's position says.
DaemonTypeOK ==
  /\ TypeOK
  /\ bossPc \in BossState
  /\ signalled \in {"none", "early", "woken"}
  /\ listening \in BOOLEAN /\ ended \in BOOLEAN
  /\ token \in {"none", "sent", "lost"}
  /\ monitors \in [Paths -> Collectors \cup {Nobody}]
  /\ pathOf \in [Collectors -> Paths \cup {NoPath}]
  /\ onStopped \subseteq Collectors
  /\ dispPc = "joined" <=> bossPc = "stopping"
  /\ \A c \in registered : pathOf[c] \in Paths

\* c was registered before another collector of the same path.
Replaced(c) ==
  \E i, j \in 1..Len(timers) :
    i < j /\ timers[i] = c /\ pathOf[timers[j]] = pathOf[c]

\* Every collector that is sampled can be stopped: STOP of its path reaches
\* it, unless an INIT of that path has come again since, whose instance took
\* its place; and STOP never reaches a collector a second time, whatever
\* datagrams are lost, repeated or reordered (_ListenForever).
Stoppable ==
  /\ \A c \in registered \ (onStopped \cup {registering}) :
       monitors[pathOf[c]] = c \/ Replaced(c)
  /\ \A p \in Paths : monitors[p] # Nobody =>
       monitors[p] \in registered \ onStopped /\ pathOf[monitors[p]] = p

\* A signal ends the daemon: dispatcher and scheduler are stopped, in that
\* order, unless the signal came before main waited, the dispatcher's datagram
\* to itself was lost, or the scheduler's Stop met one of its own races.
SignalEndsDaemon ==
  signalled # "none" ~>
    mainPc = "stopped" \/ signalled = "early" \/ token = "lost" \/ crashed
      \/ Overslept \/ overlapped
=============================================================================
