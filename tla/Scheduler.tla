----------------------------- MODULE Scheduler -----------------------------
(***************************************************************************)
(* daemon/Scheduler.cpp: the loop thread, which samples collectors from    *)
(* libev timers and sleeps on a condition when there are none; the         *)
(* dispatcher thread, which registers collectors with the loop; and the    *)
(* main thread, which stops the one and then the other.                    *)
(*                                                                         *)
(* No lock protects the loop, the timers or _running.  A step is one call  *)
(* into libev, on the condition or on _timers, or one access to the flag.  *)
(* Time is left out: an active timer is due at some moment.                *)
(***************************************************************************)
EXTENDS Integers, Sequences

CONSTANTS
  Collectors,
  Frequencies,  \* sampleFrequencyMsec, as collectors set it
  Nobody        \* no collector

ASSUME SchedulerAssumption ==
  /\ Frequencies \subseteq Int
  /\ Nobody \notin Collectors

VARIABLES
  running,     \* _running
  loopPc,      \* the loop thread, see LoopState
  current,     \* the collector whose callback runs, or Nobody
  dispPc,      \* the dispatcher thread, see DispState
  registering, \* the collector it registers, or Nobody
  mainPc,      \* the main thread, see MainState
  active,      \* libev: the timers that will fire
  repeat,      \* libev: [Collectors -> the timer's repeat value]
  frequency,   \* [Collectors -> ctx->sampleFrequencyMsec]
  registered,  \* collectors whose timer has been started
  timers,      \* _timers
  next,        \* index of the timer that Stop is at
  freed,       \* collectors whose timer Stop has deleted
  lost,        \* history: a notification found the loop thread on its way to
               \* the wait, and the event loop has not run since
  overlapped,  \* history: Stop has stopped a timer whose callback was running
  usedFreed,   \* history: a deleted timer has been used
  crashed      \* the process has died

loopVars == <<loopPc, current, lost>>
timerVars == <<active, repeat, frequency>>
dispVars == <<dispPc, registering, registered>>
stopVars == <<running, mainPc, next, freed, overlapped>>
memoryVars == <<usedFreed, crashed>>
vars == <<loopVars, timerVars, dispVars, timers, stopVars, memoryVars>>

\* test: at while (_running); towait: at wait; waiting: in it; run: in ev_run;
\* sample, stream: in the callback, before Sample and before Stream.
LoopState == {"test", "towait", "waiting", "run", "sample", "stream", "done"}
\* started: after ev_timer_start; notified: after notify_one.
DispState == {"idle", "started", "notified", "joined"}
\* flagged: _running is false; stopping, freeing: at ev_timer_stop and at
\* delete of a timer.
MainState == {"running", "flagged", "stopping", "freeing", "joining", "stopped"}

Init ==
  /\ running = TRUE
  /\ loopPc = "test" /\ current = Nobody /\ lost = FALSE
  /\ dispPc = "idle" /\ registering = Nobody /\ registered = {}
  /\ mainPc = "running" /\ next = 1 /\ freed = {} /\ overlapped = FALSE
  /\ active = {} /\ timers = <<>>
  /\ repeat = [c \in Collectors |-> 0]
  /\ frequency = [c \in Collectors |-> 0]
  /\ usedFreed = FALSE /\ crashed = FALSE

-----------------------------------------------------------------------------
(* The loop thread.                                                        *)

TestRunning ==
  /\ loopPc = "test"
  /\ loopPc' = IF running THEN "towait" ELSE "done"
  /\ UNCHANGED <<current, lost, timerVars, dispVars, timers, stopVars, memoryVars>>

\* _loopCondition.wait: no condition is tested first.
Wait ==
  /\ loopPc = "towait"
  /\ loopPc' = "waiting"
  /\ UNCHANGED <<current, lost, timerVars, dispVars, timers, stopVars, memoryVars>>

\* The wait returns, to ev_run.
WakeUp == loopPc' = "run" /\ lost' = FALSE

SpuriousWakeup ==
  /\ loopPc = "waiting"
  /\ WakeUp
  /\ UNCHANGED <<current, timerVars, dispVars, timers, stopVars, memoryVars>>

\* _loopCondition.notify_one(), by another thread.
Notify ==
  \/ /\ loopPc = "waiting"
     /\ WakeUp
  \/ /\ loopPc # "waiting"
     /\ lost' = (lost \/ loopPc \in {"test", "towait"})
     /\ UNCHANGED loopPc

\* ev_run returns when no timer is active.
EvRunReturns ==
  /\ loopPc = "run" /\ active = {}
  /\ loopPc' = "test"
  /\ UNCHANGED <<current, lost, timerVars, dispVars, timers, stopVars, memoryVars>>

\* The timer of c is due: libev stops it unless it repeats, and calls back.
Fire(c) ==
  /\ loopPc = "run" /\ c \in active
  /\ loopPc' = "sample" /\ current' = c
  /\ active' = IF repeat[c] = 0 THEN active \ {c} ELSE active
  /\ usedFreed' = (usedFreed \/ c \in freed)
  /\ UNCHANGED <<lost, repeat, frequency, dispVars, timers, stopVars, crashed>>

\* Mutant: a negative frequency is let through.
AsIs(f) == f

\* A negative frequency that a collector asks for becomes 0.
Clamped(f) == IF f < 0 THEN 0 ELSE f

\* Mutant: ev_timer_set without ev_timer_again.
SetOnly(c, f) ==
  /\ repeat' = [repeat EXCEPT ![c] = f]
  /\ UNCHANGED active

\* ev_timer_set and ev_timer_again: a repeat value of 0 stops the timer, any
\* other starts it.
SetAgain(c, f) ==
  /\ repeat' = [repeat EXCEPT ![c] = f]
  /\ active' = IF f = 0 THEN active \ {c} ELSE active \cup {c}

\* The callback up to its return for want of data: Sample, which may change
\* the frequency, and the timer's adjustment to a changed one.
Sample ==
  LET c == current IN
  /\ loopPc = "sample"
  /\ \E f \in Frequencies :
       /\ frequency' = [frequency EXCEPT ![c] = Clamped(f)]
       /\ \/ Clamped(f) # frequency[c] /\ SetAgain(c, Clamped(f))
          \/ Clamped(f) = frequency[c] /\ UNCHANGED <<active, repeat>>
  /\ \/ loopPc' = "run" /\ current' = Nobody  \* no data
     \/ loopPc' = "stream" /\ UNCHANGED current
  /\ usedFreed' = (usedFreed \/ c \in freed)
  /\ UNCHANGED <<lost, dispVars, timers, stopVars, crashed>>

\* The rest of the callback, see module Streamer for what it does there.
StreamSample ==
  /\ loopPc = "stream"
  /\ loopPc' = "run" /\ current' = Nobody
  /\ usedFreed' = (usedFreed \/ current \in freed)
  /\ UNCHANGED <<lost, timerVars, dispVars, timers, stopVars, crashed>>

-----------------------------------------------------------------------------
(* The dispatcher thread: Register.                                        *)

\* The collector's OnInit has left frequency f in its context, which Register
\* does not test.  ev_timer_start of a negative repeat value is an assertion
\* that fails, or, in a libev without assertions, a timer that is due at once.
StartTimer(c, f) ==
  /\ dispPc = "idle"
  /\ c \notin registered
  /\ dispPc' = "started" /\ registering' = c
  /\ registered' = registered \cup {c}
  /\ active' = active \cup {c}
  /\ repeat' = [repeat EXCEPT ![c] = f]
  /\ frequency' = [frequency EXCEPT ![c] = f]
  /\ crashed' \in IF f < 0 THEN BOOLEAN ELSE {crashed}
  /\ UNCHANGED <<loopVars, timers, stopVars, usedFreed>>

\* Mutant: Register does not notify.
RegisterNotifiesNot ==
  /\ dispPc = "started"
  /\ dispPc' = "notified"
  /\ UNCHANGED <<loopVars, timerVars, registering, registered, timers, stopVars,
                 memoryVars>>

RegisterNotifies ==
  /\ dispPc = "started"
  /\ Notify
  /\ dispPc' = "notified"
  /\ UNCHANGED <<current, timerVars, registering, registered, timers, stopVars,
                 memoryVars>>

\* Mutant: the timer is not book-kept.
BookKeepNot ==
  /\ dispPc = "notified"
  /\ dispPc' = "idle" /\ registering' = Nobody
  /\ UNCHANGED <<loopVars, timerVars, registered, timers, stopVars, memoryVars>>

BookKeep ==
  /\ dispPc = "notified"
  /\ timers' = Append(timers, registering)
  /\ dispPc' = "idle" /\ registering' = Nobody
  /\ UNCHANGED <<loopVars, timerVars, registered, stopVars, memoryVars>>

-----------------------------------------------------------------------------
(* The main thread.                                                        *)

\* MonitorDispatcher::Stop has joined the dispatcher thread.
DispatcherJoined ==
  /\ dispPc = "idle"
  /\ dispPc' = "joined"
  /\ UNCHANGED <<loopVars, timerVars, registering, registered, timers, stopVars,
                 memoryVars>>

StopClearsFlag ==
  /\ mainPc = "running" /\ dispPc = "joined"
  /\ running' = FALSE /\ mainPc' = "flagged"
  /\ UNCHANGED <<loopVars, timerVars, dispVars, timers, next, freed, overlapped,
                 memoryVars>>

\* Mutant: Stop does not notify.
StopNotifiesNot ==
  /\ mainPc = "flagged"
  /\ mainPc' = "stopping"
  /\ UNCHANGED <<loopVars, timerVars, dispVars, timers, running, next, freed,
                 overlapped, memoryVars>>

StopNotifies ==
  /\ mainPc = "flagged"
  /\ Notify
  /\ mainPc' = "stopping"
  /\ UNCHANGED <<current, timerVars, dispVars, timers, running, next, freed,
                 overlapped, memoryVars>>

\* Mutant: timers are deleted and not stopped.
StopTimerNot ==
  /\ mainPc = "stopping" /\ next <= Len(timers)
  /\ mainPc' = "freeing"
  /\ UNCHANGED <<loopVars, timerVars, dispVars, timers, running, next, freed,
                 overlapped, memoryVars>>

StopTimer ==
  /\ mainPc = "stopping" /\ next <= Len(timers)
  /\ active' = active \ {timers[next]}
  /\ overlapped' = (overlapped \/ current = timers[next])
  /\ mainPc' = "freeing"
  /\ UNCHANGED <<loopVars, repeat, frequency, dispVars, timers, running, next,
                 freed, memoryVars>>

FreeTimer ==
  /\ mainPc = "freeing"
  /\ freed' = freed \cup {timers[next]}
  /\ next' = next + 1
  /\ mainPc' = "stopping"
  /\ UNCHANGED <<loopVars, timerVars, dispVars, timers, running, overlapped,
                 memoryVars>>

AllStopped ==
  /\ mainPc = "stopping" /\ next > Len(timers)
  /\ mainPc' = "joining"
  /\ UNCHANGED <<loopVars, timerVars, dispVars, timers, running, next, freed,
                 overlapped, memoryVars>>

Join ==
  /\ mainPc = "joining" /\ loopPc = "done"
  /\ mainPc' = "stopped"
  /\ UNCHANGED <<loopVars, timerVars, dispVars, timers, running, next, freed,
                 overlapped, memoryVars>>

-----------------------------------------------------------------------------
\* Using a deleted timer may kill the process, or find the old values.
Crash ==
  /\ usedFreed
  /\ crashed' = TRUE
  /\ UNCHANGED <<loopVars, timerVars, dispVars, timers, stopVars, usedFreed>>

LoopStep ==
  \/ TestRunning \/ Wait \/ EvRunReturns \/ (\E c \in Collectors : Fire(c))
  \/ Sample \/ StreamSample
DispStep == RegisterNotifies \/ BookKeep
StopStep == StopNotifies \/ StopTimer \/ FreeTimer \/ AllStopped \/ Join

Ended == (mainPc = "stopped" \/ crashed) /\ UNCHANGED vars

Next ==
  \/ /\ ~crashed
     /\ \/ LoopStep
        \/ SpuriousWakeup
        \/ \E c \in Collectors, f \in Frequencies : StartTimer(c, f)
        \/ DispStep
        \/ DispatcherJoined
        \/ StopClearsFlag
        \/ StopStep
        \/ Crash
  \/ Ended

\* Every thread runs, samples end, and libev takes the timers that are due in
\* the order of their times: none is passed over for ever.  Nothing makes a
\* registration, a termination signal or a spurious wakeup happen.
Fairness ==
  /\ WF_vars(~crashed /\ LoopStep)
  /\ WF_vars(~crashed /\ DispStep)
  /\ WF_vars(~crashed /\ StopStep)
  /\ \A c \in Collectors : SF_vars(~crashed /\ Fire(c))

Spec == Init /\ [][Next]_vars
FairSpec == Spec /\ Fairness

-----------------------------------------------------------------------------
\* Types, and what the threads' positions say.
TypeOK ==
  /\ running \in BOOLEAN /\ lost \in BOOLEAN /\ overlapped \in BOOLEAN
  /\ usedFreed \in BOOLEAN /\ crashed \in BOOLEAN
  /\ loopPc \in LoopState /\ dispPc \in DispState /\ mainPc \in MainState
  /\ current \in Collectors \cup {Nobody}
  /\ current # Nobody <=> loopPc \in {"sample", "stream"}
  /\ registering \in Collectors \cup {Nobody}
  /\ registering # Nobody <=> dispPc \in {"started", "notified"}
  /\ active \subseteq Collectors /\ registered \subseteq Collectors
  /\ freed \subseteq Collectors
  /\ repeat \in [Collectors -> Int] /\ frequency \in [Collectors -> Int]
  /\ timers \in Seq(Collectors)
  /\ next \in 1..(Len(timers) + 1)
  /\ mainPc = "freeing" => next <= Len(timers)

\* The loop thread sleeps while a timer is active only when a notification
\* has been lost, or is still to come from the Register in progress
\* (_ScheduleForever against Register and Stop).
SleepsOnlyWhenIdle ==
  loopPc = "waiting" /\ active # {} => lost \/ dispPc = "started"

Sampling(c) == loopPc = "sample" /\ current = c

\* Outside its callback, a registered collector has the timer its frequency
\* asks for: none for 0, and one with that repeat value otherwise, whatever
\* frequencies it has gone through (_TimerCallback).  A timer of 0 is active
\* until it has fired once.
TimerFollowsFrequency ==
  mainPc = "running" =>
    \A c \in registered :
      \/ Sampling(c)
      \/ repeat[c] = frequency[c] /\ (frequency[c] # 0 => c \in active)

\* When Stop returns the loop thread has ended, no timer is active and each
\* has been deleted, so that nothing is sampled or leaked afterwards.
QuietAfterStop ==
  mainPc = "stopped" =>
    loopPc = "done" /\ active = {} /\ freed = registered

\* Stop and the loop thread race for the timers, yet a deleted timer is only
\* ever used when Stop met the timer in its callback.
FreedOnlyUnderCallback == usedFreed => overlapped

\* The loop thread sleeps and the notification that was meant for it is gone.
Overslept == loopPc = "waiting" /\ lost

\* A timer that is active gets its collector sampled, the first time and
\* every time after, unless a notification was lost or Stop has begun.
ActiveIsSampled ==
  \A c \in Collectors :
    c \in active ~> Sampling(c) \/ Overslept \/ mainPc # "running" \/ crashed

\* A negative frequency, which Register lets through and libev does not allow,
\* does not last: the first callback sets it and the timer right, unless the
\* collector is never sampled or libev ends the process over it
\* (_TimerCallback against Register).
NegativeIsCorrected ==
  \A c \in Collectors :
    frequency[c] < 0 \/ repeat[c] < 0 ~>
      \/ frequency[c] >= 0 /\ repeat[c] = frequency[c]
      \/ Overslept \/ mainPc # "running" \/ crashed

\* Stop returns unless its notification was lost or it deleted a timer under
\* its callback.
StopReturnsUnlessOverslept ==
  mainPc = "flagged" ~> mainPc = "stopped" \/ Overslept \/ overlapped \/ crashed

\* "The RegisterCollector() call will notify a shared condition variable
\* whenever a new collector/timer is registered" (Scheduler.cpp:95-97): a
\* registered collector is sampled.
RegisteredIsSampled ==
  \A c \in Collectors : c \in active ~> Sampling(c) \/ mainPc # "running" \/ crashed
=============================================================================
