---------------------------- MODULE DaemonProofs ----------------------------
(***************************************************************************)
(* What the daemon's scheduler promises for any number of collectors and   *)
(* any set of frequencies, by itself and under the dispatcher and the main *)
(* thread of module Daemon; and that STOP reaches what INIT has loaded,    *)
(* for any paths.                                                          *)
(*                                                                         *)
(* The scheduler's invariant is shown over steps of Next and over Dies: a  *)
(* step of the daemon is, for the scheduler, one of these.                 *)
(***************************************************************************)
EXTENDS Daemon, TLAPS

USE SchedulerAssumption, DaemonAssumption

\* The process dies of something outside the scheduler, or a step leaves the
\* scheduler alone.
Dies ==
  /\ crashed' \in BOOLEAN
  /\ UNCHANGED <<loopVars, timerVars, dispVars, timers, stopVars, usedFreed>>

-----------------------------------------------------------------------------
(* Types.                                                                  *)

LEMMA TypeInit == Init => TypeOK
<1> SUFFICES ASSUME Init PROVE TypeOK
  OBVIOUS
<1>1. /\ timers \in Seq(Collectors)
      /\ next \in 1..(Len(timers) + 1)
  BY DEF Init
<1>2. /\ running \in BOOLEAN /\ lost \in BOOLEAN /\ overlapped \in BOOLEAN
      /\ usedFreed \in BOOLEAN /\ crashed \in BOOLEAN
  BY DEF Init
<1>3. /\ repeat \in [Collectors -> Int] /\ frequency \in [Collectors -> Int]
  BY DEF Init
<1> QED
  BY <1>1, <1>2, <1>3 DEF Init, TypeOK, LoopState, DispState, MainState

LEMMA TypeStep == TypeOK /\ [Next]_vars => TypeOK'
<1> SUFFICES ASSUME TypeOK, [Next]_vars
             PROVE  TypeOK'
  OBVIOUS
<1> USE DEF TypeOK, LoopState, DispState, MainState, loopVars, timerVars,
            dispVars, stopVars, memoryVars, WakeUp, Notify
<1>1. CASE TestRunning
  BY <1>1 DEF TestRunning
<1>2. CASE Wait
  BY <1>2 DEF Wait
<1>3. CASE EvRunReturns
  BY <1>3 DEF EvRunReturns
<1>4. ASSUME NEW c \in Collectors, Fire(c)
      PROVE  TypeOK'
  BY <1>4 DEF Fire
<1>5. CASE Sample
  <2>1. current \in Collectors
    BY <1>5 DEF Sample
  <2>2. \A f \in Frequencies : Clamped(f) \in Int
    BY DEF Clamped
  <2>3. /\ frequency' \in [Collectors -> Int]
        /\ repeat' \in [Collectors -> Int]
        /\ active' \subseteq Collectors
    BY <1>5, <2>1, <2>2 DEF Sample, SetAgain
  <2>4. usedFreed' \in BOOLEAN
    BY <1>5, Zenon DEF Sample
  <2> QED
    BY <1>5, <2>3, <2>4 DEF Sample
<1>6. CASE StreamSample
  BY <1>6 DEF StreamSample
<1>7. CASE SpuriousWakeup
  BY <1>7 DEF SpuriousWakeup
<1>8. ASSUME NEW c \in Collectors, NEW f \in Frequencies, StartTimer(c, f)
      PROVE  TypeOK'
  BY <1>8 DEF StartTimer
<1>9. CASE RegisterNotifies
  BY <1>9, ZenonT(30) DEF RegisterNotifies
<1>10. CASE BookKeep
  BY <1>10 DEF BookKeep
<1>11. CASE DispatcherJoined
  BY <1>11 DEF DispatcherJoined
<1>12. CASE StopClearsFlag
  BY <1>12 DEF StopClearsFlag
<1>13. CASE StopNotifies
  BY <1>13 DEF StopNotifies
<1>14. CASE StopTimer
  <2>1. overlapped' \in BOOLEAN
    BY <1>14, Zenon DEF StopTimer
  <2> QED
    BY <1>14, <2>1 DEF StopTimer
<1>15. CASE FreeTimer
  BY <1>15 DEF FreeTimer
<1>16. CASE AllStopped
  BY <1>16 DEF AllStopped
<1>17. CASE Join
  BY <1>17 DEF Join
<1>18. CASE Crash
  BY <1>18 DEF Crash
<1>19. CASE UNCHANGED vars
  BY <1>19 DEF vars
<1> QED
  BY <1>1, <1>2, <1>3, <1>4, <1>5, <1>6, <1>7, <1>8, <1>9, <1>10, <1>11,
     <1>12, <1>13, <1>14, <1>15, <1>16, <1>17, <1>18, <1>19
     DEF Next, LoopStep, DispStep, StopStep, Ended

-----------------------------------------------------------------------------
(* The loop thread's sleep.                                                *)

\* From the moment ev_run returns, a timer can only become active through a
\* Register, whose notification is then still to come, or lost.
SleepInv ==
  loopPc \in {"test", "towait", "waiting"} /\ active # {} =>
    lost \/ dispPc = "started"

LEMMA SleepStep == TypeOK /\ SleepInv /\ [Next]_vars => SleepInv'
<1> SUFFICES ASSUME TypeOK, SleepInv, [Next]_vars
             PROVE  SleepInv'
  OBVIOUS
<1> USE DEF SleepInv, loopVars, timerVars, dispVars, stopVars, memoryVars,
            WakeUp, Notify
<1>1. CASE LoopStep
  <2>1. CASE TestRunning \/ Wait
    BY <2>1 DEF TestRunning, Wait
  <2>2. CASE EvRunReturns
    BY <2>2 DEF EvRunReturns
  <2>3. ASSUME NEW c \in Collectors, Fire(c)
        PROVE  SleepInv'
    BY <2>3 DEF Fire
  <2>4. CASE Sample
    BY <2>4 DEF Sample
  <2>5. CASE StreamSample
    BY <2>5 DEF StreamSample
  <2> QED
    BY <1>1, <2>1, <2>2, <2>3, <2>4, <2>5 DEF LoopStep
<1>2. CASE SpuriousWakeup
  BY <1>2 DEF SpuriousWakeup
<1>3. ASSUME NEW c \in Collectors, NEW f \in Frequencies, StartTimer(c, f)
      PROVE  SleepInv'
  BY <1>3 DEF StartTimer
<1>4. CASE RegisterNotifies
  BY <1>4 DEF RegisterNotifies
<1>5. CASE BookKeep
  BY <1>5 DEF BookKeep
<1>6. CASE DispatcherJoined
  BY <1>6 DEF DispatcherJoined
<1>7. CASE StopNotifies
  BY <1>7 DEF StopNotifies
<1>8. CASE StopTimer
  BY <1>8 DEF StopTimer
<1>9. CASE StopClearsFlag \/ FreeTimer \/ AllStopped \/ Join
  BY <1>9 DEF StopClearsFlag, FreeTimer, AllStopped, Join
<1>10. CASE Crash \/ UNCHANGED vars
  BY <1>10 DEF Crash, vars
<1> QED
  BY <1>1, <1>2, <1>3, <1>4, <1>5, <1>6, <1>7, <1>8, <1>9, <1>10
     DEF Next, DispStep, StopStep, Ended

-----------------------------------------------------------------------------
(* Frequencies.                                                            *)

\* A registered collector's timer repeats as its frequency says, and is active
\* unless that is 0.
FollowInv ==
  mainPc = "running" =>
    \A c \in registered :
      repeat[c] = frequency[c] /\ (frequency[c] # 0 => c \in active)

LEMMA FollowStep == TypeOK /\ FollowInv /\ [Next]_vars => FollowInv'
<1> SUFFICES ASSUME TypeOK, FollowInv, [Next]_vars
             PROVE  FollowInv'
  OBVIOUS
<1> USE DEF FollowInv, TypeOK, loopVars, timerVars, dispVars, stopVars, memoryVars,
            WakeUp, Notify
<1>1. CASE TestRunning \/ Wait \/ EvRunReturns
  BY <1>1 DEF TestRunning, Wait, EvRunReturns
<1>2. ASSUME NEW c \in Collectors, Fire(c)
      PROVE  FollowInv'
  BY <1>2 DEF Fire
<1>3. CASE Sample
  <2>1. PICK f \in Frequencies :
          /\ frequency' = [frequency EXCEPT ![current] = Clamped(f)]
          /\ \/ Clamped(f) # frequency[current] /\ SetAgain(current, Clamped(f))
             \/ Clamped(f) = frequency[current] /\ UNCHANGED <<active, repeat>>
    BY <1>3 DEF Sample
  <2>2. UNCHANGED <<mainPc, registered>>
    BY <1>3 DEF Sample
  <2>3. Clamped(f) = frequency[current] => frequency' = frequency
    BY <2>1
  <2>4. CASE Clamped(f) = frequency[current]
    BY <2>1, <2>2, <2>3, <2>4
  <2>5. CASE Clamped(f) # frequency[current]
    BY <2>1, <2>2, <2>5 DEF SetAgain
  <2> QED
    BY <2>4, <2>5
<1>4. CASE StreamSample \/ SpuriousWakeup
  BY <1>4 DEF StreamSample, SpuriousWakeup
<1>5. ASSUME NEW c \in Collectors, NEW f \in Frequencies, StartTimer(c, f)
      PROVE  FollowInv'
  BY <1>5 DEF StartTimer
<1>6. CASE RegisterNotifies \/ BookKeep \/ DispatcherJoined
  BY <1>6 DEF RegisterNotifies, BookKeep, DispatcherJoined
<1>7. CASE StopClearsFlag \/ StopNotifies \/ StopTimer \/ FreeTimer \/ AllStopped \/ Join
  BY <1>7 DEF StopClearsFlag, StopNotifies, StopTimer, FreeTimer, AllStopped, Join
<1>8. CASE Crash \/ UNCHANGED vars
  BY <1>8 DEF Crash, vars
<1> QED
  BY <1>1, <1>2, <1>3, <1>4, <1>5, <1>6, <1>7, <1>8
     DEF Next, LoopStep, DispStep, StopStep, Ended

-----------------------------------------------------------------------------
(* Stop.                                                                   *)

Listed == {timers[i] : i \in 1..Len(timers)}

\* The three threads agree on which timers there are: Register has started
\* what _timers lists and what it is about to list, and Stop, which begins
\* when no Register can run any more, deletes them in the order of the list.
BookInv ==
  /\ active \subseteq registered
  /\ current \in registered \cup {Nobody}
  /\ registered = Listed \cup ({registering} \ {Nobody})
  /\ freed = {timers[i] : i \in 1..(next - 1)}
  /\ mainPc = "running" \/ dispPc = "joined"
  /\ mainPc \in {"joining", "stopped"} => next > Len(timers)
  /\ mainPc = "stopped" => loopPc = "done"

\* What Stop has taken out of the event loop, whether deleted yet or not.
Retired == freed \cup (IF mainPc = "freeing" THEN {timers[next]} ELSE {})

\* A retired timer stays out of the event loop while no callback runs in which
\* it could be started again, and altogether if Stop did not meet its callback.
RetiredInv ==
  /\ loopPc \in {"test", "towait", "waiting", "done"} => active \cap Retired = {}
  /\ ~overlapped => /\ active \cap Retired = {}
                    /\ current \notin Retired
                    /\ ~usedFreed

LEMMA BookStep == TypeOK /\ BookInv /\ [Next]_vars => BookInv'
<1> SUFFICES ASSUME TypeOK, BookInv, [Next]_vars
             PROVE  BookInv'
  OBVIOUS
<1> USE DEF TypeOK, BookInv, Listed, loopVars, timerVars, dispVars, stopVars,
            memoryVars, WakeUp, Notify
<1>1. CASE TestRunning
  BY <1>1 DEF TestRunning
<1>2. CASE Wait
  BY <1>2 DEF Wait
<1>3. CASE EvRunReturns
  BY <1>3 DEF EvRunReturns
<1>4. ASSUME NEW c \in Collectors, Fire(c)
      PROVE  BookInv'
  BY <1>4 DEF Fire
<1>5. CASE Sample
  <2>1. current \in registered
    BY <1>5 DEF Sample
  <2>2. active' \subseteq active \cup {current} /\ current' \in {current, Nobody}
    BY <1>5 DEF Sample, SetAgain
  <2>3. UNCHANGED <<registered, registering, timers, freed, next, mainPc, dispPc>>
        /\ loopPc # "done"
    BY <1>5 DEF Sample
  <2> QED
    BY <2>1, <2>2, <2>3
<1>6. CASE StreamSample
  BY <1>6 DEF StreamSample
<1>7. CASE SpuriousWakeup
  BY <1>7 DEF SpuriousWakeup
<1>8. ASSUME NEW c \in Collectors, NEW f \in Frequencies, StartTimer(c, f)
      PROVE  BookInv'
  BY <1>8 DEF StartTimer
<1>9. CASE RegisterNotifies
  BY <1>9 DEF RegisterNotifies
<1>10. CASE BookKeep
  <2>1. /\ Len(timers') = Len(timers) + 1
        /\ \A i \in 1..Len(timers) : timers'[i] = timers[i]
        /\ timers'[Len(timers) + 1] = registering
    BY <1>10 DEF BookKeep
  <2>0. /\ Len(timers) \in Nat
        /\ 1..(Len(timers) + 1) = 1..Len(timers) \cup {Len(timers) + 1}
        /\ 1..(next - 1) \subseteq 1..Len(timers)
    OBVIOUS
  <2>2. Listed' = Listed \cup {registering}
    <3>1. Listed' = {timers'[i] : i \in 1..Len(timers) \cup {Len(timers) + 1}}
      BY <2>1, <2>0
    <3>2. Listed' = {timers'[i] : i \in 1..Len(timers)} \cup {registering}
      BY <3>1, <2>1, Zenon
    <3>3. {timers'[i] : i \in 1..Len(timers)} = Listed
      BY <2>1, Zenon
    <3> QED
      BY <3>2, <3>3
  <2>3. freed' = {timers'[i] : i \in 1..(next' - 1)}
    <3>1. /\ freed' = freed /\ next' = next
          /\ \A i \in 1..(next - 1) : timers'[i] = timers[i]
      BY <1>10, <2>1, <2>0 DEF BookKeep
    <3> QED
      BY <3>1, Zenon
  <2>4. registering # Nobody /\ mainPc = "running"
    BY <1>10 DEF BookKeep
  <2>5. registered' = Listed' \cup ({registering'} \ {Nobody})
    BY <1>10, <2>2, <2>4 DEF BookKeep
  <2> QED
    BY <1>10, <2>3, <2>4, <2>5 DEF BookKeep
<1>11. CASE DispatcherJoined
  BY <1>11 DEF DispatcherJoined
<1>12. CASE StopClearsFlag
  BY <1>12 DEF StopClearsFlag
<1>13. CASE StopNotifies
  BY <1>13 DEF StopNotifies
<1>14. CASE StopTimer
  BY <1>14 DEF StopTimer
<1>15. CASE FreeTimer
  BY <1>15 DEF FreeTimer
<1>16. CASE AllStopped
  BY <1>16 DEF AllStopped
<1>17. CASE Join
  BY <1>17 DEF Join
<1>18. CASE Crash
  BY <1>18 DEF Crash
<1>19. CASE UNCHANGED vars
  BY <1>19 DEF vars
<1> QED
  BY <1>1, <1>2, <1>3, <1>4, <1>5, <1>6, <1>7, <1>8, <1>9, <1>10, <1>11,
     <1>12, <1>13, <1>14, <1>15, <1>16, <1>17, <1>18, <1>19
     DEF Next, LoopStep, DispStep, StopStep, Ended

LEMMA RetiredStep == TypeOK /\ BookInv /\ BookInv' /\ RetiredInv /\ [Next]_vars => RetiredInv'
<1> SUFFICES ASSUME TypeOK, BookInv, BookInv', RetiredInv, [Next]_vars
             PROVE  RetiredInv'
  OBVIOUS
<1> USE DEF TypeOK, BookInv, Listed, RetiredInv, Retired, loopVars, timerVars,
            dispVars, stopVars, memoryVars, WakeUp, Notify
<1>1. CASE TestRunning
  BY <1>1 DEF TestRunning
<1>2. CASE Wait
  BY <1>2 DEF Wait
<1>3. CASE EvRunReturns
  BY <1>3 DEF EvRunReturns
<1>4. ASSUME NEW c \in Collectors, Fire(c)
      PROVE  RetiredInv'
  BY <1>4 DEF Fire
<1>5. CASE Sample
  <2>1. /\ Retired' = Retired /\ (overlapped' <=> overlapped)
        /\ loopPc' \in {"run", "stream"}
        /\ current' \in {current, Nobody}
    BY <1>5 DEF Sample
  <2>2. active' \subseteq active \cup {current}
    BY <1>5 DEF Sample, SetAgain
  <2>3. Nobody \notin Retired
    OBVIOUS
  <2>4. ~overlapped => current \notin freed /\ ~usedFreed
    OBVIOUS
  <2>5. ~overlapped => ~usedFreed'
    BY <1>5, <2>4, Zenon DEF Sample
  <2>6. RetiredInv
    OBVIOUS
  <2> HIDE DEF Retired, TypeOK, BookInv, Listed
  <2> QED
    BY <2>1, <2>2, <2>3, <2>5, <2>6
<1>6. CASE StreamSample
  BY <1>6 DEF StreamSample
<1>7. CASE SpuriousWakeup
  BY <1>7 DEF SpuriousWakeup
<1>8. ASSUME NEW c \in Collectors, NEW f \in Frequencies, StartTimer(c, f)
      PROVE  RetiredInv'
  <2>1. c \notin Retired
    <3>1. mainPc = "running" /\ c \notin Listed
      BY <1>8 DEF StartTimer
    <3>2. freed \subseteq Listed
      <4>1. 1..(next - 1) \subseteq 1..Len(timers)
        OBVIOUS
      <4> QED
        BY <4>1, Zenon
    <3> QED
      BY <3>1, <3>2
  <2>2. /\ Retired' = Retired /\ (overlapped' <=> overlapped) /\ (usedFreed' <=> usedFreed)
        /\ loopPc' = loopPc /\ current' = current
    BY <1>8 DEF StartTimer
  <2>3. active' = active \cup {c}
    BY <1>8 DEF StartTimer
  <2>4. RetiredInv
    OBVIOUS
  <2> HIDE DEF Retired, TypeOK, BookInv, Listed
  <2> QED
    BY <2>1, <2>2, <2>3, <2>4
<1>9. CASE RegisterNotifies
  BY <1>9 DEF RegisterNotifies
<1>10. CASE BookKeep
  BY <1>10 DEF BookKeep
<1>11. CASE DispatcherJoined
  BY <1>11 DEF DispatcherJoined
<1>12. CASE StopClearsFlag
  BY <1>12 DEF StopClearsFlag
<1>13. CASE StopNotifies
  BY <1>13 DEF StopNotifies
<1>14. CASE StopTimer
  BY <1>14 DEF StopTimer
<1>15. CASE FreeTimer
  BY <1>15 DEF FreeTimer
<1>16. CASE AllStopped
  BY <1>16 DEF AllStopped
<1>17. CASE Join
  BY <1>17 DEF Join
<1>18. CASE Crash
  BY <1>18 DEF Crash
<1>19. CASE UNCHANGED vars
  BY <1>19 DEF vars
<1> QED
  BY <1>1, <1>2, <1>3, <1>4, <1>5, <1>6, <1>7, <1>8, <1>9, <1>10, <1>11,
     <1>12, <1>13, <1>14, <1>15, <1>16, <1>17, <1>18, <1>19
     DEF Next, LoopStep, DispStep, StopStep, Ended

LEMMA QuietWhenStopped == TypeOK /\ BookInv /\ RetiredInv => QuietAfterStop
<1> SUFFICES ASSUME TypeOK, BookInv, RetiredInv, mainPc = "stopped"
             PROVE  loopPc = "done" /\ active = {} /\ freed = registered
  BY DEF QuietAfterStop
<1>1. loopPc = "done" /\ registering = Nobody /\ next = Len(timers) + 1
  BY DEF TypeOK, BookInv
<1>2. freed = registered
  BY <1>1 DEF TypeOK, BookInv, Listed
<1>3. active = {}
  BY <1>1, <1>2 DEF BookInv, RetiredInv, Retired
<1> QED
  BY <1>1, <1>2, <1>3

-----------------------------------------------------------------------------
(* The scheduler by itself.                                                *)

SchedulerInv == TypeOK /\ SleepInv /\ FollowInv /\ BookInv /\ RetiredInv

LEMMA SchedulerInit == Init => SchedulerInv
<1> SUFFICES ASSUME Init PROVE SchedulerInv
  OBVIOUS
<1>1. TypeOK
  BY TypeInit
<1>2. SleepInv /\ FollowInv
  BY DEF Init, SleepInv, FollowInv
<1>3. BookInv
  BY DEF Init, BookInv, Listed
<1>4. RetiredInv
  BY DEF Init, RetiredInv, Retired
<1> QED
  BY <1>1, <1>2, <1>3, <1>4 DEF SchedulerInv

LEMMA SchedulerStep == SchedulerInv /\ [Next]_vars => SchedulerInv'
<1> SUFFICES ASSUME TypeOK, SleepInv, FollowInv, BookInv, RetiredInv, [Next]_vars
             PROVE  TypeOK' /\ SleepInv' /\ FollowInv' /\ BookInv' /\ RetiredInv'
  BY DEF SchedulerInv
<1> QED
  BY TypeStep, SleepStep, FollowStep, BookStep, RetiredStep

LEMMA SchedulerDies == SchedulerInv /\ Dies => SchedulerInv'
<1> SUFFICES ASSUME SchedulerInv, Dies PROVE SchedulerInv'
  OBVIOUS
<1> USE DEF SchedulerInv, Dies, loopVars, timerVars, dispVars, stopVars
<1>1. TypeOK'
  BY DEF TypeOK
<1>2. SleepInv' /\ FollowInv'
  BY DEF SleepInv, FollowInv
<1>3. BookInv'
  BY DEF BookInv, Listed
<1>4. RetiredInv'
  BY DEF RetiredInv, Retired
<1> QED
  BY <1>1, <1>2, <1>3, <1>4

LEMMA SchedulerInvariant == Spec => []SchedulerInv
  BY SchedulerInit, SchedulerStep, PTL DEF Spec

\* Every step of the three threads keeps every variable in its type, whatever
\* frequencies collectors ask for.
THEOREM TypeCorrect == Spec => []TypeOK
<1>1. SchedulerInv => TypeOK
  BY DEF SchedulerInv
<1> QED
  BY <1>1, SchedulerInvariant, PTL

\* The promises that a run of Daemon checks too.
LEMMA SchedulerPromises ==
  SchedulerInv => /\ SleepsOnlyWhenIdle /\ TimerFollowsFrequency
                  /\ FreedOnlyUnderCallback /\ QuietAfterStop
<1> SUFFICES ASSUME SchedulerInv
             PROVE  /\ SleepsOnlyWhenIdle /\ TimerFollowsFrequency
                    /\ FreedOnlyUnderCallback /\ QuietAfterStop
  OBVIOUS
<1>1. SleepsOnlyWhenIdle
  BY DEF SchedulerInv, SleepInv, SleepsOnlyWhenIdle
<1>2. TimerFollowsFrequency
  BY DEF SchedulerInv, FollowInv, TimerFollowsFrequency
<1>3. FreedOnlyUnderCallback
  BY DEF SchedulerInv, RetiredInv, FreedOnlyUnderCallback
<1>4. QuietAfterStop
  BY QuietWhenStopped DEF SchedulerInv
<1> QED
  BY <1>1, <1>2, <1>3, <1>4

\* The loop thread never sleeps over an active timer but for a lost
\* notification (_ScheduleForever against Register).
THEOREM SleepIsSound == Spec => []SleepsOnlyWhenIdle
  BY SchedulerInvariant, SchedulerPromises, PTL

\* Whatever frequencies a collector goes through, negative ones and 0 among
\* them, its timer is the one its frequency asks for (_TimerCallback, Register).
THEOREM TimersFollow == Spec => []TimerFollowsFrequency
  BY SchedulerInvariant, SchedulerPromises, PTL

\* Stop uses no timer after its deletion unless it met the timer in its
\* callback (Stop's loop over _timers against _TimerCallback).
THEOREM DeletedTimersAreNotUsed == Spec => []FreedOnlyUnderCallback
  BY SchedulerInvariant, SchedulerPromises, PTL

\* When Stop has returned, nothing samples any more and no timer is left,
\* however Register, callbacks and Stop have interleaved.
THEOREM StopIsQuiet == Spec => []QuietAfterStop
  BY SchedulerInvariant, SchedulerPromises, PTL

-----------------------------------------------------------------------------
(* The daemon around it.                                                   *)

\* What the dispatcher thread and the main thread do is, for the scheduler, a
\* step of its own, nothing, or the end of the process.
LEMMA DaemonStepsSchedule == TypeOK /\ [DaemonNext]_allVars => [Next]_vars \/ Dies
<1> SUFFICES ASSUME TypeOK, [DaemonNext]_allVars PROVE [Next]_vars \/ Dies
  OBVIOUS
<1>1. CASE UNCHANGED allVars
  BY <1>1 DEF allVars
<1>2. CASE ~crashed /\ ListenStep
  <2>1. ASSUME NEW p \in Paths, NEW c \in Collectors, NEW f \in Frequencies,
               ReceiveInit(p, c, f)
        PROVE  Next
    BY <1>2, <2>1 DEF ReceiveInit, Next
  <2>2. ASSUME NEW p \in Paths, ReceiveStop(p) PROVE UNCHANGED vars
    BY <2>2 DEF ReceiveStop
  <2>3. ASSUME NEW p \in Paths, StopOfNone(p) PROVE Dies
    BY <2>3 DEF StopOfNone, Dies
  <2>4. CASE LoopEnds \/ ReceiveOther \/ ReceiveToken
    BY <2>4 DEF LoopEnds, ReceiveOther, ReceiveToken
  <2>5. CASE LoadFails
    BY <2>5 DEF LoadFails, Dies
  <2>6. CASE RecordMonitor
    BY <1>2, <2>6 DEF RecordMonitor, Next, DispStep
  <2> QED
    BY <1>2, <2>1, <2>2, <2>3, <2>4, <2>5, <2>6 DEF ListenStep
<1>3. CASE Signal
  BY <1>3 DEF Signal
<1>4. CASE ~crashed /\ BossStep
  <2>1. CASE StartWaiting \/ ClearListening
    BY <2>1 DEF StartWaiting, ClearListening
  <2>2. CASE SendToken
    BY <2>2 DEF SendToken, Dies, TypeOK
  <2>3. CASE JoinDispatcher
    BY <1>4, <2>3 DEF JoinDispatcher, Next
  <2> QED
    BY <1>4, <2>1, <2>2, <2>3 DEF BossStep
<1>5. CASE ~crashed /\ SchedulerOnly
  BY <1>5 DEF SchedulerOnly, Next, DispStep
<1>6. CASE Ended
  BY <1>6 DEF Ended
<1> QED
  BY <1>1, <1>2, <1>3, <1>4, <1>5, <1>6 DEF DaemonNext

\* In the daemon, too, however datagrams, signals and its end interleave: the
\* scheduler sleeps only when idle or for a lost notification, timers follow
\* their frequencies, Stop leaves nothing behind and deletes nothing in use
\* unless it met a callback.
THEOREM DaemonKeepsScheduler ==
  DaemonSpec => []/\ SleepsOnlyWhenIdle /\ TimerFollowsFrequency
                  /\ FreedOnlyUnderCallback /\ QuietAfterStop
<1>1. DaemonInit => SchedulerInv
  BY SchedulerInit DEF DaemonInit
<1>2. SchedulerInv /\ [DaemonNext]_allVars => SchedulerInv'
  BY DaemonStepsSchedule, SchedulerStep, SchedulerDies DEF SchedulerInv
<1> QED
  BY <1>1, <1>2, SchedulerPromises, PTL DEF DaemonSpec

LEMMA DaemonTypeStep ==
  DaemonTypeOK /\ SchedulerInv /\ SchedulerInv' /\ [DaemonNext]_allVars => DaemonTypeOK'
<1> SUFFICES ASSUME DaemonTypeOK, SchedulerInv, SchedulerInv', [DaemonNext]_allVars
             PROVE  DaemonTypeOK'
  OBVIOUS
<1>0. TypeOK' /\ TypeOK
  BY DEF SchedulerInv
<1> USE DEF DaemonTypeOK, BossState, mainLoopVars, listenVars, monitorVars,
            daemonVars, dispVars
<1>1. CASE UNCHANGED allVars
  BY <1>0, <1>1 DEF allVars, vars
<1>2. CASE ListenStep
  <2>1. ASSUME NEW p \in Paths, NEW c \in Collectors, NEW f \in Frequencies,
               ReceiveInit(p, c, f)
        PROVE  DaemonTypeOK'
    BY <1>0, <2>1 DEF ReceiveInit, Receive, AtReceive, StartTimer
  <2>2. ASSUME NEW p \in Paths, ReceiveStop(p) PROVE DaemonTypeOK'
    BY <1>0, <2>2 DEF ReceiveStop, vars
  <2>3. ASSUME NEW p \in Paths, StopOfNone(p) PROVE DaemonTypeOK'
    BY <1>0, <2>3 DEF StopOfNone
  <2>4. CASE LoopEnds \/ ReceiveOther
    BY <1>0, <2>4 DEF LoopEnds, ReceiveOther, vars
  <2>5. CASE ReceiveToken
    <3>1. ended' \in BOOLEAN
      BY <2>5, Zenon DEF ReceiveToken
    <3> QED
      BY <1>0, <2>5, <3>1 DEF ReceiveToken, vars
  <2>6. CASE LoadFails
    BY <1>0, <2>6 DEF LoadFails
  <2>7. CASE RecordMonitor
    <3>1. registering \in Collectors
      BY <1>0, <2>7 DEF RecordMonitor, BookKeep, TypeOK
    <3>2. monitors' \in [Paths -> Collectors \cup {Nobody}]
      BY <2>7, <3>1 DEF RecordMonitor
    <3> QED
      BY <1>0, <2>7, <3>2 DEF RecordMonitor, BookKeep
  <2> QED
    BY <1>2, <2>1, <2>2, <2>3, <2>4, <2>5, <2>6, <2>7 DEF ListenStep
<1>3. CASE Signal
  BY <1>0, <1>3 DEF Signal, vars
<1>4. CASE BossStep
  <2>1. CASE StartWaiting \/ ClearListening
    BY <1>0, <2>1 DEF StartWaiting, ClearListening, vars
  <2>2. CASE SendToken
    BY <1>0, <2>2 DEF SendToken
  <2>3. CASE JoinDispatcher
    BY <1>0, <2>3 DEF JoinDispatcher, DispatcherJoined
  <2> QED
    BY <1>4, <2>1, <2>2, <2>3 DEF BossStep
<1>5. CASE SchedulerOnly /\ UNCHANGED daemonVars
  <2>1. /\ UNCHANGED registered
        /\ dispPc' = "joined" <=> dispPc = "joined"
    <3>1. CASE LoopStep
      BY <3>1 DEF LoopStep, TestRunning, Wait, EvRunReturns, Fire, Sample, StreamSample
    <3>2. CASE SpuriousWakeup \/ RegisterNotifies
      BY <3>2 DEF SpuriousWakeup, RegisterNotifies
    <3>3. CASE StopClearsFlag \/ StopStep \/ Crash
      BY <3>3 DEF StopClearsFlag, StopStep, StopNotifies, StopTimer, FreeTimer,
                  AllStopped, Join, Crash
    <3> QED
      BY <1>5, <3>1, <3>2, <3>3 DEF SchedulerOnly
  <2> QED
    BY <1>0, <1>5, <2>1
<1>6. CASE Ended /\ UNCHANGED daemonVars
  BY <1>0, <1>6 DEF Ended, vars
<1> QED
  BY <1>1, <1>2, <1>3, <1>4, <1>5, <1>6 DEF DaemonNext

DaemonInv == SchedulerInv /\ DaemonTypeOK

LEMMA DaemonInvInit == DaemonInit => DaemonInv
<1> SUFFICES ASSUME DaemonInit PROVE DaemonInv
  OBVIOUS
<1>1. SchedulerInv
  BY SchedulerInit DEF DaemonInit
<1> QED
  BY <1>1 DEF DaemonInv, SchedulerInv, DaemonInit, DaemonTypeOK, Init, BossState

LEMMA DaemonInvStep == DaemonInv /\ [DaemonNext]_allVars => DaemonInv'
<1> SUFFICES ASSUME DaemonInv, [DaemonNext]_allVars PROVE DaemonInv'
  OBVIOUS
<1>1. SchedulerInv'
  BY DaemonStepsSchedule, SchedulerStep, SchedulerDies DEF DaemonInv, SchedulerInv
<1> QED
  BY <1>1, DaemonTypeStep DEF DaemonInv

\* The dispatcher's and the main thread's variables keep their types and agree
\* on when the dispatcher has been joined.
THEOREM DaemonTypeCorrect == DaemonSpec => []DaemonTypeOK
<1>1. DaemonInv => DaemonTypeOK
  BY DEF DaemonInv
<1> QED
  BY <1>1, DaemonInvInit, DaemonInvStep, PTL DEF DaemonSpec

-----------------------------------------------------------------------------
(* STOP reaches what INIT has loaded.                                      *)

\* What _monitors holds, and what has been stopped, is in _timers; what is
\* being registered is not there yet.
ListedInv ==
  /\ onStopped \subseteq Listed
  /\ \A p \in Paths : monitors[p] \in Listed \cup {Nobody}
  /\ registering \notin Listed

StopInv == ListedInv /\ Stoppable

\* Only INIT, STOP and the book-keeping after an INIT touch what StopInv speaks
\* of.
LEMMA DaemonSteps ==
  ASSUME [DaemonNext]_allVars
  PROVE  \/ UNCHANGED <<timers, registered, registering, monitors, pathOf, onStopped>>
         \/ \E p \in Paths, c \in Collectors, f \in Frequencies : ReceiveInit(p, c, f)
         \/ \E p \in Paths : ReceiveStop(p)
         \/ RecordMonitor
<1> USE DEF mainLoopVars, listenVars, monitorVars, daemonVars, dispVars, vars
<1>1. CASE UNCHANGED allVars
  BY <1>1 DEF allVars
<1>2. CASE ListenStep
  BY <1>2 DEF ListenStep, StopOfNone, LoopEnds, LoadFails, ReceiveOther, ReceiveToken
<1>3. CASE Signal \/ BossStep
  BY <1>3 DEF Signal, BossStep, StartWaiting, ClearListening, SendToken,
              JoinDispatcher, DispatcherJoined
<1>4. CASE SchedulerOnly /\ UNCHANGED daemonVars
  <2>1. CASE LoopStep
    BY <1>4, <2>1 DEF LoopStep, TestRunning, Wait, EvRunReturns, Fire, Sample, StreamSample
  <2>2. CASE SpuriousWakeup \/ RegisterNotifies
    BY <1>4, <2>2 DEF SpuriousWakeup, RegisterNotifies
  <2>3. CASE StopClearsFlag \/ StopStep \/ Crash
    BY <1>4, <2>3 DEF StopClearsFlag, StopStep, StopNotifies, StopTimer, FreeTimer,
                AllStopped, Join, Crash
  <2> QED
    BY <1>4, <2>1, <2>2, <2>3 DEF SchedulerOnly
<1>5. CASE Ended /\ UNCHANGED daemonVars
  BY <1>5 DEF Ended
<1> QED
  BY <1>1, <1>2, <1>3, <1>4, <1>5 DEF DaemonNext

LEMMA StopInit == DaemonInit => StopInv
  BY DEF DaemonInit, Init, StopInv, ListedInv, Listed, Stoppable

\* A new instance belongs to none of those before it.
LEMMA StopAfterInit ==
  ASSUME DaemonInv, StopInv, NEW p \in Paths, NEW c \in Collectors,
         NEW f \in Frequencies, ReceiveInit(p, c, f)
  PROVE  StopInv'
<1>1. /\ registering = Nobody /\ registering' = c
      /\ c \notin registered /\ registered' = registered \cup {c}
      /\ UNCHANGED <<timers, monitors, onStopped>>
      /\ pathOf' = [pathOf EXCEPT ![c] = p]
  BY DEF ReceiveInit, Receive, AtReceive, StartTimer, DaemonInv, DaemonTypeOK, TypeOK
<1>2. registered = Listed /\ Listed' = Listed
  BY <1>1 DEF DaemonInv, SchedulerInv, BookInv, Listed
<1>3. \A d \in Listed : pathOf'[d] = pathOf[d]
  BY <1>1, <1>2 DEF DaemonInv, DaemonTypeOK
<1>4. \A d \in Listed : Replaced(d) => Replaced(d)'
  <2>1. \A i \in 1..Len(timers) : timers[i] \in Listed
    BY DEF Listed
  <2> QED
    BY <1>1, <1>3, <2>1 DEF Replaced
<1>5. ListedInv'
  BY <1>1, <1>2 DEF StopInv, ListedInv
<1>6. ASSUME NEW d \in registered' \ (onStopped' \cup {registering'})
      PROVE  (monitors[pathOf[d]] = d \/ Replaced(d))'
  <2>1. d \in Listed /\ d \in registered \ (onStopped \cup {registering})
    BY <1>1, <1>2, <1>6, SchedulerAssumption DEF DaemonInv, SchedulerInv, TypeOK
  <2>2. monitors[pathOf[d]] = d \/ Replaced(d)
    BY <2>1 DEF StopInv, Stoppable
  <2> QED
    BY <1>1, <1>3, <1>4, <2>1, <2>2
<1>7. ASSUME NEW q \in Paths, monitors'[q] # Nobody
      PROVE  monitors'[q] \in registered' \ onStopped' /\ pathOf'[monitors'[q]] = q
  <2>1. monitors[q] \in Listed
    BY <1>1, <1>7 DEF StopInv, ListedInv
  <2> QED
    BY <1>1, <1>3, <1>7, <2>1 DEF StopInv, Stoppable
<1> QED
  BY <1>5, <1>6, <1>7 DEF StopInv, Stoppable

\* A collector that is stopped was not stopped before, and is the only one that
\* its path leads to.
LEMMA StopAfterStop ==
  ASSUME DaemonInv, StopInv, NEW p \in Paths, ReceiveStop(p)
  PROVE  StopInv'
<1>1. /\ monitors[p] # Nobody
      /\ onStopped' = onStopped \cup {monitors[p]}
      /\ monitors' = [monitors EXCEPT ![p] = Nobody]
      /\ UNCHANGED <<timers, registered, registering, pathOf>>
  BY DEF ReceiveStop, vars, dispVars
<1>2. \A q \in Paths : monitors'[q] = IF q = p THEN Nobody ELSE monitors[q]
  BY <1>1 DEF DaemonInv, DaemonTypeOK
<1>3. Listed' = Listed /\ \A d : Replaced(d)' <=> Replaced(d)
  BY <1>1 DEF Listed, Replaced
<1>4. ListedInv'
  BY <1>1, <1>2, <1>3 DEF StopInv, ListedInv
<1>5. ASSUME NEW d \in registered' \ (onStopped' \cup {registering'})
      PROVE  (monitors[pathOf[d]] = d \/ Replaced(d))'
  <2>1. d \in registered \ (onStopped \cup {registering}) /\ d # monitors[p]
    BY <1>1, <1>5
  <2>2. pathOf[d] \in Paths
    BY <2>1 DEF DaemonInv, DaemonTypeOK
  <2>3. monitors[pathOf[d]] = d \/ Replaced(d)
    BY <2>1 DEF StopInv, Stoppable
  <2> QED
    BY <1>1, <1>2, <1>3, <2>1, <2>2, <2>3
<1>6. ASSUME NEW q \in Paths, monitors'[q] # Nobody
      PROVE  monitors'[q] \in registered' \ onStopped' /\ pathOf'[monitors'[q]] = q
  <2>1. q # p /\ monitors'[q] = monitors[q]
    BY <1>2, <1>6
  <2>2. /\ monitors[q] \in registered \ onStopped /\ pathOf[monitors[q]] = q
        /\ pathOf[monitors[p]] = p
    BY <1>1, <1>6, <2>1 DEF StopInv, Stoppable
  <2> QED
    BY <1>1, <2>1, <2>2
<1> QED
  BY <1>4, <1>5, <1>6 DEF StopInv, Stoppable

\* What is recorded takes the place of what its path led to, and comes later
\* in _timers.
LEMMA StopAfterRecord ==
  ASSUME DaemonInv, StopInv, RecordMonitor
  PROVE  StopInv'
<1> DEFINE r == registering
           n == Len(timers)
<1>1. /\ timers' = Append(timers, r) /\ registering' = Nobody
      /\ monitors' = [monitors EXCEPT ![pathOf[r]] = r]
      /\ UNCHANGED <<registered, pathOf, onStopped>>
      /\ r # Nobody
  BY DEF RecordMonitor, BookKeep, DaemonInv, SchedulerInv, TypeOK
<1>2. r \in registered /\ pathOf[r] \in Paths /\ r \notin Listed /\ r \in Collectors
  BY <1>1 DEF DaemonInv, DaemonTypeOK, SchedulerInv, BookInv, StopInv, ListedInv, TypeOK
<1>3. /\ n \in Nat /\ Len(timers') = n + 1
      /\ \A i \in 1..n : timers'[i] = timers[i]
      /\ timers'[n + 1] = r
  BY <1>1, <1>2 DEF DaemonInv, SchedulerInv, TypeOK
<1> HIDE DEF r, n
<1>4. 1..(n + 1) = 1..n \cup {n + 1} /\ \A i \in 1..n : i < n + 1
  BY <1>3
<1>5. Listed' = Listed \cup {r}
  <2>1. Listed' = {timers'[i] : i \in 1..n \cup {n + 1}}
    BY <1>3, <1>4 DEF Listed
  <2>2. Listed' = {timers'[i] : i \in 1..n} \cup {r}
    BY <1>3, <2>1, Zenon
  <2>3. {timers'[i] : i \in 1..n} = Listed
    BY <1>3, Zenon DEF Listed, n
  <2> QED
    BY <2>2, <2>3
<1>6. Listed = registered \ {r} /\ Nobody \notin Listed /\ Listed \subseteq Collectors
  BY <1>2 DEF DaemonInv, SchedulerInv, TypeOK, BookInv, r
<1>7. \A q \in Paths : monitors'[q] = IF q = pathOf[r] THEN r ELSE monitors[q]
  BY <1>1 DEF DaemonInv, DaemonTypeOK
<1>8. ListedInv'
  <2>1. onStopped' \subseteq Listed' /\ registering' \notin Listed'
    BY <1>1, <1>5, <1>6 DEF StopInv, ListedInv
  <2>2. \A q \in Paths : monitors'[q] \in Listed' \cup {Nobody}
    BY <1>5, <1>7 DEF StopInv, ListedInv
  <2> QED
    BY <2>1, <2>2 DEF ListedInv
<1>9. ASSUME NEW d \in Listed, Replaced(d) \/ pathOf[d] = pathOf[r]
      PROVE  Replaced(d)'
  <2>1. CASE Replaced(d)
    <3>1. PICK i, j \in 1..n : i < j /\ timers[i] = d /\ pathOf[timers[j]] = pathOf[d]
      BY <2>1 DEF Replaced, n
    <3>2. i \in 1..Len(timers') /\ j \in 1..Len(timers')
      BY <1>3, <1>4
    <3> QED
      BY <1>1, <1>3, <3>1, <3>2 DEF Replaced
  <2>2. CASE pathOf[d] = pathOf[r]
    <3>1. PICK i \in 1..n : timers[i] = d
      BY DEF Listed, n
    <3>2. i \in 1..Len(timers') /\ n + 1 \in 1..Len(timers') /\ i < n + 1
      BY <1>3, <1>4
    <3> QED
      BY <1>1, <1>3, <2>2, <3>1, <3>2 DEF Replaced
  <2> QED
    BY <1>9, <2>1, <2>2
<1>10. ASSUME NEW d \in registered' \ (onStopped' \cup {registering'})
       PROVE  (monitors[pathOf[d]] = d \/ Replaced(d))'
  <2>1. CASE d = r
    BY <1>1, <1>2, <1>7, <2>1
  <2>2. CASE d # r
    <3>1. d \in Listed /\ d \in registered \ (onStopped \cup {r})
      BY <1>1, <1>6, <1>10, <2>2
    <3>2. pathOf[d] \in Paths
      BY <3>1 DEF DaemonInv, DaemonTypeOK
    <3>3. monitors[pathOf[d]] = d \/ Replaced(d)
      BY <3>1 DEF StopInv, Stoppable, r
    <3> QED
      BY <1>1, <1>7, <1>9, <3>1, <3>2, <3>3
  <2> QED
    BY <2>1, <2>2
<1>11. ASSUME NEW q \in Paths, monitors'[q] # Nobody
       PROVE  monitors'[q] \in registered' \ onStopped' /\ pathOf'[monitors'[q]] = q
  <2>1. CASE q = pathOf[r]
    <3>1. r \notin onStopped
      BY <1>2 DEF StopInv, ListedInv
    <3> QED
      BY <1>1, <1>2, <1>7, <2>1, <3>1
  <2>2. CASE q # pathOf[r]
    BY <1>1, <1>7, <1>11, <2>2 DEF StopInv, Stoppable
  <2> QED
    BY <2>1, <2>2
<1> QED
  BY <1>8, <1>10, <1>11 DEF StopInv, Stoppable

LEMMA StopStepKeeps == DaemonInv /\ StopInv /\ [DaemonNext]_allVars => StopInv'
<1> SUFFICES ASSUME DaemonInv, StopInv, [DaemonNext]_allVars PROVE StopInv'
  OBVIOUS
<1>1. CASE UNCHANGED <<timers, registered, registering, monitors, pathOf, onStopped>>
  BY <1>1 DEF StopInv, ListedInv, Listed, Stoppable, Replaced
<1> QED
  BY <1>1, DaemonSteps, StopAfterInit, StopAfterStop, StopAfterRecord

\* For any paths and instances, and whatever datagrams are lost, repeated or
\* reordered: STOP of its path reaches every collector that has not been
\* replaced, and none twice.
THEOREM SampledCanBeStopped == DaemonSpec => []Stoppable
<1>1. StopInv => Stoppable
  BY DEF StopInv
<1> QED
  BY <1>1, DaemonInvInit, DaemonInvStep, StopInit, StopStepKeeps, PTL DEF DaemonSpec
=============================================================================
