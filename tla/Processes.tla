----------------------------- MODULE Processes -----------------------------
(***************************************************************************)
(* lib/ProcessCollector.cpp with lib/PidMonitor.cpp and                    *)
(* lib/LinuxProcessMonitorLight.cpp, and the bar chart of                  *)
(* modules/barchart/Handler.cpp that shows what it reports.                *)
(*                                                                         *)
(* The processes of the host start, change their names and exit between    *)
(* any two steps of the collector: the scan of /proc, the opening of a     *)
(* process found, and the two reads (stat, then statm and io) of a monitor. *)
(* The load of a report stands for all that is measured between two reads. *)
(***************************************************************************)
EXTENDS Integers, Sequences, FiniteSets, FiniteSetsExt, SequencesExt

CONSTANTS
  Pids,         \* process identifiers
  Names,        \* process names
  NoName,
  NumBars,      \* NUM_PROCESSES_TO_DISPLAY - 1
  MaxProcesses, \* bound: processes that start; the k-th has the identity k
  MaxFaults,    \* bound: changes of name, listings and openings that fail and
                \* messages that are lost, together
  Loads         \* loads that two reads of a running process measure

ASSUME ProcessesAssumption ==
  /\ NoName \notin Names /\ IsFiniteSet(Names)
  /\ Pids \subseteq Nat /\ IsFiniteSet(Pids) /\ NumBars \in Nat \ {0}
  /\ NumBars <= Cardinality(Names)
  /\ MaxProcesses \in Nat /\ MaxFaults \in Nat /\ Loads \subseteq Nat

VARIABLES
  started,   \* processes started so far
  alive,     \* [Pids -> the process in /proc, 0 for none]
  name,      \* [Pids -> its name]
  faults,    \* faults so far, see MaxFaults
  pids,      \* PidMonitor: _new, the pids of the last scan
  seen,      \* history: running processes that the last scan saw
  missed,    \* history: running processes that could not be opened, or whose
             \* pid the scan before saw as another process's
  rescans,   \* history: listings of /proc that have failed
  toAdd,     \* pids that are still to be opened, in ascending order
  monitors,  \* _monitors: a sequence of MonitorOf
  pc, i,     \* the collector, see CollectorState, and its index in monitors
  load,      \* what monitor i has to report
  message,   \* _processesMsg
  chart,     \* the handler: [Names \X Pids -> load]
  ghosts     \* history: entries of the chart that nothing will reset, see
             \* Ghosts

hostVars == <<started, alive, name>>
scanVars == <<pids, rescans>>
loopVars == <<pc, i, load, message>>
historyVars == <<seen, missed>>
vars == <<hostVars, faults, scanVars, historyVars, toAdd, monitors, loopVars, chart, ghosts>>

\* new: before OnInit; init, add: adding what the scan of OnInit or of Sample
\* has found; stat, rest: before monitor i reads /proc/pid/stat, and before it
\* reads the other two files.
CollectorState == {"new", "init", "idle", "add", "stat", "rest"}

\* A new monitor of the process under p, and one that has read stat again.  The
\* round is history: the listings that had failed when the monitor was made.
MonitorOf(p) == [pid |-> p, process |-> alive[p], comm |-> name[p], round |-> rescans]
Renewed(m) == [m EXCEPT !.comm = name[m.pid]]
Running == {alive[p] : p \in Pids} \ {0}
IsDead(m) == alive[m.pid] # m.process

Init ==
  /\ started = 0 /\ alive = [p \in Pids |-> 0]
  /\ name = [p \in Pids |-> NoName] /\ faults = 0
  /\ pids = {} /\ seen = {} /\ missed = {} /\ rescans = 0
  /\ toAdd = {} /\ monitors = <<>>
  /\ pc = "new" /\ i = 1 /\ load = 0 /\ message = <<>>
  /\ chart = [k \in Names \X Pids |-> 0] /\ ghosts = {}

-----------------------------------------------------------------------------
(* The host.                                                               *)

Fault == faults < MaxFaults /\ faults' = faults + 1

Start(p, n) ==
  /\ alive[p] = 0 /\ started < MaxProcesses
  /\ started' = started + 1 /\ alive' = [alive EXCEPT ![p] = started + 1]
  /\ name' = [name EXCEPT ![p] = n]
  /\ UNCHANGED <<faults, historyVars>>

Exec(p, n) ==
  /\ alive[p] # 0 /\ name[p] # n
  /\ Fault /\ name' = [name EXCEPT ![p] = n]
  /\ UNCHANGED <<started, alive, historyVars>>

Exit(p) ==
  /\ alive[p] # 0
  /\ alive' = [alive EXCEPT ![p] = 0] /\ name' = [name EXCEPT ![p] = NoName]
  /\ seen' = seen \ {alive[p]} /\ missed' = missed \ {alive[p]}
  /\ UNCHANGED <<started, faults>>

Host ==
  /\ \E p \in Pids : Exit(p) \/ \E n \in Names : Start(p, n) \/ Exec(p, n)
  /\ UNCHANGED <<scanVars, toAdd, monitors, loopVars, chart, ghosts>>

-----------------------------------------------------------------------------
(* The collector.                                                          *)

\* Mutants: the arguments of set_difference are swapped; there is none.
OldOnly(S, T) == T \ S
AllOf(S, T) == S

\* PidMonitor::GetDifference.
Difference(S, T) == S \ T

\* Update and GetDifference: each pid is tried once, in the scan that first
\* sees it.  A failed listing is taken for an empty one.
ScanAs(found) ==
  /\ \/ pc = "new" /\ pc' = "init"
     \/ pc = "idle" /\ pc' = "add"
  /\ pids' = found
  /\ toAdd' = Difference(found, pids)
  /\ seen' = {alive[p] : p \in found}
  /\ missed' = missed \cup ({alive[p] : p \in found \cap pids} \ seen)
  /\ UNCHANGED <<hostVars, monitors, i, load, message, chart, ghosts>>

Scan == ScanAs({p \in Pids : alive[p] # 0}) /\ UNCHANGED <<rescans, faults>>
ScanFails == ScanAs({}) /\ rescans' = rescans + 1 /\ Fault

\* _AddProcess: opening may fail for want of descriptors, and does when the
\* process has gone.
AddProcess ==
  \E p \in toAdd :
  /\ pc \in {"init", "add"} /\ \A q \in toAdd : p <= q
  /\ toAdd' = toAdd \ {p}
  /\ \/ /\ alive[p] # 0
        /\ monitors' = Append(monitors, MonitorOf(p))
        /\ UNCHANGED <<faults, missed>>
     \/ /\ alive[p] # 0 /\ Fault
        /\ missed' = missed \cup {alive[p]}
        /\ UNCHANGED monitors
     \/ /\ alive[p] = 0
        /\ UNCHANGED <<faults, missed, monitors>>
  /\ UNCHANGED <<hostVars, scanVars, seen, loopVars, chart, ghosts>>

\* OnInit returns, and Sample goes on to its loop.
AllAdded ==
  /\ toAdd = {}
  /\ \/ pc = "init" /\ pc' = "idle"
     \/ pc = "add" /\ pc' = "stat"
  /\ UNCHANGED <<hostVars, faults, scanVars, historyVars, toAdd, monitors, i, load, message, chart,
                 ghosts>>

Report(m, amount, terminated) ==
  [name |-> m.comm, pid |-> m.pid, load |-> amount, isterminated |-> terminated]

\* Mutants: a process that has gone is not reported; it is not erased.
EraseOnly(m, amount) ==
  /\ monitors' = RemoveAt(monitors, i)
  /\ UNCHANGED message
ReportOnly(m, amount) ==
  /\ message' = Append(message, Report(m, amount, TRUE))
  /\ UNCHANGED monitors

\* Update has failed: the monitor is erased, and its old values are reported.
\* The index goes on to the next, so that the monitor after it is passed over.
ReportTerminated(m, amount) ==
  /\ monitors' = RemoveAt(monitors, i)
  /\ message' = Append(message, Report(m, amount, TRUE))

\* A name that the chart has charged to this pid and that no later report
\* bears.
Renamed(m, n) == {k \in {<<m.comm, m.pid>>} : m.comm # n /\ chart[k] > 0}

\* /proc/pid/stat: name and time, or nothing new once the process has gone.
ReadStat ==
  LET m == monitors[i] IN
  /\ pc = "stat" /\ i <= Len(monitors)
  /\ \/ /\ ~IsDead(m)
        /\ monitors' = [monitors EXCEPT ![i] = Renewed(m)]
        /\ load' \in Loads
        /\ ghosts' = ghosts \cup Renamed(m, name[m.pid])
        /\ pc' = "rest"
        /\ UNCHANGED <<i, message>>
     \/ /\ IsDead(m)
        /\ ReportTerminated(m, 0)
        /\ i' = i + 1
        /\ UNCHANGED <<pc, load, ghosts>>
  /\ UNCHANGED <<hostVars, faults, scanVars, historyVars, toAdd, chart>>

\* /proc/pid/statm and io, and the report.
ReadRest ==
  LET m == monitors[i] IN
  /\ pc = "rest"
  /\ \/ /\ ~IsDead(m)
        /\ message' = Append(message, Report(m, load, FALSE))
        /\ UNCHANGED monitors
     \/ /\ IsDead(m)
        /\ ReportTerminated(m, load)
  /\ i' = i + 1 /\ pc' = "stat" /\ load' = 0
  /\ UNCHANGED <<hostVars, faults, scanVars, historyVars, toAdd, chart, ghosts>>

-----------------------------------------------------------------------------
(* The handler.                                                            *)

Key(r) == <<r.name, r.pid>>

\* Handle: each report replaces what its process was charged before, so that
\* the last one counts.
Charged(c, reports) ==
  [k \in DOMAIN c |->
     LET of == {j \in DOMAIN reports : Key(reports[j]) = k}
     IN  IF of = {} THEN c[k] ELSE reports[Max(of)].load]

\* What the chart keeps of the processes reported as terminated.
Ghosts(reports, c) ==
  {Key(r) : r \in {q \in reports : q.isterminated /\ c[Key(q)] > 0}}

EndSample ==
  /\ pc = "stat" /\ i > Len(monitors)
  /\ pc' = "idle" /\ message' = <<>> /\ i' = 1
  /\ UNCHANGED <<hostVars, scanVars, historyVars, toAdd, monitors, load>>

\* The message reaches the handler before the next sample is taken, or never:
\* it was too large, or its connection was lost.
Delivered ==
  LET reports == ToSet(message) IN
  /\ EndSample
  /\ chart' = Charged(chart, message)
  /\ ghosts' = (ghosts \ {Key(r) : r \in reports}) \cup Ghosts(reports, chart')
  /\ UNCHANGED faults

Dropped ==
  /\ EndSample /\ message # <<>> /\ Fault
  /\ ghosts' = ghosts \cup Ghosts(ToSet(message), chart)
  /\ UNCHANGED chart

LoadOf(n) == MapThenSumSet(LAMBDA p : chart[<<n, p>>], Pids)

\* _UpdateBarChart: a heap of the NumBars largest, filled in the map's order.
\* A name that has never been reported is in no map; here it has no load.
\* Mutant: a name takes the place of the smallest bar if it is smaller.
ConsiderSmaller(heap, n) ==
  LET min == CHOOSE m \in heap : \A o \in heap : LoadOf(m) <= LoadOf(o)
  IN IF Cardinality(heap) < NumBars \/ LoadOf(n) < LoadOf(min)
       THEN {n} \cup (IF Cardinality(heap) < NumBars THEN heap ELSE heap \ {min})
       ELSE heap

Consider(heap, n) ==
  LET min == CHOOSE m \in heap : \A o \in heap : LoadOf(m) <= LoadOf(o)
  IN IF Cardinality(heap) < NumBars THEN heap \cup {n}
     ELSE IF LoadOf(n) > LoadOf(min) THEN (heap \ {min}) \cup {n}
     ELSE heap

Bars == FoldLeft(Consider, {}, SetToSeq(Names))

-----------------------------------------------------------------------------
Collect == Scan \/ AddProcess \/ AllAdded \/ ReadStat \/ ReadRest \/ Delivered
Next == Host \/ Collect \/ ScanFails \/ Dropped

\* The scheduler samples the collector again and again, see ActiveIsSampled of
\* module Scheduler.
Spec == Init /\ [][Next]_vars /\ WF_vars(Collect \/ Dropped)

-----------------------------------------------------------------------------
TypeOK ==
  /\ started \in 0..MaxProcesses
  /\ alive \in [Pids -> 0..started]
  /\ name \in [Pids -> Names \cup {NoName}] /\ faults \in 0..MaxFaults
  /\ pids \subseteq Pids /\ rescans \in 0..faults
  /\ seen \subseteq Running /\ missed \subseteq Running
  /\ toAdd \subseteq Pids
  /\ monitors \in Seq([pid : Pids, process : 0..started, comm : Names, round : 0..MaxFaults])
  /\ pc \in CollectorState /\ i \in 1..(Len(monitors) + 2)
  /\ pc = "rest" => i <= Len(monitors)
  /\ load \in Loads \cup {0}
  /\ message \in Seq([name : Names, pid : Pids, load : Loads \cup {0}, isterminated : BOOLEAN])
  /\ chart \in [Names \X Pids -> Loads \cup {0}]
  /\ ghosts \subseteq Names \X Pids

Monitored == {monitors[k].process : k \in DOMAIN monitors}

\* Between two failed listings no process gets a second monitor, whatever pids
\* come, go and are used again while the loop erases and passes over monitors.
\* A failed listing is taken for an empty /proc, and the next one makes a second
\* monitor of every process; a pid may have two, of different processes
\* (PidMonitor, _FindAllNewProcesses).
MonitoredOnce ==
  \A j, k \in DOMAIN monitors :
    /\ monitors[j].process = monitors[k].process
    /\ monitors[j].round = monitors[k].round
    => j = k

\* Between samples every process that the last scan saw and that still runs is
\* monitored, unless opening it failed or it runs under the pid of a process
\* that the scan before saw (PidMonitor::GetDifference).
LiveIsMonitored ==
  pc = "idle" => seen \subseteq Monitored \cup missed

\* The chart charges a load only to a process that is still monitored and goes
\* by that name, so that what has ended leaves the chart, unless the process
\* changed its name, went between its two reads, or its last report was lost
\* (Sample against Handle, which ignores isterminated).
ChartCountsLive ==
  pc = "idle" =>
    \A k \in Names \X Pids :
      chart[k] > 0 =>
        \/ k \in ghosts
        \/ \E j \in DOMAIN monitors : <<monitors[j].comm, monitors[j].pid>> = k

\* The bars are NumBars names with the largest loads, in whatever order the
\* map holds them (_UpdateBarChart).
BarsAreTop ==
  /\ Cardinality(Bars) = NumBars
  /\ \A n \in Bars, o \in Names \ Bars : LoadOf(n) >= LoadOf(o)

\* The monitor of a process that has gone is found out and erased, although
\* each erasure makes the loop pass over the next monitor (Sample).
DeadIsErased ==
  \A k \in 1..MaxProcesses :
    k \in Monitored \ Running ~> k \notin Monitored
=============================================================================
