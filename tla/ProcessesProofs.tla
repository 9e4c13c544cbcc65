--------------------------- MODULE ProcessesProofs ---------------------------
(***************************************************************************)
(* What the process collector and the bar chart promise for any host: any  *)
(* pids, names and loads, any number of processes that start, change their *)
(* names and exit between any two steps, and any number of faults.         *)
(***************************************************************************)
EXTENDS Processes, TLAPS, SequenceTheorems, NaturalsInduction, WellFoundedInduction,
        FiniteSetTheorems

USE ProcessesAssumption

-----------------------------------------------------------------------------
(* Types.                                                                  *)

\* Erasing an element leaves those before it, and no new ones.
LEMMA Erased ==
  ASSUME NEW S, NEW s \in Seq(S), NEW k \in 1..Len(s)
  PROVE  /\ RemoveAt(s, k) \in Seq(S) /\ Len(RemoveAt(s, k)) = Len(s) - 1
         /\ \A j \in 1..(Len(s) - 1) :
              RemoveAt(s, k)[j] = IF j < k THEN s[j] ELSE s[j + 1]
<1> DEFINE a == SubSeq(s, 1, k - 1)
           b == SubSeq(s, k + 1, Len(s))
<1>1. Len(s) \in Nat /\ k \in Nat /\ 1 <= k /\ k <= Len(s)
  OBVIOUS
<1>2. a \in Seq(S) /\ Len(a) = k - 1 /\ \A j \in 1..(k - 1) : a[j] = s[j]
  OBVIOUS
<1>3. /\ b \in Seq(S) /\ Len(b) = Len(s) - k
      /\ \A j \in 1..(Len(s) - k) : b[j] = s[k + j]
  OBVIOUS
<1>4. RemoveAt(s, k) = a \o b
  BY DEF RemoveAt
<1> HIDE DEF a, b
<1>5. /\ a \o b \in Seq(S) /\ Len(a \o b) = Len(s) - 1
      /\ \A j \in 1..(Len(s) - 1) : (a \o b)[j] = IF j < k THEN s[j] ELSE s[j + 1]
  <2>1. a \o b \in Seq(S) /\ Len(a \o b) = Len(s) - 1
    <3>1. a \o b \in Seq(S) /\ Len(a \o b) = Len(a) + Len(b)
      BY <1>2, <1>3, ConcatProperties
    <3> QED
      BY <1>1, <1>2, <1>3, <3>1
  <2>2. ASSUME NEW j \in 1..(Len(s) - 1)
        PROVE  (a \o b)[j] = IF j < k THEN s[j] ELSE s[j + 1]
    <3>1. j \in 1..(Len(a) + Len(b)) /\ j \in Nat
      BY <1>1, <1>2, <1>3
    <3>2. (a \o b)[j] = IF j <= Len(a) THEN a[j] ELSE b[j - Len(a)]
      BY <1>2, <1>3, <3>1
    <3>3. CASE j < k
      BY <1>1, <1>2, <3>1, <3>2, <3>3
    <3>4. CASE j >= k
      <4>1. j - Len(a) \in 1..(Len(s) - k) /\ k + (j - Len(a)) = j + 1
        BY <1>1, <1>2, <3>1, <3>4
      <4> QED
        BY <1>1, <1>2, <1>3, <3>1, <3>2, <3>4, <4>1
    <3> QED
      BY <1>1, <3>1, <3>3, <3>4
  <2> QED
    BY <2>1, <2>2
<1> QED
  BY <1>4, <1>5

Monitors(n) == [pid : Pids, process : 0..n, comm : Names, round : 0..MaxFaults]
Reports == [name : Names, pid : Pids, load : Loads \cup {0}, isterminated : BOOLEAN]

\* A process has a name and is found under one pid.
HostInv ==
  /\ \A p \in Pids : alive[p] # 0 => name[p] \in Names
  /\ \A p, q \in Pids : alive[p] = alive[q] /\ alive[p] # 0 => p = q

\* A monitor has a process, which can only run under the monitor's pid, and was
\* made before as many listings had failed.
MonitorInv ==
  \A j \in 1..Len(monitors) :
    /\ monitors[j].process # 0 /\ monitors[j].round <= rescans
    /\ \A q \in Pids : monitors[j].process = alive[q] => q = monitors[j].pid

\* What the collector's position says.
PcInv ==
  /\ pc \in {"new", "idle", "stat", "rest"} => toAdd = {}
  /\ pc \in {"new", "init", "idle", "add"} => message = <<>> /\ i = 1
  /\ toAdd \subseteq pids

IInv == TypeOK /\ HostInv /\ MonitorInv /\ PcInv

LEMMA InvInit == Init => IInv
<1> SUFFICES ASSUME Init PROVE IInv
  OBVIOUS
<1>1. Len(monitors) = 0
  BY DEF Init
<1>2. /\ started \in 0..MaxProcesses /\ faults \in 0..MaxFaults
      /\ pc \in CollectorState /\ i \in 1..(Len(monitors) + 2)
      /\ (pc = "rest") => (i <= Len(monitors))
  BY <1>1 DEF Init, CollectorState
<1>3. alive \in [Pids -> 0..started] /\ name \in [Pids -> Names \cup {NoName}]
  BY DEF Init
<1>4. /\ pids \subseteq Pids /\ rescans \in 0..faults /\ seen \subseteq Running
      /\ missed \subseteq Running /\ toAdd \subseteq Pids /\ load \in Loads \cup {0}
      /\ ghosts \subseteq Names \X Pids
  BY DEF Init
<1>5. /\ monitors \in Seq([pid : Pids, process : 0..started, comm : Names, round : 0..MaxFaults])
      /\ message \in Seq([name : Names, pid : Pids, load : Loads \cup {0}, isterminated : BOOLEAN])
  BY DEF Init
<1>6. chart \in [Names \X Pids -> Loads \cup {0}]
  BY DEF Init
<1>7. TypeOK
  BY <1>2, <1>3, <1>4, <1>5, <1>6 DEF TypeOK
<1>8. HostInv /\ MonitorInv /\ PcInv
  BY <1>1 DEF Init, HostInv, MonitorInv, PcInv
<1> QED
  BY <1>7, <1>8 DEF IInv

\* Monitors keep their type as processes start.
LEMMA MonitorsGrow ==
  ASSUME NEW m \in Nat, NEW n \in Nat, m <= n
  PROVE  Seq(Monitors(m)) \subseteq Seq(Monitors(n))
<1>1. 0..m \subseteq 0..n
  OBVIOUS
<1>2. Monitors(m) \subseteq Monitors(n)
  BY <1>1 DEF Monitors
<1> HIDE DEF Monitors
<1> QED
  BY <1>2

LEMMA MonitorTypes ==
  ASSUME TypeOK
  PROVE  /\ monitors \in Seq(Monitors(started)) /\ Len(monitors) \in Nat
         /\ \A j \in 1..Len(monitors) :
              /\ monitors[j] \in Monitors(started) /\ monitors[j].pid \in Pids
              /\ monitors[j].process \in 0..started /\ monitors[j].comm \in Names
              /\ monitors[j].round \in 0..MaxFaults
         /\ started \in Nat /\ message \in Seq(Reports)
<1>1. /\ monitors \in Seq(Monitors(started)) /\ message \in Seq(Reports)
      /\ started \in Nat
  BY DEF TypeOK, Monitors, Reports
<1>2. \A m \in Monitors(started) : m.pid \in Pids /\ m.process \in 0..started /\ m.comm \in Names
                                 /\ m.round \in 0..MaxFaults
  BY DEF Monitors
<1> HIDE DEF Monitors
<1> QED
  BY <1>1, <1>2

\* What happens on the host.
LEMMA HostKeeps == IInv /\ Host => IInv'
<1> SUFFICES ASSUME IInv, Host PROVE IInv'
  OBVIOUS
<1> USE DEF IInv
<1>0. UNCHANGED <<scanVars, toAdd, monitors, loopVars, chart, ghosts>>
  BY DEF Host
<1>1. PcInv'
  BY <1>0 DEF PcInv, scanVars, loopVars
<1>2. ASSUME NEW p \in Pids, Exit(p)
      PROVE  TypeOK' /\ HostInv' /\ MonitorInv'
  <2>1. /\ \A q \in Pids : alive'[q] = IF q = p THEN 0 ELSE alive[q]
        /\ \A q \in Pids : name'[q] = IF q = p THEN NoName ELSE name[q]
        /\ seen' = seen \ {alive[p]} /\ missed' = missed \ {alive[p]}
        /\ UNCHANGED <<started, faults>> /\ alive[p] # 0
    BY <1>2 DEF Exit, TypeOK
  <2>2. HostInv'
    BY <2>1 DEF HostInv
  <2>3. MonitorInv'
    BY <1>0, <2>1 DEF MonitorInv, scanVars
  <2>4. Running \ {alive[p]} \subseteq Running'
    BY <2>1 DEF Running
  <2>5. /\ alive' \in [Pids -> 0..started] /\ name' \in [Pids -> Names \cup {NoName}]
        /\ seen' \subseteq Running' /\ missed' \subseteq Running'
    BY <1>2, <2>1, <2>4 DEF Exit, TypeOK
  <2>6. TypeOK'
    BY <1>0, <2>1, <2>5 DEF TypeOK, scanVars, loopVars
  <2> QED
    BY <2>2, <2>3, <2>6
<1>3. ASSUME NEW p \in Pids, NEW n \in Names, Start(p, n)
      PROVE  TypeOK' /\ HostInv' /\ MonitorInv'
  <2>1. /\ \A q \in Pids : alive'[q] = IF q = p THEN started + 1 ELSE alive[q]
        /\ \A q \in Pids : name'[q] = IF q = p THEN n ELSE name[q]
        /\ UNCHANGED <<faults, seen, missed>> /\ alive[p] = 0
        /\ started' = started + 1
        /\ started \in Nat /\ \A q \in Pids : alive[q] \in 0..started
    BY <1>3 DEF Start, TypeOK, historyVars
  <2>2. HostInv'
    BY <2>1 DEF HostInv
  <2>3. MonitorInv'
    <3>1. monitors' = monitors /\ rescans' = rescans
      BY <1>0 DEF scanVars
    <3>2. \A j \in 1..Len(monitors) : monitors[j].process \in 0..started
      BY MonitorTypes
    <3>3. \A j \in 1..Len(monitors) : monitors[j].process # started + 1
      BY <2>1, <3>2
    <3>4. \A j \in 1..Len(monitors) : \A q \in Pids :
            (monitors[j].process = alive'[q]) => (monitors[j].process = alive[q] /\ q # p)
      BY <2>1, <3>3
    <3> QED
      BY <3>1, <3>4 DEF MonitorInv
  <2>4. Running \subseteq Running'
    BY <2>1 DEF Running
  <2>5. monitors' \in Seq(Monitors(started'))
    BY <1>0, <2>1, MonitorTypes, MonitorsGrow
  <2>6. alive' \in [Pids -> 0..started'] /\ name' \in [Pids -> Names \cup {NoName}]
    BY <1>3, <2>1 DEF Start, TypeOK
  <2>7. started' \in 0..MaxProcesses
    BY <1>3 DEF Start, TypeOK
  <2> QED
    BY <1>0, <2>1, <2>2, <2>3, <2>4, <2>5, <2>6, <2>7
    DEF TypeOK, scanVars, loopVars, Monitors
<1>4. ASSUME NEW p \in Pids, NEW n \in Names, Exec(p, n)
      PROVE  TypeOK' /\ HostInv' /\ MonitorInv'
  <2>1. /\ UNCHANGED <<started, alive, seen, missed>>
        /\ name' = [name EXCEPT ![p] = n] /\ faults' = faults + 1 /\ faults < MaxFaults
    BY <1>4 DEF Exec, Fault, historyVars
  <2>2. HostInv'
    BY <2>1 DEF HostInv, TypeOK
  <2>3. MonitorInv'
    BY <1>0, <2>1 DEF MonitorInv, scanVars
  <2>4. /\ faults' \in 0..MaxFaults /\ rescans \in 0..faults'
        /\ name' \in [Pids -> Names \cup {NoName}] /\ Running' = Running
    BY <2>1 DEF TypeOK, Running
  <2>5. rescans' = rescans
    BY <1>0 DEF scanVars
  <2>6. TypeOK'
    BY <1>0, <2>1, <2>4, <2>5 DEF TypeOK, scanVars, loopVars
  <2> QED
    BY <2>2, <2>3, <2>6
<1> QED
  BY <1>1, <1>2, <1>3, <1>4 DEF Host

-----------------------------------------------------------------------------
(* The collector's steps.                                                  *)

LEMMA ScanKeeps ==
  ASSUME IInv, NEW found, found \subseteq {p \in Pids : alive[p] # 0}, ScanAs(found),
         rescans' \in rescans..faults', faults' \in 0..MaxFaults
  PROVE  IInv'
<1> USE DEF IInv
<1>1. /\ pids' = found /\ toAdd' = found \ pids /\ seen' = {alive[p] : p \in found}
      /\ missed' = missed \cup ({alive[p] : p \in found \cap pids} \ seen)
      /\ UNCHANGED <<started, alive, name, monitors, i, load, message, chart, ghosts>>
      /\ (pc = "new" /\ pc' = "init") \/ (pc = "idle" /\ pc' = "add")
  BY DEF ScanAs, Difference, hostVars
<1>2. HostInv' /\ MonitorInv'
  <2>1. rescans \in Nat /\ rescans' \in Nat /\ rescans <= rescans' /\ rescans' <= faults'
    BY DEF TypeOK
  <2>2. \A j \in 1..Len(monitors) : monitors[j].round \in Nat
    BY MonitorTypes
  <2> QED
    BY <1>1, <2>1, <2>2 DEF HostInv, MonitorInv
<1>3. PcInv'
  BY <1>1 DEF PcInv
<1>4. /\ Running' = Running /\ seen' \subseteq Running /\ missed' \subseteq Running
      /\ pids' \subseteq Pids /\ toAdd' \subseteq Pids
  BY <1>1 DEF Running, TypeOK
<1>5. TypeOK'
  BY <1>1, <1>4 DEF TypeOK, CollectorState
<1> QED
  BY <1>2, <1>3, <1>5

\* A monitor of a running process.
LEMMA MonitorOfLive ==
  ASSUME TypeOK, HostInv, NEW p \in Pids, alive[p] # 0
  PROVE  /\ MonitorOf(p) \in Monitors(started)
         /\ MonitorOf(p).pid = p /\ MonitorOf(p).process = alive[p]
         /\ MonitorOf(p).comm = name[p] /\ MonitorOf(p).round = rescans
         /\ \A q \in Pids : MonitorOf(p).process = alive[q] => q = p
  BY DEF TypeOK, HostInv, MonitorOf, Monitors

LEMMA AddKeeps == IInv /\ AddProcess => IInv'
<1> SUFFICES ASSUME IInv, AddProcess PROVE IInv'
  OBVIOUS
<1> USE DEF IInv
<1>1. PICK p \in toAdd :
        /\ pc \in {"init", "add"} /\ toAdd' = toAdd \ {p}
        /\ \/ /\ alive[p] # 0
              /\ monitors' = Append(monitors, MonitorOf(p))
              /\ UNCHANGED <<faults, missed>>
           \/ /\ alive[p] # 0 /\ Fault
              /\ missed' = missed \cup {alive[p]}
              /\ UNCHANGED monitors
           \/ /\ alive[p] = 0
              /\ UNCHANGED <<faults, missed, monitors>>
        /\ UNCHANGED <<hostVars, scanVars, seen, loopVars, chart, ghosts>>
  BY DEF AddProcess
<1>2. p \in Pids
  BY <1>1 DEF TypeOK
<1>3. HostInv'
  BY <1>1 DEF HostInv, hostVars
<1>4. PcInv'
  BY <1>1 DEF PcInv, scanVars, loopVars
<1>5. /\ faults' \in 0..MaxFaults /\ missed' \subseteq Running /\ Running' = Running
      /\ rescans' \in 0..faults'
  <2>1. missed' \subseteq Running /\ Running' = Running
    BY <1>1, <1>2 DEF TypeOK, Running, hostVars
  <2>2. faults' = faults \/ (faults < MaxFaults /\ faults' = faults + 1)
    BY <1>1 DEF Fault
  <2>3. rescans' = rescans /\ faults \in 0..MaxFaults /\ rescans \in 0..faults
    BY <1>1 DEF scanVars, TypeOK
  <2> QED
    BY <2>1, <2>2, <2>3
<1>6. monitors' \in Seq(Monitors(started)) /\ MonitorInv' /\ Len(monitors') \in Nat
  <2>1. CASE monitors' = monitors
    BY <1>1, <2>1, MonitorTypes DEF MonitorInv, hostVars, scanVars
  <2>2. CASE alive[p] # 0 /\ monitors' = Append(monitors, MonitorOf(p))
    <3>1. /\ monitors' \in Seq(Monitors(started)) /\ Len(monitors') = Len(monitors) + 1
          /\ \A j \in 1..Len(monitors) : monitors'[j] = monitors[j]
          /\ monitors'[Len(monitors) + 1] = MonitorOf(p) /\ Len(monitors) \in Nat
      BY <2>2, <1>2, MonitorTypes, MonitorOfLive
    <3>2. ASSUME NEW j \in 1..Len(monitors')
          PROVE  /\ monitors'[j].process # 0
                 /\ monitors'[j].round <= rescans'
                 /\ \A q \in Pids : monitors'[j].process = alive'[q] => q = monitors'[j].pid
      <4>1. alive' = alive /\ rescans' = rescans /\ rescans \in Nat
        BY <1>1 DEF hostVars, scanVars, TypeOK
      <4>2. CASE j = Len(monitors) + 1
        BY <4>1, <4>2, <3>1, <2>2, <1>2, MonitorOfLive
      <4>3. CASE j \in 1..Len(monitors)
        BY <4>1, <4>3, <3>1 DEF MonitorInv
      <4> QED
        BY <3>1, <4>2, <4>3
    <3> QED
      BY <3>1, <3>2 DEF MonitorInv
  <2> QED
    BY <1>1, <2>1, <2>2
<1>7. i' = 1 /\ i' \in 1..(Len(monitors') + 2)
  BY <1>1, <1>6 DEF PcInv, loopVars
<1>8. toAdd' \subseteq Pids
  BY <1>1 DEF TypeOK
<1>9. TypeOK'
  BY <1>1, <1>5, <1>6, <1>7, <1>8 DEF TypeOK, hostVars, scanVars, loopVars, Monitors
<1> QED
  BY <1>3, <1>4, <1>6, <1>9

LEMMA AllAddedKeeps == IInv /\ AllAdded => IInv'
<1> SUFFICES ASSUME IInv, AllAdded PROVE IInv'
  OBVIOUS
<1> USE DEF IInv
<1>1. HostInv' /\ MonitorInv' /\ PcInv'
  BY DEF AllAdded, HostInv, MonitorInv, PcInv, hostVars, scanVars
<1>2. TypeOK'
  BY DEF AllAdded, TypeOK, Running, hostVars, scanVars, historyVars, CollectorState
<1> QED
  BY <1>1, <1>2

\* A report of a monitor is typed.
LEMMA ReportIs ==
  ASSUME NEW m, m.pid \in Pids, m.comm \in Names, NEW amount \in Loads \cup {0},
         NEW terminated \in BOOLEAN
  PROVE  /\ Report(m, amount, terminated) \in Reports
         /\ Key(Report(m, amount, terminated)) = <<m.comm, m.pid>>
         /\ Report(m, amount, terminated).load = amount
         /\ Report(m, amount, terminated).isterminated = terminated
  BY DEF Report, Reports, Key

LEMMA ReportAppended ==
  ASSUME NEW s \in Seq(Reports), NEW r \in Reports
  PROVE  /\ Append(s, r) \in Seq(Reports) /\ Len(Append(s, r)) = Len(s) + 1
         /\ Append(s, r)[Len(s) + 1] = r /\ Len(s) \in Nat
         /\ \A j \in 1..Len(s) : Append(s, r)[j] = s[j]
<1> HIDE DEF Reports
<1> QED
  OBVIOUS

\* What an erasure leaves: a monitor that was there, at its place or after it.
LEMMA TerminatedKeeps ==
  ASSUME TypeOK, MonitorInv, NEW amount \in Loads \cup {0}, i \in 1..Len(monitors),
         ReportTerminated(monitors[i], amount), alive' = alive, rescans' = rescans
  PROVE  /\ monitors' \in Seq(Monitors(started)) /\ Len(monitors') = Len(monitors) - 1
         /\ \A j \in 1..(Len(monitors) - 1) :
              monitors'[j] = IF j < i THEN monitors[j] ELSE monitors[j + 1]
         /\ MonitorInv'
         /\ message' = Append(message, Report(monitors[i], amount, TRUE))
         /\ message' \in Seq(Reports)
<1>1. /\ monitors' \in Seq(Monitors(started)) /\ Len(monitors') = Len(monitors) - 1
      /\ \A j \in 1..(Len(monitors) - 1) :
           monitors'[j] = IF j < i THEN monitors[j] ELSE monitors[j + 1]
  BY MonitorTypes, Erased DEF ReportTerminated
<1>2. ASSUME NEW j \in 1..Len(monitors') PROVE \E k \in 1..Len(monitors) : monitors'[j] = monitors[k]
  BY <1>1, MonitorTypes
<1>3. MonitorInv'
  BY <1>2 DEF MonitorInv
<1>4. message' \in Seq(Reports)
  <2>1. Report(monitors[i], amount, TRUE) \in Reports
    BY MonitorTypes, ReportIs
  <2> QED
    BY <2>1, MonitorTypes, ReportAppended DEF ReportTerminated
<1> QED
  BY <1>1, <1>3, <1>4 DEF ReportTerminated

LEMMA StatKeeps == IInv /\ ReadStat => IInv'
<1> SUFFICES ASSUME IInv, ReadStat PROVE IInv'
  OBVIOUS
<1> USE DEF IInv
<1> DEFINE m == monitors[i]
<1>1. /\ pc = "stat" /\ i \in 1..Len(monitors)
      /\ UNCHANGED <<started, alive, name, faults, pids, rescans, seen, missed, toAdd, chart>>
  BY MonitorTypes DEF ReadStat, TypeOK, hostVars, scanVars, historyVars
<1>2. HostInv' /\ Running' = Running
  BY <1>1 DEF HostInv, Running
<1>3. toAdd' = {} /\ pids' = pids /\ Len(monitors) \in Nat
  BY <1>1, MonitorTypes DEF PcInv
<1>4. m \in Monitors(started) /\ m.pid \in Pids /\ m.comm \in Names
  BY <1>1, MonitorTypes
<1>5. CASE IsDead(m)
  <2>1. ReportTerminated(m, 0) /\ i' = i + 1 /\ UNCHANGED <<pc, load, ghosts>>
    BY <1>5 DEF ReadStat
  <2>2. /\ monitors' \in Seq(Monitors(started)) /\ Len(monitors') = Len(monitors) - 1
        /\ MonitorInv' /\ message' \in Seq(Reports)
    BY <1>1, <2>1, TerminatedKeeps
  <2>3. i' \in 1..(Len(monitors') + 2) /\ pc' = "stat"
    BY <1>1, <1>3, <2>1, <2>2
  <2>4. TypeOK'
    BY <1>1, <1>2, <2>1, <2>2, <2>3 DEF TypeOK, Monitors, Reports
  <2>5. PcInv'
    BY <1>1, <1>3, <2>3 DEF PcInv
  <2> QED
    BY <1>2, <2>2, <2>4, <2>5
<1>6. CASE ~IsDead(m)
  <2>1. /\ monitors' = [monitors EXCEPT ![i] = Renewed(m)]
        /\ load' \in Loads /\ ghosts' = ghosts \cup Renamed(m, name[m.pid])
        /\ pc' = "rest" /\ UNCHANGED <<i, message>>
    BY <1>6 DEF ReadStat
  <2>2. alive[m.pid] = m.process /\ m.process # 0
    BY <1>1, <1>6 DEF IsDead, MonitorInv
  <2>3. /\ Renewed(m) \in Monitors(started) /\ Renewed(m).pid = m.pid
        /\ Renewed(m).process = m.process /\ Renewed(m).round = m.round
    <3>1. name[m.pid] \in Names
      BY <1>4, <2>2 DEF HostInv
    <3> QED
      BY <1>4, <3>1 DEF Renewed, Monitors
  <2>4. /\ monitors' \in Seq(Monitors(started)) /\ Len(monitors') = Len(monitors)
        /\ \A j \in 1..Len(monitors) :
             monitors'[j] = IF j = i THEN Renewed(m) ELSE monitors[j]
    BY <1>1, <2>1, <2>3, MonitorTypes
  <2>5. MonitorInv'
    BY <1>1, <2>2, <2>3, <2>4 DEF MonitorInv
  <2>6. Renamed(m, name[m.pid]) \subseteq Names \X Pids
    BY <1>4 DEF Renamed
  <2> HIDE DEF m
  <2>7. TypeOK'
    <3>1. i' \in 1..(Len(monitors') + 2) /\ i' <= Len(monitors')
      BY <1>1, <1>3, <2>1, <2>4
    <3> QED
      BY <1>1, <1>2, <2>1, <2>4, <2>6, <3>1 DEF TypeOK, Monitors, CollectorState
  <2>8. PcInv'
    BY <1>1, <1>3, <2>1 DEF PcInv
  <2> QED
    BY <1>2, <2>5, <2>7, <2>8
<1> QED
  BY <1>5, <1>6

LEMMA RestKeeps == IInv /\ ReadRest => IInv'
<1> SUFFICES ASSUME IInv, ReadRest PROVE IInv'
  OBVIOUS
<1> USE DEF IInv
<1> DEFINE m == monitors[i]
<1>1. /\ pc = "rest" /\ i \in 1..Len(monitors)
      /\ i' = i + 1 /\ pc' = "stat" /\ load' = 0
      /\ UNCHANGED <<started, alive, name, faults, pids, rescans, seen, missed, toAdd, chart, ghosts>>
  BY MonitorTypes DEF ReadRest, TypeOK, hostVars, scanVars, historyVars
<1>2. HostInv' /\ Running' = Running
  BY <1>1 DEF HostInv, Running
<1>3. Len(monitors) \in Nat /\ load \in Loads \cup {0}
  BY MonitorTypes DEF TypeOK
<1>4. m \in Monitors(started) /\ m.pid \in Pids /\ m.comm \in Names
  BY <1>1, MonitorTypes
<1>5. /\ monitors' \in Seq(Monitors(started)) /\ MonitorInv' /\ message' \in Seq(Reports)
      /\ i' \in 1..(Len(monitors') + 2)
  <2>1. CASE IsDead(m)
    <3>1. ReportTerminated(m, load)
      BY <2>1 DEF ReadRest
    <3>2. /\ monitors' \in Seq(Monitors(started)) /\ Len(monitors') = Len(monitors) - 1
          /\ MonitorInv' /\ message' \in Seq(Reports)
      BY <1>1, <1>3, <3>1, TerminatedKeeps
    <3> QED
      BY <1>1, <1>3, <3>2
  <2>2. CASE ~IsDead(m)
    <3>1. message' = Append(message, Report(m, load, FALSE)) /\ monitors' = monitors
      BY <2>2 DEF ReadRest
    <3>2. Report(m, load, FALSE) \in Reports
      BY <1>3, <1>4, ReportIs
    <3>3. message' \in Seq(Reports)
      BY <3>1, <3>2, MonitorTypes, ReportAppended
    <3>4. i' \in 1..(Len(monitors') + 2)
      BY <1>1, <1>3, <3>1
    <3> QED
      BY <1>1, <3>1, <3>3, <3>4, MonitorTypes DEF MonitorInv
  <2> QED
    BY <2>1, <2>2
<1>6. TypeOK'
  BY <1>1, <1>2, <1>5 DEF TypeOK, Monitors, Reports, CollectorState
<1>7. PcInv'
  BY <1>1 DEF PcInv
<1> QED
  BY <1>2, <1>5, <1>6, <1>7

LEMMA LargestOfNat ==
  ASSUME NEW n \in Nat, NEW T, T \subseteq 1..n, T # {}
  PROVE  Max(T) \in T /\ \A x \in T : x <= Max(T)
<1> DEFINE U == {n - x : x \in T}
<1>1. U \subseteq Nat /\ U # {} /\ T \subseteq Nat
  OBVIOUS
<1>2. IsWellFoundedOn(OpToRel(<, Nat), Nat)
  BY NatLessThanWellFounded
<1>3. PICK u \in U : \A v \in U : ~ (<<v, u>> \in OpToRel(<, Nat))
  <2> HIDE DEF U
  <2> QED
    BY <1>1, <1>2, WFMin, Zenon
<1>4. \A v \in U : u <= v
  <2>1. \A v \in U : v \in Nat /\ u \in Nat /\ ~(v < u)
    BY <1>1, <1>3 DEF OpToRel
  <2> QED
    BY <2>1
<1>5. PICK x \in T : u = n - x
  OBVIOUS
<1>6. \A y \in T : x >= y
  <2> SUFFICES ASSUME NEW y \in T PROVE x >= y
    OBVIOUS
  <2>1. u <= n - y
    BY <1>4
  <2> QED
    BY <1>1, <1>5, <2>1
<1>7. Max(T) \in T /\ \A y \in T : Max(T) >= y
  BY <1>6 DEF Max
<1> QED
  BY <1>1, <1>7

\* What the chart charges once a message has been handled: a process without a
\* report keeps its load, and another has that of its last report.
LEMMA ChargedIs ==
  ASSUME NEW c \in [Names \X Pids -> Loads \cup {0}], NEW s \in Seq(Reports)
  PROVE  /\ Charged(c, s) \in [Names \X Pids -> Loads \cup {0}]
         /\ \A k \in Names \X Pids :
              \/ Charged(c, s)[k] = c[k] /\ \A j \in 1..Len(s) : Key(s[j]) # k
              \/ \E j \in 1..Len(s) : /\ Key(s[j]) = k /\ Charged(c, s)[k] = s[j].load
                                      /\ \A l \in 1..Len(s) : Key(s[l]) = k => l <= j
<1> DEFINE of(k) == {j \in DOMAIN s : Key(s[j]) = k}
           value(k) == IF of(k) = {} THEN c[k] ELSE s[Max(of(k))].load
<1>1. Charged(c, s) = [k \in Names \X Pids |-> value(k)]
  BY DEF Charged
<1>2. DOMAIN s = 1..Len(s) /\ Len(s) \in Nat /\ \A j \in 1..Len(s) : s[j].load \in Loads \cup {0}
  <2>1. \A r \in Reports : r.load \in Loads \cup {0}
    BY DEF Reports
  <2> HIDE DEF Reports
  <2> QED
    BY <2>1
<1>3. ASSUME NEW k \in Names \X Pids
      PROVE  /\ value(k) \in Loads \cup {0}
             /\ \/ value(k) = c[k] /\ \A j \in 1..Len(s) : Key(s[j]) # k
                \/ \E j \in 1..Len(s) : /\ Key(s[j]) = k /\ value(k) = s[j].load
                                        /\ \A l \in 1..Len(s) : Key(s[l]) = k => l <= j
  <2>1. CASE of(k) = {}
    BY <2>1, <1>2
  <2>2. CASE of(k) # {}
    <3>1. Max(of(k)) \in of(k) /\ \A x \in of(k) : x <= Max(of(k))
      <4>1. of(k) \subseteq 1..Len(s) /\ Len(s) \in Nat
        BY <1>2
      <4> HIDE DEF of
      <4> QED
        BY <2>2, <4>1, LargestOfNat
    <3> DEFINE j == Max(of(k))
    <3>2. j \in 1..Len(s) /\ Key(s[j]) = k
      BY <3>1, <1>2
    <3>3. \A l \in 1..Len(s) : Key(s[l]) = k => l <= j
      BY <3>1, <1>2
    <3>4. value(k) = s[j].load
      BY <2>2
    <3> HIDE DEF j, value
    <3> QED
      BY <1>2, <3>2, <3>3, <3>4
  <2> QED
    BY <2>1, <2>2
<1> HIDE DEF value
<1> QED
  BY <1>1, <1>3

LEMMA EndKeeps ==
  ASSUME IInv, EndSample, faults' \in faults..MaxFaults,
         chart' \in [Names \X Pids -> Loads \cup {0}], ghosts' \subseteq Names \X Pids
  PROVE  IInv'
<1> USE DEF IInv
<1>1. /\ pc = "stat" /\ pc' = "idle" /\ message' = <<>> /\ i' = 1
      /\ UNCHANGED <<started, alive, name, pids, rescans, seen, missed, toAdd, monitors, load>>
  BY DEF EndSample, hostVars, scanVars, historyVars
<1>2. HostInv' /\ MonitorInv' /\ PcInv'
  BY <1>1 DEF HostInv, MonitorInv, PcInv
<1>3. Running' = Running /\ i' \in 1..(Len(monitors') + 2) /\ message' \in Seq(Reports)
  BY <1>1, MonitorTypes DEF Running
<1>4. TypeOK'
  BY <1>1, <1>3 DEF TypeOK, Reports, CollectorState
<1> QED
  BY <1>2, <1>4

\* The keys of reports.
LEMMA KeysOf ==
  ASSUME NEW s \in Seq(Reports)
  PROVE  /\ \A r \in ToSet(s) : r \in Reports
         /\ \A r \in Reports : Key(r) \in Names \X Pids /\ r.load \in Loads \cup {0}
         /\ \A j \in 1..Len(s) : s[j] \in ToSet(s) /\ s[j] \in Reports
         /\ \A r \in ToSet(s) : \E j \in 1..Len(s) : r = s[j]
<1>1. \A r \in Reports : Key(r) \in Names \X Pids /\ r.load \in Loads \cup {0}
  BY DEF Reports, Key
<1> HIDE DEF Reports
<1> QED
  BY <1>1 DEF ToSet

LEMMA DeliveredKeeps == IInv /\ Delivered => IInv'
<1> SUFFICES ASSUME IInv, Delivered PROVE IInv'
  OBVIOUS
<1>1. chart \in [Names \X Pids -> Loads \cup {0}] /\ ghosts \subseteq Names \X Pids
  BY DEF IInv, TypeOK
<1>2. message \in Seq(Reports)
  BY MonitorTypes DEF IInv
<1>3. chart' \in [Names \X Pids -> Loads \cup {0}]
  BY <1>1, <1>2, ChargedIs DEF Delivered
<1>4. ghosts' \subseteq Names \X Pids
  BY <1>1, <1>2, KeysOf DEF Delivered, Ghosts
<1>5. faults' \in faults..MaxFaults
  BY DEF Delivered, IInv, TypeOK
<1> QED
  BY <1>3, <1>4, <1>5, EndKeeps DEF Delivered

LEMMA DroppedKeeps == IInv /\ Dropped => IInv'
<1> SUFFICES ASSUME IInv, Dropped PROVE IInv'
  OBVIOUS
<1>1. chart \in [Names \X Pids -> Loads \cup {0}] /\ ghosts \subseteq Names \X Pids
  BY DEF IInv, TypeOK
<1>2. message \in Seq(Reports)
  BY MonitorTypes DEF IInv
<1>3. chart' \in [Names \X Pids -> Loads \cup {0}]
  BY <1>1 DEF Dropped
<1>4. ghosts' \subseteq Names \X Pids
  BY <1>1, <1>2, KeysOf DEF Dropped, Ghosts
<1>5. faults' \in faults..MaxFaults
  BY DEF Dropped, Fault, IInv, TypeOK
<1> QED
  BY <1>3, <1>4, <1>5, EndKeeps DEF Dropped

LEMMA InvStep == IInv /\ [Next]_vars => IInv'
<1> SUFFICES ASSUME IInv, [Next]_vars PROVE IInv'
  OBVIOUS
<1>1. CASE UNCHANGED vars
  BY <1>1 DEF vars, hostVars, scanVars, historyVars, loopVars, IInv, TypeOK, HostInv, MonitorInv,
              PcInv, Running
<1>2. CASE Scan \/ ScanFails
  <2>1. PICK found \in SUBSET {p \in Pids : alive[p] # 0} : ScanAs(found)
    <3>1. /\ {} \in SUBSET {p \in Pids : alive[p] # 0}
          /\ {p \in Pids : alive[p] # 0} \in SUBSET {p \in Pids : alive[p] # 0}
      OBVIOUS
    <3> QED
      BY <1>2, <3>1 DEF Scan, ScanFails
  <2>2. rescans' \in rescans..faults' /\ faults' \in 0..MaxFaults
    <3>1. faults \in 0..MaxFaults /\ rescans \in 0..faults
      BY DEF IInv, TypeOK
    <3>2. \/ rescans' = rescans /\ faults' = faults
          \/ rescans' = rescans + 1 /\ faults < MaxFaults /\ faults' = faults + 1
      BY <1>2 DEF Scan, ScanFails, Fault
    <3> QED
      BY <3>1, <3>2
  <2> QED
    BY <2>1, <2>2, ScanKeeps
<1> QED
  BY <1>1, <1>2, HostKeeps, AddKeeps, AllAddedKeeps, StatKeeps, RestKeeps, DeliveredKeeps,
     DroppedKeeps DEF Next, Collect

LEMMA Invariance == Spec => []IInv
<1>1. Init => IInv
  BY InvInit
<1>2. IInv /\ [Next]_vars => IInv'
  BY InvStep
<1> QED
  BY <1>1, <1>2, PTL DEF Spec

\* Whatever runs on the host, the collector's index stays in the sequence or
\* just behind it, and every monitor and report is of a process and a name that
\* the host had.
THEOREM TypeCorrect == Spec => []TypeOK
<1>1. IInv => TypeOK
  BY DEF IInv
<1> QED
  BY <1>1, Invariance, PTL

-----------------------------------------------------------------------------
(* No process has two monitors of one round.                               *)

\* No two monitors of one round have the same process.  Since the last listing
\* that failed, a process that is to be opened has got no monitor yet, and one
\* that has got one and runs is known, so that no scan takes it for new.
OnceInv ==
  /\ \A j, k \in 1..Len(monitors) :
       monitors[j].process = monitors[k].process /\ monitors[j].round = monitors[k].round => j = k
  /\ \A j \in 1..Len(monitors) :
       monitors[j].round = rescans =>
         /\ \A p \in toAdd : alive[p] # monitors[j].process
         /\ \A p \in Pids : alive[p] = monitors[j].process => p \in pids

\* A step of the loop keeps every monitor at its place, or erases that of the
\* current index, whose process has gone.
LEMMA LoopDoes ==
  ASSUME IInv, ReadStat \/ ReadRest
  PROVE  /\ i \in 1..Len(monitors) /\ pc \in {"stat", "rest"}
         /\ UNCHANGED <<started, alive, name, faults, pids, rescans, seen, missed, toAdd, chart>>
         /\ \/ /\ Len(monitors') = Len(monitors)
               /\ \A j \in 1..Len(monitors) :
                    /\ monitors'[j].process = monitors[j].process
                    /\ monitors'[j].pid = monitors[j].pid
                    /\ monitors'[j].round = monitors[j].round
            \/ /\ IsDead(monitors[i]) /\ Len(monitors') = Len(monitors) - 1
               /\ \A j \in 1..(Len(monitors) - 1) :
                    monitors'[j] = IF j < i THEN monitors[j] ELSE monitors[j + 1]
<1> USE DEF IInv
<1> DEFINE m == monitors[i]
<1>1. /\ i \in 1..Len(monitors) /\ pc \in {"stat", "rest"}
      /\ UNCHANGED <<started, alive, name, faults, pids, rescans, seen, missed, toAdd, chart>>
  <2>1. /\ i \in Nat /\ 1 <= i /\ Len(monitors) \in Nat
        /\ pc = "rest" => i <= Len(monitors)
    BY MonitorTypes DEF TypeOK
  <2>2. i \in 1..Len(monitors) /\ pc \in {"stat", "rest"}
    <3>1. (pc = "stat" /\ i <= Len(monitors)) \/ pc = "rest"
      BY Zenon DEF ReadStat, ReadRest
    <3> QED
      BY <2>1, <3>1
  <2> QED
    BY <2>2, Zenon DEF ReadStat, ReadRest, hostVars, scanVars, historyVars
<1>2. m.pid \in Pids
  BY <1>1, MonitorTypes
<1>3. CASE IsDead(m)
  <2>1. \E amount \in Loads \cup {0} : ReportTerminated(m, amount)
    BY <1>3 DEF ReadStat, ReadRest, TypeOK
  <2> QED
    BY <1>1, <1>3, <2>1, TerminatedKeeps
<1>4. CASE ~IsDead(m)
  <2>1. monitors' = monitors \/ monitors' = [monitors EXCEPT ![i] = Renewed(m)]
    BY <1>4 DEF ReadStat, ReadRest
  <2>2. Renewed(m).process = m.process /\ Renewed(m).pid = m.pid /\ Renewed(m).round = m.round
    BY <1>1, MonitorTypes DEF Renewed, Monitors
  <2>3. CASE monitors' = monitors
    BY <2>3, <1>1
  <2>4. CASE monitors' = [monitors EXCEPT ![i] = Renewed(m)]
    <3>1. /\ Len(monitors') = Len(monitors)
          /\ \A j \in 1..Len(monitors) :
               monitors'[j] = IF j = i THEN Renewed(m) ELSE monitors[j]
      BY <2>4, <1>1, MonitorTypes
    <3> QED
      BY <1>1, <2>2, <3>1
  <2> QED
    BY <2>1, <2>3, <2>4
<1> QED
  BY <1>3, <1>4

\* Every monitor after a step of the loop was a monitor before.
LEMMA LoopKeeps ==
  ASSUME IInv, ReadStat \/ ReadRest
  PROVE  \E h \in [1..Len(monitors') -> 1..Len(monitors)] :
           \A j \in 1..Len(monitors') :
             /\ monitors'[j].process = monitors[h[j]].process
             /\ monitors'[j].round = monitors[h[j]].round
             /\ \A k \in 1..Len(monitors') : h[j] = h[k] => j = k
<1>1. Len(monitors) \in Nat /\ i \in 1..Len(monitors)
  BY MonitorTypes, LoopDoes DEF IInv
<1>2. CASE /\ Len(monitors') = Len(monitors)
           /\ \A j \in 1..Len(monitors) :
                /\ monitors'[j].process = monitors[j].process
                /\ monitors'[j].pid = monitors[j].pid
                /\ monitors'[j].round = monitors[j].round
  <2> DEFINE h == [j \in 1..Len(monitors') |-> j]
  <2>1. /\ h \in [1..Len(monitors') -> 1..Len(monitors)]
        /\ \A j \in 1..Len(monitors') :
             /\ monitors'[j].process = monitors[h[j]].process
             /\ monitors'[j].round = monitors[h[j]].round
             /\ \A k \in 1..Len(monitors') : h[j] = h[k] => j = k
    BY <1>2
  <2> QED
    BY <2>1
<1>3. CASE /\ Len(monitors') = Len(monitors) - 1
           /\ \A j \in 1..(Len(monitors) - 1) :
                monitors'[j] = IF j < i THEN monitors[j] ELSE monitors[j + 1]
  <2> DEFINE h == [j \in 1..Len(monitors') |-> IF j < i THEN j ELSE j + 1]
  <2>1. h \in [1..Len(monitors') -> 1..Len(monitors)]
    BY <1>1, <1>3
  <2>2. \A j \in 1..Len(monitors') : monitors'[j] = monitors[h[j]]
    BY <1>1, <1>3
  <2>3. \A j, k \in 1..Len(monitors') : h[j] = h[k] => j = k
    BY <1>1, <1>3
  <2> QED
    BY <2>1, <2>2, <2>3
<1> QED
  BY <1>2, <1>3, LoopDoes

LEMMA AddDoes ==
  ASSUME IInv, AddProcess
  PROVE  \E p \in toAdd :
           /\ pc \in {"init", "add"} /\ toAdd' = toAdd \ {p} /\ p \in Pids
           /\ UNCHANGED <<started, alive, name, pids, rescans, seen, chart, ghosts, message>>
           /\ \/ /\ alive[p] # 0 /\ Len(monitors') = Len(monitors) + 1
                 /\ monitors'[Len(monitors) + 1] = MonitorOf(p)
                 /\ \A j \in 1..Len(monitors) : monitors'[j] = monitors[j]
                 /\ missed' = missed
              \/ /\ monitors' = monitors
                 /\ \/ alive[p] # 0 /\ missed' = missed \cup {alive[p]}
                    \/ alive[p] = 0 /\ missed' = missed
<1> USE DEF IInv
<1>1. PICK p \in toAdd :
        /\ pc \in {"init", "add"} /\ toAdd' = toAdd \ {p}
        /\ \/ /\ alive[p] # 0
              /\ monitors' = Append(monitors, MonitorOf(p))
              /\ UNCHANGED <<faults, missed>>
           \/ /\ alive[p] # 0 /\ Fault
              /\ missed' = missed \cup {alive[p]}
              /\ UNCHANGED monitors
           \/ /\ alive[p] = 0
              /\ UNCHANGED <<faults, missed, monitors>>
        /\ UNCHANGED <<hostVars, scanVars, seen, loopVars, chart, ghosts>>
  BY DEF AddProcess
<1>2. p \in Pids
  BY <1>1 DEF TypeOK
<1>3. CASE alive[p] # 0 /\ monitors' = Append(monitors, MonitorOf(p)) /\ missed' = missed
  <2>1. /\ Len(monitors') = Len(monitors) + 1
        /\ \A j \in 1..Len(monitors) : monitors'[j] = monitors[j]
        /\ monitors'[Len(monitors) + 1] = MonitorOf(p)
    BY <1>3, <1>2, MonitorTypes, MonitorOfLive
  <2> QED
    BY <1>1, <1>2, <1>3, <2>1 DEF hostVars, scanVars, loopVars
<1>4. CASE \/ alive[p] # 0 /\ monitors' = monitors /\ missed' = missed \cup {alive[p]}
           \/ alive[p] = 0 /\ monitors' = monitors /\ missed' = missed
  BY <1>1, <1>2, <1>4 DEF hostVars, scanVars, loopVars
<1> QED
  BY <1>1, <1>3, <1>4

LEMMA OnceStep == IInv /\ IInv' /\ OnceInv /\ [Next]_vars => OnceInv'
<1> SUFFICES ASSUME IInv, IInv', OnceInv, [Next]_vars PROVE OnceInv'
  OBVIOUS
<1> DEFINE P(j) == monitors[j].process
           R(j) == monitors[j].round
<1>0. /\ Len(monitors) \in Nat /\ toAdd \subseteq Pids /\ toAdd \subseteq pids
      /\ HostInv /\ MonitorInv /\ rescans \in Nat /\ \A j \in 1..Len(monitors) : R(j) \in Nat
  <2>1. TypeOK /\ HostInv /\ MonitorInv /\ PcInv
    BY DEF IInv
  <2>2. toAdd \subseteq Pids /\ toAdd \subseteq pids /\ rescans \in Nat
    BY <2>1 DEF TypeOK, PcInv
  <2>3. Len(monitors) \in Nat /\ \A j \in 1..Len(monitors) : R(j) \in Nat
    BY <2>1, MonitorTypes
  <2> QED
    BY <2>1, <2>2, <2>3
<1>1. \A j, k \in 1..Len(monitors) : P(j) = P(k) /\ R(j) = R(k) => j = k
  BY DEF OnceInv
<1>2. \A j \in 1..Len(monitors) :
        R(j) = rescans => /\ \A p \in toAdd : alive[p] # P(j)
                          /\ \A p \in Pids : alive[p] = P(j) => p \in pids
  BY DEF OnceInv
<1>3. CASE UNCHANGED <<alive, pids, rescans, toAdd, monitors>>
  BY <1>1, <1>2, <1>3 DEF OnceInv
<1>4. CASE Host
  <2>1. UNCHANGED <<pids, rescans, toAdd, monitors>>
    BY <1>4 DEF Host, scanVars
  <2>2. \A q \in Pids, j \in 1..Len(monitors) : alive'[q] = P(j) => alive[q] = P(j)
    <3>1. /\ \A j \in 1..Len(monitors) : P(j) \in 0..started /\ P(j) # 0
          /\ started \in Nat /\ alive \in [Pids -> 0..started]
      BY <1>0, MonitorTypes DEF IInv, TypeOK, MonitorInv
    <3>2. \/ alive' = alive
          \/ \E p \in Pids : alive' = [alive EXCEPT ![p] = 0]
          \/ \E p \in Pids : alive' = [alive EXCEPT ![p] = started + 1]
      BY <1>4, Zenon DEF Host, Exit, Start, Exec
    <3> QED
      BY <3>1, <3>2
  <2> QED
    BY <1>0, <1>1, <1>2, <2>1, <2>2 DEF OnceInv
<1>5. CASE Scan
  <2>1. /\ toAdd' = {p \in Pids : alive[p] # 0} \ pids
        /\ pids' = {p \in Pids : alive[p] # 0} /\ UNCHANGED <<alive, rescans, monitors>>
    BY <1>5 DEF Scan, ScanAs, Difference, hostVars
  <2>2. \A j \in 1..Len(monitors) : P(j) # 0
    BY <1>0 DEF MonitorInv
  <2> QED
    BY <1>1, <1>2, <2>1, <2>2 DEF OnceInv
<1>6. CASE ScanFails
  <2>1. rescans' = rescans + 1 /\ monitors' = monitors
    BY <1>6 DEF ScanFails, ScanAs
  <2>2. \A j \in 1..Len(monitors) : R(j) # rescans'
    BY <1>0, <2>1 DEF MonitorInv
  <2> QED
    BY <1>1, <2>1, <2>2 DEF OnceInv
<1>7. CASE AddProcess
  <2>1. PICK p \in toAdd :
           /\ toAdd' = toAdd \ {p} /\ p \in Pids
           /\ UNCHANGED <<alive, pids, rescans>>
           /\ \/ /\ alive[p] # 0 /\ Len(monitors') = Len(monitors) + 1
                 /\ monitors'[Len(monitors) + 1] = MonitorOf(p)
                 /\ \A j \in 1..Len(monitors) : monitors'[j] = monitors[j]
              \/ monitors' = monitors
    BY <1>7, AddDoes
  <2>2. CASE monitors' = monitors
    BY <1>1, <1>2, <2>1, <2>2 DEF OnceInv
  <2>3. CASE /\ alive[p] # 0 /\ Len(monitors') = Len(monitors) + 1
             /\ monitors'[Len(monitors) + 1] = MonitorOf(p)
             /\ \A j \in 1..Len(monitors) : monitors'[j] = monitors[j]
    <3>1. MonitorOf(p).process = alive[p] /\ MonitorOf(p).round = rescans /\ p \in pids
      BY <1>0, <2>1 DEF MonitorOf
    <3>2. \A j \in 1..Len(monitors') :
            \/ /\ j \in 1..Len(monitors)
               /\ monitors'[j].process = P(j) /\ monitors'[j].round = R(j)
            \/ /\ j = Len(monitors) + 1
               /\ monitors'[j].process = alive[p] /\ monitors'[j].round = rescans
      BY <1>0, <2>3, <3>1
    <3>3. \A q \in Pids : alive[q] = alive[p] => q = p
      BY <1>0, <2>1, <2>3 DEF HostInv
    <3>4. \A j \in 1..Len(monitors) : R(j) = rescans => P(j) # alive[p]
      BY <1>2
    <3> HIDE DEF P, R
    <3>5. \A j, k \in 1..Len(monitors') :
            monitors'[j].process = monitors'[k].process /\ monitors'[j].round = monitors'[k].round
            => j = k
      BY <1>1, <3>2, <3>4
    <3>6. ASSUME NEW j \in 1..Len(monitors'), monitors'[j].round = rescans
          PROVE  /\ \A q \in toAdd' : alive[q] # monitors'[j].process
                 /\ \A q \in Pids : alive[q] = monitors'[j].process => q \in pids
      <4>1. CASE j = Len(monitors) + 1 /\ monitors'[j].process = alive[p]
        BY <1>0, <2>1, <3>1, <3>3, <4>1
      <4>2. CASE j \in 1..Len(monitors) /\ monitors'[j].process = P(j) /\ monitors'[j].round = R(j)
        BY <1>2, <2>1, <3>6, <4>2
      <4> QED
        BY <3>2, <4>1, <4>2
    <3> QED
      BY <2>1, <3>5, <3>6 DEF OnceInv
  <2> QED
    BY <2>1, <2>2, <2>3
<1>8. CASE ReadStat \/ ReadRest
  <2>1. UNCHANGED <<alive, pids, rescans, toAdd>>
    BY <1>8, LoopDoes
  <2>2. PICK h \in [1..Len(monitors') -> 1..Len(monitors)] :
           \A j \in 1..Len(monitors') :
             /\ monitors'[j].process = monitors[h[j]].process
             /\ monitors'[j].round = monitors[h[j]].round
             /\ \A k \in 1..Len(monitors') : h[j] = h[k] => j = k
    BY <1>8, LoopKeeps
  <2>3. \A j \in 1..Len(monitors') : /\ h[j] \in 1..Len(monitors)
                                     /\ monitors'[j].process = P(h[j])
                                     /\ monitors'[j].round = R(h[j])
    BY <2>2
  <2> HIDE DEF P, R
  <2>4. \A j, k \in 1..Len(monitors') :
          monitors'[j].process = monitors'[k].process /\ monitors'[j].round = monitors'[k].round
          => j = k
    BY <1>1, <2>2, <2>3
  <2>5. ASSUME NEW j \in 1..Len(monitors'), monitors'[j].round = rescans
        PROVE  /\ \A p \in toAdd : alive[p] # monitors'[j].process
               /\ \A p \in Pids : alive[p] = monitors'[j].process => p \in pids
    BY <1>2, <2>3, <2>5
  <2> QED
    BY <2>1, <2>4, <2>5 DEF OnceInv
<1>9. CASE AllAdded \/ Delivered \/ Dropped
  <2>1. UNCHANGED <<alive, pids, rescans, toAdd, monitors>>
    BY <1>9 DEF AllAdded, Delivered, Dropped, EndSample, hostVars, scanVars
  <2> QED
    BY <1>3, <2>1
<1> QED
  BY <1>3, <1>4, <1>5, <1>6, <1>7, <1>8, <1>9 DEF Next, Collect, vars, hostVars, scanVars

\* Between two listings of /proc that fail no process gets a second monitor,
\* whatever starts, exits and takes a pid over while the loop erases and passes
\* over monitors.
THEOREM NoneMonitoredTwice == Spec => []MonitoredOnce
<1>1. Init => OnceInv
  BY DEF Init, OnceInv
<1>2. IInv /\ IInv' /\ OnceInv /\ [Next]_vars => OnceInv'
  BY OnceStep
<1>3. IInv /\ OnceInv => MonitoredOnce
  <2> SUFFICES ASSUME IInv, OnceInv PROVE MonitoredOnce
    OBVIOUS
  <2>1. DOMAIN monitors = 1..Len(monitors)
    BY MonitorTypes DEF IInv
  <2> QED
    BY <2>1 DEF OnceInv, MonitoredOnce
<1> QED
  BY <1>1, <1>2, <1>3, Invariance, PTL DEF Spec

-----------------------------------------------------------------------------
(* Every process that runs is monitored.                                   *)

\* A process that the last scan saw and that still runs has a monitor, or is
\* yet to be opened, or has been missed.
SeenInv == seen \subseteq Monitored \cup missed \cup {alive[p] : p \in toAdd}

LEMMA ProcessesOf ==
  ASSUME NEW s, \E S : s \in Seq(S)
  PROVE  {s[j].process : j \in DOMAIN s} = {s[j].process : j \in 1..Len(s)}
<1> DOMAIN s = 1..Len(s)
  OBVIOUS
<1> QED
  OBVIOUS

LEMMA SeenStep == IInv /\ IInv' /\ SeenInv /\ [Next]_vars => SeenInv'
<1> SUFFICES ASSUME IInv, IInv', SeenInv, [Next]_vars PROVE SeenInv'
  OBVIOUS
<1> DEFINE P == {monitors[j].process : j \in 1..Len(monitors)}
<1>0. /\ Len(monitors) \in Nat /\ toAdd \subseteq Pids /\ toAdd \subseteq pids
      /\ HostInv /\ MonitorInv /\ seen \subseteq Running
      /\ Monitored = P /\ Monitored' = {monitors'[j].process : j \in 1..Len(monitors')}
  <2>1. (\E S : monitors \in Seq(S)) /\ (\E S : monitors' \in Seq(S))
    BY DEF IInv, TypeOK
  <2>2. Monitored = P /\ Monitored' = {monitors'[j].process : j \in 1..Len(monitors')}
    BY <2>1, ProcessesOf DEF Monitored
  <2> QED
    BY <2>2, MonitorTypes DEF IInv, TypeOK, PcInv
<1>1. /\ 0 \notin seen
      /\ \A x \in seen : x \in P \/ x \in missed \/ \E p \in toAdd : x = alive[p]
  BY <1>0 DEF SeenInv, Running
<1>2. CASE UNCHANGED <<alive, seen, missed, toAdd, monitors>>
  BY <1>2 DEF SeenInv, Monitored
<1>3. CASE Host
  <2>1. UNCHANGED <<toAdd, monitors>>
    BY <1>3 DEF Host
  <2>2. Monitored' = P
    BY <1>0, <2>1
  <2>3. ASSUME NEW p \in Pids, Exit(p) PROVE SeenInv'
    <3>1. /\ \A q \in Pids : alive'[q] = IF q = p THEN 0 ELSE alive[q]
          /\ seen' = seen \ {alive[p]} /\ missed' = missed \ {alive[p]}
      BY <2>3 DEF Exit, IInv, TypeOK
    <3> HIDE DEF P
    <3>2. ASSUME NEW x \in seen'
          PROVE  x \in P \/ x \in missed' \/ \E q \in toAdd' : x = alive'[q]
      BY <1>0, <1>1, <2>1, <3>1
    <3> QED
      BY <2>2, <3>2 DEF SeenInv
  <2>4. ASSUME NEW p \in Pids, NEW n \in Names, Start(p, n) \/ Exec(p, n) PROVE SeenInv'
    <3>1. /\ UNCHANGED <<seen, missed>>
          /\ \A q \in Pids : alive[q] # 0 => alive'[q] = alive[q]
      BY <2>4 DEF Start, Exec, IInv, TypeOK, historyVars
    <3> HIDE DEF P
    <3>2. ASSUME NEW x \in seen'
          PROVE  x \in P \/ x \in missed' \/ \E q \in toAdd' : x = alive'[q]
      BY <1>0, <1>1, <2>1, <3>1
    <3> QED
      BY <2>2, <3>2 DEF SeenInv
  <2> QED
    BY <1>3, <2>3, <2>4 DEF Host
<1>4. CASE Scan \/ ScanFails
  <2>1. PICK found \in SUBSET Pids : ScanAs(found)
    BY <1>4 DEF Scan, ScanFails
  <2>2. /\ pc \in {"new", "idle"}
        /\ toAdd' = found \ pids /\ seen' = {alive[p] : p \in found}
        /\ missed' = missed \cup ({alive[p] : p \in found \cap pids} \ seen)
        /\ UNCHANGED <<alive, monitors>>
    BY <2>1 DEF ScanAs, Difference, hostVars
  <2>3. toAdd = {} /\ Monitored' = P
    BY <1>0, <2>2 DEF IInv, PcInv
  <2> HIDE DEF P
  <2>4. ASSUME NEW p \in found
        PROVE  alive[p] \in P \/ alive[p] \in missed' \/ \E q \in toAdd' : alive[p] = alive'[q]
    BY <1>1, <2>2, <2>3
  <2> QED
    BY <2>2, <2>3, <2>4 DEF SeenInv
<1>5. CASE AddProcess
  <2>1. PICK p \in toAdd :
           /\ toAdd' = toAdd \ {p} /\ p \in Pids /\ UNCHANGED <<alive, seen>>
           /\ \/ /\ alive[p] # 0 /\ Len(monitors') = Len(monitors) + 1
                 /\ monitors'[Len(monitors) + 1] = MonitorOf(p)
                 /\ \A j \in 1..Len(monitors) : monitors'[j] = monitors[j]
                 /\ missed' = missed
              \/ /\ monitors' = monitors
                 /\ \/ alive[p] # 0 /\ missed' = missed \cup {alive[p]}
                    \/ alive[p] = 0 /\ missed' = missed
    BY <1>5, AddDoes
  <2>2. P \subseteq Monitored' /\ missed \subseteq missed'
    BY <1>0, <2>1
  <2>3. alive[p] = 0 \/ alive[p] \in Monitored' \cup missed'
    <3>1. CASE /\ Len(monitors') = Len(monitors) + 1
               /\ monitors'[Len(monitors) + 1] = MonitorOf(p)
      <4>1. Len(monitors) + 1 \in 1..Len(monitors')
        BY <1>0, <3>1
      <4> QED
        BY <1>0, <3>1, <4>1 DEF MonitorOf
    <3> QED
      BY <2>1, <3>1
  <2> HIDE DEF P
  <2> QED
    BY <1>1, <2>1, <2>2, <2>3 DEF SeenInv
<1>6. CASE ReadStat \/ ReadRest
  <2>1. UNCHANGED <<alive, seen, missed, toAdd>> /\ i \in 1..Len(monitors)
    BY <1>6, LoopDoes
  <2>2. ASSUME NEW j \in 1..Len(monitors), monitors[j].process \in seen
        PROVE  monitors[j].process \in Monitored'
    <3>1. CASE /\ Len(monitors') = Len(monitors)
               /\ \A k \in 1..Len(monitors) : monitors'[k].process = monitors[k].process
      BY <1>0, <3>1
    <3>2. CASE /\ IsDead(monitors[i]) /\ Len(monitors') = Len(monitors) - 1
               /\ \A k \in 1..(Len(monitors) - 1) :
                    monitors'[k] = IF k < i THEN monitors[k] ELSE monitors[k + 1]
      <4>1. j # i
        <5>1. PICK q \in Pids : monitors[j].process = alive[q]
          BY <1>0, <2>2 DEF Running
        <5>2. q = monitors[j].pid
          BY <1>0, <5>1 DEF MonitorInv
        <5> QED
          BY <3>2, <5>1, <5>2 DEF IsDead
      <4>2. CASE j < i
        <5>1. j \in 1..Len(monitors') /\ monitors'[j] = monitors[j]
          BY <1>0, <2>1, <3>2, <4>2
        <5> QED
          BY <1>0, <5>1
      <4>3. CASE j > i
        <5>1. j - 1 \in 1..Len(monitors') /\ monitors'[j - 1] = monitors[j]
          BY <1>0, <2>1, <3>2, <4>3
        <5> QED
          BY <1>0, <5>1
      <4> QED
        BY <1>0, <2>1, <4>1, <4>2, <4>3
    <3> QED
      BY <1>6, <3>1, <3>2, LoopDoes
  <2>3. \A x \in seen : x \in P => x \in Monitored'
    BY <2>2
  <2> HIDE DEF P
  <2> QED
    BY <1>1, <2>1, <2>3 DEF SeenInv
<1>7. CASE AllAdded \/ Delivered \/ Dropped
  BY <1>2, <1>7 DEF AllAdded, Delivered, Dropped, EndSample, hostVars, historyVars
<1> QED
  BY <1>2, <1>3, <1>4, <1>5, <1>6, <1>7 DEF Next, Collect, vars, hostVars, historyVars

\* Between samples every process that the last scan saw and that still runs is
\* monitored: no erasure takes the monitor of another one, and what the scan
\* finds is opened before the next one, unless opening it failed or a process
\* that was seen before had its pid.
THEOREM NoLiveProcessIsLost == Spec => []LiveIsMonitored
<1>1. Init => SeenInv
  BY DEF Init, SeenInv
<1>2. IInv /\ IInv' /\ SeenInv /\ [Next]_vars => SeenInv'
  BY SeenStep
<1>3. IInv /\ SeenInv => LiveIsMonitored
  BY DEF IInv, PcInv, SeenInv, LiveIsMonitored
<1> QED
  BY <1>1, <1>2, <1>3, Invariance, PTL DEF Spec

-----------------------------------------------------------------------------
(* The chart shows what runs.                                              *)

KeyOf(m) == <<m.comm, m.pid>>

\* A key with a load in the chart is that of a monitor, or is about to be
\* reported as terminated, or is counted among the ghosts.  A report that does
\* not say so is of a monitor that the loop has passed.
ChartInv ==
  /\ \A k \in Names \X Pids :
       chart[k] > 0 =>
         \/ k \in ghosts
         \/ \E j \in 1..Len(monitors) : KeyOf(monitors[j]) = k
         \/ \E l \in 1..Len(message) : Key(message[l]) = k /\ message[l].isterminated
  /\ \A l \in 1..Len(message) :
       ~message[l].isterminated =>
         \E j \in 1..Len(monitors) : j < i /\ KeyOf(monitors[j]) = Key(message[l])

\* The report that the loop appends, and what it leaves of the monitors.
LEMMA GoneKeepsChart ==
  ASSUME IInv, ChartInv, NEW amount \in Loads \cup {0}, i \in 1..Len(monitors),
         ReportTerminated(monitors[i], amount), i' = i + 1,
         UNCHANGED <<alive, rescans, chart, ghosts>>
  PROVE  ChartInv'
<1> DEFINE r == Report(monitors[i], amount, TRUE)
           K(j) == KeyOf(monitors[j])
<1>1. /\ Len(monitors) \in Nat /\ Len(message) \in Nat /\ i \in Nat
      /\ message \in Seq(Reports)
  BY MonitorTypes DEF IInv
<1>2. /\ Len(monitors') = Len(monitors) - 1
      /\ \A j \in 1..(Len(monitors) - 1) :
           monitors'[j] = IF j < i THEN monitors[j] ELSE monitors[j + 1]
      /\ message' = Append(message, r)
  BY TerminatedKeeps DEF IInv
<1>3. r \in Reports /\ Key(r) = K(i) /\ r.isterminated
  BY ReportIs, MonitorTypes DEF IInv, KeyOf
<1> HIDE DEF r
<1>4. /\ Len(message') = Len(message) + 1 /\ message'[Len(message) + 1] = r
      /\ \A l \in 1..Len(message) : message'[l] = message[l]
  BY <1>1, <1>2, <1>3, ReportAppended
<1>5. ASSUME NEW j \in 1..Len(monitors), j # i
      PROVE  \E h \in 1..Len(monitors') : /\ monitors'[h] = monitors[j]
                                          /\ j < i => h < i
  <2>1. CASE j < i
    <3>1. j \in 1..(Len(monitors) - 1) /\ Len(monitors') = Len(monitors) - 1
      BY <1>1, <1>2, <2>1
    <3>2. j \in 1..Len(monitors') /\ monitors'[j] = monitors[j]
      BY <1>2, <2>1, <3>1
    <3> QED
      BY <2>1, <3>2
  <2>2. CASE j > i
    <3>1. j - 1 \in 1..Len(monitors') /\ monitors'[j - 1] = monitors[j] /\ ~(j < i)
      BY <1>1, <1>2, <2>2
    <3> QED
      BY <3>1
  <2> QED
    BY <1>1, <1>5, <2>1, <2>2
<1>6. ASSUME NEW k \in Names \X Pids, chart[k] > 0
      PROVE  \/ k \in ghosts
             \/ \E j \in 1..Len(monitors') : KeyOf(monitors'[j]) = k
             \/ \E l \in 1..Len(message') : Key(message'[l]) = k /\ message'[l].isterminated
  <2>1. CASE \E j \in 1..Len(monitors) : K(j) = k
    <3>1. PICK j \in 1..Len(monitors) : K(j) = k
      BY <2>1
    <3>2. CASE j = i
      <4>1. Len(message) + 1 \in 1..Len(message')
        BY <1>1, <1>4
      <4> QED
        BY <1>3, <1>4, <3>1, <3>2, <4>1
    <3>3. CASE j # i
      BY <1>5, <3>1, <3>3
    <3> QED
      BY <3>2, <3>3
  <2>2. CASE \E l \in 1..Len(message) : Key(message[l]) = k /\ message[l].isterminated
    <3>1. \A l \in 1..Len(message) : l \in 1..Len(message') /\ message'[l] = message[l]
      BY <1>1, <1>4
    <3> QED
      BY <2>2, <3>1
  <2> QED
    BY <1>6, <2>1, <2>2 DEF ChartInv
<1>7. ASSUME NEW l \in 1..Len(message'), ~message'[l].isterminated
      PROVE  \E j \in 1..Len(monitors') : j < i + 1 /\ KeyOf(monitors'[j]) = Key(message'[l])
  <2>1. l \in 1..Len(message) /\ message'[l] = message[l]
    BY <1>1, <1>3, <1>4, <1>7
  <2>2. PICK j \in 1..Len(monitors) : j < i /\ K(j) = Key(message[l])
    BY <1>7, <2>1 DEF ChartInv
  <2>3. j # i
    BY <1>1, <2>2
  <2>4. PICK h \in 1..Len(monitors') : monitors'[h] = monitors[j] /\ h < i
    BY <1>5, <2>2, <2>3
  <2>5. h < i + 1
    BY <1>1, <1>2, <2>4
  <2> QED
    BY <2>1, <2>2, <2>4, <2>5
<1> HIDE DEF K
<1> QED
  BY <1>6, <1>7 DEF ChartInv

LEMMA StatKeepsChart == IInv /\ ChartInv /\ ReadStat => ChartInv'
<1> SUFFICES ASSUME IInv, ChartInv, ReadStat PROVE ChartInv'
  OBVIOUS
<1> DEFINE m == monitors[i]
<1>1. i \in 1..Len(monitors) /\ UNCHANGED <<alive, rescans, chart>>
  BY LoopDoes
<1>2. CASE IsDead(m)
  BY <1>1, <1>2, GoneKeepsChart DEF ReadStat
<1>3. CASE ~IsDead(m)
  <2>1. /\ monitors' = [monitors EXCEPT ![i] = Renewed(m)]
        /\ ghosts' = ghosts \cup Renamed(m, name[m.pid]) /\ UNCHANGED <<i, message>>
    BY <1>3 DEF ReadStat
  <2>2. /\ Len(monitors') = Len(monitors) /\ Len(monitors) \in Nat /\ i \in Nat
        /\ \A j \in 1..Len(monitors) :
             monitors'[j] = IF j = i THEN Renewed(m) ELSE monitors[j]
    BY <1>1, <2>1, MonitorTypes DEF IInv
  <2>3. KeyOf(Renewed(m)) = <<name[m.pid], m.pid>>
    BY <1>1, MonitorTypes DEF IInv, KeyOf, Renewed, Monitors
  <2>4. ASSUME chart[KeyOf(m)] > 0
        PROVE  KeyOf(m) \in ghosts' \/ KeyOf(monitors'[i]) = KeyOf(m)
    <3>1. CASE m.comm = name[m.pid]
      BY <1>1, <2>2, <2>3, <3>1 DEF KeyOf
    <3>2. CASE m.comm # name[m.pid]
      BY <2>1, <2>4, <3>2 DEF Renamed, KeyOf
    <3> QED
      BY <3>1, <3>2
  <2> HIDE DEF m
  <2>5. ASSUME NEW k \in Names \X Pids, chart[k] > 0
        PROVE  \/ k \in ghosts'
               \/ \E j \in 1..Len(monitors') : KeyOf(monitors'[j]) = k
               \/ \E l \in 1..Len(message) : Key(message[l]) = k /\ message[l].isterminated
    <3>1. ASSUME NEW j \in 1..Len(monitors), KeyOf(monitors[j]) = k
          PROVE  k \in ghosts' \/ \E h \in 1..Len(monitors') : KeyOf(monitors'[h]) = k
      <4>1. CASE j = i
        BY <1>1, <2>2, <2>4, <2>5, <3>1, <4>1 DEF m
      <4>2. CASE j # i
        BY <2>2, <3>1, <4>2
      <4> QED
        BY <4>1, <4>2
    <3> QED
      BY <2>1, <2>5, <3>1 DEF ChartInv
  <2>6. ASSUME NEW l \in 1..Len(message), ~message[l].isterminated
        PROVE  \E j \in 1..Len(monitors') : j < i /\ KeyOf(monitors'[j]) = Key(message[l])
    <3>1. PICK j \in 1..Len(monitors) : j < i /\ KeyOf(monitors[j]) = Key(message[l])
      BY <2>6 DEF ChartInv
    <3>2. j # i
      BY <2>2, <3>1
    <3> QED
      BY <2>2, <3>1, <3>2
  <2> QED
    BY <1>1, <2>1, <2>5, <2>6 DEF ChartInv
<1> QED
  BY <1>2, <1>3

LEMMA RestKeepsChart == IInv /\ ChartInv /\ ReadRest => ChartInv'
<1> SUFFICES ASSUME IInv, ChartInv, ReadRest PROVE ChartInv'
  OBVIOUS
<1> DEFINE m == monitors[i]
           r == Report(m, load, FALSE)
<1>1. i \in 1..Len(monitors) /\ UNCHANGED <<alive, rescans, chart, ghosts>> /\ i' = i + 1
  BY LoopDoes DEF ReadRest
<1>2. load \in Loads \cup {0} /\ Len(monitors) \in Nat /\ message \in Seq(Reports)
  BY MonitorTypes DEF IInv, TypeOK
<1>3. CASE IsDead(m)
  BY <1>1, <1>2, <1>3, GoneKeepsChart DEF ReadRest
<1>4. CASE ~IsDead(m)
  <2>1. message' = Append(message, r) /\ monitors' = monitors
    BY <1>4 DEF ReadRest
  <2>2. r \in Reports /\ Key(r) = KeyOf(m)
    BY <1>1, <1>2, ReportIs, MonitorTypes DEF IInv, KeyOf
  <2> HIDE DEF r
  <2>3. /\ Len(message') = Len(message) + 1 /\ message'[Len(message) + 1] = r
        /\ \A l \in 1..Len(message) : message'[l] = message[l] /\ Len(message) \in Nat
        /\ Len(message) \in Nat
    BY <1>2, <2>1, <2>2, ReportAppended
  <2>4. \A l \in 1..Len(message) : l \in 1..Len(message') /\ message'[l] = message[l]
    BY <2>3
  <2>5. ASSUME NEW l \in 1..Len(message'), ~message'[l].isterminated
        PROVE  \E j \in 1..Len(monitors) : j < i + 1 /\ KeyOf(monitors[j]) = Key(message'[l])
    <3>1. i < i + 1 /\ \A j \in 1..Len(monitors) : j < i => j < i + 1
      BY <1>1, <1>2
    <3>2. CASE l = Len(message) + 1
      BY <1>1, <2>2, <2>3, <3>1, <3>2
    <3>3. CASE l \in 1..Len(message)
      BY <2>4, <2>5, <3>1, <3>3 DEF ChartInv
    <3> QED
      BY <2>3, <3>2, <3>3
  <2> QED
    BY <1>1, <2>1, <2>4, <2>5 DEF ChartInv
<1> QED
  BY <1>3, <1>4

\* Handling a message takes out of the chart what it reports as terminated, or
\* makes a ghost of it.
LEMMA DeliveredKeepsChart == IInv /\ ChartInv /\ Delivered => ChartInv'
<1> SUFFICES ASSUME IInv, ChartInv, Delivered PROVE ChartInv'
  OBVIOUS
<1> DEFINE reports == ToSet(message)
<1>1. /\ message' = <<>> /\ monitors' = monitors
      /\ chart' = Charged(chart, message)
      /\ ghosts' = (ghosts \ {Key(r) : r \in reports}) \cup Ghosts(reports, chart')
  BY DEF Delivered, EndSample
<1>2. message \in Seq(Reports) /\ chart \in [Names \X Pids -> Loads \cup {0}]
  BY MonitorTypes DEF IInv, TypeOK
<1>3. /\ \A l \in 1..Len(message) : message[l] \in reports
      /\ \A r \in reports : \E l \in 1..Len(message) : r = message[l]
  BY <1>2, KeysOf
<1>4. ASSUME NEW k \in Names \X Pids, chart'[k] > 0
      PROVE  k \in ghosts' \/ \E j \in 1..Len(monitors) : KeyOf(monitors[j]) = k
  <2>1. CASE chart'[k] = chart[k] /\ \A l \in 1..Len(message) : Key(message[l]) # k
    <3>1. k \in ghosts => k \in ghosts'
      BY <1>1, <1>3, <2>1
    <3> HIDE DEF reports
    <3> QED
      BY <1>4, <2>1, <3>1 DEF ChartInv
  <2>2. ASSUME NEW l \in 1..Len(message), Key(message[l]) = k
        PROVE  k \in ghosts' \/ \E j \in 1..Len(monitors) : KeyOf(monitors[j]) = k
    <3>1. CASE message[l].isterminated
      <4>1. Key(message[l]) \in Ghosts(reports, chart')
        BY <1>3, <1>4, <2>2, <3>1 DEF Ghosts
      <4> QED
        BY <1>1, <2>2, <4>1
    <3>2. CASE ~message[l].isterminated
      BY <2>2, <3>2 DEF ChartInv
    <3> QED
      BY <3>1, <3>2
  <2>3. \/ chart'[k] = chart[k] /\ \A l \in 1..Len(message) : Key(message[l]) # k
        \/ \E l \in 1..Len(message) : Key(message[l]) = k
    <3>1. \/ /\ Charged(chart, message)[k] = chart[k]
             /\ \A l \in 1..Len(message) : Key(message[l]) # k
          \/ \E l \in 1..Len(message) : Key(message[l]) = k
      <4> DEFINE c == Charged(chart, message)
      <4>1. \A q \in Names \X Pids :
              \/ c[q] = chart[q] /\ \A l \in 1..Len(message) : Key(message[l]) # q
              \/ \E l \in 1..Len(message) : /\ Key(message[l]) = q /\ c[q] = message[l].load
                                            /\ \A h \in 1..Len(message) : Key(message[h]) = q => h <= l
        <5> HIDE DEF c
        <5> QED
          BY <1>2, ChargedIs DEF c
      <4> HIDE DEF c
      <4>2. \/ c[k] = chart[k] /\ \A l \in 1..Len(message) : Key(message[l]) # k
            \/ \E l \in 1..Len(message) : Key(message[l]) = k
        BY <4>1
      <4> QED
        BY <4>2 DEF c
    <3> QED
      BY <1>1, <3>1, Zenon
  <2> QED
    BY <2>1, <2>2, <2>3
<1>5. 1..Len(message') = {}
  BY <1>1
<1> HIDE DEF reports
<1> QED
  BY <1>1, <1>4, <1>5 DEF ChartInv

LEMMA DroppedKeepsChart == IInv /\ ChartInv /\ Dropped => ChartInv'
<1> SUFFICES ASSUME IInv, ChartInv, Dropped PROVE ChartInv'
  OBVIOUS
<1> DEFINE reports == ToSet(message)
<1>1. /\ message' = <<>> /\ UNCHANGED <<chart, monitors>>
      /\ ghosts' = ghosts \cup Ghosts(reports, chart)
  BY DEF Dropped, EndSample
<1>2. \A l \in 1..Len(message) : message[l] \in reports
  BY MonitorTypes, KeysOf DEF IInv
<1>3. ASSUME NEW k \in Names \X Pids, chart[k] > 0
      PROVE  k \in ghosts' \/ \E j \in 1..Len(monitors) : KeyOf(monitors[j]) = k
  <2>1. ASSUME NEW l \in 1..Len(message), Key(message[l]) = k, message[l].isterminated
        PROVE  k \in ghosts'
    <3>1. Key(message[l]) \in Ghosts(reports, chart)
      BY <1>2, <1>3, <2>1 DEF Ghosts
    <3> QED
      BY <1>1, <2>1, <3>1
  <2> HIDE DEF reports
  <2> QED
    BY <1>1, <1>3, <2>1 DEF ChartInv
<1>4. 1..Len(message') = {}
  BY <1>1
<1> HIDE DEF reports
<1> QED
  BY <1>1, <1>3, <1>4 DEF ChartInv

LEMMA ChartStep == IInv /\ ChartInv /\ [Next]_vars => ChartInv'
<1> SUFFICES ASSUME IInv, ChartInv, [Next]_vars PROVE ChartInv'
  OBVIOUS
<1>1. CASE UNCHANGED <<monitors, i, message, chart, ghosts>>
  BY <1>1 DEF ChartInv
<1>2. CASE Host \/ Scan \/ ScanFails \/ AllAdded
  BY <1>1, <1>2 DEF Host, Scan, ScanFails, ScanAs, AllAdded, loopVars
<1>3. CASE AddProcess
  <2>1. /\ UNCHANGED <<chart, ghosts, message>> /\ pc \in {"init", "add"}
        /\ \A j \in 1..Len(monitors) : j \in 1..Len(monitors') /\ monitors'[j] = monitors[j]
    BY <1>3, AddDoes, MonitorTypes DEF IInv
  <2>2. 1..Len(message) = {}
    BY <2>1 DEF IInv, PcInv
  <2> QED
    BY <2>1, <2>2 DEF ChartInv
<1> QED
  BY <1>1, <1>2, <1>3, StatKeepsChart, RestKeepsChart, DeliveredKeepsChart, DroppedKeepsChart
  DEF Next, Collect, vars, loopVars

\* Between samples the chart charges a load only to a process that is still
\* monitored and bears that name: what has ended is reported once more and so
\* leaves the chart, unless it changed its name, went between the two reads of
\* its monitor, or its last report was lost.
THEOREM ChartFollowsMonitors == Spec => []ChartCountsLive
<1>1. Init => ChartInv
  <2> SUFFICES ASSUME Init PROVE ChartInv
    OBVIOUS
  <2>1. 1..Len(message) = {} /\ \A k \in Names \X Pids : ~(chart[k] > 0)
    BY DEF Init
  <2> QED
    BY <2>1 DEF ChartInv
<1>2. IInv /\ ChartInv /\ [Next]_vars => ChartInv'
  BY ChartStep
<1>3. IInv /\ ChartInv => ChartCountsLive
  <2> SUFFICES ASSUME IInv, ChartInv, pc = "idle" PROVE ChartCountsLive
    BY DEF ChartCountsLive
  <2>1. 1..Len(message) = {} /\ DOMAIN monitors = 1..Len(monitors)
    BY MonitorTypes DEF IInv, PcInv
  <2> QED
    BY <2>1 DEF ChartInv, ChartCountsLive, KeyOf
<1> QED
  BY <1>1, <1>2, <1>3, Invariance, PTL DEF Spec

-----------------------------------------------------------------------------
(* The bars are the names with the largest loads.                          *)

LEMMA SmallestOfNat ==
  ASSUME NEW T, T \subseteq Nat, T # {}
  PROVE  \E x \in T : \A y \in T : x <= y
<1>1. IsWellFoundedOn(OpToRel(<, Nat), Nat)
  BY NatLessThanWellFounded
<1>2. PICK x \in T : \A y \in T : ~ (<<y, x>> \in OpToRel(<, Nat))
  BY <1>1, WFMin, Zenon
<1>3. \A y \in T : y \in Nat /\ x \in Nat /\ ~(y < x)
  BY <1>2 DEF OpToRel
<1>4. \A y \in T : x <= y
  BY <1>3
<1> QED
  BY <1>2, <1>4

LEMMA FromZeroUp ==
  ASSUME NEW S, 0 \in S, \A n \in Nat : n \in S => n + 1 \in S
  PROVE  Nat \subseteq S
<1> DEFINE T == Nat \ S
<1> SUFFICES ASSUME T # {} PROVE FALSE
  OBVIOUS
<1>1. PICK x \in T : \A y \in T : x <= y
  BY SmallestOfNat, Zenon
<1>2. x # 0 /\ x \in Nat
  BY <1>1
<1>3. x - 1 \in Nat /\ ~(x <= x - 1)
  BY <1>2
<1>4. x - 1 \in S
  BY <1>1, <1>3
<1> QED
  BY <1>1, <1>3, <1>4

IsFold(g, D, V, base, pick, step) ==
  /\ g \in [SUBSET D -> V]
  /\ \A s \in SUBSET D : g[s] = IF s = {} THEN base ELSE step[<<s, g[s \ {pick[s]}]>>]

\* A fold over a finite set is defined: there is a function that gives every
\* subset the value that the recursion asks for.
LEMMA FoldExists ==
  ASSUME NEW D, IsFiniteSet(D), NEW V, NEW base \in V, NEW pick,
         \A s \in SUBSET D : s # {} => pick[s] \in s,
         NEW step \in [(SUBSET D) \X V -> V]
  PROVE  \E g : IsFold(g, D, V, base, pick, step)
<1> DEFINE Small(n) == {s \in SUBSET D : Cardinality(s) <= n}
           Value(g, s) == IF s = {} THEN base ELSE step[<<s, g[s \ {pick[s]}]>>]
           Defined(n) == \E g \in [Small(n) -> V] : \A s \in Small(n) : g[s] = Value(g, s)
           S == {n \in Nat : Defined(n)}
<1>1. \A s \in SUBSET D : IsFiniteSet(s) /\ Cardinality(s) \in Nat /\ Cardinality(s) <= Cardinality(D)
  BY FS_Subset, FS_CardinalityType
<1>2. \A s \in SUBSET D : s # {} => /\ s \ {pick[s]} \in SUBSET D
                                   /\ Cardinality(s \ {pick[s]}) = Cardinality(s) - 1
  BY <1>1, FS_RemoveElement
<1>3. 0 \in S
  <2>1. Small(0) = {{}}
    BY <1>1, FS_EmptySet
  <2>2. [s \in {{}} |-> base] \in [{{}} -> V]
    OBVIOUS
  <2>3. \A s \in {{}} : [t \in {{}} |-> base][s] = Value([t \in {{}} |-> base], s)
    OBVIOUS
  <2> HIDE DEF Small, Value
  <2>4. Defined(0)
    BY <2>1, <2>2, <2>3
  <2> QED
    BY <2>4
<1>4. ASSUME NEW n \in Nat, n \in S
      PROVE  n + 1 \in S
  <2>1. PICK g \in [Small(n) -> V] : \A s \in Small(n) : g[s] = Value(g, s)
    BY <1>4
  <2>2. Small(n) \subseteq Small(n + 1)
    BY <1>1
  <2>3. \A s \in Small(n + 1) : s # {} => s \ {pick[s]} \in Small(n)
    BY <1>1, <1>2
  <2> DEFINE h == [s \in Small(n + 1) |-> Value(g, s)]
  <2>4. \A s \in Small(n + 1) : Value(g, s) \in V /\ s \in SUBSET D
    BY <2>3
  <2>5. h \in [Small(n + 1) -> V]
    BY <2>4
  <2>6. \A s \in Small(n) : h[s] = g[s]
    BY <2>1, <2>2
  <2>7. \A s \in Small(n + 1) : h[s] = Value(h, s)
    <3>1. \A s \in Small(n + 1) : h[s] = Value(g, s)
      OBVIOUS
    <3> HIDE DEF h, Small
    <3> QED
      BY <2>3, <2>6, <3>1
  <2> HIDE DEF h, Small, Value
  <2> QED
    BY <2>5, <2>7
<1> DEFINE N == Cardinality(D)
<1>5. N \in Nat /\ Small(N) = SUBSET D
  BY <1>1
<1>6. Defined(N)
  <2> HIDE DEF S, N
  <2>1. Nat \subseteq S
    BY <1>3, <1>4, FromZeroUp
  <2>2. N \in S
    BY <1>5, <2>1
  <2> QED
    BY <2>2 DEF S
<1>7. PICK g \in [SUBSET D -> V] : \A s \in SUBSET D : g[s] = Value(g, s)
  <2> HIDE DEF Small, N, Value
  <2> QED
    BY <1>5, <1>6
<1> QED
  BY <1>7 DEF IsFold

\* The load of a name, a sum over the pids, is a natural number.
LEMMA LoadIsNat ==
  ASSUME TypeOK, NEW n \in Names
  PROVE  LoadOf(n) \in Nat
<1> DEFINE Value(g, s) == IF s = {} THEN 0
                          ELSE LET x == CHOOSE x \in s : TRUE IN chart[<<n, x>>] + g[s \ {x}]
           pick == [s \in SUBSET Pids |-> CHOOSE x \in s : TRUE]
           step == [a \in (SUBSET Pids) \X Nat |->
                      IF a[1] = {} THEN 0 ELSE chart[<<n, pick[a[1]]>>] + a[2]]
           f == CHOOSE g : g = [s \in SUBSET Pids |-> Value(g, s)]
<1>1. \A s \in SUBSET Pids : s # {} => pick[s] \in s
  OBVIOUS
<1>2. \A p \in Pids : chart[<<n, p>>] \in Nat
  <2>1. \A k \in Names \X Pids : chart[k] \in Nat
    <3>1. chart \in [Names \X Pids -> Loads \cup {0}] /\ Loads \cup {0} \subseteq Nat
      BY DEF TypeOK
    <3> QED
      BY <3>1
  <2>2. \A p \in Pids : <<n, p>> \in Names \X Pids
    OBVIOUS
  <2> QED
    BY <2>1, <2>2
<1>3. step \in [(SUBSET Pids) \X Nat -> Nat]
  <2>1. ASSUME NEW a \in (SUBSET Pids) \X Nat
        PROVE  (IF a[1] = {} THEN 0 ELSE chart[<<n, pick[a[1]]>>] + a[2]) \in Nat
    <3>1. a[1] \in SUBSET Pids /\ a[2] \in Nat
      OBVIOUS
    <3>2. a[1] # {} => chart[<<n, pick[a[1]]>>] \in Nat
      <4> HIDE DEF pick
      <4> QED
        BY <1>1, <1>2, <3>1
    <3> HIDE DEF pick
    <3> QED
      BY <3>1, <3>2
  <2> HIDE DEF pick
  <2> QED
    BY <2>1
<1>4. PICK g \in [SUBSET Pids -> Nat] :
        \A s \in SUBSET Pids : g[s] = IF s = {} THEN 0 ELSE step[<<s, g[s \ {pick[s]}]>>]
  <2>1. IsFiniteSet(Pids) /\ 0 \in Nat
    OBVIOUS
  <2> HIDE DEF pick, step
  <2>2. \E g : IsFold(g, Pids, Nat, 0, pick, step)
    BY <1>1, <1>3, <2>1, FoldExists
  <2> QED
    BY <2>2 DEF IsFold
<1>5. \A s \in SUBSET Pids : g[s] = Value(g, s)
  <2> SUFFICES ASSUME NEW s \in SUBSET Pids PROVE g[s] = Value(g, s)
    OBVIOUS
  <2>1. CASE s # {}
    <3>1. <<s, g[s \ {pick[s]}]>> \in (SUBSET Pids) \X Nat
      <4> HIDE DEF pick, step
      <4> QED
        OBVIOUS
    <3>2. step[<<s, g[s \ {pick[s]}]>>] = chart[<<n, pick[s]>>] + g[s \ {pick[s]}]
      <4> HIDE DEF pick
      <4> QED
        BY <2>1, <3>1
    <3>3. pick[s] = CHOOSE x \in s : TRUE
      OBVIOUS
    <3> HIDE DEF pick, step
    <3> QED
      BY <1>4, <2>1, <3>2, <3>3
  <2> QED
    BY <1>4, <2>1
<1>6. g = [s \in SUBSET Pids |-> Value(g, s)]
  <2> HIDE DEF Value
  <2> QED
    BY <1>4, <1>5
<1>7. f = [s \in SUBSET Pids |-> Value(f, s)]
  BY <1>6, Zenon
<1>8. LoadOf(n) = f[Pids]
  BY Zenon DEF LoadOf, MapThenSumSet, MapThenFoldSet
<1> HIDE DEF f
<1>9. \A s \in SUBSET Pids : f[s] = Value(f, s)
  BY <1>7
<1> DEFINE S == {m \in Nat : \A s \in SUBSET Pids : Cardinality(s) = m => f[s] \in Nat}
<1>0. /\ IsFiniteSet(Pids) /\ \A s \in SUBSET Pids : IsFiniteSet(s)
      /\ \A s \in SUBSET Pids : Cardinality(s) = 0 <=> s = {}
      /\ \A s \in SUBSET Pids : \A x \in s : Cardinality(s \ {x}) = Cardinality(s) - 1
  <2>1. IsFiniteSet(Pids)
    OBVIOUS
  <2>2. \A s \in SUBSET Pids : IsFiniteSet(s)
    BY <2>1, FS_Subset
  <2> QED
    BY <2>1, <2>2, FS_EmptySet, FS_RemoveElement
<1>10. 0 \in S
  <2>1. f[{}] = 0
    BY <1>9
  <2>2. ASSUME NEW s \in SUBSET Pids, Cardinality(s) = 0
        PROVE  f[s] \in Nat
    <3>1. s = {}
      BY <1>0, <2>2
    <3> QED
      BY <2>1, <3>1
  <2> QED
    BY <2>2
<1>11. ASSUME NEW m \in Nat, m \in S
       PROVE  m + 1 \in S
  <2> SUFFICES ASSUME NEW s \in SUBSET Pids, Cardinality(s) = m + 1
               PROVE  f[s] \in Nat
    OBVIOUS
  <2>1. s # {}
    BY <1>0
  <2> DEFINE x == CHOOSE x \in s : TRUE
  <2>2. x \in s
    BY <2>1
  <2>3. f[s] = chart[<<n, x>>] + f[s \ {x}]
    BY <1>9, <2>1
  <2> HIDE DEF x
  <2>4. s \ {x} \in SUBSET Pids /\ Cardinality(s \ {x}) = m
    BY <1>0, <2>2
  <2>5. f[s \ {x}] \in Nat /\ chart[<<n, x>>] \in Nat
    BY <1>2, <1>11, <2>2, <2>4
  <2> QED
    BY <2>3, <2>5
<1>12. Nat \subseteq S
  <2> HIDE DEF S
  <2> QED
    BY <1>10, <1>11, FromZeroUp
<1>13. Cardinality(Pids) \in Nat
  BY <1>0, FS_CardinalityType
<1> QED
  BY <1>8, <1>12, <1>13

\* The map's order names every name once.
LEMMA OrderIs ==
  /\ Cardinality(Names) \in Nat
  /\ DOMAIN SetToSeq(Names) = 1..Cardinality(Names)
  /\ \A j \in 1..Cardinality(Names) : SetToSeq(Names)[j] \in Names
  /\ \A j, k \in 1..Cardinality(Names) : SetToSeq(Names)[j] = SetToSeq(Names)[k] => j = k
  /\ \A n \in Names : \E j \in 1..Cardinality(Names) : SetToSeq(Names)[j] = n
<1> DEFINE N == Cardinality(Names)
           f == SetToSeq(Names)
<1>1. IsFiniteSet(Names)
  OBVIOUS
<1>2. N \in Nat /\ ExistsBijection(1..N, Names)
  BY <1>1, FS_CardinalityType
<1>3. \E h \in [1..N -> Names] : IsInjective(h)
  BY <1>2 DEF ExistsBijection, Bijection, Injection
<1>4. f \in [1..N -> Names] /\ IsInjective(f)
  <2>1. f = CHOOSE h \in [1..N -> Names] : IsInjective(h)
    BY DEF SetToSeq
  <2> HIDE DEF f, N
  <2> QED
    BY <1>3, <2>1
<1>5. f \in Injection(1..N, Names)
  BY <1>4 DEF Injection
<1>6. Cardinality(1..N) = N /\ IsFiniteSet(1..N)
  BY <1>2, FS_Interval
<1>7. f \in Surjection(1..N, Names)
  <2> HIDE DEF f
  <2>1. Cardinality(1..N) = Cardinality(Names)
    BY <1>6
  <2> QED
    BY <1>1, <1>5, <2>1, FS_Injection
<1> HIDE DEF f, N
<1> QED
  BY <1>2, <1>4, <1>7 DEF IsInjective, Surjection, f, N

LEMMA ConsideredNames ==
  ASSUME NEW heap \in SUBSET Names, NEW n \in Names
  PROVE  Consider(heap, n) \in SUBSET Names
BY DEF Consider

\* The heap after each name of the order.
LEMMA HeapIs ==
  \E heap :
    /\ heap[0] = {} /\ Bars = heap[Cardinality(Names)]
    /\ \A j \in 1..Cardinality(Names) : heap[j] = Consider(heap[j - 1], SetToSeq(Names)[j])
<1> DEFINE N == Cardinality(Names)
           order == SetToSeq(Names)
           D == 1..N
           Value(g, s) == IF s = {} THEN {}
                          ELSE LET x == Max(s) IN Consider(g[s \ {x}], order[x])
           pick == [s \in SUBSET D |-> Max(s)]
           step == [a \in (SUBSET D) \X (SUBSET Names) |->
                      IF a[1] = {} THEN {} ELSE Consider(a[2], order[pick[a[1]]])]
           f == CHOOSE g : g = [s \in SUBSET D |-> Value(g, s)]
<1>1. N \in Nat /\ IsFiniteSet(D) /\ DOMAIN order = D /\ \A j \in D : order[j] \in Names
  BY OrderIs, FS_Interval
<1>2. \A s \in SUBSET D : s # {} => Max(s) \in s /\ \A x \in s : x <= Max(s)
  BY <1>1, LargestOfNat
<1>3. \A s \in SUBSET D : s # {} => pick[s] \in s
  BY <1>2
<1>4. step \in [(SUBSET D) \X (SUBSET Names) -> SUBSET Names]
  <2>1. ASSUME NEW a \in (SUBSET D) \X (SUBSET Names)
        PROVE  (IF a[1] = {} THEN {} ELSE Consider(a[2], order[pick[a[1]]])) \in SUBSET Names
    <3> HIDE DEF pick, order, D
    <3>1. a[1] \in SUBSET D /\ a[2] \in SUBSET Names
      OBVIOUS
    <3>2. a[1] # {} => order[pick[a[1]]] \in Names
      BY <1>1, <1>3, <3>1
    <3> QED
      BY <3>1, <3>2, ConsideredNames
  <2> HIDE DEF pick, order, D
  <2> QED
    BY <2>1
<1>5. PICK g \in [SUBSET D -> SUBSET Names] :
        \A s \in SUBSET D : g[s] = IF s = {} THEN {} ELSE step[<<s, g[s \ {pick[s]}]>>]
  <2>1. {} \in SUBSET Names
    OBVIOUS
  <2> HIDE DEF pick, step, D
  <2>2. \E g : IsFold(g, D, SUBSET Names, {}, pick, step)
    BY <1>1, <1>3, <1>4, <2>1, FoldExists
  <2> QED
    BY <2>2 DEF IsFold
<1>6. \A s \in SUBSET D : g[s] = Value(g, s)
  <2> SUFFICES ASSUME NEW s \in SUBSET D PROVE g[s] = Value(g, s)
    OBVIOUS
  <2>1. CASE s # {}
    <3>1. <<s, g[s \ {pick[s]}]>> \in (SUBSET D) \X (SUBSET Names)
      <4> HIDE DEF pick, step, D
      <4> QED
        OBVIOUS
    <3>2. step[<<s, g[s \ {pick[s]}]>>] = Consider(g[s \ {pick[s]}], order[pick[s]])
      <4> HIDE DEF pick, D, order
      <4> QED
        BY <2>1, <3>1
    <3>3. pick[s] = Max(s)
      OBVIOUS
    <3> HIDE DEF pick, step, order, D
    <3> QED
      BY <1>5, <2>1, <3>2, <3>3
  <2> QED
    BY <1>5, <2>1
<1>7. g = [s \in SUBSET D |-> Value(g, s)]
  <2> HIDE DEF Value, D
  <2> QED
    BY <1>5, <1>6
<1>8. f = [s \in SUBSET D |-> Value(f, s)]
  BY <1>7, Zenon
<1>9. Bars = f[D]
  <2>1. Bars = LET h[s \in SUBSET (DOMAIN order)] ==
                     IF s = {} THEN {} ELSE LET x == Max(s) IN Consider(h[s \ {x}], order[x])
               IN  h[DOMAIN order]
    BY Zenon DEF Bars, FoldLeft, MapThenFoldSet
  <2>2. Bars = (CHOOSE h : h = [s \in SUBSET (DOMAIN order) |-> Value(h, s)])[DOMAIN order]
    BY <2>1, Zenon
  <2> QED
    BY <1>1, <2>2, Zenon
<1> HIDE DEF f
<1>10. \A s \in SUBSET D : f[s] = Value(f, s)
  BY <1>8
<1> DEFINE heap == [j \in 0..N |-> f[1..j]]
<1>11. heap[0] = {}
  <2>1. 1..0 = {} /\ {} \in SUBSET D /\ 0 \in 0..N
    BY <1>1
  <2>2. f[{}] = {}
    BY <1>10, <2>1
  <2> QED
    BY <2>1, <2>2
<1>12. heap[N] = Bars
  BY <1>1, <1>9
<1>13. ASSUME NEW j \in D
       PROVE  heap[j] = Consider(heap[j - 1], order[j])
  <2>1. /\ j \in Nat /\ j \in 0..N /\ j - 1 \in 0..N /\ 1..j \in SUBSET D /\ 1..j # {}
        /\ (1..j) \ {j} = 1..(j - 1) /\ j \in 1..j
    <3> HIDE DEF order
    <3>1. N \in Int /\ j \in Int /\ 1 <= j /\ j <= N
      <4> HIDE DEF N
      <4> QED
        BY <1>1
    <3> HIDE DEF N
    <3>2. j \in Nat /\ j \in 0..N /\ j - 1 \in 0..N /\ j \in 1..j
      BY <3>1
    <3>3. 1..j \in SUBSET D
      BY <3>1
    <3>4. (1..j) \ {j} = 1..(j - 1)
      BY <3>1
    <3> QED
      BY <3>2, <3>3, <3>4
  <2>2. Max(1..j) = j
    <3>1. Max(1..j) \in 1..j /\ j <= Max(1..j)
      BY <1>2, <2>1
    <3> QED
      BY <2>1, <3>1
  <2>3. f[1..j] = Consider(f[(1..j) \ {j}], order[j])
    <3> HIDE DEF D, order
    <3> QED
      BY <1>10, <2>1, <2>2
  <2> HIDE DEF D, order, N
  <2> QED
    BY <2>1, <2>3
<1> HIDE DEF heap
<1> QED
  BY <1>11, <1>12, <1>13

\* The heap holds, of the names considered so far, as many as the bars allow
\* and those with the largest loads.
TopOf(heap, S, m) ==
  /\ heap \subseteq S /\ IsFiniteSet(heap)
  /\ Cardinality(heap) = IF m < NumBars THEN m ELSE NumBars
  /\ m <= NumBars => heap = S
  /\ \A a \in heap, b \in S \ heap : LoadOf(b) <= LoadOf(a)

LEMMA ConsiderKeepsTop ==
  ASSUME TypeOK, NEW S \in SUBSET Names, NEW heap, NEW m \in Nat, TopOf(heap, S, m),
         NEW n \in Names \ S
  PROVE  TopOf(Consider(heap, n), S \cup {n}, m + 1)
<1>1. \A o \in Names : LoadOf(o) \in Nat
  BY LoadIsNat
<1>2. NumBars \in Nat /\ NumBars > 0
  OBVIOUS
<1>3. /\ heap \subseteq S /\ IsFiniteSet(heap)
      /\ Cardinality(heap) = (IF m < NumBars THEN m ELSE NumBars)
      /\ m <= NumBars => heap = S
      /\ \A a \in heap, b \in S \ heap : LoadOf(b) <= LoadOf(a)
      /\ n \notin heap
  BY DEF TopOf
<1>4. CASE Cardinality(heap) < NumBars
  <2>1. m < NumBars /\ heap = S
    BY <1>2, <1>3, <1>4
  <2>2. Consider(heap, n) = heap \cup {n}
    BY <1>4 DEF Consider
  <2>3. IsFiniteSet(heap \cup {n}) /\ Cardinality(heap \cup {n}) = m + 1
    BY <1>3, <2>1, FS_AddElement
  <2>4. m + 1 = (IF m + 1 < NumBars THEN m + 1 ELSE NumBars)
    BY <1>2, <2>1
  <2> QED
    BY <2>1, <2>2, <2>3, <2>4 DEF TopOf
<1>5. CASE ~(Cardinality(heap) < NumBars)
  <2> DEFINE min == CHOOSE x \in heap : \A o \in heap : LoadOf(x) <= LoadOf(o)
  <2>1. ~(m < NumBars) /\ Cardinality(heap) = NumBars
    BY <1>2, <1>3, <1>5
  <2>2. heap # {}
    BY <1>2, <2>1, FS_EmptySet
  <2>3. \E x \in heap : \A o \in heap : LoadOf(x) <= LoadOf(o)
    <3> DEFINE T == {LoadOf(o) : o \in heap}
    <3>1. T \subseteq Nat /\ T # {}
      BY <1>1, <1>3, <2>2
    <3>2. \E t \in T : \A u \in T : t <= u
      <4> HIDE DEF T
      <4> QED
        BY <3>1, SmallestOfNat
    <3> QED
      BY <3>2
  <2>4. min \in heap /\ \A o \in heap : LoadOf(min) <= LoadOf(o)
    BY <2>3
  <2>5. ~(m + 1 < NumBars) /\ (m + 1 <= NumBars => FALSE)
    BY <1>2, <2>1
  <2>6. CASE LoadOf(n) > LoadOf(min)
    <3>1. Consider(heap, n) = (heap \ {min}) \cup {n}
      BY <1>5, <2>6 DEF Consider
    <3> HIDE DEF min
    <3>2. /\ IsFiniteSet((heap \ {min}) \cup {n})
          /\ Cardinality((heap \ {min}) \cup {n}) = NumBars
      <4>1. IsFiniteSet(heap \ {min}) /\ Cardinality(heap \ {min}) = NumBars - 1
        BY <1>3, <2>1, <2>4, FS_RemoveElement
      <4>2. n \notin heap \ {min}
        BY <1>3
      <4> DEFINE rest == heap \ {min}
      <4> HIDE DEF rest
      <4>3. IsFiniteSet(rest \cup {n}) /\ Cardinality(rest \cup {n}) = Cardinality(rest) + 1
        BY <4>1, <4>2, FS_AddElement DEF rest
      <4>4. Cardinality(rest) + 1 = NumBars
        BY <1>2, <4>1 DEF rest
      <4> QED
        BY <4>3, <4>4 DEF rest
    <3>3. ASSUME NEW a \in (heap \ {min}) \cup {n}, NEW b \in (S \cup {n}) \ ((heap \ {min}) \cup {n})
          PROVE  LoadOf(b) <= LoadOf(a)
      <4>1. b \in S \ heap \/ b = min
        OBVIOUS
      <4>2. LoadOf(b) <= LoadOf(min) /\ LoadOf(b) \in Nat /\ LoadOf(min) \in Nat
        BY <1>1, <1>3, <2>4, <4>1
      <4>3. LoadOf(min) <= LoadOf(a) /\ LoadOf(a) \in Nat
        BY <1>1, <1>3, <2>4, <2>6, <4>2
      <4> QED
        BY <4>2, <4>3
    <3> QED
      BY <1>3, <2>5, <3>1, <3>2, <3>3 DEF TopOf
  <2>7. CASE ~(LoadOf(n) > LoadOf(min))
    <3>1. Consider(heap, n) = heap
      BY <1>5, <2>7 DEF Consider
    <3> HIDE DEF min
    <3>2. \A a \in heap : LoadOf(n) <= LoadOf(a)
      <4>1. LoadOf(n) <= LoadOf(min) /\ LoadOf(n) \in Nat /\ LoadOf(min) \in Nat
        BY <1>1, <1>3, <2>4, <2>7
      <4>2. \A a \in heap : LoadOf(a) \in Nat /\ LoadOf(min) <= LoadOf(a)
        BY <1>1, <1>3, <2>4
      <4> QED
        BY <4>1, <4>2
    <3> QED
      BY <1>3, <2>1, <2>5, <3>1, <3>2 DEF TopOf
  <2> QED
    BY <2>6, <2>7
<1> QED
  BY <1>4, <1>5

\* Whatever the loads and in whatever order the map holds the names, the bars
\* are NumBars of them, and no name without a bar has a larger load than one
\* with a bar.
THEOREM BarsAreTheLargest == Spec => []BarsAreTop
<1>1. ASSUME TypeOK PROVE BarsAreTop
  <2> DEFINE N == Cardinality(Names)
             order == SetToSeq(Names)
             S(m) == {order[j] : j \in 1..m}
  <2>1. /\ N \in Nat /\ NumBars \in Nat /\ NumBars <= N
        /\ \A j \in 1..N : order[j] \in Names
        /\ \A j, k \in 1..N : order[j] = order[k] => j = k
        /\ \A n \in Names : \E j \in 1..N : order[j] = n
    BY OrderIs
  <2>2. PICK heap : /\ heap[0] = {} /\ Bars = heap[N]
                    /\ \A j \in 1..N : heap[j] = Consider(heap[j - 1], order[j])
    BY HeapIs
  <2> DEFINE T == {m \in Nat : m <= N => TopOf(heap[m], S(m), m)}
  <2> HIDE DEF N, order
  <2>3. 0 \in T
    <3>1. S(0) = {}
      OBVIOUS
    <3> HIDE DEF S
    <3> QED
      BY <2>1, <2>2, <3>1, FS_EmptySet DEF TopOf
  <2>4. ASSUME NEW m \in Nat, m \in T
        PROVE  m + 1 \in T
    <3> SUFFICES ASSUME m + 1 <= N PROVE TopOf(heap[m + 1], S(m + 1), m + 1)
      <4> HIDE DEF S
      <4> QED
        OBVIOUS
    <3> DEFINE n == order[m + 1]
    <3>1. m + 1 \in 1..N /\ m <= N /\ m + 1 - 1 = m /\ \A j \in 1..m : j \in 1..N /\ j # m + 1
      BY <2>1
    <3>2. TopOf(heap[m], S(m), m)
      BY <2>4, <3>1
    <3>3. n \in Names \ S(m) /\ S(m) \in SUBSET Names
      BY <2>1, <3>1
    <3>4. S(m + 1) = S(m) \cup {n}
      <4>1. \A j : j \in 1..(m + 1) <=> (j \in 1..m \/ j = m + 1)
        OBVIOUS
      <4> QED
        BY <4>1
    <3>5. heap[m + 1] = Consider(heap[m], n)
      BY <2>2, <3>1
    <3> HIDE DEF S, n
    <3> QED
      BY <1>1, <3>2, <3>3, <3>4, <3>5, ConsiderKeepsTop
  <2>5. N \in T
    <3> HIDE DEF T
    <3> QED
      BY <2>1, <2>3, <2>4, FromZeroUp
  <2>6. S(N) = Names
    BY <2>1
  <2> HIDE DEF S
  <2>7. TopOf(Bars, Names, N)
    BY <2>1, <2>2, <2>5, <2>6
  <2>8. Cardinality(Bars) = NumBars
    BY <2>1, <2>7 DEF TopOf
  <2>9. ASSUME NEW a \in Bars, NEW b \in Names \ Bars
        PROVE  LoadOf(a) >= LoadOf(b)
    <3>1. LoadOf(b) <= LoadOf(a) /\ LoadOf(a) \in Nat /\ LoadOf(b) \in Nat
      BY <1>1, <2>7, LoadIsNat DEF TopOf
    <3> QED
      BY <3>1
  <2> QED
    BY <2>8, <2>9 DEF BarsAreTop
<1> QED
  BY <1>1, TypeCorrect, PTL

=============================================================================
