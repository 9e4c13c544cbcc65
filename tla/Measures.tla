------------------------------ MODULE Measures ------------------------------
(***************************************************************************)
(* What a process is said to use.  lib/LinuxProcessMonitorLight.cpp reads  *)
(* the kernel's counters of a process, which only grow, from three files   *)
(* of /proc and reports how far they came since the update before;         *)
(* ProcessCollector::Sample turns that into shares.  Also the counters of  *)
(* bytes in lib/IoLogger.cpp and in the gnuplot handler.                   *)
(*                                                                         *)
(* Counters are an unsigned long of W values; times are in milliseconds.   *)
(***************************************************************************)
EXTENDS TableGeometry

Files == {"stat", "statm", "io"}
Counters == {"minflt", "majflt", "utime", "stime", "rchar", "wchar", "syscr", "syscw",
             "read_bytes", "write_bytes"}
FileOf(counter) ==
  IF counter \in {"minflt", "majflt", "utime", "stime"} THEN "stat" ELSE "io"

\* files are those that Open could open: it needs one of the three only, and
\* io is closed to all but the process's owner and root.
Words(W) == 0..(W - 1)
Monitors(W) ==
  [files : SUBSET Files \ {{}}, now : [Counters -> Words(W)], prev : [Counters -> Words(W)],
   time : Nat, prevTime : Nat, samples : Nat]

\* A new monitor: the numbers of faults are not set to 0, here or in Open.
Opened(W) ==
  {m \in Monitors(W) : /\ m.time = 0 /\ m.samples = 0
                       /\ \A c \in Counters \ {"minflt", "majflt"} : m.now[c] = 0}

\* Update reads the files in this order and gives up at one that fails.
ReadBefore(file, failing) ==
  CASE failing = "stat" -> FALSE
    [] failing = "statm" -> file = "stat"
    [] failing = "io" -> file # "io"
    [] OTHER -> TRUE
IsRead(m, c, failing) == FileOf(c) \in m.files /\ ReadBefore(FileOf(c), failing)
Update(m, kernel, failing, time) ==
  [m EXCEPT !.prev = m.now,
            !.now = [c \in Counters |-> IF IsRead(m, c, failing) THEN kernel[c] ELSE m.now[c]],
            !.prevTime = m.time, !.time = time, !.samples = m.samples + 1]
Succeeds(m, failing) == failing \notin m.files

IsFirstTime(m) == m.samples < 3

\* unsigned arithmetic.
Since(now, prev, W) == (now - prev) % W
Used(m, c, W) == Since(m.now[c], m.prev[c], W)
GetTotalIoInBytes(m, W) == Used(m, "rchar", W)
GetStorageInBytes(m, W) == Used(m, "read_bytes", W)
GetTotalIoOutBytes(m, W) == Used(m, "wchar", W)
GetStorageOutBytes(m, W) == Used(m, "write_bytes", W)
Rest(all, part) == IF part > all THEN 0 ELSE all - part
GetNetworkInBytes(m, W) == Rest(GetTotalIoInBytes(m, W), GetStorageInBytes(m, W))
GetNetworkOutBytes(m, W) == Rest(GetTotalIoOutBytes(m, W), GetStorageOutBytes(m, W))

\* A field of a message is a uint32 of V values: what it is set to, an unsigned
\* long, loses its upper half.
OnWire(bytes, V) == bytes % V

\* (_minflt + _majflt) - (_prevMinflt + _prevMajflt), each sum an unsigned long.
PageFaults(m, W) ==
  Since((m.now["minflt"] + m.now["majflt"]) % W, (m.prev["minflt"] + m.prev["majflt"]) % W, W)

\* Hundredths of a percent of the host's cores, at a number of jiffies a second;
\* doubles do not wrap.
CpuUtilization(m, counter, jiffy, cores) ==
  Quotient((m.now[counter] - m.prev[counter]) * 1000 * 10000,
           jiffy * cores * (m.time - m.prevTime))

-----------------------------------------------------------------------------
(* IoLogger::Read and Write: a line for every interval's worth of bytes.   *)

NewLogger(interval) == [total |-> 0, trigger |-> interval, interval |-> interval]
Counted(log, numBytes) ==
  LET total == log.total + numBytes
  IN  [log EXCEPT !.total = total,
                  !.trigger = log.trigger + (IF total >= log.trigger THEN log.interval ELSE 0)]

-----------------------------------------------------------------------------
(* GnuplotHandler::_MaintainNetworkReceivePerSec.  recorded stands for the *)
(* sum of the samples that are recorded so far.                            *)

NewReceiver == [previous |-> -1, sum |-> 0, recorded |-> 0]
Received(r, timestamp, bytes) ==
  IF r.previous < 0
    THEN [r EXCEPT !.previous = timestamp, !.sum = bytes]
  ELSE IF timestamp - r.previous >= 1000
    THEN [previous |-> timestamp, recorded |-> r.recorded + r.sum, sum |-> bytes]
    ELSE [r EXCEPT !.sum = r.sum + bytes]

=============================================================================
