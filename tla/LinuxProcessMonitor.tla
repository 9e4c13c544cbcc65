------------------------- MODULE LinuxProcessMonitor -------------------------
(***************************************************************************)
(* lib/LinuxProcessMonitor.cpp: the monitor of a process that the test     *)
(* programs use, and the one that LinuxProcessMonitorLight was made from   *)
(* (module Measures).  It does not look at what fread returns: all three   *)
(* files are read into one buffer, and where a read fails, because the     *)
(* process has gone, what the buffer holds of another file is parsed.      *)
(***************************************************************************)
EXTENDS Measures

StatFields ==
  {"pid", "comm", "state", "ppid", "pgrp", "session", "tty_nr", "tpgid", "flags", "minflt",
   "cminflt", "majflt", "cmajflt", "utime", "stime", "cutime", "cstime", "priority", "nice",
   "num_threads", "itrealvalue", "starttime", "vsize", "rss", "rsslim", "startcode", "endcode",
   "startstack", "kstkesp", "kstkeip", "signal", "blocked", "sigignore", "sigcatch", "wchan",
   "nswap", "cnswap", "exit_signal", "processor"}
StatmFields == {"size", "resident", "share", "text", "lib", "data", "dt"}
IoFields == {"rchar", "wchar", "syscr", "syscw", "read_bytes", "write_bytes",
             "cancelled_write_bytes"}
AllFields == StatFields \cup StatmFields \cup IoFields
FieldsOf(file) ==
  CASE file = "stat" -> StatFields [] file = "statm" -> StatmFields [] file = "io" -> IoFields

\* Those whose value at the update before is kept.
Remembered == {"utime", "stime", "rchar", "wchar"}

\* Every field as a word; buffer is the file that was last read into it.
OldMonitors(W) ==
  [files : SUBSET Files, now : [AllFields -> Words(W)], prev : [Remembered -> Words(W)],
   time : Nat, prevTime : Nat, buffer : Files \cup {"none"}]
Created(W) ==
  {m \in OldMonitors(W) : /\ m.files = {} /\ m.buffer = "none" /\ m.time = 0
                          /\ \A f \in Remembered : m.now[f] = 0}

\* open needs both files and keeps the one it gets; OpenIo is up to the caller.
OldOpen(m, readable) == [m EXCEPT !.files = m.files \cup (readable \cap {"stat", "statm"})]
OldOpens(readable) == {"stat", "statm"} \subseteq readable
OpenIo(m, readable) == [m EXCEPT !.files = m.files \cup (readable \cap {"io"})]

\* update reads stat, statm and io; failing are those that it reads after the
\* process has gone.  The file whose text is in the buffer when it gets to one:
Holds(m, file, failing) == file \in m.files /\ file \notin failing
BufferAt(m, file, failing) ==
  CASE file = "stat" -> m.buffer
    [] file = "statm" -> IF Holds(m, "stat", failing) THEN "stat" ELSE m.buffer
    [] file = "io" -> IF Holds(m, "statm", failing) THEN "statm"
                      ELSE IF Holds(m, "stat", failing) THEN "stat" ELSE m.buffer

\* What n takes for the fields of a file that cannot be read.  Text of io
\* begins with a word, at which the formats of the other two stop, as they do
\* in an empty buffer, and so does that of io at the name in the text of stat.
\* The text of statm is seven numbers, and after them the rest of stat's.
Kept(m, n, fields) == \A f \in fields : n.now[f] = m.now[f]
Misread(m, n, file, buffer) ==
  CASE file = "stat" /\ buffer = "statm" -> n.now["pid"] = m.now["size"]
    [] file = "statm" /\ buffer = "stat" ->
         n.now["size"] = n.now["pid"] /\ Kept(m, n, StatmFields \ {"size"})
    [] file = "io" /\ buffer = "statm" ->
         /\ n.now["rchar"] = n.now["resident"] /\ n.now["wchar"] = n.now["text"]
         /\ n.now["syscr"] = n.now["data"]
    [] OTHER -> Kept(m, n, FieldsOf(file))

OldUpdate(m, n, kernel, failing, time) ==
  /\ n.files = m.files /\ n.prevTime = m.time /\ n.time = time
  /\ n.prev = [f \in Remembered |-> m.now[f]]
  /\ n.buffer = IF Holds(m, "io", failing) THEN "io" ELSE BufferAt(m, "io", failing)
  /\ \A file \in Files :
       IF file \notin m.files THEN Kept(m, n, FieldsOf(file))
       ELSE IF file \in failing THEN Misread(m, n, file, BufferAt(m, file, failing))
       ELSE \A f \in FieldsOf(file) : n.now[f] = kernel[f]

\* The functions that return a field as it is.
Get(m, field) == m.now[field]

\* Hundredths of a percent of one core, and 256ths of a megabyte.
OldLoad(m, field, jiffy) ==
  Quotient((m.now[field] - m.prev[field]) * 1000 * 10000, jiffy * (m.time - m.prevTime))
getTotalProgramSize(m) == m.now["size"]
getCodeSize(m) == m.now["text"]
getSharedPages(m) == m.now["share"]
getDataSize(m) == m.now["data"]
getResidentSetSize(m) == m.now["resident"]
OldIoInBytes(m, W) == Since(m.now["rchar"], m.prev["rchar"], W)
OldIoOutBytes(m, W) == Since(m.now["wchar"], m.prev["wchar"], W)

=============================================================================
