------------------------------ MODULE Messages ------------------------------
(***************************************************************************)
(* What a message says of a process and what a wall makes of it: the       *)
(* contexts and filters of the three collectors (lib/Wallmon.h and the     *)
(* Collector.cpp of each module), the fields that ProcessCollector::Sample *)
(* sets, and the row of the table and the score that the handler of        *)
(* modules/boids2d keeps for the process.                                  *)
(*                                                                         *)
(* A message is a function from the fields that are set to their values.   *)
(* The state machine below follows one process from its first message to   *)
(* its end, through all the monitors that the daemon makes of it, with a   *)
(* wall of servers of which some may come late or be started again.        *)
(***************************************************************************)
EXTENDS Integers, Sequences

CONSTANTS Servers,      \* the computers that run the handler
          Values,       \* what a field may hold
          Blank         \* the text of a row that was never set

STREAMER_ENTRY_PORT == 51023

-----------------------------------------------------------------------------
(* Contexts.                                                               *)

NewContext ==
  [key |-> "", servers |-> <<>>, sampleFrequencyMsec |-> 1000,
   concurrentExecution |-> FALSE, includeStatistics |-> FALSE, exit |-> FALSE]
AddServer(context, address) == [context EXCEPT !.servers = Append(@, address)]
AddServers(context, hosts) ==
  [context EXCEPT !.servers = @ \o [i \in DOMAIN hosts |-> <<hosts[i], STREAMER_ENTRY_PORT>>]]

\* ProcessCollector::OnInit takes over all but concurrentExecution and exit
\* into the context that the scheduler holds.
TakenOver(own, schedulers) ==
  [schedulers EXCEPT !.key = own.key, !.sampleFrequencyMsec = own.sampleFrequencyMsec,
                     !.servers = own.servers, !.includeStatistics = own.includeStatistics]

Of(key, frequency, hosts) ==
  [AddServers(NewContext, hosts) EXCEPT !.key = key, !.sampleFrequencyMsec = frequency,
                                        !.includeStatistics = TRUE]
CommonFilter ==
  {"processname", "pid", "usercpuutilization", "systemcpuutilization", "networkinbytes",
   "networkoutbytes", "storageinbytes", "storageoutbytes", "numreadsystemcallspersec",
   "numwritesystemcallspersec", "user", "starttime", "numthreads", "numpagefaultspersec"}
BoidsCollector(hosts) ==
  [context |-> Of("BOIDS", 750, hosts), filter |-> CommonFilter \union {"memoryutilization"}]
ChartCollector(hosts) ==
  [context |-> Of("CHART", 2000, hosts),
   filter |-> {"processname", "pid", "usercpuload", "systemcpuload"}]
GnuplotCollector(hosts, frequency) ==
  [context |-> Of("gnuplot", frequency, hosts), filter |-> CommonFilter \union {"memorybytes"}]

-----------------------------------------------------------------------------
(* From the monitor of a process to its row.                               *)

Once == {"user", "starttime"}

\* samples counts the monitor's updates: one when the process is added, one
\* before each message.
FieldsOfMessage(filter, samples) == {f \in filter : f \in Once => samples < 3}

\* Scheduler and DataRouter add to a message only if the collector, and the
\* handler, want statistics; Handle copies the name of the host from there.
StatisticsOfDaemon ==
  {"hostname", "collectorsequencenumber", "daemontimestampmsec", "samplefrequencymsec",
   "sampledurationmsec", "scheduledriftmsec", "scheduledurationmsec", "actualhz",
   "daemonqueuesize", "daemonnumserverconnections"}
WithHost(message, context, host) ==
  [f \in (DOMAIN message) \union {"hostname"} |->
     IF f # "hostname" THEN message[f] ELSE IF context.includeStatistics THEN host ELSE Blank]

ItemFields == {"processname", "hostname", "user", "starttime", "numthreads", "pid"}
TableItem == [f \in ItemFields |-> Blank]
SetItem(item, message) ==
  [f \in ItemFields |-> IF f \in DOMAIN message THEN message[f] ELSE item[f]]

\* What _HandleProcessMessage reads whether it is set or not.
ReadByBoids ==
  {"processname", "pid", "usercpuutilization", "systemcpuutilization", "memoryutilization",
   "networkinbytes", "networkoutbytes", "storageinbytes", "storageoutbytes",
   "numpagefaultspersec"}
ReadByChart == {"processname", "pid", "usercpuload", "systemcpuload"}

\* Of a message only the last values are kept; the sums and the rest of
\* StatBase stay 0.  Bytes are percents of 50 MB, whatever the interval.
NETWORK_MAX_IN_AND_OUT_BYTES == 1024 * 1024 * 50
InPercent(bytes) == (100 * bytes) \div NETWORK_MAX_IN_AND_OUT_BYTES
NewStat ==
  [userCpu |-> 0, systemCpu |-> 0, memory |-> 0, networkIn |-> 0, networkOut |-> 0,
   storageIn |-> 0, storageOut |-> 0, samples |-> 0]
UpdateProcessStatistics(msg, stat) ==
  [userCpu |-> msg.usercpuutilization, systemCpu |-> msg.systemcpuutilization,
   memory |-> msg.memoryutilization,
   networkIn |-> InPercent(msg.networkinbytes), networkOut |-> InPercent(msg.networkoutbytes),
   storageIn |-> InPercent(msg.storageinbytes), storageOut |-> InPercent(msg.storageoutbytes),
   samples |-> stat.samples + 1]

\* The order of the rows, in halves.
ScoreTwice(stat) ==
  2 * (stat.userCpu + stat.systemCpu) + 3 * (stat.networkIn + stat.networkOut)
    + 3 * (stat.storageIn + stat.storageOut) + stat.memory

\* A process is known by the name of its host with its number behind it.
CreateProcKey(hostName, digits) == hostName \o digits

\* The colour of a name, from three bytes of its hash.
Lightened(byte) == IF byte < 20 THEN 20 ELSE byte
NameToRgbColor(hash) ==
  <<Lightened(hash % 256), Lightened((hash \div 256) % 256), Lightened((hash \div 65536) % 256)>>

-----------------------------------------------------------------------------
(* The shapes of a process's four boids and the switches of the legend.    *)

Metrics == {"cpu", "memory", "network", "storage"}
ShapeOf ==
  [cpu |-> "QUAD", memory |-> "TRIANGLE_UP", network |-> "DIAMOND", storage |-> "POLYGON"]
AllShown == [m \in Metrics |-> TRUE]
Toggle(shown, metric) == [shown EXCEPT ![metric] = ~shown[metric]]

\* showIoInBoid and showIoOutBoid are what the callbacks named for the
\* network and the storage switch.
IsShapeShown(shape, shown) ==
  CASE shape = "QUAD" -> shown["cpu"]
    [] shape = "DIAMOND" -> shown["memory"]
    [] shape = "TRIANGLE_DOWN" -> shown["network"]
    [] shape = "TRIANGLE_UP" -> shown["storage"]
    [] OTHER -> TRUE

-----------------------------------------------------------------------------
(* One process on one host, and its row at every server.                   *)

VARIABLES
  samples,  \* totalNumSamples of each monitor of the process, in the order made
  sent,     \* to every server, not handled yet
  row,      \* at every server
  ended     \* the monitors whose message that the process has ended was sent
rowVars == <<samples, sent, row, ended>>

\* The other fields of the last message are not looked at.
Terminated == [isterminated |-> TRUE]
RowsInit ==
  /\ samples = <<1>>
  /\ sent = [s \in Servers |-> <<>>]
  /\ row = [s \in Servers |-> TableItem]
  /\ ended = {}

Sampled(m) == samples' = [samples EXCEPT ![m] = @ + 1]

\* Monitor m reports.
Monitor(m) ==
  /\ ended = {}
  /\ Sampled(m)
  /\ \E read \in [BoidsCollector(<<>>).filter -> Values] :
       LET message == [f \in FieldsOfMessage(DOMAIN read, samples'[m]) |-> read[f]]
       IN  sent' = [s \in Servers |-> Append(sent[s], message)]
  /\ UNCHANGED <<row, ended>>

\* The update failed.
Terminate(m) ==
  /\ m \notin ended
  /\ ended' = ended \union {m}
  /\ Sampled(m)
  /\ sent' = [s \in Servers |-> Append(sent[s], Terminated)]
  /\ UNCHANGED row

\* After a listing that failed, or when the collector has been loaded again,
\* the process is taken for a new one and gets a monitor of its own.
Reopen ==
  /\ ended = {}
  /\ samples' = Append(samples, 1)
  /\ UNCHANGED <<sent, row, ended>>

HandleAt(s, host) ==
  /\ sent[s] # <<>>
  /\ sent' = [sent EXCEPT ![s] = Tail(sent[s])]
  /\ row' = [row EXCEPT ![s] =
               IF Head(sent[s]) = Terminated
                 THEN TableItem
                 ELSE SetItem(row[s], WithHost(Head(sent[s]), BoidsCollector(<<>>).context, host))]
  /\ UNCHANGED <<samples, ended>>

\* No handler is registered under the key: DataRouter deletes the message.
NoHandlerAt(s) ==
  /\ sent[s] # <<>>
  /\ sent' = [sent EXCEPT ![s] = Tail(sent[s])]
  /\ UNCHANGED <<samples, row, ended>>

Restart(s) ==
  /\ sent' = [sent EXCEPT ![s] = <<>>]
  /\ row' = [row EXCEPT ![s] = TableItem]
  /\ UNCHANGED <<samples, ended>>

RowsNext ==
  \/ \E m \in DOMAIN samples : Monitor(m) \/ Terminate(m)
  \/ Reopen
  \/ \E s \in Servers : (\E host \in Values : HandleAt(s, host)) \/ NoHandlerAt(s) \/ Restart(s)
RowsSpec == RowsInit /\ [][RowsNext]_rowVars

\* Every monitor has sent the message that tells the user and the start of the
\* process, none is on its way to the server, and the row does not say.
Tells(message, field) == field \in DOMAIN message
Missed(s, field) ==
  /\ \A m \in DOMAIN samples : samples[m] > 1
  /\ \A i \in DOMAIN sent[s] : ~Tells(sent[s][i], field)
  /\ row[s][field] = Blank
=============================================================================
