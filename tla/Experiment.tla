----------------------------- MODULE Experiment -----------------------------
(***************************************************************************)
(* modules/gnuplot: the experiment that measures WallMon itself.  In every *)
(* host a collector samples at ten frequencies, one after the other, and   *)
(* ends its daemon (Collector.cpp, Common.cpp); the handler files what it  *)
(* receives by frequency, and writes the charts' data and ends its server  *)
(* when it has as many messages as all hosts it knows of send              *)
(* (Handler.cpp).                                                          *)
(*                                                                         *)
(* A frequency is its index in SAMPLE_INTERVALS: they are powers of two,   *)
(* so that 1000 / (1000 / hz) is hz again.                                 *)
(***************************************************************************)
EXTENDS Integers, FiniteSets, Sequences

CONSTANT Hosts

VARIABLES
  sampler,        \* of each host: its Controller, timer and context
  network,        \* the messages under way, from any daemon's queue on
  known,          \* the keys of _terminationCond
  expected,       \* _expectedTotalNumSamples
  numSamples,     \* _numSamples
  filed,          \* the messages in _hzToWallmonMessages
  series,         \* the frequencies in _procNameToHz, by process name
  outcome         \* of the handler's process

vars == <<sampler, network, known, expected, numSamples, filed, series, outcome>>

NUM_SAMPLE_INTERVALS == 10
Intervals == 0..(NUM_SAMPLE_INTERVALS - 1)
get_num_samples(i) == IF i < 5 THEN 60 ELSE IF i < 8 THEN 120 ELSE 300
get_total_num_samples == 1260
Targets == {"wallmons", "wallmond"}

\* running: the loop of get_total_num_samples, stopped before interval i.
SamplesBefore(i) ==
  IF i < 5 THEN 60 * i ELSE IF i < 8 THEN 300 + 120 * (i - 5) ELSE 660 + 300 * (i - 8)

Init ==
  /\ sampler = [h \in Hosts |-> [index |-> 0, samples |-> 0, frequency |-> 0, seq |-> 0,
                                 state |-> "sampling"]]
  /\ network = {}
  /\ known = {}
  /\ expected = 9999
  /\ numSamples = 0
  /\ filed = {}
  /\ series = [p \in Targets |-> {}]
  /\ outcome = "none"

-----------------------------------------------------------------------------
(* A daemon.                                                               *)

\* Controller::AfterSample, until the last interval is over.
AfterSample(s) ==
  IF s.samples + 1 # get_num_samples(s.index)
    THEN [s EXCEPT !.samples = s.samples + 1]
    ELSE [s EXCEPT !.index = s.index + 1, !.samples = 0,
                   !.frequency = IF s.index + 1 # NUM_SAMPLE_INTERVALS
                                   THEN s.index + 1 ELSE s.frequency]

\* Scheduler::_TimerCallback: the message has the number of the sample and the
\* frequency that it was taken at, also when AfterSample has changed it.
\* processes are the names it reports of those that the handler looks for.
Sample(h) ==
  /\ sampler[h].state = "sampling" /\ sampler[h].index # NUM_SAMPLE_INTERVALS
  /\ \E processes \in SUBSET Targets :
       network' = network \union {[host |-> h, seq |-> sampler[h].seq,
                                   hz |-> sampler[h].frequency, processes |-> processes]}
  /\ sampler' = [sampler EXCEPT ![h] = [AfterSample(sampler[h]) EXCEPT !.seq = sampler[h].seq + 1]]
  /\ UNCHANGED <<known, expected, numSamples, filed, series, outcome>>

\* The sample after the last: AfterSample exits, and the message is not sent.
Exit(h) ==
  /\ sampler[h].state = "sampling" /\ sampler[h].index = NUM_SAMPLE_INTERVALS
  /\ sampler' = [sampler EXCEPT ![h].state = "exited"]
  /\ UNCHANGED <<network, known, expected, numSamples, filed, series, outcome>>

\* A connection breaks, or the daemon exits with messages in its queue.
Lose(message) ==
  /\ message \in network
  /\ network' = network \ {message}
  /\ UNCHANGED <<sampler, known, expected, numSamples, filed, series, outcome>>

-----------------------------------------------------------------------------
(* The server: GnuplotHandler::Handle.                                     *)

\* A connection keeps the order of its messages.
IsNext(message) ==
  /\ message \in network
  /\ \A other \in network : other.host = message.host => message.seq <= other.seq

\* A host's count is 1 when it is new and set to 1 when it is known, so that
\* "too many samples" never holds.
Register(message) ==
  /\ known' = known \union {message.host}
  /\ expected' = IF message.host \in known THEN expected
                 ELSE get_total_num_samples * Cardinality(known')
  /\ numSamples' = numSamples + 1

\* _SaveWallmonSamplingRateData writes one series for each process name found and
\* one for the messages, all against the frequencies of the first name:
\* Stat::Save checks that they are as many.  Only one tile's server saves.
Outcome(found) ==
  LET names == {p \in Targets : found[p] # {}}
      first == IF "wallmond" \in names THEN "wallmond" ELSE "wallmons"
      Fits(frequencies) == Cardinality(frequencies) = Cardinality(found[first])
  IN  IF Fits({m.hz : m \in filed'}) /\ \A p \in names : Fits(found[p])
        THEN {"exited", "saved"} ELSE {"exited", "aborted"}

Found(names, hz) == [p \in Targets |-> IF p \in names THEN series[p] \union {hz} ELSE series[p]]

\* The test for the end, saved or not, is made after each of the processes looked
\* for, and so not at all in a message without one.
Handle(message) ==
  /\ outcome = "none"
  /\ IsNext(message)
  /\ network' = network \ {message}
  /\ Register(message)
  /\ filed' = filed \union {message}
  /\ IF message.processes # {} /\ numSamples' = expected'
       THEN \E first \in message.processes :
              /\ series' = Found({first}, message.hz)
              /\ outcome' \in Outcome(series')
       ELSE /\ series' = Found(message.processes, message.hz)
            /\ UNCHANGED outcome
  /\ UNCHANGED sampler

-----------------------------------------------------------------------------
Next ==
  \/ \E h \in Hosts : Sample(h) \/ Exit(h)
  \/ \E message \in network : Lose(message) \/ Handle(message)

Spec == Init /\ [][Next]_vars

-----------------------------------------------------------------------------
Messages == [host : Hosts, seq : Nat, hz : Intervals, processes : SUBSET Targets]

\* A message is filed under the frequency that its sample belongs to, also the
\* first and the last one of an interval: Sample changes the frequency while
\* the message that tells it is being composed.
FiledByItsFrequency ==
  \A message \in filed :
    /\ SamplesBefore(message.hz) <= message.seq
    /\ message.seq < SamplesBefore(message.hz + 1)

\* "all samples received": when the charts are drawn, each sample of each host
\* that the handler knows of is in, although it neither counts them by host nor
\* knows which ones it has.
AllSamplesReceived ==
  outcome # "none" =>
    \A h \in known, n \in 0..(get_total_num_samples - 1) :
      \E message \in filed : message.host = h /\ message.seq = n

=============================================================================
