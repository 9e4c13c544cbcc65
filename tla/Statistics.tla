----------------------------- MODULE Statistics -----------------------------
(***************************************************************************)
(* lib/Stat.h: samples, each of them a sequence of values, and the sums,   *)
(* averages and variances of what experiments measure.                     *)
(*                                                                         *)
(* T is the type of the values.  As(v) is what is left of v in a T, which  *)
(* sums are made in too: v itself, or its last bits.  Averages are doubles *)
(* and given in units of 1/K, variances of 1/(K*K), for a K that is a      *)
(* multiple of the square of every number that is divided by.  A standard  *)
(* deviation is the root of its variance and is left out.                  *)
(***************************************************************************)
EXTENDS Integers, Sequences, SequencesExt

CONSTANT As(_)

NewSample(samples) == Append(samples, <<>>)
AddAt(samples, value, idx) == [samples EXCEPT ![idx] = Append(@, value)]
\* To the last sample; there has to be one.
Add(samples, value) == AddAt(samples, value, Len(samples))
NumSamplesTotal(samples) == FoldLeft(LAMBDA num, s : num + Len(s), 0, samples)

Sum(sample) == FoldLeft(LAMBDA sum, v : As(sum + v), 0, sample)
Sums(samples) == [i \in DOMAIN samples |-> Sum(samples[i])]
SumTotal(samples) == Sum(Sums(samples))
SumAvg(K, samples) == (K * SumTotal(samples)) \div Len(samples)

Avg(K, sample) == (K * Sum(sample)) \div Len(sample)

\* The averages are added up in a T, too: of whole numbers each time only the
\* whole part is kept.
WholePart(K, v) == K * (v \div K)
AvgAvg(K, samples, whole) ==
  FoldLeft(LAMBDA avg, s : LET sum == avg + Avg(K, s)
                           IN  IF whole THEN WholePart(K, sum) ELSE sum,
           0, samples) \div Len(samples)

Variance(K, sample) ==
  LET avg == Avg(K, sample)
  IN  FoldLeft(LAMBDA var, v : var + (K * v - avg) * (K * v - avg), 0, sample) \div Len(sample)
VarianceAvg(K, samples) ==
  FoldLeft(LAMBDA var, s : var + Variance(K, s), 0, samples) \div Len(samples)

\* The first value is read without a look at how many there are.
Smallest(values) == FoldLeft(LAMBDA min, v : IF v < min THEN v ELSE min, Head(values), values)
Largest(values) == FoldLeft(LAMBDA max, v : IF v > max THEN v ELSE max, Head(values), values)
SumMin(samples) == Smallest(Sums(samples))
SumMax(samples) == Largest(Sums(samples))
MinVal(samples) == Smallest([i \in DOMAIN samples |-> Smallest(samples[i])])
MaxVal(samples) == Largest([i \in DOMAIN samples |-> Largest(samples[i])])

-----------------------------------------------------------------------------
(* Save: a line that names the columns, and a line for each sample.        *)

Columns == <<"linear", "start", "avg", "variance", "stdDev", "min", "max">>
StorageFlags == [{Columns[i] : i \in DOMAIN Columns} -> BOOLEAN]
DefaultFlags == [column \in {Columns[i] : i \in DOMAIN Columns} |-> column = "avg"]

\* In the first line a column of its own for each, in this order.
Header(flags) == SelectSeq(Columns, LAMBDA column : flags[column])

\* The order in which a line gets what there is of a sample: the columns for
\* where it starts are written before the rest, which has been put together
\* before them.
Line(flags) ==
  LET values == SelectSeq(<<"avg", "variance", "stdDev", "min", "max">>,
                          LAMBDA column : flags[column])
  IN  (IF flags["linear"] THEN <<"linear">> ELSE <<>>)
        \o (IF flags["start"] THEN <<"start">> ELSE <<>>) \o values

\* The process is aborted if there is not a start for each sample, or if the
\* file cannot be made.
Saves(flags, numStarts, samples, opens) ==
  (flags["start"] => numStarts = Len(samples)) /\ opens
=============================================================================
