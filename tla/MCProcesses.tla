---------------------------- MODULE MCProcesses ----------------------------
(***************************************************************************)
(* Processes with two pids, one of them used twice, two names and a chart  *)
(* of one bar; and the operators of module Statistics against what they    *)
(* should be, for all samples of up to three small values.                 *)
(***************************************************************************)
EXTENDS Processes

OneLoad == {1}
TwoPids == {1, 2}

-----------------------------------------------------------------------------
Double(v) == v
TwoBits(v) == v % 4
S == INSTANCE Statistics WITH As <- Double
Short == INSTANCE Statistics WITH As <- TwoBits
K == 36
Samples == UNION {[1..n -> 0..2] : n \in 1..3}

\* The values that test/StatTest.cpp asserts.
ASSUME StatTest ==
  LET stat == S!Add(S!Add(S!NewSample(S!Add(S!Add(S!Add(S!NewSample(<<>>), 1), 2), 3)), 10), 10)
  IN  /\ Len(stat) = 2 /\ S!NumSamplesTotal(stat) = 5
      /\ S!Sums(stat) = <<6, 20>>
      /\ S!Avg(K, stat[1]) = 2 * K /\ S!Avg(K, stat[2]) = 10 * K
      /\ S!AvgAvg(K, stat, FALSE) = 6 * K
      /\ 3 * S!Variance(K, stat[1]) = 2 * K * K /\ S!Variance(K, stat[2]) = 0
      /\ 3 * S!VarianceAvg(K, stat) = K * K

\* The variance is the mean of the squares less the square of the mean, and
\* the average lies between the smallest value and the largest.
ASSUME VarianceIsVariance ==
  \A s \in Samples :
    LET n == Len(s)
        squares == [j \in DOMAIN s |-> s[j] * s[j]]
        sum == S!Sum(s)
    IN  /\ n * n * S!Variance(K, s)
             = K * K * (n * S!Sum(squares) - sum * sum)
        /\ K * S!Smallest(s) <= S!Avg(K, s)
        /\ S!Avg(K, s) <= K * S!Largest(s)

\* Averages of samples of one size are the average of all their values; with
\* values of a whole type each sample may take almost 1 off their sum.
ASSUME AveragesOfOneSize ==
  \A n \in 1..2 : \A a, b \in [1..n -> 0..2] :
    LET exact == S!AvgAvg(K, <<a, b>>, FALSE)
        whole == S!AvgAvg(K, <<a, b>>, TRUE)
    IN  /\ n * exact = S!SumAvg(K, <<a, b>>)
        /\ whole <= exact /\ exact - whole < K

\* A sum that outgrows its type is no sum: the average falls below the
\* smallest value.
ASSUME SumsWrap ==
  \E s \in Samples : Short!Avg(K, s) < K * S!Smallest(s)

\* Every line has the columns that the first line names, in the same order.
ASSUME ColumnsAsNamed ==
  \A flags \in S!StorageFlags : S!Header(flags) = S!Line(flags)

=============================================================================
