----------------------------- MODULE BenchUtil -----------------------------
(***************************************************************************)
(* The statistics of include/bench_util.hpp.  A time is an integer, a      *)
(* quotient of doubles its parts, and the standard deviation is            *)
(* represented by its square, the variance.                                *)
(***************************************************************************)
EXTENDS Integers, Sequences, FiniteSets, Functions

(* std::sort: the samples in a nondecreasing order. *)
Sorted(s) ==
  LET order == CHOOSE f \in Bijection(DOMAIN s, DOMAIN s) :
                 \A i, j \in DOMAIN s : i < j => s[f[i]] <= s[f[j]]
  IN  [i \in DOMAIN s |-> s[order[i]]]

square(d) == d * d

(* A quotient whose denominator is 0 is none of the numbers.               *)
quotient(a, b) == [num |-> a, den |-> b]

no_stats == [n |-> 0, mean |-> quotient(0, 1), variance |-> quotient(0, 1),
             min |-> 0, max |-> 0, median |-> 0]

(* The sum of the squares of n t - sum, which is n times t - mean.         *)
squares_from_mean(times, n, sum) ==
  SumFunction([i \in 1..n |-> square(n * times[i] - sum)])

(* Slips: the middle of the samples as they came; n - 1 divides although   *)
(* there is one sample.                                                    *)
summarize_unsorted(times) ==
  LET n   == Len(times)
      sum == SumFunction(times)
      sq  == squares_from_mean(times, n, sum)
  IN  [n |-> n, mean |-> quotient(sum, n),
       variance |-> IF n > 1 THEN quotient(sq, n * n * (n - 1)) ELSE quotient(0, 1),
       min |-> Sorted(times)[1], max |-> Sorted(times)[n],
       median |-> times[1 + n \div 2]]

summarize_dividing(times) ==
  LET n   == Len(times)
      sum == SumFunction(times)
      sq  == squares_from_mean(times, n, sum)
  IN  [n |-> n, mean |-> quotient(sum, n),
       variance |-> quotient(sq, n * n * (n - 1)),
       min |-> Sorted(times)[1], max |-> Sorted(times)[n],
       median |-> Sorted(times)[1 + n \div 2]]

summarize(times) ==
  LET n   == Len(times)
      sum == SumFunction(times)
      sq  == squares_from_mean(times, n, sum)
  IN  IF n = 0 THEN no_stats
      ELSE [n |-> n, mean |-> quotient(sum, n),
            variance |-> IF n > 1 THEN quotient(sq, n * n * (n - 1))
                         ELSE quotient(0, 1),
            min |-> Sorted(times)[1], max |-> Sorted(times)[n],
            median |-> Sorted(times)[1 + n \div 2]]

(* What the columns of the table mean, without sorting or a mean: the mean *)
(* lies between min and max, the median has at most half of the samples on *)
(* either side, and the variance is 0 for one sample and for more the sum  *)
(* of the squared differences between them over n (n - 1).                 *)
Describes(stats, times) ==
  LET n == Len(times)
      I == 1..n
      differences ==
        SumFunction([i \in I |-> SumFunction([j \in 1..i |-> square(times[i] - times[j])])])
  IN  /\ stats.n = n
      /\ \A i \in I : stats.min <= times[i] /\ times[i] <= stats.max
      /\ {stats.min, stats.max, stats.median} \subseteq {times[i] : i \in I}
      /\ stats.mean.den > 0 /\ stats.variance.den > 0
      /\ stats.mean.den * stats.min <= stats.mean.num
      /\ stats.mean.num <= stats.mean.den * stats.max
      /\ 2 * Cardinality({i \in I : times[i] < stats.median}) <= n
      /\ 2 * Cardinality({i \in I : times[i] > stats.median}) <= n
      /\ IF n = 1 THEN stats.variance.num = 0
         ELSE stats.variance.num * (n * (n - 1)) = differences * stats.variance.den
=============================================================================
