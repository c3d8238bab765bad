------------------------------- MODULE Stats -------------------------------
(***************************************************************************)
(* The robust statistics of orchestrator/src/stats.rs, over integers.      *)
(*                                                                         *)
(* A replicate's primary metric is a natural number.  The code works in    *)
(* f64; here every quantity carries the smallest scale that keeps it an    *)
(* integer, and the scale is part of its name: Quantile4 is four times the *)
(* quantile, Mad16 sixteen times the unscaled median absolute deviation.   *)
(* Rounding of f64 is the only thing left out.                             *)
(*                                                                         *)
(* A replication policy is the record Replication of config.rs:            *)
(*   min, max, warmup   replicate counts                                   *)
(*   madK10             mad_k in tenths (3.0 is 30)                        *)
(*   targetPct          target_rel_iqr in percent (0.05 is 5)              *)
(*   outlierPct         max_outlier_frac in percent (0.25 is 25)           *)
(***************************************************************************)
EXTENDS Sorting

Abs(x) == IF x < 0 THEN -x ELSE x

\* Slip: the upper neighbour is rounded where the code takes the ceiling.
QuantileRounded4(xs, q) ==
  IF xs = <<>> THEN 0
  ELSE LET v   == Sorted(xs)
           pos == q * (Len(v) - 1)
           lo  == v[pos \div 4 + 1]
           hi  == v[(pos + 2) \div 4 + 1]
       IN  4 * lo + (pos % 4) * (hi - lo)

\* Four times the q/4 quantile: position (n-1)q/4 of the sorted samples,
\* interpolated linearly between its two neighbours.  0 for no data.
Quantile4(xs, q) ==
  IF xs = <<>> THEN 0
  ELSE LET v   == Sorted(xs)
           pos == q * (Len(v) - 1)
           lo  == v[pos \div 4 + 1]
           hi  == v[(pos + 3) \div 4 + 1]
       IN  4 * lo + (pos % 4) * (hi - lo)

Median4(xs) == Quantile4(xs, 2)

Deviations4(xs) ==
  LET m4 == Median4(xs) IN [i \in DOMAIN xs |-> Abs(4 * xs[i] - m4)]

Mad16(xs) == Median4(Deviations4(xs))

Iqr4(xs) == Quantile4(xs, 3) - Quantile4(xs, 1)

\* Slip: max_outlier_frac passed for mad_k, which precedes it by two arguments.
KeptBySwappedArgument(xs, rep) ==
  LET mad == Mad16(xs)
  IN  IF Len(xs) < 3 \/ mad = 0
      THEN DOMAIN xs
      ELSE {i \in DOMAIN xs :
              2000000 * Deviations4(xs)[i] <= rep.outlierPct * 7413 * mad}

\* The indices hampel_mask keeps: all of them below three samples or when the
\* MAD is zero, otherwise those within k * 1.4826 * MAD of the median.
Kept(xs, rep) ==
  LET mad  == Mad16(xs)
      dev4 == Deviations4(xs)
  IN  IF Len(xs) < 3 \/ mad = 0
      THEN DOMAIN xs
      ELSE {i \in DOMAIN xs :
              200000 * dev4[i] <= rep.madK10 * 7413 * mad}

\* The samples at a set of indices, in execution order.
Select(xs, idx) ==
  LET rank == [i \in idx |-> Cardinality({j \in idx : j <= i})]
  IN  [k \in 1..Cardinality(idx) |-> xs[CHOOSE i \in idx : rank[i] = k]]

\* rel_iqr <= target_rel_iqr, where rel_iqr is defined as 0 at median 0.
WithinTarget(xs, rep) ==
  \/ Median4(xs) = 0
  \/ 100 * Iqr4(xs) <= rep.targetPct * Abs(Median4(xs))

\* Slip: the clause that voids a heavily filtered cell is missing.
AnyRejected(n, dropped, rep) == TRUE

\* The filter rejected at most max_outlier_frac of the replicates.
FewRejected(n, dropped, rep) == 100 * dropped <= rep.outlierPct * n

\* Stability::summarize.  The median, the quartile range and the verdict stand
\* for the other figures of what was kept (mad, min, max, rel_iqr, cv); samples is
\* the whole series in execution order.
Summarize(xs, rep) ==
  LET kept    == Select(xs, Kept(xs, rep))
      dropped == Len(xs) - Len(kept)
  IN  [ n          |-> Len(kept),
        replicates |-> Len(xs),
        dropped    |-> dropped,
        median4    |-> Median4(kept),
        iqr4       |-> Iqr4(kept),
        samples    |-> xs,
        stable     |-> /\ Len(kept) >= 3
                       /\ WithinTarget(kept, rep)
                       /\ FewRejected(Len(xs), dropped, rep) ]

Stable(xs, rep) == Summarize(xs, rep).stable
=============================================================================
