---------------------------- MODULE MCAggregate ----------------------------
(* Observations and the policy for the model checking of Aggregate.         *)
EXTENDS Aggregate

Conventional == [min |-> 3, max |-> 5, warmup |-> 0,
                 madK10 |-> 30, targetPct |-> 5, outlierPct |-> 25]

Blank == [p50 |-> 0, p99 |-> 0, rate |-> 0, cpu |-> 8,
          sampledMeasured |-> 1, sampledOthers |-> 1]

\* Round trips: flat ones, a heavy tail, and a stalled replicate, which the
\* filter rejects.
RoundTrips ==
  { o \in { [Blank EXCEPT !.p50 = p, !.p99 = q] : p \in 10..12, q \in {10, 11, 12, 30} } :
      o.p50 <= o.p99 }
  \cup { [Blank EXCEPT !.p50 = 40, !.p99 = 41, !.cpu = 1] }

\* Transfers: rates around 20 and a starved window, CPU times and sampled
\* ratios that differ, and a replicate nothing was sampled of.
Transfers ==
  { [Blank EXCEPT !.rate = r, !.cpu = c, !.sampledMeasured = m, !.sampledOthers = 4 - m] :
      r \in {20, 21}, c \in {4, 5}, m \in {1, 3} }
  \cup { [Blank EXCEPT !.sampledMeasured = 0, !.sampledOthers = 0],
         [Blank EXCEPT !.rate = 23, !.cpu = 1] }

Both == [k \in {"latency", "throughput"} |-> IF k = "latency" THEN RoundTrips ELSE Transfers]

\* Rates that tell the statistics apart: a starved window, near-ties within the
\* target and outliers.
Rates == [k \in {"throughput"} |->
            { [Blank EXCEPT !.rate = r] : r \in {0, 1, 20, 21, 40} }]
=============================================================================
