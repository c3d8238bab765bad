----------------------------- MODULE Aggregate -----------------------------
(***************************************************************************)
(* From replicates to a published record: split_cpu in the executors of    *)
(* orchestrator/src/main.rs, and aggregate_cell, which rejects outliers on  *)
(* the primary metric and takes the median of every field of the others.   *)
(*                                                                         *)
(* Quantities carry their scale as in Stats: a published f64 field is four *)
(* times a median, and the halves of the CPU time, quotients of two f64,   *)
(* are Scale times what they are before that.                              *)
(***************************************************************************)
EXTENDS Stats

CONSTANTS
  Kinds,        \* kinds of cell to consider; "throughput" stands for all but one
  Observed,     \* kind -> what an execution of such a cell may observe
  Policy,       \* the run's Replication block
  Scale,        \* of the halves of the CPU time
  MaxReps       \* bound: replicates of the cell

\* sampledMeasured and sampledOthers are the CPU figures of the /proc polls.
Observation == [p50: Nat, p99: Nat, rate: Nat, cpu: Nat,
                sampledMeasured: Nat, sampledOthers: Nat]

ASSUME KindsAssumption == Kinds \subseteq {"latency", "throughput"}
\* A replicate's quantiles are those of a LATENCY line (LineAscends of
\* RoundTripProofs).  Scale makes the halves integers: a common multiple of what
\* was sampled, which any finite set of observations has.
ASSUME ScaleAssumption == Scale \in Nat \ {0}
ASSUME ObservedAssumption ==
  \A k \in Kinds : \A o \in Observed[k] :
    /\ o \in Observation /\ o.p50 <= o.p99
    /\ LET sampled == o.sampledMeasured + o.sampledOthers
       IN  sampled = 0 \/ Scale % sampled = 0
ASSUME PolicyAssumption ==
  Policy \in [min: Nat, max: Nat, warmup: Nat,
              madK10: Nat, targetPct: Nat, outlierPct: Nat]
ASSUME MaxRepsAssumption == MaxReps \in Nat

VARIABLES
  kind,         \* the kind of the cell
  records,      \* CellAcc.records: what the replicates reported
  published     \* the merged record; <<>> before it exists

cell == <<kind, records, published>>

Latency == kind = "latency"

-----------------------------------------------------------------------------

\* Slip: the share is taken the wrong way round.
SplitCpuInvertedS(total, measured, others) ==
  [ measured |-> (Scale * total * (measured + others)) \div (IF measured = 0 THEN 1 ELSE measured),
    others   |-> (Scale * total * (measured + others)) \div (IF others = 0 THEN 1 ELSE others) ]

\* An exact total split by the ratio of two sampled figures; nothing sampled
\* leaves both halves zero.
SplitCpuS(total, measured, others) ==
  LET sampled == measured + others
  IN  IF sampled = 0 THEN [measured |-> 0, others |-> 0]
      ELSE [ measured |-> (Scale \div sampled) * total * measured,
             others   |-> (Scale \div sampled) * total * others ]

\* The record of one replicate.  In a latency cell the measured process is the
\* sender, in the others it is the receiver.
RecordOf(o) ==
  LET half == SplitCpuS(o.cpu, o.sampledMeasured, o.sampledOthers)
  IN  [ p50 |-> o.p50, p99 |-> o.p99, rate |-> o.rate, cpu |-> o.cpu,
        receiverS |-> IF Latency THEN half.others ELSE half.measured,
        senderS   |-> IF Latency THEN half.measured ELSE half.others ]

PrimaryMetric(r) == IF Latency THEN r.p50 ELSE r.rate

\* f64::round of a value at scale four, halves away from zero.
Round4(x) == (x + 2) \div 4

Primaries(rs) == [i \in DOMAIN rs |-> PrimaryMetric(rs[i])]

\* Field-wise medians over the replicates kept.
Merge(kept, stability) ==
  LET Med(field) == Median4([i \in DOMAIN kept |-> kept[i][field]])
  IN  [ p50        |-> Round4(Med("p50")),
        p99        |-> Round4(Med("p99")),
        rate4      |-> Med("rate"),
        cpu4       |-> Med("cpu"),
        receiver4S |-> Med("receiverS"),
        sender4S   |-> Med("senderS"),
        stability  |-> stability ]

Survivors(rs) == Kept(Primaries(rs), Policy)

\* Slip: the mask is computed and not applied.
AggregateUnmasked(rs) == Merge(rs, Summarize(Primaries(rs), Policy))

\* Slip: the tail is cast where the median is rounded.
AggregateTruncated(rs) ==
  LET kept == Select(rs, Survivors(rs))
  IN  [ Merge(kept, Summarize(Primaries(rs), Policy)) EXCEPT
          !.p99 = Median4([i \in DOMAIN kept |-> kept[i].p99]) \div 4 ]

\* The filter on the primary metric rejects whole replicates; what is left is
\* merged.  The summary filters the series once more, on its own.
AggregateCell(rs) ==
  Merge(Select(rs, Survivors(rs)), Summarize(Primaries(rs), Policy))

MergeInit == kind \in Kinds /\ records = <<>> /\ published = <<>>

\* A successful replicate.
Replicate(o) ==
  /\ published = <<>> /\ Len(records) < MaxReps
  /\ records' = Append(records, RecordOf(o))
  /\ UNCHANGED <<kind, published>>

\* The loop has stopped measuring the cell, which has a record.
Publish ==
  /\ published = <<>> /\ records # <<>>
  /\ published' = <<AggregateCell(records)>>
  /\ UNCHANGED <<kind, records>>

Finished == published # <<>> /\ UNCHANGED cell

MergeNext == (\E o \in Observed[kind] : Replicate(o)) \/ Publish \/ Finished

MergeSpec == MergeInit /\ [][MergeNext]_cell

-----------------------------------------------------------------------------

Out == published[1]

\* The headline number of a record is the median its stability block vouches
\* for, although the two are computed apart, from two filterings of the series.
HeadlineIsTheStableMedian ==
  published # <<>> =>
    IF Latency THEN Out.p50 = Round4(Out.stability.median4)
    ELSE Out.rate4 = Out.stability.median4

\* Replicates report ordered quantiles, and the medians keep them in order
\* although each is taken on its own and may come from another replicate.
QuantilesStayOrdered ==
  published # <<>> => Out.p50 <= Out.p99

\* A replicate rejected on its primary metric takes its telemetry with it:
\* whatever else it reported, the published record is the same.
RejectedTelemetryIsGone ==
  published # <<>> =>
    AggregateCell([i \in DOMAIN records |->
                     IF i \in Survivors(records) THEN records[i]
                     ELSE [records[i] EXCEPT !.p99 = 0, !.cpu = 0,
                                             !.receiverS = 0, !.senderS = 0]])
      = Out

\* Neither half of the CPU time exceeds the published total.
NoHalfExceedsTheTotal ==
  published # <<>> =>
    Out.receiver4S <= Scale * Out.cpu4 /\ Out.sender4S <= Scale * Out.cpu4

-----------------------------------------------------------------------------
(* The statistics on the series of a cell                                  *)

Series == Primaries(records)

\* The quantile is the type 7 one: at most its share of the samples is below
\* it and at most the rest above, quartiles come in order, and the q-th
\* quartile mirrored is the (4-q)-th of the mirrored series, which no floor or
\* ceiling in the wrong place survives.  (stats.rs, quantile.)
QuantileIsBalanced ==
  LET n == Len(Series)
      Q == [q \in 0..4 |-> Quantile4(Series, q)]
      Mirrored == [i \in 1..n |-> -Series[i]]
      Below(q) == Cardinality({i \in 1..n : 4 * Series[i] < Q[q]})
      Above(q) == Cardinality({i \in 1..n : 4 * Series[i] > Q[q]})
  IN  published # <<>> =>
        \A q \in 0..4 :
          /\ 4 * Below(q) < q * (n - 1) + 4
          /\ 4 * Above(q) < (4 - q) * (n - 1) + 4
          /\ q > 0 => Q[q - 1] <= Q[q]
          /\ Q[q] = -Quantile4(Mirrored, 4 - q)

\* With a mad_k of at least 0.7 (the conventional one is 3.0) half of the
\* replicates or more survive the Hampel filter, so the aggregator, which indexes
\* the first survivor, has one.  (stats.rs, hampel_mask; main.rs, aggregate_cell.)
MajoritySurvives ==
  published # <<>> /\ Policy.madK10 >= 7 =>
    2 * Cardinality(Survivors(records)) >= Len(records)

\* A sequence with two neighbours exchanged.
Exchanged(s, i) == [s EXCEPT ![i] = s[i + 1], ![i + 1] = s[i]]

\* The order replicates come in, which interleaving leaves to chance, reaches the
\* published record in one place, the list of samples it publishes in execution
\* order: if two neighbours had been exchanged, that list would have them
\* exchanged and every median, count and verdict would be the same.
\* (stats.rs, Stability::summarize; main.rs, aggregate_cell.)
OnlySamplesShowTheOrder ==
  published # <<>> =>
    \A i \in 1..Len(records) - 1 :
      AggregateCell(Exchanged(records, i))
        = [Out EXCEPT !.stability.samples = Exchanged(Out.stability.samples, i)]

\* A bimodal or drifting cell is not called stable: no more than the allowed
\* share of the replicates was rejected, and of the survivors half, give or take
\* one, lie within the target of the published median.  (stats.rs, the comment on
\* `stable' and heavy_outlier_rejection_is_not_called_stable.)
StableIsNotBimodal ==
  published # <<>> /\ Out.stability.stable =>
    LET idx  == Survivors(records)
        m4   == Out.stability.median4
        near == {i \in idx : 100 * Abs(4 * Series[i] - m4) <= Policy.targetPct * m4}
    IN  /\ 100 * (Len(records) - Cardinality(idx)) <= Policy.outlierPct * Len(records)
        /\ m4 > 0 => 2 * Cardinality(near) >= Cardinality(idx) - 1
-----------------------------------------------------------------------------
(* The inductive invariant behind the properties of a published record.    *)

\* What the records of replicates are like, whatever was observed.
Replicated ==
  {r \in [p50: Nat, p99: Nat, rate: Nat, cpu: Nat, receiverS: Nat, senderS: Nat] :
     /\ r.p50 <= r.p99
     /\ r.receiverS <= Scale * r.cpu
     /\ r.senderS <= Scale * r.cpu}

\* What is published is the aggregate of the replicates, of which there are some.
CellInv ==
  /\ kind \in Kinds
  /\ records \in Seq(Replicated)
  /\ published # <<>> =>
       records # <<>> /\ published = <<AggregateCell(records)>>
=============================================================================
