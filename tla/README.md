# zmq-arena in TLA+

zmq-arena measures ZeroMQ implementations against each other. A Rust
orchestrator (`orchestrator/`) runs the cells of a matrix (implementation,
kind of traffic, payload size, transport) as pairs or groups of target
processes (`targets/`), repeats every cell until its number is stable,
merges the replicates into one JSON record per cell, and Python scripts
(`scripts/`) generate matrices, render the records and archive them.

What has to be right is that a published number is what it says it is: the
replicates of a cell are interleaved with those of the others, a result is
taken only from a window that was fed, the CPU time and the memory peak are
those of the cell's own processes, the merged record agrees with the
stability verdict beside it, and the files of an output directory tell one
story. This directory states that in TLA+, checks it on small instances with
TLC and proves the core of it for all instances with TLAPS.

Contents: [inventory](#inventory), [modules](#modules),
[runs and bounds](#runs-and-bounds), [fairness](#fairness),
[proofs](#proofs), [findings](#findings), [what is left out](#what-is-left-out),
[plan](#plan).

## Inventory

Line numbers are of `orchestrator/src/main.rs` unless another file is named.

**Replication loop** (`run`, 248-540). State: the effective `Replication`
policy, one `CellAcc` per matrix entry (records, primary metrics, failures,
done), the round and the position in it; on disk `_host.json`, one record per
cell, `_run.json`. Operations: the gates before anything is measured, warmup
rounds, measured rounds over the cells that are not done, aggregation and
writing. It calls `execute_cell` and the statistics, in one thread. Hard: the
ceiling counts rounds while the minimum counts successes; a cell may fail in
any round; the process may be killed or a write may fail; the directory
outlives the run. Correct when: active cells are never more than one attempt
apart; a cell is left only when converged or attempted to the ceiling; an
early stop and the published flag agree; `_run.json` is the last word.

**Robust statistics** (`stats.rs`). Stateless: quantiles, MAD, the Hampel
filter, the stability verdict. Hard: the ends and the interpolation of the
quantile, zero MAD, zero median, the filter hiding a second mode. Correct
when: the quantile is balanced, the filter keeps a majority, the verdict
depends on no order (only the published list of samples shows it), and a heavily
filtered or wide cell is not stable.

**Record aggregation** (542-643). Stateless: `split_cpu`, `primary_metric`,
the medians, `aggregate_cell`. It filters the series for itself and asks
`Stability::summarize`, which filters it again. Correct when the two agree, a
rejected replicate leaves no trace, quantiles stay ordered.

**Cell execution** (`run_throughput` 1177-1311, `run_latency` 1317-1415,
`run_multipeer` 1430-1608, with `wait_until*` 804-882). State: the child
processes, their two cgroup leaves, the syscall probe, the usage sampled so
far. Operations: spawn, attach, poll with a deadline, kill, wait, judge, read
the meters, drop. Hard: the children run, exit, crash or hang at any moment;
a spawn or an attach may be refused; leaves carry the same names in every
replicate. Correct when: nothing outlives its cell, every execution returns,
a result comes only from a fed window and a process that ended well in time,
the meters count the cell's own processes.

**cgroup leaves** (`cgroups.rs`), **telemetry** (`telemetry.rs`: `getrusage`
deltas, the perf syscall counter, RSS): the meters of a cell.

**Network namespace** (`netns.rs`), **rootfs mounts and preflight** (953-1075),
**endpoints** (`make_endpoint` 776-802, socket paths 890-935): the resources of
a run, acquired by name and released by `Drop`. State: kernel objects that
outlive the process, and the target processes in them. Hard: a kill skips every
destructor and leaves targets running; two runs may be started with one id, or
with ids that map to one namespace name; a port is probed in another namespace
than it is used in; a mount is made only if none was seen. Correct when: a run
neither loses what it holds nor removes what another one holds, and its targets
talk to each other only.

**Target metadata** (140-206): a describe call per implementation, cached for
the run with its fallback. **Host provenance** (`host.rs`): what the host
looked like, whether it is admissible, whether that is enforced.
**Configuration** (`config.rs`): matrix entries and the replication block,
which nothing validates.

**Targets** (`targets/*`, fourteen programs in seven languages): PUSH/PULL and
REQ/REP pairs, fan-out and fan-in peers; each counts its warmup and its
measured messages or times a window and prints one line. They interact with
the orchestrator by their arguments, stdout and exit status, with each other
by ZeroMQ. They share a plan and differ in what `targets/README.md` leaves
open: who waits for whom, how a burst is drained, what a failed receive means,
what a producer does with what it has not written. Hard: joining a stream
already running, a peer that dies, the boundary between warmup and
measurement, the end of a window and of a queue. Correct when: the printed
count is the whole block, received while the clock ran, and nothing is left in
a buffer; a window ends, overruns its deadline by no more than its drain
explains, and saw all the peers its rate is multiplied by.

**Render and archive** (`scripts/render_results.py`), **backfill**
(`scripts/backfill-host.py`): separate programs that read the output directory
of whichever runs wrote it, file one archive per date, keep an index of them and
complete older archives. They interact through files only, without a lock.
Hard: records of an earlier run beside the host block of a later one, renders
that overlap or are killed between the archive and the index, an archive that is
replaced while another program completes it. Correct when: the index lists what
is there and forgets nothing, an archive's blocks and records are told apart by
run, nothing asserted passes for a measurement.

**Matrix generator** (`scripts/gen_matrix.py`), variant and feature tables, image
build, dashboard, CI.

`PROJECT.json` lists every component with its status, and under `hazards`
each place where this code is hard to test, with the properties that cover it.

## Modules

| module | models | checked by |
|---|---|---|
| `Sorting` | the ascending sort that quantiles are taken from, in `stats.rs` and in the latency clients | through the modules that extend it |
| `Stats` (extends `Sorting`) | `stats.rs` as operators over integers | through the modules below |
| `Aggregate` (extends `Stats`) | `split_cpu` and `aggregate_cell` over the replicates of one cell, and the laws of the statistics on its series | `merge`, `stats` (`MCAggregate`) |
| `AggregateProofs` | theorems about `Aggregate` and the statistics | TLAPS |
| `RunLoop` (extends `Stats`) | `run`: the replication loop and the files it writes | `campaign` (`MCRunLoop`) |
| `Campaign` | what a run does to its output directory, for those who read it: the abstract specification of `RunLoop`, extended by `Archive` | `campaign` (as a property), `archive` |
| `RunLoopProofs` | theorems about `RunLoop` | TLAPS |
| `CellExec` | the three executors with their processes, leaves, meters | `cells`, `teardown` |
| `CellExecProofs` | theorems about `CellExec` | TLAPS |
| `BlockTransfer` | the two processes of a throughput cell, PUSH to PULL, in fourteen wrappers | `transfer` (`MCBlockTransfer`) |
| `BlockTransferProofs` | theorems about `BlockTransfer` | TLAPS |
| `RoundTrip` (extends `Sorting`) | the two processes of a latency cell, REQ to REP, in fifteen wrappers | `trips` (`MCRoundTrip`) |
| `RoundTripProofs` | theorems about `RoundTrip`, and the counting and sorting lemmas `AggregateProofs` shares | TLAPS |
| `WindowCount` | the processes of a multi-peer cell: one side feeds, receivers time a window | `window` (`MCWindowCount`) |
| `WindowCountProofs` | theorems about `WindowCount` | TLAPS |
| `RunResources` | namespaces, mounts, ports, socket files and target processes of runs that are killed or run side by side | `resources`, `nsleak` (`MCRunResources`) |
| `RunResourcesProofs` | theorems about `RunResources` | TLAPS |
| `Archive` (extends `Campaign`) | the host gate, the describe cache, the render step and the backfill over one output directory | `archive`, `admissible` (`MCArchive`) |
| `ArchiveProofs` | theorems about `Archive` | TLAPS |

Operators named "Slip" in a comment are mistakes a change to the code could
make; `PROJECT.json` names for every checked property a slip that breaks it.

**Numbers.** The code computes in `f64`. Every quantity here is an integer
that carries the smallest scale which keeps it one, as part of its name:
`Quantile4` is four times a quantile (the interpolation points are quarters),
`Mad16` sixteen times a MAD. The halves of the CPU time are quotients whose divisor
depends on the replicate; they carry the scale `S`, the constant `Scale` of
`Aggregate`, a common multiple of what was sampled: `receiverS`, and
`receiver4S` once merged. `1.4826` is `7413/5000`, percentages stay percentages. Only the
rounding of `f64` is left out.

**RunLoop.** One step is one turn of an inner loop: `Warmup`, `SkipDone`,
`MeasureOk(m)`, `MeasureFail`, `SkipEmpty`, `WriteRecord`, with `EndRound` and
`EndWrite` where a loop ends. Executing a cell is one step with the outcomes
`CellExec` allows, a metric or a failure. `cursor` is the loop index, `round`
the code's `measured`. A file is represented by the number of the run that
wrote it, so that a record can be told from one an earlier run left in the
same directory (`main.rs:301` creates the directory and never empties it; the
`Makefile` names it after the day). `StartRun` is everything before the first
round, gates included; `RefuseRun` a gate that fails, or `--dry-run`;
`NoHostFile` a run whose first write, of `_host.json`, does not succeed.
`WriteError` stands for a write that fails and for the panic of an
aggregation without a surviving replicate. `std::fs::write` truncates its file
before it fills it, so a write that fails or is cut short by a kill
(`Interrupted`) leaves the file as it was or `HalfWritten`, and what an earlier
run had there is gone.

**Campaign.** What `RunLoop` promises to readers of the directory and nothing
about how: a run begins with `_host.json`, publishes each cell at most once in
the order of the matrix, and concludes with the number of records it wrote, or
is aborted; what it does not write over stays as an earlier run left it, and an
abort may leave half of the next file. `RunLoop` maps `busy` to
`phase # "idle"`, keeps the files as they are, and is checked (and, but for the
fairness, proved) to implement it; rounds, replicates, convergence and errors
are stutters. `Archive` extends it and so reads exactly what the loop writes.

**CellExec.** `pc` follows the executor's statements: `spawn` and `attach` for
each process in turn, `probe`, `poll` (`wait_until_peak`), `expired` between
the last poll and the kill, `collect`, then `await` and `overdue` for a
throughput producer, `kill` for a REP server, `sample` and `kill` for the
peers of a windowed cell, `judge` for the chain of checks, `drop` for the
destructors. Each is a point where the code makes a system call that depends
on what the processes have done, so a process step may come between any two.
A process is `alive` and may become `ok` or `failed` at any moment, or stay
alive for ever. Process `<<e, i>>` is the i-th spawned by execution `e`;
`reaped` are those a `wait` returned for. `before` is the first `getrusage`,
which counts the children reaped so far, so a record's `cpu` is the set of
children its delta covers; `tenants` is what a leaf's memory peak covers.
`fanout` stands for `pubsub` too (same spawn order and same measured process).

Two decisions: the error branch of `try_wait` is left out (it cannot fail for
a child of the caller that was not reaped), and a child's pid is the target's
own, because every wrapper (`ip netns exec`, `chroot`, the launch scripts)
execs.

**Aggregate.** A replicate is what an execution observed (`Observation`) turned
into a record by `RecordOf`; one field stands for the fields that are merged
the same way (`p50`, `p99` for all quantiles, `rate` for the rates). A cell
collects replicates (`Replicate`) and is published once (`Publish`); the
properties of the statistics are about the series of its primary metrics, those
of the merged record about all of its fields. `CellInv` says what a replicate's
fields are like and that what is published is their aggregate.

**BlockTransfer.** Messages are indistinguishable and in order, so the stream
is three cursors: `sent` (given to `send()`), `out` (written by the producer
process) and `got` (received). `pc`, `count` and `measured` are the consumer's
loop and counters; `clockAt` remembers how many messages it had received when
it read its clock. A wrapper is a record of the choices its source makes:
`connect` (a library that retries, or a raw stream connected once), `leave`
(drains its queue; flushes by hand; lingers five seconds; has written
everything when `send` returns; never leaves and is killed), `clock` (after a
warmup loop, or at the receipt that completes the warmup), `until` (a counter
of the block, or of the grand total), and what a receive that fails (`error`)
or a stream that ends (`closed`) does in the warmup and in the block. For
instance `rust_zmq` starts the clock when a warmup receive fails and then runs
to the grand total, `tmq` counts an error item as a warmup message, and `jeromq`,
which does not look at what its receive returned, counts a null in either loop
(`nulls` are those in the block). `MayCut` and `MayHurry` say which wrapper may
print less than the block, or start its clock early, after which failure; no
other may. `warmup` is the cell's; with a warmup of 0 the clock of `monocoque`
starts at the first message of the block (`Untimed`). A producer that connects
once and finds nobody is `refused`, one that died before it connected `unborn`:
there is no stream then that could end.

**WindowCount.** One receiver per peer, or the one sink of a fan-in cell. `pc`
is `first` while it waits for its first message, `head` where it looks at the
deadline, `recv` in a receive, `drain` and `try` in a burst. `queue` is what
its socket holds, `burst` what is left of a burst that is drained without a
new read, `late` what it counted after its deadline, `arrived` and `joined`
the peers that have connected and those still there. A wrapper's record says
whether the binding side gathers its peers, whether a full PUB drops or
blocks, whom a PUSH may serve, and whether receives are bounded. `pubsub` and
`fanout` differ in who gets a message: everyone, or one with room. The PUSH of
`omq_tokio` and of `monocoque` goes round (`Rotates`): nobody has a second
message before everyone has had a first (`served`), so one full receiver holds
up the rest. The order within a round is left open. A null that `jeromq`'s
window receives is counted (`NullCounts`).

**RoundTrip.** `srv` is the echo server, `wire` the one message that may be under
way, `echoed` and `trips` what either side has counted; `pc` is `ready` before a
trip, `sending` once the clock is read and `waiting` for the reply. The two loops of a client (warmup and
measured) differ in whether the trip is recorded, so they are one pair of
actions. The clock `now` advances anywhere, `t0` is the stopwatch, `rtts` what
it recorded and `waited` remembers how long the client spent on timed
trips. A wrapper's record says whether it connects once, whether it looks at a
send that failed, whether a stream that ended counts as a reply (`monocoque` and
`jeromq` do not look at what their receive returned: such a trip is one of the
`phantoms`), and which rank its quantiles have.

**RunResources.** `phase` is where the orchestrator is between two system calls:
`look` and `mount` (`mount_all`), `gates`, `del`, `add`, `up`, `undo`
(`NetNs::create`: `ip netns del`, `add`, `link set lo up`, and the deletion
after a failure), `cells`, `consumer`, `producer`, `running`, `drop`. A
namespace is an object with a name: `named` says which object a name stands
for, objects are named after the run that added them, and a process (`net`)
stays in its object when the name is deleted, as in the kernel. `ns` is
`NETNS`: `some`, or why not (`refused`, or `collided` with another run of the
name). `mounts` counts the `/proc` mounts stacked on the image filesystem,
`mine` which runs have made one and not taken one back. A run has one execution
after the other: `cells` counts them, `port` is what `make_endpoint` gave each,
`bound` and `peer` are consumers that can be reached and whom producers are
connected to. `EndCell` kills or reaps both processes; `SpawnRefused` is the `?`
of a spawn that fails, which drops the consumer's `Child` and leaves the process
alive on its port, inside the namespace (`left`). `met` remembers which runs
overlapped, which is what the properties excuse or do not. A killed run leaves its
processes too; whatever is left lives on, ends or reconnects as it likes, and
meets the later executions of its own and other runs. `EndRun` drops the mounts and not the
namespace, because `NETNS` is a static.

**Archive.** Runs are `Campaign`'s, with the machine they begin on
(`BeginOn(h)`, `RefuseOn(h)`: the host gate) and the build each record names
(`PublishCell`: `target_meta` with its cache, which lives as long as the run).
A render step goes `new`, `cells` (it has read the records), `loaded` (and
`_host.json`, `_run.json`), `archived`, `read` (it has parsed the index),
`truncated` (`write_text` has emptied it), `new`. Any number of them may be
under way, for the same date or different ones, while runs go on; each may be
killed anywhere, which leaves the file it was writing torn. An archive is a
record of the runs its parts stem from: `by[c]` wrote the record of cell `c`,
`host` wrote `_host.json`, `run` is the `_run.json` block. A backfill reads an
archive without an `os`, compares CPUs unless forced, and replaces the archive
later. `calm`, `listed` and `lossy` are history: that no run was under way while
a render read, what was ever put into the index, and that an index was read torn
or by two renders at once. A half-written file of the directory makes a render
fail before it writes anything (`LoadCells` and `LoadRest` are not enabled
then, `KillRender` is).

In the three modules of the targets the actions of two processes interleave freely, a process
may die between any two of its steps, and what is up to a library (when a queue
moves, whether a receive returns when its peers are gone) is left open.

## Runs and bounds

| run | module | expects | what it shows |
|---|---|---|---|
| `campaign` | `MCRunLoop` | pass | interleaving, early stops, the ceiling, the order of the files, termination, and that the loop implements `Campaign` |
| `stats` | `MCAggregate` | pass | the laws of the quantile, the filter and the verdict, and that the order of the replicates shows in the published list of samples only |
| `merge` | `MCAggregate` | pass | the merged record agrees with its stability block and with itself |
| `cells` | `CellExec` | pass | executions: teardown, verdicts, probe, return, and what one leaves the next is not charged for |
| `transfer` | `MCBlockTransfer` | pass | what is printed was received on the clock or is a null that counted; a line short of the block, or an early clock, follows a failed receive of a wrapper that handles it so; transfers complete |
| `window` | `MCWindowCount` | pass | overrun, peers seen, windows end |
| `trips` | `MCRoundTrip` | pass | every round trip was echoed, but for the phantoms of two clients once the server is gone, and timed alone and whole; the quantiles balance, cells end |
| `resources` | `MCRunResources` | pass | namespaces, mounts, ports and sockets of two runs: targets stay in their namespace and talk to each other only, a mounted `/proc` stays |
| `archive` | `MCArchive` | pass | what is published: gated, told from older records, rightly attributed, listed and not forgotten |
| `teardown`, `nsleak`, `admissible` | | violation | see [findings](#findings) |

* `campaign`: 2 cells, 2 runs in one directory, metrics 0 (a starved window)
  and 20, ceilings 0, 2 and 4. Two cells are the least that interleave, and
  with one converged and one failing the loop has both to skip and to go on;
  ceiling 4 over minimum 3 is the smallest gap in which a cell stops early
  (the verdict needs three survivors); two runs are the least with a stale
  file. The edges (`max = 0`, `min > max`, `--replicates 0`) are policies no
  code rejects.
* `stats`: every series of up to 6 replicates of a throughput cell with 5 rates. Six covers all
  fractional positions of both quartiles (n mod 4), both parities of the
  median, and one and two rejections on either side of the quarter; the
  values hold ties, near-ties within the target, and outliers.
* `merge`: up to 4 replicates of 12 latency and 10 throughput observations,
  with a rejected one, ties, and CPU ratios that differ between replicates. What
  was sampled adds up to 4 or 2, or to nothing, so `Scale` is 4.
* `cells`: 2 peers (one measured sender or receiver and two others, which is
  the least where one of the others may be missed), two executions of the kinds
  of two processes and one of the windowed kinds, every refusal; two is the least
  where an execution is preceded by a failed one, and the theorems cover any
  number for every kind.
* `resources`: 2 runs in any order or side by side, 3 ids of which 2 share a
  namespace name (every character but letters, digits and dashes becomes a
  dash), 2 ports, tcp and ipc, two executions between them (`MaxTotal`; one where
  the runs mount `/proc` themselves): two runs are the least that collide, two
  executions the least where one follows one whose producer was refused, in the
  same run or the other, and with two ports a probed port may be one in use
  elsewhere, one held by what was left behind, or neither. With or
  without a `/proc` the operator mounted. The theorems cover any number.
* `archive`: 3 cells of 2 image-built targets (two cells share a target, so the
  cache answers once), 3 machines (the bench host, the same with one CPU on
  powersave, one without root and with turbo, not declared), 2 dates one of which
  has an archive without an `os`, with or without a `cpu`, 2 renders at once, and any 3 starts of runs,
  renders and backfills: two runs and a render are the least in which a record is
  stale, two renders and a kill the least in which an index is overwritten.

* `transfer`: a warmup of 0 or 3 and a block of 5, buffers for 4 messages, a batch of
  3, two spurious receive errors. A warmup of 3 has a middle, so a clock one
  early is told from one at the start; 3 does not divide the total of 8, so a
  partial batch is left to flush; the buffer is smaller than the block, so the
  producer is held up; two errors can fall into one phase or into both.
* `trips`: a warmup of 2, 4 timed trips and 4 ticks to share among them: a warmup
  of 2 so that a clock started one trip early is told from one never restarted, and
  at 4 trips the two ranks in use differ (at .5, .9, .99 and .999), with
  repeated and distinct times.
* `window`: 2 peers and sockets that hold 2 messages: the least where one peer
  lags behind another, and where a burst goes on after its first message.
  `late` is counted up to one above the room, which is what the properties
  distinguish.

Deadlock is checked in the runs of `RunLoop`, `CellExec`, `RunResources` and
`Aggregate`, where a model that has reached its bound stutters in
`Finished`. It is not in `transfer`, `window` and `trips`, whose processes exit
and where a receive without a bound may really wait for ever, nor in `archive`
and `admissible`, where runs, renders and backfills end.

## Fairness

`RunLoop` and `CellExec` assume `WF_vars(Orchestrator)` and nothing else. The
orchestrator is one thread; each of its steps is either a computation or a
system call that does not wait for a target, except the waits, and each of
these polls against a deadline of its own (`wait_until`, `wait_until_peak`) or
follows a `SIGKILL`. (`Campaign` states the same of the run as a whole, weak
fairness of `Step`, and the loop is checked to provide it.) So it always takes a next step. Nothing is assumed of the
processes, which may hang for ever, nor of the operator, who need not start
another run. `RunEnds` takes from `CellReturns` that a cell is one step.

`BlockTransfer` and `WindowCount` assume that a process that can step does:
weak fairness of the producer's and of the consumer's steps (`Loop(r)` for each
receiver), of a library thread that empties a queue, of each peer's `Join`, of
the deadline (time passes) and of a PUSH that serves every receiver it may serve:
one with room or, where it rotates strictly, one whose turn it is and that has
room. For `rzmq`, `zmq_rs`, `omq_rb`, `omq_cr` and the ports of libzmq the
sources say nothing of a rotation, and libzmq's rule is taken for them: every
receiver with room has its message some time. Nothing is assumed to make a
process die, a receive fail, a linger end, or a library report that its peers
are gone; and nothing empties the write buffer of a wrapper that has to flush
it by hand. `RoundTrip` assumes weak fairness of the server's and of the
client's steps, and nothing of the clock, the probe or a dying server.

## Proofs

The eight proof modules prove, for every value of the constants (any number of
cells, runs, peers, executions, any policies and metrics, any warmup, block and
buffer sizes, any set of wrapper records, machines, dates and renders, any series of
replicates of any length), from
the named assumptions of their modules, which say that the constants
have their types (and of `Archive`'s: that targets differ in what their key is
made of, that machines have a first CPU and a boost file of 0 or 1; of
`Aggregate`'s: that an execution observes ordered quantiles, which `LineAscends`
proves of every latency line, and that `Scale` makes its halves integers):

| theorem | property |
|---|---|
| `RunLoopProofs!TypeCorrect` | `TypeOK` |
| `RunLoopProofs!Interleaved` | `RoundRobin` |
| `RunLoopProofs!StopsAreStable` | `EarlyStopPublishedStable` |
| `RunLoopProofs!EveryCellFinished` | `NoCellGivenUp` |
| `RunLoopProofs!RunFileLast` | `RunFileIsLast` |
| `RunLoopProofs!ConvergedIsFinal` | `DoneIsFinal` |
| `RunLoopProofs!LoopIsCampaign` | every step is one of `Campaign` or a stutter (the safety part of `ImplementsCampaign`) |
| `RunLoopProofs!BoundedWork` | `WorkIsBounded`, with `StepsLeft` a natural number |
| `CellExecProofs!TypeCorrect` | `TypeOK` |
| `CellExecProofs!CpuBelongsToTheCell` | `CpuIsThisCell` |
| `CellExecProofs!AcceptedWindowsWereFed` | `AcceptedWasFed` |
| `CellExecProofs!AcceptedMeasuredReported` | `AcceptedReported` |
| `CellExecProofs!PeersDieByThemselves` | `DiedByItself` |
| `CellExecProofs!NothingOutlivesItsCell` | `NoOrphans` |
| `CellExecProofs!ProbedBeforeFlow` | `ProbeBeforeFlow` |
| `CellExecProofs!LeavesAreFresh` | `FreshLeaves` |
| `CellExecProofs!BoundedWork` | `WorkIsBounded`, with `StepsLeft` a natural number |
| `BlockTransferProofs!TypeCorrect` | `TypeOK` |
| `BlockTransferProofs!ReportsWholeBlock` | `WholeBlock` |
| `BlockTransferProofs!CountIsOfTheClock` | `CountMatchesClock` |
| `BlockTransferProofs!WarmupIsUntimed` | `ClockAfterWarmup` |
| `WindowCountProofs!TypeCorrect` | `TypeOK` |
| `WindowCountProofs!OverrunIsBounded` | `OverrunBounded` |
| `WindowCountProofs!PeersBeforeWindow` | `WindowSeesAllPeers` |
| `RoundTripProofs!TypeCorrect` | `TypeOK` |
| `RoundTripProofs!TripsAreEchoed` | `EveryTripEchoed` |
| `RoundTripProofs!TimeAccounted` | `TimedIsWaited` |
| `RoundTripProofs!LineBalanced` | `QuantilesBalanced` |
| `AggregateProofs!CellInvariant` | `CellInv` |
| `AggregateProofs!HeadlineVouchedFor` | `HeadlineIsTheStableMedian` |
| `AggregateProofs!QuantilesPublishedInOrder` | `QuantilesStayOrdered` |
| `AggregateProofs!HalvesPublishedWithin` | `NoHalfExceedsTheTotal` |
| `AggregateProofs!RejectedLeaveNoTrace` | `RejectedTelemetryIsGone` |
| `AggregateProofs!SeriesBalanced` | `QuantileIsBalanced` |
| `AggregateProofs!HalfSurvive` | `MajoritySurvives` |
| `AggregateProofs!OrderShowsInSamples` | `OnlySamplesShowTheOrder` |
| `AggregateProofs!StableHasOneMode` | `StableIsNotBimodal` |
| `RunResourcesProofs!TypeCorrect` | `TypeOK` |
| `RunResourcesProofs!NamespaceSurvives` | `NamespaceIsOwn` |
| `RunResourcesProofs!NoEscape` | `TargetsStayInside` |
| `RunResourcesProofs!Private` | `TrafficIsPrivate` |
| `RunResourcesProofs!OnlyOrphansCross` | `CrossingNeedsOrphans` |
| `RunResourcesProofs!ProcIsHeld` | `ProcStays` |
| `ArchiveProofs!TypeCorrect` | `TypeOK` |
| `ArchiveProofs!Indexed` | `IndexNamesArchives` |
| `ArchiveProofs!Kept` | `HistoryKept` |
| `ArchiveProofs!StaleIsTold` | `CountTellsStale` |
| `ArchiveProofs!GateHolds` | `GateKeepsOut` |
| `ArchiveProofs!BuildsAreOwn` | `BuildIsOwn` |
| `ArchiveProofs!BackfillsAreHonest` | `BackfillIsHonest` |
| `ArchiveProofs!ArchiveIsCampaign` | every step is one of `Campaign` or leaves the directory alone |

Each rests on an inductive invariant `IInv` at the end of the component's
module. In `RunLoop` the properties do not carry themselves: that an early
stop is published as stable needs that the loop only sets `done` on a stable
series (`StopInv`) and that a record of this run is written from the series
the loop ended with (`PublishInv`), and both need to know which records are
this run's (`RecordInv`, with the count of `cells_written` as a cardinality)
and that a run in progress has no run file yet (`FileInv`). In `CellExec` an
accepted record is right because of what each stage of `pc` has behind it
(`StageInv`: who is spawned, who is reaped), because a `wait` returns only for
a dead process (`ProcInv`), because what was reaped before an execution is
exactly what is not its own (`CpuInv`, which is what makes the `getrusage`
delta exact although refused spawns leave unreaped processes behind), and
because a failed peer keeps its status until it is sampled (`FedInv`). Its leaves
are fresh unless a process that nobody will reap was left behind, which is what
`LeafInv` carries from one execution to the next.

That a run and an execution come to an end has a part about safety, and that part
is proved. `StepsLeft` counts what each may still do: the rounds up to the
ceiling, and in each a step for every cell and the steps around them; two steps for
each process still to start, one for the probe, and the stages after them. It is
a natural number, every step of the orchestrator takes from it, nothing else adds
to it (`BoundedWork`), and at the start it is no more than the matrix and the
policy, or the number of processes, allow. So neither can go on for ever; that they do
not stop half-way, because some step is always possible and is taken, is `RunEnds`
and `CellReturns`, which need ENABLED and fairness and stay with TLC.

In `BlockTransfer` the printed count is right because before the clock runs
only the warmup is counted (`WarmupInv`), from then on the block's counter is
what was received since and the nulls that counted (`ClockInv`); the warmup is as
long as it should be unless a failed receive hurried it (`HurryInv`), and the block
begins where the warmup was counted out unless one cut it (`CutInv`). The wrappers'
records are arbitrary in the proofs, but for one assumption: a wrapper whose clock
starts at a receipt cannot count a failed receive (`ReceiptAssumption`). In
`WindowCount` the gathering of peers is carried by what has been sent or, in a
fan-in cell, by where the sink is (`GatherInv`), and the overrun by the fact
that a receive is only begun before the deadline and that a buffered burst fits
what the socket held (`LateInv`). In `RoundTrip` one side has the move at any
moment (`Alternate`), so the two counters, less the phantoms, differ by one reply
at most, under way or lost with the server, after which none can come (`Tally`), and what is recorded and printed is counted by the client's
(`Recorded`, which also says that the line is made of the recorded times).

What is said of sorted data rests on one lemma, `OrderStatistic` of
`RoundTripProofs`: for every number x, the k-th entry of a sorted series is at
most x just if at least k samples are. `Sorted` is a definition by counting
(`Place`), not by recursion, so the lemma needs no induction: places are a
bijection (`PlaceBijection`), and cardinalities do the rest. From it follow that a
sorted series ascends and splits (`SortedSplits`), that order statistics are
monotone and scale (`SortedBelow`), and that a series is sorted into what its
counts determine (`SameCounts`), which is why its order does not reach a quantile. Sums of round trip times are
recursive functions; that appending a time adds it (`SumAppend`) is an induction
over their index, done with a set of naturals (`NatSetInduction`) because the
library's theorem takes an operator.

In `Aggregate` the quantile is cut into the sorted samples it lies between and
its quarters of the way (`Lo`, `Hi`, `Part`), which is linear for each of the four
quarters. Half of a series is within its MAD of the median by the balance of both
(`HalfSurvive`), and the filter's threshold is no less than the MAD from a `mad_k`
of 0.7 on. Reordering the replicates (`AggregateReordered`, for any permutation, of which
`OnlySamplesShowTheOrder` exchanges two neighbours) reorders every field alike, so
the filter keeps the same replicates, counted field by field, and all medians stay;
the list of samples is reordered with them.
The two filterings of a series agree because each is a function of the series
(`SummaryOf`).

That the loop implements `Campaign` needs, besides the loop's invariant, that no
cell behind the cursor has a record of the run and that the records it has
written are counted, so that `WriteRecord` maps to `Publish` and `WriteRunFile`
to `Conclude`.

In `RunResources` a run's name stands for its own object, for one of a run it has
met, or for none (`NameInv`, over `MetInv`: whoever runs beside another has met
it); nobody else's process is in a run's object unless the two are rivals
(`HomeInv`); and a process that runs belongs to the execution under way, to that
of a killed run, or is a consumer that was left behind, while an execution yet to
begin has neither processes nor peers (`TargetInv`). From these follows who can be
connected to whom. Mounts are as many as runs have made and not taken back
(`MountsBalance`, which counts and does not say whose is taken: `umount` takes
the topmost), and `SeenInv` says with whom a `/proc` that was found may go.

In `Archive` one predicate, `Sound(h, a)`, says what has to be right of anything
made of the directory, wherever it is by now: in a render's memory, in an
archive, in a backfill's hands. It speaks only of what runs that have begun will
never change, so it survives every step (`SoundStays`); the directory itself
satisfies the corresponding facts about its present (`DirectoryInv`, `GateInv`,
`CacheInv`), and `ReadingInv` bridges the two reads of one render, in between
which a run may begin. The index needs to know that whoever has read it lists
all that was listed, unless two have (`IndexInv`).

`TypeOK` in every module, `RunFileIsLast`, `DoneIsFinal`, `AcceptedReported`,
`DiedByItself`, `NamespaceIsOwn`, `IndexNamesArchives` and the two
`WorkIsBounded` have a
theorem and no run of their own: they are the plainer facts, which the proofs
settle for every instance. Every other property of the table is also checked by a
run.

The arithmetic of the statistics does not enter the proofs of `RunLoop`: there
`Stable` is a Boolean function of the series and the policy, and that is all they use.

Every safety property that a passing run checks is thus proved. Only
model-checked are `RunEnds`, `CellReturns`, both `Completes`, `TimedWindowEnds`,
`FedWindowEnds` and the fairness of `Campaign`: liveness under fairness, and with
it ENABLED, is beyond the prover.

## Findings

* `teardown` (code bug): a spawn that fails returns with `?` and drops the
  `Child` values of the processes already started, which neither kills nor
  reaps them; then the leaves are removed with tasks in them, although
  `cgroups.rs:139-140` asks the caller to reap first. The process survives
  the cell, and its leaf is reused by the next replicate.
* `nsleak` (code bug): `NETNS` (890, set at 341) is a static, and Rust does not
  drop statics, so the namespace of every run that made one stays, although
  `netns.rs:19` and `netns.rs:78-80` say that it lives as long as the value and
  that the drop reaps it. The next run of the same id deletes it; with another
  id it stays for good.
* `admissible` (code bug): the directory of a day is never emptied and
  `render_results.py` (246-272) takes all records and one host block. A cell that
  fails in an admissible run is published with the record an earlier run of the
  day left, made without root or with turbo on, and without the reasons that
  `README.md:328-332` says are always attached. `CountTellsStale` shows that
  `cells_written` against the number of records would tell.

Other disagreements have no run, since reading the code settles them:

* Compiled wrappers other than `libzmq_cpp` wait for a first message without a
  bound (`rust_zmq` 381), although `targets/pyzmq_target/target.py:157-158` (and
  the Ruby, Crystal, Java and C# wrappers) say that all of them give up after ten
  seconds; a starved cell is a zero for some wrappers and a missing record for
  others.
* A latency cell's syscall probe opens 120 ms after the client was started
  (1351), in its warmup or later, while `scripts/render_results.py:158` says that
  its window spans warmup and measured messages and divides by both.
* The count a throughput consumer reports is not compared with the block it was
  asked for (1258), and `targets/README.md:197-202` says the harness rejects a
  partial block.
* `jeromq` counts a null for a message, in a block (`Target.java:135-137`), in a
  window (99-100) and as a round trip (171-172), and `monocoque` the end of the
  stream as a round trip (its `main.rs:400`), although `targets/README.md:200-204`
  wants exactly the block received and no round trip elided.
* `targets/README.md:169-176` says that every wrapper starts its clock after the
  last warmup message: `rust_zmq` starts it when a warmup receive fails, `tmq` and
  `jeromq` count a failed one, and without a warmup `monocoque` starts it at the
  first message of the block (its `main.rs:314`).
* The total CPU time and its two halves are medians of their own (635-637) and
  need not sum as `README.md:309-310` says.
* A target runs outside its leaf between its spawn and its attach, which
  `cgroups.rs:5-6` rules out.
* `README.md:339` promises isolation flags per cell; 501 writes one per run.

## What is left out

* f64 rounding; the figures of the stability block that nothing here reads
  (`mad`, `min`, `max`, `rel_iqr`, `cv`), all of them functions of what was kept; elapsed times; the syscall counter's value.
* Time, but for the stopwatch of `RoundTrip`. Deadlines are events that may come
  at any moment, so how long a step takes (the 120 ms before a latency probe, the
  five seconds a producer gets) is not told apart.
* What a `describe` call does inside a target; `Archive` has its answer, or none.
* In `BlockTransfer`, `RoundTrip` and `WindowCount`: payloads, socket options, the size of
  real queues, ZeroMQ's own handshake (a peer that has joined is subscribed),
  and the drain of `omq_tokio` on a multi-threaded runtime, which other threads
  refill: it is in the model, but the properties about the end and the overrun
  of a window leave it out because they do not hold of it. A receive of a window
  or of a round trip fails only once the other side is gone; in a block it may
  fail at any time (`MaxErrors`).
* In `CellExec`: ports and endpoints (see `RunResources`), arguments, cpusets.
* In `RunResources`: leaves (see `CellExec`), more than one image filesystem, the
  multi-peer kinds (more processes on one endpoint, whose refused spawns leave the
  earlier ones behind in the same way), and the checks of the preflight. Between
  the last read of the consumer and `EndCell` a producer is waited for at most five
  seconds and killed: how an execution ends is `CellExec`'s.
* In `Archive`: what a record says beyond its run and its build, the inversion
  flags, fields of the host block that are only reported, and other fields a
  backfill completes than the one that stands for them.
* The matrix generator: arithmetic over constants, done when a matrix is made.
* Output formatting, logging, the dashboard, the static tables, the image
  build and the CI workflow.

## Plan

The order is by how much a published number depends on the part. Done: the
replication loop and the campaign it implements, the statistics, aggregation,
cell execution, the throughput, latency and windowed targets, the resources runs
share, the gate, the archive and the backfill, and the safety proofs of all of
them. Next:

1. `RunLoop` over `CellExec`: the loop's `MeasureOk`/`MeasureFail` refined by
   executions.
2. An abstract block handed over whole, implemented by `BlockTransfer`, and an
   abstract exchange implemented by `RoundTrip`.
3. The run-wide isolation flags and the syscall counter's fallbacks
   (`telemetry.rs`), and what `_run.json` and the records then say.
4. The inversion flags of `render_results.py` and the generator.

Theorems worth having next: the two refinements, and `RunResources` with several
image filesystems.
