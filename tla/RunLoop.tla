------------------------------ MODULE RunLoop ------------------------------
(***************************************************************************)
(* The replication loop of orchestrator/src/main.rs (fn run): one          *)
(* single-threaded process measures every cell of a matrix in interleaved  *)
(* rounds, stops a cell once its spread meets the target or the ceiling is *)
(* reached, then aggregates, writes one record per cell and finally        *)
(* _run.json.  Executing a cell (module CellExec) is one step here, with   *)
(* the outcomes that module allows: a metric, or a failed replicate.       *)
(*                                                                         *)
(* The output directory outlives a run: it is created if missing and never *)
(* emptied, and the Makefile names it after the day.  The variable `run'   *)
(* numbers the runs that use it, so that a file can be traced to the run   *)
(* that wrote it.                                                          *)
(***************************************************************************)
EXTENDS Stats

CONSTANTS
  NumCells,      \* entries of the matrix
  Metrics,       \* primary metrics a replicate may yield; 0 is a starved window
  Policies,      \* Replication blocks a matrix may carry
  CliChoices,    \* --replicates values that may be given; -1 stands for none
  MaxRuns,       \* bound: runs that share the output directory
  MayKill        \* whether the orchestrator may be killed

ASSUME NumCellsAssumption == NumCells \in Nat
ASSUME MetricsAssumption == Metrics \subseteq Nat
ASSUME MaxRunsAssumption == MaxRuns \in Nat
ASSUME PoliciesAssumption ==
  Policies \subseteq [min: Nat, max: Nat, warmup: Nat,
                      madK10: Nat, targetPct: Nat, outlierPct: Nat]
ASSUME CliAssumption == CliChoices \subseteq Nat \cup {-1}
ASSUME MayKillAssumption == MayKill \in BOOLEAN

Cells == 1..NumCells

\* In place of the run that wrote a file: it was truncated and not filled.
HalfWritten == -1

Writers == Nat \cup {HalfWritten}

VARIABLES
  phase,      \* "idle", "warmup", "measure", "write", "meta"
  exit,       \* how the last run ended: "none", "ok", "error", "killed"
  run,        \* number of the current (or last) run in this directory
  rep,        \* the effective Replication policy of the run
  round,      \* rounds completed in the current phase
  cursor,     \* the cell the inner loop is at; NumCells + 1 at its end
  primary,    \* CellAcc.primary: metrics of the successful replicates
  failures,   \* CellAcc.failures
  done,       \* CellAcc.done
  records,    \* <cell_id>.json: the run that wrote it (0: no file) and its
              \* stability flag
  written,    \* the run's count of records written
  hostFile,   \* the run that wrote _host.json
  runFile     \* the run that wrote _run.json and its cells_written

acc  == <<primary, failures, done, written>>
disk == <<records, hostFile, runFile>>
vars == <<phase, exit, run, rep, round, cursor, acc, disk>>

Policy == [min: Nat, max: Nat, warmup: Nat,
           madK10: Nat, targetPct: Nat, outlierPct: Nat]

TypeOK ==
  /\ phase \in {"idle", "warmup", "measure", "write", "meta"}
  /\ exit \in {"none", "ok", "error", "killed"}
  /\ run \in Nat
  /\ rep \in Policy
  /\ round \in Nat
  /\ cursor \in 1..(NumCells + 1)
  /\ primary \in [Cells -> Seq(Nat)]
  /\ failures \in [Cells -> Nat]
  /\ done \in [Cells -> BOOLEAN]
  /\ records \in [Cells -> [run: Writers, stable: BOOLEAN]]
  /\ written \in Nat
  /\ hostFile \in Writers
  /\ runFile \in [run: Writers, written: Nat]

-----------------------------------------------------------------------------
(* Helpers                                                                 *)

\* --replicates n forces min = max = n (at least 1) and no warmup round.
Effective(policy, cli) ==
  IF cli = -1 THEN policy
  ELSE LET n == IF cli < 1 THEN 1 ELSE cli
       IN  [policy EXCEPT !.min = n, !.max = n, !.warmup = 0]

Attempts(c) == Len(primary[c]) + failures[c]

Measured(c) == primary[c] # <<>>

\* Slip: the last round is left out.
RoundOrWriteEarly(r, dn, max) ==
  IF r + 1 < max /\ \E c \in Cells : ~dn[c] THEN "measure" ELSE "write"

\* Where the measured loop goes when round r would begin: it stops at the
\* ceiling and when no cell is left active.
RoundOrWrite(r, dn, max) ==
  IF r < max /\ \E c \in Cells : ~dn[c] THEN "measure" ELSE "write"

\* Where the warmup loop goes when round r would begin.
WarmupOr(r, pol, dn) ==
  IF r < pol.warmup THEN "warmup" ELSE RoundOrWrite(0, dn, pol.max)

\* Slip: enough replicates are taken for agreement.
ConvergedByCount(xs) == round + 1 >= rep.max \/ Len(xs) >= rep.min

\* The convergence check after an attempt: `measured' counts rounds, the
\* minimum applies to successful replicates only.
Converged(xs) ==
  \/ round + 1 >= rep.max
  \/ Len(xs) >= rep.min /\ Stable(xs, rep)

-----------------------------------------------------------------------------
(* Actions                                                                 *)

Init ==
  /\ phase = "idle" /\ exit = "none" /\ run = 0
  /\ rep \in Policies
  /\ round = 0 /\ cursor = 1
  /\ primary = [c \in Cells |-> <<>>]
  /\ failures = [c \in Cells |-> 0]
  /\ done = [c \in Cells |-> FALSE]
  /\ records = [c \in Cells |-> [run |-> 0, stable |-> FALSE]]
  /\ written = 0
  /\ hostFile = 0
  /\ runFile = [run |-> 0, written |-> 0]

\* Slip: an existing _host.json is left as it is.
StartRunKeepsHost(policy, cli) ==
  /\ phase = "idle" /\ run < MaxRuns
  /\ run' = run + 1
  /\ exit' = "none"
  /\ rep' = Effective(policy, cli)
  /\ primary' = [c \in Cells |-> <<>>]
  /\ failures' = [c \in Cells |-> 0]
  /\ done' = [c \in Cells |-> FALSE]
  /\ written' = 0
  /\ phase' = WarmupOr(0, rep', done')
  /\ round' = 0 /\ cursor' = 1
  /\ hostFile' = IF hostFile = 0 THEN run + 1 ELSE hostFile
  /\ UNCHANGED <<records, runFile>>

\* The gates have passed (matrix loaded, rootfs preflight, host enforcement),
\* _host.json is written and the cells start from empty accumulators.
StartRun(policy, cli) ==
  /\ phase = "idle" /\ run < MaxRuns
  /\ run' = run + 1
  /\ exit' = "none"
  /\ rep' = Effective(policy, cli)
  /\ primary' = [c \in Cells |-> <<>>]
  /\ failures' = [c \in Cells |-> 0]
  /\ done' = [c \in Cells |-> FALSE]
  /\ written' = 0
  /\ phase' = WarmupOr(0, rep', done')
  /\ round' = 0 /\ cursor' = 1
  /\ hostFile' = run + 1
  /\ UNCHANGED <<records, runFile>>

\* A gate refuses the run, or --dry-run only prints the plan: nothing is
\* measured and no file changes.
RefuseRun ==
  /\ phase = "idle" /\ run < MaxRuns
  /\ run' = run + 1
  /\ exit' \in {"ok", "error"}
  /\ UNCHANGED <<phase, rep, round, cursor, acc, disk>>

\* The gates have passed and _host.json cannot be written, or the orchestrator is
\* killed while it writes it: fs::write truncates the file, then fills it.
NoHostFile ==
  /\ phase = "idle" /\ run < MaxRuns
  /\ run' = run + 1
  /\ exit' = "error" \/ (MayKill /\ exit' = "killed")
  /\ hostFile' \in {hostFile, HalfWritten}
  /\ UNCHANGED <<phase, rep, round, cursor, acc, records, runFile>>

\* A warmup replicate: its result is discarded whatever it is.
Warmup ==
  /\ phase = "warmup" /\ cursor <= NumCells
  /\ cursor' = cursor + 1
  /\ UNCHANGED <<phase, exit, run, rep, round, acc, disk>>

EndWarmupRound ==
  /\ phase = "warmup" /\ cursor > NumCells
  /\ phase' = WarmupOr(round + 1, rep, done)
  /\ round' = IF phase' = "warmup" THEN round + 1 ELSE 0
  /\ cursor' = 1
  /\ UNCHANGED <<exit, run, rep, acc, disk>>

\* Slip: the index is not advanced before the loop continues.
SkipDoneStuck ==
  /\ phase = "measure" /\ cursor <= NumCells /\ done[cursor]
  /\ UNCHANGED vars

\* The inner loop passes over a cell that has converged.
SkipDone ==
  /\ phase = "measure" /\ cursor <= NumCells /\ done[cursor]
  /\ cursor' = cursor + 1
  /\ UNCHANGED <<phase, exit, run, rep, round, acc, disk>>

\* execute_cell returned a record whose primary metric is m.
MeasureOk(m) ==
  /\ phase = "measure" /\ cursor <= NumCells /\ ~done[cursor]
  /\ primary' = [primary EXCEPT ![cursor] = Append(@, m)]
  /\ done' = [done EXCEPT ![cursor] = Converged(primary'[cursor])]
  /\ cursor' = cursor + 1
  /\ UNCHANGED <<phase, exit, run, rep, round, failures, written, disk>>

\* Slip: a failed replicate is tried again in the same round.
MeasureFailRetry ==
  /\ phase = "measure" /\ cursor <= NumCells /\ ~done[cursor]
  /\ failures' = [failures EXCEPT ![cursor] = @ + 1]
  /\ UNCHANGED <<phase, exit, run, rep, round, cursor, primary, done, written, disk>>

\* execute_cell failed: the replicate is skipped, and the convergence check
\* runs all the same.
MeasureFail ==
  /\ phase = "measure" /\ cursor <= NumCells /\ ~done[cursor]
  /\ failures' = [failures EXCEPT ![cursor] = @ + 1]
  /\ done' = [done EXCEPT ![cursor] = Converged(primary[cursor])]
  /\ cursor' = cursor + 1
  /\ UNCHANGED <<phase, exit, run, rep, round, primary, written, disk>>

EndRound ==
  /\ phase = "measure" /\ cursor > NumCells
  /\ round' = round + 1
  /\ phase' = RoundOrWrite(round + 1, done, rep.max)
  /\ cursor' = 1
  /\ UNCHANGED <<exit, run, rep, acc, disk>>

\* A cell whose replicates all failed gets no record; a file an earlier run
\* left under its name stays.
SkipEmpty ==
  /\ phase = "write" /\ cursor <= NumCells /\ ~Measured(cursor)
  /\ cursor' = cursor + 1
  /\ UNCHANGED <<phase, exit, run, rep, round, acc, disk>>

\* The cell at the cursor has a record to be written.  aggregate_cell indexes the
\* first replicate that survives the filter, so one has to.
Writing ==
  /\ phase = "write" /\ cursor <= NumCells /\ Measured(cursor)
  /\ Kept(primary[cursor], rep) # {}

\* aggregate_cell summarises the samples again, and the record is written.
WriteRecord ==
  /\ Writing
  /\ records' = [records EXCEPT ![cursor] =
                   [run |-> run, stable |-> Stable(primary[cursor], rep)]]
  /\ written' = written + 1
  /\ cursor' = cursor + 1
  /\ UNCHANGED <<phase, exit, run, rep, round, primary, failures, done,
                 hostFile, runFile>>

\* What a write that is interrupted leaves on disk: the file as it was, or, where
\* it had been truncated by then, half of the new one and nothing of the old.
Interrupted ==
  \/ UNCHANGED disk
  \/ /\ Writing
     /\ records' = [records EXCEPT ![cursor] = [run |-> HalfWritten, stable |-> FALSE]]
     /\ UNCHANGED <<hostFile, runFile>>
  \/ /\ phase = "meta"
     /\ runFile' = [run |-> HalfWritten, written |-> 0]
     /\ UNCHANGED <<records, hostFile>>

\* A write that fails, or an aggregation that panics, ends the run with an
\* error: records already written stay, later ones and _run.json are never
\* written.
WriteError ==
  /\ \/ phase = "write" /\ cursor <= NumCells /\ Measured(cursor)
     \/ phase = "meta"
  /\ phase' = "idle" /\ exit' = "error"
  /\ Interrupted
  /\ UNCHANGED <<run, rep, round, cursor, acc>>

EndWrite ==
  /\ phase = "write" /\ cursor > NumCells
  /\ phase' = "meta"
  /\ UNCHANGED <<exit, run, rep, round, cursor, acc, disk>>

\* _run.json counts the records the write loop wrote.
WriteRunFile ==
  /\ phase = "meta"
  /\ runFile' = [run |-> run, written |-> written]
  /\ phase' = "idle" /\ exit' = "ok"
  /\ UNCHANGED <<run, rep, round, cursor, acc, records, hostFile>>

\* The orchestrator is killed: what is on disk is all that remains.
Kill ==
  /\ MayKill /\ phase # "idle"
  /\ phase' = "idle" /\ exit' = "killed"
  /\ Interrupted
  /\ UNCHANGED <<run, rep, round, cursor, acc>>

Orchestrator ==
  \/ Warmup \/ EndWarmupRound
  \/ SkipDone \/ MeasureFail \/ (\E m \in Metrics : MeasureOk(m)) \/ EndRound
  \/ SkipEmpty \/ WriteError \/ WriteRecord \/ EndWrite \/ WriteRunFile

Operator ==
  \/ \E p \in Policies, n \in CliChoices : StartRun(p, n)
  \/ RefuseRun \/ NoHostFile
  \/ Kill

\* Every run the directory may see is over.
Finished == phase = "idle" /\ run = MaxRuns /\ UNCHANGED vars

Next == Orchestrator \/ Operator \/ Finished

\* The loop runs in one thread that nothing blocks: every execute_cell returns,
\* because every wait in it carries a deadline (module CellExec, CellReturns).
Fairness == WF_vars(Orchestrator)

Spec == Init /\ [][Next]_vars /\ Fairness

-----------------------------------------------------------------------------
(* Properties                                                              *)

\* Rounds are interleaved: an active cell has been attempted once in every
\* round so far, successes and failures together, so no two active cells are
\* more than one replicate apart.  (main.rs, the measured rounds.)
RoundRobin ==
  phase = "measure" =>
    \A c \in Cells :
      ~done[c] => Attempts(c) = round + (IF c < cursor THEN 1 ELSE 0)

\* A record of a cell that was stopped before the ceiling carries the stable
\* flag and rests on at least min successful replicates: the decision the loop
\* took and the one the aggregator publishes agree.
EarlyStopPublishedStable ==
  \A c \in Cells :
    /\ run > 0 /\ records[c].run = run
    /\ Attempts(c) < rep.max
    => records[c].stable /\ Len(primary[c]) >= rep.min

\* No cell reaches the write phase while it could still be measured: it stopped
\* early, or it was attempted max times however many attempts failed.
NoCellGivenUp ==
  phase \in {"write", "meta"} =>
    \A c \in Cells : Attempts(c) < rep.max => done[c] /\ Measured(c)

\* _run.json is written last: when the current run has one, the run ended well,
\* _host.json is its own, every cell with a successful replicate has a record of
\* this run, and cells_written is their number.
RunFileIsLast ==
  run > 0 /\ runFile.run = run =>
    /\ exit = "ok"
    /\ hostFile = run
    /\ \A c \in Cells : Measured(c) <=> records[c].run = run
    /\ runFile.written = Cardinality({c \in Cells : records[c].run = run})

\* A converged cell is left alone for the rest of its run.
DoneIsFinal ==
  [][\A c \in Cells :
       done[c] /\ run' = run
       => done'[c] /\ primary'[c] = primary[c] /\ failures'[c] = failures[c]]_vars

\* The loop does to its directory what a campaign promises those who read it:
\* records in the order of the matrix, at most one per cell, then their exact
\* number, and sooner or later an end.  (main.rs, run, 343-345 and 439-534.)
Directory ==
  INSTANCE Campaign WITH busy <- phase # "idle",
                         records <- [c \in Cells |-> records[c].run]

ImplementsCampaign == Directory!Spec

\* A run ends, with records, an error or a kill, whatever its cells do.
RunEnds == phase # "idle" ~> phase = "idle"

-----------------------------------------------------------------------------
(* The inductive invariant behind RoundRobin, EarlyStopPublishedStable,    *)
(* NoCellGivenUp and RunFileIsLast.                                        *)

\* A cell leaves the loop early only on a stable series of enough replicates.
StopInv ==
  \A c \in Cells :
    done[c] /\ Attempts(c) < rep.max
    => Len(primary[c]) >= rep.min /\ Stable(primary[c], rep)

\* The measured rounds start from empty accumulators.
WarmupInv ==
  phase = "warmup" =>
    \A c \in Cells : primary[c] = <<>> /\ failures[c] = 0 /\ ~done[c]

\* Which records this run has written: none before the write phase, then
\* exactly those of the measured cells the cursor has passed.
RecordInv ==
  /\ \A c \in Cells : records[c].run <= run
  /\ phase \in {"warmup", "measure"} =>
       written = 0 /\ \A c \in Cells : records[c].run < run
  /\ phase = "write" =>
       \A c \in Cells : records[c].run = run <=> Measured(c) /\ c < cursor
  /\ phase = "meta" =>
       \A c \in Cells : records[c].run = run <=> Measured(c)
  /\ phase \in {"write", "meta"} =>
       written = Cardinality({c \in Cells : records[c].run = run})

\* What a record of this run says about its cell.
PublishInv ==
  \A c \in Cells :
    run > 0 /\ records[c].run = run =>
      /\ records[c].stable = Stable(primary[c], rep)
      /\ Attempts(c) < rep.max => done[c]

FileInv ==
  /\ runFile.run <= run
  /\ phase # "idle" => run > 0 /\ runFile.run < run /\ hostFile = run

IInv ==
  /\ TypeOK
  /\ WarmupInv /\ RoundRobin /\ StopInv /\ NoCellGivenUp
  /\ RecordInv /\ PublishInv /\ FileInv /\ RunFileIsLast

-----------------------------------------------------------------------------
(* How much a run can take, which is what RunEnds rests on.                *)

\* Rounds the run has left, the one it is in included.
RoundsLeft ==
  CASE phase = "warmup"  -> rep.warmup - round + rep.max
    [] phase = "measure" -> rep.max - round
    [] OTHER             -> 0

\* Steps the orchestrator can take before the run ends: each round and the
\* write loop pass every cell once.
StepsLeft ==
  CASE phase = "idle" -> 0
    [] phase = "meta" -> 1
    [] OTHER          -> (RoundsLeft + 1) * (NumCells + 1) + 2 - cursor

\* A round that is under way is one the policy asks for.
RoundInv ==
  /\ phase = "warmup" => round < rep.warmup
  /\ phase = "measure" => round < rep.max

\* Every step of a run is paid for from an allowance that its policy and its
\* matrix fix when it starts, whatever its cells do: no failure is retried beyond
\* the ceiling, and no outcome prolongs the run.
WorkIsBounded ==
  [][/\ Orchestrator => StepsLeft' < StepsLeft
     /\ phase # "idle" => StepsLeft' <= StepsLeft
     /\ phase = "idle" =>
          StepsLeft' <= (rep'.warmup + rep'.max + 1) * (NumCells + 1) + 1]_vars

=============================================================================
