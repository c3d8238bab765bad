--------------------------- MODULE RunLoopProofs ---------------------------
(***************************************************************************)
(* Proofs about RunLoop for every matrix size, policy, metric and number   *)
(* of runs: type correctness and the inductive invariant IInv, from which  *)
(* the safety properties of the run loop follow.                           *)
(***************************************************************************)
EXTENDS RunLoop, TLAPS, FiniteSetTheorems

\* The assumptions of RunLoop under one name, for the leaves that need them.
LEMMA Constants ==
  /\ NumCells \in Nat
  /\ Metrics \subseteq Nat
  /\ Policies \subseteq Policy
  /\ CliChoices \subseteq Nat \cup {-1}
BY NumCellsAssumption, MetricsAssumption, PoliciesAssumption, CliAssumption
DEF Policy

\* The stability flag is a Boolean, so a record of it is well typed.
LEMMA StableIsBoolean ==
  ASSUME NEW xs, NEW p
  PROVE  Stable(xs, p) \in BOOLEAN
BY DEF Stable, Summarize

\* No samples are never stable: the gate wants three survivors.
LEMMA StableNeedsSamples ==
  ASSUME NEW p, Stable(<<>>, p)
  PROVE  FALSE
<1> DEFINE kept == Kept(<<>>, p)
<1>1. kept = {}
  BY DEF Kept
<1>2. Len(Select(<<>>, kept)) = 0
  BY <1>1, FS_EmptySet DEF Select
<1>3. QED
  BY <1>2 DEF Stable, Summarize

LEMMA EffectiveIsPolicy ==
  ASSUME NEW p \in Policies, NEW n \in CliChoices
  PROVE  Effective(p, n) \in Policy
<1>1. p \in Policy
  BY Constants
<1>2. CASE n = -1
  BY <1>1, <1>2 DEF Effective
<1>3. CASE n # -1
  <2>1. n \in Nat
    BY <1>3, Constants
  <2>2. PICK m \in Nat : m = IF n < 1 THEN 1 ELSE n
    BY <2>1
  <2>3. Effective(p, n) = [p EXCEPT !.min = m, !.max = m, !.warmup = 0]
    BY <1>3, <2>2 DEF Effective
  <2>4. [p EXCEPT !.min = m] \in Policy
    BY <1>1 DEF Policy
  <2>5. [p EXCEPT !.min = m, !.max = m] \in Policy
    BY <2>4 DEF Policy
  <2>6. [p EXCEPT !.min = m, !.max = m, !.warmup = 0] \in Policy
    BY <2>5 DEF Policy
  <2>7. QED
    BY <2>3, <2>6
<1>4. QED
  BY <1>2, <1>3

-----------------------------------------------------------------------------
(* Type correctness                                                        *)

LEMMA InitType == Init => TypeOK
BY Constants DEF Init, TypeOK, Cells, Writers

\* What an interrupted write leaves is well typed, and no record or run file of
\* the run under way.
LEMMA InterruptedType ==
  ASSUME TypeOK, Interrupted
  PROVE  /\ hostFile' = hostFile
         /\ records' \in [Cells -> [run: Writers, stable: BOOLEAN]]
         /\ runFile' \in [run: Writers, written: Nat]
         /\ \A c \in Cells : records'[c] = records[c] \/ records'[c].run = HalfWritten
         /\ runFile' = runFile \/ runFile'.run = HalfWritten
<1>1. [run |-> HalfWritten, stable |-> FALSE] \in [run: Writers, stable: BOOLEAN]
      /\ [run |-> HalfWritten, written |-> 0] \in [run: Writers, written: Nat]
  BY DEF Writers
<1>2. CASE UNCHANGED disk
  BY <1>2 DEF disk, TypeOK
<1>3. CASE Writing /\ records' = [records EXCEPT ![cursor] = [run |-> HalfWritten, stable |-> FALSE]]
           /\ UNCHANGED <<hostFile, runFile>>
  BY <1>1, <1>3 DEF TypeOK
<1>4. CASE phase = "meta" /\ runFile' = [run |-> HalfWritten, written |-> 0]
           /\ UNCHANGED <<records, hostFile>>
  BY <1>1, <1>4 DEF TypeOK
<1> QED
  BY <1>2, <1>3, <1>4 DEF Interrupted

\* A measured replicate keeps the accumulators well typed.
LEMMA MeasureType ==
  ASSUME TypeOK, NEW m \in Metrics, MeasureOk(m)
  PROVE  TypeOK'
<1>1. cursor \in Cells /\ m \in Nat
  BY Constants DEF TypeOK, MeasureOk, Cells
<1>2. primary' \in [Cells -> Seq(Nat)]
  BY <1>1 DEF TypeOK, MeasureOk
<1>3. Converged(primary'[cursor]) \in BOOLEAN
  BY StableIsBoolean DEF Converged
<1>4. done' \in [Cells -> BOOLEAN]
  BY <1>1, <1>3 DEF TypeOK, MeasureOk
<1>5. cursor' \in 1..(NumCells + 1)
  BY Constants DEF TypeOK, MeasureOk
<1>6. QED
  BY <1>2, <1>4, <1>5 DEF TypeOK, MeasureOk, disk

LEMMA NextType == TypeOK /\ [Next]_vars => TypeOK'
<1> SUFFICES ASSUME TypeOK, [Next]_vars
             PROVE  TypeOK'
  OBVIOUS
<1> USE Constants
<1>1. CASE UNCHANGED vars
  BY <1>1 DEF TypeOK, vars, acc, disk
<1>2. ASSUME NEW p \in Policies, NEW n \in CliChoices, StartRun(p, n)
      PROVE  TypeOK'
  <2>1. rep' \in Policy
    BY <1>2, EffectiveIsPolicy DEF StartRun
  <2>2. phase' \in {"warmup", "measure", "write"}
    BY <1>2 DEF StartRun, WarmupOr, RoundOrWrite
  <2>3. QED
    BY <1>2, <2>1, <2>2 DEF StartRun, TypeOK, Cells, Writers
<1>3. CASE RefuseRun
  BY <1>3 DEF RefuseRun, TypeOK, acc, disk
<1>18. CASE NoHostFile
  BY <1>18 DEF NoHostFile, TypeOK, acc, Writers
<1>4. CASE Kill
  BY <1>4, InterruptedType DEF Kill, TypeOK, acc
<1>5. CASE Warmup
  BY <1>5 DEF Warmup, TypeOK, acc, disk
<1>6. CASE EndWarmupRound
  <2>1. phase' \in {"warmup", "measure", "write"}
    BY <1>6 DEF EndWarmupRound, WarmupOr, RoundOrWrite
  <2>2. QED
    BY <1>6, <2>1 DEF EndWarmupRound, TypeOK, acc, disk
<1>7. CASE SkipDone
  BY <1>7 DEF SkipDone, TypeOK, acc, disk
<1>8. ASSUME NEW m \in Metrics, MeasureOk(m)
      PROVE  TypeOK'
  BY <1>8, MeasureType
<1>9. CASE MeasureFail
  <2>1. cursor \in Cells
    BY <1>9 DEF MeasureFail, TypeOK, Cells
  <2>2. Converged(primary[cursor]) \in BOOLEAN
    BY StableIsBoolean DEF Converged
  <2>3. QED
    BY <1>9, <2>1, <2>2 DEF MeasureFail, TypeOK, disk
<1>10. CASE EndRound
  <2>1. phase' \in {"measure", "write"}
    BY <1>10 DEF EndRound, RoundOrWrite
  <2>2. QED
    BY <1>10, <2>1 DEF EndRound, TypeOK, acc, disk
<1>11. CASE SkipEmpty
  BY <1>11 DEF SkipEmpty, TypeOK, acc, disk
<1>12. CASE WriteRecord
  <2>1. cursor \in Cells
    BY <1>12 DEF WriteRecord, Writing, TypeOK, Cells
  <2>2. [run |-> run, stable |-> Stable(primary[cursor], rep)]
          \in [run: Writers, stable: BOOLEAN]
    BY StableIsBoolean DEF TypeOK, Writers
  <2>3. QED
    BY <1>12, <2>1, <2>2 DEF WriteRecord, Writing, TypeOK
<1>13. CASE WriteError
  BY <1>13, InterruptedType DEF WriteError, TypeOK, acc
<1>14. CASE EndWrite
  BY <1>14 DEF EndWrite, TypeOK, acc, disk
<1>15. CASE WriteRunFile
  BY <1>15 DEF WriteRunFile, TypeOK, acc, Writers
<1>16. CASE Finished
  BY <1>16, <1>1 DEF Finished
<1>17. QED
  BY <1>1, <1>2, <1>3, <1>4, <1>5, <1>6, <1>7, <1>8, <1>9, <1>10, <1>11,
     <1>12, <1>13, <1>14, <1>15, <1>16, <1>18
  DEF Next, Orchestrator, Operator

\* Every reachable state of the run loop is well typed, for any matrix size,
\* policies, metrics and number of runs.
THEOREM TypeCorrect == Spec => []TypeOK
BY InitType, NextType, PTL DEF Spec

-----------------------------------------------------------------------------
(* The inductive invariant                                                 *)

LEMMA AttemptsNat ==
  ASSUME TypeOK, NEW c \in Cells
  PROVE  Attempts(c) \in Nat
BY DEF TypeOK, Attempts

LEMMA InitInv == Init => IInv
<1> SUFFICES ASSUME Init PROVE IInv
  OBVIOUS
<1>1. TypeOK
  BY InitType
<1>2. StopInv
  BY DEF Init, StopInv, Cells
<1>3. QED
  BY <1>1, <1>2
  DEF Init, IInv, WarmupInv, RoundRobin, NoCellGivenUp, RecordInv, PublishInv,
      FileInv, RunFileIsLast, Cells

\* Steps that leave the accumulators and the policy alone leave StopInv alone.
LEMMA StopFrame ==
  ASSUME StopInv, UNCHANGED <<primary, failures, done, rep>>
  PROVE  StopInv'
BY DEF StopInv, Attempts

\* The same for what the records say, when they and the run number stand too.
LEMMA PublishFrame ==
  ASSUME PublishInv, UNCHANGED <<primary, failures, done, rep, records, run>>
  PROVE  PublishInv'
BY DEF PublishInv, Attempts

\* A step that leaves a run with no record of its own so far.
LEMMA NoRecordYet ==
  ASSUME TypeOK', phase' \in {"warmup", "measure", "write"}, written' = 0,
         \A c \in Cells : records'[c].run < run',
         phase' = "write" => \A c \in Cells : ~(Measured(c)' /\ c < cursor')
  PROVE  RecordInv'
<1>1. \A c \in Cells : records'[c].run # run' /\ records'[c].run <= run'
  BY DEF TypeOK, Writers, HalfWritten
<1>2. {c \in Cells : records'[c].run = run'} = {}
  BY <1>1
<1>3. Cardinality({c \in Cells : records'[c].run = run'}) = 0
  BY <1>2, FS_EmptySet
<1>4. QED
  BY <1>1, <1>3 DEF RecordInv, Measured

\* A half-written file is of no run.
LEMMA NoRunTears ==
  ASSUME TypeOK
  PROVE  HalfWritten < run /\ ~(HalfWritten = run)
BY DEF TypeOK, HalfWritten

\* Ending a run early (an error, a kill) keeps every part: a write it interrupts
\* takes no record and no run file from the run, which has none there yet.
LEMMA EndEarlyInv ==
  ASSUME IInv, phase # "idle", phase' = "idle", Interrupted,
         UNCHANGED <<run, rep, round, cursor, acc>>, TypeOK'
  PROVE  IInv'
<1>0. /\ hostFile' = hostFile
      /\ \A c \in Cells : records'[c] = records[c] \/ records'[c].run = HalfWritten
      /\ runFile' = runFile \/ runFile'.run = HalfWritten
      /\ run \in Nat /\ HalfWritten < run /\ HalfWritten <= run /\ HalfWritten # run
  BY InterruptedType, NoRunTears DEF IInv, TypeOK, HalfWritten
<1> HIDE DEF HalfWritten
<1>1. StopInv'
  BY StopFrame DEF IInv, acc
<1>5. PublishInv'
  <2> SUFFICES ASSUME NEW c \in Cells, run > 0, records'[c].run = run
               PROVE  /\ records'[c].stable = Stable(primary[c], rep)
                      /\ Attempts(c) < rep.max => done[c]
    BY DEF PublishInv, acc, Attempts
  <2>1. records'[c] = records[c]
    BY <1>0
  <2> QED
    BY <2>1 DEF IInv, PublishInv
<1>6. RecordInv'
  BY <1>0 DEF IInv, RecordInv
<1>2. FileInv' /\ RunFileIsLast'
  <2>1. runFile.run < run /\ runFile.run <= run
    BY DEF IInv, FileInv
  <2>2. runFile'.run < run /\ runFile'.run <= run /\ ~(runFile'.run = run)
    BY <1>0, <2>1 DEF IInv, TypeOK, Writers
  <2> QED
    BY <2>2 DEF FileInv, RunFileIsLast
<1>3. WarmupInv' /\ RoundRobin' /\ NoCellGivenUp'
  BY DEF WarmupInv, RoundRobin, NoCellGivenUp
<1>4. QED
  BY <1>1, <1>2, <1>3, <1>5, <1>6 DEF IInv

\* No file is of the run after this one.
LEMMA NextRunIsNew ==
  ASSUME IInv
  PROVE  /\ run \in Nat /\ run + 1 \in Nat /\ run < run + 1
         /\ \A c \in Cells : records[c].run < run + 1
         /\ runFile.run < run + 1
<1>1. /\ run \in Nat /\ runFile.run \in Int /\ \A c \in Cells : records[c].run \in Int
  BY DEF IInv, TypeOK, Writers, HalfWritten
<1>2. runFile.run <= run /\ \A c \in Cells : records[c].run <= run
  BY DEF IInv, FileInv, RecordInv
<1> QED
  BY <1>1, <1>2

LEMMA StartRunInv ==
  ASSUME IInv, NEW p \in Policies, NEW n \in CliChoices, StartRun(p, n), TypeOK'
  PROVE  IInv'
<1>1. \A c \in Cells :
        primary'[c] = <<>> /\ failures'[c] = 0 /\ ~done'[c] /\ records'[c] = records[c]
  BY DEF StartRun
<1>2. \A c \in Cells : records'[c].run < run'
  BY <1>1, NextRunIsNew DEF StartRun
<1>3. phase' \in {"warmup", "measure", "write"}
  BY DEF StartRun, WarmupOr, RoundOrWrite
<1>4. \A c \in Cells : Attempts(c)' = 0
  BY <1>1 DEF Attempts
<1>5. WarmupInv' /\ StopInv' /\ PublishInv'
  BY <1>1, <1>2 DEF WarmupInv, StopInv, PublishInv, TypeOK
<1>6. RoundRobin'
  BY <1>4, TRUE DEF RoundRobin, StartRun, Cells
<1>7. NoCellGivenUp'
  <2> SUFFICES ASSUME phase' = "write", NEW c \in Cells, 0 < rep'.max
               PROVE  FALSE
    BY <1>3, <1>4 DEF NoCellGivenUp, StartRun
  <2>1. QED
    BY <1>1 DEF StartRun, WarmupOr, RoundOrWrite
<1>8. written' = 0 /\ \A c \in Cells : ~Measured(c)'
  BY <1>1 DEF StartRun, Measured
<1>9. RecordInv'
  BY <1>2, <1>3, <1>8, NoRecordYet
<1>10. FileInv' /\ RunFileIsLast'
  BY DEF StartRun, IInv, FileInv, RunFileIsLast, TypeOK, Writers, HalfWritten
<1>11. QED
  BY <1>5, <1>6, <1>7, <1>9, <1>10 DEF IInv

\* A run that is over and has left no file.
LEMMA NothingOfTheRun ==
  ASSUME TypeOK', phase' = "idle", run' \in Nat, runFile'.run < run',
         \A c \in Cells : records'[c].run < run'
  PROVE  RecordInv' /\ PublishInv' /\ FileInv' /\ RunFileIsLast'
<1>1. /\ runFile'.run <= run' /\ runFile'.run # run'
      /\ \A c \in Cells : records'[c].run <= run' /\ records'[c].run # run'
  <2>1. runFile'.run \in Int /\ \A c \in Cells : records'[c].run \in Int
    BY DEF TypeOK, Writers, HalfWritten
  <2> QED BY <2>1
<1> QED
  BY <1>1 DEF RecordInv, PublishInv, FileInv, RunFileIsLast

LEMMA RefuseRunInv ==
  ASSUME IInv, RefuseRun, TypeOK'
  PROVE  IInv'
<1>1. /\ \A c \in Cells : records'[c].run < run'
      /\ run' \in Nat /\ runFile'.run < run' /\ phase' = "idle"
  BY NextRunIsNew DEF RefuseRun, disk
<1>2. StopInv'
  BY StopFrame DEF IInv, RefuseRun, acc
<1>3. RecordInv' /\ PublishInv' /\ FileInv' /\ RunFileIsLast'
  BY <1>1, NothingOfTheRun
<1>4. WarmupInv' /\ RoundRobin' /\ NoCellGivenUp'
  BY DEF RefuseRun, WarmupInv, RoundRobin, NoCellGivenUp
<1>5. QED
  BY <1>2, <1>3, <1>4 DEF IInv

LEMMA NoHostFileInv ==
  ASSUME IInv, NoHostFile, TypeOK'
  PROVE  IInv'
<1>1. /\ \A c \in Cells : records'[c].run < run'
      /\ run' \in Nat /\ runFile'.run < run' /\ phase' = "idle"
  BY NextRunIsNew DEF NoHostFile
<1>2. StopInv'
  BY StopFrame DEF IInv, NoHostFile, acc
<1>3. RecordInv' /\ PublishInv' /\ FileInv' /\ RunFileIsLast'
  BY <1>1, NothingOfTheRun
<1>4. WarmupInv' /\ RoundRobin' /\ NoCellGivenUp'
  BY DEF NoHostFile, WarmupInv, RoundRobin, NoCellGivenUp
<1>5. QED
  BY <1>2, <1>3, <1>4 DEF IInv

LEMMA WarmupStepInv ==
  ASSUME IInv, Warmup, TypeOK'
  PROVE  IInv'
<1>1. StopInv' /\ PublishInv'
  BY StopFrame, PublishFrame DEF IInv, Warmup, acc, disk
<1>2. QED
  BY <1>1 DEF Warmup, IInv, WarmupInv, RoundRobin, NoCellGivenUp, RecordInv,
     FileInv, RunFileIsLast, acc, disk, TypeOK

\* The last warmup round hands empty accumulators to the measured loop.
LEMMA EndWarmupInv ==
  ASSUME IInv, EndWarmupRound, TypeOK'
  PROVE  IInv'
<1>1. \A c \in Cells :
        /\ primary[c] = <<>> /\ failures[c] = 0 /\ ~done[c]
        /\ records[c].run < run
  BY DEF EndWarmupRound, IInv, WarmupInv, RecordInv
<1>2. phase' \in {"warmup", "measure", "write"}
  BY DEF EndWarmupRound, WarmupOr, RoundOrWrite
<1>3. \A c \in Cells : Attempts(c)' = 0
  BY <1>1 DEF Attempts, EndWarmupRound, acc
<1>4. StopInv' /\ PublishInv'
  BY StopFrame, PublishFrame DEF IInv, EndWarmupRound, acc, disk
<1>5. WarmupInv'
  BY <1>1 DEF WarmupInv, EndWarmupRound, acc
<1>6. RoundRobin'
  BY <1>3 DEF RoundRobin, EndWarmupRound, Cells
<1>7. NoCellGivenUp'
  <2> SUFFICES ASSUME phase' = "write", NEW c \in Cells, 0 < rep'.max
               PROVE  FALSE
    BY <1>2, <1>3 DEF NoCellGivenUp, EndWarmupRound
  <2>1. QED
    BY <1>1 DEF EndWarmupRound, WarmupOr, RoundOrWrite
<1>8. \A c \in Cells : records'[c].run < run' /\ ~Measured(c)'
  BY <1>1 DEF EndWarmupRound, Measured, acc, disk
<1>9. RecordInv'
  <2>1. written' = 0
    BY DEF EndWarmupRound, IInv, RecordInv, acc
  <2>2. QED
    BY <1>2, <1>8, <2>1, NoRecordYet
<1>10. FileInv' /\ RunFileIsLast'
  BY DEF EndWarmupRound, IInv, FileInv, RunFileIsLast, TypeOK, disk
<1>11. QED
  BY <1>4, <1>5, <1>6, <1>7, <1>9, <1>10 DEF IInv

LEMMA SkipDoneInv ==
  ASSUME IInv, SkipDone, TypeOK'
  PROVE  IInv'
<1>1. StopInv' /\ PublishInv'
  BY StopFrame, PublishFrame DEF IInv, SkipDone, acc, disk
<1>2. RoundRobin'
  BY DEF SkipDone, IInv, RoundRobin, Attempts, acc, TypeOK, Cells
<1>3. QED
  BY <1>1, <1>2 DEF SkipDone, IInv, WarmupInv, NoCellGivenUp, RecordInv,
     FileInv, RunFileIsLast, acc, disk, TypeOK

\* What MeasureOk and MeasureFail have in common: one more attempt of the cell
\* at the cursor, and the convergence check on what it then has.
LEMMA AttemptInv ==
  ASSUME IInv, TypeOK', phase = "measure", NEW k \in Cells, k = cursor, ~done[k],
         Attempts(k)' = Attempts(k) + 1,
         \A c \in Cells \ {k} :
           primary'[c] = primary[c] /\ failures'[c] = failures[c],
         done' = [done EXCEPT ![k] = Converged(primary'[k])],
         cursor' = cursor + 1,
         UNCHANGED <<phase, exit, run, rep, round, written, disk>>
  PROVE  IInv'
<1>1. Attempts(k)' = round + 1
  BY DEF IInv, RoundRobin, TypeOK, Cells
<1>2. \A c \in Cells \ {k} : Attempts(c)' = Attempts(c) /\ done'[c] = done[c]
  BY DEF Attempts, IInv, TypeOK
<1>3. done'[k] <=> Converged(primary'[k])
  BY DEF IInv, TypeOK
<1>4. RoundRobin'
  BY <1>1, <1>2 DEF RoundRobin, IInv, TypeOK, Cells
<1>5. StopInv'
  <2> SUFFICES ASSUME NEW c \in Cells, done'[c], Attempts(c)' < rep'.max
               PROVE  Len(primary'[c]) >= rep'.min /\ Stable(primary'[c], rep')
    BY DEF StopInv
  <2>1. CASE c = k
    <3>1. Converged(primary'[c])
      BY <1>3, <2>1
    <3>2. ~(round + 1 >= rep.max)
      BY <1>1, <2>1 DEF IInv, TypeOK, Policy
    <3>3. QED
      BY <3>1, <3>2 DEF Converged
  <2>2. CASE c # k
    BY <1>2, <2>2 DEF IInv, StopInv
  <2>3. QED
    BY <2>1, <2>2
<1>6. PublishInv' /\ RecordInv' /\ FileInv' /\ RunFileIsLast'
  BY DEF IInv, RecordInv, PublishInv, FileInv, RunFileIsLast, disk, TypeOK
<1>7. WarmupInv' /\ NoCellGivenUp'
  BY DEF WarmupInv, NoCellGivenUp
<1>8. QED
  BY <1>4, <1>5, <1>6, <1>7 DEF IInv

LEMMA MeasureOkInv ==
  ASSUME IInv, NEW m \in Metrics, MeasureOk(m), TypeOK'
  PROVE  IInv'
<1>0. PICK k \in Cells : k = cursor
  BY DEF IInv, TypeOK, MeasureOk, Cells
<1>1. m \in Nat
  BY Constants
<1>2. primary'[k] = Append(primary[k], m)
  BY <1>0 DEF MeasureOk, IInv, TypeOK
<1>3. Len(primary'[k]) = Len(primary[k]) + 1
  BY <1>1, <1>2 DEF IInv, TypeOK
<1>4. Attempts(k)' = Attempts(k) + 1
  BY <1>0, <1>3 DEF Attempts, MeasureOk, IInv, TypeOK
<1>5. \A c \in Cells \ {k} : primary'[c] = primary[c] /\ failures'[c] = failures[c]
  BY <1>0 DEF MeasureOk, IInv, TypeOK
<1>6. QED
  BY <1>0, <1>4, <1>5, AttemptInv DEF MeasureOk

LEMMA MeasureFailInv ==
  ASSUME IInv, MeasureFail, TypeOK'
  PROVE  IInv'
<1>1. PICK k \in Cells : k = cursor
  BY DEF IInv, TypeOK, MeasureFail, Cells
<1>2. Attempts(k)' = Attempts(k) + 1
  BY <1>1 DEF Attempts, MeasureFail, IInv, TypeOK
<1>3. \A c \in Cells \ {k} : primary'[c] = primary[c] /\ failures'[c] = failures[c]
  BY <1>1 DEF MeasureFail, IInv, TypeOK
<1>4. QED
  BY <1>1, <1>2, <1>3, AttemptInv DEF MeasureFail

\* At the end of a round every active cell has been attempted in it; when the
\* loop leaves for the write phase none could still be measured.
LEMMA EndRoundInv ==
  ASSUME IInv, EndRound, TypeOK'
  PROVE  IInv'
<1>1. StopInv' /\ PublishInv'
  BY StopFrame, PublishFrame DEF IInv, EndRound, acc, disk
<1>2. \A c \in Cells : ~done[c] => Attempts(c)' = round + 1
  <2>1. \A c \in Cells : Attempts(c)' = Attempts(c) /\ c < cursor
    BY Constants DEF EndRound, Attempts, acc, Cells, IInv, TypeOK
  <2>2. QED
    BY <2>1 DEF EndRound, IInv, RoundRobin, TypeOK
<1>3. phase' \in {"measure", "write"} /\ cursor' = 1 /\ round' = round + 1
  BY DEF EndRound, RoundOrWrite
<1>4. RoundRobin'
  BY <1>2, <1>3 DEF RoundRobin, EndRound, acc, Cells
<1>5. NoCellGivenUp'
  <2> SUFFICES ASSUME phase' = "write", NEW c \in Cells, Attempts(c)' < rep.max
               PROVE  done[c] /\ Measured(c)
    BY <1>3 DEF NoCellGivenUp, EndRound, acc, Measured
  <2>1. done[c]
    <3> SUFFICES ASSUME ~done[c] PROVE FALSE
      OBVIOUS
    <3>1. round + 1 < rep.max
      BY <1>2
    <3>2. QED
      BY <3>1 DEF EndRound, RoundOrWrite
  <2>2. Attempts(c) < rep.max
    BY DEF EndRound, Attempts, acc
  <2>3. Stable(primary[c], rep)
    BY <2>1, <2>2 DEF IInv, StopInv
  <2>4. QED
    BY <2>1, <2>3, StableNeedsSamples DEF Measured
<1>6. RecordInv'
  <2>1. \A c \in Cells : records'[c].run < run'
    BY DEF EndRound, IInv, RecordInv, disk
  <2>2. written' = 0
    BY DEF EndRound, IInv, RecordInv, acc
  <2>3. \A c \in Cells : ~(c < cursor')
    BY <1>3, Constants DEF Cells
  <2>4. QED
    BY <1>3, <2>1, <2>2, <2>3, NoRecordYet
<1>7. FileInv' /\ RunFileIsLast' /\ WarmupInv'
  BY <1>3 DEF EndRound, IInv, FileInv, RunFileIsLast, WarmupInv, TypeOK, disk
<1>8. QED
  BY <1>1, <1>4, <1>5, <1>6, <1>7 DEF IInv

LEMMA SkipEmptyInv ==
  ASSUME IInv, SkipEmpty, TypeOK'
  PROVE  IInv'
<1>1. StopInv' /\ PublishInv'
  BY StopFrame, PublishFrame DEF IInv, SkipEmpty, acc, disk
<1>2. RecordInv'
  <2>1. \A c \in Cells :
          records[c].run = run <=> Measured(c) /\ c < cursor + 1
    BY DEF SkipEmpty, IInv, RecordInv, TypeOK, Cells
  <2>2. QED
    BY <2>1 DEF SkipEmpty, IInv, RecordInv, Measured, acc, disk
<1>3. NoCellGivenUp'
  BY DEF SkipEmpty, IInv, NoCellGivenUp, Attempts, Measured, acc
<1>4. QED
  BY <1>1, <1>2, <1>3 DEF SkipEmpty, IInv, WarmupInv, RoundRobin, FileInv,
     RunFileIsLast, acc, disk, TypeOK

\* Writing the record of a measured cell: the decision of the loop and the
\* aggregate agree because nothing touched the samples in between.
LEMMA WriteRecordInv ==
  ASSUME IInv, WriteRecord, TypeOK'
  PROVE  IInv'
<1>0. PICK k \in Cells : k = cursor
  BY DEF IInv, TypeOK, WriteRecord, Writing, Cells
<1>1. /\ records'[k] = [run |-> run, stable |-> Stable(primary[k], rep)]
      /\ \A c \in Cells \ {k} : records'[c] = records[c]
  BY <1>0 DEF WriteRecord, Writing, IInv, TypeOK
<1>2. Measured(k) /\ records[k].run # run
  BY <1>0 DEF WriteRecord, Writing, IInv, RecordInv, TypeOK
<1>3. StopInv'
  BY StopFrame DEF IInv, WriteRecord, Writing
<1>4. NoCellGivenUp'
  BY DEF WriteRecord, Writing, IInv, NoCellGivenUp, Attempts, Measured
<1>5. PublishInv'
  <2> SUFFICES ASSUME NEW c \in Cells, run > 0, records'[c].run = run
               PROVE  /\ records'[c].stable = Stable(primary[c], rep)
                      /\ Attempts(c) < rep.max => done[c]
    BY DEF PublishInv, WriteRecord, Writing, Attempts
  <2>1. Attempts(c) < rep.max => done[c]
    BY DEF WriteRecord, Writing, IInv, NoCellGivenUp
  <2>2. records'[c].stable = Stable(primary[c], rep)
    BY <1>1 DEF IInv, PublishInv
  <2>3. QED
    BY <2>1, <2>2
<1>6. RecordInv'
  <2> DEFINE S == {c \in Cells : records[c].run = run}
             T == {c \in Cells : records'[c].run = run}
  <2>1. T = S \cup {k} /\ k \notin S
    BY <1>1, <1>2
  <2>2. IsFiniteSet(S)
    <3>1. IsFiniteSet(Cells)
      BY Constants, FS_Interval DEF Cells
    <3>2. QED
      BY <3>1, FS_Subset
  <2>3. Cardinality(T) = Cardinality(S) + 1
    BY <2>1, <2>2, FS_AddElement
  <2>4. written' = Cardinality(T)
    BY <2>3 DEF WriteRecord, Writing, IInv, RecordInv
  <2>5. \A c \in Cells :
          records'[c].run = run <=> Measured(c) /\ c < cursor + 1
    BY <1>0, <1>1, <1>2 DEF WriteRecord, Writing, IInv, RecordInv, TypeOK, Cells
  <2>6. \A c \in Cells : records'[c].run <= run
    <3>1. records'[k].run <= run
      BY <1>1 DEF IInv, TypeOK
    <3>2. \A c \in Cells : records[c].run <= run
      BY DEF IInv, RecordInv
    <3>3. QED
      BY <1>1, <3>1, <3>2
  <2>7. QED
    BY <2>4, <2>5, <2>6 DEF RecordInv, WriteRecord, Writing, Measured
<1>7. WarmupInv' /\ RoundRobin' /\ FileInv' /\ RunFileIsLast'
  BY DEF WriteRecord, Writing, IInv, WarmupInv, RoundRobin, FileInv, RunFileIsLast, TypeOK
<1>8. QED
  BY <1>3, <1>4, <1>5, <1>6, <1>7 DEF IInv

LEMMA EndWriteInv ==
  ASSUME IInv, EndWrite, TypeOK'
  PROVE  IInv'
<1>1. StopInv' /\ PublishInv'
  BY StopFrame, PublishFrame DEF IInv, EndWrite, acc, disk
<1>2. \A c \in Cells : c < cursor
  BY Constants DEF EndWrite, IInv, TypeOK, Cells
<1>3. RecordInv'
  BY <1>2 DEF EndWrite, IInv, RecordInv, Measured, acc, disk
<1>4. NoCellGivenUp'
  BY DEF EndWrite, IInv, NoCellGivenUp, Attempts, Measured, acc
<1>5. QED
  BY <1>1, <1>3, <1>4 DEF EndWrite, IInv, WarmupInv, RoundRobin, FileInv,
     RunFileIsLast, acc, disk, TypeOK

LEMMA WriteRunFileInv ==
  ASSUME IInv, WriteRunFile, TypeOK'
  PROVE  IInv'
<1>1. StopInv' /\ PublishInv'
  BY StopFrame, PublishFrame DEF IInv, WriteRunFile, acc
<1>2. RecordInv'
  BY DEF WriteRunFile, IInv, RecordInv
<1>3. RunFileIsLast'
  BY DEF WriteRunFile, IInv, RecordInv, FileInv, RunFileIsLast, Measured, acc
<1>4. FileInv' /\ WarmupInv' /\ RoundRobin' /\ NoCellGivenUp'
  BY DEF WriteRunFile, IInv, FileInv, WarmupInv, RoundRobin, NoCellGivenUp, TypeOK
<1>5. QED
  BY <1>1, <1>2, <1>3, <1>4 DEF IInv

LEMMA StutterInv ==
  ASSUME IInv, UNCHANGED vars, TypeOK'
  PROVE  IInv'
<1>1. StopInv' /\ PublishInv'
  BY StopFrame, PublishFrame DEF IInv, vars, acc, disk
<1>2. \A c \in Cells : Attempts(c)' = Attempts(c) /\ Measured(c)' = Measured(c)
  BY DEF vars, acc, Attempts, Measured
<1>3. RoundRobin' /\ NoCellGivenUp' /\ RecordInv' /\ RunFileIsLast'
  BY <1>2 DEF IInv, vars, acc, disk, RoundRobin, NoCellGivenUp, RecordInv,
     RunFileIsLast
<1>4. WarmupInv' /\ FileInv'
  BY DEF IInv, vars, acc, disk, WarmupInv, FileInv
<1>5. QED
  BY <1>1, <1>3, <1>4 DEF IInv

LEMMA NextInv == IInv /\ [Next]_vars => IInv'
<1> SUFFICES ASSUME IInv, [Next]_vars
             PROVE  IInv'
  OBVIOUS
<1>1. TypeOK'
  BY NextType DEF IInv
<1>2. CASE UNCHANGED vars
  BY <1>1, <1>2, StutterInv
<1>3. CASE Orchestrator
  <2>1. CASE WriteError
    BY <1>1, <2>1, EndEarlyInv DEF WriteError
  <2>2. CASE \E m \in Metrics : MeasureOk(m)
    BY <1>1, <2>2, MeasureOkInv
  <2>3. QED
    BY <1>1, <1>3, <2>1, <2>2, WarmupStepInv, EndWarmupInv, SkipDoneInv,
       MeasureFailInv, EndRoundInv, SkipEmptyInv, WriteRecordInv, EndWriteInv,
       WriteRunFileInv
    DEF Orchestrator
<1>4. CASE Operator
  <2>1. CASE Kill
    BY <1>1, <2>1, EndEarlyInv DEF Kill
  <2>2. CASE \E p \in Policies, n \in CliChoices : StartRun(p, n)
    BY <1>1, <2>2, StartRunInv
  <2>3. QED
    BY <1>1, <1>4, <2>1, <2>2, RefuseRunInv, NoHostFileInv DEF Operator
<1>5. CASE Finished
  BY <1>1, <1>5, StutterInv DEF Finished
<1>6. QED
  BY <1>2, <1>3, <1>4, <1>5 DEF Next

THEOREM Invariance == Spec => []IInv
BY InitInv, NextInv, PTL DEF Spec

-----------------------------------------------------------------------------
(* What follows from the invariant                                         *)

\* Active cells are never more than one replicate apart.
THEOREM Interleaved == Spec => []RoundRobin
<1>1. IInv => RoundRobin
  BY DEF IInv
<1>2. QED
  BY <1>1, Invariance, PTL

\* A cell stopped before the ceiling is published as stable, on at least min
\* successful replicates: the loop's decision is the one the record carries.
THEOREM StopsAreStable == Spec => []EarlyStopPublishedStable
<1>1. IInv => EarlyStopPublishedStable
  BY DEF IInv, EarlyStopPublishedStable, PublishInv, StopInv
<1>2. QED
  BY <1>1, Invariance, PTL

\* No cell is left unmeasured while it could still be attempted.
THEOREM EveryCellFinished == Spec => []NoCellGivenUp
<1>1. IInv => NoCellGivenUp
  BY DEF IInv
<1>2. QED
  BY <1>1, Invariance, PTL

\* _run.json is the last file of a run, and its count of records is right.
THEOREM RunFileLast == Spec => []RunFileIsLast
<1>1. IInv => RunFileIsLast
  BY DEF IInv
<1>2. QED
  BY <1>1, Invariance, PTL

\* A converged cell is not measured again in its run.
THEOREM ConvergedIsFinal == Spec => DoneIsFinal
<1>1. TypeOK /\ [Next]_vars =>
        [\A c \in Cells :
           done[c] /\ run' = run
           => done'[c] /\ primary'[c] = primary[c] /\ failures'[c] = failures[c]]_vars
  <2> SUFFICES ASSUME TypeOK, Next, NEW c \in Cells, done[c], run' = run
               PROVE  /\ done'[c]
                      /\ primary'[c] = primary[c] /\ failures'[c] = failures[c]
    OBVIOUS
  <2>1. ASSUME NEW m \in Metrics, MeasureOk(m)
        PROVE  /\ done'[c]
               /\ primary'[c] = primary[c] /\ failures'[c] = failures[c]
    BY <2>1 DEF MeasureOk, TypeOK
  <2>2. CASE MeasureFail
    BY <2>2 DEF MeasureFail, TypeOK
  <2>3. CASE \E p \in Policies, n \in CliChoices : StartRun(p, n)
    BY <2>3 DEF StartRun, TypeOK
  <2>4. QED
    BY <2>1, <2>2, <2>3
    DEF Next, Orchestrator, Operator, Finished, vars, acc, Warmup,
        EndWarmupRound, SkipDone, EndRound, SkipEmpty, WriteRecord, WriteError,
        EndWrite, WriteRunFile, RefuseRun, NoHostFile, Kill
<1>2. QED
  BY <1>1, TypeCorrect, PTL DEF Spec, DoneIsFinal

-----------------------------------------------------------------------------
(* The loop implements Campaign                                            *)

\* The runs behind the records, which is what Campaign knows of them.
By == [c \in Cells |-> records[c].run]

\* The instance counts as this module does.
LEMMA SameCardinality == \A S : Directory!Cardinality(S) = Cardinality(S)
BY DEF Directory!Cardinality, Cardinality

LEMMA InitIsCampaign == Init => Directory!Init
BY DEF Init, Directory!Init

\* The run goes on without touching the directory.
LEMMA InnerIsStutter ==
  ASSUME phase # "idle", phase' # "idle", UNCHANGED <<run, disk>>
  PROVE  UNCHANGED Directory!vars
BY DEF Directory!vars, disk

\* The record that is being written is the next one.
LEMMA WritingIsDue ==
  ASSUME IInv, Writing, NEW c \in Cells, c = cursor
  PROVE  Directory!Due(c)
BY Constants DEF Writing, IInv, RecordInv, TypeOK, Cells, Directory!Due

\* An interrupted write takes no more from the directory than Campaign allows.
LEMMA InterruptedIsCampaign ==
  ASSUME IInv, Interrupted
  PROVE  Directory!Interrupted /\ hostFile' = hostFile
<1> USE DEF HalfWritten, Directory!HalfWritten
<1>1. CASE UNCHANGED disk
  BY <1>1 DEF disk, Directory!Interrupted
<1>2. CASE Writing /\ records' = [records EXCEPT ![cursor] = [run |-> HalfWritten, stable |-> FALSE]]
           /\ UNCHANGED <<hostFile, runFile>>
  <2>1. PICK c \in Cells : c = cursor
    BY <1>2 DEF Writing, IInv, TypeOK, Cells
  <2>2. Directory!Due(c)
    BY <1>2, <2>1, WritingIsDue
  <2>3. By' = [By EXCEPT ![c] = HalfWritten]
    <3>1. \A d \in Cells : records'[d].run = IF d = c THEN HalfWritten ELSE records[d].run
      BY <1>2, <2>1 DEF IInv, TypeOK
    <3> QED
      BY <3>1 DEF By
  <2> QED
    BY <1>2, <2>2, <2>3 DEF Directory!Interrupted, By
<1>3. CASE phase = "meta" /\ runFile' = [run |-> HalfWritten, written |-> 0]
           /\ UNCHANGED <<records, hostFile>>
  BY <1>3 DEF Directory!Interrupted
<1> QED
  BY <1>1, <1>2, <1>3 DEF Interrupted

\* Writing a record publishes the cell, and no later one is published yet.
LEMMA WriteIsPublish ==
  ASSUME IInv, WriteRecord
  PROVE  \E c \in Cells : Directory!Publish(c)
<1>1. cursor \in Cells /\ phase = "write" /\ phase' = "write"
  BY Constants DEF WriteRecord, Writing, IInv, TypeOK, Cells
<1>2. PICK c \in Cells : c = cursor
  BY <1>1
<1>3. Directory!Due(c)
  BY <1>2, WritingIsDue DEF WriteRecord
<1>4. By' = [By EXCEPT ![c] = run]
  <2>1. records'[c].run = run
    BY <1>2 DEF WriteRecord, Writing, IInv, TypeOK
  <2>2. \A d \in Cells : d # c => records'[d] = records[d]
    BY <1>2 DEF WriteRecord, Writing, IInv, TypeOK
  <2>3. QED
    BY <2>1, <2>2 DEF By
<1>5. Directory!Publish(c)
  BY <1>1, <1>3, <1>4 DEF Directory!Publish, By, WriteRecord
<1>6. QED
  BY <1>5

\* _run.json carries the number of records of this run.
LEMMA RunFileIsConclude ==
  ASSUME IInv, WriteRunFile
  PROVE  Directory!Conclude
<1>1. phase = "meta" /\ phase' = "idle"
  BY DEF WriteRunFile
<1>2. written = Cardinality({c \in Cells : records[c].run = run})
  BY <1>1 DEF IInv, RecordInv
<1>3. {c \in Cells : By[c] = run} = {c \in Cells : records[c].run = run}
  BY DEF By
<1>4. runFile' = [run |-> run, written |-> Cardinality({c \in Cells : By[c] = run})]
  BY <1>2, <1>3 DEF WriteRunFile
<1>5. UNCHANGED <<run, By, hostFile>>
  BY DEF WriteRunFile, By
<1>6. QED
  BY <1>1, <1>4, <1>5, SameCardinality DEF Directory!Conclude, By

LEMMA StepIsCampaign ==
  ASSUME IInv, [Next]_vars
  PROVE  [Directory!Next]_(Directory!vars)
<1>1. CASE UNCHANGED vars
  BY <1>1 DEF vars, acc, disk, Directory!vars
<1>2. ASSUME NEW p \in Policies, NEW n \in CliChoices, StartRun(p, n)
      PROVE  Directory!Begin
  <2>1. phase' # "idle"
    BY <1>2 DEF StartRun, WarmupOr, RoundOrWrite
  <2>2. QED
    BY <1>2, <2>1 DEF StartRun, Directory!Begin
<1>3. CASE RefuseRun
  BY <1>3 DEF RefuseRun, disk, Directory!Refuse, Directory!Next
<1>4. CASE NoHostFile
  <2>1. Directory!NoHostFile
    BY <1>4 DEF NoHostFile, Directory!NoHostFile, HalfWritten, Directory!HalfWritten
  <2> QED
    BY <2>1 DEF Directory!Next
<1>5. CASE Kill \/ WriteError
  <2>1. phase # "idle" /\ phase' = "idle" /\ run' = run /\ Interrupted
    BY <1>5 DEF Kill, WriteError
  <2>2. Directory!Interrupted /\ hostFile' = hostFile
    BY <2>1, InterruptedIsCampaign
  <2>3. Directory!Abort
    BY <2>1, <2>2 DEF Directory!Abort
  <2>4. QED
    BY <2>3 DEF Directory!Step, Directory!Next
<1>6. CASE WriteRecord
  <2>1. \E c \in Cells : Directory!Publish(c)
    BY <1>6, WriteIsPublish
  <2>2. Directory!Step
    BY <2>1 DEF Directory!Step
  <2>3. QED
    BY <2>2 DEF Directory!Next
<1>7. CASE WriteRunFile
  BY <1>7, RunFileIsConclude DEF Directory!Step, Directory!Next
<1>8. CASE Warmup \/ EndWarmupRound \/ SkipDone \/ MeasureFail
           \/ (\E m \in Metrics : MeasureOk(m)) \/ EndRound \/ SkipEmpty \/ EndWrite
  <2>1. phase # "idle" /\ phase' # "idle"
    BY <1>8 DEF Warmup, EndWarmupRound, SkipDone, MeasureFail, MeasureOk, EndRound,
       SkipEmpty, EndWrite, WarmupOr, RoundOrWrite
  <2>2. UNCHANGED <<run, disk>>
    BY <1>8 DEF Warmup, EndWarmupRound, SkipDone, MeasureFail, MeasureOk, EndRound,
       SkipEmpty, EndWrite, acc
  <2>3. QED
    BY <2>1, <2>2, InnerIsStutter
<1>9. CASE Finished
  BY <1>9, <1>1 DEF Finished
<1>10. QED
  BY <1>1, <1>2, <1>3, <1>4, <1>5, <1>6, <1>7, <1>8, <1>9
  DEF Next, Orchestrator, Operator, Directory!Next

\* Every step of the run loop is a step of Campaign or none: records in order, at
\* most one per cell, then their number.
THEOREM LoopIsCampaign ==
  Spec => Directory!Init /\ [][Directory!Next]_(Directory!vars)
<1>1. IInv /\ [Next]_vars => [Directory!Next]_(Directory!vars)
  BY StepIsCampaign
<1>2. QED
  BY <1>1, InitIsCampaign, Invariance, PTL DEF Spec

-----------------------------------------------------------------------------
(* How much a run can take                                                 *)

\* What is left when r rounds are, of which the first has reached cell c.
Allowance(r, c) == (r + 1) * (NumCells + 1) + 2 - c

\* An allowance outlasts the write loop; passing a cell, and ending a round, is
\* taken from it.
LEMMA AllowanceIs ==
  ASSUME NEW r \in Nat, NEW c \in 1..(NumCells + 1)
  PROVE  /\ Allowance(r, c) \in Nat
         /\ Allowance(r, c) >= 2
         /\ Allowance(r, c + 1) < Allowance(r, c)
<1> DEFINE W == NumCells + 1
           x == (r + 1) * W
<1>1. W \in Nat /\ W >= 1 /\ c \in Nat /\ c <= W
  BY Constants
<1>2. x = r * W + W /\ r * W \in Nat
  BY <1>1
<1>3. x \in Nat /\ x >= W
  BY <1>1, <1>2
<1>4. Allowance(r, c) = x + 2 - c /\ Allowance(r, c + 1) = x + 2 - (c + 1)
  BY DEF Allowance
<1> HIDE DEF W, x
<1> QED
  BY <1>1, <1>3, <1>4

LEMMA AllowanceOfRounds ==
  ASSUME NEW r \in Nat, NEW s \in Nat, r < s, NEW c \in 1..(NumCells + 1)
  PROVE  Allowance(r, 1) < Allowance(s, c)
<1> DEFINE W == NumCells + 1
           x == (r + 1) * W
           d == s - (r + 1)
<1>1. W \in Nat /\ W >= 1 /\ c \in Nat /\ c <= W
  BY Constants
<1>2. d \in Nat /\ s + 1 = (r + 1) + d + 1
  OBVIOUS
<1> HIDE DEF d
<1>3. (s + 1) * W = x + d * W + W /\ d * W \in Nat /\ x \in Nat
  BY <1>1, <1>2
<1>4. Allowance(r, 1) = x + 2 - 1 /\ Allowance(s, c) = (s + 1) * W + 2 - c
  BY DEF Allowance
<1> DEFINE y == d * W
<1> HIDE DEF W, x, y
<1>5. Allowance(s, c) = x + y + W + 2 - c /\ y \in Nat /\ x \in Nat
  BY <1>3, <1>4 DEF y
<1> QED
  BY <1>1, <1>4, <1>5

\* A run that is measuring or writing has its rounds' allowance.
AllowanceInv ==
  /\ RoundsLeft \in Nat /\ StepsLeft \in Nat
  /\ phase \in {"warmup", "measure", "write"} =>
       StepsLeft = Allowance(RoundsLeft, cursor)

LEMMA StepsLeftIs ==
  ASSUME TypeOK, RoundInv
  PROVE  AllowanceInv
<1>1. rep.warmup \in Nat /\ rep.max \in Nat /\ round \in Nat
      /\ cursor \in 1..(NumCells + 1)
      /\ phase \in {"idle", "warmup", "measure", "write", "meta"}
  BY DEF TypeOK, Policy
<1>2. RoundsLeft \in Nat
  BY <1>1 DEF RoundsLeft, RoundInv
<1>3. phase \in {"warmup", "measure", "write"} =>
        StepsLeft = Allowance(RoundsLeft, cursor)
  <2> SUFFICES ASSUME phase # "idle", phase # "meta"
               PROVE  StepsLeft = Allowance(RoundsLeft, cursor)
    OBVIOUS
  <2> DEFINE A == (RoundsLeft + 1) * (NumCells + 1) + 2 - cursor
  <2>1. StepsLeft = A
    <3> HIDE DEF A
    <3>1. StepsLeft = CASE phase = "idle" -> 0 [] phase = "meta" -> 1 [] OTHER -> A
      BY DEF StepsLeft, A
    <3> QED
      BY <3>1
  <2> QED
    BY <2>1 DEF Allowance
<1>4. CASE phase \in {"warmup", "measure", "write"}
  <2>1. Allowance(RoundsLeft, cursor) \in Nat
    BY <1>1, <1>2, AllowanceIs, Zenon
  <2> QED
    BY <1>2, <1>3, <1>4, <2>1 DEF AllowanceInv
<1>5. CASE phase \in {"idle", "meta"}
  BY <1>2, <1>5 DEF StepsLeft, AllowanceInv
<1> QED
  BY <1>1, <1>2, <1>3, <1>4, <1>5 DEF AllowanceInv

LEMMA RoundInit == Init => RoundInv
BY DEF Init, RoundInv

LEMMA RoundStep ==
  ASSUME TypeOK, RoundInv, [Next]_vars
  PROVE  RoundInv'
<1> USE DEF RoundInv
<1>1. CASE UNCHANGED vars \/ RefuseRun \/ NoHostFile \/ Kill \/ Finished
  BY <1>1 DEF vars, RefuseRun, NoHostFile, Kill, Finished
<1>2. ASSUME NEW p \in Policies, NEW n \in CliChoices, StartRun(p, n)
      PROVE  RoundInv'
  <2>1. phase' = WarmupOr(0, rep', done') /\ round' = 0
    BY <1>2 DEF StartRun
  <2> QED
    BY <2>1 DEF WarmupOr, RoundOrWrite
<1>3. CASE EndWarmupRound
  BY <1>3 DEF EndWarmupRound, WarmupOr, RoundOrWrite
<1>4. CASE EndRound
  BY <1>4 DEF EndRound, RoundOrWrite
<1>5. CASE Warmup \/ SkipDone \/ MeasureFail \/ (\E m \in Metrics : MeasureOk(m))
           \/ SkipEmpty \/ WriteRecord \/ WriteError \/ EndWrite \/ WriteRunFile
  BY <1>5 DEF Warmup, SkipDone, MeasureFail, MeasureOk, SkipEmpty, WriteRecord, Writing,
     WriteError, EndWrite, WriteRunFile
<1> QED
  BY <1>1, <1>2, <1>3, <1>4, <1>5 DEF Next, Orchestrator, Operator

\* Each step of the orchestrator takes from the allowance.
LEMMA StepsDecrease ==
  ASSUME TypeOK, RoundInv, AllowanceInv, TypeOK', AllowanceInv', Orchestrator
  PROVE  StepsLeft' < StepsLeft
<1>1. /\ cursor \in 1..(NumCells + 1) /\ cursor' \in 1..(NumCells + 1)
      /\ round \in Nat /\ rep.warmup \in Nat /\ rep.max \in Nat
  BY DEF TypeOK, Policy
<1>2. /\ RoundsLeft \in Nat /\ StepsLeft \in Nat
      /\ phase \in {"warmup", "measure", "write"} =>
           StepsLeft = Allowance(RoundsLeft, cursor) /\ StepsLeft >= 2
  BY <1>1, AllowanceIs DEF AllowanceInv
<1>3. /\ RoundsLeft' \in Nat
      /\ phase' \in {"warmup", "measure", "write"} =>
           StepsLeft' = Allowance(RoundsLeft', cursor')
  BY DEF AllowanceInv, Allowance
<1>4. CASE Warmup \/ SkipDone \/ MeasureFail \/ (\E m \in Metrics : MeasureOk(m))
           \/ SkipEmpty \/ WriteRecord
  <2>1. /\ phase \in {"warmup", "measure", "write"}
        /\ phase' = phase /\ cursor' = cursor + 1 /\ rep' = rep /\ round' = round
    BY <1>4 DEF Warmup, SkipDone, MeasureFail, MeasureOk, SkipEmpty, WriteRecord, Writing
  <2>2. RoundsLeft' = RoundsLeft
    BY <2>1 DEF RoundsLeft
  <2> QED
    BY <1>1, <1>2, <1>3, <2>1, <2>2, AllowanceIs
<1>5. CASE EndWarmupRound \/ EndRound
  <2>1. phase \in {"warmup", "measure"} /\ cursor' = 1 /\ rep' = rep
    BY <1>5 DEF EndWarmupRound, EndRound
  <2>2. phase' \in {"warmup", "measure", "write"}
    BY <1>5 DEF EndWarmupRound, EndRound, WarmupOr, RoundOrWrite
  <2>3. RoundsLeft' < RoundsLeft
    <3>1. CASE EndWarmupRound
      <4>1. /\ phase = "warmup" /\ round < rep.warmup
            /\ phase' = "warmup" => round' = round + 1
            /\ phase' # "warmup" => round' = 0
        BY <3>1 DEF EndWarmupRound, RoundInv
      <4> QED
        BY <1>1, <2>1, <2>2, <4>1 DEF RoundsLeft
    <3>2. CASE EndRound
      <4>1. /\ phase = "measure" /\ round < rep.max /\ round' = round + 1
            /\ phase' \in {"measure", "write"}
        BY <3>2 DEF EndRound, RoundInv, RoundOrWrite
      <4> QED
        BY <1>1, <2>1, <4>1 DEF RoundsLeft
    <3> QED
      BY <1>5, <3>1, <3>2
  <2>4. Allowance(RoundsLeft', 1) < Allowance(RoundsLeft, cursor)
    BY <1>1, <1>2, <1>3, <2>3, AllowanceOfRounds
  <2> QED
    BY <1>2, <1>3, <2>1, <2>2, <2>4
<1>6. CASE EndWrite
  <2>1. phase = "write" /\ phase' = "meta"
    BY <1>6 DEF EndWrite
  <2>2. StepsLeft' = 1
    BY <2>1 DEF StepsLeft
  <2> QED
    BY <1>2, <2>1, <2>2
<1>7. CASE WriteError \/ WriteRunFile
  <2>1. phase \in {"write", "meta"} /\ phase' = "idle"
    BY <1>7 DEF WriteError, WriteRunFile
  <2>2. StepsLeft' = 0
    BY <2>1 DEF StepsLeft
  <2>3. phase = "meta" => StepsLeft = 1
    BY DEF StepsLeft
  <2> QED
    BY <1>2, <2>1, <2>2, <2>3
<1> QED
  BY <1>4, <1>5, <1>6, <1>7 DEF Orchestrator

\* A run starts with the allowance of its policy and its matrix.
LEMMA StartsWith ==
  ASSUME TypeOK', AllowanceInv', NEW p \in Policies, NEW n \in CliChoices, StartRun(p, n)
  PROVE  StepsLeft' <= (rep'.warmup + rep'.max + 1) * (NumCells + 1) + 1
<1> DEFINE w == rep'.warmup
           k == rep'.max
<1>1. /\ w \in Nat /\ k \in Nat
  BY DEF TypeOK, Policy
<1>2. cursor' = 1 /\ round' = 0 /\ phase' \in {"warmup", "measure", "write"}
  BY DEF StartRun, WarmupOr, RoundOrWrite
<1>3. RoundsLeft' \in Nat /\ RoundsLeft' <= w + k
  <2>1. RoundsLeft' = IF phase' = "warmup" THEN w - 0 + k
                      ELSE IF phase' = "measure" THEN k - 0 ELSE 0
    BY <1>2 DEF RoundsLeft
  <2> HIDE DEF w, k
  <2> QED
    BY <1>1, <2>1
<1>4. StepsLeft' = Allowance(RoundsLeft', 1)
  BY <1>2 DEF AllowanceInv, Allowance
<1> HIDE DEF w, k
<1>5. 1 \in 1..(NumCells + 1) /\ w + k \in Nat
  BY <1>1, Constants
<1>6. Allowance(RoundsLeft', 1) <= Allowance(w + k, 1)
  <2>1. CASE RoundsLeft' = w + k
    <3>1. Allowance(w + k, 1) \in Nat
      BY <1>5, AllowanceIs
    <3> QED BY <2>1, <3>1
  <2>2. CASE RoundsLeft' < w + k
    <3>1. Allowance(RoundsLeft', 1) < Allowance(w + k, 1)
      BY <1>3, <1>5, <2>2, AllowanceOfRounds
    <3>2. Allowance(RoundsLeft', 1) \in Nat /\ Allowance(w + k, 1) \in Nat
      BY <1>3, <1>5, AllowanceIs
    <3> QED BY <3>1, <3>2
  <2> QED
    BY <1>3, <1>5, <2>1, <2>2
<1>7. Allowance(w + k, 1) = (w + k + 1) * (NumCells + 1) + 1
  <2>1. (w + k + 1) * (NumCells + 1) \in Nat
    BY <1>5, Constants
  <2> QED
    BY <2>1 DEF Allowance
<1> QED
  BY <1>4, <1>6, <1>7 DEF w, k

\* The work of a run is bounded when it starts, by its policy and its matrix, and
\* no step but the start of the next run adds to it.
THEOREM BoundedWork == Spec => [](StepsLeft \in Nat) /\ WorkIsBounded
<1>1. Spec => [](TypeOK /\ RoundInv /\ AllowanceInv)
  <2>1. TypeOK /\ RoundInv /\ [Next]_vars => TypeOK' /\ RoundInv'
    BY RoundStep, NextType
  <2>2. TypeOK /\ RoundInv => AllowanceInv
    BY StepsLeftIs
  <2> QED
    BY <2>1, <2>2, InitType, RoundInit, PTL DEF Spec
<1>2. AllowanceInv => StepsLeft \in Nat
  BY DEF AllowanceInv
<1> DEFINE Bound == (rep'.warmup + rep'.max + 1) * (NumCells + 1) + 1
           Paid == /\ Orchestrator => StepsLeft' < StepsLeft
                   /\ phase # "idle" => StepsLeft' <= StepsLeft
                   /\ phase = "idle" => StepsLeft' <= Bound
<1>3. ASSUME TypeOK, RoundInv, AllowanceInv, TypeOK', AllowanceInv', [Next]_vars
      PROVE  [Paid]_vars
  <2>1. StepsLeft \in Nat /\ StepsLeft' \in Nat
    BY <1>3 DEF AllowanceInv
  <2>2. Bound \in Nat
    <3>1. rep'.warmup \in Nat /\ rep'.max \in Nat
      BY <1>3 DEF TypeOK, Policy
    <3> QED BY <3>1, Constants
  <2>3. Orchestrator => phase # "idle"
    BY DEF Orchestrator, Warmup, EndWarmupRound, SkipDone, MeasureFail, MeasureOk,
       EndRound, SkipEmpty, WriteError, WriteRecord, Writing, EndWrite, WriteRunFile
  <2> HIDE DEF Bound
  <2>4. CASE Orchestrator
    BY <1>3, <2>1, <2>3, <2>4, StepsDecrease
  <2>5. CASE ~Orchestrator /\ (RefuseRun \/ NoHostFile \/ Kill)
    <3>1. phase' = "idle"
      BY <2>5 DEF RefuseRun, NoHostFile, Kill
    <3>2. StepsLeft' = 0
      BY <3>1 DEF StepsLeft
    <3> QED
      BY <2>1, <2>2, <2>5, <3>2
  <2>6. ASSUME NEW p \in Policies, NEW n \in CliChoices, StartRun(p, n)
        PROVE  Paid
    <3>1. phase = "idle"
      BY <2>6 DEF StartRun
    <3>2. StepsLeft' <= Bound
      BY <1>3, <2>6, StartsWith DEF Bound
    <3> QED
      BY <2>3, <3>1, <3>2
  <2> QED
    BY <1>3, <2>4, <2>5, <2>6 DEF Next, Operator, Finished
<1> QED
  BY <1>1, <1>2, <1>3, PTL DEF Spec, WorkIsBounded

=============================================================================
