------------------------------ MODULE Campaign ------------------------------
(***************************************************************************)
(* What a run of the orchestrator does to its output directory, for those  *)
(* who read it: _host.json before anything else, then at most one record   *)
(* per cell in the order of the matrix, then _run.json with their number,  *)
(* unless the run ends before.  Nothing of an earlier run is removed, but  *)
(* a write truncates its file first, so one that fails or is interrupted   *)
(* may leave the file half written.                                        *)
(* Module RunLoop implements this specification, and module Archive        *)
(* builds on it.                                                           *)
(***************************************************************************)
EXTENDS Integers, FiniteSets

CONSTANTS
  Cells,      \* cells of the matrix, numbered
  MaxRuns     \* bound: runs that share the directory

ASSUME CellsAssumption == Cells \subseteq Nat /\ IsFiniteSet(Cells)
ASSUME MaxRunsAssumption == MaxRuns \in Nat

\* In place of the run that wrote a file: it was truncated and not filled.
HalfWritten == -1

VARIABLES
  busy,       \* a run is under way
  run,        \* its number, or that of the last one
  records,    \* <cell_id>.json: the run that wrote it, 0 for none
  hostFile,   \* _host.json: the run that wrote it
  runFile     \* _run.json: the run that wrote it and its cells_written

vars == <<busy, run, records, hostFile, runFile>>

Init ==
  /\ busy = FALSE /\ run = 0
  /\ records = [c \in Cells |-> 0]
  /\ hostFile = 0
  /\ runFile = [run |-> 0, written |-> 0]

Begin ==
  /\ ~busy /\ run < MaxRuns
  /\ busy' = TRUE
  /\ run' = run + 1
  /\ hostFile' = run + 1
  /\ UNCHANGED <<records, runFile>>

\* A gate refuses a run; the directory is as before.
Refuse ==
  /\ ~busy /\ run < MaxRuns
  /\ run' = run + 1
  /\ UNCHANGED <<busy, records, hostFile, runFile>>

\* The gates have passed and _host.json, the first file, cannot be written, or the
\* run is killed while it writes it.
NoHostFile ==
  /\ ~busy /\ run < MaxRuns
  /\ run' = run + 1
  /\ hostFile' \in {hostFile, HalfWritten}
  /\ UNCHANGED <<busy, records, runFile>>

\* The next record may be that of c.
Due(c) == \A d \in Cells : d >= c => records[d] # run

Publish(c) ==
  /\ busy /\ Due(c)
  /\ records' = [records EXCEPT ![c] = run]
  /\ UNCHANGED <<busy, run, hostFile, runFile>>

\* Slip: cells_written counts the records that are there.
ConcludeAll ==
  /\ busy
  /\ busy' = FALSE
  /\ runFile' = [run |-> run,
                 written |-> Cardinality({c \in Cells : records[c] # 0})]
  /\ UNCHANGED <<run, records, hostFile>>

Conclude ==
  /\ busy
  /\ busy' = FALSE
  /\ runFile' = [run |-> run,
                 written |-> Cardinality({c \in Cells : records[c] = run})]
  /\ UNCHANGED <<run, records, hostFile>>

\* What an interrupted write leaves: the file as it was, or half of the new one.
Interrupted ==
  \/ UNCHANGED <<records, runFile>>
  \/ /\ \E c \in Cells : Due(c) /\ records' = [records EXCEPT ![c] = HalfWritten]
     /\ UNCHANGED runFile
  \/ /\ runFile' = [run |-> HalfWritten, written |-> 0]
     /\ UNCHANGED records

\* The run is killed or ends with an error.
Abort ==
  /\ busy
  /\ busy' = FALSE
  /\ Interrupted
  /\ UNCHANGED <<run, hostFile>>

Step == (\E c \in Cells : Publish(c)) \/ Conclude \/ Abort

Next == Begin \/ Refuse \/ NoHostFile \/ Step

\* A run that has begun goes on to its end.
Spec == Init /\ [][Next]_vars /\ WF_vars(Step)

=============================================================================
