--------------------------- MODULE CellExecProofs ---------------------------
(***************************************************************************)
(* Proofs about CellExec, for every set of kinds, number of peers and      *)
(* number of executions.  IInv (defined there) is shown to be inductive,   *)
(* one lemma per conjunct with one step per action that can disturb it.    *)
(***************************************************************************)
EXTENDS CellExec, TLAPS

(* The processes of an execution                                           *)

\* The bound of a kind is within the bound of all.
LEMMA BoundFact == Bound \in Nat /\ Bound <= MaxExecs
BY MaxExecsAssumption DEF Bound

\* The processes of the current execution are the first NumProcs slots, the
\* measured one among them.
LEMMA CellFacts ==
  ASSUME TypeOK, exec >= 1
  PROVE  /\ NumProcs \in Nat /\ 2 <= NumProcs /\ NumProcs <= Peers + 1
         /\ \A i \in Slots : <<exec, i>> \in Procs
         /\ \A p \in Procs : p = <<p[1], p[2]>> /\ p[1] \in 1..MaxExecs /\ p[2] \in Slots
         /\ Mine \subseteq Procs
         /\ \A p \in Procs : p \in Mine <=> p[1] = exec /\ p[2] <= NumProcs
         /\ Measured \in Mine
         /\ Others \subseteq Mine
<1>1. NumProcs \in Nat /\ 2 <= NumProcs /\ NumProcs <= Peers + 1
  BY PeersAssumption DEF NumProcs, TypeOK
<1>2. exec \in 1..MaxExecs
  BY MaxExecsAssumption DEF TypeOK
<1>3. \A i \in Slots : <<exec, i>> \in Procs
  BY <1>2 DEF Procs, Execs
<1>4. \A p \in Procs : p = <<p[1], p[2]>> /\ p[1] \in 1..MaxExecs /\ p[2] \in Slots
  BY DEF Procs, Execs
<1>5. 1..NumProcs \subseteq Slots
  BY <1>1, PeersAssumption DEF Slots
<1>6. Mine \subseteq Procs
  BY <1>3, <1>5 DEF Mine
<1>7. ASSUME NEW p \in Procs PROVE p \in Mine <=> p[1] = exec /\ p[2] <= NumProcs
  <2>1. p \in Mine => p[1] = exec /\ p[2] \in 1..NumProcs
    BY DEF Mine
  <2>2. p[1] = exec /\ p[2] <= NumProcs => p[2] \in 1..NumProcs /\ p = <<exec, p[2]>>
    BY <1>1, <1>4, PeersAssumption DEF Slots
  <2>3. p[1] = exec /\ p[2] <= NumProcs => p \in Mine
    BY <2>2 DEF Mine
  <2>4. QED
    BY <2>1, <2>3, <1>1
<1>8. Measured \in Mine
  <2>1. MeasuredSlot \in 1..NumProcs
    BY <1>1 DEF MeasuredSlot
  <2>2. QED
    BY <2>1 DEF Measured, Mine
<1>9. QED
  BY <1>1, <1>3, <1>4, <1>6, <1>7, <1>8 DEF Others

\* The processes of the execution are fixed as long as it and its kind are.
LEMMA SameCell ==
  ASSUME kind' = kind, exec' = exec
  PROVE  /\ NumProcs' = NumProcs /\ Mine' = Mine
         /\ Measured' = Measured /\ Others' = Others
BY DEF NumProcs, Mine, Measured, MeasuredSlot, Others

-----------------------------------------------------------------------------
(* Types                                                                   *)

LEMMA TypeInit == Init => TypeOK
<1> SUFFICES ASSUME Init PROVE TypeOK
  OBVIOUS
<1>1. NumProcs \in Nat
  BY PeersAssumption DEF NumProcs
<1>2. exec \in 0..MaxExecs /\ spawned \in 0..NumProcs
  BY <1>1, MaxExecsAssumption DEF Init
<1>3. tenants \in [Roles -> SUBSET Procs] /\ record \in [cpu: SUBSET Procs, memory: SUBSET Procs]
  BY DEF Init
<1>4. QED
  BY <1>2, <1>3, KindsAssumption DEF Init, TypeOK

\* The names the environment's and the file system's variables go by.
LEMMA TypeStep == ASSUME TypeOK, StageInv, ProcInv, [Next]_vars PROVE TypeOK'
<1> USE MaxExecsAssumption, PeersAssumption
<1>1. CASE Refuse
  BY <1>1, SameCell, BoundFact DEF Refuse, TypeOK, env, cgroup, NumProcs
<1>2. CASE Begin
  <2>1. NumProcs' = NumProcs /\ NumProcs \in Nat
    BY <1>2 DEF Begin, NumProcs, TypeOK
  <2>2. held' \subseteq Roles /\ leaf' \subseteq Roles /\ tenants' \in [Roles -> SUBSET Procs]
    BY <1>2 DEF Begin, TypeOK
  <2>3. exec' \in 0..MaxExecs /\ spawned' \in 0..NumProcs'
    BY <1>2, <2>1, BoundFact DEF Begin, TypeOK
  <2>4. QED
    BY <1>2, <2>2, <2>3 DEF Begin, TypeOK
<1>3. CASE Spawn
  <2>1. exec >= 1
    BY <1>3 DEF Spawn, ProcInv
  <2>2. spawned + 1 \in 1..NumProcs
    BY <1>3, <2>1, CellFacts DEF Spawn, TypeOK, StageInv
  <2>3. spawned' \in 0..NumProcs'
    BY <1>3, <2>2, SameCell DEF Spawn
  <2>4. proc' \in [Procs -> {"unborn", "alive", "ok", "failed", "killed"}]
    BY <1>3 DEF Spawn, TypeOK
  <2>5. QED
    BY <1>3, <2>3, <2>4 DEF Spawn, TypeOK, cgroup
<1>4. CASE SpawnFails
  BY <1>4, SameCell DEF SpawnFails, TypeOK, env, cgroup
<1>5. CASE Attach
  <2>1. exec >= 1 /\ spawned \in Slots
    BY <1>5, CellFacts DEF Attach, ProcInv, StageInv, TypeOK, Slots
  <2>2. <<exec, spawned>> \in Procs
    BY <2>1, CellFacts
  <2>3. pc' \in {"poll", "probe", "spawn"}
    BY <1>5 DEF Attach, AfterAttach, TypeOK
  <2>4. attached' \subseteq Procs /\ tenants' \in [Roles -> SUBSET Procs]
    BY <1>5, <2>2 DEF Attach, TypeOK, Role, Roles
  <2>5. QED
    BY <1>5, <2>3, <2>4, SameCell DEF Attach, TypeOK, env
<1>6. CASE OpenProbe
  BY <1>6, SameCell DEF OpenProbe, TypeOK, env, cgroup
<1>7. CASE PollExited
  <2>1. Measured \in Procs
    BY <1>7, CellFacts DEF PollExited, ProcInv
  <2>2. QED
    BY <1>7, <2>1, SameCell DEF PollExited, TypeOK, env, cgroup
<1>8. CASE PollExpired
  BY <1>8, SameCell DEF PollExpired, TypeOK, env, cgroup
<1>9. CASE KillMeasured
  <2>1. Measured \in Procs
    BY <1>9, CellFacts DEF KillMeasured, ProcInv
  <2>2. QED
    BY <1>9, <2>1, SameCell, SMTT(20) DEF KillMeasured, TypeOK, cgroup
<1>10. CASE Collect
  <2>1. pc' \in {"await", "kill", "sample"} /\ probed' \in BOOLEAN
    BY <1>10 DEF Collect
  <2>2. QED
    BY <1>10, <2>1, SameCell, SMTT(20) DEF Collect, TypeOK, env, cgroup
<1>11. CASE ProducerExited \/ SampleDied \/ KillOthers
  <2>1. Others \subseteq Procs
    BY <1>11, CellFacts DEF ProducerExited, SampleDied, KillOthers, ProcInv
  <2>2. CASE ProducerExited
    BY <2>1, <2>2, SameCell DEF ProducerExited, TypeOK, env, cgroup
  <2>3. CASE SampleDied
    <3>1. died' \in BOOLEAN
      BY <2>3 DEF SampleDied
    <3>2. QED
      BY <2>1, <2>3, <3>1, SameCell DEF SampleDied, TypeOK, env, cgroup
  <2>4. CASE KillOthers
    BY <2>1, <2>4, SameCell DEF KillOthers, TypeOK, cgroup
  <2>5. QED
    BY <1>11, <2>2, <2>3, <2>4
<1>12. CASE ProducerOverdue
  BY <1>12, SameCell DEF ProducerOverdue, TypeOK, env, cgroup
<1>13. CASE Judge
  <2>1. Mine \subseteq Procs
    BY <1>13, CellFacts DEF Judge, ProcInv
  <2>2. Verdict \in {"timeout", "died", "failed", "noline", "ok"}
    BY DEF Verdict, TypeOK
  <2>3. record' \in [cpu: SUBSET Procs, memory: SUBSET Procs]
    BY <1>13, <2>1 DEF Judge, TypeOK
  <2>4. QED
    BY <1>13, <2>2, <2>3, SameCell DEF Judge, TypeOK, env, cgroup
<1>14. CASE Drop
  <2>1. tenants' \in [Roles -> SUBSET Procs]
    BY <1>14 DEF Drop, TypeOK
  <2>2. QED
    BY <1>14, <2>1, SameCell DEF Drop, TypeOK, env
<1>15. ASSUME NEW p \in Procs, ExitOk(p) PROVE TypeOK'
  <2>1. line' \in {"none", "full", "short", "zero"}
    BY <1>15 DEF ExitOk, Reports, TypeOK
  <2>2. QED
    BY <1>15, <2>1, SameCell DEF ExitOk, TypeOK, cgroup
<1>16. ASSUME NEW p \in Procs, ExitFailed(p) PROVE TypeOK'
  <2>1. starved' \in BOOLEAN /\ line' \in {"none", "full", "short", "zero"}
    BY <1>16 DEF ExitFailed, Reports, TypeOK
  <2>2. QED
    BY <1>16, <2>1, SameCell DEF ExitFailed, TypeOK, cgroup
<1>17. CASE UNCHANGED vars
  BY <1>17, SameCell DEF vars, env, cgroup, TypeOK
<1>18. QED
  BY <1>1, <1>2, <1>3, <1>4, <1>5, <1>6, <1>7, <1>8, <1>9, <1>10, <1>11,
     <1>12, <1>13, <1>14, <1>15, <1>16, <1>17
  DEF Next, Orchestrator, Finished

-----------------------------------------------------------------------------
(* Births, deaths and waits                                                *)

\* Once all processes are spawned, none of the execution's is unborn.
LEMMA AllBorn ==
  ASSUME TypeOK, ProcInv, pc # "idle", spawned = NumProcs
  PROVE  \A p \in Mine : proc[p] # "unborn"
<1>1. exec >= 1
  BY DEF ProcInv
<1>2. TAKE p \in Mine
<1>3. p \in Procs /\ p[1] = exec /\ p[2] <= NumProcs /\ p[2] \in Slots /\ p = <<p[1], p[2]>>
  BY <1>1, CellFacts
<1>4. QED
  BY <1>3 DEF ProcInv

\* A step of the orchestrator on the processes it has: none is born, the dead
\* stay as they are, and a wait() returns for dead ones of the execution only.
LEMMA WaitKeepsProcInv ==
  ASSUME TypeOK, ProcInv,
         exec' = exec, spawned' = spawned, pc # "idle",
         proc' \in [Procs -> {"unborn", "alive", "ok", "failed", "killed"}],
         \A p \in Procs : proc'[p] = proc[p] \/ (Alive(p) /\ Dead(p)'),
         \A p \in reaped' : p \in reaped \/ (p \in Procs /\ Dead(p)')
  PROVE  ProcInv'
<1>1. ASSUME NEW p \in Procs PROVE proc'[p] = "unborn" <=> proc[p] = "unborn"
  BY <1>1 DEF Dead, Alive
<1>2. \A p \in Procs : p[1] > exec' => proc'[p] = "unborn"
  BY <1>1 DEF ProcInv
<1>3. exec >= 1 /\ \A i \in Slots : <<exec, i>> \in Procs
  BY CellFacts DEF ProcInv
<1>4. \A i \in Slots : proc'[<<exec', i>>] # "unborn" <=> i <= spawned'
  BY <1>1, <1>3 DEF ProcInv
<1>5. \A p \in reaped' : Dead(p)'
  <2>1. TAKE p \in reaped'
  <2>2. CASE p \in reaped
    <3>1. p \in Procs /\ Dead(p)
      BY <2>2 DEF ProcInv, TypeOK
    <3>2. QED
      BY <3>1 DEF Dead, Alive
  <2>3. QED
    BY <2>2
<1>6. QED
  BY <1>2, <1>3, <1>4, <1>5 DEF ProcInv

LEMMA ProcStep == ASSUME TypeOK, ProcInv, StageInv, [Next]_vars, TypeOK' PROVE ProcInv'
<1> DEFINE Kept == /\ exec' = exec /\ spawned' = spawned /\ proc' = proc
<1>1. CASE Refuse
  <2>1. \A p \in Procs : p[1] > exec' => proc'[p] = "unborn"
    BY <1>1 DEF Refuse, ProcInv, env, TypeOK, Procs, Execs
  <2>2. QED
    BY <1>1, <2>1 DEF Refuse, ProcInv, env, Dead
<1>2. CASE Begin
  <2>1. \A p \in Procs : p[1] > exec' => proc'[p] = "unborn"
    BY <1>2, CellFacts DEF Begin, ProcInv, TypeOK, Procs, Execs
  <2>2. exec' \in 1..MaxExecs /\ exec' > exec /\ spawned' = 0 /\ proc' = proc /\ reaped' = reaped
    BY <1>2, BoundFact, MaxExecsAssumption DEF Begin, TypeOK
  <2>3. ASSUME NEW i \in Slots PROVE proc'[<<exec', i>>] # "unborn" <=> i <= spawned'
    <3>1. <<exec', i>> \in Procs
      BY <2>2 DEF Procs, Execs
    <3>2. proc[<<exec', i>>] = "unborn"
      BY <2>2, <3>1 DEF ProcInv
    <3>3. QED
      BY <2>2, <3>2 DEF Slots
  <2>4. QED
    BY <2>1, <2>2, <2>3 DEF ProcInv, Dead
<1>3. CASE Spawn
  <2>1. exec >= 1 /\ exec' = exec /\ spawned' = spawned + 1 /\ reaped' = reaped
    BY <1>3 DEF Spawn, ProcInv
  <2>2. spawned + 1 \in Slots /\ <<exec, spawned + 1>> \in Procs
    BY <1>3, <2>1, CellFacts, PeersAssumption DEF Spawn, TypeOK, StageInv, Slots
  <2>3. proc[<<exec, spawned + 1>>] = "unborn"
    BY <1>3, <2>2 DEF ProcInv, Spawn, TypeOK
  <2>4. ASSUME NEW p \in Procs, p # <<exec, spawned + 1>> PROVE proc'[p] = proc[p]
    BY <1>3, <2>4 DEF Spawn, TypeOK
  <2>5. proc'[<<exec, spawned + 1>>] = "alive"
    BY <1>3, <2>2 DEF Spawn, TypeOK
  <2>6. \A p \in Procs : p[1] > exec' => proc'[p] = "unborn"
    BY <2>1, <2>4 DEF ProcInv, TypeOK
  <2>7. ASSUME NEW i \in Slots PROVE proc'[<<exec', i>>] # "unborn" <=> i <= spawned'
    <3>1. CASE i = spawned + 1
      BY <3>1, <2>1, <2>5
    <3>2. CASE i # spawned + 1
      <4>1. <<exec, i>> \in Procs /\ <<exec, i>> # <<exec, spawned + 1>>
        BY <3>2, <2>1, CellFacts
      <4>2. proc[<<exec, i>>] # "unborn" <=> i <= spawned
        BY <1>3 DEF ProcInv, Spawn
      <4>3. QED
        BY <3>2, <4>1, <4>2, <2>1, <2>4 DEF Slots, TypeOK
    <3>3. QED
      BY <3>1, <3>2
  <2>8. \A p \in reaped' : Dead(p)'
    BY <2>1, <2>3, <2>4 DEF ProcInv, Dead, TypeOK
  <2>9. QED
    BY <2>1, <2>6, <2>7, <2>8 DEF ProcInv
<1>4. CASE SpawnFails \/ Attach \/ OpenProbe \/ PollExpired \/ Collect
             \/ ProducerOverdue \/ Judge \/ Drop
  <2>1. Kept /\ reaped' = reaped /\ pc # "idle"
    BY <1>4 DEF SpawnFails, Attach, OpenProbe, PollExpired, Collect,
                ProducerOverdue, Judge, Drop, env
  <2>2. QED
    BY <2>1, WaitKeepsProcInv DEF TypeOK
<1>5. CASE PollExited \/ ProducerExited \/ SampleDied
  <2>1. Kept /\ pc # "idle" /\ spawned = NumProcs
    BY <1>5 DEF PollExited, ProducerExited, SampleDied, env, StageInv
  <2>2. Measured \in Mine /\ Others \subseteq Mine /\ Mine \subseteq Procs
    BY <2>1, CellFacts DEF ProcInv
  <2>3. \A p \in Mine : proc[p] # "unborn"
    BY <2>1, AllBorn
  <2>4. reaped' \subseteq reaped \cup {p \in Mine : ~Alive(p)}
    BY <1>5, <2>2 DEF PollExited, ProducerExited, SampleDied
  <2>5. \A p \in reaped' : p \in reaped \/ (p \in Procs /\ Dead(p)')
    BY <2>1, <2>2, <2>3, <2>4 DEF Dead, Alive
  <2>6. QED
    BY <2>1, <2>5, WaitKeepsProcInv DEF TypeOK
<1>6. CASE KillMeasured \/ KillOthers
  <2>1. exec' = exec /\ spawned' = spawned /\ pc # "idle" /\ spawned = NumProcs
    BY <1>6 DEF KillMeasured, KillOthers, StageInv
  <2>2. Measured \in Mine /\ Others \subseteq Mine /\ Mine \subseteq Procs
    BY <2>1, CellFacts DEF ProcInv
  <2>3. \A p \in Mine : proc[p] # "unborn"
    BY <2>1, AllBorn
  <2>4. \A p \in Procs : proc'[p] = proc[p] \/ (Alive(p) /\ Dead(p)')
    BY <1>6, <2>2 DEF KillMeasured, KillOthers, Dead, Alive, TypeOK
  <2>5. ASSUME NEW p \in reaped', p \notin reaped PROVE p \in Procs /\ Dead(p)'
    <3>1. CASE KillMeasured
      <4>1. p = Measured
        BY <2>5, <3>1 DEF KillMeasured
      <4>2. QED
        BY <3>1, <4>1, <2>2, <2>3 DEF KillMeasured, Dead, TypeOK
    <3>2. CASE KillOthers
      <4>1. p \in Others
        BY <2>5, <3>2 DEF KillOthers
      <4>2. QED
        BY <3>2, <4>1, <2>2, <2>3 DEF KillOthers, Dead, Alive, TypeOK
    <3>3. QED
      BY <1>6, <3>1, <3>2
  <2>6. proc' \in [Procs -> {"unborn", "alive", "ok", "failed", "killed"}]
    BY DEF TypeOK
  <2>7. QED
    BY <2>1, <2>4, <2>5, <2>6, WaitKeepsProcInv
<1>7. ASSUME NEW q \in Procs, ExitOk(q) \/ ExitFailed(q) PROVE ProcInv'
  <2>1. exec' = exec /\ spawned' = spawned /\ reaped' = reaped /\ pc' = pc
    BY <1>7 DEF ExitOk, ExitFailed
  <2>2. Alive(q) /\ proc'[q] \in {"ok", "failed"}
    BY <1>7 DEF ExitOk, ExitFailed, TypeOK
  <2>3. \A p \in Procs : proc'[p] = proc[p] \/ (Alive(p) /\ Dead(p)')
    BY <1>7, <2>2 DEF ExitOk, ExitFailed, Dead, TypeOK
  <2>4. \A p \in reaped : p \in Procs /\ Dead(p) /\ Dead(p)'
    BY <2>3 DEF ProcInv, Dead, Alive, TypeOK
  <2>5. \A p \in Procs : proc'[p] = "unborn" <=> proc[p] = "unborn"
    BY <2>3 DEF Dead, Alive
  <2>6. exec >= 1 => \A i \in Slots : <<exec, i>> \in Procs
    BY CellFacts
  <2>7. QED
    BY <2>1, <2>4, <2>5, <2>6 DEF ProcInv
<1>8. CASE UNCHANGED vars
  BY <1>8 DEF vars, env, ProcInv, Dead
<1>9. QED
  BY <1>1, <1>2, <1>3, <1>4, <1>5, <1>6, <1>7, <1>8 DEF Next, Orchestrator, Finished

-----------------------------------------------------------------------------
(* What getrusage counts                                                   *)

\* Every wait() of an execution is for one of its own processes.
LEMMA WaitsForItsOwn ==
  ASSUME TypeOK, ProcInv, [Next]_vars, pc # "idle"
  PROVE  /\ kind' = kind /\ exec' = exec
         /\ reaped \subseteq reaped'
         /\ reaped' \subseteq reaped \cup Mine
<1> USE DEF Others
<1>1. Measured \in Mine
  BY CellFacts DEF ProcInv
<1>2. QED
  BY <1>1
  DEF Next, vars, Orchestrator, Finished, Refuse, Begin, Spawn, SpawnFails,
      Attach, OpenProbe, PollExited, PollExpired, KillMeasured, Collect,
      ProducerExited, ProducerOverdue, SampleDied, KillOthers, Judge, Drop,
      ExitOk, ExitFailed, env, cgroup

LEMMA CpuStep ==
  ASSUME TypeOK, ProcInv, CpuInv, [Next]_vars, TypeOK'
  PROVE  CpuInv'
<1>1. CASE Refuse
  BY <1>1 DEF Refuse, CpuInv
<1>2. CASE Begin
  <2>1. exec' >= 1 /\ exec' > exec /\ proc' = proc /\ reaped' = reaped /\ before' = reaped
    BY <1>2 DEF Begin, TypeOK
  <2>2. ASSUME NEW p \in reaped PROVE p \notin Mine'
    <3>1. p \in Procs /\ proc[p] # "unborn"
      BY <2>2 DEF ProcInv, Dead, TypeOK
    <3>2. ~ p[1] > exec
      BY <3>1 DEF ProcInv
    <3>3. p \in Mine' => p[1] = exec'
      BY DEF Mine
    <3>4. QED
      BY <2>1, <3>2, <3>3 DEF TypeOK
  <2>3. QED
    BY <2>1, <2>2 DEF CpuInv
<1>3. CASE pc # "idle"
  <2>1. kind' = kind /\ exec' = exec /\ reaped \subseteq reaped' /\ reaped' \subseteq reaped \cup Mine
    BY <1>3, WaitsForItsOwn
  <2>2. before' = before
    BY <1>3
    DEF Next, vars, Orchestrator, Finished, Refuse, Begin, Spawn, SpawnFails,
        Attach, OpenProbe, PollExited, PollExpired, KillMeasured, Collect,
        ProducerExited, ProducerOverdue, SampleDied, KillOthers, Judge, Drop,
        ExitOk, ExitFailed
  <2>3. QED
    BY <1>3, <2>1, <2>2, SameCell DEF CpuInv
<1>4. CASE pc = "idle" /\ pc' = "idle"
  BY <1>4 DEF CpuInv
<1>5. pc = "idle" => Refuse \/ Begin \/ pc' = "idle"
  BY DEF Next, vars, Orchestrator, Finished, Spawn, SpawnFails,
        Attach, OpenProbe, PollExited, PollExpired, KillMeasured, Collect,
        ProducerExited, ProducerOverdue, SampleDied, KillOthers, Judge, Drop,
        ExitOk, ExitFailed
<1>6. QED
  BY <1>1, <1>2, <1>3, <1>4, <1>5

-----------------------------------------------------------------------------
(* The stages of the orchestrator                                          *)

LEMMA StageStep ==
  ASSUME TypeOK, ProcInv, StageInv, OutcomeInv, [Next]_vars, TypeOK'
  PROVE  StageInv'
<1>1. CASE Refuse
  BY <1>1 DEF Refuse, StageInv
<1>2. CASE Begin
  <2>1. NumProcs' \in Nat /\ NumProcs' >= 2
    BY PeersAssumption DEF NumProcs
  <2>2. QED
    BY <1>2, <2>1 DEF Begin, StageInv
<1>3. CASE SpawnFails \/ Attach \/ OpenProbe
  <2>1. pc # "idle" /\ kind' = kind /\ exec' = exec /\ spawned' = spawned /\ reaped' = reaped
    BY <1>3 DEF SpawnFails, Attach, OpenProbe
  <2>2. NumProcs \in Nat /\ 2 <= NumProcs /\ (kind = "throughput" => NumProcs = 2)
    BY <2>1, CellFacts DEF ProcInv, NumProcs, Windowed
  <2>3. NumProcs' = NumProcs
    BY <2>1, SameCell
  <2>4. CASE SpawnFails
    BY <2>4 DEF SpawnFails, StageInv
  <2>5. CASE Attach
    <3>1. /\ pc = "attach" /\ pc' = AfterAttach /\ probed' = probed
      BY <2>5 DEF Attach
    <3>2. spawned \in 1..NumProcs
      BY <3>1, <2>2 DEF StageInv, TypeOK
    <3>3. QED
      BY <2>1, <2>2, <2>3, <3>1, <3>2 DEF AfterAttach, StageInv, TypeOK
  <2>6. CASE OpenProbe
    <3>1. spawned \in 1..NumProcs
      BY <2>2, <2>6 DEF OpenProbe, StageInv, TypeOK
    <3>2. QED
      BY <2>1, <2>2, <2>3, <2>6, <3>1 DEF OpenProbe, StageInv
  <2>7. QED
    BY <1>3, <2>4, <2>5, <2>6
<1>4. CASE Spawn
  <2>1. NumProcs \in Nat /\ 2 <= NumProcs
    BY <1>4, CellFacts DEF ProcInv, Spawn
  <2>2. NumProcs' = NumProcs
    BY <1>4, SameCell DEF Spawn
  <2>3. probed => NumProcs = 2
    BY <1>4 DEF StageInv, NumProcs, Windowed, Spawn
  <2>4. QED
    BY <1>4, <2>1, <2>2, <2>3 DEF Spawn, StageInv, TypeOK
<1>5. CASE PollExited \/ PollExpired \/ KillMeasured \/ Collect
             \/ ProducerExited \/ ProducerOverdue \/ SampleDied \/ KillOthers
  <2>1. pc # "idle" /\ spawned = NumProcs /\ spawned' = spawned
    BY <1>5 DEF PollExited, PollExpired, KillMeasured, Collect, ProducerExited,
                ProducerOverdue, SampleDied, KillOthers, StageInv
  <2>2. /\ kind' = kind /\ exec' = exec /\ reaped \subseteq reaped'
        /\ NumProcs' = NumProcs /\ Mine' = Mine /\ Measured' = Measured
    BY <2>1, WaitsForItsOwn, SameCell
  <2>3. CASE PollExited \/ KillMeasured
    BY <2>1, <2>2, <2>3 DEF PollExited, KillMeasured, StageInv
  <2>4. CASE PollExpired
    BY <2>1, <2>2, <2>4 DEF PollExpired, StageInv
  <2>5. CASE Collect
    BY <2>1, <2>2, <2>5 DEF Collect, StageInv
  <2>6. CASE ProducerOverdue \/ SampleDied
    BY <2>1, <2>2, <2>6 DEF ProducerOverdue, SampleDied, StageInv
  <2>7. CASE ProducerExited \/ KillOthers
    <3>1. Measured \in reaped
      BY <2>7 DEF ProducerExited, KillOthers, StageInv
    <3>2. Mine \subseteq reaped'
      BY <2>2, <2>7, <3>1 DEF ProducerExited, KillOthers, Others
    <3>3. QED
      BY <2>1, <2>2, <2>7, <3>1, <3>2 DEF ProducerExited, KillOthers, StageInv
  <2>8. QED
    BY <1>5, <2>3, <2>4, <2>5, <2>6, <2>7
<1>6. CASE Judge
  <2>1. Mine' = Mine
    BY <1>6, SameCell DEF Judge
  <2>2. Verdict # "nospawn"
    BY DEF Verdict
  <2>3. QED
    BY <1>6, <2>1, <2>2 DEF Judge, StageInv
<1>7. CASE Drop
  BY <1>7 DEF Drop, StageInv
<1>8. CASE (\E p \in Procs : ExitOk(p) \/ ExitFailed(p)) \/ UNCHANGED vars
  <2>1. /\ kind' = kind /\ exec' = exec /\ pc' = pc /\ spawned' = spawned
        /\ probed' = probed /\ reaped' = reaped /\ outcome' = outcome
    BY <1>8 DEF ExitOk, ExitFailed, vars
  <2>2. NumProcs' = NumProcs /\ Mine' = Mine /\ Measured' = Measured
    BY <2>1, SameCell
  <2>3. QED
    BY <2>1, <2>2 DEF StageInv
<1>9. QED
  BY <1>1, <1>2, <1>3, <1>4, <1>5, <1>6, <1>7, <1>8 DEF Next, Orchestrator, Finished

-----------------------------------------------------------------------------
(* Orphans                                                                 *)

\* Who is dead stays as it is.
LEMMA DeadForEver ==
  ASSUME TypeOK, ProcInv, StageInv, [Next]_vars, NEW p \in Procs, Dead(p)
  PROVE  proc'[p] = proc[p]
<1>1. CASE Spawn
  <2>1. exec >= 1 /\ spawned + 1 \in Slots
    BY <1>1, CellFacts, PeersAssumption DEF Spawn, ProcInv, StageInv, TypeOK, Slots
  <2>2. proc[<<exec, spawned + 1>>] = "unborn"
    BY <1>1, <2>1 DEF Spawn, ProcInv, TypeOK
  <2>3. QED
    BY <1>1, <2>2 DEF Spawn, Dead, TypeOK
<1>2. CASE KillMeasured \/ KillOthers \/ \E q \in Procs : ExitOk(q) \/ ExitFailed(q)
  BY <1>2 DEF KillMeasured, KillOthers, ExitOk, ExitFailed, Dead, Alive, TypeOK
<1>3. QED
  BY <1>1, <1>2
  DEF Next, vars, env, Orchestrator, Finished, Refuse, Begin, SpawnFails,
      Attach, OpenProbe, PollExited, PollExpired, Collect, ProducerExited,
      ProducerOverdue, SampleDied, Judge, Drop

LEMMA OrphanStep ==
  ASSUME TypeOK, ProcInv, StageInv, NoOrphans, [Next]_vars, TypeOK', ProcInv'
  PROVE  NoOrphans'
<1> SUFFICES ASSUME pc' \in {"drop", "idle"}, outcome' # "nospawn",
                    NEW p \in Procs, p[1] = exec', proc'[p] # "unborn"
             PROVE  ~Alive(p)' /\ p \in reaped'
  BY DEF NoOrphans, Alive
<1>1. CASE Refuse
  BY <1>1 DEF Refuse, ProcInv, Procs, Execs, TypeOK, env
<1>2. CASE Drop \/ UNCHANGED vars
  BY <1>2 DEF Drop, vars, env, NoOrphans, Alive
<1>3. ASSUME NEW q \in Procs, ExitOk(q) \/ ExitFailed(q)
      PROVE  ~Alive(p)' /\ p \in reaped'
  <2>1. exec' = exec /\ pc' = pc /\ outcome' = outcome /\ reaped' = reaped /\ Alive(q)
    BY <1>3 DEF ExitOk, ExitFailed
  <2>2. p # q
    BY <2>1 DEF NoOrphans, Alive
  <2>3. proc'[p] = proc[p]
    BY <1>3, <2>2 DEF ExitOk, ExitFailed, TypeOK
  <2>4. QED
    BY <2>1, <2>3 DEF NoOrphans, Alive
<1>4. CASE Judge
  <2>1. /\ proc' = proc /\ reaped' = reaped /\ exec' = exec /\ exec >= 1
        /\ spawned = NumProcs /\ Mine \subseteq reaped /\ pc # "idle"
    BY <1>4 DEF Judge, env, StageInv, ProcInv
  <2>2. p[2] \in Slots /\ p = <<exec, p[2]>>
    BY <2>1 DEF Procs
  <2>3. p[2] <= spawned
    BY <2>1, <2>2 DEF ProcInv
  <2>4. p \in Mine
    BY <2>1, <2>2, <2>3 DEF Mine, Slots, TypeOK
  <2>5. QED
    BY <2>1, <2>4 DEF ProcInv, Dead, Alive
<1>5. pc' \notin {"drop", "idle"} \/ outcome' = "nospawn"
        \/ Refuse \/ Drop \/ Judge \/ UNCHANGED vars
        \/ \E q \in Procs : ExitOk(q) \/ ExitFailed(q)
  BY DEF Next, Orchestrator, Finished, Begin, Spawn, SpawnFails, Attach,
         AfterAttach, OpenProbe, PollExited, PollExpired, KillMeasured,
         Collect, ProducerExited, ProducerOverdue, SampleDied, KillOthers
<1>6. QED
  BY <1>1, <1>2, <1>3, <1>4, <1>5

-----------------------------------------------------------------------------
(* Peers that failed                                                       *)

LEMMA FedStep ==
  ASSUME TypeOK, ProcInv, StageInv, FedInv, [Next]_vars, TypeOK'
  PROVE  FedInv'
<1>1. CASE Refuse \/ Begin
  BY <1>1 DEF Refuse, Begin, FedInv
<1>2. CASE pc = "idle" /\ pc' = "idle"
  BY <1>2 DEF FedInv
<1>3. ASSUME pc # "idle" PROVE FedInv'
  <2>1. /\ kind' = kind /\ exec' = exec
        /\ Mine' = Mine /\ Others' = Others /\ Measured' = Measured
    BY <1>3, WaitsForItsOwn, SameCell
  <2>2. Others \subseteq Procs /\ Measured \in Procs
    BY <1>3, CellFacts DEF ProcInv
  <2>3. ASSUME NEW p \in Others, proc[p] = "failed" PROVE proc'[p] = "failed"
    BY <2>2, <2>3, DeadForEver DEF Dead
  <2>4. starved' /\ ~starved => \E p \in Others : ExitFailed(p)
    BY DEF Next, vars, env, Orchestrator, Finished, Refuse, Begin, Spawn, SpawnFails,
           Attach, OpenProbe, PollExited, PollExpired, KillMeasured, Collect,
           ProducerExited, ProducerOverdue, SampleDied, KillOthers, Judge, Drop,
           ExitOk, ExitFailed
  <2>5. died' /\ ~died => SampleDied
    BY <1>3 DEF Next, vars, Orchestrator, Finished, Refuse, Begin, Spawn, SpawnFails,
           Attach, OpenProbe, PollExited, PollExpired, KillMeasured, Collect,
           ProducerExited, ProducerOverdue, KillOthers, Judge, Drop,
           ExitOk, ExitFailed
  <2>6. starved' \/ died' => \E p \in Others : proc'[p] = "failed"
    <3>1. CASE starved \/ died
      BY <1>3, <2>3, <3>1 DEF FedInv
    <3>2. CASE starved' /\ ~starved
      <4>1. PICK p \in Others : ExitFailed(p)
        BY <2>4, <3>2
      <4>2. QED
        BY <2>2, <4>1 DEF ExitFailed, TypeOK
    <3>3. CASE died' /\ ~died
      BY <2>5, <3>3 DEF SampleDied, env
    <3>4. QED
      BY <3>1, <3>2, <3>3 DEF TypeOK
  <2>7. ASSUME pc' \in {"kill", "overdue", "judge"}, kind \in Windowed, starved'
        PROVE  died'
    <3>1. CASE SampleDied
      <4>1. starved
        BY <2>7, <3>1 DEF SampleDied, env
      <4>2. QED
        BY <1>3, <3>1, <4>1 DEF FedInv, SampleDied
    <3>2. CASE ~SampleDied
      <4>1. pc \in {"kill", "overdue", "judge"}
        BY <1>3, <2>7, <3>2
        DEF Next, vars, Orchestrator, Finished, Refuse, Begin, Spawn, SpawnFails,
            Attach, AfterAttach, OpenProbe, PollExited, PollExpired, KillMeasured,
            Collect, ProducerExited, ProducerOverdue, KillOthers, Judge, Drop,
            ExitOk, ExitFailed, StageInv, Windowed
      <4>2. proc[Measured] \notin {"unborn", "alive"}
        BY <4>1 DEF StageInv, ProcInv, Dead
      <4>3. starved
        BY <2>4, <2>7, <4>2 DEF ExitFailed, TypeOK
      <4>4. died
        BY <2>7, <4>1, <4>3 DEF FedInv
      <4>5. died' = died
        BY <1>3, <4>1
        DEF Next, vars, Orchestrator, Finished, Refuse, Begin, Spawn, SpawnFails,
            Attach, OpenProbe, PollExited, PollExpired, KillMeasured,
            Collect, ProducerExited, ProducerOverdue, SampleDied, KillOthers,
            Judge, Drop, ExitOk, ExitFailed
      <4>6. QED
        BY <4>4, <4>5
    <3>3. QED
      BY <3>1, <3>2
  <2>8. QED
    BY <2>1, <2>6, <2>7 DEF FedInv
<1>4. pc = "idle" => Refuse \/ Begin \/ pc' = "idle"
  BY DEF Next, vars, Orchestrator, Finished, Spawn, SpawnFails,
        Attach, OpenProbe, PollExited, PollExpired, KillMeasured, Collect,
        ProducerExited, ProducerOverdue, SampleDied, KillOthers, Judge, Drop,
        ExitOk, ExitFailed
<1>5. QED
  BY <1>1, <1>2, <1>3, <1>4

-----------------------------------------------------------------------------
(* Verdicts                                                                *)

\* The verdict of an execution, when the checks of Judge have passed.
LEMMA JudgeOutcome ==
  ASSUME TypeOK, ProcInv, CpuInv, StageInv, FedInv, Judge
  PROVE  OutcomeInv'
<1>1. /\ pc = "judge" /\ pc' = "drop" /\ exec' = exec /\ exec >= 1
      /\ kind' = kind /\ proc' = proc /\ line' = line /\ starved' = starved
      /\ reaped' = reaped /\ outcome' = Verdict
  BY DEF Judge, env, ProcInv
<1>2. Mine' = Mine /\ Others' = Others /\ Measured' = Measured
  BY <1>1, SameCell
<1>3. Mine \subseteq reaped /\ before = reaped \ Mine
  BY <1>1 DEF StageInv, CpuInv
<1>4. Verdict = "died" => \E p \in Others : proc[p] = "failed"
  BY <1>1 DEF Verdict, FedInv
<1>5. Verdict = "ok" => ~died /\ proc[Measured] = "ok" /\ line # "none"
  BY DEF Verdict
<1>6. Verdict = "ok" => record'.cpu = Mine
  BY <1>3 DEF Judge
<1>7. Verdict = "ok" /\ kind \in Windowed => ~starved
  BY <1>1, <1>5 DEF FedInv
<1>8. QED
  BY <1>1, <1>2, <1>3, <1>4, <1>5, <1>6, <1>7 DEF OutcomeInv

LEMMA OutcomeStep ==
  ASSUME TypeOK, ProcInv, CpuInv, StageInv, FedInv, OutcomeInv, [Next]_vars, TypeOK'
  PROVE  OutcomeInv'
<1>1. CASE Refuse \/ Begin \/ SpawnFails
  BY <1>1 DEF Refuse, Begin, SpawnFails, OutcomeInv
<1>2. CASE Judge
  BY <1>2, JudgeOutcome
<1>3. CASE ~(Refuse \/ Begin \/ SpawnFails \/ Judge)
  <2>1. outcome' = outcome /\ kind' = kind /\ exec' = exec /\ record' = record
    BY <1>3
    DEF Next, vars, Orchestrator, Finished, Spawn, Attach, OpenProbe, PollExited,
        PollExpired, KillMeasured, Collect, ProducerExited, ProducerOverdue,
        SampleDied, KillOthers, Drop, ExitOk, ExitFailed
  <2>2. Mine' = Mine /\ Others' = Others /\ Measured' = Measured
    BY <2>1, SameCell
  <2>3. SUFFICES ASSUME outcome \in {"ok", "died"} PROVE OutcomeInv'
    BY <2>1 DEF OutcomeInv
  <2>4. pc \in {"drop", "idle"} /\ exec >= 1
    BY <2>3 DEF OutcomeInv
  <2>5. pc' \in {"drop", "idle"} /\ reaped' = reaped
    BY <1>3, <2>4
    DEF Next, vars, Orchestrator, Finished, Spawn, Attach, OpenProbe, PollExited,
        PollExpired, KillMeasured, Collect, ProducerExited, ProducerOverdue,
        SampleDied, KillOthers, Drop, ExitOk, ExitFailed
  <2>6. Others \subseteq Procs /\ Measured \in Procs /\ Measured \in Mine
    BY <2>4, CellFacts
  <2>7. outcome = "died" => \E p \in Others : proc'[p] = "failed"
    BY <2>6, DeadForEver DEF OutcomeInv, Dead
  <2>8. CASE outcome = "ok"
    <3>1. proc[Measured] = "ok" /\ Dead(Measured)
      BY <2>8 DEF OutcomeInv, Dead
    <3>2. proc'[Measured] = "ok"
      BY <2>6, <3>1, DeadForEver
    <3>3. line' = line /\ starved' = starved
      <4>1. CASE \E p \in Procs : ExitOk(p)
        BY <3>1, <4>1 DEF ExitOk, Alive
      <4>2. CASE \E p \in Procs : ExitFailed(p)
        BY <3>1, <4>2 DEF ExitFailed, Alive, TypeOK
      <4>3. QED
        BY <1>3, <2>4, <4>1, <4>2
        DEF Next, vars, env, Orchestrator, Finished, Spawn, Attach, OpenProbe,
            PollExited, PollExpired, KillMeasured, Collect, ProducerExited,
            ProducerOverdue, SampleDied, KillOthers, Drop
    <3>4. QED
      BY <2>1, <2>2, <2>4, <2>5, <2>8, <3>2, <3>3 DEF OutcomeInv
  <2>9. CASE outcome # "ok"
    BY <2>1, <2>2, <2>4, <2>5, <2>7, <2>9 DEF OutcomeInv
  <2>10. QED
    BY <2>8, <2>9
<1>4. QED
  BY <1>1, <1>2, <1>3

-----------------------------------------------------------------------------
(* The probe and the leaves                                                *)

LEMMA ProbeStep ==
  ASSUME TypeOK, StageInv, ProbeInv, [Next]_vars
  PROVE  ProbeInv'
<1>1. CASE Begin
  BY <1>1 DEF Begin, ProbeInv
<1>2. CASE Spawn
  BY <1>2 DEF Spawn, ProbeInv, StageInv, TypeOK, NumProcs
<1>3. CASE Attach
  BY <1>3 DEF Attach, AfterAttach, ProbeInv, StageInv, TypeOK, NumProcs
<1>4. CASE OpenProbe
  BY <1>4 DEF OpenProbe, ProbeInv
<1>5. CASE Refuse \/ SpawnFails \/ PollExited \/ PollExpired \/ KillMeasured \/ Collect
  BY <1>5 DEF Refuse, SpawnFails, PollExited, PollExpired, KillMeasured, Collect, ProbeInv
<1>6. CASE \/ ProducerExited \/ ProducerOverdue \/ SampleDied \/ KillOthers \/ Judge \/ Drop
  BY <1>6 DEF ProducerExited, ProducerOverdue, SampleDied, KillOthers, Judge, Drop, ProbeInv
<1>7. CASE UNCHANGED vars \/ Finished \/ \E p \in Procs : ExitOk(p) \/ ExitFailed(p)
  BY <1>7 DEF vars, Finished, ExitOk, ExitFailed, ProbeInv
<1>8. QED
  BY <1>1, <1>2, <1>3, <1>4, <1>5, <1>6, <1>7 DEF Next, Orchestrator

LEMMA HeldStep ==
  ASSUME HeldInv, [Next]_vars
  PROVE  HeldInv'
BY DEF HeldInv, Next, vars, cgroup, Orchestrator, Finished, Refuse, Begin, Spawn, SpawnFails,
       Attach, AfterAttach, OpenProbe, PollExited, PollExpired, KillMeasured, Collect,
       ProducerExited, ProducerOverdue, SampleDied, KillOthers, Judge, Drop, ExitOk, ExitFailed

\* A process that was born stays born.
LEMMA BornStays ==
  ASSUME TypeOK, ProcInv, StageInv, [Next]_vars, NEW p \in Procs, proc[p] # "unborn"
  PROVE  proc'[p] # "unborn"
<1>1. CASE Dead(p)
  BY <1>1, DeadForEver DEF Dead
<1>2. CASE ~Dead(p)
  BY <1>2 DEF Dead, TypeOK, Next, vars, env, Orchestrator, Finished, Refuse, Begin, Spawn,
              SpawnFails, Attach, OpenProbe, PollExited, PollExpired, KillMeasured, Collect,
              ProducerExited, ProducerOverdue, SampleDied, KillOthers, Judge, Drop, ExitOk,
              ExitFailed
<1>3. QED
  BY <1>1, <1>2

\* Nobody reaps a process of an earlier execution.
LEMMA OrphanedStays ==
  ASSUME TypeOK, ProcInv, StageInv, Orphaned, [Next]_vars
  PROVE  Orphaned'
<1>1. PICK p \in Procs : /\ proc[p] # "unborn" /\ p \notin reaped
                         /\ pc # "idle" => p[1] < exec
  BY DEF Orphaned
<1>2. proc'[p] # "unborn"
  BY <1>1, BornStays
<1>3. exec \in Nat /\ p[1] \in Nat /\ (p[1] > exec => proc[p] = "unborn")
  BY MaxExecsAssumption DEF TypeOK, ProcInv, Procs, Execs
<1>4. CASE pc # "idle"
  <2>1. exec' = exec /\ reaped' \subseteq reaped \cup Mine
    BY <1>4, WaitsForItsOwn
  <2>2. p \notin Mine
    BY <1>1, <1>3, <1>4 DEF Mine
  <2>3. QED
    BY <1>1, <1>2, <1>4, <2>1, <2>2 DEF Orphaned
<1>5. CASE pc = "idle"
  <2>1. reaped' = reaped /\ (pc' = "idle" \/ exec' = exec + 1)
    BY <1>5
    DEF Next, vars, Orchestrator, Finished, Refuse, Begin, Spawn, SpawnFails, Attach,
        OpenProbe, PollExited, PollExpired, KillMeasured, Collect, ProducerExited,
        ProducerOverdue, SampleDied, KillOthers, Judge, Drop, ExitOk, ExitFailed
  <2>2. QED
    BY <1>1, <1>2, <1>3, <2>1 DEF Orphaned
<1>6. QED
  BY <1>4, <1>5

LEMMA LeafStep ==
  ASSUME TypeOK, ProcInv, StageInv, OutcomeInv, HeldInv, LeafInv, [Next]_vars
  PROVE  LeafInv'
<1> SUFFICES ASSUME ~Orphaned, ~Orphaned' PROVE LeafInv'
  BY OrphanedStays DEF LeafInv
<1>1. /\ leaf \subseteq held
      /\ \A r \in held : tenants[r] \subseteq Mine
      /\ outcome = "ok" => record.memory \subseteq Mine
  BY DEF LeafInv
<1>2. CASE Refuse
  BY <1>1, <1>2 DEF Refuse, LeafInv, cgroup, HeldInv
<1>3. CASE Begin
  <2>1. leaf = {} /\ outcome' = "none"
    BY <1>1, <1>3 DEF Begin, HeldInv
  <2>2. held' \subseteq Roles /\ leaf' = held' /\ tenants' = [r \in Roles |-> {}]
    BY <1>3, <2>1 DEF Begin
  <2>3. QED
    BY <2>1, <2>2 DEF LeafInv
<1>4. CASE Attach
  <2>1. exec \in Nat /\ spawned \in 1..NumProcs
    BY <1>4, MaxExecsAssumption, PeersAssumption DEF Attach, StageInv, TypeOK, NumProcs
  <2>2. <<exec, spawned>> \in Mine
    BY <2>1 DEF Mine
  <2>3. \A r \in held : tenants'[r] \subseteq tenants[r] \cup {<<exec, spawned>>}
    BY <1>4 DEF Attach, TypeOK
  <2>4. /\ Mine' = Mine
        /\ UNCHANGED <<leaf, held, outcome, record>>
    BY <1>4, SameCell DEF Attach
  <2>5. QED
    BY <1>1, <2>2, <2>3, <2>4 DEF LeafInv
<1>5. CASE Judge
  <2>1. outcome' = "ok" => record'.memory \subseteq Mine
    <3>1. outcome' = "ok" => record'.memory \in {Mine, UNION {tenants[r] : r \in held}}
      BY <1>5 DEF Judge
    <3>2. UNION {tenants[r] : r \in held} \subseteq Mine
      BY <1>1
    <3>3. QED
      BY <3>1, <3>2
  <2>2. Mine' = Mine /\ UNCHANGED cgroup
    BY <1>5, SameCell DEF Judge
  <2>3. QED
    BY <1>1, <2>1, <2>2 DEF LeafInv, cgroup
<1>6. CASE Drop
  <2>1. ASSUME NEW r \in held PROVE Tasks(r) = {}
    <3> SUFFICES ASSUME NEW p \in Tasks(r) PROVE FALSE
      OBVIOUS
    <3>1. p \in Procs /\ proc[p] = "alive"
      BY DEF Tasks, TypeOK, Alive
    <3>2. p \notin reaped
      BY <3>1 DEF ProcInv, Dead
    <3>3. proc' = proc /\ reaped' = reaped /\ pc' = "idle"
      BY <1>6 DEF Drop, env
    <3>4. QED
      BY <3>1, <3>2, <3>3 DEF Orphaned
  <2>2. leaf' = {} /\ held' = {}
    BY <1>1, <1>6, <2>1 DEF Drop
  <2>3. Mine' = Mine /\ outcome' = outcome /\ record' = record
    BY <1>6, SameCell DEF Drop
  <2>4. QED
    BY <1>1, <2>2, <2>3 DEF LeafInv
<1>7. CASE SpawnFails
  BY <1>1, <1>7, SameCell DEF SpawnFails, LeafInv, cgroup
<1>8. CASE ~(Refuse \/ Begin \/ Attach \/ Judge \/ Drop \/ SpawnFails)
  <2>1. UNCHANGED <<kind, exec, leaf, held, tenants, outcome, record>>
    BY <1>8
    DEF Next, vars, cgroup, Orchestrator, Finished, Spawn, OpenProbe, PollExited,
        PollExpired, KillMeasured, Collect, ProducerExited, ProducerOverdue, SampleDied,
        KillOthers, ExitOk, ExitFailed
  <2>2. Mine' = Mine
    BY <2>1, SameCell
  <2>3. QED
    BY <1>1, <2>1, <2>2 DEF LeafInv
<1>9. QED
  BY <1>2, <1>3, <1>4, <1>5, <1>6, <1>7, <1>8

-----------------------------------------------------------------------------
(* The invariant                                                           *)

LEMMA InitInv == Init => IInv
<1> SUFFICES ASSUME Init PROVE IInv
  OBVIOUS
<1>1. TypeOK
  BY TypeInit
<1>2. ProcInv /\ NoOrphans
  BY DEF Init, ProcInv, NoOrphans, Alive, Dead
<1>3. CpuInv /\ StageInv /\ FedInv /\ OutcomeInv
  BY DEF Init, CpuInv, StageInv, FedInv, OutcomeInv
<1>4. ProbeInv /\ HeldInv /\ LeafInv
  BY DEF Init, ProbeInv, HeldInv, LeafInv
<1>5. QED
  BY <1>1, <1>2, <1>3, <1>4 DEF IInv

LEMMA NextInv == IInv /\ [Next]_vars => IInv'
<1> SUFFICES ASSUME IInv, [Next]_vars PROVE IInv'
  OBVIOUS
<1> USE DEF IInv
<1>1. TypeOK'
  BY TypeStep
<1>2. ProcInv'
  BY <1>1, ProcStep
<1>3. CpuInv'
  BY <1>1, CpuStep
<1>4. StageInv'
  BY <1>1, StageStep
<1>5. NoOrphans'
  BY <1>1, <1>2, OrphanStep
<1>6. FedInv'
  BY <1>1, FedStep
<1>7. OutcomeInv'
  BY <1>1, OutcomeStep
<1>8. ProbeInv' /\ HeldInv' /\ LeafInv'
  BY ProbeStep, HeldStep, LeafStep
<1>9. QED
  BY <1>1, <1>2, <1>3, <1>4, <1>5, <1>6, <1>7, <1>8

\* The conjuncts of IInv hold of every execution, for any cell and with a
\* system that refuses spawns and attaches at will.
THEOREM Invariance == Spec => []IInv
<1>1. QED
  BY InitInv, NextInv, PTL DEF Spec

\* The variables of an execution stay within their types.
THEOREM TypeCorrect == Spec => []TypeOK
<1>1. IInv => TypeOK
  BY DEF IInv
<1>2. QED
  BY <1>1, Invariance, PTL

\* An accepted record's CPU time is the execution's own: no process of it is
\* missing and none of an earlier one, refused or failed, is counted.
THEOREM CpuBelongsToTheCell == Spec => []CpuIsThisCell
<1>1. IInv => CpuIsThisCell
  BY DEF IInv, OutcomeInv, CpuIsThisCell
<1>2. QED
  BY <1>1, Invariance, PTL

\* A window during which a peer failed is never accepted.
THEOREM AcceptedWindowsWereFed == Spec => []AcceptedWasFed
<1>1. IInv => AcceptedWasFed
  BY DEF IInv, OutcomeInv, AcceptedWasFed
<1>2. QED
  BY <1>1, Invariance, PTL

\* An accepted measured process ended well and reported.
THEOREM AcceptedMeasuredReported == Spec => []AcceptedReported
<1>1. IInv => AcceptedReported
  BY DEF IInv, OutcomeInv, AcceptedReported
<1>2. QED
  BY <1>1, Invariance, PTL

\* The signal that ends the peers is never taken for the death of one.
THEOREM PeersDieByThemselves == Spec => []DiedByItself
<1>1. IInv => DiedByItself
  BY DEF IInv, OutcomeInv, DiedByItself
<1>2. QED
  BY <1>1, Invariance, PTL

\* Unless one of its spawns was refused, no process outlives its execution.
THEOREM NothingOutlivesItsCell == Spec => []NoOrphans
<1>1. IInv => NoOrphans
  BY DEF IInv
<1>2. QED
  BY <1>1, Invariance, PTL

\* No message of a throughput cell flows before its probe is open.
THEOREM ProbedBeforeFlow == Spec => []ProbeBeforeFlow
<1>1. IInv => ProbeBeforeFlow
  <2> SUFFICES ASSUME IInv, kind = "throughput", spawned = NumProcs,
                      pc \in {"spawn", "attach", "poll", "expired", "collect"}
               PROVE  probed
    BY DEF ProbeBeforeFlow
  <2>1. spawned = 2
    BY DEF NumProcs, Windowed
  <2>2. QED
    BY <2>1 DEF IInv, ProbeInv
<1>2. QED
  BY <1>1, Invariance, PTL

\* Unless a refused spawn left a process behind, executions inherit no leaf and
\* records no memory peak.
THEOREM LeavesAreFresh == Spec => []FreshLeaves
<1>1. IInv => FreshLeaves
  <2> SUFFICES ASSUME IInv, pc = "idle",
                      \A p \in Procs : proc[p] # "unborn" => p \in reaped
               PROVE  /\ leaf = {}
                      /\ outcome = "ok" => record.memory \subseteq Mine
    BY DEF FreshLeaves
  <2>1. ~Orphaned
    BY DEF Orphaned
  <2>2. QED
    BY <2>1 DEF IInv, LeafInv, HeldInv
<1>2. QED
  BY <1>1, Invariance, PTL

-----------------------------------------------------------------------------
(* How much an execution can take                                          *)

\* What the allowance is at each stage.
StageCosts ==
  /\ NumProcs \in Nat /\ StartLeft \in Nat /\ StepsLeft \in Nat
  /\ pc = "idle" => StepsLeft = 0
  /\ pc = "drop" => StepsLeft = 1
  /\ pc = "judge" => StepsLeft = 2
  /\ pc \in {"kill", "overdue"} => StepsLeft = 3
  /\ pc \in {"sample", "await"} => StepsLeft = 4
  /\ pc = "collect" => StepsLeft = 5
  /\ pc = "expired" => StepsLeft = 6
  /\ pc = "poll" => StepsLeft = 7
  /\ pc \in {"probe", "spawn"} => StepsLeft = 8 + StartLeft
  /\ pc = "attach" => StepsLeft = 9 + StartLeft

LEMMA StageCostsHold == TypeOK => StageCosts
<1> SUFFICES ASSUME TypeOK PROVE StageCosts
  OBVIOUS
<1>1. NumProcs \in Nat /\ spawned \in 0..NumProcs /\ probed \in BOOLEAN
  BY PeersAssumption DEF NumProcs, TypeOK
<1>2. StartLeft \in Nat
  BY <1>1 DEF StartLeft
<1>3. pc \in {"idle", "spawn", "attach", "probe", "poll", "expired", "collect",
              "await", "overdue", "sample", "kill", "judge", "drop"}
  BY DEF TypeOK
<1>4. CASE pc \in {"probe", "spawn", "attach"}
  BY <1>1, <1>2, <1>4 DEF StageCosts, StepsLeft
<1>5. CASE pc \in {"idle", "drop", "judge", "kill", "overdue"}
  BY <1>1, <1>2, <1>5 DEF StageCosts, StepsLeft
<1>6. CASE pc \in {"sample", "await", "collect", "expired", "poll"}
  BY <1>1, <1>2, <1>6 DEF StageCosts, StepsLeft
<1> QED
  BY <1>3, <1>4, <1>5, <1>6

LEMMA ProbeOnceStep ==
  ASSUME ProbeOnce, [Next]_vars
  PROVE  ProbeOnce'
<1> USE DEF ProbeOnce
<1>1. CASE Attach
  BY <1>1 DEF Attach, AfterAttach
<1>2. CASE OpenProbe
  BY <1>2 DEF OpenProbe
<1>3. CASE UNCHANGED vars \/ Finished \/ Refuse
           \/ (\E p \in Procs : ExitOk(p) \/ ExitFailed(p))
  BY <1>3 DEF vars, Finished, Refuse, ExitOk, ExitFailed
<1>4. CASE Begin \/ Spawn \/ SpawnFails \/ PollExited \/ PollExpired \/ KillMeasured
           \/ Collect \/ ProducerExited \/ ProducerOverdue \/ SampleDied \/ KillOthers
           \/ Judge \/ Drop
  BY <1>4 DEF Begin, Spawn, SpawnFails, PollExited, PollExpired, KillMeasured, Collect,
     ProducerExited, ProducerOverdue, SampleDied, KillOthers, Judge, Drop
<1> QED
  BY <1>1, <1>2, <1>3, <1>4 DEF Next, Orchestrator

\* Each step of the orchestrator takes from the allowance.
LEMMA StepsDecrease ==
  ASSUME TypeOK, StageInv, ProbeOnce, StageCosts, StageCosts', Orchestrator
  PROVE  StepsLeft' < StepsLeft
<1>1. NumProcs' = NumProcs
  BY SameCell DEF Orchestrator, Spawn, SpawnFails, Attach, OpenProbe, PollExited,
     PollExpired, KillMeasured, Collect, ProducerExited, ProducerOverdue, SampleDied,
     KillOthers, Judge, Drop
<1>2. NumProcs \in Nat /\ spawned \in 0..NumProcs /\ probed \in BOOLEAN
  BY DEF TypeOK, StageCosts
<1>3. CASE Spawn
  <2>1. /\ pc = "spawn" /\ pc' = "attach" /\ spawned' = spawned + 1 /\ probed' = probed
    BY <1>3 DEF Spawn
  <2>2. StartLeft' = StartLeft - 2
    BY <1>1, <1>2, <2>1 DEF StartLeft
  <2> QED
    BY <2>1, <2>2 DEF StageCosts
<1>4. CASE Attach
  <2>1. /\ pc = "attach" /\ pc' \in {"poll", "probe", "spawn"}
        /\ spawned' = spawned /\ probed' = probed
    BY <1>4 DEF Attach, AfterAttach
  <2>2. StartLeft' = StartLeft
    BY <1>1, <2>1 DEF StartLeft
  <2> QED
    BY <2>1, <2>2 DEF StageCosts
<1>5. CASE OpenProbe
  <2>1. /\ pc = "probe" /\ pc' \in {"poll", "spawn"} /\ spawned' = spawned
        /\ ~probed /\ probed'
    BY <1>5 DEF OpenProbe, ProbeOnce
  <2>2. StartLeft' = StartLeft - 1
    BY <1>1, <1>2, <2>1 DEF StartLeft
  <2> QED
    BY <2>1, <2>2 DEF StageCosts
<1>6. CASE SpawnFails
  BY <1>6 DEF SpawnFails, StageCosts
<1>7. CASE PollExited \/ PollExpired
  <2>1. pc = "poll" /\ pc' \in {"collect", "expired"}
    BY <1>7 DEF PollExited, PollExpired
  <2> QED
    BY <2>1 DEF StageCosts
<1>9. CASE KillMeasured
  <2>1. pc = "expired" /\ pc' = "collect"
    BY <1>9 DEF KillMeasured
  <2> QED
    BY <2>1 DEF StageCosts
<1>10. CASE Collect
  <2>1. pc = "collect" /\ pc' \in {"await", "kill", "sample"}
    BY <1>10 DEF Collect
  <2> QED
    BY <2>1 DEF StageCosts
<1>8. CASE ProducerExited \/ ProducerOverdue
  <2>1. pc = "await" /\ pc' \in {"judge", "overdue"}
    BY <1>8 DEF ProducerExited, ProducerOverdue
  <2> QED
    BY <2>1 DEF StageCosts
<1>11. CASE SampleDied
  <2>1. pc = "sample" /\ pc' = "kill"
    BY <1>11 DEF SampleDied
  <2> QED
    BY <2>1 DEF StageCosts
<1>12. CASE KillOthers
  <2>1. pc \in {"kill", "overdue"} /\ pc' = "judge"
    BY <1>12 DEF KillOthers
  <2> QED
    BY <2>1 DEF StageCosts
<1>13. CASE Judge \/ Drop
  <2>1. (pc = "judge" /\ pc' = "drop") \/ (pc = "drop" /\ pc' = "idle")
    BY <1>13 DEF Judge, Drop
  <2> QED
    BY <2>1 DEF StageCosts
<1> QED
  BY <1>3, <1>4, <1>5, <1>6, <1>7, <1>8, <1>9, <1>10, <1>11,
     <1>12, <1>13 DEF Orchestrator

\* The work of an execution is bounded by the number of its processes, and
\* whatever these do, none of it is added on the way.
THEOREM BoundedWork == Spec => [](StepsLeft \in Nat) /\ WorkIsBounded
<1>1. Spec => [](IInv /\ ProbeOnce /\ StageCosts)
  <2>1. Init => ProbeOnce
    BY DEF Init, ProbeOnce
  <2>2. ProbeOnce /\ [Next]_vars => ProbeOnce'
    BY ProbeOnceStep
  <2>3. IInv => StageCosts
    BY StageCostsHold DEF IInv
  <2> QED
    BY <2>1, <2>2, <2>3, Invariance, PTL DEF Spec
<1>2. StageCosts => StepsLeft \in Nat
  BY DEF StageCosts
<1> DEFINE Paid == /\ Orchestrator => StepsLeft' < StepsLeft
                   /\ pc # "idle" => StepsLeft' <= StepsLeft
                   /\ pc = "idle" => StepsLeft' <= 9 + 2 * NumProcs
<1>3. ASSUME IInv, ProbeOnce, StageCosts, StageCosts', [Next]_vars
      PROVE  [Paid]_vars
  <2>1. TypeOK /\ StageInv
    BY <1>3 DEF IInv
  <2>2. StepsLeft \in Nat /\ StepsLeft' \in Nat /\ NumProcs \in Nat
    BY <1>3 DEF StageCosts
  <2>3. Orchestrator => pc # "idle"
    BY DEF Orchestrator, Spawn, SpawnFails, Attach, OpenProbe, PollExited, PollExpired,
       KillMeasured, Collect, ProducerExited, ProducerOverdue, SampleDied, KillOthers,
       Judge, Drop
  <2>4. CASE Orchestrator
    BY <1>3, <2>1, <2>2, <2>3, <2>4, StepsDecrease
  <2>5. CASE Refuse
    <3>1. pc = "idle" /\ pc' = "idle"
      BY <2>5 DEF Refuse
    <3> QED
      BY <1>3, <2>2, <2>3, <3>1 DEF StageCosts
  <2>6. CASE Begin
    <3>1. /\ pc = "idle" /\ pc' = "spawn" /\ spawned' = 0 /\ probed' = FALSE
          /\ kind' = kind
      BY <2>6 DEF Begin
    <3>2. NumProcs' = NumProcs
      BY <3>1 DEF NumProcs
    <3>3. StartLeft' = 2 * NumProcs + 1
      BY <2>2, <3>1, <3>2 DEF StartLeft
    <3> QED
      BY <1>3, <2>2, <2>3, <3>1, <3>3 DEF StageCosts
  <2>7. ASSUME NEW p \in Procs, ExitOk(p) \/ ExitFailed(p), ~Orchestrator
        PROVE  Paid
    <3>1. UNCHANGED <<pc, kind, spawned, probed>>
      BY <2>7 DEF ExitOk, ExitFailed
    <3>2. StepsLeft' = StepsLeft
      BY <3>1 DEF StepsLeft, StartLeft, NumProcs
    <3>3. pc = "idle" => StepsLeft = 0
      BY <1>3 DEF StageCosts
    <3> QED
      BY <2>2, <2>7, <3>2, <3>3
  <2> QED
    BY <1>3, <2>4, <2>5, <2>6, <2>7 DEF Next, Finished
<1> QED
  BY <1>1, <1>2, <1>3, PTL DEF Spec, WorkIsBounded

=============================================================================
