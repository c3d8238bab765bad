------------------------- MODULE RunResourcesProofs -------------------------
(***************************************************************************)
(* Proofs about RunResources for every set of runs, ids, ports and bound:  *)
(* the inductive invariant IInv, from which the safety properties of the   *)
(* shared resources follow.                                                *)
(***************************************************************************)
EXTENDS RunResources, TLAPS, FiniteSetTheorems

LEMMA Constants ==
  /\ IsFiniteSet(Runs) /\ Nobody \notin Runs /\ Nobody \notin Executions
  /\ Safe \in [Ids -> Names]
  /\ MaxCells \in Nat
BY RunsAssumption, SafeAssumption, MaxCellsAssumption

\* The steps of one run that change neither names nor targets.
Quiet(r) ==
  \/ Start(r) \/ Kill(r)
  \/ LookProc(r) \/ MountProc(r) \/ PassGates(r) \/ EndRun(r) \/ DropMounts(r)

Naming(r) ==
  DelLeftover(r) \/ AddNs(r) \/ AddRefused(r) \/ LoUp(r) \/ LoUpFails(r) \/ UndoNs(r)

Cell(r) ==
  MakeEndpoint(r) \/ (\E p \in Peers : Spawn(r, p)) \/ SpawnRefused(r) \/ EndCell(r)

LEMMA NextCases ==
  ASSUME [Next]_vars
  PROVE  \/ UNCHANGED vars
         \/ \E r \in Runs : Quiet(r) \/ Naming(r) \/ Cell(r)
         \/ \E e \in Executions : Target(e)
BY DEF Next, Orchestrator, Finished, Quiet, Naming, Cell

\* Targets take no part in what the orchestrators do.
LEMMA TargetStep ==
  ASSUME NEW e \in Executions, Target(e)
  PROVE  UNCHANGED <<phase, id, plan, mount, spaces, cells, port, left, met>>
BY DEF Target, Bind, Connect, Exit

\* An execution is a run and a number.
LEMMA Pairs ==
  /\ \A e \in Executions : e[1] \in Runs /\ e[2] \in 1..MaxCells /\ e = <<e[1], e[2]>>
  /\ \A r \in Runs, k \in 1..MaxCells :
       <<r, k>> \in Executions /\ <<r, k>>[1] = r /\ <<r, k>>[2] = k
  /\ Nobody \notin Executions
BY Constants DEF Executions

-----------------------------------------------------------------------------
(* Type correctness and the mounts                                         *)

\* The mounts are those of the operator and of the runs.
LEMMA InitType == Init => TypeOK
BY Constants DEF Init, TypeOK, Executions, Procs, Peers, Outside, Measuring, Creating

LEMMA InitMounts == Init => MountsBalance
BY FS_EmptySet DEF Init, MountsBalance

LEMMA MountsNext ==
  ASSUME TypeOK, MountsBalance, StageInv, [Next]_vars
  PROVE  /\ mounts' \in Nat /\ mine' \subseteq Runs /\ MountsBalance'
         /\ mine # {} => mounts > 0
<1>1. IsFiniteSet(mine) /\ Cardinality(mine) \in Nat
  BY Constants, FS_Subset, FS_CardinalityType DEF TypeOK
<1>2. \A r \in mine : Cardinality(mine \ {r}) = Cardinality(mine) - 1
  BY <1>1, FS_RemoveElement
<1>3. \A r \in Runs : r \notin mine => Cardinality(mine \cup {r}) = Cardinality(mine) + 1
  BY <1>1, FS_AddElement
<1>4. mine # {} => Cardinality(mine) > 0
  BY <1>1, FS_EmptySet
<1>5. mine # {} => mounts > 0
  BY <1>1, <1>4 DEF MountsBalance, TypeOK
<1>6. CASE UNCHANGED <<mounts, given, mine>>
  BY <1>5, <1>6 DEF TypeOK, MountsBalance
<1>7. ASSUME NEW r \in Runs, MountProc(r), ~UNCHANGED <<mounts, mine, seen>>
      PROVE  mounts' \in Nat /\ mine' \subseteq Runs /\ MountsBalance'
  <2>1. r \notin mine
    BY <1>7 DEF MountProc, StageInv
  <2>2. mounts' = mounts + 1 /\ mine' = mine \cup {r} /\ given' = given
    BY <1>7 DEF MountProc
  <2>3. QED
    BY <1>1, <1>3, <2>1, <2>2 DEF TypeOK, MountsBalance
<1>8. ASSUME NEW r \in Runs, DropMounts(r), ~UNCHANGED <<mounts, mine>>
      PROVE  mounts' \in Nat /\ mine' \subseteq Runs /\ MountsBalance'
  <2>1. r \in mine /\ mounts' = mounts - 1 /\ mine' = mine \ {r} /\ given' = given
    BY <1>8 DEF DropMounts
  <2>2. QED
    BY <1>1, <1>2, <1>5, <2>1 DEF TypeOK, MountsBalance
<1>9. \/ UNCHANGED <<mounts, given, mine>>
      \/ \E r \in Runs : MountProc(r) /\ ~UNCHANGED <<mounts, mine, seen>>
      \/ \E r \in Runs : DropMounts(r) /\ ~UNCHANGED <<mounts, mine>>
  <2>1. CASE UNCHANGED vars
    BY <2>1 DEF vars, mount
  <2>2. ASSUME NEW r \in Runs, Quiet(r)
        PROVE  \/ UNCHANGED <<mounts, given, mine>>
               \/ MountProc(r) /\ ~UNCHANGED <<mounts, mine, seen>>
               \/ DropMounts(r) /\ ~UNCHANGED <<mounts, mine>>
    BY <2>2 DEF Quiet, Start, Kill, LookProc, MountProc, PassGates, EndRun, DropMounts, mount
  <2>3. ASSUME NEW r \in Runs, Naming(r)
        PROVE  UNCHANGED <<mounts, given, mine>>
    BY <2>3 DEF Naming, DelLeftover, AddNs, AddRefused, LoUp, LoUpFails, UndoNs, mount
  <2>4. ASSUME NEW r \in Runs, Cell(r)
        PROVE  UNCHANGED <<mounts, given, mine>>
    BY <2>4 DEF Cell, MakeEndpoint, Spawn, SpawnRefused, EndCell, mount
  <2>5. ASSUME NEW e \in Executions, Target(e)
        PROVE  UNCHANGED <<mounts, given, mine>>
    BY <2>5, TargetStep DEF mount
  <2>6. QED
    BY <2>1, <2>2, <2>3, <2>4, <2>5, NextCases
<1>10. QED
  BY <1>5, <1>6, <1>7, <1>8, <1>9

\* A spawned process runs in the object behind the run's name, or on the host,
\* or ends at once.
LEMMA SpawnCases ==
  ASSUME TypeOK, NEW r \in Runs, NEW p \in Peers, Spawn(r, p)
  PROVE  \/ alive' = alive /\ net' = net
         \/ \E o \in Runs \cup {Host} :
              /\ alive' = alive \cup {<<This(r), p>>}
              /\ net' = [net EXCEPT ![<<This(r), p>>] = o]
              /\ plan[r] = "tcp" /\ ns[r] = "some" => o = named[Name(r)] /\ o # Host
              /\ ~(plan[r] = "tcp" /\ ns[r] = "some") => o = Host
<1>1. Name(r) \in Names
  BY Constants DEF Name, TypeOK
<1>2. named[Name(r)] \in Runs \cup {Nobody}
  BY <1>1 DEF TypeOK
<1>3. QED
  BY <1>2 DEF Spawn, Host

\* Every step keeps the types.
LEMMA NextType ==
  ASSUME TypeOK, MountsBalance, StageInv, BegunInv, NameInv, [Next]_vars
  PROVE  TypeOK'
<1> USE Constants DEF Procs, Peers, Outside, Measuring, Creating, Goto
<1>1. mounts' \in Nat /\ mine' \subseteq Runs
  BY MountsNext
<1>2. CASE UNCHANGED vars
  BY <1>2 DEF vars, mount, spaces, procs, TypeOK
<1>3. ASSUME NEW r \in Runs, Quiet(r)
      PROVE  TypeOK'
  <2>1. met' \subseteq Runs \X Runs
    BY <1>3 DEF Quiet, Start, Kill, LookProc, MountProc, PassGates, EndRun, DropMounts, TypeOK
  <2>2. phase' \in [Runs -> Creating \cup Measuring \cup Outside
                          \cup {"look", "mount", "gates", "drop"}]
    BY <1>3, SMTT(40)
    DEF Quiet, Start, Kill, LookProc, MountProc, PassGates, EndRun, DropMounts, TypeOK
  <2>3. seen' \subseteq Runs /\ given' = given
    BY <1>3 DEF Quiet, Start, Kill, LookProc, MountProc, PassGates, EndRun, DropMounts,
       TypeOK, mount
  <2>4. UNCHANGED <<id, plan, spaces, cells, procs>>
    BY <1>3 DEF Quiet, Start, Kill, LookProc, MountProc, PassGates, EndRun, DropMounts
  <2>5. QED
    BY <1>1, <2>1, <2>2, <2>3, <2>4 DEF TypeOK, spaces, procs
<1>4. ASSUME NEW r \in Runs, Naming(r)
      PROVE  TypeOK'
  <2>1. phase' \in [Runs -> Creating \cup Measuring \cup Outside
                          \cup {"look", "mount", "gates", "drop"}]
    BY <1>4, SMTT(40)
    DEF Naming, DelLeftover, AddNs, AddRefused, LoUp, LoUpFails, UndoNs, TypeOK
  <2>2. named' \in [Names -> Runs \cup {Nobody}]
    BY <1>4, SMTT(40)
    DEF Naming, DelLeftover, AddNs, AddRefused, LoUp, LoUpFails, UndoNs, TypeOK
  <2>3. ns' \in [Runs -> {"none", "some", "refused", "collided"}]
    BY <1>4 DEF Naming, DelLeftover, AddNs, AddRefused, LoUp, LoUpFails, UndoNs, TypeOK
  <2>4. Name(r) \in Names
    BY DEF Name, TypeOK
  <2>5. up' \subseteq Runs
    BY <1>4, <2>4 DEF Naming, DelLeftover, AddNs, AddRefused, LoUp, LoUpFails, UndoNs, TypeOK
  <2>6. UNCHANGED <<id, plan, mount, cells, procs, met>>
    BY <1>4 DEF Naming, DelLeftover, AddNs, AddRefused, LoUp, LoUpFails, UndoNs
  <2>7. QED
    BY <2>1, <2>2, <2>3, <2>5, <2>6 DEF TypeOK, mount, procs
<1>5. ASSUME NEW r \in Runs, Cell(r)
      PROVE  TypeOK'
  <2>0. cells[r] \in 0..MaxCells /\ (cells[r] > 0 => This(r) \in Executions)
    BY DEF TypeOK, This, Executions
  <2>1. CASE MakeEndpoint(r)
    <3>1. cells' \in [Runs -> 0..MaxCells]
      BY <2>0, <2>1 DEF MakeEndpoint, TypeOK
    <3>2. port' \in [Executions -> Ports \cup {Nobody}]
      BY <2>0, <2>1 DEF MakeEndpoint, TypeOK
    <3>3. bound' \subseteq bound
      BY <2>1 DEF MakeEndpoint
    <3>4. phase' \in [Runs -> Creating \cup Measuring \cup Outside
                            \cup {"look", "mount", "gates", "drop"}]
      BY <2>1 DEF MakeEndpoint, TypeOK
    <3>5. UNCHANGED <<id, plan, mount, spaces, alive, net, unbound, peer, left, met>>
      BY <2>1 DEF MakeEndpoint
    <3>6. QED
      BY <3>1, <3>2, <3>3, <3>4, <3>5 DEF TypeOK, mount, spaces
  <2>2. ASSUME NEW p \in Peers, Spawn(r, p)
        PROVE  TypeOK'
    <3>1. <<This(r), p>> \in Procs
      <4>1. cells[r] > 0
        BY <2>2 DEF Spawn, BegunInv
      <4>2. QED
        BY <2>0, <4>1
    <3>2. net \in [Procs -> Runs \cup {Host}] /\ alive \subseteq Procs
      BY DEF TypeOK
    <3> HIDE DEF Procs
    <3>3. net' \in [Procs -> Runs \cup {Host}] /\ alive' \subseteq Procs
      <4>1. CASE alive' = alive /\ net' = net
        BY <3>2, <4>1
      <4>2. ASSUME NEW o \in Runs \cup {Host}, alive' = alive \cup {<<This(r), p>>},
                   net' = [net EXCEPT ![<<This(r), p>>] = o]
            PROVE  net' \in [Procs -> Runs \cup {Host}] /\ alive' \subseteq Procs
        BY <3>1, <3>2, <4>2
      <4>3. QED
        BY <2>2, <4>1, <4>2, SpawnCases
    <3>4. phase' \in [Runs -> Creating \cup Measuring \cup Outside
                            \cup {"look", "mount", "gates", "drop"}]
      BY <2>2 DEF Spawn, TypeOK
    <3>5. UNCHANGED <<id, plan, mount, spaces, cells, port, bound, unbound, peer, left, met>>
      BY <2>2 DEF Spawn
    <3>6. QED
      BY <3>3, <3>4, <3>5 DEF TypeOK, mount, spaces
  <2>3. CASE EndCell(r)
    <3>1. net' \in [Procs -> Runs \cup {Host}]
      BY <2>3 DEF EndCell, TypeOK
    <3>2. port' \in [Executions -> Ports \cup {Nobody}]
          /\ peer' \in [Executions -> Executions \cup {Nobody}]
      BY <2>3 DEF EndCell, TypeOK
    <3>3. alive' \subseteq alive /\ bound' \subseteq bound
      BY <2>3 DEF EndCell
    <3>4. phase' \in [Runs -> Creating \cup Measuring \cup Outside
                            \cup {"look", "mount", "gates", "drop"}]
      BY <2>3 DEF EndCell, TypeOK
    <3>5. UNCHANGED <<id, plan, mount, spaces, cells, unbound, left, met>>
      BY <2>3 DEF EndCell
    <3>6. QED
      BY <3>1, <3>2, <3>3, <3>4, <3>5 DEF TypeOK, mount, spaces
  <2>4. CASE SpawnRefused(r)
    <3>1. left' \subseteq Executions
      <4>1. \A e : <<e, "consumer">> \in alive => e \in Executions
        BY DEF TypeOK
      <4>2. QED
        BY <2>4, <4>1 DEF SpawnRefused, TypeOK
    <3>2. QED
      BY <2>4, <3>1 DEF SpawnRefused, TypeOK, mount, spaces
  <2>5. QED
    BY <1>5, <2>1, <2>2, <2>3, <2>4 DEF Cell
<1>6. ASSUME NEW e \in Executions, Target(e)
      PROVE  TypeOK'
  <2>1. /\ alive' \subseteq alive /\ bound' \subseteq Executions /\ unbound' \subseteq Executions
        /\ peer' \in [Executions -> Executions \cup {Nobody}]
    <3>1. CASE Bind(e)
      BY <3>1 DEF Bind, Gone, TypeOK
    <3>2. CASE Connect(e)
      <4>1. Listening(e, "producer") \subseteq Executions
        BY DEF Listening, AtPath, AtPort, TypeOK
      <4>2. QED
        BY <3>2, <4>1 DEF Connect, TypeOK
    <3>3. ASSUME NEW p \in Peers, Exit(e, p) PROVE <2>1
      BY <3>3 DEF Exit, Gone, TypeOK
    <3>4. QED
      BY <1>6, <3>1, <3>2, <3>3 DEF Target
  <2>2. net' \in [Procs -> Runs \cup {Host}]
    BY <1>6 DEF Target, Bind, Connect, Exit, Gone, TypeOK
  <2>3. UNCHANGED <<phase, id, plan, mount, spaces, cells, port, left, met>>
    BY <1>6, TargetStep
  <2>4. QED
    BY <2>1, <2>2, <2>3 DEF TypeOK, mount, spaces
<1>7. QED
  BY <1>2, <1>3, <1>4, <1>5, <1>6, NextCases

-----------------------------------------------------------------------------
(* Who met whom, and what a run has by its stage                           *)

\* met only grows, and ids stay, so a rival stays one.
LEMMA MetGrows ==
  ASSUME [Next]_vars
  PROVE  /\ met \subseteq met' /\ id' = id /\ plan' = plan
         /\ \A r \in Runs : Name(r)' = Name(r)
         /\ \A r \in Runs : Rival(r) => Rival(r)'
<1>1. met \subseteq met' /\ id' = id /\ plan' = plan
  <2>1. CASE UNCHANGED vars
    BY <2>1 DEF vars
  <2>2. ASSUME NEW r \in Runs, Quiet(r) PROVE <1>1
    BY <2>2 DEF Quiet, Start, Kill, LookProc, MountProc, PassGates, EndRun, DropMounts
  <2>3. ASSUME NEW r \in Runs, Naming(r) PROVE <1>1
    BY <2>3 DEF Naming, DelLeftover, AddNs, AddRefused, LoUp, LoUpFails, UndoNs
  <2>4. ASSUME NEW r \in Runs, Cell(r) PROVE <1>1
    BY <2>4 DEF Cell, MakeEndpoint, Spawn, SpawnRefused, EndCell
  <2>5. ASSUME NEW e \in Executions, Target(e) PROVE <1>1
    BY <2>5, TargetStep
  <2>6. QED
    BY <2>1, <2>2, <2>3, <2>4, <2>5, NextCases
<1>2. QED
  BY <1>1 DEF Name, Rival

\* Only Start makes a run live.
LEMMA LiveStep ==
  ASSUME TypeOK, [Next]_vars
  PROVE  /\ \A r \in Runs : Live(r)' => Live(r) \/ Start(r)
         /\ \A r \in Runs : phase[r] \in {"killed", "over"} => phase'[r] = phase[r]
<1> USE DEF Live, Outside, Goto
<1>1. CASE UNCHANGED vars
  BY <1>1 DEF vars
<1>2. ASSUME NEW q \in Runs, Quiet(q)
      PROVE  /\ \A r \in Runs : Live(r)' => Live(r) \/ Start(r)
             /\ \A r \in Runs : phase[r] \in {"killed", "over"} => phase'[r] = phase[r]
  BY <1>2 DEF Quiet, Start, Kill, LookProc, MountProc, PassGates, EndRun, DropMounts, TypeOK
<1>3. ASSUME NEW q \in Runs, Naming(q)
      PROVE  /\ \A r \in Runs : Live(r)' => Live(r)
             /\ \A r \in Runs : phase[r] \in {"killed", "over"} => phase'[r] = phase[r]
  BY <1>3 DEF Naming, DelLeftover, AddNs, AddRefused, LoUp, LoUpFails, UndoNs, TypeOK
<1>4. ASSUME NEW q \in Runs, Cell(q)
      PROVE  /\ \A r \in Runs : Live(r)' => Live(r)
             /\ \A r \in Runs : phase[r] \in {"killed", "over"} => phase'[r] = phase[r]
  BY <1>4 DEF Cell, MakeEndpoint, Spawn, SpawnRefused, EndCell, TypeOK, Peers
<1>5. ASSUME NEW e \in Executions, Target(e)
      PROVE  phase' = phase
  BY <1>5, TargetStep
<1>6. QED
  BY <1>1, <1>2, <1>3, <1>4, <1>5, NextCases

LEMMA MetNext ==
  ASSUME TypeOK, MetInv, [Next]_vars
  PROVE  MetInv'
<1>1. CASE UNCHANGED met /\ \A r \in Runs : ~Start(r)
  BY <1>1, LiveStep DEF MetInv
<1>2. CASE \E r \in Runs : Start(r)
  <2>1. PICK r \in Runs : Start(r)
    BY <1>2
  <2>2. \A s \in Runs : s # r => Live(s)' = Live(s)
    BY <2>1 DEF Start, Goto, Live, TypeOK
  <2>3. \A s, t \in Runs : <<s, t>> \in met' <=>
          <<s, t>> \in met \/ (s = r /\ Live(t)) \/ (t = r /\ Live(s))
    BY <2>1 DEF Start
  <2>4. QED
    BY <2>2, <2>3 DEF MetInv
<1>3. UNCHANGED met \/ \E r \in Runs : Start(r)
  <2>1. ASSUME NEW r \in Runs, Quiet(r) PROVE UNCHANGED met \/ Start(r)
    BY <2>1 DEF Quiet, Kill, LookProc, MountProc, PassGates, EndRun, DropMounts
  <2>2. ASSUME NEW r \in Runs, Naming(r) PROVE UNCHANGED met
    BY <2>2 DEF Naming, DelLeftover, AddNs, AddRefused, LoUp, LoUpFails, UndoNs
  <2>3. ASSUME NEW r \in Runs, Cell(r) PROVE UNCHANGED met
    BY <2>3 DEF Cell, MakeEndpoint, Spawn, SpawnRefused, EndCell
  <2>4. QED
    BY <2>1, <2>2, <2>3, TargetStep, NextCases DEF vars
<1>4. QED
  BY <1>1, <1>2, <1>3

LEMMA PairIn ==
  ASSUME NEW S, NEW r, NEW x, NEW q, NEW p
  PROVE  /\ <<r, x>> \in S \cup {<<q, p>>} <=> <<r, x>> \in S \/ (r = q /\ x = p)
         /\ <<r, x>> \in S \ {<<q, p>>} <=> <<r, x>> \in S /\ ~(r = q /\ x = p)
OBVIOUS

LEMMA StageNext ==
  ASSUME TypeOK, StageInv, [Next]_vars
  PROVE  StageInv'
<1> USE DEF StageInv, Goto, Creating
<1>1. CASE UNCHANGED vars
  BY <1>1 DEF vars, mount, spaces
<1>2. ASSUME NEW q \in Runs, Quiet(q)
      PROVE  StageInv'
  <2>1. UNCHANGED <<ns, cells>>
    BY <1>2 DEF Quiet, Start, Kill, LookProc, MountProc, PassGates, EndRun, DropMounts, spaces
  <2>2. \A r \in Runs : r # q => phase'[r] = phase[r]
    BY <1>2 DEF Quiet, Start, Kill, LookProc, MountProc, PassGates, EndRun, DropMounts, TypeOK
  <2>3. \A r \in Runs : r # q => (r \in mine' => r \in mine) /\ (r \in seen' => r \in seen)
    BY <1>2 DEF Quiet, Start, Kill, LookProc, MountProc, PassGates, EndRun, DropMounts, mount
  <2>4. /\ phase'[q] \in {"new", "look", "mount"} => q \notin mine' /\ q \notin seen'
        /\ phase'[q] \in {"new", "look", "mount", "gates", "del", "add", "up"} => ns[q] = "none"
        /\ phase'[q] # "undo"
    BY <1>2, ZenonT(30) DEF Quiet, Start, Kill, LookProc, MountProc, PassGates, EndRun,
       DropMounts, mount, TypeOK
  <2>5. phase'[q] \in {"new", "look", "mount", "gates"} \cup Creating => cells[q] = 0
    BY <1>2 DEF Quiet, Start, Kill, LookProc, MountProc, PassGates, EndRun, DropMounts, TypeOK
  <2>6. QED
    BY <2>1, <2>2, <2>3, <2>4, <2>5
<1>3. ASSUME NEW q \in Runs, Naming(q)
      PROVE  StageInv'
  <2>1. UNCHANGED <<mine, seen, cells>>
    BY <1>3 DEF Naming, DelLeftover, AddNs, AddRefused, LoUp, LoUpFails, UndoNs, mount
  <2>2. \A r \in Runs : r # q => phase'[r] = phase[r] /\ ns'[r] = ns[r]
    BY <1>3 DEF Naming, DelLeftover, AddNs, AddRefused, LoUp, LoUpFails, UndoNs, TypeOK
  <2>3. /\ phase[q] \in {"del", "add", "up", "undo"}
        /\ phase'[q] \in {"add", "up", "undo", "cells"}
        /\ phase'[q] \in {"add", "up"} => ns'[q] = ns[q] /\ phase[q] \in {"del", "add"}
        /\ phase'[q] = "undo" => ns'[q] \in {"refused", "collided"}
    BY <1>3 DEF Naming, DelLeftover, AddNs, AddRefused, LoUp, LoUpFails, UndoNs, TypeOK
  <2>4. QED
    BY <2>1, <2>2, <2>3
<1>4. ASSUME NEW q \in Runs, Cell(q)
      PROVE  StageInv'
  <2>1. UNCHANGED <<mine, seen, ns>>
    BY <1>4 DEF Cell, MakeEndpoint, Spawn, SpawnRefused, EndCell, mount, spaces
  <2>2. /\ phase'[q] \in {"consumer", "producer", "running", "cells"}
        /\ \A r \in Runs : r # q => phase'[r] = phase[r] /\ cells'[r] = cells[r]
    BY <1>4 DEF Cell, MakeEndpoint, Spawn, SpawnRefused, EndCell, TypeOK
  <2>3. QED
    BY <2>1, <2>2
<1>5. ASSUME NEW e \in Executions, Target(e)
      PROVE  StageInv'
  BY <1>5, TargetStep DEF mount, spaces
<1>6. QED
  BY <1>1, <1>2, <1>3, <1>4, <1>5, NextCases

-----------------------------------------------------------------------------
(* The targets of an execution                                             *)

\* A run that spawns has an execution under way.
LEMMA BegunNext ==
  ASSUME TypeOK, BegunInv, [Next]_vars
  PROVE  BegunInv'
<1> USE DEF BegunInv, Goto
<1>1. CASE UNCHANGED vars
  BY <1>1 DEF vars
<1>2. ASSUME NEW q \in Runs, Quiet(q)
      PROVE  BegunInv'
  BY <1>2 DEF Quiet, Start, Kill, LookProc, MountProc, PassGates, EndRun, DropMounts, TypeOK
<1>3. ASSUME NEW q \in Runs, Naming(q)
      PROVE  BegunInv'
  BY <1>3 DEF Naming, DelLeftover, AddNs, AddRefused, LoUp, LoUpFails, UndoNs, TypeOK
<1>4. ASSUME NEW q \in Runs, Cell(q)
      PROVE  BegunInv'
  BY <1>4, Constants DEF Cell, MakeEndpoint, Spawn, SpawnRefused, EndCell, TypeOK, Peers
<1>5. ASSUME NEW e \in Executions, Target(e)
      PROVE  BegunInv'
  BY <1>5, TargetStep
<1>6. QED
  BY <1>1, <1>2, <1>3, <1>4, <1>5, NextCases

LEMMA TargetNext ==
  ASSUME TypeOK, StageInv, BegunInv, TargetInv, [Next]_vars
  PROVE  TargetInv'
<1>1. SUFFICES ASSUME NEW e \in Executions PROVE TargetOf(e)'
  BY DEF TargetInv
<1>2. TargetOf(e)
  BY DEF TargetInv
<1> DEFINE r == e[1]
           k == e[2]
<1>3. r \in Runs /\ k \in 1..MaxCells /\ e = <<r, k>> /\ (e = This(r) <=> k = cells[r])
  BY Pairs DEF This
<1>4. cells[r] \in 0..MaxCells /\ MaxCells \in Nat
  BY <1>3, Constants DEF TypeOK
<1>5. /\ \A p \in Peers : <<e, p>> \in alive =>
           \/ k = cells[r] /\ phase[r] \in {"running", "killed"}
           \/ k = cells[r] /\ phase[r] = "producer" /\ p = "consumer"
           \/ e \in left /\ p = "consumer"
      /\ e \in bound => <<e, "consumer">> \in alive
      /\ peer[e] # Nobody => <<e, "producer">> \in alive
      /\ k > cells[r] => e \notin left /\ e \notin unbound /\ \A f \in Executions : peer[f] # e
  BY <1>2, <1>3 DEF TargetOf
<1>6. SUFFICES
      /\ \A p \in Peers : <<e, p>> \in alive' =>
           \/ k = cells'[r] /\ phase'[r] \in {"running", "killed"}
           \/ k = cells'[r] /\ phase'[r] = "producer" /\ p = "consumer"
           \/ e \in left' /\ p = "consumer"
      /\ e \in bound' => <<e, "consumer">> \in alive'
      /\ peer'[e] # Nobody => <<e, "producer">> \in alive'
      /\ k > cells'[r] => e \notin left' /\ e \notin unbound' /\ \A f \in Executions : peer'[f] # e
  BY <1>3 DEF TargetOf, This
<1> HIDE DEF r, k
<1> DEFINE Goal ==
      /\ \A p \in Peers : <<e, p>> \in alive' =>
           \/ k = cells'[r] /\ phase'[r] \in {"running", "killed"}
           \/ k = cells'[r] /\ phase'[r] = "producer" /\ p = "consumer"
           \/ e \in left' /\ p = "consumer"
      /\ e \in bound' => <<e, "consumer">> \in alive'
      /\ peer'[e] # Nobody => <<e, "producer">> \in alive'
      /\ k > cells'[r] => e \notin left' /\ e \notin unbound' /\ \A f \in Executions : peer'[f] # e
<1>7. CASE UNCHANGED vars
  BY <1>5, <1>7 DEF vars, procs
<1>8. ASSUME NEW q \in Runs, Quiet(q)
      PROVE  Goal
  <2>1. UNCHANGED <<cells, alive, bound, unbound, peer, left>>
    BY <1>8 DEF Quiet, Start, Kill, LookProc, MountProc, PassGates, EndRun, DropMounts, procs
  <2>2. /\ phase[r] \in {"running", "killed"} => phase'[r] \in {"running", "killed"}
        /\ phase[r] = "producer" => phase'[r] \in {"producer", "killed"}
    BY <1>3, <1>8 DEF Quiet, Start, Kill, LookProc, MountProc, PassGates, EndRun, DropMounts,
       Goto, TypeOK
  <2>3. QED
    BY <1>5, <2>1, <2>2
<1>9. ASSUME NEW q \in Runs, Naming(q)
      PROVE  Goal
  <2>1. UNCHANGED <<cells, alive, bound, unbound, peer, left>>
    BY <1>9 DEF Naming, DelLeftover, AddNs, AddRefused, LoUp, LoUpFails, UndoNs, procs
  <2>2. phase[r] \in {"producer", "running", "killed"} => phase'[r] = phase[r]
    BY <1>3, <1>9 DEF Naming, DelLeftover, AddNs, AddRefused, LoUp, LoUpFails, UndoNs,
       Goto, TypeOK
  <2>3. QED
    BY <1>5, <2>1, <2>2
<1>10. ASSUME NEW q \in Runs, MakeEndpoint(q)
      PROVE  Goal
  <2>1. bound' \subseteq bound /\ UNCHANGED <<alive, unbound, peer, left>>
    BY <1>10 DEF MakeEndpoint
  <2>2. r # q => cells'[r] = cells[r] /\ phase'[r] = phase[r]
    BY <1>3, <1>10 DEF MakeEndpoint, Goto, TypeOK
  <2>3. r = q => cells'[r] = cells[r] + 1 /\ phase[r] = "cells"
    BY <1>3, <1>10 DEF MakeEndpoint, TypeOK
  <2>4. QED
    BY <1>3, <1>4, <1>5, <2>1, <2>2, <2>3
<1>11. ASSUME NEW q \in Runs, NEW x \in Peers, Spawn(q, x)
      PROVE  Goal
  <2>1. /\ phase[q] = x /\ phase'[q] = (IF x = "consumer" THEN "producer" ELSE "running")
        /\ r # q => phase'[r] = phase[r]
        /\ UNCHANGED <<cells, bound, unbound, peer, left>>
    BY <1>3, <1>11 DEF Spawn, Goto, Peers, TypeOK
  <2>2. \A p \in Peers :
          /\ <<e, p>> \in alive => <<e, p>> \in alive'
          /\ <<e, p>> \in alive' => <<e, p>> \in alive \/ (r = q /\ k = cells[r] /\ p = x)
    <3>1. alive' = alive \/ alive' = alive \cup {<<This(q), x>>}
      BY <1>11 DEF Spawn
    <3>2. \A p \in Peers :
            <<e, p>> \in alive \cup {<<This(q), x>>} <=> <<e, p>> \in alive \/ (e = This(q) /\ p = x)
      BY PairIn
    <3>3. e = This(q) => r = q /\ k = cells[r]
      BY <1>3 DEF This
    <3>4. QED
      BY <3>1, <3>2, <3>3
  <2>3. "producer" \in Peers /\ "consumer" \in Peers /\ x \in {"producer", "consumer"}
    BY DEF Peers
  <2>4. QED
    BY <1>5, <2>1, <2>2, <2>3
<1>12. ASSUME NEW q \in Runs, SpawnRefused(q)
      PROVE  Goal
  <2>1. /\ phase[q] \in {"consumer", "producer"} /\ UNCHANGED <<cells, alive, bound, unbound, peer>>
        /\ r # q => phase'[r] = phase[r]
    BY <1>3, <1>12 DEF SpawnRefused, Goto, Peers, TypeOK
  <2>2. left' = left \cup {f \in {This(q)} : <<f, "consumer">> \in alive}
    BY <1>12 DEF SpawnRefused
  <2>3. ASSUME r = q, NEW p \in Peers, <<e, p>> \in alive
        PROVE  e \in left' /\ p = "consumer"
    <3>1. CASE e \in left /\ p = "consumer"
      BY <2>2, <3>1
    <3>2. CASE k = cells[r] /\ phase[r] = "producer" /\ p = "consumer"
      <4>1. e = This(q)
        BY <1>3, <2>3, <3>2
      <4>2. QED
        BY <2>2, <2>3, <3>2, <4>1
    <3>3. QED
      BY <1>5, <2>1, <2>3, <3>1, <3>2
  <2>4. e \in left' => e \in left \/ k = cells[r]
    BY <1>3, <2>2 DEF This
  <2>5. ASSUME r # q, NEW p \in Peers, <<e, p>> \in alive
        PROVE  \/ k = cells'[r] /\ phase'[r] \in {"running", "killed"}
               \/ k = cells'[r] /\ phase'[r] = "producer" /\ p = "consumer"
               \/ e \in left' /\ p = "consumer"
    BY <1>5, <2>1, <2>2, <2>5
  <2>6. QED
    BY <1>4, <1>5, <2>1, <2>3, <2>4, <2>5
<1>13. ASSUME NEW q \in Runs, EndCell(q)
      PROVE  Goal
  <2>1. /\ phase[q] = "running" /\ UNCHANGED <<cells, unbound, left>>
        /\ r # q => phase'[r] = phase[r]
    BY <1>3, <1>13 DEF EndCell, Goto, TypeOK
  <2>2. \A p \in Peers : <<e, p>> \in alive' <=> <<e, p>> \in alive /\ e # This(q)
    BY <1>13 DEF EndCell
  <2>3. /\ bound' \subseteq bound /\ This(q) \notin bound'
        /\ e # This(q) => peer'[e] = peer[e]
        /\ e = This(q) => peer'[e] = Nobody
        /\ \A f \in Executions : peer'[f] \in {peer[f], Nobody}
    BY <1>13 DEF EndCell, TypeOK
  <2>4. e # Nobody /\ "producer" \in Peers /\ "consumer" \in Peers
    BY Pairs DEF Peers
  <2>5. r = q /\ e # This(q) => k # cells[r]
    BY <1>3
  <2>6. QED
    BY <1>5, <2>1, <2>2, <2>3, <2>4, <2>5
<1>14. ASSUME NEW f \in Executions, Target(f)
      PROVE  Goal
  <2>1. UNCHANGED <<phase, cells, left>>
    BY <1>14, TargetStep
  <2>2. CASE Bind(f)
    <3>1. /\ UNCHANGED peer /\ <<f, "consumer">> \in alive
          /\ \/ alive' = alive /\ bound' \subseteq bound \cup {f} /\ unbound' = unbound
             \/ /\ alive' = alive \ {<<f, "consumer">>} /\ bound' = bound /\ f \notin bound
                /\ unbound' = unbound \cup {f}
      BY <2>2 DEF Bind, Gone
    <3>2. \A p \in Peers : <<e, p>> \in alive \ {<<f, "consumer">>}
                            <=> <<e, p>> \in alive /\ ~(e = f /\ p = "consumer")
      BY PairIn
    <3>3. k > cells[r] => e # f
      BY <1>3, <1>4, <1>5, <3>1 DEF Peers
    <3>4. "producer" \in Peers /\ "consumer" \in Peers
      BY DEF Peers
    <3>5. QED
      BY <1>5, <2>1, <3>1, <3>2, <3>3, <3>4
  <2>3. CASE Connect(f)
    <3>1. /\ UNCHANGED <<alive, bound, unbound>> /\ <<f, "producer">> \in alive
          /\ \A g \in Executions : g # f => peer'[g] = peer[g]
          /\ peer'[f] \in bound
      BY <2>3 DEF Connect, Listening, AtPath, AtPort, TypeOK
    <3>2. k > cells[r] => e \notin bound
      BY <1>3, <1>4, <1>5 DEF Peers
    <3>3. QED
      BY <1>5, <2>1, <3>1, <3>2
  <2>4. ASSUME NEW x \in Peers, Exit(f, x)
        PROVE  Goal
    <3>1. /\ alive' = alive \ {<<f, x>>} /\ unbound' = unbound
          /\ bound' = IF x = "consumer" THEN bound \ {f} ELSE bound
          /\ \A g \in Executions : peer'[g] \in {peer[g], Nobody}
          /\ x = "producer" => peer'[f] = Nobody
      BY <2>4 DEF Exit, Gone, TypeOK
    <3>2. \A p \in Peers : <<e, p>> \in alive \ {<<f, x>>}
                            <=> <<e, p>> \in alive /\ ~(e = f /\ p = x)
      BY PairIn
    <3>3. e # Nobody /\ "producer" \in Peers /\ "consumer" \in Peers /\ x \in {"producer", "consumer"}
      BY Pairs DEF Peers
    <3>4. QED
      BY <1>5, <2>1, <3>1, <3>2, <3>3
  <2>5. QED
    BY <1>14, <2>2, <2>3, <2>4 DEF Target
<1>15. QED
  BY <1>7, <1>8, <1>9, <1>10, <1>11, <1>12, <1>13, <1>14, NextCases DEF Cell

\* The steps that name nothing leave the names to the runs that have them.
LEMMA NameFrame ==
  ASSUME TypeOK, NameInv, [Next]_vars, UNCHANGED spaces,
         \A s \in Runs : Live(s)' /\ phase'[s] \in {"add", "up", "undo"} => phase'[s] = phase[s],
         \A s \in Runs : Live(s)' /\ ns[s] # "none" => Live(s)
  PROVE  NameInv'
<1>1. \A r \in Runs : Name(r)' = Name(r) /\ (Rival(r) => Rival(r)') /\ met \subseteq met'
  BY MetGrows
<1>2. \A s \in Runs : phase'[s] = phase[s] => Live(s)' = Live(s)
  BY DEF Live
<1>3. UNCHANGED <<named, up, ns>>
  BY DEF spaces
<1>4. \A n \in Names : named'[n] # Nobody => Safe[id'[named'[n]]] = n
  <2>1. \A n \in Names : named[n] # Nobody => named[n] \in Runs
    BY DEF TypeOK
  <2>2. QED
    BY <1>1, <1>3, <2>1, MetGrows DEF NameInv, Name
<1>5. ASSUME NEW r \in Runs, NEW s \in Runs, Live(s)',
             phase'[s] \in {"add", "up", "undo"} \/ ns'[s] = "some",
             named'[Name(s)'] = r, r # s
      PROVE  <<r, s>> \in met'
  BY <1>1, <1>2, <1>3, <1>5 DEF NameInv
<1>6. ASSUME NEW r \in Runs, ~Rival(r)'
      PROVE  /\ phase'[r] = "add" => named'[Name(r)'] = Nobody
             /\ phase'[r] = "up" => named'[Name(r)'] = r
             /\ ns'[r] = "some" => r \in up'
  <2>1. phase'[r] \in {"add", "up"} => Live(r)'
    BY DEF Live, Outside
  <2>2. QED
    BY <1>1, <1>3, <1>6, <2>1 DEF NameInv
<1>7. QED
  BY <1>4, <1>5, <1>6 DEF NameInv, Name

\* One step of NetNs::create of run q, read off the model: what it does to the
\* names, the loopbacks and q's own state.
LEMMA NamingStep ==
  ASSUME TypeOK, NEW q \in Runs, Naming(q)
  PROVE  /\ UNCHANGED <<id, plan, mount, cells, procs, met>>
         /\ phase[q] \in Creating /\ Live(q) /\ Name(q) \in Names
         /\ phase'[q] \in {"add", "up", "undo", "cells"}
         /\ \A r \in Runs : r # q => phase'[r] = phase[r] /\ ns'[r] = ns[r]
         /\ \A n \in Names : n # Name(q) => named'[n] = named[n]
         /\ named'[Name(q)] \in {named[Name(q)], Nobody, q}
         /\ up \subseteq up'
         /\ phase'[q] = "add" => named'[Name(q)] = Nobody /\ ns'[q] = ns[q]
         /\ phase'[q] = "up" =>
              named'[Name(q)] = q /\ ns'[q] = ns[q] /\ named[Name(q)] = Nobody
         /\ phase'[q] = "undo" => phase[q] = "up" /\ named'[Name(q)] = named[Name(q)]
                                  /\ ns'[q] \in {"refused", "collided"}
         /\ phase'[q] = "cells" =>
              \/ /\ phase[q] = "up" /\ ns'[q] = "some"
                 /\ UNCHANGED named /\ named[Name(q)] \in up'
              \/ /\ phase[q] = "add" /\ ns'[q] \in {"refused", "collided"}
                 /\ UNCHANGED named
              \/ phase[q] = "undo" /\ ns'[q] = ns[q]
         /\ ns'[q] = "collided" =>
              \/ ns[q] = "collided"
              \/ phase[q] = "add" /\ named[Name(q)] # Nobody
              \/ phase[q] = "up" /\ named[Name(q)] = Nobody
<1> USE DEF Creating, Outside, Live, Goto
<1>1. Name(q) \in Names
  BY Constants DEF Name, TypeOK
<1>2. CASE DelLeftover(q)
  BY <1>1, <1>2 DEF DelLeftover, TypeOK
<1>3. CASE AddNs(q)
  BY <1>1, <1>3 DEF AddNs, TypeOK
<1>4. CASE AddRefused(q)
  BY <1>1, <1>4 DEF AddRefused, TypeOK
<1>5. CASE LoUp(q)
  BY <1>1, <1>5 DEF LoUp, TypeOK
<1>6. CASE LoUpFails(q)
  BY <1>1, <1>6 DEF LoUpFails, TypeOK
<1>7. CASE UndoNs(q)
  BY <1>1, <1>7 DEF UndoNs, TypeOK
<1>8. QED
  BY <1>2, <1>3, <1>4, <1>5, <1>6, <1>7 DEF Naming

\* Two live runs of one name are rivals.
LEMMA LiveRivals ==
  ASSUME MetInv, NEW r \in Runs, NEW s \in Runs, r # s,
         Live(r), Live(s), Name(r) = Name(s)
  PROVE  Rival(r) /\ Rival(s)
BY DEF MetInv, Rival

LEMMA NameNaming ==
  ASSUME TypeOK, MetInv, StageInv, NameInv, NamespaceIsOwn, NEW q \in Runs, Naming(q)
  PROVE  NameInv' /\ NamespaceIsOwn'
<1>1. /\ UNCHANGED <<id, met>>
      /\ \A r \in Runs : Name(r)' = Name(r) /\ Rival(r)' = Rival(r)
  BY NamingStep DEF Name, Rival
<1>2. \A r \in Runs : Live(r)' = Live(r)
  BY NamingStep DEF Live, Creating, Outside
<1>3. \A n \in Names : named'[n] # Nobody => Safe[id'[named'[n]]] = n
  BY <1>1, NamingStep, Constants DEF NameInv, Name
<1>4. ASSUME NEW r \in Runs, NEW s \in Runs, Live(s)',
             phase'[s] \in {"add", "up", "undo"} \/ ns'[s] = "some",
             named'[Name(s)] = r, r # s
      PROVE  <<r, s>> \in met
  <2>1. Live(s)
    BY <1>2, <1>4
  <2>2. Name(s) \in Names
    BY Constants DEF Name, TypeOK
  <2>3. CASE r = q
    BY <1>4, <2>1, <2>3, NamingStep DEF MetInv
  <2>4. CASE s = q
    <3>1. named[Name(q)] = r
      BY <1>4, <2>4, NamingStep, Constants
    <3>2. phase[q] \in {"add", "up", "undo"} \/ ns[q] = "some"
      BY <1>4, <2>4, <3>1, NamingStep, Constants DEF Creating
    <3>3. QED
      BY <1>4, <2>1, <2>4, <3>1, <3>2 DEF NameInv
  <2>5. CASE r # q /\ s # q
    <3>1. named[Name(s)] = r
      BY <1>4, <2>2, <2>5, NamingStep, Constants
    <3>2. phase[s] \in {"add", "up", "undo"} \/ ns[s] = "some"
      BY <1>4, <2>5, NamingStep
    <3>3. QED
      BY <1>4, <2>1, <3>1, <3>2 DEF NameInv
  <2>6. QED
    BY <2>3, <2>4, <2>5
<1>5. ASSUME NEW r \in Runs, ~Rival(r)
      PROVE  /\ phase'[r] = "add" => named'[Name(r)] = Nobody
             /\ phase'[r] = "up" => named'[Name(r)] = r
             /\ ns'[r] = "some" => r \in up'
             /\ ns'[r] # "collided"
             /\ Live(r) /\ ns'[r] = "some" => named'[Name(r)] = r /\ r \in up'
  <2>1. Name(r) \in Names
    BY Constants DEF Name, TypeOK
  <2>2. CASE r = q
    <3>1. ns[q] # "collided" /\ (phase[q] = "up" => named[Name(q)] = q)
      BY <1>5, <2>2 DEF NamespaceIsOwn, NameInv
    <3>2. ns'[q] # "collided"
      BY <1>5, <2>2, <3>1, NamingStep, Constants DEF NameInv
    <3>3. ns'[q] = "some" => phase'[q] = "cells" /\ phase[q] = "up"
      <4>1. ns[q] = "some" => phase[q] = "undo"
        BY NamingStep DEF StageInv, Creating
      <4>2. QED
        BY <4>1, <3>1, NamingStep DEF StageInv, NamespaceIsOwn
    <3>4. QED
      BY <2>2, <3>1, <3>2, <3>3, NamingStep
  <2>3. CASE r # q
    <3>1. Live(r) => Name(r) # Name(q)
      BY <1>5, <2>3, NamingStep, LiveRivals
    <3>2. phase[r] \in {"add", "up"} => Live(r)
      BY DEF Live, Outside
    <3>3. Live(r) => named'[Name(r)] = named[Name(r)]
      BY <2>1, <3>1, NamingStep
    <3>4. phase'[r] = phase[r] /\ ns'[r] = ns[r] /\ up \subseteq up'
      BY <2>3, NamingStep
    <3>5. QED
      BY <1>5, <3>2, <3>3, <3>4 DEF NameInv, NamespaceIsOwn
  <2>4. QED
    BY <2>2, <2>3
<1>6. NameInv'
  BY <1>1, <1>3, <1>4, <1>5 DEF NameInv, Name
<1>7. NamespaceIsOwn'
  BY <1>1, <1>2, <1>5 DEF NamespaceIsOwn
<1>8. QED
  BY <1>6, <1>7

\* No other step touches a name, and none takes a run into one of the phases of
\* NetNs::create but from its own gates.
LEMMA NameNext ==
  ASSUME TypeOK, MetInv, StageInv, NameInv, NamespaceIsOwn, [Next]_vars
  PROVE  NameInv' /\ NamespaceIsOwn'
<1>1. CASE \E q \in Runs : Naming(q)
  BY <1>1, NameNaming
<1>2. CASE ~\E q \in Runs : Naming(q)
  <2>1. UNCHANGED spaces
    <3>1. ASSUME NEW q \in Runs, Quiet(q) PROVE UNCHANGED spaces
      BY <3>1 DEF Quiet, Start, Kill, LookProc, MountProc, PassGates, EndRun, DropMounts
    <3>2. ASSUME NEW q \in Runs, Cell(q) PROVE UNCHANGED spaces
      BY <3>2 DEF Cell, MakeEndpoint, Spawn, SpawnRefused, EndCell
    <3>3. ASSUME NEW e \in Executions, Target(e) PROVE UNCHANGED spaces
      BY <3>3, TargetStep
    <3>4. QED
      BY <1>2, <3>1, <3>2, <3>3, NextCases DEF vars
  <2>2. \A s \in Runs : phase'[s] \in {"add", "up", "undo"} => phase'[s] = phase[s]
    <3>1. ASSUME NEW q \in Runs, Quiet(q)
          PROVE  \A s \in Runs : phase'[s] \in {"add", "up", "undo"} => phase'[s] = phase[s]
      BY <3>1 DEF Quiet, Start, Kill, LookProc, MountProc, PassGates, EndRun, DropMounts,
         Goto, TypeOK
    <3>2. ASSUME NEW q \in Runs, Cell(q)
          PROVE  \A s \in Runs : phase'[s] \in {"add", "up", "undo"} => phase'[s] = phase[s]
      BY <3>2 DEF Cell, MakeEndpoint, Spawn, SpawnRefused, EndCell, Goto, TypeOK
    <3>3. ASSUME NEW e \in Executions, Target(e) PROVE phase' = phase
      BY <3>3, TargetStep
    <3>4. QED
      BY <1>2, <3>1, <3>2, <3>3, NextCases DEF vars
  <2>3. \A s \in Runs : Live(s)' /\ ns[s] # "none" => Live(s)
    BY LiveStep DEF Start, StageInv
  <2>4. NameInv'
    BY <2>1, <2>2, <2>3, NameFrame
  <2>5. NamespaceIsOwn'
    BY <2>1, <2>3, MetGrows DEF NamespaceIsOwn, spaces
  <2>6. QED
    BY <2>4, <2>5
<1>3. QED
  BY <1>1, <1>2

-----------------------------------------------------------------------------
(* Where the targets are                                                   *)

\* Whose processes run, by TargetInv.
LEMMA WhoRuns ==
  ASSUME TypeOK, TargetInv, NEW e \in Executions
  PROVE  /\ \A p \in Peers : <<e, p>> \in alive =>
              /\ cells[e[1]] > 0 /\ (e \in left \/ e = This(e[1]))
              /\ phase[e[1]] \in {"producer", "running", "killed"} \/ e \in left
         /\ <<e, "producer">> \in alive =>
              e = This(e[1]) /\ phase[e[1]] \in {"running", "killed"}
         /\ e \in bound => <<e, "consumer">> \in alive
         /\ peer[e] # Nobody => <<e, "producer">> \in alive
         /\ cells[e[1]] = 0 =>
              /\ \A p \in Peers : <<e, p>> \notin alive
              /\ e \notin unbound /\ peer[e] = Nobody /\ \A f \in Executions : peer[f] # e
<1>1. TargetOf(e)
  BY DEF TargetInv
<1>2. e[1] \in Runs /\ e[2] \in 1..MaxCells /\ e = <<e[1], e[2]>> /\ MaxCells \in Nat
  BY Pairs, Constants
<1>3. cells[e[1]] \in Nat
  BY <1>2 DEF TypeOK
<1>4. e = This(e[1]) => e[2] = cells[e[1]]
  BY <1>2 DEF This
<1>5. "producer" \in Peers /\ "consumer" \in Peers
  BY DEF Peers
<1>6. e \in left => e[2] <= cells[e[1]]
  BY <1>1, <1>2, <1>3 DEF TargetOf
<1>7. ASSUME NEW p \in Peers, <<e, p>> \in alive
      PROVE  /\ cells[e[1]] > 0 /\ (e \in left \/ e = This(e[1]))
             /\ phase[e[1]] \in {"producer", "running", "killed"} \/ e \in left
  BY <1>1, <1>2, <1>3, <1>4, <1>6, <1>7 DEF TargetOf
<1>8. <<e, "producer">> \in alive =>
        e = This(e[1]) /\ phase[e[1]] \in {"running", "killed"}
  BY <1>1, <1>5 DEF TargetOf
<1>9. e \in bound => <<e, "consumer">> \in alive
  BY <1>1 DEF TargetOf
<1>10. peer[e] # Nobody => <<e, "producer">> \in alive
  BY <1>1 DEF TargetOf
<1>11. cells[e[1]] = 0 => e \notin unbound /\ \A f \in Executions : peer[f] # e
  BY <1>1, <1>2, <1>3 DEF TargetOf
<1>12. QED
  BY <1>3, <1>5, <1>7, <1>8, <1>9, <1>10, <1>11

\* Only NetNs::create says whether a run has a namespace, and only before its
\* first execution; what was left behind stays so.
LEMMA SpaceStep ==
  ASSUME TypeOK, StageInv, [Next]_vars
  PROVE  /\ left \subseteq left'
         /\ \A r \in Runs : ns'[r] = ns[r] \/ cells[r] = 0
<1>1. CASE UNCHANGED vars
  BY <1>1 DEF vars, spaces, procs
<1>2. ASSUME NEW q \in Runs, Quiet(q)
      PROVE  left' = left /\ ns' = ns
  BY <1>2 DEF Quiet, Start, Kill, LookProc, MountProc, PassGates, EndRun, DropMounts,
     spaces, procs
<1>3. ASSUME NEW q \in Runs, Naming(q)
      PROVE  left' = left /\ \A r \in Runs : ns'[r] = ns[r] \/ cells[r] = 0
  <2>1. cells[q] = 0
    BY <1>3, NamingStep DEF StageInv
  <2>2. QED
    BY <1>3, <2>1, NamingStep DEF procs
<1>4. ASSUME NEW q \in Runs, Cell(q)
      PROVE  left \subseteq left' /\ ns' = ns
  BY <1>4 DEF Cell, MakeEndpoint, Spawn, SpawnRefused, EndCell, spaces
<1>5. ASSUME NEW e \in Executions, Target(e)
      PROVE  left' = left /\ ns' = ns
  BY <1>5, TargetStep DEF spaces
<1>6. QED
  BY <1>1, <1>2, <1>3, <1>4, <1>5, NextCases

\* Only a spawn makes a target or says where it runs; a target whose run has a
\* namespace was spawned when it had it.
LEMMA TargetFrame ==
  ASSUME TypeOK, StageInv, TargetInv, [Next]_vars
  PROVE  \A e \in Executions : \A p \in Peers : <<e, p>> \in alive' =>
           \/ <<e, p>> \in alive /\ net'[<<e, p>>] = net[<<e, p>>] /\ ns'[e[1]] = ns[e[1]]
           \/ /\ Live(e[1]) /\ ns'[e[1]] = ns[e[1]]
              /\ Plan(e) = "tcp" /\ ns[e[1]] = "some" =>
                   net'[<<e, p>>] = named[Name(e[1])] /\ named[Name(e[1])] \in Runs
              /\ ~(Plan(e) = "tcp" /\ ns[e[1]] = "some") => net'[<<e, p>>] = Host
<1> DEFINE Kept(e, p) ==
      <<e, p>> \in alive /\ net'[<<e, p>>] = net[<<e, p>>] /\ ns'[e[1]] = ns[e[1]]
<1> DEFINE Fresh(e, p) ==
      /\ Live(e[1]) /\ ns'[e[1]] = ns[e[1]]
      /\ Plan(e) = "tcp" /\ ns[e[1]] = "some" =>
           net'[<<e, p>>] = named[Name(e[1])] /\ named[Name(e[1])] \in Runs
      /\ ~(Plan(e) = "tcp" /\ ns[e[1]] = "some") => net'[<<e, p>>] = Host
<1> SUFFICES ASSUME NEW e \in Executions, NEW p \in Peers, <<e, p>> \in alive'
             PROVE  Kept(e, p) \/ Fresh(e, p)
  OBVIOUS
<1>0. e[1] \in Runs /\ <<e, p>> \in Procs /\ net \in [Procs -> Runs \cup {Host}]
  BY Pairs DEF Procs, TypeOK
<1>1. CASE UNCHANGED vars
  BY <1>1 DEF vars, procs, spaces
<1>2. ASSUME NEW q \in Runs, Quiet(q)
      PROVE  Kept(e, p)
  BY <1>2 DEF Quiet, Start, Kill, LookProc, MountProc, PassGates, EndRun, DropMounts,
     procs, spaces
<1>3. ASSUME NEW q \in Runs, Naming(q)
      PROVE  Kept(e, p)
  <2>1. <<e, p>> \in alive /\ net' = net
    BY <1>3, NamingStep DEF procs
  <2>2. cells[e[1]] # 0
    BY <2>1, WhoRuns
  <2>3. QED
    BY <1>0, <2>1, <2>2, SpaceStep
<1>4. ASSUME NEW q \in Runs, NEW x \in Peers, Spawn(q, x)
      PROVE  Kept(e, p) \/ Fresh(e, p)
  <2>1. UNCHANGED ns /\ phase[q] = x
    BY <1>4 DEF Spawn, spaces
  <2>2. CASE alive' = alive /\ net' = net
    BY <2>1, <2>2
  <2>3. ASSUME NEW o \in Runs \cup {Host}, alive' = alive \cup {<<This(q), x>>},
               net' = [net EXCEPT ![<<This(q), x>>] = o],
               plan[q] = "tcp" /\ ns[q] = "some" => o = named[Name(q)] /\ o # Host,
               ~(plan[q] = "tcp" /\ ns[q] = "some") => o = Host
        PROVE  Kept(e, p) \/ Fresh(e, p)
    <3>1. CASE e = This(q) /\ p = x
      <4>1. net'[<<e, p>>] = o
        BY <1>0, <2>3, <3>1
      <4>2. e[1] = q
        BY <3>1 DEF This
      <4>3. Live(q)
        BY <2>1, <3>1 DEF Live, Peers, Outside
      <4>4. QED
        BY <2>1, <2>3, <4>1, <4>2, <4>3 DEF Host, Plan
    <3>2. CASE ~(e = This(q) /\ p = x)
      <4>1. <<e, p>> \in alive
        BY <2>3, <3>2, PairIn
      <4>2. <<e, p>> # <<This(q), x>>
        BY <3>2
      <4>3. net'[<<e, p>>] = net[<<e, p>>]
        BY <1>0, <2>3, <4>2
      <4>4. QED
        BY <2>1, <4>1, <4>3
    <3>3. QED
      BY <3>1, <3>2
  <2>4. QED
    BY <1>4, <2>2, <2>3, SpawnCases
<1>5. ASSUME NEW q \in Runs, MakeEndpoint(q) \/ SpawnRefused(q)
      PROVE  Kept(e, p)
  BY <1>5 DEF MakeEndpoint, SpawnRefused, spaces
<1>6. ASSUME NEW q \in Runs, EndCell(q)
      PROVE  Kept(e, p)
  <2>1. <<e, p>> \in alive /\ e # This(q)
    BY <1>6 DEF EndCell
  <2>2. net' = [z \in Procs |-> IF z[1] = This(q) THEN Host ELSE net[z]] /\ UNCHANGED ns
    BY <1>6 DEF EndCell, spaces
  <2>3. <<e, p>>[1] = e
    OBVIOUS
  <2>4. net'[<<e, p>>] = net[<<e, p>>]
    BY <1>0, <2>1, <2>2, <2>3
  <2>5. QED
    BY <2>1, <2>2, <2>4
<1>7. ASSUME NEW f \in Executions, Target(f)
      PROVE  Kept(e, p)
  <2>1. UNCHANGED ns
    BY <1>7, TargetStep DEF spaces
  <2>2. CASE UNCHANGED <<alive, net>>
    BY <2>1, <2>2
  <2>3. ASSUME NEW x \in Peers, Gone(f, x)
        PROVE  Kept(e, p)
    <3>1. <<e, p>> \in alive /\ ~(e = f /\ p = x)
      BY <2>3, PairIn DEF Gone
    <3>2. <<e, p>> # <<f, x>>
      BY <3>1
    <3>3. net'[<<e, p>>] = net[<<e, p>>]
      BY <1>0, <2>3, <3>2 DEF Gone
    <3>4. QED
      BY <2>1, <3>1, <3>3
  <2>4. QED
    BY <1>7, <2>2, <2>3 DEF Target, Bind, Connect, Exit, Peers
<1>8. QED
  BY <1>1, <1>2, <1>3, <1>4, <1>5, <1>6, <1>7, NextCases DEF Cell

LEMMA HomeNext ==
  ASSUME TypeOK, StageInv, TargetInv, NameInv, HomeInv, [Next]_vars
  PROVE  HomeInv'
<1> SUFFICES ASSUME NEW r \in Runs, NEW e \in Executions, NEW p \in Peers,
                    <<e, p>> \in alive', net'[<<e, p>>] = r, ~Rival(r)'
             PROVE  e[1] = r
  BY DEF HomeInv
<1>1. ~Rival(r) /\ e[1] \in Runs
  BY MetGrows, Pairs
<1>2. r # Host
  BY Constants DEF Host
<1>3. CASE <<e, p>> \in alive /\ net[<<e, p>>] = r
  BY <1>1, <1>3 DEF HomeInv
<1>4. CASE Live(e[1]) /\ ns[e[1]] = "some" /\ named[Name(e[1])] = r
  <2>1. Name(e[1]) \in Names
    BY <1>1, Constants DEF Name, TypeOK
  <2>2. Name(r) = Name(e[1])
    BY <1>2, <1>4, <2>1 DEF NameInv, Host
  <2>3. e[1] # r => <<r, e[1]>> \in met
    BY <1>1, <1>4 DEF NameInv
  <2>4. QED
    BY <1>1, <2>2, <2>3 DEF Rival
<1>5. QED
  BY <1>2, <1>3, <1>4, TargetFrame

LEMMA InsideNext ==
  ASSUME TypeOK, StageInv, TargetInv, NamespaceIsOwn, TargetsStayInside, [Next]_vars
  PROVE  TargetsStayInside'
<1> SUFFICES ASSUME NEW e \in Executions, NEW p \in Peers, <<e, p>> \in alive',
                    plan'[e[1]] = "tcp", ns'[e[1]] = "some"
             PROVE  net'[<<e, p>>] # Host /\ (~Rival(e[1])' => net'[<<e, p>>] = e[1])
  BY DEF TargetsStayInside, Plan
<1>1. Plan(e) = "tcp" /\ e[1] \in Runs /\ (~Rival(e[1])' => ~Rival(e[1]))
  BY MetGrows, Pairs DEF Plan
<1>2. CASE <<e, p>> \in alive /\ net'[<<e, p>>] = net[<<e, p>>] /\ ns'[e[1]] = ns[e[1]]
  BY <1>1, <1>2 DEF TargetsStayInside
<1>3. CASE /\ Live(e[1]) /\ ns[e[1]] = "some"
           /\ net'[<<e, p>>] = named[Name(e[1])] /\ named[Name(e[1])] \in Runs
  BY <1>1, <1>3, Constants DEF NamespaceIsOwn, Host
<1>4. QED
  BY <1>1, <1>2, <1>3, TargetFrame

\* What a step may do to failed binds and connections.
LEMMA PeerStep ==
  ASSUME TypeOK, [Next]_vars
  PROVE  \/ /\ unbound' = unbound
            /\ \A e \in Executions : peer'[e] \in {peer[e], Nobody}
         \/ \E f \in Executions : Bind(f) /\ peer' = peer
         \/ \E f \in Executions : /\ Connect(f) /\ unbound' = unbound
                                  /\ peer'[f] \in Listening(f, "producer")
                                  /\ \A e \in Executions : e # f => peer'[e] = peer[e]
<1> DEFINE Still == unbound' = unbound /\ \A e \in Executions : peer'[e] \in {peer[e], Nobody}
<1>1. CASE UNCHANGED vars
  BY <1>1 DEF vars, procs
<1>2. ASSUME NEW q \in Runs, Quiet(q)
      PROVE  Still
  BY <1>2 DEF Quiet, Start, Kill, LookProc, MountProc, PassGates, EndRun, DropMounts, procs
<1>3. ASSUME NEW q \in Runs, Naming(q)
      PROVE  Still
  BY <1>3, NamingStep DEF procs
<1>4. ASSUME NEW q \in Runs, Cell(q)
      PROVE  Still
  BY <1>4 DEF Cell, MakeEndpoint, Spawn, SpawnRefused, EndCell, TypeOK
<1>5. ASSUME NEW f \in Executions, Target(f)
      PROVE  Still \/ (Bind(f) /\ peer' = peer) \/ Connect(f)
  BY <1>5 DEF Target, Bind, Exit, TypeOK
<1>6. ASSUME NEW f \in Executions, Connect(f)
      PROVE  /\ unbound' = unbound /\ peer'[f] \in Listening(f, "producer")
             /\ \A e \in Executions : e # f => peer'[e] = peer[e]
  BY <1>6 DEF Connect, TypeOK
<1>7. QED
  BY <1>1, <1>2, <1>3, <1>4, <1>5, <1>6, NextCases

LEMMA TrafficNext ==
  ASSUME TypeOK, StageInv, TargetInv, NameInv, HomeInv, TargetsStayInside, TrafficIsPrivate,
         [Next]_vars
  PROVE  TrafficIsPrivate'
<1> DEFINE Found(e, L) ==
      \E f \in Executions \ {e} : f[1] = e[1] /\ (e \in L \/ f \in L)
<1> SUFFICES ASSUME NEW e \in Executions,
                    plan'[e[1]] = "tcp", ns'[e[1]] = "some", ~Rival(e[1])'
             PROVE  /\ e \in unbound' => Found(e, left')
                    /\ \/ peer'[e] = Nobody \/ peer'[e] = e
                       \/ peer'[e] \in left' /\ peer'[e][1] = e[1]
                    /\ \A f \in Executions : peer'[f] = e => f[1] = e[1]
  BY DEF TrafficIsPrivate
<1> DEFINE r == e[1]
<1>1. /\ r \in Runs /\ plan[r] = "tcp" /\ Plan(e) = "tcp" /\ ~Rival(r) /\ e # Nobody
      /\ r # Nobody /\ left \subseteq left'
  BY MetGrows, Constants, Pairs, SpaceStep DEF Plan
<1>2. cells[r] # 0 => ns[r] = "some"
  BY <1>1, SpaceStep
<1> HIDE DEF r
<1>3. /\ e \in unbound => Found(e, left)
      /\ peer[e] = Nobody \/ peer[e] = e \/ (peer[e] \in left /\ peer[e][1] = r)
      /\ \A f \in Executions : peer[f] = e => f[1] = r
  <2>1. CASE ns[r] = "some"
    BY <1>1, <2>1 DEF TrafficIsPrivate, r
  <2>2. CASE cells[r] = 0
    BY <2>2, WhoRuns DEF r
  <2>3. QED
    BY <1>2, <2>1, <2>2
<1>4. \A f \in Executions : f[1] = r => \A p \in Peers : <<f, p>> \in alive => net[<<f, p>>] = r
  <2>1. ASSUME NEW f \in Executions, f[1] = r, NEW p \in Peers, <<f, p>> \in alive
        PROVE  net[<<f, p>>] = r
    <3>1. cells[r] > 0
      BY <2>1, WhoRuns
    <3>2. ns[r] = "some" /\ Plan(f) = "tcp"
      BY <1>1, <1>2, <2>1, <3>1 DEF Plan
    <3>3. QED
      BY <1>1, <2>1, <3>2 DEF TargetsStayInside
  <2>2. QED
    BY <2>1
<1>5. \A f \in bound : f \in Executions /\ <<f, "consumer">> \in alive
                       /\ (net[<<f, "consumer">>] = r => f[1] = r)
  BY <1>1, WhoRuns DEF HomeInv, Peers, TypeOK
<1>6. \A f, g \in Executions : f[1] = g[1] /\ f = This(f[1]) /\ g = This(g[1]) => f = g
  OBVIOUS
<1>7. ASSUME NEW q \in Executions, Bind(q), e \in unbound'
      PROVE  Found(e, left)
  <2>1. CASE e \in unbound
    BY <1>3, <2>1
  <2>2. CASE e \notin unbound
    <3>1. /\ q = e /\ <<e, "consumer">> \in alive /\ e \notin bound
          /\ \/ Listening(e, "consumer") # {}
             \/ net[<<e, "consumer">>] \notin up \cup {Host}
      BY <1>1, <1>7, <2>2 DEF Bind
    <3>2. net[<<e, "consumer">>] = r
      BY <1>4, <3>1 DEF Peers, r
    <3>3. r \in up
      <4>1. ns[r] = "some"
        BY <1>2, <3>1, WhoRuns DEF Peers, r
      <4>2. QED
        BY <1>1, <4>1 DEF NameInv
    <3>4. PICK f \in Listening(e, "consumer") : TRUE
      BY <3>1, <3>2, <3>3
    <3>5. f \in bound /\ net[<<f, "consumer">>] = r
      BY <1>1, <3>2, <3>4 DEF Listening, AtPort
    <3>6. f \in Executions \ {e} /\ f[1] = r /\ <<f, "consumer">> \in alive
      BY <1>5, <3>1, <3>5
    <3>7. (e \in left \/ e = This(e[1])) /\ (f \in left \/ f = This(f[1]))
      BY <3>1, <3>6, WhoRuns DEF Peers
    <3>8. e \in left \/ f \in left
      BY <1>6, <3>6, <3>7 DEF r
    <3>9. QED
      BY <3>6, <3>8 DEF r
  <2>3. QED
    BY <2>1, <2>2
<1>8. ASSUME NEW q \in Executions, Connect(q), NEW f \in Listening(q, "producer")
      PROVE  /\ q = e => f = e \/ (f \in left /\ f[1] = r)
             /\ f = e => q[1] = r
  <2>1. <<q, "producer">> \in alive /\ f \in bound /\ f \in Executions
    BY <1>8 DEF Connect, Listening, AtPath, AtPort, TypeOK
  <2>2. CASE q = e
    <3>1. net[<<f, "consumer">>] = r
      <4>1. net[<<e, "producer">>] = r
        BY <1>4, <2>1, <2>2 DEF Peers, r
      <4>2. QED
        BY <1>1, <1>8, <2>2, <4>1 DEF Listening, AtPort
    <3>2. f[1] = r /\ <<f, "consumer">> \in alive
      BY <1>5, <2>1, <3>1
    <3>3. e = This(e[1]) /\ (f \in left \/ f = This(f[1]))
      BY <2>1, <2>2, <3>2, WhoRuns DEF Peers
    <3>4. f = e \/ f \in left
      BY <1>6, <2>1, <3>2, <3>3 DEF r
    <3>5. QED
      BY <2>2, <3>2, <3>4 DEF r
  <2>3. CASE f = e
    <3>1. net[<<e, "consumer">>] = r
      BY <1>4, <1>5, <2>1, <2>3 DEF Peers, r
    <3>2. net[<<q, "producer">>] = r
      BY <1>1, <1>8, <2>3, <3>1 DEF Listening, AtPath, AtPort
    <3>3. q[1] = r
      BY <1>1, <2>1, <3>2 DEF HomeInv, Peers
    <3>4. QED
      BY <2>3, <3>3
  <2>4. QED
    BY <2>2, <2>3
<1>9. Found(e, left) => Found(e, left')
  BY <1>1
<1> HIDE DEF Found
<1>10. CASE unbound' = unbound /\ \A g \in Executions : peer'[g] \in {peer[g], Nobody}
  BY <1>1, <1>3, <1>9, <1>10 DEF r
<1>11. ASSUME NEW q \in Executions, Bind(q), peer' = peer
       PROVE  /\ e \in unbound' => Found(e, left')
              /\ \/ peer'[e] = Nobody \/ peer'[e] = e
                 \/ peer'[e] \in left' /\ peer'[e][1] = e[1]
              /\ \A f \in Executions : peer'[f] = e => f[1] = e[1]
  BY <1>1, <1>3, <1>7, <1>9, <1>11 DEF r
<1>12. ASSUME NEW q \in Executions, Connect(q), unbound' = unbound,
              peer'[q] \in Listening(q, "producer"),
              \A g \in Executions : g # q => peer'[g] = peer[g]
       PROVE  /\ e \in unbound' => Found(e, left')
              /\ \/ peer'[e] = Nobody \/ peer'[e] = e
                 \/ peer'[e] \in left' /\ peer'[e][1] = e[1]
              /\ \A f \in Executions : peer'[f] = e => f[1] = e[1]
  <2>1. /\ q = e => peer'[e] = e \/ (peer'[e] \in left /\ peer'[e][1] = r)
        /\ peer'[q] = e => q[1] = r
    BY <1>8, <1>12
  <2>2. QED
    BY <1>1, <1>3, <1>9, <1>12, <2>1 DEF r
<1>13. QED
  BY <1>10, <1>11, <1>12, PeerStep

LEMMA CrossingNext ==
  ASSUME TypeOK, MetInv, TargetInv, CrossingNeedsOrphans, StageInv, [Next]_vars
  PROVE  CrossingNeedsOrphans'
<1> SUFFICES ASSUME NEW e \in Executions, NEW f \in Executions, peer'[e] = f, e[1] # f[1]
             PROVE  \/ <<e[1], f[1]>> \in met' \/ f \in left'
                    \/ phase'[e[1]] = "killed" \/ phase'[f[1]] = "killed"
  BY DEF CrossingNeedsOrphans
<1>1. f # Nobody /\ e[1] \in Runs /\ f[1] \in Runs
  BY Pairs
<1>2. CASE peer[e] = f
  BY <1>1, <1>2, MetGrows, LiveStep, SpaceStep DEF CrossingNeedsOrphans
<1>3. ASSUME Connect(e), f \in Listening(e, "producer")
      PROVE  \/ <<e[1], f[1]>> \in met' \/ f \in left'
             \/ phase'[e[1]] = "killed" \/ phase'[f[1]] = "killed"
  <2>1. <<e, "producer">> \in alive /\ <<f, "consumer">> \in alive
    BY <1>3, WhoRuns DEF Connect, Listening, AtPath, AtPort
  <2>2. /\ phase[e[1]] \in {"running", "killed"}
        /\ phase[f[1]] \in {"producer", "running", "killed"} \/ f \in left
    BY <2>1, WhoRuns DEF Peers
  <2>3. phase' = phase /\ met' = met /\ left' = left
    BY <1>3 DEF Connect
  <2>4. QED
    BY <1>1, <2>2, <2>3 DEF MetInv, Live, Outside
<1>4. QED
  BY <1>1, <1>2, <1>3, PeerStep

LEMMA SeenNext ==
  ASSUME TypeOK, MetInv, StageInv, MountsBalance, SeenInv, [Next]_vars
  PROVE  SeenInv'
<1> SUFFICES ASSUME NEW r \in Runs, Live(r)', r \in seen'
             PROVE  \/ given' > 0 \/ mine' # {}
                    \/ \E s \in Runs : <<r, s>> \in met' /\ phase'[s] = "over"
  BY DEF SeenInv
<1> DEFINE Goal == \/ given' > 0 \/ mine' # {}
                   \/ \E s \in Runs : <<r, s>> \in met' /\ phase'[s] = "over"
<1>1. CASE Live(r) /\ r \in seen /\ mine \subseteq mine' /\ given' = given
  BY <1>1, MetGrows, LiveStep DEF SeenInv
<1>2. CASE UNCHANGED vars
  BY <1>1, <1>2 DEF vars, mount, Live
<1>3. ASSUME NEW q \in Runs, Start(q)
      PROVE  Goal
  <2>1. r # q
    BY <1>3 DEF Start, StageInv, mount
  <2>2. Live(r)
    BY <1>3, <2>1, LiveStep DEF Start, Goto, Live, TypeOK
  <2>3. QED
    BY <1>1, <1>3, <2>2 DEF Start, mount
<1>4. ASSUME ~\E q \in Runs : Start(q)
      PROVE  Live(r)
  BY <1>4, LiveStep
<1>5. ASSUME NEW q \in Runs, LookProc(q)
      PROVE  Goal
  <2>1. CASE r \in seen
    BY <1>1, <1>4, <1>5, <2>1, ZenonT(30) DEF LookProc, Start, Live, Outside, Goto, TypeOK
  <2>2. CASE r \notin seen
    <3>1. mounts > 0 /\ UNCHANGED <<given, mine>>
      BY <1>5, <2>2 DEF LookProc
    <3>2. given > 0 \/ mine # {}
      BY <3>1, FS_EmptySet DEF MountsBalance, TypeOK
    <3>3. QED
      BY <3>1, <3>2
  <2>3. QED
    BY <2>1, <2>2
<1>6. ASSUME NEW q \in Runs, MountProc(q)
      PROVE  Goal
  <2>1. CASE r \in seen
    <3>1. Live(r)
      BY <1>6 DEF MountProc, Live, Outside, Goto, TypeOK
    <3>2. QED
      BY <1>1, <1>6, <2>1, <3>1 DEF MountProc
  <2>2. CASE r \notin seen
    BY <1>6, <2>2 DEF MountProc
  <2>3. QED
    BY <2>1, <2>2
<1>7. ASSUME NEW q \in Runs, DropMounts(q)
      PROVE  Goal
  <2>1. Live(q) /\ phase'[q] = "over" /\ r # q /\ r \in seen /\ met' = met
    BY <1>7 DEF DropMounts, Live, Outside, Goto, TypeOK
  <2>2. Live(r)
    BY <1>7, <2>1 DEF DropMounts, Live, Goto, TypeOK
  <2>3. QED
    BY <2>1, <2>2 DEF MetInv
<1>8. ASSUME NEW q \in Runs, Kill(q) \/ PassGates(q) \/ EndRun(q)
      PROVE  Goal
  <2>1. UNCHANGED mount
    BY <1>8 DEF Kill, PassGates, EndRun
  <2>2. Live(r)
    BY <1>8 DEF Kill, PassGates, EndRun, Live, Outside, Goto, TypeOK
  <2>3. QED
    BY <1>1, <2>1, <2>2 DEF mount
<1>9. ASSUME NEW q \in Runs, Naming(q) \/ Cell(q)
      PROVE  Goal
  <2>1. UNCHANGED mount
    BY <1>9 DEF Naming, DelLeftover, AddNs, AddRefused, LoUp, LoUpFails, UndoNs,
       Cell, MakeEndpoint, Spawn, SpawnRefused, EndCell
  <2>2. Live(r)
    BY <1>9 DEF Naming, DelLeftover, AddNs, AddRefused, LoUp, LoUpFails, UndoNs,
       Cell, MakeEndpoint, Spawn, SpawnRefused, EndCell,
       Live, Outside, Peers, Goto, TypeOK
  <2>3. QED
    BY <1>1, <2>1, <2>2 DEF mount
<1>10. ASSUME NEW e \in Executions, Target(e)
       PROVE  Goal
  <2>1. UNCHANGED mount /\ Live(r)
    BY <1>10, TargetStep DEF Live
  <2>2. QED
    BY <1>1, <2>1 DEF mount
<1>11. QED
  BY <1>2, <1>3, <1>5, <1>6, <1>7, <1>8, <1>9, <1>10, NextCases DEF Quiet

-----------------------------------------------------------------------------
(* The theorems                                                            *)

LEMMA InitIInv == Init => IInv
<1> SUFFICES ASSUME Init PROVE IInv
  OBVIOUS
<1>1. TypeOK /\ MountsBalance
  BY InitType, InitMounts
<1>2. \A r \in Runs : ~Live(r)
  BY DEF Init, Live, Outside
<1>3. TargetInv
  BY Pairs DEF Init, TargetInv, TargetOf
<1>4. TrafficIsPrivate /\ CrossingNeedsOrphans /\ BegunInv
  BY Pairs DEF Init, TrafficIsPrivate, CrossingNeedsOrphans, BegunInv
<1>5. QED
  BY <1>1, <1>2, <1>3, <1>4, Constants
  DEF Init, IInv, MetInv, StageInv, NameInv, HomeInv, SeenInv, NamespaceIsOwn,
      TargetsStayInside, Creating

LEMMA NextIInv == IInv /\ [Next]_vars => IInv'
BY NextType, MountsNext, MetNext, StageNext, BegunNext, TargetNext, NameNext, HomeNext,
   SeenNext, InsideNext, TrafficNext, CrossingNext
DEF IInv

\* The invariant holds in every reachable state.
LEMMA Inductive == Spec => []IInv
BY InitIInv, NextIInv, PTL DEF Spec

\* Every reachable state of the shared resources is well typed.
THEOREM TypeCorrect == Spec => []TypeOK
BY Inductive, PTL DEF IInv

\* No leftover and no kill costs a run its namespace; only a concurrent run of the
\* same name can.
THEOREM NamespaceSurvives == Spec => []NamespaceIsOwn
BY Inductive, PTL DEF IInv

\* No target of a run with a namespace escapes to the host.
THEOREM NoEscape == Spec => []TargetsStayInside
BY Inductive, PTL DEF IInv

\* Without a rival a namespaced run's traffic is its own, whatever was killed or
\* left behind before it; only a consumer the run itself left can take part.
THEOREM Private == Spec => []TrafficIsPrivate
BY Inductive, PTL DEF IInv

\* Runs meet in a connection only if they met in time, or through a process that
\* a kill or a refused spawn left behind.
THEOREM OnlyOrphansCross == Spec => []CrossingNeedsOrphans
BY Inductive, PTL DEF IInv

LEMMA ProcStaysInv == IInv => ProcStays
<1> SUFFICES ASSUME IInv, NEW r \in Runs, Live(r), r \in seen, mounts = 0
             PROVE  r \notin mine /\ \E s \in Runs : <<r, s>> \in met /\ phase[s] = "over"
  BY DEF ProcStays
<1>1. IsFiniteSet(mine) /\ Cardinality(mine) \in Nat
  BY Constants, FS_Subset, FS_CardinalityType DEF IInv, TypeOK
<1>2. given = 0 /\ Cardinality(mine) = 0
  BY <1>1 DEF IInv, TypeOK, MountsBalance
<1>3. mine = {}
  BY <1>1, <1>2, FS_EmptySet
<1>4. SeenInv
  BY DEF IInv
<1>5. ~(given > 0)
  BY <1>2
<1>6. \E s \in Runs : <<r, s>> \in met /\ phase[s] = "over"
  BY <1>3, <1>4, <1>5 DEF SeenInv
<1>7. QED
  BY <1>3, <1>6

\* A run loses its /proc only to a run it overlapped with.
THEOREM ProcIsHeld == Spec => []ProcStays
BY Inductive, ProcStaysInv, PTL

=============================================================================
