------------------------------ MODULE CellExec ------------------------------
(***************************************************************************)
(* One cell execution of orchestrator/src/main.rs: run_throughput,         *)
(* run_latency and run_multipeer.  The orchestrator spawns the processes   *)
(* of a cell one by one, moves each into a cgroup leaf, opens the syscall  *)
(* probe, polls the measured process until it exits or the deadline        *)
(* passes, collects the result, tears the other processes down and judges  *)
(* what it saw.  Meanwhile every process runs, exits, fails or hangs as it *)
(* likes.                                                                  *)
(*                                                                         *)
(* The executions of a behaviour are successive replicates of one cell:    *)
(* they share the names of the two leaves, so what one of them leaves      *)
(* behind the next one finds.                                              *)
(***************************************************************************)
EXTENDS Integers, FiniteSets

CONSTANTS
  Kinds,      \* kinds of cell to consider; "fanout" also stands for pubsub
  Peers,      \* entry.peers of the multi-peer kinds, at least 1
  MaxExecs,   \* bound: executions of the cell
  MultiExecs, \* the same bound for the kinds run_multipeer runs
  Faults      \* whether the OS may refuse a spawn or an attach

ASSUME KindsAssumption ==
  Kinds \subseteq {"throughput", "latency", "fanout", "fanin"}
ASSUME PeersAssumption == Peers \in Nat \ {0}
ASSUME MaxExecsAssumption == MaxExecs \in Nat /\ MultiExecs \in 0..MaxExecs
ASSUME FaultsAssumption == Faults \in BOOLEAN

Windowed == {"fanout", "fanin"}       \* the kinds run_multipeer runs
Roles == {"sub", "pub"}

Execs == 1..MaxExecs
Slots == 1..(Peers + 1)               \* processes in order of their spawn
Procs == Execs \X Slots

VARIABLES
  kind,       \* the kind of the cell
  exec,       \* number of the current execution
  pc,         \* where the orchestrator is
  spawned,    \* processes spawned in this execution
  proc,       \* what became of each process
  reaped,     \* processes wait()ed for
  attached,   \* processes moved into their leaf
  leaf,       \* leaves that exist on the cgroup file system
  held,       \* leaves this execution created and limited
  tenants,    \* leaf -> processes it has held since its mkdir
  probed,     \* the syscall probe is open
  before,     \* processes already reaped at the first getrusage
  inTime,     \* the measured process exited before the deadline
  died,       \* another process was seen to have failed
  line,       \* what the measured process reported
  starved,    \* another process failed while the measured one still needed it
  outcome,    \* how the last execution ended
  record      \* processes behind the record's CPU and memory figures

env  == <<proc, line, starved>>
cgroup == <<attached, leaf, held, tenants>>
vars == <<kind, exec, pc, spawned, reaped, probed, before, inTime, died,
          outcome, record, env, cgroup>>

-----------------------------------------------------------------------------
(* The processes of a cell                                                 *)

\* How often the cell is executed.
Bound == IF kind \in Windowed THEN MultiExecs ELSE MaxExecs

NumProcs == IF kind \in Windowed THEN Peers + 1 ELSE 2

\* The process whose stdout carries the result: the consumer, except that the
\* REQ client measures latency.
MeasuredSlot == IF kind \in {"throughput", "fanin"} THEN 1 ELSE 2

\* The consumer end is spawned first, except that the PUB or PUSH producer of
\* pubsub and fanout binds and goes first.
Role(i) == IF (i = 1) = (kind = "fanout") THEN "pub" ELSE "sub"

Mine == {<<exec, i>> : i \in 1..NumProcs}
Measured == <<exec, MeasuredSlot>>
Others == Mine \ {Measured}

Alive(p) == proc[p] = "alive"

\* Processes of any execution that sit in the leaf of a role.
Tasks(r) == {p \in attached : Alive(p) /\ Role(p[2]) = r}

TypeOK ==
  /\ kind \in {"throughput", "latency", "fanout", "fanin"}
  /\ exec \in 0..MaxExecs
  /\ pc \in {"idle", "spawn", "attach", "probe", "poll", "expired", "collect",
             "await", "overdue", "sample", "kill", "judge", "drop"}
  /\ spawned \in 0..NumProcs
  /\ proc \in [Procs -> {"unborn", "alive", "ok", "failed", "killed"}]
  /\ reaped \subseteq Procs /\ attached \subseteq Procs /\ before \subseteq Procs
  /\ leaf \subseteq Roles /\ held \subseteq Roles
  /\ tenants \in [Roles -> SUBSET Procs]
  /\ probed \in BOOLEAN /\ inTime \in BOOLEAN /\ died \in BOOLEAN
  /\ starved \in BOOLEAN
  /\ line \in {"none", "full", "short", "zero"}
  /\ outcome \in {"none", "refused", "nospawn", "timeout", "died", "failed",
                  "noline", "ok"}
  /\ record \in [cpu: SUBSET Procs, memory: SUBSET Procs]

Init ==
  /\ kind \in Kinds
  /\ exec = 0 /\ pc = "idle" /\ spawned = 0
  /\ proc = [p \in Procs |-> "unborn"]
  /\ reaped = {} /\ before = {}
  /\ attached = {} /\ leaf = {} /\ held = {}
  /\ tenants = [r \in Roles |-> {}]
  /\ probed = FALSE /\ inTime = FALSE /\ died = FALSE
  /\ line = "none" /\ starved = FALSE
  /\ outcome = "none" /\ record = [cpu |-> {}, memory |-> {}]

-----------------------------------------------------------------------------
(* The orchestrator                                                        *)

\* No endpoint can be had (inproc, a multi-peer kind off tcp, no free port):
\* the execution fails before it creates anything.
Refuse ==
  /\ pc = "idle" /\ exec < Bound
  /\ exec' = exec + 1
  /\ outcome' = "refused"
  /\ UNCHANGED <<kind, pc, spawned, reaped, probed, before, inTime, died,
                 record, env, cgroup>>

\* try_cgroup for both leaves, each of which may fail, then the first
\* getrusage.  An existing leaf is reused.  A leaf whose limits cannot be
\* written is dropped at once, and its directory goes unless a task is in it.
Begin ==
  /\ pc = "idle" /\ exec < Bound
  /\ exec' = exec + 1
  /\ \E ok \in SUBSET Roles :
       /\ held' = ok
       /\ leaf' = ok \cup {r \in leaf : Tasks(r) # {}}
       /\ tenants' = [r \in Roles |-> IF r \in leaf \cap leaf' THEN tenants[r] ELSE {}]
  /\ before' = reaped
  /\ spawned' = 0 /\ pc' = "spawn"
  /\ probed' = FALSE /\ inTime' = FALSE /\ died' = FALSE
  /\ line' = "none" /\ starved' = FALSE
  /\ outcome' = "none"
  /\ UNCHANGED <<kind, proc, reaped, attached, record>>

\* The child starts in the orchestrator's own cgroup and runs from here on.
Spawn ==
  /\ pc = "spawn"
  /\ proc' = [proc EXCEPT ![<<exec, spawned + 1>>] = "alive"]
  /\ spawned' = spawned + 1
  /\ pc' = "attach"
  /\ UNCHANGED <<kind, exec, reaped, probed, before, inTime, died, line,
                 starved, outcome, record, cgroup>>

\* spawn() fails: `?' leaves the function.  The Child values already there are
\* dropped, which neither kills nor reaps their processes.
SpawnFails ==
  /\ Faults /\ pc = "spawn"
  /\ outcome' = "nospawn"
  /\ pc' = "drop"
  /\ UNCHANGED <<kind, exec, spawned, reaped, probed, before, inTime, died,
                 record, env, cgroup>>

\* Slip: every kind opens its probe after all spawns.
AfterAttachProbeLast == IF spawned = NumProcs THEN "probe" ELSE "spawn"

\* Where the orchestrator goes once a process is in its leaf: run_throughput
\* opens the probe before it spawns the producer, the others after all spawns.
AfterAttach ==
  IF probed THEN "poll"
  ELSE IF kind = "throughput" \/ spawned = NumProcs THEN "probe" ELSE "spawn"

\* cgroup.procs takes the pid of a live process only; an error is ignored.
Attach ==
  LET p == <<exec, spawned>>
      r == Role(spawned)
  IN  /\ pc = "attach"
      /\ \/ /\ r \in held /\ Alive(p)
            /\ attached' = attached \cup {p}
            /\ tenants' = [tenants EXCEPT ![r] = @ \cup {p}]
         \/ /\ Faults \/ r \notin held \/ ~Alive(p)
            /\ UNCHANGED <<attached, tenants>>
      /\ pc' = AfterAttach
      /\ UNCHANGED <<kind, exec, spawned, reaped, probed, before, inTime, died,
                     outcome, record, env, leaf, held>>

OpenProbe ==
  /\ pc = "probe"
  /\ probed' = TRUE
  /\ pc' = IF spawned = NumProcs THEN "poll" ELSE "spawn"
  /\ UNCHANGED <<kind, exec, spawned, reaped, before, inTime, died, outcome,
                 record, env, cgroup>>

\* wait_until_peak: try_wait finds the measured process dead and reaps it.
PollExited ==
  /\ pc = "poll" /\ ~Alive(Measured)
  /\ reaped' = reaped \cup {Measured}
  /\ inTime' = TRUE
  /\ pc' = "collect"
  /\ UNCHANGED <<kind, exec, spawned, probed, before, died, outcome, record,
                 env, cgroup>>

\* try_wait finds it running and the deadline has passed.
PollExpired ==
  /\ pc = "poll" /\ Alive(Measured)
  /\ pc' = "expired"
  /\ UNCHANGED <<kind, exec, spawned, reaped, probed, before, inTime, died,
                 outcome, record, env, cgroup>>

\* kill() and wait().  The process may have exited since it was polled.
KillMeasured ==
  /\ pc = "expired"
  /\ proc' = [proc EXCEPT ![Measured] = IF @ = "alive" THEN "killed" ELSE @]
  /\ reaped' = reaped \cup {Measured}
  /\ pc' = "collect"
  /\ UNCHANGED <<kind, exec, spawned, probed, before, inTime, died, line,
                 starved, outcome, record, cgroup>>

\* Slip: the REP server, which never exits by itself, is left running.
CollectOnly ==
  /\ pc = "collect"
  /\ probed' = FALSE
  /\ pc' = IF kind = "throughput" THEN "await"
           ELSE IF kind = "latency" THEN "judge" ELSE "sample"
  /\ UNCHANGED <<kind, exec, spawned, reaped, before, inTime, died, outcome,
                 record, env, cgroup>>

\* The probe and the measured process's stdout are read.
Collect ==
  /\ pc = "collect"
  /\ probed' = FALSE
  /\ pc' = IF kind = "throughput" THEN "await"
           ELSE IF kind = "latency" THEN "kill" ELSE "sample"
  /\ UNCHANGED <<kind, exec, spawned, reaped, before, inTime, died, outcome,
                 record, env, cgroup>>

\* wait_until for the throughput producer: it exits within five seconds ...
ProducerExited ==
  /\ pc = "await" /\ \A p \in Others : ~Alive(p)
  /\ reaped' = reaped \cup Others
  /\ pc' = "judge"
  /\ UNCHANGED <<kind, exec, spawned, probed, before, inTime, died, outcome,
                 record, env, cgroup>>

\* Slip: the producer is waited for without a deadline.
ProducerNeverOverdue == FALSE /\ UNCHANGED vars

\* ... or is found running when they are over, and is killed.
ProducerOverdue ==
  /\ pc = "await" /\ \E p \in Others : Alive(p)
  /\ pc' = "overdue"
  /\ UNCHANGED <<kind, exec, spawned, reaped, probed, before, inTime, died,
                 outcome, record, env, cgroup>>

\* Slip: the last peer is not looked at.
SampleButLast ==
  /\ pc = "sample"
  /\ died' = \E p \in Others : p[2] < NumProcs /\ proc[p] = "failed"
  /\ reaped' = reaped \cup {p \in Others : ~Alive(p)}
  /\ pc' = "kill"
  /\ UNCHANGED <<kind, exec, spawned, probed, before, inTime, outcome, record,
                 env, cgroup>>

\* run_multipeer looks at the other processes before it kills them.
SampleDied ==
  /\ pc = "sample"
  /\ died' = \E p \in Others : proc[p] = "failed"
  /\ reaped' = reaped \cup {p \in Others : ~Alive(p)}
  /\ pc' = "kill"
  /\ UNCHANGED <<kind, exec, spawned, probed, before, inTime, outcome, record,
                 env, cgroup>>

\* kill() and wait() for every other process.
KillOthers ==
  /\ pc \in {"kill", "overdue"}
  /\ proc' = [p \in Procs |-> IF p \in Others /\ Alive(p) THEN "killed" ELSE proc[p]]
  /\ reaped' = reaped \cup Others
  /\ pc' = "judge"
  /\ UNCHANGED <<kind, exec, spawned, probed, before, inTime, died, line,
                 starved, outcome, record, cgroup>>

\* The checks in their order: deadline, dead peers, exit status, result line.
Verdict ==
  IF ~inTime THEN "timeout"
  ELSE IF died THEN "died"
  ELSE IF proc[Measured] # "ok" THEN "failed"
  ELSE IF line = "none" THEN "noline" ELSE "ok"

\* Slip: the first getrusage is not subtracted.
JudgeAbsolute ==
  /\ pc = "judge"
  /\ outcome' = Verdict
  /\ record' = IF Verdict = "ok" THEN [cpu |-> reaped, memory |-> Mine] ELSE record
  /\ pc' = "drop"
  /\ UNCHANGED <<kind, exec, spawned, reaped, probed, before, inTime, died,
                 env, cgroup>>

\* The verdict; an accepted execution takes the second getrusage and reads the
\* memory peak of its leaves (or the sampled peaks of its processes).
Judge ==
  /\ pc = "judge"
  /\ outcome' = Verdict
  /\ record' = IF Verdict = "ok"
               THEN [cpu    |-> reaped \ before,
                     memory |-> IF held = {} THEN Mine
                                ELSE UNION {tenants[r] : r \in held}]
               ELSE record
  /\ pc' = "drop"
  /\ UNCHANGED <<kind, exec, spawned, reaped, probed, before, inTime, died,
                 env, cgroup>>

\* Slip: the leaves are not removed.
DropForgotten ==
  /\ pc = "drop"
  /\ held' = {}
  /\ pc' = "idle"
  /\ UNCHANGED <<kind, exec, spawned, reaped, probed, before, inTime, died,
                 outcome, record, env, attached, leaf, tenants>>

\* The function returns: Cgroup::drop removes each leaf it holds; rmdir fails
\* while a task is in it, and the directory stays.
Drop ==
  /\ pc = "drop"
  /\ leaf' = leaf \ {r \in held : Tasks(r) = {}}
  /\ held' = {}
  /\ tenants' = [r \in Roles |-> IF r \in leaf' THEN tenants[r] ELSE {}]
  /\ pc' = "idle"
  /\ UNCHANGED <<kind, exec, spawned, reaped, probed, before, inTime, died,
                 outcome, record, env, attached>>

-----------------------------------------------------------------------------
(* The processes                                                           *)

\* What a measured process may have reported when it ends.  A fed one
\* reports its block or window; one whose feeder died reports the part it got;
\* a windowed consumer that never saw a message gives up with a zero window; a
\* broken target prints nothing the parser takes.
Reports ==
  {"none"} \cup (IF spawned > 1 THEN {"full"} ELSE {})
           \cup (IF kind = "throughput" /\ starved THEN {"short"} ELSE {})
           \cup (IF kind \in Windowed THEN {"zero"} ELSE {})

ExitOk(p) ==
  /\ Alive(p)
  /\ proc' = [proc EXCEPT ![p] = "ok"]
  /\ IF p = Measured THEN line' \in Reports ELSE line' = line
  /\ UNCHANGED <<kind, exec, pc, spawned, reaped, probed, before, inTime, died,
                 starved, outcome, record, cgroup>>

\* A crash, an error exit, the memory cap's OOM kill: with the line printed
\* before it, or without one.
ExitFailed(p) ==
  /\ Alive(p)
  /\ proc' = [proc EXCEPT ![p] = "failed"]
  /\ IF p = Measured THEN line' \in Reports ELSE line' = line
  /\ starved' = (starved \/ (p \in Others /\ proc[Measured] \in {"unborn", "alive"}))
  /\ UNCHANGED <<kind, exec, pc, spawned, reaped, probed, before, inTime, died,
                 outcome, record, cgroup>>

Orchestrator ==
  \/ Spawn \/ SpawnFails \/ Attach \/ OpenProbe
  \/ PollExited \/ PollExpired \/ KillMeasured \/ Collect
  \/ ProducerExited \/ ProducerOverdue \/ SampleDied \/ KillOthers
  \/ Judge \/ Drop

Finished == pc = "idle" /\ exec = Bound /\ UNCHANGED vars

Next ==
  \/ Refuse \/ Begin \/ Orchestrator
  \/ \E p \in Procs : ExitOk(p) \/ ExitFailed(p)
  \/ Finished

\* The orchestrator's thread keeps running, and a deadline it polls for passes.
\* Nothing is assumed of the processes: they may hang for ever.
Fairness == WF_vars(Orchestrator)

Spec == Init /\ [][Next]_vars /\ Fairness

-----------------------------------------------------------------------------
(* Properties                                                              *)

\* No process of a cell outlives its execution: whatever exits, hangs or is
\* killed, every child is dead and waited for when the function returns.
\* (A failed spawn is the exception, see ReapedBeforeTeardown.)
NoOrphans ==
  pc \in {"drop", "idle"} /\ outcome # "nospawn" =>
    \A p \in Procs :
      p[1] = exec /\ proc[p] # "unborn" => ~Alive(p) /\ p \in reaped

\* The getrusage delta of a record covers every process of its execution and
\* none of an earlier one, although it counts children when they are reaped
\* and an execution may be preceded by failed ones.
CpuIsThisCell ==
  outcome = "ok" => record.cpu = Mine

\* A window is accepted only if no peer failed while it was open: the starved
\* window of run_multipeer's comment is never published.
AcceptedWasFed ==
  outcome = "ok" /\ kind \in Windowed => ~starved

\* An accepted measured process exited by itself with success before its kill,
\* and reported: a launch that died or a late answer is not a result.
AcceptedReported ==
  outcome = "ok" => proc[Measured] = "ok" /\ line # "none"

\* A peer is said to have died only of its own accord, never of the signal the
\* orchestrator sends at the end.
DiedByItself ==
  outcome = "died" => \E p \in Others : proc[p] = "failed"

\* As long as no failed spawn has left a process behind, an execution starts
\* with fresh leaves and leaves none behind, so that the memory peak of a record
\* belongs to its own processes.
FreshLeaves ==
  pc = "idle" /\ (\A p \in Procs : proc[p] # "unborn" => p \in reaped) =>
    /\ leaf = {}
    /\ outcome = "ok" => record.memory \subseteq Mine

\* In a throughput cell the probe is open before any message can flow.
ProbeBeforeFlow ==
  kind = "throughput" /\ pc \in {"spawn", "attach", "poll", "expired", "collect"}
    => (spawned = NumProcs => probed)

\* Every execution returns, though every process may hang.
CellReturns == pc # "idle" ~> pc = "idle"

\* Violated with Faults: a leaf is torn down after its tasks are gone.
ReapedBeforeTeardown ==
  pc = "drop" => \A r \in held : Tasks(r) = {}

-----------------------------------------------------------------------------
(* The inductive invariant behind the safety properties.                   *)

Dead(p) == proc[p] \notin {"unborn", "alive"}

\* The processes of an execution are born in order and a wait() returns only for
\* a dead one.
ProcInv ==
  /\ \A p \in Procs : p[1] > exec => proc[p] = "unborn"
  /\ pc # "idle" =>
       /\ exec >= 1
       /\ \A i \in Slots : proc[<<exec, i>>] # "unborn" <=> i <= spawned
  /\ \A p \in reaped : Dead(p)

\* What was reaped before an execution is what is not its own.
CpuInv == pc # "idle" => before = reaped \ Mine

\* How far each stage of the orchestrator has come.
StageInv ==
  /\ pc = "spawn" => spawned < NumProcs
  /\ pc = "spawn" /\ probed => kind = "throughput" /\ spawned = 1
  /\ pc = "attach" /\ probed => spawned = NumProcs
  /\ pc \in {"attach", "probe"} => spawned >= 1
  /\ pc = "probe" => spawned = NumProcs \/ (kind = "throughput" /\ spawned = 1)
  /\ pc \in {"poll", "expired", "collect", "await", "overdue", "sample", "kill", "judge"}
       => spawned = NumProcs
  /\ pc \in {"collect", "await", "overdue", "sample", "kill", "judge"}
       => Measured \in reaped
  /\ pc \in {"await", "overdue"} => kind = "throughput"
  /\ pc = "judge" => Mine \subseteq reaped
  /\ pc = "drop" => outcome = "nospawn" \/ Mine \subseteq reaped
  /\ pc = "drop" /\ outcome = "nospawn" => Faults

\* A peer that fails leaves its status behind until it is sampled.
FedInv ==
  /\ pc # "idle" /\ (starved \/ died) => \E p \in Others : proc[p] = "failed"
  /\ pc \in {"kill", "overdue", "judge"} /\ kind \in Windowed /\ starved => died

OutcomeInv ==
  /\ outcome \in {"ok", "died"} => pc \in {"drop", "idle"} /\ exec >= 1
  /\ outcome = "died" => \E p \in Others : proc[p] = "failed"
  /\ outcome = "ok" =>
       /\ Mine \subseteq reaped
       /\ record.cpu = Mine
       /\ proc[Measured] = "ok" /\ line # "none"
       /\ kind \in Windowed => ~starved

\* Where the probe is open; between its opening and the second spawn included.
ProbeInv ==
  /\ pc \in {"poll", "expired", "collect"} => probed
  /\ kind = "throughput" =>
       /\ pc = "spawn" /\ spawned >= 1 => probed
       /\ pc = "attach" /\ spawned >= 2 => probed

\* A refused spawn has left a process of an earlier execution unreaped.
Orphaned ==
  \E p \in Procs : /\ proc[p] # "unborn" /\ p \notin reaped
                   /\ pc # "idle" => p[1] < exec

\* Without such a process leaves are made anew and hold the execution's own.
LeafInv ==
  Orphaned \/ /\ leaf \subseteq held
              /\ \A r \in held : tenants[r] \subseteq Mine
              /\ outcome = "ok" => record.memory \subseteq Mine

HeldInv == pc = "idle" => held = {}

IInv ==
  /\ TypeOK /\ ProcInv /\ CpuInv /\ StageInv
  /\ NoOrphans /\ FedInv /\ OutcomeInv
  /\ ProbeInv /\ HeldInv /\ LeafInv

-----------------------------------------------------------------------------
(* How much an execution can take, which is what CellReturns rests on.     *)

\* Steps the orchestrator can take before the execution returns.  Until it polls
\* it has two for each process to start and one for a probe that is not open.
StartLeft == 2 * (NumProcs - spawned) + (IF probed THEN 0 ELSE 1)

StepsLeft ==
  CASE pc = "idle" -> 0
    [] pc = "drop" -> 1
    [] pc = "judge" -> 2
    [] pc \in {"kill", "overdue"} -> 3
    [] pc \in {"sample", "await"} -> 4
    [] pc = "collect" -> 5
    [] pc = "expired" -> 6
    [] pc = "poll" -> 7
    [] pc \in {"probe", "spawn"} -> 8 + StartLeft
    [] pc = "attach" -> 9 + StartLeft

\* The probe is opened once.
ProbeOnce == pc = "probe" => ~probed

\* Every step of an execution is paid for from an allowance fixed by the number
\* of its processes, and nothing they do adds to it.
WorkIsBounded ==
  [][/\ Orchestrator => StepsLeft' < StepsLeft
     /\ pc # "idle" => StepsLeft' <= StepsLeft
     /\ pc = "idle" => StepsLeft' <= 9 + 2 * NumProcs]_vars

=============================================================================
