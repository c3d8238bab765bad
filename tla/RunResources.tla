---------------------------- MODULE RunResources ----------------------------
(***************************************************************************)
(* What runs of the orchestrator share with one another on one machine:    *)
(* the named network namespace of netns.rs, the /proc mount of an image    *)
(* filesystem (RootfsMounts), the loopback ports and socket files of       *)
(* make_endpoint, and the target processes that use them.  Runs may be     *)
(* concurrent, may carry the same --run-id, and may be killed at any       *)
(* point, which runs no destructor and leaves their targets behind.        *)
(*                                                                         *)
(* A namespace is a kernel object with a name: deleting the name leaves    *)
(* the object to the processes in it.  Objects are named after the run     *)
(* that added them.  A cell is executed again and again, each time with    *)
(* one consumer, which binds, and one producer; how an execution goes is   *)
(* module CellExec's, here it ends whenever it likes.  One whose producer  *)
(* cannot be spawned leaves its consumer behind.                           *)
(***************************************************************************)
EXTENDS Integers, FiniteSets

CONSTANTS
  Runs,       \* runs started on the machine
  Ids,        \* values of --run-id; not giving it is one of them, "manual"
  Names,      \* namespace names
  Safe,       \* id -> name: every other character becomes a dash
  Ports,      \* loopback ports; for ipc the cells that name a socket file
  MaxCells,   \* bound: executions of cells in a run
  MaxTotal,   \* bound: executions in all runs, by the mounts given at the start
  Nobody      \* no run; also the host's namespace

ASSUME SafeAssumption == Safe \in [Ids -> Names]
ASSUME MaxCellsAssumption == MaxCells \in Nat

\* The executions of a run are numbered.
Executions == Runs \X (1..MaxCells)

ASSUME RunsAssumption == IsFiniteSet(Runs) /\ Nobody \notin Runs \cup Executions

Host == Nobody
Peers == {"consumer", "producer"}

Procs == Executions \X Peers

VARIABLES
  phase,      \* where each run is
  id,         \* its --run-id
  plan,       \* transport of its cells
  mounts,     \* /proc mounts stacked on the image filesystem
  given,      \* those the operator made before any run
  mine,       \* runs whose own mount is still there
  seen,       \* runs that had a /proc once mount_all returned
  named,      \* name -> the namespace object behind it
  up,         \* namespace objects whose loopback is up
  ns,         \* NETNS: whether the run has a namespace, and why not
  cells,      \* executions each run has begun
  port,       \* execution -> the port it was given, or the cell for ipc, while
              \* one of its processes may use it
  alive,      \* target processes that run
  net,        \* process -> namespace object it runs in, Host unless it runs
  bound,      \* executions whose consumer can be reached at its endpoint
  unbound,    \* those whose consumer failed to bind
  peer,       \* execution -> that whose consumer its producer is connected to
  left,       \* executions that ended with their consumer still running
  met         \* pairs of runs that were running at the same time

mount  == <<mounts, given, mine, seen>>
spaces == <<named, up, ns>>
procs  == <<port, alive, net, bound, unbound, peer, left>>
vars == <<phase, id, plan, mount, spaces, cells, procs, met>>

Creating  == {"del", "add", "up", "undo"}
Measuring == {"cells", "consumer", "producer", "running"}
Outside   == {"new", "killed", "over"}

TypeOK ==
  /\ phase \in [Runs -> Creating \cup Measuring \cup Outside
                       \cup {"look", "mount", "gates", "drop"}]
  /\ id \in [Runs -> Ids]
  /\ plan \in [Runs -> {"tcp", "ipc"}]
  /\ mounts \in Nat /\ given \in 0..1
  /\ mine \subseteq Runs /\ seen \subseteq Runs
  /\ named \in [Names -> Runs \cup {Nobody}]
  /\ up \subseteq Runs
  /\ ns \in [Runs -> {"none", "some", "refused", "collided"}]
  /\ cells \in [Runs -> 0..MaxCells]
  /\ port \in [Executions -> Ports \cup {Nobody}]
  /\ alive \subseteq Procs
  /\ net \in [Procs -> Runs \cup {Host}]
  /\ bound \subseteq Executions /\ unbound \subseteq Executions
  /\ peer \in [Executions -> Executions \cup {Nobody}]
  /\ left \subseteq Executions
  /\ met \subseteq Runs \X Runs

Name(r) == Safe[id[r]]
Live(r) == phase[r] \notin Outside

Init ==
  /\ phase = [r \in Runs |-> "new"]
  /\ id \in [Runs -> Ids] /\ plan \in [Runs -> {"tcp", "ipc"}]
  /\ given \in 0..1 /\ mounts = given /\ mine = {} /\ seen = {}
  /\ named = [n \in Names |-> Nobody] /\ up = {}
  /\ ns = [r \in Runs |-> "none"]
  /\ cells = [r \in Runs |-> 0]
  /\ port = [e \in Executions |-> Nobody]
  /\ alive = {} /\ net = [p \in Procs |-> Host]
  /\ bound = {} /\ unbound = {} /\ left = {}
  /\ peer = [e \in Executions |-> Nobody]
  /\ met = {}

Goto(r, p) == phase' = [phase EXCEPT ![r] = p]

\* The operator starts a run.
Start(r) ==
  /\ phase[r] = "new"
  /\ Goto(r, "look")
  /\ met' = met \cup {<<r, s>> : s \in {q \in Runs : Live(q)}}
                \cup {<<s, r>> : s \in {q \in Runs : Live(q)}}
  /\ UNCHANGED <<id, plan, mount, spaces, cells, procs>>

-----------------------------------------------------------------------------
(* RootfsMounts                                                            *)

\* mount_all leaves a /proc that is there alone, whoever mounted it.
LookProc(r) ==
  /\ phase[r] = "look"
  /\ IF mounts > 0 THEN Goto(r, "gates") /\ seen' = seen \cup {r}
                    ELSE Goto(r, "mount") /\ UNCHANGED seen
  /\ UNCHANGED <<id, plan, mounts, given, mine, spaces, cells, procs, met>>

\* Slip: the guard is not kept (`let _ =''), so the mount is gone at once.
MountNotHeld(r) ==
  /\ phase[r] = "mount"
  /\ seen' = seen \cup {r}
  /\ Goto(r, "gates")
  /\ UNCHANGED <<id, plan, mounts, given, mine, spaces, cells, procs, met>>

\* Mounts stack: one that was made since the look is covered.  A mount that is
\* refused is not an error of its own.
MountProc(r) ==
  /\ phase[r] = "mount"
  /\ \/ mounts' = mounts + 1 /\ mine' = mine \cup {r} /\ seen' = seen \cup {r}
     \/ UNCHANGED <<mounts, mine, seen>>
  /\ Goto(r, "gates")
  /\ UNCHANGED <<id, plan, given, spaces, cells, procs, met>>

\* The preflight and the host gate, which may end the run before its first cell;
\* the mounts are dropped then too.  A namespace is made for tcp cells only.
PassGates(r) ==
  /\ phase[r] = "gates"
  /\ \/ Goto(r, IF plan[r] = "tcp" THEN "del" ELSE "cells")
     \/ Goto(r, "drop")
  /\ UNCHANGED <<id, plan, mount, spaces, cells, procs, met>>

\* RootfsMounts::drop: umount takes the topmost mount, or fails and leaves it.
DropMounts(r) ==
  /\ phase[r] = "drop"
  /\ \/ r \in mine /\ mounts' = mounts - 1 /\ mine' = mine \ {r}
     \/ UNCHANGED <<mounts, mine>>
  /\ Goto(r, "over")
  /\ UNCHANGED <<id, plan, given, seen, spaces, cells, procs, met>>

-----------------------------------------------------------------------------
(* NetNs::create                                                           *)

\* Slip: a leftover is taken for the run's own.
AdoptLeftover(r) ==
  /\ phase[r] = "del"
  /\ IF named[Name(r)] = Nobody
     THEN Goto(r, "add") /\ UNCHANGED ns
     ELSE Goto(r, "cells") /\ ns' = [ns EXCEPT ![r] = "some"]
  /\ UNCHANGED <<id, plan, mount, named, up, cells, procs, met>>

\* ip netns del: the name goes, its object stays with the processes in it.
DelLeftover(r) ==
  /\ phase[r] = "del"
  /\ named' = [named EXCEPT ![Name(r)] = Nobody]
  /\ Goto(r, "add")
  /\ UNCHANGED <<id, plan, mount, up, ns, cells, procs, met>>

\* ip netns add, which makes a new object or fails if the name is taken.
AddNs(r) ==
  /\ phase[r] = "add"
  /\ IF named[Name(r)] = Nobody
     THEN /\ named' = [named EXCEPT ![Name(r)] = r]
          /\ Goto(r, "up")
          /\ UNCHANGED ns
     ELSE /\ ns' = [ns EXCEPT ![r] = "collided"]
          /\ Goto(r, "cells")
          /\ UNCHANGED named
  /\ UNCHANGED <<id, plan, mount, up, cells, procs, met>>

\* Without root there is no namespace, and the cells run on host loopback.
AddRefused(r) ==
  /\ phase[r] = "add"
  /\ ns' = [ns EXCEPT ![r] = "refused"]
  /\ Goto(r, "cells")
  /\ UNCHANGED <<id, plan, mount, named, up, cells, procs, met>>

\* ip link set lo up, executed in whatever object the name stands for by now.
LoUp(r) ==
  /\ phase[r] = "up" /\ named[Name(r)] # Nobody
  /\ up' = up \cup {named[Name(r)]}
  /\ ns' = [ns EXCEPT ![r] = "some"]
  /\ Goto(r, "cells")
  /\ UNCHANGED <<id, plan, mount, named, cells, procs, met>>

\* It fails: the name is gone, or the interface cannot be set up.
LoUpFails(r) ==
  /\ phase[r] = "up"
  /\ ns' = [ns EXCEPT ![r] = IF named[Name(r)] = Nobody THEN "collided" ELSE "refused"]
  /\ Goto(r, "undo")
  /\ UNCHANGED <<id, plan, mount, named, up, cells, procs, met>>

UndoNs(r) ==
  /\ phase[r] = "undo"
  /\ named' = [named EXCEPT ![Name(r)] = Nobody]
  /\ Goto(r, "cells")
  /\ UNCHANGED <<id, plan, mount, up, ns, cells, procs, met>>

-----------------------------------------------------------------------------
(* One execution after the other                                           *)

\* The execution that is under way.
This(r) == <<r, cells[r]>>

Plan(e) == plan[e[1]]

\* Executions of whatever run whose consumer listens at the path of a cell, which
\* is named after the raw id.
AtPath(r, cell) ==
  {f \in bound : Plan(f) = "ipc" /\ id[f[1]] = id[r] /\ port[f] = cell}

AtPort(space, p) ==
  {f \in bound : Plan(f) = "tcp" /\ net[<<f, "consumer">>] = space /\ port[f] = p}

\* Those that listen at the endpoint of a process.
Listening(e, p) ==
  IF Plan(e) = "ipc" THEN AtPath(e[1], port[e]) ELSE AtPort(net[<<e, p>>], port[e])

\* make_endpoint: a socket file that is there is removed, which cuts its listener
\* off; a port is probed in the host's namespace and released.
MakeEndpoint(r) ==
  /\ phase[r] = "cells" /\ cells[r] < MaxCells
  /\ Cardinality({e \in Executions : e[2] <= cells[e[1]]}) < MaxTotal[given]
  /\ \E p \in Ports :
       /\ port' = [port EXCEPT ![<<r, cells[r] + 1>>] = p]
       /\ IF plan[r] = "ipc" THEN bound' = bound \ AtPath(r, p)
                              ELSE AtPort(Host, p) = {} /\ UNCHANGED bound
  /\ cells' = [cells EXCEPT ![r] = @ + 1]
  /\ Goto(r, "consumer")
  /\ UNCHANGED <<id, plan, mount, spaces, alive, net, unbound, peer, left, met>>

\* Slip: a target falls back to the host's namespace when its own is gone.
SpawnAnyway(r, p) ==
  /\ phase[r] = p
  /\ Goto(r, IF p = "consumer" THEN "producer" ELSE "running")
  /\ alive' = alive \cup {<<This(r), p>>}
  /\ net' = [net EXCEPT ![<<This(r), p>>] =
                IF plan[r] = "tcp" /\ ns[r] = "some" THEN named[Name(r)] ELSE Host]
  /\ UNCHANGED <<id, plan, mount, spaces, cells, port, bound, unbound, peer, left, met>>

\* target_command: a tcp target is started by `ip netns exec', which looks the
\* name up and ends at once if there is none.
Spawn(r, p) ==
  /\ phase[r] = p
  /\ Goto(r, IF p = "consumer" THEN "producer" ELSE "running")
  /\ IF plan[r] = "tcp" /\ ns[r] = "some"
     THEN IF named[Name(r)] = Nobody
          THEN UNCHANGED <<alive, net>>
          ELSE /\ alive' = alive \cup {<<This(r), p>>}
               /\ net' = [net EXCEPT ![<<This(r), p>>] = named[Name(r)]]
     ELSE /\ alive' = alive \cup {<<This(r), p>>}
          /\ net' = [net EXCEPT ![<<This(r), p>>] = Host]
  /\ UNCHANGED <<id, plan, mount, spaces, cells, port, bound, unbound, peer, left, met>>

\* A process cannot be spawned.  The execution ends there and drops the consumer's
\* Child, which neither kills nor reaps it; its socket file stays as well.
SpawnRefused(r) ==
  /\ phase[r] \in Peers
  /\ left' = left \cup {e \in {This(r)} : <<e, "consumer">> \in alive}
  /\ Goto(r, "cells")
  /\ UNCHANGED <<id, plan, mount, spaces, cells, port, alive, net, bound, unbound, peer, met>>

\* Slip: the producer is left running.
EndCellConsumer(r) ==
  /\ phase[r] = "running"
  /\ alive' = alive \ {<<This(r), "consumer">>}
  /\ bound' = bound \ {This(r)}
  /\ Goto(r, "cells")
  /\ UNCHANGED <<id, plan, mount, spaces, cells, port, net, unbound, peer, left, met>>

\* Both processes have ended or are killed, and are reaped (CellExec.NoOrphans);
\* the socket file goes, whoever listens at it by now.
EndCell(r) ==
  /\ phase[r] = "running"
  /\ alive' = alive \ {<<This(r), p>> : p \in Peers}
  /\ net' = [q \in Procs |-> IF q[1] = This(r) THEN Host ELSE net[q]]
  /\ port' = [port EXCEPT ![This(r)] = Nobody]
  /\ bound' = bound \ ({This(r)} \cup
                       (IF plan[r] = "ipc" THEN AtPath(r, port[This(r)]) ELSE {}))
  /\ peer' = [peer EXCEPT ![This(r)] = Nobody]
  /\ Goto(r, "cells")
  /\ UNCHANGED <<id, plan, mount, spaces, cells, unbound, left, met>>

\* The run is over.  NETNS is a static, which Rust does not drop: the namespace
\* stays.  The mounts are dropped next.
EndRun(r) ==
  /\ phase[r] = "cells"
  /\ Goto(r, "drop")
  /\ UNCHANGED <<id, plan, mount, spaces, cells, procs, met>>

\* The orchestrator is killed, and nothing is dropped.
Kill(r) ==
  /\ Live(r)
  /\ Goto(r, "killed")
  /\ UNCHANGED <<id, plan, mount, spaces, cells, procs, met>>

-----------------------------------------------------------------------------
(* The targets                                                             *)

Gone(e, p) ==
  /\ alive' = alive \ {<<e, p>>}
  /\ net' = [net EXCEPT ![<<e, p>>] = Host]

\* A consumer binds; a port that is taken or a loopback that is down ends it.
\* A socket file is replaced by some libraries and refused by others.
Bind(e) ==
  /\ <<e, "consumer">> \in alive /\ e \notin bound
  /\ \/ /\ Listening(e, "consumer") = {}
        /\ Plan(e) = "ipc" \/ net[<<e, "consumer">>] \in up \cup {Host}
        /\ bound' = bound \cup {e}
        /\ UNCHANGED <<alive, net, unbound>>
     \/ /\ Plan(e) = "ipc" /\ Listening(e, "consumer") # {}
        /\ bound' = (bound \ Listening(e, "consumer")) \cup {e}
        /\ UNCHANGED <<alive, net, unbound>>
     \/ /\ \/ Listening(e, "consumer") # {}
           \/ Plan(e) = "tcp" /\ net[<<e, "consumer">>] \notin up \cup {Host}
        /\ unbound' = unbound \cup {e}
        /\ Gone(e, "consumer")
        /\ UNCHANGED bound
  /\ UNCHANGED <<phase, id, plan, mount, spaces, cells, port, peer, left, met>>

\* A producer connects to whoever listens, and again when its peer is gone.
Connect(e) ==
  /\ <<e, "producer">> \in alive
  /\ peer[e] = Nobody \/ <<peer[e], "consumer">> \notin alive
  /\ \E f \in Listening(e, "producer") : peer' = [peer EXCEPT ![e] = f]
  /\ UNCHANGED <<phase, id, plan, mount, spaces, cells, port, alive, net, bound,
                 unbound, left, met>>

\* A target ends or crashes, an orphan included.
Exit(e, p) ==
  /\ <<e, p>> \in alive /\ Gone(e, p)
  /\ bound' = IF p = "consumer" THEN bound \ {e} ELSE bound
  /\ peer' = IF p = "producer" THEN [peer EXCEPT ![e] = Nobody] ELSE peer
  /\ UNCHANGED <<phase, id, plan, mount, spaces, cells, port, unbound, left, met>>

-----------------------------------------------------------------------------

Orchestrator(r) ==
  \/ LookProc(r) \/ MountProc(r) \/ PassGates(r)
  \/ DelLeftover(r) \/ AddNs(r) \/ AddRefused(r) \/ LoUp(r) \/ LoUpFails(r) \/ UndoNs(r)
  \/ MakeEndpoint(r) \/ (\E p \in Peers : Spawn(r, p)) \/ SpawnRefused(r) \/ EndCell(r)
  \/ EndRun(r) \/ DropMounts(r)

Target(e) == Bind(e) \/ Connect(e) \/ \E p \in Peers : Exit(e, p)

Finished == (\A r \in Runs : ~Live(r) /\ phase[r] # "new") /\ UNCHANGED vars

Next ==
  \/ \E r \in Runs : Start(r) \/ Kill(r) \/ Orchestrator(r)
  \/ \E e \in Executions : Target(e)
  \/ Finished

Spec == Init /\ [][Next]_vars

-----------------------------------------------------------------------------
(* Properties                                                              *)

\* Runs whose namespaces carry one name and that ran at the same time; a run
\* killed before another started is no rival of it.
Rival(r) == \E s \in Runs : <<r, s>> \in met /\ Name(r) = Name(s)

\* A leftover namespace, of a killed run or of one that ended, never costs a run
\* its own: without a rival, add meets no taken name and the name stands for the
\* run's own object for as long as it measures.  (netns.rs:54-56.)
NamespaceIsOwn ==
  \A r \in Runs : ~Rival(r) =>
    /\ ns[r] # "collided"
    /\ Live(r) /\ ns[r] = "some" => named[Name(r)] = r /\ r \in up

\* Whoever deletes or replaces the namespace of a run that counts as isolated,
\* none of its targets ends up on host loopback; without a rival both peers of
\* each cell are in the run's own namespace.  (netns.rs:9-11, main.rs:892-894.)
TargetsStayInside ==
  \A e \in Executions, p \in Peers :
    <<e, p>> \in alive /\ Plan(e) = "tcp" /\ ns[e[1]] = "some" =>
      net[<<e, p>>] # Host /\ (~Rival(e[1]) => net[<<e, p>>] = e[1])

\* A port is probed in another namespace than it is used in, and ports come again.
\* Still, in a namespace without a rival a consumer finds its port taken only if
\* the run has left a consumer behind itself, that one or another; its producers
\* are connected to their own consumer or to one the run left, and no
\* other run's are to its consumers.  (main.rs:791-796, 1208-1211.)
TrafficIsPrivate ==
  \A e \in Executions :
    LET r == e[1]
    IN plan[r] = "tcp" /\ ns[r] = "some" /\ ~Rival(r) =>
         /\ e \in unbound =>
              \E f \in Executions \ {e} : f[1] = r /\ (e \in left \/ f \in left)
         /\ peer[e] = Nobody \/ peer[e] = e \/ (peer[e] \in left /\ peer[e][1] = r)
         /\ \A f \in Executions : peer[f] = e => f[1] = r

\* Over any transport, a producer is connected to a consumer of another run only if
\* the two ran at the same time, one of them was killed, or the consumer was left
\* behind when its producer could not be spawned: nothing else outlives the
\* execution it belongs to.  (main.rs:1208-1240, 1340-1372.)
CrossingNeedsOrphans ==
  \A e, f \in Executions : peer[e] = f /\ e[1] # f[1] =>
    \/ <<e[1], f[1]>> \in met
    \/ phase[e[1]] = "killed" \/ phase[f[1]] = "killed"
    \/ f \in left

\* The mounts on the image filesystem are as many as the operator's and one per run
\* that made one and has not taken one back.  Whose is taken back it does not say:
\* umount takes the topmost.  Part of IInv, for ProcStays.
MountsBalance == mounts = given + Cardinality(mine)

\* A run that had a /proc at its preflight has one to its end if the mount is its
\* own; if it found it, it may lose it only to a run it overlapped with and that
\* has ended since.  (main.rs:252-253, 965-966.)
ProcStays ==
  \A r \in Runs :
    Live(r) /\ r \in seen /\ mounts = 0 =>
      r \notin mine /\ \E s \in Runs : <<r, s>> \in met /\ phase[s] = "over"

\* Violated: a namespace lives as long as the value that stands for it; it is
\* gone when its run has ended.  (netns.rs:19, 78-80.)
NamespaceEndsWithRun ==
  \A r \in Runs : phase[r] = "over" => named[Name(r)] # r

-----------------------------------------------------------------------------
(* The inductive invariant behind the safety properties.                   *)

\* Whoever runs beside another has met it.
MetInv ==
  \A r, s \in Runs :
    /\ <<r, s>> \in met => <<s, r>> \in met
    /\ Live(r) /\ Live(s) /\ r # s => <<r, s>> \in met

\* What a run has by the stages it has passed.
StageInv ==
  \A r \in Runs :
    /\ phase[r] \in {"new", "look", "mount"} => r \notin mine /\ r \notin seen
    /\ phase[r] \in {"new", "look", "mount", "gates"} \cup Creating => cells[r] = 0
    /\ phase[r] \in {"new", "look", "mount", "gates", "del", "add", "up"} => ns[r] = "none"
    /\ phase[r] = "undo" => ns[r] \in {"refused", "collided"}

\* What an execution has by then: nothing before it begins, and only a consumer
\* that was left when it has ended.
TargetOf(e) ==
  /\ \A p \in Peers : <<e, p>> \in alive =>
       \/ e = This(e[1]) /\ phase[e[1]] \in {"running", "killed"}
       \/ e = This(e[1]) /\ phase[e[1]] = "producer" /\ p = "consumer"
       \/ e \in left /\ p = "consumer"
  /\ e \in bound => <<e, "consumer">> \in alive
  /\ peer[e] # Nobody => <<e, "producer">> \in alive
  /\ e[2] > cells[e[1]] =>
       e \notin left /\ e \notin unbound /\ \A f \in Executions : peer[f] # e

TargetInv == \A e \in Executions : TargetOf(e)

\* A run that spawns is in an execution.
BegunInv ==
  \A r \in Runs : phase[r] \in {"consumer", "producer", "running"} => cells[r] > 0

\* Whose object a name may stand for: an object keeps the name its run gave it,
\* and one that a run finds behind its own name is of a run it has met.
NameInv ==
  /\ \A n \in Names : named[n] # Nobody => Name(named[n]) = n
  /\ \A r, s \in Runs :
       /\ Live(s) /\ (phase[s] \in {"add", "up", "undo"} \/ ns[s] = "some")
       /\ named[Name(s)] = r /\ r # s
       => <<r, s>> \in met
  /\ \A r \in Runs : ~Rival(r) =>
       /\ phase[r] = "add" => named[Name(r)] = Nobody
       /\ phase[r] = "up" => named[Name(r)] = r
       /\ ns[r] = "some" => r \in up

\* No one else lives in a run's object unless the two are rivals.
HomeInv ==
  \A r \in Runs, e \in Executions, p \in Peers :
    <<e, p>> \in alive /\ net[<<e, p>>] = r /\ ~Rival(r) => e[1] = r

\* A /proc that was seen is there still, or went with a run that was met.
SeenInv ==
  \A r \in Runs :
    Live(r) /\ r \in seen =>
      given > 0 \/ mine # {} \/ \E s \in Runs : <<r, s>> \in met /\ phase[s] = "over"

IInv ==
  /\ TypeOK /\ MetInv /\ StageInv /\ BegunInv /\ TargetInv /\ NameInv /\ HomeInv /\ SeenInv
  /\ MountsBalance
  /\ NamespaceIsOwn /\ TargetsStayInside /\ TrafficIsPrivate /\ CrossingNeedsOrphans

=============================================================================
