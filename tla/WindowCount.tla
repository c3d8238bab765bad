----------------------------- MODULE WindowCount -----------------------------
(***************************************************************************)
(* The target processes of a multi-peer cell (targets/): PUB to N SUB, one *)
(* PUSH to N PULL, or N PUSH to one PULL.  The feeding side sends until it *)
(* is killed.  Every receiver waits for its first message, starts its      *)
(* clock, counts until the deadline and prints one THROUGHPUT line.        *)
(*                                                                         *)
(* The wrappers differ in whether the wait for the first message and the   *)
(* receives are bounded, in how they drain a burst, in whether the binding *)
(* side gathers its peers first and in what a full queue does to a PUB or  *)
(* a PUSH; these choices are a record per wrapper.  Time is the passing of *)
(* a receiver's deadline, at any moment after its clock started.           *)
(***************************************************************************)
EXTENDS Integers, FiniteSets

CONSTANTS
  Targets,  \* the wrappers considered, a set of records (below)
  Peers,    \* --peers: the connecting processes
  Sink,     \* the one receiver of a fan-in cell
  Room      \* messages a receiver's socket holds

Kinds == {"pubsub", "fanout", "fanin"}
Wrapper ==
  [kinds: SUBSET Kinds,
   gather: BOOLEAN,                                \* the binder waits for all
   full: {"drops", "blocks"},                      \* PUB at a full queue
   push: {"ready", "turns"},                       \* whom a PUSH may serve
   first: {"bounded", "unbounded"},                \* the first receive
   recv: {"timed", "blocking"},                    \* the receives of the window
   drain: {"none", "checked", "buffered", "live"}, \* after each of them
   onFirst: {"zero", "fails", "waits"},            \* the first receive fails
   onLate: {"reports", "fails", "counts", "waits"}] \* a later one fails

ASSUME TargetsAssumption == Targets \subseteq Wrapper
ASSUME PeersAssumption == Peers # {} /\ Sink \notin Peers
ASSUME RoomAssumption == Room \in Nat \ {0}

-----------------------------------------------------------------------------
(* The wrappers                                                            *)

\* Publishes at once, waits without a bound, receives one by one, reports what
\* it has when a receive fails.
Tmq ==
  [kinds |-> Kinds, gather |-> FALSE, full |-> "drops", push |-> "ready",
   first |-> "unbounded", recv |-> "blocking", drain |-> "none",
   onFirst |-> "zero", onLate |-> "reports"]
Rzmq == Tmq
ZeromqRs == [Tmq EXCEPT !.kinds = {"pubsub"}]
Celerity == [ZeromqRs EXCEPT !.gather = TRUE]

\* A receive timeout of 200 ms; any failed receive is taken for a timeout.
LibzmqCpp ==
  [Tmq EXCEPT !.first = "bounded", !.recv = "timed", !.onFirst = "waits", !.onLate = "waits"]
RustZmq == [Tmq EXCEPT !.recv = "timed", !.onFirst = "fails"]
ZmqRs ==
  [Tmq EXCEPT !.full = "blocks", !.recv = "timed", !.onFirst = "waits", !.onLate = "waits"]

MonocoquePubsub == [Tmq EXCEPT !.kinds = {"pubsub"}, !.gather = TRUE]
\* The PUSH goes round its workers.  What has arrived is drained without a new
\* read from the socket.
MonocoqueFanout ==
  [Tmq EXCEPT !.kinds = {"fanout"}, !.gather = TRUE, !.push = "turns",
              !.drain = "buffered"]
\* The deadline is looked at before every message of a burst.
MonocoqueFanin ==
  [Tmq EXCEPT !.kinds = {"fanin"}, !.gather = TRUE, !.drain = "checked"]

\* One thread runs the receiver and the library, so nothing arrives in a drain.
\* A PUSH rotates strictly: a full receiver holds up all of them.
OmqTokio == [Tmq EXCEPT !.full = "blocks", !.push = "turns", !.drain = "buffered"]
\* The same loop; other threads refill the queue it drains.
OmqMultiThread == [OmqTokio EXCEPT !.drain = "live"]
OmqBlocking == [OmqTokio EXCEPT !.drain = "checked"]

\* first_or_bail: ten seconds, then a zero window; a later failure raises.  The
\* publisher settles for a fixed time, which guarantees nothing.
Pyzmq == [Tmq EXCEPT !.first = "bounded", !.onLate = "fails"]
OmqRb  == Pyzmq
OmqCr  == Pyzmq
Netmq  == Pyzmq
\* The window does not look at what recv returned, so a null is counted.
Jeromq == [Pyzmq EXCEPT !.onLate = "counts"]

-----------------------------------------------------------------------------

VARIABLES
  target,   \* the wrapper of the cell
  kind,     \* the kind of the cell
  arrived,  \* peers that have ever joined the binding side
  joined,   \* peers that are connected now
  feeder,   \* the feeding side
  served,   \* receivers that have had their turn in a rotation
  pc,       \* receiver -> where it is
  queue,    \* receiver -> messages its socket holds
  passed,   \* receiver -> its deadline has passed
  burst,    \* receiver -> messages left of the burst it drains
  late,     \* receiver -> messages counted after its deadline, up to MaxLate
  line      \* receiver -> what it printed

cell == <<target, kind>>
vars == <<cell, arrived, joined, feeder, served, pc, queue, passed, burst, late, line>>

Receivers == Peers \cup {Sink}
Mine == IF kind = "fanin" THEN {Sink} ELSE Peers
MaxLate == Room + 1   \* bound: late counts up to here

InWindow(r) == pc[r] \in {"head", "recv", "drain", "try"}
Ended(r) == pc[r] \in {"done", "failed"}

TypeOK ==
  /\ target \in Targets /\ kind \in target.kinds
  /\ arrived \subseteq Peers /\ joined \subseteq arrived
  /\ feeder \in {"gathering", "feeding", "dead"} /\ served \subseteq Receivers
  /\ pc \in [Receivers -> {"out", "first", "head", "recv", "drain", "try", "done", "failed"}]
  /\ queue \in [Receivers -> 0..Room]
  /\ passed \in [Receivers -> BOOLEAN]
  /\ burst \in [Receivers -> 0..Room]
  /\ late \in [Receivers -> 0..MaxLate]
  /\ line \in [Receivers -> {"none", "zero", "counted"}]

Init ==
  /\ target \in Targets /\ kind \in target.kinds
  /\ arrived = {} /\ joined = {} /\ feeder = "gathering" /\ served = {}
  /\ pc = [r \in Receivers |-> "out"]
  /\ queue = [r \in Receivers |-> 0]
  /\ passed = [r \in Receivers |-> FALSE]
  /\ burst = [r \in Receivers |-> 0]
  /\ late = [r \in Receivers |-> 0]
  /\ line = [r \in Receivers |-> "none"]

Window == <<queue, passed, burst, late, line>>

-----------------------------------------------------------------------------
(* Joining and feeding                                                     *)

\* A peer connects to the binding side; in pubsub and fanout it then waits for
\* its first message.
Join(p) ==
  /\ p \notin arrived
  /\ arrived' = arrived \cup {p} /\ joined' = joined \cup {p}
  /\ pc' = IF kind = "fanin" THEN pc ELSE [pc EXCEPT ![p] = "first"]
  /\ UNCHANGED <<cell, served, feeder, Window>>

\* Slip: one accepted peer is enough.
AcceptOne ==
  /\ kind = "fanin" /\ pc[Sink] = "out"
  /\ target.gather => arrived # {}
  /\ pc' = [pc EXCEPT ![Sink] = "first"]
  /\ UNCHANGED <<cell, served, arrived, joined, feeder, Window>>

\* The sink of a fan-in cell turns to its first receive.
Accept ==
  /\ kind = "fanin" /\ pc[Sink] = "out"
  /\ target.gather => arrived = Peers
  /\ pc' = [pc EXCEPT ![Sink] = "first"]
  /\ UNCHANGED <<cell, served, arrived, joined, feeder, Window>>

\* Slip: one subscriber is enough.
FeedAfterOne ==
  /\ feeder = "gathering"
  /\ target.gather /\ kind # "fanin" => arrived # {}
  /\ feeder' = "feeding"
  /\ UNCHANGED <<cell, served, arrived, joined, pc, Window>>

\* The feeding side begins to send.
Feed ==
  /\ feeder = "gathering"
  /\ target.gather /\ kind # "fanin" => arrived = Peers
  /\ feeder' = "feeding"
  /\ UNCHANGED <<cell, served, arrived, joined, pc, Window>>

\* A message to every subscriber.  A full one loses it, or holds the publisher
\* up until it has room.
Publish ==
  /\ feeder = "feeding" /\ kind = "pubsub" /\ joined # {}
  /\ target.full = "blocks" => \A p \in joined : queue[p] < Room
  /\ queue' = [r \in Receivers |->
                 IF r \in joined /\ queue[r] < Room THEN queue[r] + 1 ELSE queue[r]]
  /\ UNCHANGED <<cell, served, arrived, joined, feeder, pc, passed, burst, late, line>>

\* One PUSH to many receivers serves those that have room, or goes round: none
\* has another message before every one that is connected has had its own.
Rotates == kind = "fanout" /\ target.push = "turns"
RoundOver == joined \subseteq served

\* A message to one receiver that has room: the PUSH side blocks otherwise.
Push(r) ==
  /\ feeder = "feeding" /\ kind # "pubsub" /\ r \in Mine
  /\ IF kind = "fanin" THEN joined # {} ELSE r \in joined
  /\ Rotates => r \notin served \/ RoundOver
  /\ queue[r] < Room
  /\ queue' = [queue EXCEPT ![r] = @ + 1]
  /\ served' = IF ~Rotates THEN served ELSE IF RoundOver THEN {r} ELSE served \cup {r}
  /\ UNCHANGED <<cell, arrived, joined, feeder, pc, passed, burst, late, line>>

\* The feeding side dies, or a send of it fails.
FeederDies ==
  /\ feeder # "dead"
  /\ feeder' = "dead"
  /\ UNCHANGED <<cell, served, arrived, joined, pc, Window>>

-----------------------------------------------------------------------------
(* A receiver                                                              *)

\* Slip: the binding side does not notice that a peer has left.
EndUnnoticed(r, status, said) ==
  /\ pc' = [pc EXCEPT ![r] = status]
  /\ line' = [line EXCEPT ![r] = said]
  /\ UNCHANGED <<cell, served, arrived, joined, feeder, queue, passed, burst, late>>

\* The process ends with what it has to say; its peers see it leave.
End(r, status, said) ==
  /\ pc' = [pc EXCEPT ![r] = status]
  /\ line' = [line EXCEPT ![r] = said]
  /\ joined' = joined \ {r}
  /\ UNCHANGED <<cell, served, arrived, feeder, queue, passed, burst, late>>

\* Nothing more will come: what a receive does then is up to the library, and
\* many wait for another peer.
Silent(r) == feeder = "dead" /\ queue[r] = 0

\* The first message starts the clock and is counted.
First(r) ==
  /\ pc[r] = "first" /\ queue[r] > 0
  /\ queue' = [queue EXCEPT ![r] = @ - 1]
  /\ pc' = [pc EXCEPT ![r] = "head"]
  /\ UNCHANGED <<cell, served, arrived, joined, feeder, passed, burst, late, line>>

\* Ten seconds without a message.
FirstExpires(r) ==
  /\ pc[r] = "first" /\ target.first = "bounded"
  /\ End(r, "done", "zero")

FirstFails(r) ==
  /\ pc[r] = "first" /\ Silent(r) /\ target.onFirst # "waits"
  /\ End(r, IF target.onFirst = "zero" THEN "done" ELSE "failed", "zero")

DeadlinePasses(r) ==
  /\ InWindow(r) /\ ~passed[r]
  /\ passed' = [passed EXCEPT ![r] = TRUE]
  /\ UNCHANGED <<cell, served, arrived, joined, feeder, pc, queue, burst, late, line>>

\* The head of the loop looks at the deadline.
Again(r) ==
  /\ pc[r] = "head" /\ ~passed[r]
  /\ pc' = [pc EXCEPT ![r] = "recv"]
  /\ UNCHANGED <<cell, served, arrived, joined, feeder, Window>>

Finish(r) ==
  /\ pc[r] = "head" /\ passed[r]
  /\ End(r, "done", "counted")

OneMore(r) ==
  late' = [late EXCEPT ![r] = IF passed[r] /\ @ < MaxLate THEN @ + 1 ELSE @]

\* A message is received and counted.
Count(r) ==
  /\ queue[r] > 0
  /\ queue' = [queue EXCEPT ![r] = @ - 1]
  /\ OneMore(r)
  /\ UNCHANGED <<cell, served, arrived, joined, feeder, passed, line>>

Take(r) ==
  /\ pc[r] = "recv"
  /\ Count(r)
  /\ pc' = [pc EXCEPT ![r] = IF target.drain = "none" THEN "head" ELSE "drain"]
  /\ burst' = [burst EXCEPT ![r] = IF target.drain = "buffered" THEN queue[r] - 1 ELSE 0]

\* Slip: the receive is repeated without a look at the deadline.
TickBlind(r) ==
  /\ pc[r] = "recv" /\ target.recv = "timed"
  /\ UNCHANGED vars

\* A timed receive comes back empty-handed.
Tick(r) ==
  /\ pc[r] = "recv" /\ target.recv = "timed"
  /\ pc' = [pc EXCEPT ![r] = "head"]
  /\ UNCHANGED <<cell, served, arrived, joined, feeder, Window>>

\* A receive fails in the window.
LateFails(r) ==
  /\ pc[r] = "recv" /\ Silent(r) /\ target.onLate \in {"reports", "fails"}
  /\ IF target.onLate = "reports" THEN End(r, "done", "counted")
                                  ELSE End(r, "failed", "none")

\* It fails unnoticed, and counts.
NullCounts(r) ==
  /\ pc[r] = "recv" /\ Silent(r) /\ target.onLate = "counts"
  /\ OneMore(r)
  /\ pc' = [pc EXCEPT ![r] = "head"]
  /\ UNCHANGED <<cell, served, arrived, joined, feeder, queue, passed, burst, line>>

\* Slip: the burst is drained to its end, as the async twin of this loop does.
CheckNothing(r) ==
  /\ pc[r] = "drain" /\ target.drain = "checked"
  /\ pc' = [pc EXCEPT ![r] = "try"]
  /\ UNCHANGED <<cell, served, arrived, joined, feeder, Window>>

\* The deadline is looked at before a message of the burst is asked for.
Check(r) ==
  /\ pc[r] = "drain" /\ target.drain = "checked"
  /\ pc' = [pc EXCEPT ![r] = IF passed[r] THEN "head" ELSE "try"]
  /\ UNCHANGED <<cell, served, arrived, joined, feeder, Window>>

Draining(r) ==
  \/ pc[r] = "try"
  \/ pc[r] = "drain" /\ target.drain \in {"buffered", "live"}

\* What a drain that asks for one more message can have.
Ready(r) == queue[r] > 0 /\ (target.drain = "buffered" => burst[r] > 0)

DrainOne(r) ==
  /\ Draining(r) /\ Ready(r)
  /\ Count(r)
  /\ pc' = [pc EXCEPT ![r] = "drain"]
  /\ burst' = [burst EXCEPT ![r] = IF @ > 0 THEN @ - 1 ELSE 0]

Drained(r) ==
  /\ Draining(r) /\ ~Ready(r)
  /\ pc' = [pc EXCEPT ![r] = "head"]
  /\ burst' = [burst EXCEPT ![r] = 0]
  /\ UNCHANGED <<cell, served, arrived, joined, feeder, queue, passed, late, line>>

-----------------------------------------------------------------------------

Loop(r) ==
  \/ First(r) \/ Again(r) \/ Finish(r) \/ Take(r) \/ Tick(r)
  \/ Check(r) \/ DrainOne(r) \/ Drained(r)

Feeding == Feed \/ Accept \/ Publish \/ (\E r \in Receivers : Push(r))

Next ==
  \/ Feeding \/ FeederDies
  \/ \E p \in Peers : Join(p)
  \/ \E r \in Receivers :
       \/ Loop(r) \/ FirstExpires(r) \/ DeadlinePasses(r)
       \/ FirstFails(r) \/ LateFails(r) \/ NullCounts(r)

Spec == Init /\ [][Next]_vars

\* Every process runs, time passes and PUSH serves every receiver it may serve;
\* nothing makes a library report that its peers are gone.
Fairness ==
  /\ WF_vars(Feed) /\ WF_vars(Accept) /\ WF_vars(Publish)
  /\ \A p \in Peers : WF_vars(Join(p))
  /\ \A r \in Receivers :
       /\ WF_vars(Push(r)) /\ WF_vars(Loop(r))
       /\ WF_vars(FirstExpires(r)) /\ WF_vars(DeadlinePasses(r))

FairSpec == Spec /\ Fairness

-----------------------------------------------------------------------------
(* Properties                                                              *)

\* A window runs past its deadline by the message it was waiting for, or, where
\* a burst is drained unchecked, by what the socket held.
OverrunBounded ==
  \A r \in Receivers :
    /\ target.drain \in {"none", "checked"} => late[r] <= 1
    /\ target.drain = "buffered" => late[r] <= Room

\* Where the binding side gathers its peers, no window opens before the last of
\* them has joined, so the rate of one receiver can speak for all.
WindowSeesAllPeers ==
  \A r \in Receivers :
    target.gather /\ (InWindow(r) \/ line[r] = "counted") => arrived = Peers

\* With a timed receive a window ends though nothing arrives any more.
TimedWindowEnds ==
  \A r \in Receivers :
    InWindow(r) /\ target.recv = "timed" /\ target.drain # "live" ~> ~InWindow(r)

\* A window that is fed ends, under back-pressure from slower receivers, whatever
\* the feeding side does about a full one and though it may hold up all others.
FedWindowEnds ==
  \A r \in Receivers :
    InWindow(r) /\ target.drain # "live" ~> ~InWindow(r) \/ feeder = "dead"

-----------------------------------------------------------------------------
(* The inductive invariant behind the safety properties.                   *)

\* Where the binder gathers, nothing is sent, or nothing received, before.
GatherInv ==
  target.gather =>
    /\ kind = "fanin" => \A r \in Receivers : pc[r] # "out" => arrived = Peers
    /\ kind # "fanin" /\ (feeder = "feeding" \/ (\E r \in Receivers : queue[r] > 0))
         => arrived = Peers

\* A receiver asks for a message with the deadline still ahead of it; the rest
\* of a buffered burst fits what the socket held when its first message came.
LateInv ==
  \A r \in Receivers :
    /\ ~passed[r] => late[r] = 0
    /\ pc[r] = "try" => target.drain = "checked"
    /\ target.drain # "live" /\ pc[r] \in {"recv", "try"} => late[r] = 0
    /\ pc[r] = "drain" /\ target.drain = "buffered" => late[r] + burst[r] <= Room

IInv ==
  /\ TypeOK /\ GatherInv /\ LateInv
  /\ OverrunBounded /\ WindowSeesAllPeers
=============================================================================
