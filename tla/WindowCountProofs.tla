-------------------------- MODULE WindowCountProofs --------------------------
(***************************************************************************)
(* Proofs about WindowCount for every set of wrappers, every number of     *)
(* peers and every size of a socket's queue: the inductive invariant IInv, *)
(* and from it the bound on a window's overrun and the gathering of peers. *)
(***************************************************************************)
EXTENDS WindowCount, TLAPS

\* The binder's side of the state, which the steps of a receiver leave alone.
binder == <<cell, arrived, feeder>>

LEMMA InitIInv == Init => IInv
BY RoomAssumption
DEF Init, IInv, TypeOK, GatherInv, LateInv, OverrunBounded, WindowSeesAllPeers,
    InWindow, MaxLate

LEMMA JoinStep ==
  ASSUME IInv, NEW p \in Peers, Join(p)
  PROVE  IInv'
<1> USE DEF Join, Window, cell
<1>1. TypeOK'
  BY DEF IInv, TypeOK, Receivers
<1>2. arrived # Peers
  OBVIOUS
<1>3. GatherInv'
  BY <1>2 DEF IInv, TypeOK, GatherInv, Receivers
<1>4. LateInv' /\ OverrunBounded'
  BY DEF IInv, TypeOK, LateInv, OverrunBounded, Receivers
<1>5. WindowSeesAllPeers'
  BY <1>2 DEF IInv, TypeOK, WindowSeesAllPeers, InWindow, Receivers
<1>6. QED
  BY <1>1, <1>3, <1>4, <1>5 DEF IInv

\* The binding side turns to its work once it has its peers.
LEMMA BinderStep ==
  ASSUME IInv, Accept \/ Feed \/ FeederDies
  PROVE  IInv'
<1> USE DEF Accept, Feed, FeederDies, Window, cell
<1>1. TypeOK'
  BY DEF IInv, TypeOK, Receivers
<1>2. GatherInv'
  BY DEF IInv, TypeOK, GatherInv, Receivers
<1>3. LateInv' /\ OverrunBounded'
  BY DEF IInv, TypeOK, LateInv, OverrunBounded, Receivers
<1>4. WindowSeesAllPeers'
  BY DEF IInv, TypeOK, WindowSeesAllPeers, InWindow, Receivers
<1>5. QED
  BY <1>1, <1>2, <1>3, <1>4 DEF IInv

LEMMA SendStep ==
  ASSUME IInv, Publish \/ \E r \in Receivers : Push(r)
  PROVE  IInv'
<1>1. feeder = "feeding"
  BY DEF Publish, Push
<1>2. /\ UNCHANGED <<binder, joined, pc, passed, burst, late, line>>
      /\ queue' \in [Receivers -> 0..Room] /\ served' \subseteq Receivers
  <2>1. CASE Publish
    BY <2>1, RoomAssumption DEF Publish, IInv, TypeOK, binder, cell
  <2>2. CASE \E r \in Receivers : Push(r)
    BY <2>2, RoomAssumption DEF Push, Mine, Receivers, IInv, TypeOK, binder, cell
  <2>3. QED
    BY <2>1, <2>2
<1>3. TypeOK'
  BY <1>2 DEF IInv, TypeOK, binder, cell
<1>4. GatherInv'
  BY <1>1, <1>2 DEF IInv, GatherInv, binder, cell
<1>5. LateInv' /\ OverrunBounded' /\ WindowSeesAllPeers'
  BY <1>2 DEF IInv, LateInv, OverrunBounded, WindowSeesAllPeers, InWindow, binder, cell
<1>6. QED
  BY <1>3, <1>4, <1>5 DEF IInv

\* A receiver that stays in its window, or enters it with a message, leaves the
\* gathering as it was.
LEMMA GatherKept ==
  ASSUME IInv, NEW r \in Receivers, UNCHANGED binder,
         pc[r] # "out",
         queue' = queue \/ (queue[r] > 0 /\ queue' = [queue EXCEPT ![r] = @ - 1]),
         NEW c \in {"first", "head", "recv", "drain", "try", "done", "failed"},
         pc' = [pc EXCEPT ![r] = c],
         NEW l \in {"none", "zero", "counted"},
         line' = [line EXCEPT ![r] = l],
         InWindow(r) \/ queue[r] > 0 \/ (c \in {"done", "failed"} /\ l # "counted")
  PROVE  GatherInv' /\ WindowSeesAllPeers'
<1> USE DEF IInv, TypeOK, GatherInv, WindowSeesAllPeers, InWindow, binder, cell
<1>1. GatherInv'
  BY RoomAssumption
<1>2. CASE InWindow(r) \/ queue[r] > 0
  <2>1. target.gather => arrived = Peers
    BY <1>2
  <2>2. QED
    BY <1>1, <2>1
<1>3. CASE c \in {"done", "failed"} /\ l # "counted"
  BY <1>1, <1>3
<1>4. QED
  BY <1>2, <1>3

\* A receiver ends.
LEMMA EndStep ==
  ASSUME IInv, NEW r \in Receivers, Finish(r) \/ FirstExpires(r) \/ FirstFails(r)
                                      \/ LateFails(r)
  PROVE  IInv'
<1>1. PICK c \in {"done", "failed"}, l \in {"none", "zero", "counted"} :
         /\ End(r, c, l)
         /\ InWindow(r) \/ (pc[r] = "first" /\ l # "counted")
  BY DEF Finish, FirstExpires, FirstFails, LateFails, InWindow
<1>2. TypeOK'
  BY <1>1 DEF IInv, TypeOK, End, cell
<1>3. GatherInv' /\ WindowSeesAllPeers'
  BY <1>1, GatherKept DEF IInv, TypeOK, End, binder, cell, InWindow
<1>4. LateInv' /\ OverrunBounded'
  BY <1>1 DEF IInv, TypeOK, LateInv, OverrunBounded, End, cell
<1>5. QED
  BY <1>2, <1>3, <1>4 DEF IInv

LEMMA DeadlineStep ==
  ASSUME IInv, NEW r \in Receivers, DeadlinePasses(r)
  PROVE  IInv'
<1> USE DEF DeadlinePasses, cell
<1>1. TypeOK'
  BY DEF IInv, TypeOK
<1>2. GatherInv' /\ WindowSeesAllPeers'
  BY DEF IInv, GatherInv, WindowSeesAllPeers, InWindow
<1>3. LateInv' /\ OverrunBounded'
  BY DEF IInv, TypeOK, LateInv, OverrunBounded, cell
<1>4. QED
  BY <1>1, <1>2, <1>3 DEF IInv

\* A receiver moves on in its loop without a message.
LEMMA MoveStep ==
  ASSUME IInv, NEW r \in Receivers, Again(r) \/ Tick(r) \/ Check(r) \/ Drained(r)
  PROVE  IInv'
<1>1. PICK c \in {"head", "recv", "try"} :
         /\ pc' = [pc EXCEPT ![r] = c]
         /\ InWindow(r)
         /\ c = "recv" => ~passed[r]
         /\ c = "try" => ~passed[r] /\ target.drain = "checked"
  BY DEF Again, Tick, Check, Drained, Draining, InWindow
<1>2. /\ UNCHANGED <<binder, served, joined, queue, passed, late, line>>
      /\ burst' = burst \/ burst' = [burst EXCEPT ![r] = 0]
  BY DEF Again, Tick, Check, Drained, Window, binder, cell
<1>3. TypeOK'
  BY <1>1, <1>2, RoomAssumption DEF IInv, TypeOK, binder, cell
<1>4. GatherInv' /\ WindowSeesAllPeers'
  <2>1. line' = [line EXCEPT ![r] = line[r]] /\ line[r] \in {"none", "zero", "counted"}
    BY <1>2 DEF IInv, TypeOK
  <2>2. QED
    BY <1>1, <1>2, <2>1, GatherKept DEF InWindow
<1>5. LateInv' /\ OverrunBounded'
  BY <1>1, <1>2 DEF IInv, TypeOK, LateInv, OverrunBounded, binder, cell
<1>6. QED
  BY <1>3, <1>4, <1>5 DEF IInv

\* A receiver counts a null.
LEMMA NullStep ==
  ASSUME IInv, NEW r \in Receivers, NullCounts(r)
  PROVE  IInv'
<1>1. TypeOK'
  BY RoomAssumption DEF NullCounts, OneMore, MaxLate, IInv, TypeOK, cell
<1>2. GatherInv' /\ WindowSeesAllPeers'
  BY DEF NullCounts, IInv, TypeOK, GatherInv, WindowSeesAllPeers, InWindow, cell
<1>3. LateInv' /\ OverrunBounded'
  BY RoomAssumption
  DEF NullCounts, OneMore, MaxLate, IInv, TypeOK, LateInv, OverrunBounded, cell
<1>4. QED
  BY <1>1, <1>2, <1>3 DEF IInv

\* A receiver gets a message.
LEMMA MessageStep ==
  ASSUME IInv, NEW r \in Receivers, First(r) \/ Take(r) \/ DrainOne(r)
  PROVE  IInv'
<1>1. /\ queue[r] > 0 /\ queue' = [queue EXCEPT ![r] = @ - 1]
      /\ UNCHANGED <<binder, served, joined, passed, line>>
  BY DEF First, Take, DrainOne, Count, binder, cell
<1>2. PICK c \in {"head", "drain"} : pc' = [pc EXCEPT ![r] = c]
  BY DEF First, Take, DrainOne
<1>3. GatherInv' /\ WindowSeesAllPeers'
  <2>1. line' = [line EXCEPT ![r] = line[r]] /\ line[r] \in {"none", "zero", "counted"}
    BY <1>1 DEF IInv, TypeOK
  <2>2. pc[r] # "out"
    BY DEF First, Take, DrainOne, Draining
  <2>3. QED
    BY <1>1, <1>2, <2>1, <2>2, GatherKept
<1>4. CASE First(r)
  <2>1. TypeOK'
    BY <1>1, <1>2, <1>4, RoomAssumption DEF First, IInv, TypeOK, binder, cell
  <2>2. LateInv' /\ OverrunBounded'
    BY <1>4 DEF First, IInv, TypeOK, LateInv, OverrunBounded, cell
  <2>3. QED
    BY <1>3, <2>1, <2>2 DEF IInv
<1>5. CASE Take(r)
  <2>1. TypeOK'
    BY <1>1, <1>2, <1>5, RoomAssumption
    DEF Take, Count, OneMore, MaxLate, IInv, TypeOK, binder, cell
  <2>2. LateInv' /\ OverrunBounded'
    BY <1>5, RoomAssumption
    DEF Take, Count, OneMore, MaxLate, IInv, TypeOK, LateInv, OverrunBounded, cell
  <2>3. QED
    BY <1>3, <2>1, <2>2 DEF IInv
<1>6. CASE DrainOne(r)
  <2>1. TypeOK'
    BY <1>1, <1>2, <1>6, RoomAssumption
    DEF DrainOne, Count, OneMore, MaxLate, IInv, TypeOK, binder, cell
  <2>2. LateInv' /\ OverrunBounded'
    BY <1>6, RoomAssumption
    DEF DrainOne, Draining, Ready, Count, OneMore, MaxLate, IInv, TypeOK, LateInv, OverrunBounded, cell
  <2>3. QED
    BY <1>3, <2>1, <2>2 DEF IInv
<1>7. QED
  BY <1>4, <1>5, <1>6

\* Every reachable state satisfies the inductive invariant.
THEOREM WindowInvariant == Spec => []IInv
<1>1. IInv /\ [Next]_vars => IInv'
  <2> SUFFICES ASSUME IInv, [Next]_vars PROVE IInv'
    OBVIOUS
  <2>1. CASE Feeding \/ FeederDies
    BY <2>1, BinderStep, SendStep DEF Feeding
  <2>2. CASE \E p \in Peers : Join(p)
    BY <2>2, JoinStep
  <2>3. CASE \E r \in Receivers : Loop(r) \/ FirstExpires(r) \/ DeadlinePasses(r)
                                   \/ FirstFails(r) \/ LateFails(r) \/ NullCounts(r)
    BY <2>3, EndStep, DeadlineStep, MoveStep, NullStep, MessageStep DEF Loop
  <2>4. CASE UNCHANGED vars
    BY <2>4 DEF vars, cell, IInv, TypeOK, GatherInv, LateInv, OverrunBounded,
                WindowSeesAllPeers, InWindow
  <2>5. QED
    BY <2>1, <2>2, <2>3, <2>4 DEF Next
<1>2. QED
  BY InitIInv, <1>1, PTL DEF Spec

\* The state has its types: what a socket holds, what is left of a burst and
\* what is counted late stay within their bounds.
THEOREM TypeCorrect == Spec => []TypeOK
<1>1. IInv => TypeOK
  BY DEF IInv
<1>2. QED
  BY <1>1, WindowInvariant, PTL

\* For every wrapper that does not refill what it drains: after the deadline at
\* most the awaited message is counted, or at most what the socket held.
THEOREM OverrunIsBounded == Spec => []OverrunBounded
<1>1. IInv => OverrunBounded
  BY DEF IInv
<1>2. QED
  BY <1>1, WindowInvariant, PTL

\* A binder that gathers its peers has them all before any window opens.
THEOREM PeersBeforeWindow == Spec => []WindowSeesAllPeers
<1>1. IInv => WindowSeesAllPeers
  BY DEF IInv
<1>2. QED
  BY <1>1, WindowInvariant, PTL
=============================================================================
