------------------------- MODULE BlockTransferProofs -------------------------
(***************************************************************************)
(* Proofs about BlockTransfer for every set of wrappers and every warmup,  *)
(* block, capacity and batch: the inductive invariant IInv, from which the *)
(* safety properties of the transfer follow.                               *)
(***************************************************************************)
EXTENDS BlockTransfer, TLAPS

LEMMA Constants ==
  /\ Warmups \subseteq Nat /\ Messages \in Nat /\ Messages > 0
  /\ Capacity \in Nat /\ MaxErrors \in Nat
BY BlockAssumption, CapacityAssumption, MaxErrorsAssumption

LEMMA Totals ==
  ASSUME warmup \in Warmups
  PROVE  warmup \in Nat /\ Total \in Nat /\ Total = warmup + Messages /\ Messages \in Nat
BY Constants DEF Total

\* A wrapper of the cell is one of Wrapper, and one whose clock starts at a
\* receipt neither counts a failed receive nor starts the block for it.
LEMMA TargetFields ==
  ASSUME target \in Targets
  PROVE  /\ target \in Wrapper
         /\ AtReceipt => /\ target.error.early \notin {"counts", "proceeds"}
                         /\ target.closed.early \notin {"counts", "proceeds"}
BY TargetsAssumption, ReceiptAssumption DEF AtReceipt

\* What a failed receive can lead to: no line, a line, the start of the block,
\* or one more message in the count of the warmup or the block.
LEMMA ReactCases ==
  ASSUME target \in Targets, pc \in {"warmup", "measure"},
         NEW handling \in {target.error, target.closed}, React(handling)
  PROVE  \/ /\ pc' = "failed"
            /\ UNCHANGED <<count, measured, nulls, clockAt, line>>
         \/ /\ pc' = "done" /\ Cuts(handling) /\ line' = measured
            /\ UNCHANGED <<count, measured, nulls, clockAt>>
         \/ /\ pc = "warmup" /\ pc' = "measure" /\ ~AtReceipt
            /\ clockAt' = got /\ count < warmup /\ Cuts(handling) /\ Hurries(handling)
            /\ UNCHANGED <<count, measured, nulls, line>>
         \/ /\ pc = "warmup" /\ pc' = pc /\ ~AtReceipt
            /\ count < warmup /\ count' = count + 1 /\ Hurries(handling)
            /\ UNCHANGED <<measured, nulls, clockAt, line>>
         \/ /\ pc = "measure" /\ pc' = pc /\ ~BlockDone
            /\ count' = count + 1 /\ measured' = measured + 1 /\ nulls' = nulls + 1
            /\ UNCHANGED <<clockAt, line>>
<1>1. /\ target \in Wrapper
      /\ AtReceipt => handling.early \notin {"counts", "proceeds"}
  BY TargetFields
<1>2. handling \in Handling
  BY <1>1 DEF Wrapper
<1>3. /\ handling.early \in {"fails", "counts", "proceeds", "reports", "waits"}
      /\ handling.late \in {"fails", "counts", "reports", "waits"}
  BY <1>2 DEF Handling
<1>4. CASE pc = "warmup"
  BY <1>1, <1>3, <1>4 DEF React, Cuts, Hurries
<1>5. CASE pc = "measure"
  BY <1>3, <1>5 DEF React, Cuts
<1>6. QED
  BY <1>4, <1>5

\* The loop counter leaves room while the block is not done.
LEMMA RoomInBlock ==
  ASSUME TypeOK, ClockInv, pc = "measure", ~BlockDone
  PROVE  /\ count + 1 \in 0..Total /\ measured + 1 \in 0..Total
         /\ target.until = "block" => measured + 1 <= Messages
<1>1. target.until \in {"block", "total"}
  BY TargetFields DEF Wrapper, TypeOK
<1>2. CASE target.until = "block"
  BY <1>2, Totals DEF BlockDone, TypeOK, ClockInv
<1>3. CASE target.until = "total"
  BY <1>3, Totals DEF BlockDone, TypeOK, ClockInv
<1>4. QED
  BY <1>1, <1>2, <1>3

LEMMA InitIInv == Init => IInv
BY Constants
DEF Init, IInv, TypeOK, ProducerInv, WarmupInv, ClockInv, HurryInv, CutInv, Total, AtReceipt,
    ClockAfterWarmup, WholeBlock, CountMatchesClock, ConsumerRuns, None

\* A step of the producer leaves the consumer alone.
LEMMA ProducerStep ==
  ASSUME IInv, Connect \/ Send \/ Transmit \/ Leave \/ LingerExpires
                 \/ ProducerDies \/ StopProducer
  PROVE  IInv'
<1> USE Constants, Totals
<1>1. UNCHANGED <<cell, consumer>>
  BY DEF Connect, Send, Transmit, Leave, LingerExpires, ProducerDies, StopProducer
<1>2. UNCHANGED <<target, warmup, got, pc, count, measured, clockAt, nulls, line, errors>>
      /\ Total' = Total
  BY <1>1 DEF cell, consumer, Total
<1>3. WarmupInv' /\ ClockInv' /\ CountMatchesClock'
  BY <1>2 DEF IInv, WarmupInv, ClockInv, CountMatchesClock, ConsumerRuns, AtReceipt, Untimed
<1>4. (~MayCut' => ~MayCut) /\ (~MayHurry' => ~MayHurry)
  <2>1. Broken => Broken'
    BY DEF Connect, Send, Transmit, Leave, LingerExpires, ProducerDies, StopProducer, Broken,
       ProducerRuns
  <2>2. QED
    BY <1>2, <2>1 DEF MayCut, MayHurry
<1>5. HurryInv' /\ CutInv' /\ ClockAfterWarmup' /\ WholeBlock'
  BY <1>2, <1>4 DEF IInv, HurryInv, CutInv, ClockAfterWarmup, WholeBlock, Untimed, AtReceipt
<1>6. TypeOK' /\ ProducerInv'
  <2> USE <1>2 DEF IInv, TypeOK, ProducerInv, ProducerRuns, ConsumerRuns
  <2>1. CASE Connect
    BY <2>1 DEF Connect
  <2>2. CASE Send
    BY <2>2 DEF Send
  <2>3. CASE Transmit
    BY <2>3 DEF Transmit
  <2>4. CASE Leave
    BY <2>4 DEF Leave
  <2>5. CASE LingerExpires
    BY <2>5 DEF LingerExpires
  <2>6. CASE ProducerDies
    BY <2>6 DEF ProducerDies
  <2>7. CASE StopProducer
    BY <2>7 DEF StopProducer
  <2>8. QED
    BY <2>1, <2>2, <2>3, <2>4, <2>5, <2>6, <2>7
<1>7. QED
  BY <1>3, <1>5, <1>6 DEF IInv

\* A step of the consumer in which no receive fails.
LEMMA ConsumerStep ==
  ASSUME IInv, Consumer
  PROVE  IInv'
<1> USE Constants, Totals
<1>1. /\ UNCHANGED <<target, warmup, prod, sent, out, errors>>
      /\ Total' = Total /\ AtReceipt' = AtReceipt /\ Untimed' = Untimed
      /\ MayCut' = MayCut /\ MayHurry' = MayHurry
  BY DEF Consumer, Bind, Drain, StartClock, Measure, Report, cell, producer, Total, AtReceipt,
     Untimed, MayCut, MayHurry, Broken
<1> USE <1>1 DEF IInv, TypeOK, ProducerInv, WarmupInv, ClockInv, HurryInv, CutInv,
            CountMatchesClock, ClockAfterWarmup, WholeBlock, ConsumerRuns, None
<1>2. CASE Bind
  BY <1>2 DEF Bind
<1>3. CASE Drain
  <2>1. Untimed = IF AtReceipt /\ warmup = 0 THEN 1 ELSE 0
    BY DEF Untimed
  <2>2. TypeOK' /\ ProducerInv' /\ WarmupInv'
    BY <1>3, <2>1 DEF Drain
  <2>3. ClockInv' /\ CountMatchesClock'
    BY <1>3, <2>1 DEF Drain
  <2>4. HurryInv' /\ CutInv'
    BY <1>3, <2>1 DEF Drain
  <2>5. ClockAfterWarmup' /\ WholeBlock'
    BY <1>3, <2>1 DEF Drain
  <2>6. QED
    BY <2>2, <2>3, <2>4, <2>5
<1>4. CASE StartClock
  BY <1>4 DEF StartClock, Untimed
<1>5. CASE Measure
  <2>1. /\ count + 1 \in 0..Total /\ measured + 1 \in 0..Total
        /\ target.until = "block" => measured + 1 <= Messages
    BY <1>5, RoomInBlock DEF Measure
  <2>2. Untimed \in {0, 1}
    BY DEF Untimed
  <2>3. TypeOK' /\ ProducerInv' /\ WarmupInv'
    BY <1>5, <2>1 DEF Measure
  <2>4. ClockInv' /\ CountMatchesClock'
    BY <1>5, <2>1, <2>2 DEF Measure
  <2>5. HurryInv' /\ CutInv' /\ ClockAfterWarmup' /\ WholeBlock'
    BY <1>5 DEF Measure
  <2>6. QED
    BY <2>3, <2>4, <2>5
<1>6. CASE Report
  BY <1>6 DEF Report, BlockDone
<1>7. QED
  BY <1>2, <1>3, <1>4, <1>5, <1>6 DEF Consumer

\* A receive may fail so only where its wrapper reacts so.
LEMMA ReactStep ==
  ASSUME IInv, pc \in {"warmup", "measure"},
         NEW handling \in {target.error, target.closed}, React(handling),
         UNCHANGED <<cell, producer, got>>,
         errors' \in 0..MaxErrors, errors <= errors',
         Cuts(handling) => MayCut', Hurries(handling) => MayHurry'
  PROVE  IInv'
<1> USE Constants, Totals
<1>1. /\ UNCHANGED <<target, warmup, prod, sent, out, got>>
      /\ Total' = Total /\ AtReceipt' = AtReceipt /\ Untimed' = Untimed
      /\ Untimed = (IF AtReceipt /\ warmup = 0 THEN 1 ELSE 0)
  BY DEF cell, producer, Total, AtReceipt, Untimed
<1>2. (MayCut => MayCut') /\ (MayHurry => MayHurry')
  BY <1>1 DEF MayCut, MayHurry, Broken, IInv, TypeOK
<1> USE <1>1, <1>2 DEF IInv, TypeOK, ProducerInv, WarmupInv, ClockInv, HurryInv, CutInv,
            CountMatchesClock, ClockAfterWarmup, WholeBlock, ConsumerRuns, None
<1>3. CASE /\ pc' = "failed"
           /\ UNCHANGED <<count, measured, nulls, clockAt, line>>
  BY <1>3
<1>4. CASE /\ pc' = "done" /\ Cuts(handling) /\ line' = measured
           /\ UNCHANGED <<count, measured, nulls, clockAt>>
  BY <1>4
<1>5. CASE /\ pc = "warmup" /\ pc' = "measure" /\ ~AtReceipt
           /\ clockAt' = got /\ count < warmup /\ Cuts(handling) /\ Hurries(handling)
           /\ UNCHANGED <<count, measured, nulls, line>>
  BY <1>5
<1>6. CASE /\ pc = "warmup" /\ pc' = pc /\ ~AtReceipt
           /\ count < warmup /\ count' = count + 1 /\ Hurries(handling)
           /\ UNCHANGED <<measured, nulls, clockAt, line>>
  BY <1>6
<1>7. CASE /\ pc = "measure" /\ pc' = pc /\ ~BlockDone
           /\ count' = count + 1 /\ measured' = measured + 1 /\ nulls' = nulls + 1
           /\ UNCHANGED <<clockAt, line>>
  <2>1. /\ count + 1 \in 0..Total /\ measured + 1 \in 0..Total
        /\ target.until = "block" => measured + 1 <= Messages
    BY <1>7, RoomInBlock
  <2>2. QED
    BY <1>7, <2>1
<1>8. QED
  BY <1>3, <1>4, <1>5, <1>6, <1>7, ReactCases

LEMMA ErrorStep ==
  ASSUME IInv, RecvError
  PROVE  IInv'
<1>1. errors' = errors + 1 /\ errors' \in 0..MaxErrors /\ errors <= errors' /\ errors' > 0
  BY Constants DEF RecvError, IInv, TypeOK
<1>2. target' = target
  BY DEF RecvError, cell
<1>3. (Cuts(target.error) => MayCut') /\ (Hurries(target.error) => MayHurry')
  BY <1>1, <1>2 DEF MayCut, MayHurry, Cuts, Hurries
<1>4. QED
  BY <1>1, <1>3, ReactStep DEF RecvError

\* The stream of a producer that left by itself ends after all of it was received,
\* and then no wrapper is still receiving.
LEMMA ClosedStep ==
  ASSUME IInv, RecvClosed
  PROVE  IInv'
<1> USE Constants, Totals
<1>1. Broken
  <2> SUFFICES ASSUME ~Broken
               PROVE  FALSE
    OBVIOUS
  <2>1. prod = "left" /\ got = Total
    BY DEF IInv, TypeOK, RecvClosed, ConsumerRuns, ProducerInv, Broken
  <2>2. pc = "measure"
    BY <2>1 DEF IInv, TypeOK, RecvClosed, WarmupInv, ClockInv, RecvClosed, React
  <2>3. count = Total
    BY <2>1 DEF IInv, TypeOK, ClockInv
  <2>4. clockAt <= warmup + Untimed /\ Untimed \in Nat /\ nulls \in Nat
        /\ measured = (got - clockAt) + nulls + Untimed /\ clockAt \in Nat
    BY <2>2 DEF IInv, TypeOK, ClockInv, ClockAfterWarmup, Untimed, None
  <2>5. target.until = "block" => measured = Messages
    BY <2>1, <2>2, <2>4 DEF IInv, TypeOK, ClockInv
  <2>6. target.until \in {"block", "total"}
    BY TargetFields DEF Wrapper, IInv, TypeOK
  <2>7. BlockDone
    BY <2>3, <2>5, <2>6 DEF BlockDone
  <2>8. QED
    BY <2>2, <2>7 DEF RecvClosed, React
<1>2. target' = target /\ prod' = prod
  BY DEF RecvClosed, cell, producer
<1>3. (Cuts(target.closed) => MayCut') /\ (Hurries(target.closed) => MayHurry')
  BY <1>1, <1>2 DEF MayCut, MayHurry, Broken, Cuts, Hurries
<1>4. errors' \in 0..MaxErrors /\ errors <= errors'
  BY DEF RecvClosed, IInv, TypeOK
<1>5. QED
  BY <1>3, <1>4, ReactStep DEF RecvClosed

LEMMA NextIInv == IInv /\ [Next]_vars => IInv'
<1> SUFFICES ASSUME IInv, [Next]_vars
             PROVE  IInv'
  OBVIOUS
<1>1. CASE Consumer
  BY <1>1, ConsumerStep
<1>2. CASE RecvError
  BY <1>2, ErrorStep
<1>3. CASE RecvClosed
  BY <1>3, ClosedStep
<1>4. CASE Producer \/ LingerExpires \/ ProducerDies \/ StopProducer
  BY <1>4, ProducerStep DEF Producer
<1>5. CASE UNCHANGED vars
  <2>1. UNCHANGED <<target, warmup, prod, sent, out, got, pc, count, measured, clockAt,
                    nulls, line, errors>>
    BY <1>5 DEF vars, cell, producer, consumer
  <2>2. QED
    BY <2>1 DEF IInv, TypeOK, ProducerInv, WarmupInv, ClockInv, HurryInv, CutInv, MayCut,
       MayHurry, Broken, CountMatchesClock, ClockAfterWarmup, WholeBlock, ConsumerRuns,
       AtReceipt, Untimed, Total
<1>6. QED
  BY <1>1, <1>2, <1>3, <1>4, <1>5 DEF Next, Environment

\* The inductive invariant of a transfer.
THEOREM TransferInvariant == Spec => []IInv
BY InitIInv, NextIInv, PTL DEF Spec

\* Every variable keeps its type, the cursors stay in order and at most
\* Capacity messages are under way.
THEOREM TypeCorrect == Spec => []TypeOK
<1>1. IInv => TypeOK
  BY DEF IInv
<1>2. QED
  BY <1>1, TransferInvariant, PTL

\* Unless a receive failed or the stream broke, and the wrapper then prints what
\* it has, the count printed is the whole block, whatever the warmup, the batch and
\* the capacity.
THEOREM ReportsWholeBlock == Spec => []WholeBlock
<1>1. IInv => WholeBlock
  BY DEF IInv
<1>2. QED
  BY <1>1, TransferInvariant, PTL

\* The count printed is the number of messages received on the clock, of failed
\* receives that were counted, and of the one message that may start the clock, also
\* in a transfer that failed.
THEOREM CountIsOfTheClock == Spec => []CountMatchesClock
<1>1. IInv => CountMatchesClock
  BY DEF IInv
<1>2. QED
  BY <1>1, TransferInvariant, PTL

\* The clock never starts after the last message of the warmup, and before it only
\* for a failed receive.
THEOREM WarmupIsUntimed == Spec => []ClockAfterWarmup
<1>1. IInv => ClockAfterWarmup
  BY DEF IInv
<1>2. QED
  BY <1>1, TransferInvariant, PTL
=============================================================================
