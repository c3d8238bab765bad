---------------------------- MODULE BlockTransfer ----------------------------
(***************************************************************************)
(* The two target processes of a throughput cell (targets/): a PUSH        *)
(* producer sends warmup + Messages messages, or sends until it is killed, *)
(* and a PULL consumer drains the warmup untimed, starts its clock, counts *)
(* the measured block and prints one THROUGHPUT line.                      *)
(*                                                                         *)
(* Fourteen wrappers do this in seven languages. They agree on the plan    *)
(* and differ in how they connect, how the producer leaves, and what the   *)
(* consumer makes of a receive that fails; these choices are a record per  *)
(* wrapper, and the actions below read the record of the cell's wrapper.   *)
(* Messages are indistinguishable and in order, so the stream is three     *)
(* cursors: got <= out <= sent.                                            *)
(***************************************************************************)
EXTENDS Integers

CONSTANTS
  Targets,    \* the wrappers considered, a set of records (below)
  Warmups,    \* values of --warmup
  Messages,   \* --messages
  Capacity,   \* messages the sockets and the kernel hold before send blocks
  Batch,      \* sends between two flushes of a coalescing producer
  MaxErrors   \* bound: receives that fail although the producer is there

None == -1    \* no clock yet, no line yet

\* What a consumer makes of a receive that fails: give up without a line, take
\* it for a message, start the block, print what it has.  Where the library's
\* call has no failure to return, it waits.
Handling ==
  [early: {"fails", "counts", "proceeds", "reports", "waits"},
   late: {"fails", "counts", "reports", "waits"}]
Wrapper ==
  [connect: {"retries", "once"},
   leave: {"drains", "flushes", "expires", "written", "killed"},
   clock: {"drained", "receipt"},
   until: {"block", "total"},
   error: Handling,       \* a receive returns an error
   closed: Handling]      \* the stream ended

ASSUME TargetsAssumption == Targets \subseteq Wrapper
\* A wrapper whose clock starts at a receipt has one loop, which a failed
\* receive can only leave.
ASSUME ReceiptAssumption ==
  \A w \in Targets : w.clock = "receipt" =>
    {w.error.early, w.closed.early, w.error.late, w.closed.late}
      \cap {"counts", "proceeds"} = {}
ASSUME BlockAssumption == Warmups \subseteq Nat /\ Messages \in Nat \ {0}
ASSUME CapacityAssumption ==
  Batch \in Nat \ {0} /\ Capacity \in Nat /\ Capacity >= Batch
ASSUME MaxErrorsAssumption == MaxErrors \in Nat

-----------------------------------------------------------------------------
(* The wrappers                                                            *)

Strict  == [early |-> "fails", late |-> "fails"]
Partial == [early |-> "reports", late |-> "reports"]
Waiting == [early |-> "waits", late |-> "waits"]
Ignored == [early |-> "counts", late |-> "counts"]

\* Counted, left to an unbounded linger; a failed receive ends the process
\* except inside the block.
LibzmqCpp ==
  [connect |-> "retries", leave |-> "drains", clock |-> "drained", until |-> "block",
   error |-> [early |-> "fails", late |-> "reports"],
   closed |-> [early |-> "fails", late |-> "reports"]]

\* One counter for both loops: a failed receive in the warmup starts the clock
\* and the block then runs on to the grand total.
RustZmq ==
  [LibzmqCpp EXCEPT !.until = "total",
                    !.error = [early |-> "proceeds", late |-> "reports"],
                    !.closed = [early |-> "proceeds", late |-> "reports"]]

\* Sends until killed.  In the warmup only the end of the stream is looked at,
\* so an error item is counted as a message.
Tmq ==
  [connect |-> "retries", leave |-> "killed", clock |-> "drained", until |-> "block",
   error |-> [early |-> "counts", late |-> "reports"], closed |-> Partial]

\* A raw stream that is connected once, writes coalesced and flushed by hand;
\* one loop whose clock starts at the receipt that completes the warmup.
Monocoque ==
  [connect |-> "once", leave |-> "flushes", clock |-> "receipt", until |-> "total",
   error |-> Strict, closed |-> Partial]

Endless == [Tmq EXCEPT !.error = Strict, !.closed = Strict]
OmqTokio    == Endless
OmqBlocking == Endless
Rzmq        == Endless

Draining == [Endless EXCEPT !.leave = "drains"]
ZmqRs == [Draining EXCEPT !.error = Waiting, !.closed = Waiting]
Pyzmq == Draining
OmqRb == Draining
OmqCr == Draining

\* send() returns when the message is written.
ZeromqRs == [Endless EXCEPT !.leave = "written"]

\* A linger of five seconds.
Netmq  == [Endless EXCEPT !.leave = "expires"]

\* Neither loop looks at what recv returned, so a null counts as a message.
Jeromq == [Netmq EXCEPT !.error = Ignored, !.closed = Ignored]

-----------------------------------------------------------------------------

VARIABLES
  target,    \* the cell's wrapper
  warmup,    \* the cell's --warmup
  prod,      \* the producer process
  sent,      \* messages given to send()
  out,       \* messages that left the producer process
  got,       \* messages the consumer received
  pc,        \* where the consumer is
  count,     \* the consumer's loop counter
  measured,  \* its counter of the block
  clockAt,   \* messages received when the clock was started
  nulls,     \* failed receives among those it counted in the block
  line,      \* the count it printed
  errors     \* receives that failed although the producer was there

cell     == <<target, warmup>>
producer == <<prod, sent, out>>
consumer == <<got, pc, count, measured, clockAt, nulls, line, errors>>
vars == <<cell, producer, consumer>>

Total == warmup + Messages

ProducerRuns == prod \in {"starting", "sending"}
ConsumerRuns == pc \in {"starting", "warmup", "measure"}

TypeOK ==
  /\ target \in Targets /\ warmup \in Warmups
  /\ prod \in {"starting", "sending", "left", "gaveup", "died", "killed",
              "refused", "unborn"}
  /\ sent \in Nat /\ out \in 0..sent /\ got \in 0..out
  /\ sent - got \in 0..Capacity
  /\ pc \in {"starting", "warmup", "measure", "done", "failed"}
  /\ count \in 0..Total /\ measured \in 0..Total /\ nulls \in Nat
  /\ clockAt \in Nat \cup {None} /\ line \in 0..Total \cup {None}
  /\ errors \in 0..MaxErrors

Init ==
  /\ target \in Targets /\ warmup \in Warmups
  /\ prod = "starting" /\ sent = 0 /\ out = 0
  /\ got = 0 /\ pc = "starting" /\ count = 0 /\ measured = 0
  /\ clockAt = None /\ nulls = 0 /\ line = None /\ errors = 0

-----------------------------------------------------------------------------
(* The producer                                                            *)

\* A library that retries queues messages until the consumer has bound.  A raw
\* stream connected before that is refused, and the process exits.
Connect ==
  /\ prod = "starting"
  /\ prod' = IF target.connect = "once" /\ pc = "starting" THEN "refused" ELSE "sending"
  /\ UNCHANGED <<cell, sent, out, consumer>>

\* send() blocks at the high-water mark.  A message is written at once, or left
\* to a background thread, or kept until a batch is full and flushed.
Send ==
  /\ prod = "sending" /\ sent - got < Capacity
  /\ target.leave # "killed" => sent < Total
  /\ sent' = sent + 1
  /\ out' = IF \/ target.leave = "written"
               \/ target.leave = "flushes" /\ (sent + 1) % Batch = 0
            THEN sent + 1 ELSE out
  /\ UNCHANGED <<cell, prod, consumer>>

\* The library's IO thread, or a write buffer that is full, moves a message on.
Transmit ==
  /\ prod = "sending" /\ out < sent /\ pc # "starting"
  /\ out' = out + 1
  /\ UNCHANGED <<cell, prod, sent, consumer>>

\* Slip: The flush after the send loop is forgotten.
LeaveUnflushed ==
  /\ prod = "sending" /\ sent = Total
  /\ target.leave # "killed"
  /\ target.leave = "flushes" \/ out = sent
  /\ prod' = "left"
  /\ UNCHANGED <<cell, sent, out, consumer>>

\* Slip: The linger is zero, the default of omq.cr.
LeaveLingerZero ==
  /\ prod = "sending" /\ sent = Total /\ target.leave # "killed"
  /\ prod' = "left"
  /\ UNCHANGED <<cell, sent, out, consumer>>

\* A counted producer is through: it flushes, or waits until its queue is out.
Leave ==
  /\ prod = "sending" /\ sent = Total
  /\ target.leave # "killed"
  /\ target.leave = "flushes" \/ out = sent
  /\ out' = sent
  /\ prod' = "left"
  /\ UNCHANGED <<cell, sent, consumer>>

\* The linger ends with messages in the queue, which are dropped.
LingerExpires ==
  /\ prod = "sending" /\ sent = Total /\ out < sent
  /\ target.leave = "expires"
  /\ prod' = "gaveup"
  /\ UNCHANGED <<cell, sent, out, consumer>>

\* The producer crashes or its send fails; what it had not written is lost, and
\* there is no stream if it had not connected.
ProducerDies ==
  /\ ProducerRuns
  /\ prod' = IF prod = "starting" THEN "unborn" ELSE "died"
  /\ UNCHANGED <<cell, sent, out, consumer>>

\* The orchestrator kills the producer once the consumer has ended.
StopProducer ==
  /\ ProducerRuns /\ ~ConsumerRuns
  /\ prod' = "killed"
  /\ UNCHANGED <<cell, sent, out, consumer>>

-----------------------------------------------------------------------------
(* The consumer                                                            *)

Bind ==
  /\ pc = "starting"
  /\ pc' = "warmup"
  /\ UNCHANGED <<cell, producer, got, count, measured, clockAt, nulls, line, errors>>

AtReceipt == target.clock = "receipt"

\* A message of the warmup.  A wrapper that starts its clock at a receipt looks
\* at the counter only then, so without a warmup the first message of the block
\* goes this way too.
Drain ==
  /\ pc = "warmup" /\ got < out
  /\ count < warmup \/ AtReceipt
  /\ got' = got + 1 /\ count' = count + 1
  /\ measured' = IF count >= warmup THEN measured + 1 ELSE measured
  /\ IF AtReceipt /\ count + 1 >= warmup
     THEN pc' = "measure" /\ clockAt' = got + 1
     ELSE UNCHANGED <<pc, clockAt>>
  /\ UNCHANGED <<cell, producer, nulls, line, errors>>

\* Slip: The clock is read before the warmup loop.
StartClockFirst ==
  /\ pc = "warmup" /\ count = warmup /\ ~AtReceipt
  /\ pc' = "measure" /\ clockAt' = 0
  /\ UNCHANGED <<cell, producer, got, count, measured, nulls, line, errors>>

\* Slip: The warmup loop stops one short.
StartClockOneShort ==
  /\ pc = "warmup" /\ count = warmup - 1 /\ ~AtReceipt
  /\ pc' = "measure" /\ clockAt' = got
  /\ UNCHANGED <<cell, producer, got, count, measured, nulls, line, errors>>

StartClock ==
  /\ pc = "warmup" /\ count = warmup /\ ~AtReceipt
  /\ pc' = "measure" /\ clockAt' = got
  /\ UNCHANGED <<cell, producer, got, count, measured, nulls, line, errors>>

BlockDone ==
  IF target.until = "total" THEN count = Total ELSE measured = Messages

\* A message of the measured block.
Measure ==
  /\ pc = "measure" /\ got < out /\ ~BlockDone
  /\ got' = got + 1 /\ count' = count + 1 /\ measured' = measured + 1
  /\ UNCHANGED <<cell, producer, pc, clockAt, nulls, line, errors>>

Report ==
  /\ pc = "measure" /\ BlockDone
  /\ line' = measured /\ pc' = "done"
  /\ UNCHANGED <<cell, producer, got, count, measured, clockAt, nulls, errors>>

\* What the wrapper does about a receive that failed.
React(handling) ==
  LET reaction == IF pc = "warmup" THEN handling.early ELSE handling.late
  IN /\ reaction # "waits"
     /\ pc = "warmup" => count < warmup \/ AtReceipt
     /\ pc = "measure" => ~BlockDone
     /\ pc' = IF reaction = "fails" THEN "failed"
              ELSE IF reaction = "reports" THEN "done"
              ELSE IF reaction = "proceeds" THEN "measure" ELSE pc
     /\ count' = IF reaction = "counts" THEN count + 1 ELSE count
     /\ IF reaction = "counts" /\ pc = "measure"
        THEN measured' = measured + 1 /\ nulls' = nulls + 1
        ELSE UNCHANGED <<measured, nulls>>
     /\ clockAt' = IF reaction = "proceeds" THEN got ELSE clockAt
     /\ line' = IF reaction = "reports" THEN measured ELSE line

\* The library reports an error of its own: an interrupted call, a broken peer.
RecvError ==
  /\ pc \in {"warmup", "measure"} /\ errors < MaxErrors
  /\ errors' = errors + 1
  /\ React(target.error)
  /\ UNCHANGED <<cell, producer, got>>

\* The producer was connected and is gone, and all it wrote has been received.  A
\* library may report that as the end of the stream; most wait for another peer
\* instead.
RecvClosed ==
  /\ pc \in {"warmup", "measure"} /\ got = out
  /\ prod \in {"left", "gaveup", "died", "killed"}
  /\ React(target.closed)
  /\ UNCHANGED <<cell, producer, got, errors>>

-----------------------------------------------------------------------------

Producer == Connect \/ Send \/ Transmit \/ Leave
Consumer == Bind \/ Drain \/ StartClock \/ Measure \/ Report
Environment ==
  LingerExpires \/ ProducerDies \/ StopProducer \/ RecvError \/ RecvClosed

Next == Producer \/ Consumer \/ Environment

Spec == Init /\ [][Next]_vars

\* Both processes run whenever they can.  A write buffer moves by itself only
\* where a library thread empties it, and nothing makes a library report the
\* end of a stream.
Fairness ==
  /\ WF_vars(Connect) /\ WF_vars(Send) /\ WF_vars(Leave)
  /\ WF_vars(Transmit /\ target.leave # "flushes")
  /\ WF_vars(Consumer)

FairSpec == Spec /\ Fairness

-----------------------------------------------------------------------------
(* Properties                                                              *)

\* The producer went before its time, in the middle of the stream.
Broken == prod \in {"died", "gaveup"}

\* A wrapper may print less than the block, or begin it early, for a failed
\* receive it handles so.
Cuts(handling) == handling.early \in {"reports", "proceeds"} \/ handling.late = "reports"
Hurries(handling) == handling.early \in {"counts", "proceeds"}

MayCut   == (errors > 0 /\ Cuts(target.error)) \/ (Broken /\ Cuts(target.closed))
MayHurry == (errors > 0 /\ Hurries(target.error)) \/ (Broken /\ Hurries(target.closed))

\* A count other than Messages is printed only after a receive failed or the
\* stream broke, and then only by a wrapper that prints what it has: a producer
\* that leaves by itself strands nothing, and the warmup is never paid for out
\* of the block.
WholeBlock == line \in {None, Messages} \/ MayCut

\* Where there is no warmup a clock that starts at a receipt has missed one.
Untimed == IF AtReceipt /\ warmup = 0 THEN 1 ELSE 0

\* The count printed is the number of messages received since the clock was
\* started, and of those receives since that failed and were counted all the same;
\* only the message that starts a clock without a warmup is not timed.  Also when
\* the block was cut short or the warmup went wrong.
CountMatchesClock ==
  clockAt # None /\ line # None => line = (got - clockAt) + nulls + Untimed

\* The clock never starts later than at the message that completes the warmup,
\* and not earlier either but for a failed receive that counted as a message or
\* ended the warmup.
ClockAfterWarmup ==
  clockAt # None =>
    /\ clockAt <= warmup + Untimed
    /\ clockAt < warmup + Untimed => MayHurry

\* A transfer in which nothing fails ends with the whole block reported; no
\* wrapper waits for a message that a buffer keeps.  It fails for a producer too
\* that connects once and found nobody.
Completes ==
  <>(line = Messages \/ errors > 0 \/ prod \in {"died", "gaveup", "unborn", "refused"})

-----------------------------------------------------------------------------
(* The inductive invariant behind the safety properties.                   *)

\* A producer that left by itself wrote everything, and it is not killed while
\* the consumer runs.
ProducerInv ==
  /\ target.leave # "killed" => sent <= Total
  /\ prod = "left" => out = Total
  /\ prod = "killed" => ~ConsumerRuns

\* Before its clock runs the consumer has counted only the warmup.
WarmupInv ==
  /\ pc = "starting" => count = 0 /\ got = 0 /\ errors = 0
  /\ pc \in {"starting", "warmup"} =>
       /\ measured = 0 /\ nulls = 0 /\ clockAt = None
       /\ count <= warmup
       /\ AtReceipt /\ warmup > 0 => count < warmup
       /\ AtReceipt /\ warmup = 0 => count = 0

\* From then on it counts what it receives, and failed receives if it counts them.
ClockInv ==
  /\ pc = "measure" => clockAt # None
  /\ clockAt # None => clockAt <= got /\ measured = (got - clockAt) + nulls + Untimed
  /\ got <= count /\ measured <= count /\ count <= measured + warmup
  /\ pc = "measure" /\ target.until = "block" => measured <= Messages
  /\ ConsumerRuns => line = None

\* The warmup is as long as it should be unless a receive has cut it short.
HurryInv == ~MayHurry => (pc \in {"starting", "warmup"} => count = got)

\* A block begins where the warmup was counted out.
CutInv == ~MayCut => (pc = "measure" => count = measured + warmup)

IInv ==
  /\ TypeOK /\ ProducerInv /\ WarmupInv /\ ClockInv /\ HurryInv /\ CutInv
  /\ CountMatchesClock /\ ClockAfterWarmup /\ WholeBlock
=============================================================================
