------------------------------ MODULE RoundTrip ------------------------------
(***************************************************************************)
(* The two target processes of a latency cell (targets/): a REP server     *)
(* that echoes until it is killed, and a REQ client that makes Warmup      *)
(* round trips, then times Messages more one by one and prints their       *)
(* quantiles in one LATENCY line.  The orchestrator opens its syscall      *)
(* probe on the client at a fixed time after it was started.               *)
(*                                                                         *)
(* The fifteen wrappers differ in whether the client connects once, in     *)
(* what it makes of a send that fails and of a stream that ended, and in   *)
(* the rank of a quantile.                                                 *)
(***************************************************************************)
EXTENDS Sorting

CONSTANTS
  Targets,    \* the wrappers considered, a set of records (below)
  Warmup,     \* --warmup
  Messages,   \* --messages
  MaxNow      \* bound: ticks of the client's clock

Total == Warmup + Messages

Wrapper ==
  [connect: {"retries", "once"},
   unsent: {"fails", "ignored"},
   closed: {"fails", "counts"},
   rank: {"counted", "scaled"}]

ASSUME TargetsAssumption == Targets \subseteq Wrapper
ASSUME BlockAssumption == Warmup \in Nat /\ Messages \in Nat
ASSUME MaxNowAssumption == MaxNow \in Nat

-----------------------------------------------------------------------------
(* The wrappers                                                            *)

RustZmq ==
  [connect |-> "retries", unsent |-> "fails", closed |-> "fails", rank |-> "counted"]
Tmq         == RustZmq
OmqTokio    == RustZmq
OmqBlocking == RustZmq
Rzmq        == RustZmq
ZmqRs       == RustZmq
ZeromqRs    == RustZmq
Pyzmq       == RustZmq
OmqRb       == RustZmq
OmqCr       == RustZmq
Netmq       == RustZmq

\* The rank is taken of n - 1.
LibzmqCpp == [RustZmq EXCEPT !.rank = "scaled"]

\* One attempt to connect, which fails if the server has not bound.
Celerity == [RustZmq EXCEPT !.connect = "once"]

\* recv() may return that there is nothing, null or the end of the stream, which
\* the server looks at and the client does not.  Jeromq's does not look at what
\* send() returned either; monocoque has a raw stream.
Jeromq    == [RustZmq EXCEPT !.unsent = "ignored", !.closed = "counts"]
Monocoque == [RustZmq EXCEPT !.connect = "once", !.closed = "counts"]

-----------------------------------------------------------------------------
(* The line                                                                *)

\* Slip: the rank counts from one, the array from zero.
RankFromOne(rank, n, permille) ==
  IF rank = "scaled" THEN (permille * (n - 1)) \div 1000 + 1
  ELSE IF (permille * n) \div 1000 + 1 < n THEN (permille * n) \div 1000 + 1 ELSE n - 1

\* Zero-based index of a quantile among n sorted round trips.
Rank(rank, n, permille) ==
  IF rank = "scaled" THEN (permille * (n - 1)) \div 1000
  ELSE IF (permille * n) \div 1000 < n THEN (permille * n) \div 1000 ELSE n - 1

\* LATENCY count min p50 p90 p99 p999 max
LatencyLine(rank, xs) ==
  LET n == Len(xs)
      s == Sorted(xs)
      Q(permille) == s[Rank(rank, n, permille) + 1]
  IN  IF n = 0 THEN <<0, 0, 0, 0, 0, 0, 0>>
      ELSE <<n, s[1], Q(500), Q(900), Q(990), Q(999), s[n]>>

-----------------------------------------------------------------------------

VARIABLES
  target,   \* the cell's wrapper
  srv,      \* the REP server
  wire,     \* what is under way between the two
  echoed,   \* requests the server has answered
  pc,       \* where the client is
  trips,    \* round trips the client has made
  phantoms, \* history: those of them for which it received nothing
  now,      \* the client's clock
  t0,       \* when the current round trip was begun
  rtts,     \* the round trips it timed
  line,     \* the line it printed
  waited    \* history: ticks spent on timed trips, sending and waiting

server == <<srv, echoed>>
stopwatch == <<now, t0, rtts, waited>>
tally == <<trips, phantoms>>
vars == <<target, server, wire, pc, tally, stopwatch, line>>

TypeOK ==
  /\ target \in Targets
  /\ srv \in {"starting", "idle", "working", "gone"}
  /\ wire \in {"none", "request", "reply"}
  /\ echoed \in 0..Total /\ trips \in 0..Total /\ phantoms \in 0..trips
  /\ pc \in {"starting", "ready", "sending", "waiting", "done", "failed"}
  /\ now \in 0..MaxNow /\ t0 \in 0..now /\ waited \in 0..now
  /\ rtts \in Seq(0..MaxNow) /\ Len(rtts) <= Messages
  /\ Len(line) \in {0, 7}

Init ==
  /\ target \in Targets
  /\ srv = "starting" /\ wire = "none" /\ echoed = 0
  /\ pc = "starting" /\ trips = 0 /\ phantoms = 0
  /\ now = 0 /\ t0 = 0 /\ waited = 0 /\ rtts = <<>>
  /\ line = <<>>

-----------------------------------------------------------------------------
(* The server                                                              *)

Bind ==
  /\ srv = "starting"
  /\ srv' = "idle"
  /\ UNCHANGED <<target, echoed, wire, pc, tally, stopwatch, line>>

\* Slip: the server serves the measured requests only.
ReceiveCounted ==
  /\ srv = "idle" /\ wire = "request" /\ echoed < Messages
  /\ srv' = "working" /\ wire' = "none"
  /\ UNCHANGED <<target, echoed, pc, tally, stopwatch, line>>

Receive ==
  /\ srv = "idle" /\ wire = "request"
  /\ srv' = "working" /\ wire' = "none"
  /\ UNCHANGED <<target, echoed, pc, tally, stopwatch, line>>

Echo ==
  /\ srv = "working"
  /\ srv' = "idle" /\ wire' = "reply" /\ echoed' = echoed + 1
  /\ UNCHANGED <<target, pc, tally, stopwatch, line>>

\* The server crashes, its loop ends on an error, or the orchestrator kills it.
ServerDies ==
  /\ srv # "gone"
  /\ srv' = "gone"
  /\ UNCHANGED <<target, echoed, wire, pc, tally, stopwatch, line>>

-----------------------------------------------------------------------------
(* The client                                                              *)

Connect ==
  /\ pc = "starting"
  /\ pc' = IF target.connect = "once" /\ srv \in {"starting", "gone"}
           THEN "failed" ELSE "ready"
  /\ UNCHANGED <<target, server, wire, tally, stopwatch, line>>

\* Slip: the clock is started once, before the measured loop.
StartOneClock ==
  /\ pc = "ready" /\ trips < Total
  /\ t0' = IF trips <= Warmup THEN now ELSE t0
  /\ pc' = "sending"
  /\ UNCHANGED <<target, server, wire, tally, now, waited, rtts, line>>

\* The client reads its clock.
StartTrip ==
  /\ pc = "ready" /\ trips < Total
  /\ t0' = now
  /\ pc' = "sending"
  /\ UNCHANGED <<target, server, wire, tally, now, waited, rtts, line>>

\* It sends the request, which may take its time.
Send ==
  /\ pc = "sending"
  /\ wire' = "request" /\ pc' = "waiting"
  /\ UNCHANGED <<target, server, tally, stopwatch, line>>

\* The server is gone and the send fails.
SendFails ==
  /\ pc = "sending" /\ srv = "gone" /\ target.unsent = "fails"
  /\ pc' = "failed"
  /\ UNCHANGED <<target, server, wire, tally, stopwatch, line>>

\* A round trip is over; it is recorded if the warmup is.
Complete ==
  /\ trips' = trips + 1
  /\ rtts' = IF trips >= Warmup THEN Append(rtts, now - t0) ELSE rtts
  /\ pc' = "ready"

\* Slip: a receive that found nothing is taken for a reply.
RecvAnyway ==
  /\ pc = "waiting"
  /\ wire' = "none"
  /\ Complete
  /\ UNCHANGED <<target, server, phantoms, now, t0, waited, line>>

Recv ==
  /\ pc = "waiting" /\ wire = "reply"
  /\ wire' = "none"
  /\ Complete
  /\ UNCHANGED <<target, server, phantoms, now, t0, waited, line>>

\* The server is gone and the library says so, if it does not wait for another;
\* a reply that was under way is lost.
Closed ==
  /\ pc = "waiting" /\ srv = "gone"
  /\ wire' = "none"
  /\ IF target.closed = "counts" THEN Complete /\ phantoms' = phantoms + 1
     ELSE pc' = "failed" /\ UNCHANGED <<tally, rtts>>
  /\ UNCHANGED <<target, server, now, t0, waited, line>>

Report ==
  /\ pc = "ready" /\ trips = Total
  /\ line' = LatencyLine(target.rank, rtts)
  /\ pc' = "done"
  /\ UNCHANGED <<target, server, wire, tally, stopwatch>>

-----------------------------------------------------------------------------

OnTrip == pc \in {"sending", "waiting"}

Tick ==
  /\ (pc = "ready" \/ OnTrip) /\ now < MaxNow
  /\ now' = now + 1
  /\ waited' = IF OnTrip /\ trips >= Warmup THEN waited + 1 ELSE waited
  /\ UNCHANGED <<target, server, wire, pc, tally, t0, rtts, line>>

Server == Bind \/ Receive \/ Echo
Client == Connect \/ StartTrip \/ Send \/ Recv \/ Report

Next == Server \/ ServerDies \/ Client \/ SendFails \/ Closed \/ Tick

Spec == Init /\ [][Next]_vars

\* Both processes run; nothing makes a library report that its peer is gone.
FairSpec == Spec /\ WF_vars(Server) /\ WF_vars(Client)

-----------------------------------------------------------------------------
(* Properties                                                              *)

\* The server has answered every round trip the client makes, one for one, but for
\* its last answer, which may be under way or lost.  Only a client that does not
\* look at what it received can make a trip of nothing, and only once the server is
\* gone; a line speaks of Messages trips, and with none of these all of them and of
\* the warmup are answered.
EveryTripEchoed ==
  /\ echoed \in {trips - phantoms, trips - phantoms + 1}
  /\ srv # "gone" \/ target.closed = "fails" => phantoms = 0
  /\ line # <<>> => line[1] = Messages /\ (phantoms = 0 => echoed = Total)

Sum(xs) ==
  LET upto[i \in 0..Len(xs)] == IF i = 0 THEN 0 ELSE upto[i - 1] + xs[i]
  IN  upto[Len(xs)]

\* The time the client spends on sends and on waiting for replies after the warmup
\* is charged to its round trips, all of it and no other time.
TimedIsWaited ==
  LET under == IF OnTrip /\ trips >= Warmup THEN now - t0 ELSE 0
  IN  pc # "failed" => Sum(rtts) + under = waited

Permille == <<500, 900, 990, 999>>

\* Each quantile of a line has its share of the round trips on either side, to
\* within one, and the two ends and the quantiles are in order.
Balanced(latency, xs) ==
  LET n == Len(xs)
      AtMost(x)  == Cardinality({i \in 1..n : xs[i] <= x})
      AtLeast(x) == Cardinality({i \in 1..n : xs[i] >= x})
  IN  /\ AtLeast(latency[2]) = n /\ AtMost(latency[7]) = n
      /\ \A i \in 2..6 : latency[i] <= latency[i + 1]
      /\ \A i \in 1..4 :
           /\ 1000 * AtMost(latency[i + 2]) > Permille[i] * (n - 1)
           /\ 1000 * AtLeast(latency[i + 2]) >= (1000 - Permille[i]) * n

\* A printed line is balanced on the round trips that were timed, for both ranks
\* in use.
QuantilesBalanced == line # <<>> /\ rtts # <<>> => Balanced(line, rtts)

\* A cell whose server stays ends: every request of the warmup and the block is
\* answered.
Completes == <>(line # <<>> \/ pc = "failed" \/ srv = "gone")

-----------------------------------------------------------------------------
(* The inductive invariant behind the safety properties.                   *)

\* REQ and REP alternate: at any moment one of them has the move.
Alternate ==
  /\ pc # "waiting" => wire = "none"
  /\ wire # "none" => srv # "working"
  /\ srv = "working" => pc = "waiting"
  /\ OnTrip => trips < Total
  /\ pc = "starting" => trips = 0

\* The client has received as many answers as the server has sent, but for the
\* reply that is under way, or was lost at the server's death; after that there is
\* no other.
Tally ==
  /\ echoed \in {trips - phantoms, trips - phantoms + 1}
  /\ srv # "gone" \/ target.closed = "fails" => phantoms = 0
  /\ phantoms = 0 /\ pc # "failed" => echoed = (IF wire = "reply" THEN trips + 1 ELSE trips)
  /\ phantoms > 0 => wire # "reply"

\* What it has timed is what it made after the warmup, and what it printed.
Recorded ==
  /\ Len(rtts) = (IF trips >= Warmup THEN trips - Warmup ELSE 0)
  /\ line # <<>> => /\ pc = "done" /\ trips = Total
                    /\ line = LatencyLine(target.rank, rtts)

IInv == TypeOK /\ Alternate /\ Tally /\ Recorded
=============================================================================
