------------------------------- MODULE Sorting -------------------------------
(***************************************************************************)
(* The ascending sort of a series of numbers, as the orchestrator (stats.rs, *)
(* before it takes a quantile) and the latency clients (targets/, before    *)
(* they print theirs) do it.                                               *)
(***************************************************************************)
EXTENDS Integers, Sequences, FiniteSets

\* Where each sample goes: behind the smaller ones and, the sort being stable,
\* behind its equals that came earlier.
Place(xs) ==
  [i \in DOMAIN xs |->
     Cardinality({j \in DOMAIN xs : xs[j] < xs[i] \/ (xs[j] = xs[i] /\ j <= i)})]

\* Slip: the copy is not sorted.
Unsorted(xs) == xs

Sorted(xs) ==
  LET place == Place(xs)
  IN  [k \in DOMAIN xs |-> xs[CHOOSE i \in DOMAIN xs : place[i] = k]]
=============================================================================
