--------------------------- MODULE MCRunResources ---------------------------
(* Constants for the model checking of RunResources.                        *)
EXTENDS RunResources, TLC

CONSTANTS r1, r2, dotted, dashed, other, dashes, plain

\* Two ids that differ in a character the namespace's name does not keep, and a
\* third.
SafeNames == dotted :> dashes @@ dashed :> dashes @@ other :> plain

\* Where runs mount /proc themselves, one execution; where they find it, two.
Totals == 0 :> 1 @@ 1 :> 2

Symmetry == Permutations(Runs)
=============================================================================
