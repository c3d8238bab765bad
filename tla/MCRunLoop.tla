----------------------------- MODULE MCRunLoop -----------------------------
(* Constants for the model checking of RunLoop.                             *)
EXTENDS RunLoop

\* The adaptive policy of the docs, 5..11 replicates, scaled down to 3..4.
Base == [min |-> 3, max |-> 4, warmup |-> 0,
         madK10 |-> 30, targetPct |-> 5, outlierPct |-> 25]

\* The scaled policy, and edges a matrix may carry, none of which
\* RunConfig::load rejects: a ceiling of zero, and a minimum above the ceiling
\* after two warmup rounds.
Replications ==
  { Base,
    [Base EXCEPT !.max = 0],
    [Base EXCEPT !.min = 5, !.max = 2, !.warmup = 2] }

\* --replicates not given, or 0, which the code raises to 1.
CliFlags == {-1, 0}
=============================================================================
