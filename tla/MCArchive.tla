----------------------------- MODULE MCArchive -----------------------------
(* Machines, targets and cells for the model checking of Archive.            *)
EXTENDS Archive, TLC

CONSTANTS d1, d2, v1, v2

Bench == [cpu |-> "server", governor |-> <<"performance", "performance">>,
          noTurbo |-> "1", boost |-> "absent", virtualized |-> FALSE, root |-> TRUE,
          declared |-> TRUE]

\* The bench host; with one CPU left on powersave; and with turbo on, run by a user
\* in an environment that does not declare it.
Machines ==
  { Bench,
    [Bench EXCEPT !.governor = <<"performance", "powersave">>],
    [Bench EXCEPT !.noTurbo = "absent", !.boost = "1",
                  !.root = FALSE, !.declared = FALSE] }

Models == {"server", "laptop"}

\* An old archive has a CPU, or no hardware block that names one.
OldCpus == {"server", Nothing}

\* Two image-built targets, which differ by their filesystem only.
Image(r) == [id |-> r, rootfs |-> r, binary |-> "/app/target", variant |-> "default"]
Images == {Image("one"), Image("two")}

ImageOf == [c \in Cells |-> IF c = 2 THEN Image("two") ELSE Image("one")]

Symmetry == Permutations(Renders)
=============================================================================
