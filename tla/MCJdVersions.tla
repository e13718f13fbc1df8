----------------------------- MODULE MCJdVersions -----------------------------
(***************************************************************************)
(* An instance of JdVersions for TLC: the faults of the run.               *)
(***************************************************************************)
EXTENDS JdVersions, TLC

MostFaults == {"worker", "api", "setup"}

Symmetry ==
    Permutations(Workers) \cup Permutations(Contents) \cup Permutations(Versions)
        \cup Permutations(Rows)
=============================================================================
