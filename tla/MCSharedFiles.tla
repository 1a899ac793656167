--------------------------- MODULE MCSharedFiles ---------------------------
(* Values and symmetry for model checking SharedFiles. *)
EXTENDS SharedFiles, TLC

CONSTANTS p1, p2, t1, t2, k3, other, unlisted

MCOriginals ==
  {NoFile, Empty, [lines |-> <<"small">>, nl |-> FALSE], [lines |-> <<"", "tie">>, nl |-> TRUE]}

(* Less than a step, and 70% of it halfway between two steps. *)
MCDeclared == [l \in CapacityLines |-> IF l = "small" THEN 40000 ELSE 250000]

(* 300 000 is above the ceiling for an unknown capacity, 120 000 no step.  *)
MCThresholds == {50000, 120000, 300000}

(* k3 may be declared smaller than the table says; the last is not in it.  *)
MCTable == [m \in Models |-> CASE m = k3 -> 1048576 [] m = other -> 262144 [] OTHER -> 0]

MCValues == Thresholds \cup {Invalid} \cup Tokens \cup {Identity}

Symmetric == Permutations(Procs) \cup Permutations(Tokens)
=============================================================================
