------------------------- MODULE MCOpenLineageStorage -------------------------
(* Small instances of OpenLineageStorage. *)
EXTENDS OpenLineageStorage

CONSTANTS r1, r2, s, t, v, w, p1, p2

Together == [x \in Threads |-> p1]
Apart == [x \in Threads |-> IF x = v THEN p1 ELSE p2]

(* Nothing tells runs, threads or assets apart. *)
Symmetry == Permutations(Runs) \cup Permutations(Threads) \cup Permutations(Steps)
==============================================================================
