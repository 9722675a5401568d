--------------------------- MODULE MCAsyncExecutor ---------------------------
(* Small plans for AsyncExecutor. *)
EXTENDS AsyncExecutor, TLC

CONSTANTS a, b, c

(* One step; b takes a's output; c takes the outputs of a and b;
   neither of two steps depends on the other; a step alone. *)
Chain == a :> {} @@ b :> {a}
Join  == a :> {} @@ b :> {} @@ c :> {a, b}
Pair  == a :> {} @@ b :> {}
Single == a :> {}

(* Retry policies: all steps twice, one step twice, no retry. *)
RetryAll  == [s \in Steps |-> 1]
RetryOnlyA == [s \in Steps |-> IF s = a THEN 1 ELSE 0]
NoRetry   == [s \in Steps |-> 0]
==============================================================================
