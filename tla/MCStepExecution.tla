--------------------------- MODULE MCStepExecution ---------------------------
(* Small instances of StepExecution. *)
EXTENDS StepExecution

(* A multi-asset: y depends on x, c a check, d a plain output. *)
FourOutputs == <<"x", "c", "y", "d">>
TwoAssets == [o \in {"x", "c", "y", "d"} |-> IF o = "x" THEN {"y"} ELSE {}]
==============================================================================
