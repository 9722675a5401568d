------------------------- MODULE MCOpenLineageSensor -------------------------
(* Small instances of OpenLineageSensor. *)
EXTENDS OpenLineageSensor

CONSTANTS r1, r2
==============================================================================
