------------------------- MODULE MCTeradataUtilities -------------------------
(* Small instances of TeradataUtilities. *)
EXTENDS TeradataUtilities, TLC

CONSTANTS twice, once

(* One object used twice, so that the second call finds the client of the  *)
(* first, and a call of another process beside it.                         *)
TwoAndOne == twice :> 2 @@ once :> 1
==============================================================================
