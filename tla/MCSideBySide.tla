----------------------------- MODULE MCSideBySide -----------------------------
(***************************************************************************)
(* One attempt of a step, the Teradata utilities and the writers of an     *)
(* Iceberg table, on the small instances of their own modules.  The three  *)
(* have no variable in common and never call each other, so that one run   *)
(* explores them in turn: each takes all the steps it takes alone, from    *)
(* all its initial states, while the other two stay in one of theirs.      *)
(***************************************************************************)
EXTENDS MCStepExecution, MCTeradataUtilities, MCIcebergWriter

VARIABLE turn  \* whose steps are explored; never changes

OneStep == CHOOSE s \in Attempts : Outs \ s.selected \subseteq Optional
OnePlan == CHOOSE p \in Plans : TRUE

SideInit ==
  /\ turn \in {"step", "utilities", "writers"}
  /\ Init /\ TtuInit /\ IcebergInit
  /\ turn # "step" => step = OneStep
  /\ turn # "writers" => plan = OnePlan

SideNext ==
  /\ UNCHANGED turn
  /\ \/ turn = "step" /\ Next /\ UNCHANGED <<ttuVars, icebergVars>>
     \/ turn = "utilities" /\ TtuNext /\ UNCHANGED <<vars, icebergVars>>
     \/ turn = "writers" /\ IcebergNext /\ UNCHANGED <<vars, ttuVars>>

SideSpec == SideInit /\ [][SideNext]_<<turn, vars, ttuVars, icebergVars>>
==============================================================================
