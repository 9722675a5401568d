------------------------------ MODULE LineageLog ------------------------------
(***************************************************************************)
(* Dagster's event log as libraries/dagster-openlineage reads it: a growing *)
(* sequence of records whose index is the storage id.  Dagster is not part *)
(* of this repository; what a run may log, and in which order, is external *)
(* and modelled from what the sensor and the storage wrapper expect of it. *)
(* Each step of a run computes one asset, which has the step's key.        *)
(***************************************************************************)
EXTENDS Naturals, Sequences, FiniteSets

CONSTANTS Runs,       \* run ids
          Steps,      \* step keys, and the keys of the assets they compute
          Types,      \* the event types that occur
          LateEvents, \* TRUE: a step may log events after its run has ended
          MaxLog      \* bound: the length of the log

RunEnds == {"run_success", "run_failure", "run_canceled"}
RunTypes == {"run_start"} \cup RunEnds
StepEnds == {"step_success", "step_failure"}
StepTypes == {"step_start", "step_retry"} \cup StepEnds
AssetTypes == {"planned", "materialized", "not_materialized", "check_planned", "check"}

Records == [run : Runs, type : RunTypes, key : {"run"}]
           \cup [run : Runs, type : StepTypes \cup AssetTypes, key : Steps]

ASSUME LogAssumption ==
  /\ IsFiniteSet(Steps) /\ "run" \notin Steps
  /\ Types \subseteq RunTypes \cup StepTypes \cup AssetTypes
  /\ LateEvents \in BOOLEAN
  /\ MaxLog \in Nat

VARIABLE log

Logged(r, k, types) ==
  \E i \in DOMAIN log : log[i].run = r /\ log[i].key = k /\ log[i].type \in types

Started(r, k) == Logged(r, k, {"step_start"}) /\ ~ Logged(r, k, StepEnds)

(***************************************************************************)
(* The order in which a run logs its events: plans when the run is created, *)
(* the run's start, each step's start, its asset, its end, the run's end.  *)
(* A run may be canceled before it starts; a run that is declared failed or *)
(* canceled may leave steps that go on logging (LateEvents).               *)
(***************************************************************************)
MayLog(rec) ==
  LET r == rec.run
      k == rec.key
      ended == Logged(r, "run", RunEnds)
  IN  /\ rec.type \in Types
      /\ ~ LateEvents => ~ ended
      /\ \/ /\ rec.type \in {"planned", "check_planned"}
            /\ ~ Logged(r, k, {rec.type}) /\ ~ Logged(r, "run", RunTypes)
            /\ rec.type = "planned" => ~ Logged(r, k, {"check_planned"})
         \/ /\ rec.type = "run_start"
            /\ ~ Logged(r, "run", RunTypes)
         \/ /\ rec.type = "step_start"
            /\ Logged(r, "run", {"run_start"}) /\ ~ ended
            /\ ~ Logged(r, k, {"step_start"})
         \/ /\ rec.type = "step_retry"
            /\ Started(r, k) /\ ~ Logged(r, k, {"step_retry"})
         \/ /\ rec.type \in {"materialized", "check"}
            /\ Started(r, k)
            /\ ~ Logged(r, k, {rec.type})
         \/ /\ rec.type = "step_success"
            /\ Started(r, k)
         \/ /\ rec.type = "step_failure"
            /\ Started(r, k)
         \/ /\ rec.type = "not_materialized"
            /\ Logged(r, k, {"step_failure"})
            /\ ~ Logged(r, k, {"materialized", "not_materialized"})
         \/ /\ rec.type = "run_success"
            /\ Logged(r, "run", {"run_start"}) /\ ~ ended
            /\ \A s \in Steps : ~ Started(r, s) /\ ~ Logged(r, s, {"step_failure"})
         \/ /\ rec.type = "run_failure"
            /\ Logged(r, "run", {"run_start"}) /\ ~ ended
         \/ /\ rec.type = "run_canceled"
            /\ ~ ended
==============================================================================
