--------------------------- MODULE ActiveExecution ---------------------------
(***************************************************************************)
(* The plan bookkeeping of Dagster core (ActiveExecution) as AsyncExecutor *)
(* uses it.  Dagster core is not part of this repository: every definition *)
(* here is external, modelled from the calls executor.py makes             *)
(* (is_complete, get_steps_to_execute, get_known_state, sleep_interval,    *)
(* handle_event, plan_events_iterator).  The operators are pure: they take *)
(* the bookkeeping as arguments and the executor's actions apply them.     *)
(*                                                                         *)
(* A step has one output here.  A step whose upstream succeeded without    *)
(* producing its (optional) output is skipped; a step with a failed or     *)
(* abandoned upstream is abandoned.                                        *)
(***************************************************************************)
EXTENDS Naturals, FiniteSets

CONSTANTS Steps,  \* the step keys of the plan
          Deps    \* Deps[s]: the steps whose outputs s takes as inputs

(* The plan is a finite acyclic graph. *)
ASSUME PlanAssumption ==
  /\ IsFiniteSet(Steps)
  /\ Deps \in [Steps -> SUBSET Steps]
  /\ \A S \in SUBSET Steps : S # {} => \E s \in S : Deps[s] \cap S = {}

Status == {"pending", "executable", "in_flight", "waiting",
           "success", "failed", "skipped", "abandoned"}

(* The statuses a step never leaves. *)
Terminal == {"success", "failed", "skipped", "abandoned"}

StepsIn(st, K) == {s \in Steps : st[s] \in K}

Mark(st, S, k) == [s \in Steps |-> IF s \in S THEN k ELSE st[s]]

(***************************************************************************)
(* plan_events_iterator walks the plan until no step can be skipped, then  *)
(* until none can be abandoned.  The steps it marks are the least set      *)
(* closed under the corresponding rule.                                    *)
(***************************************************************************)
SkipRule(st, out, C) ==
  {s \in StepsIn(st, {"pending"}) :
     /\ Deps[s] \subseteq StepsIn(st, {"success", "skipped"}) \cup C
     /\ ~ Deps[s] \subseteq out}

SkipSet(st, out) ==
  {s \in StepsIn(st, {"pending"}) :
     \A C \in SUBSET StepsIn(st, {"pending"}) :
        SkipRule(st, out, C) \subseteq C => s \in C}

AbandonRule(st, C) ==
  {s \in StepsIn(st, {"pending"}) :
     Deps[s] \cap (StepsIn(st, {"failed", "abandoned"}) \cup C) # {}}

AbandonSet(st) ==
  {s \in StepsIn(st, {"pending"}) :
     \A C \in SUBSET StepsIn(st, {"pending"}) :
        AbandonRule(st, C) \subseteq C => s \in C}

(* Variant: one upstream output is enough. *)
ReadySetAny(st, out, ripe) ==
  {s \in StepsIn(st, {"pending"}) :
     Deps[s] = {} \/ Deps[s] \cap StepsIn(st, {"success"}) \cap out # {}}
  \cup (StepsIn(st, {"waiting"}) \cap ripe)

(* Steps whose upstream is all there, and delayed retries whose time came. *)
ReadySet(st, out, ripe) ==
  {s \in StepsIn(st, {"pending"}) :
     Deps[s] \subseteq StepsIn(st, {"success"}) \cap out}
  \cup (StepsIn(st, {"waiting"}) \cap ripe)

(* ActiveExecution._update, to its fixed point. *)
Settle(st, out, ripe) ==
  LET skipped   == Mark(st, SkipSet(st, out), "skipped")
      abandoned == Mark(skipped, AbandonSet(skipped), "abandoned")
  IN  Mark(abandoned, ReadySet(abandoned, out, ripe), "executable")

IsComplete(st) == \A s \in Steps : st[s] \in Terminal

InFlight(st) == StepsIn(st, {"in_flight"})

(***************************************************************************)
(* handle_event(e): the status of e's step after it.  Events other than    *)
(* the terminal ones of an attempt leave it alone.  A terminal event of a  *)
(* step that is not in flight breaks an invariant of ActiveExecution and   *)
(* raises (HandleRaises).                                                  *)
(***************************************************************************)
AttemptEnds == {"success", "failure", "retry"}

HandleRaises(st, e) == e.kind \in AttemptEnds /\ st[e.step] # "in_flight"

HandleStatus(st, e, delayed) ==
  CASE e.kind = "success" -> Mark(st, {e.step}, "success")
    [] e.kind = "failure" -> Mark(st, {e.step}, "failed")
    [] e.kind = "retry"   -> Mark(st, {e.step}, IF e.step \in delayed
                                                THEN "waiting" ELSE "executable")
    [] OTHER              -> st

(* Variant: the limit is applied to the batch alone. *)
IsBatchPerTurn(st, batch, refused, max) ==
  LET ready == StepsIn(st, {"executable"})
  IN  /\ batch \subseteq ready \ refused
      /\ Cardinality(batch) <= max
      /\ batch = ready \ refused \/ Cardinality(batch) = max

(***************************************************************************)
(* get_steps_to_execute vends a batch: executable steps, in some order,    *)
(* until max_concurrent steps are in flight; a step whose pool claim is    *)
(* refused is passed over.                                                 *)
(***************************************************************************)
IsBatch(st, batch, refused, max) ==
  LET ready == StepsIn(st, {"executable"})
      load  == Cardinality(batch) + Cardinality(InFlight(st))
  IN  /\ batch \subseteq ready \ refused
      /\ load <= max \/ batch = {}
      /\ batch = ready \ refused \/ load >= max

(***************************************************************************)
(* sleep_interval() is positive when the earliest parked piece of work is  *)
(* still in the future: a delayed retry whose time has not come, or a      *)
(* pending pool claim.  With nothing parked it is 0, and it is not         *)
(* positive once the time of a delayed retry has passed.                   *)
(***************************************************************************)
SleepIsPositive(st, ripe, claims) ==
  /\ StepsIn(st, {"waiting"}) \cup claims # {}
  /\ StepsIn(st, {"waiting"}) \cap ripe = {}
==============================================================================
