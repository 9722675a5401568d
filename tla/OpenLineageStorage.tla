-------------------------- MODULE OpenLineageStorage --------------------------
(***************************************************************************)
(* dagster_openlineage/storage.py: the event log storage that emits an     *)
(* OpenLineage event for each asset event it stores.  Several threads of   *)
(* several processes store events; each process wraps the one event log    *)
(* with an object of its own, and remembers in memory which assets its     *)
(* runs planned, to report those of a failed run as failed.  A batch is    *)
(* stored event by event, and is therefore no different from its events.   *)
(***************************************************************************)
EXTENDS LineageLog, SequencesExt

CONSTANTS Procs,     \* processes, each with its own OpenLineageEventLogStorage
          Threads,   \* threads that store events
          Home,      \* the process of each thread
          MaxRuns,   \* _MAX_SYNTHESIS_RUNS
          MaxFaults  \* bound: deaths, failed dispatches and failed emissions

ASSUME StorageAssumption ==
  /\ Home \in [Threads -> Procs]
  /\ MaxRuns \in Nat \ {0}
  /\ MaxFaults \in Nat

VARIABLES
  planned, \* _planned_assets of each process
  noted,   \* the records each process took notice of, in that order
  at,      \* where in store_event each thread is: "idle", "stored" or "emit"
  on,      \* the storage id of the event the thread stores
  out,     \* what the thread's adapter calls have still to emit
  emitted, \* the calls that reached the OpenLineage backend
  dropped, \* the stored events of which an emission was lost
  lost,    \* the runs whose planned assets were lost
  faults   \* deaths and failures so far

vars == <<log, planned, noted, at, on, out, emitted, dropped, lost, faults>>

(***************************************************************************)
(* An OrderedDict: order lists the runs, each once, least recently used    *)
(* first; keys[r] is the set of assets r planned and has not materialized. *)
(***************************************************************************)
NoRuns == [order |-> << >>, keys |-> [r \in Runs |-> {}]]

Has(p, r) == Contains(p.order, r)
Place(s, r) == CHOOSE i \in DOMAIN s : s[i] = r
Without(s, r) == IF Contains(s, r) THEN RemoveAt(s, Place(s, r)) ELSE s
Pop(p, r) == [order |-> Without(p.order, r), keys |-> [p.keys EXCEPT ![r] = {}]]
Full(p) == Len(p.order) >= MaxRuns

(* A new run takes the place of the oldest; a known one moves to the end. *)
Plan(p, r, k) ==
  LET room == IF ~ Has(p, r) /\ Full(p) THEN Pop(p, Head(p.order)) ELSE p
  IN  [order |-> Append(Without(room.order, r), r), keys |-> [room.keys EXCEPT ![r] = @ \cup {k}]]

Discard(p, r, k) == [p EXCEPT !.keys[r] = @ \ {k}]

------------------------------------------------------------------------------
(* An adapter call about asset k for record i. *)
Call(i, kind, k) == [rec |-> i, kind |-> kind, key |-> k]

Init ==
  /\ log = << >>
  /\ planned = [p \in Procs |-> NoRuns]
  /\ noted = [p \in Procs |-> << >>]
  /\ at = [w \in Threads |-> "idle"]
  /\ on = [w \in Threads |-> 0]
  /\ out = [w \in Threads |-> {}]
  /\ emitted = {}
  /\ dropped = {}
  /\ lost = {}
  /\ faults = 0

(* The wrapped storage stores the event before anything is emitted. *)
StoreEvent(w, rec) ==
  /\ at[w] = "idle"
  /\ Len(log) < MaxLog
  /\ MayLog(rec)
  /\ log' = Append(log, rec)
  /\ at' = [at EXCEPT ![w] = "stored"]
  /\ on' = [on EXCEPT ![w] = Len(log')]
  /\ UNCHANGED <<planned, noted, out, emitted, dropped, lost, faults>>

(* The thread has these calls still to make; with none left, it returns. *)
Continue(w, calls) ==
  /\ out' = [out EXCEPT ![w] = calls]
  /\ at' = [at EXCEPT ![w] = IF calls = {} THEN "idle" ELSE "emit"]
  /\ on' = [on EXCEPT ![w] = IF calls = {} THEN 0 ELSE @]

(* What makes a process forget what it knows of a run. *)
Closing == {"step_failure"} \cup RunEnds

(* Variant: a materialization is not noticed. *)
RememberPlansOnly(p, rec) ==
  IF rec.type = "planned" THEN Plan(p, rec.run, rec.key)
  ELSE IF rec.type \in Closing THEN Pop(p, rec.run) ELSE p

(* What _dispatch does to the planned assets, under the lock. *)
Remember(p, rec) ==
  IF rec.type = "planned" THEN Plan(p, rec.run, rec.key)
  ELSE IF rec.type \in {"materialized", "not_materialized"} THEN Discard(p, rec.run, rec.key)
  ELSE IF rec.type \in Closing THEN Pop(p, rec.run)
  ELSE p

(* The adapter calls _dispatch makes once it has released the lock, and    *)
(* which emit an event: one for the asset event itself, or one per asset a *)
(* failure leaves.  A planned check is only told of when it stands alone,  *)
(* that is, when the process knows of no plan of its run.                  *)
Embedded(p, rec) == rec.type = "check_planned" /\ Has(p, rec.run)

AssetCalls(p, i) ==
  IF log[i].type \in AssetTypes /\ ~ Embedded(p, log[i])
  THEN {Call(i, log[i].type, log[i].key)} ELSE {}

DrainCalls(p, i) ==
  IF log[i].type \in {"run_failure", "step_failure"}
  THEN {Call(i, "failed", k) : k \in p.keys[log[i].run]} ELSE {}

(* Variants: a failure is not reported; every planned check stands alone;  *)
(* an asset that was not planned is not reported.                          *)
CallsWithoutDrain(p, i) == AssetCalls(p, i)

CallsStandalone(p, i) ==
  DrainCalls(p, i) \cup
  (IF log[i].type \in AssetTypes THEN {Call(i, log[i].type, log[i].key)} ELSE {})

CallsOfPlanned(p, i) ==
  IF Has(p, log[i].run) THEN AssetCalls(p, i) \cup DrainCalls(p, i) ELSE {}

Calls(p, i) == AssetCalls(p, i) \cup DrainCalls(p, i)

Dispatch(w) ==
  LET p == Home[w]
      rec == log[on[w]]
      map == Remember(planned[p], rec)
      gone == {r \in Runs : Has(planned[p], r) /\ ~ Has(map, r)} \ {rec.run}
  IN  /\ at[w] = "stored"
      /\ planned' = [planned EXCEPT ![p] = map]
      /\ noted' = [noted EXCEPT ![p] = Append(@, on[w])]
      /\ Continue(w, Calls(planned[p], on[w]))
      /\ lost' = lost \cup gone
      /\ UNCHANGED <<log, emitted, dropped, faults>>

(* The drain of a failed run makes its calls in no particular order. *)
Emit(w) ==
  \E c \in out[w] :
    /\ Continue(w, out[w] \ {c})
    /\ emitted' = emitted \cup {c}
    /\ UNCHANGED <<log, planned, noted, dropped, lost, faults>>

(* The backend refuses an event: the emitter logs that and goes on. *)
EmitFails(w) ==
  /\ faults < MaxFaults
  /\ faults' = faults + 1
  /\ \E c \in out[w] : Continue(w, out[w] \ {c})
  /\ dropped' = dropped \cup {on[w]}
  /\ UNCHANGED <<log, planned, noted, emitted, lost>>

(* The adapter raises: store_event logs that, and the calls left to make,  *)
(* those for other assets of a failed run among them, are never made.      *)
DispatchFails(w) ==
  /\ at[w] = "emit"
  /\ faults < MaxFaults
  /\ faults' = faults + 1
  /\ Continue(w, {})
  /\ dropped' = dropped \cup {on[w]}
  /\ UNCHANGED <<log, planned, noted, emitted, lost>>

(* A process dies, and what it remembered and was about to emit with it. *)
Die(p) ==
  /\ faults < MaxFaults
  /\ faults' = faults + 1
  /\ planned' = [planned EXCEPT ![p] = NoRuns]
  /\ at' = [w \in Threads |-> IF Home[w] = p THEN "idle" ELSE at[w]]
  /\ on' = [w \in Threads |-> IF Home[w] = p THEN 0 ELSE on[w]]
  /\ out' = [w \in Threads |-> IF Home[w] = p THEN {} ELSE out[w]]
  /\ lost' = lost \cup Range(planned[p].order)
  /\ dropped' = dropped \cup {on[w] : w \in {v \in Threads : Home[v] = p /\ at[v] # "idle"}}
  /\ UNCHANGED <<log, noted, emitted>>

Working(w) == Dispatch(w) \/ Emit(w)

Next ==
  \/ \E w \in Threads :
       \/ \E rec \in Records : StoreEvent(w, rec)
       \/ Working(w)
       \/ EmitFails(w) \/ DispatchFails(w)
  \/ \E p \in Procs : Die(p)

Spec == Init /\ [][Next]_vars

------------------------------------------------------------------------------
(***************************************************************************)
(* Properties.                                                             *)
(***************************************************************************)
RunOf(c) == log[c.rec].run

(* Process p took notice, n-th, of a record of these types of run r. *)
Noted(p, n, r, types) == log[noted[p][n]].run = r /\ log[noted[p][n]].type \in types
About(p, n, r, k, types) == Noted(p, n, r, types) /\ log[noted[p][n]].key = k

Quiet(r) == \A w \in Threads : at[w] # "idle" => log[on[w]].run # r

(* Nothing that was to be remembered or emitted of the run was lost. *)
Whole(r) == r \notin lost /\ \A i \in dropped : log[i].run # r

(* An asset is reported as failed, for want of a materialization, only by  *)
(* a process that knew it as planned, and for a failure of its run or of a *)
(* step of its run; between the plan and the failure the process had seen  *)
(* neither the asset made nor the run end or fail before.  What another    *)
(* process has seen made it does not know.                                 *)
NoFalseFailure ==
  \A c \in emitted : c.kind = "failed" =>
    \E p \in Procs : \E n \in DOMAIN noted[p] :
      /\ noted[p][n] = c.rec
      /\ log[c.rec].type \in {"run_failure", "step_failure"}
      /\ \E m \in 1 .. n - 1 :
           /\ About(p, m, RunOf(c), c.key, {"planned"})
           /\ \A d \in m + 1 .. n - 1 :
                /\ ~ About(p, d, RunOf(c), c.key, {"materialized", "not_materialized"})
                /\ ~ Noted(p, d, RunOf(c), Closing)

Reported(r, k) ==
  \E c \in emitted : RunOf(c) = r /\ c.key = k /\ c.kind \in {"failed", "not_materialized"}

(* A process that has seen a run plan an asset and then the run's failure  *)
(* has seen the asset made in between or reported it as failed, once no    *)
(* event of the run is still being stored, unless that was lost.           *)
FailuresTold ==
  \A p \in Procs : \A n \in DOMAIN noted[p] : \A m \in 1 .. n - 1 : \A k \in Steps :
    LET r == log[noted[p][n]].run
    IN  /\ Noted(p, n, r, {"run_failure"}) /\ About(p, m, r, k, {"planned"})
        /\ Whole(r) /\ Quiet(r)
        => \/ \E d \in m + 1 .. n - 1 : About(p, d, r, k, {"materialized"})
           \/ Reported(r, k)

(* A planned check is told of, as one that stands alone, only if the       *)
(* process had seen no plan of its run, or the run end or fail after it.   *)
EmbeddedKnown ==
  \A c \in emitted : c.kind = "check_planned" /\ Whole(RunOf(c)) =>
    \A p \in Procs : \A n \in DOMAIN noted[p] : noted[p][n] = c.rec =>
      \A m \in 1 .. n - 1 : Noted(p, m, RunOf(c), {"planned"}) =>
        \E d \in m + 1 .. n - 1 : Noted(p, d, RunOf(c), Closing)

(* The record's store_event has returned to its caller. *)
Returned(i) == \A w \in Threads : at[w] # "idle" => on[w] # i

(* Every asset event that is stored was emitted, unless its emission was   *)
(* lost, a thread has still to return from storing it, or it is a planned  *)
(* check of a run that the process knew to plan assets: those are left to  *)
(* the events of the assets.                                               *)
NothingForgotten ==
  \A i \in DOMAIN log : log[i].type \in AssetTypes =>
    \/ \E c \in emitted : c.rec = i
    \/ i \in dropped
    \/ ~ Returned(i)
    \/ /\ log[i].type = "check_planned"
       /\ \E p \in Procs : \E n \in DOMAIN noted[p] :
            noted[p][n] = i /\ \E m \in 1 .. n - 1 : Noted(p, m, log[i].run, {"planned"})

(* "The wrapper ... emits synthesized asset_failed_to_materialize OL       *)
(* events when a run ends with planned assets that never materialized"     *)
(* (storage.py lines 18 to 20): an asset reported so is never made.        *)
FailedNeverMade ==
  \A c \in emitted : c.kind = "failed" =>
    \A i \in DOMAIN log : log[i] # [run |-> RunOf(c), type |-> "materialized", key |-> c.key]
==============================================================================
