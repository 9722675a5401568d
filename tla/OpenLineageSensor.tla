-------------------------- MODULE OpenLineageSensor --------------------------
(***************************************************************************)
(* dagster_openlineage/sensor.py, cursor.py and utils.py: the sensor that  *)
(* tails Dagster's event log and emits an OpenLineage event per record.    *)
(* A tick loads the cursor, queries the log once per event type, handles   *)
(* the merged records one by one, and persists the cursor.  The daemon may *)
(* die anywhere within a tick: what was emitted stays, the cursor does not *)
(* move, and the next tick starts over from it.                            *)
(***************************************************************************)
EXTENDS LineageLog, SequencesExt

CONSTANTS IncludeAssets, \* include_asset_events, and no storage wrapper is active
          RecordLimit, \* record_filter_limit: per type and per tick
          MaxRunning,  \* _MAX_CURSOR_RUNNING_PIPELINES
          Snapshot,    \* TRUE: nothing is logged between the queries of a tick
          Bursts,      \* TRUE: a type may have more than RecordLimit new records
          MaxFaults    \* bound: crashes, failed handlers, refused emissions

ASSUME SensorAssumption ==
  /\ IncludeAssets \in BOOLEAN
  /\ RecordLimit \in Nat \ {0}
  /\ MaxRunning \in Nat \ {0}
  /\ Snapshot \in BOOLEAN /\ Bursts \in BOOLEAN
  /\ MaxFaults \in Nat

VARIABLES
  cursor,  \* the persisted OpenLineageCursor
  phase,   \* of the tick: "idle", "query" or "handle"
  todo,    \* event types the tick has still to query
  batch,   \* storage ids the tick has fetched and not handled
  here,    \* the tick's own last_storage_id and running_pipelines
  uuids,   \* how many step run ids were made
  emitted, \* the records handled so far, what the emitter was given for each
  reached, \* the places in emitted of those that reached the backend whole
  faults,  \* crashes, failed handlers and refused emissions so far
  evicted  \* runs dropped from the cursor because it was full

vars == <<log, cursor, phase, todo, batch, here, uuids, emitted, reached, faults, evicted>>

(***************************************************************************)
(* running_pipelines is an insertion-ordered dict: order lists its keys,   *)
(* oldest first; entry[r] is the RunningPipeline of r.                     *)
(***************************************************************************)
Pipeline(repo) == [repo |-> repo, steps |-> [k \in Steps |-> 0], planned |-> {}]
Pipelines == [repo : BOOLEAN, steps : [Steps -> Nat], planned : SUBSET Steps]
Cursors == [last : Nat, order : Seq(Runs), entry : [Runs -> Pipelines]]

Known(c, r) == Contains(c.order, r)
Running(c, r, default) == IF Known(c, r) THEN c.entry[r] ELSE Pipeline(default)

(* dict.pop of a key: the other keys keep their order. *)
Place(s, r) == CHOOSE i \in DOMAIN s : s[i] = r
Without(s, r) == IF Contains(s, r) THEN RemoveAt(s, Place(s, r)) ELSE s

Drop(c, r) ==
  [c EXCEPT !.order = Without(@, r), !.entry[r] = Pipeline(FALSE)]

(* pop, then insert at the end. *)
Promote(c, r, e) ==
  [c EXCEPT !.order = Append(Without(@, r), r), !.entry[r] = e]

------------------------------------------------------------------------------
(***************************************************************************)
(* The handlers.  Each gives the tick's state after a record and the       *)
(* OpenLineage events it emits.  repo says whether the event carries the   *)
(* repository's name as its namespace or the adapter's default.            *)
(***************************************************************************)
Emission(about, kind, key, id, repo) ==
  [about |-> about, kind |-> kind, key |-> key, id |-> id, repo |-> repo]

(* get_repository_name is asked only when the run has no entry. *)
RepositoryName(c, r) == Running(c, r, TRUE).repo

(* Variant: a run's start replaces its entry. *)
HandlePipelineReplaces(c, rec) ==
  IF rec.type \in RunEnds THEN Drop(c, rec.run)
  ELSE Promote(c, rec.run, Pipeline(TRUE))

(* _handle_pipeline_event; running_pipelines.setdefault at a run's start. *)
HandlePipeline(c, rec) ==
  IF rec.type \in RunEnds THEN Drop(c, rec.run)
  ELSE IF Known(c, rec.run) THEN c
  ELSE Promote(c, rec.run, Pipeline(RepositoryName(c, rec.run)))

PipelineEvents(c, rec) ==
  {Emission("run", rec.type, "run", 0, RepositoryName(c, rec.run))}

(* _handle_step_event: a step's end reuses the step run id of its start. *)
StepRunId(c, rec) ==
  LET known == Running(c, rec.run, TRUE).steps[rec.key]
  IN  IF known # 0 THEN known ELSE uuids + 1

StepEntry(c, rec) ==
  LET e  == Running(c, rec.run, TRUE)
      id == CASE rec.type = "step_start"  -> StepRunId(c, rec)
              [] rec.type \in StepEnds    -> 0
              [] OTHER                    -> e.steps[rec.key]
  IN  [e EXCEPT !.steps[rec.key] = id]

(* Variants: the id is not kept; the run is not promoted. *)
HandleStepForgets(c, rec) == Promote(c, rec.run, Running(c, rec.run, TRUE))

HandleStepInPlace(c, rec) ==
  IF Known(c, rec.run) THEN [c EXCEPT !.entry[rec.run] = StepEntry(c, rec)]
  ELSE Promote(c, rec.run, StepEntry(c, rec))

HandleStep(c, rec) == Promote(c, rec.run, StepEntry(c, rec))

StepEvents(c, rec) ==
  IF rec.type \notin {"step_start"} \cup StepEnds THEN {}
  ELSE {Emission("step", rec.type, rec.key, StepRunId(c, rec), RepositoryName(c, rec.run))}

(* _handle_asset_event: a new entry has no repository name. *)
HandleAsset(c, rec) ==
  LET e == Running(c, rec.run, FALSE)
      planned == CASE rec.type = "planned" -> e.planned \cup {rec.key}
                   [] rec.type \in {"materialized", "not_materialized"} ->
                        e.planned \ {rec.key}
                   [] OTHER -> e.planned
  IN  Promote(c, rec.run, [e EXCEPT !.planned = planned])

AssetEvents(rec) == {Emission("asset", rec.type, rec.key, 0, FALSE)}

(* Variant: drained after the handler has popped the run. *)
DrainEventsLate(c, rec) == {}

(* _drain_planned_as_failures, before the run's own end is handled. *)
DrainEvents(c, rec) ==
  IF IncludeAssets /\ rec.type \in RunEnds /\ Known(c, rec.run)
  THEN {Emission("asset", "not_materialized", k, 0, FALSE) : k \in c.entry[rec.run].planned}
  ELSE {}

(* Without asset events, those Dagster counts as step events still promote. *)
IsStepEvent(rec) == rec.type \in StepTypes \cup {"materialized", "check"}

After(c, i) ==
  LET rec  == log[i]
      next == CASE IncludeAssets /\ rec.type \in AssetTypes -> HandleAsset(c, rec)
                [] rec.type \in RunTypes                    -> HandlePipeline(c, rec)
                [] ~ IncludeAssets /\ rec.type \in AssetTypes /\ ~ IsStepEvent(rec) -> c
                [] OTHER                                    -> HandleStep(c, rec)
  IN  [next EXCEPT !.last = i]

EventsOf(c, i) ==
  LET rec == log[i]
  IN  CASE rec.type \in AssetTypes -> IF IncludeAssets THEN AssetEvents(rec) ELSE {}
        [] rec.type \in RunTypes   -> DrainEvents(c, rec) \cup PipelineEvents(c, rec)
        [] OTHER                   -> StepEvents(c, rec)

(* _update_cursor keeps the most recent entries. *)
Evicted(c) == {c.order[i] : i \in 1 .. Len(c.order) - MaxRunning}

Trimmed(c) ==
  [c EXCEPT !.order = IF Len(@) > MaxRunning
                      THEN SubSeq(@, Len(@) - MaxRunning + 1, Len(@)) ELSE @,
            !.entry = [r \in Runs |-> IF r \in Evicted(c) THEN Pipeline(FALSE) ELSE @[r]]]

------------------------------------------------------------------------------
(***************************************************************************)
(* get_event_log_records.  A query without an order returns the newest     *)
(* records of the type; the merged records are sorted and cut to the limit. *)
(***************************************************************************)
(* Variant: the record after the cursor is not new. *)
NewOffByOne(t) == {i \in DOMAIN log : log[i].type = t /\ i > here.last + 1}

New(t) == {i \in DOMAIN log : log[i].type = t /\ i > here.last}

Newest(S) == {i \in S : Cardinality({j \in S : j > i}) < RecordLimit}

(* Variant: the merged records are cut at the wrong end. *)
OldestCutOff(S) == Newest(S)

Oldest(S) == {i \in S : Cardinality({j \in S : j < i}) < RecordLimit}

Init ==
  /\ log = << >>
  /\ cursor = [last |-> 0, order |-> << >>, entry |-> [r \in Runs |-> Pipeline(FALSE)]]
  /\ phase = "idle"
  /\ todo = {}
  /\ batch = {}
  /\ here = cursor
  /\ uuids = 0
  /\ emitted = << >> /\ reached = {}
  /\ faults = 0
  /\ evicted = {}

(* A run logs an event, at any time: what it logs once the tick has queried *)
(* the log is as if logged before the next tick.                            *)
Log(rec) ==
  /\ Len(log) < MaxLog
  /\ MayLog(rec)
  /\ phase # "handle"
  /\ Snapshot => phase # "query"
  /\ Bursts \/ Cardinality({i \in DOMAIN log : log[i].type = rec.type /\ i > cursor.last})
               < RecordLimit
  /\ log' = Append(log, rec)
  /\ UNCHANGED <<cursor, phase, todo, batch, here, uuids, emitted, reached, faults, evicted>>

BeginTick ==
  /\ phase = "idle"
  /\ phase' = "query"
  /\ todo' = Types
  /\ here' = cursor
  /\ UNCHANGED <<log, cursor, batch, uuids, emitted, reached, faults, evicted>>

(* The queries of the types in S see the same log. *)
Query(S) ==
  /\ phase = "query"
  /\ S \subseteq todo /\ S # {}
  /\ Snapshot => S = todo
  /\ todo' = todo \ S
  /\ LET found == batch \cup UNION {Newest(New(t)) : t \in S}
     IN  IF todo' = {} THEN batch' = Oldest(found) /\ phase' = "handle"
                       ELSE batch' = found /\ UNCHANGED phase
  /\ UNCHANGED <<log, cursor, here, uuids, emitted, reached, faults, evicted>>

(* OpenLineageEmitter.emit: what the backend refuses is logged and dropped, *)
(* and the handler goes on as if it had been taken.                         *)
Emit(i) ==
  \/ reached' = reached \cup {Len(emitted) + 1} /\ UNCHANGED faults
  \/ /\ EventsOf(here, i) # {} /\ faults < MaxFaults
     /\ faults' = faults + 1
     /\ UNCHANGED reached

(* Variant: the merged records are not sorted. *)
HandleUnsorted ==
  /\ phase = "handle" /\ batch # {}
  /\ LET i == Max(batch)
     IN  /\ batch' = batch \ {i}
         /\ here' = After(here, i)
         /\ emitted' = Append(emitted, [rec |-> i, events |-> EventsOf(here, i)])
         /\ uuids' = IF \E e \in EventsOf(here, i) : e.id > uuids THEN uuids + 1 ELSE uuids
         /\ Emit(i)
  /\ UNCHANGED <<log, cursor, phase, todo, evicted>>

(* The body of the loop over the fetched records. *)
Handle ==
  /\ phase = "handle" /\ batch # {}
  /\ LET i == Min(batch)
     IN  /\ batch' = batch \ {i}
         /\ here' = After(here, i)
         /\ emitted' = Append(emitted, [rec |-> i, events |-> EventsOf(here, i)])
         /\ uuids' = IF \E e \in EventsOf(here, i) : e.id > uuids THEN uuids + 1 ELSE uuids
         /\ Emit(i)
  /\ UNCHANGED <<log, cursor, phase, todo, evicted>>

(***************************************************************************)
(* A handler raises before it emits: the loop is left at the record before. *)
(* An asset handler has then already changed the run's entry.              *)
(***************************************************************************)
HandlerRaises ==
  /\ phase = "handle" /\ batch # {}
  /\ faults < MaxFaults
  /\ faults' = faults + 1
  /\ LET i == Min(batch)
     IN  here' \in {here} \cup {[After(here, i) EXCEPT !.last = here.last] :
                                  j \in {i} \cap {n \in DOMAIN log : log[n].type \in AssetTypes}}
  /\ batch' = {}
  /\ UNCHANGED <<log, cursor, phase, todo, uuids, emitted, reached, evicted>>

(* _update_cursor, and the daemon persists it. *)
EndTick ==
  /\ phase = "handle" /\ batch = {}
  /\ phase' = "idle"
  /\ cursor' = Trimmed(here)
  /\ here' = cursor'
  /\ evicted' = evicted \cup Evicted(here)
  /\ UNCHANGED <<log, todo, batch, uuids, emitted, reached, faults>>

(* The daemon dies: the tick's own state is gone. *)
Crash ==
  /\ phase # "idle"
  /\ faults < MaxFaults
  /\ faults' = faults + 1
  /\ phase' = "idle"
  /\ todo' = {}
  /\ batch' = {}
  /\ here' = cursor
  /\ UNCHANGED <<log, cursor, uuids, emitted, reached, evicted>>

Tick == BeginTick \/ (\E S \in SUBSET Types : Query(S)) \/ Handle \/ EndTick

Next ==
  \/ \E rec \in Records : Log(rec)
  \/ Tick
  \/ HandlerRaises \/ Crash

Spec == Init /\ [][Next]_vars

(* The daemon evaluates the sensor again and again. *)
FairSpec == Spec /\ WF_vars(Tick)

------------------------------------------------------------------------------
(***************************************************************************)
(* Properties.                                                             *)
(***************************************************************************)
Handled(i) == \E j \in DOMAIN emitted : emitted[j].rec = i

(* The cursor never moves past a record that was not handled: "guaranteed  *)
(* consistent with the cursor" (utils.py line 55).                         *)
NothingSkipped == \A i \in 1 .. cursor.last : Handled(i)

(* The sensor is a feed of the log: whatever crashes, raises or is refused, *)
(* every record is handed to the emitter, none before one that precedes it  *)
(* (module LineageFeed).  That it reaches the backend is not promised.      *)
Feed == INSTANCE LineageFeed
          WITH size <- Len(log), taken <- reached,
               handed <- [j \in DOMAIN emitted |-> emitted[j].rec]
FeedKept == Feed!Spec

(* Records a run logged after its own end. *)
Late(i) == \E j \in 1 .. i - 1 : log[j].run = log[i].run /\ log[j].type \in RunEnds

Says(j, e) == e \in emitted[j].events
RunOf(j) == log[emitted[j].rec].run

(* A step's end is emitted under the step run id its latest start was      *)
(* emitted under, across ticks, crashes and repeats, unless the run was   *)
(* evicted or had ended.                                                   *)
StepRunsMatch ==
  \A j \in DOMAIN emitted : \A e \in emitted[j].events :
    e.about = "step" /\ e.kind \in StepEnds
      /\ ~ Late(emitted[j].rec) /\ RunOf(j) \notin evicted
    => \E i \in 1 .. j - 1 :
         /\ RunOf(i) = RunOf(j)
         /\ Says(i, [e EXCEPT !.kind = "step_start"])
         /\ \A m \in i + 1 .. j - 1 : RunOf(m) = RunOf(j) =>
              \A f \in emitted[m].events : f.key = e.key => f.kind # "step_start"

(* Once a run's end is behind the cursor, the last the emitter was given    *)
(* of each asset it planned, its checks aside, is what happened: COMPLETE   *)
(* if it was materialized, FAIL if it was not, whatever was repeated on the *)
(* way.  What the backend then refuses it is not told again.                *)
AssetsSettled ==
  IncludeAssets => \A n \in 1 .. cursor.last : log[n].type \in RunEnds /\ log[n].run \notin evicted =>
    \A k \in {log[i].key : i \in {m \in 1 .. n : log[m].run = log[n].run
                                             /\ log[m].type = "planned"}} :
      LET said == {j \in DOMAIN emitted : emitted[j].rec <= n /\ RunOf(j) = log[n].run
                     /\ \E e \in emitted[j].events :
                          /\ e.about = "asset" /\ e.key = k
                          /\ e.kind \in {"planned", "materialized", "not_materialized"}}
          made == \E i \in 1 .. n : log[i] = [run |-> log[n].run, type |-> "materialized", key |-> k]
      IN  \E e \in emitted[Max(said)].events :
            /\ e.about = "asset" /\ e.key = k
            /\ e.kind = IF made THEN "materialized" ELSE "not_materialized"

(* The events of a run and of its steps carry one namespace, unless the    *)
(* run was evicted or had ended.                                           *)
OneNamespace ==
  \A i, j \in DOMAIN emitted :
    RunOf(i) = RunOf(j) /\ RunOf(i) \notin evicted
      /\ ~ Late(emitted[i].rec) /\ ~ Late(emitted[j].rec) =>
    \A e \in emitted[i].events : \A f \in emitted[j].events :
      {e.about, f.about} \subseteq {"run", "step"} => e.repo = f.repo

Promotes(rec) == rec.type \notin RunTypes /\ (IncludeAssets \/ IsStepEvent(rec))

(* A run that has not ended is dropped only to make room for MaxRunning    *)
(* others that were active after it, counting the record a handler failed  *)
(* on: the asset handler has moved its run to the front by then.           *)
ActiveRunsKept ==
  \A i \in 1 .. cursor.last :
    /\ Promotes(log[i])
    /\ ~ Known(cursor, log[i].run)
    /\ \A m \in 1 .. cursor.last : log[m].run = log[i].run => log[m].type \notin RunEnds
    => Cardinality({log[m].run : m \in (i + 1 .. cursor.last + 1) \cap DOMAIN log}
                     \ {log[i].run}) >= MaxRunning

(* However ticks fail, the sensor catches up with the log: every record is *)
(* handed to the emitter.                                                  *)
CaughtUp == <>[] (\A i \in DOMAIN log : Handled(i))
==============================================================================
