# Models of the community integrations

TLA+ specifications of the parts of this repository that have a protocol of
their own: where several tasks, threads, processes or queries interleave, where
something is retried, lost or cut short, and where a unit test reaches only the
friendly schedules. Paths are relative to the repository root; `libraries/x`
stands for `src/libraries/x` in the mapping of `PROJECT.json`.

To check a run: `tlc -config AsyncJoin.cfg MCAsyncExecutor.tla`. To check the
proofs of a module: `tlapm AsyncExecutorProofs.tla`.

## 1. Inventory

The repository is a collection of independent Python packages, one per external
tool, plus three implementations of the Dagster Pipes protocol. They share
Dagster core, which is not in the repository and appears here as external
definitions.

### dagster-async-executor

*State.* The plan as Dagster's `ActiveExecution` sees it, a task group with one
worker task per attempt, an unbuffered memory stream from the workers to the
orchestrator, an unbounded thread-safe queue from the event loop to the thread
that iterates.
*Operations.* Vend a batch of steps and start their workers, wait for an event
(with or without a bound), handle it, drain the stream, report an exception,
cancel, end the queue.
*Interaction.* Caller thread → portal → orchestrator task → workers; back
through the stream and the queue.
*Hard.* Cooperative scheduling, retries with delays, pool claims that are
refused for a while, hooks that run after a step's last event was handled,
exceptions before, after and instead of that event, and cancellation from
another thread.
*Correct when* every step runs after its upstream, the limits hold, the caller
sees the event order a stock executor gives, errors reach the caller, no task
outlives the iteration, and it ends.

### dagster-async-executor: step execution

*State.* A chain of asynchronous generators from the user's function to the
worker, the outputs given so far, the output between type check and storage.
*Operations.* Load inputs, pull an item, turn it into pieces, check, type check,
store, evaluate checks, conclude.
*Interaction.* Sends events to the worker; calls user code and I/O managers.
*Hard.* What was announced is not yet stored; exceptions at every point; outputs
given out of order, twice or not at all; cancellation between two events.
*Correct when* a success kept all it announced and an attempt has one end.

### dagster-openlineage: sensor

*State.* A persisted cursor: the last storage id and, for at most 1000 runs, the
step run ids, the repository name and the planned assets.
*Operations.* A tick: load the cursor, query the log once per event type, merge,
sort and cut, handle each record, persist.
*Interaction.* Reads Dagster's event log, which grows meanwhile; emits to an
OpenLineage backend.
*Hard.* Queries that see different logs, crashes between emitting and
persisting, handlers that raise, runs that are displaced from the cursor.
*Correct when* every record is handed to the emitter at least once and in order,
step run ids of a start and its end agree, and each planned asset of a run that
ended is settled by what happened.

### dagster-openlineage: storage wrapper

*State.* Per process, a locked map from run to planned assets (at most 1000 runs).
*Operations.* `store_event`: store, update the map under the lock, emit.
*Interaction.* Threads of several processes share one event log, not one map.
*Hard.* Emission outside the lock, one map per process, eviction, death.
*Correct when* a process reports of a failed run exactly the assets it saw planned
and not made, and no asset event is silently left out.

### pipes (Rust, Java, TypeScript)

*State.* A context (open or closed, assets already reported), a channel that
writes through, holds messages, or has an upload thread.
*Operations.* Open, report, log, close; in Java a session that runs the user's
code and closes for it.
*Interaction.* Writes a file or a stream that Dagster core reads.
*Hard.* A background thread that can die, several closes, clones of a channel
with buffers of their own, an exception that must survive a failed close.
*Correct when* messages arrive in order, closing waits for them, and an
exception is told to Dagster or to the caller.

### dagster-teradata: BTEQ and TPT

*State.* One object per utility and resource, which keeps its SSH client from
call to call; files on the remote host.
*Operations.* `bteq_operator`, `ddl_operator`, `tdload_operator`: prepare a
script, send it encrypted, decrypt and run it there, delete it; or run it here.
*Interaction.* Processes that use one remote host share its directory.
*Hard.* One file name for all BTEQ calls, deletions nobody waits for, a client
that outlives its call, failures between sending and deleting.
*Correct when* a call runs its own script where it was asked to, zero means that
it ran, and nothing is left behind; the second holds for TPT and for local BTEQ
only, the third but for TPT calls that raised.

### dagster-iceberg

*State.* A table in a catalog: schema, partition spec, properties, snapshots.
*Operations.* Store an output: find or create the table, bring schema, spec and
properties in line, write the rows in one of three modes with retries; load an
input; the same through Spark.
*Interaction.* Steps of one run and of others write to one table through
optimistic commits.
*Hard.* Several commits for one output, each from its own copy of the metadata;
two steps that both create the table; retries against other writers.
*Correct when* an output lands whole, once, in its own partitions, and a step
that comes after it sees it.

### Clients of remote services

dagster-sftp, dagster-sharepoint, dagster-hex, dagster-contrib-gcp (Cloud Run),
dagster-teradata (resource and compute clusters), dagster-salesforce,
dagster-elasticsearch, dagster-dataform.

*State.* Connections, tokens and sessions; else it is in the service.
*Operations.* Requests, retried or not; pages; polling with a timeout;
create-and-wait; bulk jobs; rollover and alias swap; a sensor's ticks.
*Interaction.* A service that works on its own, fails, and is changed by others
while a call runs.
*Hard.* A request that was carried out but not answered; what was looked up is
changed before it is used; a timeout beside an end; an error that is turned into
a return; a death between two requests.
*Correct when* what a call returned is so, a listing has all that stayed in its
place, nothing is left going unknown to the caller, and every call ends.

### Not modelled

| part | why |
| --- | --- |
| dagster-evidence | declarative: turns project files into asset definitions and starts subprocesses; keeps no state between steps |
| dagster-polars, dagster-hf-datasets | type routing, and calls of libraries whose storage formats are outside the repository |
| dagster-obstore | overrides an upload and a download; the polling thread is Dagster's |
| dagster-apprise | stateless hooks that format a message |
| anthropic, gemini, vertexai, notdiamond, chroma, qdrant, weaviate, modal, xquik, adbc, ducklake | build a client, yield it, record usage |
| orchestration side of pipes, conformance tests | test code; the reader of messages is in Dagster core |
| the template | no program |

## 2. Modules

| module | models |
| --- | --- |
| `ActiveExecution` | Dagster's `ActiveExecution` and plan, as functions on step status; external |
| `AsyncExecutor` | `executor.py`: orchestrator, workers, stream, bridge |
| `RunLog` | abstract: what an executor promises to the code that iterates over its events |
| `StepExecution` | `execution/plan/`: one attempt of one step |
| `StepAttempt` | abstract: what an attempt tells the executor |
| `LineageLog` | Dagster's event log: which event a run may log next; external |
| `OpenLineageSensor` | `sensor.py`, `cursor.py`, `utils.py` |
| `LineageFeed` | abstract: each record is handed over at least once and overtakes no earlier one; the backend may refuse it |
| `OpenLineageStorage` | `storage.py`, with the emitter's failures and the adapter's, and its silence on embedded checks |
| `PipesSession` | contexts, sessions and channels of the three Pipes implementations |
| `TeradataUtilities` | `ttu/`: BTEQ, tbuild and tdload, local and remote |
| `IcebergWriter` | `_utils/`, `_db_io_manager/`, `handler.py` and the Spark manager of dagster-iceberg |
| `PartitionedTable` | abstract: a table whose writes land whole, in their own partitions |
| `RemoteCall` | what the clients below share: a call, a service, failures |
| `SftpResource`, `SharePointResource`, `HexResource`, `CloudRunLauncher`, `ComputeCluster`, `TeradataResource`, `SalesforceResource`, `ElasticsearchManager`, `DataformClient` | one client each |
| `RemoteCalls` | the nine clients together, and what they all promise |
| `AsyncExecutorProofs`, `OpenLineageSensorProofs`, `OpenLineageStorageProofs`, `PipesSessionProofs`, `IcebergWriterProofs`, `RemoteCallsProofs` | theorems about the module each is named after, and the lemmas they rest on |
| `StepsAndUtilitiesProofs` | theorems about `StepExecution` and, apart from them, `TeradataUtilities` |
| `SharePointProofs` | the lemmas of `RemoteCallsProofs` about `SharePointResource`, and those its clients share |
| `MCAsyncExecutor`, `MCStepExecution`, `MCTeradataUtilities`, `MCIcebergWriter`, `MCOpenLineageSensor`, `MCOpenLineageStorage`, `MCPipesSession`, `MCRemoteCalls` | the instances TLC checks |
| `MCSideBySide` | three of them, which share no variable, explored in turn by one run |

Four refinements connect the layers: `AsyncExecutor` implements `RunLog`,
`StepExecution` implements `StepAttempt` (which is what the worker actions of
`AsyncExecutor` take an attempt to be), `IcebergWriter` implements
`PartitionedTable`, and `OpenLineageSensor` implements `LineageFeed`.

Definitions that no specification uses, such as `SwallowsAll` or `StepsShort`, are
plausible mistakes in the definition that follows them; `PROJECT.json` pairs each
with the property that catches it.

### How state and actions correspond to the code

*AsyncExecutor.* `status`, `outputs`, `attempts`, `claims` are `ActiveExecution`'s;
`worker[s, a]` is the task of attempt `a` of step `s`; `senders` holds the events of
workers blocked in `send`, `slot` an event handed to a waiting receiver; `queue`
and `consumer` are the bridge. A task runs until it awaits, so a worker acts only
while the orchestrator is suspended (`LoopIdle`). One turn of the loop is
`Schedule`, `Arm`, then `Receive`, `Wake` or `Timeout`; `Handle` is the yield to
the bridge, `handle_event`, and the skips `plan_events_iterator` yields after it.
`ReportException` then `Raise` are the `except` clause. `cancelled` is the task
group's scope. `PromiseKept` instantiates `RunLog` with the consumer's log.

*StepExecution.* The chain of generators is pulled by the worker, so one variable
per generator: `items` (what the user's function has still to give), `pieces`
(what `validate_and_coerce_op_result_to_iterator` made of the last item),
`storing` (the output between its type check and the I/O manager), and `log`.
`Yield`, `Return` and `FunctionRaises` are the user's function;
`PullReturned`, `Exhausted` and `Raised` are `compute.py` and the coercion;
`TypeCheck` (which may raise before its event), `Store`, `StoreFails` and `Evaluate`
are `core_dagster_event_sequence_for_step`; `Handled` and `Recorded` say which
outputs the I/O manager is asked for and which leave an asset event; `Conclude` is the blocking checks and the success event; `Fails` is
`dagster_event_sequence_for_step`'s choice between retry and failure.

*OpenLineageSensor.* `cursor` is what is persisted, `here` the tick's own copy;
`order` is the insertion order of the dict, on which eviction works. A tick is
`BeginTick`, one or more `Query`, then `Handle` per record, `EndTick`, with
`HandlerRaises` and `Crash` where the code can stop. `emitted` is history: what
the emitter was given. `Emit` lets the backend refuse any of it, which the emitter
logs and drops; `reached` is what it took.

*OpenLineageStorage.* A thread's `store_event` is three kinds of steps: the
wrapped storage stores (`StoreEvent`), the map is updated under the lock and the
calls to make are known (`Dispatch`), and each adapter call emits on its own
(`Emit`), may be refused by the backend (`EmitFails`) or raise (`DispatchFails`).
A planned check of a run whose plan the process knows makes no call (`Embedded`).
`Die` takes a process with its map. `noted` (the records a process took notice of,
in order), `dropped` and `lost` are history: the properties speak of what a
process could know, and excuse what a failure made impossible.

*PipesSession.* The initial state picks an implementation, a channel and the
step's assets. `accepted` are the messages whose write returned normally,
`arrived` those at their destination. Java's thread alternates between the test
of `shouldClose` (`BeginTurn`) and the flush (`TakeChunk`), so that closing can
fall between them; an upload that raises ends the thread (`UploadFails`).

*TeradataUtilities.* `ssh` is the client each object holds (`Local` for none,
`Closed` for one that could not connect), `files` what lies on a host, `removals`
the `rm` commands sent and not waited for. A call is `Begin...`, `Connect...`,
`Verify...`, `Transfer`, then `RunBteq` (whose status is BTEQ's, whether or not openssl gave it a script)
and `CloseBteq`, or `Decrypt` and
`RunTbuild` or `RunTdload`; local calls run in one step. `disturbed` and
`undeleted` are history.

*IcebergWriter.* `table` is the catalog's metadata with version numbers for what
a commit requires, `st[w].copy` the metadata a writer holds. A store is `Look`,
`Create`, `Open`, `UpdateSchema`, `Refresh`, `UpdateSpec`, `UpdateProperties`,
`Write` (with its retries), `Report`, each a request. `Lose` is a failure or
death at any of them, `Again` Dagster's retry of the step.

*RemoteCalls.* A run is one call of one client. `at` is where its code is, `left`
what it has still to do, `tries` the retries of the current request, `told` and
`answer` how it ended; `remote` is the service. `faults` bounds failures and
changes by others, `missed` counts the answers a call did not get or could not
read. Answers of Hex that are not JSON are not faults and have no bound: the
request waits in a place of its own (`"run_project again"`) and is sent once more
(`HexTurn`). Cloud Run's execution is `"cancelling"` between the request that
`terminate` makes and its stop, which nobody waits for (`CrStop`). `steady` is history:
what has been so in the service since the call began; a call that promises a
change and returns cannot leave its opposite steady.

## 3. Runs

| run | distinct states | shows |
| --- | --- | --- |
| `AsyncJoin` | 134,716 | a join of two steps with a retry and a hook: type invariant, upstream first, one attempt at a time, `RunLog` implemented |
| `AsyncFaults` | 147,441 | two independent steps under `max_concurrent` 1, a delayed retry, a hook, a pool claim, exceptions anywhere in a worker, a failing hook, an interrupted caller: no unbounded wait without a worker, the concurrency limit, errors surface, no orphans, termination |
| `SideBySide` | 1,971,313 | *step:* two assets, a check and a plain output, given in any order, typed or not, returned or yielded, wrong or twice, stored, observed or external: a success kept what it announced, parents are recorded before children, `StepAttempt` implemented. *Utilities:* a process with two calls and one with one, every utility, one host, failures at every step: no foreign script, zero means it ran (TPT, local BTEQ), the right host, nothing left. *Writers:* fifteen plans of three stores, or two and a load: `PartitionedTable` implemented, conflicts only with others, readers see what they follow, gaps refused |
| `SensorFeed` | 980,942 | crashes, failing handlers, refused emissions and eviction: nothing skipped, ids match, assets settled, one namespace, active runs kept, `LineageFeed` implemented, the sensor catches up |
| `StorageThreads` | 4,071,428 | two threads of one process, a map of one run, one death or failure: no false failure, all failures told, embedded checks known, nothing forgotten |
| `PipesEnds` | 1,073,518 | all implementations and channels: order, what closing promises, exceptions told, closing returns |
| `RemoteCalls` | 359,095 | every operation of nine clients, two troubles at any point: a return is true, listings are complete, no strays, calls end |
| `AsyncRetryRace` | *violation* | a retry that comes due between `get_steps_to_execute` and `sleep_interval` leaves an unbounded wait with no worker |
| `SensorRace` | *violation* | a record stored between two queries of one tick is skipped for good |
| `StorageDrain` | *violation* | the failure of one step reports as failed an asset that another step of the run then makes |
| `TtuHost` | *violation* | data definition without a host runs on the host of an earlier call |
| `TtuCleanup` | *violation* | a TPT call that raised leaves its files on the host |

Each violation is a finding in `PROJECT.json`, with the text it contradicts.

`SideBySide` explores three components in turn: `turn` picks one of them for good,
and the other two stay in an initial state. What it visits is the sum of what
three runs would visit, not their product.

### Where the documents and the code disagree

Five disagreements are the violation runs above. In the others the passing
properties claim only what the code does, and name the text they do not claim in
their comments:

| text | code | in the model |
| --- | --- | --- |
| pipes, `PipesSession.java` 44-52: exceptions of the runnable "are *not* propagated" | `PipesContextImpl.close` (92-94) throws what was reported | `FailureTold` asks that Dagster or the caller is told, and leaves open which |
| openlineage, `storage.py` 18-20: failed are planned assets "that never materialized" | a `STEP_FAILURE` drains those of all steps of its run | run `StorageDrain`; `NoFalseFailure` speaks of what a process knew at the failure |
| teradata, `resources.py` 530 and README 220: no host means local | the object's SSH client decides | run `TtuHost`; `RunsWhereAsked` leaves data definition without a host out |
| teradata, README 461-468: automatic clean-up of temporary files | remote files are deleted on the way through only | run `TtuCleanup`; `RemoteClean` speaks of TPT calls that returned |
| teradata, `encryption_utils.py` 242-251: decrypt and run BTEQ, the exit status returned | the status of a pipe is its last command's: zero when openssl failed and nothing was run | `SuccessMeansRan` does not speak of BTEQ on a remote host |
| teradata, `resources.py` 330-334 and README 37-39: queries "executed in series", their results fetched | with `fetch_results` the loop returns in its first turn, with None | `TdDone` claims the first statement |
| sharepoint, `resource.py` 991: files "created or modified" since a time (its parameter says created) | only those created | `SpListing` claims those created |
| dataform, README 265: observations of in-progress runs; `dataform_polling_sensor.py` 57 and 61: no invocation is processed again | actions that run are passed over; a list with the newest first, or a tick lost after its reports, repeats | `DfListing` claims ended actions, and no repeats if the list has the oldest first and every tick is kept |
| elasticsearch, `io_manager.py` 39-41 and README 107: readers "always see a consistent view" | a partition made again deletes the index the alias is on; a clean-up deletes the index another call fills or has put under the alias | `EsNoStrays` excepts the three orders |
| gcp, `run_launcher.py` 281-282: the run is reported as canceled | `cancel_execution`'s operation is dropped (272); the execution may still run | `CrDone` and `CrNoStrays` claim that it was asked to stop |
| hex, `resources.py` 404-405: "the maximum times requests to the Hex API should be retried" | an answer that is not JSON is not counted, and the request sent again for ever (73, 117-137) | `CallsEnd` excepts the call that meets such answers again and again |

### What the properties except, and why

The passing properties hold of the code as it is. Where the code falls short of
what one would hope, the property says so in its comment:

- *Hooks* of a finished step are tasks that `max_concurrent` does not count
  (`ConcurrencyBound` speaks of attempts). A failing hook of a step that retries
  reports a failure after the request for the retry, so that the next attempt
  runs beside what follows the failure: `AsyncFaults` has its hook on the step
  without retries (`Hooked = {b}`), and the theorem has the hypothesis
  `CleanHooks`.
- *Step.* An implied `Nothing` output escapes the check that parents are
  materialized first (`ParentsFirst`). A check result inside a returned tuple
  becomes the value of the check's output and is never evaluated; no property
  speaks of it.
- *Sensor.* What the backend refuses is logged and dropped, and the cursor moves
  on (`emitter.py` 84-102): the feed is one of records handed over, not received.
- *Storage.* What another process planned or materialized is unknown to the
  drain, so each property speaks of what one process took notice of
  (`NoFalseFailure`, `FailuresTold`, `EmbeddedKnown`): an asset made in another
  process may be reported as failed, and one planned there is not reported.
  Planned assets of a canceled or successful run are dropped without an event;
  planned checks of a run that planned assets are left to the events of the
  assets (`NothingForgotten`).
- *Pipes.* A failed upload is lost and closing does not throw (`ClosedMeansSent`
  excuses it); a failed write of `closed` leaves the exception to the next call,
  a call on a closed context is excused (`FailureTold`);
  the log messages of a Rust context that holds its messages may follow `closed`.
- *Teradata utilities.* A remote BTEQ call whose file another call replaced or
  removed, or openssl could not open, may return zero without having run
  (`SuccessMeansRan`); data definition without a host runs on the host of an
  earlier call (`RunsWhereAsked`); a TPT call that raised, or a dead process,
  leaves its files (`RemoteClean`).
- *Iceberg.* A step that died between creating the table and setting its spec
  leaves a table that later steps in mode "error" refuse for good; the metadata
  of an output is that of the table's current snapshot, whoever wrote it; a
  schema update from an older copy can hide a column; empty `table_properties`
  remove the properties of others; windows other than days are counted wrongly
  (`GapsRefused` speaks of days).
- *SFTP.* `list_files` leaves out, without a sign, what it could not `stat`
  (`ListingComplete`); a missing directory is an empty list; a `get` or `put`
  whose handler ignores the error returns without a transfer.
- *SharePoint.* A retried POST makes a second folder under another name; a
  deletion that was carried out but not answered ends in 404; files modified
  since the time are not listed.
- *Hex.* A retried POST, and one answered with something that is not JSON, starts
  a second run (`NoStrays` counts one for each answer lost or not read); a polled
  call without a timeout, and one that is always answered so, may not end
  (`CallsEnd` excepts both); a run that was killed makes polling raise.
- *Cloud Run.* A death between execution and tag leaves an execution that
  `terminate` cannot find (`NoStrays` counts it as missed); one that was asked to
  stop may still run when `terminate` has said TRUE.
- *Compute clusters.* A timeout is returned as a text, not raised; a group stays
  when creating its profile fails; the look for storage never refuses, since a
  count is never None.
- *Teradata.* `execute_queries` with `fetch_results` runs its first statement only.
- *Elasticsearch.* The clean-up may delete an index another call is filling, or
  the one another call has just put under the alias; without a suffix the index
  takes the alias's own name and the swap raises; a partition made again deletes
  the index the alias is on first.
- *Dataform.* An action that runs while a later one of its asset, or one of the
  same second, is reported is never reported, and one that has not ended is not
  reported yet; a list with the newest first repeats reports (`ListingComplete`). The op that times out leaves its workflow
  running.

### Bounds

- `MaxLag` (async): how many events the consumer may be behind. The queue is
  unbounded; the orchestrator only appends, so a longer queue adds no new
  orchestrator or worker state. It is lifted once the consumer has left.
- `Steps` and `Deps`: one to three steps. A chain or pair shows every
  interaction between one step and another; the join is the smallest plan with
  two workers competing for the stream below which a third waits.
- `MaxRetries` at most 1: two attempts are enough to overlap.
- `MaxLog` 8 (step): each of the four outputs given and stored, or one given
  twice; an attempt that would log more is not followed.
- `MaxLog` (lineage): six records cover the life of a run (plan, start, step,
  asset, end) and one record of another run; five cover a plan, a start, a
  failure, an asset and a check (`StorageThreads`); 4 and 7 reach the two
  violations.
- `RecordLimit` 2, `MaxRunning` 1, `MaxRuns` 1: the smallest values at which the
  cut of a tick and the eviction of a run happen within the log's bound.
- `MaxFaults` 0 to 2: crashes, failed handlers, refused emissions, failed writes,
  failed requests, changes by others. Two are enough for a failure beside a
  change, and for a retry that fails again.
- `MaxMessages` 5 and `MaxRuns` 2 (pipes): opened, one report of each kind and
  `closed`; two calls on one session.
- `MaxCalls` (Teradata): two calls of one object, so that the second finds the
  client of the first, beside one call of another process.
- `Plans` (Iceberg): three writers let a writer lose three commits to two others
  and their retries (`MaxTries` 1, a step tried again); days 0 to 2 are the
  smallest range with a gap; two colors make a second dimension.
- `HexRuns` of three: a run for the answer that was read and two for others; when
  Hex has started them all it refuses to start more.
- `HexRetries` 1, `DfTicks` 3, folders two deep, two pages, two batches: each
  loop is entered, repeated and left.

### Switches

- `PromptArm`: a retry does not come due in the few instructions between
  promotion and arming. `TRUE` in the passing runs, `FALSE` in `AsyncRetryRace`,
  which shows what happens otherwise. While another worker lives the same moment
  only delays the retry until the next event.
- `Snapshot`: the queries of a tick see one log. The passing run assumes it;
  `SensorRace` shows what is lost without.
- `Bursts`: a type may gain more records between two ticks than the limit. A
  limited query without an order is then cut at Dagster's discretion; the runs
  exclude it.
- `LateEvents`: steps that log after their run has ended. `FALSE` in the runs;
  it affects only entries that nothing but eviction removes.

### Fairness

- *Async.* The loop runs every ready task whenever the orchestrator is
  suspended: strong fairness for each worker, because the orchestrator's polling
  disables it again and again; strong fairness for taking a blocked sender's
  event, since a wait is not cut short before every look at the stream; weak
  fairness for the orchestrator, the clock and the consumer. A pool claim that
  stays pending is granted in the end: a slot's holder gives it back. An
  interrupt need not happen.
- *Sensor.* The daemon ticks again (weak fairness of the tick's steps); logging,
  crashes and failing handlers are free, and bounded.
- *Pipes.* The upload thread and the thread that joins it are scheduled. The
  user's code need not do anything.
- *Remote calls.* The caller's process goes on and its clock advances (weak
  fairness of `Step` and `Clock`). A service owes nothing: jobs, runs, clusters
  and workflows may never end, so `CallsEnd` rests on the callers' timeouts.
- *Step, storage, Teradata utilities, Iceberg.* No liveness is claimed.

## 4. Proofs

Every safety invariant a passing run checks is a theorem, and so are an action
property (`RunsWhereAsked`) and the four implementations of abstract
specifications (`PromiseKept`, `AttemptKept`, `FeedKept`, `WritesAtomic`). A
theorem holds for every value of the constants that meets the named assumptions
of the module and, where it has one, the hypothesis in its ASSUME. Each
hypothesis is met by the run that checks the same property.

The properties are seldom inductive. In each module an invariant that is
inductive is proved first, one lemma per action, and the properties follow:

| module | invariant | what it adds to the properties |
| --- | --- | --- |
| `AsyncExecutorProofs` | `EndInv`; `Counted`, `Clean`; `Bounded`; `WaitInv`; `Following` | below |
| `StepsAndUtilitiesProofs` | `StepInv` | what is between announcement and storage, and what the closing pieces still owe |
| `OpenLineageSensorProofs` | `FeedInv`, `SensorInv` | below |
| `OpenLineageStorageProofs` | `StorageInv` | what each process's map says of the records that process took notice of; for each planned asset, why it is no longer in the map |
| `PipesSessionProofs` | `PipesInv` | every accepted message is in exactly one place or lost; the places are in order |
| `StepsAndUtilitiesProofs` | `TtuInv` | whose file each file is, on which host, and which deletions are under way |
| `IcebergWriterProofs` | `IcebergInv`, `StrongInv` | how far a writer's copy is behind the table; what an overwrite left in its partitions |
| `RemoteCallsProofs`, `SharePointProofs` | `RemoteInv` | one invariant per client, below |

### AsyncExecutor

For every finite acyclic plan, every limit, retry policy and set of faults:

- `TypeCorrect`, on top of lemmas about `Settle`, `Mark` and `SkipEvents`.
- `UpstreamAlwaysFirst`. `Settle` only promotes a step whose upstream succeeded
  with outputs, and no action takes a success or an output back.
- `NoOrphanEver`, `ErrorAlwaysSurfaces`, from `EndInv`. The properties speak of
  the consumer, which sees only the queue: the invariant says what the queue
  proves about the tasks. An end item in it implies `orch = "ended"`, which
  implies that no worker lives; no error item implies that nothing was raised.
- `OneAttemptAlways`, `ConcurrencyAlwaysBound`. That an attempt is the only one
  of its step rests on events still in the stream: a step is in flight until its
  attempt's end is handled, and that end may sit in `slot` or `senders`.
  `Counted` relates attempts, workers and retries in transit; `Clean` says that
  a computing worker's end is not yet in transit and that a worker which may
  still report a failure has ended its step. The hypothesis `CleanHooks` excludes
  a failing hook on a step with retries: its failure, reported after the request
  for a retry, ends the step while the next attempt runs. The hook of
  `AsyncFaults` is on the step without retries.
- `NeverSilentWait`, under `PromptArm`, from `WaitInv`: every step in flight has
  a worker or an end in the stream (`Flying`), a blocked event has a live sender
  (`Lined`), an output belongs to a step that has begun (`Seen`), a plan that is not complete
  has a step to run, running or parked (`Going`, where the acyclicity of the plan
  is used), and a wait without a bound was armed with nothing parked and
  something in flight (`Armed`, `Told`). Without `PromptArm` the property is
  false: `AsyncRetryRace`.
- `PromiseAlwaysKept`, the implementation of `RunLog`, from `Following`. `RunLog`
  is about the log of the consumer, which runs behind the executor: the invariant
  says that every event in the queue is one `RunLog` allows after the log and
  what stands in front of it (`QueueAllowed`), that the bookkeeping says of each
  step what has been said of it there (`Mirrored`), that what sits in `slot` or
  `senders` may be said next (`Slotted`, `Lines`) and agrees with the place of
  its worker (`Word`), and that the end items come last, after everything has
  been said or with the error in front (`EndsLast`, `Rested`). The hypothesis
  `PlainEnds` excludes a worker that raises after the end of its attempt was
  reported (`"reraise"`, or `"badhook"` on a hooked step): its failure follows a
  success or a retry in the log, which `RunLog` forbids. Setup failures and
  interruptions are covered.

### StepExecution

`SuccessAlwaysKept`, `ParentsAlwaysFirst` and `AttemptAlwaysKept` (the
implementation of `StepAttempt`) hold for every set of outputs and checks, every
order in which they are given, every severity of a check, assets that are
materialized, observed or managed elsewhere, and every error. `StepInv` follows an output from
its announcement to its record: in between it is the head of `pieces` and in
`storing`, and nowhere else.

### OpenLineageSensor

For every log, limit, number of crashes, failing handlers and refused emissions,
under `Calm` (one snapshot per tick, no burst of more records than the limit), without which
records are skipped (`SensorRace`):

- `NothingEverSkipped` and `FeedRefined` (the implementation of `LineageFeed`),
  from `FeedInv`: the positions of cursor and tick are in the log and in order
  (`Positions`), everything up to a position was handled (`Caught`), the batch
  continues the tick's position without a gap (`Contiguous`), and no type has
  more unhandled records than the limit (`Within`). The core is that the oldest
  records of the union of complete results per type are a gapless continuation.
- `StepRunsAlwaysMatch`, `AlwaysOneNamespace`, `AssetsAlwaysSettled`,
  `ActiveRunsAlwaysKept`, from `SensorInv`. A crash throws the tick's own copy
  `here` away and goes on from `cursor`, so what is said of the one is said of
  both (`Sound`): a run that is not evicted and has not ended is in the cursor
  under the name its first record gave it (`Names`), with the id last emitted for
  each step that runs (`Ids`) and exactly the planned assets that are pending
  (`Plans`); the order of its entries follows the latest promoting records
  (`Recent`), from which it follows that only a run behind `MaxRunning` more
  recent ones is displaced. `Reported` says of each emission what the log
  justifies, and `InOrder` that the last word about a record comes after the last
  word about every earlier one, however often a crash repeats them. `Lives` is
  what `LineageLog` guarantees of a run's records.

### OpenLineageStorage

`NothingEverForgotten`, `NeverFalselyFailed`, `FailuresAlwaysTold` and
`EmbeddedAlwaysKnown` hold for every set of threads and processes, however threads
of one run interleave and whichever process stores which of its events; there is
no hypothesis. What makes that possible is that the properties speak of `noted`,
the records in the order one process took notice of them, which for two threads
need not be the order of the log. `StorageInv` relates the map of each process to
its `noted`: a run has an entry as long as nothing after its plan closed it, and
an asset is in the entry unless it was seen made since (`Kept` lists the ways in
which a planned asset may have left). That a process knows only its own is not
assumed away but stated: an asset that another process made may be reported as
failed, and the properties allow it.

### PipesSession

`AlwaysOrdered`, `ClosedAlwaysSent` and `FailureAlwaysTold`, for the three
implementations, every channel and any number of messages, sessions and failed
writes. What arrived, what is being uploaded and what waits are consecutive
pieces of what was accepted (`InLine`, `Accounted`); the last flush of Java's
thread happens after the flag it tests was set (`Ended`).

### TeradataUtilities

`OwnScriptAlways`, `SuccessAlwaysRan`, `RemoteAlwaysClean` and `AlwaysWhereAsked`,
for every set of processes, hosts and calls. `Placed` and `Filed` say whose a file
is and that it lies where the call works; `Kept` that the script a TPT call is
about to run is there. Nothing is said of what a remote BTEQ call that returned
zero has run, since its pipeline may have read nothing.

### IcebergWriter

`LostAlwaysToOthers` and `GapsAlwaysRefused` hold for every plan.
`DownstreamAlwaysSees` and `WritesAlwaysAtomic` (the implementation of
`PartitionedTable`) assume that the time window computed for a daily partition
covers that partition and no more, or is refused (`WholeWindows`), and that an
output written through Spark shares its table only with outputs of the same
engine and partition columns (`SparkAgrees`): a static overwrite of a table without
partitions replaces all of it, and a window of hours on a table partitioned by
days deletes its neighbours' rows. `Following` counts the commits between a
writer's base and the table, which is why a conflict needs at least three.

### RemoteCalls

`RemoteReturns`, `RemoteListings` and `RemoteStrays` state the three invariants of
the run for any service, any calls of the kinds the code has, any number of
failures and any changes by others. What the constants must be is a named
assumption of each client that needs one (`HexAssumption` to `SpAssumption`): which arguments an
operation takes, that files and folders are finite and told apart, that a drive is a
tree in which a place has one item, that Elasticsearch's names and Dataform's
invocations are listed in order without repetition, and that the batches of an
upsert share no record (a record in two batches is written and reported twice).

`RemoteInv` (`RemoteInvariant`) joins an inductive invariant per client, each proved
one lemma per action, over what they share (`Base`: what is steady is so now, a
call ends once, every missed answer is a trouble but those of Hex that are not
JSON). What a client's invariant adds:

- *Hex* (`HexInv`): at most one run was started per answer lost or not read, and
  one more once the project has been run (`HexCount`); if there was none the only
  run is the one polled, and a call that kills and raises leaves it inactive
  (`HexOnly`). The number of answers that are not JSON has no bound.
- *Cloud Run* (`CrInv`): at most one execution per launcher, and only that one is
  tagged (`CrOne`); without a missed request an execution without a tag does
  not exist once the launch is over (`CrTagged`). An execution that was asked to
  stop is over at any later step, or never.
- *Compute clusters* and *Teradata* (`CcInv`, `TdInv`): a group is dropped only
  after its profile was; a statement is done, and a table was gone at some
  moment, or it is still in `left`; with `fetch_results`, `left` is all of them
  until the call returns.
- *Salesforce* (`SfInv`): the pages read and the pages left are the pages of the
  job; the answer speaks of each record of the batches sent, once, as the record
  is, and batches that share no record keep it so (`SfTold`).
- *SFTP* (`SftpInv`): a file of the call is in `left` or was dealt with (`SftpLeft`);
  while the connection lasts the matches listed and those left have every file
  that stayed, once (`SftpMatched`).
- *Elasticsearch* (`EsInv`): what is under the alias is whole (`EsSound`); once moved,
  the alias is on the call's index (`EsMoved`); what the clean-up has passed
  over, and will, is fewer than it keeps (`EsFew`). The conditions are the
  property's: no chunk failed, and no other call cleaned up or moved the alias.
- *Dataform* (`DfInv`): the cursor is the start of something reported; what a tick
  found and did not call news is behind the cursor (`DfTicking`); with the oldest
  first, reports and what is still to ask for are in the order of the
  invocations, none twice (`DfOrdered`).
- *SharePoint* (`SpInv`, `SpLists`, `SpSearches`): the item a call found is the one its
  later requests name, and what the call did to it shows in `steady`; below.

The listing of a SharePoint drive is the longest of these arguments. Folders are
moved, renamed and deleted while pages are read, and the code goes into a
subfolder only after the last page of its parent. The invariant is about the files
and folders that have stayed in their place, under folders that have all stayed
(`SpChained`); one path leads to each of them and to nothing else (`SpOneWay`). Such a
folder has been found, or a request for a page not after its position is in
`todo`, as soon as its parent was reached: when the last page of the parent's own
parent was read (`SpFolderIn`, `SpReached`). A folder that was found is carried by its
parent's request until the last page, then asked for itself, and never twice. A
file is asked for in the folders found, after all of them were (`SpFileIn`). When
`todo` is empty nothing can be waiting, so a folder that was not found is in one
that was not reached, which was not found either (`SpAllFound`). That cannot be: what
is kept is still a tree, in which every set of items has one whose parent is not
in the set (`SpTyped`), and the folder asked for was reached. A search is simpler
(`SpSearchIn`): the service answers in one order, a page follows the last file
taken, and fewer answers than the limit mean that the last page was read.

In two places the model is wider than the code: the chunks of a bulk request and
the indices of a partitioned read are taken in any order, and the theorems hold
for each.

### Only model-checked

Liveness (`Terminates`, `CaughtUp`, `CloseReturns`, `CallsEnd`) rests on fairness
and `ENABLED`, outside what the prover handles. All other properties of the passing
runs are theorems.

No statement needs induction over data or a `RECURSIVE` operator, and the modules
declare none.

## 5. Abstractions

- Values, metadata, schemas, facets and configuration are left out, and so are
  texts of statements, messages and addresses. Resources and compute logs add no
  events.
- *AsyncExecutor* takes each step to compute one output; *StepExecution* has
  several outputs and one step. Dynamic outputs, and events a function logs
  through its context, are left out. The materialization and `HANDLED_OUTPUT` of
  one output are one step. Check results without severity ERROR fail no step; the
  rest of severity is left out.
- *OpenLineage.* Asset observations in the storage wrapper are a call without
  state and are left out, a batch is its events one by one. A handler of the
  sensor that raises has emitted nothing; one that fails after emitting is a
  crash with a repeated emission, which `Crash` covers.
- Times are choices: a retry comes due (`Ripen`), an upload interval has passed
  (`TakeChunk`), a timer passes (`HexTimer`, `CcTimer`, `SfTimer`, `DfTimer`).
- *Pipes.* Calls that only raise (a wrong asset key, a closed context) change
  nothing and are not steps; `Resolve` and `JavaResolve` say which calls those
  are. Partial writes, loaders and the no-op context are left out; the user's
  code uses its context from one thread and leaves closing to the session.
- *Teradata utilities.* Commands are what they do to files and which script they
  run; output is not parsed. A local call is one step. `tdload` with a variable
  file raises wherever it runs, as the code does (`tpt.py` line 634).
- *Iceberg.* What a commit requires of the catalog is external, taken from how
  `_utils/` builds its transactions. Looking for a table and loading it are one
  step. Column types, dropped partition columns, and a table written by both
  engines are left out. Partition keys are products of days and colors.
- *Remote calls.* SFTP: filters by pattern, size and date pass or drop a file as
  a whole. SharePoint: filters by extension and pattern, dates and sizes; a token
  that expires during a long wait is a failed request. Hex: a refused request is
  one answer, though the code repeats it up to the limit; an answer that cannot be
  decoded and one of another type are told apart. Salesforce:
  `get_limits` and `get_available_objects`, one request each. Elasticsearch: what
  documents and mappings are made of; keep 0 stands for no clean-up. Dataform:
  the window of minutes, notifications, one action per invocation.

## 6. Plan

1. `StepAttempt` instantiated inside `AsyncExecutor`, so that its workers are
   that specification's steps by construction.
2. What of `RunLog` still holds with hooks that fail and workers that raise
   after they reported, as an abstract specification of its own.
