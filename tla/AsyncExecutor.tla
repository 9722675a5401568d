---------------------------- MODULE AsyncExecutor ----------------------------
(***************************************************************************)
(* libraries/dagster-async-executor: the orchestrator loop, the step       *)
(* workers it starts in a task group, the unbuffered memory stream between *)
(* them, and the thread-safe queue that carries their events to the        *)
(* synchronous iterator Dagster consumes.                                  *)
(*                                                                         *)
(* Orchestrator and workers are tasks of one event loop: a task runs until *)
(* it awaits, so a worker acts only while the orchestrator is suspended    *)
(* (LoopIdle).  The consumer is another thread and acts at any time.       *)
(***************************************************************************)
EXTENDS ActiveExecution, Sequences

CONSTANTS MaxConcurrent, \* the executor's max_concurrent (None: |Steps|)
          MaxRetries,    \* MaxRetries[s]: max_retries of s's retry policy
          Delayed,       \* steps whose retry policy has a delay
          Hooked,        \* steps with one hook
          Pooled,        \* steps that claim a slot of a concurrency pool
          Faults,        \* which of FaultKinds the environment may produce
          PromptArm,     \* TRUE: no retry comes due between promotion and arming
          MaxLag         \* bound: how many events the consumer may be behind

FaultKinds == {"reraise", "badhook", "setup", "interrupt"}

ASSUME ExecutorAssumption ==
  /\ MaxConcurrent \in Nat \ {0}
  /\ MaxRetries \in [Steps -> Nat]
  /\ Delayed \subseteq Steps /\ Hooked \subseteq Steps /\ Pooled \subseteq Steps
  /\ Faults \subseteq FaultKinds
  /\ PromptArm \in BOOLEAN
  /\ MaxLag \in Nat \ {0}

VARIABLES
  status,    \* ActiveExecution: the status of each step
  outputs,   \* ActiveExecution: steps whose output it has seen
  attempts,  \* ActiveExecution: retries requested so far, per step
  claims,    \* ActiveExecution: steps with a pending pool claim
  ripe,      \* steps whose retry time is reached
  orch,      \* where the orchestrator is
  bounded,   \* is its wait bounded by move_on_after?
  slot,      \* the event handed to the waiting receiver, if any
  senders,   \* events of the workers blocked in send, oldest first
  worker,    \* where each worker is
  cancelled, \* the task group's cancel scope was cancelled
  failed,    \* the orchestrator itself raised
  queue,     \* the sync-async bridge queue
  consumer,  \* the iterator over the queue
  log        \* log[s]: the events of s the consumer has yielded

plan == <<status, outputs, attempts, claims>>
stream == <<slot, senders>>
bridge == <<queue, consumer, log>>
vars == <<plan, ripe, orch, bounded, stream, worker, cancelled, failed, bridge>>

(* A worker runs one attempt of one step. *)
Workers == UNION {{s} \X (1 .. MaxRetries[s] + 1) : s \in Steps}
Kinds == {"start", "output", "success", "failure", "retry", "hook", "skipped"}
Event(s, a, k) == [step |-> s, att |-> a, kind |-> k]
Events == [step : Steps, att : Nat, kind : Kinds]
EndItems == {[kind |-> "error"], [kind |-> "sentinel"]}

OrchStates == {"schedule", "arm", "receive", "waiting", "drain", "drain_wait",
               "closing", "ended"}
WorkerStates == {"none", "spawned", "compute", "computed", "reraise", "hooks",
                 "exit", "raising", "done", "raised", "cancelled"}

Gone == {"none", "done", "raised", "cancelled"}
Live == {w \in Workers : worker[w] \notin Gone}
Computing == {w \in Workers : worker[w] \in {"spawned", "compute", "computed"}}

TypeOK ==
  /\ status \in [Steps -> Status]
  /\ outputs \subseteq Steps
  /\ attempts \in [Steps -> Nat]
  /\ claims \subseteq Steps
  /\ ripe \subseteq Steps
  /\ orch \in OrchStates
  /\ bounded \in BOOLEAN
  /\ slot \in Seq(Events) /\ Len(slot) <= 1
  /\ senders \in Seq(Events)
  /\ worker \in [Workers -> WorkerStates]
  /\ cancelled \in BOOLEAN
  /\ failed \in BOOLEAN
  /\ queue \in Seq(Events \cup EndItems)
  /\ consumer \in {"iterating", "interrupted", "ok", "error"}
  /\ log \in [Steps -> Seq([kind : Kinds, att : Nat])]

(* execution_plan.start promotes the steps without upstream. *)
Init ==
  /\ status = Settle([s \in Steps |-> "pending"], {}, {})
  /\ outputs = {}
  /\ attempts = [s \in Steps |-> 0]
  /\ claims = {}
  /\ ripe = {}
  /\ orch = "schedule"
  /\ bounded = FALSE
  /\ slot = << >>
  /\ senders = << >>
  /\ worker = [w \in Workers |-> "none"]
  /\ cancelled = FALSE
  /\ failed = FALSE
  /\ queue = << >>
  /\ consumer = "iterating"
  /\ log = [s \in Steps |-> << >>]

(* The orchestrator is suspended: other tasks of the loop may run. *)
LoopIdle == orch \in {"receive", "waiting", "drain", "drain_wait", "closing"}

(* The queue is unbounded (maxsize 0); the model bounds the consumer's lag. *)
Room == Len(queue) < MaxLag \/ consumer # "iterating"

------------------------------------------------------------------------------
(***************************************************************************)
(* The orchestrator: one turn of the scheduling loop.                      *)
(***************************************************************************)

(* while not active.is_complete: vend a batch and start its workers. *)
Schedule(batch, refused) ==
  LET now == Settle(status, outputs, ripe)
  IN  /\ orch = "schedule"
      /\ ~ IsComplete(status)
      /\ refused \subseteq StepsIn(now, {"executable"}) \cap Pooled
      /\ IsBatch(now, batch, refused, MaxConcurrent)
      /\ status' = Mark(now, batch, "in_flight")
      /\ ripe' = ripe \ StepsIn(now, {"executable"})
      /\ claims' = (claims \cup refused) \ batch
      /\ worker' = [w \in Workers |->
                      IF w[1] \in batch /\ w[2] = attempts[w[1]] + 1
                      THEN "spawned" ELSE worker[w]]
      /\ orch' = "arm"
      /\ UNCHANGED <<outputs, attempts, bounded, stream, cancelled, failed, bridge>>

(* The loop is over: close the orchestrator's end of the stream, drain it. *)
LoopDone ==
  /\ orch = "schedule"
  /\ IsComplete(status)
  /\ orch' = "drain"
  /\ UNCHANGED <<plan, ripe, bounded, stream, worker, cancelled, failed, bridge>>

(* Variant: the wait is never bounded, as before sleep_interval was used. *)
ArmUnbounded ==
  /\ orch = "arm"
  /\ bounded' = FALSE
  /\ orch' = "receive"
  /\ UNCHANGED <<plan, ripe, stream, worker, cancelled, failed, bridge>>

(* sleep_interval if sleep_interval > 0 else None. *)
Arm ==
  /\ orch = "arm"
  /\ bounded' = SleepIsPositive(status, ripe, claims)
  /\ orch' = "receive"
  /\ UNCHANGED <<plan, ripe, stream, worker, cancelled, failed, bridge>>

(***************************************************************************)
(* What the orchestrator does with an event: yield it to the bridge, let   *)
(* ActiveExecution handle it, then yield the skips that follow.            *)
(***************************************************************************)
SkipEvents(before, after) ==
  LET skipped == {s \in Steps : before[s] # "skipped" /\ after[s] = "skipped"}
  IN  {q \in [1 .. Cardinality(skipped) -> {Event(s, 0, "skipped") : s \in skipped}] :
         \A s \in skipped : \A i, j \in DOMAIN q :
           /\ \E k \in DOMAIN q : q[k].step = s
           /\ (q[j].step \in Deps[q[i].step]) => j < i}

Handle(e, next) ==
  IF HandleRaises(status, e)
  THEN /\ queue' = Append(queue, e)
       /\ orch' = "closing"
       /\ failed' = TRUE
       /\ cancelled' = TRUE
       /\ UNCHANGED plan
  ELSE LET out   == IF e.kind = "output" THEN outputs \cup {e.step} ELSE outputs
           after == HandleStatus(status, e, Delayed)
       IN  /\ outputs' = out
           /\ attempts' = IF e.kind = "retry"
                          THEN [attempts EXCEPT ![e.step] = @ + 1] ELSE attempts
           /\ status' = Settle(after, out, ripe)
           /\ \E skips \in SkipEvents(status, status') :
                queue' = Append(queue, e) \o skips
           /\ orch' = next
           /\ UNCHANGED <<claims, cancelled, failed>>

(* receive() takes the oldest blocked sender's event, or starts waiting. *)
Receive(from, wait, next) ==
  /\ orch = from
  /\ ~ cancelled /\ Room
  /\ IF senders # << >>
     THEN /\ senders' = Tail(senders)
          /\ Handle(Head(senders), next)
     ELSE /\ orch' = wait
          /\ UNCHANGED <<plan, senders, queue, cancelled, failed>>
  /\ UNCHANGED <<ripe, bounded, slot, worker, consumer, log>>

(* A sender handed its event over while the orchestrator was waiting. *)
Wake(wait, next) ==
  /\ orch = wait
  /\ slot # << >> /\ Room
  /\ slot' = << >>
  /\ Handle(Head(slot), next)
  /\ UNCHANGED <<ripe, bounded, senders, worker, consumer, log>>

(* Variant: the timed-out wait is repeated without polling ActiveExecution. *)
TimeoutWaitsAgain ==
  /\ orch \in {"receive", "waiting"}
  /\ bounded /\ ~ cancelled
  /\ slot = << >>
  /\ orch' = "receive"
  /\ UNCHANGED <<plan, ripe, bounded, stream, worker, cancelled, failed, bridge>>

(* move_on_after fires: go round the loop without an event. *)
Timeout ==
  /\ orch \in {"receive", "waiting"}
  /\ bounded /\ ~ cancelled
  /\ slot = << >>
  /\ StepsIn(status, {"waiting"}) \cap ripe # {} \/ claims # {}
  /\ orch' = "schedule"
  /\ UNCHANGED <<plan, ripe, bounded, stream, worker, cancelled, failed, bridge>>

(* EndOfStream: the last clone of the stream is closed. *)
EndOfStream ==
  /\ orch \in {"drain", "drain_wait"}
  /\ senders = << >> /\ slot = << >>
  /\ Live = {}
  /\ orch' = "closing"
  /\ UNCHANGED <<plan, ripe, bounded, stream, worker, cancelled, failed, bridge>>

(* The cancelled scope reaches the orchestrator at its next await. *)
OrchCancelled ==
  /\ orch \in {"receive", "waiting", "drain", "drain_wait"}
  /\ cancelled /\ slot = << >>
  /\ orch' = "closing"
  /\ UNCHANGED <<plan, ripe, bounded, stream, worker, cancelled, failed, bridge>>

(* Variants: the bridge ends the queue without the error it caught, or *)
(* before the workers are gone.                                        *)
CloseWithoutError ==
  /\ orch = "closing"
  /\ Live = {} /\ Room
  /\ orch' = "ended"
  /\ queue' = Append(queue, [kind |-> "sentinel"])
  /\ UNCHANGED <<plan, ripe, bounded, stream, worker, cancelled, failed, consumer, log>>

CloseEarly ==
  /\ orch = "closing" /\ Room
  /\ orch' = "ended"
  /\ queue' = queue \o <<[kind |-> "error"], [kind |-> "sentinel"]>>
  /\ UNCHANGED <<plan, ripe, bounded, stream, worker, cancelled, failed, consumer, log>>

(* The task group waits for its workers; the bridge then ends the queue. *)
Close ==
  /\ orch = "closing"
  /\ Live = {} /\ Room
  /\ orch' = "ended"
  /\ queue' = queue \o
       (IF failed \/ cancelled \/ \E w \in Workers : worker[w] = "raised"
        THEN <<[kind |-> "error"], [kind |-> "sentinel"]>>
        ELSE <<[kind |-> "sentinel"]>>)
  /\ UNCHANGED <<plan, ripe, bounded, stream, worker, cancelled, failed, consumer, log>>

------------------------------------------------------------------------------
(***************************************************************************)
(* The workers.  send() hands the event to a waiting receiver, else blocks *)
(* until the orchestrator takes it.                                        *)
(***************************************************************************)
Sender(i) == <<senders[i].step, senders[i].att>>
Blocked(w) == \E i \in DOMAIN senders : Sender(i) = w

(* Variant: a receiver that was already handed an event is handed another. *)
SendTwiceOver(w, k, next) ==
  /\ LoopIdle /\ ~ cancelled /\ ~ Blocked(w)
  /\ worker' = [worker EXCEPT ![w] = next]
  /\ IF orch \in {"waiting", "drain_wait"}
     THEN slot' = Append(slot, Event(w[1], w[2], k)) /\ UNCHANGED senders
     ELSE senders' = Append(senders, Event(w[1], w[2], k)) /\ UNCHANGED slot
  /\ UNCHANGED <<plan, ripe, orch, bounded, cancelled, failed, bridge>>

Send(w, k, next) ==
  /\ LoopIdle /\ ~ cancelled /\ ~ Blocked(w)
  /\ worker' = [worker EXCEPT ![w] = next]
  /\ IF orch \in {"waiting", "drain_wait"} /\ slot = << >>
     THEN slot' = <<Event(w[1], w[2], k)>> /\ UNCHANGED senders
     ELSE senders' = Append(senders, Event(w[1], w[2], k)) /\ UNCHANGED slot
  /\ UNCHANGED <<plan, ripe, orch, bounded, cancelled, failed, bridge>>

(* STEP_START or STEP_RESTARTED. *)
StartStep(w) == worker[w] = "spawned" /\ Send(w, "start", "compute")

(* The step's output is type checked and stored: STEP_OUTPUT. *)
EmitOutput(w) == worker[w] = "compute" /\ Send(w, "output", "computed")

Succeed(w) ==
  /\ worker[w] \in {"compute", "computed"}
  /\ Send(w, "success", "hooks")

(* Variant: the attempt goes on after it asked for a retry. *)
RequestRetryGoesOn(w) ==
  /\ worker[w] \in {"compute", "computed"}
  /\ w[2] <= MaxRetries[w[1]]
  /\ Send(w, "retry", "computed")

(* RetryRequested below max_retries: STEP_UP_FOR_RETRY. *)
RequestRetry(w) ==
  /\ worker[w] \in {"compute", "computed"}
  /\ w[2] <= MaxRetries[w[1]]
  /\ Send(w, "retry", "hooks")

(* STEP_FAILURE; with raise_on_error the exception is raised again after it. *)
Fail(w) ==
  /\ worker[w] \in {"compute", "computed"}
  /\ \/ Send(w, "failure", "hooks")
     \/ "reraise" \in Faults /\ Send(w, "failure", "reraise")

(* _trigger_hook, once every event of the attempt has been sent. *)
TriggerHook(w) ==
  /\ worker[w] = "hooks" /\ w[1] \in Hooked
  /\ Send(w, "hook", "exit")

(* An exception leaves the worker: it reports a failure, then raises. *)
ReportException(w) ==
  /\ \/ worker[w] = "reraise"
     \/ worker[w] = "hooks" /\ w[1] \in Hooked /\ "badhook" \in Faults
  /\ Send(w, "failure", "raising")

Leave(w, next) ==
  /\ LoopIdle /\ ~ Blocked(w)
  /\ worker' = [worker EXCEPT ![w] = next]
  /\ cancelled' = (cancelled \/ next = "raised")
  /\ UNCHANGED <<plan, ripe, orch, bounded, stream, failed, bridge>>

(* Variant: the worker may end without running its hooks. *)
ExitWithoutHook(w) == worker[w] \in {"exit", "hooks"} /\ Leave(w, "done")

Exit(w) ==
  /\ worker[w] = "exit" \/ (worker[w] = "hooks" /\ w[1] \notin Hooked)
  /\ Leave(w, "done")

Raise(w) == worker[w] = "raising" /\ Leave(w, "raised")

(* for_step or the resource check raises before the stream is entered. *)
SetupRaises(w) ==
  /\ "setup" \in Faults
  /\ worker[w] = "spawned"
  /\ Leave(w, "raised")

(* senders without its i-th event. *)
Withdrawn(i) ==
  [j \in 1 .. Len(senders) - 1 |-> IF j < i THEN senders[j] ELSE senders[j + 1]]

(* Cancellation reaches a worker at an await; a blocked send is withdrawn. *)
CancelWorker(w) ==
  /\ LoopIdle /\ cancelled
  /\ worker[w] \notin Gone
  /\ worker' = [worker EXCEPT ![w] = "cancelled"]
  /\ \/ /\ ~ Blocked(w)
        /\ worker[w] \in {"spawned", "compute", "computed", "reraise", "hooks"}
        /\ UNCHANGED senders
     \/ \E i \in DOMAIN senders : Sender(i) = w /\ senders' = Withdrawn(i)
  /\ UNCHANGED <<plan, ripe, orch, bounded, slot, cancelled, failed, bridge>>

------------------------------------------------------------------------------
(* The clock reaches the time of a delayed retry. *)
Ripen(s) ==
  /\ status[s] = "waiting" /\ s \notin ripe
  /\ PromptArm => orch # "arm"
  /\ ripe' = ripe \cup {s}
  /\ UNCHANGED <<plan, orch, bounded, stream, worker, cancelled, failed, bridge>>

(***************************************************************************)
(* The consumer: event_queue.get() in the thread that iterates.            *)
(***************************************************************************)
Consume ==
  /\ consumer = "iterating" /\ queue # << >>
  /\ queue' = Tail(queue)
  /\ LET item == Head(queue)
     IN  IF item \in EndItems
         THEN /\ consumer' = IF item.kind = "error" THEN "error" ELSE "ok"
              /\ UNCHANGED log
         ELSE /\ log' = [log EXCEPT ![item.step] =
                            Append(@, [kind |-> item.kind, att |-> item.att])]
              /\ UNCHANGED consumer
  /\ UNCHANGED <<plan, ripe, orch, bounded, stream, worker, cancelled, failed>>

(* An interrupt or a closed generator: cancel the task and leave. *)
Interrupt ==
  /\ "interrupt" \in Faults
  /\ consumer = "iterating"
  /\ consumer' = "interrupted"
  /\ cancelled' = (cancelled \/ orch # "ended")
  /\ UNCHANGED <<plan, ripe, orch, bounded, stream, worker, failed, queue, log>>

(* Leaving the portal waits for the task to end. *)
LeavePortal ==
  /\ consumer = "interrupted" /\ orch = "ended"
  /\ consumer' = "error"
  /\ UNCHANGED <<plan, ripe, orch, bounded, stream, worker, cancelled, failed, queue, log>>

Finished == consumer \in {"ok", "error"} /\ orch = "ended" /\ UNCHANGED vars

Scheduling ==
  \/ \E batch, refused \in SUBSET Steps : Schedule(batch, refused)
  \/ LoopDone \/ Arm \/ Timeout \/ EndOfStream \/ OrchCancelled \/ Close
  \/ Receive("receive", "waiting", "schedule") \/ Wake("waiting", "schedule")
  \/ Receive("drain", "drain_wait", "drain") \/ Wake("drain_wait", "drain")

Working(w) ==
  \/ StartStep(w) \/ EmitOutput(w) \/ Succeed(w) \/ RequestRetry(w) \/ Fail(w)
  \/ TriggerHook(w) \/ ReportException(w) \/ Exit(w) \/ Raise(w)
  \/ SetupRaises(w) \/ CancelWorker(w)

Consuming == Consume \/ Interrupt \/ LeavePortal

Next ==
  \/ Scheduling
  \/ \E w \in Workers : Working(w)
  \/ \E s \in Steps : Ripen(s)
  \/ Consuming
  \/ Finished

(***************************************************************************)
(* Fairness: the event loop runs every ready task whenever the             *)
(* orchestrator is suspended, so a worker gets its turn although the       *)
(* orchestrator keeps polling (SF); the wait for an event is not cut short *)
(* every time before it looks for a blocked sender (SF); a pool claim that *)
(* stays pending is granted in the end (SF); the consumer gets on with it  *)
(* and time passes.  An interrupt need not happen.                         *)
(***************************************************************************)
Fairness ==
  /\ WF_vars(Scheduling)
  /\ SF_vars(Receive("receive", "waiting", "schedule"))
  /\ \A w \in Workers : SF_vars(Working(w))
  /\ \A s \in Steps : WF_vars(Ripen(s))
  /\ WF_vars(Consume) /\ WF_vars(LeavePortal)
  /\ \A s \in Pooled : SF_vars(\E batch, refused \in SUBSET Steps :
                                 s \in batch /\ Schedule(batch, refused))

Spec == Init /\ [][Next]_vars
FairSpec == Spec /\ Fairness

------------------------------------------------------------------------------
(***************************************************************************)
(* Properties.                                                             *)
(***************************************************************************)

(* A step leaves "pending" for execution only when ActiveExecution has seen *)
(* the success and the output of every step upstream of it, and it never   *)
(* runs below a failure (the order handle_event, plan_events_iterator and  *)
(* get_steps_to_execute are called in, executor.py lines 225-260).         *)
UpstreamFirst ==
  \A s \in Steps :
    status[s] \in {"executable", "in_flight", "waiting", "success", "failed"} =>
      \A d \in Deps[s] : status[d] = "success" /\ d \in outputs

(* The step computations that run at the same time never exceed            *)
(* max_concurrent, however retries and completions interleave.             *)
ConcurrencyBound == Cardinality(Computing) <= MaxConcurrent

(* A worker that computes is the current attempt of a step in flight: a    *)
(* retried step never runs beside its former attempt's computation, though *)
(* it may run beside that attempt's hooks.                                 *)
OneAttemptAtATime ==
  \A w \in Computing :
    /\ status[w[1]] = "in_flight"
    /\ w[2] = attempts[w[1]] + 1

(* The wait for an event is unbounded only while a worker is left to send  *)
(* one: parked retries and pool claims are polled for (the comment at      *)
(* executor.py lines 242-247).                                             *)
NoSilentWait == orch = "waiting" /\ ~ bounded => Live # {} \/ slot # << >> \/ cancelled

(* An exception that leaves a worker, even after its step succeeded and    *)
(* while the stream is being drained, reaches the caller: the iteration    *)
(* never ends as if the run had gone well.                                 *)
ErrorSurfaces ==
  consumer = "ok" => ~ failed /\ \A w \in Workers : worker[w] # "raised"

(* When the iteration is over, on whichever path, no worker is left.       *)
NoOrphans == consumer \in {"ok", "error"} => Live = {}

(* Every run ends: all steps finish, or an error is raised.                *)
Terminates == <> (consumer \in {"ok", "error"})

(* What the consumer sees is what an executor promises (module RunLog).    *)
RunResult == IF consumer \in {"ok", "error"} THEN consumer ELSE "open"
Promise == INSTANCE RunLog WITH result <- RunResult
PromiseKept == Promise!Spec
==============================================================================
