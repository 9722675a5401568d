------------------------- MODULE AsyncExecutorProofs -------------------------
(***************************************************************************)
(* Proofs about AsyncExecutor, for every plan, every retry policy and      *)
(* every choice of the faults.                                             *)
(***************************************************************************)
EXTENDS AsyncExecutor, FiniteSetTheorems, SequenceTheorems, TLAPS

------------------------------------------------------------------------------
(* The bookkeeping of ActiveExecution. *)

(* A worker is a pair of a step and an attempt number. *)
LEMMA WorkerPair ==
  ASSUME NEW w \in Workers
  PROVE  w[1] \in Steps /\ w[2] \in Nat \ {0}
BY ExecutorAssumption DEF Workers

(* Marking steps gives a status function again. *)
LEMMA MarkType ==
  ASSUME NEW st \in [Steps -> Status], NEW S, NEW k \in Status
  PROVE  Mark(st, S, k) \in [Steps -> Status]
BY DEF Mark

(* The fixed point of ActiveExecution._update is a status function. *)
LEMMA SettleType ==
  ASSUME NEW st \in [Steps -> Status], NEW out, NEW rp
  PROVE  Settle(st, out, rp) \in [Steps -> Status]
<1> DEFINE skipped   == Mark(st, SkipSet(st, out), "skipped")
           abandoned == Mark(skipped, AbandonSet(skipped), "abandoned")
<1>1. skipped \in [Steps -> Status]
  BY MarkType DEF Status
<1>2. abandoned \in [Steps -> Status]
  BY <1>1, MarkType DEF Status
<1>3. Mark(abandoned, ReadySet(abandoned, out, rp), "executable") \in [Steps -> Status]
  BY <1>2, MarkType DEF Status
<1> QED BY <1>3 DEF Settle

(* handle_event gives a status function. *)
LEMMA HandleStatusType ==
  ASSUME NEW st \in [Steps -> Status], NEW e \in Events, NEW delayed
  PROVE  HandleStatus(st, e, delayed) \in [Steps -> Status]
BY MarkType DEF HandleStatus, Status

(***************************************************************************)
(* What Settle does to a step: it leaves alone what is neither pending nor *)
(* a ripe retry, and it makes executable only a step whose upstream        *)
(* succeeded with its output, or a step that was executable or waiting.    *)
(***************************************************************************)
LEMMA SettleSteps ==
  ASSUME NEW st \in [Steps -> Status], NEW out, NEW rp, NEW s \in Steps
  PROVE  LET after == Settle(st, out, rp)[s]
         IN  /\ st[s] \notin {"pending", "waiting"} => after = st[s]
             /\ st[s] = "waiting" => after \in {"waiting", "executable"}
             /\ st[s] = "pending" =>
                  \/ after \in {"pending", "skipped", "abandoned"}
                  \/ /\ after = "executable"
                     /\ \A d \in Deps[s] : st[d] = "success" /\ d \in out
<1> DEFINE skipped   == Mark(st, SkipSet(st, out), "skipped")
           abandoned == Mark(skipped, AbandonSet(skipped), "abandoned")
           final     == Mark(abandoned, ReadySet(abandoned, out, rp), "executable")
<1>0. Deps[s] \subseteq Steps
  BY PlanAssumption
<1>1. /\ \A t \in Steps : skipped[t] # st[t] => st[t] = "pending" /\ skipped[t] = "skipped"
  BY DEF Mark, SkipSet, StepsIn
<1>2. \A t \in Steps : abandoned[t] # skipped[t] =>
                          skipped[t] = "pending" /\ abandoned[t] = "abandoned"
  BY DEF Mark, AbandonSet, StepsIn
<1>3. final[s] # abandoned[s] =>
        /\ final[s] = "executable"
        /\ \/ abandoned[s] = "waiting"
           \/ /\ abandoned[s] = "pending"
              /\ \A d \in Deps[s] : abandoned[d] = "success" /\ d \in out
  BY DEF Mark, ReadySet, StepsIn
<1>4. \A d \in Steps : abandoned[d] = "success" => st[d] = "success"
  BY <1>1, <1>2
<1>5. Settle(st, out, rp) = final
  BY DEF Settle
<1> HIDE DEF skipped, abandoned, final
<1> QED BY <1>0, <1>1, <1>2, <1>3, <1>4, <1>5

------------------------------------------------------------------------------
(* Types. *)

(* The events of a worker are events. *)
LEMMA WorkerEvent ==
  ASSUME NEW w \in Workers, NEW k \in Kinds
  PROVE  Event(w[1], w[2], k) \in Events
BY WorkerPair DEF Event, Events

(* The skips that follow an event are a sequence of events. *)
LEMMA SkipEventsType ==
  ASSUME NEW before, NEW after, NEW q \in SkipEvents(before, after)
  PROVE  q \in Seq(Events)
<1> DEFINE skipped == {s \in Steps : before[s] # "skipped" /\ after[s] = "skipped"}
<1>1. IsFiniteSet(skipped)
  BY FS_Subset, PlanAssumption
<1>2. Cardinality(skipped) \in Nat
  BY <1>1, FS_CardinalityType
<1>3. q \in [1 .. Cardinality(skipped) -> {Event(s, 0, "skipped") : s \in skipped}]
  BY DEF SkipEvents
<1>4. {Event(s, 0, "skipped") : s \in skipped} \subseteq Events
  BY DEF Event, Events, Kinds
<1> HIDE DEF skipped
<1>5. q \in [1 .. Cardinality(skipped) -> Events]
  BY <1>3, <1>4
<1> QED BY <1>2, <1>5

(* The initial state is well typed. *)
LEMMA InitType == Init => TypeOK
<1> SUFFICES ASSUME Init PROVE TypeOK
  OBVIOUS
<1>1. [s \in Steps |-> "pending"] \in [Steps -> Status]
  BY DEF Status
<1>2. status \in [Steps -> Status]
  BY <1>1, SettleType DEF Init
<1>3. /\ << >> \in Seq(Events) /\ Len(<< >>) <= 1
      /\ << >> \in Seq(Events \cup EndItems)
      /\ << >> \in Seq([kind : Kinds, att : Nat])
  OBVIOUS
<1> QED BY <1>2, <1>3 DEF Init, TypeOK, OrchStates, WorkerStates

(* Handling an event keeps the types of what it changes. *)
LEMMA HandleType ==
  ASSUME TypeOK, NEW e \in Events, NEW next \in OrchStates, Handle(e, next)
  PROVE  /\ status' \in [Steps -> Status]
         /\ outputs' \subseteq Steps
         /\ attempts' \in [Steps -> Nat]
         /\ claims' \subseteq Steps
         /\ orch' \in OrchStates
         /\ cancelled' \in BOOLEAN /\ failed' \in BOOLEAN
         /\ queue' \in Seq(Events \cup EndItems)
<1>0. e.step \in Steps
  BY DEF Events
<1>1. CASE HandleRaises(status, e)
  <2>1. /\ queue' = Append(queue, e)
        /\ orch' = "closing" /\ failed' = TRUE /\ cancelled' = TRUE
        /\ <<status, outputs, attempts, claims>>' = <<status, outputs, attempts, claims>>
    BY <1>1 DEF Handle, plan
  <2>2. queue' \in Seq(Events \cup EndItems)
    BY <2>1 DEF TypeOK
  <2> QED BY <2>1, <2>2 DEF TypeOK, OrchStates
<1>2. CASE ~ HandleRaises(status, e)
  <2> DEFINE out   == IF e.kind = "output" THEN outputs \cup {e.step} ELSE outputs
             after == HandleStatus(status, e, Delayed)
  <2>1. after \in [Steps -> Status]
    BY HandleStatusType DEF TypeOK
  <2>2. /\ outputs' = out
        /\ attempts' = IF e.kind = "retry"
                       THEN [attempts EXCEPT ![e.step] = @ + 1] ELSE attempts
        /\ status' = Settle(after, out, ripe)
        /\ \E skips \in SkipEvents(status, status') :
             queue' = Append(queue, e) \o skips
        /\ orch' = next
        /\ claims' = claims /\ cancelled' = cancelled /\ failed' = failed
    BY <1>2 DEF Handle
  <2>3. status' \in [Steps -> Status]
    BY <2>1, <2>2, SettleType
  <2>4. queue' \in Seq(Events \cup EndItems)
    <3>1. PICK skips \in SkipEvents(status, status') :
             queue' = Append(queue, e) \o skips
      BY <2>2
    <3>2. skips \in Seq(Events \cup EndItems)
      BY SkipEventsType
    <3>3. Append(queue, e) \in Seq(Events \cup EndItems)
      BY DEF TypeOK
    <3> QED BY <3>1, <3>2, <3>3
  <2>5. outputs' \subseteq Steps
    BY <1>0, <2>2 DEF TypeOK
  <2>6. attempts' \in [Steps -> Nat]
    BY <1>0, <2>2 DEF TypeOK
  <2> HIDE DEF after, out
  <2> QED BY <2>2, <2>3, <2>4, <2>5, <2>6 DEF TypeOK
<1> QED BY <1>1, <1>2

(* Each action of the orchestrator keeps the types. *)
LEMMA SchedulingType == TypeOK /\ Scheduling => TypeOK'
<1> SUFFICES ASSUME TypeOK, Scheduling PROVE TypeOK'
  OBVIOUS
<1>1. ASSUME NEW batch \in SUBSET Steps, NEW refused \in SUBSET Steps,
             Schedule(batch, refused)
      PROVE  TypeOK'
  <2> DEFINE now == Settle(status, outputs, ripe)
  <2>1. now \in [Steps -> Status]
    BY SettleType DEF TypeOK
  <2>2. status' \in [Steps -> Status]
    BY <1>1, <2>1, MarkType DEF Schedule, Status
  <2> QED BY <1>1, <2>2 DEF Schedule, TypeOK, OrchStates, WorkerStates, stream, bridge
<1>2. CASE LoopDone
  BY <1>2 DEF LoopDone, TypeOK, OrchStates, plan, stream, bridge
<1>3. CASE Arm
  BY <1>3 DEF Arm, TypeOK, OrchStates, plan, stream, bridge, SleepIsPositive
<1>4. CASE Timeout
  BY <1>4 DEF Timeout, TypeOK, OrchStates, plan, stream, bridge
<1>5. CASE EndOfStream
  BY <1>5 DEF EndOfStream, TypeOK, OrchStates, plan, stream, bridge
<1>6. CASE OrchCancelled
  BY <1>6 DEF OrchCancelled, TypeOK, OrchStates, plan, stream, bridge
<1>7. CASE Close
  <2>1. queue' \in Seq(Events \cup EndItems)
    <3> DEFINE bad == failed \/ cancelled \/ \E w \in Workers : worker[w] = "raised"
               end == IF bad THEN <<[kind |-> "error"], [kind |-> "sentinel"]>>
                             ELSE <<[kind |-> "sentinel"]>>
    <3>1. queue' = queue \o end
      BY <1>7 DEF Close
    <3>2. end \in Seq(Events \cup EndItems)
      <4> DEFINE I == Events \cup EndItems
      <4>1. [kind |-> "error"] \in I /\ [kind |-> "sentinel"] \in I
        BY DEF EndItems
      <4> HIDE DEF bad, I
      <4>2. /\ <<[kind |-> "error"], [kind |-> "sentinel"]>> \in Seq(I)
            /\ <<[kind |-> "sentinel"]>> \in Seq(I)
        BY <4>1
      <4> QED BY <4>2 DEF I
    <3> HIDE DEF end
    <3> QED BY <3>1, <3>2 DEF TypeOK
  <2> QED BY <1>7, <2>1 DEF Close, TypeOK, OrchStates, plan, stream
<1>8. ASSUME NEW from \in OrchStates, NEW wait \in OrchStates, NEW next \in OrchStates,
             Receive(from, wait, next)
      PROVE  TypeOK'
  <2>1. CASE senders # << >>
    <3>1. Head(senders) \in Events /\ Tail(senders) \in Seq(Events)
      BY <2>1 DEF TypeOK
    <3>2. Handle(Head(senders), next) /\ senders' = Tail(senders)
      BY <1>8, <2>1 DEF Receive
    <3> QED BY <1>8, <3>1, <3>2, HandleType DEF Receive, TypeOK
  <2>2. CASE senders = << >>
    BY <1>8, <2>2 DEF Receive, TypeOK, plan
  <2> QED BY <2>1, <2>2
<1>9. ASSUME NEW wait \in OrchStates, NEW next \in OrchStates, Wake(wait, next)
      PROVE  TypeOK'
  <2>1. Head(slot) \in Events
    BY <1>9 DEF Wake, TypeOK
  <2>2. << >> \in Seq(Events) /\ Len(<< >>) <= 1
    OBVIOUS
  <2> QED BY <1>9, <2>1, <2>2, HandleType DEF Wake, TypeOK
<1>10. {"receive", "waiting", "schedule", "drain", "drain_wait"} \subseteq OrchStates
  BY DEF OrchStates
<1> QED BY <1>1, <1>2, <1>3, <1>4, <1>5, <1>6, <1>7, <1>8, <1>9, <1>10 DEF Scheduling

(* Withdrawing a blocked send leaves a sequence of events. *)
LEMMA WithdrawnType ==
  ASSUME senders \in Seq(Events), NEW i \in DOMAIN senders
  PROVE  Withdrawn(i) \in Seq(Events)
<1>1. Len(senders) \in Nat \ {0}
  OBVIOUS
<1>2. \A j \in 1 .. Len(senders) - 1 :
        (IF j < i THEN senders[j] ELSE senders[j + 1]) \in Events
  BY <1>1
<1>3. Withdrawn(i) \in [1 .. Len(senders) - 1 -> Events]
  BY <1>2 DEF Withdrawn
<1> QED BY <1>1, <1>3

(* Sending an event and leaving keep the types. *)
LEMMA SendType ==
  ASSUME TypeOK, NEW w \in Workers, NEW k \in Kinds, NEW next \in WorkerStates,
         Send(w, k, next)
  PROVE  TypeOK'
<1> DEFINE e == Event(w[1], w[2], k)
<1>1. e \in Events
  BY WorkerEvent
<1>2. \/ slot' = <<e>> /\ senders' = senders
      \/ senders' = Append(senders, e) /\ slot' = slot
  BY DEF Send
<1>3. worker' \in [Workers -> WorkerStates]
  BY DEF Send, TypeOK
<1> HIDE DEF e
<1>4. slot' \in Seq(Events) /\ Len(slot') <= 1 /\ senders' \in Seq(Events)
  <2>1. CASE slot' = <<e>> /\ senders' = senders
    BY <1>1, <2>1 DEF TypeOK
  <2>2. CASE senders' = Append(senders, e) /\ slot' = slot
    BY <1>1, <2>2 DEF TypeOK
  <2> QED BY <1>2, <2>1, <2>2
<1> QED BY <1>3, <1>4 DEF Send, TypeOK, plan, bridge

(* A worker that leaves keeps the types. *)
LEMMA LeaveType ==
  ASSUME TypeOK, NEW w \in Workers, NEW next \in WorkerStates, Leave(w, next)
  PROVE  TypeOK'
BY DEF Leave, TypeOK, plan, stream, bridge

(* Each action of a worker keeps the types. *)
LEMMA WorkingType ==
  ASSUME TypeOK, NEW w \in Workers, Working(w)
  PROVE  TypeOK'
<1>0. /\ {"start", "output", "success", "failure", "retry", "hook"} \subseteq Kinds
      /\ {"compute", "computed", "reraise", "hooks", "exit", "raising", "done",
          "raised", "cancelled"} \subseteq WorkerStates
  BY DEF Kinds, WorkerStates
<1>1. CASE \E k \in Kinds, next \in WorkerStates : Send(w, k, next)
  BY <1>1, SendType
<1>2. CASE \E next \in WorkerStates : Leave(w, next)
  BY <1>2, LeaveType
<1>3. CASE CancelWorker(w)
  <2>1. senders' \in Seq(Events)
    BY <1>3, WithdrawnType DEF CancelWorker, TypeOK
  <2>2. worker' \in [Workers -> WorkerStates]
    BY <1>0, <1>3 DEF CancelWorker, TypeOK
  <2> QED BY <1>3, <2>1, <2>2 DEF CancelWorker, TypeOK, plan, bridge
<1> QED
  BY <1>0, <1>1, <1>2, <1>3
  DEF Working, StartStep, EmitOutput, Succeed, RequestRetry, Fail, TriggerHook,
      ReportException, Exit, Raise, SetupRaises

(* Each action of the consumer keeps the types. *)
LEMMA ConsumingType == TypeOK /\ Consuming => TypeOK'
<1> SUFFICES ASSUME TypeOK, Consuming PROVE TypeOK'
  OBVIOUS
<1>1. CASE Consume
  <2> DEFINE item == Head(queue)
  <2>1. /\ queue # << >>
        /\ queue' = Tail(queue)
        /\ item \in Events \cup EndItems
    BY <1>1 DEF Consume, TypeOK
  <2>2. queue' \in Seq(Events \cup EndItems)
    BY <2>1 DEF TypeOK
  <2>3. consumer' \in {"iterating", "interrupted", "ok", "error"}
    BY <1>1 DEF Consume, TypeOK
  <2>4. log' \in [Steps -> Seq([kind : Kinds, att : Nat])]
    <3>1. CASE item \in EndItems
      BY <1>1, <3>1 DEF Consume, TypeOK
    <3>2. CASE item \notin EndItems
      <4> DEFINE R == [kind : Kinds, att : Nat]
                 entry == [kind |-> item.kind, att |-> item.att]
                 s == item.step
      <4>1. s \in Steps /\ entry \in R
        BY <2>1, <3>2 DEF Events
      <4>2. log' = [log EXCEPT ![s] = Append(@, entry)]
        BY <1>1, <3>2 DEF Consume
      <4>3. log \in [Steps -> Seq(R)]
        BY DEF TypeOK
      <4> HIDE DEF item, entry, s, R
      <4>4. Append(log[s], entry) \in Seq(R)
        BY <4>1, <4>3
      <4>5. log' \in [Steps -> Seq(R)]
        BY <4>1, <4>2, <4>3, <4>4
      <4> QED BY <4>5 DEF R
    <3> QED BY <3>1, <3>2
  <2> QED BY <1>1, <2>2, <2>3, <2>4 DEF Consume, TypeOK, plan, stream
<1>2. CASE Interrupt
  BY <1>2 DEF Interrupt, TypeOK, plan, stream
<1>3. CASE LeavePortal
  BY <1>3 DEF LeavePortal, TypeOK, plan, stream
<1> QED BY <1>1, <1>2, <1>3 DEF Consuming

(***************************************************************************)
(* Every variable of the executor keeps its type, whatever the plan.       *)
(***************************************************************************)
THEOREM TypeCorrect == Spec => []TypeOK
<1>1. Init => TypeOK
  BY InitType
<1>2. TypeOK /\ [Next]_vars => TypeOK'
  <2> SUFFICES ASSUME TypeOK, [Next]_vars PROVE TypeOK'
    OBVIOUS
  <2>1. CASE Scheduling
    BY <2>1, SchedulingType
  <2>2. CASE \E w \in Workers : Working(w)
    BY <2>2, WorkingType
  <2>3. CASE \E s \in Steps : Ripen(s)
    BY <2>3 DEF Ripen, TypeOK, plan, stream, bridge
  <2>4. CASE Consuming
    BY <2>4, ConsumingType
  <2>5. CASE UNCHANGED vars
    BY <2>5 DEF TypeOK, vars, plan, stream, bridge
  <2> QED BY <2>1, <2>2, <2>3, <2>4, <2>5 DEF Next, Finished
<1> QED BY <1>1, <1>2, PTL DEF Spec

------------------------------------------------------------------------------
(***************************************************************************)
(* UpstreamFirst.  With the types it is inductive: a success is final, the *)
(* outputs seen only grow, and a step becomes executable only below        *)
(* successes whose output was seen.                                        *)
(***************************************************************************)
Upstream(st, out) ==
  \A s \in Steps :
    st[s] \in {"executable", "in_flight", "waiting", "success", "failed"} =>
      \A d \in Deps[s] : st[d] = "success" /\ d \in out

(* plan_events_iterator and the vending of a batch preserve it. *)
LEMMA UpstreamSettle ==
  ASSUME NEW st \in [Steps -> Status], NEW out, NEW rp, Upstream(st, out)
  PROVE  Upstream(Settle(st, out, rp), out)
<1> DEFINE after == Settle(st, out, rp)
<1> SUFFICES ASSUME NEW s \in Steps,
                    after[s] \in {"executable", "in_flight", "waiting", "success", "failed"},
                    NEW d \in Deps[s]
             PROVE  after[d] = "success" /\ d \in out
  BY DEF Upstream
<1>1. d \in Steps
  BY PlanAssumption
<1>2. st[d] = "success" => after[d] = "success"
  BY <1>1, SettleSteps
<1>3. st[s] \in Status
  OBVIOUS
<1>4. CASE st[s] = "pending"
  BY <1>2, <1>4, SettleSteps
<1>5. CASE st[s] # "pending"
  <2>1. st[s] \in {"executable", "in_flight", "waiting", "success", "failed"}
    BY <1>3, <1>5, SettleSteps DEF Status
  <2> QED BY <2>1, <1>2 DEF Upstream
<1> QED BY <1>4, <1>5

(* Marking executable steps as in flight preserves it. *)
LEMMA UpstreamVend ==
  ASSUME NEW st \in [Steps -> Status], NEW out, Upstream(st, out),
         NEW batch \in SUBSET StepsIn(st, {"executable"})
  PROVE  Upstream(Mark(st, batch, "in_flight"), out)
BY PlanAssumption DEF Upstream, Mark, StepsIn

(* handle_event preserves it: the step it marks was in flight. *)
LEMMA UpstreamHandle ==
  ASSUME NEW st \in [Steps -> Status], NEW e \in Events, NEW out,
         ~ HandleRaises(st, e), Upstream(st, out)
  PROVE  Upstream(HandleStatus(st, e, Delayed), out)
<1> DEFINE after == HandleStatus(st, e, Delayed)
<1>1. e.step \in Steps
  BY DEF Events
<1>2. \/ after = st
      \/ /\ st[e.step] = "in_flight"
         /\ \E k \in {"success", "failed", "waiting", "executable"} :
              after = Mark(st, {e.step}, k)
  BY Zenon DEF HandleStatus, HandleRaises, AttemptEnds
<1> HIDE DEF after
<1>3. ASSUME after = st
      PROVE  Upstream(after, out)
  BY <1>3
<1>4. ASSUME st[e.step] = "in_flight",
             NEW k \in {"success", "failed", "waiting", "executable"},
             after = Mark(st, {e.step}, k)
      PROVE  Upstream(after, out)
  BY <1>1, <1>4, PlanAssumption DEF Upstream, Mark
<1> QED BY <1>2, <1>3, <1>4 DEF after

(* It survives an event being handled. *)
LEMMA UpstreamHandled ==
  ASSUME TypeOK, UpstreamFirst, NEW e \in Events, NEW next, Handle(e, next)
  PROVE  UpstreamFirst'
<1>0. Upstream(status, outputs)
  BY DEF UpstreamFirst, Upstream
<1>1. CASE HandleRaises(status, e)
  BY <1>1 DEF Handle, plan, UpstreamFirst
<1>2. CASE ~ HandleRaises(status, e)
  <2> DEFINE out   == IF e.kind = "output" THEN outputs \cup {e.step} ELSE outputs
             after == HandleStatus(status, e, Delayed)
  <2>1. outputs' = out /\ status' = Settle(after, out, ripe)
    BY <1>2 DEF Handle
  <2>2. after \in [Steps -> Status]
    BY HandleStatusType DEF TypeOK
  <2>3. Upstream(after, outputs)
    BY <1>0, <1>2, UpstreamHandle DEF TypeOK
  <2>4. Upstream(after, out)
    BY <2>3 DEF Upstream
  <2>5. Upstream(Settle(after, out, ripe), out)
    BY <2>2, <2>4, UpstreamSettle
  <2> HIDE DEF out, after
  <2>6. Upstream(status', outputs')
    BY <2>1, <2>5
  <2> QED BY <2>6 DEF UpstreamFirst, Upstream
<1> QED BY <1>1, <1>2

(***************************************************************************)
(* No step of any plan is vended, runs or ends before every step upstream  *)
(* of it succeeded and produced the output it takes.                       *)
(***************************************************************************)
THEOREM UpstreamAlwaysFirst == Spec => []UpstreamFirst
<1>1. Init => UpstreamFirst
  <2> SUFFICES ASSUME Init PROVE UpstreamFirst
    OBVIOUS
  <2> DEFINE none == [s \in Steps |-> "pending"]
  <2>1. none \in [Steps -> Status]
    BY DEF Status
  <2>2. Upstream(none, {})
    BY DEF Upstream
  <2>3. status = Settle(none, {}, {}) /\ outputs = {}
    BY DEF Init
  <2> HIDE DEF none
  <2>4. Upstream(status, outputs)
    BY <2>1, <2>2, <2>3, UpstreamSettle
  <2> QED BY <2>4 DEF UpstreamFirst, Upstream
<1>2. TypeOK /\ UpstreamFirst /\ [Next]_vars => UpstreamFirst'
  <2> SUFFICES ASSUME TypeOK, UpstreamFirst, [Next]_vars PROVE UpstreamFirst'
    OBVIOUS
  <2>1. ASSUME NEW batch \in SUBSET Steps, NEW refused \in SUBSET Steps,
               Schedule(batch, refused)
        PROVE  UpstreamFirst'
    <3> DEFINE now == Settle(status, outputs, ripe)
    <3>1. now \in [Steps -> Status] /\ Upstream(now, outputs)
      BY SettleType, UpstreamSettle DEF TypeOK, UpstreamFirst, Upstream
    <3>2. batch \in SUBSET StepsIn(now, {"executable"})
      BY <2>1 DEF Schedule, IsBatch
    <3>3. status' = Mark(now, batch, "in_flight") /\ outputs' = outputs
      BY <2>1 DEF Schedule
    <3> HIDE DEF now
    <3>4. Upstream(status', outputs')
      BY <3>1, <3>2, <3>3, UpstreamVend
    <3> QED BY <3>4 DEF UpstreamFirst, Upstream
  <2>2. ASSUME NEW from, NEW wait, NEW next, Receive(from, wait, next)
        PROVE  UpstreamFirst'
    <3>1. CASE senders # << >>
      <4>1. Head(senders) \in Events
        BY <3>1 DEF TypeOK
      <4>2. Handle(Head(senders), next)
        BY <2>2, <3>1 DEF Receive
      <4> QED BY <4>1, <4>2, UpstreamHandled
    <3>2. CASE senders = << >>
      BY <2>2, <3>2 DEF Receive, plan, UpstreamFirst
    <3> QED BY <3>1, <3>2
  <2>3. ASSUME NEW wait, NEW next, Wake(wait, next)
        PROVE  UpstreamFirst'
    <3>1. Head(slot) \in Events
      BY <2>3 DEF Wake, TypeOK
    <3>2. Handle(Head(slot), next)
      BY <2>3 DEF Wake
    <3> QED BY <3>1, <3>2, UpstreamHandled
  <2>4. CASE LoopDone \/ Arm \/ Timeout \/ EndOfStream \/ OrchCancelled \/ Close
    BY <2>4 DEF LoopDone, Arm, Timeout, EndOfStream, OrchCancelled, Close, plan,
                UpstreamFirst
  <2>5. ASSUME NEW w \in Workers, Working(w)
        PROVE  UpstreamFirst'
    BY <2>5 DEF Working, StartStep, EmitOutput, Succeed, RequestRetry, Fail, TriggerHook,
                ReportException, Exit, Raise, SetupRaises, CancelWorker, Send, Leave,
                plan, UpstreamFirst
  <2>6. CASE \E s \in Steps : Ripen(s)
    BY <2>6 DEF Ripen, plan, UpstreamFirst
  <2>7. CASE Consuming
    BY <2>7 DEF Consuming, Consume, Interrupt, LeavePortal, plan, UpstreamFirst
  <2>8. CASE UNCHANGED vars
    BY <2>8 DEF vars, plan, UpstreamFirst
  <2> QED
    BY <2>1, <2>2, <2>3, <2>4, <2>5, <2>6, <2>7, <2>8 DEF Next, Scheduling, Finished
<1> QED BY <1>1, <1>2, TypeCorrect, PTL DEF Spec

------------------------------------------------------------------------------
(***************************************************************************)
(* The end of the iteration.  The bridge ends the queue only when every    *)
(* worker is gone, and puts the error in front of the sentinel; nothing    *)
(* but the bridge puts an end item on the queue.                           *)
(***************************************************************************)
IsEnd(item) == item.kind \in {"error", "sentinel"}

Bad == failed \/ \E w \in Workers : worker[w] = "raised"

ErrorFirst ==
  \E i \in 1 .. Len(queue) :
    queue[i].kind = "error" /\ \A j \in 1 .. i - 1 : ~ IsEnd(queue[j])

EndInv ==
  /\ orch = "ended" => Live = {}
  /\ consumer \in {"ok", "error"} => orch = "ended"
  /\ orch # "ended" => \A i \in 1 .. Len(queue) : ~ IsEnd(queue[i])
  /\ orch = "ended" /\ Bad =>
       /\ consumer # "ok"
       /\ consumer = "iterating" => ErrorFirst

(* What handling an event puts on the queue are events. *)
LEMMA HandleQueue ==
  ASSUME TypeOK, NEW e \in Events, NEW next, Handle(e, next)
  PROVE  \E q \in Seq(Events) : queue' = queue \o q
<1>1. CASE HandleRaises(status, e)
  <2>1. queue' = Append(queue, e)
    BY <1>1 DEF Handle
  <2>2. <<e>> \in Seq(Events) /\ Append(queue, e) = queue \o <<e>>
    BY DEF TypeOK
  <2> QED BY <2>1, <2>2
<1>2. CASE ~ HandleRaises(status, e)
  <2>1. PICK skips \in SkipEvents(status, status') : queue' = Append(queue, e) \o skips
    BY <1>2 DEF Handle
  <2>2. skips \in Seq(Events)
    BY SkipEventsType
  <2>3. <<e>> \o skips \in Seq(Events)
    BY <2>2
  <2>4. Append(queue, e) \o skips = queue \o (<<e>> \o skips)
    BY <2>2 DEF TypeOK
  <2> QED BY <2>1, <2>3, <2>4
<1> QED BY <1>1, <1>2

(* Handling an event preserves EndInv: the orchestrator has not ended. *)
LEMMA EndHandle ==
  ASSUME TypeOK, EndInv, NEW e \in Events, NEW next,
         orch # "ended", next # "ended", Handle(e, next), UNCHANGED consumer
  PROVE  EndInv'
<1>1. orch' # "ended"
  BY DEF Handle
<1>2. consumer' \notin {"ok", "error"}
  BY DEF EndInv
<1>3. PICK q \in Seq(Events) : queue' = queue \o q
  BY HandleQueue
<1>4. ASSUME NEW i \in 1 .. Len(queue')
      PROVE  ~ IsEnd(queue'[i])
  <2>1. queue \in Seq(Events \cup EndItems)
    BY DEF TypeOK
  <2>2. CASE i \in 1 .. Len(queue)
    <3>1. queue'[i] = queue[i]
      BY <1>3, <2>1, <2>2
    <3> QED BY <2>2, <3>1 DEF EndInv
  <2>3. CASE i \notin 1 .. Len(queue)
    <3>1. queue'[i] \in Events
      BY <1>3, <1>4, <2>1, <2>3
    <3> QED BY <3>1 DEF Events, Kinds, IsEnd
  <2> QED BY <2>2, <2>3
<1> QED BY <1>1, <1>2, <1>4 DEF EndInv

(* Each action of the orchestrator keeps the end of the iteration in       *)
(* order.                                                                  *)
LEMMA EndScheduling == TypeOK /\ EndInv /\ Scheduling => EndInv'
<1> SUFFICES ASSUME TypeOK, EndInv, Scheduling PROVE EndInv'
  OBVIOUS
<1>1. ASSUME NEW from \in OrchStates \ {"ended"}, NEW wait \in OrchStates \ {"ended"},
             NEW next \in OrchStates \ {"ended"}, Receive(from, wait, next)
      PROVE  EndInv'
  <2>1. CASE senders # << >>
    <3>1. Head(senders) \in Events
      BY <2>1 DEF TypeOK
    <3>2. /\ Handle(Head(senders), next) /\ orch # "ended"
          /\ UNCHANGED consumer
      BY <1>1, <2>1 DEF Receive
    <3> QED BY <3>1, <3>2, EndHandle
  <2>2. CASE senders = << >>
    <3>1. /\ orch # "ended" /\ orch' # "ended"
          /\ UNCHANGED <<consumer, queue>>
      BY <1>1, <2>2 DEF Receive
    <3> QED BY <3>1 DEF EndInv
  <2> QED BY <2>1, <2>2
<1>2. ASSUME NEW wait \in OrchStates \ {"ended"}, NEW next \in OrchStates \ {"ended"},
             Wake(wait, next)
      PROVE  EndInv'
  <2>1. Head(slot) \in Events
    BY <1>2 DEF Wake, TypeOK
  <2>2. Handle(Head(slot), next) /\ orch # "ended" /\ UNCHANGED consumer
    BY <1>2 DEF Wake
  <2> QED BY <2>1, <2>2, EndHandle
<1>3. CASE \/ \E batch, refused \in SUBSET Steps : Schedule(batch, refused)
           \/ LoopDone \/ Arm \/ Timeout \/ EndOfStream \/ OrchCancelled
  <2>1. orch # "ended" /\ orch' # "ended" /\ UNCHANGED <<consumer, queue>>
    BY <1>3 DEF Schedule, LoopDone, Arm, Timeout, EndOfStream, OrchCancelled, bridge
  <2> QED BY <2>1 DEF EndInv
<1>4. CASE Close
  <2>0. queue \in Seq(Events \cup EndItems)
    BY DEF TypeOK
  <2>1. /\ orch # "ended" /\ orch' = "ended"
        /\ Live = {} /\ UNCHANGED <<worker, failed, consumer>>
    BY <1>4 DEF Close
  <2>2. Live' = {}
    BY <2>1 DEF Live
  <2>3. Bad' => Bad
    BY <2>1 DEF Bad
  <2>4. Bad => ErrorFirst'
    <3>1. SUFFICES ASSUME Bad PROVE ErrorFirst'
      OBVIOUS
    <3> DEFINE tail == <<[kind |-> "error"], [kind |-> "sentinel"]>>
    <3>2. queue' = queue \o tail
      BY <1>4, <3>1 DEF Close, Bad
    <3>3. /\ Len(queue') = Len(queue) + 2
          /\ queue'[Len(queue) + 1] = [kind |-> "error"]
          /\ \A j \in 1 .. Len(queue) : queue'[j] = queue[j]
      BY <2>0, <3>2
    <3>4. \A j \in 1 .. Len(queue) : ~ IsEnd(queue'[j])
      BY <2>1, <3>3 DEF EndInv
    <3>5. Len(queue) \in Nat
      BY <2>0
    <3>6. /\ Len(queue) + 1 \in 1 .. Len(queue')
          /\ queue'[Len(queue) + 1].kind = "error"
          /\ \A j \in 1 .. (Len(queue) + 1) - 1 : ~ IsEnd(queue'[j])
      BY <3>3, <3>4, <3>5
    <3> QED BY <3>6 DEF ErrorFirst
  <2> QED BY <2>1, <2>2, <2>3, <2>4 DEF EndInv
<1> QED BY <1>1, <1>2, <1>3, <1>4 DEF Scheduling, OrchStates

(* Each action of the consumer keeps the end of the iteration in order. *)
LEMMA EndConsuming == TypeOK /\ EndInv /\ Consuming => EndInv'
<1> SUFFICES ASSUME TypeOK, EndInv, Consuming PROVE EndInv'
  OBVIOUS
<1>1. CASE Consume
  <2> DEFINE item == Head(queue)
  <2>1. /\ consumer = "iterating" /\ queue # << >> /\ queue' = Tail(queue)
        /\ UNCHANGED <<orch, worker, failed>>
        /\ item = queue[1]
        /\ item \in Events \cup EndItems
    BY <1>1 DEF Consume, TypeOK
  <2>2. /\ Len(queue) \in Nat \ {0} /\ Len(queue') = Len(queue) - 1
        /\ \A i \in 1 .. Len(queue') : queue'[i] = queue[i + 1]
    BY <2>1 DEF TypeOK
  <2>3. Live' = Live /\ Bad' = Bad
    BY <2>1 DEF Live, Bad
  <2>4. orch' # "ended" => \A i \in 1 .. Len(queue') : ~ IsEnd(queue'[i])
    BY <2>1, <2>2 DEF EndInv
  <2>5. CASE item \in EndItems
    <3>1. consumer' = IF item.kind = "error" THEN "error" ELSE "ok"
      BY <1>1, <2>5 DEF Consume
    <3>2. IsEnd(queue[1])
      BY <2>1, <2>5 DEF EndItems, IsEnd
    <3>3. orch = "ended"
      BY <2>2, <3>2 DEF EndInv
    <3>4. Bad => item.kind = "error"
      BY <2>1, <3>2, <3>3 DEF EndInv, ErrorFirst
    <3> QED BY <2>1, <2>3, <3>1, <3>3, <3>4 DEF EndInv
  <2>6. CASE item \notin EndItems
    <3>1. consumer' = consumer
      BY <1>1, <2>6 DEF Consume
    <3>2. ~ IsEnd(queue[1])
      BY <2>1, <2>6 DEF Events, Kinds, IsEnd
    <3>3. ErrorFirst => ErrorFirst'
      <4>1. SUFFICES ASSUME ErrorFirst PROVE ErrorFirst'
        OBVIOUS
      <4>2. PICK i \in 1 .. Len(queue) :
              queue[i].kind = "error" /\ \A j \in 1 .. i - 1 : ~ IsEnd(queue[j])
        BY <4>1 DEF ErrorFirst
      <4>3. i # 1
        BY <3>2, <4>2 DEF IsEnd
      <4>4. i - 1 \in 1 .. Len(queue')
        BY <2>2, <4>3
      <4>5. queue'[i - 1].kind = "error"
        BY <2>2, <4>2, <4>4
      <4>6. \A j \in 1 .. (i - 1) - 1 : ~ IsEnd(queue'[j])
        BY <2>2, <4>2, <4>4
      <4> QED BY <4>4, <4>5, <4>6 DEF ErrorFirst
    <3> QED BY <2>1, <2>3, <2>4, <3>1, <3>3 DEF EndInv
  <2> QED BY <2>5, <2>6
<1>2. CASE Interrupt \/ LeavePortal
  <2>1. /\ UNCHANGED <<orch, worker, failed, queue>>
        /\ \/ consumer' = "interrupted"
           \/ consumer' = "error" /\ orch = "ended"
    BY <1>2 DEF Interrupt, LeavePortal
  <2> QED BY <2>1 DEF EndInv, Live, Bad, ErrorFirst
<1> QED BY <1>1, <1>2 DEF Consuming

(* EndInv is inductive on top of the types. *)
LEMMA EndInvariant == Spec => []EndInv
<1>1. Init => EndInv
  BY DEF Init, EndInv, Live, Gone
<1>2. TypeOK /\ EndInv /\ [Next]_vars => EndInv'
  <2> SUFFICES ASSUME TypeOK, EndInv, [Next]_vars PROVE EndInv'
    OBVIOUS
  <2>1. CASE Scheduling
    BY <2>1, EndScheduling
  <2>2. ASSUME NEW w \in Workers, Working(w)
        PROVE  EndInv'
    <3>1. LoopIdle /\ UNCHANGED <<orch, queue, consumer>>
      BY <2>2 DEF Working, StartStep, EmitOutput, Succeed, RequestRetry, Fail, TriggerHook,
                  ReportException, Exit, Raise, SetupRaises, CancelWorker, Send, Leave,
                  bridge
    <3> QED BY <3>1 DEF EndInv, LoopIdle
  <2>3. CASE Consuming
    BY <2>3, EndConsuming
  <2>4. CASE \/ \E s \in Steps : Ripen(s)
             \/ UNCHANGED vars
    <3>1. UNCHANGED <<orch, worker, failed, queue, consumer>>
      BY <2>4 DEF Ripen, vars, bridge
    <3> QED BY <3>1 DEF EndInv, Live, Bad, ErrorFirst
  <2> QED BY <2>1, <2>2, <2>3, <2>4 DEF Next, Finished
<1> QED BY <1>1, <1>2, TypeCorrect, PTL DEF Spec

(***************************************************************************)
(* However the iteration ends (drained, raised or interrupted), no worker  *)
(* is left running behind it.                                              *)
(***************************************************************************)
THEOREM NoOrphanEver == Spec => []NoOrphans
<1>1. EndInv => NoOrphans
  BY DEF EndInv, NoOrphans
<1> QED BY <1>1, EndInvariant, PTL

(***************************************************************************)
(* An exception that leaves a worker or the orchestrator is raised to the  *)
(* caller: the iteration never ends as if nothing had happened.            *)
(***************************************************************************)
THEOREM ErrorAlwaysSurfaces == Spec => []ErrorSurfaces
<1>1. EndInv => ErrorSurfaces
  BY DEF EndInv, ErrorSurfaces, Bad
<1> QED BY <1>1, EndInvariant, PTL

------------------------------------------------------------------------------
(***************************************************************************)
(* The attempts of a step.  What is in transit between a worker and the    *)
(* orchestrator matters as much as what either has done: a worker that has *)
(* sent the end of its attempt has stopped computing, while the step is in *)
(* flight until the orchestrator handles that end.                         *)
(***************************************************************************)
InTransit == {slot[i] : i \in DOMAIN slot} \cup {senders[i] : i \in DOMAIN senders}
Of(e, K, s) == e.step = s /\ e.kind \in K
Sent(K, s) == \E e \in InTransit : Of(e, K, s)
Lone(K, s) ==
  /\ \A i, j \in DOMAIN senders : Of(senders[i], K, s) /\ Of(senders[j], K, s) => i = j
  /\ \A i \in DOMAIN slot : \A j \in DOMAIN senders : ~ (Of(slot[i], K, s) /\ Of(senders[j], K, s))

Begun == {"in_flight", "success", "failed"}
Alone(s) == Lone({"retry"}, s)
RetrySent(e) ==
  e.kind = "retry" => /\ status[e.step] \in Begun
                      /\ e.att = attempts[e.step] + 1 /\ e.att <= MaxRetries[e.step]
                      /\ <<e.step, e.att>> \notin Computing

(* Each attempt is the next one, and asks for a retry at most once. *)
Counted ==
  /\ \A s \in Steps : attempts[s] <= MaxRetries[s] /\ Alone(s)
  /\ \A w \in Workers : worker[w] # "none" =>
       /\ w[2] <= attempts[w[1]] + 1
       /\ w[2] = attempts[w[1]] + 1 => status[w[1]] \in Begun
  /\ \A w \in Computing : w[2] = attempts[w[1]] + 1
  /\ \A e \in InTransit : RetrySent(e)

(* A failing hook reports a failure of its step after that asked for a     *)
(* retry, and the next attempt may be running: such hooks are excluded.    *)
CleanHooks == "badhook" \in Faults => \A s \in Hooked : MaxRetries[s] = 0

(* Workers that may still report a failure after the end of their attempt. *)
Doubtful(w) == worker[w] = "reraise" \/ (worker[w] = "hooks" /\ w[1] \in Hooked
     /\ "badhook" \in Faults)
Settled(s) ==
  \/ status[s] \in {"success", "failed"}
  \/ status[s] = "in_flight" /\ Sent(AttemptEnds, s) /\ ~ Sent({"retry"}, s)

Clean ==
  /\ \A w \in Computing : status[w[1]] = "in_flight" /\ ~ Sent(AttemptEnds, w[1])
  /\ \A s \in Steps : Sent(AttemptEnds, s) => status[s] \in Begun
  /\ \A s \in Steps : Sent({"retry"}, s) => status[s] = "in_flight" /\ Lone(AttemptEnds, s)
  /\ ~ cancelled => \A w \in Workers : Doubtful(w) => Settled(w[1])

Bounded == Cardinality(InFlight(status)) <= MaxConcurrent

------------------------------------------------------------------------------
(* The wait for an event. *)
Flying ==
  ~ cancelled => \A s \in Steps : status[s] = "in_flight" =>
    <<s, attempts[s] + 1>> \in Computing \/ Sent(AttemptEnds, s)
Lined == ~ cancelled => \A i \in DOMAIN senders : Sender(i) \in Live
Unseen == {"pending", "skipped", "abandoned"}
Seen == \A s \in Steps : s \in outputs \/ Sent({"output"}, s) => status[s] \notin Unseen
Going(st) == IsComplete(st) \/ StepsIn(st, {"executable", "in_flight", "waiting"}) # {}
Armed ==
  orch = "arm" => /\ StepsIn(status, {"waiting"}) \cap ripe = {}
                  /\ StepsIn(status, {"waiting"}) \cup claims # {} \/ InFlight(status) # {}
Told == orch \in {"receive", "waiting"} /\ ~ bounded => InFlight(status) # {}
WaitInv == Flying /\ Lined /\ Seen /\ Going(status) /\ Armed /\ Told

------------------------------------------------------------------------------
(* The orchestrator takes one event, from the slot or from the oldest      *)
(* blocked sender: nothing else leaves the stream and what was lone stays  *)
(* so.                                                                     *)
LEMMA TakenIs ==
  ASSUME TypeOK, NEW e,
         \/ slot' = slot /\ senders # << >> /\ senders' = Tail(senders) /\ e = Head(senders)
         \/ senders' = senders /\ slot # << >> /\ slot' = << >> /\ e = Head(slot)
  PROVE  /\ e \in Events /\ e \in InTransit
         /\ \A x \in InTransit' : x \in InTransit
         /\ \A x \in InTransit : x \in InTransit' \/ x = e
         /\ \A i \in DOMAIN senders' : \E j \in DOMAIN senders : senders[j] = senders'[i]
         /\ \A K, s : Lone(K, s) => Lone(K, s)' /\ (Of(e, K, s) => ~ Sent(K, s)')
<1>1. /\ slot \in Seq(Events) /\ Len(slot) <= 1 /\ Len(slot) \in Nat /\ DOMAIN slot = 1 .. Len(slot)
      /\ senders \in Seq(Events) /\ Len(senders) \in Nat /\ DOMAIN senders = 1 .. Len(senders)
  BY DEF TypeOK
<1>2. CASE slot' = slot /\ senders # << >> /\ senders' = Tail(senders) /\ e = Head(senders)
  <2>0. Len(senders) # 0 /\ Head(senders) = senders[1]
    <3>1. senders \in Seq(Events) /\ senders # << >>
      BY <1>2 DEF TypeOK
    <3> QED BY <3>1
  <2>7. /\ Len(senders') = Len(senders) - 1 /\ senders' \in Seq(Events)
        /\ \A i \in 1 .. Len(senders) - 1 : senders'[i] = senders[i + 1]
    <3>1. senders \in Seq(Events) /\ senders # << >> /\ senders' = Tail(senders)
      BY <1>2 DEF TypeOK
    <3> QED BY <3>1
  <2>1. /\ Len(senders) >= 1 /\ e = senders[1] /\ 1 \in DOMAIN senders /\ e \in Events
        /\ DOMAIN senders' = 1 .. Len(senders) - 1
        /\ \A i \in 1 .. Len(senders) - 1 : senders'[i] = senders[i + 1] /\ i + 1 \in DOMAIN senders
    <3>0. e = senders[1]
      BY <1>2, <2>0
    <3>1. Len(senders) >= 1 /\ 1 \in DOMAIN senders
      BY <1>1, <2>0
    <3>2. e \in Events
      BY <1>1, <3>0, <3>1
    <3>3. DOMAIN senders' = 1 .. Len(senders) - 1
      BY <2>7
    <3>4. \A i \in 1 .. Len(senders) - 1 : i + 1 \in DOMAIN senders
      BY <1>1
    <3> QED BY <2>7, <3>0, <3>1, <3>2, <3>3, <3>4
  <2>2. \A j \in DOMAIN senders : j = 1 \/ (j - 1 \in DOMAIN senders'
       /\ senders'[j - 1] = senders[j])
    BY <1>1, <2>1
  <2>3. \A i \in DOMAIN senders' : i + 1 \in DOMAIN senders /\ i + 1 # 1
       /\ senders'[i] = senders[i + 1]
    BY <1>1, <2>1
  <2>4. \A i, j \in DOMAIN senders' : i + 1 = j + 1 => i = j
    BY <2>1
  <2>5. ASSUME NEW K, NEW s, Lone(K, s) PROVE Lone(K, s)' /\ (Of(e, K, s) => ~ Sent(K, s)')
    <3>1. Lone(K, s)'
      BY <1>2, <2>3, <2>4, <2>5 DEF Lone, Of
    <3>2. ASSUME Of(e, K, s), NEW x \in InTransit', Of(x, K, s) PROVE FALSE
      <4>1. CASE \E i \in DOMAIN slot : x = slot[i]
        BY <1>2, <2>1, <2>5, <3>2, <4>1 DEF Lone
      <4>2. CASE \E i \in DOMAIN senders' : x = senders'[i]
        BY <2>1, <2>3, <2>5, <3>2, <4>2 DEF Lone
      <4> QED BY <1>2, <3>2, <4>1, <4>2 DEF InTransit
    <3> QED BY <3>1, <3>2 DEF Sent, Of
  <2>6. /\ e \in InTransit
        /\ \A x \in InTransit' : x \in InTransit
        /\ \A x \in InTransit : x \in InTransit' \/ x = e
    BY <1>2, <2>1, <2>2, <2>3 DEF InTransit
  <2> QED BY <2>1, <2>3, <2>5, <2>6
<1>3. CASE senders' = senders /\ slot # << >> /\ slot' = << >> /\ e = Head(slot)
  <2>0. Len(slot) = 1 /\ Head(slot) = slot[1]
    <3>1. Len(slot) # 0
      BY <1>1, <1>3, EmptySeq
    <3>2. Len(slot) = 1
      BY <1>1, <3>1
    <3>3. \A q \in Seq(Events) : q # << >> => Head(q) = q[1]
      OBVIOUS
    <3> QED BY <1>1, <1>3, <3>2, <3>3
  <2>1. /\ e = slot[1] /\ DOMAIN slot = {1} /\ e \in Events /\ DOMAIN slot' = {}
    <3>0. e = slot[1]
      BY <1>3, <2>0
    <3>1. DOMAIN slot = {1} /\ 1 \in DOMAIN slot
      BY <1>1, <2>0
    <3>2. DOMAIN slot' = {}
      BY <1>3
    <3> QED BY <1>1, <3>0, <3>1, <3>2
  <2>2. /\ e \in InTransit
        /\ \A x \in InTransit' : x \in InTransit
        /\ \A x \in InTransit : x \in InTransit' \/ x = e
    BY <1>3, <2>1 DEF InTransit
  <2>3. ASSUME NEW K, NEW s, Lone(K, s) PROVE Lone(K, s)' /\ (Of(e, K, s) => ~ Sent(K, s)')
    <3>1. Lone(K, s)'
      BY <1>3, <2>1, <2>3 DEF Lone, Of
    <3>2. ASSUME Of(e, K, s), NEW x \in InTransit', Of(x, K, s) PROVE FALSE
      <4>1. PICK i \in DOMAIN senders : x = senders[i]
        BY <1>3, <2>1, <3>2 DEF InTransit
      <4> QED BY <2>1, <2>3, <3>2, <4>1 DEF Lone
    <3> QED BY <3>1, <3>2 DEF Sent, Of
  <2> QED BY <1>3, <2>1, <2>2, <2>3
<1> QED BY <1>2, <1>3

(* What is in transit are events. *)
LEMMA TransitEvents == ASSUME TypeOK PROVE InTransit \subseteq Events
<1>1. /\ slot \in [1 .. Len(slot) -> Events]
      /\ senders \in [1 .. Len(senders) -> Events]
  BY DEF TypeOK
<1>2. /\ \A i \in DOMAIN slot : slot[i] \in Events
      /\ \A i \in DOMAIN senders : senders[i] \in Events
  BY <1>1
<1> QED BY <1>2 DEF InTransit

(* A worker adds one event, to the slot or behind the blocked senders. *)
LEMMA AddedIs ==
  ASSUME TypeOK, NEW e \in Events,
         \/ slot = << >> /\ slot' = <<e>> /\ senders' = senders
         \/ slot' = slot /\ senders' = Append(senders, e)
  PROVE  /\ InTransit' = InTransit \cup {e}
         /\ \A i \in DOMAIN senders' : \/ i \in DOMAIN senders /\ senders'[i] = senders[i]
                                       \/ senders'[i] = e
         /\ \A K, s : (Of(e, K, s) /\ ~ Sent(K, s)) \/ (~ Of(e, K, s) /\ Lone(K, s)) => Lone(K, s)'
<1>1. /\ slot \in Seq(Events) /\ Len(slot) <= 1 /\ Len(slot) \in Nat /\ DOMAIN slot = 1 .. Len(slot)
      /\ senders \in Seq(Events) /\ Len(senders) \in Nat /\ DOMAIN senders = 1 .. Len(senders)
  BY DEF TypeOK
<1>2. CASE slot = << >> /\ slot' = <<e>> /\ senders' = senders
  <2>1. DOMAIN slot = {} /\ DOMAIN slot' = {1} /\ slot'[1] = e
    BY <1>2
  <2>2. InTransit' = InTransit \cup {e}
    BY <1>2, <2>1 DEF InTransit
  <2>3. ASSUME NEW K, NEW s, (Of(e, K, s) /\ ~ Sent(K, s)) \/ (~ Of(e, K, s) /\ Lone(K, s))
        PROVE  Lone(K, s)'
    BY <1>2, <2>1, <2>3 DEF Lone, Sent, Of, InTransit
  <2> QED BY <1>2, <2>2, <2>3
<1>3. CASE slot' = slot /\ senders' = Append(senders, e)
  <2> PICK n : n = Len(senders) + 1
    OBVIOUS
  <2>1. /\ DOMAIN senders' = 1 .. n /\ senders'[n] = e /\ n \in DOMAIN senders'
        /\ \A i \in DOMAIN senders : i \in DOMAIN senders' /\ senders'[i] = senders[i]
        /\ \A i \in DOMAIN senders' : i \in DOMAIN senders \/ i = n
    BY <1>1, <1>3
  <2>2. InTransit' = InTransit \cup {e}
    BY <1>3, <2>1 DEF InTransit
  <2>3. ASSUME NEW K, NEW s, (Of(e, K, s) /\ ~ Sent(K, s)) \/ (~ Of(e, K, s) /\ Lone(K, s))
        PROVE  Lone(K, s)'
    BY <1>3, <2>1, <2>3 DEF Lone, Sent, Of, InTransit
  <2> QED BY <2>1, <2>2, <2>3
<1> QED BY <1>2, <1>3

(* A cancelled send removes an event and adds none. *)
LEMMA WithdrawnIs ==
  ASSUME TypeOK, NEW i \in DOMAIN senders, slot' = slot, senders' = Withdrawn(i)
  PROVE  /\ \A x \in InTransit' : x \in InTransit
         /\ \A K, s : Lone(K, s) => Lone(K, s)'
<1>1. /\ senders \in Seq(Events) /\ Len(senders) \in Nat /\ DOMAIN senders = 1 .. Len(senders)
  BY DEF TypeOK
<1>2. /\ DOMAIN senders' = 1 .. Len(senders) - 1
      /\ \A j \in 1 .. Len(senders) - 1 :
           senders'[j] = IF j < i THEN senders[j] ELSE senders[j + 1]
  BY <1>1 DEF Withdrawn
<1>3. \A j \in DOMAIN senders' : \E k \in DOMAIN senders :
         senders'[j] = senders[k] /\ k = IF j < i THEN j ELSE j + 1
  BY <1>1, <1>2
<1>4. \A x \in InTransit' : x \in InTransit
  BY <1>3 DEF InTransit
<1>5. ASSUME NEW K, NEW s, Lone(K, s) PROVE Lone(K, s)'
  <2>1. ASSUME NEW j \in DOMAIN senders', NEW m \in DOMAIN senders',
               Of(senders'[j], K, s), Of(senders'[m], K, s)
        PROVE  j = m
    <3>1. PICK k \in DOMAIN senders : senders'[j] = senders[k] /\ k = IF j < i THEN j ELSE j + 1
      BY <1>3
    <3>2. PICK l \in DOMAIN senders : senders'[m] = senders[l] /\ l = IF m < i THEN m ELSE m + 1
      BY <1>3
    <3>3. k = l
      BY <1>5, <2>1, <3>1, <3>2 DEF Lone
    <3> QED BY <1>1, <1>2, <3>1, <3>2, <3>3
  <2>2. \A j \in DOMAIN slot : \A m \in DOMAIN senders' :
           ~ (Of(slot[j], K, s) /\ Of(senders'[m], K, s))
    BY <1>3, <1>5 DEF Lone
  <2> QED BY <2>1, <2>2 DEF Lone, Of
<1> QED BY <1>4, <1>5

(* A worker is a pair of a step and an attempt that its policy allows. *)
LEMMA WorkersAre ==
  /\ \A w \in Workers : /\ w = <<w[1], w[2]>> /\ w[1] \in Steps /\ w[2] \in Nat \ {0}
                        /\ w[2] <= MaxRetries[w[1]] + 1 /\ MaxRetries[w[1]] \in Nat
  /\ \A s \in Steps : \A a \in 1 .. MaxRetries[s] + 1 : <<s, a>> \in Workers
<1>1. \A s \in Steps : MaxRetries[s] \in Nat
  BY ExecutorAssumption
<1>2. ASSUME NEW w \in Workers
      PROVE  /\ w = <<w[1], w[2]>> /\ w[1] \in Steps /\ w[2] \in Nat \ {0}
             /\ w[2] <= MaxRetries[w[1]] + 1
  <2>1. PICK s \in Steps : w \in {s} \X (1 .. MaxRetries[s] + 1)
    BY DEF Workers
  <2> QED BY <1>1, <2>1
<1>3. ASSUME NEW s \in Steps, NEW a \in 1 .. MaxRetries[s] + 1 PROVE <<s, a>> \in Workers
  BY DEF Workers
<1> QED BY <1>1, <1>2, <1>3

(* What handling an event does to the steps: only the end of an attempt    *)
(* moves a step that has begun, a step is never put in flight, and an end  *)
(* that comes for a step not in flight raises and cancels.                 *)
LEMMA HandleIs ==
  ASSUME TypeOK, NEW e \in Events, NEW next, Handle(e, next)
  PROVE  /\ e.step \in Steps /\ status' \in [Steps -> Status] /\ (cancelled => cancelled')
         /\ cancelled' => cancelled \/ orch' = "closing"
         /\ claims' = claims /\ (orch' = next \/ (orch' = "closing" /\ cancelled'))
         /\ \A s \in Steps :
              /\ status'[s] = "in_flight" => status[s] = "in_flight"
              /\ status[s] \notin Unseen => status'[s] \notin Unseen
              /\ status[s] \in {"success", "failed"} => status'[s] = status[s]
              /\ status[s] \in Begun /\ ~ (s = e.step /\ e.kind \in AttemptEnds) =>
                   status'[s] = status[s]
              /\ ~ (s = e.step /\ e.kind = "retry") => attempts'[s] = attempts[s]
         /\ e.kind \in AttemptEnds =>
              \/ cancelled' /\ status' = status /\ attempts' = attempts
                   /\ status[e.step] # "in_flight"
              \/ /\ status[e.step] = "in_flight"
                 /\ e.kind # "retry" => status'[e.step] \in {"success", "failed"}
                 /\ e.kind = "retry" => /\ status'[e.step] \in {"waiting", "executable"}
                                        /\ attempts'[e.step] = attempts[e.step] + 1
<1>0. e.step \in Steps
  BY DEF Events
<1>1. status' \in [Steps -> Status] /\ attempts \in [Steps -> Nat] /\ status \in [Steps -> Status]
  <2>1. CASE HandleRaises(status, e)
    BY <2>1 DEF Handle, plan, TypeOK
  <2>2. CASE ~ HandleRaises(status, e)
    <3>1. HandleStatus(status, e, Delayed) \in [Steps -> Status]
      BY HandleStatusType DEF TypeOK
    <3> PICK out : out = IF e.kind = "output" THEN outputs \cup {e.step} ELSE outputs
      OBVIOUS
    <3>2. status' = Settle(HandleStatus(status, e, Delayed), out, ripe)
      BY <2>2 DEF Handle
    <3> QED BY <3>1, <3>2, SettleType DEF TypeOK
  <2> QED BY <2>1, <2>2 DEF TypeOK
<1>2. CASE HandleRaises(status, e)
  <2>1. /\ status' = status /\ attempts' = attempts /\ claims' = claims
        /\ cancelled' = TRUE /\ orch' = "closing" /\ status[e.step] # "in_flight"
    BY <1>2 DEF Handle, plan, HandleRaises
  <2> QED BY <1>0, <1>1, <2>1
<1>3. CASE ~ HandleRaises(status, e) /\ e.kind \notin AttemptEnds
  <2>1. HandleStatus(status, e, Delayed) = status
    BY <1>3, Zenon DEF HandleStatus, AttemptEnds
  <2>2. /\ \E out : status' = Settle(status, out, ripe)
        /\ attempts' = attempts /\ claims' = claims /\ cancelled' = cancelled /\ orch' = next
    BY <1>3, <2>1 DEF Handle, AttemptEnds
  <2>3. PICK out : status' = Settle(status, out, ripe)
    BY <2>2
  <2>4. ASSUME NEW s \in Steps
        PROVE  /\ status'[s] = "in_flight" => status[s] = "in_flight"
               /\ status[s] \notin Unseen => status'[s] \notin Unseen
               /\ status[s] \in Begun => status'[s] = status[s]
    <3>1. status[s] \in Status
      BY <1>1
    <3>2. /\ status[s] \notin {"pending", "waiting"} => status'[s] = status[s]
          /\ status[s] = "waiting" => status'[s] \in {"waiting", "executable"}
          /\ status[s] = "pending" =>
               status'[s] \in {"pending", "skipped", "abandoned", "executable"}
      BY <1>1, <2>3, SettleSteps
    <3> QED BY <3>1, <3>2 DEF Unseen, Begun
  <2> QED BY <1>0, <1>1, <1>3, <2>2, <2>4 DEF Begun, AttemptEnds
<1>4. CASE ~ HandleRaises(status, e) /\ e.kind \in AttemptEnds
  <2>1. status[e.step] = "in_flight"
    BY <1>4 DEF HandleRaises
  <2>2. PICK k \in {"success", "failed", "waiting", "executable"} :
           /\ HandleStatus(status, e, Delayed) = Mark(status, {e.step}, k)
           /\ (e.kind = "retry") <=> (k \in {"waiting", "executable"})
    <3>1. e.kind = "success" => HandleStatus(status, e, Delayed) = Mark(status, {e.step}, "success")
      BY Zenon DEF HandleStatus
    <3>2. e.kind = "failure" => HandleStatus(status, e, Delayed) = Mark(status, {e.step}, "failed")
      BY Zenon DEF HandleStatus
    <3>3. e.kind = "retry" => \E k \in {"waiting", "executable"} :
             HandleStatus(status, e, Delayed) = Mark(status, {e.step}, k)
      BY Zenon DEF HandleStatus
    <3> QED BY <1>4, <3>1, <3>2, <3>3 DEF AttemptEnds
  <2>3. PICK st : st = Mark(status, {e.step}, k)
    OBVIOUS
  <2>4. /\ st \in [Steps -> Status] /\ st[e.step] = k
        /\ \A s \in Steps : s # e.step => st[s] = status[s]
    BY <1>0, <1>1, <2>3 DEF Mark, Status
  <2>5. /\ \E out : status' = Settle(st, out, ripe)
        /\ attempts' = IF e.kind = "retry" THEN [attempts EXCEPT ![e.step] = @ + 1] ELSE attempts
        /\ claims' = claims /\ cancelled' = cancelled /\ orch' = next
    BY <1>4, <2>2, <2>3 DEF Handle
  <2>6. PICK out : status' = Settle(st, out, ripe)
    BY <2>5
  <2>7. ASSUME NEW s \in Steps
        PROVE  /\ st[s] \notin {"pending", "waiting"} => status'[s] = st[s]
               /\ st[s] = "waiting" => status'[s] \in {"waiting", "executable"}
               /\ st[s] = "pending" =>
                    status'[s] \in {"pending", "skipped", "abandoned", "executable"}
    BY <2>4, <2>6, SettleSteps
  <2>8. ASSUME NEW s \in Steps, s # e.step
        PROVE  /\ status'[s] = "in_flight" => status[s] = "in_flight"
               /\ status[s] \notin Unseen => status'[s] \notin Unseen
               /\ status[s] \in Begun => status'[s] = status[s]
               /\ attempts'[s] = attempts[s]
    <3>1. status[s] \in Status /\ st[s] = status[s]
      BY <1>1, <2>4, <2>8
    <3>2. attempts'[s] = attempts[s]
      BY <1>1, <2>5, <2>8
    <3> QED BY <2>7, <3>1, <3>2 DEF Unseen, Begun
  <2>9. /\ status'[e.step] \in {"success", "failed", "waiting", "executable"}
        /\ e.kind # "retry" => /\ status'[e.step] \in {"success", "failed"}
                               /\ attempts'[e.step] = attempts[e.step]
        /\ e.kind = "retry" => /\ status'[e.step] \in {"waiting", "executable"}
                               /\ attempts'[e.step] = attempts[e.step] + 1
    <3>1. /\ k \in {"success", "failed"} => status'[e.step] = k
          /\ k \in {"waiting", "executable"} => status'[e.step] \in {"waiting", "executable"}
      BY <1>0, <2>4, <2>7
    <3>2. /\ e.kind # "retry" => attempts'[e.step] = attempts[e.step]
          /\ e.kind = "retry" => attempts'[e.step] = attempts[e.step] + 1
      BY <1>0, <1>1, <2>5
    <3> QED BY <2>2, <3>1, <3>2
  <2> QED BY <1>0, <1>1, <1>4, <2>1, <2>5, <2>8, <2>9 DEF Unseen, Begun
<1> QED BY <1>2, <1>3, <1>4

------------------------------------------------------------------------------
(* A worker that computes is its step's next attempt, and has not asked    *)
(* for a retry.                                                            *)
LEMMA ComputingIs ==
  ASSUME TypeOK, Counted, NEW w \in Computing
  PROVE  /\ w \in Workers /\ w[1] \in Steps /\ w[2] = attempts[w[1]] + 1
         /\ status[w[1]] \in Begun /\ w = <<w[1], attempts[w[1]] + 1>>
         /\ ~ Sent({"retry"}, w[1])
<1>1. w \in Workers /\ worker[w] # "none" /\ w = <<w[1], w[2]>> /\ w[1] \in Steps
  BY WorkersAre DEF Computing
<1>2. w[2] = attempts[w[1]] + 1 /\ status[w[1]] \in Begun
  BY <1>1 DEF Counted
<1>3. ASSUME NEW e \in InTransit, Of(e, {"retry"}, w[1]) PROVE FALSE
  <2>1. e.kind = "retry" /\ e.step = w[1] /\ e.att = attempts[w[1]] + 1
        /\ <<e.step, e.att>> \notin Computing
    BY <1>3 DEF Counted, RetrySent, Of
  <2>2. <<e.step, e.att>> = w
    BY <1>1, <1>2, <2>1
  <2> QED BY <2>1, <2>2
<1> QED BY <1>1, <1>2, <1>3 DEF Sent

(* What a worker that sends an event changes. *)
LEMMA SendIs ==
  ASSUME TypeOK, NEW w \in Workers, NEW k \in Kinds, NEW next \in WorkerStates, Send(w, k, next)
  PROVE  /\ Event(w[1], w[2], k) \in Events
         /\ Event(w[1], w[2], k).step = w[1] /\ Event(w[1], w[2], k).att = w[2]
         /\ Event(w[1], w[2], k).kind = k
         /\ \/ slot = << >> /\ slot' = <<Event(w[1], w[2], k)>> /\ senders' = senders
            \/ slot' = slot /\ senders' = Append(senders, Event(w[1], w[2], k))
         /\ worker'[w] = next /\ \A v \in Workers : v # w => worker'[v] = worker[v]
         /\ status' = status /\ outputs' = outputs /\ attempts' = attempts /\ claims' = claims
         /\ ripe' = ripe /\ orch' = orch /\ bounded' = bounded /\ cancelled' = cancelled
         /\ ~ cancelled /\ LoopIdle
<1>1. Event(w[1], w[2], k) \in Events
  BY WorkerEvent
<1>2. worker'[w] = next /\ \A v \in Workers : v # w => worker'[v] = worker[v]
  BY DEF Send, TypeOK
<1>3. \/ slot = << >> /\ slot' = <<Event(w[1], w[2], k)>> /\ senders' = senders
      \/ slot' = slot /\ senders' = Append(senders, Event(w[1], w[2], k))
  BY DEF Send
<1> QED BY <1>1, <1>2, <1>3 DEF Send, plan, Event

(* Sending an event keeps the attempts counted. *)
LEMMA CountedSend ==
  ASSUME TypeOK, Counted, NEW w \in Workers, NEW k \in Kinds, NEW next \in WorkerStates,
         Send(w, k, next), worker[w] # "none",
         next \in {"spawned", "compute", "computed"} => w \in Computing,
         k = "retry" => w \in Computing /\ next = "hooks" /\ w[2] <= MaxRetries[w[1]]
  PROVE  Counted'
<1> PICK e : e = Event(w[1], w[2], k)
  OBVIOUS
<1>1. /\ e \in Events /\ e.step = w[1] /\ e.att = w[2] /\ e.kind = k
      /\ (slot = << >> /\ slot' = <<e>> /\ senders' = senders)
           \/ (slot' = slot /\ senders' = Append(senders, e))
      /\ worker'[w] = next /\ \A v \in Workers : v # w => worker'[v] = worker[v]
      /\ status' = status /\ attempts' = attempts
  BY SendIs
<1>2. /\ InTransit' = InTransit \cup {e}
      /\ \A K, s : (Of(e, K, s) /\ ~ Sent(K, s)) \/ (~ Of(e, K, s) /\ Lone(K, s)) => Lone(K, s)'
  BY <1>1, AddedIs
<1>3. \A v \in Computing' : v \in Computing
  BY <1>1 DEF Computing
<1>4. ASSUME NEW s \in Steps PROVE Alone(s)'
  <2>1. CASE Of(e, {"retry"}, s)
    <3>1. w \in Computing /\ s = w[1]
      BY <1>1, <2>1 DEF Of
    <3>2. ~ Sent({"retry"}, s)
      BY <3>1, ComputingIs
    <3> QED BY <1>2, <2>1, <3>2 DEF Alone
  <2>2. CASE ~ Of(e, {"retry"}, s)
    BY <1>2, <2>2 DEF Counted, Alone
  <2> QED BY <2>1, <2>2
<1>5. ASSUME NEW x \in InTransit' PROVE RetrySent(x)'
  <2>1. CASE x \in InTransit
    <3>1. RetrySent(x)
      BY <2>1 DEF Counted
    <3> QED BY <1>1, <1>3, <3>1 DEF RetrySent
  <2>2. CASE x = e /\ k = "retry"
    <3>1. w \notin Computing'
      BY <1>1, <2>2 DEF Computing
    <3>2. w[2] = attempts[w[1]] + 1 /\ status[w[1]] \in Begun /\ w = <<w[1], w[2]>>
      BY <2>2, ComputingIs
    <3> QED BY <1>1, <2>2, <3>1, <3>2 DEF RetrySent
  <2>3. CASE x = e /\ k # "retry"
    BY <1>1, <2>3 DEF RetrySent
  <2> QED BY <1>2, <2>1, <2>2, <2>3
<1>6. \A v \in Workers : worker'[v] # "none" => worker[v] # "none"
  BY <1>1
<1> QED BY <1>1, <1>3, <1>4, <1>5, <1>6 DEF Counted

(* Handling an event keeps the attempts counted. *)
LEMMA CountedHandle ==
  ASSUME TypeOK, Counted, NEW e \in Events, NEW next, Handle(e, next),
         \/ slot' = slot /\ senders # << >> /\ senders' = Tail(senders) /\ e = Head(senders)
         \/ senders' = senders /\ slot # << >> /\ slot' = << >> /\ e = Head(slot),
         worker' = worker
  PROVE  Counted'
<1>1. /\ e \in InTransit /\ \A x \in InTransit' : x \in InTransit
      /\ \A K, s : Lone(K, s) => Lone(K, s)' /\ (Of(e, K, s) => ~ Sent(K, s)')
  BY TakenIs
<1>2. /\ e.step \in Steps
      /\ \A s \in Steps :
           /\ status[s] \in {"success", "failed"} => status'[s] = status[s]
           /\ status[s] \in Begun /\ ~ (s = e.step /\ e.kind \in AttemptEnds) =>
                status'[s] = status[s]
           /\ ~ (s = e.step /\ e.kind = "retry") => attempts'[s] = attempts[s]
      /\ e.kind \in AttemptEnds =>
           \/ status' = status /\ attempts' = attempts
           \/ /\ status[e.step] = "in_flight"
              /\ e.kind # "retry" => status'[e.step] \in {"success", "failed"}
              /\ e.kind = "retry" => attempts'[e.step] = attempts[e.step] + 1
  BY HandleIs
<1>3. Computing' = Computing
  BY DEF Computing
<1>4. \A s \in Steps : Alone(s)'
  BY <1>1 DEF Counted, Alone
<1>5. CASE attempts' = attempts /\ \A s \in Steps : status[s] \in Begun => status'[s] \in Begun
  <2>1. \A x \in InTransit : x.step \in Steps
    BY TransitEvents DEF Events
  <2>2. \A x \in InTransit' : RetrySent(x)'
    BY <1>1, <1>3, <1>5, <2>1 DEF Counted, RetrySent
  <2>3. \A w \in Workers : w[1] \in Steps
    BY WorkersAre
  <2> QED BY <1>3, <1>4, <1>5, <2>2, <2>3 DEF Counted
<1>6. CASE e.kind # "retry"
  <2>1. \A s \in Steps : attempts'[s] = attempts[s]
    BY <1>2, <1>6
  <2>2. attempts' = attempts
    BY <1>6 DEF Handle, plan
  <2>3. \A s \in Steps : status[s] \in Begun => status'[s] \in Begun
    BY <1>2, <1>6 DEF Begun
  <2> QED BY <1>5, <2>2, <2>3
<1>7. CASE e.kind = "retry" /\ status' = status /\ attempts' = attempts
  BY <1>5, <1>7
<1>8. CASE e.kind = "retry" /\ attempts'[e.step] = attempts[e.step] + 1
  <2>1. e.att = attempts[e.step] + 1 /\ e.att <= MaxRetries[e.step]
       /\ <<e.step, e.att>> \notin Computing
    BY <1>1, <1>8 DEF Counted, RetrySent
  <2>2. \A s \in Steps : s # e.step => attempts'[s] = attempts[s]
                                       /\ (status[s] \in Begun => status'[s] = status[s])
    BY <1>2
  <2>3. \A s \in Steps : attempts'[s] <= MaxRetries[s]
    BY <1>8, <2>1, <2>2 DEF Counted
  <2>4. ~ Sent({"retry"}, e.step)'
    <3>1. Of(e, {"retry"}, e.step) /\ Lone({"retry"}, e.step)
      BY <1>2, <1>8 DEF Of, Counted, Alone
    <3> QED BY <1>1, <3>1
  <2>5. ASSUME NEW x \in InTransit' PROVE RetrySent(x)'
    <3>1. x.kind = "retry" => x.step # e.step
      BY <2>4, <2>5 DEF Sent, Of
    <3>2. x.step \in Steps /\ RetrySent(x)
      BY <1>1, <2>5, TransitEvents DEF Events, Counted
    <3> QED BY <1>3, <2>2, <3>1, <3>2 DEF RetrySent
  <2>6. ASSUME NEW w \in Workers, worker'[w] # "none"
        PROVE  w[2] <= attempts'[w[1]] + 1
               /\ (w[2] = attempts'[w[1]] + 1 => status'[w[1]] \in Begun)
    <3>1. w[1] \in Steps /\ w[2] \in Nat /\ attempts[w[1]] \in Nat
      BY WorkersAre DEF TypeOK
    <3>2. w[2] <= attempts[w[1]] + 1 /\ (w[2] = attempts[w[1]] + 1 => status[w[1]] \in Begun)
      BY <2>6 DEF Counted
    <3>3. CASE w[1] = e.step
      BY <1>8, <3>1, <3>2, <3>3
    <3>4. CASE w[1] # e.step
      BY <2>2, <3>1, <3>2, <3>4
    <3> QED BY <3>3, <3>4
  <2>7. ASSUME NEW w \in Computing PROVE w[2] = attempts'[w[1]] + 1
    <3>1. w[1] \in Steps /\ w[2] = attempts[w[1]] + 1 /\ w = <<w[1], w[2]>>
      BY ComputingIs
    <3>2. w[1] # e.step
      BY <2>1, <2>7, <3>1
    <3> QED BY <2>2, <3>1, <3>2
  <2> QED BY <1>3, <1>4, <2>3, <2>5, <2>6, <2>7 DEF Counted
<1> QED BY <1>2, <1>6, <1>7, <1>8 DEF AttemptEnds

(* A step that only removes events or workers keeps the attempts counted. *)
LEMMA CountedLess ==
  ASSUME TypeOK, Counted, status' = status, attempts' = attempts,
         \A x \in InTransit' : x \in InTransit,
         \A K, s : Lone(K, s) => Lone(K, s)',
         \A v \in Workers : worker'[v] # "none" => worker[v] # "none",
         \A v \in Computing' : v \in Computing
  PROVE  Counted'
<1>1. \A s \in Steps : attempts'[s] <= MaxRetries[s] /\ Alone(s)'
  BY DEF Counted, Alone
<1>2. ASSUME NEW x \in InTransit' PROVE RetrySent(x)'
  BY <1>2 DEF Counted, RetrySent
<1> QED BY <1>1, <1>2 DEF Counted

(* What a vended batch changes: steps that had not begun are in flight,    *)
(* each with a new worker that computes.                                   *)
LEMMA ScheduleIs ==
  ASSUME TypeOK, Counted, NEW batch \in SUBSET Steps, NEW refused, Schedule(batch, refused)
  PROVE  /\ slot' = slot /\ senders' = senders /\ attempts' = attempts /\ outputs' = outputs
         /\ cancelled' = cancelled /\ orch = "schedule" /\ orch' = "arm"
         /\ status' \in [Steps -> Status]
         /\ \A s \in Steps :
              /\ s \in batch => /\ status[s] \in {"pending", "waiting", "executable"}
                                /\ status'[s] = "in_flight"
                                /\ <<s, attempts[s] + 1>> \in Computing'
              /\ s \notin batch => /\ status[s] \in Begun => status'[s] = status[s]
                                   /\ status'[s] = "in_flight" => status[s] = "in_flight"
              /\ status[s] \notin Unseen => status'[s] \notin Unseen
         /\ \A w \in Workers :
              /\ worker'[w] # worker[w] => worker'[w] = "spawned"
              /\ w \in Computing => w \in Computing'
              /\ worker'[w] # "none" =>
                   worker[w] # "none" \/ (w[1] \in batch /\ w[2] = attempts[w[1]] + 1)
         /\ \A w \in Computing' :
              w \in Computing \/ (w[1] \in batch /\ w[2] = attempts[w[1]] + 1)
<1> PICK now : now = Settle(status, outputs, ripe)
  OBVIOUS
<1>1. /\ slot' = slot /\ senders' = senders /\ attempts' = attempts /\ outputs' = outputs
      /\ cancelled' = cancelled /\ orch = "schedule" /\ orch' = "arm"
      /\ status' = Mark(now, batch, "in_flight")
      /\ batch \subseteq StepsIn(now, {"executable"})
      /\ worker' = [w \in Workers |->
                      IF w[1] \in batch /\ w[2] = attempts[w[1]] + 1
                      THEN "spawned" ELSE worker[w]]
  BY DEF Schedule, stream, IsBatch
<1>2. now \in [Steps -> Status]
  BY SettleType DEF TypeOK
<1>3. status' \in [Steps -> Status]
  BY <1>1, <1>2, MarkType DEF Status
<1>4. ASSUME NEW s \in Steps
      PROVE  /\ s \in batch => /\ status[s] \in {"pending", "waiting", "executable"}
                               /\ status'[s] = "in_flight"
             /\ s \notin batch => /\ status[s] \in Begun => status'[s] = status[s]
                                  /\ status'[s] = "in_flight" => status[s] = "in_flight"
             /\ status[s] \notin Unseen => status'[s] \notin Unseen
  <2>1. /\ status[s] \notin {"pending", "waiting"} => now[s] = status[s]
        /\ status[s] = "waiting" => now[s] \in {"waiting", "executable"}
        /\ status[s] = "pending" => now[s] \in {"pending", "skipped", "abandoned", "executable"}
    <3>1. status \in [Steps -> Status]
      BY DEF TypeOK
    <3> QED BY <3>1, SettleSteps
  <2>2. s \in batch => now[s] = "executable" /\ status'[s] = "in_flight"
    BY <1>1, <1>2 DEF StepsIn, Mark
  <2>3. s \notin batch => status'[s] = now[s]
    BY <1>1, <1>2 DEF Mark
  <2> QED BY <2>1, <2>2, <2>3 DEF Begun, Unseen
<1>5. \A w \in Workers :
         worker'[w] = IF w[1] \in batch /\ w[2] = attempts[w[1]] + 1
                      THEN "spawned" ELSE worker[w]
  BY <1>1
<1>6. ASSUME NEW s \in batch PROVE <<s, attempts[s] + 1>> \in Computing'
  <2>1. attempts[s] \in Nat /\ MaxRetries[s] \in Nat /\ attempts[s] <= MaxRetries[s]
    BY ExecutorAssumption DEF TypeOK, Counted
  <2>2. attempts[s] + 1 \in 1 .. MaxRetries[s] + 1
    BY <2>1
  <2>3. <<s, attempts[s] + 1>> \in Workers
    BY <2>2, WorkersAre
  <2>4. worker'[<<s, attempts[s] + 1>>] = "spawned"
    BY <1>5, <2>3
  <2> QED BY <2>3, <2>4 DEF Computing
<1>7. ASSUME NEW w \in Workers
      PROVE  /\ worker'[w] # worker[w] => worker'[w] = "spawned"
             /\ w \in Computing => w \in Computing'
             /\ worker'[w] # "none" =>
                  worker[w] # "none" \/ (w[1] \in batch /\ w[2] = attempts[w[1]] + 1)
             /\ w \in Computing' =>
                  w \in Computing \/ (w[1] \in batch /\ w[2] = attempts[w[1]] + 1)
  BY <1>5 DEF Computing
<1>8. \A w \in Computing' : w \in Workers
  BY DEF Computing
<1> QED BY <1>1, <1>3, <1>4, <1>6, <1>7, <1>8

(* Vending a batch keeps the attempts counted. *)
LEMMA CountedSchedule ==
  ASSUME TypeOK, Counted, NEW batch \in SUBSET Steps, NEW refused, Schedule(batch, refused)
  PROVE  Counted'
<1>1. /\ slot' = slot /\ senders' = senders /\ attempts' = attempts
      /\ \A s \in Steps :
           /\ s \in batch => /\ status[s] \in {"pending", "waiting", "executable"}
                             /\ status'[s] = "in_flight"
           /\ s \notin batch => (status[s] \in Begun => status'[s] = status[s])
      /\ \A w \in Workers : worker'[w] # "none" =>
           worker[w] # "none" \/ (w[1] \in batch /\ w[2] = attempts[w[1]] + 1)
      /\ \A w \in Computing' :
           w \in Computing \/ (w[1] \in batch /\ w[2] = attempts[w[1]] + 1)
  <2>1. slot' = slot /\ senders' = senders /\ attempts' = attempts
    BY ScheduleIs
  <2>2. ASSUME NEW s \in Steps
        PROVE  /\ s \in batch => /\ status[s] \in {"pending", "waiting", "executable"}
                                 /\ status'[s] = "in_flight"
               /\ s \notin batch => (status[s] \in Begun => status'[s] = status[s])
    BY ZenonT(40), ScheduleIs
  <2>3. ASSUME NEW w \in Workers, worker'[w] # "none"
        PROVE  worker[w] # "none" \/ (w[1] \in batch /\ w[2] = attempts[w[1]] + 1)
    BY <2>3, ScheduleIs
  <2>4. ASSUME NEW w \in Computing'
        PROVE  w \in Computing \/ (w[1] \in batch /\ w[2] = attempts[w[1]] + 1)
    BY ScheduleIs
  <2> QED BY <2>1, <2>2, <2>3, <2>4
<1>2. InTransit' = InTransit
  BY <1>1 DEF InTransit
<1>3. \A s \in Steps : attempts'[s] <= MaxRetries[s] /\ Alone(s)'
  BY <1>1 DEF Counted, Alone, Lone
<1>4. ASSUME NEW w \in Workers, worker'[w] # "none"
      PROVE  w[2] <= attempts'[w[1]] + 1
             /\ (w[2] = attempts'[w[1]] + 1 => status'[w[1]] \in Begun)
  <2>1. w[1] \in Steps /\ w[2] \in Nat /\ attempts[w[1]] \in Nat
    BY WorkersAre DEF TypeOK
  <2>2. w[2] <= attempts[w[1]] + 1
    BY <1>1, <1>4, <2>1 DEF Counted
  <2>3. w[1] \in batch => status'[w[1]] \in Begun
    BY <1>1, <2>1 DEF Begun
  <2>4. w[1] \notin batch /\ w[2] = attempts[w[1]] + 1 => status'[w[1]] \in Begun
    BY <1>1, <1>4, <2>1 DEF Counted
  <2> QED BY <1>1, <2>2, <2>3, <2>4
<1>5. \A w \in Computing' : w[2] = attempts'[w[1]] + 1
  BY <1>1 DEF Counted
<1>6. ASSUME NEW x \in InTransit' PROVE RetrySent(x)'
  <2>1. RetrySent(x) /\ x.step \in Steps
    BY <1>2, <1>6, TransitEvents DEF Counted, Events
  <2>2. CASE x.kind = "retry"
    <3>1. x.step \notin batch
      BY <1>1, <2>1, <2>2 DEF RetrySent, Begun
    <3>2. <<x.step, x.att>> \notin Computing'
      BY <1>1, <2>1, <2>2, <3>1 DEF RetrySent
    <3> QED BY <1>1, <2>1, <2>2, <3>1, <3>2 DEF RetrySent
  <2>3. CASE x.kind # "retry"
    BY <2>3 DEF RetrySent
  <2> QED BY <2>2, <2>3
<1> QED BY <1>3, <1>4, <1>5, <1>6 DEF Counted

(* What a worker that leaves changes. *)
LEMMA LeaveIs ==
  ASSUME TypeOK, NEW w \in Workers, NEW next \in {"done", "raised"}, Leave(w, next)
  PROVE  /\ status' = status /\ outputs' = outputs /\ attempts' = attempts /\ claims' = claims
         /\ ripe' = ripe /\ orch' = orch /\ bounded' = bounded
         /\ slot' = slot /\ senders' = senders
         /\ ~ Blocked(w) /\ LoopIdle /\ (cancelled' <=> cancelled \/ next = "raised")
         /\ worker'[w] = next /\ \A v \in Workers : v # w => worker'[v] = worker[v]
         /\ \A v \in Computing' : v \in Computing /\ v # w
<1>1. worker'[w] = next /\ \A v \in Workers : v # w => worker'[v] = worker[v]
  BY DEF Leave, TypeOK
<1>2. \A v \in Computing' : v \in Computing /\ v # w
  BY <1>1 DEF Computing
<1> QED BY <1>1, <1>2 DEF Leave, plan, stream, TypeOK

(* What the cancellation of a worker changes. *)
LEMMA CancelIs ==
  ASSUME TypeOK, NEW w \in Workers, CancelWorker(w)
  PROVE  /\ status' = status /\ outputs' = outputs /\ attempts' = attempts /\ claims' = claims
         /\ ripe' = ripe /\ orch' = orch /\ bounded' = bounded /\ slot' = slot
         /\ cancelled /\ cancelled' /\ worker[w] \notin Gone /\ LoopIdle
         /\ senders' = senders \/ \E i \in DOMAIN senders : senders' = Withdrawn(i)
         /\ worker'[w] = "cancelled" /\ \A v \in Workers : v # w => worker'[v] = worker[v]
         /\ \A v \in Computing' : v \in Computing /\ v # w
<1>1. worker'[w] = "cancelled" /\ \A v \in Workers : v # w => worker'[v] = worker[v]
  BY DEF CancelWorker, TypeOK
<1>2. \A v \in Computing' : v \in Computing /\ v # w
  BY <1>1 DEF Computing
<1>3. senders' = senders \/ \E i \in DOMAIN senders : senders' = Withdrawn(i)
  BY DEF CancelWorker
<1> QED BY <1>1, <1>2, <1>3 DEF CancelWorker, plan

(* An unchanged stream holds the same events. *)
LEMMA StreamSame ==
  ASSUME slot' = slot, senders' = senders
  PROVE  /\ \A x \in InTransit' : x \in InTransit
         /\ \A K, s : Lone(K, s) => Lone(K, s)'
BY DEF InTransit, Lone

(* A stream that is unchanged but for one withdrawn event holds no new     *)
(* event.                                                                  *)
LEMMA ShrinkIs ==
  ASSUME TypeOK, slot' = slot,
         senders' = senders \/ \E i \in DOMAIN senders : senders' = Withdrawn(i)
  PROVE  /\ \A x \in InTransit' : x \in InTransit
         /\ \A K, s : Lone(K, s) => Lone(K, s)'
<1>1. CASE senders' = senders
  BY <1>1, StreamSame
<1>2. CASE \E i \in DOMAIN senders : senders' = Withdrawn(i)
  BY <1>2, WithdrawnIs
<1> QED BY <1>1, <1>2

(* receive() waits, or handles the event of the oldest blocked sender. *)
LEMMA ReceiveIs ==
  ASSUME TypeOK, NEW from, NEW wait, NEW next, Receive(from, wait, next)
  PROVE  /\ orch = from /\ ~ cancelled /\ slot' = slot /\ worker' = worker
         /\ ripe' = ripe /\ bounded' = bounded
         /\ \/ /\ status' = status /\ attempts' = attempts /\ outputs' = outputs
               /\ claims' = claims /\ senders' = senders /\ cancelled' = cancelled
               /\ orch' = wait /\ senders = << >>
            \/ /\ senders # << >> /\ senders' = Tail(senders) /\ Head(senders) \in Events
               /\ Handle(Head(senders), next)
<1>1. senders # << >> => Head(senders) \in Events
  <2>1. senders \in Seq(Events)
    BY DEF TypeOK
  <2> QED BY <2>1
<1> QED BY <1>1 DEF Receive, plan

(* The orchestrator that was handed an event handles it. *)
LEMMA WakeIs ==
  ASSUME TypeOK, NEW wait, NEW next, Wake(wait, next)
  PROVE  /\ orch = wait /\ slot # << >> /\ slot' = << >> /\ Head(slot) \in Events
         /\ Handle(Head(slot), next)
         /\ ripe' = ripe /\ bounded' = bounded /\ senders' = senders /\ worker' = worker
<1>1. slot # << >> => Head(slot) \in Events
  <2>1. slot \in Seq(Events)
    BY DEF TypeOK
  <2> QED BY <2>1
<1> QED BY <1>1 DEF Wake

(* Receiving keeps the attempts counted. *)
LEMMA CountedReceive ==
  ASSUME TypeOK, Counted, NEW from, NEW wait, NEW next, Receive(from, wait, next)
  PROVE  Counted'
<1>1. slot' = slot /\ worker' = worker
  BY ReceiveIs
<1>2. CASE status' = status /\ attempts' = attempts /\ senders' = senders
  <2>2. /\ \A x \in InTransit' : x \in InTransit
        /\ \A K, s : Lone(K, s) => Lone(K, s)'
    BY <1>1, <1>2, StreamSame
  <2>3. \A v \in Computing' : v \in Computing
    BY <1>1 DEF Computing
  <2> QED BY <1>1, <1>2, <2>2, <2>3, CountedLess
<1>3. CASE /\ senders # << >> /\ senders' = Tail(senders) /\ Head(senders) \in Events
           /\ Handle(Head(senders), next)
  BY <1>1, <1>3, CountedHandle
<1> QED BY <1>2, <1>3, ReceiveIs

(* Waking up with an event keeps the attempts counted. *)
LEMMA CountedWake ==
  ASSUME TypeOK, Counted, NEW wait, NEW next, Wake(wait, next)
  PROVE  Counted'
<1>1. /\ slot # << >> /\ slot' = << >> /\ Head(slot) \in Events /\ Handle(Head(slot), next)
      /\ senders' = senders /\ worker' = worker
  BY WakeIs
<1> QED BY <1>1, CountedHandle

(* Each action of the orchestrator keeps the attempts counted. *)
LEMMA CountedScheduling == TypeOK /\ Counted /\ Scheduling => Counted'
<1> SUFFICES ASSUME TypeOK, Counted, Scheduling PROVE Counted'
  OBVIOUS
<1>1. CASE \E batch, refused \in SUBSET Steps : Schedule(batch, refused)
  BY <1>1, CountedSchedule
<1>2. CASE \/ LoopDone \/ Arm \/ Timeout \/ EndOfStream \/ OrchCancelled \/ Close
  <2>1. /\ status' = status /\ attempts' = attempts /\ slot' = slot /\ senders' = senders
        /\ worker' = worker
    BY <1>2 DEF LoopDone, Arm, Timeout, EndOfStream, OrchCancelled, Close, plan, stream
  <2>2. /\ \A x \in InTransit' : x \in InTransit
        /\ \A K, s : Lone(K, s) => Lone(K, s)'
    BY <2>1, StreamSame
  <2>3. \A v \in Computing' : v \in Computing
    BY <2>1 DEF Computing
  <2> QED BY <2>1, <2>2, <2>3, CountedLess
<1>3. ASSUME NEW from, NEW wait, NEW next, Receive(from, wait, next) PROVE Counted'
  BY <1>3, CountedReceive
<1>4. ASSUME NEW wait, NEW next, Wake(wait, next) PROVE Counted'
  BY <1>4, CountedWake
<1> QED BY <1>1, <1>2, <1>3, <1>4 DEF Scheduling

(* Each action of a worker keeps the attempts counted. *)
LEMMA CountedWorking ==
  ASSUME TypeOK, Counted, NEW w \in Workers, Working(w)
  PROVE  Counted'
<1>0. /\ {"start", "output", "success", "failure", "retry", "hook"} \subseteq Kinds
      /\ {"compute", "computed", "reraise", "hooks", "exit", "raising"} \subseteq WorkerStates
  BY DEF Kinds, WorkerStates
<1>1. CASE StartStep(w)
  <2>1. w \in Computing /\ worker[w] # "none" /\ Send(w, "start", "compute")
    BY <1>1 DEF StartStep, Computing
  <2> QED BY <1>0, <2>1, CountedSend
<1>2. CASE EmitOutput(w)
  <2>1. w \in Computing /\ worker[w] # "none" /\ Send(w, "output", "computed")
    BY <1>2 DEF EmitOutput, Computing
  <2> QED BY <1>0, <2>1, CountedSend
<1>3. CASE RequestRetry(w)
  <2>1. /\ w \in Computing /\ worker[w] # "none" /\ w[2] <= MaxRetries[w[1]]
        /\ Send(w, "retry", "hooks")
    BY <1>3 DEF RequestRetry, Computing
  <2> QED BY <1>0, <2>1, CountedSend
<1>4. CASE Succeed(w) \/ Fail(w) \/ TriggerHook(w) \/ ReportException(w)
  <2>1. PICK k \in Kinds \ {"retry"}, next \in {"hooks", "reraise", "exit", "raising"} :
           worker[w] # "none" /\ Send(w, k, next)
    BY <1>0, <1>4 DEF Succeed, Fail, TriggerHook, ReportException
  <2> QED BY <1>0, <2>1, CountedSend
<1>5. CASE \E next \in {"done", "raised"} : worker[w] # "none" /\ Leave(w, next)
  <2>1. PICK next \in {"done", "raised"} : worker[w] # "none" /\ Leave(w, next)
    BY <1>5
  <2>2. /\ status' = status /\ attempts' = attempts /\ slot' = slot /\ senders' = senders
        /\ \A v \in Workers : v # w => worker'[v] = worker[v]
        /\ \A v \in Computing' : v \in Computing
    BY <2>1, LeaveIs
  <2>3. /\ \A x \in InTransit' : x \in InTransit
        /\ \A K, s : Lone(K, s) => Lone(K, s)'
    BY <2>2, StreamSame
  <2>4. \A v \in Workers : worker'[v] # "none" => worker[v] # "none"
    BY <2>1, <2>2
  <2> QED BY <2>2, <2>3, <2>4, CountedLess
<1>6. CASE CancelWorker(w)
  <2>1. /\ status' = status /\ attempts' = attempts /\ slot' = slot
        /\ senders' = senders \/ \E i \in DOMAIN senders : senders' = Withdrawn(i)
        /\ worker[w] \notin Gone /\ \A v \in Workers : v # w => worker'[v] = worker[v]
        /\ \A v \in Computing' : v \in Computing
    BY <1>6, CancelIs
  <2>2. /\ \A x \in InTransit' : x \in InTransit
        /\ \A K, s : Lone(K, s) => Lone(K, s)'
    BY <2>1, ShrinkIs
  <2>3. \A v \in Workers : worker'[v] # "none" => worker[v] # "none"
    BY <2>1 DEF Gone
  <2> QED BY <2>1, <2>2, <2>3, CountedLess
<1> QED
  BY <1>1, <1>2, <1>3, <1>4, <1>5, <1>6 DEF Working, Exit, Raise, SetupRaises

(* Each attempt is the next one of its step and asks for a retry at most   *)
(* once, whatever the faults.                                              *)
LEMMA CountedAlways == Spec => []Counted
<1>1. Init => Counted
  <2> SUFFICES ASSUME Init PROVE Counted
    OBVIOUS
  <2>1. /\ DOMAIN slot = {} /\ DOMAIN senders = {} /\ Computing = {}
        /\ \A w \in Workers : worker[w] = "none"
        /\ \A s \in Steps : attempts[s] = 0
    BY DEF Init, Computing
  <2>2. \A s \in Steps : attempts[s] <= MaxRetries[s]
    BY <2>1, ExecutorAssumption
  <2> QED BY <2>1, <2>2 DEF Counted, Alone, Lone, InTransit
<1>2. TypeOK /\ Counted /\ [Next]_vars => Counted'
  <2> SUFFICES ASSUME TypeOK, Counted, [Next]_vars PROVE Counted'
    OBVIOUS
  <2>1. CASE Scheduling
    BY <2>1, CountedScheduling
  <2>2. CASE \E w \in Workers : Working(w)
    BY <2>2, CountedWorking
  <2>3. CASE (\E s \in Steps : Ripen(s)) \/ Consuming \/ UNCHANGED vars
    <3>1. /\ status' = status /\ attempts' = attempts /\ slot' = slot /\ senders' = senders
          /\ worker' = worker
      BY <2>3 DEF Ripen, Consuming, Consume, Interrupt, LeavePortal, plan, stream, vars
    <3>2. /\ \A x \in InTransit' : x \in InTransit
          /\ \A K, s : Lone(K, s) => Lone(K, s)'
      BY <3>1, StreamSame
    <3>3. \A v \in Computing' : v \in Computing
      BY <3>1 DEF Computing
    <3> QED BY <3>1, <3>2, <3>3, CountedLess
  <2> QED BY <2>1, <2>2, <2>3 DEF Next, Finished
<1> QED BY <1>1, <1>2, TypeCorrect, PTL DEF Spec

------------------------------------------------------------------------------
(* A step that only removes events or workers keeps the ends of attempts   *)
(* clean.                                                                  *)
LEMMA CleanLess ==
  ASSUME TypeOK, Clean, status' = status,
         \A x \in InTransit' : x \in InTransit,
         \A K, s : Lone(K, s) => Lone(K, s)',
         \A v \in Computing' : v \in Computing,
         cancelled' \/ (/\ ~ cancelled /\ InTransit' = InTransit
                        /\ \A w \in Workers : Doubtful(w)' => Doubtful(w))
  PROVE  Clean'
<1>1. \A K, s : Sent(K, s)' => Sent(K, s)
  BY DEF Sent, Of
<1>2. \A w \in Computing' : status'[w[1]] = "in_flight" /\ ~ Sent(AttemptEnds, w[1])'
  BY <1>1 DEF Clean
<1>3. \A s \in Steps : Sent(AttemptEnds, s)' => status'[s] \in Begun
  BY <1>1 DEF Clean
<1>4. \A s \in Steps : Sent({"retry"}, s)' => status'[s] = "in_flight" /\ Lone(AttemptEnds, s)'
  BY <1>1 DEF Clean
<1>5. ASSUME ~ cancelled', NEW w \in Workers, Doubtful(w)' PROVE Settled(w[1])'
  <2>1. Settled(w[1])
    BY <1>5 DEF Clean
  <2>2. \A K, s : Sent(K, s) => Sent(K, s)'
    BY <1>5 DEF Sent, Of
  <2> QED BY <1>1, <2>1, <2>2 DEF Settled
<1> QED BY <1>2, <1>3, <1>4, <1>5 DEF Clean

(* Vending a batch keeps the ends of attempts clean. *)
LEMMA CleanSchedule ==
  ASSUME TypeOK, Counted, Clean, NEW batch \in SUBSET Steps, NEW refused,
         Schedule(batch, refused)
  PROVE  Clean'
<1>0. slot' = slot /\ senders' = senders /\ cancelled' = cancelled
  BY ScheduleIs
<1>1. \A s \in Steps :
         /\ s \in batch => /\ status[s] \in {"pending", "waiting", "executable"}
                           /\ status'[s] = "in_flight"
                           /\ <<s, attempts[s] + 1>> \in Computing'
         /\ s \notin batch => /\ status[s] \in Begun => status'[s] = status[s]
                              /\ status'[s] = "in_flight" => status[s] = "in_flight"
         /\ status[s] \notin Unseen => status'[s] \notin Unseen
  BY ScheduleIs, Zenon
<1>9. /\ \A w \in Workers : worker'[w] # worker[w] => worker'[w] = "spawned"
      /\ \A w \in Computing' : w \in Computing \/ w[1] \in batch
  BY ScheduleIs
<1>2. InTransit' = InTransit
  BY <1>0 DEF InTransit
<1>3. /\ \A K, s : Sent(K, s)' <=> Sent(K, s)
      /\ \A K, s : Lone(K, s)' <=> Lone(K, s)
  BY <1>0, <1>2 DEF Sent, Of, Lone
<1>4. \A s \in Steps : status[s] \in Begun => s \notin batch /\ status'[s] = status[s]
  BY <1>1 DEF Begun
<1>5. ASSUME NEW w \in Computing'
      PROVE  status'[w[1]] = "in_flight" /\ ~ Sent(AttemptEnds, w[1])'
  <2>1. w[1] \in Steps
    BY WorkersAre DEF Computing
  <2>2. CASE w \in Computing
    BY <1>3, <1>4, <2>1, <2>2 DEF Clean, Begun
  <2>3. CASE w[1] \in batch
    BY <1>1, <1>3, <1>4, <2>1, <2>3 DEF Clean
  <2> QED BY <1>9, <2>2, <2>3
<1>6. \A s \in Steps : Sent(AttemptEnds, s)' => status'[s] \in Begun
  BY <1>3, <1>4 DEF Clean
<1>7. \A s \in Steps : Sent({"retry"}, s)' => status'[s] = "in_flight" /\ Lone(AttemptEnds, s)'
  BY <1>3, <1>4 DEF Clean, Begun
<1>8. ASSUME ~ cancelled', NEW w \in Workers, Doubtful(w)' PROVE Settled(w[1])'
  <2>1. Doubtful(w) /\ w[1] \in Steps
    BY <1>8, <1>9, WorkersAre DEF Doubtful
  <2>2. Settled(w[1])
    BY <1>0, <1>8, <2>1 DEF Clean
  <2> QED BY <1>3, <1>4, <2>1, <2>2 DEF Settled, Begun
<1> QED BY <1>5, <1>6, <1>7, <1>8 DEF Clean

(* Handling an event keeps the ends of attempts clean. *)
LEMMA CleanHandle ==
  ASSUME TypeOK, Counted, Clean, NEW e \in Events, NEW next, Handle(e, next),
         \/ slot' = slot /\ senders # << >> /\ senders' = Tail(senders) /\ e = Head(senders)
         \/ senders' = senders /\ slot # << >> /\ slot' = << >> /\ e = Head(slot),
         worker' = worker
  PROVE  Clean'
<1>1. /\ e \in InTransit /\ \A x \in InTransit' : x \in InTransit
      /\ \A x \in InTransit : x \in InTransit' \/ x = e
      /\ \A K, s : Lone(K, s) => Lone(K, s)' /\ (Of(e, K, s) => ~ Sent(K, s)')
  BY TakenIs
<1>2. /\ e.step \in Steps /\ (cancelled => cancelled')
      /\ \A s \in Steps :
           /\ status[s] \in {"success", "failed"} => status'[s] = status[s]
           /\ status[s] \in Begun /\ ~ (s = e.step /\ e.kind \in AttemptEnds) =>
                status'[s] = status[s]
      /\ e.kind \in AttemptEnds =>
           \/ cancelled' /\ status' = status /\ status[e.step] # "in_flight"
           \/ /\ status[e.step] = "in_flight"
              /\ e.kind # "retry" => status'[e.step] \in {"success", "failed"}
  BY HandleIs
<1>3. Computing' = Computing /\ \A w \in Workers : Doubtful(w)' => Doubtful(w)
  BY DEF Computing, Doubtful
<1>4. \A K, s : Sent(K, s)' => Sent(K, s)
  BY <1>1 DEF Sent, Of
<1>5. \A K, s : Sent(K, s) => Sent(K, s)' \/ Of(e, K, s)
  BY <1>1 DEF Sent, Of
<1>6. \A K, s : Of(e, K, s) => Sent(K, s)
  BY <1>1 DEF Sent, Of
<1>7. \A s \in Steps : status[s] \in Begun /\ ~ Of(e, AttemptEnds, s) => status'[s] = status[s]
  BY <1>2 DEF Of
<1>8. ASSUME NEW w \in Computing'
      PROVE  status'[w[1]] = "in_flight" /\ ~ Sent(AttemptEnds, w[1])'
  <2>1. w[1] \in Steps
    BY WorkersAre DEF Computing
  <2>2. status[w[1]] = "in_flight" /\ ~ Sent(AttemptEnds, w[1])
    BY <1>3, <1>8 DEF Clean
  <2> QED BY <1>4, <1>6, <1>7, <2>1, <2>2 DEF Begun
<1>9. ASSUME NEW s \in Steps, Sent({"retry"}, s)'
      PROVE  status'[s] = "in_flight" /\ Lone(AttemptEnds, s)' /\ ~ Of(e, AttemptEnds, s)
  <2>1. status[s] = "in_flight" /\ Lone(AttemptEnds, s)
    BY <1>4, <1>9 DEF Clean
  <2>2. Sent(AttemptEnds, s)'
    BY <1>9 DEF Sent, Of, AttemptEnds
  <2>3. ~ Of(e, AttemptEnds, s)
    BY <1>1, <2>1, <2>2
  <2> QED BY <1>1, <1>7, <2>1, <2>3 DEF Begun
<1>10. ASSUME NEW s \in Steps, Sent(AttemptEnds, s)' PROVE status'[s] \in Begun
  <2>1. status[s] \in Begun
    BY <1>4, <1>10 DEF Clean
  <2>2. CASE Of(e, {"retry"}, s)
    <3>1. Lone(AttemptEnds, s) /\ Of(e, AttemptEnds, s)
      BY <1>6, <2>2 DEF Clean, Of, AttemptEnds
    <3> QED BY <1>1, <1>10, <3>1
  <2>3. CASE Of(e, AttemptEnds, s) /\ ~ Of(e, {"retry"}, s)
    <3>1. s = e.step /\ e.kind \in AttemptEnds /\ e.kind # "retry"
      BY <2>3 DEF Of
    <3> QED BY <1>2, <2>1, <3>1 DEF Begun
  <2>4. CASE ~ Of(e, AttemptEnds, s)
    BY <1>7, <2>1, <2>4
  <2> QED BY <2>2, <2>3, <2>4
<1>11. ASSUME ~ cancelled', NEW w \in Workers, Doubtful(w)' PROVE Settled(w[1])'
  <2>1. w[1] \in Steps
    BY WorkersAre
  <2>2. Settled(w[1])
    BY <1>2, <1>3, <1>11 DEF Clean
  <2>3. CASE status[w[1]] \in {"success", "failed"}
    BY <1>2, <2>1, <2>3 DEF Settled
  <2>4. CASE status[w[1]] = "in_flight" /\ Sent(AttemptEnds, w[1]) /\ ~ Sent({"retry"}, w[1])
    <3>1. ~ Of(e, {"retry"}, w[1])
      BY <1>6, <2>4
    <3>2. CASE Of(e, AttemptEnds, w[1])
      <4>1. w[1] = e.step /\ e.kind \in AttemptEnds /\ e.kind # "retry"
        BY <3>1, <3>2 DEF Of
      <4> QED BY <1>2, <1>11, <4>1 DEF Settled
    <3>3. CASE ~ Of(e, AttemptEnds, w[1])
      <4>1. status'[w[1]] = "in_flight"
        BY <1>7, <2>1, <2>4, <3>3 DEF Begun
      <4>2. Sent(AttemptEnds, w[1])' /\ ~ Sent({"retry"}, w[1])'
        BY <1>4, <1>5, <2>4, <3>3
      <4> QED BY <4>1, <4>2 DEF Settled
    <3> QED BY <3>2, <3>3
  <2> QED BY <2>2, <2>3, <2>4 DEF Settled
<1> QED BY <1>8, <1>9, <1>10, <1>11 DEF Clean

(* Sending an event keeps the ends of attempts clean, if no failing hook   *)
(* follows a retry request.                                                *)
LEMMA CleanSend ==
  ASSUME CleanHooks, TypeOK, Counted, Clean,
         NEW w \in Workers, NEW k \in Kinds, NEW next \in WorkerStates, Send(w, k, next),
         next \in {"spawned", "compute", "computed"} => w \in Computing,
         \/ k \notin AttemptEnds /\ next \notin {"hooks", "reraise"}
         \/ k \in AttemptEnds /\ w \in Computing /\ next \in {"hooks", "reraise"}
              /\ (k = "retry" => next = "hooks" /\ w[2] <= MaxRetries[w[1]])
         \/ k = "failure" /\ Doubtful(w) /\ next = "raising"
  PROVE  Clean'
<1> PICK e : e = Event(w[1], w[2], k)
  OBVIOUS
<1>1. /\ e \in Events /\ e.step = w[1] /\ e.att = w[2] /\ e.kind = k
      /\ (slot = << >> /\ slot' = <<e>> /\ senders' = senders)
           \/ (slot' = slot /\ senders' = Append(senders, e))
      /\ worker'[w] = next /\ \A v \in Workers : v # w => worker'[v] = worker[v]
      /\ status' = status /\ attempts' = attempts /\ cancelled' = cancelled /\ ~ cancelled
  BY SendIs
<1>2. /\ InTransit' = InTransit \cup {e}
      /\ \A K, s : (Of(e, K, s) /\ ~ Sent(K, s)) \/ (~ Of(e, K, s) /\ Lone(K, s)) => Lone(K, s)'
  BY <1>1, AddedIs
<1>3. \A K, s : Sent(K, s)' <=> Sent(K, s) \/ Of(e, K, s)
  BY <1>2 DEF Sent, Of
<1>4. \A K, s : Of(e, K, s) <=> s = w[1] /\ k \in K
  BY <1>1 DEF Of
<1>5. \A v \in Computing' : v \in Computing
  BY <1>1 DEF Computing
<1>6. w[1] \in Steps /\ w[2] \in Nat \ {0}
  BY WorkersAre
<1>7. \A v \in Workers : v # w /\ Doubtful(v)' => Settled(v[1])
  BY <1>1 DEF Doubtful, Clean
<1>8. CASE k \notin AttemptEnds /\ next \notin {"hooks", "reraise"}
  <2>0. k # "retry"
    BY <1>8 DEF AttemptEnds
  <2>1. \A v \in Computing' : status'[v[1]] = "in_flight" /\ ~ Sent(AttemptEnds, v[1])'
    BY <1>1, <1>3, <1>4, <1>5, <1>8 DEF Clean
  <2>2. \A s \in Steps : Sent(AttemptEnds, s)' => status'[s] \in Begun
    BY <1>1, <1>3, <1>4, <1>8 DEF Clean
  <2>3. \A s \in Steps : Sent({"retry"}, s)' => status'[s] = "in_flight" /\ Lone(AttemptEnds, s)'
    BY <1>1, <1>2, <1>3, <1>4, <1>8, <2>0 DEF Clean
  <2>4. ASSUME NEW v \in Workers, Doubtful(v)' PROVE Settled(v[1])'
    <3>1. v # w
      BY <1>1, <1>8, <2>4 DEF Doubtful
    <3> QED BY <1>1, <1>3, <1>4, <1>7, <2>0, <2>4, <3>1 DEF Settled
  <2> QED BY <2>1, <2>2, <2>3, <2>4 DEF Clean
<1>9. CASE k \in AttemptEnds /\ w \in Computing /\ next \in {"hooks", "reraise"}
              /\ (k = "retry" => next = "hooks" /\ w[2] <= MaxRetries[w[1]])
  <2>0. /\ status[w[1]] = "in_flight" /\ ~ Sent(AttemptEnds, w[1]) /\ ~ Sent({"retry"}, w[1])
        /\ w = <<w[1], attempts[w[1]] + 1>>
    BY <1>9, ComputingIs DEF Clean
  <2>1. ASSUME NEW v \in Computing' PROVE status'[v[1]] = "in_flight" /\ ~ Sent(AttemptEnds, v[1])'
    <3>1. v # w /\ v \in Computing
      BY <1>1, <1>5, <1>9, <2>1 DEF Computing
    <3>2. v = <<v[1], attempts[v[1]] + 1>>
      BY <3>1, ComputingIs
    <3>3. v[1] # w[1]
      BY <2>0, <3>1, <3>2
    <3> QED BY <1>1, <1>3, <1>4, <3>1, <3>3 DEF Clean
  <2>2. ASSUME NEW s \in Steps, Sent(AttemptEnds, s)' PROVE status'[s] \in Begun
    BY <1>1, <1>3, <1>4, <2>0, <2>2 DEF Clean, Begun
  <2>3. ASSUME NEW s \in Steps, Sent({"retry"}, s)'
        PROVE  status'[s] = "in_flight" /\ Lone(AttemptEnds, s)'
    <3>1. CASE s = w[1]
      <4>1. Of(e, AttemptEnds, s) /\ ~ Sent(AttemptEnds, s)
        BY <1>4, <1>9, <2>0, <3>1
      <4> QED BY <1>1, <1>2, <2>0, <3>1, <4>1
    <3>2. CASE s # w[1]
      <4>1. Sent({"retry"}, s) /\ ~ Of(e, AttemptEnds, s)
        BY <1>3, <1>4, <2>3, <3>2
      <4>2. status[s] = "in_flight" /\ Lone(AttemptEnds, s)
        BY <4>1 DEF Clean
      <4> QED BY <1>1, <1>2, <4>1, <4>2
    <3> QED BY <3>1, <3>2
  <2>4. ASSUME NEW v \in Workers, Doubtful(v)' PROVE Settled(v[1])'
    <3>1. CASE v = w /\ k # "retry"
      <4>1. Sent(AttemptEnds, w[1])' /\ ~ Sent({"retry"}, w[1])'
        BY <1>3, <1>4, <1>9, <2>0, <3>1
      <4> QED BY <1>1, <2>0, <3>1, <4>1 DEF Settled
    <3>2. CASE v = w /\ k = "retry"
      <4>1. w[1] \in Hooked /\ "badhook" \in Faults
        BY <1>1, <1>9, <2>4, <3>2 DEF Doubtful
      <4>2. MaxRetries[w[1]] = 0
        BY <4>1 DEF CleanHooks
      <4> QED BY <1>6, <1>9, <3>2, <4>2
    <3>3. CASE v # w
      <4>1. Settled(v[1])
        BY <1>7, <2>4, <3>3
      <4>2. v[1] # w[1] \/ status[v[1]] \in {"success", "failed"}
        BY <2>0, <4>1 DEF Settled
      <4> QED BY <1>1, <1>3, <1>4, <4>1, <4>2 DEF Settled
    <3> QED BY <3>1, <3>2, <3>3
  <2> QED BY <2>1, <2>2, <2>3, <2>4 DEF Clean
<1>10. CASE k = "failure" /\ Doubtful(w) /\ next = "raising"
  <2>0. Settled(w[1])
    BY <1>1, <1>10 DEF Clean
  <2>1. ASSUME NEW v \in Computing' PROVE status'[v[1]] = "in_flight" /\ ~ Sent(AttemptEnds, v[1])'
    <3>1. status[v[1]] = "in_flight" /\ ~ Sent(AttemptEnds, v[1])
      BY <1>5, <2>1 DEF Clean
    <3>2. v[1] # w[1]
      BY <2>0, <3>1 DEF Settled
    <3> QED BY <1>1, <1>3, <1>4, <3>1, <3>2
  <2>2. ASSUME NEW s \in Steps, Sent(AttemptEnds, s)' PROVE status'[s] \in Begun
    <3>1. status[w[1]] \in Begun
      BY <2>0 DEF Settled, Begun
    <3> QED BY <1>1, <1>3, <1>4, <2>2, <3>1 DEF Clean
  <2>3. ASSUME NEW s \in Steps, Sent({"retry"}, s)'
        PROVE  status'[s] = "in_flight" /\ Lone(AttemptEnds, s)'
    <3>1. Sent({"retry"}, s)
      BY <1>3, <1>4, <1>10, <2>3
    <3>2. status[s] = "in_flight" /\ Lone(AttemptEnds, s)
      BY <3>1 DEF Clean
    <3>3. s # w[1]
      BY <2>0, <3>1, <3>2 DEF Settled
    <3> QED BY <1>1, <1>2, <1>4, <3>2, <3>3
  <2>4. ASSUME NEW v \in Workers, Doubtful(v)' PROVE Settled(v[1])'
    <3>1. v # w
      BY <1>1, <1>10, <2>4 DEF Doubtful
    <3>2. Settled(v[1])
      BY <1>7, <2>4, <3>1
    <3> QED BY <1>1, <1>3, <1>4, <1>10, <3>2 DEF Settled
  <2> QED BY <2>1, <2>2, <2>3, <2>4 DEF Clean
<1> QED BY <1>8, <1>9, <1>10

(* A step that leaves plan, stream and workers alone keeps the ends of     *)
(* attempts clean.                                                         *)
LEMMA CleanSame ==
  ASSUME TypeOK, Clean, status' = status, slot' = slot, senders' = senders,
         worker' = worker, cancelled' = cancelled \/ cancelled'
  PROVE  Clean'
<1>1. /\ \A x \in InTransit' : x \in InTransit
      /\ \A K, s : Lone(K, s) => Lone(K, s)'
  BY StreamSame
<1>2. /\ InTransit' = InTransit /\ \A v \in Computing' : v \in Computing
      /\ \A w \in Workers : Doubtful(w)' => Doubtful(w)
  BY DEF InTransit, Computing, Doubtful
<1>3. cancelled' \/ ~ cancelled
  BY DEF TypeOK
<1> QED BY <1>1, <1>2, <1>3, CleanLess

(* Each action of the orchestrator keeps the ends of attempts clean. *)
LEMMA CleanScheduling ==
  ASSUME TypeOK, Counted, Clean, Scheduling
  PROVE  Clean'
<1>1. CASE \E batch, refused \in SUBSET Steps : Schedule(batch, refused)
  BY <1>1, CleanSchedule
<1>2. CASE \/ LoopDone \/ Arm \/ Timeout \/ EndOfStream \/ OrchCancelled \/ Close
  <2>1. /\ status' = status /\ slot' = slot /\ senders' = senders
        /\ worker' = worker /\ cancelled' = cancelled
    BY <1>2 DEF LoopDone, Arm, Timeout, EndOfStream, OrchCancelled, Close, plan, stream
  <2> QED BY <2>1, CleanSame
<1>3. ASSUME NEW from, NEW wait, NEW next, Receive(from, wait, next) PROVE Clean'
  <2>1. slot' = slot /\ worker' = worker
    BY <1>3, ReceiveIs
  <2>2. CASE status' = status /\ senders' = senders /\ cancelled' = cancelled
    BY <2>1, <2>2, CleanSame
  <2>3. CASE /\ senders # << >> /\ senders' = Tail(senders) /\ Head(senders) \in Events
             /\ Handle(Head(senders), next)
    BY <2>1, <2>3, CleanHandle
  <2> QED BY <1>3, <2>2, <2>3, ReceiveIs
<1>4. ASSUME NEW wait, NEW next, Wake(wait, next) PROVE Clean'
  <2>1. /\ slot # << >> /\ slot' = << >> /\ Head(slot) \in Events /\ Handle(Head(slot), next)
        /\ senders' = senders /\ worker' = worker
    BY <1>4, WakeIs
  <2> QED BY <2>1, CleanHandle
<1> QED BY <1>1, <1>2, <1>3, <1>4 DEF Scheduling

(* Each action of a worker keeps the ends of attempts clean. *)
LEMMA CleanWorking ==
  ASSUME CleanHooks, TypeOK, Counted, Clean, NEW w \in Workers, Working(w)
  PROVE  Clean'
<1>0. /\ {"start", "output", "success", "failure", "retry", "hook"} \subseteq Kinds
      /\ {"compute", "computed", "reraise", "hooks", "exit", "raising"} \subseteq WorkerStates
  BY DEF Kinds, WorkerStates
<1>1. CASE StartStep(w)
  <2>1. w \in Computing /\ "start" \notin AttemptEnds /\ Send(w, "start", "compute")
    BY <1>1 DEF StartStep, Computing, AttemptEnds
  <2> QED BY <1>0, <2>1, CleanSend
<1>2. CASE EmitOutput(w)
  <2>1. w \in Computing /\ "output" \notin AttemptEnds /\ Send(w, "output", "computed")
    BY <1>2 DEF EmitOutput, Computing, AttemptEnds
  <2> QED BY <1>0, <2>1, CleanSend
<1>3. CASE Succeed(w) \/ RequestRetry(w) \/ Fail(w)
  <2>1. PICK k \in AttemptEnds, next \in {"hooks", "reraise"} :
           /\ w \in Computing /\ Send(w, k, next)
           /\ k = "retry" => next = "hooks" /\ w[2] <= MaxRetries[w[1]]
    BY <1>3 DEF Succeed, RequestRetry, Fail, Computing, AttemptEnds
  <2>2. k \in Kinds
    BY <1>0 DEF AttemptEnds
  <2> QED BY <1>0, <2>1, <2>2, CleanSend
<1>4. CASE TriggerHook(w)
  <2>1. "hook" \notin AttemptEnds /\ Send(w, "hook", "exit")
    BY <1>4 DEF TriggerHook, AttemptEnds
  <2> QED BY <1>0, <2>1, CleanSend
<1>5. CASE ReportException(w)
  <2>1. Doubtful(w) /\ Send(w, "failure", "raising")
    BY <1>5 DEF ReportException, Doubtful
  <2> QED BY <1>0, <2>1, CleanSend
<1>6. CASE \E next \in {"done", "raised"} : Leave(w, next)
  <2>1. PICK next \in {"done", "raised"} : Leave(w, next)
    BY <1>6
  <2>2. /\ status' = status /\ slot' = slot /\ senders' = senders
        /\ cancelled' <=> cancelled \/ next = "raised"
        /\ worker'[w] = next /\ \A v \in Workers : v # w => worker'[v] = worker[v]
        /\ \A v \in Computing' : v \in Computing
    BY <2>1, LeaveIs
  <2>3. /\ \A x \in InTransit' : x \in InTransit
        /\ \A K, s : Lone(K, s) => Lone(K, s)'
    BY <2>2, StreamSame
  <2>4. InTransit' = InTransit /\ \A v \in Workers : Doubtful(v)' => Doubtful(v)
    BY <2>2 DEF InTransit, Doubtful
  <2> QED BY <2>2, <2>3, <2>4, CleanLess
<1>7. CASE CancelWorker(w)
  <2>1. /\ status' = status /\ slot' = slot
        /\ senders' = senders \/ \E i \in DOMAIN senders : senders' = Withdrawn(i)
        /\ cancelled'
        /\ \A v \in Computing' : v \in Computing
    BY <1>7, CancelIs
  <2>2. /\ \A x \in InTransit' : x \in InTransit
        /\ \A K, s : Lone(K, s) => Lone(K, s)'
    BY <2>1, ShrinkIs
  <2> QED BY <2>1, <2>2, CleanLess
<1> QED
  BY <1>1, <1>2, <1>3, <1>4, <1>5, <1>6, <1>7 DEF Working, Exit, Raise, SetupRaises

(* While a worker computes, its step is in flight and no end of an attempt *)
(* of it is in transit.                                                    *)
LEMMA CleanAlways == ASSUME CleanHooks PROVE Spec => []Clean
<1>1. Init => Clean
  <2> SUFFICES ASSUME Init PROVE Clean
    OBVIOUS
  <2>1. /\ InTransit = {} /\ Computing = {} /\ \A w \in Workers : worker[w] = "none"
    BY DEF Init, Computing, InTransit
  <2> QED BY <2>1 DEF Clean, Sent, Doubtful
<1>2. TypeOK /\ Counted /\ Clean /\ [Next]_vars => Clean'
  <2> SUFFICES ASSUME TypeOK, Counted, Clean, [Next]_vars PROVE Clean'
    OBVIOUS
  <2>1. CASE Scheduling
    BY <2>1, CleanScheduling
  <2>2. CASE \E w \in Workers : Working(w)
    BY <2>2, CleanWorking
  <2>3. CASE (\E s \in Steps : Ripen(s)) \/ Consume \/ LeavePortal \/ UNCHANGED vars
    <3>1. /\ status' = status /\ slot' = slot /\ senders' = senders
          /\ worker' = worker /\ cancelled' = cancelled
      BY <2>3 DEF Ripen, Consume, LeavePortal, plan, stream, vars
    <3> QED BY <3>1, CleanSame
  <2>4. CASE Interrupt
    <3>1. /\ status' = status /\ slot' = slot /\ senders' = senders
          /\ worker' = worker /\ (cancelled' = cancelled \/ cancelled')
      BY <2>4 DEF Interrupt, plan, stream, TypeOK
    <3> QED BY <3>1, CleanSame
  <2> QED BY <2>1, <2>2, <2>3, <2>4 DEF Next, Finished, Consuming
<1> QED BY <1>1, <1>2, TypeCorrect, CountedAlways, PTL DEF Spec

(* A worker that computes is the current attempt of a step in flight,      *)
(* however retries, failures and cancellations interleave (executor.py,    *)
(* lines 219-299), unless the hook of a step that may be retried raises.   *)
THEOREM OneAttemptAlways == ASSUME CleanHooks PROVE Spec => []OneAttemptAtATime
<1>1. TypeOK /\ Counted /\ Clean => OneAttemptAtATime
  BY DEF Counted, Clean, OneAttemptAtATime
<1> QED BY <1>1, TypeCorrect, CountedAlways, CleanAlways, PTL

------------------------------------------------------------------------------
(* A step that puts no step in flight keeps the number in flight bounded. *)
LEMMA BoundedLess ==
  ASSUME TypeOK, Bounded, status' \in [Steps -> Status],
         \A s \in Steps : status'[s] = "in_flight" => status[s] = "in_flight"
  PROVE  Bounded'
<1> PICK A, B : A = InFlight(status) /\ B = InFlight(status)'
  OBVIOUS
<1>1. IsFiniteSet(A) /\ B \subseteq A
  <2>1. A \subseteq Steps /\ B \subseteq A
    BY DEF InFlight, StepsIn
  <2> QED BY <2>1, PlanAssumption, FS_Subset
<1>2. Cardinality(B) <= Cardinality(A)
  BY <1>1, FS_Subset
<1>3. Cardinality(A) \in Nat /\ Cardinality(B) \in Nat
  BY <1>1, FS_Subset, FS_CardinalityType
<1>4. Cardinality(A) <= MaxConcurrent /\ MaxConcurrent \in Nat
  BY ExecutorAssumption DEF Bounded
<1> QED BY <1>2, <1>3, <1>4 DEF Bounded

(* A batch is vended within max_concurrent, counting the steps already in  *)
(* flight.                                                                 *)
LEMMA BoundedSchedule ==
  ASSUME TypeOK, Bounded, NEW batch \in SUBSET Steps, NEW refused, Schedule(batch, refused)
  PROVE  Bounded'
<1> PICK now : now = Settle(status, outputs, ripe)
  OBVIOUS
<1> PICK A, B : A = InFlight(status) /\ B = InFlight(status)'
  OBVIOUS
<1>1. /\ status' = Mark(now, batch, "in_flight")
      /\ Cardinality(batch) + Cardinality(InFlight(now)) <= MaxConcurrent \/ batch = {}
  BY DEF Schedule, IsBatch
<1>2. now \in [Steps -> Status]
  BY SettleType DEF TypeOK
<1>3. \A s \in Steps : now[s] = "in_flight" <=> status[s] = "in_flight"
  <2>1. status \in [Steps -> Status]
    BY DEF TypeOK
  <2> QED BY <2>1, SettleSteps
<1>4. InFlight(now) = A /\ B = A \cup batch
  <2>1. InFlight(now) = A
    BY <1>3 DEF InFlight, StepsIn
  <2>2. B = A \cup batch
    BY <1>1, <1>2, <1>3 DEF InFlight, StepsIn, Mark
  <2> QED BY <2>1, <2>2
<1>5. IsFiniteSet(A) /\ IsFiniteSet(batch)
  <2>1. A \subseteq Steps
    BY DEF InFlight, StepsIn
  <2> QED BY <2>1, PlanAssumption, FS_Subset
<1>6. /\ Cardinality(A \cup batch) = Cardinality(A) + Cardinality(batch) - Cardinality(A \cap batch)
      /\ IsFiniteSet(A \cap batch)
  BY <1>5, FS_Union, FS_Intersection
<1>7. Cardinality(A) \in Nat /\ Cardinality(batch) \in Nat /\ Cardinality(A \cap batch) \in Nat
  BY <1>5, <1>6, FS_CardinalityType
<1>8. Cardinality(A) <= MaxConcurrent /\ MaxConcurrent \in Nat
  BY ExecutorAssumption DEF Bounded
<1>9. Cardinality(A \cup batch) <= MaxConcurrent
  <2>1. CASE batch = {}
    <3>1. A \cup batch = A
      BY <2>1
    <3> QED BY <1>8, <3>1
  <2>2. CASE Cardinality(batch) + Cardinality(A) <= MaxConcurrent
    BY <1>6, <1>7, <1>8, <2>2
  <2> QED BY <1>1, <1>4, <2>1, <2>2
<1> QED BY <1>4, <1>9 DEF Bounded

(* At most max_concurrent steps are in flight, whatever the faults. *)
LEMMA BoundedAlways == Spec => []Bounded
<1>1. Init => Bounded
  <2> SUFFICES ASSUME Init PROVE Bounded
    OBVIOUS
  <2>1. [s \in Steps |-> "pending"] \in [Steps -> Status]
    BY DEF Status
  <2>2. \A s \in Steps : status[s] # "in_flight"
    <3> PICK st : st = [s \in Steps |-> "pending"]
      OBVIOUS
    <3>1. status = Settle(st, {}, {}) /\ st \in [Steps -> Status]
      BY <2>1 DEF Init
    <3>2. \A s \in Steps : st[s] = "pending"
      OBVIOUS
    <3> QED BY <3>1, <3>2, SettleSteps
  <2>3. InFlight(status) = {}
    BY <2>2 DEF InFlight, StepsIn
  <2>4. Cardinality({}) = 0
    BY FS_EmptySet
  <2> QED BY <2>3, <2>4, ExecutorAssumption DEF Bounded
<1>2. TypeOK /\ TypeOK' /\ Bounded /\ [Next]_vars => Bounded'
  <2> SUFFICES ASSUME TypeOK, TypeOK', Bounded, [Next]_vars PROVE Bounded'
    OBVIOUS
  <2>0. status' \in [Steps -> Status]
    BY DEF TypeOK
  <2>1. CASE status' = status
    BY <2>0, <2>1, BoundedLess
  <2>2. CASE \E batch, refused \in SUBSET Steps : Schedule(batch, refused)
    BY <2>2, BoundedSchedule
  <2>3. ASSUME NEW e \in Events, NEW next, Handle(e, next) PROVE Bounded'
    <3>1. \A s \in Steps : status'[s] = "in_flight" => status[s] = "in_flight"
      BY <2>3, HandleIs
    <3> QED BY <2>0, <3>1, BoundedLess
  <2>4. ASSUME NEW from, NEW wait, NEW next, Receive(from, wait, next) PROVE Bounded'
    BY <2>1, <2>3, <2>4, ReceiveIs
  <2>5. ASSUME NEW wait, NEW next, Wake(wait, next) PROVE Bounded'
    BY <2>3, <2>5, WakeIs
  <2>6. CASE \/ LoopDone \/ Arm \/ Timeout \/ EndOfStream \/ OrchCancelled \/ Close
    <3>1. status' = status
      BY <2>6 DEF LoopDone, Arm, Timeout, EndOfStream, OrchCancelled, Close, plan
    <3> QED BY <2>1, <3>1
  <2>7. ASSUME NEW w \in Workers, Working(w) PROVE Bounded'
    <3>1. status' = status
      BY <2>7
      DEF Working, StartStep, EmitOutput, Succeed, RequestRetry, Fail, TriggerHook,
          ReportException, Exit, Raise, SetupRaises, CancelWorker, Send, Leave, plan
    <3> QED BY <2>1, <3>1
  <2>8. CASE (\E s \in Steps : Ripen(s)) \/ Consuming \/ UNCHANGED vars
    <3>1. status' = status
      BY <2>8 DEF Ripen, Consuming, Consume, Interrupt, LeavePortal, plan, vars
    <3> QED BY <2>1, <3>1
  <2>9. CASE Scheduling
    BY <2>2, <2>4, <2>5, <2>6, <2>9 DEF Scheduling
  <2> QED BY <2>7, <2>8, <2>9 DEF Next, Finished
<1> QED BY <1>1, <1>2, TypeCorrect, PTL DEF Spec

(* At most max_concurrent computations run at the same time (executor.py,  *)
(* lines 219-240): each of them is the one attempt of a step in flight,    *)
(* and those are bounded. It holds for the hooks OneAttemptAlways holds    *)
(* for.                                                                    *)
THEOREM ConcurrencyAlwaysBound == ASSUME CleanHooks PROVE Spec => []ConcurrencyBound
<1>1. TypeOK /\ Bounded /\ OneAttemptAtATime => ConcurrencyBound
  <2> SUFFICES ASSUME TypeOK, Bounded, OneAttemptAtATime PROVE ConcurrencyBound
    OBVIOUS
  <2> PICK A, f : A = InFlight(status) /\ f = [w \in Computing |-> w[1]]
    OBVIOUS
  <2>1. IsFiniteSet(A)
    <3>1. A \subseteq Steps
      BY DEF InFlight, StepsIn
    <3> QED BY <3>1, PlanAssumption, FS_Subset
  <2>2. \A w \in Computing : w = <<w[1], attempts[w[1]] + 1>> /\ w[1] \in A
    <3> SUFFICES ASSUME NEW w \in Computing
                 PROVE  w = <<w[1], attempts[w[1]] + 1>> /\ w[1] \in A
      OBVIOUS
    <3>1. w = <<w[1], w[2]>> /\ w[1] \in Steps
      BY WorkersAre DEF Computing
    <3>2. status[w[1]] = "in_flight" /\ w[2] = attempts[w[1]] + 1
      BY DEF OneAttemptAtATime
    <3> QED BY <3>1, <3>2 DEF InFlight, StepsIn
  <2>3. f \in [Computing -> A] /\ \A v, w \in Computing : f[v] = f[w] => v = w
    <3>1. f \in [Computing -> A]
      BY <2>2
    <3>2. ASSUME NEW v \in Computing, NEW w \in Computing, f[v] = f[w] PROVE v = w
      <4>1. v[1] = w[1]
        BY <3>2
      <4> QED BY <2>2, <4>1
    <3> QED BY <3>1, <3>2
  <2>4. f \in Injection(Computing, A)
    BY <2>3 DEF Injection, IsInjective
  <2>5. IsFiniteSet(Computing) /\ Cardinality(Computing) <= Cardinality(A)
    BY <2>1, <2>4, FS_Injection
  <2>6. Cardinality(A) \in Nat /\ Cardinality(Computing) \in Nat
    BY <2>1, <2>5, FS_CardinalityType
  <2>7. Cardinality(A) <= MaxConcurrent /\ MaxConcurrent \in Nat
    BY ExecutorAssumption DEF Bounded
  <2> QED BY <2>5, <2>6, <2>7 DEF ConcurrencyBound
<1> QED BY <1>1, TypeCorrect, BoundedAlways, OneAttemptAlways, PTL

------------------------------------------------------------------------------
(* After its update ActiveExecution is complete or has a step that runs,   *)
(* may run or waits for its retry: a pending step all of whose upstream is *)
(* settled would have been skipped, abandoned or made executable. Here the *)
(* plan's acyclicity is used.                                              *)
LEMMA SettleGoing ==
  ASSUME NEW st \in [Steps -> Status], NEW out, NEW rp,
         \A s \in Steps : s \in out => st[s] \notin Unseen
  PROVE  Going(Settle(st, out, rp))
<1> DEFINE skipped   == Mark(st, SkipSet(st, out), "skipped")
           abandoned == Mark(skipped, AbandonSet(skipped), "abandoned")
           final     == Mark(abandoned, ReadySet(abandoned, out, rp), "executable")
           P         == {s \in Steps : final[s] = "pending"}
<1>0. \A s \in Steps : Deps[s] \subseteq Steps
  BY PlanAssumption
<1>1. /\ skipped \in [Steps -> Status] /\ abandoned \in [Steps -> Status]
      /\ final \in [Steps -> Status]
  <2>1. skipped \in [Steps -> Status]
    BY MarkType DEF Status
  <2>2. abandoned \in [Steps -> Status]
    BY <2>1, MarkType DEF Status
  <2> QED BY <2>1, <2>2, MarkType DEF Status
<1>2. \A s \in Steps : skipped[s] = IF s \in SkipSet(st, out) THEN "skipped" ELSE st[s]
  BY DEF Mark
<1>3. \A s \in Steps : abandoned[s] = IF s \in AbandonSet(skipped) THEN "abandoned" ELSE skipped[s]
  BY DEF Mark
<1>4. \A s \in Steps :
        final[s] = IF s \in ReadySet(abandoned, out, rp) THEN "executable" ELSE abandoned[s]
  BY DEF Mark
<1>5. Settle(st, out, rp) = final
  BY DEF Settle
<1>6. \A s \in Steps : s \in SkipSet(st, out) => st[s] = "pending"
  BY DEF SkipSet, StepsIn
<1>7. \A s \in Steps : s \in AbandonSet(skipped) => skipped[s] = "pending"
  BY DEF AbandonSet, StepsIn
<1> HIDE DEF abandoned, final
<1>8. ASSUME NEW s \in P, Deps[s] \cap P = {},
             StepsIn(final, {"executable", "in_flight", "waiting"}) = {}
      PROVE  FALSE
  <2>1. /\ s \in Steps /\ s \notin ReadySet(abandoned, out, rp) /\ s \notin AbandonSet(skipped)
        /\ s \notin SkipSet(st, out)
        /\ st[s] = "pending" /\ skipped[s] = "pending" /\ abandoned[s] = "pending"
    BY <1>2, <1>3, <1>4
  <2>2. \A d \in Deps[s] : final[d] \in {"success", "failed", "skipped", "abandoned"}
                           /\ final[d] = abandoned[d] /\ d \in Steps
    BY <1>0, <1>1, <1>4, <1>8, <2>1 DEF StepsIn, Status
  <2>3. \A d \in Deps[s] : abandoned[d] \notin {"failed", "abandoned"}
    <3> SUFFICES ASSUME NEW d \in Deps[s], abandoned[d] \in {"failed", "abandoned"} PROVE FALSE
      OBVIOUS
    <3>0. d \in Steps
      BY <2>2
    <3>1. d \in StepsIn(skipped, {"failed", "abandoned"}) \/ d \in AbandonSet(skipped)
      BY <1>3, <3>0 DEF StepsIn
    <3>2. s \in StepsIn(skipped, {"pending"})
      BY <2>1 DEF StepsIn
    <3>3. ASSUME NEW C \in SUBSET StepsIn(skipped, {"pending"}), AbandonRule(skipped, C) \subseteq C
          PROVE  s \in C
      <4>1. d \in StepsIn(skipped, {"failed", "abandoned"}) \cup C
        BY <3>1, <3>3 DEF AbandonSet
      <4>2. s \in AbandonRule(skipped, C)
        BY <3>2, <4>1 DEF AbandonRule
      <4> QED BY <3>3, <4>2
    <3>4. s \in AbandonSet(skipped)
      BY <3>2, <3>3 DEF AbandonSet
    <3> QED BY <2>1, <3>4
  <2>4. \A d \in Deps[s] : /\ d \in Steps /\ abandoned[d] = skipped[d]
                           /\ skipped[d] \in {"success", "skipped"}
    BY <1>3, <2>2, <2>3
  <2>5. ~ (Deps[s] \subseteq out)
    <3> SUFFICES ASSUME Deps[s] \subseteq out PROVE FALSE
      OBVIOUS
    <3>1. \A d \in Deps[s] : st[d] \notin {"pending", "skipped"}
      BY <2>4 DEF Unseen
    <3>2. \A d \in Deps[s] : abandoned[d] = "success"
      BY <1>2, <1>6, <2>4, <3>1
    <3>3. s \in ReadySet(abandoned, out, rp)
      BY <2>1, <2>4, <3>2 DEF ReadySet, StepsIn
    <3> QED BY <2>1, <3>3
  <2>6. Deps[s] \subseteq StepsIn(st, {"success", "skipped"}) \cup SkipSet(st, out)
    BY <1>2, <2>4 DEF StepsIn
  <2>7. s \in StepsIn(st, {"pending"})
    BY <2>1 DEF StepsIn
  <2>8. ASSUME NEW C \in SUBSET StepsIn(st, {"pending"}), SkipRule(st, out, C) \subseteq C
        PROVE  s \in C
    <3>1. SkipSet(st, out) \subseteq C
      BY <2>8 DEF SkipSet
    <3>2. s \in SkipRule(st, out, C)
      BY <2>5, <2>6, <2>7, <3>1 DEF SkipRule
    <3> QED BY <2>8, <3>2
  <2>9. s \in SkipSet(st, out)
    BY <2>7, <2>8 DEF SkipSet
  <2> QED BY <2>1, <2>9
<1>9. CASE P = {}
  <2>1. \A s \in Steps : final[s] \in Terminal \cup {"executable", "in_flight", "waiting"}
    BY <1>1, <1>9 DEF Status, Terminal
  <2> QED BY <1>5, <2>1 DEF Going, IsComplete, StepsIn
<1>10. CASE P # {}
  <2>1. PICK s \in P : Deps[s] \cap P = {}
    <3>1. P \in SUBSET Steps
      OBVIOUS
    <3> HIDE DEF P
    <3> QED BY <1>10, <3>1, PlanAssumption
  <2>2. StepsIn(final, {"executable", "in_flight", "waiting"}) # {}
    BY <1>8, <2>1
  <2> QED BY <1>5, <2>2 DEF Going
<1> QED BY <1>9, <1>10

(* The update never takes the last step that runs, may run or waits. *)
LEMMA SettleKeepsGoing ==
  ASSUME NEW st \in [Steps -> Status], NEW out, NEW rp, Going(st)
  PROVE  Going(Settle(st, out, rp))
<1> PICK final : final = Settle(st, out, rp)
  OBVIOUS
<1>1. /\ final \in [Steps -> Status]
      /\ \A s \in Steps :
           /\ st[s] \notin {"pending", "waiting"} => final[s] = st[s]
           /\ st[s] = "waiting" => final[s] \in {"waiting", "executable"}
  BY SettleType, SettleSteps
<1>2. CASE IsComplete(st)
  BY <1>1, <1>2 DEF IsComplete, Terminal, Going
<1>3. CASE StepsIn(st, {"executable", "in_flight", "waiting"}) # {}
  <2>1. PICK s \in Steps : st[s] \in {"executable", "in_flight", "waiting"}
    BY <1>3 DEF StepsIn
  <2>2. final[s] \in {"executable", "in_flight", "waiting"}
    BY <1>1, <2>1
  <2> QED BY <2>2 DEF Going, StepsIn
<1> QED BY <1>2, <1>3 DEF Going

(* Handling an event leaves the plan complete or with a step to go on      *)
(* with.                                                                   *)
LEMMA HandleGoing ==
  ASSUME TypeOK, Seen, Going(status), NEW e \in Events, e \in InTransit, NEW next,
         Handle(e, next)
  PROVE  Going(status')
<1>0. e.step \in Steps /\ status \in [Steps -> Status]
  BY DEF Events, TypeOK
<1>1. CASE HandleRaises(status, e)
  <2>1. status' = status
    BY <1>1 DEF Handle, plan
  <2> QED BY <2>1
<1>2. CASE ~ HandleRaises(status, e)
  <2> PICK st, out : /\ st = HandleStatus(status, e, Delayed)
                     /\ out = IF e.kind = "output" THEN outputs \cup {e.step} ELSE outputs
    OBVIOUS
  <2>1. status' = Settle(st, out, ripe)
    BY <1>2 DEF Handle
  <2>2. st \in [Steps -> Status]
    BY <1>0, HandleStatusType
  <2>3. \A s \in Steps : s \in out => status[s] \notin Unseen
    BY DEF Seen, Sent, Of
  <2>4. \E S, k : k \in Status \ Unseen /\ st = Mark(status, S, k)
    <3>1. e.kind = "success" => st = Mark(status, {e.step}, "success")
      BY Zenon DEF HandleStatus
    <3>2. e.kind = "failure" => st = Mark(status, {e.step}, "failed")
      BY Zenon DEF HandleStatus
    <3>3. e.kind = "retry" => st = Mark(status, {e.step}, IF e.step \in Delayed
                                                        THEN "waiting" ELSE "executable")
      BY Zenon DEF HandleStatus
    <3>4. e.kind \notin AttemptEnds => st = status
      BY Zenon DEF HandleStatus, AttemptEnds
    <3>5. status = Mark(status, {}, "success")
      BY <1>0 DEF Mark
    <3>6. {"success", "failed", "waiting", "executable"} \subseteq Status \ Unseen
      BY DEF Status, Unseen
    <3> QED BY <3>1, <3>2, <3>3, <3>4, <3>5, <3>6 DEF AttemptEnds
  <2>5. \A s \in Steps : s \in out => st[s] \notin Unseen
    BY <1>0, <2>3, <2>4 DEF Mark
  <2> QED BY <2>1, <2>2, <2>5, SettleGoing
<1> QED BY <1>1, <1>2

(* A step that leaves plan, stream and workers alone keeps the reasons to  *)
(* wait.                                                                   *)
LEMMA WaitSame ==
  ASSUME TypeOK, WaitInv, status' = status, outputs' = outputs, attempts' = attempts,
         slot' = slot, senders' = senders, worker' = worker, cancelled' = cancelled \/ cancelled',
         Armed', Told'
  PROVE  WaitInv'
<1>1. cancelled' \/ (~ cancelled' /\ ~ cancelled)
  BY DEF TypeOK
<1>2. /\ Computing' = Computing /\ Live' = Live /\ InTransit' = InTransit
  BY DEF Computing, Live, InTransit
<1>3. \A K, s : Sent(K, s)' <=> Sent(K, s)
  BY <1>2 DEF Sent, Of
<1>4. Flying'
  BY <1>1, <1>2, <1>3 DEF WaitInv, Flying
<1>5. Lined'
  BY <1>1, <1>2 DEF WaitInv, Lined, Sender
<1>6. Seen'
  BY <1>3 DEF WaitInv, Seen
<1>7. Going(status)'
  BY DEF WaitInv, Going
<1> QED BY <1>4, <1>5, <1>6, <1>7 DEF WaitInv

(* Handling an event keeps the reasons to wait. *)
LEMMA WaitHandle ==
  ASSUME TypeOK, WaitInv, NEW e \in Events, NEW next \in {"schedule", "drain"}, Handle(e, next),
         \/ slot' = slot /\ senders # << >> /\ senders' = Tail(senders) /\ e = Head(senders)
         \/ senders' = senders /\ slot # << >> /\ slot' = << >> /\ e = Head(slot),
         worker' = worker
  PROVE  WaitInv'
<1>1. /\ e \in InTransit /\ \A x \in InTransit' : x \in InTransit
      /\ \A x \in InTransit : x \in InTransit' \/ x = e
      /\ \A i \in DOMAIN senders' : \E j \in DOMAIN senders : senders[j] = senders'[i]
  BY TakenIs
<1>2. /\ e.step \in Steps /\ (cancelled => cancelled')
      /\ orch' = next \/ (orch' = "closing" /\ cancelled')
      /\ \A s \in Steps :
           /\ status'[s] = "in_flight" => status[s] = "in_flight"
           /\ status[s] \notin Unseen => status'[s] \notin Unseen
           /\ ~ (s = e.step /\ e.kind = "retry") => attempts'[s] = attempts[s]
      /\ e.kind \in AttemptEnds =>
           \/ cancelled' /\ status' = status /\ status[e.step] # "in_flight"
           \/ /\ status[e.step] = "in_flight"
              /\ e.kind # "retry" => status'[e.step] \in {"success", "failed"}
              /\ e.kind = "retry" => status'[e.step] \in {"waiting", "executable"}
  BY HandleIs
<1>3. Computing' = Computing /\ Live' = Live
  BY DEF Computing, Live
<1>4. /\ \A K, s : Sent(K, s)' => Sent(K, s)
      /\ \A K, s : Sent(K, s) => Sent(K, s)' \/ Of(e, K, s)
      /\ \A K, s : Of(e, K, s) => Sent(K, s)
  BY <1>1 DEF Sent, Of
<1>5. Flying'
  <2> SUFFICES ASSUME ~ cancelled', NEW s \in Steps, status'[s] = "in_flight"
               PROVE  <<s, attempts'[s] + 1>> \in Computing' \/ Sent(AttemptEnds, s)'
    BY DEF Flying
  <2>1. <<s, attempts[s] + 1>> \in Computing \/ Sent(AttemptEnds, s)
    BY <1>2 DEF WaitInv, Flying
  <2>2. ~ Of(e, AttemptEnds, s)
    BY <1>2 DEF Of
  <2>3. attempts'[s] = attempts[s]
    BY <1>2, <2>2 DEF Of, AttemptEnds
  <2> QED BY <1>3, <1>4, <2>1, <2>2, <2>3
<1>6. Lined'
  <2> SUFFICES ASSUME ~ cancelled', NEW i \in DOMAIN senders'
               PROVE  <<senders'[i].step, senders'[i].att>> \in Live'
    BY DEF Lined, Sender
  <2>1. PICK j \in DOMAIN senders : senders[j] = senders'[i]
    BY <1>1
  <2>2. <<senders[j].step, senders[j].att>> \in Live
    BY <1>2 DEF WaitInv, Lined, Sender
  <2> QED BY <1>3, <2>1, <2>2
<1>7. Seen'
  <2>1. \A s \in Steps : s \in outputs' => s \in outputs \/ Of(e, {"output"}, s)
    BY DEF Handle, plan, Of
  <2> QED BY <1>2, <1>4, <2>1 DEF WaitInv, Seen
<1>8. Going(status')
  BY <1>1, HandleGoing DEF WaitInv
<1>9. Armed' /\ Told'
  BY <1>2 DEF Armed, Told
<1> QED BY <1>5, <1>6, <1>7, <1>8, <1>9 DEF WaitInv

(* Vending a batch gives a reason to wait: a step in flight, or parked     *)
(* work that bounds the wait.                                              *)
LEMMA WaitSchedule ==
  ASSUME TypeOK, Counted, WaitInv, NEW batch \in SUBSET Steps, NEW refused \in SUBSET Steps,
         Schedule(batch, refused)
  PROVE  WaitInv'
<1> PICK now : now = Settle(status, outputs, ripe)
  OBVIOUS
<1>1. /\ slot' = slot /\ senders' = senders /\ attempts' = attempts /\ outputs' = outputs
      /\ cancelled' = cancelled /\ orch' = "arm" /\ status' \in [Steps -> Status]
  BY ScheduleIs
<1>2. \A s \in Steps :
         /\ s \in batch => /\ status[s] \in {"pending", "waiting", "executable"}
                           /\ status'[s] = "in_flight"
                           /\ <<s, attempts[s] + 1>> \in Computing'
         /\ s \notin batch => /\ status[s] \in Begun => status'[s] = status[s]
                              /\ status'[s] = "in_flight" => status[s] = "in_flight"
         /\ status[s] \notin Unseen => status'[s] \notin Unseen
  BY ScheduleIs, Zenon
<1>3. \A w \in Workers :
              /\ worker'[w] # worker[w] => worker'[w] = "spawned"
              /\ w \in Computing => w \in Computing'
              /\ worker'[w] # "none" =>
                   worker[w] # "none" \/ (w[1] \in batch /\ w[2] = attempts[w[1]] + 1)
  BY ScheduleIs, Zenon
<1>4. /\ status' = Mark(now, batch, "in_flight")
      /\ ~ IsComplete(status)
      /\ IsBatch(now, batch, refused, MaxConcurrent)
      /\ ripe' = ripe \ StepsIn(now, {"executable"})
      /\ claims' = (claims \cup refused) \ batch
  BY DEF Schedule
<1>5. now \in [Steps -> Status]
  BY SettleType DEF TypeOK
<1>6. /\ InTransit' = InTransit /\ \A K, s : Sent(K, s)' <=> Sent(K, s)
  BY <1>1 DEF InTransit, Sent, Of
<1>7. Flying'
  <2> SUFFICES ASSUME ~ cancelled', NEW s \in Steps, status'[s] = "in_flight"
               PROVE  <<s, attempts'[s] + 1>> \in Computing' \/ Sent(AttemptEnds, s)'
    BY DEF Flying
  <2>1. CASE s \in batch
    BY <1>1, <1>2, <2>1
  <2>2. CASE s \notin batch
    <3>1. <<s, attempts[s] + 1>> \in Computing \/ Sent(AttemptEnds, s)
      BY <1>1, <1>2, <2>2 DEF WaitInv, Flying
    <3>2. <<s, attempts[s] + 1>> \in Computing => <<s, attempts[s] + 1>> \in Computing'
      BY <1>3 DEF Computing
    <3> QED BY <1>1, <1>6, <3>1, <3>2
  <2> QED BY <2>1, <2>2
<1>8. Lined'
  <2>1. \A w \in Live : w \in Live'
    BY <1>3 DEF Live, Gone
  <2> QED BY <1>1, <2>1 DEF WaitInv, Lined, Sender
<1>9. Seen'
  BY <1>1, <1>2, <1>6 DEF WaitInv, Seen
<1>10. Going(now)
  BY SettleKeepsGoing DEF WaitInv, TypeOK
<1>11. \A s \in Steps :
          /\ s \in batch => now[s] = "executable" /\ status'[s] = "in_flight"
          /\ s \notin batch => status'[s] = now[s]
  BY <1>4, <1>5 DEF IsBatch, StepsIn, Mark
<1>12. \E s \in Steps : now[s] \in {"executable", "in_flight", "waiting"}
  <2>1. PICK s \in Steps : status[s] \notin Terminal
    BY <1>4 DEF IsComplete
  <2>2. PICK t \in Steps : status[t] \in {"executable", "in_flight", "waiting"}
    BY <1>4 DEF WaitInv, Going, StepsIn
  <2>3. /\ status[t] \notin {"pending", "waiting"} => now[t] = status[t]
        /\ status[t] = "waiting" => now[t] \in {"waiting", "executable"}
    <3>1. status \in [Steps -> Status]
      BY DEF TypeOK
    <3> QED BY <3>1, SettleSteps
  <2> QED BY <2>2, <2>3
<1>13. Going(status')
  <2>1. PICK s \in Steps : now[s] \in {"executable", "in_flight", "waiting"}
    BY <1>12
  <2>2. status'[s] \in {"executable", "in_flight", "waiting"}
    BY <1>11, <2>1
  <2> QED BY <2>2 DEF Going, StepsIn
<1>14. StepsIn(status', {"waiting"}) \cap ripe' = {}
  <2> SUFFICES ASSUME NEW s \in Steps, status'[s] = "waiting", s \in ripe' PROVE FALSE
    BY DEF StepsIn
  <2>1. now[s] = "waiting" /\ s \in ripe
    BY <1>4, <1>11
  <2> DEFINE skipped   == Mark(status, SkipSet(status, outputs), "skipped")
             abandoned == Mark(skipped, AbandonSet(skipped), "abandoned")
  <2>2. now = Mark(abandoned, ReadySet(abandoned, outputs, ripe), "executable")
    BY DEF Settle
  <2> HIDE DEF abandoned
  <2>3. now[s] = abandoned[s] /\ s \notin ReadySet(abandoned, outputs, ripe)
    BY <2>1, <2>2 DEF Mark
  <2>4. s \in StepsIn(abandoned, {"waiting"}) \cap ripe
    BY <2>1, <2>3 DEF StepsIn
  <2> QED BY <2>3, <2>4 DEF ReadySet
<1>15. StepsIn(status', {"waiting"}) \cup claims' # {} \/ InFlight(status') # {}
  <2>1. PICK s \in Steps : now[s] \in {"executable", "in_flight", "waiting"}
    BY <1>12
  <2>2. CASE now[s] \in {"in_flight", "waiting"}
    BY <1>11, <2>2 DEF StepsIn, InFlight
  <2>3. CASE batch # {}
    BY <1>11, <2>3 DEF InFlight, StepsIn
  <2>4. CASE now[s] = "executable" /\ batch = {}
    <3>1. CASE s \in refused
      BY <1>4, <2>4, <3>1
    <3>2. CASE s \notin refused
      <4>1. Cardinality(batch) + Cardinality(InFlight(now)) >= MaxConcurrent
        BY <1>4, <2>4, <3>2 DEF IsBatch, StepsIn
      <4>2. InFlight(now) # {}
        <5> SUFFICES ASSUME InFlight(now) = {} PROVE FALSE
          OBVIOUS
        <5>1. Cardinality(batch) = 0 /\ Cardinality(InFlight(now)) = 0
          BY <2>4, FS_EmptySet
        <5> QED BY <4>1, <5>1, ExecutorAssumption
      <4> QED BY <1>11, <2>4, <4>2 DEF InFlight, StepsIn
    <3> QED BY <3>1, <3>2
  <2> QED BY <2>1, <2>2, <2>3, <2>4
<1>16. Armed' /\ Told'
  BY <1>1, <1>14, <1>15 DEF Armed, Told
<1> QED BY <1>7, <1>8, <1>9, <1>13, <1>16 DEF WaitInv

(* Sending an event keeps the reasons to wait. *)
LEMMA WaitSend ==
  ASSUME TypeOK, Counted, WaitInv, NEW w \in Workers, NEW k \in Kinds, NEW next \in WorkerStates,
         Send(w, k, next), next \notin Gone,
         w \in Computing => k \in AttemptEnds \/ next \in {"compute", "computed"},
         k = "output" => w \in Computing
  PROVE  WaitInv'
<1> PICK e : e = Event(w[1], w[2], k)
  OBVIOUS
<1>1. /\ e \in Events /\ e.step = w[1] /\ e.att = w[2] /\ e.kind = k
      /\ (slot = << >> /\ slot' = <<e>> /\ senders' = senders)
           \/ (slot' = slot /\ senders' = Append(senders, e))
      /\ worker'[w] = next /\ \A v \in Workers : v # w => worker'[v] = worker[v]
  BY SendIs
<1>2. /\ status' = status /\ outputs' = outputs /\ attempts' = attempts /\ claims' = claims
      /\ ripe' = ripe /\ orch' = orch /\ bounded' = bounded /\ cancelled' = cancelled
  BY SendIs
<1>3. /\ InTransit' = InTransit \cup {e}
      /\ \A i \in DOMAIN senders' : \/ i \in DOMAIN senders /\ senders'[i] = senders[i]
                                    \/ senders'[i] = e
  BY <1>1, AddedIs
<1>4. \A K, s : Sent(K, s)' <=> Sent(K, s) \/ (s = w[1] /\ k \in K)
  BY <1>1, <1>3 DEF Sent, Of
<1>5. w = <<w[1], w[2]>>
  BY WorkersAre
<1>6. Flying'
  <2> SUFFICES ASSUME ~ cancelled', NEW s \in Steps, status'[s] = "in_flight"
               PROVE  <<s, attempts'[s] + 1>> \in Computing' \/ Sent(AttemptEnds, s)'
    BY DEF Flying
  <2>1. <<s, attempts[s] + 1>> \in Computing \/ Sent(AttemptEnds, s)
    BY <1>2 DEF WaitInv, Flying
  <2>2. CASE <<s, attempts[s] + 1>> \in Computing /\ <<s, attempts[s] + 1>> # w
    BY <1>1, <1>2, <2>2 DEF Computing
  <2>3. CASE <<s, attempts[s] + 1>> \in Computing /\ <<s, attempts[s] + 1>> = w
    <3>1. s = w[1]
      BY <2>3
    <3>2. CASE k \in AttemptEnds
      BY <1>4, <3>1, <3>2
    <3>3. CASE next \in {"compute", "computed"}
      BY <1>1, <1>2, <2>3, <3>3 DEF Computing
    <3> QED BY <2>3, <3>2, <3>3
  <2> QED BY <1>4, <2>1, <2>2, <2>3
<1>7. Lined'
  <2> SUFFICES ASSUME ~ cancelled', NEW i \in DOMAIN senders'
               PROVE  <<senders'[i].step, senders'[i].att>> \in Live'
    BY DEF Lined, Sender
  <2>1. \A v \in Live : v \in Live'
    BY <1>1 DEF Live
  <2>2. w \in Live'
    BY <1>1 DEF Live
  <2>3. CASE senders'[i] = e
    BY <1>1, <1>5, <2>2, <2>3
  <2>4. CASE i \in DOMAIN senders /\ senders'[i] = senders[i]
    BY <1>2, <2>1, <2>4 DEF WaitInv, Lined, Sender
  <2> QED BY <1>3, <2>3, <2>4
<1>8. Seen'
  <2>1. k = "output" => status[w[1]] \notin Unseen
    BY ComputingIs DEF Begun, Unseen
  <2> QED BY <1>2, <1>4, <2>1 DEF WaitInv, Seen
<1>9. Going(status)' /\ Armed' /\ Told'
  BY <1>2 DEF WaitInv, Going, Armed, Told, InFlight, StepsIn, IsComplete
<1> QED BY <1>6, <1>7, <1>8, <1>9 DEF WaitInv

(* A worker leaves when it has sent the end of its attempt, or cancels the *)
(* scope.                                                                  *)
LEMMA WaitLeave ==
  ASSUME TypeOK, WaitInv, NEW w \in Workers, NEW next \in {"done", "raised"}, Leave(w, next),
         next = "raised" \/ w \notin Computing
  PROVE  WaitInv'
<1>1. /\ status' = status /\ outputs' = outputs /\ attempts' = attempts /\ claims' = claims
      /\ ripe' = ripe /\ orch' = orch /\ bounded' = bounded
      /\ slot' = slot /\ senders' = senders
      /\ ~ Blocked(w) /\ (cancelled' <=> cancelled \/ next = "raised")
      /\ worker'[w] = next /\ \A v \in Workers : v # w => worker'[v] = worker[v]
  BY LeaveIs
<1>2. InTransit' = InTransit /\ \A K, s : Sent(K, s)' <=> Sent(K, s)
  BY <1>1 DEF InTransit, Sent, Of
<1>3. \A v \in Computing : v # w => v \in Computing'
  BY <1>1 DEF Computing
<1>4. \A v \in Live : v # w => v \in Live'
  BY <1>1 DEF Live
<1>5. Flying'
  BY <1>1, <1>2, <1>3 DEF WaitInv, Flying
<1>6. Lined'
  BY <1>1, <1>4 DEF WaitInv, Lined, Sender, Blocked
<1>7. Seen'
  BY <1>1, <1>2 DEF WaitInv, Seen
<1>8. Going(status)' /\ Armed' /\ Told'
  BY <1>1 DEF WaitInv, Going, Armed, Told, InFlight, StepsIn, IsComplete
<1> QED BY <1>5, <1>6, <1>7, <1>8 DEF WaitInv

(* A cancelled scope ends the wait. *)
LEMMA WaitCancel ==
  ASSUME TypeOK, WaitInv, NEW w \in Workers, CancelWorker(w)
  PROVE  WaitInv'
<1>1. /\ status' = status /\ outputs' = outputs /\ attempts' = attempts /\ claims' = claims
      /\ ripe' = ripe /\ orch' = orch /\ bounded' = bounded /\ slot' = slot /\ cancelled'
      /\ senders' = senders \/ \E i \in DOMAIN senders : senders' = Withdrawn(i)
  BY CancelIs
<1>2. \A x \in InTransit' : x \in InTransit
  BY <1>1, ShrinkIs
<1>3. \A K, s : Sent(K, s)' => Sent(K, s)
  BY <1>2 DEF Sent, Of
<1>4. Seen'
  BY <1>1, <1>3 DEF WaitInv, Seen
<1>5. Flying' /\ Lined'
  BY <1>1 DEF Flying, Lined
<1>6. Going(status)' /\ Armed' /\ Told'
  BY <1>1 DEF WaitInv, Going, Armed, Told, InFlight, StepsIn, IsComplete
<1> QED BY <1>4, <1>5, <1>6 DEF WaitInv

(* Each action of the orchestrator keeps the reasons to wait. *)
LEMMA WaitScheduling ==
  ASSUME TypeOK, Counted, WaitInv, Scheduling
  PROVE  WaitInv'
<1>1. CASE \E batch, refused \in SUBSET Steps : Schedule(batch, refused)
  BY <1>1, WaitSchedule
<1>2. CASE LoopDone \/ Timeout \/ EndOfStream \/ OrchCancelled \/ Close
  <2>1. /\ status' = status /\ outputs' = outputs /\ attempts' = attempts
        /\ slot' = slot /\ senders' = senders /\ worker' = worker /\ cancelled' = cancelled
        /\ orch' \in {"drain", "schedule", "closing", "ended"}
    BY <1>2 DEF LoopDone, Timeout, EndOfStream, OrchCancelled, Close, plan, stream
  <2>2. Armed' /\ Told'
    BY <2>1 DEF Armed, Told
  <2> QED BY <2>1, <2>2, WaitSame
<1>3. CASE Arm
  <2>1. /\ status' = status /\ outputs' = outputs /\ attempts' = attempts
        /\ slot' = slot /\ senders' = senders /\ worker' = worker /\ cancelled' = cancelled
        /\ orch = "arm" /\ orch' = "receive" /\ bounded' = SleepIsPositive(status, ripe, claims)
    BY <1>3 DEF Arm, plan, stream
  <2>2. Armed'
    BY <2>1 DEF Armed
  <2>3. /\ StepsIn(status, {"waiting"}) \cap ripe = {}
        /\ StepsIn(status, {"waiting"}) \cup claims # {} \/ InFlight(status) # {}
    BY <2>1 DEF WaitInv, Armed
  <2>4. ~ bounded' => InFlight(status) # {}
    BY <2>1, <2>3 DEF SleepIsPositive
  <2>5. Told'
    BY <2>1, <2>4 DEF Told, InFlight, StepsIn
  <2> QED BY <2>1, <2>2, <2>5, WaitSame
<1>4. ASSUME NEW from \in {"receive", "drain"}, NEW wait \in {"waiting", "drain_wait"},
             NEW next \in {"schedule", "drain"}, wait = "waiting" => from = "receive",
             Receive(from, wait, next)
      PROVE  WaitInv'
  <2>1. orch = from /\ slot' = slot /\ worker' = worker /\ bounded' = bounded
    BY <1>4, ReceiveIs
  <2>2. CASE /\ status' = status /\ attempts' = attempts /\ outputs' = outputs
             /\ claims' = claims /\ senders' = senders /\ cancelled' = cancelled
             /\ orch' = wait /\ senders = << >>
    <3>1. Armed'
      BY <1>4, <2>2 DEF Armed
    <3>2. Told'
      BY <1>4, <2>1, <2>2 DEF WaitInv, Told, InFlight, StepsIn
    <3> QED BY <2>1, <2>2, <3>1, <3>2, WaitSame
  <2>3. CASE /\ senders # << >> /\ senders' = Tail(senders) /\ Head(senders) \in Events
             /\ Handle(Head(senders), next)
    BY <2>1, <2>3, WaitHandle
  <2> QED BY <1>4, <2>2, <2>3, ReceiveIs
<1>5. ASSUME NEW wait, NEW next \in {"schedule", "drain"}, Wake(wait, next) PROVE WaitInv'
  <2>1. /\ slot # << >> /\ slot' = << >> /\ Head(slot) \in Events /\ Handle(Head(slot), next)
        /\ senders' = senders /\ worker' = worker
    BY <1>5, WakeIs
  <2> QED BY <2>1, WaitHandle
<1> QED BY <1>1, <1>2, <1>3, <1>4, <1>5 DEF Scheduling

(* Each action of a worker keeps the reasons to wait. *)
LEMMA WaitWorking ==
  ASSUME TypeOK, Counted, WaitInv, NEW w \in Workers, Working(w)
  PROVE  WaitInv'
<1>0. /\ {"start", "output", "success", "failure", "retry", "hook"} \subseteq Kinds
      /\ {"compute", "computed", "reraise", "hooks", "exit", "raising"} \subseteq WorkerStates
      /\ {"compute", "computed", "reraise", "hooks", "exit", "raising"} \cap Gone = {}
      /\ "output" \notin AttemptEnds
  BY DEF Kinds, WorkerStates, Gone, AttemptEnds
<1>1. CASE StartStep(w)
  <2>1. Send(w, "start", "compute")
    BY <1>1 DEF StartStep
  <2> QED BY <1>0, <2>1, WaitSend
<1>2. CASE EmitOutput(w)
  <2>1. w \in Computing /\ Send(w, "output", "computed")
    BY <1>2 DEF EmitOutput, Computing
  <2> QED BY <1>0, <2>1, WaitSend
<1>3. CASE Succeed(w) \/ RequestRetry(w) \/ Fail(w)
  <2>1. PICK k \in AttemptEnds, next \in {"hooks", "reraise"} : Send(w, k, next)
    BY <1>3 DEF Succeed, RequestRetry, Fail, AttemptEnds
  <2>2. k \in Kinds /\ k # "output" /\ next \in WorkerStates /\ next \notin Gone
    BY <1>0, <2>1 DEF AttemptEnds
  <2> QED BY <2>1, <2>2, WaitSend
<1>4. CASE TriggerHook(w) \/ ReportException(w)
  <2>1. PICK k \in {"hook", "failure"}, next \in {"exit", "raising"} :
           Send(w, k, next) /\ w \notin Computing
    BY <1>4 DEF TriggerHook, ReportException, Computing
  <2>2. k \in Kinds /\ k # "output" /\ next \in WorkerStates /\ next \notin Gone
    BY <1>0, <2>1
  <2> QED BY <2>1, <2>2, WaitSend
<1>5. CASE Exit(w)
  <2>1. w \notin Computing /\ Leave(w, "done")
    BY <1>5 DEF Exit, Computing
  <2> QED BY <2>1, WaitLeave
<1>6. CASE Raise(w) \/ SetupRaises(w)
  <2>1. Leave(w, "raised")
    BY <1>6 DEF Raise, SetupRaises
  <2> QED BY <2>1, WaitLeave
<1>7. CASE CancelWorker(w)
  BY <1>7, WaitCancel
<1> QED BY <1>1, <1>2, <1>3, <1>4, <1>5, <1>6, <1>7 DEF Working

(* A step in flight has a worker that computes or the end of its attempt   *)
(* in transit, and an unbounded wait has a step in flight.                 *)
LEMMA WaitAlways == ASSUME PromptArm PROVE Spec => []WaitInv
<1>1. Init => WaitInv
  <2> SUFFICES ASSUME Init PROVE WaitInv
    OBVIOUS
  <2>0. TypeOK
    BY InitType
  <2>1. /\ InTransit = {} /\ DOMAIN senders = {} /\ outputs = {} /\ orch = "schedule"
    BY DEF Init, InTransit
  <2> PICK st : st = [s \in Steps |-> "pending"]
    OBVIOUS
  <2>2. st \in [Steps -> Status] /\ status = Settle(st, {}, {})
    BY DEF Init, Status
  <2>3. \A s \in Steps : status[s] # "in_flight"
    BY <2>2, SettleSteps
  <2>4. Going(status)
    BY <2>2, SettleGoing
  <2> QED BY <2>1, <2>3, <2>4 DEF WaitInv, Flying, Lined, Seen, Sent, Armed, Told
<1>2. TypeOK /\ Counted /\ WaitInv /\ [Next]_vars => WaitInv'
  <2> SUFFICES ASSUME TypeOK, Counted, WaitInv, [Next]_vars PROVE WaitInv'
    OBVIOUS
  <2>1. CASE Scheduling
    BY <2>1, WaitScheduling
  <2>2. CASE \E w \in Workers : Working(w)
    BY <2>2, WaitWorking
  <2>3. CASE \E s \in Steps : Ripen(s)
    <3>1. /\ status' = status /\ outputs' = outputs /\ attempts' = attempts
          /\ slot' = slot /\ senders' = senders /\ worker' = worker /\ cancelled' = cancelled
          /\ orch' = orch /\ bounded' = bounded /\ orch # "arm"
      BY <2>3 DEF Ripen, plan, stream
    <3>2. Armed' /\ Told'
      BY <3>1 DEF WaitInv, Armed, Told, InFlight, StepsIn
    <3> QED BY <3>1, <3>2, WaitSame
  <2>4. CASE Consuming \/ UNCHANGED vars
    <3>1. /\ status' = status /\ outputs' = outputs /\ attempts' = attempts /\ claims' = claims
          /\ slot' = slot /\ senders' = senders /\ worker' = worker /\ ripe' = ripe
          /\ (cancelled' = cancelled \/ cancelled') /\ orch' = orch /\ bounded' = bounded
      BY <2>4 DEF Consuming, Consume, Interrupt, LeavePortal, plan, stream, vars, TypeOK
    <3>2. Armed' /\ Told'
      BY <3>1 DEF WaitInv, Armed, Told, InFlight, StepsIn
    <3> QED BY <3>1, <3>2, WaitSame
  <2> QED BY <2>1, <2>2, <2>3, <2>4 DEF Next, Finished
<1> QED BY <1>1, <1>2, TypeCorrect, CountedAlways, PTL DEF Spec

(* The orchestrator waits without a bound only while a worker is left to   *)
(* send, an event is there or the scope is cancelled (the comment at       *)
(* executor.py, lines 242-247), if no delayed retry comes due between the  *)
(* promotion and the arming of the wait.                                   *)
THEOREM NeverSilentWait == ASSUME PromptArm PROVE Spec => []NoSilentWait
<1>1. TypeOK /\ Counted /\ WaitInv => NoSilentWait
  <2> SUFFICES ASSUME TypeOK, Counted, WaitInv, orch = "waiting", ~ bounded, ~ cancelled,
                      slot = << >>
               PROVE  Live # {}
    BY DEF NoSilentWait
  <2>1. PICK s \in Steps : status[s] = "in_flight"
    BY DEF WaitInv, Told, InFlight, StepsIn
  <2>2. CASE <<s, attempts[s] + 1>> \in Computing
    BY <2>2 DEF Computing, Live, Gone
  <2>3. CASE Sent(AttemptEnds, s)
    <3>1. PICK i \in DOMAIN senders : TRUE
      BY <2>3 DEF Sent, InTransit
    <3>2. Sender(i) \in Live
      BY DEF WaitInv, Lined
    <3> QED BY <3>2
  <2> QED BY <2>1, <2>2, <2>3 DEF WaitInv, Flying
<1> QED BY <1>1, TypeCorrect, CountedAlways, WaitAlways, PTL
------------------------------------------------------------------------------
(***************************************************************************)
(* The promise to the code that iterates over the events (module RunLog).  *)
(* RunLog's actions look at the log the consumer has read; the invariant   *)
(* looks at everything that has been said: read, queued, handed over or    *)
(* still in a blocked sender.  Each event on its way is allowed by those   *)
(* in front of it, the bookkeeping mirrors what has reached the queue, and *)
(* a worker's place tells what it has said.                                *)
(***************************************************************************)
(* What the consumer has read before it comes to the p-th item of the queue. *)
Read(e) == \E i \in DOMAIN log[e.step] : log[e.step][i] = [kind |-> e.kind, att |-> e.att]
Ahead(p) == {e \in Events : Read(e) \/ \E q \in 1 .. p - 1 : queue[q] = e}
(* What has reached the queue, and what a waiting receiver was handed. *)
Given == Ahead(Len(queue) + 1)
Handed == {slot[i] : i \in DOMAIN slot}

(* RunLog's conditions, on a set of events instead of a log. *)
Some(A, s, k) == \E e \in A : e.step = s /\ e.kind = k
Ceased(A, s, a) == \E k \in AttemptEnds : Event(s, a, k) \in A

StartOK(s, a, A) ==
  /\ Event(s, a, "start") \notin A
  /\ a > 1 => Event(s, a - 1, "retry") \in A
  /\ \A d \in Deps[s] : Some(A, d, "output") /\ Some(A, d, "success")
OutputOK(s, a, A) ==
  Event(s, a, "start") \in A /\ ~ Ceased(A, s, a) /\ Event(s, a, "output") \notin A
EndOK(s, a, k, A) ==
  Event(s, a, "start") \in A /\ ~ Ceased(A, s, a) /\ (k = "retry" => a <= MaxRetries[s])
HookOK(s, a, A) ==
  s \in Hooked /\ Ceased(A, s, a) /\ Event(s, a, "hook") \notin A
SkipOK(s, A) ==
  /\ \A e \in A : e.step # s
  /\ \A d \in Deps[s] : Some(A, d, "success") \/ Some(A, d, "skipped")
  /\ \E d \in Deps[s] : ~ Some(A, d, "output")

(* A worker may say e, and the orchestrator may put e on the queue. *)
Spoken(e, A) ==
  /\ e.kind # "skipped" /\ <<e.step, e.att>> \in Workers
  /\ e.kind = "start" => StartOK(e.step, e.att, A)
  /\ e.kind = "output" => OutputOK(e.step, e.att, A)
  /\ e.kind \in AttemptEnds => EndOK(e.step, e.att, e.kind, A)
  /\ e.kind = "hook" => HookOK(e.step, e.att, A)
Allowed(e, A) ==
  IF e.kind = "skipped" THEN e.att = 0 /\ SkipOK(e.step, A) ELSE Spoken(e, A)

QueueAllowed == \A p \in DOMAIN queue : queue[p] \in Events => Allowed(queue[p], Ahead(p))

(* What the bookkeeping of a step says has been said, and the reverse. *)
MirrorStep(s, st, out, att, A) ==
  /\ st[s] = "success" => Some(A, s, "success")
  /\ st[s] = "failed" => Some(A, s, "failure")
  /\ st[s] = "skipped" => Some(A, s, "skipped")
  /\ s \in out <=> Some(A, s, "output")
  /\ st[s] \in {"pending", "abandoned"} => \A e \in A : e.step # s
  /\ st[s] = "abandoned" => \E d \in Deps[s] : st[d] \in {"failed", "abandoned"}
  /\ \A a \in 1 .. att[s] : Event(s, a, "retry") \in A
  /\ att[s] > 0 => st[s] \notin Unseen
  /\ s \notin SkipRule(st, out, {})
Mirror(st, out, att, A) == \A s \in Steps : MirrorStep(s, st, out, att, A)
Mirrored == Mirror(status, outputs, attempts, Given)

(* The event handed to the receiver: it waits for it, and may yield it. *)
Slotted ==
  \A e \in Handed :
    orch \in {"waiting", "drain_wait"} /\ Spoken(e, Given) /\ status[e.step] \notin Unseen

(* What a worker has said, read or not, and what its place tells of it. *)
Uttered(w, k) == Event(w[1], w[2], k) \in Given \cup InTransit
Silent(w) == \A k \in Kinds : ~ Uttered(w, k)
Word(w) ==
  /\ worker[w] \notin {"reraise", "raising", "raised", "cancelled"}
  /\ worker[w] \in {"none", "spawned"} => Silent(w)
  /\ worker[w] \in {"compute", "computed"} =>
       \A k \in Kinds : Uttered(w, k) <=> k \in {"start"} \cup (IF worker[w] = "computed" THEN {"output"} ELSE {})
  /\ worker[w] \in {"hooks", "exit", "done"} => \E k \in AttemptEnds : Uttered(w, k)
  /\ worker[w] = "hooks" => ~ Uttered(w, "hook")
  /\ worker[w] = "exit" \/ (worker[w] = "done" /\ w[1] \in Hooked) => Uttered(w, "hook")
  /\ worker[w] # "none" => status[w[1]] \notin Unseen
(* The blocked senders, each with the line it may say next. *)
Lines ==
  /\ \A i, j \in DOMAIN senders : Sender(i) = Sender(j) => i = j
  /\ \A i \in DOMAIN senders : /\ Spoken(senders[i], Given \cup Handed)
                               /\ status[senders[i].step] \notin Unseen
  /\ \A w \in Workers : Word(w)

(* The run is over only when every step is complete and all has been said. *)
Clear == ~ failed /\ ~ cancelled
Rested ==
  Clear =>
    /\ orch \in {"drain", "drain_wait", "closing", "ended"} => IsComplete(status)
    /\ orch \in {"closing", "ended"} => slot = << >> /\ senders = << >> /\ Live = {}
(* The queue ends with the error in front, or with the sentinel alone. *)
EndsLast ==
  orch = "ended" /\ consumer = "iterating" =>
    ErrorFirst \/ (Clear /\ \A p \in DOMAIN queue : p # Len(queue) => queue[p] \in Events)

Following ==
  /\ QueueAllowed /\ EndsLast
  /\ failed => orch \in {"closing", "ended"}
  /\ ~ failed => Mirrored /\ Slotted /\ Rested /\ (~ cancelled => Lines)

(* The fields of an event, and when it is one. *)
LEMMA EventIs ==
  ASSUME NEW s, NEW a, NEW k
  PROVE  /\ Event(s, a, k).step = s /\ Event(s, a, k).att = a /\ Event(s, a, k).kind = k
         /\ s \in Steps /\ a \in Nat /\ k \in Kinds => Event(s, a, k) \in Events
BY DEF Event, Events

(* An event is made of its step, its attempt and its kind. *)
LEMMA EventOf ==
  ASSUME NEW e \in Events
  PROVE  e.step \in Steps /\ e.att \in Nat /\ e.kind \in Kinds /\ e = Event(e.step, e.att, e.kind)
BY DEF Event, Events

(* Whether a worker may say an event depends on the event and on what was  *)
(* said before it, not on the state.                                       *)
LEMMA SpokenAlways ==
  ASSUME NEW e, NEW A
  PROVE  Spoken(e, A)' <=> Spoken(e, A)
BY DEF Spoken, StartOK, OutputOK, EndOK, HookOK, Ceased, Some

(* The same of what the orchestrator may put on the queue. *)
LEMMA AllowedAlways ==
  ASSUME NEW e, NEW A
  PROVE  Allowed(e, A)' <=> Allowed(e, A)
BY DEF Allowed, Spoken, SkipOK, StartOK, OutputOK, EndOK, HookOK, Ceased, Some

(* What others say does not take away a worker's right to speak. *)
LEMMA SpokenGrows ==
  ASSUME NEW e, NEW A, NEW B, A \subseteq B, Spoken(e, A),
         \A x \in B : x \in A \/ x.step # e.step \/ x.att # e.att
  PROVE  Spoken(e, B)
<1>1. \A k : Event(e.step, e.att, k) \in B <=> Event(e.step, e.att, k) \in A
  BY EventIs
<1>2. Ceased(B, e.step, e.att) <=> Ceased(A, e.step, e.att)
  BY <1>1 DEF Ceased
<1>3. \A d, k : Some(A, d, k) => Some(B, d, k)
  BY DEF Some
<1>4. ASSUME e.kind = "start" PROVE StartOK(e.step, e.att, B)
  <2>1. StartOK(e.step, e.att, A)
    BY <1>4 DEF Spoken
  <2> QED BY <2>1, <1>1, <1>3 DEF StartOK
<1>5. ASSUME e.kind = "output" PROVE OutputOK(e.step, e.att, B)
  BY <1>1, <1>2, <1>5 DEF Spoken, OutputOK
<1>6. ASSUME e.kind \in AttemptEnds PROVE EndOK(e.step, e.att, e.kind, B)
  BY <1>1, <1>2, <1>6 DEF Spoken, EndOK
<1>7. ASSUME e.kind = "hook" PROVE HookOK(e.step, e.att, B)
  BY <1>1, <1>2, <1>7 DEF Spoken, HookOK
<1> QED BY <1>4, <1>5, <1>6, <1>7 DEF Spoken

------------------------------------------------------------------------------
(* What the consumer has read and the queue holds decide what is ahead. *)
LEMMA AheadSame ==
  ASSUME log' = log, queue' = queue
  PROVE  Given' = Given /\ \A p : Ahead(p)' = Ahead(p)
BY DEF Given, Ahead, Read

(* A step that leaves the queue and the log alone keeps every event        *)
(* allowed.                                                                *)
LEMMA QueueSame ==
  ASSUME QueueAllowed, log' = log, queue' = queue
  PROVE  QueueAllowed'
<1>1. \A p : Ahead(p)' = Ahead(p)
  BY AheadSame
<1>2. ASSUME NEW p \in DOMAIN queue', queue'[p] \in Events
      PROVE  Allowed(queue'[p], Ahead(p)')
  <2>1. Allowed(queue[p], Ahead(p))
    BY <1>2 DEF QueueAllowed
  <2> QED BY <1>1, <2>1
<1>3. \A e, A : Allowed(e, A)' <=> Allowed(e, A)
  BY AllowedAlways
<1> QED BY <1>2, <1>3 DEF QueueAllowed

(* Events that are allowed one after the other may be put at the end of    *)
(* the queue: what was there stays allowed, and they have been said.       *)
LEMMA QueueGrows ==
  ASSUME TypeOK, QueueAllowed, log' = log, NEW t \in Seq(Events), queue' = queue \o t,
         \A i \in 1 .. Len(t) : Allowed(t[i], Given \cup {t[j] : j \in 1 .. i - 1})
  PROVE  /\ QueueAllowed'
         /\ Given' = Given \cup {t[j] : j \in 1 .. Len(t)}
<1>1. queue \in Seq(Events \cup EndItems) /\ Len(queue) \in Nat /\ Len(t) \in Nat
  BY DEF TypeOK
<1> PICK n \in Nat : n = Len(queue)
  BY <1>1
<1>2. /\ Len(queue') = n + Len(t)
      /\ \A p \in 1 .. n : queue'[p] = queue[p]
      /\ \A i \in 1 .. Len(t) : queue'[n + i] = t[i]
      /\ DOMAIN queue' = 1 .. n + Len(t) /\ DOMAIN queue = 1 .. n
      /\ \A i \in 1 .. Len(t) : t[i] \in Events
  BY <1>1
<1>3. ASSUME NEW p \in 1 .. n + 1 PROVE Ahead(p)' = Ahead(p)
  <2>1. \A q \in 1 .. p - 1 : queue'[q] = queue[q]
    BY <1>1, <1>2
  <2> QED BY <2>1 DEF Ahead, Read
<1>4. ASSUME NEW i \in 1 .. Len(t) + 1
      PROVE  \A p : p = n + i => Ahead(p)' = Given \cup {t[j] : j \in 1 .. i - 1}
  <2>1. n + i \in Nat /\ i \in Nat /\ n + i - 1 = n + (i - 1)
    BY <1>1
  <2>2. ASSUME NEW e \in Events
        PROVE  (\E q \in 1 .. n + i - 1 : queue'[q] = e)
                 <=> (\E q \in 1 .. n : queue[q] = e) \/ \E j \in 1 .. i - 1 : t[j] = e
    <3>1. ASSUME NEW q \in 1 .. n + i - 1, queue'[q] = e
          PROVE  (\E r \in 1 .. n : queue[r] = e) \/ \E j \in 1 .. i - 1 : t[j] = e
      <4>1. CASE q <= n
        BY <1>1, <1>2, <3>1, <4>1
      <4>2. CASE q > n
        <5>1. q - n \in 1 .. Len(t) /\ q - n \in 1 .. i - 1 /\ n + (q - n) = q
          BY <1>1, <4>2
        <5>2. t[q - n] = e
          BY <1>2, <3>1, <5>1
        <5> QED BY <5>1, <5>2
      <4> QED BY <1>1, <4>1, <4>2
    <3>2. ASSUME NEW r \in 1 .. n, queue[r] = e PROVE \E q \in 1 .. n + i - 1 : queue'[q] = e
      <4>1. r \in 1 .. n + i - 1 /\ queue'[r] = e
        BY <1>1, <1>2, <3>2
      <4> QED BY <4>1
    <3>3. ASSUME NEW j \in 1 .. i - 1, t[j] = e PROVE \E q \in 1 .. n + i - 1 : queue'[q] = e
      <4>1. n + j \in 1 .. n + i - 1 /\ j \in 1 .. Len(t)
        BY <1>1
      <4>2. queue'[n + j] = e
        BY <1>2, <3>3, <4>1
      <4> QED BY <4>1, <4>2
    <3> QED BY <3>1, <3>2, <3>3
  <2>3. \A j \in 1 .. i - 1 : t[j] \in Events
    BY <1>1, <1>2
  <2>4. \A e \in Events : e \in Given <=> Read(e) \/ \E q \in 1 .. n : queue[q] = e
    BY <1>1 DEF Given, Ahead
  <2>5. \A e \in Events : Read(e)' <=> Read(e)
    BY DEF Read
  <2>6. \A e \in Given : e \in Events
    BY DEF Given, Ahead
  <2>7. ASSUME NEW p, p = n + i, NEW e
        PROVE  e \in Ahead(p)' <=> e \in Given \cup {t[j] : j \in 1 .. i - 1}
    <3>1. p - 1 = n + i - 1
      BY <2>7
    <3>2. e \in Ahead(p)' <=> e \in Events /\ (Read(e)' \/ \E q \in 1 .. p - 1 : queue'[q] = e)
      BY DEF Ahead
    <3>3. e \in Given => e \in Events
      BY <2>6
    <3>4. (\E j \in 1 .. i - 1 : t[j] = e) => e \in Events
      BY <2>3
    <3>5. ASSUME e \in Events
          PROVE  e \in Ahead(p)' <=> e \in Given \/ \E j \in 1 .. i - 1 : t[j] = e
      <4>1. (\E q \in 1 .. p - 1 : queue'[q] = e)
              <=> (\E q \in 1 .. n : queue[q] = e) \/ \E j \in 1 .. i - 1 : t[j] = e
        BY <2>2, <3>1, <3>5
      <4>2. e \in Given <=> Read(e) \/ \E q \in 1 .. n : queue[q] = e
        BY <2>4, <3>5
      <4>3. Read(e)' <=> Read(e)
        BY <2>5, <3>5
      <4> QED BY <3>2, <3>5, <4>1, <4>2, <4>3, Zenon
    <3>6. e \in {t[j] : j \in 1 .. i - 1} <=> \E j \in 1 .. i - 1 : t[j] = e
      OBVIOUS
    <3>7. e \in Ahead(p)' => e \in Events
      BY <3>2
    <3> QED BY <3>3, <3>4, <3>5, <3>6, <3>7
  <2> QED BY <2>7
<1>5. Given' = Given \cup {t[j] : j \in 1 .. Len(t)}
  <2>1. \A p : p = n + (Len(t) + 1) => Given' = Ahead(p)'
    BY <1>1, <1>2 DEF Given
  <2>2. Len(t) + 1 \in 1 .. Len(t) + 1 /\ (Len(t) + 1) - 1 = Len(t)
    BY <1>1
  <2> QED BY <1>4, <2>1, <2>2
<1>6. ASSUME NEW p \in DOMAIN queue', queue'[p] \in Events PROVE Allowed(queue'[p], Ahead(p)')
  <2>1. CASE p <= n
    <3>1. p \in DOMAIN queue /\ p \in 1 .. n + 1 /\ queue'[p] = queue[p]
      BY <1>1, <1>2, <2>1
    <3>2. Allowed(queue[p], Ahead(p))
      BY <1>6, <3>1 DEF QueueAllowed
    <3> QED BY <1>3, <3>1, <3>2
  <2>2. CASE p > n
    <3>1. p - n \in 1 .. Len(t) /\ p - n \in 1 .. Len(t) + 1 /\ n + (p - n) = p
      BY <1>1, <1>2, <2>2
    <3>2. queue'[p] = t[p - n] /\ Ahead(p)' = Given \cup {t[j] : j \in 1 .. (p - n) - 1}
      BY <1>2, <1>4, <3>1
    <3> QED BY <3>1, <3>2
  <2> QED BY <1>1, <1>2, <2>1, <2>2
<1>7. QueueAllowed'
  <2>1. \A e, A : Allowed(e, A)' <=> Allowed(e, A)
    BY AllowedAlways
  <2> QED BY <1>6, <2>1 DEF QueueAllowed
<1> QED BY <1>5, <1>7

------------------------------------------------------------------------------
(* The set of skipped steps is a fixed point of the rule, and empty when   *)
(* the rule starts with nothing.                                           *)
LEMMA SkipFixed ==
  ASSUME NEW st, NEW out
  PROVE  /\ SkipRule(st, out, SkipSet(st, out)) = SkipSet(st, out)
         /\ SkipRule(st, out, {}) = {} => SkipSet(st, out) = {}
<1> DEFINE P == StepsIn(st, {"pending"})
           X == SkipSet(st, out)
<1>1. X \subseteq P /\ \A C \in SUBSET P : SkipRule(st, out, C) \subseteq C => X \subseteq C
  BY DEF SkipSet
<1>2. \A C, D : C \subseteq D => SkipRule(st, out, C) \subseteq SkipRule(st, out, D)
  BY DEF SkipRule
<1>3. \A C : SkipRule(st, out, C) \subseteq P
  BY DEF SkipRule
<1>4. SkipRule(st, out, X) \subseteq X
  <2> SUFFICES ASSUME NEW s \in SkipRule(st, out, X) PROVE s \in X
    OBVIOUS
  <2>1. s \in P
    BY <1>3
  <2>2. ASSUME NEW C \in SUBSET P, SkipRule(st, out, C) \subseteq C PROVE s \in C
    BY <1>1, <1>2, <2>2
  <2> QED BY <2>1, <2>2 DEF SkipSet
<1>5. X \subseteq SkipRule(st, out, X)
  BY <1>1, <1>2, <1>3, <1>4
<1>6. SkipRule(st, out, {}) = {} => X = {}
  BY <1>1
<1> QED BY <1>4, <1>5, <1>6

(* The set of abandoned steps is a fixed point of its rule. *)
LEMMA AbandonFixed ==
  ASSUME NEW st
  PROVE  AbandonRule(st, AbandonSet(st)) = AbandonSet(st)
<1> DEFINE P == StepsIn(st, {"pending"})
           X == AbandonSet(st)
<1>1. X \subseteq P /\ \A C \in SUBSET P : AbandonRule(st, C) \subseteq C => X \subseteq C
  BY DEF AbandonSet
<1>2. \A C, D : C \subseteq D => AbandonRule(st, C) \subseteq AbandonRule(st, D)
  BY DEF AbandonRule
<1>3. \A C : AbandonRule(st, C) \subseteq P
  BY DEF AbandonRule
<1>4. AbandonRule(st, X) \subseteq X
  <2> SUFFICES ASSUME NEW s \in AbandonRule(st, X) PROVE s \in X
    OBVIOUS
  <2>1. s \in P
    BY <1>3
  <2>2. ASSUME NEW C \in SUBSET P, AbandonRule(st, C) \subseteq C PROVE s \in C
    BY <1>1, <1>2, <2>2
  <2> QED BY <2>1, <2>2 DEF AbandonSet
<1>5. X \subseteq AbandonRule(st, X)
  BY <1>1, <1>2, <1>3, <1>4
<1> QED BY <1>4, <1>5

(* What settling the plan does: a step is skipped because its upstream     *)
(* succeeded or was skipped and one output is missing, abandoned because   *)
(* something upstream failed or was abandoned, and no step is left to      *)
(* skip.                                                                   *)
LEMMA SettleIs ==
  ASSUME NEW st \in [Steps -> Status], NEW out, NEW rp
  PROVE  LET now == Settle(st, out, rp)
         IN  /\ now \in [Steps -> Status]
             /\ \A s \in Steps :
                  /\ now[s] = "skipped" /\ st[s] # "skipped" =>
                       /\ s \in SkipSet(st, out) /\ st[s] = "pending"
                       /\ ~ Deps[s] \subseteq out
                       /\ \A d \in Deps[s] : \/ st[d] \in {"success", "skipped"}
                                             \/ now[d] = "skipped" /\ st[d] # "skipped"
                  /\ now[s] = "abandoned" /\ st[s] # "abandoned" =>
                       \E d \in Deps[s] : now[d] \in {"failed", "abandoned"}
                  /\ s \in SkipSet(st, out) => now[s] = "skipped"
             /\ SkipRule(now, out, {}) = {}
<1> PICK X : X = SkipSet(st, out)
  OBVIOUS
<1> PICK first : first = Mark(st, X, "skipped")
  OBVIOUS
<1> PICK Y : Y = AbandonSet(first)
  OBVIOUS
<1> PICK second : second = Mark(first, Y, "abandoned")
  OBVIOUS
<1> PICK R : R = ReadySet(second, out, rp)
  OBVIOUS
<1> PICK now : now = Settle(st, out, rp)
  OBVIOUS
<1>1. now = Mark(second, R, "executable")
  BY DEF Settle
<1>2. /\ X = SkipRule(st, out, X) /\ Y = AbandonRule(first, Y)
  BY SkipFixed, AbandonFixed
<1>3. /\ X \subseteq Steps /\ \A s \in X : st[s] = "pending"
      /\ \A s \in Steps : s \in Y => first[s] = "pending"
      /\ \A s \in Steps : s \in R => second[s] \in {"pending", "waiting"}
  BY DEF SkipSet, AbandonSet, ReadySet, StepsIn
<1>4. \A s \in Steps : /\ first[s] = IF s \in X THEN "skipped" ELSE st[s]
                       /\ second[s] = IF s \in Y THEN "abandoned" ELSE first[s]
                       /\ now[s] = IF s \in R THEN "executable" ELSE second[s]
  BY <1>1 DEF Mark
<1>5. now \in [Steps -> Status]
  BY SettleType
<1>6. \A s \in Steps : Deps[s] \subseteq Steps
  BY PlanAssumption
<1>7. \A s \in Steps : /\ s \in X => now[s] = "skipped"
                       /\ s \in Y => now[s] = "abandoned"
                       /\ now[s] = "skipped" => s \in X \/ st[s] = "skipped"
                       /\ now[s] = "abandoned" => s \in Y \/ st[s] = "abandoned"
                       /\ now[s] = "success" => st[s] = "success"
                       /\ now[s] = "pending" => st[s] = "pending" /\ s \notin X
                       /\ first[s] = "failed" => now[s] = "failed"
                       /\ first[s] = "abandoned" => now[s] = "abandoned"
  BY <1>3, <1>4
<1>8. ASSUME NEW s \in X
      PROVE  /\ ~ Deps[s] \subseteq out
             /\ \A d \in Deps[s] : st[d] \in {"success", "skipped"} \/ d \in X
  BY <1>2 DEF SkipRule, StepsIn
<1>9. ASSUME NEW s \in Steps, s \in Y PROVE \E d \in Deps[s] : now[d] \in {"failed", "abandoned"}
  <2>1. PICK d \in Deps[s] : first[d] \in {"failed", "abandoned"} \/ d \in Y
    BY <1>2, <1>9 DEF AbandonRule, StepsIn
  <2> QED BY <1>6, <1>7, <2>1
<1>10. ASSUME NEW s \in Steps, s \in SkipRule(now, out, {}) PROVE FALSE
  <2>1. /\ now[s] = "pending" /\ ~ Deps[s] \subseteq out
        /\ \A d \in Deps[s] : now[d] \in {"success", "skipped"}
    BY <1>10 DEF SkipRule, StepsIn
  <2>2. \A d \in Deps[s] : st[d] \in {"success", "skipped"} \/ d \in X
    BY <1>6, <1>7, <2>1
  <2>3. s \in SkipRule(st, out, X)
    BY <1>6, <1>7, <2>1, <2>2 DEF SkipRule, StepsIn
  <2> QED BY <1>2, <1>7, <2>1, <2>3
<1>11. SkipRule(now, out, {}) = {}
  BY <1>10 DEF SkipRule, StepsIn
<1>12. ASSUME NEW s \in Steps, now[s] = "skipped", st[s] # "skipped"
       PROVE  /\ s \in X /\ st[s] = "pending" /\ ~ Deps[s] \subseteq out
              /\ \A d \in Deps[s] : \/ st[d] \in {"success", "skipped"}
                                    \/ now[d] = "skipped" /\ st[d] # "skipped"
  BY <1>3, <1>6, <1>7, <1>8, <1>12
<1> QED BY <1>5, <1>7, <1>9, <1>11, <1>12

------------------------------------------------------------------------------
(* Vending a batch skips nothing, and the bookkeeping goes on mirroring    *)
(* what has been said.                                                     *)
LEMMA MirrorScheduled ==
  ASSUME TypeOK, Counted, NEW A, Mirror(status, outputs, attempts, A),
         NEW batch \in SUBSET Steps, NEW refused, Schedule(batch, refused)
  PROVE  Mirror(status', outputs, attempts, A)
<1> PICK now : now = Settle(status, outputs, ripe)
  OBVIOUS
<1>1. status \in [Steps -> Status] /\ attempts \in [Steps -> Nat]
  BY DEF TypeOK
<1>2. /\ batch \subseteq StepsIn(now, {"executable"})
      /\ status' = Mark(now, batch, "in_flight")
  BY DEF Schedule, IsBatch
<1>3. now \in [Steps -> Status] /\ SkipRule(now, outputs, {}) = {}
  BY <1>1, SettleIs
<1>4. SkipRule(status, outputs, {}) = {}
  <2>1. \A s \in Steps : s \notin SkipRule(status, outputs, {})
    BY DEF Mirror, MirrorStep
  <2> QED BY <2>1 DEF SkipRule, StepsIn
<1>5. SkipSet(status, outputs) = {}
  BY <1>4, SkipFixed
<1>6. \A s \in Steps :
        /\ now[s] = "skipped" => status[s] = "skipped"
        /\ now[s] = "abandoned" /\ status[s] # "abandoned" =>
             \E d \in Deps[s] : now[d] \in {"failed", "abandoned"}
  BY <1>1, <1>5, SettleIs
<1>7. \A s \in Steps :
        /\ status[s] \notin {"pending", "waiting"} => now[s] = status[s]
        /\ status[s] = "waiting" => now[s] \in {"waiting", "executable"}
        /\ status[s] = "pending" => now[s] \in {"pending", "skipped", "abandoned", "executable"}
  BY <1>1, SettleSteps
<1>8. \A s \in Steps : /\ s \in batch => now[s] = "executable" /\ status'[s] = "in_flight"
                       /\ s \notin batch => status'[s] = now[s]
  BY <1>2 DEF Mark, StepsIn
<1>9. \A s \in Steps : Deps[s] \subseteq Steps
  BY PlanAssumption
<1> SUFFICES ASSUME NEW s \in Steps PROVE MirrorStep(s, status', outputs, attempts, A)
  BY DEF Mirror
<1>10. MirrorStep(s, status, outputs, attempts, A)
  BY DEF Mirror
<1>11. /\ status'[s] = "success" => status[s] = "success"
       /\ status'[s] = "failed" => status[s] = "failed"
       /\ status'[s] = "skipped" => status[s] = "skipped"
       /\ status'[s] \in {"pending", "abandoned"} => status[s] \in {"pending", "abandoned"}
       /\ status[s] \notin Unseen => status'[s] \notin Unseen
  BY <1>1, <1>6, <1>7, <1>8 DEF Unseen, Status
<1>12. ASSUME status'[s] = "abandoned"
       PROVE  \E d \in Deps[s] : status'[d] \in {"failed", "abandoned"}
  <2>1. now[s] = "abandoned"
    BY <1>8, <1>12
  <2>2. PICK d \in Deps[s] : now[d] \in {"failed", "abandoned"}
    <3>1. CASE status[s] = "abandoned"
      <4>1. PICK d \in Deps[s] : status[d] \in {"failed", "abandoned"}
        BY <1>10, <3>1 DEF MirrorStep
      <4> QED BY <1>7, <1>9, <4>1
    <3> QED BY <1>6, <2>1, <3>1
  <2> QED BY <1>8, <1>9, <2>2
<1>13. s \notin SkipRule(status', outputs, {})
  <2> SUFFICES ASSUME s \in SkipRule(status', outputs, {}) PROVE FALSE
    OBVIOUS
  <2>1. /\ status'[s] = "pending" /\ ~ Deps[s] \subseteq outputs
        /\ \A d \in Deps[s] : status'[d] \in {"success", "skipped"}
    BY DEF SkipRule, StepsIn
  <2>2. now[s] = "pending" /\ \A d \in Deps[s] : now[d] \in {"success", "skipped"}
    BY <1>8, <1>9, <2>1
  <2>3. s \in SkipRule(now, outputs, {})
    BY <1>9, <2>1, <2>2 DEF SkipRule, StepsIn
  <2> QED BY <1>3, <2>3
<1> QED BY <1>10, <1>11, <1>12, <1>13 DEF MirrorStep

(* What handling an event does to the bookkeeping.                          *)
LEMMA HandledIs ==
  ASSUME NEW st \in [Steps -> Status], NEW e \in Events, ~ HandleRaises(st, e)
  PROVE  LET after == HandleStatus(st, e, Delayed)
         IN  /\ after \in [Steps -> Status]
             /\ \A s \in Steps : s # e.step \/ e.kind \notin AttemptEnds => after[s] = st[s]
             /\ e.kind \in AttemptEnds => st[e.step] = "in_flight"
             /\ e.kind = "success" => after[e.step] = "success"
             /\ e.kind = "failure" => after[e.step] = "failed"
             /\ e.kind = "retry" => after[e.step] \in {"waiting", "executable"}
<1>1. e.step \in Steps
  BY EventOf
<1>2. HandleStatus(st, e, Delayed) \in [Steps -> Status]
  BY HandleStatusType
<1>3. e.kind \in AttemptEnds => st[e.step] = "in_flight"
  BY DEF HandleRaises
<1>4. CASE e.kind = "success"
  BY <1>1, <1>2, <1>3, <1>4 DEF HandleStatus, Mark, AttemptEnds
<1>5. CASE e.kind = "failure"
  BY <1>1, <1>2, <1>3, <1>5 DEF HandleStatus, Mark, AttemptEnds
<1>6. CASE e.kind = "retry"
  BY <1>1, <1>2, <1>3, <1>6 DEF HandleStatus, Mark, AttemptEnds
<1>7. CASE e.kind \notin AttemptEnds
  <2>1. HandleStatus(st, e, Delayed) = st
    BY <1>7 DEF HandleStatus, AttemptEnds
  <2> QED BY <1>2, <1>7, <2>1 DEF AttemptEnds
<1> QED BY <1>4, <1>5, <1>6, <1>7 DEF AttemptEnds

------------------------------------------------------------------------------
(* The newly skipped steps and the events that tell so. *)
Newly(before, after) == {s \in Steps : before[s] # "skipped" /\ after[s] = "skipped"}
SkipsOf(S) == {Event(s, 0, "skipped") : s \in S}

(* The skips that follow an event: one for each newly skipped step, and    *)
(* each after those of its upstream.                                       *)
LEMMA SkipsAre ==
  ASSUME NEW before, NEW after, NEW q \in SkipEvents(before, after)
  PROVE  /\ q \in Seq(Events)
         /\ \A i \in 1 .. Len(q) :
              /\ q[i].step \in Newly(before, after) /\ q[i] = Event(q[i].step, 0, "skipped")
              /\ \A j \in 1 .. Len(q) : /\ q[j].step \in Deps[q[i].step] => j < i
                                        /\ q[j].step = q[i].step => j = i
         /\ \A s \in Newly(before, after) : \E k \in 1 .. Len(q) : q[k] = Event(s, 0, "skipped")
<1> PICK S : S = Newly(before, after)
  OBVIOUS
<1>1. IsFiniteSet(S)
  BY FS_Subset, PlanAssumption DEF Newly
<1>2. Cardinality(S) \in Nat
  BY <1>1, FS_CardinalityType
<1> PICK n \in Nat : n = Cardinality(S)
  BY <1>2
<1>3. /\ q \in [1 .. n -> SkipsOf(S)]
      /\ \A s \in S : \A i, j \in DOMAIN q :
           /\ \E k \in DOMAIN q : q[k].step = s
           /\ q[j].step \in Deps[q[i].step] => j < i
  BY DEF SkipEvents, Newly, SkipsOf
<1>4. q \in Seq(Events)
  BY SkipEventsType
<1>5. Len(q) = n /\ DOMAIN q = 1 .. n
  BY <1>3, <1>4
<1>6. \A e \in SkipsOf(S) : e.step \in S /\ e = Event(e.step, 0, "skipped")
  BY EventIs DEF SkipsOf
<1>7. \A i \in 1 .. n : q[i].step \in S /\ q[i] = Event(q[i].step, 0, "skipped")
  BY <1>3, <1>6
<1>8. \A i, j \in 1 .. n : q[j].step \in Deps[q[i].step] => j < i
  BY <1>3, <1>5, <1>7
<1>9. ASSUME NEW s \in S PROVE \E k \in 1 .. n : q[k].step = s
  <2>1. n # 0
    BY <1>1, FS_EmptySet
  <2>2. 1 \in 1 .. n
    BY <2>1
  <2> QED BY <1>3, <1>5, <2>2
<1>10. \A i, j \in 1 .. n : q[j].step = q[i].step => j = i
  <2> DEFINE f == [i \in 1 .. n |-> q[i].step]
  <2>1. f \in Surjection(1 .. n, S)
    BY <1>7, <1>9 DEF Surjection
  <2>2. IsFiniteSet(1 .. n) /\ Cardinality(1 .. n) = n
    <3>1. 1 \in Int /\ n \in Int
      OBVIOUS
    <3> QED BY <3>1, FS_Interval
  <2>3. f \in Injection(1 .. n, S)
    BY <2>1, <2>2, FS_SurjSameCardinalityImpliesInj
  <2> QED BY <2>3 DEF Injection, IsInjective
<1> QED BY <1>4, <1>5, <1>7, <1>8, <1>9, <1>10

(* Handling an event of a worker: the event and the skips that follow it   *)
(* are allowed, and the bookkeeping mirrors what has been said.            *)
LEMMA HandleTells ==
  ASSUME TypeOK, QueueAllowed, Mirrored, NEW e \in Events, NEW next, Handle(e, next),
         ~ HandleRaises(status, e), Spoken(e, Given), status[e.step] \notin Unseen,
         e.kind = "retry" => e.att = attempts[e.step] + 1, log' = log
  PROVE  /\ QueueAllowed' /\ Mirrored'
         /\ Given' = Given \cup {e} \cup SkipsOf(Newly(status, status'))
<1> PICK A : A = Given
  OBVIOUS
<1> PICK after : after = HandleStatus(status, e, Delayed)
  OBVIOUS
<1>1. status \in [Steps -> Status] /\ attempts \in [Steps -> Nat] /\ e.step \in Steps
      /\ e.kind \in Kinds /\ e.att \in Nat /\ queue \in Seq(Events \cup EndItems)
  BY EventOf DEF TypeOK
<1>2. /\ outputs' = IF e.kind = "output" THEN outputs \cup {e.step} ELSE outputs
      /\ attempts' = IF e.kind = "retry"
                     THEN [attempts EXCEPT ![e.step] = @ + 1] ELSE attempts
      /\ status' = Settle(after, outputs', ripe)
  BY DEF Handle
<1>3. PICK q \in SkipEvents(status, status') : queue' = Append(queue, e) \o q
  BY DEF Handle
<1>4. /\ after \in [Steps -> Status]
      /\ \A s \in Steps : s # e.step \/ e.kind \notin AttemptEnds => after[s] = status[s]
      /\ e.kind \in AttemptEnds => status[e.step] = "in_flight"
      /\ e.kind = "success" => after[e.step] = "success"
      /\ e.kind = "failure" => after[e.step] = "failed"
      /\ e.kind = "retry" => after[e.step] \in {"waiting", "executable"}
  BY <1>1, HandledIs
<1>5. /\ status' \in [Steps -> Status]
      /\ \A s \in Steps :
           /\ status'[s] = "skipped" /\ after[s] # "skipped" =>
                /\ after[s] = "pending" /\ ~ Deps[s] \subseteq outputs'
                /\ \A d \in Deps[s] : \/ after[d] \in {"success", "skipped"}
                                      \/ status'[d] = "skipped" /\ after[d] # "skipped"
           /\ status'[s] = "abandoned" /\ after[s] # "abandoned" =>
                \E d \in Deps[s] : status'[d] \in {"failed", "abandoned"}
      /\ SkipRule(status', outputs', {}) = {}
  <2> PICK now, out : now = status' /\ out = outputs'
    OBVIOUS
  <2>1. now = Settle(after, out, ripe)
    BY <1>2
  <2>2. /\ now \in [Steps -> Status]
        /\ \A s \in Steps :
             /\ now[s] = "skipped" /\ after[s] # "skipped" =>
                  /\ after[s] = "pending" /\ ~ Deps[s] \subseteq out
                  /\ \A d \in Deps[s] : \/ after[d] \in {"success", "skipped"}
                                        \/ now[d] = "skipped" /\ after[d] # "skipped"
             /\ now[s] = "abandoned" /\ after[s] # "abandoned" =>
                  \E d \in Deps[s] : now[d] \in {"failed", "abandoned"}
        /\ SkipRule(now, out, {}) = {}
    BY <1>4, <2>1, SettleIs
  <2>3. SkipRule(now, out, {}) = SkipRule(status', outputs', {})
    BY DEF SkipRule, StepsIn
  <2> QED BY <2>2, <2>3
<1>6. \A s \in Steps :
        /\ after[s] \notin {"pending", "waiting"} => status'[s] = after[s]
        /\ after[s] = "waiting" => status'[s] \in {"waiting", "executable"}
        /\ after[s] = "pending" => status'[s] \in {"pending", "skipped", "abandoned", "executable"}
  BY <1>2, <1>4, SettleSteps
<1>7. \A s \in Steps : Deps[s] \subseteq Steps
  BY PlanAssumption
<1>8. \A s \in Steps : MirrorStep(s, status, outputs, attempts, A)
  BY DEF Mirrored, Mirror
<1>9. \A s \in Steps : /\ after[s] = "skipped" <=> status[s] = "skipped"
                       /\ after[s] = "pending" <=> status[s] = "pending"
                       /\ after[s] = "abandoned" <=> status[s] = "abandoned"
                       /\ after[s] = "success" =>
                            status[s] = "success" \/ (s = e.step /\ e.kind = "success")
                       /\ after[s] = "failed" =>
                            status[s] = "failed" \/ (s = e.step /\ e.kind = "failure")
                       /\ status[s] = "failed" => after[s] = "failed"
  BY <1>1, <1>4 DEF AttemptEnds
<1> PICK S : S = Newly(status, status')
  OBVIOUS
<1>10. \A s \in S : /\ s \in Steps /\ status[s] = "pending" /\ status'[s] = "skipped"
                    /\ s # e.step
                    /\ ~ Deps[s] \subseteq outputs'
                    /\ \A d \in Deps[s] : after[d] \in {"success", "skipped"} \/ d \in S
  BY <1>5, <1>7, <1>9 DEF Newly, Unseen
<1>11. /\ q \in Seq(Events)
       /\ \A i \in 1 .. Len(q) :
            /\ q[i].step \in S /\ q[i] = Event(q[i].step, 0, "skipped")
            /\ \A j \in 1 .. Len(q) : /\ q[j].step \in Deps[q[i].step] => j < i
                                      /\ q[j].step = q[i].step => j = i
       /\ \A s \in S : \E k \in 1 .. Len(q) : q[k] = Event(s, 0, "skipped")
  BY <1>3, SkipsAre
<1> PICK t : t = <<e>> \o q
  OBVIOUS
<1>12. /\ t \in Seq(Events) /\ queue' = queue \o t /\ Len(q) \in Nat /\ Len(t) = Len(q) + 1
       /\ t[1] = e /\ \A i \in 1 .. Len(q) : t[i + 1] = q[i]
  <2>1. t \in Seq(Events) /\ Len(q) \in Nat /\ Len(t) = Len(q) + 1
        /\ t[1] = e /\ \A i \in 1 .. Len(q) : t[i + 1] = q[i]
    BY <1>11
  <2>2. Append(queue, e) \o q = queue \o t
    BY <1>1, <1>11
  <2> QED BY <1>3, <2>1, <2>2
<1>13. e.kind # "skipped" /\ Spoken(e, A)
  BY DEF Spoken
<1>14. \A d \in Steps, k \in Kinds : \A B : Some(A \cup B, d, k) <=> Some(A, d, k) \/ Some(B, d, k)
  BY DEF Some
<1>15. ASSUME NEW i \in 1 .. Len(q)
       PROVE  Allowed(q[i], A \cup ({e} \cup {q[j] : j \in 1 .. i - 1}))
  <2> PICK s : s = q[i].step
    OBVIOUS
  <2> PICK B : B = {e} \cup {q[j] : j \in 1 .. i - 1}
    OBVIOUS
  <2>1. s \in S /\ q[i] = Event(s, 0, "skipped") /\ q[i].kind = "skipped" /\ q[i].att = 0
    BY <1>11, EventIs
  <2>2. /\ e \in B
        /\ \A j \in 1 .. i - 1 : j \in 1 .. Len(q) /\ q[j] \in B
        /\ \A x \in B : x = e \/ \E j \in 1 .. i - 1 : x = q[j]
    BY <1>12
  <2>3. \A x \in A \cup B : x.step # s
    <3>1. \A x \in A : x.step # s
      BY <1>8, <1>10, <2>1 DEF MirrorStep
    <3>2. \A j \in 1 .. i - 1 : q[j].step # s
      BY <1>11, <1>12, <2>2
    <3> QED BY <1>10, <2>1, <2>2, <3>1, <3>2
  <2>4. ASSUME NEW d \in Deps[s] PROVE Some(A \cup B, d, "success") \/ Some(A \cup B, d, "skipped")
    <3>1. d \in Steps
      BY <1>7, <1>10, <2>1
    <3>2. CASE after[d] = "success"
      <4>1. CASE status[d] = "success"
        BY <1>8, <3>1, <4>1 DEF MirrorStep, Some
      <4>2. CASE d = e.step /\ e.kind = "success"
        BY <2>2, <4>2 DEF Some
      <4> QED BY <1>9, <3>1, <3>2, <4>1, <4>2
    <3>3. CASE after[d] = "skipped"
      BY <1>8, <1>9, <3>1, <3>3 DEF MirrorStep, Some
    <3>4. CASE d \in S
      <4>1. PICK k \in 1 .. Len(q) : q[k] = Event(d, 0, "skipped")
        BY <1>11, <3>4
      <4>2. q[k].step = d /\ q[k].kind = "skipped"
        BY <4>1, EventIs
      <4>3. k < i
        BY <1>11, <2>1, <4>1, <4>2
      <4>4. k \in 1 .. i - 1
        BY <1>12, <4>3
      <4> QED BY <2>2, <4>2, <4>4 DEF Some
    <3> QED BY <1>10, <2>1, <3>2, <3>3, <3>4
  <2>5. PICK d \in Deps[s] : d \notin outputs'
    BY <1>10, <2>1
  <2>6. ~ Some(A \cup B, d, "output")
    <3>1. d \in Steps /\ d \notin outputs /\ ~ (d = e.step /\ e.kind = "output")
      BY <1>2, <1>7, <1>10, <2>1, <2>5
    <3>2. ~ Some(A, d, "output")
      BY <1>8, <3>1 DEF MirrorStep
    <3>3. \A j \in 1 .. i - 1 : q[j].kind = "skipped"
      BY <1>11, <2>2, EventIs
    <3> QED BY <2>2, <3>1, <3>2, <3>3 DEF Some
  <2>7. SkipOK(s, A \cup B)
    BY <2>3, <2>4, <2>5, <2>6 DEF SkipOK
  <2> QED BY <2>1, <2>7 DEF Allowed
<1>16. ASSUME NEW i \in 1 .. Len(t)
       PROVE  Allowed(t[i], A \cup {t[j] : j \in 1 .. i - 1})
  <2>1. CASE i = 1
    <3>1. {t[j] : j \in 1 .. i - 1} = {}
      BY <2>1
    <3>2. A \cup {t[j] : j \in 1 .. i - 1} = A
      BY <3>1
    <3> QED BY <1>12, <1>13, <2>1, <3>2 DEF Allowed
  <2>2. CASE i # 1
    <3>1. PICK k \in 1 .. Len(q) : i = k + 1 /\ t[i] = q[k]
      <4>1. i - 1 \in 1 .. Len(q) /\ i = (i - 1) + 1
        BY <1>12, <2>2
      <4> QED BY <1>12, <4>1
    <3>2. {t[j] : j \in 1 .. i - 1} = {e} \cup {q[j] : j \in 1 .. k - 1}
      <4>1. \A j \in 1 .. k - 1 : j + 1 \in 1 .. i - 1 /\ t[j + 1] = q[j]
        BY <1>12, <3>1
      <4>2. 1 \in 1 .. i - 1
        BY <1>12, <3>1
      <4>3. \A j \in 1 .. i - 1 : j = 1 \/ (j - 1 \in 1 .. k - 1 /\ t[j] = q[j - 1])
        <5> SUFFICES ASSUME NEW j \in 1 .. i - 1, j # 1
                     PROVE  j - 1 \in 1 .. k - 1 /\ t[j] = q[j - 1]
          OBVIOUS
        <5>1. j - 1 \in 1 .. k - 1 /\ j - 1 \in 1 .. Len(q) /\ (j - 1) + 1 = j
          BY <1>12, <3>1
        <5> QED BY <1>12, <5>1
      <4>4. \A j \in 1 .. i - 1 : t[j] = e \/ \E m \in 1 .. k - 1 : t[j] = q[m]
        BY <1>12, <4>3
      <4>5. \A m \in 1 .. k - 1 : \E j \in 1 .. i - 1 : t[j] = q[m]
        BY <4>1
      <4>6. \E j \in 1 .. i - 1 : t[j] = e
        BY <1>12, <4>2
      <4>7. ASSUME NEW x
            PROVE  x \in {t[j] : j \in 1 .. i - 1} <=> x \in {e} \cup {q[j] : j \in 1 .. k - 1}
        <5>1. x \in {t[j] : j \in 1 .. i - 1} <=> \E j \in 1 .. i - 1 : x = t[j]
          BY Zenon
        <5>2. x \in {e} \cup {q[j] : j \in 1 .. k - 1} <=> x = e \/ \E m \in 1 .. k - 1 : x = q[m]
          BY Zenon
        <5> QED BY <4>4, <4>5, <4>6, <5>1, <5>2, Zenon
      <4> QED BY <4>7, Zenon
    <3> QED BY <1>15, <3>1, <3>2
  <2> QED BY <2>1, <2>2
<1>17. QueueAllowed' /\ Given' = A \cup {t[j] : j \in 1 .. Len(t)}
  BY <1>12, <1>16, QueueGrows
<1>18. {t[j] : j \in 1 .. Len(t)} = {e} \cup SkipsOf(S)
  <2>1. ASSUME NEW j \in 1 .. Len(t) PROVE t[j] \in {e} \cup SkipsOf(S)
    <3>1. CASE j # 1
      <4>1. j - 1 \in 1 .. Len(q) /\ (j - 1) + 1 = j
        BY <1>12, <3>1
      <4>2. t[j] = q[j - 1]
        BY <1>12, <4>1
      <4> QED BY <1>11, <4>1, <4>2 DEF SkipsOf
    <3> QED BY <1>12, <3>1
  <2>2. ASSUME NEW s \in S PROVE \E j \in 1 .. Len(t) : t[j] = Event(s, 0, "skipped")
    <3>1. PICK k \in 1 .. Len(q) : q[k] = Event(s, 0, "skipped")
      BY <1>11
    <3>2. k + 1 \in 1 .. Len(t) /\ t[k + 1] = q[k]
      BY <1>12
    <3> QED BY <3>1, <3>2
  <2>3. 1 \in 1 .. Len(t) /\ t[1] = e
    BY <1>12
  <2>4. ASSUME NEW x
        PROVE  x \in {t[j] : j \in 1 .. Len(t)} <=> x \in {e} \cup SkipsOf(S)
    <3>1. x \in {t[j] : j \in 1 .. Len(t)} <=> \E j \in 1 .. Len(t) : x = t[j]
      BY Zenon
    <3>2. x \in {e} \cup SkipsOf(S) <=> x = e \/ \E s \in S : x = Event(s, 0, "skipped")
      BY Zenon DEF SkipsOf
    <3>3. ASSUME x \in {t[j] : j \in 1 .. Len(t)} PROVE x \in {e} \cup SkipsOf(S)
      BY <2>1, <3>1, <3>3, Zenon
    <3>4. ASSUME x = e PROVE \E j \in 1 .. Len(t) : x = t[j]
      BY <2>3, <3>4, Zenon
    <3>5. ASSUME \E s \in S : x = Event(s, 0, "skipped")
          PROVE  \E j \in 1 .. Len(t) : x = t[j]
      BY <2>2, <3>5, Zenon
    <3> QED BY <3>1, <3>2, <3>3, <3>4, <3>5, Zenon
  <2> QED BY <2>4, Zenon
<1> PICK B : B = A \cup {e} \cup SkipsOf(S)
  OBVIOUS
<1>19. Given' = B
  BY <1>17, <1>18
<1>20. \A x \in SkipsOf(S) : x.kind = "skipped" /\ x.step \in S
  BY EventIs DEF SkipsOf
<1>21. ASSUME NEW s \in Steps PROVE MirrorStep(s, status', outputs', attempts', B)
  <2>0. MirrorStep(s, status, outputs, attempts, A)
    BY <1>8
  <2>1. \A k : Some(A, s, k) => Some(B, s, k)
    BY DEF Some
  <2>2. e \in B
    OBVIOUS
  <2>3. status'[s] = "success" => Some(B, s, "success")
    <3> SUFFICES ASSUME status'[s] = "success" PROVE Some(B, s, "success")
      OBVIOUS
    <3>1. after[s] = "success"
      BY <1>4, <1>6
    <3> QED BY <1>9, <2>0, <2>1, <2>2, <3>1 DEF MirrorStep, Some
  <2>4. status'[s] = "failed" => Some(B, s, "failure")
    <3> SUFFICES ASSUME status'[s] = "failed" PROVE Some(B, s, "failure")
      OBVIOUS
    <3>1. after[s] = "failed"
      BY <1>4, <1>6
    <3> QED BY <1>9, <2>0, <2>1, <2>2, <3>1 DEF MirrorStep, Some
  <2>5. status'[s] = "skipped" => Some(B, s, "skipped")
    <3> SUFFICES ASSUME status'[s] = "skipped" PROVE Some(B, s, "skipped")
      OBVIOUS
    <3>1. CASE status[s] = "skipped"
      BY <2>0, <2>1, <3>1 DEF MirrorStep
    <3>2. CASE status[s] # "skipped"
      <4>1. s \in S
        BY <3>2 DEF Newly
      <4>2. Event(s, 0, "skipped") \in B
        BY <4>1 DEF SkipsOf
      <4> QED BY <4>2, EventIs DEF Some
    <3> QED BY <3>1, <3>2
  <2>6. s \in outputs' <=> Some(B, s, "output")
    <3>1. Some(B, s, "output") <=> Some(A, s, "output") \/ (e.step = s /\ e.kind = "output")
      BY <1>20 DEF Some
    <3>2. s \in outputs <=> Some(A, s, "output")
      BY <2>0 DEF MirrorStep
    <3> QED BY <1>2, <3>1, <3>2
  <2>7. status'[s] \in {"pending", "abandoned"} =>
           status[s] \in {"pending", "abandoned"} /\ s \notin S /\ s # e.step
    BY <1>1, <1>4, <1>6, <1>9, <1>10 DEF Unseen
  <2>8. status'[s] \in {"pending", "abandoned"} => \A x \in B : x.step # s
    BY <1>20, <2>0, <2>7 DEF MirrorStep
  <2>9. status'[s] = "abandoned" => \E d \in Deps[s] : status'[d] \in {"failed", "abandoned"}
    <3> SUFFICES ASSUME status'[s] = "abandoned", status[s] = "abandoned"
                 PROVE  \E d \in Deps[s] : status'[d] \in {"failed", "abandoned"}
      BY <1>5, <1>9
    <3>1. PICK d \in Deps[s] : status[d] \in {"failed", "abandoned"}
      BY <2>0 DEF MirrorStep
    <3>2. d \in Steps /\ after[d] \in {"failed", "abandoned"}
      BY <1>7, <1>9, <3>1
    <3> QED BY <1>6, <3>2
  <2>10. \A a \in 1 .. attempts'[s] : Event(s, a, "retry") \in B
    <3> SUFFICES ASSUME NEW a \in 1 .. attempts'[s] PROVE Event(s, a, "retry") \in B
      OBVIOUS
    <3>1. attempts[s] \in Nat
      BY <1>1
    <3>2. CASE a \in 1 .. attempts[s]
      BY <2>0, <3>2 DEF MirrorStep
    <3>3. CASE a \notin 1 .. attempts[s]
      <4>1. e.kind = "retry" /\ s = e.step /\ a = attempts[s] + 1
        BY <1>1, <1>2, <3>1, <3>3
      <4>2. e = Event(s, a, "retry")
        BY <4>1, EventOf
      <4> QED BY <2>2, <4>2
    <3> QED BY <3>2, <3>3
  <2>11. attempts'[s] > 0 => status'[s] \notin Unseen
    <3>1. attempts'[s] > 0 => attempts[s] > 0 \/ s = e.step
      BY <1>1, <1>2
    <3>2. attempts[s] > 0 => status[s] \notin Unseen
      BY <2>0 DEF MirrorStep
    <3>3. status[s] \notin Unseen => status'[s] \notin Unseen
      BY HandleIs
    <3> QED BY <3>1, <3>2, <3>3
  <2>12. s \notin SkipRule(status', outputs', {})
    BY <1>5
  <2> QED BY <2>3, <2>4, <2>5, <2>6, <2>8, <2>9, <2>10, <2>11, <2>12 DEF MirrorStep
<1>22. Mirrored'
  <2>1. Mirror(status', outputs', attempts', B)
    BY <1>21 DEF Mirror
  <2>2. Mirrored' <=> Mirror(status', outputs', attempts', Given')
    BY DEF Mirrored, Mirror, MirrorStep, Some, SkipRule, StepsIn
  <2> QED BY <1>19, <2>1, <2>2
<1> QED BY <1>17, <1>19, <1>22

------------------------------------------------------------------------------
(* Two lines of the same worker are never both waiting to be taken.         *)
Apart(sq) ==
  \A i, j \in DOMAIN sq : sq[i].step = sq[j].step /\ sq[i].att = sq[j].att => i = j

(* Distinct senders are senders whose lines are apart. *)
LEMMA ApartLines ==
  (\A i, j \in DOMAIN senders : Sender(i) = Sender(j) => i = j) <=> Apart(senders)
BY DEF Apart, Sender

(* The mirror depends on the bookkeeping and on what has been said. *)
LEMMA MirroredSame ==
  ASSUME Mirrored, Given' = Given, status' = status, outputs' = outputs, attempts' = attempts
  PROVE  Mirrored'
BY DEF Mirrored, Mirror, MirrorStep, Some, SkipRule, StepsIn

(* Nothing is said, nothing is taken: only the orchestrator's place, the    *)
(* queue's end or the consumer may differ.                                  *)
LEMMA FollowingSame ==
  ASSUME Following, Given' = Given, status' = status, outputs' = outputs,
         attempts' = attempts, slot' = slot, senders' = senders, worker' = worker,
         failed' = failed, cancelled => cancelled', QueueAllowed', EndsLast',
         failed => orch' \in {"closing", "ended"},
         ~ failed => Rested' /\ (slot = << >> \/ orch' \in {"waiting", "drain_wait"})
  PROVE  Following'
<1>1. failed' => orch' \in {"closing", "ended"}
  OBVIOUS
<1>2. ASSUME ~ failed PROVE Mirrored' /\ Slotted' /\ (~ cancelled' => Lines')
  <2>1. Mirrored /\ Slotted /\ (~ cancelled => Lines)
    BY <1>2 DEF Following
  <2>2. Mirrored'
    BY <2>1, MirroredSame
  <2>3. Handed' = Handed /\ InTransit' = InTransit
    BY DEF Handed, InTransit
  <2>4. slot = << >> => Handed = {}
    BY DEF Handed
  <2>5. Slotted'
    <3> SUFFICES ASSUME NEW e \in Handed'
                 PROVE  orch' \in {"waiting", "drain_wait"} /\ Spoken(e, Given)'
                          /\ status'[e.step] \notin Unseen
      BY DEF Slotted
    <3>1. e \in Handed
      BY <2>3
    <3>2. Spoken(e, Given) /\ status[e.step] \notin Unseen
      BY <2>1, <3>1 DEF Slotted
    <3>3. slot # << >>
      BY <2>4, <3>1
    <3>4. Spoken(e, Given')
      BY <3>2
    <3> PICK A : A = Given'
      OBVIOUS
    <3>5. Spoken(e, Given)'
      BY <3>4 DEF Spoken, StartOK, OutputOK, EndOK, HookOK, Ceased, Some
    <3> QED BY <1>2, <3>2, <3>3, <3>5
  <2>6. ASSUME ~ cancelled' PROVE Lines'
    <3>1. Lines
      BY <2>1, <2>6
    <3>2. \A i \in DOMAIN senders : Spoken(senders[i], Given \cup Handed)'
      BY <2>3, <3>1 DEF Lines, Spoken, StartOK, OutputOK, EndOK, HookOK, Ceased, Some
    <3>3. \A i, j \in DOMAIN senders' : Sender(i)' = Sender(j)' => i = j
      BY <3>1 DEF Lines, Sender
    <3>4. \A w \in Workers : Word(w)'
      BY <2>3, <3>1 DEF Lines, Word, Silent, Uttered
    <3> QED BY <3>1, <3>2, <3>3, <3>4 DEF Lines
  <2> QED BY <2>2, <2>5, <2>6
<1> QED BY <1>1, <1>2 DEF Following

(* The same when the queue and the log stay as they are. *)
LEMMA FollowingQuiet ==
  ASSUME Following, status' = status, outputs' = outputs, attempts' = attempts,
         slot' = slot, senders' = senders, worker' = worker, failed' = failed,
         queue' = queue, log' = log, cancelled => cancelled',
         orch' = "ended" /\ consumer' = "iterating" =>
           orch = "ended" /\ consumer = "iterating" /\ cancelled' = cancelled,
         failed => orch' \in {"closing", "ended"},
         ~ failed => Rested' /\ (slot = << >> \/ orch' \in {"waiting", "drain_wait"})
  PROVE  Following'
<1>1. Given' = Given /\ \A p : Ahead(p)' = Ahead(p)
  BY AheadSame
<1>2. QueueAllowed'
  BY QueueSame DEF Following
<1>3. EndsLast'
  <2>1. EndsLast
    BY DEF Following
  <2> QED BY <2>1 DEF EndsLast, ErrorFirst, IsEnd, Clear
<1> QED BY <1>1, <1>2, <1>3, FollowingSame

(* The orchestrator's waits, the clock, an interrupt and the end of the    *)
(* portal.                                                                 *)
LEMMA FollowingWaits ==
  ASSUME TypeOK, Following,
         \/ LoopDone \/ Arm \/ Timeout \/ EndOfStream \/ OrchCancelled
         \/ \E s \in Steps : Ripen(s)
         \/ Interrupt \/ LeavePortal \/ UNCHANGED vars
  PROVE  Following'
<1>1. /\ status' = status /\ outputs' = outputs /\ attempts' = attempts
      /\ slot' = slot /\ senders' = senders /\ worker' = worker /\ failed' = failed
      /\ queue' = queue /\ log' = log /\ (cancelled => cancelled')
      /\ orch' = "ended" /\ consumer' = "iterating" =>
           orch = "ended" /\ consumer = "iterating" /\ cancelled' = cancelled
  BY DEF LoopDone, Arm, Timeout, EndOfStream, OrchCancelled, Ripen, Interrupt, LeavePortal,
         plan, stream, bridge, vars, TypeOK
<1>2. /\ failed => orch \in {"closing", "ended"}
      /\ ~ failed => Rested /\ Slotted
  BY DEF Following
<1>3. failed => orch' \in {"closing", "ended"}
  BY <1>2 DEF LoopDone, Arm, Timeout, EndOfStream, OrchCancelled, Ripen, Interrupt, LeavePortal,
              vars
<1>4. ASSUME ~ failed PROVE slot = << >> \/ orch' \in {"waiting", "drain_wait"}
  <2>1. slot = << >> \/ orch \in {"waiting", "drain_wait"}
    <3>1. slot # << >> => \E e : e \in Handed
      <4>1. slot # << >> => 1 \in DOMAIN slot
        BY DEF TypeOK
      <4> QED BY <4>1 DEF Handed
    <3> QED BY <1>2, <1>4, <3>1 DEF Slotted
  <2> QED BY <2>1 DEF LoopDone, Arm, Timeout, EndOfStream, OrchCancelled, Ripen, Interrupt,
                      LeavePortal, vars
<1>5. ASSUME ~ failed, ~ cancelled'
      PROVE  /\ orch' \in {"drain", "drain_wait", "closing", "ended"} => IsComplete(status)
             /\ orch' \in {"closing", "ended"} => slot = << >> /\ senders = << >> /\ Live = {}
  <2>1. /\ orch \in {"drain", "drain_wait", "closing", "ended"} => IsComplete(status)
        /\ orch \in {"closing", "ended"} => slot = << >> /\ senders = << >> /\ Live = {}
    BY <1>1, <1>2, <1>5 DEF Rested, Clear
  <2> QED BY <1>1, <1>5, <2>1 DEF LoopDone, Arm, Timeout, EndOfStream, OrchCancelled, Ripen, Interrupt,
                      LeavePortal, vars
<1>6. ~ failed => Rested'
  BY <1>1, <1>5 DEF Rested, Clear, IsComplete, Live
<1> QED BY <1>1, <1>3, <1>4, <1>6, FollowingQuiet

------------------------------------------------------------------------------
(* A worker keeps its word while it says nothing. *)
LEMMA WordSame ==
  ASSUME NEW w \in Workers, Word(w), worker'[w] = worker[w],
         \A k \in Kinds : Uttered(w, k)' <=> Uttered(w, k),
         status[w[1]] \notin Unseen => status'[w[1]] \notin Unseen
  PROVE  Word(w)'
<1>1. AttemptEnds \subseteq Kinds /\ "hook" \in Kinds
  BY DEF AttemptEnds, Kinds
<1>2. Silent(w) => Silent(w)'
  BY DEF Silent
<1> QED BY <1>1, <1>2 DEF Word

(* The orchestrator takes an event that its worker was right to send.       *)
LEMMA FollowingTaken ==
  ASSUME TypeOK, Counted, Following, NEW e \in Events, NEW next \in {"schedule", "drain"},
         Handle(e, next), next = "drain" => orch \in {"drain", "drain_wait"},
         orch \notin {"closing", "ended"},
         \/ slot' = slot /\ senders # << >> /\ senders' = Tail(senders) /\ e = Head(senders)
         \/ senders' = senders /\ slot # << >> /\ slot' = << >> /\ e = Head(slot),
         worker' = worker, log' = log, slot' = << >>,
         Spoken(e, Given), status[e.step] \notin Unseen,
         ~ cancelled => /\ Apart(senders')
                        /\ \A i \in DOMAIN senders' : /\ Spoken(senders'[i], Given \cup {e})
                                                      /\ status[senders'[i].step] \notin Unseen
  PROVE  Following'
<1>1. ~ failed /\ QueueAllowed /\ Mirrored /\ Rested /\ (~ cancelled => Lines)
  BY DEF Following
<1>2. /\ e \in InTransit
      /\ \A x \in InTransit' : x \in InTransit
      /\ \A x \in InTransit : x \in InTransit' \/ x = e
  BY TakenIs
<1>3. CASE HandleRaises(status, e)
  <2>1. queue' = Append(queue, e) /\ orch' = "closing" /\ failed'
    BY <1>3 DEF Handle
  <2> PICK t : t = <<e>>
    OBVIOUS
  <2>2. t \in Seq(Events) /\ queue' = queue \o t /\ Len(t) = 1 /\ t[1] = e
    BY <2>1 DEF TypeOK
  <2>3. Allowed(e, Given)
    BY DEF Allowed, Spoken
  <2>4. \A i \in 1 .. Len(t) : Allowed(t[i], Given \cup {t[j] : j \in 1 .. i - 1})
    <3> SUFFICES ASSUME NEW i \in 1 .. Len(t)
                 PROVE  Allowed(t[i], Given \cup {t[j] : j \in 1 .. i - 1})
      OBVIOUS
    <3>1. i = 1 /\ {t[j] : j \in 1 .. i - 1} = {}
      BY <2>2
    <3>2. Given \cup {t[j] : j \in 1 .. i - 1} = Given
      BY <3>1
    <3> QED BY <2>2, <2>3, <3>1, <3>2
  <2>5. QueueAllowed'
    BY <1>1, <2>2, <2>4, QueueGrows
  <2> QED BY <2>1, <2>5 DEF Following, EndsLast
<1>4. CASE ~ HandleRaises(status, e)
  <2>1. orch' = next /\ cancelled' = cancelled /\ failed' = failed
    BY <1>4 DEF Handle
  <2>2. e.kind = "retry" => e.att = attempts[e.step] + 1
    BY <1>2 DEF Counted, RetrySent
  <2>3. /\ QueueAllowed' /\ Mirrored'
        /\ Given' = Given \cup {e} \cup SkipsOf(Newly(status, status'))
    BY <1>1, <1>4, <2>2, HandleTells
  <2>4. Slotted' /\ Handed' = {}
    BY DEF Slotted, Handed
  <2>5. \A s \in Steps : status[s] \notin Unseen => status'[s] \notin Unseen
    BY HandleIs
  <2>6. Rested'
    <3> SUFFICES ASSUME ~ cancelled, next = "drain" PROVE IsComplete(status')
      BY <2>1 DEF Rested, Clear
    <3>1. IsComplete(status)
      BY <1>1 DEF Rested, Clear
    <3> PICK after : after = HandleStatus(status, e, Delayed)
      OBVIOUS
    <3>2. status \in [Steps -> Status] /\ e.step \in Steps
      BY EventOf DEF TypeOK
    <3>3. e.kind \in AttemptEnds => status[e.step] = "in_flight"
      BY <1>4 DEF HandleRaises
    <3>4. e.kind \notin AttemptEnds
      BY <3>1, <3>2, <3>3 DEF IsComplete, Terminal
    <3>5. after \in [Steps -> Status] /\ \A s \in Steps : after[s] = status[s]
      BY <1>4, <3>2, <3>4, HandledIs
    <3>6. status' = Settle(after, outputs', ripe)
      BY <1>4 DEF Handle
    <3>7. \A s \in Steps : after[s] \notin {"pending", "waiting"}
      BY <3>1, <3>5 DEF IsComplete, Terminal
    <3>8. \A s \in Steps : status'[s] = after[s]
      BY <3>5, <3>6, <3>7, SettleSteps
    <3> QED BY <3>1, <3>5, <3>8 DEF IsComplete
  <2>7. ASSUME ~ cancelled PROVE Lines'
    <3>1. Lines
      BY <1>1, <2>7
    <3> PICK B : B = Given \cup {e} \cup SkipsOf(Newly(status, status'))
      OBVIOUS
    <3>2. Given' = B /\ \A x \in SkipsOf(Newly(status, status')) : x.att = 0
      BY <2>3, EventIs DEF SkipsOf
    <3>3. ASSUME NEW i \in DOMAIN senders'
          PROVE  Spoken(senders'[i], B) /\ status'[senders'[i].step] \notin Unseen
      <4>1. Spoken(senders'[i], Given \cup {e}) /\ status[senders'[i].step] \notin Unseen
        BY <2>7
      <4>2. <<senders'[i].step, senders'[i].att>> \in Workers
        BY <4>1 DEF Spoken
      <4>3. senders'[i].step \in Steps /\ senders'[i].att # 0
        BY <4>2, WorkerPair
      <4>4. Spoken(senders'[i], B)
        BY <3>2, <4>1, <4>3, SpokenGrows
      <4> QED BY <2>5, <4>1, <4>3, <4>4
    <3>4. \A i \in DOMAIN senders' : Spoken(senders[i], Given \cup Handed)'
      <4>1. Given' \cup Handed' = B
        BY <2>4, <3>2
      <4>2. \A x, A : Spoken(x, A)' <=> Spoken(x, A)
        BY SpokenAlways
      <4>3. \A i \in DOMAIN senders' : Spoken(senders'[i], Given' \cup Handed')
        BY <3>3, <4>1
      <4> QED BY <4>2, <4>3
    <3>5. Apart(senders')
      BY <2>7
    <3>6. \A i, j \in DOMAIN senders' : Sender(i)' = Sender(j)' => i = j
      BY <3>5 DEF Apart, Sender
    <3>7. ASSUME NEW w \in Workers PROVE Word(w)'
      <4>1. Word(w)
        BY <3>1 DEF Lines
      <4>2. \A k : Event(w[1], w[2], k) \notin SkipsOf(Newly(status, status'))
        BY <3>2, WorkerPair, EventIs
      <4>3. \A k \in Kinds : Uttered(w, k)' <=> Uttered(w, k)
        BY <1>2, <2>3, <4>2 DEF Uttered
      <4>4. w[1] \in Steps
        BY WorkerPair
      <4> QED BY <2>5, <4>1, <4>3, <4>4, WordSame
    <3> QED BY <3>3, <3>4, <3>6, <3>7 DEF Lines
  <2>8. EndsLast'
    BY <2>1 DEF EndsLast
  <2> QED BY <1>1, <2>1, <2>3, <2>4, <2>6, <2>7, <2>8 DEF Following
<1> QED BY <1>3, <1>4

(* receive() takes the oldest blocked sender's event, or waits. *)
LEMMA FollowingReceive ==
  ASSUME TypeOK, Counted, Following, NEW from, NEW wait, NEW next, Receive(from, wait, next),
         \/ from = "receive" /\ wait = "waiting" /\ next = "schedule"
         \/ from = "drain" /\ wait = "drain_wait" /\ next = "drain"
  PROVE  Following'
<1>1. /\ orch = from /\ ~ cancelled /\ slot' = slot /\ worker' = worker
      /\ log' = log /\ consumer' = consumer
  BY DEF Receive
<1>2. ~ failed /\ Slotted /\ Lines /\ Rested
  BY <1>1 DEF Following
<1>3. slot = << >> /\ Handed = {}
  <2>1. Handed = {}
    BY <1>1, <1>2 DEF Slotted
  <2>2. slot # << >> => 1 \in DOMAIN slot
    BY DEF TypeOK
  <2> QED BY <2>1, <2>2 DEF Handed
<1>4. CASE senders = << >>
  <2>1. /\ orch' = wait /\ status' = status /\ outputs' = outputs /\ attempts' = attempts
        /\ senders' = senders /\ queue' = queue /\ cancelled' = cancelled /\ failed' = failed
    BY <1>4 DEF Receive, plan
  <2>2. Rested'
    BY <1>1, <1>2, <2>1 DEF Rested, Clear, IsComplete
  <2> QED BY <1>1, <1>2, <1>3, <2>1, <2>2, FollowingQuiet
<1>5. CASE senders # << >>
  <2> PICK e : e = Head(senders)
    OBVIOUS
  <2>1. senders' = Tail(senders) /\ Handle(e, next)
    BY <1>5 DEF Receive
  <2>2. /\ senders \in Seq(Events) /\ 1 \in DOMAIN senders /\ e = senders[1] /\ e \in Events
        /\ \A i \in DOMAIN senders' :
             /\ i + 1 \in DOMAIN senders /\ senders'[i] = senders[i + 1]
             /\ i \in Nat /\ i + 1 # 1
    BY <1>5, <2>1 DEF TypeOK
  <2>3. Apart(senders) /\ \A i \in DOMAIN senders : /\ Spoken(senders[i], Given)
                                                    /\ status[senders[i].step] \notin Unseen
    BY <1>2, <1>3, ApartLines DEF Lines
  <2>4. Apart(senders')
    <3> SUFFICES ASSUME NEW i \in DOMAIN senders', NEW j \in DOMAIN senders',
                        senders'[i].step = senders'[j].step, senders'[i].att = senders'[j].att
                 PROVE  i = j
      BY DEF Apart
    <3>1. i + 1 = j + 1
      BY <2>2, <2>3 DEF Apart
    <3> QED BY <2>2, <3>1
  <2>5. ASSUME NEW i \in DOMAIN senders' PROVE Spoken(senders'[i], Given \cup {e})
    <3>1. Spoken(senders'[i], Given)
      BY <2>2, <2>3
    <3>2. senders'[i].step # e.step \/ senders'[i].att # e.att
      BY <2>2, <2>3 DEF Apart
    <3> QED BY <3>1, <3>2, SpokenGrows
  <2>6. \A i \in DOMAIN senders' : status[senders'[i].step] \notin Unseen
    BY <2>2, <2>3
  <2>7. Spoken(e, Given) /\ status[e.step] \notin Unseen
    BY <2>2, <2>3
  <2> QED BY <1>1, <1>3, <1>5, <2>1, <2>2, <2>4, <2>5, <2>6, <2>7, FollowingTaken
<1> QED BY <1>4, <1>5

(* The waiting orchestrator takes the event it was handed. *)
LEMMA FollowingWake ==
  ASSUME TypeOK, Counted, Following, NEW wait, NEW next, Wake(wait, next),
         \/ wait = "waiting" /\ next = "schedule"
         \/ wait = "drain_wait" /\ next = "drain"
  PROVE  Following'
<1> PICK e : e = Head(slot)
  OBVIOUS
<1>1. /\ orch = wait /\ slot # << >> /\ slot' = << >> /\ Handle(e, next)
      /\ senders' = senders /\ worker' = worker /\ log' = log
  BY DEF Wake
<1>2. ~ failed /\ Slotted /\ (~ cancelled => Lines)
  BY <1>1 DEF Following
<1>3. 1 \in DOMAIN slot /\ slot[1] = e /\ DOMAIN slot = {1} /\ e \in Events
  <2>0. slot \in Seq(Events) /\ Len(slot) <= 1
    BY Zenon DEF TypeOK
  <2>1. slot \in Seq(Events) /\ Len(slot) \in Nat /\ Len(slot) <= 1
    BY <2>0
  <2> PICK n : n = Len(slot)
    OBVIOUS
  <2>2. Len(slot) = 1
    <3>1. slot # << >>
      BY <1>1, Zenon
    <3>2. Len(slot) # 0
      BY <2>1, <3>1
    <3>3. n \in Nat /\ n <= 1 /\ n # 0
      BY <2>1, <3>2, Zenon
    <3>4. n = 1
      BY <3>3
    <3> QED BY <3>4
  <2>3. DOMAIN slot = 1 .. 1
    BY <2>1, <2>2
  <2>4. slot[1] = e /\ e \in Events
    BY <1>1, <2>1
  <2> QED BY <2>3, <2>4
<1>4. Handed = {e}
  BY <1>3 DEF Handed
<1>5. Spoken(e, Given) /\ status[e.step] \notin Unseen
  BY <1>2, <1>4 DEF Slotted
<1>6. ~ cancelled => /\ Apart(senders')
                     /\ \A i \in DOMAIN senders' : /\ Spoken(senders'[i], Given \cup {e})
                                                   /\ status[senders'[i].step] \notin Unseen
  BY <1>1, <1>2, <1>4, ApartLines DEF Lines
<1> QED BY <1>1, <1>3, <1>5, <1>6, FollowingTaken

(* A worker that is started has said nothing yet.                           *)
LEMMA FollowingSchedule ==
  ASSUME TypeOK, Counted, Following, NEW batch \in SUBSET Steps, NEW refused,
         Schedule(batch, refused)
  PROVE  Following'
<1>1. /\ slot' = slot /\ senders' = senders /\ attempts' = attempts /\ outputs' = outputs
      /\ cancelled' = cancelled /\ failed' = failed /\ orch = "schedule" /\ orch' = "arm"
      /\ log' = log /\ queue' = queue
  BY DEF Schedule, stream, bridge
<1>2. ~ failed /\ QueueAllowed /\ Mirrored /\ Slotted /\ (~ cancelled => Lines)
  BY <1>1 DEF Following
<1>3. /\ \A s \in Steps : status[s] \notin Unseen => status'[s] \notin Unseen
      /\ \A s \in batch : /\ status[s] \in {"pending", "waiting", "executable"}
                          /\ status'[s] = "in_flight"
      /\ \A w \in Workers : worker'[w] # worker[w] => worker'[w] = "spawned"
  <2>1. \A s \in Steps :
           /\ s \in batch => /\ status[s] \in {"pending", "waiting", "executable"}
                             /\ status'[s] = "in_flight"
                             /\ <<s, attempts[s] + 1>> \in Computing'
           /\ s \notin batch => /\ status[s] \in Begun => status'[s] = status[s]
                                /\ status'[s] = "in_flight" => status[s] = "in_flight"
           /\ status[s] \notin Unseen => status'[s] \notin Unseen
    BY ScheduleIs, Zenon
  <2>2. \A w \in Workers :
           /\ worker'[w] # worker[w] => worker'[w] = "spawned"
           /\ w \in Computing => w \in Computing'
           /\ worker'[w] # "none" =>
                worker[w] # "none" \/ (w[1] \in batch /\ w[2] = attempts[w[1]] + 1)
    BY ScheduleIs, Zenon
  <2>3. \A s \in Steps : status[s] \notin Unseen => status'[s] \notin Unseen
    BY <2>1, Zenon
  <2>4. ASSUME NEW s \in batch
        PROVE  /\ status[s] \in {"pending", "waiting", "executable"}
               /\ status'[s] = "in_flight"
    <3>1. s \in Steps
      OBVIOUS
    <3> QED BY <2>1, <3>1, Zenon
  <2>5. \A w \in Workers : worker'[w] # worker[w] => worker'[w] = "spawned"
    BY <2>2, Zenon
  <2> QED BY <2>3, <2>4, <2>5, Zenon
<1>4. Given' = Given /\ \A p : Ahead(p)' = Ahead(p)
  BY <1>1, AheadSame
<1>5. Handed = {} /\ Handed' = {} /\ InTransit' = InTransit
  BY <1>1, <1>2 DEF Slotted, Handed, InTransit
<1>6. QueueAllowed'
  BY <1>1, <1>2, QueueSame
<1>7. Mirrored'
  <2>1. Mirror(status', outputs, attempts, Given)
    BY <1>2, MirrorScheduled DEF Mirrored
  <2>2. Mirror(status', outputs', attempts', Given')
    BY <1>1, <1>4, <2>1
  <2>3. Mirrored' <=> Mirror(status', outputs', attempts', Given')
    BY DEF Mirrored, Mirror, MirrorStep, Some, SkipRule, StepsIn
  <2> QED BY <2>2, <2>3
<1>8. Slotted' /\ Rested' /\ EndsLast'
  BY <1>1, <1>5 DEF Slotted, Rested, EndsLast
<1>9. ASSUME ~ cancelled PROVE Lines'
  <2>1. Lines
    BY <1>2, <1>9
  <2>2. \A i \in DOMAIN senders' : /\ Spoken(senders'[i], Given' \cup Handed')
                                   /\ status'[senders'[i].step] \notin Unseen
    <3> SUFFICES ASSUME NEW i \in DOMAIN senders
                 PROVE  /\ Spoken(senders[i], Given \cup Handed)
                        /\ status'[senders[i].step] \notin Unseen
      BY <1>1, <1>4, <1>5
    <3>1. Spoken(senders[i], Given \cup Handed) /\ status[senders[i].step] \notin Unseen
      BY <2>1 DEF Lines
    <3>2. senders[i].step \in Steps
      BY EventOf DEF TypeOK
    <3> QED BY <1>3, <3>1, <3>2
  <2>3. \A i \in DOMAIN senders' : Spoken(senders[i], Given \cup Handed)'
    <3>1. \A x, A : Spoken(x, A)' <=> Spoken(x, A)
      BY SpokenAlways
    <3> QED BY <2>2, <3>1
  <2>4. \A i, j \in DOMAIN senders' : Sender(i)' = Sender(j)' => i = j
    BY <1>1, <2>1 DEF Lines, Sender
  <2>5. ASSUME NEW w \in Workers PROVE Word(w)'
    <3>1. Word(w)
      BY <2>1 DEF Lines
    <3>2. \A k \in Kinds : Uttered(w, k)' <=> Uttered(w, k)
      BY <1>4, <1>5 DEF Uttered
    <3>3. w[1] \in Steps
      BY WorkerPair
    <3>4. CASE worker'[w] = worker[w]
      BY <1>3, <3>1, <3>2, <3>3, <3>4, WordSame
    <3>5. CASE worker'[w] # worker[w]
      <4>1. worker'[w] = "spawned" /\ w[1] \in batch /\ w[2] = attempts[w[1]] + 1
        <5>1. worker'[w] = IF w[1] \in batch /\ w[2] = attempts[w[1]] + 1
                           THEN "spawned" ELSE worker[w]
          BY DEF Schedule
        <5> QED BY <3>5, <5>1
      <4>2. worker[w] = "none"
        BY <1>3, <4>1 DEF Counted, Begun
      <4>3. Silent(w)'
        BY <3>1, <3>2, <4>2 DEF Word, Silent
      <4>4. status'[w[1]] \notin Unseen
        BY <1>3, <4>1 DEF Unseen
      <4> QED BY <4>1, <4>3, <4>4 DEF Word
    <3> QED BY <3>4, <3>5
  <2> QED BY <2>2, <2>3, <2>4, <2>5 DEF Lines
<1> QED BY <1>1, <1>2, <1>6, <1>7, <1>8, <1>9 DEF Following

------------------------------------------------------------------------------
(* An exception that leaves a worker after the end of its attempt makes it  *)
(* report a failure nobody expects: such workers and hooks are excluded.    *)
PlainEnds == "reraise" \notin Faults /\ ("badhook" \in Faults => Hooked = {})

(* tq has the items of sq, and e after them. *)
Added(sq, e, tq) ==
  \A m \in DOMAIN tq :
    \/ m \in DOMAIN sq /\ tq[m] = sq[m]
    \/ m = Len(sq) + 1 /\ tq[m] = e

(* The items of a sequence with one more at its end. *)
LEMMA AppendIs ==
  ASSUME NEW S, NEW sq \in Seq(S), NEW e \in S
  PROVE  Added(sq, e, Append(sq, e))
<1> PICK n \in Nat : n = Len(sq)
  OBVIOUS
<1>1. /\ DOMAIN sq = 1 .. n /\ DOMAIN Append(sq, e) = 1 .. n + 1
      /\ \A m \in 1 .. n : Append(sq, e)[m] = sq[m]
      /\ Append(sq, e)[n + 1] = e
  OBVIOUS
<1>2. \A m \in 1 .. n + 1 : m \in 1 .. n \/ m = n + 1
  OBVIOUS
<1> QED BY <1>1, <1>2 DEF Added

(* A worker that may speak is right to say what it sends.                   *)
LEMMA FollowingSend ==
  ASSUME TypeOK, Counted, Following, NEW w \in Workers, NEW k \in Kinds,
         NEW next \in {"compute", "computed", "hooks", "exit"}, Send(w, k, next),
         worker[w] \in {"spawned", "compute", "computed", "hooks"},
         k # "skipped",
         k = "start" <=> worker[w] = "spawned",
         k = "start" => next = "compute",
         k = "output" => worker[w] = "compute",
         k = "output" <=> next = "computed",
         k \in AttemptEnds <=> next = "hooks",
         k \in AttemptEnds => worker[w] \in {"compute", "computed"},
         k = "retry" => w[2] <= MaxRetries[w[1]],
         k = "hook" => worker[w] = "hooks" /\ w[1] \in Hooked,
         k = "hook" <=> next = "exit",
         k = "start" => /\ w[2] = attempts[w[1]] + 1
                        /\ \A d \in Deps[w[1]] : status[d] = "success" /\ d \in outputs
  PROVE  Following'
<1> PICK s, a, e : s = w[1] /\ a = w[2] /\ e = Event(s, a, k)
  OBVIOUS
<1>0. next \in WorkerStates
  BY DEF WorkerStates
<1>1. /\ e \in Events /\ e.step = s /\ e.att = a /\ e.kind = k /\ w = <<s, a>>
      /\ s \in Steps /\ a \in Nat \ {0}
  <2>1. Event(w[1], w[2], k) \in Events
    BY <1>0, SendIs
  <2> QED BY <2>1, EventIs, WorkersAre
<1>2. /\ \/ slot = << >> /\ slot' = <<e>> /\ senders' = senders /\ orch \in {"waiting", "drain_wait"}
         \/ slot' = slot /\ senders' = Append(senders, e)
      /\ worker'[w] = next /\ \A v \in Workers : v # w => worker'[v] = worker[v]
      /\ status' = status /\ outputs' = outputs /\ attempts' = attempts
      /\ orch' = orch /\ cancelled' = cancelled /\ failed' = failed
      /\ queue' = queue /\ log' = log /\ consumer' = consumer
      /\ ~ cancelled /\ orch # "ended" /\ ~ Blocked(w)
  <2>1. /\ worker'[w] = next /\ \A v \in Workers : v # w => worker'[v] = worker[v]
        /\ status' = status /\ outputs' = outputs /\ attempts' = attempts
        /\ orch' = orch /\ cancelled' = cancelled /\ ~ cancelled /\ LoopIdle
    BY <1>0, SendIs
  <2>2. ~ Blocked(w) /\ failed' = failed /\ queue' = queue /\ log' = log /\ consumer' = consumer
    BY DEF Send, bridge
  <2>3. \/ slot = << >> /\ slot' = <<e>> /\ senders' = senders /\ orch \in {"waiting", "drain_wait"}
        \/ slot' = slot /\ senders' = Append(senders, e)
    BY DEF Send
  <2> QED BY <2>1, <2>2, <2>3 DEF LoopIdle
<1>3. Given' = Given /\ \A p : Ahead(p)' = Ahead(p)
  BY <1>2, AheadSame
<1>4. QueueAllowed' /\ EndsLast'
  <2>1. QueueAllowed'
    BY <1>2, QueueSame DEF Following
  <2> QED BY <1>1, <1>2, <2>1 DEF EndsLast
<1> SUFFICES ASSUME ~ failed PROVE Mirrored' /\ Slotted' /\ Rested' /\ Lines'
  BY <1>2, <1>4 DEF Following
<1>5. Mirrored /\ Slotted /\ Rested /\ Lines
  BY <1>2 DEF Following
<1>6. Mirrored'
  BY <1>2, <1>3, <1>5, MirroredSame
<1>7. Word(w) /\ status[s] \notin Unseen
  BY <1>1, <1>5 DEF Lines, Word
<1>8. \A c : Event(s, a, c) \in Given \cup Handed <=> Uttered(w, c)
  <2>1. \A c : \A i \in DOMAIN senders : senders[i] # Event(s, a, c)
    BY <1>1, <1>2, EventIs DEF Blocked, Sender
  <2> QED BY <1>1, <2>1 DEF Uttered, InTransit, Handed
<1>9. k \in Kinds /\ AttemptEnds \subseteq Kinds /\ {"start", "output", "hook"} \subseteq Kinds
  BY DEF AttemptEnds, Kinds
<1>10. Spoken(e, Given \cup Handed)
  <2>1. k = "start" => StartOK(s, a, Given \cup Handed)
    <3> SUFFICES ASSUME k = "start" PROVE StartOK(s, a, Given \cup Handed)
      OBVIOUS
    <3>1. Event(s, a, "start") \notin Given \cup Handed
      BY <1>7, <1>8, <1>9 DEF Word, Silent
    <3>2. a > 1 => Event(s, a - 1, "retry") \in Given
      <4>1. attempts[s] \in Nat /\ a = attempts[s] + 1
        BY <1>1 DEF TypeOK
      <4>2. a > 1 => a - 1 \in 1 .. attempts[s]
        BY <4>1
      <4> QED BY <1>1, <1>5, <4>2 DEF Mirrored, Mirror, MirrorStep
    <3>3. ASSUME NEW d \in Deps[s] PROVE Some(Given, d, "output") /\ Some(Given, d, "success")
      <4>1. d \in Steps /\ status[d] = "success" /\ d \in outputs
        BY <1>1, PlanAssumption
      <4> QED BY <1>5, <4>1 DEF Mirrored, Mirror, MirrorStep
    <3> QED BY <3>1, <3>2, <3>3 DEF StartOK, Some
  <2>2. k = "output" => OutputOK(s, a, Given \cup Handed)
    BY <1>7, <1>8, <1>9 DEF Word, OutputOK, Ceased, AttemptEnds
  <2>3. k \in AttemptEnds => EndOK(s, a, k, Given \cup Handed)
    BY <1>1, <1>7, <1>8, <1>9 DEF Word, EndOK, Ceased, AttemptEnds
  <2>4. k = "hook" => HookOK(s, a, Given \cup Handed)
    BY <1>1, <1>7, <1>8, <1>9 DEF Word, HookOK, Ceased
  <2> QED BY <1>1, <2>1, <2>2, <2>3, <2>4 DEF Spoken
<1>11. Handed' \cup Given' = IF slot' = slot THEN Given \cup Handed ELSE Given \cup {e}
  BY <1>2, <1>3 DEF Handed
<1>12. Slotted'
  <2> SUFFICES ASSUME NEW x \in Handed'
               PROVE  orch \in {"waiting", "drain_wait"} /\ Spoken(x, Given)
                        /\ status[x.step] \notin Unseen
    BY <1>2, <1>3, SpokenAlways DEF Slotted
  <2>1. CASE slot' = slot
    BY <1>5, <2>1 DEF Slotted, Handed
  <2>2. CASE slot = << >> /\ slot' = <<e>> /\ orch \in {"waiting", "drain_wait"}
    <3>1. Handed = {} /\ Handed' = {e}
      BY <2>2 DEF Handed
    <3> QED BY <1>1, <1>7, <1>10, <2>2, <3>1
  <2> QED BY <1>2, <2>1, <2>2
<1>13. Rested'
  <2>1. w \in Live
    BY DEF Live, Gone
  <2>2. orch \notin {"closing", "ended"}
    BY <1>2, <1>5, <2>1 DEF Rested, Clear
  <2> QED BY <1>2, <1>5, <2>2 DEF Rested, Clear, IsComplete
<1>14. Lines'
  <2>1. \A i \in DOMAIN senders' : \/ i \in DOMAIN senders /\ senders'[i] = senders[i]
                                 \/ senders'[i] = e
    BY <1>1, <1>2, AddedIs
  <2>2. ASSUME NEW i \in DOMAIN senders'
        PROVE  Spoken(senders'[i], Given' \cup Handed') /\ status'[senders'[i].step] \notin Unseen
    <3> PICK A, B : A = Given \cup Handed /\ B = Given' \cup Handed'
      OBVIOUS
    <3>1. A \subseteq B /\ \A x \in B : x \in A \/ x = e
      BY <1>2, <1>3, <1>11 DEF Handed
    <3>2. CASE i \in DOMAIN senders /\ senders'[i] = senders[i]
      <4>1. Spoken(senders[i], A) /\ status[senders[i].step] \notin Unseen
        BY <1>5, <3>2 DEF Lines
      <4>2. senders[i].step # s \/ senders[i].att # a
        BY <1>1, <1>2, <3>2 DEF Blocked, Sender
      <4>3. Spoken(senders[i], B)
        BY <1>1, <3>1, <4>1, <4>2, SpokenGrows
      <4> QED BY <1>2, <3>2, <4>1, <4>3
    <3>3. CASE senders'[i] = e /\ slot' = slot
      <4>1. B = A
        BY <1>3, <3>3 DEF Handed
      <4> QED BY <1>1, <1>2, <1>7, <1>10, <3>3, <4>1
    <3> QED BY <1>2, <2>1, <3>2, <3>3
  <2>3. \A i \in DOMAIN senders' : Spoken(senders[i], Given \cup Handed)'
    <3>1. \A x, A : Spoken(x, A)' <=> Spoken(x, A)
      BY SpokenAlways
    <3> QED BY <2>2, <3>1
  <2>4. ASSUME NEW i \in DOMAIN senders', NEW j \in DOMAIN senders', Sender(i)' = Sender(j)'
        PROVE  i = j
    <3>1. senders'[i].step = senders'[j].step /\ senders'[i].att = senders'[j].att
      BY <2>4 DEF Sender
    <3>2. CASE senders' = senders
      BY <1>5, <3>1, <3>2, ApartLines DEF Lines, Apart
    <3>3. CASE senders' = Append(senders, e)
      <4>1. /\ Len(senders) \in Nat
            /\ \A m \in DOMAIN senders' :
                 \/ m \in DOMAIN senders /\ senders'[m] = senders[m]
                 \/ m = Len(senders) + 1 /\ senders'[m] = e
        <5>1. senders \in Seq(Events) /\ Len(senders) \in Nat
          BY DEF TypeOK
        <5>2. Added(senders, e, senders')
          BY <1>1, <3>3, <5>1, AppendIs
        <5> QED BY <5>1, <5>2 DEF Added
      <4>2. \A m \in DOMAIN senders : senders[m].step # s \/ senders[m].att # a
        BY <1>1, <1>2 DEF Blocked, Sender
      <4>3. Apart(senders)
        BY <1>5, ApartLines DEF Lines
      <4> QED BY <1>1, <3>1, <4>1, <4>2, <4>3 DEF Apart
    <3> QED BY <1>2, <3>2, <3>3
  <2>5. InTransit' = InTransit \cup {e}
    BY <1>1, <1>2, AddedIs
  <2>6. ASSUME NEW v \in Workers, v # w PROVE Word(v)'
    <3>1. Word(v) /\ v = <<v[1], v[2]>>
      BY <1>5, WorkersAre DEF Lines
    <3>2. \A c : Event(v[1], v[2], c) # e
      BY <1>1, <2>6, <3>1, EventIs
    <3>3. \A c \in Kinds : Uttered(v, c)' <=> Uttered(v, c)
      BY <1>3, <2>5, <3>2 DEF Uttered
    <3> QED BY <1>2, <2>6, <3>1, <3>3, WordSame
  <2>7. Word(w)'
    <3>1. \A c : Event(s, a, c) = e <=> c = k
      BY <1>1, EventIs
    <3>2. \A c : Uttered(w, c)' <=> Uttered(w, c) \/ c = k
      BY <1>1, <1>3, <2>5, <3>1 DEF Uttered
    <3>3. status'[w[1]] \notin Unseen
      BY <1>1, <1>2, <1>7
    <3>4. CASE k = "start"
      <4>1. worker'[w] = "compute" /\ \A c \in Kinds : Uttered(w, c)' <=> c = "start"
        BY <1>2, <1>7, <3>2, <3>4 DEF Word, Silent
      <4> QED BY <3>3, <4>1 DEF Word
    <3>5. CASE k = "output"
      <4>1. worker'[w] = "computed" /\ \A c \in Kinds : Uttered(w, c)' <=> c \in {"start", "output"}
        BY <1>2, <1>7, <3>2, <3>5 DEF Word
      <4> QED BY <3>3, <4>1 DEF Word
    <3>6. CASE k \in AttemptEnds
      <4>1. worker'[w] = "hooks" /\ Uttered(w, k)' /\ ~ Uttered(w, "hook")'
        BY <1>2, <1>7, <1>9, <3>2, <3>6 DEF Word, AttemptEnds
      <4> QED BY <3>3, <3>6, <4>1 DEF Word
    <3>7. CASE k = "hook"
      <4>1. /\ worker'[w] = "exit" /\ Uttered(w, "hook")'
            /\ \E c \in AttemptEnds : Uttered(w, c)'
        BY <1>2, <1>7, <3>2, <3>7 DEF Word
      <4> QED BY <3>3, <4>1 DEF Word
    <3> QED BY <1>9, <3>4, <3>5, <3>6, <3>7 DEF Kinds, AttemptEnds
  <2> QED BY <2>2, <2>3, <2>4, <2>6, <2>7 DEF Lines
<1> QED BY <1>6, <1>12, <1>13, <1>14

(* Without anything said, taken or put on the queue, what stands depends    *)
(* on the workers only as long as nothing is cancelled.                     *)
LEMMA FollowingCut ==
  ASSUME Following, status' = status, outputs' = outputs, attempts' = attempts,
         queue' = queue, log' = log, failed' = failed, orch' = orch, orch # "ended",
         failed \/ (slot' = slot /\ cancelled')
  PROVE  Following'
<1>1. Given' = Given /\ \A p : Ahead(p)' = Ahead(p)
  BY AheadSame
<1>2. QueueAllowed'
  BY QueueSame DEF Following
<1>3. EndsLast'
  BY DEF EndsLast
<1>4. ASSUME ~ failed PROVE Mirrored' /\ Slotted' /\ Rested'
  <2>1. Mirrored /\ Slotted
    BY <1>4 DEF Following
  <2>2. Mirrored'
    BY <1>1, <2>1, MirroredSame
  <2>3. \A e \in Handed' : Spoken(e, Given') /\ status'[e.step] \notin Unseen
                             /\ orch' \in {"waiting", "drain_wait"}
    BY <1>1, <1>4, <2>1 DEF Slotted, Handed
  <2>4. \A e, A : Spoken(e, A)' <=> Spoken(e, A)
    BY SpokenAlways
  <2>5. Slotted'
    BY <2>3, <2>4 DEF Slotted
  <2>6. Rested'
    BY <1>4 DEF Rested, Clear
  <2> QED BY <2>2, <2>5, <2>6
<1> QED BY <1>2, <1>3, <1>4 DEF Following

(* A worker that leaves has ended its attempt, and its hook has run. *)
LEMMA FollowingExit ==
  ASSUME TypeOK, Following, NEW w \in Workers, Leave(w, "done"), ~ failed, ~ cancelled,
         worker[w] = "exit" \/ (worker[w] = "hooks" /\ w[1] \notin Hooked)
  PROVE  Following'
<1>1. /\ status' = status /\ outputs' = outputs /\ attempts' = attempts
      /\ orch' = orch /\ slot' = slot /\ senders' = senders
      /\ LoopIdle /\ ~ cancelled'
      /\ worker'[w] = "done" /\ \A v \in Workers : v # w => worker'[v] = worker[v]
  BY LeaveIs
<1>2. failed' = failed /\ queue' = queue /\ log' = log /\ consumer' = consumer
      /\ orch # "ended"
  BY <1>1 DEF Leave, bridge, LoopIdle
<1>3. Given' = Given /\ \A p : Ahead(p)' = Ahead(p)
  BY <1>2, AheadSame
<1>4. QueueAllowed' /\ EndsLast'
  <2>1. QueueAllowed'
    BY <1>2, QueueSame DEF Following
  <2> QED BY <1>1, <1>2, <2>1 DEF EndsLast
<1>5. Mirrored /\ Slotted /\ Rested /\ Lines
  BY DEF Following
<1>6. Mirrored'
  BY <1>1, <1>3, <1>5, MirroredSame
<1>7. Handed' = Handed /\ InTransit' = InTransit
  BY <1>1 DEF Handed, InTransit
<1>8. \A e, A : Spoken(e, A)' <=> Spoken(e, A)
  BY SpokenAlways
<1>9. Slotted'
  <2>1. \A e \in Handed' : Spoken(e, Given') /\ status'[e.step] \notin Unseen
                             /\ orch' \in {"waiting", "drain_wait"}
    BY <1>1, <1>3, <1>5, <1>7 DEF Slotted
  <2> QED BY <1>8, <2>1 DEF Slotted
<1>10. Rested'
  <2>1. w \in Live
    BY DEF Live, Gone
  <2>2. orch \notin {"closing", "ended"}
    BY <1>5, <2>1 DEF Rested, Clear
  <2> QED BY <1>1, <1>5, <2>2 DEF Rested, Clear, IsComplete
<1>11. Lines'
  <2>1. \A i \in DOMAIN senders' : /\ Spoken(senders'[i], Given' \cup Handed')
                                   /\ status'[senders'[i].step] \notin Unseen
    BY <1>1, <1>3, <1>5, <1>7 DEF Lines
  <2>2. \A i \in DOMAIN senders' : Spoken(senders[i], Given \cup Handed)'
    BY <1>8, <2>1
  <2>3. \A i, j \in DOMAIN senders' : Sender(i)' = Sender(j)' => i = j
    BY <1>1, <1>5 DEF Lines, Sender
  <2>4. \A v \in Workers, k \in Kinds : Uttered(v, k)' <=> Uttered(v, k)
    BY <1>3, <1>7 DEF Uttered
  <2>5. ASSUME NEW v \in Workers PROVE Word(v)'
    <3>1. Word(v)
      BY <1>5 DEF Lines
    <3>2. CASE v # w
      BY <1>1, <2>4, <3>1, <3>2, WordSame
    <3>3. CASE v = w
      <4>1. \E k \in AttemptEnds : Uttered(w, k)'
        <5>1. PICK k \in AttemptEnds : Uttered(w, k)
          BY <3>1, <3>3 DEF Word
        <5> QED BY <2>4, <5>1 DEF AttemptEnds, Kinds
      <4>2. w[1] \in Hooked => Uttered(w, "hook")'
        BY <2>4, <3>1, <3>3 DEF Word, Kinds
      <4>3. status'[w[1]] \notin Unseen
        BY <1>1, <3>1, <3>3 DEF Word
      <4> QED BY <1>1, <3>3, <4>1, <4>2, <4>3 DEF Word
    <3> QED BY <3>2, <3>3
  <2> QED BY <2>1, <2>2, <2>3, <2>5 DEF Lines
<1> QED BY <1>1, <1>2, <1>4, <1>6, <1>9, <1>10, <1>11 DEF Following

(* Each action of a worker. *)
LEMMA FollowingWorking ==
  ASSUME PlainEnds, TypeOK, Counted, Clean, UpstreamFirst, Following,
         NEW w \in Workers, Working(w)
  PROVE  Following'
<1>1. ASSUME failed PROVE Following'
  <2>1. /\ status' = status /\ outputs' = outputs /\ attempts' = attempts
        /\ queue' = queue /\ log' = log /\ failed' = failed /\ orch' = orch /\ orch # "ended"
    BY DEF Working, StartStep, EmitOutput, Succeed, RequestRetry, Fail, TriggerHook,
           ReportException, Exit, Raise, SetupRaises, CancelWorker, Send, Leave, plan, bridge,
           LoopIdle
  <2> QED BY <1>1, <2>1, FollowingCut
<1> SUFFICES ASSUME ~ failed PROVE Following'
  BY <1>1
<1>2. ~ cancelled => Word(w)
  BY DEF Following, Lines
<1>3. CASE StartStep(w)
  <2>1. w \in Computing /\ w[1] \in Steps
    BY <1>3, WorkerPair DEF StartStep, Computing
  <2>2. w[2] = attempts[w[1]] + 1 /\ status[w[1]] = "in_flight"
    BY <2>1 DEF Counted, Clean
  <2>3. \A d \in Deps[w[1]] : status[d] = "success" /\ d \in outputs
    BY <2>1, <2>2 DEF UpstreamFirst
  <2>4. Send(w, "start", "compute") /\ worker[w] = "spawned"
    BY <1>3 DEF StartStep
  <2> QED BY <2>2, <2>3, <2>4, FollowingSend DEF AttemptEnds, Kinds
<1>4. CASE EmitOutput(w)
  BY <1>4, FollowingSend DEF EmitOutput, AttemptEnds, Kinds
<1>5. CASE Succeed(w)
  BY <1>5, FollowingSend DEF Succeed, AttemptEnds, Kinds
<1>6. CASE RequestRetry(w)
  BY <1>6, FollowingSend DEF RequestRetry, AttemptEnds, Kinds
<1>7. CASE Fail(w)
  BY <1>7, FollowingSend DEF Fail, PlainEnds, AttemptEnds, Kinds
<1>8. CASE TriggerHook(w)
  BY <1>8, FollowingSend DEF TriggerHook, AttemptEnds, Kinds
<1>9. CASE ReportException(w)
  BY <1>2, <1>9 DEF ReportException, PlainEnds, Send, Word
<1>10. CASE Exit(w)
  <2>1. Leave(w, "done")
    BY <1>10 DEF Exit
  <2>2. CASE cancelled
    <3>1. /\ status' = status /\ outputs' = outputs /\ attempts' = attempts /\ slot' = slot
          /\ queue' = queue /\ log' = log /\ failed' = failed /\ orch' = orch
          /\ orch # "ended" /\ cancelled'
      BY <2>1, <2>2 DEF Leave, plan, stream, bridge, LoopIdle
    <3> QED BY <3>1, FollowingCut
  <2>3. CASE ~ cancelled
    BY <1>10, <2>1, <2>3, FollowingExit DEF Exit
  <2> QED BY <2>2, <2>3
<1>11. CASE Raise(w) \/ SetupRaises(w) \/ CancelWorker(w)
  <2>1. /\ status' = status /\ outputs' = outputs /\ attempts' = attempts /\ slot' = slot
        /\ queue' = queue /\ log' = log /\ failed' = failed /\ orch' = orch
        /\ orch # "ended"
    BY <1>11 DEF Raise, SetupRaises, CancelWorker, Leave, plan, stream, bridge, LoopIdle
  <2>2. cancelled'
    BY <1>11, LeaveIs, CancelIs DEF Raise, SetupRaises
  <2> QED BY <2>1, <2>2, FollowingCut
<1> QED BY <1>3, <1>4, <1>5, <1>6, <1>7, <1>8, <1>9, <1>10, <1>11 DEF Working

------------------------------------------------------------------------------
(* The items that end the queue are not events. *)
LEMMA EndItemsAre == \A x \in EndItems : IsEnd(x) /\ x \notin Events
BY DEF EndItems, IsEnd, Events, Kinds

(* Ending the queue says nothing. *)
LEMMA QueueEnded ==
  ASSUME TypeOK, QueueAllowed, log' = log, NEW t \in Seq(EndItems), queue' = queue \o t
  PROVE  QueueAllowed' /\ Given' = Given
<1> PICK n \in Nat : n = Len(queue)
  BY DEF TypeOK
<1> PICK m \in Nat : m = Len(t)
  OBVIOUS
<1>1. /\ DOMAIN queue = 1 .. n /\ DOMAIN queue' = 1 .. n + m /\ Len(queue') = n + m
      /\ \A p \in 1 .. n : queue'[p] = queue[p]
      /\ \A p \in 1 .. m : queue'[n + p] = t[p] /\ t[p] \in EndItems
  BY DEF TypeOK
<1>2. \A p \in n + 1 .. n + m : queue'[p] \in EndItems
  <2> SUFFICES ASSUME NEW p \in n + 1 .. n + m PROVE queue'[p] \in EndItems
    OBVIOUS
  <2>1. p - n \in 1 .. m /\ n + (p - n) = p
    OBVIOUS
  <2> QED BY <1>1, <2>1
<1>3. \A p \in 1 .. n : Ahead(p)' = Ahead(p)
  BY <1>1 DEF Ahead, Read
<1>4. QueueAllowed'
  <2>1. ASSUME NEW p \in 1 .. n + m, queue'[p] \in Events
        PROVE  Allowed(queue'[p], Ahead(p)')
    <3>1. p \in 1 .. n
      BY <1>2, <2>1, EndItemsAre
    <3>2. Allowed(queue[p], Ahead(p))
      BY <1>1, <2>1, <3>1 DEF QueueAllowed
    <3> QED BY <1>1, <1>3, <3>1, <3>2
  <2>2. \A e, A : Allowed(e, A)' <=> Allowed(e, A)
    BY AllowedAlways
  <2> QED BY <1>1, <2>1, <2>2 DEF QueueAllowed
<1>5. Given' = Given
  <2>1. \A x \in Events : (\E p \in 1 .. n + m : queue'[p] = x) <=> \E p \in 1 .. n : queue[p] = x
    <3> SUFFICES ASSUME NEW x \in Events
                 PROVE  (\E p \in 1 .. n + m : queue'[p] = x) <=> \E p \in 1 .. n : queue[p] = x
      OBVIOUS
    <3>1. ASSUME NEW p \in 1 .. n + m, queue'[p] = x PROVE p \in 1 .. n /\ queue[p] = x
      <4>1. p \in 1 .. n
        BY <1>2, <3>1, EndItemsAre
      <4> QED BY <1>1, <3>1, <4>1
    <3>2. ASSUME NEW p \in 1 .. n, queue[p] = x PROVE p \in 1 .. n + m /\ queue'[p] = x
      BY <1>1, <3>2
    <3> QED BY <3>1, <3>2
  <2>2. Given = {x \in Events : Read(x) \/ \E p \in 1 .. n : queue[p] = x}
    BY DEF Given, Ahead
  <2>3. Given' = {x \in Events : Read(x)' \/ \E p \in 1 .. n + m : queue'[p] = x}
    BY <1>1 DEF Given, Ahead
  <2>4. \A x : Read(x)' <=> Read(x)
    BY DEF Read
  <2>5. \A x : x \in Given <=> x \in Events /\ (Read(x) \/ \E p \in 1 .. n : queue[p] = x)
    BY <2>2
  <2>6. \A x : x \in Given' <=> x \in Events /\ (Read(x)' \/ \E p \in 1 .. n + m : queue'[p] = x)
    BY <2>3
  <2>7. \A x : x \in Given' <=> x \in Given
    BY <2>1, <2>4, <2>5, <2>6
  <2> QED BY <2>7, Zenon
<1> QED BY <1>4, <1>5

(* The bridge ends the queue: the error comes first, or every step is      *)
(* complete and every worker is gone.                                      *)
LEMMA FollowingClose ==
  ASSUME TypeOK, EndInv, Following, Close
  PROVE  Following'
<1>1. /\ orch = "closing" /\ orch' = "ended" /\ Live = {} /\ log' = log /\ consumer' = consumer
      /\ status' = status /\ outputs' = outputs /\ attempts' = attempts
      /\ slot' = slot /\ senders' = senders /\ worker' = worker
      /\ cancelled' = cancelled /\ failed' = failed
  BY DEF Close, plan, stream
<1>2. \A i \in 1 .. Len(queue) : ~ IsEnd(queue[i])
  BY <1>1 DEF EndInv
<1> PICK err, end : err = [kind |-> "error"] /\ end = [kind |-> "sentinel"]
  OBVIOUS
<1>3. /\ err \in EndItems /\ end \in EndItems /\ err.kind = "error"
  BY DEF EndItems
<1> PICK n \in Nat : n = Len(queue)
  BY DEF TypeOK
<1>4. \/ queue' = queue \o <<err, end>>
      \/ ~ failed /\ ~ cancelled /\ queue' = queue \o <<end>>
  BY DEF Close
<1>5. <<err, end>> \in Seq(EndItems) /\ <<end>> \in Seq(EndItems)
  BY <1>3
<1>6. QueueAllowed' /\ Given' = Given
  BY <1>1, <1>4, <1>5, QueueEnded DEF Following
<1>7. EndsLast'
  <2>1. CASE queue' = queue \o <<err, end>>
    <3>1. /\ Len(queue') = n + 2 /\ queue'[n + 1] = err
          /\ \A p \in 1 .. n : queue'[p] = queue[p]
      BY <2>1, <1>5 DEF TypeOK
    <3>2. n + 1 \in 1 .. Len(queue') /\ \A j \in 1 .. (n + 1) - 1 : ~ IsEnd(queue'[j])
      BY <1>2, <3>1
    <3>3. ErrorFirst'
      BY <1>3, <3>1, <3>2 DEF ErrorFirst, IsEnd
    <3> QED BY <3>3 DEF EndsLast
  <2>2. CASE ~ failed /\ ~ cancelled /\ queue' = queue \o <<end>>
    <3>1. /\ Len(queue') = n + 1 /\ DOMAIN queue' = 1 .. n + 1
          /\ \A p \in 1 .. n : queue'[p] = queue[p] /\ queue[p] \in Events \cup EndItems
      BY <2>2, <1>5 DEF TypeOK
    <3>2. \A p \in 1 .. n : queue'[p] \in Events
      BY <1>2, <3>1, EndItemsAre
    <3>3. \A p \in DOMAIN queue' : p # Len(queue') => queue'[p] \in Events
      BY <3>1, <3>2
    <3> QED BY <1>1, <2>2, <3>3 DEF EndsLast, Clear
  <2> QED BY <1>4, <2>1, <2>2
<1>8. ~ failed => Rested' /\ slot = << >>
  <2> SUFFICES ASSUME ~ failed PROVE Rested' /\ slot = << >>
    OBVIOUS
  <2>1. Slotted /\ Rested
    BY DEF Following
  <2>2. slot # << >> => 1 \in DOMAIN slot
    BY DEF TypeOK
  <2>3. slot = << >>
    BY <1>1, <2>1, <2>2 DEF Slotted, Handed
  <2> QED BY <1>1, <2>1, <2>3 DEF Rested, Clear, IsComplete, Live
<1> QED BY <1>1, <1>6, <1>7, <1>8, FollowingSame

(* sq holds v. *)
Holds(sq, v) == \E i \in DOMAIN sq : sq[i] = v

(* Membership in a sequence with one more item. *)
LEMMA AppendHas ==
  ASSUME NEW S, NEW sq \in Seq(S), NEW r \in S, NEW v
  PROVE  Holds(Append(sq, r), v) <=> Holds(sq, v) \/ v = r
<1> PICK n \in Nat : n = Len(sq)
  OBVIOUS
<1>1. /\ DOMAIN sq = 1 .. n /\ DOMAIN Append(sq, r) = 1 .. n + 1
      /\ \A i \in 1 .. n : Append(sq, r)[i] = sq[i]
      /\ Append(sq, r)[n + 1] = r
  OBVIOUS
<1>2. /\ \A i \in 1 .. n + 1 : i \in 1 .. n \/ i = n + 1
      /\ \A i \in 1 .. n : i \in 1 .. n + 1
      /\ n + 1 \in 1 .. n + 1
  OBVIOUS
<1> QED BY <1>1, <1>2 DEF Holds

(* What the consumer reads was ahead of the rest of the queue and still is. *)
LEMMA ConsumeIs ==
  ASSUME TypeOK, Consume
  PROVE  /\ Len(queue) \in Nat \ {0} /\ Len(queue') = Len(queue) - 1
         /\ Head(queue) = queue[1] /\ queue[1] \in Events \cup EndItems
         /\ \A p \in 1 .. Len(queue') : queue'[p] = queue[p + 1]
         /\ DOMAIN queue' = 1 .. Len(queue') /\ DOMAIN queue = 1 .. Len(queue)
         /\ \A x \in Events : Read(x)' <=> Read(x) \/ x = queue[1]
         /\ \A p \in 1 .. Len(queue) : Ahead(p)' = Ahead(p + 1)
         /\ Given' = Given
<1>1. /\ Len(queue) \in Nat \ {0} /\ Len(queue') = Len(queue) - 1
      /\ Head(queue) = queue[1] /\ queue[1] \in Events \cup EndItems
      /\ \A p \in 1 .. Len(queue') : queue'[p] = queue[p + 1]
      /\ DOMAIN queue' = 1 .. Len(queue') /\ DOMAIN queue = 1 .. Len(queue)
  BY DEF Consume, TypeOK
<1> PICK n \in Nat \ {0} : n = Len(queue)
  BY <1>1
<1> PICK item : item = queue[1]
  OBVIOUS
<1>2. \A x \in Events : Read(x)' <=> Read(x) \/ x = item
  <2>1. CASE item \in EndItems
    <3>1. log' = log
      BY <1>1, <2>1 DEF Consume
    <3>2. item \notin Events
      BY <2>1, EndItemsAre
    <3> QED BY <3>1, <3>2 DEF Read
  <2>2. CASE item \notin EndItems
    <3>r. PICK s, r : s = item.step /\ r = [kind |-> item.kind, att |-> item.att]
      OBVIOUS
    <3>1. item \in Events /\ s \in Steps
      BY <1>1, <2>2, <3>r, EventOf
    <3>2. log' = [log EXCEPT ![s] = Append(@, r)]
      BY <1>1, <2>2, <3>r DEF Consume
    <3>3. /\ log \in [Steps -> Seq([kind : Kinds, att : Nat])]
          /\ r \in [kind : Kinds, att : Nat]
      BY <3>r, <3>1, EventOf DEF TypeOK
    <3>4. log'[s] = Append(log[s], r) /\ \A u \in Steps : u # s => log'[u] = log[u]
      BY <3>1, <3>2, <3>3
    <3> SUFFICES ASSUME NEW x \in Events PROVE Read(x)' <=> Read(x) \/ x = item
      OBVIOUS
    <3>v. PICK v : v = [kind |-> x.kind, att |-> x.att]
      OBVIOUS
    <3>5. x = item <=> x.step = s /\ v = r
      <4>1. x = Event(x.step, x.att, x.kind) /\ item = Event(item.step, item.att, item.kind)
        BY <3>1, EventOf
      <4>2. v = r => x.kind = item.kind /\ x.att = item.att
        <5>1. v.kind = x.kind /\ v.att = x.att /\ r.kind = item.kind /\ r.att = item.att
          BY <3>r, <3>v
        <5> QED BY <5>1
      <4>3. x = item => v = r /\ x.step = s
        BY <3>r, <3>v
      <4> QED BY <3>r, <4>1, <4>2, <4>3 DEF Event
    <3>6. CASE x.step # s
      BY <3>4, <3>5, <3>6, EventOf DEF Read
    <3>7. CASE x.step = s
      <4>0. PICK R, sq : R = [kind : Kinds, att : Nat] /\ sq = log[s]
        OBVIOUS
      <4>1. sq \in Seq(R) /\ r \in R
        BY <3>1, <3>3, <4>0
      <4>2. Holds(Append(sq, r), v) <=> Holds(sq, v) \/ v = r
        BY <4>1, AppendHas
      <4>3. Read(x)' <=> Holds(Append(sq, r), v)
        BY <3>v, <3>4, <3>7, <4>0 DEF Read, Holds
      <4>4. Read(x) <=> Holds(sq, v)
        BY <3>v, <3>7, <4>0 DEF Read, Holds
      <4> QED BY <3>5, <3>7, <4>2, <4>3, <4>4
    <3> QED BY <3>6, <3>7
  <2> QED BY <2>1, <2>2
<1>3. ASSUME NEW p \in 1 .. n PROVE Ahead(p)' = Ahead(p + 1)
  <2>1. ASSUME NEW x \in Events
        PROVE  (\E q \in 1 .. p : queue[q] = x) <=> x = item \/ \E q \in 1 .. p - 1 : queue'[q] = x
    <3>1. ASSUME NEW q \in 1 .. p, queue[q] = x
          PROVE  x = item \/ \E r \in 1 .. p - 1 : queue'[r] = x
      <4>1. CASE q = 1
        BY <3>1, <4>1
      <4>2. CASE q # 1
        <5>1. q - 1 \in 1 .. p - 1 /\ q - 1 \in 1 .. Len(queue') /\ (q - 1) + 1 = q
          BY <1>1, <4>2
        <5>2. queue'[q - 1] = x
          BY <1>1, <3>1, <5>1
        <5> QED BY <5>1, <5>2
      <4> QED BY <4>1, <4>2
    <3>2. ASSUME NEW q \in 1 .. p - 1, queue'[q] = x PROVE \E r \in 1 .. p : queue[r] = x
      <4>1. q + 1 \in 1 .. p /\ q \in 1 .. Len(queue')
        BY <1>1
      <4>2. queue[q + 1] = x
        BY <1>1, <3>2, <4>1
      <4> QED BY <4>1, <4>2
    <3>3. 1 \in 1 .. p /\ queue[1] = item
      OBVIOUS
    <3> QED BY <3>1, <3>2, <3>3
  <2>2. ASSUME NEW x PROVE x \in Ahead(p)' <=> x \in Ahead(p + 1)
    <3>1. x \in Ahead(p)' <=> x \in Events /\ (Read(x)' \/ \E q \in 1 .. p - 1 : queue'[q] = x)
      BY DEF Ahead
    <3>2. x \in Ahead(p + 1) <=> x \in Events /\ (Read(x) \/ \E q \in 1 .. p : queue[q] = x)
      <4>1. (p + 1) - 1 = p
        OBVIOUS
      <4> QED BY <4>1 DEF Ahead
    <3> QED BY <1>2, <2>1, <3>1, <3>2
  <2> QED BY <2>2, Zenon
<1>4. Given' = Given
  <2>1. n \in 1 .. n /\ Len(queue') + 1 = n
    BY <1>1
  <2>2. \A p : p = Len(queue') + 1 => Given' = Ahead(p)'
    BY DEF Given
  <2>3. Given' = Ahead(n)'
    BY <2>1, <2>2
  <2>4. Given = Ahead(n + 1)
    BY DEF Given
  <2> QED BY <1>3, <2>1, <2>3, <2>4
<1> QED BY <1>1, <1>2, <1>3, <1>4

(* The consumer reads the next item. *)
LEMMA FollowingConsume ==
  ASSUME TypeOK, Following, Consume
  PROVE  Following'
<1> PICK n \in Nat \ {0} : n = Len(queue)
  BY ConsumeIs
<1>1. /\ status' = status /\ outputs' = outputs /\ attempts' = attempts
      /\ slot' = slot /\ senders' = senders /\ worker' = worker
      /\ cancelled' = cancelled /\ failed' = failed /\ orch' = orch
      /\ consumer = "iterating"
      /\ queue[1] \in EndItems => consumer' # "iterating"
  BY ConsumeIs DEF Consume, plan, stream
<1>2. /\ Len(queue') = n - 1 /\ \A p \in 1 .. n - 1 : queue'[p] = queue[p + 1]
      /\ DOMAIN queue' = 1 .. n - 1 /\ DOMAIN queue = 1 .. n
      /\ \A p \in 1 .. n : Ahead(p)' = Ahead(p + 1)
      /\ Given' = Given /\ queue[1] \in Events \cup EndItems
  BY ConsumeIs
<1>3. QueueAllowed'
  <2>1. ASSUME NEW p \in DOMAIN queue', queue'[p] \in Events
        PROVE  Allowed(queue'[p], Ahead(p)')
    <3>1. p \in 1 .. n /\ p + 1 \in 1 .. n /\ queue'[p] = queue[p + 1]
      BY <1>2
    <3>2. Allowed(queue[p + 1], Ahead(p + 1))
      BY <1>2, <2>1, <3>1 DEF Following, QueueAllowed
    <3> QED BY <1>2, <3>1, <3>2
  <2>2. \A e, A : Allowed(e, A)' <=> Allowed(e, A)
    BY AllowedAlways
  <2> QED BY <2>1, <2>2 DEF QueueAllowed
<1>4. EndsLast'
  <2> SUFFICES ASSUME orch = "ended", consumer' = "iterating"
               PROVE  \/ ErrorFirst'
                      \/ Clear' /\ \A p \in DOMAIN queue' : p # Len(queue') => queue'[p] \in Events
    BY <1>1 DEF EndsLast
  <2>1. queue[1] \in Events /\ ~ IsEnd(queue[1])
    BY <1>1, <1>2 DEF Events, Kinds, IsEnd
  <2>2. CASE ErrorFirst
    <3>1. PICK i \in 1 .. n : queue[i].kind = "error" /\ \A j \in 1 .. i - 1 : ~ IsEnd(queue[j])
      BY <2>2 DEF ErrorFirst
    <3>2. i # 1
      BY <2>1, <3>1 DEF IsEnd
    <3>3. i - 1 \in 1 .. n - 1 /\ (i - 1) + 1 = i
      BY <3>2
    <3>4. queue'[i - 1].kind = "error"
      BY <1>2, <3>1, <3>3
    <3>5. ASSUME NEW j \in 1 .. (i - 1) - 1 PROVE ~ IsEnd(queue'[j])
      <4>1. j + 1 \in 1 .. i - 1 /\ j \in 1 .. n - 1
        OBVIOUS
      <4> QED BY <1>2, <3>1, <4>1
    <3> QED BY <1>2, <3>3, <3>4, <3>5 DEF ErrorFirst, IsEnd
  <2>3. CASE Clear /\ \A p \in DOMAIN queue : p # Len(queue) => queue[p] \in Events
    <3>1. ASSUME NEW p \in DOMAIN queue', p # Len(queue') PROVE queue'[p] \in Events
      <4>1. p + 1 \in 1 .. n /\ p + 1 # n /\ queue'[p] = queue[p + 1]
        BY <1>2, <3>1
      <4> QED BY <1>2, <2>3, <4>1
    <3> QED BY <1>1, <2>3, <3>1 DEF Clear
  <2> QED BY <1>1, <2>2, <2>3 DEF Following, EndsLast
<1>5. /\ failed => orch' \in {"closing", "ended"}
      /\ ~ failed => Rested' /\ (slot = << >> \/ orch' \in {"waiting", "drain_wait"})
  <2>1. failed => orch \in {"closing", "ended"}
    BY DEF Following
  <2>2. ASSUME ~ failed PROVE Rested' /\ (slot = << >> \/ orch' \in {"waiting", "drain_wait"})
    <3>1. Slotted /\ Rested
      BY <2>2 DEF Following
    <3>2. slot # << >> => 1 \in DOMAIN slot
      BY DEF TypeOK
    <3> QED BY <1>1, <3>1, <3>2 DEF Slotted, Handed, Rested, Clear, IsComplete, Live
  <2> QED BY <1>1, <2>1, <2>2
<1> QED BY <1>1, <1>2, <1>3, <1>4, <1>5, FollowingSame

------------------------------------------------------------------------------
(* At the start no step is skipped or abandoned.                            *)
LEMMA FollowingInit == Init => Following
<1> SUFFICES ASSUME Init PROVE Following
  OBVIOUS
<1>0. TypeOK
  BY InitType
<1>1. /\ queue = << >> /\ slot = << >> /\ senders = << >> /\ orch = "schedule" /\ ~ failed
      /\ outputs = {} /\ attempts = [s \in Steps |-> 0] /\ log = [s \in Steps |-> << >>]
      /\ \A w \in Workers : worker[w] = "none"
  BY DEF Init
<1> PICK st : st = [s \in Steps |-> "pending"]
  OBVIOUS
<1> PICK now : now = status
  OBVIOUS
<1>2. st \in [Steps -> Status] /\ now = Settle(st, {}, {}) /\ \A s \in Steps : st[s] = "pending"
  BY DEF Init, Status
<1>3. /\ now \in [Steps -> Status]
      /\ \A s \in Steps :
           /\ now[s] = "skipped" => /\ ~ Deps[s] \subseteq {}
                                    /\ \A d \in Deps[s] : now[d] = "skipped"
           /\ now[s] = "abandoned" => \E d \in Deps[s] : now[d] \in {"failed", "abandoned"}
           /\ now[s] \in {"pending", "skipped", "abandoned", "executable"}
      /\ SkipRule(now, {}, {}) = {}
  <2>1. \A s \in Steps : Deps[s] \subseteq Steps
    BY PlanAssumption
  <2>2. /\ now \in [Steps -> Status]
        /\ \A s \in Steps :
             /\ now[s] = "skipped" /\ st[s] # "skipped" =>
                  /\ ~ Deps[s] \subseteq {}
                  /\ \A d \in Deps[s] : \/ st[d] \in {"success", "skipped"}
                                        \/ now[d] = "skipped" /\ st[d] # "skipped"
             /\ now[s] = "abandoned" /\ st[s] # "abandoned" =>
                  \E d \in Deps[s] : now[d] \in {"failed", "abandoned"}
        /\ SkipRule(now, {}, {}) = {}
    BY <1>2, SettleIs
  <2>3. \A s \in Steps : now[s] \in {"pending", "skipped", "abandoned", "executable"}
    BY <1>2, SettleSteps
  <2> QED BY <1>2, <2>1, <2>2, <2>3
<1>4. \A s \in Steps : now[s] # "skipped"
  <2> PICK S : S = StepsIn(now, {"skipped"})
    OBVIOUS
  <2> SUFFICES ASSUME S # {} PROVE FALSE
    BY DEF StepsIn
  <2>1. PICK s \in S : Deps[s] \cap S = {}
    BY PlanAssumption DEF StepsIn
  <2>2. s \in Steps /\ now[s] = "skipped" /\ Deps[s] \subseteq Steps
    BY PlanAssumption DEF StepsIn
  <2> QED BY <1>3, <2>1, <2>2 DEF StepsIn
<1>5. \A s \in Steps : now[s] # "abandoned"
  <2> PICK S : S = StepsIn(now, {"abandoned"})
    OBVIOUS
  <2> SUFFICES ASSUME S # {} PROVE FALSE
    BY DEF StepsIn
  <2>1. PICK s \in S : Deps[s] \cap S = {}
    BY PlanAssumption DEF StepsIn
  <2>2. s \in Steps /\ now[s] = "abandoned" /\ Deps[s] \subseteq Steps
    BY PlanAssumption DEF StepsIn
  <2> QED BY <1>3, <2>1, <2>2 DEF StepsIn
<1>6. Given = {} /\ Handed = {} /\ InTransit = {}
  <2>1. \A e \in Events : ~ Read(e)
    <3>1. \A s \in Steps : log[s] = << >>
      BY <1>1
    <3> QED BY <3>1, EventOf DEF Read
  <2> QED BY <1>1, <2>1 DEF Given, Ahead, Handed, InTransit
<1>7. Mirrored
  <2>1. \A s \in Steps : MirrorStep(s, now, {}, [u \in Steps |-> 0], {})
    BY <1>3, <1>4, <1>5 DEF MirrorStep, Some
  <2> QED BY <1>1, <1>6, <2>1 DEF Mirrored, Mirror
<1>8. Lines
  <2>1. \A w \in Workers : Word(w)
    BY <1>1, <1>6 DEF Word, Silent, Uttered
  <2> QED BY <1>1, <2>1 DEF Lines
<1>9. QueueAllowed /\ EndsLast /\ Rested /\ Slotted
  BY <1>1, <1>6 DEF QueueAllowed, EndsLast, Rested, Slotted
<1> QED BY <1>1, <1>7, <1>8, <1>9 DEF Following

(* Following is inductive on top of the invariants proved above. *)
LEMMA FollowingAlways == ASSUME PlainEnds PROVE Spec => []Following
<1>1. TypeOK /\ Counted /\ Clean /\ UpstreamFirst /\ EndInv /\ Following /\ [Next]_vars
        => Following'
  <2> SUFFICES ASSUME TypeOK, Counted, Clean, UpstreamFirst, EndInv, Following, [Next]_vars
               PROVE  Following'
    OBVIOUS
  <2>1. CASE \E batch, refused \in SUBSET Steps : Schedule(batch, refused)
    BY <2>1, FollowingSchedule
  <2>2. CASE \/ LoopDone \/ Arm \/ Timeout \/ EndOfStream \/ OrchCancelled
             \/ \E s \in Steps : Ripen(s)
             \/ Interrupt \/ LeavePortal \/ UNCHANGED vars
    BY <2>2, FollowingWaits
  <2>3. CASE Close
    BY <2>3, FollowingClose
  <2>4. CASE \/ Receive("receive", "waiting", "schedule")
             \/ Receive("drain", "drain_wait", "drain")
    BY <2>4, FollowingReceive
  <2>5. CASE Wake("waiting", "schedule") \/ Wake("drain_wait", "drain")
    BY <2>5, FollowingWake
  <2>6. CASE \E w \in Workers : Working(w)
    BY <2>6, FollowingWorking
  <2>7. CASE Consume
    BY <2>7, FollowingConsume
  <2> QED BY <2>1, <2>2, <2>3, <2>4, <2>5, <2>6, <2>7 DEF Next, Scheduling, Consuming, Finished
<1>2. CleanHooks
  BY DEF CleanHooks, PlainEnds
<1>3. Spec => []Clean
  BY <1>2, CleanAlways
<1> QED BY <1>1, <1>3, FollowingInit, TypeCorrect, CountedAlways, UpstreamAlwaysFirst,
           EndInvariant, PTL DEF Spec

------------------------------------------------------------------------------
(* What the consumer has read is what the log of RunLog holds.              *)
LEMMA LogIs ==
  ASSUME TypeOK, NEW s \in Steps
  PROVE  /\ \A k \in Kinds, a \in Nat : Promise!Has(s, k, a) <=> Event(s, a, k) \in Ahead(1)
         /\ \A k \in Kinds : Promise!HasKind(s, k) <=> Some(Ahead(1), s, k)
         /\ log[s] = << >> <=> \A e \in Ahead(1) : e.step # s
<1>1. log[s] \in Seq([kind : Kinds, att : Nat])
  BY DEF TypeOK
<1>2. \A e : e \in Ahead(1) <=> e \in Events /\ Read(e)
  BY DEF Ahead
<1>3. ASSUME NEW k \in Kinds, NEW a \in Nat
      PROVE  Promise!Has(s, k, a) <=> Event(s, a, k) \in Ahead(1)
  <2>1. Event(s, a, k) \in Events
    BY EventIs
  <2>2. Read(Event(s, a, k)) <=> Promise!Has(s, k, a)
    BY EventIs DEF Read, Promise!Has
  <2> QED BY <1>2, <2>1, <2>2
<1>4. ASSUME NEW i \in DOMAIN log[s]
      PROVE  /\ log[s][i].kind \in Kinds /\ log[s][i].att \in Nat
             /\ Promise!Has(s, log[s][i].kind, log[s][i].att)
  <2>1. log[s][i] \in [kind : Kinds, att : Nat]
    <3>1. PICK sq, R : sq = log[s] /\ R = [kind : Kinds, att : Nat]
      OBVIOUS
    <3>2. sq \in Seq(R) /\ i \in DOMAIN sq
      BY <1>1, <3>1
    <3>3. sq[i] \in R
      BY <3>2
    <3> QED BY <3>1, <3>3
  <2>2. log[s][i] = [kind |-> log[s][i].kind, att |-> log[s][i].att]
    BY <2>1
  <2> QED BY <2>1, <2>2 DEF Promise!Has
<1>5. \A k, a : Promise!Has(s, k, a) => \E i \in DOMAIN log[s] : log[s][i].kind = k
  BY DEF Promise!Has
<1>6. ASSUME NEW e \in Ahead(1), e.step = s
      PROVE  e.kind \in Kinds /\ e.att \in Nat /\ Promise!Has(s, e.kind, e.att)
  <2>1. e \in Events /\ e.kind \in Kinds /\ e.att \in Nat /\ e = Event(s, e.att, e.kind)
    BY <1>2, <1>6, EventOf
  <2> QED BY <1>3, <1>6, <2>1
<1>7. ASSUME NEW k \in Kinds
      PROVE  Promise!HasKind(s, k) <=> Some(Ahead(1), s, k)
  <2>1. ASSUME Promise!HasKind(s, k) PROVE Some(Ahead(1), s, k)
    <3>1. PICK i \in DOMAIN log[s] : log[s][i].kind = k
      BY <2>1 DEF Promise!HasKind
    <3>2. PICK a \in Nat : a = log[s][i].att
      BY <1>4
    <3>3. Event(s, a, k) \in Ahead(1)
      BY <1>3, <1>4, <3>1, <3>2
    <3> QED BY <3>3, EventIs DEF Some
  <2>2. ASSUME Some(Ahead(1), s, k) PROVE Promise!HasKind(s, k)
    <3>1. PICK e \in Ahead(1) : e.step = s /\ e.kind = k
      BY <2>2 DEF Some
    <3>2. \E i \in DOMAIN log[s] : log[s][i].kind = k
      BY <1>5, <1>6, <3>1
    <3> QED BY <3>2 DEF Promise!HasKind
  <2> QED BY <2>1, <2>2
<1>8. log[s] = << >> <=> \A e \in Ahead(1) : e.step # s
  <2>1. ASSUME log[s] # << >> PROVE \E e \in Ahead(1) : e.step = s
    <3>1. 1 \in DOMAIN log[s]
      BY <1>1, <2>1
    <3>2. PICK k \in Kinds, a \in Nat : Promise!Has(s, k, a)
      BY <1>4, <3>1
    <3>3. Event(s, a, k) \in Ahead(1)
      BY <1>3, <3>2
    <3> QED BY <3>3, EventIs
  <2>2. ASSUME NEW e \in Ahead(1), e.step = s PROVE log[s] # << >>
    <3>1. \E i \in DOMAIN log[s] : TRUE
      BY <1>5, <1>6, <2>2
    <3> QED BY <3>1
  <2> QED BY <2>1, <2>2
<1> QED BY <1>3, <1>7, <1>8

(* An event that is read is a step of RunLog.                               *)
LEMMA EventPromised ==
  ASSUME TypeOK, QueueAllowed, Consume, queue[1] \in Events
  PROVE  Promise!Next
<1> PICK e, s, a, k : e = queue[1] /\ s = e.step /\ a = e.att /\ k = e.kind
  OBVIOUS
<1>1. /\ e \in Events /\ s \in Steps /\ a \in Nat /\ k \in Kinds
  BY EventOf
<1>2. Allowed(e, Ahead(1))
  <2>1. 1 \in DOMAIN queue
    BY ConsumeIs
  <2> QED BY <1>1, <2>1 DEF QueueAllowed
<1>3. Promise!Add(s, k, a)
  <2>1. e \notin EndItems /\ Head(queue) = e
    BY <1>1, ConsumeIs, EndItemsAre
  <2>2. log' = [log EXCEPT ![s] = Append(@, [kind |-> k, att |-> a])] /\ consumer' = consumer
          /\ consumer = "iterating"
    BY <2>1 DEF Consume
  <2> QED BY <2>2 DEF Promise!Add, RunResult
<1>4. \A d \in Deps[s] : d \in Steps
  BY <1>1, PlanAssumption
<1>5. {"start", "output", "success", "failure", "retry", "hook", "skipped"} = Kinds
      /\ AttemptEnds = {"success", "failure", "retry"}
  BY DEF Kinds, AttemptEnds
<1>6. CASE k = "skipped"
  <2>1. a = 0 /\ SkipOK(s, Ahead(1))
    BY <1>2, <1>6 DEF Allowed
  <2>2. log[s] = << >>
    BY <1>1, <2>1, LogIs DEF SkipOK
  <2>3. \A d \in Deps[s] : Promise!HasKind(d, "success") \/ Promise!HasKind(d, "skipped")
    BY <1>4, <1>5, <2>1, LogIs DEF SkipOK
  <2>4. \E d \in Deps[s] : ~ Promise!HasKind(d, "output")
    BY <1>4, <1>5, <2>1, LogIs DEF SkipOK
  <2>5. Promise!Skip(s)
    BY <1>3, <1>6, <2>1, <2>2, <2>3, <2>4 DEF Promise!Skip
  <2> QED BY <1>1, <2>5 DEF Promise!Next
<1>7. CASE k # "skipped"
  <2>1. Spoken(e, Ahead(1))
    BY <1>2, <1>7 DEF Allowed
  <2>2. <<s, a>> \in Workers
    BY <2>1 DEF Spoken
  <2>3. a \in 1 .. MaxRetries[s] + 1
    <3> PICK w : w = <<s, a>>
      OBVIOUS
    <3>1. w[1] = s /\ w[2] = a /\ w \in Workers
      BY <2>2
    <3>2. w[2] \in Nat \ {0} /\ w[2] <= MaxRetries[w[1]] + 1 /\ MaxRetries[w[1]] \in Nat
      BY <3>1, WorkersAre
    <3> QED BY <3>1, <3>2
  <2>4. \A c \in Kinds : Promise!Has(s, c, a) <=> Event(s, a, c) \in Ahead(1)
    BY <1>1, LogIs
  <2>5. Promise!Started(s, a) <=> Event(s, a, "start") \in Ahead(1)
    BY <1>5, <2>4 DEF Promise!Started
  <2>6. Promise!Ended(s, a) <=> Ceased(Ahead(1), s, a)
    BY <1>5, <2>4 DEF Promise!Ended, Ceased
  <2>7. CASE k = "start"
    <3>1. StartOK(s, a, Ahead(1))
      BY <2>1, <2>7 DEF Spoken
    <3>2. a > 1 => Promise!Has(s, "retry", a - 1)
      <4> SUFFICES ASSUME a > 1 PROVE Promise!Has(s, "retry", a - 1)
        OBVIOUS
      <4>1. \A c \in Kinds, b \in Nat : Promise!Has(s, c, b) <=> Event(s, b, c) \in Ahead(1)
        BY <1>1, LogIs
      <4>2. a - 1 \in Nat /\ "retry" \in Kinds
        BY <1>1, <1>5
      <4>3. Event(s, a - 1, "retry") \in Ahead(1)
        BY <3>1 DEF StartOK
      <4> QED BY <4>1, <4>2, <4>3
    <3>3. \A d \in Deps[s] : Promise!HasKind(d, "output") /\ Promise!HasKind(d, "success")
      BY <1>4, <1>5, <3>1, LogIs DEF StartOK
    <3>4. Promise!Start(s, a)
      BY <1>3, <2>5, <2>7, <3>1, <3>2, <3>3 DEF Promise!Start, StartOK
    <3> QED BY <1>1, <2>3, <3>4 DEF Promise!Next
  <2>8. CASE k = "output"
    <3>1. OutputOK(s, a, Ahead(1))
      BY <2>1, <2>8 DEF Spoken
    <3>2. Promise!Output(s, a)
      BY <1>3, <1>5, <2>4, <2>5, <2>6, <2>8, <3>1 DEF Promise!Output, OutputOK
    <3> QED BY <1>1, <2>3, <3>2 DEF Promise!Next
  <2>9. CASE k \in AttemptEnds
    <3>1. EndOK(s, a, k, Ahead(1))
      BY <2>1, <2>9 DEF Spoken
    <3>2. Promise!End(s, a, k)
      BY <1>3, <2>5, <2>6, <3>1 DEF Promise!End, EndOK
    <3> QED BY <1>1, <1>5, <2>3, <2>9, <3>2 DEF Promise!Next
  <2>10. CASE k = "hook"
    <3>1. HookOK(s, a, Ahead(1))
      BY <2>1, <2>10 DEF Spoken
    <3>2. Promise!Hook(s, a)
      BY <1>3, <1>5, <2>4, <2>6, <2>10, <3>1 DEF Promise!Hook, HookOK
    <3> QED BY <1>1, <2>3, <3>2 DEF Promise!Next
  <2> QED BY <1>1, <1>5, <1>7, <2>7, <2>8, <2>9, <2>10
<1> QED BY <1>6, <1>7

(* An iteration that ends well ends when every step is accounted for.       *)
LEMMA EndPromised ==
  ASSUME TypeOK, EndInv, Following, Consume, queue[1] \notin Events
  PROVE  Promise!Next
<1> PICK item : item = queue[1]
  OBVIOUS
<1>1. /\ item \in EndItems /\ item \notin Events /\ IsEnd(item) /\ Head(queue) = item
      /\ Len(queue) \in Nat \ {0} /\ DOMAIN queue = 1 .. Len(queue)
  BY ConsumeIs, EndItemsAre
<1>2. /\ consumer = "iterating" /\ log' = log
      /\ consumer' = IF item.kind = "error" THEN "error" ELSE "ok"
  BY <1>1 DEF Consume
<1>3. CASE item.kind = "error"
  BY <1>2, <1>3 DEF Promise!Next, Promise!Finish, RunResult
<1>4. CASE item.kind # "error"
  <2>1. orch = "ended"
    <3>1. 1 \in 1 .. Len(queue)
      BY <1>1
    <3> QED BY <1>1, <3>1 DEF EndInv
  <2>2. ~ ErrorFirst
    <3> SUFFICES ASSUME NEW i \in 1 .. Len(queue), queue[i].kind = "error",
                        \A j \in 1 .. i - 1 : ~ IsEnd(queue[j])
                 PROVE  FALSE
      BY DEF ErrorFirst
    <3>1. i # 1 /\ 1 \in 1 .. i - 1
      BY <1>1, <1>4
    <3> QED BY <1>1, <3>1
  <2>3. Clear /\ Len(queue) = 1
    <3>1. Clear /\ \A p \in DOMAIN queue : p # Len(queue) => queue[p] \in Events
      BY <1>2, <2>1, <2>2 DEF Following, EndsLast
    <3> QED BY <1>1, <3>1
  <2>4. Given = Ahead(1)
    <3>1. Given = Ahead(2)
      BY <2>3 DEF Given
    <3>2. \A x : x \in Ahead(2) <=> x \in Events /\ (Read(x) \/ \E q \in 1 .. 1 : queue[q] = x)
      BY DEF Ahead
    <3>3. \A x : x \in Ahead(1) <=> x \in Events /\ (Read(x) \/ \E q \in 1 .. 0 : queue[q] = x)
      BY DEF Ahead
    <3>4. \A x : x \in Ahead(2) <=> x \in Ahead(1)
      BY <1>1, <3>2, <3>3
    <3> QED BY <3>1, <3>4, Zenon
  <2>5. Mirrored /\ Lines /\ IsComplete(status) /\ InTransit = {} /\ Live = {}
    <3>1. Mirrored /\ Rested /\ Lines
      BY <2>3 DEF Following, Clear
    <3> QED BY <2>1, <2>3, <3>1 DEF Rested, InTransit
  <2>6. \A s \in Steps : MirrorStep(s, status, outputs, attempts, Ahead(1))
    BY <2>4, <2>5 DEF Mirrored, Mirror
  <2>7. {"success", "failure", "retry", "skipped", "output", "hook"} \subseteq Kinds
    BY DEF Kinds
  <2>8. ASSUME NEW s \in Steps, status[s] = "abandoned" PROVE log[s] = << >> /\ Promise!CutOff(s)
    <3> PICK S : S = StepsIn(status, {"failed", "abandoned"})
      OBVIOUS
    <3>1. s \in S /\ S \in SUBSET Steps
      BY <2>8 DEF StepsIn
    <3>2. ASSUME NEW t \in Steps, status[t] = "abandoned"
          PROVE  log[t] = << >> /\ Deps[t] \cap S # {}
      <4>1. \A e \in Ahead(1) : e.step # t
        BY <2>6, <3>2 DEF MirrorStep
      <4>2. PICK d \in Deps[t] : status[d] \in {"failed", "abandoned"}
        BY <2>6, <3>2 DEF MirrorStep
      <4>3. d \in S
        BY <4>2, PlanAssumption DEF StepsIn
      <4> QED BY <4>1, <4>3, LogIs
    <3>3. ASSUME NEW t \in Steps, status[t] = "failed" PROVE Promise!HasKind(t, "failure")
      BY <2>6, <2>7, <3>3, LogIs DEF MirrorStep
    <3>4. \A t \in S : Promise!HasKind(t, "failure") \/ (log[t] = << >> /\ Deps[t] \cap S # {})
      BY <3>2, <3>3 DEF StepsIn
    <3> QED BY <2>8, <3>1, <3>2, <3>4 DEF Promise!CutOff
  <2>9. ASSUME NEW s \in Steps
        PROVE  \/ Promise!HasKind(s, "success") \/ Promise!HasKind(s, "failure")
               \/ Promise!HasKind(s, "skipped") \/ (log[s] = << >> /\ Promise!CutOff(s))
    <3>1. status[s] \in {"success", "failed", "skipped", "abandoned"}
      BY <2>5 DEF IsComplete, Terminal
    <3>2. \A k \in Kinds : Promise!HasKind(s, k) <=> Some(Ahead(1), s, k)
      BY LogIs
    <3>3. MirrorStep(s, status, outputs, attempts, Ahead(1))
      BY <2>6
    <3> QED BY <2>7, <2>8, <3>1, <3>2, <3>3 DEF MirrorStep
  <2>10. ASSUME NEW s \in Hooked, NEW a \in 1 .. MaxRetries[s] + 1, Promise!Ended(s, a)
         PROVE  Promise!Has(s, "hook", a)
    <3> PICK w : w = <<s, a>>
      OBVIOUS
    <3>1. s \in Steps /\ a \in Nat
      BY ExecutorAssumption
    <3>2. w \in Workers /\ w[1] = s /\ w[2] = a
      BY <3>1, WorkersAre
    <3>3. \A k \in Kinds : Promise!Has(s, k, a) <=> Uttered(w, k)
      BY <2>4, <2>5, <3>1, <3>2, LogIs DEF Uttered
    <3>4. \E k \in AttemptEnds : Uttered(w, k)
      BY <2>7, <2>10, <3>3 DEF Promise!Ended, AttemptEnds
    <3>5. Word(w)
      BY <2>5, <3>2 DEF Lines
    <3>6. worker[w] \in Gone
      BY <2>5, <3>2 DEF Live
    <3>7. worker[w] # "none"
      BY <3>4, <3>5 DEF Word, Silent, AttemptEnds, Kinds
    <3>8. worker[w] = "done"
      BY <3>5, <3>6, <3>7 DEF Word, Gone
    <3>9. Uttered(w, "hook")
      BY <3>2, <3>5, <3>8 DEF Word
    <3> QED BY <2>7, <3>3, <3>9
  <2>11. \A s \in Steps : Promise!Accounted(s)
    BY <2>9, <2>10 DEF Promise!Accounted
  <2> QED BY <1>2, <1>4, <2>11 DEF Promise!Next, Promise!Finish, RunResult
<1> QED BY <1>3, <1>4

(* The executor keeps the promise of RunLog to the code that iterates over  *)
(* its events, if no exception leaves a worker after the end of its attempt *)
(* (executor.py, lines 212-290 and 296-391): however workers interleave,    *)
(* whatever is retried, cancelled or interrupted.                           *)
THEOREM PromiseAlwaysKept == ASSUME PlainEnds PROVE Spec => PromiseKept
<1>1. Init => Promise!Init
  BY DEF Init, Promise!Init, RunResult
<1>2. TypeOK /\ EndInv /\ Following /\ [Next]_vars => [Promise!Next]_(Promise!vars)
  <2> SUFFICES ASSUME TypeOK, EndInv, Following, [Next]_vars
               PROVE  Promise!Next \/ UNCHANGED Promise!vars
    OBVIOUS
  <2>1. CASE Consume
    <3>1. CASE queue[1] \in Events
      BY <2>1, <3>1, EventPromised DEF Following
    <3>2. CASE queue[1] \notin Events
      BY <2>1, <3>2, EndPromised
    <3> QED BY <3>1, <3>2
  <2>2. CASE LeavePortal
    BY <2>2 DEF LeavePortal, Promise!Next, Promise!Finish, RunResult
  <2>3. CASE Interrupt
    BY <2>3 DEF Interrupt, Promise!vars, RunResult
  <2>4. CASE Scheduling \/ (\E w \in Workers : Working(w)) \/ (\E s \in Steps : Ripen(s))
               \/ UNCHANGED vars
    <3>1. log' = log /\ consumer' = consumer
      BY <2>4 DEF Scheduling, Schedule, LoopDone, Arm, Timeout, EndOfStream, OrchCancelled, Close,
             Receive, Wake, Working, StartStep, EmitOutput, Succeed, RequestRetry, Fail,
             TriggerHook, ReportException, Exit, Raise, SetupRaises, CancelWorker, Send, Leave,
             Ripen, bridge, vars
    <3> QED BY <3>1 DEF Promise!vars, RunResult
  <2> QED BY <2>1, <2>2, <2>3, <2>4 DEF Next, Consuming, Finished
<1> QED BY <1>1, <1>2, TypeCorrect, EndInvariant, FollowingAlways, PTL
        DEF Spec, PromiseKept, Promise!Spec
==============================================================================
