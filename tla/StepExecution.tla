---------------------------- MODULE StepExecution ----------------------------
(***************************************************************************)
(* dagster_async_executor/execution/plan: one attempt of one step, a chain *)
(* of asynchronous generators that the worker pulls.  The user's function  *)
(* yields or returns items (compute_generator.py, compute.py); an item     *)
(* becomes pieces, which are checked, type checked and stored one by one   *)
(* (execute_step.py); whatever is raised ends the attempt with one event   *)
(* (execute_plan.py).  The worker may be cancelled between any two events. *)
(***************************************************************************)
EXTENDS Naturals, SequencesExt

CONSTANTS OutSeq,     \* the step's outputs, in the order of their definition
          Checks,     \* those that stand for asset checks
          Assets,     \* those that stand for assets
          Nothings,   \* those of type Nothing
          Untyped,    \* those whose type was left open (Any)
          Optional,   \* those that are not required
          Children,   \* Children[o]: the assets of the step that depend on o
          Blocking,   \* the blocking checks
          NoOut,      \* the output of an event that is about none
          MaxRetries, \* max_retries of a RetryRequested
          MaxLog      \* bound: events of an attempt

Outs == ToSet(OutSeq)

ASSUME StepAssumption ==
  /\ OutSeq \in Seq(Outs) /\ IsInjective(OutSeq)
  /\ Checks \cup Assets \cup Nothings \cup Untyped \cup Optional \cup Blocking
       \subseteq Outs
  /\ Children \in [Outs -> SUBSET Assets]
  /\ NoOut \notin Outs
  /\ MaxRetries \in Nat /\ MaxLog \in Nat

VARIABLES step,    \* what is asked of the attempt (fixed)
          stage,   \* where the attempt is
          items,   \* what a function that returned has still to give
          pieces,  \* what the last item was turned into, still to be handled
          seen,    \* outputs observed by the checks on outputs
          emitted, \* outputs the function has given
          bare,    \* those given as asset results without a value
          storing, \* << >> or the output that is being stored
          blocked, \* blocking checks that failed with severity ERROR
          log      \* the events the worker has sent

given == <<items, pieces, emitted, bare>>
vars == <<step, stage, given, seen, storing, blocked, log>>

(* What a stored asset leaves in the log: a materialization; of a source   *)
(* asset an observation, which the function itself may have announced      *)
(* (SYSTEM_METADATA_KEY_SOURCE_ASSET_OBSERVATION); or nothing, when the    *)
(* run's assets are managed by another system.                             *)
Records == {"materialized", "observed", "announced", "external"}

Attempts == [selected : SUBSET Outs,  \* a required output is always selected
             typed    : BOOLEAN,      \* requires_typed_event_stream
             returns  : BOOLEAN,      \* the function returns, or is a generator
             retries  : BOOLEAN,      \* retry_mode is not disabled
             attempt  : 1 .. MaxRetries + 1,
             assets   : Records]

Required(s) == {o \in s.selected : o \notin Optional}
Observed(s) == IF s.assets \in {"observed", "announced"} THEN Assets ELSE {}
MayRetry(s) == s.retries /\ s.attempt <= MaxRetries

Event(k, o) == [kind |-> k, out |-> o]

Init ==
  /\ step \in {s \in Attempts : Outs \ s.selected \subseteq Optional}
  /\ stage = "spawned"
  /\ items = << >> /\ pieces = << >> /\ log = << >>
  /\ seen = {} /\ emitted = {} /\ bare = {} /\ blocked = {}
  /\ storing = << >>

------------------------------------------------------------------------------
(***************************************************************************)
(* What the function gives.  An item is an output, an asset result with    *)
(* the verdicts embedded in it, a check result, or a plain value.          *)
(***************************************************************************)
(* A check passed, or did not with severity WARN or ERROR. *)
Verdicts == [check : Checks, verdict : {"passed", "warned", "refuted"}]

Item(k, o, b, V) == [kind |-> k, out |-> o, bare |-> b, verdicts |-> V]
Output(o) == Item("output", o, FALSE, {})
Check(v) == Item("check", v.check, FALSE, {v})
Plain == Item("plain", NoOut, FALSE, {})
Wrong == Item("wrong", NoOut, FALSE, {})

(* A result may come without a value, which only an open type tells. *)
Results ==
  {Item("result", o, b, V) : o \in Assets, b \in BOOLEAN, V \in {{}} \cup {{v} : v \in Verdicts}}

Items ==
  {Output(o) : o \in Outs} \cup {Check(v) : v \in Verdicts}
  \cup {i \in Results : i.bare => i.out \in Untyped}

(* What can be returned: nothing, one item, or a tuple. *)
Returned ==
  {[tuple |-> FALSE, elems |-> << >>]}
  \cup {[tuple |-> FALSE, elems |-> <<i>>] : i \in Items \cup {Plain}}
  \cup {[tuple |-> TRUE, elems |-> <<i, j>>] : i, j \in Items \cup {Plain}}

(* The one sequence of some of the outputs in the order of their definition. *)
InOrder(S) ==
  {g \in Bijection(1 .. Cardinality(S), S) : \A i, j \in DOMAIN g :
     i < j => \E k, l \in DOMAIN OutSeq : k < l /\ OutSeq[k] = g[i] /\ OutSeq[l] = g[j]}

(* The outputs a return value must name: not the checks embedded in it. *)
Expected(r) ==
  LET embedded == {v.check : v \in UNION {r.elems[i].verdicts :
                     i \in {k \in DOMAIN r.elems : r.elems[k].kind = "result"}}}
  IN  Outs \ embedded

(* One element for one output: an asset result passes, an output must name *)
(* it, anything else, a check result in a tuple included, is its value.    *)
Coerced(i, o) ==
  CASE i.kind = "result" -> i
    [] i.kind = "output" -> IF i.out = o THEN i ELSE Wrong
    [] OTHER -> Output(o)

(* validate_and_coerce_op_result_to_iterator *)
Coerce(r, outs) ==
  LET one == ~ r.tuple /\ r.elems # << >>
  IN  CASE one /\ r.elems[1].kind = "check" -> r.elems
        [] OutSeq = << >> -> IF r.elems = << >> THEN << >> ELSE <<Wrong>>
        [] step.typed -> r.elems
        [] Len(outs) > 1 /\ r.elems = << >> ->
             IF ToSet(outs) \subseteq Nothings \ Optional
             THEN [k \in DOMAIN outs |-> Output(outs[k])] ELSE <<Wrong>>
        [] Len(outs) > 1 ->
             IF r.tuple /\ Len(r.elems) = Len(outs)
             THEN [k \in DOMAIN outs |-> Coerced(r.elems[k], outs[k])] ELSE <<Wrong>>
        [] OTHER -> <<Coerced(IF one THEN r.elems[1] ELSE Plain, OutSeq[1])>>

(***************************************************************************)
(* The pieces of an item: a selected check gives an output before its      *)
(* evaluation, an asset result its verdicts before its output.             *)
(***************************************************************************)
Piece(k, o, v) == [kind |-> k, out |-> o, verdict |-> v]

OfVerdict(v) ==
  (IF v.check \in step.selected THEN <<Piece("output", v.check, "")>> ELSE << >>)
  \o <<Piece("evaluation", v.check, v.verdict)>>

OfVerdicts(V) == IF V = {} THEN << >> ELSE OfVerdict(CHOOSE v \in V : TRUE)

PiecesOf(i) ==
  OfVerdicts(i.verdicts)
  \o (IF i.kind = "check" THEN << >>
      ELSE IF i.kind \in {"output", "result"} THEN <<Piece("output", i.out, "")>>
      ELSE <<Piece("wrong", NoOut, "")>>)

Give(i) ==
  /\ pieces' = PiecesOf(i)
  /\ emitted' = emitted \cup ({i.out} \ {NoOut}) \cup {v.check : v \in i.verdicts}
  /\ bare' = IF i.bare THEN bare \cup {i.out} ELSE bare

------------------------------------------------------------------------------
(***************************************************************************)
(* The end of an attempt: an exception unwinds the generators and becomes  *)
(* one event.                                                              *)
(***************************************************************************)
Fails(exc) ==
  /\ stage' = IF exc = "retry" /\ MayRetry(step) THEN "retry" ELSE "failure"
  /\ log' = Append(log, Event(stage', NoOut))

Running == stage \in {"compute", "returned", "closing"}
Idle == pieces = << >> /\ storing = << >>
Room == Len(log) < MaxLog

StartStep ==
  /\ stage = "spawned"
  /\ stage' = "inputs"
  /\ log' = <<Event("start", NoOut)>>
  /\ UNCHANGED <<step, given, seen, storing, blocked>>

(* Inputs are loaded and type checked. *)
LoadInputs ==
  /\ stage = "inputs"
  /\ \/ stage' = "compute" /\ UNCHANGED log
     \/ \E exc \in {"retry", "error"} : Fails(exc)
  /\ UNCHANGED <<step, given, seen, storing, blocked>>

Yield ==
  /\ stage = "compute" /\ ~ step.returns /\ Idle /\ Room
  /\ \E i \in Items : Give(i)
  /\ UNCHANGED <<step, stage, items, seen, storing, blocked, log>>

Return ==
  /\ stage = "compute" /\ Idle
  /\ \/ /\ step.returns
        /\ \E r \in Returned : \E outs \in InOrder(Expected(r)) : items' = Coerce(r, outs)
     \/ ~ step.returns /\ items' = << >>
  /\ stage' = "returned"
  /\ UNCHANGED <<step, pieces, emitted, bare, seen, storing, blocked, log>>

FunctionRaises ==
  /\ stage = "compute" /\ Idle
  /\ \E exc \in {"retry", "error", "interrupt"} : Fails(exc)
  /\ UNCHANGED <<step, given, seen, storing, blocked>>

PullReturned ==
  /\ stage = "returned" /\ Idle /\ items # << >>
  /\ Give(Head(items))
  /\ items' = Tail(items)
  /\ UNCHANGED <<step, stage, seen, storing, blocked, log>>

(* The function is exhausted: what it should have given, then what its     *)
(* outputs still miss.  A Nothing output that is missing is implied, but   *)
(* for an observation, which the function must give.                       *)
Implicit(o) == o \in Nothings \ Observed(step)

Missing(o) ==
  /\ o \notin seen \cup Optional
  /\ Implicit(o) => o \in step.selected

Implied(o) == Piece(IF Implicit(o) THEN "implied" ELSE "missing", o, "")

(* Variant: nobody asks for the outputs that were not given. *)
ExhaustedUnasked ==
  /\ stage = "returned" /\ Idle /\ items = << >>
  /\ stage' = "closing" /\ UNCHANGED <<pieces, log>>
  /\ UNCHANGED <<step, items, emitted, bare, seen, storing, blocked>>

Exhausted ==
  /\ stage = "returned" /\ Idle /\ items = << >>
  /\ IF step.typed /\ ~ step.selected \subseteq emitted
     THEN Fails("error") /\ UNCHANGED pieces
     ELSE /\ \E gaps \in InOrder({o \in Outs : Missing(o)}) :
               pieces' = [k \in DOMAIN gaps |-> Implied(gaps[k])]
          /\ stage' = "closing"
          /\ UNCHANGED log
  /\ UNCHANGED <<step, items, emitted, bare, seen, storing, blocked>>

------------------------------------------------------------------------------
(***************************************************************************)
(* One piece at a time.                                                    *)
(***************************************************************************)
(* Variant: the order of assets is not looked at. *)
RefusedButLate(o) == o \notin step.selected \/ o \in seen

(* An output that is not selected, came before, or after an asset of the   *)
(* step that depends on it, is an error.                                   *)
Refused(o) ==
  \/ o \notin step.selected
  \/ o \in seen
  \/ o \in Assets /\ (Children[o] \ {o}) \cap seen # {}

Raised ==
  /\ Running /\ pieces # << >> /\ storing = << >>
  /\ LET p == Head(pieces)
     IN  p.kind \in {"wrong", "missing"} \/ (p.kind = "output" /\ Refused(p.out))
  /\ Fails("error")
  /\ UNCHANGED <<step, given, seen, storing, blocked>>

(* _type_check_output: the event comes before the answer is looked at, but *)
(* the check may raise before it.                                          *)
TypeCheck ==
  /\ Running /\ pieces # << >> /\ storing = << >>
  /\ LET p == Head(pieces)
     IN  /\ p.kind = "implied" \/ (p.kind = "output" /\ ~ Refused(p.out))
         /\ seen' = IF p.kind = "output" THEN seen \cup {p.out} ELSE seen
         /\ \/ /\ log' = Append(log, Event("output", p.out))
               /\ \E ok \in BOOLEAN : storing' = <<[out |-> p.out, ok |-> ok]>>
               /\ UNCHANGED stage
            \/ Fails("error") /\ UNCHANGED storing
  /\ UNCHANGED <<step, given, blocked>>

(* The I/O manager is not asked for a check, an observation, a Nothing, or *)
(* a result without a value of an open type.                               *)
Handled(o) == o \notin Checks \cup Nothings \cup Observed(step) \cup (Untyped \cap bare)
Recorded(o) == o \in Assets /\ step.assets \in {"materialized", "observed"}

StoreEvents(o) ==
  LET recorded == IF Recorded(o) THEN Append(log, Event(step.assets, o)) ELSE log
  IN  IF Handled(o) THEN Append(recorded, Event("handled", o)) ELSE recorded

Store ==
  /\ Running /\ storing # << >> /\ storing[1].ok
  /\ log' = StoreEvents(storing[1].out)
  /\ pieces' = Tail(pieces)
  /\ storing' = << >>
  /\ UNCHANGED <<step, stage, items, emitted, bare, seen, blocked>>

(* Variant: what could not be stored is passed over. *)
StoreFailsQuietly ==
  /\ Running /\ storing # << >>
  /\ pieces' = Tail(pieces)
  /\ storing' = << >>
  /\ UNCHANGED <<step, stage, items, emitted, bare, seen, blocked, log>>

(* The type check failed, or the I/O manager raises. *)
StoreFails ==
  /\ Running /\ storing # << >>
  /\ \/ ~ storing[1].ok /\ Fails("error")
     \/ /\ storing[1].ok /\ Handled(storing[1].out)
        /\ \E exc \in {"retry", "error"} : Fails(exc)
  /\ storing' = << >>
  /\ UNCHANGED <<step, given, seen, blocked>>


Evaluate ==
  /\ Running /\ pieces # << >> /\ storing = << >>
  /\ LET p == Head(pieces)
     IN  /\ p.kind = "evaluation"
         /\ log' = Append(log, Event(p.verdict, p.out))
         /\ blocked' = IF p.verdict = "refuted" /\ p.out \in Blocking
                       THEN blocked \cup {p.out} ELSE blocked
  /\ pieces' = Tail(pieces)
  /\ UNCHANGED <<step, stage, items, emitted, bare, seen, storing>>

Conclude ==
  /\ stage = "closing" /\ Idle
  /\ IF blocked # {}
     THEN Fails("error")
     ELSE stage' = "success" /\ log' = Append(log, Event("success", NoOut))
  /\ UNCHANGED <<step, given, seen, storing, blocked>>

(* The task group's scope is cancelled: nothing more is sent. *)
Cancel ==
  /\ stage \in {"spawned", "inputs"} \/ Running
  /\ stage' = "cancelled"
  /\ UNCHANGED <<step, given, seen, storing, blocked, log>>

Next ==
  \/ StartStep \/ LoadInputs \/ Yield \/ Return \/ FunctionRaises \/ PullReturned
  \/ Exhausted \/ Raised \/ TypeCheck \/ Store \/ StoreFails \/ Evaluate
  \/ Conclude \/ Cancel

Spec == Init /\ [][Next]_vars

------------------------------------------------------------------------------
(***************************************************************************)
(* Properties.                                                             *)
(***************************************************************************)
Ends == {"success", "failure", "retry", "cancelled"}

Positions(k, o) == {i \in DOMAIN log : log[i] = Event(k, o)}

(* A step that succeeds has kept every output it announced: an output goes *)
(* through the I/O manager exactly once, unless it is a check, a Nothing,  *)
(* an observation or a result without value of an open type, which never   *)
(* does; an asset has exactly the one event of its kind, and none when the *)
(* function announced it or another system manages it; and no blocking     *)
(* check of it failed with severity ERROR.                                 *)
SuccessMeansKept ==
  stage = "success" =>
    /\ \A o \in Outs : Positions("output", o) # {} =>
         /\ Cardinality(Positions("handled", o)) = (IF Handled(o) THEN 1 ELSE 0)
         /\ \A k \in {"materialized", "observed"} :
              Cardinality(Positions(k, o)) =
                (IF o \in Assets /\ step.assets = k THEN 1 ELSE 0)
    /\ \A c \in Blocking : Positions("refuted", c) = {}

(* The data version of an asset is computed from what its parents last     *)
(* recorded: an asset the function gave is never materialized after one of *)
(* the step that depends on it, so a recorded parent is never older than   *)
(* the one used.  An implied Nothing asset has no such protection.         *)
ParentsFirst ==
  \A o \in seen \cap Assets : \A c \in Children[o] \ {o} :
    \A i \in Positions("materialized", o), j \in Positions("materialized", c) : i < j

Phase == IF stage \in Ends \cup {"spawned"} THEN stage ELSE "running"
Told == {o \in Outs : Positions("output", o) # {}}

Attempt == INSTANCE StepAttempt WITH
  phase <- Phase, told <- Told, required <- Required(step), again <- MayRetry(step)

(* What the executor relies on of an attempt: started first, each output   *)
(* at most once, one end, every required output before a success.          *)
AttemptKept == Attempt!Spec
==============================================================================
