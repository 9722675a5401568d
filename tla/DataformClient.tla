---------------------------- MODULE DataformClient ----------------------------
(***************************************************************************)
(* dagster-dataform: loading the assets of a repository, the op that runs  *)
(* a workflow and waits for it, and the sensor that reports what became of *)
(* workflows anybody ran.                                                  *)
(*                                                                         *)
(* The service's things are invocations, each an action on the one asset,  *)
(* "compiled", the compilation results in the order they were made, the    *)
(* op's "timer", and "cursor", what Dagster keeps between two ticks.  A    *)
(* call's fields: for the sensor, starts (the second an invocation starts  *)
(* at), newestFirst (the order of the service's lists), and what the       *)
(* action is, an "asset", or a check that the loaded assets have or lack.  *)
(***************************************************************************)
EXTENDS RemoteCall

CONSTANTS DfInvocations, \* a sequence: invocations in the order they start
          DfTicks        \* bound: ticks of the sensor in a run

ASSUME DfAssumption ==
  /\ DfInvocations \in Seq(Range(DfInvocations)) /\ Len(DfInvocations) >= 1
  /\ \A i, j \in DOMAIN DfInvocations : DfInvocations[i] = DfInvocations[j] => i = j
  /\ {"compiled", "timer", "cursor"} \cap Range(DfInvocations) = {}
  /\ \A c \in Calls : c.client = "dataform" =>
       /\ c.op \in {"load", "run", "watch"}
       /\ c.op = "watch" =>
            /\ c.newestFirst \in BOOLEAN
            /\ \A i \in DOMAIN DfInvocations :
                 /\ c.starts[i] \in Nat \ {0}
                 /\ \A j \in DOMAIN DfInvocations : i <= j => c.starts[i] <= c.starts[j]

DfEnded == {"SUCCEEDED", "FAILED"}
DfBegin == \E c \in Calls : c.client = "dataform" /\
  Begin(c, CASE c.op = "watch" -> "tick" [] OTHER -> "compile", << >>,
        [x \in Range(DfInvocations) \cup {"compiled", "timer", "cursor"} |->
           CASE x = "compiled" -> << >> [] x = "timer" -> "set"
             [] x = "cursor" -> 0 [] OTHER -> "none"])

Df(where) == call.client = "dataform" /\ at = where
DfRuns == {x \in Range(DfInvocations) : remote[x] # "none"}

(***************************************************************************)
(* DataformRepositoryResource: compile, then query the latest compilation  *)
(* result of this environment without a table prefix, once for the assets  *)
(* and once for their checks.  The op compiles before it invokes.          *)
(***************************************************************************)
DfCompile ==
  /\ Df("compile") /\ UNCHANGED <<call, tries>>
  /\ \/ /\ Set("compiled", Append(remote["compiled"], "ours")) /\ NoTrouble /\ UNCHANGED left
        /\ Goto(IF call.op = "load" THEN "query" ELSE "invoke")
     \/ Miss /\ Raise /\ UNCHANGED <<left, service>>

DfOurs == {i \in DOMAIN remote["compiled"] : remote["compiled"][i] = "ours"}
DfQuery ==
  /\ Df("query") /\ UNCHANGED <<call, tries, service>>
  /\ \/ /\ \E latest \in DfOurs : /\ \A i \in DfOurs : i <= latest
                                   /\ left' = Append(left, latest)
        /\ NoTrouble
        /\ IF Len(left) = 1 THEN Return(left') ELSE Goto("compile")
     \/ Miss /\ Raise /\ UNCHANGED left

(***************************************************************************)
(* dataform_workflow_invocation_op: invoke, then ask until the invocation  *)
(* does not run any more or thirty minutes have passed.                    *)
(***************************************************************************)
DfInvoke ==
  /\ Df("invoke") /\ UNCHANGED <<call, tries>>
  /\ LET x == DfInvocations[1] IN
     \/ Set(x, "RUNNING") /\ left' = <<x>> /\ Goto("poll") /\ NoTrouble
     \/ Miss /\ Raise /\ UNCHANGED left /\ (Set(x, "RUNNING") \/ UNCHANGED service)

DfPoll ==
  /\ Df("poll") /\ UNCHANGED <<call, tries, left, service>>
  /\ \/ /\ NoTrouble
        /\ IF remote[left[1]] = "SUCCEEDED" THEN Return(left)
           ELSE IF remote[left[1]] = "RUNNING" /\ remote["timer"] = "set" THEN Goto("poll")
           ELSE Raise
     \/ Miss /\ Raise
DfTimer == /\ Df("poll") /\ remote["timer"] = "set" /\ Set("timer", "passed")
           /\ NoTrouble /\ UNCHANGED <<call, at, left, tries, answer, told>>

(***************************************************************************)
(* dataform_workflow_invocation_sensor.  A tick lists the invocations and  *)
(* asks for the details of each: `left` has those to ask for, what was     *)
(* found, and what of it is news.  The cursor a tick began with decides    *)
(* what is new, and the last one handled what it becomes.  A pending       *)
(* action has no start time yet.                                           *)
(***************************************************************************)
DfPlace(x) == CHOOSE i \in DOMAIN DfInvocations : DfInvocations[i] = x
DfStart(x) == IF remote[x] = "PENDING" THEN 0 ELSE call.starts[DfPlace(x)]
DfListed(n) == [i \in 1 .. n |-> DfInvocations[IF call.newestFirst THEN n + 1 - i ELSE i]]
DfTick == /\ Df("tick") /\ NoTrouble /\ UNCHANGED <<call, tries, service>>
          /\ \E n \in 0 .. Len(DfInvocations) :
               /\ DfRuns = {DfInvocations[i] : i \in 1 .. n}
               /\ left' = [ask |-> DfListed(n), found |-> << >>, news |-> << >>]
          /\ Goto("details")

\* what a tick reports, and where it leaves the cursor: a running action is left for
\* later, and one that should be a check but is not known is skipped every time
DfFound(x) == [of |-> x, is |-> remote[x], at |-> DfStart(x)]
DfNew(x) == /\ DfStart(x) > remote["cursor"] /\ remote[x] # "RUNNING"
            /\ call.action # "unknown check"
DfDetails ==
  /\ Df("details") /\ left.ask # << >> /\ NoTrouble /\ UNCHANGED <<call, tries, service>>
  /\ LET x == Head(left.ask) IN
     left' = [ask |-> Tail(left.ask), found |-> Append(left.found, DfFound(x)),
              news |-> IF DfNew(x) THEN Append(left.news, DfFound(x)) ELSE left.news]
  /\ Goto("details")

DfNextTick == /\ tries' = tries + 1 /\ UNCHANGED left
              /\ IF tries' = DfTicks THEN at' = "ended" /\ told' = "returned"
                 ELSE at' = "tick" /\ UNCHANGED told
DfKeep ==
  /\ Df("details") /\ left.ask = << >> /\ NoTrouble /\ UNCHANGED call
  /\ answer' = answer \o left.news /\ DfNextTick
  /\ IF left.news = << >> THEN UNCHANGED service ELSE Set("cursor", Last(left.news).at)

\* a request fails and the tick with it, or the daemon dies before the cursor is kept
DfTickFails ==
  /\ call.client = "dataform" /\ at \in {"tick", "details"} /\ Miss
  /\ IF at = "details" /\ left.ask = << >>
     THEN answer' = answer \o left.news ELSE UNCHANGED answer
  /\ tries' = tries + 1
  /\ IF tries' = DfTicks THEN at' = "ended" /\ told' = "raised"
     ELSE at' = "tick" /\ UNCHANGED told
  /\ UNCHANGED <<call, left, service>>

DfNext == DfCompile \/ DfQuery \/ DfInvoke \/ DfPoll \/ DfTick \/ DfDetails \/ DfKeep \/ DfTickFails

\* beside the call: workflows of others start, and all go on
DfProgress ==
  /\ call.client = "dataform" /\ told = "none" /\ NoTrouble
  /\ \E i \in DOMAIN DfInvocations : LET x == DfInvocations[i] IN
       \/ /\ call.op = "watch" /\ remote[x] = "none" /\ Set(x, "PENDING")
          /\ i > 1 => remote[DfInvocations[i - 1]] \notin {"none", "PENDING"}
       \/ remote[x] = "PENDING" /\ Set(x, "RUNNING")
       \/ remote[x] = "RUNNING" /\ \E s \in DfEnded : Set(x, s)
  /\ UNCHANGED <<call, at, left, tries, answer, told>>
DfOthers == /\ call.client = "dataform" /\ call.op = "load"
            /\ \E c \in {"ours", "prefixed", "of another branch"} :
                 Others([remote EXCEPT !["compiled"] = Append(@, c)])

(***************************************************************************)
(* The op returns when its workflow succeeded, and what is loaded comes    *)
(* from a result no older than the one that was compiled for it.           *)
(***************************************************************************)
DfDone ==
  /\ call.op = "run" => remote[left[1]] = "SUCCEEDED"
  /\ call.op = "load" => /\ \A i \in 1 .. 2 : remote["compiled"][answer[i]] = "ours"
                         /\ answer[1] < answer[2]

(***************************************************************************)
(* The sensor reports every end it has found, but those it had passed: a   *)
(* later action of the asset, or one of the same second, was reported      *)
(* while this one ran.  It reports each end as it was.  If the service     *)
(* lists in the order of starts and every tick is kept, it reports each    *)
(* once; its docstring (57, 61) rules repeats out altogether, which a list *)
(* with the newest first, or a tick that is lost after its reports,        *)
(* refutes.  Nothing is claimed of actions that still run: the README      *)
(* (265) promises observations of them, and the sensor makes none.         *)
(***************************************************************************)
DfReported == {f.of : f \in Range(answer)}
DfPassed(f) == \E g \in Range(answer) : g.of # f.of /\ g.at >= f.at
DfListing ==
  call.op = "watch" =>
    /\ call.action # "unknown check" =>
         \A f \in Range(left.found) : f.is \in DfEnded => f.of \in DfReported \/ DfPassed(f)
    /\ \A f \in Range(answer) : f.is \in DfEnded => f.is = remote[f.of]
    /\ missed = 0 /\ ~call.newestFirst => Cardinality(DfReported) = Len(answer)
================================================================================
