------------------------------ MODULE HexResource ------------------------------
(***************************************************************************)
(* dagster-hex: a call of HexResource.  run_and_poll starts a run of a     *)
(* project, asks for its status until it is terminal or the poll timeout   *)
(* has passed, and may cancel it.  Each request goes through make_request. *)
(*                                                                         *)
(* The service's things are runs, by their number, and the timer of the    *)
(* poll timeout.  A call's fields: op, kill (kill_on_timeout), timed       *)
(* (poll_timeout is set) and both (inputs and a view are given).           *)
(***************************************************************************)
EXTENDS RemoteCall

CONSTANTS HexRuns,   \* bound: the runs Hex may start for a call
          HexRetries \* request_max_retries

HexOps == {"run_project", "get_project", "run_and_poll"}
ASSUME HexAssumption ==
  /\ IsFiniteSet(HexRuns) /\ "timer" \notin HexRuns
  /\ \A c \in Calls : c.client = "hex" => c.op \in HexOps

HexActive == {"PENDING", "RUNNING"}
HexTerminal == {"COMPLETED", "ERRORED", "UNABLE_TO_ALLOCATE_KERNEL"}
\* VALID_STATUSES leaves KILLED out: polling a killed run fails
HexValid == HexActive \cup HexTerminal

HexBegin == \E c \in Calls : c.client = "hex" /\
  Begin(c, IF c.op = "run_and_poll" THEN "run_project" ELSE c.op, << >>,
        [x \in HexRuns \cup {"timer"} |-> IF x = "timer" THEN "set" ELSE "none"])

HexRequests == {"run_project", "run_status", "cancel_run", "get_project"}
HexAsking == call.client = "hex" /\ ~call.both /\ at \in HexRequests
HexRun == left[1] \* the run a call follows
HexStarted == {x \in HexRuns : remote[x] # "none"}

(***************************************************************************)
(* What the service may do with a request: {} when it refuses (4xx).       *)
(***************************************************************************)
HexStart == {[remote EXCEPT ![x] = "PENDING"] : x \in HexRuns \ HexStarted}
HexCancel == IF remote[HexRun] \in HexActive THEN {[remote EXCEPT ![HexRun] = "KILLED"]}
             ELSE {}
HexCarried == CASE at = "run_project" -> HexStart
                [] at = "cancel_run"  -> HexCancel
                [] at \in {"run_status", "get_project"} -> {remote}

(***************************************************************************)
(* run_and_poll, when a request of it is answered.                         *)
(***************************************************************************)
HexJudgeNoKill(status) ==
  CASE status = "COMPLETED" -> Return(<<HexRun>>)
    [] status \in HexActive /\ ~(call.timed /\ remote["timer"] = "passed") -> Goto("run_status")
    [] OTHER -> Raise
HexJudge(status) ==
  CASE status \notin HexValid -> Raise
    [] status = "COMPLETED"   -> Return(<<HexRun>>)
    [] status \in HexTerminal \ {"COMPLETED"} -> Raise
    [] status \in HexActive ->
         IF call.timed /\ remote["timer"] = "passed"
         THEN IF call.kill THEN Goto("cancel_run") ELSE Raise
         ELSE Goto("run_status")
HexProject == at = "get_project" /\ Return(<<"project">>) /\ UNCHANGED left
HexAnswered ==
  \/ /\ at = "run_project" /\ \E x \in HexRuns : remote'[x] # remote[x] /\ left' = <<x>>
     /\ IF call.op = "run_project" THEN Return(left') ELSE Goto("run_status")
  \/ at = "run_status" /\ HexJudge(remote[HexRun]) /\ UNCHANGED left
  \/ at = "cancel_run" /\ Raise /\ UNCHANGED left
  \/ HexProject

(***************************************************************************)
(* make_request.  401, 403 and 422 fail the call, every other failure is   *)
(* tried again up to the limit, a POST as well.  An answer that says it is *)
(* JSON and cannot be decoded fails the call, carried out as it was.  One  *)
(* of another type is neither an answer nor a failure: the loop turns, and *)
(* the request is sent again, uncounted and as often as that happens.      *)
(***************************************************************************)
HexSuccess == /\ HexAsking /\ \E r \in HexCarried : Becomes(r)
              /\ HexAnswered
              /\ tries' = 0 /\ NoTrouble /\ UNCHANGED call
HexRefused == /\ HexAsking /\ HexCarried = {} /\ Raise
              /\ NoTrouble /\ UNCHANGED <<call, left, tries, service>>
HexDenied == /\ HexAsking /\ Miss /\ Raise /\ UNCHANGED <<call, left, tries, service>>
HexRetry == /\ HexAsking /\ Miss
            /\ \E r \in HexCarried \cup {remote} : Becomes(r)
            /\ IF tries = HexRetries THEN Raise /\ UNCHANGED tries
               ELSE Goto(at) /\ tries' = tries + 1
            /\ UNCHANGED <<call, left>>
HexGarbled == /\ HexAsking /\ Miss /\ Raise /\ \E r \in HexCarried : Becomes(r)
              /\ UNCHANGED <<call, left, tries>>
HexAgain(request) == CASE request = "run_project" -> "run_project again"
                       [] request = "run_status"  -> "run_status again"
                       [] request = "cancel_run"  -> "cancel_run again"
                       [] request = "get_project" -> "get_project again"
HexNotJson == /\ HexAsking /\ Goto(HexAgain(at))
              /\ \E r \in HexCarried \cup {remote} :
                   Becomes(r) /\ missed' = IF r = remote THEN missed ELSE missed + 1
              /\ UNCHANGED <<call, left, tries, faults>>
HexUnread == call.client = "hex" /\ at \in {HexAgain(w) : w \in HexRequests}
HexTurn == /\ call.client = "hex" /\ \E w \in HexRequests : at = HexAgain(w) /\ Goto(w)
           /\ NoTrouble /\ UNCHANGED <<call, left, tries, service>>

\* run_project refuses inputs together with a view
HexBoth == /\ call.client = "hex" /\ call.op = "run_project" /\ at = "run_project"
           /\ call.both /\ Raise
           /\ NoTrouble /\ UNCHANGED <<call, left, tries, service>>

HexNext == HexBoth \/ HexSuccess \/ HexRefused \/ HexDenied \/ HexRetry
           \/ HexGarbled \/ HexNotJson \/ HexTurn

\* beside the call: the timer passes, runs go on, people cancel them
HexTimer == /\ call.client = "hex" /\ told = "none" /\ HexStarted # {}
            /\ remote["timer"] = "set" /\ Set("timer", "passed")
            /\ NoTrouble /\ UNCHANGED <<call, at, left, tries, answer, told>>
HexProgress ==
  /\ call.client = "hex"
  /\ \E x \in HexStarted :
       \/ remote[x] = "PENDING" /\ Set(x, "RUNNING") /\ NoTrouble
       \/ remote[x] \in HexActive /\ \E s \in HexTerminal : Set(x, s) /\ NoTrouble
       \/ remote[x] \in HexActive /\ Set(x, "KILLED") /\ Trouble /\ UNCHANGED missed
  /\ UNCHANGED <<call, at, left, tries, answer, told>>

(***************************************************************************)
(* A call that has returned has seen its run complete.  One that has timed *)
(* out leaves no run going, if it was to kill it and could read what Hex   *)
(* did each time; a request whose answer it could not read or did not get  *)
(* may have started a run nobody follows, at most one for each.            *)
(***************************************************************************)
HexDone == call.op = "run_and_poll" => remote[HexRun] = "COMPLETED"
HexNoStrays ==
  /\ Cardinality(HexStarted) <= 1 + missed
  /\ (told = "raised" /\ call.op = "run_and_poll" /\ call.kill /\ missed = 0)
       => \A x \in HexRuns : remote[x] \notin HexActive
================================================================================
