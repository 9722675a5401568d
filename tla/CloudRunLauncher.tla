--------------------------- MODULE CloudRunLauncher ---------------------------
(***************************************************************************)
(* dagster-contrib-gcp: CloudRunRunLauncher over the life of one Dagster   *)
(* run: it is launched, its worker's health is asked for, and somebody     *)
(* terminates it, perhaps after the daemon has died in launch_run.         *)
(*                                                                         *)
(* The service's things are the executions of the job, "tag", the run's    *)
(* tag with the execution it was started as, and "run", the run's status   *)
(* in Dagster.  A call's fields: configured (the code location has a job)  *)
(* and secret (its environment has a secret to resolve).                   *)
(***************************************************************************)
EXTENDS RemoteCall

CONSTANT CrExecutions \* executions the launcher may start
ASSUME CrAssumption == CrExecutions \cap {"tag", "run", "quota", "none"} = {}

CrBegin == \E c \in Calls : c.client = "cloud run" /\
  Begin(c, "launch", << >>,
        [x \in CrExecutions \cup {"tag", "run", "quota"} |->
           CASE x = "run" -> "starting" [] x = "quota" -> "free" [] OTHER -> "none"])

Cr(where) == call.client = "cloud run" /\ at = where
CrKept == UNCHANGED <<call, tries, answer, told>>
\* executions that go on and that nobody has asked to stop
CrRunning == {x \in CrExecutions : remote[x] = "running"}
\* launch_run raised: Dagster fails the run
CrFailed == /\ at' = "launched" /\ UNCHANGED left

(***************************************************************************)
(* create_execution: the job of the code location, its environment with    *)
(* secrets resolved, its container.  Then execute_job, tried again while   *)
(* the quota is exhausted and the retry timeout has not passed.            *)
(***************************************************************************)
CrJob == /\ Cr("launch") /\ CrKept /\ UNCHANGED left /\ NoTrouble
         /\ IF call.configured THEN at' = "environment" /\ UNCHANGED service
            ELSE CrFailed /\ Set("run", "failed")
CrEnvironment ==
  /\ Cr("environment") /\ CrKept /\ UNCHANGED left
  /\ \/ at' = "run job" /\ NoTrouble /\ UNCHANGED service
     \/ call.secret /\ Miss /\ CrFailed /\ Set("run", "failed")

CrExecute ==
  /\ Cr("run job")
  /\ \/ \E x \in CrExecutions : /\ remote[x] = "none" /\ Set(x, "running")
                                /\ at' = "tag" /\ left' = <<x>> /\ NoTrouble
     \/ Trouble /\ UNCHANGED <<missed, service, at, left>> \* ResourceExhausted
     \/ /\ Miss /\ CrFailed  \* another error, or the last one before the timeout
        /\ \/ Set("run", "failed")
           \/ \E x \in CrExecutions : /\ remote[x] = "none"
                /\ Becomes([remote EXCEPT ![x] = "running", !["run"] = "failed"])
  /\ CrKept

CrTag ==
  /\ Cr("tag")
  /\ \/ Set("tag", left[1]) /\ NoTrouble /\ at' = "launched"
     \/ /\ Miss /\ at' = "launched" \* the event or the tag is not stored:
        /\ Set("run", "failed") \/ UNCHANGED service \* it raised, or the daemon died
  /\ CrKept /\ UNCHANGED left

(***************************************************************************)
(* terminate, of a run that may have ended or lost its tag.  Cloud Run     *)
(* answers a cancellation with an operation that goes on; terminate drops  *)
(* it and reports the run as canceled while its execution may still run.   *)
(***************************************************************************)
CrTerminate ==
  /\ Cr("launched") /\ UNCHANGED <<call, tries, left>>
  /\ IF remote["tag"] = "none"
     THEN Return(FALSE) /\ NoTrouble /\ UNCHANGED service
     ELSE at' = "cancel" /\ Set("run", "canceling") /\ NoTrouble /\ UNCHANGED <<answer, told>>

CrCancel ==
  /\ Cr("cancel") /\ UNCHANGED <<call, tries, left>>
  /\ LET x == remote["tag"] IN
     \/ /\ remote[x] = "running" /\ NoTrouble /\ at' = "canceled"
        /\ Set(x, "cancelling") /\ UNCHANGED <<answer, told>>
     \/ /\ remote[x] # "running" /\ NoTrouble /\ UNCHANGED service
        /\ Return(FALSE) \/ Raise \* a Conflict, or another refusal
     \/ /\ Miss
        /\ \/ UNCHANGED service
           \/ remote[x] = "running" /\ Set(x, "cancelling")
        /\ Return(FALSE) \/ Raise \* a ServerError, or any other
CrCanceled == /\ Cr("canceled") /\ Set("run", "canceled") /\ Return(TRUE)
              /\ NoTrouble /\ UNCHANGED <<call, tries, left>>

(***************************************************************************)
(* check_run_worker_health, asked by the daemon's monitoring while the run *)
(* is launched: a worker that FAILED makes it fail the run.                *)
(***************************************************************************)
CrHealth ==
  IF remote["tag"] = "none" THEN "UNKNOWN"
  ELSE CASE remote[remote["tag"]] \in {"running", "cancelling"} -> "RUNNING"
         [] remote[remote["tag"]] \in {"failed", "cancelled"} -> "FAILED"
         [] remote[remote["tag"]] = "succeeded" -> "SUCCESS"
CrMonitor == /\ Cr("launched") /\ CrHealth = "FAILED" /\ remote["run"] = "starting"
             /\ Set("run", "failed") /\ NoTrouble /\ CrKept /\ UNCHANGED <<at, left>>

CrNext == CrJob \/ CrEnvironment \/ CrExecute \/ CrTag \/ CrTerminate \/ CrCancel \/ CrCanceled
CrWorker == /\ call.client = "cloud run" /\ at \notin {"launch", "environment", "run job", "ended"}
            /\ \E x \in CrRunning, s \in {"succeeded", "failed"} : Set(x, s)
            /\ CrKept /\ NoTrouble /\ UNCHANGED <<at, left>>
\* what was asked to stop stops, or ends by itself before that
CrStop == /\ call.client = "cloud run"
          /\ \E x \in CrExecutions, s \in {"cancelled", "succeeded", "failed"} :
               remote[x] = "cancelling" /\ Set(x, s)
          /\ CrKept /\ NoTrouble /\ UNCHANGED <<at, left>>
CrBeside == CrMonitor \/ CrWorker \/ CrStop

(***************************************************************************)
(* terminate's TRUE: the run is canceled, and its execution is over or was *)
(* asked to stop; that it has stopped is not claimed, as terminate does    *)
(* not wait for it.  Without a failed request no execution goes on after   *)
(* the call unasked: one is left so only by an answer, a tag or a daemon   *)
(* lost.                                                                   *)
(***************************************************************************)
CrDone == answer => CrRunning = {} /\ remote["run"] = "canceled"
CrNoStrays == /\ Cardinality({x \in CrExecutions : remote[x] # "none"}) <= 1 + missed
              /\ missed = 0 => CrRunning = {}
===============================================================================
