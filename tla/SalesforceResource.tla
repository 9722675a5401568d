-------------------------- MODULE SalesforceResource --------------------------
(***************************************************************************)
(* dagster-salesforce: calls on a SalesforceObject.  A query is a bulk job *)
(* that is waited for and then downloaded page by page; an upsert is done  *)
(* by the library's bulk client in batches, and its records are then asked *)
(* for job by job; single records are one request each.                    *)
(*                                                                         *)
(* The service's things: "job", the state of the query's job, "timer" of   *)
(* the wait, "session" of the client, and each record: "old", "new" when   *)
(* the call has changed it, "gone", or "failed" when the service refused.  *)
(* A call's fields: op, and batches (a sequence of sets of records).       *)
(***************************************************************************)
EXTENDS RemoteCall

CONSTANT SfRecords

\* a query has a page, the batches of an upsert share no record, the others have one record
SfSingles == {"create_record", "update_record", "delete_record"}
ASSUME SfAssumption ==
  /\ IsFiniteSet(SfRecords) /\ SfRecords \cap {"job", "timer", "session"} = {}
  /\ \A c \in Calls : c.client = "salesforce" =>
       /\ c.batches \in Seq(SUBSET SfRecords)
       /\ \/ c.op = "query_to_csv" /\ c.batches # << >>
          \/ c.op = "upsert_records" /\ \A i, j \in DOMAIN c.batches :
                                         i # j => c.batches[i] \cap c.batches[j] = {}
          \/ c.op \in SfSingles /\ \E x \in SfRecords : c.batches = <<{x}>>

SfBegin == \E c \in Calls : c.client = "salesforce" /\
  Begin(c, "connect", c.batches,
        [x \in SfRecords \cup {"job", "timer", "session"} |->
           CASE x \in SfRecords -> "old" [] x = "timer" -> "set" [] OTHER -> "none"])

Sf(where) == call.client = "salesforce" /\ at = where
SfKept == UNCHANGED <<call, tries>>
SfFails == Miss /\ Raise /\ UNCHANGED <<left, service>>

(***************************************************************************)
(* client and _connect: a session, tested by a query, before the object is *)
(* described; the object keeps that session, and it can have expired when  *)
(* the object is used.                                                     *)
(***************************************************************************)
SfStart == CASE call.op = "query_to_csv"   -> "create job"
             [] call.op = "upsert_records" -> "upsert"
             [] OTHER                      -> "request"
SfConnect ==
  /\ Sf("connect") /\ SfKept
  /\ \/ Set("session", "valid") /\ Goto("check") /\ NoTrouble /\ UNCHANGED left
     \/ SfFails
SfCheck ==
  /\ Sf("check") /\ SfKept
  /\ \/ Goto("describe") /\ NoTrouble /\ UNCHANGED <<left, service>>
     \/ SfFails
SfDescribe ==
  /\ Sf("describe") /\ SfKept
  /\ \/ Goto(SfStart) /\ NoTrouble /\ UNCHANGED <<left, service>>
     \/ SfFails
SfExpired == remote["session"] = "expired"

(***************************************************************************)
(* query_to_csv and _wait_for_job.                                         *)
(***************************************************************************)
SfCreateJob ==
  /\ Sf("create job") /\ SfKept
  /\ \/ ~SfExpired /\ Set("job", "going") /\ Goto("wait") /\ NoTrouble /\ UNCHANGED left
     \/ SfFails
     \/ SfExpired /\ Raise /\ NoTrouble /\ UNCHANGED <<left, service>>
SfWait ==
  /\ Sf("wait") /\ SfKept
  /\ \/ /\ remote["timer"] = "set" /\ ~SfExpired /\ NoTrouble /\ UNCHANGED <<left, service>>
        /\ CASE remote["job"] = "complete" -> Goto("download")
             [] remote["job"] = "failed"   -> Raise
             [] remote["job"] = "going"    -> Goto(at)
     \/ /\ remote["timer"] = "passed" \/ SfExpired
        /\ Raise /\ NoTrouble /\ UNCHANGED <<left, service>>
     \/ remote["timer"] = "set" /\ SfFails

\* one page of results; the locator says where the next begins, or that none does
SfDownload ==
  /\ Sf("download") /\ SfKept
  /\ \/ /\ ~SfExpired /\ NoTrouble /\ UNCHANGED service
        /\ left' = Tail(left)
        /\ IF left' = << >> THEN Return(Append(answer, Head(left)))
           ELSE answer' = Append(answer, Head(left)) /\ UNCHANGED <<at, told>>
     \/ SfFails
     \/ SfExpired /\ Raise /\ NoTrouble /\ UNCHANGED <<left, service>>

(***************************************************************************)
(* upsert_records.  The bulk client carries out the batches; each of their *)
(* records succeeds or is refused; an error in between ends the call.      *)
(* Then get_all_ingest_records of each job, counted by type of result.     *)
(***************************************************************************)
SfUpsert ==
  /\ Sf("upsert") /\ SfKept
  /\ \/ /\ left # << >> /\ ~SfExpired /\ NoTrouble
        /\ \E refused \in SUBSET Head(left) :
             Becomes([x \in DOMAIN remote |->
                        IF x \notin Head(left) THEN remote[x]
                        ELSE IF x \in refused THEN "failed" ELSE "new"])
        /\ left' = Tail(left) /\ Goto(at)
     \/ left = << >> /\ Goto("results") /\ left' = call.batches /\ NoTrouble /\ UNCHANGED service
     \/ left # << >> /\ SfFails
     \/ /\ left # << >> /\ SfExpired
        /\ Raise /\ NoTrouble /\ UNCHANGED <<left, service>>
SfResults ==
  /\ Sf("results") /\ SfKept
  /\ \/ /\ left # << >> /\ ~SfExpired /\ left' = Tail(left)
        /\ NoTrouble /\ UNCHANGED <<at, told, service>>
        /\ answer' = answer \o SetToSeq({<<x, remote[x]>> : x \in Head(left)})
     \/ left # << >> /\ SfFails
     \/ left # << >> /\ SfExpired /\ Raise /\ NoTrouble /\ UNCHANGED <<left, service>>
     \/ left = << >> /\ Return(answer) /\ NoTrouble /\ UNCHANGED <<left, service>>

(***************************************************************************)
(* create_record, update_record, delete_record: the status of the answer   *)
(* is tested.                                                              *)
(***************************************************************************)
SfChanged == IF call.op = "delete_record" THEN "gone" ELSE "new"
SfRequest(op) ==
  /\ Sf("request") /\ call.op = op /\ SfKept /\ UNCHANGED left
  /\ \E x \in Head(left) :
     \/ ~SfExpired /\ Set(x, SfChanged) /\ Return(<<x>>) /\ NoTrouble
     \/ ~SfExpired /\ Set(x, SfChanged) /\ Raise /\ Miss
     \/ UNCHANGED service /\ Raise /\ Miss
     \/ SfExpired /\ UNCHANGED service /\ Raise /\ NoTrouble
SfCreate == SfRequest("create_record")
SfUpdate == SfRequest("update_record")
SfDelete == SfRequest("delete_record")

SfNext == SfConnect \/ SfCheck \/ SfDescribe \/ SfCreateJob \/ SfWait \/ SfDownload \/ SfUpsert \/ SfResults
          \/ SfCreate \/ SfUpdate \/ SfDelete

\* beside the call: the timer of the wait, the job, and the session's end
SfTimer == /\ Sf("wait") /\ remote["timer"] = "set" /\ Set("timer", "passed")
           /\ NoTrouble /\ SfKept /\ UNCHANGED <<at, left, answer, told>>
SfJob == /\ call.client = "salesforce" /\ told = "none" /\ remote["job"] = "going"
         /\ \E s \in {"complete", "failed"} : Set("job", s)
         /\ NoTrouble /\ SfKept /\ UNCHANGED <<at, left, answer, told>>
SfSessionEnds ==
  call.client = "salesforce" /\ remote["session"] = "valid"
  /\ Others([remote EXCEPT !["session"] = "expired"])

(***************************************************************************)
(* What a call that has returned promises: a query every page once, in     *)
(* order; an upsert what has become of every record, once; a record the    *)
(* change that was asked for.                                              *)
(***************************************************************************)
SfDone ==
  /\ call.op = "query_to_csv" => remote["job"] = "complete"
  /\ call.op \in SfSingles => \A x \in Head(call.batches) : remote[x] = SfChanged
SfListing ==
  /\ call.op = "query_to_csv" => answer = call.batches
  /\ call.op = "upsert_records" =>
       \A x \in UNION {call.batches[i] : i \in DOMAIN call.batches} :
         /\ Cardinality({i \in DOMAIN answer : answer[i][1] = x}) = 1
         /\ \E i \in DOMAIN answer : answer[i] = <<x, remote[x]>>
===============================================================================
