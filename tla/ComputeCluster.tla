---------------------------- MODULE ComputeCluster ----------------------------
(***************************************************************************)
(* dagster-teradata: TeradataComputeClusterManager.  A call looks, decides *)
(* and sends statements, each through a connection of its own, and then    *)
(* polls the profile's state until it is the one asked for.                *)
(*                                                                         *)
(* The database's things: "lake" (its version is 20 or above), "group",    *)
(* "profile" ("none", or a state of CcDbStatus) and "timer", of the wait.  *)
(* A call's fields: op, named (a profile is named), group (a group is      *)
(* named), suspended (the attribute INITIALLY_SUSPENDED) and dropGroup.    *)
(***************************************************************************)
EXTENDS RemoteCall

CcStates == {"Initializing", "Running", "Suspended"}
CcDb == {[lake |-> lake, group |-> g, profile |-> p, timer |-> "set"] :
           lake \in {"yes", "no"}, g \in {"none", "there"},
           p \in {"none"} \cup CcStates}
CcBegin == \E c \in Calls, r \in CcDb :
  /\ c.client = "compute cluster" /\ (r.profile # "none" => r.group = "there")
  /\ Begin(c, "verify", << >>, r)

Cc(where) == call.client = "compute cluster" /\ at = where
CcKept == UNCHANGED <<call, left, tries>>
\* a query or a statement that fails raises
CcFails == Miss /\ Raise /\ UNCHANGED service

(***************************************************************************)
(* verify_compute_cluster.  Only the version can be refused: the query for *)
(* the storage is a count, which is never None, whatever it counts.        *)
(***************************************************************************)
CcVerify ==
  /\ Cc("verify") /\ CcKept
  /\ \/ /\ call.named /\ remote.lake = "yes" /\ NoTrouble /\ UNCHANGED service
        /\ Goto(CASE call.op = "create" -> IF call.group THEN "group?" ELSE "profile?"
                  [] call.op = "drop"   -> "drop profile"
                  [] OTHER              -> "state?")
     \/ /\ ~call.named \/ remote.lake = "no"
        /\ Raise /\ NoTrouble /\ UNCHANGED service
     \/ call.named /\ CcFails

(***************************************************************************)
(* create: a missing group is created, then a missing profile in it.  What *)
(* was missing may have been created since, and the statement then fails.  *)
(***************************************************************************)
CcGroup ==
  /\ CcKept
  /\ \/ Cc("group?") /\ NoTrouble /\ UNCHANGED service
        /\ Goto(IF remote.group = "none" THEN "create group" ELSE "profile?")
     \/ /\ Cc("create group") /\ NoTrouble
        /\ IF remote.group = "none" THEN Set("group", "there") /\ Goto("profile?")
           ELSE Raise /\ UNCHANGED service
     \/ (Cc("group?") \/ Cc("create group")) /\ CcFails
CcProfile ==
  /\ CcKept
  /\ \/ Cc("profile?") /\ NoTrouble /\ UNCHANGED service
        /\ IF remote.profile = "none" THEN Goto("create profile")
           ELSE Return(remote.profile)
     \/ /\ Cc("create profile") /\ NoTrouble
        /\ IF remote.profile = "none" /\ (call.group => remote.group = "there")
           THEN Set("profile", "Initializing") /\ Goto("poll")
           ELSE Raise /\ UNCHANGED service
     \/ (Cc("profile?") \/ Cc("create profile")) /\ CcFails

(***************************************************************************)
(* drop: the profile, then the group.                                      *)
(***************************************************************************)
CcDrop ==
  /\ CcKept
  /\ \/ Cc("drop profile") /\ NoTrouble
        /\ IF remote.profile = "none" THEN Raise /\ UNCHANGED service
           ELSE /\ Set("profile", "none")
                /\ IF call.dropGroup THEN Goto("drop group") ELSE Return("dropped")
     \/ /\ Cc("drop group") /\ NoTrouble
        /\ IF remote.group = "none" \/ remote.profile # "none" THEN Raise /\ UNCHANGED service
           ELSE Set("group", "none") /\ Return("dropped")
     \/ (Cc("drop profile") \/ Cc("drop group")) /\ CcFails

(***************************************************************************)
(* resume and suspend.  The state that was read is a string and is         *)
(* compared with a member of the Enum: never equal, so the statement is    *)
(* sent to a cluster that has the state already.                           *)
(***************************************************************************)
CcGoal == IF call.op = "suspend" \/ (call.op = "create" /\ call.suspended)
          THEN "Suspended" ELSE "Running"
CcAlter(op) ==
  /\ call.op = op /\ CcKept
  /\ \/ /\ Cc("state?") /\ NoTrouble /\ UNCHANGED service
        /\ IF remote.profile = "none" THEN Raise ELSE Goto("alter")
     \/ /\ Cc("alter") /\ NoTrouble /\ UNCHANGED service
        /\ IF remote.profile = "none" THEN Raise ELSE Goto("poll")
     \/ (Cc("state?") \/ Cc("alter")) /\ CcFails
CcResume == CcAlter("resume")
CcSuspend == CcAlter("suspend")

(***************************************************************************)
(* TeradataComputeClusterSync.run: its timeout and a missing profile are   *)
(* returned, as texts, not raised; a query that fails is raised.           *)
(***************************************************************************)
CcExpiredNever == FALSE
CcExpired == remote.timer = "passed"
CcRead == CASE remote.profile = "none"                 -> Return("missing")
            [] remote.profile = CcGoal                 -> Return("success")
            [] remote.profile \in CcStates \ {CcGoal} -> Goto(at)
CcPoll ==
  /\ Cc("poll") /\ CcKept
  /\ \/ CcExpired /\ Return("timeout") /\ NoTrouble /\ UNCHANGED service
     \/ ~CcExpired /\ CcRead /\ NoTrouble /\ UNCHANGED service
     \/ ~CcExpired /\ CcFails

CcNext == CcVerify \/ CcGroup \/ CcProfile \/ CcDrop \/ CcResume \/ CcSuspend \/ CcPoll

\* beside the call: the wait's timer, the cluster on its way, other people
CcMind == call.client = "compute cluster" /\ told = "none"
CcTimer == /\ CcMind /\ at = "poll" /\ remote.timer = "set" /\ Set("timer", "passed")
           /\ NoTrouble /\ CcKept /\ UNCHANGED <<at, answer, told>>
CcProgress == /\ CcMind /\ at = "poll" /\ remote.profile \notin {"none", CcGoal}
              /\ Set("profile", CcGoal)
              /\ NoTrouble /\ CcKept /\ UNCHANGED <<at, answer, told>>
CcOthers == /\ call.client = "compute cluster"
            /\ \/ remote.group = "none" /\ Others([remote EXCEPT !.group = "there"])
               \/ /\ remote.group = "there" /\ remote.profile = "none"
                  /\ \E g \in {"none", "there"} :
                       Others([remote EXCEPT !.group = g, !.profile =
                                 IF g = "none" THEN "none" ELSE "Running"])
               \/ /\ remote.profile # "none"
                  /\ \E p \in {"none", "Suspended", "Running"} \ {remote.profile} :
                       Others([remote EXCEPT !.profile = p])

(***************************************************************************)
(* What a call that has returned promises: the state it was to bring about *)
(* has been there, or the text it returned says that it has not.           *)
(***************************************************************************)
CcSteady == {p \in CcStates : <<"profile", p>> \in steady}
CcDone ==
  CASE call.op = "drop" -> /\ CcSteady = {}
                           /\ call.dropGroup => <<"group", "there">> \notin steady
    [] call.op = "create" /\ answer \in CcStates -> <<"profile", "none">> \notin steady
    [] call.op # "drop" /\ answer = "success"     -> CcSteady \subseteq {CcGoal}
    [] OTHER -> TRUE
===============================================================================
