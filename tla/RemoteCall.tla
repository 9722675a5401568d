------------------------------ MODULE RemoteCall ------------------------------
(***************************************************************************)
(* What the clients of remote services have in common: a call of a step's  *)
(* code goes through requests to a service that fails, changes under it    *)
(* and goes on after it, and ends by returning or by raising.  A run of    *)
(* the model is one call of one client.                                    *)
(*                                                                         *)
(* The service is a function from the names of its things to their states. *)
(* `steady` is history: what has been so in the service ever since the     *)
(* call began.  A call that promises to change something, and returns,     *)
(* cannot leave its opposite steady.                                       *)
(***************************************************************************)
EXTENDS Naturals, Sequences, FiniteSets, SequencesExt

CONSTANTS Calls,    \* the calls a run may make: records with a client and an op
          MaxFaults \* bound: failures, and changes others make in the service

ASSUME RemoteCallAssumption == MaxFaults \in Nat

VARIABLES
  call,   \* the call
  at,     \* where it is
  left,   \* what it still has to do
  tries,  \* answers to the current request that made it ask again
  answer, \* what it returns
  told,   \* "none", "returned" or "raised"
  remote, \* the service
  steady, \* what has been so in the service since the call began
  faults, \* failures and changes by others so far
  missed  \* requests of the call that failed, carried out or not, or were carried
          \* out with an answer it cannot use

service == <<remote, steady>>
troubles == <<faults, missed>>
remoteVars == <<call, at, left, tries, answer, told, service, troubles>>

Facts(r) == {<<x, r[x]>> : x \in DOMAIN r}
Begin(c, where, todo, r) ==
  /\ call = c /\ at = where /\ left = todo /\ remote = r
  /\ tries = 0 /\ answer = << >> /\ told = "none"
  /\ steady = Facts(r) /\ faults = 0 /\ missed = 0

Becomes(r) == remote' = r /\ steady' = steady \cap Facts(r)
Set(thing, state) == Becomes([remote EXCEPT ![thing] = state])

Goto(where) == at' = where /\ UNCHANGED <<answer, told>>
Return(value) == at' = "ended" /\ told' = "returned" /\ answer' = value
Raise == at' = "ended" /\ told' = "raised" /\ UNCHANGED answer

NoTrouble == UNCHANGED troubles
Trouble == faults < MaxFaults /\ faults' = faults + 1
Miss == Trouble /\ missed' = missed + 1

\* someone else changes the service while the call runs
Others(r) == /\ at # "ended" /\ Trouble /\ Becomes(r)
             /\ UNCHANGED <<call, at, left, tries, answer, told, missed>>
===============================================================================
