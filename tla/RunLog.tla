------------------------------- MODULE RunLog --------------------------------
(***************************************************************************)
(* What an executor promises to the code that iterates over its events:    *)
(* for each step, the events of one attempt after the other, a step only   *)
(* after its upstream's output and success, and a clean end only when      *)
(* every step is accounted for.  It says nothing of tasks, streams, queues *)
(* or threads.                                                             *)
(***************************************************************************)
EXTENDS Naturals, Sequences

CONSTANTS Steps, Deps, MaxRetries, Hooked

VARIABLES log,     \* log[s]: the events of s received so far
          result   \* "open", or how the iteration ended: "ok" or "error"

vars == <<log, result>>

(* Membership in the log of a step. *)
Has(s, k, a) == \E i \in DOMAIN log[s] : log[s][i] = [kind |-> k, att |-> a]
HasKind(s, k) == \E i \in DOMAIN log[s] : log[s][i].kind = k

Started(s, a) == Has(s, "start", a)
Ended(s, a) == \E k \in {"success", "failure", "retry"} : Has(s, k, a)

Add(s, k, a) ==
  /\ result = "open"
  /\ log' = [log EXCEPT ![s] = Append(@, [kind |-> k, att |-> a])]
  /\ UNCHANGED result

Start(s, a) ==
  /\ ~ Started(s, a)
  /\ a > 1 => Has(s, "retry", a - 1)
  /\ \A d \in Deps[s] : HasKind(d, "output") /\ HasKind(d, "success")
  /\ Add(s, "start", a)

Output(s, a) ==
  /\ Started(s, a) /\ ~ Ended(s, a)
  /\ ~ Has(s, "output", a)
  /\ Add(s, "output", a)

End(s, a, k) ==
  /\ Started(s, a) /\ ~ Ended(s, a)
  /\ k = "retry" => a <= MaxRetries[s]
  /\ Add(s, k, a)

Hook(s, a) ==
  /\ s \in Hooked
  /\ Ended(s, a) /\ ~ Has(s, "hook", a)
  /\ Add(s, "hook", a)

Skip(s) ==
  /\ log[s] = << >>
  /\ \A d \in Deps[s] : HasKind(d, "success") \/ HasKind(d, "skipped")
  /\ \E d \in Deps[s] : ~ HasKind(d, "output")
  /\ Add(s, "skipped", 0)

(* A step that never ran: something upstream of it failed. *)
CutOff(s) ==
  \E S \in SUBSET Steps :
     /\ s \in S
     /\ \A t \in S : \/ HasKind(t, "failure")
                     \/ log[t] = << >> /\ Deps[t] \cap S # {}

Accounted(s) ==
  /\ HasKind(s, "success") \/ HasKind(s, "failure")
       \/ HasKind(s, "skipped") \/ (log[s] = << >> /\ CutOff(s))
  /\ s \in Hooked => \A a \in 1 .. MaxRetries[s] + 1 : Ended(s, a) => Has(s, "hook", a)

Finish ==
  /\ result = "open"
  /\ \/ result' = "ok" /\ \A s \in Steps : Accounted(s)
     \/ result' = "error"
  /\ UNCHANGED log

Init ==
  /\ log = [s \in Steps |-> << >>]
  /\ result = "open"

Next ==
  \/ \E s \in Steps : \E a \in 1 .. MaxRetries[s] + 1 :
       \/ Start(s, a) \/ Output(s, a) \/ Hook(s, a)
       \/ \E k \in {"success", "failure", "retry"} : End(s, a, k)
  \/ \E s \in Steps : Skip(s)
  \/ Finish

Spec == Init /\ [][Next]_vars
==============================================================================
