----------------------------- MODULE StepAttempt -----------------------------
(***************************************************************************)
(* What one attempt of a step tells the executor: that it starts, each of  *)
(* its outputs at most once, and one end, after which nothing follows.  An *)
(* attempt that ends in success has told every output that is required.    *)
(* It says nothing of generators, type checks, I/O managers or exceptions. *)
(***************************************************************************)
CONSTANTS Outs

VARIABLES phase,    \* "spawned", "running", "cancelled", or how it ended
          told,     \* the outputs told so far
          required, \* the outputs success needs (fixed)
          again     \* whether another attempt is allowed (fixed)

vars == <<phase, told, required, again>>

Start ==
  /\ phase = "spawned"
  /\ phase' = "running"
  /\ UNCHANGED <<told, required, again>>

Output(o) ==
  /\ phase = "running"
  /\ o \notin told
  /\ told' = told \cup {o}
  /\ UNCHANGED <<phase, required, again>>

End(k) ==
  /\ phase = "running"
  /\ k = "success" => required \subseteq told
  /\ k = "retry" => again
  /\ phase' = k
  /\ UNCHANGED <<told, required, again>>

Cancel ==
  /\ phase \in {"spawned", "running"}
  /\ phase' = "cancelled"
  /\ UNCHANGED <<told, required, again>>

Init ==
  /\ phase = "spawned"
  /\ told = {}
  /\ required \in SUBSET Outs
  /\ again \in BOOLEAN

Next ==
  \/ Start \/ Cancel
  \/ \E o \in Outs : Output(o)
  \/ \E k \in {"success", "failure", "retry"} : End(k)

Spec == Init /\ [][Next]_vars
==============================================================================
