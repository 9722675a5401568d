--------------------------- MODULE PartitionedTable ---------------------------
(***************************************************************************)
(* What a table that assets are stored in promises: a write lands as a     *)
(* whole or not at all, touches the partitions it is for and no others,    *)
(* and is told done only after it landed.                                  *)
(***************************************************************************)
EXTENDS Naturals

CONSTANTS Writers, Cells

VARIABLES slice,    \* the cells each writer's output is for; never changes
          adds,     \* whether a writer adds to its cells or replaces them
          content,  \* the writes whose rows each cell holds
          landed,   \* the number of each writer's write, 0 before it lands
          told      \* what each writer's caller has been told

vars == <<slice, adds, content, landed, told>>

Written == UNION {content[c] : c \in Cells}

Init ==
  /\ content = [c \in Cells |-> {}]
  /\ landed = [w \in Writers |-> 0]
  /\ told = [w \in Writers |-> "nothing"]

(* A replacing write is all its cells hold afterwards; one that adds, or   *)
(* an upsert, may leave other rows in its cells beside or instead of its   *)
(* own.  Writes are numbered in the order they land.                       *)
Land(w) ==
  /\ told[w] = "nothing" /\ landed[w] = 0
  /\ landed'[w] > 0 /\ landed' = [landed EXCEPT ![w] = landed'[w]]
  /\ \A v \in Written : v < landed'[w]
  /\ content' = [c \in Cells |-> content'[c]]
  /\ \A c \in Cells :
       \/ c \notin slice[w] /\ content'[c] = content[c]
       \/ c \in slice[w] /\ adds[w] /\ content'[c] \subseteq content[c] \cup {landed'[w]}
       \/ c \in slice[w] /\ content'[c] = {landed'[w]}
  /\ UNCHANGED <<slice, adds, told>>

Tell(w) ==
  /\ told[w] = "nothing"
  /\ told' = [told EXCEPT ![w] = IF landed[w] # 0 THEN "done" ELSE "failed"]
  /\ UNCHANGED <<slice, adds, content, landed>>

(* The caller may also be told of a failure after the write landed.        *)
Fail(w) ==
  /\ told[w] = "nothing"
  /\ told' = [told EXCEPT ![w] = "failed"]
  /\ UNCHANGED <<slice, adds, content, landed>>

(* A failed step may be tried again, with a write of its own.              *)
Again(w) ==
  /\ told[w] = "failed"
  /\ told' = [told EXCEPT ![w] = "nothing"]
  /\ landed' = [landed EXCEPT ![w] = 0]
  /\ UNCHANGED <<slice, adds, content>>

Next == \E w \in Writers : Land(w) \/ Tell(w) \/ Fail(w) \/ Again(w)
Spec == Init /\ [][Next]_vars
==============================================================================
