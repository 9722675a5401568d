----------------------------- MODULE LineageFeed -----------------------------
(***************************************************************************)
(* What a reader of an event log promises: each record is handed to the    *)
(* emitter, at least once, and none for the first time before every record *)
(* that precedes it in the log was.  The backend takes an emission or      *)
(* refuses it, and a refusal is not made up for: a record reaches the      *)
(* backend at least once only if it is not refused.  It says nothing of    *)
(* ticks, queries, limits or cursors.                                      *)
(***************************************************************************)
EXTENDS Naturals, Sequences

VARIABLES size,   \* how many records the log holds
          handed, \* the records handed over, in order, with repetitions
          taken   \* the places in handed of those the backend took

Handed(i) == \E j \in DOMAIN handed : handed[j] = i

Grow ==
  /\ size' = size + 1
  /\ UNCHANGED <<handed, taken>>

Hand(i) ==
  /\ \A k \in 1 .. i - 1 : Handed(k)
  /\ handed' = Append(handed, i)
  /\ taken' \in {taken, taken \cup {Len(handed')}}
  /\ UNCHANGED size

Init == size = 0 /\ handed = << >> /\ taken = {}

Next == Grow \/ \E i \in 1 .. size : Hand(i)

Spec == Init /\ [][Next]_<<size, handed, taken>>
==============================================================================
