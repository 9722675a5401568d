-------------------------- MODULE ElasticsearchManager --------------------------
(***************************************************************************)
(* dagster-elasticsearch: ElasticsearchIOManager stores an output in an    *)
(* index, or, with use_alias, in a new index to which it then swaps the    *)
(* alias, and deletes old ones; load_input reads the index or the alias.   *)
(*                                                                         *)
(* The things are indices: "none", "empty", or holding "one" or all of the *)
(* two chunks of an output ("whole"); "alias", the indices under it; and   *)
(* "reaper", whether another call's clean-up has deleted something.        *)
(* A call's fields: op, target (the index it writes, or reads without an   *)
(* alias), alias (use_alias), keep (keep_last, 0 for None) and failFast.   *)
(***************************************************************************)
EXTENDS RemoteCall

CONSTANTS EsOrder, \* the alias's rollover indices, by name
          EsBare   \* an index with the name of the alias

EsRollovers == {EsOrder[i] : i \in DOMAIN EsOrder}
EsIndices == EsRollovers \cup {EsBare}
EsChunks == {"chunk 1", "chunk 2"}
ASSUME EsAssumption ==
  /\ EsOrder \in Seq(EsRollovers) /\ Len(EsOrder) >= 2
  /\ \A i, j \in DOMAIN EsOrder : EsOrder[i] = EsOrder[j] => i = j
  /\ EsBare \notin EsRollovers /\ {"alias", "reaper"} \cap EsIndices = {}
  /\ \A c \in Calls : c.client = "elasticsearch" =>
       /\ c.op \in {"handle_output", "load_input"} /\ c.target \in EsIndices
       /\ c.alias \in BOOLEAN /\ c.failFast \in BOOLEAN /\ c.keep \in Nat
EsBegin ==
  \E c \in {k \in Calls : k.client = "elasticsearch"} :
  \E under \in IF c.alias THEN {{}, {EsOrder[2]}} ELSE {{}} :
  \E whole \in IF c.alias THEN {under, under \cup {EsOrder[1]}} ELSE {{}, {EsBare}} :
       Begin(c, IF c.op = "load_input" THEN "there?" ELSE IF c.alias THEN "rollover" ELSE "bulk",
             EsChunks,
             [x \in EsIndices \cup {"alias", "reaper"} |->
                CASE x = "alias" -> under [] x = "reaper" -> "idle"
                  [] x \in whole -> "whole" [] OTHER -> "none"])

Es(where) == call.client = "elasticsearch" /\ at = where
EsKept == UNCHANGED <<call, tries>>
EsFails == Miss /\ Raise /\ UNCHANGED <<left, service>>
EsThere(x) == remote[x] # "none"
EsTarget == call.target

(***************************************************************************)
(* With an alias: what is left of an index of that name is deleted, and    *)
(* the index created.  An index cannot have the name of an alias.          *)
(***************************************************************************)
EsRollover ==
  /\ Es("rollover") /\ EsKept
  /\ \/ /\ Goto("create") /\ NoTrouble /\ UNCHANGED left
        /\ IF EsTarget # EsBare /\ EsThere(EsTarget)
           THEN Becomes([remote EXCEPT ![EsTarget] = "none", !["alias"] = @ \ {EsTarget}])
           ELSE UNCHANGED service
     \/ EsFails
EsCreate ==
  /\ Es("create") /\ EsKept
  /\ \/ /\ NoTrouble /\ UNCHANGED left
        /\ IF EsThere(EsTarget) \/ (EsTarget = EsBare /\ remote["alias"] # {})
           THEN Raise /\ UNCHANGED service
           ELSE Set(EsTarget, "empty") /\ (Goto("bulk") \/ Raise) \* waits for "yellow"
     \/ EsFails

(***************************************************************************)
(* bulk, chunk by chunk, into an index that the service creates when it is *)
(* not there.  Documents it refuses raise, or are counted.                 *)
(***************************************************************************)
EsMore == CASE remote[EsTarget] \in {"none", "empty"} -> "one"
            [] remote[EsTarget] \in {"one", "whole"}  -> "whole"
EsBulk ==
  /\ Es("bulk") /\ left # {} /\ EsKept
  /\ \/ /\ Set(EsTarget, EsMore) /\ \E chunk \in left : left' = left \ {chunk}
        /\ NoTrouble /\ UNCHANGED <<at, answer, told>>
     \/ /\ Miss /\ \E chunk \in left : left' = left \ {chunk}
        /\ Set(EsTarget, IF EsThere(EsTarget) THEN remote[EsTarget] ELSE "empty")
        /\ IF call.failFast THEN Raise ELSE answer' = Append(answer, "failures") /\ UNCHANGED <<at, told>>
     \/ EsFails

EsRefresh ==
  /\ Es("bulk") /\ left = {} /\ EsKept
  /\ \/ /\ NoTrouble /\ UNCHANGED <<left, service>>
        /\ IF call.alias THEN Goto("aliases?") ELSE Return(answer)
     \/ EsFails

(***************************************************************************)
(* _swap_alias looks for the indices under the alias, then removes those   *)
(* and adds its own in one request.  _cleanup_old keeps its own index and  *)
(* the last names, deleting the others one by one.                         *)
(***************************************************************************)
EsFormer ==
  /\ Es("aliases?") /\ EsKept
  /\ \/ /\ left' = remote["alias"] \ {EsTarget}
        /\ Goto("swap") /\ NoTrouble /\ UNCHANGED service
     \/ EsFails
EsSwaps == /\ EsThere(EsTarget) /\ EsTarget # EsBare
           /\ \A x \in left : EsThere(x)
EsSwap ==
  /\ Es("swap") /\ EsKept
  /\ LET swapped == (remote["alias"] \ left) \cup {EsTarget} IN
     \/ EsSwaps /\ Set("alias", swapped) /\ Goto("old ones?") /\ NoTrouble /\ UNCHANGED left
     \/ EsSwaps /\ Set("alias", swapped) /\ Raise /\ Miss /\ UNCHANGED left
     \/ ~EsSwaps /\ Raise /\ NoTrouble /\ UNCHANGED <<left, service>>
     \/ EsFails

EsNames == {x \in EsRollovers : EsThere(x) /\ x # EsTarget}
EsAfter(x, y) == \E i, j \in DOMAIN EsOrder : x = EsOrder[i] /\ y = EsOrder[j] /\ i > j
EsOld == {x \in EsNames : call.keep > 0 /\ 1 + Cardinality({y \in EsNames : EsAfter(y, x)}) >= call.keep}
EsListOld ==
  /\ Es("old ones?") /\ EsKept
  /\ \/ left' = EsOld /\ Goto("delete") /\ NoTrouble /\ UNCHANGED service
     \/ EsFails
EsDelete ==
  /\ Es("delete") /\ EsKept
  /\ \/ \E x \in left :
          /\ ~\E y \in left : EsAfter(y, x)
          /\ left' = left \ {x} /\ Goto(at) /\ NoTrouble
          /\ Becomes([remote EXCEPT ![x] = "none", !["alias"] = @ \ {x}])
     \/ left # {} /\ EsFails
     \/ left = {} /\ Return(answer) /\ NoTrouble /\ UNCHANGED <<left, service>>

(***************************************************************************)
(* load_input: nothing there is an empty list; otherwise the pages of what *)
(* the alias stands for when the scan is opened.                           *)
(***************************************************************************)
EsRead == IF ~call.alias THEN {EsTarget}
          ELSE IF EsThere(EsBare) THEN {EsBare} ELSE remote["alias"]
EsLook ==
  /\ Es("there?") /\ EsKept
  /\ \/ /\ NoTrouble /\ UNCHANGED <<left, service>>
        /\ IF \E x \in EsRead : EsThere(x) THEN Goto("scan") ELSE Return(<< >>)
     \/ EsFails
EsScan ==
  /\ Es("scan") /\ EsKept
  /\ \/ /\ NoTrouble /\ UNCHANGED service
        /\ IF \E x \in EsRead : EsThere(x)
           THEN left' = {x \in EsRead : EsThere(x)} /\ Goto("pages")
           ELSE Raise /\ UNCHANGED left
     \/ EsFails
EsPages ==
  /\ Es("pages") /\ EsKept
  /\ \/ /\ NoTrouble /\ UNCHANGED service
        /\ \E x \in left : IF EsThere(x)
                           THEN left' = left \ {x} /\ answer' = Append(answer, remote[x])
                                /\ UNCHANGED <<at, told>>
                           ELSE Raise /\ UNCHANGED left
     \/ left # {} /\ EsFails
     \/ left = {} /\ Return(answer) /\ NoTrouble /\ UNCHANGED <<left, service>>

EsNext == EsRollover \/ EsCreate \/ EsBulk \/ EsRefresh \/ EsFormer \/ EsSwap
          \/ EsListOld \/ EsDelete \/ EsLook \/ EsScan \/ EsPages

\* another call swaps the alias to its own new index, or cleans up all others
EsOthers ==
  /\ call.client = "elasticsearch" /\ call.alias
  /\ \/ \E x \in EsRollovers \ {EsTarget} : /\ ~EsThere(x)
          /\ Others([remote EXCEPT ![x] = "whole", !["alias"] = {x}])
     \/ /\ \E x \in EsRollovers \ remote["alias"] : EsThere(x)
        /\ Others([x \in DOMAIN remote |->
                     IF x \in EsRollovers \ remote["alias"] THEN "none"
                     ELSE IF x = "reaper" THEN "ran" ELSE remote[x]])

(***************************************************************************)
(* What a call that has returned promises: all its documents, or a count   *)
(* of those refused, and the alias on its index, alone unless another call *)
(* moved it.  A clean-up by another call while this one writes takes its   *)
(* index away, the service makes it anew for the next chunk, and nobody is *)
(* told: that is excepted.                                                 *)
(***************************************************************************)
EsAlone == faults = missed
EsUnreaped == remote["reaper"] = "idle"
EsDone ==
  call.op = "handle_output" =>
    /\ answer = << >> /\ EsUnreaped => remote[EsTarget] = "whole"
    /\ call.alias /\ EsAlone => remote["alias"] = {EsTarget}
    /\ call.alias /\ call.keep > 0 /\ EsAlone =>
         Cardinality({x \in EsRollovers : EsThere(x)}) <= call.keep

\* a read is never of half an output, nor of nothing while there was one
EsListing ==
  call.op = "load_input" =>
    /\ \A i \in DOMAIN answer : answer[i] = "whole"
    /\ answer = << >> => \A x \in EsIndices : <<x, "whole">> \in steady =>
                           IF call.alias THEN <<"alias", {x}>> \notin steady ELSE x # EsTarget

(***************************************************************************)
(* However a call ended, the alias is on whole outputs, and on one if it   *)
(* was before.  Nothing is claimed of three cases in which the code breaks *)
(* the promise that readers always see a consistent view via the alias     *)
(* (io_manager.py 39-41, README 107): a partition made again, which starts *)
(* by deleting what the alias is on; a clean-up after another call has     *)
(* moved the alias to an index that the clean-up then deletes; and an      *)
(* index that another call's clean-up takes away while it is filled.       *)
(***************************************************************************)
EsAgain == EsTarget = EsOrder[2]
EsNoStrays ==
  /\ answer = << >> /\ EsUnreaped => \A x \in remote["alias"] : remote[x] = "whole"
  /\ remote["alias"] = {} => <<"alias", {}>> \in steady \/ EsAgain \/ (call.keep > 0 /\ ~EsAlone)
================================================================================
