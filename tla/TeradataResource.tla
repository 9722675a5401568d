--------------------------- MODULE TeradataResource ---------------------------
(***************************************************************************)
(* dagster-teradata: TeradataResource's connection and the statements of   *)
(* TeradataDagsterConnection.  The database's things are statements        *)
(* ("none" or "done") and tables ("there" or "none", or "held": the user   *)
(* may not drop it).  Each statement commits by itself.  A call's fields:  *)
(* op, todo (the statements or tables, in order), fetch (fetch_results)    *)
(* and valid (the configuration passes get_connection's tests).            *)
(***************************************************************************)
EXTENDS RemoteCall

CONSTANTS TdTables, TdStatements

\* names are looked up or dropped, statements carried out, by execute_query or a load one
TdOnTables == {"drop_database", "drop_table", "fetch_last_updated_timestamps"}
TdOnOne == {"execute_query", "load"}
ASSUME TdAssumption ==
  /\ TdTables \cap TdStatements = {}
  /\ \A c \in Calls : c.client = "teradata" =>
       \/ c.op \in TdOnTables /\ c.todo \in Seq(TdTables)
       \/ c.op = "execute_queries" /\ c.todo \in Seq(TdStatements)
       \/ c.op \in TdOnOne /\ c.todo \in Seq(TdStatements) /\ Len(c.todo) <= 1

TdBegin == \E c \in Calls, there \in [TdTables -> {"there", "none", "held"}] :
  /\ c.client = "teradata"
  /\ Begin(c, "connect", c.todo,
           [x \in TdTables \cup TdStatements |->
              IF x \in TdTables THEN there[x] ELSE "none"])

Td(where) == call.client = "teradata" /\ at = where
TdKept == UNCHANGED <<call, tries>>

(***************************************************************************)
(* get_connection: refuses a configuration without host or credentials, or *)
(* with credentials beside a browser; then connects.  set_query_band       *)
(* ignores its errors, so the connection is used either way.               *)
(***************************************************************************)
TdConnect == /\ Td("connect") /\ TdKept /\ UNCHANGED <<left, service>>
             /\ \/ ~call.valid /\ Raise /\ NoTrouble
                \/ call.valid /\ Miss /\ Raise
                \/ call.valid /\ NoTrouble /\ Goto("query band")
TdQueryBand == /\ Td("query band") /\ Goto("work")
               /\ NoTrouble \/ Miss
               /\ TdKept /\ UNCHANGED <<left, service>>

\* a statement that fails raises
TdFails == Miss /\ Raise /\ UNCHANGED <<left, service>>
TdStatement == Set(Head(left), "done") /\ left' = Tail(left) /\ NoTrouble

(***************************************************************************)
(* execute_query, and the loads, which are one statement.  With            *)
(* fetch_results the loop of execute_queries returns in its first turn,    *)
(* and what it returns is None.                                            *)
(***************************************************************************)
TdQuery ==
  /\ Td("work") /\ call.op = "execute_query" /\ TdKept /\ left # << >>
  /\ \/ TdStatement /\ Return(IF call.fetch THEN "rows" ELSE "None")
     \/ TdFails
TdQueries ==
  /\ Td("work") /\ call.op = "execute_queries" /\ TdKept /\ left # << >>
  /\ \/ TdStatement /\ IF call.fetch THEN Return("None") ELSE Goto(at)
     \/ TdFails
TdLoad ==
  /\ Td("work") /\ call.op = "load" /\ TdKept /\ left # << >>
  /\ \/ TdStatement /\ Return("None")
     \/ TdFails

(***************************************************************************)
(* drop_database and drop_table: a name that does not exist is skipped,    *)
(* any other error raised, with the names before it gone.                  *)
(***************************************************************************)
TdDrop(op) ==
  /\ Td("work") /\ call.op = op /\ TdKept /\ left # << >>
  /\ LET x == Head(left) IN
     \/ /\ remote[x] = "there" /\ Set(x, "none") /\ NoTrouble
        /\ left' = Tail(left) /\ Goto(at)
     \/ /\ remote[x] = "none" /\ NoTrouble
        /\ left' = Tail(left) /\ Goto(at) /\ UNCHANGED service
     \/ remote[x] = "held" /\ Raise /\ NoTrouble /\ UNCHANGED <<left, service>>
     \/ TdFails
TdDropDatabase == TdDrop("drop_database")
TdDropTable == TdDrop("drop_table")

\* fetch_last_updated_timestamps: one query for all, then each must be there
TdTimestamps ==
  /\ Td("work") /\ call.op = "fetch_last_updated_timestamps" /\ TdKept
  /\ \/ /\ NoTrouble
        /\ IF left # << >> /\ \A i \in DOMAIN left : remote[left[i]] # "none"
           THEN Return(left) ELSE Raise
     \/ Miss /\ Raise
  /\ UNCHANGED <<left, service>>

TdReturn == /\ Td("work") /\ left = << >> /\ call.op # "fetch_last_updated_timestamps"
            /\ Return("None") /\ TdKept /\ NoTrouble /\ UNCHANGED <<left, service>>

TdNext == TdConnect \/ TdQueryBand \/ TdQuery \/ TdQueries \/ TdLoad
          \/ TdDropDatabase \/ TdDropTable \/ TdTimestamps \/ TdReturn
TdOthers == /\ call.client = "teradata"
            /\ \E x \in TdTables : Others([remote EXCEPT ![x] =
                                             IF remote[x] = "none" THEN "there" ELSE "none"])

(***************************************************************************)
(* What a call that has returned promises: every statement was carried     *)
(* out, and no table it was to drop is still the one it found.  Not so for *)
(* execute_queries with fetch_results: its docstring (resources.py         *)
(* 330-334) has the queries executed in series and their results fetched,  *)
(* and the code runs the first, drops its rows and returns None.  Of that  *)
(* call no more is claimed than that it ran its first statement.           *)
(***************************************************************************)
TdRun(statements) == \A x \in statements : remote[x] = "done"
TdDone ==
  LET asked == {call.todo[i] : i \in DOMAIN call.todo}
  IN CASE call.op \in {"drop_database", "drop_table"} ->
            \A x \in asked : <<x, "there">> \notin steady /\ <<x, "held">> \notin steady
       [] call.op = "fetch_last_updated_timestamps" ->
            \A x \in asked : <<x, "none">> \notin steady
       [] call.op = "execute_queries" /\ call.fetch ->
            TdRun({x \in asked : x = call.todo[1]})
       [] OTHER -> TdRun(asked)
===============================================================================
