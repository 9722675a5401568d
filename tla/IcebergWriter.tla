----------------------------- MODULE IcebergWriter -----------------------------
(***************************************************************************)
(* dagster_iceberg: steps that store their outputs in one Iceberg table    *)
(* and load it as an input.  A writer finds or creates the table, brings   *)
(* schema, partition spec and properties in line one commit after the      *)
(* other, each from its own copy of the table's metadata, and commits its  *)
(* rows.  Every commit states what it found; the catalog refuses it when   *)
(* that has changed.                                                       *)
(***************************************************************************)
EXTENDS Integers, FiniteSets, FiniteSetsExt

CONSTANTS Writers,   \* steps that store an output in the table
          Readers,   \* steps that load the table
          Cells,     \* the partitions, as [day |-> 0 .., color |-> ..]
          Plans,     \* which steps take part, and what each stores or loads
          MaxTries,  \* bound: how often failed steps are tried again
          MaxFaults  \* bound: calls of the catalog that fail, steps that die

(* An output: the cells of its partition keys, the dimensions it is        *)
(* partitioned by, how many hours one window is, the columns of its data,  *)
(* and the definition's metadata.  engine "spark" is the Spark I/O         *)
(* manager; multi says that the definition is multi-partitioned.           *)
Partitioned(p) == p.dims # {}

Modes == {"append", "overwrite", "upsert"}

(* A step stores or loads, some partitions of the table at least.  An      *)
(* input comes from a step that stores.                                    *)
ASSUME IcebergAssumption ==
  /\ IsFiniteSet(Cells) /\ \A c \in Cells : c.day \in Nat
  /\ Writers \cap Readers = {}
  /\ \A p \in Plans :
       /\ \A w \in Writers \cap DOMAIN p :
            /\ p[w].cells \in (SUBSET Cells) \ {{}} /\ p[w].dims \subseteq {"day", "color"}
            /\ p[w].hours \in Nat \ {0} /\ p[w].mode \in Modes
       /\ \A r \in Readers \cap DOMAIN p : p[r].after \in Writers \cap DOMAIN p
  /\ MaxTries \in Nat /\ MaxFaults \in Nat

VARIABLES plan,   \* what each step stores or loads; never changes
          table,  \* the catalog's metadata of the table
          rows,   \* the writes whose rows each cell of the table holds
          st,     \* the state of each writer
          loads,   \* what each reader loaded
          faults, \* bound: faults so far
          tries   \* bound: steps tried again so far

icebergVars == <<plan, table, rows, st, loads, faults, tries>>

Storing == Writers \cap DOMAIN plan
Loading == Readers \cap DOMAIN plan
NoTable == [exists |-> FALSE, cols |-> {}, sver |-> 0, spec |-> <<>>, pver |-> 0,
            snap |-> 0, props |-> {}]
ReadyStep == [pc |-> "idle", copy |-> NoTable, attempt |-> 0, fresh |-> FALSE,
          parted |-> FALSE, landed |-> 0, base |-> 0, why |-> "none"]
NotLoaded == [res |-> "none", cells |-> {}]

(* Windows of a multi-partitioned output: is_consecutive counts in steps   *)
(* of the window's length, but takes as many steps as there are days.      *)
Starts(p) == {c.day : c \in p.cells}
DaysSpanned(p) == ((Max(Starts(p)) + 1 - Min(Starts(p))) * p.hours) \div 24
StepsShort(p) == 0 .. DaysSpanned(p) - 1
Steps(p) == 0 .. DaysSpanned(p)
IsConsecutive(p) ==
  Cardinality({Min(Starts(p)) + i : i \in Steps(p)} \ Starts(p)) = 1

(* The rows a slice is about: a window from the first start to the last    *)
(* end, a set of keys, both for a table partitioned by both.               *)
InDimension(c, p, d) ==
  IF d = "day" THEN c.day \in Min(Starts(p)) .. Max(Starts(p))
  ELSE c.color \in {k.color : k \in p.cells}
Covers(p) == {c \in Cells : \A d \in p.dims : InDimension(c, p, d)}

IcebergInit ==
  /\ plan \in Plans
  /\ table = NoTable
  /\ rows = [c \in Cells |-> {}]
  /\ st = [w \in Writers |-> ReadyStep]
  /\ loads = [r \in Readers |-> NotLoaded]
  /\ faults = 0 /\ tries = 0

------------------------------------------------------------------------------
InPlace(w, place) == st[w].pc = place
MoveTo(w, place) == st' = [st EXCEPT ![w].pc = place, ![w].attempt = 0]
GiveUp(w, why) == st' = [st EXCEPT ![w].pc = "failed", ![w].why = why]
Kept == UNCHANGED <<plan, loads, faults, tries>>
SameTable == UNCHANGED <<table, rows>>

(* IcebergOperationWithRetry: an exception of a type that is retried makes *)
(* the operation read the table again, but for the last attempt.           *)
Stale(copy) == copy
Refreshed(copy) == table
Retry(w, attempts, why) ==
  IF st[w].attempt + 1 < attempts
  THEN st' = [st EXCEPT ![w].attempt = @ + 1, ![w].copy = Refreshed(@)]
  ELSE GiveUp(w, why)

(* A commit of the table's metadata, after which the copy is up to date.   *)
Commit(w, new, place) ==
  /\ table' = new
  /\ st' = [st EXCEPT ![w].pc = place, ![w].copy = new, ![w].attempt = 0]
  /\ UNCHANGED rows

(* _get_table_slice, the options of handle_output and the first checks of  *)
(* table_writer.                                                           *)
BadWindows(p) == p.multi /\ ~IsConsecutive(p)
BadOptions(p) == p.mode = "upsert" /\ ~p.opts.given
BadColumns(p) == ~ p.dims \subseteq p.cols
BeginStore(w) ==
  /\ InPlace(w, "idle")
  /\ LET p == plan[w] IN
     \/ BadWindows(p) /\ GiveUp(w, "windows")
     \/ ~BadWindows(p) /\ BadOptions(p) /\ GiveUp(w, "options")
     \/ ~BadWindows(p) /\ ~BadOptions(p) /\ BadColumns(p) /\ GiveUp(w, "columns")
     \/ ~(BadWindows(p) \/ BadOptions(p) \/ BadColumns(p)) /\ MoveTo(w, "look")
  /\ SameTable /\ Kept

(* table_exists loads the table and the writer loads it again: no one      *)
(* drops it, so that the second load tells both.                           *)
Look(w) ==
  /\ InPlace(w, "look") /\ plan[w].engine # "spark"
  /\ IF table.exists
     THEN st' = [st EXCEPT ![w].pc = "schema", ![w].copy = table, ![w].base = table.snap,
                           ![w].parted = DOMAIN table.spec # {}]
     ELSE MoveTo(w, "create")
  /\ SameTable /\ Kept

(* A table that exists by now is tried to be created again all the same.   *)
Create(w) ==
  /\ InPlace(w, "create")
  /\ IF table.exists
     THEN SameTable /\ Retry(w, 3, "exists")
     ELSE Commit(w, [NoTable EXCEPT !.exists = TRUE, !.cols = plan[w].cols,
                                    !.props = plan[w].props], "open")
  /\ Kept

Open(w) ==
  /\ InPlace(w, "open")
  /\ st' = [st EXCEPT ![w].pc = IF Partitioned(plan[w]) THEN "spec" ELSE "write",
                      ![w].copy = table, ![w].fresh = TRUE, ![w].base = table.snap]
  /\ SameTable /\ Kept

(* The names of the columns are compared; a ValueError is retried, a       *)
(* commit the catalog refuses is not.                                      *)
UpdateSchema(w) ==
  /\ InPlace(w, "schema")
  /\ LET p == plan[w] IN
     LET changes == st[w].copy.cols # p.cols IN
     \/ ~changes /\ MoveTo(w, "refresh") /\ SameTable
     \/ changes /\ p.onSchema = "error" /\ Retry(w, 6, "schema") /\ SameTable
     \/ /\ changes /\ p.onSchema = "update"
        /\ IF st[w].copy.sver = table.sver
           THEN Commit(w, [table EXCEPT !.cols = p.cols, !.sver = @ + 1], "refresh")
           ELSE GiveUp(w, "commit") /\ SameTable
  /\ Kept

(* table.refresh(), for an output or a table that is partitioned.          *)
Refresh(w) ==
  /\ InPlace(w, "refresh")
  /\ IF Partitioned(plan[w]) \/ st[w].parted
     THEN st' = [st EXCEPT ![w].pc = "spec", ![w].copy = table]
     ELSE MoveTo(w, "properties")
  /\ SameTable /\ Kept

(* diff_to_transformation takes the whole window of the output, which may  *)
(* be that of several keys; most lengths have no transform.                *)
Length(p) == (Max(Starts(p)) + 1 - Min(Starts(p))) * p.hours
OneMonth == {24 * n : n \in 28 .. 31}
HasTransform(p) == Length(p) \in {1, 24, 168} \cup OneMonth
TransformOf(p, d) ==
  IF d # "day" THEN "identity"
  ELSE IF Length(p) = 1 THEN "hour" ELSE IF Length(p) \in OneMonth THEN "month" ELSE "day"

(* New, updated and deleted fields go in one commit.  The creator of the   *)
(* table updates whatever its definition says.                             *)
NewFields(p, spec) == p.dims \ DOMAIN spec
UpdatedFields(p, spec) ==
  {d \in p.dims \cap DOMAIN spec : d = "day" /\ spec[d] # TransformOf(p, d)}
DeletedFields(p, spec) == DOMAIN spec \ p.dims
HasChanges(p, spec) ==
  NewFields(p, spec) \cup UpdatedFields(p, spec) \cup DeletedFields(p, spec) # {}
NewSpec(p, spec) ==
  [d \in p.dims |-> IF d \in NewFields(p, spec) \cup UpdatedFields(p, spec)
                    THEN TransformOf(p, d) ELSE spec[d]]

MayUpdate(w) == st[w].fresh \/ plan[w].onSpec = "update"
SpecAttempts(p) == IF Partitioned(p) THEN 3 * Cardinality(p.dims) ELSE 3
UpdateSpec(w) ==
  /\ InPlace(w, "spec")
  /\ LET p == plan[w]
         changes == HasChanges(p, st[w].copy.spec)
         then == IF st[w].fresh THEN "write" ELSE "properties" IN
     IF "day" \in p.dims /\ ~HasTransform(p) THEN GiveUp(w, "window") /\ SameTable
     ELSE
     \/ ~changes /\ MoveTo(w, then) /\ SameTable
     \/ changes /\ ~MayUpdate(w) /\ Retry(w, SpecAttempts(p), "spec") /\ SameTable
     \/ /\ changes /\ MayUpdate(w)
        /\ IF st[w].copy.pver = table.pver
           THEN Commit(w, [table EXCEPT !.spec = NewSpec(p, @), !.pver = @ + 1], then)
           ELSE GiveUp(w, "commit") /\ SameTable
  /\ Kept

(* Properties the copy has and the definition does not are removed; the    *)
(* commit states nothing about what it found.                              *)
UpdateProperties(w) ==
  /\ InPlace(w, "properties")
  /\ LET old == st[w].copy.props
         new == plan[w].props IN
     IF old = new THEN MoveTo(w, "write") /\ SameTable
     ELSE Commit(w, [table EXCEPT !.props = (@ \ (old \ new)) \cup new], "write")
  /\ Kept

(* The filter is built before the attempts to write, and once.             *)
NoFilter(w) == st[w].attempt = 0 /\ ~ plan[w].dims \subseteq DOMAIN st[w].copy.spec

(* The rows after a write n, which finds those of the copy: the catalog    *)
(* takes it only when they still are the table's.                          *)
ReplacedUnfiltered(p, n) == [c \in Cells |-> IF c \in p.cells THEN {n} ELSE {}]
Replaced(p, n) ==
  [c \in Cells |-> IF c \notin Covers(p) THEN rows[c]
                   ELSE IF c \in p.cells THEN {n} ELSE {}]
Appended(p, n) == [c \in Cells |-> IF c \in p.cells THEN rows[c] \cup {n} ELSE rows[c]]
Upserted(p, n) ==
  [c \in Cells |->
     IF c \notin p.cells THEN rows[c]
     ELSE IF rows[c] = {} THEN (IF p.opts.insert THEN {n} ELSE {})
     ELSE (IF p.opts.update THEN {n} ELSE rows[c])]
After(p, n) ==
  CASE p.mode = "append" -> Appended(p, n)
    [] p.mode = "overwrite" -> Replaced(p, n)
    [] p.mode = "upsert" -> Upserted(p, n)

ConflictUnseen(w) == MoveTo(w, "report")
Conflict(w) == Retry(w, 3, "conflict")

Write(w) ==
  /\ InPlace(w, "write")
  /\ LET p == plan[w]
         n == table.snap + 1 IN
     \/ NoFilter(w) /\ GiveUp(w, "filter") /\ SameTable
     \/ ~NoFilter(w) /\ ~ p.cols \subseteq st[w].copy.cols /\ GiveUp(w, "columns") /\ SameTable
     \/ /\ ~NoFilter(w) /\ p.cols \subseteq st[w].copy.cols
        /\ IF st[w].copy.snap # table.snap
           THEN Conflict(w) /\ SameTable
           ELSE /\ table' = [table EXCEPT !.snap = n]
                /\ rows' = After(p, n)
                /\ st' = [st EXCEPT ![w].pc = "report", ![w].landed = n]
  /\ Kept

(* The metadata of the output is that of the table's current snapshot,     *)
(* whoever wrote it.                                                       *)
Report(w) ==
  /\ InPlace(w, "report")
  /\ MoveTo(w, "done")
  /\ SameTable /\ Kept

(* Spark looks first as well, then creates the table with its rows or      *)
(* replaces the partitions its rows are in.                                *)
SparkLook(w) ==
  /\ InPlace(w, "look") /\ plan[w].engine = "spark"
  /\ MoveTo(w, IF table.exists THEN "overwritePartitions" ELSE "createWithRows")
  /\ SameTable /\ Kept

SparkSpec(p) ==
  [d \in p.dims |-> IF d # "day" THEN "identity" ELSE IF p.hours = 1 THEN "hour" ELSE "day"]
SparkCreate(w) ==
  /\ InPlace(w, "createWithRows")
  /\ IF table.exists THEN GiveUp(w, "exists") /\ SameTable
     ELSE /\ table' = [NoTable EXCEPT !.exists = TRUE, !.cols = plan[w].cols,
                                      !.spec = SparkSpec(plan[w]), !.snap = 1]
          /\ rows' = [c \in Cells |-> IF c \in plan[w].cells THEN {1} ELSE {}]
          /\ st' = [st EXCEPT ![w].pc = "report", ![w].landed = 1]
  /\ Kept

SparkOverwrite(w) ==
  /\ InPlace(w, "overwritePartitions")
  /\ LET n == table.snap + 1 IN
     IF plan[w].cols # table.cols THEN GiveUp(w, "columns") /\ SameTable
     ELSE /\ table' = [table EXCEPT !.snap = n]
          /\ rows' = [c \in Cells |->
                        IF c \in plan[w].cells THEN {n}
                        ELSE IF DOMAIN table.spec = {} THEN {} ELSE rows[c]]
          /\ st' = [st EXCEPT ![w].pc = "report", ![w].landed = n]
  /\ Kept

(* A call of the catalog fails otherwise, or the step's process dies.      *)
Lose(w) ==
  /\ st[w].pc \notin {"idle", "done", "failed"} /\ faults < MaxFaults
  /\ faults' = faults + 1
  /\ GiveUp(w, "lost")
  /\ UNCHANGED <<plan, loads, tries>> /\ SameTable

(* Dagster tries the step again, from the start.                           *)
Again(w) ==
  /\ InPlace(w, "failed") /\ tries < MaxTries
  /\ tries' = tries + 1
  /\ st' = [st EXCEPT ![w] = ReadyStep]
  /\ UNCHANGED <<plan, loads, faults>> /\ SameTable

(* A load reads one snapshot: that of the table it opened.                 *)
ReadTable(r) ==
  /\ loads[r].res = "none" /\ InPlace(plan[r].after, "done")
  /\ LET p == plan[r] IN
     loads' = [loads EXCEPT ![r] =
       IF table.exists /\ p.dims \subseteq DOMAIN table.spec
       THEN [res |-> "loaded", cells |-> [c \in Covers(p) |-> rows[c]]]
       ELSE [res |-> "raised", cells |-> {}]]
  /\ UNCHANGED <<plan, st, faults, tries>> /\ SameTable

WriterStep(w) ==
  \/ BeginStore(w) \/ Look(w) \/ Create(w) \/ Open(w) \/ UpdateSchema(w)
  \/ Refresh(w) \/ UpdateSpec(w) \/ UpdateProperties(w) \/ Write(w)
  \/ Report(w) \/ SparkLook(w) \/ SparkCreate(w) \/ SparkOverwrite(w) \/ Lose(w)
  \/ Again(w)

IcebergNext == \/ \E w \in Storing : WriterStep(w)
        \/ \E r \in Loading : ReadTable(r)
IcebergSpec == IcebergInit /\ [][IcebergNext]_icebergVars

------------------------------------------------------------------------------
(* The writers, whatever they meet on the way, implement a table whose     *)
(* writes land whole, once, in their own partitions, before they are told  *)
(* done.  io.py takes many commits for one output, of which only the last  *)
(* may touch rows.                                                         *)
Verdict(w) == IF st[w].pc \in {"done", "failed"} THEN st[w].pc ELSE "nothing"
Table == INSTANCE PartitionedTable WITH
           slice <- [w \in Storing |-> Covers(plan[w])],
           adds <- [w \in Storing |-> plan[w].mode # "overwrite"],
           content <- rows,
           landed <- [w \in Writers |-> st[w].landed],
           told <- [w \in Writers |-> Verdict(w)]
WritesAtomic == Table!Spec

(* A write is given up for conflicts only after three other writes landed  *)
(* since it opened the table: retries.py reads the table again after each  *)
(* refused commit, so that no write is counted against it twice.           *)
LostOnlyToOthers ==
  \A w \in Writers : st[w].why = "conflict" => table.snap - st[w].base >= 3

(* A step that loads a partition after the step that stored it sees those  *)
(* rows, or those of a write that landed later: done means that the last   *)
(* of the commits was taken, and the filters of store and load agree.      *)
DownstreamSees ==
  \A r \in Loading : loads[r].res = "loaded" =>
    LET former == plan[r].after IN
    plan[former].mode = "overwrite" =>
      \A c \in DOMAIN loads[r].cells \cap Covers(plan[former]) :
        \E n \in loads[r].cells[c] : n >= st[former].landed

(* Keys of days that leave a gap are refused, and no others: the window    *)
(* from the first to the last would cover days no key was given for.       *)
GapsRefused ==
  \A w \in Storing :
    plan[w].multi /\ plan[w].hours = 24 /\ ~InPlace(w, "idle") =>
      (st[w].why = "windows" <=> Starts(plan[w]) # Min(Starts(plan[w])) .. Max(Starts(plan[w])))
==============================================================================
