-------------------------- MODULE IcebergWriterProofs --------------------------
(***************************************************************************)
(* What IcebergWriter promises, for any number of writers, readers,        *)
(* partitions, retries and faults, and every plan.                         *)
(***************************************************************************)
EXTENDS IcebergWriter, FiniteSetTheorems, WellFoundedInduction, TLAPS

Dims == {"day", "color"}
Transforms == {"identity", "hour", "day", "month"}
Specs == UNION {[D -> Transforms] : D \in SUBSET Dims}
Columns == {{}} \cup {plan[w].cols : w \in Storing}
Properties == UNION {plan[w].props : w \in Storing}
Tables == [exists : BOOLEAN, cols : Columns, sver : Nat, spec : Specs, pver : Nat,
           snap : Nat, props : SUBSET Properties]
Opened == {"open", "schema", "refresh", "spec", "properties", "write",
           "overwritePartitions", "report", "done"}
Places == Opened \cup {"idle", "look", "create", "createWithRows", "failed"}
Reasons == {"none", "windows", "options", "columns", "exists", "schema", "commit",
            "window", "spec", "filter", "conflict", "lost"}
States == [pc : Places, copy : Tables, attempt : Nat, fresh : BOOLEAN, parted : BOOLEAN,
           landed : Nat, base : Nat, why : Reasons]

TypeOK ==
  /\ plan \in Plans
  /\ table \in Tables
  /\ rows \in [Cells -> SUBSET Nat]
  /\ st \in [Writers -> States]
  /\ loads = [r \in Readers |-> loads[r]]

(* The rows of the table are those of its writes; a table that does not    *)
(* exist has none.                                                         *)
Catalog ==
  /\ \A c \in Cells : \A n \in rows[c] : n \in 1 .. table.snap
  /\ ~ table.exists => table = NoTable

(* The copy a writer works with is not older than the table it opened, nor *)
(* newer than the table, and every refused attempt has moved it on.        *)
Following(x, T) ==
  /\ x.base <= x.copy.snap /\ x.copy.snap <= T.snap
  /\ x.pc = "write" => x.base + x.attempt <= x.copy.snap
  /\ x.pc = "open" => x.attempt = 0
  /\ x.why # "none" => x.pc = "failed"
  /\ x.why = "conflict" => T.snap - x.base >= 3
  /\ x.pc \in Opened => T.exists

Landing(x, T) ==
  /\ x.landed <= T.snap
  /\ x.landed # 0 => x.pc \in {"report", "done", "failed"}
  /\ x.pc \in {"report", "done"} => x.landed # 0

Judged(x, w) ==
  /\ x.pc # "idle" /\ BadWindows(plan[w]) => x.pc = "failed" /\ x.why = "windows"
  /\ ~ BadWindows(plan[w]) => x.why # "windows"

SparkPlaces == {"idle", "look", "createWithRows", "overwritePartitions", "report", "done", "failed"}
Engines(x, w) ==
  /\ plan[w].engine = "spark" => x.pc \in SparkPlaces
  /\ plan[w].engine # "spark" => x.pc \notin {"createWithRows", "overwritePartitions"}

WriterOK(x, w, T) == Following(x, T) /\ Landing(x, T) /\ Judged(x, w) /\ Engines(x, w)

IcebergInv ==
  /\ TypeOK /\ Catalog
  /\ \A w \in Storing : WriterOK(st[w], w, table)
  /\ \A w \in Writers \ Storing : st[w] = ReadyStep

(* What holds of plans whose outputs fill the windows their filters name,  *)
(* as those of one range of keys do, and whose Spark outputs agree on the  *)
(* dimensions of the table and have it to themselves.                      *)
WholeWindows ==
  \A p \in Plans : \A w \in Writers \cap DOMAIN p : BadWindows(p[w]) \/ Covers(p[w]) = p[w].cells
SparkAgrees ==
  \A p \in Plans : \A v, w \in Writers \cap DOMAIN p :
    p[v].engine = "spark" => p[w].engine = "spark" /\ p[w].dims = p[v].dims

SparkTable ==
  \A w \in Storing : plan[w].engine = "spark" /\ table.exists => DOMAIN table.spec = plan[w].dims

Present ==
  \A w \in Storing : plan[w].mode = "overwrite" /\ st[w].pc \in {"report", "done"} =>
    \A c \in Covers(plan[w]) : \E n \in rows[c] : n >= st[w].landed

Loaded == \A r \in Loading : loads[r].res = "loaded" => InPlace(plan[r].after, "done")

StrongInv == IcebergInv /\ SparkTable /\ Present /\ Loaded /\ DownstreamSees

(* The shape of a writer's step: it moves on its own, and either leaves    *)
(* the rows alone or lands its write.                                      *)
Moves(w, x) ==
  /\ st' = [st EXCEPT ![w] = x] /\ plan' = plan /\ loads' = loads
  /\ table' \in Tables /\ table.snap <= table'.snap
  /\ table.exists => table'.exists
  /\ ~ table'.exists => table' = NoTable
  /\ rows' \in [Cells -> SUBSET Nat]
  /\ \A c \in Cells : \A n \in rows'[c] : n \in 1 .. table'.snap
  /\ WriterOK(x, w, table')

Quiet(w, x) ==
  /\ rows' = rows
  /\ \/ /\ st[w].pc \notin {"done", "failed"} /\ x.landed = st[w].landed
        /\ x.pc \in {"report", "done"} => x.pc = "done" /\ st[w].pc = "report"
     \/ st[w].pc = "failed" /\ x = ReadyStep
  /\ plan[w].engine = "spark" => table' = table

SparkRows(p, n) ==
  [c \in Cells |-> IF c \in p.cells THEN {n}
                   ELSE IF DOMAIN table.spec = {} THEN {} ELSE rows[c]]

Lands(w, x) ==
  /\ st[w].pc \notin {"idle", "done", "failed"} /\ st[w].landed = 0
  /\ x.pc = "report" /\ x.landed = table.snap + 1
  /\ \/ /\ plan[w].engine # "spark"
        /\ rows' = After(plan[w], table.snap + 1)
     \/ /\ plan[w].engine = "spark" /\ table.exists /\ table'.spec = table.spec
        /\ rows' = SparkRows(plan[w], table.snap + 1)
     \/ /\ plan[w].engine = "spark" /\ ~ table.exists /\ DOMAIN table'.spec = plan[w].dims
        /\ rows' = [c \in Cells |-> IF c \in plan[w].cells THEN {1} ELSE {}]

Shape(w) == \E x \in States : Moves(w, x) /\ (Quiet(w, x) \/ Lands(w, x))

------------------------------------------------------------------------------
(* What the plan says of the steps that take part. *)
LEMMA PlanIs ==
  ASSUME TypeOK
  PROVE  /\ \A w \in Storing :
              /\ w \in Writers
              /\ plan[w].cells \subseteq Cells /\ plan[w].cells # {}
              /\ plan[w].dims \subseteq Dims
              /\ plan[w].hours \in Nat \ {0} /\ plan[w].mode \in Modes
         /\ \A r \in Loading : plan[r].after \in Storing
<1>1. plan \in Plans
  BY DEF TypeOK
<1>2. /\ \A w \in Writers \cap DOMAIN plan :
            /\ plan[w].cells \in (SUBSET Cells) \ {{}} /\ plan[w].dims \subseteq {"day", "color"}
            /\ plan[w].hours \in Nat \ {0} /\ plan[w].mode \in Modes
      /\ \A r \in Readers \cap DOMAIN plan : plan[r].after \in Writers \cap DOMAIN plan
  BY <1>1, IcebergAssumption
<1> QED BY <1>2 DEF Storing, Loading, Dims

(* The metadata of a table that does not exist has its type. *)
LEMMA NoTableIs ==
  ASSUME TypeOK PROVE NoTable \in Tables
<1>1. << >> \in [{} -> Transforms]
  OBVIOUS
<1>2. << >> \in Specs
  BY <1>1 DEF Specs
<1> QED BY <1>2 DEF NoTable, Tables, Columns

(* A writer that has not begun has its type. *)
LEMMA ReadyIs ==
  ASSUME TypeOK PROVE ReadyStep \in States
  BY NoTableIs DEF ReadyStep, States, Places, Opened, Reasons

(* The steps that take part, and the types, stay as they are: the plan     *)
(* does.                                                                   *)
LEMMA SetsKept ==
  ASSUME plan' = plan
  PROVE  /\ Storing' = Storing /\ Loading' = Loading /\ Tables' = Tables /\ States' = States
  BY DEF Storing, Loading, Tables, States, Columns, Properties, Specs

(* A step of the shape of a writer's keeps the invariant. *)
LEMMA ShapeKeeps ==
  ASSUME IcebergInv, NEW w \in Storing, Shape(w) PROVE IcebergInv'
<1> USE DEF IcebergInv
<1>1. PICK x \in States : Moves(w, x)
  BY DEF Shape
<1>2. /\ st' = [st EXCEPT ![w] = x] /\ plan' = plan /\ loads' = loads
      /\ table' \in Tables /\ table.snap <= table'.snap
      /\ table.exists => table'.exists
      /\ ~ table'.exists => table' = NoTable
      /\ rows' \in [Cells -> SUBSET Nat]
      /\ \A c \in Cells : \A n \in rows'[c] : n \in 1 .. table'.snap
      /\ WriterOK(x, w, table')
  BY <1>1 DEF Moves
<1>3. /\ Storing' = Storing /\ Tables' = Tables /\ States' = States
      /\ w \in Writers /\ st \in [Writers -> States] /\ table \in Tables
  BY <1>2, SetsKept DEF Storing, TypeOK
<1>4. TypeOK'
  BY <1>2, <1>3 DEF TypeOK
<1>5. Catalog'
  BY <1>2 DEF Catalog
<1>6. ASSUME NEW v \in Storing PROVE WriterOK(st[v], v, table)'
  <2>1. CASE v = w
    <3>1. st'[v] = x
      BY <1>2, <1>3, <2>1
    <3> QED BY <1>2, <2>1, <3>1 DEF WriterOK, Following, Landing, Judged, Engines
  <2>2. CASE v # w
    <3>1. st'[v] = st[v] /\ st[v] \in States /\ WriterOK(st[v], v, table)
      BY <1>2, <1>3, <2>2 DEF Storing
    <3>2. table.snap \in Nat /\ table'.snap \in Nat
      BY <1>2, <1>3 DEF Tables
    <3>3. st[v].base \in Nat /\ st[v].copy.snap \in Nat /\ st[v].landed \in Nat
      BY <3>1 DEF States, Tables
    <3>4. Following(st[v], table') /\ Landing(st[v], table')
      BY <1>2, <3>1, <3>2, <3>3 DEF WriterOK, Following, Landing
    <3> QED BY <1>2, <3>1, <3>4 DEF WriterOK, Following, Landing, Judged, Engines
  <2> QED BY <2>1, <2>2
<1>7. \A v \in Writers \ Storing : st'[v] = ReadyStep
  BY <1>2, <1>3
<1> QED BY <1>3, <1>4, <1>5, <1>6, <1>7

------------------------------------------------------------------------------
(* What an operation that moves on leaves of its writer state. *)
LEMMA GotoIs ==
  ASSUME TypeOK, NEW w \in Storing, NEW place \in Places, MoveTo(w, place)
  PROVE  \E x \in States :
           /\ st' = [st EXCEPT ![w] = x] /\ x.pc = place /\ x.attempt = 0
           /\ x.copy = st[w].copy /\ x.landed = st[w].landed /\ x.base = st[w].base
           /\ x.why = st[w].why
<1> DEFINE x == [st[w] EXCEPT !.pc = place, !.attempt = 0]
<1>1. st[w] \in States
  BY DEF TypeOK, Storing
<1>2. /\ x \in States /\ x.pc = place /\ x.attempt = 0
      /\ x.copy = st[w].copy /\ x.landed = st[w].landed /\ x.base = st[w].base
      /\ x.why = st[w].why
  BY <1>1 DEF States
<1>3. st' = [st EXCEPT ![w] = x]
  BY DEF MoveTo
<1> HIDE DEF x
<1> QED BY <1>2, <1>3

(* What an operation that raises leaves of its writer's state. *)
LEMMA RaiseIs ==
  ASSUME TypeOK, NEW w \in Storing, NEW why \in Reasons, GiveUp(w, why)
  PROVE  \E x \in States :
           /\ st' = [st EXCEPT ![w] = x] /\ x.pc = "failed" /\ x.why = why
           /\ x.copy = st[w].copy /\ x.landed = st[w].landed /\ x.base = st[w].base
<1> DEFINE x == [st[w] EXCEPT !.pc = "failed", !.why = why]
<1>1. st[w] \in States
  BY DEF TypeOK, Storing
<1>2. /\ x \in States /\ x.pc = "failed" /\ x.why = why
      /\ x.copy = st[w].copy /\ x.landed = st[w].landed /\ x.base = st[w].base
  BY <1>1 DEF States, Places
<1>3. st' = [st EXCEPT ![w] = x]
  BY DEF GiveUp
<1> HIDE DEF x
<1> QED BY <1>2, <1>3

(* An attempt that failed moves the copy on to the table, or raises:       *)
(* IcebergOperationWithRetry.                                              *)
LEMMA RetryIs ==
  ASSUME TypeOK, NEW w \in Storing, NEW attempts, NEW why \in Reasons, Retry(w, attempts, why)
  PROVE  \E x \in States :
           /\ st' = [st EXCEPT ![w] = x]
           /\ x.landed = st[w].landed /\ x.base = st[w].base
           /\ \/ /\ x.pc = st[w].pc /\ x.attempt = st[w].attempt + 1 /\ x.copy = table
                 /\ x.why = st[w].why
              \/ /\ x.pc = "failed" /\ x.why = why /\ x.copy = st[w].copy
                 /\ ~ (st[w].attempt + 1 < attempts)
<1>1. CASE st[w].attempt + 1 < attempts
  <2> DEFINE x == [st[w] EXCEPT !.attempt = st[w].attempt + 1, !.copy = table]
  <2>1. st[w] \in States /\ table \in Tables
    BY DEF TypeOK, Storing
  <2>4. st[w].attempt + 1 \in Nat
    BY <2>1 DEF States
  <2> DEFINE y == [st[w] EXCEPT !.attempt = st[w].attempt + 1]
  <2>5. /\ y \in States /\ y.pc = st[w].pc /\ y.attempt = st[w].attempt + 1
        /\ y.landed = st[w].landed /\ y.base = st[w].base /\ y.why = st[w].why
    BY <2>1, <2>4 DEF States
  <2>2. /\ x \in States /\ x.pc = st[w].pc /\ x.attempt = st[w].attempt + 1
        /\ x.copy = table /\ x.landed = st[w].landed /\ x.base = st[w].base
        /\ x.why = st[w].why
    <3>1. x = [y EXCEPT !.copy = table]
      BY <2>1 DEF States
    <3> HIDE DEF x, y
    <3> QED BY <2>1, <2>5, <3>1 DEF States
  <2>3. st' = [st EXCEPT ![w] = x]
    BY <1>1 DEF Retry, Refreshed
  <2> HIDE DEF x
  <2> QED BY <2>2, <2>3
<1>2. CASE ~ (st[w].attempt + 1 < attempts)
  BY <1>2, RaiseIs DEF Retry
<1> QED BY <1>1, <1>2

(* What a commit of metadata leaves of its writer's state. *)
LEMMA CommitIs ==
  ASSUME TypeOK, NEW w \in Storing, NEW new \in Tables, NEW place \in Places,
         Commit(w, new, place)
  PROVE  /\ table' = new /\ rows' = rows
         /\ \E x \in States :
              /\ st' = [st EXCEPT ![w] = x] /\ x.pc = place /\ x.attempt = 0
              /\ x.copy = new /\ x.landed = st[w].landed /\ x.base = st[w].base
              /\ x.why = st[w].why
<1> DEFINE x == [st[w] EXCEPT !.pc = place, !.copy = new, !.attempt = 0]
<1>1. st[w] \in States
  BY DEF TypeOK, Storing
<1>2. /\ x \in States /\ x.pc = place /\ x.attempt = 0
      /\ x.copy = new /\ x.landed = st[w].landed /\ x.base = st[w].base
      /\ x.why = st[w].why
  BY <1>1 DEF States
<1>3. st' = [st EXCEPT ![w] = x] /\ table' = new /\ rows' = rows
  BY DEF Commit
<1> HIDE DEF x
<1> QED BY <1>2, <1>3

(* What the invariant says of one writer.                                  *)
LEMMA WriterIs ==
  ASSUME IcebergInv, NEW w \in Storing
  PROVE  /\ TypeOK /\ w \in Writers
         /\ st[w] \in States /\ st[w].copy \in Tables /\ table \in Tables
         /\ st[w].copy.snap \in Nat /\ st[w].base \in Nat /\ st[w].landed \in Nat
         /\ st[w].attempt \in Nat /\ table.snap \in Nat
         /\ Following(st[w], table) /\ Landing(st[w], table) /\ Judged(st[w], w)
         /\ Engines(st[w], w)
  BY DEF IcebergInv, TypeOK, Storing, States, Tables, WriterOK

(* A step that leaves the table and its rows alone.                        *)
LEMMA Alone ==
  ASSUME IcebergInv, NEW w \in Storing, NEW x \in States,
         st' = [st EXCEPT ![w] = x], plan' = plan, loads' = loads, SameTable,
         WriterOK(x, w, table),
         \/ /\ st[w].pc \notin {"done", "failed"} /\ x.landed = st[w].landed
            /\ x.pc \in {"report", "done"} => x.pc = "done" /\ st[w].pc = "report"
         \/ st[w].pc = "failed" /\ x = ReadyStep
  PROVE  Shape(w)
<1>1. /\ plan' = plan /\ loads' = loads /\ table' = table /\ rows' = rows
  BY DEF SameTable
<1>2. /\ table \in Tables /\ table.snap \in Nat /\ rows \in [Cells -> SUBSET Nat]
      /\ ~ table.exists => table = NoTable
      /\ \A c \in Cells : \A n \in rows[c] : n \in 1 .. table.snap
  BY DEF IcebergInv, TypeOK, Catalog, Tables
<1>3. Moves(w, x)
  BY <1>1, <1>2 DEF Moves
<1>4. Quiet(w, x)
  BY <1>1 DEF Quiet
<1> QED BY <1>3, <1>4 DEF Shape

(* An operation that raises has the shape of a writer's step. *)
LEMMA RaisedAlone ==
  ASSUME IcebergInv, NEW w \in Storing, NEW why \in Reasons, GiveUp(w, why),
         plan' = plan, loads' = loads, SameTable, st[w].pc \notin {"done", "failed"},
         why = "conflict" => table.snap - st[w].base >= 3,
         IF st[w].pc = "idle" THEN BadWindows(plan[w]) <=> why = "windows" ELSE why # "windows"
  PROVE  Shape(w)
<1>1. /\ TypeOK /\ Following(st[w], table) /\ Landing(st[w], table)
      /\ Judged(st[w], w) /\ Engines(st[w], w)
  BY WriterIs
<1>2. PICK x \in States :
        /\ st' = [st EXCEPT ![w] = x] /\ x.pc = "failed" /\ x.why = why
        /\ x.copy = st[w].copy /\ x.landed = st[w].landed /\ x.base = st[w].base
  BY <1>1, RaiseIs
<1>3. Following(x, table)
  BY <1>1, <1>2 DEF Following, Opened
<1>4. Landing(x, table)
  BY <1>1, <1>2 DEF Landing
<1>5. Judged(x, w)
  BY <1>1, <1>2 DEF Judged
<1>6. Engines(x, w)
  BY <1>1, <1>2 DEF Engines, SparkPlaces
<1>7. WriterOK(x, w, table)
  BY <1>3, <1>4, <1>5, <1>6 DEF WriterOK
<1> QED BY <1>2, <1>7, Alone

(* So has one that moves on with a copy no newer than the table and no     *)
(* older than what it opened.                                              *)
LEMMA MovedAlone ==
  ASSUME IcebergInv, NEW w \in Storing, NEW x \in States, st' = [st EXCEPT ![w] = x],
         x.base <= x.copy.snap, x.copy.snap <= table.snap, x.pc \in {"open", "write"} => x.attempt = 0,
         x.landed = st[w].landed, x.why = st[w].why,
         plan' = plan, loads' = loads, SameTable, st[w].pc \notin {"done", "failed"},
         IF st[w].pc = "idle" THEN ~ BadWindows(plan[w]) ELSE TRUE,
         x.pc \notin {"idle", "report"}, x.pc \in Opened => table.exists,
         x.pc = "done" <=> st[w].pc = "report",
         IF plan[w].engine = "spark" THEN x.pc \in SparkPlaces
         ELSE x.pc \notin {"createWithRows", "overwritePartitions"}
  PROVE  Shape(w)
<1>1. /\ Following(st[w], table) /\ Landing(st[w], table)
      /\ Judged(st[w], w) /\ Engines(st[w], w) /\ table \in Tables
  BY WriterIs
<1>2. x.base \in Nat
  BY DEF States
<1>3. Following(x, table)
  BY <1>1, <1>2 DEF Following
<1>4. Landing(x, table)
  BY <1>1 DEF Landing
<1>5. Judged(x, w)
  BY <1>1 DEF Judged
<1>6. Engines(x, w)
  BY <1>1 DEF Engines
<1>7. WriterOK(x, w, table)
  BY <1>3, <1>4, <1>5, <1>6 DEF WriterOK
<1> QED BY <1>7, Alone

(* So has one that moves on with the copy it has. *)
LEMMA GoneAlone ==
  ASSUME IcebergInv, NEW w \in Storing, NEW place \in Places, MoveTo(w, place),
         plan' = plan, loads' = loads, SameTable, st[w].pc \notin {"done", "failed"},
         IF st[w].pc = "idle" THEN ~ BadWindows(plan[w]) ELSE TRUE,
         place \notin {"idle", "report"}, place \in Opened => table.exists,
         place = "done" <=> st[w].pc = "report",
         IF plan[w].engine = "spark" THEN place \in SparkPlaces
         ELSE place \notin {"createWithRows", "overwritePartitions"}
  PROVE  Shape(w)
<1>1. TypeOK /\ Following(st[w], table)
  BY WriterIs
<1>2. PICK x \in States :
        /\ st' = [st EXCEPT ![w] = x] /\ x.pc = place /\ x.attempt = 0
        /\ x.copy = st[w].copy /\ x.landed = st[w].landed /\ x.base = st[w].base
        /\ x.why = st[w].why
  BY <1>1, GotoIs
<1>3. x.base <= x.copy.snap /\ x.copy.snap <= table.snap
  BY <1>1, <1>2 DEF Following
<1> QED BY <1>2, <1>3, MovedAlone

(* So has one that is tried again. A refused write is counted against a    *)
(* newer snapshot each time.                                               *)
LEMMA RetriedAlone ==
  ASSUME IcebergInv, NEW w \in Storing, NEW attempts, NEW why \in Reasons \ {"windows"},
         Retry(w, attempts, why), plan' = plan, loads' = loads, SameTable,
         st[w].pc \notin {"idle", "open", "report", "done", "failed"},
         why = "conflict" => st[w].pc = "write" /\ attempts = 3,
         st[w].pc = "write" => st[w].copy.snap # table.snap
  PROVE  Shape(w)
<1>1. /\ TypeOK /\ Following(st[w], table) /\ Landing(st[w], table)
      /\ Judged(st[w], w) /\ Engines(st[w], w)
      /\ st[w].copy.snap \in Nat /\ st[w].base \in Nat
      /\ st[w].attempt \in Nat /\ table.snap \in Nat
  BY WriterIs
<1>2. PICK x \in States :
        /\ st' = [st EXCEPT ![w] = x]
        /\ x.landed = st[w].landed /\ x.base = st[w].base
        /\ \/ /\ x.pc = st[w].pc /\ x.attempt = st[w].attempt + 1 /\ x.copy = table
              /\ x.why = st[w].why
           \/ /\ x.pc = "failed" /\ x.why = why /\ x.copy = st[w].copy
              /\ ~ (st[w].attempt + 1 < attempts)
  BY <1>1, RetryIs
<1>3. Following(x, table)
  <2>1. CASE x.pc = st[w].pc
    BY <1>1, <1>2, <2>1 DEF Following
  <2>2. CASE x.pc = "failed" /\ x.why = why /\ x.copy = st[w].copy
             /\ ~ (st[w].attempt + 1 < attempts)
    BY <1>1, <1>2, <2>2 DEF Following, Opened
  <2> QED BY <1>2, <2>1, <2>2
<1>4. Landing(x, table)
  BY <1>1, <1>2 DEF Landing
<1>5. Judged(x, w)
  BY <1>1, <1>2 DEF Judged
<1>6. Engines(x, w)
  BY <1>1, <1>2 DEF Engines, SparkPlaces
<1>7. WriterOK(x, w, table)
  BY <1>3, <1>4, <1>5, <1>6 DEF WriterOK
<1>8. x.pc \notin {"report", "done"}
  BY <1>2
<1> QED BY <1>2, <1>7, <1>8, Alone

(* A commit of the table's metadata.                                       *)
LEMMA Committed ==
  ASSUME IcebergInv, NEW w \in Storing, NEW new \in Tables,
         NEW place \in Opened \ {"overwritePartitions", "report", "done"},
         Commit(w, new, place), new.exists, new.snap = table.snap,
         plan' = plan, loads' = loads, plan[w].engine # "spark",
         st[w].pc \notin {"idle", "report", "done", "failed"}
  PROVE  Shape(w)
<1>1. /\ TypeOK /\ Following(st[w], table) /\ Landing(st[w], table)
      /\ Judged(st[w], w) /\ Engines(st[w], w)
      /\ st[w].copy.snap \in Nat /\ st[w].base \in Nat /\ table.snap \in Nat
  BY WriterIs
<1>2. PICK x \in States :
        /\ st' = [st EXCEPT ![w] = x] /\ x.pc = place /\ x.attempt = 0
        /\ x.copy = new /\ x.landed = st[w].landed /\ x.base = st[w].base
        /\ x.why = st[w].why
  BY <1>1, CommitIs DEF Places
<1>3. table' = new /\ rows' = rows
  BY DEF Commit
<1>4. Following(x, new)
  BY <1>1, <1>2 DEF Following
<1>5. Landing(x, new)
  BY <1>1, <1>2 DEF Landing, Opened
<1>6. Judged(x, w) /\ Engines(x, w)
  BY <1>1, <1>2 DEF Judged, Engines, Opened
<1>7. WriterOK(x, w, table')
  BY <1>3, <1>4, <1>5, <1>6 DEF WriterOK
<1>8. /\ rows \in [Cells -> SUBSET Nat]
      /\ \A c \in Cells : \A n \in rows[c] : n \in 1 .. table.snap
  BY DEF IcebergInv, TypeOK, Catalog
<1>9. Moves(w, x)
  BY <1>1, <1>2, <1>3, <1>7, <1>8 DEF Moves
<1>10. Quiet(w, x)
  BY <1>1, <1>2, <1>3 DEF Quiet, Opened
<1> QED BY <1>9, <1>10 DEF Shape

------------------------------------------------------------------------------
(* The checks a store begins with have the shape of a writer's step. *)
LEMMA BeginIs ==
  ASSUME IcebergInv, NEW w \in Storing, BeginStore(w) PROVE Shape(w)
<1>1. plan' = plan /\ loads' = loads /\ SameTable /\ st[w].pc = "idle"
  BY DEF BeginStore, Kept, InPlace
<1>2. CASE BadWindows(plan[w]) /\ GiveUp(w, "windows")
  BY <1>1, <1>2, RaisedAlone DEF Reasons
<1>3. CASE ~BadWindows(plan[w]) /\ BadOptions(plan[w]) /\ GiveUp(w, "options")
  BY <1>1, <1>3, RaisedAlone DEF Reasons
<1>4. CASE /\ ~BadWindows(plan[w]) /\ ~BadOptions(plan[w]) /\ BadColumns(plan[w])
           /\ GiveUp(w, "columns")
  BY <1>1, <1>4, RaisedAlone DEF Reasons
<1>5. CASE /\ ~(BadWindows(plan[w]) \/ BadOptions(plan[w]) \/ BadColumns(plan[w]))
           /\ MoveTo(w, "look")
  BY <1>1, <1>5, GoneAlone DEF Places, Opened, SparkPlaces
<1> QED BY <1>2, <1>3, <1>4, <1>5 DEF BeginStore

(* So has the look for the table. *)
LEMMA LookIs ==
  ASSUME IcebergInv, NEW w \in Storing, Look(w) PROVE Shape(w)
<1>1. /\ plan' = plan /\ loads' = loads /\ SameTable /\ st[w].pc = "look"
      /\ plan[w].engine # "spark"
  BY DEF Look, Kept, InPlace
<1>2. CASE table.exists
  <2> DEFINE x == [st[w] EXCEPT !.pc = "schema", !.copy = table, !.base = table.snap,
                                !.parted = DOMAIN table.spec # {}]
  <2>1. /\ st[w] \in States /\ table \in Tables /\ table.snap \in Nat
        /\ Following(st[w], table)
    BY WriterIs
  <2>2. st' = [st EXCEPT ![w] = x]
    BY <1>2 DEF Look
  <2>3. /\ x \in States /\ x.pc = "schema" /\ x.copy = table /\ x.base = table.snap
        /\ x.attempt = st[w].attempt /\ x.landed = st[w].landed /\ x.why = st[w].why
    BY <2>1 DEF States, Places, Opened
  <2> HIDE DEF x
  <2>4. x.base <= x.copy.snap /\ x.copy.snap <= table.snap
    BY <2>1, <2>3
  <2> QED BY <1>1, <1>2, <2>2, <2>3, <2>4, MovedAlone DEF Opened
<1>3. CASE ~ table.exists
  <2>1. MoveTo(w, "create")
    BY <1>3 DEF Look
  <2> QED BY <1>1, <1>3, <2>1, GoneAlone DEF Places, Opened
<1> QED BY <1>2, <1>3

(* So has its creation, also when another writer was first. *)
LEMMA CreateIs ==
  ASSUME IcebergInv, NEW w \in Storing, Create(w) PROVE Shape(w)
<1>1. plan' = plan /\ loads' = loads /\ st[w].pc = "create"
  BY DEF Create, Kept, InPlace
<1>2. plan[w].engine # "spark"
  BY <1>1, WriterIs DEF Engines, SparkPlaces
<1>3. CASE table.exists
  <2>1. SameTable /\ Retry(w, 3, "exists")
    BY <1>3 DEF Create
  <2> QED BY <1>1, <2>1, RetriedAlone DEF Reasons
<1>4. CASE ~ table.exists
  <2> DEFINE new == [NoTable EXCEPT !.exists = TRUE, !.cols = plan[w].cols,
                                    !.props = plan[w].props]
  <2>1. Commit(w, new, "open")
    BY <1>4 DEF Create
  <2>2. TypeOK /\ table = NoTable
    BY <1>4 DEF IcebergInv, Catalog
  <2>3. NoTable \in Tables
    BY <2>2, NoTableIs
  <2>4. plan[w].cols \in Columns /\ plan[w].props \in SUBSET Properties
    BY DEF Columns, Properties
  <2>5. new \in Tables /\ new.exists /\ new.snap = NoTable.snap
    BY <2>3, <2>4 DEF Tables
  <2> HIDE DEF new
  <2> QED BY <1>1, <1>2, <2>1, <2>2, <2>5, Committed DEF Opened
<1> QED BY <1>3, <1>4

(* So has the load of the table that was created. *)
LEMMA OpenIs ==
  ASSUME IcebergInv, NEW w \in Storing, Open(w) PROVE Shape(w)
<1>1. plan' = plan /\ loads' = loads /\ st[w].pc = "open" /\ SameTable
  BY DEF Open, Kept, InPlace
<1>2. PICK place \in {"spec", "write"} :
        st' = [st EXCEPT ![w].pc = place,
                         ![w].copy = table, ![w].fresh = TRUE, ![w].base = table.snap]
  BY DEF Open
<1> DEFINE x == [st[w] EXCEPT !.pc = place, !.copy = table, !.fresh = TRUE,
                              !.base = table.snap]
<1>3. /\ st[w] \in States /\ table \in Tables /\ table.snap \in Nat
      /\ Following(st[w], table) /\ Engines(st[w], w)
  BY WriterIs
<1>4. st' = [st EXCEPT ![w] = x]
  BY <1>2
<1>5. /\ x \in States /\ x.pc = place /\ x.copy = table /\ x.base = table.snap
      /\ x.attempt = st[w].attempt /\ x.landed = st[w].landed /\ x.why = st[w].why
  BY <1>3 DEF States, Places, Opened
<1> HIDE DEF x
<1>6. plan[w].engine # "spark" /\ table.exists /\ st[w].attempt = 0
  BY <1>1, <1>3 DEF Engines, SparkPlaces, Following, Opened
<1>7. x.base <= x.copy.snap /\ x.copy.snap <= table.snap
  BY <1>3, <1>5
<1> QED BY <1>1, <1>4, <1>5, <1>6, <1>7, MovedAlone DEF Opened

(* So has the update of its schema. *)
LEMMA UpdateSchemaIs ==
  ASSUME IcebergInv, NEW w \in Storing, UpdateSchema(w) PROVE Shape(w)
<1>1. plan' = plan /\ loads' = loads /\ st[w].pc = "schema"
  BY DEF UpdateSchema, Kept, InPlace
<1>2. plan[w].engine # "spark" /\ table.exists /\ table \in Tables
  BY <1>1, WriterIs DEF Engines, SparkPlaces, Following, Opened
<1>3. CASE MoveTo(w, "refresh") /\ SameTable
  BY <1>1, <1>2, <1>3, GoneAlone DEF Places, Opened
<1>4. CASE Retry(w, 6, "schema") /\ SameTable
  BY <1>1, <1>4, RetriedAlone DEF Reasons
<1>5. CASE GiveUp(w, "commit") /\ SameTable
  BY <1>1, <1>5, RaisedAlone DEF Reasons
<1>6. CASE Commit(w, [table EXCEPT !.cols = plan[w].cols, !.sver = @ + 1], "refresh")
  <2> DEFINE new == [table EXCEPT !.cols = plan[w].cols, !.sver = @ + 1]
  <2>1. plan[w].cols \in Columns
    BY DEF Columns
  <2>4. table.sver + 1 \in Nat
    BY <1>2 DEF Tables
  <2>2. new \in Tables /\ new.exists /\ new.snap = table.snap
    BY <1>2, <2>1, <2>4 DEF Tables
  <2>3. Commit(w, new, "refresh")
    BY <1>6
  <2> HIDE DEF new
  <2> QED BY <1>1, <1>2, <2>2, <2>3, Committed DEF Opened
<1> QED BY <1>3, <1>4, <1>5, <1>6 DEF UpdateSchema

(* So has the refresh before the partition spec is compared. *)
LEMMA RefreshIs ==
  ASSUME IcebergInv, NEW w \in Storing, Refresh(w) PROVE Shape(w)
<1>1. plan' = plan /\ loads' = loads /\ st[w].pc = "refresh" /\ SameTable
  BY DEF Refresh, Kept, InPlace
<1>2. plan[w].engine # "spark" /\ table.exists
  BY <1>1, WriterIs DEF Engines, SparkPlaces, Following, Opened
<1>3. CASE MoveTo(w, "properties")
  BY <1>1, <1>2, <1>3, GoneAlone DEF Places, Opened
<1>4. CASE st' = [st EXCEPT ![w].pc = "spec", ![w].copy = table]
  <2> DEFINE x == [st[w] EXCEPT !.pc = "spec", !.copy = table]
  <2>1. /\ st[w] \in States /\ table \in Tables /\ table.snap \in Nat
        /\ st[w].copy.snap \in Nat /\ st[w].base \in Nat /\ Following(st[w], table)
    BY WriterIs
  <2>2. st' = [st EXCEPT ![w] = x]
    BY <1>4
  <2>3. /\ x \in States /\ x.pc = "spec" /\ x.copy = table /\ x.base = st[w].base
        /\ x.attempt = st[w].attempt /\ x.landed = st[w].landed /\ x.why = st[w].why
    BY <2>1 DEF States, Places, Opened
  <2>4. x.base <= x.copy.snap /\ x.copy.snap <= table.snap
    BY <2>1, <2>3 DEF Following
  <2> HIDE DEF x
  <2> QED BY <1>1, <1>2, <2>2, <2>3, <2>4, MovedAlone DEF Opened
<1> QED BY <1>3, <1>4 DEF Refresh

(* The partition spec that a writer commits is one. *)
LEMMA NewSpecIs ==
  ASSUME TypeOK, NEW w \in Storing
  PROVE  NewSpec(plan[w], table.spec) \in Specs
<1> DEFINE p == plan[w]
           s == table.spec
<1>1. p.dims \in SUBSET Dims /\ s \in Specs
  BY PlanIs DEF TypeOK, Tables
<1>2. \A d \in DOMAIN s : s[d] \in Transforms
  BY <1>1 DEF Specs
<1>3. ASSUME NEW d \in p.dims
      PROVE  (IF d \in NewFields(p, s) \cup UpdatedFields(p, s)
              THEN TransformOf(p, d) ELSE s[d]) \in Transforms
  <2>1. TransformOf(p, d) \in Transforms
    BY DEF TransformOf, Transforms
  <2> QED BY <1>2, <2>1 DEF NewFields
<1>4. NewSpec(p, s) \in [p.dims -> Transforms]
  BY <1>3 DEF NewSpec
<1> QED BY <1>1, <1>4 DEF Specs

(* The update of the partition spec has the shape of a writer's step. *)
LEMMA UpdateSpecIs ==
  ASSUME IcebergInv, NEW w \in Storing, UpdateSpec(w) PROVE Shape(w)
<1>1. plan' = plan /\ loads' = loads /\ st[w].pc = "spec"
  BY DEF UpdateSpec, Kept, InPlace
<1>2. /\ plan[w].engine # "spark" /\ table.exists /\ table \in Tables /\ TypeOK
  BY <1>1, WriterIs DEF Engines, SparkPlaces, Following, Opened
<1>3. PICK then \in {"write", "properties"} :
        \/ GiveUp(w, "window") /\ SameTable
        \/ MoveTo(w, then) /\ SameTable
        \/ Retry(w, SpecAttempts(plan[w]), "spec") /\ SameTable
        \/ Commit(w, [table EXCEPT !.spec = NewSpec(plan[w], @), !.pver = @ + 1], then)
        \/ GiveUp(w, "commit") /\ SameTable
  BY DEF UpdateSpec
<1>4. CASE GiveUp(w, "window") /\ SameTable
  BY <1>1, <1>4, RaisedAlone DEF Reasons
<1>5. CASE MoveTo(w, then) /\ SameTable
  BY <1>1, <1>2, <1>5, GoneAlone DEF Places, Opened
<1>6. CASE Retry(w, SpecAttempts(plan[w]), "spec") /\ SameTable
  BY <1>1, <1>6, RetriedAlone DEF Reasons
<1>7. CASE GiveUp(w, "commit") /\ SameTable
  BY <1>1, <1>7, RaisedAlone DEF Reasons
<1>8. CASE Commit(w, [table EXCEPT !.spec = NewSpec(plan[w], @), !.pver = @ + 1], then)
  <2> DEFINE new == [table EXCEPT !.spec = NewSpec(plan[w], table.spec), !.pver = @ + 1]
  <2>1. table.pver + 1 \in Nat /\ NewSpec(plan[w], table.spec) \in Specs
    BY <1>2, NewSpecIs DEF Tables
  <2>2. new \in Tables /\ new.exists /\ new.snap = table.snap
    BY <1>2, <2>1 DEF Tables
  <2>3. Commit(w, new, then)
    BY <1>8
  <2> HIDE DEF new
  <2> QED BY <1>1, <1>2, <2>2, <2>3, Committed DEF Opened
<1> QED BY <1>3, <1>4, <1>5, <1>6, <1>7, <1>8

(* So has the update of the table's properties. *)
LEMMA UpdatePropertiesIs ==
  ASSUME IcebergInv, NEW w \in Storing, UpdateProperties(w) PROVE Shape(w)
<1>1. plan' = plan /\ loads' = loads /\ st[w].pc = "properties"
  BY DEF UpdateProperties, Kept, InPlace
<1>2. plan[w].engine # "spark" /\ table.exists /\ table \in Tables
  BY <1>1, WriterIs DEF Engines, SparkPlaces, Following, Opened
<1> DEFINE kept == (table.props \ (st[w].copy.props \ plan[w].props)) \cup plan[w].props
<1>3. CASE MoveTo(w, "write") /\ SameTable
  BY <1>1, <1>2, <1>3, GoneAlone DEF Places, Opened
<1>4. CASE Commit(w, [table EXCEPT !.props = kept], "write")
  <2> DEFINE new == [table EXCEPT !.props = kept]
  <2>1. kept \in SUBSET Properties
    BY <1>2 DEF Properties, Tables
  <2> HIDE DEF kept
  <2>2. new \in Tables /\ new.exists /\ new.snap = table.snap
    BY <1>2, <2>1 DEF Tables
  <2>3. Commit(w, new, "write")
    BY <1>4
  <2> HIDE DEF new
  <2> QED BY <1>1, <1>2, <2>2, <2>3, Committed DEF Opened
<1> QED BY <1>3, <1>4 DEF UpdateProperties

(* So has the report of what was stored. *)
LEMMA ReportIs ==
  ASSUME IcebergInv, NEW w \in Storing, Report(w) PROVE Shape(w)
<1>1. plan' = plan /\ loads' = loads /\ st[w].pc = "report" /\ SameTable /\ MoveTo(w, "done")
  BY DEF Report, Kept, InPlace
<1>2. table.exists /\ Engines(st[w], w)
  BY <1>1, WriterIs DEF Following, Opened
<1> QED BY <1>1, <1>2, GoneAlone DEF Places, Opened, SparkPlaces

(* So has Spark's look for the table. *)
LEMMA SparkLookIs ==
  ASSUME IcebergInv, NEW w \in Storing, SparkLook(w) PROVE Shape(w)
<1>1. /\ plan' = plan /\ loads' = loads /\ st[w].pc = "look" /\ SameTable
      /\ plan[w].engine = "spark"
  BY DEF SparkLook, Kept, InPlace
<1>2. CASE table.exists
  BY <1>1, <1>2, GoneAlone DEF SparkLook, Places, Opened, SparkPlaces
<1>3. CASE ~ table.exists
  BY <1>1, <1>3, GoneAlone DEF SparkLook, Places, Opened, SparkPlaces
<1> QED BY <1>2, <1>3

(* So has a fault, or the end of the step's process. *)
LEMMA LoseIs ==
  ASSUME IcebergInv, NEW w \in Storing, Lose(w) PROVE Shape(w)
<1>1. /\ plan' = plan /\ loads' = loads /\ SameTable /\ GiveUp(w, "lost")
      /\ st[w].pc \notin {"idle", "done", "failed"}
  BY DEF Lose
<1> QED BY <1>1, RaisedAlone DEF Reasons

(* So has the start of the next attempt of the step. *)
LEMMA AgainIs ==
  ASSUME IcebergInv, NEW w \in Storing, Again(w) PROVE Shape(w)
<1>1. /\ plan' = plan /\ loads' = loads /\ SameTable /\ st[w].pc = "failed"
      /\ st' = [st EXCEPT ![w] = ReadyStep]
  BY DEF Again, InPlace
<1>2. ReadyStep \in States /\ TypeOK /\ table.snap \in Nat
  BY WriterIs, ReadyIs
<1>3. WriterOK(ReadyStep, w, table)
  BY <1>2 DEF WriterOK, Following, Landing, Judged, Engines, ReadyStep, NoTable, Opened, SparkPlaces
<1> QED BY <1>1, <1>2, <1>3, Alone

(* A write n leaves n or what was there in every cell, or nothing.         *)
Mixed(c, n) == {{}, {n}, rows[c], rows[c] \cup {n}}

(* Whatever the write mode, a write leaves in each cell its rows, those    *)
(* that were there, both or none.                                          *)
LEMMA AfterIs ==
  ASSUME NEW p, p.mode \in Modes, NEW n
  PROVE  \E f : /\ After(p, n) = f /\ f = [c \in Cells |-> f[c]]
                /\ \A c \in Cells : f[c] \in Mixed(c, n)
<1>1. CASE p.mode = "append"
  <2>1. After(p, n) = Appended(p, n)
    BY <1>1 DEF After
  <2> DEFINE f == Appended(p, n)
  <2>2. f = [c \in Cells |-> f[c]] /\ \A c \in Cells : f[c] \in Mixed(c, n)
    BY DEF Appended, Mixed
  <2> HIDE DEF f
  <2> QED BY <2>1, <2>2 DEF f
<1>2. CASE p.mode = "overwrite"
  <2>1. After(p, n) = Replaced(p, n)
    BY <1>2 DEF After
  <2> DEFINE f == Replaced(p, n)
  <2>2. f = [c \in Cells |-> f[c]] /\ \A c \in Cells : f[c] \in Mixed(c, n)
    BY DEF Replaced, Mixed
  <2> HIDE DEF f
  <2> QED BY <2>1, <2>2 DEF f
<1>3. CASE p.mode = "upsert"
  <2>1. After(p, n) = Upserted(p, n)
    BY <1>3 DEF After
  <2> DEFINE f == Upserted(p, n)
  <2>2. f = [c \in Cells |-> f[c]] /\ \A c \in Cells : f[c] \in Mixed(c, n)
    BY DEF Upserted, Mixed
  <2> HIDE DEF f
  <2> QED BY <2>1, <2>2 DEF f
<1> QED BY <1>1, <1>2, <1>3 DEF Modes

(* The step that lands a write: the table's snapshot is that of its rows.  *)
LEMMA Landed ==
  ASSUME IcebergInv, NEW w \in Storing, plan' = plan, loads' = loads,
         st' = [st EXCEPT ![w].pc = "report", ![w].landed = table.snap + 1],
         st[w].pc \notin {"idle", "report", "done", "failed"},
         table' \in Tables, table'.exists, table'.snap = table.snap + 1,
         rows' = [c \in Cells |-> rows'[c]],
         \A c \in Cells : rows'[c] \in Mixed(c, table.snap + 1)
  PROVE  \E x \in States :
           /\ Moves(w, x) /\ x.pc = "report" /\ x.landed = table.snap + 1
           /\ st[w].landed = 0
<1> DEFINE n == table.snap + 1
           x == [st[w] EXCEPT !.pc = "report", !.landed = n]
<1>1. /\ st[w] \in States /\ w \in Writers /\ st[w].copy.snap \in Nat /\ st[w].base \in Nat
      /\ table.snap \in Nat
      /\ Following(st[w], table) /\ Landing(st[w], table) /\ Judged(st[w], w)
      /\ Engines(st[w], w)
  BY WriterIs
<1>2. n \in Nat /\ n # 0 /\ table.snap <= n
  BY <1>1
<1>3. st' = [st EXCEPT ![w] = x]
  OBVIOUS
<1>4. /\ x \in States /\ x.pc = "report" /\ x.landed = n /\ x.copy = st[w].copy
      /\ x.base = st[w].base /\ x.attempt = st[w].attempt /\ x.why = st[w].why
  BY <1>1, <1>2 DEF States, Places, Opened
<1>5. /\ rows \in [Cells -> SUBSET Nat]
      /\ \A c \in Cells : \A i \in rows[c] : i \in 1 .. table.snap
  BY DEF IcebergInv, TypeOK, Catalog
<1>6. ASSUME NEW c \in Cells PROVE rows'[c] \in SUBSET Nat /\ \A i \in rows'[c] : i \in 1 .. n
  <2>1. rows'[c] \in {{}, {n}, rows[c], rows[c] \cup {n}}
    BY DEF Mixed
  <2>2. \A i \in rows[c] : i \in Nat /\ i \in 1 .. n
    BY <1>1, <1>5
  <2>3. n \in 1 .. n
    BY <1>2
  <2> HIDE DEF n
  <2> QED BY <1>2, <2>1, <2>2, <2>3
<1> HIDE DEF x
<1>7. Following(x, table')
  BY <1>1, <1>2, <1>4 DEF Following
<1>8. Landing(x, table')
  BY <1>2, <1>4 DEF Landing
<1>9. Judged(x, w) /\ Engines(x, w)
  BY <1>1, <1>4 DEF Judged, Engines, SparkPlaces
<1>10. WriterOK(x, w, table')
  BY <1>7, <1>8, <1>9 DEF WriterOK
<1>11. rows' \in [Cells -> SUBSET Nat]
  BY <1>6
<1>12. Moves(w, x)
  BY <1>2, <1>3, <1>6, <1>10, <1>11 DEF Moves
<1>13. st[w].landed = 0
  BY <1>1 DEF Landing
<1> QED BY <1>4, <1>12, <1>13

(* The attempt to write has the shape of a writer's step. *)
LEMMA WriteIs ==
  ASSUME IcebergInv, NEW w \in Storing, Write(w) PROVE Shape(w)
<1>1. plan' = plan /\ loads' = loads /\ st[w].pc = "write"
  BY DEF Write, Kept, InPlace
<1>2. plan[w].engine # "spark" /\ table.exists /\ table \in Tables /\ TypeOK
  BY <1>1, WriterIs DEF Engines, SparkPlaces, Following, Opened
<1>3. CASE GiveUp(w, "filter") /\ SameTable
  BY <1>1, <1>3, RaisedAlone DEF Reasons
<1>4. CASE GiveUp(w, "columns") /\ SameTable
  BY <1>1, <1>4, RaisedAlone DEF Reasons
<1>5. CASE st[w].copy.snap # table.snap /\ Conflict(w) /\ SameTable
  BY <1>1, <1>5, RetriedAlone DEF Conflict, Reasons
<1>6. CASE /\ table' = [table EXCEPT !.snap = table.snap + 1]
           /\ rows' = After(plan[w], table.snap + 1)
           /\ st' = [st EXCEPT ![w].pc = "report", ![w].landed = table.snap + 1]
  <2>1. table.snap + 1 \in Nat
    BY <1>2 DEF Tables
  <2>2. table' \in Tables /\ table'.exists /\ table'.snap = table.snap + 1
    BY <1>2, <1>6, <2>1 DEF Tables
  <2>3. plan[w].mode \in Modes
    BY <1>2, PlanIs
  <2>4. PICK f : /\ After(plan[w], table.snap + 1) = f /\ f = [c \in Cells |-> f[c]]
                 /\ \A c \in Cells : f[c] \in Mixed(c, table.snap + 1)
    BY <2>3, AfterIs
  <2>5. /\ rows' = [c \in Cells |-> rows'[c]]
        /\ \A c \in Cells : rows'[c] \in Mixed(c, table.snap + 1)
    BY <1>6, <2>4
  <2>6. PICK x \in States :
          /\ Moves(w, x) /\ x.pc = "report" /\ x.landed = table.snap + 1 /\ st[w].landed = 0
    BY <1>1, <1>6, <2>2, <2>5, Landed
  <2>7. Lands(w, x)
    BY <1>1, <1>2, <1>6, <2>6 DEF Lands
  <2> QED BY <2>6, <2>7 DEF Shape
<1> QED BY <1>3, <1>4, <1>5, <1>6 DEF Write

(* So has Spark's creation of the table with its rows. *)
LEMMA SparkCreateIs ==
  ASSUME IcebergInv, NEW w \in Storing, SparkCreate(w) PROVE Shape(w)
<1>1. plan' = plan /\ loads' = loads /\ st[w].pc = "createWithRows"
  BY DEF SparkCreate, Kept, InPlace
<1>2. plan[w].engine = "spark" /\ table \in Tables /\ TypeOK
  BY <1>1, WriterIs DEF Engines
<1>3. CASE table.exists
  BY <1>1, <1>3, RaisedAlone DEF SparkCreate, Reasons
<1>4. CASE ~ table.exists
  <2>1. table = NoTable
    BY <1>4 DEF IcebergInv, Catalog
  <2>2. table.snap = 0 /\ table.snap + 1 = 1
    BY <2>1 DEF NoTable
  <2>3. plan[w].dims \in SUBSET Dims
    BY <1>2, PlanIs
  <2>4. SparkSpec(plan[w]) \in [plan[w].dims -> Transforms]
    BY DEF SparkSpec, Transforms
  <2>5. SparkSpec(plan[w]) \in Specs /\ DOMAIN SparkSpec(plan[w]) = plan[w].dims
    BY <2>3, <2>4 DEF Specs
  <2>6. plan[w].cols \in Columns
    BY DEF Columns
  <2>7. /\ table' = [NoTable EXCEPT !.exists = TRUE, !.cols = plan[w].cols,
                                    !.spec = SparkSpec(plan[w]), !.snap = 1]
        /\ rows' = [c \in Cells |-> IF c \in plan[w].cells THEN {1} ELSE {}]
        /\ st' = [st EXCEPT ![w].pc = "report", ![w].landed = 1]
    BY <1>4 DEF SparkCreate
  <2> DEFINE s == SparkSpec(plan[w])
  <2> HIDE DEF s
  <2>8. table' \in Tables /\ table'.exists /\ table'.snap = 1 /\ table'.spec = s
    <3>1. s \in Specs /\ NoTable \in Tables
      BY <1>2, <2>5, NoTableIs DEF s
    <3>2. table' = [NoTable EXCEPT !.exists = TRUE, !.cols = plan[w].cols,
                                    !.spec = s, !.snap = 1]
      BY <2>7 DEF s
    <3> QED BY <2>6, <3>1, <3>2 DEF Tables
  <2>9. /\ rows' = [c \in Cells |-> rows'[c]]
        /\ \A c \in Cells : rows'[c] \in Mixed(c, 1)
    BY <2>7 DEF Mixed
  <2>10. PICK x \in States :
          /\ Moves(w, x) /\ x.pc = "report" /\ x.landed = table.snap + 1 /\ st[w].landed = 0
    BY <1>1, <2>2, <2>7, <2>8, <2>9, Landed
  <2>11. Lands(w, x)
    BY <1>1, <1>2, <1>4, <2>5, <2>7, <2>8, <2>10 DEF Lands, s
  <2> QED BY <2>10, <2>11 DEF Shape
<1> QED BY <1>3, <1>4

(* So has Spark's replacement of the partitions its rows are in. *)
LEMMA SparkOverwriteIs ==
  ASSUME IcebergInv, NEW w \in Storing, SparkOverwrite(w) PROVE Shape(w)
<1>1. plan' = plan /\ loads' = loads /\ st[w].pc = "overwritePartitions"
  BY DEF SparkOverwrite, Kept, InPlace
<1>2. plan[w].engine = "spark" /\ table \in Tables /\ table.exists
  BY <1>1, WriterIs DEF Engines, Following, Opened
<1>3. CASE GiveUp(w, "columns") /\ SameTable
  BY <1>1, <1>3, RaisedAlone DEF Reasons
<1>4. CASE /\ table' = [table EXCEPT !.snap = table.snap + 1]
           /\ rows' = SparkRows(plan[w], table.snap + 1)
           /\ st' = [st EXCEPT ![w].pc = "report", ![w].landed = table.snap + 1]
  <2>1. table.snap + 1 \in Nat
    BY <1>2 DEF Tables
  <2>2. /\ table' \in Tables /\ table'.exists /\ table'.snap = table.snap + 1
        /\ table'.spec = table.spec
    BY <1>2, <1>4, <2>1 DEF Tables
  <2>3. /\ rows' = [c \in Cells |-> rows'[c]]
        /\ \A c \in Cells : rows'[c] \in Mixed(c, table.snap + 1)
    BY <1>4 DEF Mixed, SparkRows
  <2>4. PICK x \in States :
          /\ Moves(w, x) /\ x.pc = "report" /\ x.landed = table.snap + 1 /\ st[w].landed = 0
    BY <1>1, <1>4, <2>2, <2>3, Landed
  <2>5. Lands(w, x)
    BY <1>1, <1>2, <1>4, <2>2, <2>4 DEF Lands
  <2> QED BY <2>4, <2>5 DEF Shape
<1> QED BY <1>3, <1>4 DEF SparkOverwrite, SparkRows

(* Every step of a writer has the shape of one. *)
LEMMA StepIs ==
  ASSUME IcebergInv, NEW w \in Storing, WriterStep(w) PROVE Shape(w)
  BY BeginIs, LookIs, CreateIs, OpenIs, UpdateSchemaIs, RefreshIs, UpdateSpecIs,
     UpdatePropertiesIs, WriteIs, ReportIs, SparkLookIs, SparkCreateIs, SparkOverwriteIs,
     LoseIs, AgainIs DEF WriterStep

(* A load keeps the invariant. *)
LEMMA LoadIs ==
  ASSUME IcebergInv, NEW r \in Loading, ReadTable(r) PROVE IcebergInv'
<1>1. /\ plan' = plan /\ st' = st /\ table' = table /\ rows' = rows
      /\ loads' = [loads EXCEPT ![r] = loads'[r]]
  BY DEF ReadTable, SameTable, IcebergInv, TypeOK, Loading
<1>2. Storing' = Storing /\ Tables' = Tables /\ States' = States
  BY <1>1, SetsKept
<1>3. TypeOK'
  BY <1>1, <1>2 DEF IcebergInv, TypeOK
<1>4. Catalog' /\ \A w \in Writers \ Storing : st'[w] = ReadyStep
  BY <1>1 DEF IcebergInv, Catalog
<1>5. \A w \in Storing : WriterOK(st[w], w, table)'
  BY <1>1 DEF IcebergInv, WriterOK, Following, Landing, Judged, Engines
<1> QED BY <1>1, <1>2, <1>3, <1>4, <1>5 DEF IcebergInv

(* A step of nobody keeps the invariant. *)
LEMMA SameIs ==
  ASSUME IcebergInv, UNCHANGED icebergVars PROVE IcebergInv'
<1>1. /\ plan' = plan /\ st' = st /\ table' = table /\ rows' = rows /\ loads' = loads
  BY DEF icebergVars
<1>2. Storing' = Storing /\ Tables' = Tables /\ States' = States
  BY <1>1, SetsKept
<1>3. TypeOK' /\ Catalog' /\ \A w \in Writers \ Storing : st'[w] = ReadyStep
  BY <1>1, <1>2 DEF IcebergInv, TypeOK, Catalog
<1>4. \A w \in Storing : WriterOK(st[w], w, table)'
  BY <1>1 DEF IcebergInv, WriterOK, Following, Landing, Judged, Engines
<1> QED BY <1>1, <1>2, <1>3, <1>4 DEF IcebergInv

(* The invariant holds at the start. *)
LEMMA InitIs ==
  ASSUME IcebergInit PROVE IcebergInv
<1>1. /\ plan \in Plans /\ table = NoTable /\ rows = [c \in Cells |-> {}]
      /\ st = [w \in Writers |-> ReadyStep] /\ loads = [r \in Readers |-> NotLoaded]
  BY DEF IcebergInit
<1>2. << >> \in Specs
  <2>1. << >> \in [{} -> Transforms]
    OBVIOUS
  <2> QED BY <2>1 DEF Specs
<1>3. NoTable \in Tables
  BY <1>2 DEF NoTable, Tables, Columns
<1>4. ReadyStep \in States
  BY <1>3 DEF ReadyStep, States, Places, Opened, Reasons
<1>5. TypeOK /\ Catalog
  BY <1>1, <1>3, <1>4 DEF TypeOK, Catalog
<1>6. ASSUME NEW w \in Storing PROVE WriterOK(st[w], w, table)
  <2>1. st[w] = ReadyStep /\ table.snap = 0 /\ ~ table.exists
    BY <1>1 DEF Storing, NoTable
  <2> QED BY <2>1 DEF WriterOK, Following, Landing, Judged, Engines, ReadyStep, NoTable,
                      Opened, SparkPlaces
<1> QED BY <1>1, <1>5, <1>6 DEF IcebergInv

(* The inductive invariant: every state has its type, a copy of the table  *)
(* is between what its writer opened and what the catalog holds, and a     *)
(* refused attempt has moved it on.                                        *)
THEOREM IcebergInvariant == IcebergSpec => []IcebergInv
<1>1. IcebergInv /\ [IcebergNext]_icebergVars => IcebergInv'
  BY StepIs, ShapeKeeps, LoadIs, SameIs DEF IcebergNext
<1> QED BY <1>1, InitIs, PTL DEF IcebergSpec

(* LostOnlyToOthers: a write is given up for conflicts only after three    *)
(* other writes landed since it opened the table (retries.py).             *)
THEOREM LostAlwaysToOthers == IcebergSpec => []LostOnlyToOthers
<1>1. IcebergInv => LostOnlyToOthers
  <2> SUFFICES ASSUME IcebergInv, NEW w \in Writers, st[w].why = "conflict"
               PROVE  table.snap - st[w].base >= 3
    BY DEF LostOnlyToOthers
  <2>1. w \in Storing
    BY DEF IcebergInv, ReadyStep
  <2> QED BY <2>1, WriterIs DEF Following
<1> QED BY <1>1, IcebergInvariant, PTL

------------------------------------------------------------------------------
(* A finite set of numbers that is not empty has a largest one: what Max   *)
(* stands for.                                                             *)
LEMMA HasMax ==
  ASSUME NEW S, IsFiniteSet(S), S # {}, S \subseteq Int
  PROVE  \E m \in S : \A x \in S : m >= x
<1> DEFINE Topped(U) == \E m \in U : \A x \in U : m >= x
           T == {U \in SUBSET S : U # {} /\ ~ Topped(U)}
<1> SUFFICES ASSUME T # {} PROVE FALSE
  OBVIOUS
<1>1. T \subseteq FiniteSubsetsOf(S)
  BY FS_Subset DEF FiniteSubsetsOf
<1>2. PICK U \in T : \A V \in T : <<V, U>> \notin StrictSubsetOrdering(S)
  <2> HIDE DEF T
  <2> QED BY <1>1, FS_StrictSubsetOrderingWellFounded, WFMin
<1>3. PICK u \in U : TRUE
  OBVIOUS
<1> DEFINE V == U \ {u}
<1>4. <<V, U>> \in StrictSubsetOrdering(S)
  BY DEF StrictSubsetOrdering
<1>5. V = {} \/ Topped(V)
  BY <1>2, <1>4
<1>6. CASE V = {}
  <2>1. \A x \in U : u >= x
    BY <1>6
  <2> QED BY <2>1
<1>7. CASE Topped(V)
  <2>1. PICK m \in V : \A x \in V : m >= x
    BY <1>7
  <2>2. u \in Int /\ m \in Int
    OBVIOUS
  <2>3. CASE u >= m
    <3>1. \A x \in U : u >= x
      BY <2>1, <2>2, <2>3
    <3> QED BY <3>1
  <2>4. CASE m > u
    <3>1. \A x \in U : m >= x
      BY <2>1, <2>2, <2>4
    <3> QED BY <3>1
  <2> QED BY <2>2, <2>3, <2>4
<1> QED BY <1>5, <1>6, <1>7

(* It has a smallest one too: what Min stands for. *)
LEMMA HasMin ==
  ASSUME NEW S, IsFiniteSet(S), S # {}, S \subseteq Int
  PROVE  \E m \in S : \A x \in S : m <= x
<1> DEFINE Bottomed(U) == \E m \in U : \A x \in U : m <= x
           T == {U \in SUBSET S : U # {} /\ ~ Bottomed(U)}
<1> SUFFICES ASSUME T # {} PROVE FALSE
  OBVIOUS
<1>1. T \subseteq FiniteSubsetsOf(S)
  BY FS_Subset DEF FiniteSubsetsOf
<1>2. PICK U \in T : \A V \in T : <<V, U>> \notin StrictSubsetOrdering(S)
  <2> HIDE DEF T
  <2> QED BY <1>1, FS_StrictSubsetOrderingWellFounded, WFMin
<1>3. PICK u \in U : TRUE
  OBVIOUS
<1> DEFINE V == U \ {u}
<1>4. <<V, U>> \in StrictSubsetOrdering(S)
  BY DEF StrictSubsetOrdering
<1>5. V = {} \/ Bottomed(V)
  BY <1>2, <1>4
<1>6. CASE V = {}
  <2>1. \A x \in U : u <= x
    BY <1>6
  <2> QED BY <2>1
<1>7. CASE Bottomed(V)
  <2>1. PICK m \in V : \A x \in V : m <= x
    BY <1>7
  <2>2. u \in Int /\ m \in Int
    OBVIOUS
  <2>3. CASE u <= m
    <3>1. \A x \in U : u <= x
      BY <2>1, <2>2, <2>3
    <3> QED BY <3>1
  <2>4. CASE m < u
    <3>1. \A x \in U : m <= x
      BY <2>1, <2>2, <2>4
    <3> QED BY <3>1
  <2> QED BY <2>2, <2>3, <2>4
<1> QED BY <1>5, <1>6, <1>7

(* The starts of a plan's windows have a first and a last. *)
LEMMA StartsIs ==
  ASSUME TypeOK, NEW w \in Storing
  PROVE  LET S == Starts(plan[w]) IN
         /\ IsFiniteSet(S) /\ S # {} /\ S \subseteq Nat
         /\ Max(S) \in S /\ \A d \in S : d <= Max(S)
         /\ Min(S) \in S /\ \A d \in S : Min(S) <= d
<1> DEFINE C == plan[w].cells
           S == Starts(plan[w])
<1>1. C \subseteq Cells /\ C # {}
  BY PlanIs
<1>2. IsFiniteSet(C) /\ \A c \in C : c.day \in Nat
  <2>1. IsFiniteSet(Cells) /\ \A c \in Cells : c.day \in Nat
    BY IcebergAssumption
  <2> QED BY <1>1, <2>1, FS_Subset
<1>3. S = {c.day : c \in C} /\ S # {} /\ S \subseteq Nat
  BY <1>1, <1>2 DEF Starts
<1>4. IsFiniteSet(S)
  <2> DEFINE f == [c \in C |-> c.day]
  <2>1. f \in Surjection(C, S)
    BY <1>3 DEF Surjection
  <2> HIDE DEF f, S, C
  <2> QED BY <1>2, <2>1, FS_Surjection
<1> HIDE DEF S
<1>11. S \subseteq Int
  BY <1>3
<1>5. PICK m \in S : \A d \in S : m >= d
  BY <1>3, <1>4, <1>11, HasMax
<1>6. PICK l \in S : \A d \in S : l <= d
  BY <1>3, <1>4, <1>11, HasMin
<1>7. Max(S) \in S /\ \A d \in S : Max(S) >= d
  BY <1>5 DEF Max
<1>8. Min(S) \in S /\ \A d \in S : Min(S) <= d
  BY <1>6 DEF Min
<1>9. \A d \in S : d <= Max(S)
  BY <1>3, <1>7
<1>10. /\ IsFiniteSet(S) /\ S # {} /\ S \subseteq Nat
       /\ Max(S) \in S /\ \A d \in S : d <= Max(S)
       /\ Min(S) \in S /\ \A d \in S : Min(S) <= d
  BY <1>3, <1>4, <1>7, <1>8, <1>9
<1> QED BY <1>10 DEF S

(* For daily windows is_consecutive is exact: one day beyond the last is   *)
(* all that may be missing.                                                *)
LEMMA ConsecutiveIs ==
  ASSUME TypeOK, NEW w \in Storing, plan[w].hours = 24
  PROVE  LET S == Starts(plan[w]) IN IsConsecutive(plan[w]) <=> S = Min(S) .. Max(S)
<1> DEFINE S == Starts(plan[w])
           U == {Min(S) + i : i \in Steps(plan[w])}
<1>1. /\ IsFiniteSet(S) /\ S # {} /\ S \subseteq Nat
      /\ Max(S) \in S /\ \A d \in S : d <= Max(S)
      /\ Min(S) \in S /\ \A d \in S : Min(S) <= d
  BY StartsIs
<1>2. DaysSpanned(plan[w]) = Max(S) + 1 - Min(S)
  <2>1. DaysSpanned(plan[w]) = ((Max(S) + 1 - Min(S)) * 24) \div 24
    BY DEF DaysSpanned
  <2>2. \A k \in Nat : (k * 24) \div 24 = k
    OBVIOUS
  <2>3. Max(S) + 1 - Min(S) \in Nat
    BY <1>1
  <2> HIDE DEF S
  <2> QED BY <2>1, <2>2, <2>3
<1>3. Steps(plan[w]) = 0 .. (Max(S) + 1 - Min(S))
  BY <1>2 DEF Steps
<1>4. IsConsecutive(plan[w]) <=> Cardinality(U \ S) = 1
  BY DEF IsConsecutive
<1> HIDE DEF S
<1>5. U = Min(S) .. Max(S) + 1
  <2>1. Min(S) \in Nat /\ Max(S) \in Nat
    BY <1>1
  <2>2. ASSUME NEW d \in Min(S) .. Max(S) + 1 PROVE d \in U
    <3>1. d - Min(S) \in 0 .. (Max(S) + 1 - Min(S)) /\ d = Min(S) + (d - Min(S))
      BY <2>1
    <3> QED BY <1>3, <3>1
  <2>3. ASSUME NEW d \in U PROVE d \in Min(S) .. Max(S) + 1
    <3>1. PICK i \in 0 .. (Max(S) + 1 - Min(S)) : d = Min(S) + i
      BY <1>3
    <3> QED BY <2>1, <3>1
  <2> QED BY <2>2, <2>3
<1> HIDE DEF U
<1>10. Min(S) \in Nat /\ Max(S) \in Nat
  BY <1>1
<1>11. Max(S) \in Int /\ Max(S) + 1 \in Int /\ Min(S) \in Int
  BY <1>10
<1>6. Max(S) + 1 \in U \ S /\ S \subseteq Min(S) .. Max(S)
  <2>1. Min(S) <= Max(S) + 1 /\ Max(S) + 1 \notin S
    BY <1>1, <1>10
  <2>2. Max(S) + 1 \in U
    BY <1>5, <1>11, <2>1
  <2>3. \A d \in S : d \in Min(S) .. Max(S)
    BY <1>1, <1>10
  <2> QED BY <2>1, <2>2, <2>3
<1>7. IsFiniteSet(U \ S)
  <2>1. IsFiniteSet(U)
    BY <1>5, <1>11, FS_Interval
  <2> QED BY <2>1, FS_Subset
<1>8. CASE S = Min(S) .. Max(S)
  <2>1. U \ S = {Max(S) + 1}
    BY <1>5, <1>6, <1>8, <1>11
  <2> QED BY <1>4, <1>8, <2>1, FS_Singleton DEF S
<1>9. CASE S # Min(S) .. Max(S)
  <2>1. PICK d \in Min(S) .. Max(S) : d \notin S
    BY <1>6, <1>9
  <2>2. d \in U \ S /\ d # Max(S) + 1
    BY <1>5, <1>11, <2>1
  <2>3. Cardinality(U \ S) # 1
    BY <1>6, <1>7, <2>2, FS_Singleton
  <2> QED BY <1>4, <1>9, <2>3 DEF S
<1> QED BY <1>8, <1>9

(* GapsRefused: daily keys with a gap between them are refused, and no     *)
(* others (handler.py, is_consecutive).                                    *)
THEOREM GapsAlwaysRefused == IcebergSpec => []GapsRefused
<1>1. IcebergInv => GapsRefused
  <2> SUFFICES ASSUME IcebergInv, NEW w \in Storing,
                      plan[w].multi, plan[w].hours = 24, ~ InPlace(w, "idle")
               PROVE  st[w].why = "windows" <=>
                        Starts(plan[w]) # Min(Starts(plan[w])) .. Max(Starts(plan[w]))
    BY DEF GapsRefused
  <2>1. TypeOK /\ Judged(st[w], w)
    BY WriterIs
  <2>2. IsConsecutive(plan[w]) <=>
          Starts(plan[w]) = Min(Starts(plan[w])) .. Max(Starts(plan[w]))
    BY <2>1, ConsecutiveIs
  <2> QED BY <2>1, <2>2 DEF Judged, BadWindows, InPlace
<1> QED BY <1>1, IcebergInvariant, PTL

------------------------------------------------------------------------------
(* When the windows are whole, the write that lands replaces or adds to    *)
(* the cells of its own keys, and leaves every other cell alone.           *)
LEMMA LandedRows ==
  ASSUME WholeWindows, IcebergInv, SparkTable, NEW w \in Storing, NEW x, Lands(w, x)
  PROVE  LET p == plan[w]
             n == table.snap + 1 IN
         /\ Covers(p) = p.cells /\ rows' = [c \in Cells |-> rows'[c]]
         /\ \A c \in Cells :
              \/ c \notin p.cells /\ rows'[c] = rows[c]
              \/ /\ c \in p.cells /\ p.mode # "overwrite" /\ rows'[c] \subseteq rows[c] \cup {n}
                 /\ rows[c] # {} => n \in rows'[c] \/ rows'[c] = rows[c]
              \/ c \in p.cells /\ rows'[c] = {n}
<1> DEFINE p == plan[w]
           n == table.snap + 1
<1>1. TypeOK /\ Judged(st[w], w) /\ rows \in [Cells -> SUBSET Nat] /\ table.snap \in Nat
  BY WriterIs DEF TypeOK
<1>2. st[w].pc \notin {"idle", "done", "failed"}
  BY DEF Lands
<1>3. ~ BadWindows(plan[w])
  BY <1>1, <1>2 DEF Judged
<1>4. Covers(p) = p.cells
  BY <1>1, <1>3 DEF WholeWindows, TypeOK, Storing
<1>5. p.mode \in Modes
  BY <1>1, PlanIs
<1>6. CASE plan[w].engine # "spark" /\ rows' = After(p, n)
  <2>1. CASE p.mode = "append"
    <3>1. rows' = Appended(p, n)
      BY <1>6, <2>1 DEF After
    <3> HIDE DEF p, n
    <3>2. rows' = [c \in Cells |-> IF c \in p.cells THEN rows[c] \cup {n} ELSE rows[c]]
      BY <3>1 DEF Appended
    <3> QED BY <1>4, <2>1, <3>2 DEF p, n
  <2>2. CASE p.mode = "overwrite"
    <3>1. rows' = Replaced(p, n)
      BY <1>6, <2>2 DEF After
    <3> HIDE DEF p, n
    <3>2. rows' = [c \in Cells |-> IF c \notin p.cells THEN rows[c]
                                   ELSE IF c \in p.cells THEN {n} ELSE {}]
      BY <1>4, <3>1 DEF Replaced
    <3> QED BY <1>4, <2>2, <3>2 DEF p, n
  <2>3. CASE p.mode = "upsert"
    <3>1. rows' = Upserted(p, n)
      BY <1>6, <2>3 DEF After
    <3> HIDE DEF p, n
    <3>2. rows' = [c \in Cells |->
             IF c \notin p.cells THEN rows[c]
             ELSE IF rows[c] = {} THEN (IF p.opts.insert THEN {n} ELSE {})
             ELSE (IF p.opts.update THEN {n} ELSE rows[c])]
      BY <3>1 DEF Upserted
    <3>3. ASSUME NEW c \in Cells
          PROVE  \/ c \notin p.cells /\ rows'[c] = rows[c]
                 \/ /\ c \in p.cells /\ p.mode # "overwrite"
                    /\ rows'[c] \subseteq rows[c] \cup {n}
                    /\ rows[c] # {} => n \in rows'[c] \/ rows'[c] = rows[c]
      BY <2>3, <3>2 DEF p
    <3> QED BY <1>4, <3>2, <3>3 DEF p, n
  <2> QED BY <1>5, <2>1, <2>2, <2>3 DEF Modes
<1>7. CASE /\ plan[w].engine = "spark" /\ table.exists
           /\ rows' = SparkRows(p, n)
  <2>1. DOMAIN table.spec = p.dims
    BY <1>7 DEF SparkTable
  <2>2. DOMAIN table.spec = {} => p.cells = Cells
    BY <1>4, <2>1 DEF Covers
  <2> HIDE DEF p, n
  <2>3. rows' = [c \in Cells |-> IF c \in p.cells THEN {n}
                                 ELSE IF DOMAIN table.spec = {} THEN {} ELSE rows[c]]
    BY <1>7 DEF SparkRows
  <2> QED BY <1>4, <2>2, <2>3 DEF p, n
<1>8. CASE /\ plan[w].engine = "spark" /\ ~ table.exists
           /\ rows' = [c \in Cells |-> IF c \in plan[w].cells THEN {1} ELSE {}]
  <2>1. table.snap = 0
    BY <1>8 DEF IcebergInv, Catalog, NoTable
  <2>2. \A c \in Cells : rows[c] = {}
    BY <1>1, <2>1 DEF IcebergInv, Catalog
  <2>3. n = 1
    BY <2>1
  <2> HIDE DEF n
  <2> QED BY <1>4, <1>8, <2>2, <2>3 DEF n
<1> QED BY <1>6, <1>7, <1>8 DEF Lands

(* A table Spark stores in keeps the dimensions of the definitions that    *)
(* store there.                                                            *)
LEMMA SparkKept ==
  ASSUME SparkAgrees, IcebergInv, SparkTable, NEW w \in Storing, Shape(w)
  PROVE  SparkTable'
<1>1. PICK x \in States : Moves(w, x) /\ (Quiet(w, x) \/ Lands(w, x))
  BY DEF Shape
<1>2. plan' = plan /\ plan \in Plans
  BY <1>1 DEF Moves, IcebergInv, TypeOK
<1> SUFFICES ASSUME NEW v \in Storing, plan[v].engine = "spark", table'.exists
             PROVE  DOMAIN table'.spec = plan[v].dims
  BY <1>2 DEF SparkTable, Storing
<1>3. plan[w].engine = "spark" /\ plan[w].dims = plan[v].dims
  BY <1>2 DEF SparkAgrees, Storing
<1>4. table.exists => DOMAIN table.spec = plan[v].dims
  BY DEF SparkTable
<1>5. CASE Quiet(w, x)
  BY <1>3, <1>4, <1>5 DEF Quiet
<1>6. CASE Lands(w, x)
  BY <1>3, <1>4, <1>6 DEF Lands
<1> QED BY <1>1, <1>5, <1>6

(* What a replacing write stored stays there, or is replaced by a later    *)
(* write.                                                                  *)
LEMMA PresentKept ==
  ASSUME WholeWindows, StrongInv, NEW w \in Storing, Shape(w) PROVE Present'
<1> USE DEF StrongInv
<1>1. PICK x \in States : Moves(w, x) /\ (Quiet(w, x) \/ Lands(w, x))
  BY DEF Shape
<1>2. /\ plan' = plan /\ st' = [st EXCEPT ![w] = x]
      /\ Storing' = Storing /\ w \in Writers /\ st \in [Writers -> States]
  BY <1>1, SetsKept DEF Moves, IcebergInv, TypeOK, Storing
<1> SUFFICES ASSUME NEW v \in Storing, plan[v].mode = "overwrite",
                    st'[v].pc \in {"report", "done"}, NEW c \in Covers(plan[v])
             PROVE  \E n \in rows'[c] : n >= st'[v].landed
  BY <1>2 DEF Present, Covers, InDimension, Starts
<1>3. /\ c \in Cells /\ v \in Writers /\ st[v].landed \in Nat /\ table.snap \in Nat
      /\ \A n \in rows[c] : n \in Nat
      /\ Landing(st[v], table) /\ Following(st[v], table)
  BY WriterIs DEF Covers, Storing, IcebergInv, TypeOK
<1>4. CASE Quiet(w, x)
  <2>1. st'[v].landed = st[v].landed /\ st[v].pc \in {"report", "done"} /\ rows' = rows
    <3>1. CASE v = w
      BY <1>2, <1>3, <1>4, <3>1 DEF Quiet, ReadyStep
    <3>2. CASE v # w
      BY <1>2, <1>3, <1>4, <3>2 DEF Quiet
    <3> QED BY <3>1, <3>2
  <2> QED BY <2>1 DEF Present
<1>5. CASE Lands(w, x)
  <2> DEFINE n == table.snap + 1
  <2>1. /\ Covers(plan[w]) = plan[w].cells
        /\ \/ c \notin plan[w].cells /\ rows'[c] = rows[c]
           \/ /\ c \in plan[w].cells /\ plan[w].mode # "overwrite"
              /\ rows[c] # {} => n \in rows'[c] \/ rows'[c] = rows[c]
           \/ c \in plan[w].cells /\ rows'[c] = {n}
    BY <1>3, <1>5, LandedRows
  <2>2. n \in Nat /\ n >= table.snap /\ n >= n
    BY <1>3
  <2>3. CASE v = w
    <3>1. st'[v].landed = n /\ rows'[c] = {n}
      BY <1>2, <1>3, <1>5, <2>1, <2>3 DEF Lands
    <3> HIDE DEF n
    <3> QED BY <2>2, <3>1
  <2>4. CASE v # w
    <3>1. st'[v] = st[v]
      BY <1>2, <1>3, <2>4
    <3>2. PICK m \in rows[c] : m >= st[v].landed
      BY <3>1 DEF Present
    <3>3. n >= st[v].landed
      BY <1>3 DEF Landing
    <3>4. n \in rows'[c] \/ rows'[c] = rows[c]
      BY <2>1
    <3> HIDE DEF n
    <3> QED BY <3>1, <3>2, <3>3, <3>4
  <2> QED BY <2>3, <2>4
<1> QED BY <1>1, <1>4, <1>5

(* A writer's step keeps the strong invariant. *)
LEMMA StrongKept ==
  ASSUME WholeWindows, SparkAgrees, StrongInv, NEW w \in Storing, Shape(w) PROVE StrongInv'
<1> USE DEF StrongInv
<1>1. IcebergInv' /\ SparkTable' /\ Present'
  BY ShapeKeeps, SparkKept, PresentKept
<1>2. PICK x \in States : Moves(w, x) /\ (Quiet(w, x) \/ Lands(w, x))
  BY DEF Shape
<1>3. /\ plan' = plan /\ st' = [st EXCEPT ![w] = x] /\ loads' = loads /\ Loading' = Loading
      /\ w \in Writers /\ st \in [Writers -> States]
  BY <1>2, SetsKept DEF Moves, IcebergInv, TypeOK, Storing
<1>4. st[w].pc # "done"
  BY <1>2 DEF Quiet, Lands
<1>5. \A r \in Loading : loads[r].res = "loaded" => st'[plan[r].after] = st[plan[r].after]
  BY <1>3, <1>4 DEF Loaded, InPlace
<1>6. Loaded'
  BY <1>3, <1>5 DEF Loaded, InPlace
<1>7. DownstreamSees'
  BY <1>3, <1>5 DEF DownstreamSees, Covers, InDimension, Starts
<1> QED BY <1>1, <1>6, <1>7

(* A load keeps the strong invariant: it reads what is present. *)
LEMMA StrongLoad ==
  ASSUME StrongInv, NEW r \in Loading, ReadTable(r) PROVE StrongInv'
<1> USE DEF StrongInv
<1>1. /\ plan' = plan /\ st' = st /\ table' = table /\ rows' = rows
      /\ Loading' = Loading /\ Storing' = Storing
  BY SetsKept DEF ReadTable, SameTable
<1>2. IcebergInv' /\ SparkTable'
  BY <1>1, LoadIs DEF SparkTable
<1>3. Present'
  BY <1>1 DEF Present, Covers, InDimension, Starts
<1>4. InPlace(plan[r].after, "done") /\ plan[r].after \in Storing
  BY PlanIs DEF ReadTable, IcebergInv
<1>5. \A s \in Loading : s # r => loads'[s] = loads[s]
  BY DEF ReadTable, IcebergInv, TypeOK, Loading
<1>6. Loaded'
  BY <1>1, <1>4, <1>5 DEF Loaded, InPlace
<1>7. loads'[r].res = "loaded" => loads'[r].cells = [c \in Covers(plan[r]) |-> rows[c]]
  BY DEF ReadTable, IcebergInv, TypeOK, Loading
<1>8. DownstreamSees'
  <2> SUFFICES ASSUME NEW s \in Loading, loads'[s].res = "loaded",
                      plan[plan[s].after].mode = "overwrite",
                      NEW c \in DOMAIN loads'[s].cells \cap Covers(plan[plan[s].after])
               PROVE  \E n \in loads'[s].cells[c] : n >= st[plan[s].after].landed
    BY <1>1 DEF DownstreamSees, Covers, InDimension, Starts
  <2>1. CASE s = r
    <3>1. \E n \in rows[c] : n >= st[plan[r].after].landed
      BY <1>4, <2>1 DEF Present, InPlace
    <3> QED BY <1>7, <2>1, <3>1
  <2>2. CASE s # r
    BY <1>5, <2>2 DEF DownstreamSees
  <2> QED BY <2>1, <2>2
<1> QED BY <1>2, <1>3, <1>6, <1>8

(* The inductive invariant of what loads see: rows that were stored are    *)
(* there until a later write replaces them.                                *)
THEOREM StrongInvariant ==
  ASSUME WholeWindows, SparkAgrees PROVE IcebergSpec => []StrongInv
<1>1. IcebergInit => StrongInv
  BY InitIs DEF IcebergInit, StrongInv, SparkTable, Present, Loaded, DownstreamSees, NoTable, ReadyStep,
     NotLoaded, Storing, Loading
<1>2. StrongInv /\ [IcebergNext]_icebergVars => StrongInv'
  <2>1. ASSUME StrongInv, UNCHANGED icebergVars PROVE StrongInv'
    <3>1. /\ plan' = plan /\ st' = st /\ table' = table /\ rows' = rows /\ loads' = loads
          /\ Loading' = Loading /\ Storing' = Storing
      BY <2>1, SetsKept DEF icebergVars
    <3>2. IcebergInv'
      BY <2>1, SameIs DEF StrongInv
    <3> QED BY ZenonT(40), <2>1, <3>1, <3>2 DEF StrongInv, SparkTable, Present, Loaded, DownstreamSees,
                                    Covers, InDimension, Starts, InPlace
  <2>2. StrongInv => IcebergInv
    BY DEF StrongInv
  <2> QED BY <2>1, <2>2, StepIs, StrongKept, StrongLoad DEF IcebergNext
<1> QED BY <1>1, <1>2, PTL DEF IcebergSpec

(* DownstreamSees: a step that loads a partition after the step that       *)
(* stored it sees those rows or later ones.                                *)
THEOREM DownstreamAlwaysSees ==
  ASSUME WholeWindows, SparkAgrees PROVE IcebergSpec => []DownstreamSees
<1>1. StrongInv => DownstreamSees
  BY DEF StrongInv
<1> QED BY <1>1, StrongInvariant, PTL

------------------------------------------------------------------------------
Landings == [w \in Writers |-> st[w].landed]
Tellings == [w \in Writers |-> Verdict(w)]
SlicesOf == [w \in Storing |-> Covers(plan[w])]
AddsOf == [w \in Storing |-> plan[w].mode # "overwrite"]

(* What each writer's output is for stays as it is. *)
LEMMA SameSlices ==
  ASSUME plan' = plan PROVE SlicesOf' = SlicesOf /\ AddsOf' = AddsOf
  BY DEF SlicesOf, AddsOf, Storing, Covers, InDimension, Starts

(* A writer's step that leaves the rows alone is one of the abstract       *)
(* table, or none.                                                         *)
LEMMA QuietMaps ==
  ASSUME IcebergInv, NEW w \in Storing, NEW x \in States, Moves(w, x), Quiet(w, x)
  PROVE  [Table!Next]_Table!vars
<1>1. /\ plan' = plan /\ st' = [st EXCEPT ![w] = x] /\ rows' = rows
      /\ w \in Writers /\ st \in [Writers -> States]
  BY DEF Moves, Quiet, IcebergInv, TypeOK, Storing
<1>2. SlicesOf' = SlicesOf /\ AddsOf' = AddsOf
  BY <1>1, SameSlices
<1>3. st'[w] = x /\ \A v \in Writers : v # w => st'[v] = st[v]
  BY <1>1
<1>4. Landing(st[w], table)
  BY WriterIs
<1>5. \A v \in Writers : v # w => Verdict(v)' = Verdict(v)
  BY <1>3 DEF Verdict
<1>6. Verdict(w)' = IF x.pc \in {"done", "failed"} THEN x.pc ELSE "nothing"
  BY <1>3 DEF Verdict
<1>7. /\ Tellings' = [Tellings EXCEPT ![w] = Verdict(w)']
      /\ Landings' = [Landings EXCEPT ![w] = x.landed]
  BY <1>1, <1>3, <1>5 DEF Tellings, Landings
<1>8. Tellings[w] = Verdict(w) /\ Landings[w] = st[w].landed
  BY <1>1 DEF Tellings, Landings
<1> USE DEF Table!vars, SlicesOf, AddsOf, Landings, Tellings
<1>9. CASE st[w].pc = "failed" /\ x = ReadyStep
  <2>1. Verdict(w) = "failed" /\ Verdict(w)' = "nothing" /\ x.landed = 0
    BY <1>6, <1>9 DEF Verdict, ReadyStep
  <2>2. Table!Again(w)
    BY <1>1, <1>2, <1>7, <1>8, <2>1 DEF Table!Again
  <2> QED BY <1>1, <2>2 DEF Table!Next
<1>10. CASE /\ st[w].pc \notin {"done", "failed"} /\ x.landed = st[w].landed
            /\ x.pc \in {"report", "done"} => x.pc = "done" /\ st[w].pc = "report"
  <2>1. Verdict(w) = "nothing" /\ Landings' = Landings
    BY <1>7, <1>8, <1>10 DEF Verdict
  <2>2. CASE x.pc = "done"
    <3>1. Verdict(w)' = "done" /\ Landings[w] # 0
      BY <1>4, <1>6, <1>8, <1>10, <2>2 DEF Landing
    <3>2. Table!Tell(w)
      BY <1>1, <1>2, <1>7, <1>8, <2>1, <3>1 DEF Table!Tell
    <3> QED BY <1>1, <3>2 DEF Table!Next
  <2>3. CASE x.pc = "failed"
    <3>1. Verdict(w)' = "failed"
      BY <1>6, <2>3
    <3>2. Table!Fail(w)
      BY <1>1, <1>2, <1>7, <1>8, <2>1, <3>1 DEF Table!Fail
    <3> QED BY <1>1, <3>2 DEF Table!Next
  <2>4. CASE x.pc \notin {"done", "failed"}
    <3>1. Verdict(w)' = "nothing"
      BY <1>6, <2>4
    <3>2. Tellings' = Tellings
      BY <1>7, <1>8, <2>1, <3>1
    <3> QED BY <1>1, <1>2, <2>1, <3>2
  <2> QED BY <2>2, <2>3, <2>4
<1> QED BY <1>9, <1>10 DEF Quiet

(* The step that lands a write lands it in the abstract table. *)
LEMMA LandsMaps ==
  ASSUME WholeWindows, StrongInv, NEW w \in Storing, NEW x \in States, Moves(w, x), Lands(w, x)
  PROVE  Table!Next
<1> DEFINE p == plan[w]
           n == table.snap + 1
<1>1. /\ plan' = plan /\ st' = [st EXCEPT ![w] = x] /\ IcebergInv /\ SparkTable
      /\ w \in Writers /\ st \in [Writers -> States] /\ table.snap \in Nat
  BY WriterIs DEF Moves, StrongInv, IcebergInv, TypeOK, Storing
<1>2. SlicesOf' = SlicesOf /\ AddsOf' = AddsOf
  BY <1>1, SameSlices
<1>3. st'[w] = x /\ \A v \in Writers : v # w => st'[v] = st[v]
  BY <1>1
<1>4. x.pc = "report" /\ x.landed = n /\ st[w].pc \notin {"done", "failed"} /\ st[w].landed = 0
  BY DEF Lands
<1>5. Tellings' = Tellings /\ Verdict(w) = "nothing"
  BY <1>1, <1>3, <1>4 DEF Tellings, Verdict
<1>6. Landings' = [Landings EXCEPT ![w] = n] /\ Landings[w] = 0 /\ Tellings[w] = "nothing"
  BY <1>1, <1>3, <1>4, <1>5 DEF Landings, Tellings
<1>7. Landings'[w] = n /\ n > 0
  BY <1>1, <1>6 DEF Landings
<1>8. \A v \in UNION {rows[c] : c \in Cells} : v < n
  <2>1. \A c \in Cells : \A v \in rows[c] : v \in 1 .. table.snap
    BY <1>1 DEF IcebergInv, Catalog
  <2> QED BY <1>1, <2>1
<1>9. /\ Covers(p) = p.cells /\ rows' = [c \in Cells |-> rows'[c]]
      /\ \A c \in Cells :
           \/ c \notin p.cells /\ rows'[c] = rows[c]
           \/ c \in p.cells /\ p.mode # "overwrite" /\ rows'[c] \subseteq rows[c] \cup {n}
           \/ c \in p.cells /\ rows'[c] = {n}
  BY <1>1, LandedRows
<1>10. SlicesOf[w] = p.cells /\ (AddsOf[w] <=> p.mode # "overwrite")
  BY <1>9 DEF SlicesOf, AddsOf
<1> HIDE DEF n, p
<1>11. \A c \in Cells :
         \/ c \notin SlicesOf[w] /\ rows'[c] = rows[c]
         \/ c \in SlicesOf[w] /\ AddsOf[w] /\ rows'[c] \subseteq rows[c] \cup {n}
         \/ c \in SlicesOf[w] /\ rows'[c] = {n}
  BY <1>9, <1>10
<1>12. Table!Land(w)
  BY <1>2, <1>5, <1>6, <1>7, <1>8, <1>9, <1>11
     DEF Table!Land, Table!Written, SlicesOf, AddsOf, Landings, Tellings
<1> QED BY <1>1, <1>12 DEF Table!Next

(* WritesAtomic: the writers implement PartitionedTable, whose writes land *)
(* whole, once, in their own partitions, before they are told done.        *)
THEOREM WritesAlwaysAtomic ==
  ASSUME WholeWindows, SparkAgrees PROVE IcebergSpec => WritesAtomic
<1>1. IcebergInit => Table!Init
  BY DEF IcebergInit, Table!Init, Verdict, ReadyStep
<1>2. StrongInv /\ [IcebergNext]_icebergVars => [Table!Next]_Table!vars
  <2>1. ASSUME StrongInv, NEW w \in Storing, WriterStep(w) PROVE [Table!Next]_Table!vars
    <3>1. IcebergInv
      BY <2>1 DEF StrongInv
    <3>2. PICK x \in States : Moves(w, x) /\ (Quiet(w, x) \/ Lands(w, x))
      BY <2>1, <3>1, StepIs DEF Shape
    <3> QED BY <2>1, <3>1, <3>2, QuietMaps, LandsMaps
  <2>2. ASSUME plan' = plan, st' = st, rows' = rows PROVE UNCHANGED Table!vars
    <3>1. SlicesOf' = SlicesOf /\ AddsOf' = AddsOf
      BY <2>2, SameSlices
    <3> QED BY <2>2, <3>1 DEF Table!vars, SlicesOf, AddsOf, Verdict
  <2>3. \A r \in Loading : ReadTable(r) => plan' = plan /\ st' = st /\ rows' = rows
    BY DEF ReadTable, SameTable
  <2>4. UNCHANGED icebergVars => plan' = plan /\ st' = st /\ rows' = rows
    BY DEF icebergVars
  <2> QED BY <2>1, <2>2, <2>3, <2>4 DEF IcebergNext
<1> QED BY <1>1, <1>2, StrongInvariant, PTL DEF IcebergSpec, WritesAtomic, Table!Spec
==============================================================================
