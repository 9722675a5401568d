---------------------------- MODULE MCIcebergWriter ----------------------------
(* Small instances of IcebergWriter: three outputs, or two and a load.      *)
EXTENDS IcebergWriter, TLC

CONSTANTS u, v, w, r

SomeCells == [day : 0 .. 2, color : {"red", "blue"}]
On(days, colors) == {c \in SomeCells : c.day \in days /\ c.color \in colors}
Both == {"red", "blue"}

Daily == {"day"}
DailyByColor == {"day", "color"}
Columns == {"day", "color"}

Stored ==
  [engine |-> "pyiceberg", cells |-> On({0}, Both), dims |-> Daily, multi |-> FALSE,
   hours |-> 24, cols |-> Columns, mode |-> "overwrite", onSchema |-> "error",
   onSpec |-> "error", props |-> {}, opts |-> [given |-> FALSE, update |-> TRUE, insert |-> TRUE]]
Of(days) == [Stored EXCEPT !.cells = On(days, Both)]
Cell(days, colors) == [Stored EXCEPT !.cells = On(days, colors), !.dims = DailyByColor, !.multi = TRUE]
Hourly(o) == [o EXCEPT !.hours = 1]
Third(o) == [o EXCEPT !.hours = 8]
Whole == [Stored EXCEPT !.cells = SomeCells, !.dims = {}]
Updating(o) == [o EXCEPT !.onSchema = "update", !.onSpec = "update"]
Wider(o) == [Updating(o) EXCEPT !.cols = @ \cup {"x"}]
Mode(o, m) == [o EXCEPT !.mode = m]
Upsert(o, up, ins) == [o EXCEPT !.mode = "upsert", !.opts = [given |-> TRUE, update |-> up, insert |-> ins]]
Spark(o) == [o EXCEPT !.engine = "spark"]
Input(after, days, dims) == [after |-> after, cells |-> On(days, Both), dims |-> dims]

Three(a, b, c) == u :> a @@ v :> b @@ w :> c
Two(a, b, i) == u :> a @@ v :> b @@ r :> i

(* Three partitions of one asset; a gap in the days; modes; a whole table  *)
(* and a part; changed columns; changed partitions; properties; Spark.     *)
SomePlans ==
  { Three(Of({0}), Of({2}), Of({1})),
    Two(Of({0, 1}), Of({1}), Input(v, {0, 1}, Daily)),
    Two(Cell({0, 2}, {"red"}), Cell({2}, Both), Input(v, {1, 2}, DailyByColor)),
    Two(Mode(Third(Of({0, 1, 2})), "append"), Upsert(Third(Of({0, 1, 2})), TRUE, FALSE), Input(u, {0}, Daily)),
    Two(Mode(Whole, "append"), Upsert(Whole, FALSE, TRUE), Input(u, {0}, {})),
    Two(Mode(Of({0}), "upsert"), Whole, Input(v, {0}, {})),
    Two(Wider(Of({0})), Updating(Of({1})), Input(u, {0}, Daily)),
    Two(Wider(Of({0})), Of({1}), Input(u, {0}, Daily)),
    Two(Updating(Of({0})), Updating(Cell({0}, {"blue"})), Input(u, {0}, Daily)),
    Two(Updating(Of({0})), Updating(Whole), Input(u, {0}, Daily)),
    Two(Hourly(Updating(Of({0}))), Updating(Of({1})), Input(v, {1}, Daily)),
    Two([Of({0}) EXCEPT !.cols = {"color"}], Of({1}), Input(v, {1}, Daily)),
    Two([Of({0}) EXCEPT !.props = {"owner"}], [Of({1}) EXCEPT !.props = {"format"}], Input(u, {0}, Daily)),
    Two(Spark(Of({0})), Spark(Of({1})), Input(v, {1}, Daily)),
    Two(Spark(Of({0})), Spark([Of({1}) EXCEPT !.cols = {"day"}]), Input(u, {1}, Daily)) }
==============================================================================
