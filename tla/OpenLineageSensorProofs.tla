----------------------- MODULE OpenLineageSensorProofs -----------------------
(***************************************************************************)
(* Proofs about OpenLineageSensor, for every set of runs and steps, every  *)
(* limit and any number of crashes and failed handlers: as long as nothing *)
(* is logged between the queries of a tick and no type logs more than the  *)
(* limit between two ticks, the sensor is a feed of the event log.         *)
(***************************************************************************)
EXTENDS OpenLineageSensor, FiniteSetTheorems, SequenceTheorems, TLAPS

(* The two assumptions on the environment the theorems rest on. *)
Calm == Snapshot /\ ~ Bursts

(* The tick is never behind the persisted cursor nor ahead of the log. *)
Positions ==
  /\ log \in Seq(Records)
  /\ \E S : emitted \in Seq(S)
  /\ phase \in {"idle", "query", "handle"}
  /\ "last" \in DOMAIN cursor /\ "last" \in DOMAIN here
  /\ cursor.last \in Nat /\ here.last \in Nat
  /\ cursor.last <= here.last /\ here.last <= Len(log)
  /\ phase # "handle" => here.last = cursor.last /\ batch = {}
  /\ phase = "query" => todo = Types

(* Everything up to the tick's own position was handled, nothing beyond the log. *)
Caught ==
  /\ \A i \in 1 .. here.last : Handled(i)
  /\ \A j \in DOMAIN emitted : emitted[j].rec \in DOMAIN log

(* The batch starts right after that position and has no holes. *)
Contiguous ==
  /\ batch \subseteq here.last + 1 .. Len(log)
  /\ \A i \in batch : here.last + 1 .. i \subseteq batch

(* No type is further ahead of the persisted cursor than one query reads. *)
Fresh(t) == {i \in DOMAIN log : log[i].type = t /\ i > cursor.last}
Within ==
  /\ \A i \in DOMAIN log : log[i].type \in Types
  /\ \A t \in Types : IsFiniteSet(Fresh(t)) /\ Cardinality(Fresh(t)) <= RecordLimit

FeedInv == Positions /\ Caught /\ Contiguous /\ Within

------------------------------------------------------------------------------
(* Handling record i moves the tick to i, whatever the handler. *)
LEMMA AfterMoves ==
  ASSUME NEW c, "last" \in DOMAIN c, NEW i
  PROVE  "last" \in DOMAIN After(c, i) /\ After(c, i).last = i
<1>1. \A r, e : "last" \in DOMAIN Promote(c, r, e)
  BY DEF Promote
<1>2. \A r : "last" \in DOMAIN Drop(c, r)
  BY DEF Drop
<1>3. "last" \in DOMAIN HandleAsset(c, log[i])
  BY <1>1 DEF HandleAsset
<1>4. "last" \in DOMAIN HandleStep(c, log[i])
  BY <1>1 DEF HandleStep
<1>5. "last" \in DOMAIN HandlePipeline(c, log[i])
  BY <1>1, <1>2 DEF HandlePipeline
<1> QED
  BY <1>3, <1>4, <1>5 DEF After

(* Dropping the oldest runs leaves the position alone. *)
LEMMA TrimmedStays ==
  ASSUME NEW c, "last" \in DOMAIN c
  PROVE  "last" \in DOMAIN Trimmed(c) /\ Trimmed(c).last = c.last
BY DEF Trimmed

(* Appending to the emitted records handles one record more. *)
LEMMA AppendHandles ==
  ASSUME NEW S, NEW s \in Seq(S), NEW x
  PROVE  /\ Append(s, x) \in Seq(S \cup {x})
         /\ Len(Append(s, x)) = Len(s) + 1
         /\ DOMAIN Append(s, x) = DOMAIN s \cup {Len(s) + 1}
         /\ \A j \in DOMAIN s : Append(s, x)[j] = s[j]
         /\ Append(s, x)[Len(s) + 1] = x
<1>1. s \in Seq(S \cup {x}) /\ x \in S \cup {x}
  OBVIOUS
<1> QED
  BY <1>1

(* A set no larger than the limit is returned whole by a query. *)
LEMMA NewestWhole ==
  ASSUME NEW F, F \subseteq Nat, IsFiniteSet(F), Cardinality(F) <= RecordLimit
  PROVE  Newest(F) = F
<1>1. SUFFICES ASSUME NEW i \in F
               PROVE  Cardinality({j \in F : j > i}) < RecordLimit
  BY DEF Newest
<1> DEFINE above == {j \in F : j > i}
<1>2. above \subseteq F \ {i}
  OBVIOUS
<1>3. IsFiniteSet(F \ {i}) /\ Cardinality(F \ {i}) = Cardinality(F) - 1
  BY FS_RemoveElement
<1>4. Cardinality(above) <= Cardinality(F \ {i}) /\ IsFiniteSet(above)
  BY <1>2, <1>3, FS_Subset
<1>5. Cardinality(above) \in Nat /\ Cardinality(F) \in Nat
  BY <1>4, FS_CardinalityType
<1> QED
  BY <1>3, <1>4, <1>5, SensorAssumption

(* Cutting an interval to its oldest records leaves no hole. *)
LEMMA OldestContiguous ==
  ASSUME NEW a \in Nat, NEW b \in Nat, NEW i \in Oldest(a .. b)
  PROVE  a .. i \subseteq Oldest(a .. b)
<1> DEFINE below(k) == {j \in a .. b : j < k}
<1>1. SUFFICES ASSUME NEW k \in a .. i
               PROVE  k \in Oldest(a .. b)
  OBVIOUS
<1>2. i \in a .. b /\ Cardinality(below(i)) < RecordLimit
  BY DEF Oldest
<1>3. IsFiniteSet(a .. b)
  BY FS_Interval
<1>4. IsFiniteSet(below(i))
  BY <1>3, FS_Subset
<1>5. below(k) \subseteq below(i)
  BY <1>2
<1>6. Cardinality(below(k)) <= Cardinality(below(i)) /\ IsFiniteSet(below(k))
  BY <1>4, <1>5, FS_Subset
<1>7. Cardinality(below(k)) \in Nat /\ Cardinality(below(i)) \in Nat
  BY <1>4, <1>6, FS_CardinalityType
<1>8. Cardinality(below(k)) < RecordLimit
  BY <1>2, <1>6, <1>7, SensorAssumption
<1> QED
  BY <1>2, <1>8 DEF Oldest

(* What the queries of a tick find is the log beyond the cursor, whole. *)
LEMMA FoundAll ==
  ASSUME Positions, Within, phase = "query"
  PROVE  UNION {Newest(New(t)) : t \in Types} = here.last + 1 .. Len(log)
<1>1. here.last = cursor.last /\ here.last \in Nat /\ Len(log) \in Nat
        /\ DOMAIN log = 1 .. Len(log)
  BY DEF Positions
<1>2. ASSUME NEW t \in Types PROVE Newest(New(t)) = Fresh(t)
  <2>1. New(t) = Fresh(t)
    BY <1>1 DEF New, Fresh
  <2>2. Fresh(t) \subseteq Nat
    BY <1>1 DEF Fresh
  <2> QED
    BY <2>1, <2>2, NewestWhole DEF Within
<1>3. ASSUME NEW t \in Types PROVE Newest(New(t)) \subseteq here.last + 1 .. Len(log)
  BY <1>1, <1>2 DEF Fresh
<1>4. ASSUME NEW i \in here.last + 1 .. Len(log)
      PROVE  \E t \in Types : i \in Newest(New(t))
  <2>1. i \in DOMAIN log /\ i > cursor.last
    BY <1>1
  <2>2. log[i].type \in Types /\ i \in Fresh(log[i].type)
    BY <2>1 DEF Within, Fresh
  <2> QED
    BY <1>2, <2>2
<1> QED
  BY <1>3, <1>4

(* The record handled next is the one after the tick's position. *)
LEMMA NextInLine ==
  ASSUME Positions, Contiguous, batch # {}
  PROVE  /\ Min(batch) = here.last + 1
         /\ here.last + 1 \in batch /\ here.last + 1 \in DOMAIN log
         /\ \A i \in batch : i # here.last + 1 => i > here.last + 1
<1>1. here.last \in Nat /\ Len(log) \in Nat /\ DOMAIN log = 1 .. Len(log)
  BY DEF Positions
<1>2. PICK i \in batch : here.last + 1 .. i \subseteq batch
  BY DEF Contiguous
<1>3. \A j \in batch : j \in here.last + 1 .. Len(log)
  BY DEF Contiguous
<1>4. here.last + 1 \in batch /\ \A j \in batch : here.last + 1 <= j
  BY <1>1, <1>2, <1>3
<1>5. ASSUME NEW x \in batch, \A y \in batch : x <= y PROVE x = here.last + 1
  BY <1>1, <1>3, <1>4, <1>5
<1>6. Min(batch) = here.last + 1
  BY <1>4, <1>5 DEF Min
<1> QED
  BY <1>1, <1>3, <1>4, <1>6
------------------------------------------------------------------------------
(* At first nothing was logged, handled or fetched. *)
LEMMA InitFeedInv == Init => FeedInv
<1> SUFFICES ASSUME Init PROVE FeedInv
  OBVIOUS
<1>1. log = << >> /\ emitted = << >> /\ phase = "idle" /\ batch = {} /\ here = cursor
        /\ cursor.last = 0 /\ "last" \in DOMAIN cursor
  BY DEF Init
<1>2. log \in Seq(Records) /\ emitted \in Seq({}) /\ Len(log) = 0
        /\ DOMAIN log = {} /\ DOMAIN emitted = {}
  BY <1>1
<1>3. Positions
  BY <1>1, <1>2 DEF Positions
<1>4. Caught
  BY <1>1, <1>2 DEF Caught
<1>5. Contiguous
  BY <1>1 DEF Contiguous
<1>6. \A t \in Types : Fresh(t) = {}
  BY <1>2 DEF Fresh
<1>7. IsFiniteSet({}) /\ Cardinality({}) <= RecordLimit
  BY FS_EmptySet, SensorAssumption
<1>8. Within
  BY <1>2, <1>6, <1>7 DEF Within
<1> QED
  BY <1>3, <1>4, <1>5, <1>8 DEF FeedInv

(* A record that is logged between two ticks is ahead of the tick, and the *)
(* queries of the next tick still read it.                                 *)
LEMMA LogFeedInv ==
  ASSUME Calm, FeedInv, NEW rec \in Records, Log(rec)
  PROVE  FeedInv'
<1>1. log' = Append(log, rec) /\ log \in Seq(Records) /\ Len(log) \in Nat
        /\ DOMAIN log = 1 .. Len(log)
  BY DEF Log, FeedInv, Positions
<1>2. log' \in Seq(Records) /\ Len(log') = Len(log) + 1 /\ DOMAIN log' = 1 .. Len(log) + 1
        /\ (\A i \in DOMAIN log : log'[i] = log[i]) /\ log'[Len(log) + 1] = rec
  BY <1>1
<1>3. phase = "idle" /\ UNCHANGED <<cursor, phase, todo, batch, here, emitted>>
        /\ rec.type \in Types
        /\ Cardinality(Fresh(rec.type)) < RecordLimit
  BY DEF Log, MayLog, Calm, Fresh, FeedInv, Positions
<1>4. Positions'
  BY <1>2, <1>3 DEF FeedInv, Positions
<1>5. Caught'
  BY <1>1, <1>2, <1>3 DEF FeedInv, Caught, Handled
<1>6. Contiguous'
  BY <1>2, <1>3 DEF FeedInv, Positions, Contiguous
<1>7. \A i \in DOMAIN log' : log'[i].type \in Types
  BY <1>1, <1>2, <1>3 DEF FeedInv, Within
<1>8. ASSUME NEW t \in Types
      PROVE  IsFiniteSet(Fresh(t)') /\ Cardinality(Fresh(t)') <= RecordLimit
  <2>1. IsFiniteSet(Fresh(t)) /\ Cardinality(Fresh(t)) <= RecordLimit
    BY DEF FeedInv, Within
  <2>2. CASE t # rec.type
    <3>1. Fresh(t)' = Fresh(t)
      BY <1>1, <1>2, <1>3, <2>2 DEF Fresh
    <3> QED
      BY <2>1, <3>1
  <2>3. CASE t = rec.type
    <3>1. Len(log) + 1 \notin Fresh(t) /\ cursor.last <= Len(log) /\ cursor.last \in Nat
      BY <1>1 DEF Fresh, FeedInv, Positions
    <3>2. Fresh(t)' = Fresh(t) \cup {Len(log) + 1}
      BY <1>1, <1>2, <1>3, <2>3, <3>1 DEF Fresh
    <3>3. IsFiniteSet(Fresh(t)') /\ Cardinality(Fresh(t)') = Cardinality(Fresh(t)) + 1
      BY <2>1, <3>1, <3>2, FS_AddElement
    <3>4. Cardinality(Fresh(t)) \in Nat
      BY <2>1, FS_CardinalityType
    <3> QED
      BY <1>3, <2>3, <3>3, <3>4, SensorAssumption
  <2> QED
    BY <2>2, <2>3
<1>9. Within'
  BY <1>7, <1>8 DEF Within
<1> QED
  BY <1>4, <1>5, <1>6, <1>9 DEF FeedInv

(* The queries find a batch without holes: no type was cut by its limit,   *)
(* and the merged records are cut at the newest.                           *)
LEMMA QueryFeedInv ==
  ASSUME Calm, FeedInv, NEW S \in SUBSET Types, Query(S)
  PROVE  FeedInv'
<1>1. phase = "query" /\ S = Types /\ todo = Types /\ batch = {}
  BY DEF Query, Calm, FeedInv, Positions
<1>2. UNION {Newest(New(t)) : t \in Types} = here.last + 1 .. Len(log)
  BY <1>1, FoundAll DEF FeedInv
<1>3. batch' = Oldest(here.last + 1 .. Len(log)) /\ phase' = "handle"
        /\ UNCHANGED <<log, cursor, here, emitted>>
  BY <1>1, <1>2 DEF Query
<1>4. Positions'
  BY <1>3 DEF FeedInv, Positions
<1>5. Caught'
  BY <1>3 DEF FeedInv, Caught, Handled
<1>6. here.last + 1 \in Nat /\ Len(log) \in Nat
  BY DEF FeedInv, Positions
<1>7. batch' \subseteq here.last + 1 .. Len(log)
  BY <1>3 DEF Oldest
<1>8. \A i \in batch' : here.last + 1 .. i \subseteq batch'
  BY <1>3, <1>6, OldestContiguous
<1>9. Contiguous'
  BY <1>3, <1>7, <1>8 DEF Contiguous
<1>10. Within'
  BY <1>3 DEF FeedInv, Within, Fresh
<1> QED
  BY <1>4, <1>5, <1>9, <1>10 DEF FeedInv

(* Handling the next record in line moves the position by one. *)
LEMMA HandleFeedInv ==
  ASSUME FeedInv, Handle
  PROVE  FeedInv'
<1> DEFINE i == here.last + 1
           x == [rec |-> i, events |-> EventsOf(here, i)]
<1>1. phase = "handle" /\ batch # {} /\ UNCHANGED <<log, cursor, phase, todo>>
  BY DEF Handle
<1>2. Min(batch) = i /\ i \in batch /\ i \in DOMAIN log /\ \A k \in batch : k # i => k > i
  BY <1>1, NextInLine DEF FeedInv
<1>3. batch' = batch \ {i} /\ here' = After(here, i) /\ emitted' = Append(emitted, x)
  BY <1>2 DEF Handle
<1>4. "last" \in DOMAIN here' /\ here'.last = i
  BY <1>3, AfterMoves DEF FeedInv, Positions
<1>5. PICK S : emitted \in Seq(S)
  BY DEF FeedInv, Positions
<1>6. /\ emitted' \in Seq(S \cup {x})
      /\ DOMAIN emitted' = DOMAIN emitted \cup {Len(emitted) + 1}
      /\ \A j \in DOMAIN emitted : emitted'[j] = emitted[j]
      /\ emitted'[Len(emitted) + 1].rec = i
  BY <1>3, <1>5, AppendHandles
<1>7. here.last \in Nat /\ Len(log) \in Nat /\ DOMAIN log = 1 .. Len(log)
  BY DEF FeedInv, Positions
<1>8. Positions'
  <2>1. i \in Nat /\ cursor.last <= i /\ i <= Len(log)
    BY <1>2, <1>7 DEF FeedInv, Positions
  <2>2. \E T : emitted' \in Seq(T)
    BY <1>6
  <2> QED
    BY <1>1, <1>4, <2>1, <2>2 DEF FeedInv, Positions
<1>9. Caught'
  <2>1. ASSUME NEW k \in 1 .. i PROVE \E j \in DOMAIN emitted' : emitted'[j].rec = k
    <3>1. CASE k = i
      BY <1>6, <3>1
    <3>2. CASE k # i
      <4>1. k \in 1 .. here.last
        BY <1>7, <3>2
      <4> QED
        BY <1>6, <4>1 DEF FeedInv, Caught, Handled
    <3> QED
      BY <3>1, <3>2
  <2>2. \A j \in DOMAIN emitted' : emitted'[j].rec \in DOMAIN log
    BY <1>2, <1>6 DEF FeedInv, Caught
  <2> QED
    BY <1>1, <1>4, <2>1, <2>2 DEF Caught, Handled
<1>10. Contiguous'
  <2>1. \A k \in batch' : k \in i + 1 .. Len(log)
    BY <1>2, <1>3, <1>7 DEF FeedInv, Contiguous
  <2>2. ASSUME NEW k \in batch' PROVE i + 1 .. k \subseteq batch'
    BY <1>3, <1>7, <2>1 DEF FeedInv, Contiguous
  <2> QED
    BY <1>1, <1>4, <2>1, <2>2 DEF Contiguous
<1>11. Within'
  BY <1>1 DEF FeedInv, Within, Fresh
<1> QED
  BY <1>8, <1>9, <1>10, <1>11 DEF FeedInv

(* Persisting the position brings every type closer to the cursor. *)
LEMMA EndTickFeedInv ==
  ASSUME FeedInv, EndTick
  PROVE  FeedInv'
<1>1. phase' = "idle" /\ batch = {} /\ cursor' = Trimmed(here) /\ here' = cursor'
        /\ UNCHANGED <<log, todo, batch, emitted>>
  BY DEF EndTick
<1>2. "last" \in DOMAIN cursor' /\ cursor'.last = here.last
  BY <1>1, TrimmedStays DEF FeedInv, Positions
<1>3. Positions'
  BY <1>1, <1>2 DEF FeedInv, Positions
<1>4. Caught'
  BY <1>1, <1>2 DEF FeedInv, Caught, Handled
<1>5. Contiguous'
  BY <1>1 DEF Contiguous
<1>6. ASSUME NEW t \in Types
      PROVE  IsFiniteSet(Fresh(t)') /\ Cardinality(Fresh(t)') <= RecordLimit
  <2>1. IsFiniteSet(Fresh(t)) /\ Cardinality(Fresh(t)) <= RecordLimit
    BY DEF FeedInv, Within
  <2>2. Fresh(t)' \subseteq Fresh(t)
    BY <1>1, <1>2 DEF Fresh, FeedInv, Positions
  <2>3. IsFiniteSet(Fresh(t)') /\ Cardinality(Fresh(t)') <= Cardinality(Fresh(t))
    BY <2>1, <2>2, FS_Subset
  <2>4. Cardinality(Fresh(t)') \in Nat /\ Cardinality(Fresh(t)) \in Nat
    BY <2>1, <2>3, FS_CardinalityType
  <2> QED
    BY <2>1, <2>3, <2>4, SensorAssumption
<1>7. Within'
  BY <1>1, <1>6 DEF FeedInv, Within
<1> QED
  BY <1>3, <1>4, <1>5, <1>7 DEF FeedInv

(* A tick that begins, fails or dies: what was handled stays handled. *)
LEMMA OtherFeedInv ==
  ASSUME FeedInv, BeginTick \/ HandlerRaises \/ Crash \/ UNCHANGED vars
  PROVE  FeedInv'
<1>1. CASE BeginTick
  <2>1. phase' = "query" /\ todo' = Types /\ here' = cursor /\ batch = {}
          /\ here.last = cursor.last /\ UNCHANGED <<log, cursor, batch, emitted>>
    BY <1>1 DEF BeginTick, FeedInv, Positions
  <2>2. Positions'
    BY <2>1 DEF FeedInv, Positions
  <2>3. Caught' /\ Contiguous' /\ Within'
    BY <2>1 DEF FeedInv, Caught, Handled, Contiguous, Within, Fresh
  <2> QED
    BY <2>2, <2>3 DEF FeedInv
<1>2. CASE HandlerRaises
  <2>1. phase = "handle" /\ batch' = {} /\ UNCHANGED <<log, cursor, phase, todo, emitted>>
    BY <1>2 DEF HandlerRaises
  <2>2. "last" \in DOMAIN here' /\ here'.last = here.last
    BY <1>2, AfterMoves DEF HandlerRaises, FeedInv, Positions
  <2>3. Positions'
    BY <2>1, <2>2 DEF FeedInv, Positions
  <2>4. Caught' /\ Contiguous' /\ Within'
    BY <2>1, <2>2 DEF FeedInv, Caught, Handled, Contiguous, Within, Fresh
  <2> QED
    BY <2>3, <2>4 DEF FeedInv
<1>3. CASE Crash
  <2>1. phase' = "idle" /\ batch' = {} /\ here' = cursor /\ UNCHANGED <<log, cursor, emitted>>
    BY <1>3 DEF Crash
  <2>2. Positions'
    BY <2>1 DEF FeedInv, Positions
  <2>3. Caught'
    BY <2>1 DEF FeedInv, Positions, Caught, Handled
  <2>4. Contiguous' /\ Within'
    BY <2>1 DEF FeedInv, Contiguous, Within, Fresh
  <2> QED
    BY <2>2, <2>3, <2>4 DEF FeedInv
<1>4. CASE UNCHANGED vars
  BY <1>4 DEF vars, FeedInv, Positions, Caught, Handled, Contiguous, Within, Fresh
<1> QED
  BY <1>1, <1>2, <1>3, <1>4
------------------------------------------------------------------------------
(* The feed's invariant holds in every reachable state. *)
LEMMA FeedInductive ==
  ASSUME Calm
  PROVE  Spec => []FeedInv
<1>1. ASSUME FeedInv, [Next]_vars PROVE FeedInv'
  BY <1>1, LogFeedInv, QueryFeedInv, HandleFeedInv, EndTickFeedInv, OtherFeedInv DEF Next, Tick
<1> QED
  BY <1>1, InitFeedInv, PTL DEF Spec

(* The persisted cursor never passes a record that was not handled. *)
THEOREM NothingEverSkipped ==
  ASSUME Calm
  PROVE  Spec => []NothingSkipped
<1>1. FeedInv => NothingSkipped
  BY DEF FeedInv, Positions, Caught, NothingSkipped
<1> QED
  BY <1>1, FeedInductive, PTL
------------------------------------------------------------------------------
(* The records handled, in order: what the feed calls handed.    *)
Told == [j \in DOMAIN emitted |-> emitted[j].rec]

(* Handling a record hands it to the emitter, and every record before it   *)
(* was handed over.                                                        *)
LEMMA HandleHands ==
  ASSUME FeedInv, Handle
  PROVE  Feed!Hand(here.last + 1) /\ here.last + 1 \in 1 .. Len(log)
<1> DEFINE i == here.last + 1
           x == [rec |-> i, events |-> EventsOf(here, i)]
<1>1. Min(batch) = i /\ i \in DOMAIN log /\ UNCHANGED log
  BY NextInLine DEF Handle, FeedInv
<1>2. emitted' = Append(emitted, x)
  BY <1>1 DEF Handle
<1>3. PICK S : emitted \in Seq(S)
  BY DEF FeedInv, Positions
<1>4. /\ DOMAIN emitted = 1 .. Len(emitted) /\ Len(emitted) \in Nat
      /\ DOMAIN emitted' = 1 .. Len(emitted) + 1
      /\ \A j \in DOMAIN emitted : emitted'[j] = emitted[j]
      /\ emitted'[Len(emitted) + 1].rec = i
  BY <1>2, <1>3, AppendHandles
<1>5. Told \in Seq(DOMAIN log) /\ Len(Told) = Len(emitted)
  BY <1>4 DEF Told, FeedInv, Caught
<1>6. /\ Append(Told, i) \in Seq(DOMAIN log)
      /\ DOMAIN Append(Told, i) = 1 .. Len(emitted) + 1
      /\ \A j \in 1 .. Len(emitted) : Append(Told, i)[j] = Told[j]
      /\ Append(Told, i)[Len(emitted) + 1] = i
  BY <1>1, <1>4, <1>5
<1>7. Told' = [j \in 1 .. Len(emitted) + 1 |-> emitted'[j].rec]
  BY <1>4 DEF Told
<1>8. Append(Told, i) = [j \in 1 .. Len(emitted) + 1 |-> Append(Told, i)[j]]
  BY <1>6
<1>9. ASSUME NEW j \in 1 .. Len(emitted) + 1 PROVE emitted'[j].rec = Append(Told, i)[j]
  BY <1>4, <1>6 DEF Told
<1>10. Told' = Append(Told, i)
  BY <1>7, <1>8, <1>9
<1>11. \A k \in 1 .. i - 1 : \E j \in DOMAIN Told : Told[j] = k
  BY DEF Told, FeedInv, Positions, Caught, Handled
<1>12. i \in 1 .. Len(log)
  BY <1>1 DEF FeedInv, Positions
<1>13. Len(Told') = Len(emitted) + 1
  BY <1>4, <1>5, <1>10
<1>14. reached' \in {reached, reached \cup {Len(emitted) + 1}}
  BY DEF Handle, Emit
<1> QED
  BY <1>1, <1>10, <1>11, <1>12, <1>13, <1>14 DEF Told, Feed!Hand, Feed!Handed

(* The sensor implements the feed: whatever ticks fail or die and whatever *)
(* the backend refuses, every record is handed to the emitter and none     *)
(* before one that precedes it in the log.                                 *)
THEOREM FeedRefined ==
  ASSUME Calm
  PROVE  Spec => FeedKept
<1>1. Init => Feed!Init
  BY DEF Init, Feed!Init
<1>2. ASSUME FeedInv, [Next]_vars
      PROVE  Feed!Next \/ UNCHANGED <<Len(log), Told, reached>>
  <2>1. ASSUME NEW rec \in Records, Log(rec) PROVE Feed!Grow
    BY <2>1 DEF Log, Feed!Grow, FeedInv, Positions
  <2>2. CASE Handle
    BY <1>2, <2>2, HandleHands DEF Feed!Next, Feed!Hand, Feed!Handed
  <2>3. ASSUME UNCHANGED <<log, emitted, reached>> PROVE UNCHANGED <<Len(log), Told, reached>>
    BY <2>3 DEF Told
  <2>4. CASE (\E rec \in Records : Log(rec))
    BY <2>1, <2>4 DEF Feed!Next
  <2>5. CASE (\E S \in SUBSET Types : Query(S))
    BY <2>3, <2>5 DEF Query
  <2>6. CASE BeginTick \/ EndTick \/ HandlerRaises \/ Crash \/ UNCHANGED vars
    BY <2>3, <2>6 DEF BeginTick, EndTick, HandlerRaises, Crash, vars
  <2> QED
    BY <1>2, <2>2, <2>4, <2>5, <2>6 DEF Next, Tick
<1> QED
  BY <1>1, <1>2, FeedInductive, PTL DEF Spec, FeedKept, Feed!Spec, Told
------------------------------------------------------------------------------
(***************************************************************************)
(* What the log says of a run up to record m.                              *)
(***************************************************************************)
Of(i, r, k, T) == log[i].run = r /\ log[i].key = k /\ log[i].type \in T
Did(r, k, T, m) == \E i \in 1 .. m : Of(i, r, k, T)
Seen(r, m) == \E i \in 1 .. m : log[i].run = r
Ended(r, m) == \E i \in 1 .. m : log[i].run = r /\ log[i].type \in RunEnds
First(r, i) == log[i].run = r /\ \A j \in 1 .. i - 1 : log[j].run # r

(* An asset event does not ask for the repository of the run it opens. *)
Named(i) == IncludeAssets => log[i].type \notin AssetTypes

Outcome == {"materialized", "not_materialized"}
Pending(r, k, m) == Did(r, k, {"planned"}, m) /\ ~ Did(r, k, Outcome, m)

(* A run ends once, a step starts and ends once, an asset is planned before *)
(* anything happens to it, and that happens once.                          *)
Lives ==
  /\ \A i, j \in DOMAIN log :
       log[i].run = log[j].run =>
         /\ {log[i].type, log[j].type} \subseteq RunEnds => i = j
         /\ log[i].key = log[j].key =>
              /\ {log[i].type, log[j].type} \subseteq Outcome => i = j
              /\ {log[i].type, log[j].type} \subseteq StepEnds => i = j
              /\ log[i].type = "step_start" /\ log[j].type = "step_start" => i = j
              /\ log[i].type = "step_start" /\ log[j].type \in StepEnds => i < j
              /\ log[i].type = "planned" /\ log[j].type \in Outcome => i < j
  /\ \A j \in DOMAIN log : LET r == log[j].run IN
       /\ log[j].type \in StepTypes \cup Outcome => Did(r, "run", {"run_start"}, j - 1)
       /\ log[j].type \in StepEnds => Did(r, log[j].key, {"step_start"}, j - 1)
       /\ log[j].type = "not_materialized" => Did(r, log[j].key, {"step_failure"}, j - 1)
       /\ \E i \in 1 .. j : First(r, i)

(* Emission j is the last of record m, and of all up to it. *)
Final(m, j) ==
  /\ j \in DOMAIN emitted /\ emitted[j].rec = m
  /\ \A n \in DOMAIN emitted : n > j => emitted[n].rec > m
InOrder == \A m \in 1 .. here.last : \E j \in DOMAIN emitted : Final(m, j)

(* What was emitted for a record. *)
Content ==
  \A j \in DOMAIN emitted : \A i : i = emitted[j].rec =>
    /\ \A e \in emitted[j].events :
         /\ e.about = "step" => log[i].type = e.kind /\ log[i].key = e.key /\ e.kind \in StepTypes
         /\ e.kind = "step_start" => log[i].type = "step_start" /\ log[i].key = e.key
         /\ e.about = "asset" => log[i].type \in AssetTypes \cup RunEnds
    /\ IncludeAssets /\ log[i].type \in AssetTypes => emitted[j].events = AssetEvents(log[i])

(* The runs of a cursor that are still to be followed. *)
Alive(c, r) == r \notin evicted /\ ~ Ended(r, c.last)
Once(s) == \A a, b \in DOMAIN s : s[a] = s[b] => a = b
Before(s, x, y) == \E a, b \in DOMAIN s : a < b /\ s[a] = x /\ s[b] = y
Ordered(c) ==
  /\ c \in Cursors
  /\ Once(c.order)
  /\ \A r \in Runs : ~ Known(c, r) => c.entry[r] = Pipeline(FALSE)

Names(c) ==
  \A r \in Runs : Alive(c, r) =>
    /\ Known(c, r) => /\ \E i \in DOMAIN log : i <= c.last + 1 /\ log[i].run = r
                      /\ \A i \in DOMAIN log : First(r, i) => c.entry[r].repo = Named(i)
    /\ ~ Known(c, r) /\ IncludeAssets => ~ Seen(r, c.last)

NamesSaid ==
  \A j \in DOMAIN emitted : \A m, r :
    m = emitted[j].rec /\ r = log[m].run /\ r \notin evicted /\ ~ Late(m) =>
      \A e \in emitted[j].events : e.about \in {"run", "step"} =>
        \A i \in DOMAIN log : First(r, i) => e.repo = Named(i)

Ids(c) ==
  \A r \in Runs : Alive(c, r) =>
    \A p \in 1 .. c.last : \A k \in Steps : Of(p, r, k, {"step_start"}) /\ ~ Did(r, k, StepEnds, c.last) =>
      /\ Known(c, r) /\ c.entry[r].steps[k] # 0
      /\ \A j \in DOMAIN emitted : Final(p, j) =>
           Says(j, Emission("step", "step_start", k, c.entry[r].steps[k], c.entry[r].repo))

Plans(c) ==
  \A r \in Runs : Alive(c, r) => \A k \in Steps :
    \/ k \in c.entry[r].planned <=> Pending(r, k, c.last)
    \/ /\ c.last + 1 \in DOMAIN log /\ log[c.last + 1].type \in AssetTypes
       /\ k \in c.entry[r].planned <=> Pending(r, k, c.last + 1)

PlansSaid ==
  \A j \in DOMAIN emitted : \A m, r :
    m = emitted[j].rec /\ r = log[m].run /\ r \notin evicted /\ log[m].type \in RunEnds =>
      /\ \A k \in Steps : Pending(r, k, m) =>
           Says(j, Emission("asset", "not_materialized", k, 0, FALSE))
      /\ \A e \in emitted[j].events : e.about = "asset" =>
           e.kind = "not_materialized" /\ Pending(r, e.key, m)

(* Runs with a record among those after i, up to the one after c.last. *)
Since(c, i) == {log[m].run : m \in (i + 1 .. c.last + 1) \cap DOMAIN log}
Recent(c) ==
  \A i \in 1 .. c.last : LET r == log[i].run IN
    Promotes(log[i]) /\ ~ Ended(r, c.last) =>
      /\ \A x \in Runs : Before(c.order, r, x) => x \in Since(c, i)
      /\ ~ Known(c, r) => Cardinality(Since(c, i) \ {r}) >= MaxRunning

------------------------------------------------------------------------------
(* A longer log says the same of the records it had. *)
LEMMA LogGrows ==
  ASSUME log \in Seq(Records), NEW rec \in Records, log' = Append(log, rec)
  PROVE  /\ Len(log) \in Nat /\ DOMAIN log = 1 .. Len(log)
         /\ log' \in Seq(Records) /\ Len(log') = Len(log) + 1 /\ DOMAIN log' = 1 .. Len(log) + 1
         /\ \A i \in DOMAIN log : log'[i] = log[i]
         /\ log'[Len(log) + 1] = rec
<1>1. /\ Len(log) \in Nat /\ DOMAIN log = 1 .. Len(log)
      /\ log' \in Seq(Records) /\ Len(log') = Len(log) + 1
  OBVIOUS
<1>2. DOMAIN log' = 1 .. Len(log) + 1
  BY <1>1
<1>3. \A i \in DOMAIN log : log'[i] = log[i]
  BY <1>1
<1>4. log'[Len(log) + 1] = rec
  BY <1>1
<1> QED BY <1>1, <1>2, <1>3, <1>4

(* Nor does a record that is logged change what the log says of a run up   *)
(* to an earlier one.                                                      *)
LEMMA LogSays ==
  ASSUME log \in Seq(Records), NEW rec \in Records, log' = Append(log, rec),
         NEW m \in 0 .. Len(log)
  PROVE  /\ \A r, k, T : Did(r, k, T, m)' <=> Did(r, k, T, m)
         /\ \A r : Seen(r, m)' <=> Seen(r, m)
         /\ \A r : Ended(r, m)' <=> Ended(r, m)
         /\ \A r : m > 0 => (First(r, m)' <=> First(r, m))
<1>1. \A i \in 1 .. m : log'[i] = log[i]
  BY LogGrows
<1>2. m > 0 => m \in 1 .. m /\ \A j \in 1 .. m - 1 : j \in 1 .. m
  BY LogGrows
<1>3. \A r, k, T : Did(r, k, T, m)' <=> Did(r, k, T, m)
  BY <1>1 DEF Did, Of
<1>4. \A r : Seen(r, m)' <=> Seen(r, m)
  BY <1>1 DEF Seen
<1>5. \A r : Ended(r, m)' <=> Ended(r, m)
  BY <1>1 DEF Ended
<1>6. \A r : m > 0 => (First(r, m)' <=> First(r, m))
  BY <1>1, <1>2 DEF First
<1> QED BY <1>3, <1>4, <1>5, <1>6

(* A record of a run's own type has the key run, any other the key of a    *)
(* step.                                                                   *)
LEMMA RecordsAre ==
  ASSUME NEW x \in Records
  PROVE  /\ x.run \in Runs
         /\ x.type \in RunTypes => x.key = "run"
         /\ x.type \notin RunTypes => x.key \in Steps
         /\ x.type \in RunTypes \cup StepTypes \cup AssetTypes
BY DEF Records, RunTypes, RunEnds, StepTypes, StepEnds, AssetTypes

(* What MayLog guards, in the terms of Lives. *)
LEMMA MayLogIs ==
  ASSUME log \in Seq(Records), Lives, NEW x \in Records, MayLog(x),
         NEW i \in DOMAIN log, log[i].run = x.run
  PROVE  /\ x.type \in RunEnds => log[i].type \notin RunEnds
         /\ x.type = "planned" => log[i].type \notin Outcome
         /\ log[i].key = x.key =>
              /\ x.type \in Outcome => log[i].type \notin Outcome
              /\ x.type \in StepEnds => log[i].type \notin StepEnds
              /\ x.type = "step_start" => log[i].type # "step_start" /\ log[i].type \notin StepEnds
<1> DEFINE r == x.run
           k == x.key
<1>0. /\ log[i] \in Records /\ Len(log) \in Nat /\ DOMAIN log = 1 .. Len(log)
      /\ i \in 1 .. Len(log)
  OBVIOUS
<1>1. ASSUME NEW kk, NEW T, Did(r, kk, T, i - 1) PROVE Logged(r, kk, T)
  <2>1. PICK j \in 1 .. i - 1 : Of(j, r, kk, T)
    BY <1>1 DEF Did
  <2>2. j \in DOMAIN log
    BY <1>0
  <2> QED BY <2>1, <2>2 DEF Of, Logged
<1>2. /\ log[i].type \in StepTypes \cup Outcome => Did(r, "run", {"run_start"}, i - 1)
      /\ log[i].type \in StepEnds => Did(r, log[i].key, {"step_start"}, i - 1)
      /\ log[i].type = "not_materialized" => Did(r, log[i].key, {"step_failure"}, i - 1)
  BY DEF Lives
<1>3. /\ log[i].type \in StepTypes \cup Outcome => Logged(r, "run", {"run_start"})
      /\ log[i].type \in StepEnds => Logged(r, log[i].key, {"step_start"})
      /\ log[i].type = "not_materialized" => Logged(r, log[i].key, {"step_failure"})
  BY <1>1, <1>2
<1>4. CASE x.type \in RunEnds
  <2>1. ~ Logged(r, "run", RunEnds)
    BY <1>4 DEF MayLog, RunEnds
  <2>2. log[i].type \in RunEnds => log[i].key = "run"
    BY <1>0, RecordsAre DEF RunTypes
  <2> QED BY <1>4, <2>1, <2>2 DEF Logged, RunEnds, Outcome, StepEnds
<1>5. CASE x.type = "planned"
  <2>1. ~ Logged(r, "run", RunTypes)
    BY <1>5 DEF MayLog
  <2>2. Logged(r, "run", {"run_start"}) => Logged(r, "run", RunTypes)
    BY DEF Logged, RunTypes
  <2>3. log[i].type \notin Outcome
    BY <1>3, <2>1, <2>2
  <2> QED BY <1>5, <2>3 DEF RunEnds, Outcome, StepEnds
<1>6. CASE x.type \in StepEnds
  <2>1. ~ Logged(r, k, StepEnds)
    BY <1>6 DEF MayLog, StepEnds, Started
  <2> QED BY <1>6, <2>1 DEF Logged, RunEnds, Outcome, StepEnds
<1>7. CASE x.type = "step_start"
  <2>1. ~ Logged(r, k, {"step_start"})
    BY <1>7 DEF MayLog
  <2>2. log[i].key = k => log[i].type # "step_start"
    BY <2>1 DEF Logged
  <2>3. log[i].key = k => log[i].type \notin StepEnds
    BY <1>3, <2>1
  <2> QED BY <1>7, <2>2, <2>3 DEF RunEnds, Outcome, StepEnds
<1>8. CASE x.type = "materialized"
  <2>1. ~ Logged(r, k, {"materialized"}) /\ ~ Logged(r, k, StepEnds)
    BY <1>8 DEF MayLog, Started
  <2>2. Logged(r, k, {"step_failure"}) => Logged(r, k, StepEnds)
    BY DEF Logged, StepEnds
  <2>3. log[i].key = k => log[i].type # "materialized"
    BY <2>1 DEF Logged
  <2>4. log[i].key = k => log[i].type # "not_materialized"
    BY <1>3, <2>1, <2>2
  <2> QED BY <1>8, <2>3, <2>4 DEF RunEnds, Outcome, StepEnds
<1>9. CASE x.type = "not_materialized"
  <2>1. ~ Logged(r, k, {"materialized", "not_materialized"})
    BY <1>9 DEF MayLog
  <2> QED BY <1>9, <2>1 DEF Logged, RunEnds, Outcome, StepEnds
<1> QED BY <1>4, <1>5, <1>6, <1>7, <1>8, <1>9 DEF Outcome

(* The order in which runs log their events keeps the life of each. *)
LEMMA LivesLog ==
  ASSUME log \in Seq(Records), Lives, NEW rec \in Records, Log(rec)
  PROVE  Lives'
<1> PICK n, r, k : n = Len(log) + 1 /\ r = rec.run /\ k = rec.key
  OBVIOUS
<1>0. MayLog(rec) /\ log' = Append(log, rec)
  BY DEF Log
<1>1. /\ Len(log) \in Nat /\ DOMAIN log = 1 .. Len(log) /\ DOMAIN log' = 1 .. n
      /\ \A i \in DOMAIN log : log'[i] = log[i]
      /\ log'[n] = rec
  BY <1>0, LogGrows
<1>2. \A i \in DOMAIN log' : i = n \/ (i \in DOMAIN log /\ i < n)
  BY <1>1
<1>3. ASSUME NEW i \in DOMAIN log', NEW j \in DOMAIN log', log'[i].run = log'[j].run
      PROVE /\ {log'[i].type, log'[j].type} \subseteq RunEnds => i = j
            /\ log'[i].key = log'[j].key =>
                 /\ {log'[i].type, log'[j].type} \subseteq Outcome => i = j
                 /\ {log'[i].type, log'[j].type} \subseteq StepEnds => i = j
                 /\ log'[i].type = "step_start" /\ log'[j].type = "step_start" => i = j
                 /\ log'[i].type = "step_start" /\ log'[j].type \in StepEnds => i < j
                 /\ log'[i].type = "planned" /\ log'[j].type \in Outcome => i < j
  <2>1. CASE i \in DOMAIN log /\ j \in DOMAIN log
    BY <1>1, <1>3, <2>1 DEF Lives
  <2>2. CASE i = n /\ j \in DOMAIN log
    <3>1. log[j].run = rec.run /\ log'[j] = log[j] /\ log'[i] = rec
      BY <1>1, <1>3, <2>2
    <3> QED BY <1>0, <3>1, <2>2, MayLogIs
  <2>3. CASE i \in DOMAIN log /\ j = n
    <3>1. log[i].run = rec.run /\ log'[i] = log[i] /\ log'[j] = rec /\ i < j
      BY <1>1, <1>3, <2>3
    <3> QED BY <1>0, <3>1, <2>3, MayLogIs
  <2>4. CASE i = n /\ j = n
    BY <2>4 DEF StepEnds, Outcome
  <2> QED BY <1>2, <2>1, <2>2, <2>3, <2>4
<1>4. \A kk, T : Logged(r, kk, T) => Did(r, kk, T, n - 1)'
  <2> PICK m : m = n - 1
    OBVIOUS
  <2>1. m \in 0 .. Len(log) /\ DOMAIN log = 1 .. m
    BY <1>1
  <2>2. \A kk, T : Did(r, kk, T, m)' <=> Did(r, kk, T, m)
    BY <1>0, <2>1, LogSays
  <2>3. \A kk, T : Logged(r, kk, T) => Did(r, kk, T, m)
    BY <2>1 DEF Logged, Did, Of
  <2> QED BY <2>2, <2>3
<1>5. ASSUME NEW j \in DOMAIN log', NEW s, NEW t, s = log'[j].run, t = log'[j].key
      PROVE  /\ log'[j].type \in StepTypes \cup Outcome => Did(s, "run", {"run_start"}, j - 1)'
             /\ log'[j].type \in StepEnds => Did(s, t, {"step_start"}, j - 1)'
             /\ log'[j].type = "not_materialized" => Did(s, t, {"step_failure"}, j - 1)'
             /\ \E i \in 1 .. j : First(s, i)'
  <2>1. CASE j \in DOMAIN log
    <3>1. /\ log[j].type \in StepTypes \cup Outcome => Did(log[j].run, "run", {"run_start"}, j - 1)
          /\ log[j].type \in StepEnds => Did(log[j].run, log[j].key, {"step_start"}, j - 1)
          /\ log[j].type = "not_materialized" => Did(log[j].run, log[j].key, {"step_failure"}, j - 1)
          /\ \E i \in 1 .. j : First(log[j].run, i)
      BY <2>1 DEF Lives
    <3>2. log'[j] = log[j] /\ j - 1 \in 0 .. Len(log)
      BY <1>1, <2>1
    <3>3. \A kk, T : Did(s, kk, T, j - 1)' <=> Did(s, kk, T, j - 1)
      <4> PICK m : m = j - 1
        OBVIOUS
      <4>1. m \in 0 .. Len(log)
        BY <3>2
      <4>2. \A kk, T : Did(s, kk, T, m)' <=> Did(s, kk, T, m)
        BY <1>0, <4>1, LogSays
      <4> QED BY <4>2
    <3>4. ASSUME NEW i \in 1 .. j, First(s, i) PROVE First(s, i)'
      <4>1. i \in 0 .. Len(log) /\ i > 0
        BY <1>1, <2>1
      <4>2. First(s, i)' <=> First(s, i)
        BY <1>0, <4>1, LogSays
      <4> QED BY <3>4, <4>2
    <3>5. s = log[j].run /\ t = log[j].key
      BY <1>5, <3>2
    <3>6. \E i \in 1 .. j : First(s, i)'
      BY <3>1, <3>4, <3>5
    <3> QED BY <3>1, <3>2, <3>3, <3>5, <3>6
  <2>2. CASE j = n
    <3>1. /\ rec.type \in StepTypes \cup Outcome => Logged(r, "run", {"run_start"})
          /\ rec.type \in StepEnds => Logged(r, k, {"step_start"})
          /\ rec.type = "not_materialized" => Logged(r, k, {"step_failure"})
      <4>1. rec.type \in StepEnds \cup {"step_retry", "materialized"} => Logged(r, k, {"step_start"})
        BY <1>0 DEF MayLog, StepEnds, Started
      <4>2. rec.type = "not_materialized" => Logged(r, k, {"step_failure"})
        BY <1>0 DEF MayLog
      <4>3. rec.type = "step_start" => Logged(r, "run", {"run_start"})
        BY <1>0 DEF MayLog
      <4>4. Logged(r, k, {"step_start"}) \/ Logged(r, k, {"step_failure"}) => Logged(r, "run", {"run_start"})
        <5> SUFFICES ASSUME NEW i \in DOMAIN log, log[i].run = r, log[i].type \in StepTypes
                     PROVE  Logged(r, "run", {"run_start"})
          BY DEF Logged, StepTypes, StepEnds
        <5>1. Did(r, "run", {"run_start"}, i - 1)
          BY DEF Lives
        <5> QED BY <1>1, <5>1 DEF Did, Of, Logged
      <4> QED BY <4>1, <4>2, <4>3, <4>4 DEF StepTypes, StepEnds, Outcome
    <3>2. \E i \in 1 .. n : First(r, i)'
      <4>1. CASE \E i \in DOMAIN log : log[i].run = r
        <5>1. PICK i \in DOMAIN log : log[i].run = r
          BY <4>1
        <5>2. PICK h \in 1 .. i : First(r, h)
          BY <5>1 DEF Lives
        <5>3. h \in 0 .. Len(log) /\ h > 0 /\ h \in 1 .. n
          BY <1>1, <5>1, <5>2
        <5>4. First(r, h)' <=> First(r, h)
          BY <1>0, <5>3, LogSays
        <5> QED BY <5>1, <5>2, <5>3, <5>4
      <4>2. CASE ~ \E i \in DOMAIN log : log[i].run = r
        <5>1. n \in 1 .. n /\ \A j2 \in 1 .. n - 1 : j2 \in DOMAIN log
          BY <1>1
        <5>2. First(r, n)'
          BY <1>1, <4>2, <5>1 DEF First
        <5> QED BY <5>1, <5>2
      <4> QED BY <4>1, <4>2
    <3>3. s = r /\ t = k /\ log'[j] = rec
      BY <1>1, <1>5, <2>2
    <3> QED BY <1>4, <2>2, <3>1, <3>2, <3>3
  <2> QED BY <1>2, <2>1, <2>2
<1> QED BY <1>3, <1>5 DEF Lives

------------------------------------------------------------------------------
(* Taking a run out of an order leaves the others, each once, in the order *)
(* they were in.                                                           *)
LEMMA WithoutIs ==
  ASSUME NEW s \in Seq(Runs), Once(s), NEW r
  PROVE  /\ Without(s, r) \in Seq(Runs) /\ Once(Without(s, r))
         /\ \A x : Contains(Without(s, r), x) <=> x # r /\ Contains(s, x)
         /\ \A x, y : Before(Without(s, r), x, y) => Before(s, x, y)
<1>1. s \in Seq(Runs) /\ Once(s) /\ DOMAIN s = 1 .. Len(s) /\ Len(s) \in Nat
  OBVIOUS
<1>2. CASE ~ Contains(s, r)
  BY <1>2 DEF Without, Contains
<1>3. CASE Contains(s, r)
  <2> DEFINE k == Place(s, r)
             t == RemoveAt(s, k)
  <2>1. k \in 1 .. Len(s) /\ s[k] = r
    BY <1>1, <1>3 DEF Contains, Place
  <2>2. Without(s, r) = t
    BY <1>3 DEF Without
  <2> HIDE DEF k
  <2>3. /\ t \in Seq(Runs) /\ Len(t) = Len(s) - 1
        /\ \A i \in 1 .. Len(s) - 1 : t[i] = IF i < k THEN s[i] ELSE s[i + 1]
    <3>1. \A i \in 1 .. Len(s) : s[i] \in Runs
      BY <1>1
    <3>2. PICK a : a = SubSeq(s, 1, k - 1)
      OBVIOUS
    <3>3. PICK b : b = SubSeq(s, k + 1, Len(s))
      OBVIOUS
    <3>4. /\ a \in Seq(Runs) /\ Len(a) = k - 1
          /\ \A i \in 1 .. k - 1 : a[i] = s[i]
      <4>1. k \in Int /\ Len(s) \in Int /\ k - 1 \in Int /\ \A i \in 1 .. k - 1 : i \in 1 .. Len(s)
        BY <1>1, <2>1
      <4>2. \A i \in 1 .. k - 1 : s[i] \in Runs
        BY <3>1, <4>1
      <4>3. /\ a \in Seq(Runs) /\ Len(a) = IF 1 <= k - 1 THEN k - 1 - 1 + 1 ELSE 0
            /\ \A i \in 1 .. k - 1 - 1 + 1 : a[i] = s[1 + i - 1]
        BY <3>2, <4>1, <4>2, SubSeqProperties
      <4> QED BY <1>1, <2>1, <4>3
    <3>5. /\ b \in Seq(Runs) /\ Len(b) = Len(s) - k
          /\ \A i \in 1 .. Len(s) - k : b[i] = s[k + i]
      <4>1. k + 1 \in Int /\ Len(s) \in Int /\ \A i \in k + 1 .. Len(s) : i \in 1 .. Len(s)
        BY <1>1, <2>1
      <4>2. \A i \in k + 1 .. Len(s) : s[i] \in Runs
        BY <3>1, <4>1
      <4>3. /\ b \in Seq(Runs)
            /\ Len(b) = IF k + 1 <= Len(s) THEN Len(s) - (k + 1) + 1 ELSE 0
            /\ \A i \in 1 .. Len(s) - (k + 1) + 1 : b[i] = s[k + 1 + i - 1]
        BY <3>3, <4>1, <4>2, SubSeqProperties
      <4>4. k \in Nat /\ Len(s) \in Nat /\ k <= Len(s)
        BY <1>1, <2>1
      <4>5. Len(s) - (k + 1) + 1 = Len(s) - k /\ \A i \in Int : k + 1 + i - 1 = k + i
        BY <4>4
      <4>6. Len(b) = Len(s) - k
        BY <4>3, <4>4
      <4>7. ASSUME NEW i \in 1 .. Len(s) - k PROVE b[i] = s[k + i]
        <5>1. i \in 1 .. Len(s) - (k + 1) + 1 /\ k + 1 + i - 1 = k + i
          BY <4>4
        <5>2. b[i] = s[k + 1 + i - 1]
          BY <4>3, <5>1
        <5> QED BY <5>1, <5>2
      <4> QED BY <4>3, <4>6, <4>7
    <3>6. t = a \o b
      BY <3>2, <3>3 DEF RemoveAt
    <3>7. /\ t \in Seq(Runs) /\ Len(t) = Len(a) + Len(b)
          /\ \A i \in 1 .. Len(a) + Len(b) : t[i] = IF i <= Len(a) THEN a[i] ELSE b[i - Len(a)]
      <4> HIDE DEF t
      <4>1. /\ a \o b \in Seq(Runs) /\ Len(a \o b) = Len(a) + Len(b)
            /\ \A i \in 1 .. Len(a) + Len(b) :
                 (a \o b)[i] = IF i <= Len(a) THEN a[i] ELSE b[i - Len(a)]
        BY <3>4, <3>5, ConcatProperties
      <4> QED BY <3>6, <4>1
    <3> HIDE DEF t
    <3>8. ASSUME NEW i \in 1 .. Len(s) - 1
          PROVE  t[i] = IF i < k THEN s[i] ELSE s[i + 1]
      <4>1. t[i] = IF i <= k - 1 THEN a[i] ELSE b[i - (k - 1)]
        BY <1>1, <2>1, <3>4, <3>5, <3>7
      <4>2. CASE i < k
        BY <1>1, <2>1, <3>4, <4>1, <4>2
      <4>3. CASE ~ (i < k)
        <5>1. i - (k - 1) \in 1 .. Len(s) - k /\ k + (i - (k - 1)) = i + 1
          BY <1>1, <2>1, <4>3
        <5>2. t[i] = b[i - (k - 1)]
          BY <1>1, <2>1, <4>1, <4>3
        <5> QED BY <3>5, <4>3, <5>1, <5>2
      <4> QED BY <4>2, <4>3
    <3>9. Len(t) = Len(s) - 1
      BY <1>1, <2>1, <3>4, <3>5, <3>7
    <3> QED BY <3>7, <3>8, <3>9
  <2> HIDE DEF t
  <2>4. \A i, j \in 1 .. Len(s) : s[i] = s[j] => i = j
    BY <1>1 DEF Once
  <2>5. ASSUME NEW i \in DOMAIN t, NEW j \in DOMAIN t, t[i] = t[j] PROVE i = j
    <3>1. i \in 1 .. Len(s) - 1 /\ j \in 1 .. Len(s) - 1
      BY <2>3
    <3> QED BY <1>1, <2>1, <2>3, <2>4, <2>5, <3>1
  <2>6. t \in Seq(Runs) /\ Once(t)
    BY <2>3, <2>5 DEF Once
  <2>7. ASSUME NEW x, x # r, Contains(s, x) PROVE Contains(t, x)
    <3>1. PICK i \in 1 .. Len(s) : s[i] = x
      BY <2>7 DEF Contains
    <3>2. i # k
      BY <2>1, <2>7, <3>1
    <3>3. CASE i < k
      <4>1. i \in 1 .. Len(s) - 1 /\ t[i] = x
        BY <1>1, <2>1, <2>3, <3>1, <3>3
      <4> QED BY <2>3, <4>1 DEF Contains
    <3>4. CASE i > k
      <4>1. i - 1 \in 1 .. Len(s) - 1 /\ t[i - 1] = x
        BY <1>1, <2>1, <2>3, <3>1, <3>4
      <4> QED BY <2>3, <4>1 DEF Contains
    <3> QED BY <1>1, <2>1, <3>2, <3>3, <3>4
  <2>8. ASSUME NEW x, Contains(t, x) PROVE x # r /\ Contains(s, x)
    <3>1. PICK i \in 1 .. Len(s) - 1 : t[i] = x
      BY <2>3, <2>8 DEF Contains
    <3>2. PICK j \in 1 .. Len(s) : j # k /\ x = s[j]
      BY <1>1, <2>1, <2>3, <3>1
    <3>3. x # r
      BY <2>1, <2>4, <3>2
    <3> QED BY <3>2, <3>3 DEF Contains
  <2>9. ASSUME NEW x, NEW y, Before(t, x, y) PROVE Before(s, x, y)
    <3>1. PICK i, j \in 1 .. Len(s) - 1 : i < j /\ t[i] = x /\ t[j] = y
      BY <2>3, <2>9 DEF Before
    <3>2. PICK a : a = IF i < k THEN i ELSE i + 1
      OBVIOUS
    <3>3. PICK b : b = IF j < k THEN j ELSE j + 1
      OBVIOUS
    <3>4. a \in DOMAIN s /\ b \in DOMAIN s /\ a < b
      BY <1>1, <2>1, <3>1, <3>2, <3>3
    <3>5. s[a] = x /\ s[b] = y
      BY <2>3, <3>1, <3>2, <3>3
    <3> QED BY <3>4, <3>5 DEF Before
  <2> QED BY <2>2, <2>6, <2>7, <2>8, <2>9
<1> QED BY <1>2, <1>3

(* Moving a run to the front puts it, and only it, after the others. *)
LEMMA FrontIs ==
  ASSUME NEW s \in Seq(Runs), Once(s), NEW r \in Runs, NEW t, t = Append(Without(s, r), r)
  PROVE  /\ t \in Seq(Runs) /\ Once(t)
         /\ \A x : Contains(t, x) <=> x = r \/ Contains(s, x)
         /\ \A x, y : Before(t, x, y) => x # r /\ (Before(s, x, y) \/ y = r)
<1> PICK u, n : u = Without(s, r) /\ n = Len(u) + 1
  OBVIOUS
<1>1. /\ u \in Seq(Runs) /\ Once(u)
      /\ \A x : Contains(u, x) <=> x # r /\ Contains(s, x)
      /\ \A x, y : Before(u, x, y) => Before(s, x, y)
  BY WithoutIs
<1>2. t = Append(u, r)
  OBVIOUS
<1>3. t \in Seq(Runs) /\ Len(t) = n
  BY <1>1, <1>2
<1>4. Len(u) \in Nat /\ DOMAIN u = 1 .. Len(u) /\ DOMAIN t = 1 .. n
  BY <1>1, <1>3
<1>5. t[n] = r /\ \A i \in DOMAIN u : t[i] = u[i]
  BY <1>1, <1>2
<1>6. \A i \in DOMAIN t : i = n \/ (i \in DOMAIN u /\ i < n)
  BY <1>4
<1>7. \A i \in DOMAIN u : u[i] # r
  BY <1>1, <1>4 DEF Contains
<1>8. Once(t)
  BY <1>1, <1>5, <1>6, <1>7 DEF Once
<1>9. ASSUME NEW x PROVE Contains(t, x) <=> x = r \/ Contains(s, x)
  <2>1. Contains(t, x) <=> \E i \in DOMAIN t : t[i] = x
    BY <1>3, <1>4 DEF Contains
  <2>2. Contains(u, x) <=> \E i \in DOMAIN u : u[i] = x
    BY <1>4 DEF Contains
  <2>3. n \in DOMAIN t /\ \A i \in DOMAIN u : i \in DOMAIN t
    BY <1>4
  <2> QED BY <1>1, <1>5, <1>6, <2>1, <2>2, <2>3
<1>10. ASSUME NEW x, NEW y, Before(t, x, y) PROVE x # r /\ (Before(s, x, y) \/ y = r)
  <2>1. PICK a, b \in DOMAIN t : a < b /\ t[a] = x /\ t[b] = y
    BY <1>10 DEF Before
  <2>2. a \in DOMAIN u /\ t[a] = u[a]
    BY <1>4, <1>5, <2>1
  <2>3. CASE b = n
    BY <1>5, <1>7, <2>1, <2>2, <2>3
  <2>4. CASE b \in DOMAIN u
    <3>1. Before(u, x, y)
      BY <1>5, <2>1, <2>2, <2>4 DEF Before
    <3> QED BY <1>1, <1>7, <2>1, <2>2, <3>1
  <2> QED BY <1>6, <2>3, <2>4
<1> QED BY <1>3, <1>8, <1>9, <1>10

------------------------------------------------------------------------------
(***************************************************************************)
(* The step of a cursor from c to d by which a handler takes in record i:  *)
(* only the entry and the place of the record's run change.                *)
(***************************************************************************)
Others(c, d, r) ==
  /\ \A x \in Runs : x # r => (Known(d, x) <=> Known(c, x)) /\ d.entry[x] = c.entry[x]
  /\ \A x, y : Before(d.order, x, y) => Before(c.order, x, y) \/ (y = r /\ x # r)

Kept(c, d, r) == Known(c, r) => Known(d, r) /\ d.entry[r].repo = c.entry[r].repo

StepId(c, i, k) ==
  IF k # log[i].key THEN c.entry[log[i].run].steps[k]
  ELSE IF log[i].type = "step_start" THEN StepRunId(c, log[i])
  ELSE IF log[i].type \in StepEnds THEN 0
  ELSE c.entry[log[i].run].steps[k]

Plan(c, i, k) ==
  \/ k = log[i].key /\ log[i].type = "planned"
  \/ k \in c.entry[log[i].run].planned /\ ~ (k = log[i].key /\ log[i].type \in Outcome)

Took(c, d, i) ==
  LET r == log[i].run IN
  /\ Ordered(d) /\ Others(c, d, r)
  /\ ~ Known(c, r) /\ Known(d, r) => d.entry[r].repo = Named(i)
  /\ log[i].type \notin RunEnds =>
       /\ Kept(c, d, r)
       /\ IncludeAssets \/ log[i].type \notin AssetTypes => Known(d, r)
       /\ \A k \in Steps : d.entry[r].steps[k] = StepId(c, i, k)
       /\ IncludeAssets => \A k \in Steps : k \in d.entry[r].planned <=> Plan(c, i, k)
  /\ Promotes(log[i]) => Known(d, r) /\ \A x : ~ Before(d.order, r, x)

(* The default entry is one. *)
LEMMA PipelineIs ==
  ASSUME NEW b \in BOOLEAN
  PROVE  /\ Pipeline(b) \in Pipelines /\ Pipeline(b).repo = b
         /\ Pipeline(b).planned = {} /\ \A k \in Steps : Pipeline(b).steps[k] = 0
BY DEF Pipeline, Pipelines

(* The entry a handler starts from. *)
LEMMA RunningIs ==
  ASSUME NEW c, Ordered(c), NEW r \in Runs, NEW b \in BOOLEAN
  PROVE  /\ Running(c, r, b) \in Pipelines
         /\ Running(c, r, b).repo = IF Known(c, r) THEN c.entry[r].repo ELSE b
         /\ Running(c, r, b).planned = c.entry[r].planned
         /\ \A k \in Steps : Running(c, r, b).steps[k] = c.entry[r].steps[k]
<1>1. c.entry[r] \in Pipelines
  BY DEF Ordered, Cursors
<1>2. ~ Known(c, r) => c.entry[r] = Pipeline(FALSE)
  BY DEF Ordered
<1>3. CASE Known(c, r)
  BY <1>1, <1>3 DEF Running
<1>4. CASE ~ Known(c, r)
  <2>1. Running(c, r, b) = Pipeline(b)
    BY <1>4 DEF Running
  <2>2. FALSE \in BOOLEAN
    OBVIOUS
  <2> QED BY <1>2, <1>4, <2>1, <2>2, PipelineIs
<1> QED BY <1>3, <1>4

(* Popping a run. *)
LEMMA DropIs ==
  ASSUME NEW c, Ordered(c), NEW r \in Runs, NEW d, d = Drop(c, r)
  PROVE  /\ Ordered(d) /\ d.last = c.last /\ ~ Known(d, r) /\ Others(c, d, r)
<1> PICK s, t : s = c.order /\ t = Without(s, r)
  OBVIOUS
<1>1. /\ s \in Seq(Runs) /\ Once(s) /\ c.last \in Nat /\ c.entry \in [Runs -> Pipelines]
      /\ \A x \in Runs : ~ Contains(s, x) => c.entry[x] = Pipeline(FALSE)
      /\ c = [last |-> c.last, order |-> s, entry |-> c.entry]
  BY DEF Ordered, Cursors, Known
<1>2. /\ t \in Seq(Runs) /\ Once(t)
      /\ \A x : Contains(t, x) <=> x # r /\ Contains(s, x)
      /\ \A x, y : Before(t, x, y) => Before(s, x, y)
  BY <1>1, WithoutIs
<1>3. Pipeline(FALSE) \in Pipelines
  BY PipelineIs
<1>4. /\ d.last = c.last /\ d.order = t
      /\ d.entry = [c.entry EXCEPT ![r] = Pipeline(FALSE)]
      /\ d = [last |-> d.last, order |-> d.order, entry |-> d.entry]
  BY <1>1 DEF Drop
<1>5. /\ d.entry \in [Runs -> Pipelines] /\ d.entry[r] = Pipeline(FALSE)
      /\ \A x \in Runs : x # r => d.entry[x] = c.entry[x]
  BY <1>1, <1>3, <1>4
<1>6. d \in Cursors
  BY <1>1, <1>2, <1>4, <1>5 DEF Cursors
<1>7. \A x : Known(d, x) <=> Contains(t, x)
  BY <1>4 DEF Known
<1>8. \A x : Known(c, x) <=> Contains(s, x)
  BY DEF Known
<1>9. Ordered(d)
  BY <1>1, <1>2, <1>4, <1>5, <1>6, <1>7 DEF Ordered
<1>10. Others(c, d, r)
  BY <1>2, <1>4, <1>5, <1>7, <1>8 DEF Others
<1> QED BY <1>2, <1>4, <1>7, <1>9, <1>10

(* Popping a run and putting it back, at the front, with a new entry. *)
Fronted(c, d, r, e) ==
  /\ Ordered(d) /\ d.last = c.last /\ Known(d, r) /\ d.entry[r] = e /\ Others(c, d, r)
  /\ \A x : ~ Before(d.order, r, x)

(* Promoting a run puts it at the front with its new entry, and leaves the *)
(* others in their order.                                                  *)
LEMMA PromoteIs ==
  ASSUME NEW c, Ordered(c), NEW r \in Runs, NEW e \in Pipelines
  PROVE  Fronted(c, Promote(c, r, e), r, e)
<1>d. PICK d : d = Promote(c, r, e)
  OBVIOUS
<1> PICK s, t : s = c.order /\ t = Append(Without(s, r), r)
  OBVIOUS
<1>1. /\ s \in Seq(Runs) /\ Once(s) /\ c.last \in Nat /\ c.entry \in [Runs -> Pipelines]
      /\ \A x \in Runs : ~ Contains(s, x) => c.entry[x] = Pipeline(FALSE)
      /\ c = [last |-> c.last, order |-> s, entry |-> c.entry]
  BY DEF Ordered, Cursors, Known
<1>2. /\ t \in Seq(Runs) /\ Once(t)
      /\ \A x : Contains(t, x) <=> x = r \/ Contains(s, x)
      /\ \A x, y : Before(t, x, y) => x # r /\ (Before(s, x, y) \/ y = r)
  <2>1. t = Append(Without(s, r), r)
    OBVIOUS
  <2> QED BY <1>1, <2>1, FrontIs, Zenon
<1>4. /\ d.last = c.last /\ d.order = t
      /\ d.entry = [c.entry EXCEPT ![r] = e]
      /\ d = [last |-> d.last, order |-> d.order, entry |-> d.entry]
  BY <1>1, <1>d DEF Promote
<1>5. /\ d.entry \in [Runs -> Pipelines] /\ d.entry[r] = e
      /\ \A x \in Runs : x # r => d.entry[x] = c.entry[x]
  BY <1>1, <1>4
<1>6. d \in Cursors
  BY <1>1, <1>2, <1>4, <1>5 DEF Cursors
<1>7. \A x : Known(d, x) <=> Contains(t, x)
  BY <1>4 DEF Known
<1>8. \A x : Known(c, x) <=> Contains(s, x)
  BY DEF Known
<1>9. Ordered(d)
  BY <1>1, <1>2, <1>4, <1>5, <1>6, <1>7 DEF Ordered
<1>10. Others(c, d, r)
  BY <1>2, <1>4, <1>5, <1>7, <1>8 DEF Others
<1>11. \A x : ~ Before(d.order, r, x)
  BY <1>2, <1>4
<1> QED BY <1>d, <1>2, <1>4, <1>5, <1>7, <1>9, <1>10, <1>11 DEF Fronted

(* Changing one field of an entry. *)
Reset(e, f, k, id) ==
  /\ f \in Pipelines /\ f.repo = e.repo /\ f.planned = e.planned
  /\ \A kk \in Steps : f.steps[kk] = IF kk = k THEN id ELSE e.steps[kk]

Replan(e, f, p) == f \in Pipelines /\ f.repo = e.repo /\ f.steps = e.steps /\ f.planned = p

(* Setting one step run id of an entry changes nothing else of it. *)
LEMMA StepSet ==
  ASSUME NEW e \in Pipelines, NEW k \in Steps, NEW id \in Nat
  PROVE  Reset(e, [e EXCEPT !.steps[k] = id], k, id)
<1>f. PICK f : f = [e EXCEPT !.steps[k] = id]
  OBVIOUS
<1>1. e = [repo |-> e.repo, steps |-> e.steps, planned |-> e.planned]
        /\ e.repo \in BOOLEAN /\ e.steps \in [Steps -> Nat] /\ e.planned \in SUBSET Steps
  BY DEF Pipelines
<1>2. PICK g : g = [e.steps EXCEPT ![k] = id]
  OBVIOUS
<1>3. f = [repo |-> e.repo, steps |-> g, planned |-> e.planned]
  BY <1>1, <1>2, <1>f
<1>4. g \in [Steps -> Nat] /\ \A kk \in Steps : g[kk] = IF kk = k THEN id ELSE e.steps[kk]
  BY <1>1, <1>2
<1> QED BY <1>1, <1>3, <1>4, <1>f DEF Pipelines, Reset

(* Nor does setting the planned assets of an entry. *)
LEMMA PlanSet ==
  ASSUME NEW e \in Pipelines, NEW p \in SUBSET Steps
  PROVE  Replan(e, [e EXCEPT !.planned = p], p)
BY DEF Pipelines, Replan

(* Handling an asset event. *)
LEMMA AssetTook ==
  ASSUME log \in Seq(Records), NEW i \in DOMAIN log, NEW c, Ordered(c), IncludeAssets,
         log[i].type \in AssetTypes, NEW d, d = HandleAsset(c, log[i])
  PROVE  Took(c, d, i)
<1> PICK r, k, y : r = log[i].run /\ k = log[i].key /\ y = log[i].type
  OBVIOUS
<1>e. PICK e : e = Running(c, r, FALSE)
  OBVIOUS
<1>p. PICK p : p = CASE y = "planned" -> e.planned \cup {k}
                   [] y \in {"materialized", "not_materialized"} -> e.planned \ {k}
                   [] OTHER -> e.planned
  OBVIOUS
<1>f. PICK f : f = [e EXCEPT !.planned = p]
  OBVIOUS
<1>1. log[i] \in Records /\ r \in Runs /\ FALSE \in BOOLEAN
  BY RecordsAre
<1>2. y \notin RunTypes /\ y \notin StepTypes /\ y \notin RunEnds /\ y \notin StepEnds
        /\ y # "step_start"
  BY DEF AssetTypes, RunTypes, RunEnds, StepTypes, StepEnds
<1>3. k \in Steps
  BY <1>1, <1>2, RecordsAre
<1>4. /\ e \in Pipelines
      /\ e.repo = IF Known(c, r) THEN c.entry[r].repo ELSE FALSE
      /\ e.planned = c.entry[r].planned
      /\ \A kk \in Steps : e.steps[kk] = c.entry[r].steps[kk]
  BY ZenonT(40), <1>1, <1>e, RunningIs
<1>5. \A kk : kk \in p <=> \/ kk = k /\ y = "planned"
                           \/ kk \in e.planned /\ ~ (kk = k /\ y \in Outcome)
  <2>1. CASE y = "planned"
    <3>1. p = e.planned \cup {k}
      BY <2>1, <1>p
    <3> QED BY <2>1, <3>1 DEF Outcome
  <2>2. CASE y \in {"materialized", "not_materialized"}
    <3>1. p = e.planned \ {k}
      BY <2>2, <1>p
    <3> QED BY <2>2, <3>1 DEF Outcome
  <2>3. CASE y # "planned" /\ y \notin {"materialized", "not_materialized"}
    <3>1. p = e.planned
      BY <2>3, <1>p
    <3> QED BY <2>3, <3>1 DEF Outcome
  <2> QED BY <2>1, <2>2, <2>3
<1>6. p \in SUBSET Steps
  BY <1>3, <1>4, <1>5 DEF Pipelines
<1>7. f \in Pipelines /\ f.repo = e.repo /\ f.steps = e.steps /\ f.planned = p
  <2>1. Replan(e, f, p)
    BY <1>4, <1>6, <1>f, PlanSet
  <2> QED BY <2>1 DEF Replan
<1>8. d = Promote(c, r, f)
  BY <1>e, <1>p, <1>f DEF HandleAsset
<1>9. /\ Ordered(d) /\ Known(d, r) /\ d.entry[r] = f /\ Others(c, d, r)
      /\ \A x : ~ Before(d.order, r, x)
  <2>1. Fronted(c, d, r, f)
    BY <1>1, <1>7, <1>8, PromoteIs
  <2> QED BY <2>1 DEF Fronted
<1>10. ~ Known(c, r) => d.entry[r].repo = Named(i)
  BY <1>4, <1>7, <1>9 DEF Named
<1>11. Kept(c, d, r)
  BY <1>4, <1>7, <1>9 DEF Kept
<1>12. ASSUME NEW kk \in Steps PROVE d.entry[r].steps[kk] = StepId(c, i, kk)
  <2>1. StepId(c, i, kk) = c.entry[r].steps[kk]
    BY <1>2 DEF StepId
  <2> QED BY <1>4, <1>7, <1>9, <2>1
<1>13. \A kk \in Steps : kk \in d.entry[r].planned <=> Plan(c, i, kk)
  BY <1>4, <1>5, <1>7, <1>9 DEF Plan
<1> QED BY <1>9, <1>10, <1>11, <1>12, <1>13 DEF Took

(* Handling an event of a step. *)
LEMMA StepTook ==
  ASSUME log \in Seq(Records), NEW i \in DOMAIN log, NEW c, Ordered(c), uuids \in Nat,
         log[i].type \in StepTypes \/ (~ IncludeAssets /\ log[i].type \in AssetTypes),
         NEW d, d = HandleStep(c, log[i])
  PROVE  Took(c, d, i) /\ d.entry[log[i].run].repo = RepositoryName(c, log[i].run)
<1> PICK r, k, y : r = log[i].run /\ k = log[i].key /\ y = log[i].type
  OBVIOUS
<1>e. PICK e : e = Running(c, r, TRUE)
  OBVIOUS
<1>i. PICK id : id = CASE y = "step_start"  -> StepRunId(c, log[i])
                     [] y \in StepEnds    -> 0
                     [] OTHER             -> e.steps[k]
  OBVIOUS
<1>f. PICK f : f = [e EXCEPT !.steps[k] = id]
  OBVIOUS
<1>1. log[i] \in Records /\ r \in Runs /\ TRUE \in BOOLEAN
  BY RecordsAre
<1>2. y \notin RunTypes /\ y \notin RunEnds /\ y \in StepTypes \cup AssetTypes
  BY DEF AssetTypes, RunTypes, RunEnds, StepTypes, StepEnds
<1>3. k \in Steps
  BY <1>1, <1>2, RecordsAre
<1>4. /\ e \in Pipelines
      /\ e.repo = IF Known(c, r) THEN c.entry[r].repo ELSE TRUE
      /\ e.planned = c.entry[r].planned
      /\ \A kk \in Steps : e.steps[kk] = c.entry[r].steps[kk]
  BY ZenonT(40), <1>1, <1>e, RunningIs
<1>5. id = IF y = "step_start" THEN StepRunId(c, log[i])
           ELSE IF y \in StepEnds THEN 0 ELSE e.steps[k]
  <2>1. CASE y = "step_start"
    BY <1>i, <2>1 DEF StepEnds
  <2>2. CASE y \in StepEnds
    BY <1>i, <2>2 DEF StepEnds
  <2>3. CASE y # "step_start" /\ y \notin StepEnds
    BY <1>i, <2>3
  <2> QED BY <2>1, <2>2, <2>3
<1>6. id \in Nat
  <2>1. e.steps[k] \in Nat
    BY <1>3, <1>4 DEF Pipelines
  <2>2. StepRunId(c, log[i]) = IF e.steps[k] # 0 THEN e.steps[k] ELSE uuids + 1
    BY <1>e DEF StepRunId
  <2>3. StepRunId(c, log[i]) \in Nat
    BY <2>1, <2>2
  <2> QED BY <1>5, <2>1, <2>3
<1>7. /\ f \in Pipelines /\ f.repo = e.repo /\ f.planned = e.planned
      /\ \A kk \in Steps : f.steps[kk] = IF kk = k THEN id ELSE e.steps[kk]
  <2>1. Reset(e, f, k, id)
    BY <1>3, <1>4, <1>6, <1>f, StepSet
  <2> QED BY <2>1 DEF Reset
<1>8. d = Promote(c, r, f)
  BY <1>e, <1>i, <1>f DEF HandleStep, StepEntry
<1>9. /\ Ordered(d) /\ Known(d, r) /\ d.entry[r] = f /\ Others(c, d, r)
      /\ \A x : ~ Before(d.order, r, x)
  <2>1. Fronted(c, d, r, f)
    BY <1>1, <1>7, <1>8, PromoteIs
  <2> QED BY <2>1 DEF Fronted
<1>10. ~ Known(c, r) => d.entry[r].repo = Named(i)
  <2>1. IncludeAssets => y \notin AssetTypes
    BY DEF AssetTypes, StepTypes, StepEnds
  <2> QED BY <1>4, <1>7, <1>9, <2>1 DEF Named
<1>11. Kept(c, d, r)
  BY <1>4, <1>7, <1>9 DEF Kept
<1>12. ASSUME NEW kk \in Steps PROVE d.entry[r].steps[kk] = StepId(c, i, kk)
  <2>1. d.entry[r].steps[kk] = IF kk = k THEN id ELSE e.steps[kk]
    BY <1>7, <1>9
  <2>2. CASE kk # k
    <3>1. StepId(c, i, kk) = c.entry[r].steps[kk]
      BY <2>2 DEF StepId
    <3> QED BY <1>4, <2>1, <2>2, <3>1
  <2>3. CASE kk = k
    <3>1. StepId(c, i, kk) = IF y = "step_start" THEN StepRunId(c, log[i])
                             ELSE IF y \in StepEnds THEN 0 ELSE c.entry[r].steps[kk]
      BY <2>3 DEF StepId
    <3>2. e.steps[kk] = c.entry[r].steps[kk]
      BY <1>4
    <3> QED BY <1>5, <2>1, <2>3, <3>1, <3>2
  <2> QED BY <2>2, <2>3
<1>13. IncludeAssets => \A kk \in Steps : kk \in d.entry[r].planned <=> Plan(c, i, kk)
  <2>1. IncludeAssets => y # "planned" /\ y \notin Outcome
    BY DEF AssetTypes, StepTypes, StepEnds, Outcome
  <2> QED BY <1>4, <1>7, <1>9, <2>1 DEF Plan
<1>14. d.entry[r].repo = RepositoryName(c, r)
  BY <1>e, <1>7, <1>9 DEF RepositoryName
<1> QED BY <1>9, <1>10, <1>11, <1>12, <1>13, <1>14 DEF Took

(* Handling a run's start or end. *)
LEMMA PipelineTook ==
  ASSUME log \in Seq(Records), NEW i \in DOMAIN log, NEW c, Ordered(c),
         log[i].type \in RunTypes, NEW d, d = HandlePipeline(c, log[i])
  PROVE  Took(c, d, i)
<1> PICK r, k, y : r = log[i].run /\ k = log[i].key /\ y = log[i].type
  OBVIOUS
<1>1. log[i] \in Records /\ r \in Runs /\ TRUE \in BOOLEAN /\ FALSE \in BOOLEAN
  BY RecordsAre
<1>2. y \notin AssetTypes /\ y \notin StepEnds /\ y # "step_start" /\ y # "planned"
        /\ y \notin Outcome
  BY DEF AssetTypes, RunTypes, RunEnds, StepTypes, StepEnds, Outcome
<1>3. ~ Promotes(log[i])
  BY DEF Promotes
<1>4. CASE y \in RunEnds
  <2>1. d = Drop(c, r)
    BY <1>4 DEF HandlePipeline
  <2>2. Ordered(d) /\ ~ Known(d, r) /\ Others(c, d, r)
    BY <1>1, <2>1, DropIs
  <2> QED BY <1>3, <1>4, <2>2 DEF Took
<1>5. CASE y \notin RunEnds /\ Known(c, r)
  <2>1. d = c
    BY <1>5 DEF HandlePipeline
  <2>2. Others(c, d, r)
    BY <2>1 DEF Others
  <2>3. Kept(c, d, r)
    BY <2>1 DEF Kept
  <2>4. \A kk \in Steps : d.entry[r].steps[kk] = StepId(c, i, kk)
    BY <1>2, <2>1 DEF StepId
  <2>5. \A kk \in Steps : kk \in d.entry[r].planned <=> Plan(c, i, kk)
    BY <1>2, <2>1 DEF Plan
  <2> QED BY <1>3, <1>5, <2>1, <2>2, <2>3, <2>4, <2>5 DEF Took
<1>6. CASE y \notin RunEnds /\ ~ Known(c, r)
  <2>f. PICK f : f = Pipeline(TRUE)
    OBVIOUS
  <2>1. RepositoryName(c, r) = TRUE
    <3>1. Running(c, r, TRUE) = Pipeline(TRUE)
      BY <1>6 DEF Running
    <3> QED BY <1>1, <3>1, PipelineIs DEF RepositoryName
  <2>2. d = Promote(c, r, f)
    BY <1>6, <2>1, <2>f DEF HandlePipeline
  <2>3. f \in Pipelines /\ f.repo = TRUE /\ f.planned = {} /\ \A kk \in Steps : f.steps[kk] = 0
    BY <1>1, <2>f, PipelineIs
  <2>4. Ordered(d) /\ Known(d, r) /\ d.entry[r] = f /\ Others(c, d, r)
    <3>1. Fronted(c, d, r, f)
      BY <1>1, <2>2, <2>3, PromoteIs
    <3> QED BY <3>1 DEF Fronted
  <2>5. /\ c.entry[r].planned = {} /\ \A kk \in Steps : c.entry[r].steps[kk] = 0
    <3>1. c.entry[r] = Pipeline(FALSE)
      BY <1>1, <1>6 DEF Ordered
    <3> QED BY <1>1, <3>1, PipelineIs
  <2>6. d.entry[r].repo = Named(i)
    BY <1>2, <2>3, <2>4 DEF Named
  <2>7. Kept(c, d, r)
    BY <1>6 DEF Kept
  <2>8. \A kk \in Steps : d.entry[r].steps[kk] = StepId(c, i, kk)
    BY <1>2, <2>3, <2>4, <2>5 DEF StepId
  <2>9. \A kk \in Steps : kk \in d.entry[r].planned <=> Plan(c, i, kk)
    BY <1>2, <2>3, <2>4, <2>5 DEF Plan
  <2> QED BY <1>3, <2>4, <2>6, <2>7, <2>8, <2>9 DEF Took
<1> QED BY <1>4, <1>5, <1>6

(* A record nobody handles. *)
LEMMA NothingTook ==
  ASSUME log \in Seq(Records), NEW i \in DOMAIN log, NEW c, Ordered(c),
         ~ IncludeAssets, log[i].type \in AssetTypes, ~ IsStepEvent(log[i])
  PROVE  Took(c, c, i)
<1> PICK r, k, y : r = log[i].run /\ k = log[i].key /\ y = log[i].type
  OBVIOUS
<1>1. Others(c, c, r) /\ Kept(c, c, r) /\ ~ Promotes(log[i])
  BY DEF Others, Kept, Promotes
<1>2. y # "step_start" /\ y \notin StepEnds
  BY DEF AssetTypes, StepEnds
<1>3. \A kk \in Steps : c.entry[r].steps[kk] = StepId(c, i, kk)
  BY <1>2 DEF StepId
<1> QED BY <1>1, <1>3 DEF Took

(* The position is no part of what a handler does. *)
LEMMA TookAnyway ==
  ASSUME NEW c, NEW d, NEW i, Took(c, d, i), NEW n \in Nat
  PROVE  /\ Took(c, [d EXCEPT !.last = n], i)
         /\ [d EXCEPT !.last = n].last = n /\ [d EXCEPT !.last = n].entry = d.entry
<1>1. PICK r : r = log[i].run
  OBVIOUS
<1>2. PICK f : f = [d EXCEPT !.last = n]
  OBVIOUS
<1>3. Ordered(d) /\ d \in Cursors
  BY DEF Took, Ordered
<1>4. f \in Cursors /\ f.last = n /\ f.order = d.order /\ f.entry = d.entry
  BY <1>2, <1>3 DEF Cursors
<1>5. \A x : Known(f, x) <=> Known(d, x)
  BY <1>4 DEF Known
<1>6. Ordered(f)
  BY <1>3, <1>4, <1>5 DEF Ordered
<1>7. Others(c, f, r)
  <2>1. Others(c, d, r)
    BY <1>1 DEF Took
  <2> QED BY <1>4, <1>5, <2>1 DEF Others
<1>8. Kept(c, d, r) => Kept(c, f, r)
  BY <1>4, <1>5 DEF Kept
<1>9. Took(c, f, i)
  <2>1. Known(f, r) <=> Known(d, r)
    BY <1>5
  <2> QED BY <1>1, <1>4, <1>6, <1>7, <1>8, <2>1 DEF Took
<1> QED BY <1>2, <1>4, <1>9

(* Each record goes to one handler. *)
LEMMA AfterTook ==
  ASSUME log \in Seq(Records), NEW i \in DOMAIN log, i \in Nat, NEW c, Ordered(c), uuids \in Nat
  PROVE  /\ Took(c, After(c, i), i)
         /\ log[i].type \in StepTypes =>
              After(c, i).entry[log[i].run].repo = RepositoryName(c, log[i].run)
<1>1. PICK y : y = log[i].type
  OBVIOUS
<1>2. y \in RunTypes \cup StepTypes \cup AssetTypes
  <2>1. log[i] \in Records
    OBVIOUS
  <2> QED BY <1>1, <2>1, RecordsAre
<1>3. y \in StepTypes => y \notin RunTypes /\ y \notin AssetTypes
  BY DEF RunTypes, StepTypes, AssetTypes, RunEnds, StepEnds
<1>4. y \in RunTypes => y \notin AssetTypes
  BY DEF RunTypes, AssetTypes, RunEnds
<1>5. CASE IncludeAssets /\ y \in AssetTypes
  <2>1. After(c, i) = [HandleAsset(c, log[i]) EXCEPT !.last = i]
    BY <1>1, <1>4, <1>5 DEF After
  <2>2. Took(c, HandleAsset(c, log[i]), i)
    BY <1>1, <1>5, AssetTook
  <2> QED BY <1>1, <1>3, <1>5, <2>1, <2>2, TookAnyway
<1>6. CASE y \in RunTypes
  <2>1. After(c, i) = [HandlePipeline(c, log[i]) EXCEPT !.last = i]
    BY <1>1, <1>4, <1>6 DEF After
  <2>2. Took(c, HandlePipeline(c, log[i]), i)
    BY <1>1, <1>6, PipelineTook
  <2> QED BY <1>1, <1>3, <1>6, <2>1, <2>2, TookAnyway
<1>7. CASE y \in StepTypes \/ (~ IncludeAssets /\ y \in AssetTypes /\ IsStepEvent(log[i]))
  <2>1. After(c, i) = [HandleStep(c, log[i]) EXCEPT !.last = i]
    <3>1. ~ (IncludeAssets /\ y \in AssetTypes) /\ y \notin RunTypes
            /\ ~ (~ IncludeAssets /\ y \in AssetTypes /\ ~ IsStepEvent(log[i]))
      BY <1>3, <1>4, <1>7
    <3> QED BY <1>1, <3>1 DEF After
  <2>2. /\ Took(c, HandleStep(c, log[i]), i)
        /\ HandleStep(c, log[i]).entry[log[i].run].repo = RepositoryName(c, log[i].run)
    BY <1>1, <1>7, StepTook
  <2> QED BY <2>1, <2>2, TookAnyway
<1>8. CASE ~ IncludeAssets /\ y \in AssetTypes /\ ~ IsStepEvent(log[i])
  <2>1. After(c, i) = [c EXCEPT !.last = i]
    BY <1>1, <1>4, <1>8 DEF After
  <2>2. Took(c, c, i)
    BY <1>1, <1>8, NothingTook
  <2> QED BY <1>1, <1>3, <1>8, <2>1, <2>2, TookAnyway
<1> QED BY <1>2, <1>5, <1>6, <1>7, <1>8

(* Trimming a cursor: the oldest entries go, the order of the others stays, *)
(* and MaxRunning others come after each that goes.                        *)
Trims(c, d) ==
  /\ Ordered(d) /\ d.last = c.last
  /\ \A x \in Runs : Known(d, x) <=> Known(c, x) /\ x \notin Evicted(c)
  /\ \A x \in Runs : x \notin Evicted(c) => d.entry[x] = c.entry[x]
  /\ \A x, y : Before(d.order, x, y) => Before(c.order, x, y)

(* _update_cursor does that. *)
LEMMA TrimmedIs ==
  ASSUME NEW c, Ordered(c)
  PROVE  Trims(c, Trimmed(c))
<1>d. PICK d : d = Trimmed(c)
  OBVIOUS
<1>s. PICK s, n, t : s = c.order /\ n = Len(s) - MaxRunning /\ t = d.order
  OBVIOUS
<1>1. /\ s \in Seq(Runs) /\ Once(s) /\ c.last \in Nat /\ c.entry \in [Runs -> Pipelines]
      /\ \A x \in Runs : ~ Contains(s, x) => c.entry[x] = Pipeline(FALSE)
      /\ c = [last |-> c.last, order |-> s, entry |-> c.entry]
  BY <1>s DEF Ordered, Cursors, Known
<1>2. Len(s) \in Nat /\ DOMAIN s = 1 .. Len(s) /\ MaxRunning \in Nat /\ MaxRunning > 0 /\ n \in Int
        /\ n < Len(s)
  BY <1>1, <1>s, SensorAssumption
<1>3. Evicted(c) = {s[i] : i \in 1 .. n}
  BY <1>s DEF Evicted
<1>4. /\ d.last = c.last
      /\ t = IF Len(s) > MaxRunning THEN SubSeq(s, n + 1, Len(s)) ELSE s
      /\ d.entry = [r \in Runs |-> IF r \in Evicted(c) THEN Pipeline(FALSE) ELSE c.entry[r]]
      /\ d = [last |-> d.last, order |-> t, entry |-> d.entry]
  <2> HIDE DEF Evicted
  <2> QED BY <1>1, <1>d, <1>s DEF Trimmed
<1>k. PICK k : k = IF n > 0 THEN n ELSE 0
  OBVIOUS
<1>5. k \in Nat /\ k <= Len(s) /\ \A i : i \in 1 .. n <=> i \in 1 .. k
  BY <1>2, <1>k
<1>6. /\ t \in Seq(Runs) /\ Len(t) = Len(s) - k
      /\ \A i \in 1 .. Len(s) - k : t[i] = s[i + k]
  <2>1. CASE Len(s) > MaxRunning
    <3>1. n > 0 /\ k = n /\ n + 1 \in Int /\ Len(s) \in Int /\ \A i \in n + 1 .. Len(s) : i \in DOMAIN s
      BY <1>2, <1>k, <1>s, <2>1
    <3>2. \A i \in n + 1 .. Len(s) : s[i] \in Runs
      BY <1>1, <3>1
    <3>3. /\ t \in Seq(Runs)
          /\ Len(t) = IF n + 1 <= Len(s) THEN Len(s) - (n + 1) + 1 ELSE 0
          /\ \A i \in 1 .. Len(s) - (n + 1) + 1 : t[i] = s[n + 1 + i - 1]
      <4>1. t = SubSeq(s, n + 1, Len(s))
        BY <1>4, <2>1
      <4> QED BY <3>1, <3>2, <4>1, SubSeqProperties
    <3>4. Len(t) = Len(s) - k
      <4>1. n + 1 <= Len(s) /\ Len(s) - (n + 1) + 1 = Len(s) - k
        BY <1>2, <3>1
      <4> QED BY <3>3, <4>1
    <3>5. ASSUME NEW i \in 1 .. Len(s) - k PROVE t[i] = s[i + k]
      <4>1. i \in 1 .. Len(s) - (n + 1) + 1 /\ n + 1 + i - 1 = i + k
        BY <1>2, <3>1
      <4>2. t[i] = s[n + 1 + i - 1]
        BY <3>3, <4>1
      <4> QED BY <4>1, <4>2
    <3> QED BY <3>3, <3>4, <3>5
  <2>2. CASE ~ (Len(s) > MaxRunning)
    <3>1. k = 0 /\ t = s
      BY <1>2, <1>4, <1>k, <1>s, <2>2
    <3> QED BY <1>1, <1>2, <3>1
  <2> QED BY <2>1, <2>2
<1>7. DOMAIN t = 1 .. Len(s) - k /\ \A i \in DOMAIN t : i + k \in DOMAIN s /\ i \in Int
  BY <1>2, <1>5, <1>6
<1>8. \A i, j \in DOMAIN s : s[i] = s[j] => i = j
  BY <1>1 DEF Once
<1>9. Once(t)
  <2> SUFFICES ASSUME NEW i \in DOMAIN t, NEW j \in DOMAIN t, t[i] = t[j] PROVE i = j
    BY DEF Once
  <2>1. i + k = j + k
    BY <1>6, <1>7, <1>8
  <2> QED BY <1>5, <1>7, <2>1
<1>10. \A x : Contains(s, x) <=> \E i \in DOMAIN s : s[i] = x
  BY <1>2 DEF Contains
<1>11. \A x : Contains(t, x) <=> \E i \in DOMAIN t : t[i] = x
  BY <1>6, <1>7 DEF Contains
<1>12. ASSUME NEW x PROVE Contains(t, x) <=> Contains(s, x) /\ x \notin Evicted(c)
  <2>1. ASSUME NEW i \in DOMAIN t, t[i] = x PROVE Contains(s, x) /\ x \notin Evicted(c)
    <3>1. i + k \in DOMAIN s /\ s[i + k] = x /\ i + k \notin 1 .. n
      BY <1>5, <1>6, <1>7, <2>1
    <3>2. \A j \in 1 .. n : j \in DOMAIN s
      BY <1>2
    <3>3. \A j \in 1 .. n : s[j] # x
      BY <1>8, <3>1, <3>2
    <3> QED BY <1>3, <1>10, <3>1, <3>3
  <2>2. ASSUME NEW i \in DOMAIN s, s[i] = x, x \notin Evicted(c) PROVE Contains(t, x)
    <3>1. i \notin 1 .. k
      BY <1>3, <1>5, <2>2
    <3>2. i - k \in DOMAIN t /\ i - k + k = i /\ i - k \in 1 .. Len(s) - k
      BY <1>2, <1>5, <1>7, <3>1
    <3>3. t[i - k] = x
      BY <1>6, <2>2, <3>2
    <3> QED BY <1>11, <3>2, <3>3
  <2> QED BY <1>10, <1>11, <2>1, <2>2
<1>13. ASSUME NEW x, NEW y, Before(t, x, y) PROVE Before(s, x, y)
  <2>1. PICK a, b \in DOMAIN t : a < b /\ t[a] = x /\ t[b] = y
    BY <1>13 DEF Before
  <2>2. a + k \in DOMAIN s /\ b + k \in DOMAIN s /\ s[a + k] = x /\ s[b + k] = y /\ a + k < b + k
    BY SMTT(30), <1>5, <1>6, <1>7, <2>1
  <2> QED BY <2>2 DEF Before
<1>14. /\ \A x : Known(d, x) <=> Contains(t, x)
       /\ \A x : Known(c, x) <=> Contains(s, x)
  BY <1>s DEF Known
<1>15. Pipeline(FALSE) \in Pipelines
  <2>1. FALSE \in BOOLEAN
    OBVIOUS
  <2> QED BY <2>1, PipelineIs
<1>16. d.entry \in [Runs -> Pipelines] /\ \A x \in Runs :
         d.entry[x] = IF x \in Evicted(c) THEN Pipeline(FALSE) ELSE c.entry[x]
  BY <1>1, <1>4, <1>15
<1>17. d \in Cursors
  <2>1. d.last \in Nat /\ t \in Seq(Runs) /\ d.entry \in [Runs -> Pipelines]
    BY <1>1, <1>4, <1>6, <1>16
  <2> PICK l, e : l = d.last /\ e = d.entry
    OBVIOUS
  <2>2. d = [last |-> l, order |-> t, entry |-> e]
    BY <1>4
  <2> QED BY <2>1, <2>2 DEF Cursors
<1>18. \A x \in Runs : ~ Known(d, x) => d.entry[x] = Pipeline(FALSE)
  BY <1>1, <1>12, <1>14, <1>16
<1>19. Ordered(d)
  BY <1>9, <1>17, <1>18, <1>s DEF Ordered
<1>20. \A x, y : Before(d.order, x, y) => Before(c.order, x, y)
  BY <1>13, <1>s
<1> QED BY <1>4, <1>12, <1>14, <1>16, <1>19, <1>20, <1>d DEF Trims

(* A run that is dropped has MaxRunning others behind it in the cursor. *)
LEMMA EvictedIs ==
  ASSUME NEW c, Ordered(c), NEW x \in Evicted(c), NEW T, IsFiniteSet(T),
         \A y \in Runs : Before(c.order, x, y) => y \in T
  PROVE  x \in Runs /\ Known(c, x) /\ Cardinality(T) >= MaxRunning
<1>s. PICK s : s = c.order
  OBVIOUS
<1>1. /\ s \in Seq(Runs) /\ Once(s)
  BY <1>s DEF Ordered, Cursors
<1>2. Len(s) \in Nat /\ DOMAIN s = 1 .. Len(s) /\ MaxRunning \in Nat /\ MaxRunning > 0
        /\ \A i \in DOMAIN s : s[i] \in Runs
  BY <1>1, SensorAssumption
<1>3. PICK a \in 1 .. Len(s) - MaxRunning : s[a] = x
  BY <1>s DEF Evicted
<1>4. a \in DOMAIN s /\ x \in Runs
  BY <1>2, <1>3
<1>5. Known(c, x)
  BY <1>2, <1>3, <1>4, <1>s DEF Known, Contains
<1>6. \A m \in 1 .. MaxRunning : a + m \in DOMAIN s /\ a < a + m
  BY <1>2, <1>3
<1>7. PICK f : f = [m \in 1 .. MaxRunning |-> s[a + m]]
  OBVIOUS
<1>8. ASSUME NEW m \in 1 .. MaxRunning PROVE f[m] \in T /\ f[m] = s[a + m]
  <2>1. f[m] = s[a + m] /\ s[a + m] \in Runs
    BY <1>2, <1>6, <1>7
  <2>2. Before(c.order, x, s[a + m])
    BY <1>3, <1>4, <1>6, <1>s DEF Before
  <2> QED BY <2>1, <2>2
<1>9. f \in [1 .. MaxRunning -> T]
  BY <1>7, <1>8
<1>10. IsFiniteSet(1 .. MaxRunning) /\ Cardinality(1 .. MaxRunning) = MaxRunning
  <2>1. 1 \in Int /\ MaxRunning \in Int
    BY <1>2
  <2>2. /\ IsFiniteSet(1 .. MaxRunning)
        /\ Cardinality(1 .. MaxRunning) = IF 1 > MaxRunning THEN 0 ELSE MaxRunning - 1 + 1
    BY <2>1, FS_Interval
  <2>3. ~ (1 > MaxRunning) /\ MaxRunning - 1 + 1 = MaxRunning
    BY <1>2
  <2> QED BY <2>2, <2>3
<1>11. Cardinality(T) \in Nat
  BY FS_CardinalityType
<1>12. CASE Cardinality(T) < MaxRunning
  <2>1. \E p, q \in 1 .. MaxRunning : p # q /\ f[p] = f[q]
    BY <1>9, <1>10, <1>12, FS_PigeonHole
  <2>2. PICK p, q \in 1 .. MaxRunning : p # q /\ f[p] = f[q]
    BY <2>1
  <2>3. a + p \in DOMAIN s /\ a + q \in DOMAIN s /\ s[a + p] = s[a + q]
    BY <1>6, <1>8, <2>2
  <2>4. a + p = a + q
    BY <1>1, <2>3 DEF Once
  <2> QED BY <1>2, <1>3, <2>2, <2>4
<1>13. CASE Cardinality(T) >= MaxRunning
  BY <1>4, <1>5, <1>13
<1> QED BY <1>2, <1>11, <1>12, <1>13

------------------------------------------------------------------------------
(***************************************************************************)
(* A handler took in record i, the one after c's position; d has moved to  *)
(* it, or has stayed because the handler of an asset event raised.         *)
(***************************************************************************)
Taken(c, d, i) ==
  /\ log \in Seq(Records) /\ Lives /\ Ordered(c) /\ Took(c, d, i)
  /\ i = c.last + 1 /\ i \in DOMAIN log
  /\ d.last = i \/ (d.last = c.last /\ log[i].type \in AssetTypes)

(* The positions in the log when a record is taken in. *)
LEMMA TakenIs ==
  ASSUME NEW c, NEW d, NEW i, Taken(c, d, i)
  PROVE  /\ c.last \in Nat /\ i \in Nat /\ d.last \in Nat /\ c.last <= d.last /\ d.last <= i
         /\ i = c.last + 1 /\ i \in DOMAIN log /\ log[i] \in Records /\ log[i].run \in Runs
         /\ \A m : m \in 1 .. i <=> m = i \/ m \in 1 .. c.last
         /\ \A m : m \in 1 .. d.last => m \in 1 .. i
         /\ \A m : m \in 1 .. i => m \in DOMAIN log
         /\ i \in 1 .. i
<1>1. c.last \in Nat /\ i = c.last + 1 /\ i \in DOMAIN log /\ log \in Seq(Records)
  BY DEF Taken, Ordered, Cursors
<1>2. d.last = i \/ d.last = c.last
  BY DEF Taken
<1>3. Len(log) \in Nat /\ DOMAIN log = 1 .. Len(log) /\ log[i] \in Records
  BY <1>1
<1>4. log[i].run \in Runs
  BY <1>3, RecordsAre
<1> QED BY <1>1, <1>2, <1>3, <1>4

(* A run that is still to be followed was so before the record. *)
LEMMA AliveTook ==
  ASSUME NEW c, NEW d, NEW i, Taken(c, d, i), NEW r, Alive(d, r)
  PROVE  Alive(c, r) /\ (r = log[i].run => log[i].type \notin RunEnds)
<1>1. /\ \A m : m \in 1 .. i <=> m = i \/ m \in 1 .. c.last
      /\ c.last \in Nat /\ i = c.last + 1
  BY TakenIs
<1>2. CASE d.last = i
  BY <1>1, <1>2 DEF Alive, Ended
<1>3. CASE d.last = c.last /\ log[i].type \in AssetTypes
  <2>1. log[i].type \notin RunEnds
    BY <1>3 DEF AssetTypes, RunEnds
  <2> QED BY <1>3, <2>1 DEF Alive
<1> QED BY <1>2, <1>3 DEF Taken

(* The first record of a run is one. *)
LEMMA FirstOnce ==
  ASSUME log \in Seq(Records), NEW i \in DOMAIN log, NEW j \in DOMAIN log, NEW r,
         First(r, i), First(r, j)
  PROVE  i = j
<1>1. i \in Nat /\ j \in Nat /\ i > 0 /\ j > 0
  OBVIOUS
<1>2. CASE i < j
  BY <1>1, <1>2 DEF First
<1>3. CASE j < i
  BY <1>1, <1>3 DEF First
<1> QED BY <1>1, <1>2, <1>3

------------------------------------------------------------------------------
(* The namespaces: an entry keeps the name its run's first record gave it. *)
LEMMA NamesTook ==
  ASSUME NEW c, NEW d, NEW i, Taken(c, d, i), Names(c)
  PROVE  Names(d)
<1>1. PICK y : y = log[i].run
  OBVIOUS
<1>2. /\ c.last \in Nat /\ i = c.last + 1 /\ i \in DOMAIN log
      /\ \A m : m \in 1 .. i <=> m = i \/ m \in 1 .. c.last
      /\ \A m : m \in 1 .. d.last => m \in 1 .. i
      /\ d.last \in Nat /\ c.last <= d.last /\ i <= d.last + 1
      /\ DOMAIN log \subseteq Nat
  BY TakenIs DEF Taken
<1>3. /\ log \in Seq(Records) /\ Others(c, d, y)
      /\ ~ Known(c, y) /\ Known(d, y) => d.entry[y].repo = Named(i)
      /\ log[i].type \notin RunEnds => Kept(c, d, y)
      /\ log[i].type \notin RunEnds /\ IncludeAssets => Known(d, y)
  BY <1>1 DEF Taken, Took
<1> SUFFICES ASSUME NEW r \in Runs, Alive(d, r)
             PROVE  /\ Known(d, r) =>
                         /\ \E h \in DOMAIN log : h <= d.last + 1 /\ log[h].run = r
                         /\ \A h \in DOMAIN log : First(r, h) => d.entry[r].repo = Named(h)
                    /\ ~ Known(d, r) /\ IncludeAssets => ~ Seen(r, d.last)
  BY DEF Names
<1>4. /\ Known(c, r) => /\ \E h \in DOMAIN log : h <= c.last + 1 /\ log[h].run = r
                        /\ \A h \in DOMAIN log : First(r, h) => c.entry[r].repo = Named(h)
      /\ ~ Known(c, r) /\ IncludeAssets => ~ Seen(r, c.last)
      /\ r = y => log[i].type \notin RunEnds
  BY <1>1, AliveTook DEF Names
<1>5. CASE r # y
  <2>1. (Known(d, r) <=> Known(c, r)) /\ d.entry[r] = c.entry[r]
    BY <1>3, <1>5 DEF Others
  <2>2. Known(d, r) => \E h \in DOMAIN log : h <= d.last + 1 /\ log[h].run = r
    <3> SUFFICES ASSUME Known(d, r) PROVE \E h \in DOMAIN log : h <= d.last + 1 /\ log[h].run = r
      OBVIOUS
    <3>1. PICK h \in DOMAIN log : h <= c.last + 1 /\ log[h].run = r
      BY <1>4, <2>1
    <3>2. h <= d.last + 1
      BY <1>2, <3>1
    <3> QED BY <3>1, <3>2
  <2>3. Seen(r, d.last) => Seen(r, c.last)
    BY <1>1, <1>2, <1>5 DEF Seen
  <2> QED BY <1>4, <2>1, <2>2, <2>3
<1>6. CASE r = y
  <2>1. log[i].type \notin RunEnds /\ log[i].run = r
    BY <1>1, <1>4, <1>6
  <2>2. IncludeAssets => Known(d, r)
    BY <1>3, <1>6, <2>1
  <2>3. i \in DOMAIN log /\ i <= d.last + 1
    BY <1>2
  <2>4. ASSUME NEW h \in DOMAIN log, First(r, h), Known(d, r)
        PROVE  d.entry[r].repo = Named(h)
    <3>1. CASE Known(c, r)
      BY <1>3, <1>4, <1>6, <2>1, <2>4, <3>1 DEF Kept
    <3>2. CASE ~ Known(c, r)
      <4>1. d.entry[r].repo = Named(i)
        BY <1>3, <1>6, <2>4, <3>2
      <4>2. CASE ~ IncludeAssets
        BY <4>1, <4>2 DEF Named
      <4>3. CASE IncludeAssets
        <5>1. ~ Seen(r, c.last)
          BY <1>4, <3>2, <4>3
        <5>2. First(r, i)
          BY <1>2, <2>1, <5>1 DEF First, Seen
        <5>3. h = i
          BY <1>3, <2>3, <2>4, <5>2, FirstOnce
        <5> QED BY <4>1, <5>3
      <4> QED BY <4>2, <4>3
    <3> QED BY <3>1, <3>2
  <2> QED BY <2>1, <2>2, <2>3, <2>4
<1> QED BY <1>5, <1>6

(* What trimming leaves, it leaves as it was. *)
LEMMA NamesTrimmed ==
  ASSUME NEW c, NEW d, Trims(c, d), Names(c), UNCHANGED log,
         evicted' = evicted \cup Evicted(c)
  PROVE  Names(d)'
<1>1. \A r \in Runs : Alive(d, r)' => Alive(c, r) /\ (Known(d, r) <=> Known(c, r))
                                        /\ d.entry[r] = c.entry[r]
  BY DEF Alive, Ended, Trims
<1>2. d.last = c.last
  BY DEF Trims
<1>3. \A r, m : (Seen(r, m)' <=> Seen(r, m)) /\ (First(r, m)' <=> First(r, m))
         /\ Named(m)' = Named(m)
  BY DEF Seen, First, Named
<1>4. \A r : Known(d, r)' <=> Known(d, r)
  BY DEF Known
<1> HIDE DEF Evicted
<1> QED BY <1>1, <1>2, <1>3, <1>4 DEF Names

(* A record more in the log is not the first of a run that has an entry. *)
LEMMA NamesLogged ==
  ASSUME NEW c, Ordered(c), Names(c), Lives, log \in Seq(Records), c.last <= Len(log),
         NEW rec \in Records, log' = Append(log, rec), UNCHANGED evicted
  PROVE  Names(c)'
<1>1. PICK m : m = c.last
  OBVIOUS
<1>2. /\ Len(log) \in Nat /\ DOMAIN log = 1 .. Len(log) /\ DOMAIN log' = 1 .. Len(log) + 1
      /\ \A h \in DOMAIN log : log'[h] = log[h]
  BY LogGrows
<1>3. m \in 0 .. Len(log) /\ m \in Nat
  BY <1>1, <1>2 DEF Ordered, Cursors
<1>4. \A r : (Seen(r, m)' <=> Seen(r, m)) /\ (Ended(r, m)' <=> Ended(r, m))
  BY <1>3, LogSays
<1>5. \A r : (Alive(c, r)' <=> Alive(c, r)) /\ (Known(c, r)' <=> Known(c, r))
  BY <1>1, <1>4 DEF Alive, Known
<1>6. ASSUME NEW r \in Runs, Alive(c, r), Known(c, r)
      PROVE  /\ \E h \in DOMAIN log' : h <= m + 1 /\ log'[h].run = r
             /\ \A h \in DOMAIN log' : First(r, h)' => c.entry[r].repo = Named(h)'
  <2>1. PICK g \in DOMAIN log : g <= m + 1 /\ log[g].run = r
    BY <1>1, <1>6 DEF Names
  <2>2. ASSUME NEW h \in DOMAIN log', First(r, h)'
        PROVE  c.entry[r].repo = Named(h)'
    <3>1. h \in DOMAIN log
      <4>1. CASE h = Len(log) + 1
        <5>1. g \in 1 .. h - 1 /\ log'[g].run = r
          BY <1>2, <2>1, <4>1
        <5> QED BY <2>2, <5>1 DEF First
      <4> QED BY <1>2, <4>1
    <3>2. h \in 0 .. Len(log) /\ h > 0
      BY <1>2, <3>1
    <3>3. First(r, h)' <=> First(r, h)
      BY <3>2, LogSays
    <3>4. First(r, h)
      BY <2>2, <3>3
    <3>5. Named(h)' = Named(h)
      BY <1>2, <3>1 DEF Named
    <3> QED BY <1>6, <3>1, <3>4, <3>5 DEF Names
  <2> QED BY <1>2, <2>1, <2>2
<1>7. \A r \in Runs : Alive(c, r) /\ ~ Known(c, r) /\ IncludeAssets => ~ Seen(r, m)'
  BY <1>1, <1>4 DEF Names
<1> QED BY <1>1, <1>5, <1>6, <1>7 DEF Names

------------------------------------------------------------------------------
(* What is emitted for a record. *)
LEMMA EventsAre ==
  ASSUME log \in Seq(Records), NEW i \in DOMAIN log, NEW c, NEW r, NEW k, NEW y,
         r = log[i].run, k = log[i].key, y = log[i].type,
         NEW e, e \in EventsOf(c, i)
  PROVE  /\ e.about \in {"run", "step"} => e.repo = RepositoryName(c, r) /\ y \notin AssetTypes
         /\ e.about = "step" =>
              /\ e = Emission("step", y, k, StepRunId(c, log[i]), RepositoryName(c, r))
              /\ e.kind = y /\ e.key = k /\ e.id = StepRunId(c, log[i])
              /\ y \in {"step_start"} \cup StepEnds
         /\ e.kind = "step_start" => y = "step_start" /\ e.key = k
         /\ e.about = "asset" => y \in AssetTypes \/
              (y \in RunEnds /\ e.kind = "not_materialized" /\ e.key \in c.entry[r].planned)
<1>1. y \in RunTypes \cup StepTypes \cup AssetTypes
  <2>1. log[i] \in Records
    OBVIOUS
  <2> QED BY <2>1, RecordsAre
<1>2. /\ y \in RunTypes => y \notin AssetTypes /\ y # "step_start"
      /\ y \in StepTypes => y \notin AssetTypes /\ y \notin RunTypes
      /\ y \in AssetTypes => y # "step_start"
  BY DEF AssetTypes, RunTypes, RunEnds, StepTypes, StepEnds
<1>3. CASE y \in AssetTypes
  <2>1. e \in AssetEvents(log[i])
    BY <1>2, <1>3 DEF EventsOf
  <2>2. e = Emission("asset", y, k, 0, FALSE)
    BY <2>1 DEF AssetEvents
  <2>3. e.about = "asset" /\ e.kind = y
    BY <2>2 DEF Emission
  <2> QED BY <1>2, <1>3, <2>3
<1>4. CASE y \in RunTypes
  <2>1. e \in DrainEvents(c, log[i]) \cup PipelineEvents(c, log[i])
    BY <1>2, <1>4 DEF EventsOf
  <2>2. CASE e \in DrainEvents(c, log[i])
    <3>1. /\ y \in RunEnds
          /\ \E p \in c.entry[r].planned : e = Emission("asset", "not_materialized", p, 0, FALSE)
      BY <2>2 DEF DrainEvents
    <3>2. PICK p \in c.entry[r].planned : e = Emission("asset", "not_materialized", p, 0, FALSE)
      BY <3>1
    <3>3. e.about = "asset" /\ e.kind = "not_materialized" /\ e.key = p
      BY <3>2 DEF Emission
    <3> QED BY <3>1, <3>3
  <2>3. CASE e \in PipelineEvents(c, log[i])
    <3>1. e = Emission("run", y, "run", 0, RepositoryName(c, r))
      BY <2>3 DEF PipelineEvents
    <3>2. e.about = "run" /\ e.kind = y /\ e.repo = RepositoryName(c, r)
      BY <3>1 DEF Emission
    <3> QED BY <1>2, <1>4, <3>2
  <2> QED BY <2>1, <2>2, <2>3
<1>5. CASE y \in StepTypes
  <2>1. e \in StepEvents(c, log[i])
    BY <1>2, <1>5 DEF EventsOf
  <2>2. /\ e = Emission("step", y, k, StepRunId(c, log[i]), RepositoryName(c, r))
        /\ y \in {"step_start"} \cup StepEnds
    BY <2>1 DEF StepEvents
  <2>3. e.about = "step" /\ e.kind = y /\ e.key = k /\ e.id = StepRunId(c, log[i])
          /\ e.repo = RepositoryName(c, r)
    BY <2>2 DEF Emission
  <2> QED BY <1>2, <1>5, <2>2, <2>3
<1> QED BY <1>1, <1>3, <1>4, <1>5

(* What a record's emission does include. *)
LEMMA EventsInclude ==
  ASSUME log \in Seq(Records), NEW i \in DOMAIN log, NEW c, NEW r, NEW k, NEW y,
         r = log[i].run, k = log[i].key, y = log[i].type
  PROVE  /\ y \in {"step_start"} \cup StepEnds =>
              Emission("step", y, k, StepRunId(c, log[i]), RepositoryName(c, r)) \in EventsOf(c, i)
         /\ IncludeAssets /\ y \in AssetTypes => EventsOf(c, i) = AssetEvents(log[i])
         /\ IncludeAssets /\ y \in RunEnds /\ Known(c, r) => \A p \in c.entry[r].planned :
              Emission("asset", "not_materialized", p, 0, FALSE) \in EventsOf(c, i)
<1>1. /\ y \in RunEnds => y \notin AssetTypes /\ y \in RunTypes
      /\ y \in AssetTypes => y \notin RunTypes
      /\ y \in {"step_start"} \cup StepEnds => y \notin AssetTypes /\ y \notin RunTypes
  BY DEF AssetTypes, RunTypes, RunEnds, StepTypes, StepEnds
<1>2. CASE y \in {"step_start"} \cup StepEnds
  <2>1. EventsOf(c, i) = StepEvents(c, log[i])
    BY <1>1, <1>2 DEF EventsOf
  <2>2. StepEvents(c, log[i]) =
          {Emission("step", y, k, StepRunId(c, log[i]), RepositoryName(c, r))}
    BY <1>2 DEF StepEvents
  <2> QED BY <1>1, <1>2, <2>1, <2>2 DEF RunEnds, StepEnds
<1>3. CASE IncludeAssets /\ y \in AssetTypes
  <2>1. EventsOf(c, i) = AssetEvents(log[i])
    BY <1>1, <1>3 DEF EventsOf
  <2> QED BY <1>1, <1>3, <2>1
<1>4. CASE IncludeAssets /\ y \in RunEnds /\ Known(c, r)
  <2>1. EventsOf(c, i) = DrainEvents(c, log[i]) \cup PipelineEvents(c, log[i])
    BY <1>1, <1>4 DEF EventsOf
  <2>2. DrainEvents(c, log[i]) =
          {Emission("asset", "not_materialized", p, 0, FALSE) : p \in c.entry[r].planned}
    BY <1>4 DEF DrainEvents
  <2>3. \A p \in c.entry[r].planned :
          Emission("asset", "not_materialized", p, 0, FALSE) \in EventsOf(c, i)
    BY <2>1, <2>2
  <2> QED BY <1>1, <1>4, <2>3
<1> QED BY <1>2, <1>3, <1>4

(* An emission more leaves the others. *)
Emits(c, i, n) ==
  /\ n \in Nat /\ n > 0 /\ DOMAIN emitted = 1 .. n - 1 /\ DOMAIN emitted' = 1 .. n
  /\ \A j \in 1 .. n - 1 : emitted'[j] = emitted[j]
  /\ emitted'[n].rec = i /\ emitted'[n].events = EventsOf(c, i)
  /\ \A j \in 1 .. n : j = n \/ (j \in 1 .. n - 1 /\ j \in DOMAIN emitted)
  /\ UNCHANGED <<log, evicted>>

(* The records emitted are in the log. *)
InLog == \A j \in DOMAIN emitted : emitted[j].rec \in DOMAIN log

(* A record's events carry the name its run has in the cursor, which is    *)
(* the one its first record gave it.                                       *)
LEMMA NamesSaidEmitted ==
  ASSUME NEW c, NEW d, NEW i, NEW n, Taken(c, d, i), Emits(c, i, n), Names(c), NamesSaid
  PROVE  NamesSaid'
<1>1. /\ log' = log /\ evicted' = evicted /\ DOMAIN emitted' = 1 .. n /\ DOMAIN emitted = 1 .. n - 1
      /\ \A j \in 1 .. n - 1 : emitted'[j] = emitted[j]
      /\ emitted'[n].rec = i /\ emitted'[n].events = EventsOf(c, i)
      /\ \A j \in 1 .. n : j = n \/ (j \in 1 .. n - 1 /\ j \in DOMAIN emitted)
  BY DEF Emits
<1>2. \A m, r : Named(m)' = Named(m) /\ (First(r, m)' <=> First(r, m)) /\ (Late(m)' <=> Late(m))
  BY <1>1 DEF Named, First, Late
<1>3. /\ c.last \in Nat /\ i = c.last + 1 /\ i \in DOMAIN log /\ log[i].run \in Runs
      /\ log \in Seq(Records)
  BY TakenIs DEF Taken
<1> SUFFICES ASSUME NEW j \in 1 .. n, NEW m, m = emitted'[j].rec,
                    NEW r, r = log[m].run, r \notin evicted,
                    ~ Late(m)', NEW e \in emitted'[j].events,
                    e.about \in {"run", "step"}, NEW h \in DOMAIN log, First(r, h)
             PROVE  e.repo = Named(h)
  BY <1>1, <1>2 DEF NamesSaid
<1>5. ~ Late(m)
  BY <1>2
<1>6. CASE j \in 1 .. n - 1
  <2>1. j \in DOMAIN emitted /\ emitted'[j] = emitted[j]
    BY <1>1, <1>6
  <2> QED BY <1>5, <2>1 DEF NamesSaid
<1>7. CASE j = n
  <2>1. m = i /\ r = log[i].run /\ e \in EventsOf(c, i)
    BY <1>1, <1>7
  <2>2. e.repo = RepositoryName(c, r) /\ log[i].type \notin AssetTypes
    BY <1>3, <2>1, EventsAre
  <2>3. Alive(c, r)
    <3>1. \A p \in 1 .. c.last : p \in 1 .. i - 1
      BY <1>3
    <3> QED BY <1>5, <2>1, <3>1 DEF Late, Alive, Ended
  <2>4. Named(i) = TRUE
    BY <2>2 DEF Named
  <2>5. Ordered(c) /\ r \in Runs /\ TRUE \in BOOLEAN
    BY <1>3, <2>1 DEF Taken
  <2>6. e.repo = IF Known(c, r) THEN c.entry[r].repo ELSE TRUE
    BY <2>2, <2>5, RunningIs DEF RepositoryName
  <2>7. CASE Known(c, r)
    BY <2>3, <2>5, <2>6, <2>7 DEF Names
  <2>8. CASE ~ Known(c, r) /\ IncludeAssets
    <3>1. ~ Seen(r, c.last)
      BY <2>3, <2>5, <2>8 DEF Names
    <3>2. First(r, i)
      BY <1>3, <2>1, <3>1 DEF First, Seen
    <3>3. h = i
      BY <1>3, <3>2, FirstOnce
    <3> QED BY <2>4, <2>6, <2>8, <3>3
  <2>9. CASE ~ Known(c, r) /\ ~ IncludeAssets
    BY <2>6, <2>9 DEF Named
  <2> QED BY <2>7, <2>8, <2>9
<1> QED BY <1>1, <1>6, <1>7

Grown(rec) ==
  log \in Seq(Records) /\ rec \in Records /\ log' = Append(log, rec)

(* A record that is logged gives no run that was reported another first    *)
(* record.                                                                 *)
LEMMA NamesSaidLogged ==
  ASSUME NamesSaid, Lives, InLog, NEW rec, Grown(rec), UNCHANGED <<evicted, emitted>>
  PROVE  NamesSaid'
<1>1. /\ Len(log) \in Nat /\ DOMAIN log = 1 .. Len(log) /\ DOMAIN log' = 1 .. Len(log) + 1
      /\ \A h \in DOMAIN log : log'[h] = log[h]
  BY LogGrows DEF Grown
<1>0. emitted' = emitted /\ evicted' = evicted
  OBVIOUS
<1> SUFFICES ASSUME NEW j \in DOMAIN emitted, NEW m, m = emitted[j].rec,
                    NEW r, r = log'[m].run, r \notin evicted, ~ Late(m)',
                    NEW e \in emitted[j].events, e.about \in {"run", "step"},
                    NEW h \in DOMAIN log', First(r, h)'
             PROVE  e.repo = Named(h)'
  BY <1>0 DEF NamesSaid
<1>2. m \in DOMAIN log /\ r = log[m].run /\ \A g \in 1 .. m - 1 : g \in DOMAIN log
  BY <1>1 DEF InLog
<1>3. ~ Late(m)
  BY <1>1, <1>2 DEF Late
<1>4. h \in DOMAIN log
  <2>1. CASE h = Len(log) + 1
    <3>1. m \in 1 .. h - 1 /\ log'[m].run = r
      BY <1>1, <1>2, <2>1
    <3> QED BY <3>1 DEF First
  <2> QED BY <1>1, <2>1
<1>5. First(r, h) /\ (Named(h)' <=> Named(h))
  <2>1. h \in 0 .. Len(log) /\ h > 0
    BY <1>1, <1>4
  <2>2. First(r, h)' <=> First(r, h)
    BY <2>1, LogSays DEF Grown
  <2> QED BY <1>1, <1>4, <2>2 DEF Named
<1> QED BY <1>2, <1>3, <1>4, <1>5 DEF NamesSaid, Named

(* Nor does a change of the cursors change what was said, or an eviction   *)
(* ask for more.                                                           *)
LEMMA NamesSaidStays ==
  ASSUME NamesSaid, UNCHANGED <<log, emitted>>, evicted \subseteq evicted'
  PROVE  NamesSaid'
BY DEF NamesSaid, Late, First, Named

------------------------------------------------------------------------------
(* The last emission of a record, when record i is emitted once more. *)
LEMMA FinalEmitted ==
  ASSUME NEW c, NEW i \in Nat, NEW n, Emits(c, i, n)
  PROVE  /\ \A p \in Nat : \A j : p < i => (Final(p, j)' <=> Final(p, j))
         /\ \A j : Final(i, j)' <=> j = n
<1>1. /\ DOMAIN emitted' = 1 .. n /\ DOMAIN emitted = 1 .. n - 1 /\ n \in Nat /\ n > 0
      /\ \A j \in 1 .. n - 1 : emitted'[j] = emitted[j]
      /\ emitted'[n].rec = i
  BY DEF Emits
<1>2. n \in 1 .. n /\ \A j \in 1 .. n : j = n \/ (j \in 1 .. n - 1 /\ j < n)
  BY <1>1
<1>3. ASSUME NEW p \in Nat, NEW j, p < i PROVE Final(p, j)' <=> Final(p, j)
  <2>1. ASSUME Final(p, j)' PROVE Final(p, j)
    <3>1. /\ j \in 1 .. n /\ emitted'[j].rec = p
          /\ \A m \in 1 .. n : m > j => emitted'[m].rec > p
      BY <1>1, <2>1 DEF Final
    <3>2. j \in 1 .. n - 1
      BY <1>1, <1>2, <1>3, <3>1
    <3>3. \A m \in 1 .. n - 1 : m \in 1 .. n
      BY <1>1
    <3> QED BY <1>1, <3>1, <3>2, <3>3 DEF Final
  <2>2. ASSUME Final(p, j) PROVE Final(p, j)'
    <3>1. /\ j \in 1 .. n - 1 /\ emitted[j].rec = p
          /\ \A m \in 1 .. n - 1 : m > j => emitted[m].rec > p
      BY <1>1, <2>2 DEF Final
    <3>2. j \in 1 .. n
      BY <1>1, <3>1
    <3>3. i > p
      BY <1>3
    <3> QED BY <1>1, <1>2, <3>1, <3>2, <3>3 DEF Final
  <2> QED BY <2>1, <2>2
<1>4. ASSUME NEW j PROVE Final(i, j)' <=> j = n
  <2>1. ASSUME Final(i, j)' PROVE j = n
    <3>1. j \in 1 .. n /\ \A m \in 1 .. n : m > j => emitted'[m].rec > i
      BY <1>1, <2>1 DEF Final
    <3>2. ~ (i > i)
      OBVIOUS
    <3>3. ~ (n > j)
      BY <1>1, <1>2, <3>1, <3>2
    <3> QED BY <1>1, <3>1, <3>3
  <2>2. ASSUME j = n PROVE Final(i, j)'
    <3>1. n \in 1 .. n /\ \A m \in 1 .. n : ~ (m > n)
      BY <1>1
    <3> QED BY <1>1, <2>2, <3>1 DEF Final
  <2> QED BY <2>1, <2>2
<1> QED BY <1>3, <1>4

(* A record emitted is the last of all up to it. *)
LEMMA InOrderEmitted ==
  ASSUME NEW c, NEW i \in Nat, NEW n, Emits(c, i, n), NEW l \in Nat, i = l + 1,
         \A m \in 1 .. l : \E j \in DOMAIN emitted : Final(m, j)
  PROVE  \A m \in 1 .. i : \E j \in DOMAIN emitted' : Final(m, j)'
<1>1. DOMAIN emitted' = 1 .. n /\ DOMAIN emitted = 1 .. n - 1 /\ n \in Nat /\ n > 0
  BY DEF Emits
<1> SUFFICES ASSUME NEW m \in 1 .. i PROVE \E j \in DOMAIN emitted' : Final(m, j)'
  OBVIOUS
<1>2. CASE m = i
  <2>1. Final(m, n)' /\ n \in DOMAIN emitted'
    BY <1>1, <1>2, FinalEmitted
  <2> QED BY <2>1
<1>3. CASE m # i
  <2>1. m \in 1 .. l /\ m \in Nat /\ m < i
    BY <1>3
  <2>2. PICK j \in DOMAIN emitted : Final(m, j)
    BY <2>1
  <2>3. Final(m, j)' <=> Final(m, j)
    BY <2>1, FinalEmitted
  <2>4. j \in 1 .. n
    BY <1>1, <2>2
  <2> QED BY <1>1, <2>2, <2>3, <2>4
<1> QED BY <1>2, <1>3

(* What is emitted is emitted of its record. *)
LEMMA ContentEmitted ==
  ASSUME NEW c, NEW d, NEW i, NEW n, Taken(c, d, i), Emits(c, i, n), Content
  PROVE  Content'
<1>1. /\ log' = log /\ DOMAIN emitted' = 1 .. n /\ DOMAIN emitted = 1 .. n - 1
      /\ \A j \in 1 .. n - 1 : emitted'[j] = emitted[j]
      /\ emitted'[n].rec = i /\ emitted'[n].events = EventsOf(c, i)
      /\ \A j \in 1 .. n : j = n \/ (j \in 1 .. n - 1 /\ j \in DOMAIN emitted)
  BY DEF Emits
<1>2. i \in DOMAIN log /\ log \in Seq(Records)
  BY TakenIs DEF Taken
<1> SUFFICES ASSUME NEW j \in 1 .. n, NEW m, m = emitted'[j].rec
             PROVE  /\ \A e \in emitted'[j].events :
                         /\ e.about = "step" => /\ log[m].type = e.kind /\ log[m].key = e.key
                                                /\ e.kind \in StepTypes
                         /\ e.kind = "step_start" => log[m].type = "step_start" /\ log[m].key = e.key
                         /\ e.about = "asset" => log[m].type \in AssetTypes \cup RunEnds
                    /\ IncludeAssets /\ log[m].type \in AssetTypes =>
                         emitted'[j].events = AssetEvents(log[m])
  BY <1>1 DEF Content
<1>3. CASE j \in 1 .. n - 1
  BY <1>1, <1>3 DEF Content
<1>4. CASE j = n
  <2>1. m = i /\ emitted'[j].events = EventsOf(c, i)
    BY <1>1, <1>4
  <2>2. ASSUME NEW e \in EventsOf(c, i)
        PROVE  /\ e.about = "step" => /\ log[i].type = e.kind /\ log[i].key = e.key
                                      /\ e.kind \in StepTypes
               /\ e.kind = "step_start" => log[i].type = "step_start" /\ log[i].key = e.key
               /\ e.about = "asset" => log[i].type \in AssetTypes \cup RunEnds
    <3>1. {"step_start"} \cup StepEnds \subseteq StepTypes
      BY DEF StepTypes
    <3>2. e.about = "step" => /\ log[i].type = e.kind /\ log[i].key = e.key
                              /\ log[i].type \in {"step_start"} \cup StepEnds
      BY <1>2, EventsAre
    <3>3. e.kind = "step_start" => log[i].type = "step_start" /\ log[i].key = e.key
      BY <1>2, EventsAre
    <3>4. e.about = "asset" => log[i].type \in AssetTypes \/ log[i].type \in RunEnds
      BY <1>2, EventsAre
    <3> QED BY <3>1, <3>2, <3>3, <3>4
  <2>3. IncludeAssets /\ log[i].type \in AssetTypes => EventsOf(c, i) = AssetEvents(log[i])
    BY <1>2, EventsInclude
  <2> QED BY <2>1, <2>2, <2>3
<1> QED BY <1>1, <1>3, <1>4

(* What was emitted stays what was emitted of its record. *)
LEMMA ContentLogged ==
  ASSUME Content, InLog, NEW rec, Grown(rec), UNCHANGED emitted
  PROVE  Content'
<1>1. \A h \in DOMAIN log : log'[h] = log[h]
  BY LogGrows DEF Grown
<1> SUFFICES ASSUME NEW j \in DOMAIN emitted, NEW m, m = emitted[j].rec
             PROVE  /\ \A e \in emitted[j].events :
                         /\ e.about = "step" => /\ log'[m].type = e.kind /\ log'[m].key = e.key
                                                /\ e.kind \in StepTypes
                         /\ e.kind = "step_start" => log'[m].type = "step_start" /\ log'[m].key = e.key
                         /\ e.about = "asset" => log'[m].type \in AssetTypes \cup RunEnds
                    /\ IncludeAssets /\ log'[m].type \in AssetTypes =>
                         emitted[j].events = AssetEvents(log'[m])
  BY DEF Content
<1>2. log'[m] = log[m]
  BY <1>1 DEF InLog
<1> QED BY <1>2 DEF Content

------------------------------------------------------------------------------
(* The step run ids: what the entry holds is what the start was sent with. *)
Open(c, r, p, k) ==
  /\ r \in Runs /\ Alive(c, r) /\ p \in 1 .. c.last /\ k \in Steps
  /\ Of(p, r, k, {"step_start"}) /\ ~ Did(r, k, StepEnds, c.last)

Sent(c, r, p, k) ==
  /\ Known(c, r) /\ c.entry[r].steps[k] # 0
  /\ \A j \in DOMAIN emitted : Final(p, j) =>
       Says(j, Emission("step", "step_start", k, c.entry[r].steps[k], c.entry[r].repo))

(* Taking in a record that is not the step's start keeps the step's id in  *)
(* the entry.                                                              *)
LEMMA IdsKept ==
  ASSUME NEW c, NEW d, NEW i, Taken(c, d, i), Ids(c),
         NEW r, NEW p, NEW k, Open(d, r, p, k), p # i
  PROVE  /\ Sent(c, r, p, k) /\ Known(d, r)
         /\ d.entry[r].steps[k] = c.entry[r].steps[k] /\ d.entry[r].repo = c.entry[r].repo
<1>1. PICK y : y = log[i].run
  OBVIOUS
<1>2. /\ c.last \in Nat /\ i = c.last + 1 /\ i \in DOMAIN log
      /\ \A m : m \in 1 .. i <=> m = i \/ m \in 1 .. c.last
      /\ \A m : m \in 1 .. d.last => m \in 1 .. i
      /\ \A m : m \in 1 .. i => m \in DOMAIN log
      /\ d.last \in Nat /\ c.last <= d.last /\ i \in 1 .. i
  BY TakenIs DEF Taken
<1>3. /\ Others(c, d, y)
      /\ log[i].type \notin RunEnds =>
           /\ Kept(c, d, y)
           /\ \A s \in Steps : d.entry[y].steps[s] = StepId(c, i, s)
      /\ d.last = i \/ (d.last = c.last /\ log[i].type \in AssetTypes)
      /\ Lives
  BY <1>1 DEF Taken, Took
<1>4. /\ r \in Runs /\ Alive(d, r) /\ p \in 1 .. d.last /\ k \in Steps
      /\ Of(p, r, k, {"step_start"}) /\ ~ Did(r, k, StepEnds, d.last)
  BY DEF Open
<1>5. Alive(c, r) /\ (r = y => log[i].type \notin RunEnds)
  BY <1>1, <1>4, AliveTook
<1>6. p \in 1 .. c.last /\ p \in DOMAIN log
  BY <1>2, <1>4
<1>7. ~ Did(r, k, StepEnds, c.last)
  <2>1. \A m \in 1 .. c.last : m \in 1 .. d.last
    BY <1>2
  <2> QED BY <1>4, <2>1 DEF Did
<1>8. Sent(c, r, p, k)
  BY <1>4, <1>5, <1>6, <1>7 DEF Ids, Sent
<1>9. CASE r # y
  BY <1>3, <1>4, <1>8, <1>9 DEF Others, Sent
<1>10. CASE r = y
  <2>1. /\ Known(d, r) /\ d.entry[r].repo = c.entry[r].repo
        /\ d.entry[r].steps[k] = StepId(c, i, k)
    BY <1>3, <1>4, <1>5, <1>8, <1>10 DEF Kept, Sent
  <2>2. k = log[i].key => log[i].type # "step_start"
    <3> SUFFICES ASSUME k = log[i].key, log[i].type = "step_start" PROVE FALSE
      OBVIOUS
    <3>1. log[p].run = log[i].run /\ log[p].key = log[i].key /\ log[p].type = "step_start"
      BY <1>1, <1>4, <1>10 DEF Of
    <3>2. p = i
      BY <1>2, <1>3, <1>6, <3>1 DEF Lives
    <3> QED BY <3>2
  <2>3. k = log[i].key => log[i].type \notin StepEnds
    <3> SUFFICES ASSUME k = log[i].key, log[i].type \in StepEnds PROVE FALSE
      OBVIOUS
    <3>1. d.last = i
      BY <1>3 DEF StepEnds, AssetTypes
    <3>2. Of(i, r, k, StepEnds)
      BY <1>1, <1>10 DEF Of
    <3> QED BY <1>2, <1>4, <3>1, <3>2 DEF Did
  <2>4. StepId(c, i, k) = c.entry[r].steps[k]
    BY <1>1, <1>10, <2>2, <2>3 DEF StepId
  <2> QED BY <1>8, <2>1, <2>4
<1> QED BY <1>9, <1>10

(* A handler that raised has sent nothing. *)
LEMMA IdsTook ==
  ASSUME NEW c, NEW d, NEW i, Taken(c, d, i), Ids(c), d.last = c.last
  PROVE  Ids(d)
<1>1. \A r, p, k : Open(d, r, p, k) => Sent(d, r, p, k)
  <2> SUFFICES ASSUME NEW r, NEW p, NEW k, Open(d, r, p, k) PROVE Sent(d, r, p, k)
    OBVIOUS
  <2>1. p \in 1 .. c.last /\ c.last \in Nat /\ i = c.last + 1
    BY TakenIs DEF Open
  <2>2. p # i
    BY <2>1
  <2>3. /\ Sent(c, r, p, k) /\ Known(d, r)
        /\ d.entry[r].steps[k] = c.entry[r].steps[k] /\ d.entry[r].repo = c.entry[r].repo
    BY <2>2, IdsKept
  <2> QED BY <2>3 DEF Sent
<1> QED BY <1>1 DEF Ids, Open, Sent

(* A step's start is sent under the id the entry is given; the other open  *)
(* steps keep theirs.                                                      *)
LEMMA IdsEmitted ==
  ASSUME NEW c, NEW d, NEW i, NEW n, Taken(c, d, i), Emits(c, i, n), Ids(c), uuids \in Nat
  PROVE  Ids(d)'
<1>1. /\ c.last \in Nat /\ i \in Nat /\ i = c.last + 1 /\ i \in DOMAIN log
      /\ \A m : m \in 1 .. i <=> m = i \/ m \in 1 .. c.last
      /\ \A m : m \in 1 .. d.last => m \in 1 .. i
      /\ log \in Seq(Records) /\ log[i].run \in Runs
  BY TakenIs DEF Taken
<1>2. /\ log' = log /\ evicted' = evicted /\ DOMAIN emitted' = 1 .. n /\ DOMAIN emitted = 1 .. n - 1
      /\ \A j \in 1 .. n - 1 : emitted'[j] = emitted[j]
      /\ emitted'[n].rec = i /\ emitted'[n].events = EventsOf(c, i)
  BY DEF Emits
<1>3. \A r, p, k : Open(d, r, p, k)' <=> Open(d, r, p, k)
  BY <1>2 DEF Open, Alive, Ended, Of, Did
<1>4. \A r, p, k : Open(d, r, p, k) => Sent(d, r, p, k)'
  <2> SUFFICES ASSUME NEW r, NEW p, NEW k, Open(d, r, p, k) PROVE Sent(d, r, p, k)'
    OBVIOUS
  <2>1. PICK e : e = Emission("step", "step_start", k, d.entry[r].steps[k], d.entry[r].repo)
    OBVIOUS
  <2>2. Known(d, r)' <=> Known(d, r)
    BY DEF Known
  <2>3. CASE p # i
    <3>1. /\ Sent(c, r, p, k) /\ Known(d, r)
          /\ d.entry[r].steps[k] = c.entry[r].steps[k] /\ d.entry[r].repo = c.entry[r].repo
      BY <2>3, IdsKept
    <3>2. p \in Nat /\ p < i
      BY <1>1, <2>3 DEF Open
    <3>3. ASSUME NEW j \in DOMAIN emitted', Final(p, j)' PROVE Says(j, e)'
      <4>1. Final(p, j)' <=> Final(p, j)
        BY <1>1, <3>2, FinalEmitted
      <4>2. j \in DOMAIN emitted /\ Final(p, j)
        BY <3>3, <4>1 DEF Final
      <4>3. e \in emitted[j].events
        BY <2>1, <3>1, <4>2 DEF Sent, Says
      <4> QED BY <1>2, <4>2, <4>3 DEF Says
    <3>4. d.entry[r].steps[k] # 0
      BY <3>1 DEF Sent
    <3> QED BY <2>1, <2>2, <3>1, <3>3, <3>4 DEF Sent
  <2>4. CASE p = i
    <3>1. log[i].run = r /\ log[i].key = k /\ log[i].type = "step_start" /\ k \in Steps /\ r \in Runs
      BY <2>4 DEF Open, Of
    <3>2. log[i].type \notin RunEnds /\ log[i].type \notin AssetTypes
      BY <3>1 DEF RunEnds, AssetTypes
    <3>3. /\ Known(d, r) /\ Kept(c, d, r) /\ (~ Known(c, r) => d.entry[r].repo = Named(i))
          /\ d.entry[r].steps[k] = StepId(c, i, k) /\ Ordered(c)
      BY <3>1, <3>2 DEF Taken, Took
    <3>4. StepId(c, i, k) = StepRunId(c, log[i])
      BY <3>1 DEF StepId
    <3>5. StepRunId(c, log[i]) # 0
      <4>1. uuids + 1 # 0
        OBVIOUS
      <4> QED BY <4>1 DEF StepRunId
    <3>6. RepositoryName(c, r) = IF Known(c, r) THEN c.entry[r].repo ELSE TRUE
      <4>1. TRUE \in BOOLEAN
        OBVIOUS
      <4> QED BY <3>1, <3>3, <4>1, RunningIs DEF RepositoryName
    <3>7. d.entry[r].repo = RepositoryName(c, r)
      <4>1. Named(i) = TRUE
        BY <3>2 DEF Named
      <4> QED BY <3>3, <3>6, <4>1 DEF Kept
    <3>8. Emission("step", log[i].type, k, StepRunId(c, log[i]), RepositoryName(c, r)) \in EventsOf(c, i)
      BY <1>1, <3>1, EventsInclude
    <3>9. e \in EventsOf(c, i)
      BY <2>1, <3>1, <3>3, <3>4, <3>7, <3>8
    <3>10. ASSUME NEW j \in DOMAIN emitted', Final(p, j)' PROVE Says(j, e)'
      <4>1. j = n
        BY <1>1, <2>4, <3>10, FinalEmitted
      <4> QED BY <1>2, <3>9, <4>1 DEF Says
    <3> QED BY <2>1, <2>2, <3>3, <3>4, <3>5, <3>10 DEF Sent
  <2> QED BY <2>3, <2>4
<1> QED BY <1>3, <1>4 DEF Ids, Open, Sent

(* The other cursor's ids are not touched. *)
LEMMA IdsStay ==
  ASSUME NEW c, NEW b, NEW i \in Nat, NEW n, Emits(c, i, n), Ids(b), b.last < i, b.last \in Nat
  PROVE  Ids(b)'
<1>1. /\ log' = log /\ evicted' = evicted /\ DOMAIN emitted' = 1 .. n /\ DOMAIN emitted = 1 .. n - 1
      /\ \A j \in 1 .. n - 1 : emitted'[j] = emitted[j]
  BY DEF Emits
<1>2. \A r, p, k : Open(b, r, p, k)' <=> Open(b, r, p, k)
  BY <1>1 DEF Open, Alive, Ended, Of, Did
<1>3. \A r, p, k : Open(b, r, p, k) => Sent(b, r, p, k)
  BY DEF Ids, Open, Sent
<1>4. \A r, p, k : Open(b, r, p, k) => Sent(b, r, p, k)'
  <2> SUFFICES ASSUME NEW r, NEW p, NEW k, Open(b, r, p, k) PROVE Sent(b, r, p, k)'
    OBVIOUS
  <2>1. PICK e : e = Emission("step", "step_start", k, b.entry[r].steps[k], b.entry[r].repo)
    OBVIOUS
  <2>2. Known(b, r)' <=> Known(b, r)
    BY DEF Known
  <2>3. Sent(b, r, p, k)
    BY <1>3
  <2>4. p \in Nat /\ p < i
    BY DEF Open
  <2>5. ASSUME NEW j \in DOMAIN emitted', Final(p, j)' PROVE Says(j, e)'
    <3>1. Final(p, j)' <=> Final(p, j)
      BY <2>4, FinalEmitted
    <3>2. j \in DOMAIN emitted /\ Final(p, j)
      BY <2>5, <3>1 DEF Final
    <3>3. e \in emitted[j].events
      BY <2>1, <2>3, <3>2 DEF Sent, Says
    <3> QED BY <1>1, <3>2, <3>3 DEF Says
  <2> QED BY <2>1, <2>2, <2>3, <2>5 DEF Sent
<1> QED BY <1>2, <1>4 DEF Ids, Open, Sent

(* Trimming keeps the ids of the runs that stay. *)
LEMMA IdsTrimmed ==
  ASSUME NEW c, NEW d, Trims(c, d), Ids(c), UNCHANGED <<log, emitted>>,
         evicted' = evicted \cup Evicted(c)
  PROVE  Ids(d)'
<1>1. \A r \in Runs : Alive(d, r)' => Alive(c, r) /\ (Known(d, r) <=> Known(c, r))
                                        /\ d.entry[r] = c.entry[r]
  BY DEF Alive, Ended, Trims
<1>2. d.last = c.last
  BY DEF Trims
<1>3. \A r : Known(d, r)' <=> Known(d, r)
  BY DEF Known
<1>4. /\ \A p, r, k, T : (Of(p, r, k, T)' <=> Of(p, r, k, T)) /\ (Did(r, k, T, p)' <=> Did(r, k, T, p))
      /\ \A p, j : (Final(p, j)' <=> Final(p, j)) /\ (Says(j, p)' <=> Says(j, p))
      /\ emitted' = emitted
  BY DEF Of, Did, Final, Says
<1> HIDE DEF Evicted
<1> QED BY <1>1, <1>2, <1>3, <1>4 DEF Ids

(* A record that is logged neither opens nor closes a step behind the      *)
(* cursor.                                                                 *)
LEMMA IdsLogged ==
  ASSUME NEW c, Ordered(c), Ids(c), c.last <= Len(log),
         NEW rec, Grown(rec), UNCHANGED <<emitted, evicted>>
  PROVE  Ids(c)'
<1>1. PICK m : m = c.last
  OBVIOUS
<1>2. /\ Len(log) \in Nat /\ DOMAIN log = 1 .. Len(log)
      /\ \A h \in DOMAIN log : log'[h] = log[h]
  BY LogGrows DEF Grown
<1>3. m \in 0 .. Len(log) /\ m \in Nat /\ \A p \in 1 .. m : p \in DOMAIN log
  BY <1>1, <1>2 DEF Ordered, Cursors
<1>4. \A r, k, T : (Did(r, k, T, m)' <=> Did(r, k, T, m)) /\ (Ended(r, m)' <=> Ended(r, m))
  BY <1>3, LogSays DEF Grown
<1>5. \A r : (Alive(c, r)' <=> Alive(c, r)) /\ (Known(c, r)' <=> Known(c, r))
  BY <1>1, <1>4 DEF Alive, Known
<1>6. \A p, r, k, T : p \in 1 .. m => (Of(p, r, k, T)' <=> Of(p, r, k, T))
  BY <1>2, <1>3 DEF Of
<1>7. /\ \A p, j : (Final(p, j)' <=> Final(p, j)) /\ (Says(j, p)' <=> Says(j, p))
      /\ emitted' = emitted
  BY DEF Final, Says
<1> QED BY <1>1, <1>4, <1>5, <1>6, <1>7 DEF Ids

------------------------------------------------------------------------------
(* StepRunsMatch, of emission j about record m of run r. *)
Matches(j, r, e) ==
  \E g \in 1 .. j - 1 :
    /\ log[emitted[g].rec].run = r
    /\ Says(g, [e EXCEPT !.kind = "step_start"])
    /\ \A q \in g + 1 .. j - 1 : log[emitted[q].rec].run = r =>
         \A f \in emitted[q].events : f.key = e.key => f.kind # "step_start"

StepsSaid ==
  \A j \in DOMAIN emitted : \A m, r :
    m = emitted[j].rec /\ r = log[m].run /\ r \notin evicted /\ ~ Late(m) =>
      \A e \in emitted[j].events : e.about = "step" /\ e.kind \in StepEnds => Matches(j, r, e)

(* A start that was sent before an emission stays so when more is emitted  *)
(* or logged.                                                              *)
LEMMA MatchesStays ==
  ASSUME NEW n \in Nat, \A q \in 1 .. n - 1 : emitted'[q] = emitted[q],
         \A q \in 1 .. n - 1 : log'[emitted[q].rec].run = log[emitted[q].rec].run,
         NEW j \in 1 .. n, NEW r, NEW e, Matches(j, r, e)
  PROVE  Matches(j, r, e)'
<1>1. PICK x : x = [e EXCEPT !.kind = "step_start"]
  OBVIOUS
<1>2. PICK g \in 1 .. j - 1 :
        /\ log[emitted[g].rec].run = r
        /\ x \in emitted[g].events
        /\ \A q \in g + 1 .. j - 1 : log[emitted[q].rec].run = r =>
             \A f \in emitted[q].events : f.key = e.key => f.kind # "step_start"
  BY <1>1 DEF Matches, Says
<1>3. \A q \in 1 .. j - 1 : q \in 1 .. n - 1
  OBVIOUS
<1>4. \A q \in g + 1 .. j - 1 : q \in 1 .. j - 1
  OBVIOUS
<1>5. log'[emitted'[g].rec].run = r /\ x \in emitted'[g].events
  BY <1>2, <1>3
<1>6. \A q \in g + 1 .. j - 1 : log'[emitted'[q].rec].run = r =>
        \A f \in emitted'[q].events : f.key = e.key => f.kind # "step_start"
  BY <1>2, <1>3, <1>4
<1> QED BY <1>1, <1>5, <1>6 DEF Matches, Says

(* The end of a step is sent under the id of its latest start. *)
LEMMA StepsSaidEmitted ==
  ASSUME NEW c, NEW d, NEW i, NEW n, Taken(c, d, i), Emits(c, i, n), Ids(c), Content, InLog,
         \A m \in 1 .. c.last : \E j \in DOMAIN emitted : Final(m, j), StepsSaid
  PROVE  StepsSaid'
<1>1. /\ log' = log /\ evicted' = evicted /\ DOMAIN emitted' = 1 .. n /\ DOMAIN emitted = 1 .. n - 1
      /\ n \in Nat /\ n > 0
      /\ \A j \in 1 .. n - 1 : emitted'[j] = emitted[j]
      /\ emitted'[n].rec = i /\ emitted'[n].events = EventsOf(c, i)
      /\ \A j \in 1 .. n : j = n \/ (j \in 1 .. n - 1 /\ j \in DOMAIN emitted)
  BY DEF Emits
<1>2. /\ c.last \in Nat /\ i \in Nat /\ i = c.last + 1 /\ i \in DOMAIN log /\ log[i].run \in Runs
      /\ \A m : m \in 1 .. i <=> m = i \/ m \in 1 .. c.last
      /\ \A m : m \in 1 .. i => m \in DOMAIN log
      /\ log \in Seq(Records) /\ Lives /\ Ordered(c)
  BY TakenIs DEF Taken
<1>3. \A m : Late(m)' <=> Late(m)
  BY <1>1 DEF Late
<1> SUFFICES ASSUME NEW j \in 1 .. n, NEW m, m = emitted'[j].rec,
                    NEW r, r = log[m].run, r \notin evicted, ~ Late(m)',
                    NEW e \in emitted'[j].events, e.about = "step", e.kind \in StepEnds
             PROVE  Matches(j, r, e)'
  BY <1>1 DEF StepsSaid
<1>4. Matches(j, r, e) => Matches(j, r, e)'
  BY <1>1, MatchesStays
<1>5. CASE j \in 1 .. n - 1
  <2>1. Matches(j, r, e)
    BY <1>1, <1>3, <1>5 DEF StepsSaid
  <2> QED BY <1>4, <2>1
<1>6. CASE j = n
  <2>1. m = i /\ r = log[i].run /\ e \in EventsOf(c, i) /\ r \in Runs
    BY <1>1, <1>2, <1>6
  <2>y. PICK y, k : y = log[i].type /\ k = log[i].key
    OBVIOUS
  <2>2. /\ e = Emission("step", y, k, StepRunId(c, log[i]), RepositoryName(c, r))
        /\ e.kind = y /\ e.key = k
    BY <1>2, <2>1, <2>y, EventsAre
  <2>3. y \in StepEnds /\ k \in Steps
    <3>1. log[i] \in Records
      BY <1>2
    <3>2. y \notin RunTypes
      BY <2>2 DEF RunTypes, RunEnds, StepEnds
    <3> QED BY <2>2, <2>y, <3>1, <3>2, RecordsAre
  <2>4. Did(r, k, {"step_start"}, i - 1)
    BY <1>2, <2>1, <2>3, <2>y DEF Lives
  <2>5. PICK p \in 1 .. c.last : Of(p, r, k, {"step_start"})
    <3>1. i - 1 = c.last
      BY <1>2
    <3> QED BY <2>4, <3>1 DEF Did
  <2>6. Alive(c, r)
    <3>1. \A q \in 1 .. c.last : q \in 1 .. i - 1
      BY <1>2
    <3> QED BY <1>3, <2>1, <3>1 DEF Late, Alive, Ended
  <2>7. ~ Did(r, k, StepEnds, c.last)
    <3> SUFFICES ASSUME NEW q \in 1 .. c.last, Of(q, r, k, StepEnds) PROVE FALSE
      BY DEF Did
    <3>1. q \in DOMAIN log /\ q # i
      BY <1>2
    <3>2. q = i
      BY <1>2, <2>1, <2>3, <2>y, <3>1 DEF Of, Lives
    <3> QED BY <3>1, <3>2
  <2>8. Sent(c, r, p, k)
    BY <2>1, <2>3, <2>5, <2>6, <2>7 DEF Ids, Sent
  <2>9. PICK g \in DOMAIN emitted : Final(p, g)
    OBVIOUS
  <2>x. PICK x : x = Emission("step", "step_start", k, c.entry[r].steps[k], c.entry[r].repo)
    OBVIOUS
  <2>10. x \in emitted[g].events
    BY <2>8, <2>9, <2>x DEF Sent, Says
  <2>11. [e EXCEPT !.kind = "step_start"] = x
    <3>1. Known(c, r) /\ c.entry[r].steps[k] # 0
      BY <2>8 DEF Sent
    <3>2. Running(c, r, TRUE) = c.entry[r]
      BY <3>1 DEF Running
    <3>3. StepRunId(c, log[i]) = c.entry[r].steps[k]
      BY <2>1, <2>y, <3>1, <3>2 DEF StepRunId
    <3>4. RepositoryName(c, r) = c.entry[r].repo
      BY <3>2 DEF RepositoryName
    <3>v. PICK v, w : v = c.entry[r].steps[k] /\ w = c.entry[r].repo
      OBVIOUS
    <3>5. e = [about |-> "step", kind |-> y, key |-> k, id |-> v, repo |-> w]
      BY <2>2, <3>3, <3>4, <3>v DEF Emission
    <3>6. x = [about |-> "step", kind |-> "step_start", key |-> k, id |-> v, repo |-> w]
      BY <2>x, <3>v DEF Emission
    <3> QED BY <3>5, <3>6
  <2>12. g \in 1 .. n - 1 /\ emitted[g].rec = p
         /\ \A q \in DOMAIN emitted : q > g => emitted[q].rec > p
    BY <1>1, <2>9 DEF Final
  <2>13. log[p].run = r /\ log[p].key = k /\ log[p].type = "step_start" /\ p \in DOMAIN log
    BY <1>2, <2>5 DEF Of
  <2>14. ASSUME NEW q \in g + 1 .. n - 1, log[emitted[q].rec].run = r,
                NEW f \in emitted[q].events, f.key = e.key
         PROVE  f.kind # "step_start"
    <3>1. q \in DOMAIN emitted /\ q > g
      BY <1>1, <2>12
    <3>2. emitted[q].rec > p /\ emitted[q].rec \in DOMAIN log
      BY <2>12, <3>1 DEF InLog
    <3> SUFFICES ASSUME f.kind = "step_start" PROVE FALSE
      OBVIOUS
    <3>3. log[emitted[q].rec].type = "step_start" /\ log[emitted[q].rec].key = k
      BY <2>2, <2>14, <3>1 DEF Content
    <3>4. emitted[q].rec = p
      BY <1>2, <2>13, <2>14, <3>2, <3>3 DEF Lives
    <3>5. ~ (p > p)
      BY <1>2
    <3> QED BY <3>2, <3>4, <3>5
  <2>15. Matches(n, r, e)
    BY <2>10, <2>11, <2>12, <2>13, <2>14 DEF Matches, Says
  <2> QED BY <1>4, <1>6, <2>15
<1> QED BY <1>1, <1>5, <1>6

(* A record that is logged changes no emission and no step's end behind    *)
(* it.                                                                     *)
LEMMA StepsSaidLogged ==
  ASSUME StepsSaid, InLog, NEW rec, Grown(rec), UNCHANGED <<emitted, evicted>>,
         NEW n \in Nat, DOMAIN emitted = 1 .. n - 1
  PROVE  StepsSaid'
<1>1. /\ Len(log) \in Nat /\ DOMAIN log = 1 .. Len(log)
      /\ \A h \in DOMAIN log : log'[h] = log[h]
  BY LogGrows DEF Grown
<1>2. emitted' = emitted /\ evicted' = evicted
  OBVIOUS
<1> SUFFICES ASSUME NEW j \in DOMAIN emitted, NEW m, m = emitted[j].rec,
                    NEW r, r = log'[m].run, r \notin evicted, ~ Late(m)',
                    NEW e \in emitted[j].events, e.about = "step", e.kind \in StepEnds
             PROVE  Matches(j, r, e)'
  BY <1>2 DEF StepsSaid
<1>3. m \in DOMAIN log /\ r = log[m].run /\ \A g \in 1 .. m - 1 : g \in DOMAIN log
  BY <1>1 DEF InLog
<1>4. ~ Late(m)
  BY <1>1, <1>3 DEF Late
<1>5. Matches(j, r, e)
  BY <1>3, <1>4 DEF StepsSaid
<1>6. j \in 1 .. n
  OBVIOUS
<1>7. \A q \in 1 .. n - 1 : /\ emitted'[q] = emitted[q]
                            /\ log'[emitted[q].rec].run = log[emitted[q].rec].run
  BY <1>1, <1>2 DEF InLog
<1> QED BY <1>5, <1>6, <1>7, MatchesStays

(* Nor does a change of the cursors. *)
LEMMA StepsSaidStays ==
  ASSUME StepsSaid, UNCHANGED <<log, emitted>>, evicted \subseteq evicted'
  PROVE  StepsSaid'
<1>1. \A j, r, e : Matches(j, r, e)' <=> Matches(j, r, e)
  BY DEF Matches, Says
<1> QED BY <1>1 DEF StepsSaid, Late

(* StepsSaid is the property StepRunsMatch, with the record and the run of *)
(* an emission named.                                                      *)
LEMMA StepsSaidMatch ==
  ASSUME StepsSaid
  PROVE  StepRunsMatch
BY DEF StepsSaid, StepRunsMatch, Matches, RunOf

------------------------------------------------------------------------------
(* The planned assets: what the entry holds is what still waits for an outcome. *)
LEMMA PendingTook ==
  ASSUME NEW c, NEW d, NEW i, Taken(c, d, i), NEW r, NEW k
  PROVE  /\ ~ Of(i, r, k, {"planned"} \cup Outcome) => (Pending(r, k, i) <=> Pending(r, k, c.last))
         /\ Of(i, r, k, {"planned"}) => Pending(r, k, i)
         /\ Of(i, r, k, Outcome) => ~ Pending(r, k, i)
<1>1. /\ \A m : m \in 1 .. i <=> m = i \/ m \in 1 .. c.last
      /\ \A m : m \in 1 .. i => m \in DOMAIN log
      /\ i \in 1 .. i /\ i \in DOMAIN log /\ i \in Nat
  BY TakenIs
<1>2. ~ Of(i, r, k, {"planned"} \cup Outcome) => (Pending(r, k, i) <=> Pending(r, k, c.last))
  <2> SUFFICES ASSUME ~ Of(i, r, k, {"planned"} \cup Outcome)
               PROVE  Pending(r, k, i) <=> Pending(r, k, c.last)
    OBVIOUS
  <2>1. ~ Of(i, r, k, {"planned"}) /\ ~ Of(i, r, k, Outcome)
    BY DEF Of
  <2>2. Did(r, k, {"planned"}, i) <=> Did(r, k, {"planned"}, c.last)
    BY <1>1, <2>1 DEF Did
  <2>3. Did(r, k, Outcome, i) <=> Did(r, k, Outcome, c.last)
    BY <1>1, <2>1 DEF Did
  <2> QED BY <2>2, <2>3 DEF Pending
<1>3. ASSUME Of(i, r, k, {"planned"}) PROVE Pending(r, k, i)
  <2>1. Did(r, k, {"planned"}, i)
    BY <1>1, <1>3 DEF Did
  <2>2. ASSUME NEW q \in 1 .. i, Of(q, r, k, Outcome) PROVE FALSE
    <3>1. q \in DOMAIN log /\ q \in Nat
      BY <1>1
    <3>2. i < q
      BY <1>1, <1>3, <2>2, <3>1 DEF Of, Lives, Taken
    <3> QED BY <1>1, <3>1, <3>2
  <2> QED BY <2>1, <2>2 DEF Pending, Did
<1>4. ASSUME Of(i, r, k, Outcome) PROVE ~ Pending(r, k, i)
  BY <1>1, <1>4 DEF Pending, Did
<1> QED BY <1>2, <1>3, <1>4

(* Taking in a record keeps the entry's planned assets those that wait for *)
(* an outcome.                                                             *)
LEMMA PlansTook ==
  ASSUME NEW c, NEW d, NEW i, Taken(c, d, i), IncludeAssets, Plans(c)
  PROVE  Plans(d)
<1>1. PICK y : y = log[i].run
  OBVIOUS
<1>2. i = c.last + 1 /\ i \in DOMAIN log /\ c.last \in Nat
  BY TakenIs
<1>3. /\ Others(c, d, y)
      /\ log[i].type \notin RunEnds => \A k \in Steps : k \in d.entry[y].planned <=> Plan(c, i, k)
      /\ d.last = i \/ (d.last = c.last /\ log[i].type \in AssetTypes)
  BY <1>1 DEF Taken, Took
<1> SUFFICES ASSUME NEW r \in Runs, Alive(d, r), NEW k \in Steps
             PROVE  \/ k \in d.entry[r].planned <=> Pending(r, k, d.last)
                    \/ /\ d.last + 1 \in DOMAIN log /\ log[d.last + 1].type \in AssetTypes
                       /\ k \in d.entry[r].planned <=> Pending(r, k, d.last + 1)
  BY DEF Plans
<1>4. /\ r = y => log[i].type \notin RunEnds
      /\ \/ k \in c.entry[r].planned <=> Pending(r, k, c.last)
         \/ k \in c.entry[r].planned <=> Pending(r, k, i)
  BY <1>1, <1>2, AliveTook DEF Plans
<1>5. CASE r # y
  <2>1. d.entry[r] = c.entry[r]
    BY <1>3, <1>5 DEF Others
  <2>2. ~ Of(i, r, k, {"planned"} \cup Outcome)
    BY <1>1, <1>5 DEF Of
  <2>3. Pending(r, k, i) <=> Pending(r, k, c.last)
    BY <2>2, PendingTook
  <2> QED BY <1>3, <1>4, <2>1, <2>3
<1>6. CASE r = y
  <2>1. k \in d.entry[r].planned <=> Plan(c, i, k)
    BY <1>3, <1>4, <1>6
  <2>2. Plan(c, i, k) <=> Pending(r, k, i)
    <3>1. CASE ~ Of(i, r, k, {"planned"} \cup Outcome)
      <4>1. Pending(r, k, i) <=> Pending(r, k, c.last)
        BY <3>1, PendingTook
      <4>2. Plan(c, i, k) <=> k \in c.entry[r].planned
        BY <1>1, <1>6, <3>1 DEF Plan, Of
      <4> QED BY <1>4, <4>1, <4>2
    <3>2. CASE Of(i, r, k, {"planned"})
      <4>1. Pending(r, k, i)
        BY <3>2, PendingTook
      <4> QED BY <3>2, <4>1 DEF Plan, Of
    <3>3. CASE Of(i, r, k, Outcome)
      <4>1. ~ Pending(r, k, i)
        BY <3>3, PendingTook
      <4> QED BY <3>3, <4>1 DEF Plan, Of, Outcome
    <3> QED BY <3>1, <3>2, <3>3 DEF Of
  <2> QED BY <1>2, <1>3, <2>1, <2>2
<1> QED BY <1>5, <1>6

(* Trimming keeps the planned assets of the runs that stay. *)
LEMMA PlansTrimmed ==
  ASSUME NEW c, NEW d, Trims(c, d), Plans(c), UNCHANGED log,
         evicted' = evicted \cup Evicted(c)
  PROVE  Plans(d)'
<1>1. \A r \in Runs : Alive(d, r)' => Alive(c, r) /\ d.entry[r] = c.entry[r]
  BY DEF Alive, Ended, Trims
<1>2. d.last = c.last
  BY DEF Trims
<1>3. \A r, k, m : Pending(r, k, m)' <=> Pending(r, k, m)
  BY DEF Pending, Did, Of
<1> HIDE DEF Evicted
<1> QED BY <1>1, <1>2, <1>3 DEF Plans

(* A record that is logged is not behind the cursor. *)
LEMMA PlansLogged ==
  ASSUME NEW c, Ordered(c), Plans(c), c.last <= Len(log),
         NEW rec, Grown(rec), UNCHANGED evicted
  PROVE  Plans(c)'
<1>1. PICK m : m = c.last
  OBVIOUS
<1>2. /\ Len(log) \in Nat /\ DOMAIN log = 1 .. Len(log) /\ DOMAIN log' = 1 .. Len(log) + 1
      /\ \A h \in DOMAIN log : log'[h] = log[h]
  BY LogGrows DEF Grown
<1>3. m \in 0 .. Len(log) /\ m \in Nat
  BY <1>1, <1>2 DEF Ordered, Cursors
<1>4. \A r : (Ended(r, m)' <=> Ended(r, m)) /\ (Alive(c, r)' <=> Alive(c, r))
  <2>1. \A r : Ended(r, m)' <=> Ended(r, m)
    BY <1>3, LogSays DEF Grown
  <2> QED BY <1>1, <2>1 DEF Alive
<1>5. \A n \in 0 .. Len(log) : \A r, k : Pending(r, k, n)' <=> Pending(r, k, n)
  <2> SUFFICES ASSUME NEW n \in 0 .. Len(log), NEW r, NEW k
               PROVE  Pending(r, k, n)' <=> Pending(r, k, n)
    OBVIOUS
  <2>1. \A T : Did(r, k, T, n)' <=> Did(r, k, T, n)
    BY LogSays DEF Grown
  <2> QED BY <2>1 DEF Pending
<1> SUFFICES ASSUME NEW r \in Runs, Alive(c, r), NEW k \in Steps
             PROVE  \/ k \in c.entry[r].planned <=> Pending(r, k, m)'
                    \/ /\ m + 1 \in DOMAIN log' /\ log'[m + 1].type \in AssetTypes
                       /\ k \in c.entry[r].planned <=> Pending(r, k, m + 1)'
  BY <1>1, <1>4 DEF Plans
<1>6. \/ k \in c.entry[r].planned <=> Pending(r, k, m)
      \/ /\ m + 1 \in DOMAIN log /\ log[m + 1].type \in AssetTypes
         /\ k \in c.entry[r].planned <=> Pending(r, k, m + 1)
  BY <1>1 DEF Plans
<1>7. m + 1 \in DOMAIN log => m + 1 \in DOMAIN log' /\ m + 1 \in 0 .. Len(log)
  BY <1>2
<1> QED BY <1>2, <1>3, <1>5, <1>6, <1>7

(* A run's end reports as failed exactly the planned assets that still     *)
(* wait for an outcome.                                                    *)
LEMMA PlansSaidEmitted ==
  ASSUME NEW c, NEW d, NEW i, NEW n, Taken(c, d, i), Emits(c, i, n), IncludeAssets,
         Plans(c), PlansSaid
  PROVE  PlansSaid'
<1>1. /\ log' = log /\ evicted' = evicted /\ DOMAIN emitted' = 1 .. n /\ DOMAIN emitted = 1 .. n - 1
      /\ \A j \in 1 .. n - 1 : emitted'[j] = emitted[j]
      /\ emitted'[n].rec = i /\ emitted'[n].events = EventsOf(c, i)
      /\ \A j \in 1 .. n : j = n \/ (j \in 1 .. n - 1 /\ j \in DOMAIN emitted)
  BY DEF Emits
<1>2. /\ c.last \in Nat /\ i = c.last + 1 /\ i \in DOMAIN log /\ log[i].run \in Runs
      /\ \A m : m \in 1 .. i <=> m = i \/ m \in 1 .. c.last
      /\ \A m : m \in 1 .. i => m \in DOMAIN log
      /\ log \in Seq(Records) /\ Lives /\ Ordered(c)
  BY TakenIs DEF Taken
<1>3. \A r, k, m : Pending(r, k, m)' <=> Pending(r, k, m)
  BY <1>1 DEF Pending, Did, Of
<1> SUFFICES ASSUME NEW j \in 1 .. n, NEW m, m = emitted'[j].rec,
                    NEW r, r = log[m].run, r \notin evicted, log[m].type \in RunEnds
             PROVE  /\ \A k \in Steps : Pending(r, k, m) =>
                         Emission("asset", "not_materialized", k, 0, FALSE) \in emitted'[j].events
                    /\ \A e \in emitted'[j].events : e.about = "asset" =>
                         e.kind = "not_materialized" /\ Pending(r, e.key, m)
  BY <1>1, <1>3 DEF PlansSaid, Says
<1>4. CASE j \in 1 .. n - 1
  BY <1>1, <1>4 DEF PlansSaid, Says
<1>5. CASE j = n
  <2>1. m = i /\ r = log[i].run /\ emitted'[j].events = EventsOf(c, i) /\ r \in Runs
          /\ log[i].type \in RunEnds
    BY <1>1, <1>2, <1>5
  <2>2. log[i].type \notin AssetTypes /\ \A k : ~ Of(i, r, k, {"planned"} \cup Outcome)
    BY <2>1 DEF Of, RunEnds, Outcome, AssetTypes
  <2>3. Alive(c, r)
    <3> SUFFICES ASSUME NEW q \in 1 .. c.last, log[q].run = r, log[q].type \in RunEnds PROVE FALSE
      BY DEF Alive, Ended
    <3>1. q \in DOMAIN log /\ q # i
      BY <1>2
    <3> QED BY <1>2, <2>1, <3>1 DEF Lives
  <2>4. \A k \in Steps : k \in c.entry[r].planned <=> Pending(r, k, i)
    <3> SUFFICES ASSUME NEW k \in Steps PROVE k \in c.entry[r].planned <=> Pending(r, k, i)
      OBVIOUS
    <3>1. \/ k \in c.entry[r].planned <=> Pending(r, k, c.last)
          \/ k \in c.entry[r].planned <=> Pending(r, k, i)
      BY <1>2, <2>1, <2>3 DEF Plans
    <3>2. Pending(r, k, i) <=> Pending(r, k, c.last)
      BY <2>2, PendingTook
    <3> QED BY <3>1, <3>2
  <2>5. c.entry[r].planned \subseteq Steps /\ (~ Known(c, r) => c.entry[r].planned = {})
    <3>1. c.entry[r] \in Pipelines
      BY <1>2, <2>1 DEF Ordered, Cursors
    <3>2. ~ Known(c, r) => c.entry[r] = Pipeline(FALSE)
      BY <1>2, <2>1 DEF Ordered
    <3> QED BY SMTT(30), <3>1, <3>2 DEF Pipelines, Pipeline
  <2>6. ASSUME NEW k \in Steps, Pending(r, k, i)
        PROVE  Emission("asset", "not_materialized", k, 0, FALSE) \in EventsOf(c, i)
    <3>1. k \in c.entry[r].planned
      BY <2>4, <2>6
    <3> QED BY <1>2, <2>1, <2>5, <3>1, EventsInclude
  <2>7. ASSUME NEW e \in EventsOf(c, i), e.about = "asset"
        PROVE  e.kind = "not_materialized" /\ Pending(r, e.key, i)
    <3>1. e.kind = "not_materialized" /\ e.key \in c.entry[r].planned
      BY <1>2, <2>1, <2>2, <2>7, EventsAre
    <3> QED BY <2>4, <2>5, <3>1
  <2> QED BY <2>1, <2>6, <2>7
<1> QED BY <1>1, <1>4, <1>5

(* A record that is logged leaves what a run's end reported. *)
LEMMA PlansSaidLogged ==
  ASSUME PlansSaid, InLog, NEW rec, Grown(rec), UNCHANGED <<emitted, evicted>>
  PROVE  PlansSaid'
<1>1. /\ Len(log) \in Nat /\ DOMAIN log = 1 .. Len(log)
      /\ \A h \in DOMAIN log : log'[h] = log[h]
  BY LogGrows DEF Grown
<1>2. emitted' = emitted /\ evicted' = evicted
  OBVIOUS
<1> SUFFICES ASSUME NEW j \in DOMAIN emitted, NEW m, m = emitted[j].rec,
                    NEW r, r = log'[m].run, r \notin evicted, log'[m].type \in RunEnds
             PROVE  /\ \A k \in Steps : Pending(r, k, m)' =>
                         Emission("asset", "not_materialized", k, 0, FALSE) \in emitted[j].events
                    /\ \A e \in emitted[j].events : e.about = "asset" =>
                         e.kind = "not_materialized" /\ Pending(r, e.key, m)'
  BY <1>2 DEF PlansSaid, Says
<1>3. m \in DOMAIN log /\ r = log[m].run /\ log[m].type \in RunEnds /\ m \in 0 .. Len(log)
  BY <1>1 DEF InLog
<1>4. \A k : Pending(r, k, m)' <=> Pending(r, k, m)
  <2>1. \A k, T : Did(r, k, T, m)' <=> Did(r, k, T, m)
    BY <1>3, LogSays DEF Grown
  <2> QED BY <2>1 DEF Pending
<1> QED BY <1>3, <1>4 DEF PlansSaid, Says

(* So does a change of the cursors. *)
LEMMA PlansSaidStays ==
  ASSUME PlansSaid, UNCHANGED <<log, emitted>>, evicted \subseteq evicted'
  PROVE  PlansSaid'
<1>1. \A r, k, m : Pending(r, k, m)' <=> Pending(r, k, m)
  BY DEF Pending, Did, Of
<1> QED BY <1>1 DEF PlansSaid, Says

------------------------------------------------------------------------------
(* The runs active since a record: a run only leaves the cursor behind them. *)
LEMMA SinceIs ==
  ASSUME NEW l \in Nat, NEW c, c.last = l, NEW i \in Nat
  PROVE  IsFiniteSet(Since(c, i))
<1>1. PICK D : D = (i + 1 .. l + 1) \cap DOMAIN log
  OBVIOUS
<1>2. IsFiniteSet(D)
  <2>1. D \in SUBSET (i + 1 .. l + 1) /\ IsFiniteSet(i + 1 .. l + 1)
    BY <1>1, FS_Interval
  <2> QED BY <2>1, FS_Subset
<1>3. PICK f : f = [m \in D |-> log[m].run]
  OBVIOUS
<1>4. f \in Surjection(D, Since(c, i))
  BY <1>1, <1>3 DEF Since, Surjection
<1> QED BY <1>2, <1>4, FS_Surjection

(* More runs leave no fewer others than one. *)
LEMMA SinceGrows ==
  ASSUME NEW S, NEW T, IsFiniteSet(T), S \subseteq T, NEW r, NEW n \in Nat,
         Cardinality(S \ {r}) >= n
  PROVE  Cardinality(T \ {r}) >= n
<1>1. T \ {r} \in SUBSET T /\ S \ {r} \in SUBSET (T \ {r})
  OBVIOUS
<1>2. IsFiniteSet(T \ {r})
  BY <1>1, FS_Subset
<1>3. Cardinality(S \ {r}) <= Cardinality(T \ {r}) /\ IsFiniteSet(S \ {r})
  BY <1>1, <1>2, FS_Subset
<1>4. Cardinality(S \ {r}) \in Nat /\ Cardinality(T \ {r}) \in Nat
  BY <1>2, <1>3, FS_CardinalityType
<1> QED BY <1>3, <1>4

(* What Recent says of record i of run r. *)
Followed(c, i, r) ==
  /\ \A x \in Runs : Before(c.order, r, x) => x \in Since(c, i)
  /\ ~ Known(c, r) => Cardinality(Since(c, i) \ {r}) >= MaxRunning

(* Recent, with the run of the record named. *)
LEMMA RecentIs ==
  ASSUME NEW c
  PROVE  Recent(c) <=> \A i \in 1 .. c.last : \A r :
           r = log[i].run /\ Promotes(log[i]) /\ ~ Ended(r, c.last) => Followed(c, i, r)
BY DEF Recent, Followed

(* Taking in a record moves its run behind all others, and counts it as    *)
(* active since every earlier one.                                         *)
LEMMA RecentTook ==
  ASSUME NEW c, NEW d, NEW i, Taken(c, d, i), Recent(c)
  PROVE  Recent(d)
<1>1. PICK y : y = log[i].run
  OBVIOUS
<1>2. /\ c.last \in Nat /\ i \in Nat /\ d.last \in Nat /\ c.last <= d.last
      /\ i = c.last + 1 /\ i \in DOMAIN log
      /\ \A m : m \in 1 .. i <=> m = i \/ m \in 1 .. c.last
      /\ \A m : m \in 1 .. d.last => m \in 1 .. i
      /\ d.last = i \/ (d.last = c.last /\ log[i].type \in AssetTypes)
      /\ MaxRunning \in Nat
  BY TakenIs, SensorAssumption DEF Taken
<1>3. /\ Others(c, d, y)
      /\ log[i].type \notin RunEnds => Kept(c, d, y)
      /\ Promotes(log[i]) => Known(d, y) /\ \A x : ~ Before(d.order, y, x)
  BY <1>1 DEF Taken, Took
<1> SUFFICES ASSUME NEW m \in 1 .. d.last, NEW r, r = log[m].run, Promotes(log[m]),
                    ~ Ended(r, d.last)
             PROVE  Followed(d, m, r)
  BY RecentIs
<1>4. CASE m = i
  <2>1. r = y /\ Promotes(log[i])
    BY <1>1, <1>4
  <2> QED BY <1>3, <2>1 DEF Followed
<1>5. CASE m \in 1 .. c.last
  <2>1. ~ Ended(r, c.last) /\ m \in Nat
    <3>1. \A q \in 1 .. c.last : q \in 1 .. d.last
      BY <1>2
    <3> QED BY <3>1, <1>2, <1>5 DEF Ended
  <2>2. Followed(c, m, r)
    BY <1>5, <2>1, RecentIs
  <2>3. Since(c, m) \subseteq Since(d, m)
    <3>1. \A q \in m + 1 .. c.last + 1 : q \in m + 1 .. d.last + 1
      BY <1>2, <2>1
    <3> QED BY <3>1 DEF Since
  <2>4. y \in Since(c, m)
    <3>1. i \in m + 1 .. c.last + 1
      BY <1>2, <1>5
    <3> QED BY <1>1, <1>2, <3>1 DEF Since
  <2>5. ASSUME NEW x \in Runs, Before(d.order, r, x) PROVE x \in Since(d, m)
    <3>1. Before(c.order, r, x) \/ x = y
      BY <1>3, <2>5 DEF Others
    <3> QED BY <2>2, <2>3, <2>4, <3>1 DEF Followed
  <2>6. ASSUME ~ Known(d, r) PROVE Cardinality(Since(d, m) \ {r}) >= MaxRunning
    <3>1. ~ Known(c, r)
      <4>1. CASE r # y
        <5>1. r \in Runs
          BY <1>2, <1>5, TakenIs, RecordsAre DEF Taken
        <5> QED BY <1>3, <2>6, <4>1, <5>1 DEF Others
      <4>2. CASE r = y
        <5>1. log[i].type \notin RunEnds
          <6>1. CASE d.last = i
            <7>1. i \in 1 .. d.last
              BY <1>2, <6>1
            <7> QED BY <1>1, <4>2, <7>1 DEF Ended
          <6>2. CASE log[i].type \in AssetTypes
            BY <6>2 DEF AssetTypes, RunEnds
          <6> QED BY <1>2, <6>1, <6>2
        <5> QED BY <1>3, <2>6, <4>2, <5>1 DEF Kept
      <4> QED BY <4>1, <4>2
    <3>2. Cardinality(Since(c, m) \ {r}) >= MaxRunning
      BY <2>2, <3>1 DEF Followed
    <3>3. IsFiniteSet(Since(d, m))
      BY <1>2, <2>1, SinceIs
    <3> QED BY <1>2, <2>3, <3>2, <3>3, SinceGrows
  <2> QED BY <2>5, <2>6 DEF Followed
<1> QED BY <1>2, <1>4, <1>5

(* A run that is dropped to make room leaves MaxRunning others that were   *)
(* active after it.                                                        *)
LEMMA RecentTrimmed ==
  ASSUME NEW c, NEW d, Ordered(c), Trims(c, d), Recent(c), log \in Seq(Records),
         c.last <= Len(log)
  PROVE  Recent(d)
<1>1. /\ d.last = c.last /\ c.last \in Nat
      /\ \A x \in Runs : Known(d, x) <=> Known(c, x) /\ x \notin Evicted(c)
      /\ \A x, y : Before(d.order, x, y) => Before(c.order, x, y)
      /\ Once(c.order) /\ c.order \in Seq(Runs)
  BY DEF Trims, Ordered, Cursors
<1> HIDE DEF Evicted
<1>2. \A i : Since(d, i) = Since(c, i)
  BY <1>1 DEF Since
<1> SUFFICES ASSUME NEW i \in 1 .. c.last, NEW r, r = log[i].run, Promotes(log[i]),
                    ~ Ended(r, c.last)
             PROVE  Followed(d, i, r)
  BY <1>1, RecentIs
<1>3. Followed(c, i, r)
  BY RecentIs
<1>4. r \in Runs /\ i \in Nat
  <2>1. i \in DOMAIN log
    BY <1>1
  <2> QED BY <2>1, RecordsAre
<1>5. \A x \in Runs : Before(d.order, r, x) => x \in Since(d, i)
  BY <1>1, <1>2, <1>3 DEF Followed
<1>6. ASSUME ~ Known(d, r) PROVE Cardinality(Since(d, i) \ {r}) >= MaxRunning
  <2>1. CASE ~ Known(c, r)
    BY <1>2, <1>3, <2>1 DEF Followed
  <2>2. CASE r \in Evicted(c)
    <3>1. IsFiniteSet(Since(c, i))
      BY <1>1, <1>4, SinceIs
    <3>2. IsFiniteSet(Since(c, i) \ {r})
      BY <3>1, FS_Subset
    <3>3. ASSUME NEW x \in Runs, Before(c.order, r, x) PROVE x \in Since(c, i) \ {r}
      <4>1. x \in Since(c, i)
        BY <1>3, <3>3 DEF Followed
      <4>2. x # r
        <5>1. PICK a, b \in DOMAIN c.order : a < b /\ c.order[a] = r /\ c.order[b] = x
          BY <3>3 DEF Before
        <5>2. a # b
          BY <1>1, <5>1
        <5> QED BY <1>1, <5>1, <5>2 DEF Once
      <4> QED BY <4>1, <4>2
    <3>4. Cardinality(Since(c, i) \ {r}) >= MaxRunning
      BY <2>2, <3>2, <3>3, EvictedIs
    <3> QED BY <1>2, <3>4
  <2> QED BY <1>1, <1>4, <1>6, <2>1, <2>2
<1> QED BY <1>5, <1>6 DEF Followed

(* A record that is logged only adds to the runs that were active since. *)
LEMMA RecentLogged ==
  ASSUME NEW c, Ordered(c), Recent(c), c.last <= Len(log), NEW rec, Grown(rec)
  PROVE  Recent(c)'
<1>1. PICK m : m = c.last
  OBVIOUS
<1>2. /\ Len(log) \in Nat /\ DOMAIN log = 1 .. Len(log) /\ DOMAIN log' = 1 .. Len(log) + 1
      /\ \A h \in DOMAIN log : log'[h] = log[h]
  BY LogGrows DEF Grown
<1>3. m \in 0 .. Len(log) /\ m \in Nat /\ MaxRunning \in Nat
  BY <1>1, <1>2, SensorAssumption DEF Ordered, Cursors
<1>4. \A r : Ended(r, m)' <=> Ended(r, m)
  BY <1>3, LogSays DEF Grown
<1>5. \A r : Known(c, r)' <=> Known(c, r)
  BY DEF Known
<1> SUFFICES ASSUME NEW i \in 1 .. m, NEW r, r = log'[i].run, Promotes(log'[i]), ~ Ended(r, m)'
             PROVE  Followed(c, i, r)'
  BY <1>1 DEF Recent, Followed
<1>6. i \in DOMAIN log /\ i \in Nat
  BY <1>2, <1>3
<1>7. r = log[i].run /\ Promotes(log[i]) /\ ~ Ended(r, m)
  BY <1>2, <1>4, <1>6
<1>8. Followed(c, i, r)
  BY <1>1, <1>7, RecentIs
<1>9. PICK S : S = Since(c, i)'
  OBVIOUS
<1>10. Since(c, i) \subseteq S
  <2>1. \A q \in (i + 1 .. m + 1) \cap DOMAIN log : q \in DOMAIN log' /\ log'[q] = log[q]
    BY <1>2
  <2> QED BY <1>1, <1>9, <2>1 DEF Since
<1>11. IsFiniteSet(S)
  <2>1. PICK D : D = (i + 1 .. m + 1) \cap DOMAIN log'
    OBVIOUS
  <2>2. IsFiniteSet(D)
    <3>1. i + 1 \in Int /\ m + 1 \in Int
      BY <1>3, <1>6
    <3>2. IsFiniteSet(i + 1 .. m + 1)
      BY <3>1, FS_Interval
    <3>3. D \in SUBSET (i + 1 .. m + 1)
      BY <2>1
    <3> QED BY <3>2, <3>3, FS_Subset
  <2>3. PICK f : f = [q \in D |-> log'[q].run]
    OBVIOUS
  <2>4. f \in Surjection(D, S)
    BY <1>1, <1>9, <2>1, <2>3 DEF Since, Surjection
  <2> QED BY <2>2, <2>4, FS_Surjection
<1>12. \A x \in Runs : Before(c.order, r, x) => x \in S
  BY <1>8, <1>10 DEF Followed
<1>13. ~ Known(c, r) => Cardinality(S \ {r}) >= MaxRunning
  BY <1>3, <1>8, <1>10, <1>11, SinceGrows DEF Followed
<1> QED BY <1>5, <1>9, <1>12, <1>13 DEF Followed, Before

(* The invariant of the persisted cursor is the property. *)
LEMMA RecentKept ==
  ASSUME Recent(cursor)
  PROVE  ActiveRunsKept
BY DEF Recent, ActiveRunsKept, Since, Ended

------------------------------------------------------------------------------
(* One namespace: each event carries the one of its run's first record. *)
LEMMA NamesSaidOne ==
  ASSUME NamesSaid, Lives, InLog, log \in Seq(Records)
  PROVE  OneNamespace
<1> SUFFICES ASSUME NEW i \in DOMAIN emitted, NEW j \in DOMAIN emitted,
                    NEW m, m = emitted[i].rec, NEW n, n = emitted[j].rec,
                    NEW r, r = log[m].run, r = log[n].run, r \notin evicted,
                    ~ Late(m), ~ Late(n),
                    NEW e \in emitted[i].events, NEW f \in emitted[j].events,
                    {e.about, f.about} \subseteq {"run", "step"}
             PROVE  e.repo = f.repo
  BY DEF OneNamespace, RunOf
<1>1. m \in DOMAIN log
  BY DEF InLog
<1>2. \E h \in 1 .. m : First(r, h)
  <2>1. \E h \in 1 .. m : First(log[m].run, h)
    BY <1>1 DEF Lives
  <2> QED BY <2>1
<1>3. PICK h \in 1 .. m : First(r, h)
  BY <1>2
<1>4. h \in DOMAIN log
  BY <1>1
<1>5. PICK b : b = Named(h)
  OBVIOUS
<1>6. \A x \in DOMAIN emitted : \A y : y = emitted[x].rec /\ r = log[y].run /\ ~ Late(y) =>
        \A g \in emitted[x].events : g.about \in {"run", "step"} => g.repo = b
  <2> SUFFICES ASSUME NEW x \in DOMAIN emitted, NEW y, y = emitted[x].rec, r = log[y].run,
                      ~ Late(y), NEW g \in emitted[x].events, g.about \in {"run", "step"}
               PROVE  g.repo = Named(h)
    BY <1>5
  <2> QED BY <1>3, <1>4 DEF NamesSaid
<1>7. e.about \in {"run", "step"} /\ f.about \in {"run", "step"}
  OBVIOUS
<1>8. e.repo = b
  BY <1>6, <1>7
<1>9. f.repo = b
  BY <1>6, <1>7
<1> QED BY <1>8, <1>9

(* The emissions that say of asset k of run r whether it was made, up to n. *)
Saying(n, r, k) ==
  {j \in DOMAIN emitted : emitted[j].rec <= n /\ RunOf(j) = r
     /\ \E e \in emitted[j].events :
          /\ e.about = "asset" /\ e.key = k
          /\ e.kind \in {"planned", "materialized", "not_materialized"}}

Made(n, r, k) == \E i \in 1 .. n : log[i] = [run |-> r, type |-> "materialized", key |-> k]

Settled(n, r, k) ==
  \E e \in emitted[Max(Saying(n, r, k))].events :
    /\ e.about = "asset" /\ e.key = k
    /\ e.kind = IF Made(n, r, k) THEN "materialized" ELSE "not_materialized"

(* The latest of a set of emissions is the one that none of them follows. *)
LEMMA LastSaid ==
  ASSUME NEW n, NEW r, NEW k, NEW J \in Saying(n, r, k), \E l \in Nat : DOMAIN emitted = 1 .. l,
         \A j \in Saying(n, r, k) : ~ (j > J)
  PROVE  Max(Saying(n, r, k)) = J
<1>1. PICK S : S = Saying(n, r, k)
  OBVIOUS
<1>2. S \subseteq Nat
  BY <1>1 DEF Saying
<1>3. J \in S /\ \A j \in S : J >= j
  BY <1>1, <1>2
<1>4. \A x \in S : (\A j \in S : x >= j) => x = J
  BY <1>2, <1>3
<1>5. (CHOOSE x \in S : \A j \in S : x >= j) = J
  BY <1>3, <1>4
<1> QED BY <1>1, <1>5 DEF Max

(* What was said of an asset before the last thing that happened to it is not *)
(* the last that was said: the handler's own emission, or the run's end, is.  *)
LEMMA SaidSettled ==
  ASSUME IncludeAssets, log \in Seq(Records), Lives, InLog, Content, PlansSaid, InOrder,
         here.last \in Nat, here.last <= Len(log), \E l \in Nat : DOMAIN emitted = 1 .. l,
         NEW n \in 1 .. here.last, NEW r, r = log[n].run, r \notin evicted,
         log[n].type \in RunEnds, NEW k, Did(r, k, {"planned"}, n)
  PROVE  Settled(n, r, k)
<1>1. /\ Len(log) \in Nat /\ DOMAIN log = 1 .. Len(log) /\ n \in Nat
      /\ \A q \in 1 .. n : q \in DOMAIN log /\ q \in Nat /\ q \in 1 .. here.last
  OBVIOUS
<1>2. k \in Steps
  <2>1. PICK p \in 1 .. n : Of(p, r, k, {"planned"})
    BY DEF Did
  <2>2. log[p] \in Records /\ log[p].type \notin RunTypes
    BY <1>1, <2>1 DEF Of, RunTypes, RunEnds
  <2> QED BY <2>1, <2>2, RecordsAre DEF Of
<1>3. CASE Did(r, k, Outcome, n)
  <2>1. PICK o \in 1 .. n : Of(o, r, k, Outcome)
    BY <1>3 DEF Did
  <2>t. PICK t : t = log[o].type
    OBVIOUS
  <2>2. /\ o \in DOMAIN log /\ o \in Nat /\ log[o] \in Records /\ log[o].run = r /\ log[o].key = k
        /\ t \in Outcome /\ log[o].type \in Outcome
    BY <1>1, <2>1, <2>t DEF Of
  <2>3. t \in AssetTypes /\ t \notin RunTypes /\ t \in {"planned", "materialized", "not_materialized"}
    BY <2>2 DEF AssetTypes, RunTypes, RunEnds, Outcome
  <2>4. PICK J \in DOMAIN emitted : Final(o, J)
    BY <1>1, <2>1 DEF InOrder
  <2>5. emitted[J].rec = o /\ \A j \in DOMAIN emitted : j > J => emitted[j].rec > o
    BY <2>4 DEF Final
  <2>e. PICK e : e = Emission("asset", t, k, 0, FALSE)
    OBVIOUS
  <2>6. e.about = "asset" /\ e.key = k /\ e.kind = t
    BY <2>e DEF Emission
  <2>7. e \in emitted[J].events
    <3>1. emitted[J].events = AssetEvents(log[o])
      BY <2>3, <2>5, <2>t DEF Content
    <3> QED BY <2>2, <2>e, <2>t, <3>1 DEF AssetEvents
  <2>8. J \in Saying(n, r, k)
    BY <1>1, <2>1, <2>2, <2>3, <2>5, <2>6, <2>7 DEF Saying, RunOf
  <2>9. ASSUME NEW j \in Saying(n, r, k), j > J PROVE FALSE
    <3>q. PICK q : q = emitted[j].rec
      OBVIOUS
    <3>1. PICK f \in emitted[j].events :
            /\ f.about = "asset" /\ f.key = k
            /\ f.kind \in {"planned", "materialized", "not_materialized"}
      BY DEF Saying
    <3>2. j \in DOMAIN emitted /\ q > o /\ q \in DOMAIN log /\ q \in Nat /\ log[q].run = r /\ q <= n
      BY <1>1, <2>5, <2>9, <3>q DEF Saying, InLog, RunOf
    <3>3. log[q].type \in AssetTypes \cup RunEnds
      BY <3>1, <3>2, <3>q DEF Content
    <3>4. CASE log[q].type \in AssetTypes
      <4>1. emitted[j].events = AssetEvents(log[q])
        BY <3>2, <3>4, <3>q DEF Content
      <4>2. f = Emission("asset", log[q].type, log[q].key, 0, FALSE)
        BY <3>1, <4>1 DEF AssetEvents
      <4>3. log[q].key = k /\ log[q].type \in {"planned", "materialized", "not_materialized"}
        BY <3>1, <4>2 DEF Emission
      <4>4. CASE log[q].type = "planned"
        <5>1. q < o
          BY <2>2, <3>2, <4>3, <4>4 DEF Lives
        <5> QED BY <2>2, <3>2, <5>1
      <4>5. CASE log[q].type \in Outcome
        <5>1. q = o
          BY <2>2, <3>2, <4>3, <4>5 DEF Lives
        <5> QED BY <2>2, <3>2, <5>1
      <4> QED BY <4>3, <4>4, <4>5 DEF Outcome
    <3>5. CASE log[q].type \in RunEnds
      <4>1. Pending(r, k, q)
        BY <3>1, <3>2, <3>5, <3>q DEF PlansSaid
      <4>2. o \in 1 .. q
        BY <1>1, <2>1, <3>2
      <4>3. Did(r, k, Outcome, q)
        BY <2>1, <4>2 DEF Did
      <4> QED BY <4>1, <4>3 DEF Pending
    <3> QED BY <3>3, <3>4, <3>5
  <2>10. Max(Saying(n, r, k)) = J
    BY <2>8, <2>9, LastSaid
  <2>11. Made(n, r, k) <=> t = "materialized"
    <3>1. ASSUME Made(n, r, k) PROVE t = "materialized"
      <4>1. PICK i \in 1 .. n : log[i] = [run |-> r, type |-> "materialized", key |-> k]
        BY <3>1 DEF Made
      <4>2. /\ i \in DOMAIN log /\ log[i].run = r /\ log[i].key = k /\ log[i].type = "materialized"
            /\ log[i].type \in Outcome
        BY <1>1, <4>1 DEF Outcome
      <4>3. i = o
        BY <2>2, <4>2 DEF Lives
      <4> QED BY <2>t, <4>2, <4>3
    <3>2. ASSUME t = "materialized" PROVE Made(n, r, k)
      <4>1. log[o] = [run |-> r, type |-> "materialized", key |-> k]
        BY <2>2, <2>t, <3>2 DEF Records
      <4> QED BY <2>1, <4>1 DEF Made
    <3> QED BY <3>1, <3>2
  <2>12. t = IF Made(n, r, k) THEN "materialized" ELSE "not_materialized"
    <3>1. t = "materialized" \/ t = "not_materialized"
      BY <2>2 DEF Outcome
    <3> QED BY <2>11, <3>1
  <2> QED BY <2>6, <2>7, <2>10, <2>12 DEF Settled
<1>4. CASE ~ Did(r, k, Outcome, n)
  <2>1. PICK J \in DOMAIN emitted : Final(n, J)
    BY DEF InOrder
  <2>2. emitted[J].rec = n /\ \A j \in DOMAIN emitted : j > J => emitted[j].rec > n
    BY <2>1 DEF Final
  <2>3. Pending(r, k, n)
    BY <1>4 DEF Pending
  <2>e. PICK e : e = Emission("asset", "not_materialized", k, 0, FALSE)
    OBVIOUS
  <2>4. e.about = "asset" /\ e.key = k /\ e.kind = "not_materialized"
    BY <2>e DEF Emission
  <2>5. e \in emitted[J].events
    BY <1>2, <2>2, <2>3, <2>e DEF PlansSaid, Says
  <2>6. J \in Saying(n, r, k)
    BY <1>1, <2>2, <2>4, <2>5 DEF Saying, RunOf
  <2>7. ASSUME NEW j \in Saying(n, r, k), j > J PROVE FALSE
    <3>1. j \in DOMAIN emitted /\ emitted[j].rec <= n /\ emitted[j].rec \in Nat
      BY <1>1, <2>7 DEF Saying, InLog
    <3>2. emitted[j].rec > n
      BY <2>2, <2>7, <3>1
    <3> QED BY <1>1, <3>1, <3>2
  <2>8. Max(Saying(n, r, k)) = J
    BY <2>6, <2>7, LastSaid
  <2>9. ~ Made(n, r, k)
    <3> SUFFICES ASSUME NEW i \in 1 .. n,
                        log[i] = [run |-> r, type |-> "materialized", key |-> k]
                 PROVE  FALSE
      BY DEF Made
    <3>1. Of(i, r, k, Outcome)
      BY DEF Of, Outcome
    <3> QED BY <1>4, <3>1 DEF Did
  <2> QED BY <2>4, <2>5, <2>8, <2>9 DEF Settled
<1> QED BY <1>3, <1>4

(* So the last that was said of an asset is what happened to it. *)
LEMMA PlansSaidSettled ==
  ASSUME log \in Seq(Records), Lives, InLog, Content, IncludeAssets => PlansSaid, InOrder,
         here.last \in Nat, here.last <= Len(log), cursor.last <= here.last, cursor.last \in Nat,
         \E l \in Nat : DOMAIN emitted = 1 .. l
  PROVE  AssetsSettled
<1> SUFFICES ASSUME IncludeAssets, NEW n \in 1 .. cursor.last,
                    log[n].run \notin evicted, log[n].type \in RunEnds,
                    NEW k \in {log[i].key : i \in {m \in 1 .. n : log[m].run = log[n].run
                                                        /\ log[m].type = "planned"}}
             PROVE  Settled(n, log[n].run, k)
  BY SMTT(30), Zenon DEF AssetsSettled, Settled, Saying, Made
<1>r. PICK r : r = log[n].run
  OBVIOUS
<1>1. n \in 1 .. here.last
  OBVIOUS
<1>2. Did(r, k, {"planned"}, n)
  <2>1. PICK i \in 1 .. n : log[i].run = log[n].run /\ log[i].type = "planned" /\ k = log[i].key
    OBVIOUS
  <2>2. Of(i, r, k, {"planned"})
    BY <1>r, <2>1 DEF Of
  <2> QED BY <2>1, <2>2 DEF Did
<1>3. PlansSaid /\ r \notin evicted
  BY <1>r
<1>4. Settled(n, r, k)
  BY <1>r, <1>1, <1>2, <1>3, SaidSettled
<1> QED BY <1>r, <1>4

------------------------------------------------------------------------------
(***************************************************************************)
(* The inductive invariant: what holds of the persisted cursor and of the  *)
(* tick's own, and what was reported by either.                            *)
(***************************************************************************)
Sound(c) ==
  Ordered(c) /\ Names(c) /\ Ids(c) /\ (IncludeAssets => Plans(c)) /\ Recent(c)

Reported == NamesSaid /\ Content /\ StepsSaid /\ (IncludeAssets => PlansSaid)

Tracked ==
  /\ Lives /\ uuids \in Nat
  /\ \A c : c = cursor \/ c = here => Sound(c)
  /\ InOrder /\ Reported

SensorInv == FeedInv /\ Tracked

(* What the feed's invariant says of the positions and the emissions. *)
LEMMA FeedIs ==
  ASSUME FeedInv
  PROVE  /\ log \in Seq(Records) /\ Len(log) \in Nat /\ DOMAIN log = 1 .. Len(log)
         /\ InLog /\ \E l \in Nat : DOMAIN emitted = 1 .. l
         /\ cursor.last \in Nat /\ here.last \in Nat
         /\ cursor.last <= here.last /\ here.last <= Len(log)
<1>1. /\ log \in Seq(Records)
      /\ cursor.last \in Nat /\ here.last \in Nat
      /\ cursor.last <= here.last /\ here.last <= Len(log)
  BY DEF FeedInv, Positions
<1>2. PICK S : emitted \in Seq(S)
  BY DEF FeedInv, Positions
<1>3. Len(emitted) \in Nat /\ DOMAIN emitted = 1 .. Len(emitted)
  BY <1>2
<1>4. InLog
  BY DEF FeedInv, Caught, InLog
<1>5. Len(log) \in Nat /\ DOMAIN log = 1 .. Len(log)
  BY <1>1
<1> QED BY <1>1, <1>3, <1>4, <1>5

(* A cursor stays sound while the log, the emissions and the evictions     *)
(* stay.                                                                   *)
LEMMA SoundStays ==
  ASSUME NEW c, Sound(c), UNCHANGED <<log, emitted, evicted>>
  PROVE  Sound(c)'
<1>1. \A r : (Alive(c, r)' <=> Alive(c, r)) /\ (Known(c, r)' <=> Known(c, r))
  BY DEF Alive, Known, Ended
<1>2. /\ \A r, m : (Seen(r, m)' <=> Seen(r, m)) /\ (First(r, m)' <=> First(r, m))
                   /\ (Ended(r, m)' <=> Ended(r, m))
      /\ \A m : Named(m)' = Named(m)
  BY DEF Seen, First, Named, Ended
<1>3. /\ \A r, k, m : Pending(r, k, m)' <=> Pending(r, k, m)
      /\ \A r, k, T, m : (Did(r, k, T, m)' <=> Did(r, k, T, m)) /\ (Of(m, r, k, T)' <=> Of(m, r, k, T))
  BY DEF Pending, Did, Of
<1>4. /\ \A m, j : (Final(m, j)' <=> Final(m, j)) /\ (Says(j, m)' <=> Says(j, m))
      /\ emitted' = emitted /\ log' = log
  BY DEF Final, Says
<1>5. Ordered(c)'
  BY <1>1 DEF Sound, Ordered
<1>6. Names(c)'
  BY <1>1, <1>2, <1>4 DEF Sound, Names
<1>7. Ids(c)'
  BY <1>1, <1>3, <1>4 DEF Sound, Ids
<1>8. IncludeAssets => Plans(c)'
  BY <1>1, <1>3, <1>4 DEF Sound, Plans
<1>9. Recent(c)'
  <2>1. \A i : Since(c, i)' = Since(c, i)
    BY <1>4 DEF Since
  <2>2. \A x, y : Before(c.order, x, y)' <=> Before(c.order, x, y)
    BY DEF Before
  <2> QED BY <1>1, <1>2, <1>4, <2>1, <2>2 DEF Sound, Recent
<1> QED BY <1>5, <1>6, <1>7, <1>8, <1>9 DEF Sound

(* At first the cursors are empty and nothing was said. *)
LEMMA InitTracked == Init => Tracked
<1> SUFFICES ASSUME Init PROVE Tracked
  OBVIOUS
<1>1. PICK c : c = [last |-> 0, order |-> << >>, entry |-> [r \in Runs |-> Pipeline(FALSE)]]
  OBVIOUS
<1>2. /\ log = << >> /\ emitted = << >> /\ cursor = c /\ here = c /\ uuids = 0
      /\ DOMAIN log = {} /\ DOMAIN emitted = {}
  BY <1>1 DEF Init
<1>3. Lives
  BY <1>2 DEF Lives
<1>4. /\ c.last = 0 /\ c.order = << >> /\ c.entry = [r \in Runs |-> Pipeline(FALSE)]
      /\ \A r \in Runs : c.entry[r] = Pipeline(FALSE)
  BY <1>1
<1>5. Pipeline(FALSE) \in Pipelines /\ Pipeline(FALSE).planned = {}
  BY PipelineIs
<1>6. \A r : ~ Known(c, r) /\ ~ Ended(r, c.last) /\ ~ Seen(r, c.last)
  BY <1>4 DEF Known, Contains, Ended, Seen
<1>7. 1 .. c.last = {}
  BY <1>4
<1>8. Ordered(c)
  <2>1. c \in Cursors
    <3>1. << >> \in Seq(Runs) /\ 0 \in Nat
      OBVIOUS
    <3>2. [r \in Runs |-> Pipeline(FALSE)] \in [Runs -> Pipelines]
      BY <1>5
    <3> QED BY <1>1, <3>1, <3>2 DEF Cursors
  <2>2. Once(c.order)
    BY <1>4 DEF Once
  <2> QED BY <1>4, <2>1, <2>2 DEF Ordered
<1>9. Names(c)
  BY <1>6 DEF Names
<1>10. Ids(c) /\ Recent(c)
  BY <1>7 DEF Ids, Recent
<1>11. Plans(c)
  <2>1. \A r, k : ~ Pending(r, k, c.last)
    BY <1>7 DEF Pending, Did
  <2> QED BY <1>4, <1>5, <2>1 DEF Plans
<1>12. InOrder
  BY <1>2, <1>7 DEF InOrder
<1>13. Reported
  BY <1>2 DEF Reported, NamesSaid, Content, StepsSaid, PlansSaid
<1> QED BY <1>2, <1>3, <1>8, <1>9, <1>10, <1>11, <1>12, <1>13 DEF Tracked, Sound

(* A record that is logged changes nothing of what was said of the others. *)
LEMMA LogTracked ==
  ASSUME FeedInv, Tracked, NEW rec \in Records, Log(rec)
  PROVE  Tracked'
<1>1. /\ log \in Seq(Records) /\ Len(log) \in Nat /\ DOMAIN log = 1 .. Len(log) /\ InLog
      /\ cursor.last \in Nat /\ here.last \in Nat
      /\ cursor.last <= Len(log) /\ here.last <= Len(log)
  BY FeedIs
<1>2. PICK l \in Nat : DOMAIN emitted = 1 .. l
  BY FeedIs
<1>3. Grown(rec) /\ log' = Append(log, rec) /\ UNCHANGED <<cursor, here, uuids, emitted, evicted>>
  BY <1>1 DEF Log, Grown
<1>4. Lives /\ uuids \in Nat /\ InOrder /\ Reported
      /\ \A c : c = cursor \/ c = here => Sound(c)
  BY DEF Tracked
<1>5. Lives'
  BY <1>1, <1>4, LivesLog
<1>6. ASSUME NEW c, Sound(c), c.last <= Len(log) PROVE Sound(c)'
  <2>1. Ordered(c) /\ Names(c) /\ Ids(c) /\ (IncludeAssets => Plans(c)) /\ Recent(c)
    BY <1>6 DEF Sound
  <2>2. Ordered(c)'
    <3>1. \A r : Known(c, r)' <=> Known(c, r)
      BY DEF Known
    <3> QED BY <2>1, <3>1 DEF Ordered
  <2>3. Names(c)'
    BY <1>1, <1>3, <1>4, <1>6, <2>1, NamesLogged
  <2>4. Ids(c)'
    BY <1>3, <1>6, <2>1, IdsLogged
  <2>5. IncludeAssets => Plans(c)'
    BY <1>3, <1>6, <2>1, PlansLogged
  <2>6. Recent(c)'
    BY <1>3, <1>6, <2>1, RecentLogged
  <2> QED BY <2>2, <2>3, <2>4, <2>5, <2>6 DEF Sound
<1>7. \A c : c = cursor' \/ c = here' => Sound(c)'
  BY <1>1, <1>3, <1>4, <1>6
<1>8. InOrder'
  <2>1. \A m, j : Final(m, j)' <=> Final(m, j)
    BY <1>3 DEF Final
  <2> QED BY <1>3, <1>4, <2>1 DEF InOrder
<1>9. NamesSaid'
  BY <1>1, <1>3, <1>4, NamesSaidLogged DEF Reported
<1>10. Content'
  BY <1>1, <1>3, <1>4, ContentLogged DEF Reported
<1>11. StepsSaid'
  <2>1. l + 1 \in Nat /\ DOMAIN emitted = 1 .. (l + 1) - 1
    BY <1>2
  <2> QED BY <1>1, <1>3, <1>4, <2>1, StepsSaidLogged DEF Reported
<1>12. IncludeAssets => PlansSaid'
  BY <1>1, <1>3, <1>4, PlansSaidLogged DEF Reported
<1> QED BY <1>3, <1>4, <1>5, <1>7, <1>8, <1>9, <1>10, <1>11, <1>12 DEF Tracked, Reported

(* The record a handler takes in is the one after the tick's position. *)
LEMMA NextTaken ==
  ASSUME FeedInv, Tracked, phase = "handle", batch # {}, NEW i, i = Min(batch), NEW h, h = here
  PROVE  /\ i = h.last + 1 /\ i \in DOMAIN log /\ i \in Nat
         /\ Took(h, After(h, i), i) /\ Ordered(h) /\ Sound(h)
<1>1. i = h.last + 1 /\ i \in DOMAIN log
  BY NextInLine DEF FeedInv
<1>2. log \in Seq(Records) /\ i \in Nat
  BY <1>1, FeedIs
<1>3. Sound(h) /\ Ordered(h) /\ uuids \in Nat
  BY DEF Tracked, Sound
<1> QED BY <1>1, <1>2, <1>3, AfterTook

(* Handling a record keeps the tick's own cursor and the persisted one     *)
(* sound, and what it emits true.                                          *)
LEMMA HandleTracked ==
  ASSUME FeedInv, Tracked, Handle
  PROVE  Tracked'
<1>h. PICK h, b : h = here /\ b = cursor
  OBVIOUS
<1>i. PICK i : i = Min(batch)
  OBVIOUS
<1>d. PICK d : d = After(h, i)
  OBVIOUS
<1>x. PICK x : x = [rec |-> i, events |-> EventsOf(h, i)]
  OBVIOUS
<1>1. phase = "handle" /\ batch # {} /\ UNCHANGED <<log, cursor, evicted>>
        /\ here' = d /\ emitted' = Append(emitted, x)
        /\ uuids' = IF \E e \in EventsOf(here, i) : e.id > uuids THEN uuids + 1 ELSE uuids
  BY <1>h, <1>i, <1>d, <1>x DEF Handle
<1>2. /\ i = h.last + 1 /\ i \in DOMAIN log /\ i \in Nat
      /\ Took(h, d, i) /\ Ordered(h) /\ Sound(h)
  BY <1>1, <1>h, <1>i, <1>d, NextTaken
<1>3. /\ log \in Seq(Records) /\ InLog /\ h.last \in Nat /\ b.last \in Nat /\ b.last < i
  BY <1>2, <1>h, FeedIs
<1>4. Lives /\ uuids \in Nat /\ InOrder /\ Reported /\ Sound(b)
  BY <1>h DEF Tracked
<1>5. d.last = i
  <2>1. "last" \in DOMAIN h
    BY <1>h DEF FeedInv, Positions
  <2> QED BY <1>d, <2>1, AfterMoves
<1>6. Taken(h, d, i)
  BY <1>2, <1>3, <1>4, <1>5 DEF Taken
<1>n. PICK n : n = Len(emitted) + 1
  OBVIOUS
<1>7. Emits(h, i, n)
  <2>1. PICK S : emitted \in Seq(S)
    BY DEF FeedInv, Positions
  <2>2. /\ DOMAIN emitted = 1 .. n - 1 /\ n \in Nat /\ n > 0
        /\ DOMAIN emitted' = DOMAIN emitted \cup {n}
        /\ \A j \in DOMAIN emitted : emitted'[j] = emitted[j]
        /\ emitted'[n] = x
    BY <1>1, <1>n, <2>1
  <2>3. x.rec = i /\ x.events = EventsOf(h, i)
    BY <1>x
  <2>4. DOMAIN emitted' = 1 .. n
    BY <2>2
  <2>5. \A j \in 1 .. n : j = n \/ (j \in 1 .. n - 1 /\ j \in DOMAIN emitted)
    BY <2>2
  <2>6. UNCHANGED <<log, evicted>>
    BY <1>1
  <2> QED BY <2>2, <2>3, <2>4, <2>5, <2>6 DEF Emits
<1>8. \A m \in 1 .. h.last : \E j \in DOMAIN emitted : Final(m, j)
  BY <1>4, <1>h DEF InOrder
<1>9. Names(h) /\ Ids(h) /\ (IncludeAssets => Plans(h)) /\ Recent(h)
  BY <1>2 DEF Sound
<1>10. NamesSaid /\ Content /\ StepsSaid /\ (IncludeAssets => PlansSaid)
  BY <1>4 DEF Reported
<1>11. UNCHANGED <<log, evicted>>
  BY <1>1
<1>12. Lives'
  BY <1>4, <1>11 DEF Lives, Did, Of, First
<1>13. uuids' \in Nat
  BY <1>1, <1>4
<1>14. InOrder'
  <2>1. \A m \in 1 .. i : \E j \in DOMAIN emitted' : Final(m, j)'
    BY <1>2, <1>3, <1>7, <1>8, InOrderEmitted
  <2> QED BY <1>1, <1>5, <2>1 DEF InOrder
<1>15. Reported'
  <2>1. NamesSaid'
    BY <1>6, <1>7, <1>9, <1>10, NamesSaidEmitted
  <2>2. Content'
    BY <1>6, <1>7, <1>10, ContentEmitted
  <2>3. StepsSaid'
    BY <1>3, <1>6, <1>7, <1>8, <1>9, <1>10, StepsSaidEmitted
  <2>4. IncludeAssets => PlansSaid'
    BY <1>6, <1>7, <1>9, <1>10, PlansSaidEmitted
  <2> QED BY <2>1, <2>2, <2>3, <2>4 DEF Reported
<1>16. Sound(d)'
  <2>1. Ordered(d)
    BY <1>2 DEF Took
  <2>2. Ordered(d)'
    <3>1. \A r : Known(d, r)' <=> Known(d, r)
      BY DEF Known
    <3> QED BY <2>1, <3>1 DEF Ordered
  <2>3. Names(d)'
    <3>1. Names(d)
      BY <1>6, <1>9, NamesTook
    <3>2. \A r : (Alive(d, r)' <=> Alive(d, r)) /\ (Known(d, r)' <=> Known(d, r))
      BY <1>11 DEF Alive, Known, Ended
    <3>3. \A r, m : (Seen(r, m)' <=> Seen(r, m)) /\ (First(r, m)' <=> First(r, m))
                    /\ Named(m)' = Named(m)
      BY <1>11 DEF Seen, First, Named
    <3> QED BY <1>11, <3>1, <3>2, <3>3 DEF Names
  <2>4. Ids(d)'
    BY <1>4, <1>6, <1>7, <1>9, IdsEmitted
  <2>5. IncludeAssets => Plans(d)'
    <3>1. IncludeAssets => Plans(d)
      BY <1>6, <1>9, PlansTook
    <3>2. \A r : Alive(d, r)' <=> Alive(d, r)
      BY <1>11 DEF Alive, Ended
    <3>3. \A r, k, m : Pending(r, k, m)' <=> Pending(r, k, m)
      BY <1>11 DEF Pending, Did, Of
    <3> QED BY <1>11, <3>1, <3>2, <3>3 DEF Plans
  <2>6. Recent(d)'
    <3>1. Recent(d)
      BY <1>6, <1>9, RecentTook
    <3> QED BY <1>11, <3>1 DEF Recent, Since, Ended, Known, Before
  <2> QED BY <2>2, <2>3, <2>4, <2>5, <2>6 DEF Sound
<1>17. Sound(b)'
  <2>1. Ordered(b) /\ Names(b) /\ Ids(b) /\ (IncludeAssets => Plans(b)) /\ Recent(b)
    BY <1>4 DEF Sound
  <2>2. Ordered(b)'
    <3>1. \A r : Known(b, r)' <=> Known(b, r)
      BY DEF Known
    <3> QED BY <2>1, <3>1 DEF Ordered
  <2>3. Names(b)'
    <3>1. \A r : (Alive(b, r)' <=> Alive(b, r)) /\ (Known(b, r)' <=> Known(b, r))
      BY <1>11 DEF Alive, Known, Ended
    <3>2. \A r, m : (Seen(r, m)' <=> Seen(r, m)) /\ (First(r, m)' <=> First(r, m))
                    /\ Named(m)' = Named(m)
      BY <1>11 DEF Seen, First, Named
    <3> QED BY <1>11, <2>1, <3>1, <3>2 DEF Names
  <2>4. Ids(b)'
    BY <1>2, <1>3, <1>7, <2>1, IdsStay
  <2>5. IncludeAssets => Plans(b)'
    <3>1. \A r : Alive(b, r)' <=> Alive(b, r)
      BY <1>11 DEF Alive, Ended
    <3>2. \A r, k, m : Pending(r, k, m)' <=> Pending(r, k, m)
      BY <1>11 DEF Pending, Did, Of
    <3> QED BY <1>11, <2>1, <3>1, <3>2 DEF Plans
  <2>6. Recent(b)'
    BY <1>11, <2>1 DEF Recent, Since, Ended, Known, Before
  <2> QED BY <2>2, <2>3, <2>4, <2>5, <2>6 DEF Sound
<1>18. \A c : c = cursor' \/ c = here' => Sound(c)'
  BY <1>1, <1>h, <1>16, <1>17
<1> QED BY <1>12, <1>13, <1>14, <1>15, <1>18 DEF Tracked

(* Nothing is said and the log does not change: the cursors may. *)
LEMMA TrackedStays ==
  ASSUME Lives, uuids \in Nat, InOrder, Reported, UNCHANGED <<log, emitted, evicted, uuids>>,
         \A c : c = cursor' \/ c = here' => Sound(c),
         here'.last = here.last
           \/ (here.last \in Nat /\ here'.last \in Nat /\ here'.last <= here.last)
  PROVE  Tracked'
<1>1. log' = log /\ emitted' = emitted /\ evicted \subseteq evicted' /\ uuids' = uuids
  OBVIOUS
<1>2. Lives'
  BY <1>1 DEF Lives, Did, Of, First
<1>3. \A c : c = cursor' \/ c = here' => Sound(c)'
  BY SoundStays
<1>4. InOrder'
  <2>1. \A m, j : Final(m, j)' <=> Final(m, j)
    BY <1>1 DEF Final
  <2>2. \A m \in 1 .. here'.last : m \in 1 .. here.last
    OBVIOUS
  <2> QED BY <1>1, <2>1, <2>2 DEF InOrder
<1>5. Reported'
  <2>1. NamesSaid' /\ StepsSaid' /\ (IncludeAssets => PlansSaid')
    BY <1>1, NamesSaidStays, StepsSaidStays, PlansSaidStays DEF Reported
  <2>2. Content'
    BY <1>1 DEF Reported, Content
  <2> QED BY <2>1, <2>2 DEF Reported
<1> QED BY <1>1, <1>2, <1>3, <1>4, <1>5 DEF Tracked

(* An asset handler that raised may have moved its run to the front. *)
LEMMA RaisesTracked ==
  ASSUME FeedInv, Tracked, HandlerRaises
  PROVE  Tracked'
<1>h. PICK h : h = here
  OBVIOUS
<1>i. PICK i : i = Min(batch)
  OBVIOUS
<1>d. PICK d : d = [After(h, i) EXCEPT !.last = h.last]
  OBVIOUS
<1>1. /\ phase = "handle" /\ batch # {} /\ UNCHANGED <<log, cursor, uuids, emitted, evicted>>
      /\ \/ here' = h
         \/ here' = d /\ log[i].type \in AssetTypes
  BY <1>h, <1>i, <1>d DEF HandlerRaises
<1>2. /\ i = h.last + 1 /\ i \in DOMAIN log /\ i \in Nat
      /\ Took(h, After(h, i), i) /\ Ordered(h) /\ Sound(h)
  BY <1>1, <1>h, <1>i, NextTaken
<1>3. log \in Seq(Records) /\ h.last \in Nat
  BY <1>h, FeedIs
<1>4. Lives /\ uuids \in Nat /\ InOrder /\ Reported /\ \A c : c = cursor => Sound(c)
  BY DEF Tracked
<1>5. Took(h, d, i) /\ d.last = h.last
  BY <1>2, <1>3, <1>d, TookAnyway
<1>6. ASSUME log[i].type \in AssetTypes PROVE Sound(d)
  <2>1. Taken(h, d, i)
    BY <1>2, <1>3, <1>4, <1>5, <1>6 DEF Taken
  <2>2. Names(h) /\ Ids(h) /\ (IncludeAssets => Plans(h)) /\ Recent(h)
    BY <1>2 DEF Sound
  <2>3. Ordered(d)
    BY <1>5 DEF Took
  <2>4. Names(d) /\ Ids(d) /\ Recent(d)
    BY <1>5, <2>1, <2>2, NamesTook, IdsTook, RecentTook
  <2>5. IncludeAssets => Plans(d)
    BY <2>1, <2>2, PlansTook
  <2> QED BY <2>3, <2>4, <2>5 DEF Sound
<1>7. \A c : c = cursor' \/ c = here' => Sound(c)
  BY <1>1, <1>2, <1>4, <1>6
<1>8. here'.last = here.last
  BY <1>1, <1>5, <1>h
<1>9. UNCHANGED <<log, emitted, evicted, uuids>>
  BY <1>1
<1> QED BY <1>4, <1>7, <1>8, <1>9, TrackedStays

(* Persisting the cursor drops what does not fit, and says so. *)
LEMMA EndTickTracked ==
  ASSUME FeedInv, Tracked, EndTick
  PROVE  Tracked'
<1>h. PICK h : h = here
  OBVIOUS
<1>d. PICK d : d = Trimmed(h)
  OBVIOUS
<1>1. /\ UNCHANGED <<log, emitted, uuids>> /\ evicted' = evicted \cup Evicted(h)
      /\ cursor' = d /\ here' = d
  BY <1>h, <1>d DEF EndTick
<1> HIDE DEF Evicted
<1>2. Lives /\ uuids \in Nat /\ InOrder /\ Reported /\ Sound(h)
  BY <1>h DEF Tracked
<1>3. Ordered(h) /\ Names(h) /\ Ids(h) /\ (IncludeAssets => Plans(h)) /\ Recent(h)
  BY <1>2 DEF Sound
<1>4. Trims(h, d)
  BY <1>3, <1>d, TrimmedIs
<1>5. Ordered(d) /\ d.last = h.last
  BY <1>4 DEF Trims
<1>6. log \in Seq(Records) /\ h.last <= Len(log)
  BY <1>h, FeedIs
<1>7. Sound(d)'
  <2>1. Ordered(d)'
    <3>1. \A r : Known(d, r)' <=> Known(d, r)
      BY DEF Known
    <3> QED BY <1>5, <3>1 DEF Ordered
  <2>2. Names(d)' /\ Ids(d)'
    BY <1>1, <1>3, <1>4, NamesTrimmed, IdsTrimmed
  <2>3. IncludeAssets => Plans(d)'
    BY <1>1, <1>3, <1>4, PlansTrimmed
  <2>4. Recent(d)
    BY <1>3, <1>4, <1>6, RecentTrimmed
  <2>5. log' = log
    BY <1>1
  <2>6. Recent(d)'
    BY <2>4, <2>5 DEF Recent, Since, Ended, Known, Before
  <2> QED BY <2>1, <2>2, <2>3, <2>6 DEF Sound
<1>8. \A c : c = cursor' \/ c = here' => Sound(c)'
  BY <1>1, <1>7
<1>9. Lives'
  <2>1. log' = log
    BY <1>1
  <2> QED BY <1>2, <2>1 DEF Lives, Did, Of, First
<1>10. InOrder'
  <2>1. emitted' = emitted /\ here'.last = here.last
    BY <1>1, <1>5, <1>h
  <2> QED BY <1>2, <2>1 DEF InOrder, Final
<1>11. Reported'
  <2>1. evicted \subseteq evicted' /\ UNCHANGED <<log, emitted>>
    BY <1>1
  <2>2. NamesSaid' /\ StepsSaid' /\ (IncludeAssets => PlansSaid')
    BY <1>2, <2>1, NamesSaidStays, StepsSaidStays, PlansSaidStays DEF Reported
  <2>3. Content'
    BY <1>2, <2>1 DEF Reported, Content
  <2> QED BY <2>2, <2>3 DEF Reported
<1> QED BY <1>1, <1>2, <1>8, <1>9, <1>10, <1>11 DEF Tracked

(* The other steps of a tick change neither the log nor the emissions; the *)
(* tick's cursor may fall back to the persisted one.                       *)
LEMMA OtherTracked ==
  ASSUME FeedInv, Tracked,
         BeginTick \/ Crash \/ (\E S \in SUBSET Types : Query(S)) \/ UNCHANGED vars
  PROVE  Tracked'
<1>1. UNCHANGED <<log, emitted, evicted, uuids, cursor>> /\ (here' = here \/ here' = cursor)
  BY DEF BeginTick, Crash, Query, vars
<1>2. \A c : c = cursor' \/ c = here' => Sound(c)
  BY <1>1 DEF Tracked
<1>3. here'.last \in Nat /\ here'.last <= here.last /\ here.last \in Nat
  BY <1>1, FeedIs
<1>4. UNCHANGED <<log, emitted, evicted, uuids>>
  BY <1>1
<1>5. Lives /\ uuids \in Nat /\ InOrder /\ Reported
  BY DEF Tracked
<1> QED BY <1>2, <1>3, <1>4, <1>5, TrackedStays

(* What the tick tracks is an invariant, with the feed. *)
LEMMA SensorInductive ==
  ASSUME Calm
  PROVE  Spec => []SensorInv
<1>1. Init => SensorInv
  BY InitFeedInv, InitTracked DEF SensorInv
<1>2. ASSUME SensorInv, [Next]_vars PROVE SensorInv'
  <2>1. FeedInv'
    BY <1>2, LogFeedInv, QueryFeedInv, HandleFeedInv, EndTickFeedInv, OtherFeedInv
       DEF Next, Tick, SensorInv
  <2>2. Tracked'
    BY <1>2, LogTracked, HandleTracked, RaisesTracked, EndTickTracked, OtherTracked
       DEF Next, Tick, SensorInv
  <2> QED BY <2>1, <2>2 DEF SensorInv
<1> QED BY <1>1, <1>2, PTL DEF Spec

(* A step's end is reported under the step run id its latest start was     *)
(* reported under, whatever ticks fail, die or are repeated.               *)
THEOREM StepRunsAlwaysMatch ==
  ASSUME Calm
  PROVE  Spec => []StepRunsMatch
<1>1. SensorInv => StepRunsMatch
  BY StepsSaidMatch DEF SensorInv, Tracked, Reported
<1> QED BY <1>1, SensorInductive, PTL

(* All a run and its steps emit carries one namespace. *)
THEOREM AlwaysOneNamespace ==
  ASSUME Calm
  PROVE  Spec => []OneNamespace
<1>1. SensorInv => OneNamespace
  BY FeedIs, NamesSaidOne DEF SensorInv, Tracked, Reported
<1> QED BY <1>1, SensorInductive, PTL

(* Once a run's end is behind the cursor, the last that was said of every  *)
(* asset it planned is what happened to it.                                *)
THEOREM AssetsAlwaysSettled ==
  ASSUME Calm
  PROVE  Spec => []AssetsSettled
<1>1. SensorInv => AssetsSettled
  BY FeedIs, PlansSaidSettled DEF SensorInv, Tracked, Reported
<1> QED BY <1>1, SensorInductive, PTL

(* A run that has not ended leaves the cursor only behind MaxRunning others *)
(* that were active after it.                                              *)
THEOREM ActiveRunsAlwaysKept ==
  ASSUME Calm
  PROVE  Spec => []ActiveRunsKept
<1>1. SensorInv => ActiveRunsKept
  BY RecentKept DEF SensorInv, Tracked, Sound
<1> QED BY <1>1, SensorInductive, PTL
==============================================================================
