------------------------ MODULE OpenLineageStorageProofs ------------------------
(***************************************************************************)
(* What OpenLineageStorage promises, for any number of processes, runs,    *)
(* assets, threads and faults, any eviction bound, any length of the log   *)
(* and any order in which threads and processes take notice of its events. *)
(***************************************************************************)
EXTENDS OpenLineageStorage, SequenceTheorems, TLAPS

CallTypes == [rec : Nat, kind : AssetTypes \cup {"failed"}, key : Steps]

Once(s) == \A i, j \in DOMAIN s : s[i] = s[j] => i = j
Orders == {s \in Seq(Runs) : Once(s)}
Plans == {p \in [order : Orders, keys : [Runs -> SUBSET Steps]] :
            \A r \in Runs : ~ Has(p, r) => p.keys[r] = {}}

TypeOK ==
  /\ log \in Seq(Records)
  /\ planned \in [Procs -> Plans]
  /\ noted \in [Procs -> Seq(Nat)]
  /\ at \in [Threads -> {"idle", "stored", "emit"}]
  /\ on \in [Threads -> Nat]
  /\ out \in [Threads -> SUBSET CallTypes]
  /\ emitted \subseteq CallTypes
  /\ dropped \subseteq Nat /\ lost \subseteq Runs

(* Each busy thread has an event of its own, and calls for no other.       *)
Working1(w) ==
  /\ at[w] = "idle" => out[w] = {}
  /\ at[w] = "stored" => out[w] = {} /\ on[w] \in DOMAIN log
  /\ at[w] = "emit" => out[w] # {} /\ on[w] \in DOMAIN log
  /\ \A c \in out[w] : c.rec = on[w]
Separate == \A v, w \in Threads : at[v] # "idle" /\ at[w] # "idle" /\ v # w => on[v] # on[w]
Threaded == Separate /\ \A w \in Threads : Working1(w)

(* What was noticed is stored, and what waits was not noticed yet. *)
Notes == \A p \in Procs : \A n \in DOMAIN noted[p] : noted[p][n] \in DOMAIN log
Fresh == \A w \in Threads : at[w] = "stored" =>
           \A p \in Procs : \A n \in DOMAIN noted[p] : noted[p][n] # on[w]

(* The calls made or still to be made are about events that were noticed. *)
Made == emitted \cup UNION {out[w] : w \in Threads}
MadeOfNoted ==
  \A c \in Made : c.rec \in DOMAIN log /\
    \E p \in Procs : \E n \in DOMAIN noted[p] : noted[p][n] = c.rec

(* Since its m-th note a process saw neither the end of the run, nor the   *)
(* asset made, nor the run fail.                                           *)
Open(p, m, r) == \A d \in DOMAIN noted[p] : d > m => ~ Noted(p, d, r, Closing)
Taken == {"materialized", "not_materialized"}
Unmade(p, m, r, k) == \A d \in DOMAIN noted[p] : d > m => ~ About(p, d, r, k, Taken)
Unfailed(p, m, r) == \A d \in DOMAIN noted[p] : d > m => ~ Noted(p, d, r, {"run_failure"})

(* The map has only what was planned and not made since, and everything    *)
(* that was planned of a run it did not lose.                              *)
MapSound ==
  \A p \in Procs : \A r \in Runs : \A k \in planned[p].keys[r] :
    \E m \in DOMAIN noted[p] :
      About(p, m, r, k, {"planned"}) /\ Open(p, m, r) /\ Unmade(p, m, r, k)
MapKnown ==
  \A p \in Procs : \A r \in Runs : Has(planned[p], r) =>
    \E m \in DOMAIN noted[p] : Noted(p, m, r, {"planned"})
MapComplete ==
  \A p \in Procs : \A r \in Runs : \A m \in DOMAIN noted[p] :
    Noted(p, m, r, {"planned"}) /\ r \notin lost /\ Open(p, m, r) => Has(planned[p], r)

(* A planned asset is remembered; or was made, or told to have failed,     *)
(* before any failure of its run was noticed; or the run ended otherwise.  *)
Kept(p, m, r, k) ==
  \/ k \in planned[p].keys[r] /\ Unfailed(p, m, r)
  \/ \E d \in DOMAIN noted[p] :
       /\ d > m /\ About(p, d, r, k, {"materialized"})
       /\ \A e \in DOMAIN noted[p] : e > m /\ e < d => ~ Noted(p, e, r, {"run_failure"})
  \/ \E c \in Made : RunOf(c) = r /\ c.key = k /\ c.kind \in {"failed", "not_materialized"}
  \/ \E j \in DOMAIN log : log[j].run = r /\ log[j].type \in {"run_success", "run_canceled"}
PlansKept ==
  \A p \in Procs : \A r \in Runs : \A k \in Steps : \A m \in DOMAIN noted[p] :
    About(p, m, r, k, {"planned"}) /\ Whole(r) => Kept(p, m, r, k)

(* A run ends once. *)
OneEnd ==
  \A i, j \in DOMAIN log :
    log[i].run = log[j].run /\ log[i].type \in RunEnds /\ log[j].type \in RunEnds => i = j

(* What the properties say of the calls that were made, of all calls. *)
FailedSafe ==
  \A c \in Made : c.kind = "failed" =>
    \E p \in Procs : \E n \in DOMAIN noted[p] :
      /\ noted[p][n] = c.rec
      /\ log[c.rec].type \in {"run_failure", "step_failure"}
      /\ \E m \in 1 .. n - 1 :
           /\ About(p, m, RunOf(c), c.key, {"planned"})
           /\ \A d \in m + 1 .. n - 1 :
                ~ About(p, d, RunOf(c), c.key, Taken) /\ ~ Noted(p, d, RunOf(c), Closing)
EmbeddedSafe ==
  \A c \in Made : c.kind = "check_planned" /\ Whole(RunOf(c)) =>
    \A p \in Procs : \A n \in DOMAIN noted[p] : noted[p][n] = c.rec =>
      \A m \in 1 .. n - 1 : Noted(p, m, RunOf(c), {"planned"}) =>
        \E d \in m + 1 .. n - 1 : Noted(p, d, RunOf(c), Closing)

Written == dropped \subseteq DOMAIN log

StorageInv ==
  /\ TypeOK /\ Threaded /\ Written /\ Notes /\ Fresh /\ MadeOfNoted /\ OneEnd
  /\ MapSound /\ MapKnown /\ MapComplete /\ PlansKept
  /\ FailedSafe /\ EmbeddedSafe /\ NothingForgotten

------------------------------------------------------------------------------
(* Taking a run out of an order leaves the others, each still once. *)
LEMMA WithoutIs ==
  ASSUME NEW s \in Orders, NEW r
  PROVE  /\ Without(s, r) \in Orders
         /\ \A x : Contains(Without(s, r), x) <=> x # r /\ Contains(s, x)
<1>1. s \in Seq(Runs) /\ Once(s) /\ DOMAIN s = 1 .. Len(s) /\ Len(s) \in Nat
  BY DEF Orders
<1>2. CASE ~ Contains(s, r)
  BY <1>2 DEF Without, Contains
<1>3. CASE Contains(s, r)
  <2> DEFINE k == Place(s, r)
             t == RemoveAt(s, k)
  <2>1. k \in 1 .. Len(s) /\ s[k] = r
    BY <1>1, <1>3 DEF Contains, Place
  <2>2. Without(s, r) = t
    BY <1>3 DEF Without
  <2> HIDE DEF k
  <2>3. /\ t \in Seq(Runs) /\ Len(t) = Len(s) - 1
        /\ \A i \in 1 .. Len(s) - 1 : t[i] = IF i < k THEN s[i] ELSE s[i + 1]
    <3>1. \A i \in 1 .. Len(s) : s[i] \in Runs
      BY <1>1
    <3>2. PICK a : a = SubSeq(s, 1, k - 1)
      OBVIOUS
    <3>3. PICK b : b = SubSeq(s, k + 1, Len(s))
      OBVIOUS
    <3>4. /\ a \in Seq(Runs) /\ Len(a) = k - 1
          /\ \A i \in 1 .. k - 1 : a[i] = s[i]
      <4>1. k \in Int /\ Len(s) \in Int /\ k - 1 \in Int /\ \A i \in 1 .. k - 1 : i \in 1 .. Len(s)
        BY <1>1, <2>1
      <4>2. \A i \in 1 .. k - 1 : s[i] \in Runs
        BY <3>1, <4>1
      <4>3. /\ a \in Seq(Runs) /\ Len(a) = IF 1 <= k - 1 THEN k - 1 - 1 + 1 ELSE 0
            /\ \A i \in 1 .. k - 1 - 1 + 1 : a[i] = s[1 + i - 1]
        BY <3>2, <4>1, <4>2, SubSeqProperties
      <4> QED BY <1>1, <2>1, <4>3
    <3>5. /\ b \in Seq(Runs) /\ Len(b) = Len(s) - k
          /\ \A i \in 1 .. Len(s) - k : b[i] = s[k + i]
      <4>1. k + 1 \in Int /\ Len(s) \in Int /\ \A i \in k + 1 .. Len(s) : i \in 1 .. Len(s)
        BY <1>1, <2>1
      <4>2. \A i \in k + 1 .. Len(s) : s[i] \in Runs
        BY <3>1, <4>1
      <4>3. /\ b \in Seq(Runs)
            /\ Len(b) = IF k + 1 <= Len(s) THEN Len(s) - (k + 1) + 1 ELSE 0
            /\ \A i \in 1 .. Len(s) - (k + 1) + 1 : b[i] = s[k + 1 + i - 1]
        BY <3>3, <4>1, <4>2, SubSeqProperties
      <4>4. k \in Nat /\ Len(s) \in Nat /\ k <= Len(s)
        BY <1>1, <2>1
      <4>5. Len(s) - (k + 1) + 1 = Len(s) - k /\ \A i \in Int : k + 1 + i - 1 = k + i
        BY <4>4
      <4>6. Len(b) = Len(s) - k
        BY <4>3, <4>4
      <4>7. ASSUME NEW i \in 1 .. Len(s) - k PROVE b[i] = s[k + i]
        <5>1. i \in 1 .. Len(s) - (k + 1) + 1 /\ k + 1 + i - 1 = k + i
          BY <4>4
        <5>2. b[i] = s[k + 1 + i - 1]
          BY <4>3, <5>1
        <5> QED BY <5>1, <5>2
      <4> QED BY <4>3, <4>6, <4>7
    <3>6. t = a \o b
      BY <3>2, <3>3 DEF RemoveAt
    <3>7. /\ t \in Seq(Runs) /\ Len(t) = Len(a) + Len(b)
          /\ \A i \in 1 .. Len(a) + Len(b) : t[i] = IF i <= Len(a) THEN a[i] ELSE b[i - Len(a)]
      <4> HIDE DEF t
      <4>1. /\ a \o b \in Seq(Runs) /\ Len(a \o b) = Len(a) + Len(b)
            /\ \A i \in 1 .. Len(a) + Len(b) :
                 (a \o b)[i] = IF i <= Len(a) THEN a[i] ELSE b[i - Len(a)]
        BY <3>4, <3>5, ConcatProperties
      <4> QED BY <3>6, <4>1
    <3> HIDE DEF t
    <3>8. ASSUME NEW i \in 1 .. Len(s) - 1
          PROVE  t[i] = IF i < k THEN s[i] ELSE s[i + 1]
      <4>1. t[i] = IF i <= k - 1 THEN a[i] ELSE b[i - (k - 1)]
        BY <1>1, <2>1, <3>4, <3>5, <3>7
      <4>2. CASE i < k
        BY <1>1, <2>1, <3>4, <4>1, <4>2
      <4>3. CASE ~ (i < k)
        <5>1. i - (k - 1) \in 1 .. Len(s) - k /\ k + (i - (k - 1)) = i + 1
          BY <1>1, <2>1, <4>3
        <5>2. t[i] = b[i - (k - 1)]
          BY <1>1, <2>1, <4>1, <4>3
        <5> QED BY <3>5, <4>3, <5>1, <5>2
      <4> QED BY <4>2, <4>3
    <3>9. Len(t) = Len(s) - 1
      BY <1>1, <2>1, <3>4, <3>5, <3>7
    <3> QED BY <3>7, <3>8, <3>9
  <2> HIDE DEF t
  <2>4. \A i, j \in 1 .. Len(s) : s[i] = s[j] => i = j
    BY <1>1 DEF Once
  <2>5. ASSUME NEW i \in DOMAIN t, NEW j \in DOMAIN t, t[i] = t[j] PROVE i = j
    <3>1. i \in 1 .. Len(s) - 1 /\ j \in 1 .. Len(s) - 1
      BY <2>3
    <3> QED BY <1>1, <2>1, <2>3, <2>4, <2>5, <3>1
  <2>6. t \in Orders
    BY <2>3, <2>5 DEF Orders, Once
  <2>7. ASSUME NEW x, x # r, Contains(s, x) PROVE Contains(t, x)
    <3>1. PICK i \in 1 .. Len(s) : s[i] = x
      BY <2>7 DEF Contains
    <3>2. i # k
      BY <2>1, <2>7, <3>1
    <3>3. CASE i < k
      <4>1. i \in 1 .. Len(s) - 1 /\ t[i] = x
        BY <1>1, <2>1, <2>3, <3>1, <3>3
      <4> QED BY <2>3, <4>1 DEF Contains
    <3>4. CASE i > k
      <4>1. i - 1 \in 1 .. Len(s) - 1 /\ t[i - 1] = x
        BY <1>1, <2>1, <2>3, <3>1, <3>4
      <4> QED BY <2>3, <4>1 DEF Contains
    <3> QED BY <1>1, <2>1, <3>2, <3>3, <3>4
  <2>8. ASSUME NEW x, Contains(t, x) PROVE x # r /\ Contains(s, x)
    <3>1. PICK i \in 1 .. Len(s) - 1 : t[i] = x
      BY <2>3, <2>8 DEF Contains
    <3>2. PICK j \in 1 .. Len(s) : j # k /\ x = s[j]
      BY <1>1, <2>1, <2>3, <3>1
    <3>3. x # r
      BY <2>1, <2>4, <3>2
    <3> QED BY <3>2, <3>3 DEF Contains
  <2> QED BY <2>2, <2>6, <2>7, <2>8
<1> QED BY <1>2, <1>3

(* _planned_assets.pop: the run is forgotten with its assets, and no       *)
(* other.                                                                  *)
LEMMA PopIs ==
  ASSUME NEW p \in Plans, NEW r \in Runs
  PROVE  /\ Pop(p, r) \in Plans
         /\ \A x \in Runs : Has(Pop(p, r), x) <=> x # r /\ Has(p, x)
         /\ Pop(p, r).keys[r] = {}
         /\ \A x \in Runs : x # r => Pop(p, r).keys[x] = p.keys[x]
<1>1. p.order \in Orders /\ p.keys \in [Runs -> SUBSET Steps]
      /\ \A x \in Runs : ~ Has(p, x) => p.keys[x] = {}
  BY DEF Plans
<1> DEFINE q == Pop(p, r)
<1>2. /\ q.order = Without(p.order, r) /\ q.keys = [p.keys EXCEPT ![r] = {}]
      /\ q = [order |-> q.order, keys |-> q.keys]
  BY DEF Pop
<1> HIDE DEF q
<1>3. q.order \in Orders /\ \A x : Has(q, x) <=> x # r /\ Has(p, x)
  BY <1>1, <1>2, WithoutIs DEF Has
<1>4. /\ q.keys \in [Runs -> SUBSET Steps] /\ q.keys[r] = {}
      /\ \A x \in Runs : x # r => q.keys[x] = p.keys[x]
  BY <1>1, <1>2
<1>5. \A x \in Runs : ~ Has(q, x) => q.keys[x] = {}
  BY <1>1, <1>3, <1>4
<1>6. q \in Plans
  BY <1>2, <1>3, <1>4, <1>5 DEF Plans
<1> QED BY <1>3, <1>4, <1>6 DEF q

(* A run that is not in an order can be put at its end. *)
LEMMA AppendOrder ==
  ASSUME NEW s \in Orders, NEW r \in Runs, ~ Contains(s, r)
  PROVE  /\ Append(s, r) \in Orders
         /\ \A x : Contains(Append(s, r), x) <=> x = r \/ Contains(s, x)
<1> DEFINE t == Append(s, r)
<1>1. s \in Seq(Runs) /\ Once(s) /\ DOMAIN s = 1 .. Len(s) /\ Len(s) \in Nat
  BY DEF Orders
<1>2. /\ t \in Seq(Runs) /\ Len(t) = Len(s) + 1 /\ DOMAIN t = 1 .. Len(t)
      /\ t[Len(s) + 1] = r /\ \A i \in 1 .. Len(s) : t[i] = s[i]
  BY <1>1
<1> HIDE DEF t
<1>3. \A i \in 1 .. Len(s) : s[i] # r
  BY DEF Contains
<1>4. ASSUME NEW i \in DOMAIN t, NEW j \in DOMAIN t, t[i] = t[j] PROVE i = j
  <2>1. i \in 1 .. Len(s) + 1 /\ j \in 1 .. Len(s) + 1
    BY <1>2
  <2> QED BY <1>1, <1>2, <1>3, <1>4, <2>1 DEF Once
<1>5. t \in Orders
  BY <1>2, <1>4 DEF Orders, Once
<1>6. ASSUME NEW x PROVE Contains(t, x) <=> x = r \/ Contains(s, x)
  <2>1. Contains(t, x) => x = r \/ Contains(s, x)
    BY <1>1, <1>2 DEF Contains
  <2>2. Contains(s, x) => Contains(t, x)
    BY <1>1, <1>2 DEF Contains
  <2>3. x = r => Contains(t, x)
    <3>1. Len(s) + 1 \in 1 .. Len(t)
      BY <1>1, <1>2
    <3> QED BY <1>2, <3>1 DEF Contains
  <2> QED BY <2>1, <2>2, <2>3
<1> QED BY <1>5, <1>6 DEF t

(* A planned asset joins those of its run; another run keeps what it had,  *)
(* or is the one that made room.                                           *)
LEMMA PlanIs ==
  ASSUME NEW p \in Plans, NEW r \in Runs, NEW k \in Steps
  PROVE  /\ Plan(p, r, k) \in Plans
         /\ Has(Plan(p, r, k), r) /\ Plan(p, r, k).keys[r] = p.keys[r] \cup {k}
         /\ \A x \in Runs : x # r /\ Has(Plan(p, r, k), x) =>
              Has(p, x) /\ Plan(p, r, k).keys[x] = p.keys[x]
<1> DEFINE room == IF ~ Has(p, r) /\ Full(p) THEN Pop(p, Head(p.order)) ELSE p
           q == Plan(p, r, k)
<1>1. /\ room \in Plans /\ room.keys[r] = p.keys[r]
      /\ \A x \in Runs : Has(room, x) => Has(p, x) /\ room.keys[x] = p.keys[x]
  <2>1. CASE ~ Has(p, r) /\ Full(p)
    <3> DEFINE e == Head(p.order)
    <3>1. p.order \in Seq(Runs) /\ Len(p.order) \in Nat /\ MaxRuns \in Nat \ {0}
      BY StorageAssumption DEF Plans, Orders
    <3>2. Len(p.order) >= 1
      BY <2>1, <3>1 DEF Full
    <3>3. p.order # << >> /\ e = p.order[1] /\ 1 \in 1 .. Len(p.order)
      BY <3>1, <3>2
    <3>4. e \in Runs /\ Has(p, e)
      BY <3>1, <3>3 DEF Has, Contains
    <3>5. e # r
      BY <2>1, <3>4
    <3>6. room = Pop(p, e)
      BY <2>1
    <3> HIDE DEF e, room
    <3> QED BY <3>4, <3>5, <3>6, PopIs
  <2>2. CASE ~ (~ Has(p, r) /\ Full(p))
    BY <2>2
  <2> QED BY <2>1, <2>2
<1>2. q = [order |-> Append(Without(room.order, r), r),
           keys |-> [room.keys EXCEPT ![r] = room.keys[r] \cup {k}]]
  BY DEF Plan
<1> HIDE DEF room, q
<1>3. room.order \in Orders /\ room.keys \in [Runs -> SUBSET Steps]
      /\ \A x \in Runs : ~ Has(room, x) => room.keys[x] = {}
  BY <1>1 DEF Plans
<1>4. q.order = Append(Without(room.order, r), r)
      /\ q.keys = [room.keys EXCEPT ![r] = room.keys[r] \cup {k}]
      /\ q = [order |-> q.order, keys |-> q.keys]
  BY <1>2
<1>5. /\ Without(room.order, r) \in Orders
      /\ \A x : Contains(Without(room.order, r), x) <=> x # r /\ Contains(room.order, x)
  BY <1>3, WithoutIs
<1>6. q.order \in Orders /\ \A x : Has(q, x) <=> x = r \/ Has(room, x)
  BY <1>4, <1>5, AppendOrder DEF Has
<1>7. /\ q.keys \in [Runs -> SUBSET Steps] /\ q.keys[r] = p.keys[r] \cup {k}
      /\ \A x \in Runs : x # r => q.keys[x] = room.keys[x]
  BY <1>1, <1>3, <1>4
<1>8. \A x \in Runs : ~ Has(q, x) => q.keys[x] = {}
  BY <1>3, <1>6, <1>7
<1>9. q \in Plans
  BY <1>4, <1>6, <1>7, <1>8 DEF Plans
<1>10. Has(q, r) /\ \A x \in Runs : x # r /\ Has(q, x) => Has(p, x) /\ q.keys[x] = p.keys[x]
  BY <1>1, <1>6, <1>7
<1> QED BY <1>7, <1>9, <1>10 DEF q

(* One asset of one run is discarded, and nothing else changes.            *)
LEMMA DiscardIs ==
  ASSUME NEW p \in Plans, NEW r \in Runs, NEW k
  PROVE  /\ Discard(p, r, k) \in Plans
         /\ \A x \in Runs : Has(Discard(p, r, k), x) <=> Has(p, x)
         /\ Discard(p, r, k).keys[r] = p.keys[r] \ {k}
         /\ \A x \in Runs : x # r => Discard(p, r, k).keys[x] = p.keys[x]
<1>1. /\ p = [order |-> p.order, keys |-> p.keys] /\ p.order \in Orders
      /\ p.keys \in [Runs -> SUBSET Steps]
      /\ \A x \in Runs : ~ Has(p, x) => p.keys[x] = {}
  BY DEF Plans
<1> DEFINE q == Discard(p, r, k)
<1>2. q.order = p.order /\ q.keys = [p.keys EXCEPT ![r] = p.keys[r] \ {k}]
      /\ q = [order |-> q.order, keys |-> q.keys]
  BY <1>1 DEF Discard
<1> HIDE DEF q
<1>3. /\ q.keys \in [Runs -> SUBSET Steps] /\ q.keys[r] = p.keys[r] \ {k}
      /\ \A x \in Runs : x # r => q.keys[x] = p.keys[x]
  BY <1>1, <1>2
<1>4. \A x : Has(q, x) <=> Has(p, x)
  BY <1>2 DEF Has
<1>5. \A x \in Runs : ~ Has(q, x) => q.keys[x] = {}
  BY <1>1, <1>3, <1>4
<1>6. q \in Plans
  BY <1>1, <1>2, <1>3, <1>5 DEF Plans
<1> QED BY <1>3, <1>4, <1>6 DEF q

(* What _dispatch does to the planned assets, type by type: only the       *)
(* event's own run changes, but for the one that is evicted.               *)
LEMMA RememberIs ==
  ASSUME NEW p \in Plans, NEW rec \in Records, NEW q, q = Remember(p, rec)
  PROVE  /\ q \in Plans
         /\ \A x \in Runs : x # rec.run /\ Has(q, x) => Has(p, x) /\ q.keys[x] = p.keys[x]
         /\ rec.type = "planned" =>
              Has(q, rec.run) /\ q.keys[rec.run] = p.keys[rec.run] \cup {rec.key}
         /\ rec.type \in {"materialized", "not_materialized"} =>
              (Has(q, rec.run) <=> Has(p, rec.run)) /\ q.keys[rec.run] = p.keys[rec.run] \ {rec.key}
         /\ rec.type \in Closing => ~ Has(q, rec.run) /\ q.keys[rec.run] = {}
         /\ rec.type \notin {"planned", "materialized", "not_materialized"} \cup Closing => q = p
<1>1. rec.run \in Runs /\ rec.type \in AssetTypes => rec.key \in Steps
  BY DEF Records, AssetTypes, RunTypes, RunEnds, StepTypes, StepEnds
<1>2. rec.run \in Runs
  BY DEF Records
<1>3. CASE rec.type = "planned"
  <2>1. rec.key \in Steps /\ Remember(p, rec) = Plan(p, rec.run, rec.key)
    BY <1>1, <1>2, <1>3 DEF Remember, AssetTypes
  <2> QED BY <1>2, <1>3, <2>1, PlanIs DEF Closing, RunEnds
<1>4. CASE rec.type \in {"materialized", "not_materialized"}
  <2>1. Remember(p, rec) = Discard(p, rec.run, rec.key)
    BY <1>4 DEF Remember
  <2> QED BY <1>2, <1>4, <2>1, DiscardIs DEF Closing, RunEnds
<1>5. CASE rec.type \in Closing
  <2>1. Remember(p, rec) = Pop(p, rec.run)
    BY <1>5 DEF Remember, Closing, RunEnds
  <2> QED BY <1>2, <1>5, <2>1, PopIs DEF Closing, RunEnds
<1>6. CASE rec.type \notin {"planned", "materialized", "not_materialized"} \cup Closing
  <2>1. Remember(p, rec) = p
    BY <1>6 DEF Remember
  <2> QED BY <1>6, <2>1
<1> QED BY <1>3, <1>4, <1>5, <1>6

------------------------------------------------------------------------------

(* What a stored event is, from the type of the log. *)
LEMMA RecordIs ==
  ASSUME TypeOK, NEW i \in DOMAIN log
  PROVE  /\ i \in Nat /\ i \in 1 .. Len(log) /\ log[i] \in Records /\ log[i].run \in Runs
         /\ log[i].type \in AssetTypes => log[i].key \in Steps
<1>1. i \in 1 .. Len(log) /\ log[i] \in Records /\ Len(log) \in Nat
  BY DEF TypeOK
<1> QED BY <1>1 DEF Records, AssetTypes, RunTypes, RunEnds, StepTypes, StepEnds

(* store_event appends to the log: the ids already given still name the    *)
(* same events.                                                            *)
LEMMA LogGrows ==
  ASSUME TypeOK, NEW rec \in Records, log' = Append(log, rec)
  PROVE  /\ log' \in Seq(Records) /\ Len(log) \in Nat /\ Len(log') = Len(log) + 1
         /\ DOMAIN log' = 1 .. Len(log) + 1 /\ DOMAIN log = 1 .. Len(log)
         /\ log'[Len(log) + 1] = rec /\ \A i \in DOMAIN log : log'[i] = log[i]
         /\ \A i \in DOMAIN log' : i \in DOMAIN log \/ i = Len(log) + 1
<1>1. log \in Seq(Records) /\ Len(log) \in Nat /\ DOMAIN log = 1 .. Len(log)
  BY DEF TypeOK
<1>2. /\ log' \in Seq(Records) /\ Len(log') = Len(log) + 1
      /\ log'[Len(log) + 1] = rec /\ \A i \in 1 .. Len(log) : log'[i] = log[i]
  BY <1>1
<1>3. DOMAIN log' = 1 .. Len(log) + 1
  BY <1>2
<1> QED BY <1>1, <1>2, <1>3

(* What a thread does with the calls it has left touches no other thread. *)
LEMMA ContinueIs ==
  ASSUME TypeOK, NEW w \in Threads, NEW calls \in SUBSET CallTypes, Continue(w, calls)
  PROVE  /\ out' \in [Threads -> SUBSET CallTypes] /\ on' \in [Threads -> Nat]
         /\ at' \in [Threads -> {"idle", "stored", "emit"}]
         /\ \A v \in Threads : v # w => out'[v] = out[v] /\ on'[v] = on[v] /\ at'[v] = at[v]
         /\ out'[w] = calls
         /\ calls = {} => at'[w] = "idle"
         /\ calls # {} => at'[w] = "emit" /\ on'[w] = on[w]
  BY DEF TypeOK, Continue

(* What _dispatch emits: one call for an asset event, but none for a check *)
(* planned with its run, and for a failure one for each asset its run is   *)
(* remembered to have planned.                                             *)
LEMMA CallsAre ==
  ASSUME TypeOK, NEW p \in Plans, NEW i \in DOMAIN log
  PROVE  /\ Calls(p, i) \in SUBSET CallTypes
         /\ \A c \in Calls(p, i) :
              /\ c.rec = i
              /\ c.kind = "check_planned" =>
                   log[i].type = "check_planned" /\ ~ Has(p, log[i].run)
              /\ c.kind = "failed" =>
                   /\ log[i].type \in {"run_failure", "step_failure"}
                   /\ c.key \in p.keys[log[i].run]
         /\ log[i].type \in AssetTypes =>
              \/ log[i].type = "check_planned" /\ Has(p, log[i].run)
              \/ \E c \in Calls(p, i) : c.kind = log[i].type /\ c.key = log[i].key
         /\ log[i].type \in {"run_failure", "step_failure"} =>
              \A k \in p.keys[log[i].run] :
                \E c \in Calls(p, i) : c.kind = "failed" /\ c.key = k
<1>1. log[i].run \in Runs /\ i \in Nat /\ (log[i].type \in AssetTypes => log[i].key \in Steps)
  BY RecordIs
<1>2. \A k \in p.keys[log[i].run] : k \in Steps
  BY <1>1 DEF Plans
<1>3. CASE log[i].type \in AssetTypes
  <2> DEFINE c0 == Call(i, log[i].type, log[i].key)
  <2>1. /\ c0 \in CallTypes /\ c0.rec = i /\ c0.kind = log[i].type /\ c0.key = log[i].key
        /\ c0.kind # "failed"
    BY <1>1, <1>3 DEF Call, CallTypes, AssetTypes
  <2>2. log[i].type \notin {"run_failure", "step_failure"}
    BY <1>3 DEF AssetTypes
  <2>3. Calls(p, i) = IF Embedded(p, log[i]) THEN {} ELSE {c0}
    BY <1>3, <2>2 DEF Calls, AssetCalls, DrainCalls
  <2> HIDE DEF c0
  <2>4. CASE Embedded(p, log[i])
    BY <2>2, <2>3, <2>4 DEF Embedded
  <2>5. CASE ~ Embedded(p, log[i])
    BY <2>1, <2>2, <2>3, <2>5 DEF Embedded
  <2> QED BY <2>4, <2>5
<1>4. CASE log[i].type \in {"run_failure", "step_failure"}
  <2>1. Calls(p, i) = {Call(i, "failed", k) : k \in p.keys[log[i].run]}
    BY <1>4 DEF Calls, AssetCalls, DrainCalls, AssetTypes
  <2>2. \A k \in p.keys[log[i].run] :
          /\ Call(i, "failed", k) \in CallTypes
          /\ Call(i, "failed", k).rec = i
          /\ Call(i, "failed", k).kind = "failed"
          /\ Call(i, "failed", k).key = k
    BY <1>1, <1>2 DEF Call, CallTypes
  <2>3. \A c \in Calls(p, i) :
          /\ c \in CallTypes /\ c.rec = i /\ c.kind = "failed"
          /\ c.key \in p.keys[log[i].run]
    <3> TAKE c \in Calls(p, i)
    <3>1. PICK k \in p.keys[log[i].run] : c = Call(i, "failed", k)
      BY <2>1, Zenon
    <3> QED BY <2>2, <3>1, Zenon
  <2>4. \A k \in p.keys[log[i].run] : \E c \in Calls(p, i) : c.kind = "failed" /\ c.key = k
    BY <2>1, <2>2
  <2>5. log[i].type \notin AssetTypes
    BY <1>4 DEF AssetTypes
  <2> QED BY <1>4, <2>3, <2>4, <2>5
<1>5. CASE log[i].type \notin AssetTypes \cup {"run_failure", "step_failure"}
  <2>1. Calls(p, i) = {}
    BY <1>5 DEF Calls, AssetCalls, DrainCalls
  <2> QED BY <1>5, <2>1
<1> QED BY <1>3, <1>4, <1>5

(* A process that starts remembers no run. *)
LEMMA NoRunsIs == NoRuns \in Plans /\ \A r : ~ Has(NoRuns, r)
<1>1. << >> \in Seq(Runs) /\ Once(<< >>) /\ \A r : ~ Contains(<< >>, r)
  BY DEF Once, Contains
<1> QED BY <1>1 DEF NoRuns, Plans, Orders, Has

(* What the death of a process changes: its threads stop, and what it      *)
(* remembered and was about to emit is accounted as lost.                  *)
LEMMA DieIs ==
  ASSUME TypeOK, NEW p \in Procs, Die(p)
  PROVE  /\ log' = log /\ noted' = noted /\ emitted' = emitted /\ lost \subseteq lost' /\ lost' \subseteq Runs
         /\ \A r : Has(planned[p], r) => r \in lost'
         /\ planned' = [planned EXCEPT ![p] = NoRuns]
         /\ planned' \in [Procs -> Plans]
         /\ at' \in [Threads -> {"idle", "stored", "emit"}]
         /\ on' \in [Threads -> Nat] /\ out' \in [Threads -> SUBSET CallTypes]
         /\ dropped \subseteq dropped' /\ dropped' \subseteq Nat
         /\ \A w \in Threads : Home[w] = p =>
              at'[w] = "idle" /\ out'[w] = {} /\ (at[w] # "idle" => on[w] \in dropped')
         /\ \A w \in Threads : Home[w] # p =>
              at'[w] = at[w] /\ on'[w] = on[w] /\ out'[w] = out[w]
<1>1. planned[p].order \in Seq(Runs)
  BY DEF TypeOK, Plans, Orders
<1>2. /\ lost' = lost \cup Range(planned[p].order)
      /\ dropped' = dropped \cup {on[w] : w \in {v \in Threads : Home[v] = p /\ at[v] # "idle"}}
      /\ log' = log /\ noted' = noted /\ emitted' = emitted
      /\ planned' = [planned EXCEPT ![p] = NoRuns]
      /\ at' = [w \in Threads |-> IF Home[w] = p THEN "idle" ELSE at[w]]
      /\ on' = [w \in Threads |-> IF Home[w] = p THEN 0 ELSE on[w]]
      /\ out' = [w \in Threads |-> IF Home[w] = p THEN {} ELSE out[w]]
  BY DEF Die
<1>3. /\ Range(planned[p].order) \subseteq Runs
      /\ \A r : Has(planned[p], r) => r \in Range(planned[p].order)
  BY <1>1 DEF Range, Has, Contains
<1>4. planned' \in [Procs -> Plans]
  BY <1>2, NoRunsIs DEF TypeOK
<1>5. /\ at' \in [Threads -> {"idle", "stored", "emit"}]
      /\ on' \in [Threads -> Nat] /\ out' \in [Threads -> SUBSET CallTypes]
  BY <1>2 DEF TypeOK
<1>6. dropped' \subseteq Nat
  BY <1>2 DEF TypeOK
<1> QED BY <1>2, <1>3, <1>4, <1>5, <1>6 DEF TypeOK


------------------------------------------------------------------------------
(* What is noted of a run keeps its meaning while the log only grows. *)
LEMMA SameNotes ==
  ASSUME Notes, noted' = noted, \A i \in DOMAIN log : i \in DOMAIN log' /\ log'[i] = log[i],
         NEW p \in Procs, NEW n \in DOMAIN noted[p]
  PROVE  /\ n \in DOMAIN noted'[p] /\ noted[p][n] \in DOMAIN log /\ noted'[p][n] = noted[p][n]
         /\ \A r, T : Noted(p, n, r, T)' <=> Noted(p, n, r, T)
         /\ \A r, k, T : About(p, n, r, k, T)' <=> About(p, n, r, k, T)
<1>1. noted'[p][n] = noted[p][n] /\ noted[p][n] \in DOMAIN log /\ n \in DOMAIN noted'[p]
  BY DEF Notes
<1>2. log'[noted'[p][n]] = log[noted[p][n]]
  BY <1>1
<1> QED BY <1>1, <1>2 DEF About, Noted

(* A step in which no process takes notice of anything, that forgets       *)
(* nothing it does not account for and makes no new call, keeps what the   *)
(* invariant says of maps and calls.                                       *)
LEMMA Steady ==
  ASSUME StorageInv, noted' = noted, lost \subseteq lost', dropped \subseteq dropped',
         \A i \in DOMAIN log : i \in DOMAIN log' /\ log'[i] = log[i],
         \A p \in Procs : \A r \in Runs :
           /\ planned'[p].keys[r] \subseteq planned[p].keys[r]
           /\ Has(planned'[p], r) => Has(planned[p], r)
           /\ r \notin lost' => /\ Has(planned[p], r) => Has(planned'[p], r)
                                /\ planned'[p].keys[r] = planned[p].keys[r],
         Made' \subseteq Made,
         \A c \in Made : \A r : r = log[c.rec].run => c \in Made' \/ ~ Whole(r)'
  PROVE  /\ Notes' /\ MadeOfNoted' /\ MapSound' /\ MapKnown' /\ MapComplete' /\ PlansKept'
         /\ FailedSafe' /\ EmbeddedSafe'
<1>1. /\ Notes /\ MadeOfNoted /\ MapSound /\ MapKnown /\ MapComplete /\ PlansKept
      /\ FailedSafe /\ EmbeddedSafe /\ Written
  BY DEF StorageInv
<1>2. \A p \in Procs : \A n \in DOMAIN noted[p] :
        /\ n \in DOMAIN noted'[p] /\ noted[p][n] \in DOMAIN log /\ noted'[p][n] = noted[p][n]
        /\ \A r, T : Noted(p, n, r, T)' <=> Noted(p, n, r, T)
        /\ \A r, k, T : About(p, n, r, k, T)' <=> About(p, n, r, k, T)
  BY <1>1, SameNotes
<1>3. \A p \in Procs : DOMAIN noted'[p] = DOMAIN noted[p]
  OBVIOUS
<1>4. Notes'
  BY <1>1, <1>2, <1>3 DEF Notes
<1>5. \A r : Whole(r)' => Whole(r)
  BY <1>1 DEF Whole, Written
<1>6. \A p \in Procs : \A m \in DOMAIN noted[p] : \A r :
        /\ Open(p, m, r)' <=> Open(p, m, r)
        /\ Unfailed(p, m, r)' <=> Unfailed(p, m, r)
        /\ \A k : Unmade(p, m, r, k)' <=> Unmade(p, m, r, k)
  BY <1>2, <1>3 DEF Open, Unfailed, Unmade
<1>7. MapSound'
  <2> SUFFICES ASSUME NEW p \in Procs, NEW r \in Runs, NEW k \in planned'[p].keys[r]
               PROVE  \E m \in DOMAIN noted'[p] :
                        /\ About(p, m, r, k, {"planned"})'
                        /\ Open(p, m, r)' /\ Unmade(p, m, r, k)'
    BY DEF MapSound
  <2>1. k \in planned[p].keys[r]
    OBVIOUS
  <2>2. PICK m \in DOMAIN noted[p] :
          About(p, m, r, k, {"planned"}) /\ Open(p, m, r) /\ Unmade(p, m, r, k)
    BY <1>1, <2>1 DEF MapSound
  <2> QED BY <1>2, <1>6, <2>2
<1>8. MapKnown'
  <2> SUFFICES ASSUME NEW p \in Procs, NEW r \in Runs, Has(planned'[p], r)
               PROVE  \E m \in DOMAIN noted'[p] : Noted(p, m, r, {"planned"})'
    BY DEF MapKnown
  <2>1. PICK m \in DOMAIN noted[p] : Noted(p, m, r, {"planned"})
    BY <1>1 DEF MapKnown
  <2> QED BY <1>2, <2>1
<1>9. MapComplete'
  <2> SUFFICES ASSUME NEW p \in Procs, NEW r \in Runs, NEW m \in DOMAIN noted'[p],
                      Noted(p, m, r, {"planned"})', r \notin lost', Open(p, m, r)'
               PROVE  Has(planned'[p], r)
    BY DEF MapComplete
  <2>1. m \in DOMAIN noted[p] /\ Noted(p, m, r, {"planned"}) /\ r \notin lost /\ Open(p, m, r)
    BY <1>2, <1>3, <1>6
  <2>2. Has(planned[p], r)
    BY <1>1, <2>1 DEF MapComplete
  <2> QED BY <2>2
<1>10. MadeOfNoted'
  <2> SUFFICES ASSUME NEW c \in Made'
               PROVE  /\ c.rec \in DOMAIN log'
                      /\ \E p \in Procs : \E n \in DOMAIN noted'[p] : noted'[p][n] = c.rec
    BY DEF MadeOfNoted
  <2>1. c \in Made
    OBVIOUS
  <2> QED BY <1>1, <2>1 DEF MadeOfNoted
<1>11. \A c \in Made : c.rec \in DOMAIN log /\ log'[c.rec] = log[c.rec]
  BY <1>1 DEF MadeOfNoted
<1>12. \A c \in Made : RunOf(c)' = RunOf(c)
  BY <1>11 DEF RunOf
<1>13. FailedSafe'
  <2> SUFFICES ASSUME NEW c \in Made', c.kind = "failed"
               PROVE  \E p \in Procs : \E n \in DOMAIN noted'[p] :
                        /\ noted'[p][n] = c.rec
                        /\ log'[c.rec].type \in {"run_failure", "step_failure"}
                        /\ \E m \in 1 .. n - 1 :
                             /\ About(p, m, RunOf(c), c.key, {"planned"})'
                             /\ \A d \in m + 1 .. n - 1 :
                                  /\ ~ About(p, d, RunOf(c), c.key, Taken)'
                                  /\ ~ Noted(p, d, RunOf(c), Closing)'
    BY DEF FailedSafe
  <2>1. c \in Made
    OBVIOUS
  <2>11. PICK r : r = RunOf(c)
    OBVIOUS
  <2>9. PICK p \in Procs : \E n \in DOMAIN noted[p] :
          /\ noted[p][n] = c.rec /\ log[c.rec].type \in {"run_failure", "step_failure"}
          /\ \E m \in 1 .. n - 1 :
               /\ About(p, m, r, c.key, {"planned"})
               /\ \A d \in m + 1 .. n - 1 :
                    ~ About(p, d, r, c.key, Taken) /\ ~ Noted(p, d, r, Closing)
    BY <1>1, <2>1, <2>11 DEF FailedSafe
  <2>10. PICK n \in DOMAIN noted[p] :
          /\ noted[p][n] = c.rec /\ log[c.rec].type \in {"run_failure", "step_failure"}
          /\ \E m \in 1 .. n - 1 :
               /\ About(p, m, r, c.key, {"planned"})
               /\ \A d \in m + 1 .. n - 1 :
                    ~ About(p, d, r, c.key, Taken) /\ ~ Noted(p, d, r, Closing)
    BY <2>9
  <2>2. PICK m \in 1 .. n - 1 :
          /\ noted[p][n] = c.rec /\ log[c.rec].type \in {"run_failure", "step_failure"}
          /\ About(p, m, r, c.key, {"planned"})
          /\ \A d \in m + 1 .. n - 1 : ~ About(p, d, r, c.key, Taken) /\ ~ Noted(p, d, r, Closing)
    BY <2>10
  <2>3. \A d \in 1 .. n - 1 : d \in DOMAIN noted[p]
    BY DEF StorageInv, TypeOK
  <2>4. RunOf(c)' = r
    BY <1>12, <2>1, <2>11
  <2>5. About(p, m, r, c.key, {"planned"})'
    BY <1>2, <2>2, <2>3
  <2>6. ASSUME NEW d \in m + 1 .. n - 1
        PROVE  ~ About(p, d, r, c.key, Taken)' /\ ~ Noted(p, d, r, Closing)'
    <3>1. d \in DOMAIN noted[p]
      BY <2>3
    <3> QED BY <1>2, <2>2, <3>1
  <2>7. /\ About(p, m, RunOf(c), c.key, {"planned"})'
        /\ \A d \in m + 1 .. n - 1 :
             ~ About(p, d, RunOf(c), c.key, Taken)' /\ ~ Noted(p, d, RunOf(c), Closing)'
    BY <2>4, <2>5, <2>6 DEF About, Noted
  <2>8. n \in DOMAIN noted'[p] /\ noted'[p][n] = c.rec
        /\ log'[c.rec].type \in {"run_failure", "step_failure"}
    BY <1>2, <1>11, <2>1, <2>2
  <2> QED BY <2>7, <2>8
<1>14. EmbeddedSafe'
  <2> SUFFICES ASSUME NEW c \in Made', c.kind = "check_planned", Whole(RunOf(c))',
                      NEW p \in Procs, NEW n \in DOMAIN noted'[p], noted'[p][n] = c.rec,
                      NEW m \in 1 .. n - 1, Noted(p, m, RunOf(c), {"planned"})'
               PROVE  \E d \in m + 1 .. n - 1 : Noted(p, d, RunOf(c), Closing)'
    BY DEF EmbeddedSafe
  <2>10. PICK r : r = RunOf(c)
    OBVIOUS
  <2>1. c \in Made /\ RunOf(c)' = r
    BY <1>12, <2>10
  <2>2. n \in DOMAIN noted[p] /\ noted[p][n] = c.rec
    BY <1>3, <1>2
  <2>3. \A d \in 1 .. n - 1 : d \in DOMAIN noted[p]
    BY <2>2 DEF StorageInv, TypeOK
  <2>4. Whole(r)
    <3>1. Whole(r)'
      BY <2>1 DEF Whole
    <3> QED BY <1>5, <3>1
  <2>5. Noted(p, m, r, {"planned"})'
    BY <2>1 DEF Noted
  <2>6. Noted(p, m, r, {"planned"})
    BY <1>2, <2>3, <2>5
  <2>7. PICK d \in m + 1 .. n - 1 : Noted(p, d, r, Closing)
    BY <1>1, <2>1, <2>2, <2>4, <2>6, <2>10 DEF EmbeddedSafe
  <2>8. d \in DOMAIN noted[p]
    BY <2>3
  <2>9. Noted(p, d, r, Closing)'
    BY <1>2, <2>7, <2>8
  <2> QED BY <2>1, <2>9 DEF Noted
<1>15. PlansKept'
  <2> SUFFICES ASSUME NEW p \in Procs, NEW r \in Runs, NEW k \in Steps,
                      NEW m \in DOMAIN noted'[p],
                      About(p, m, r, k, {"planned"})', Whole(r)'
               PROVE  Kept(p, m, r, k)'
    BY DEF PlansKept
  <2>1. m \in DOMAIN noted[p] /\ About(p, m, r, k, {"planned"}) /\ Whole(r) /\ r \notin lost'
    BY <1>2, <1>3, <1>5 DEF Whole
  <2>2. Kept(p, m, r, k)
    BY <1>1, <2>1 DEF PlansKept
  <2>3. CASE k \in planned[p].keys[r] /\ Unfailed(p, m, r)
    BY <1>6, <2>1, <2>3 DEF Kept
  <2>4. ASSUME NEW d \in DOMAIN noted[p], d > m, About(p, d, r, k, {"materialized"}),
               \A e \in DOMAIN noted[p] : e > m /\ e < d => ~ Noted(p, e, r, {"run_failure"})
        PROVE  Kept(p, m, r, k)'
    <3>1. d \in DOMAIN noted'[p] /\ About(p, d, r, k, {"materialized"})'
      BY <1>2, <2>4
    <3>2. \A e \in DOMAIN noted'[p] : e > m /\ e < d => ~ Noted(p, e, r, {"run_failure"})'
      BY <1>2, <1>3, <2>4
    <3> QED BY <2>4, <3>1, <3>2 DEF Kept
  <2>5. ASSUME NEW c \in Made, RunOf(c) = r, c.key = k, c.kind \in {"failed", "not_materialized"}
        PROVE  Kept(p, m, r, k)'
    <3>1. log[c.rec].run = r
      BY <2>5 DEF RunOf
    <3>2. c \in Made'
      BY <3>1
    <3>3. RunOf(c)' = r
      BY <1>12, <2>5
    <3> QED BY <2>5, <3>2, <3>3 DEF Kept
  <2>6. ASSUME NEW j \in DOMAIN log, log[j].run = r,
               log[j].type \in {"run_success", "run_canceled"}
        PROVE  Kept(p, m, r, k)'
    <3>1. j \in DOMAIN log' /\ log'[j] = log[j]
      OBVIOUS
    <3> QED BY <2>6, <3>1 DEF Kept
  <2> QED BY <2>2, <2>3, <2>4, <2>5, <2>6 DEF Kept
<1> QED BY <1>4, <1>7, <1>8, <1>9, <1>10, <1>13, <1>14, <1>15

------------------------------------------------------------------------------
(* A planned check left to its assets stays so while the log only grows. *)
LeftToAssets(i) ==
  /\ log[i].type = "check_planned"
  /\ \E p \in Procs : \E n \in DOMAIN noted[p] :
       noted[p][n] = i /\ \E m \in 1 .. n - 1 : Noted(p, m, log[i].run, {"planned"})

LEMMA StillLeft ==
  ASSUME TypeOK, Notes, noted' = noted,
         \A j \in DOMAIN log : j \in DOMAIN log' /\ log'[j] = log[j],
         NEW i \in DOMAIN log, LeftToAssets(i)
  PROVE  LeftToAssets(i)'
<1>1. PICK p \in Procs : \E n \in DOMAIN noted[p] :
        noted[p][n] = i /\ \E m \in 1 .. n - 1 : Noted(p, m, log[i].run, {"planned"})
  BY DEF LeftToAssets
<1>2. PICK n \in DOMAIN noted[p] :
        noted[p][n] = i /\ \E m \in 1 .. n - 1 : Noted(p, m, log[i].run, {"planned"})
  BY <1>1
<1>3. PICK m \in 1 .. n - 1 : Noted(p, m, log[i].run, {"planned"})
  BY <1>2
<1>4. PICK r : r = log[i].run
  OBVIOUS
<1>5. m \in DOMAIN noted[p]
  BY <1>2, <1>3 DEF TypeOK
<1>6. Noted(p, m, r, {"planned"})'
  BY <1>3, <1>4, <1>5, SameNotes
<1>7. log'[i] = log[i]
  OBVIOUS
<1>8. Noted(p, m, log[i].run, {"planned"})'
  BY <1>4, <1>6, <1>7 DEF Noted
<1> QED BY <1>2, <1>3, <1>7, <1>8 DEF LeftToAssets

(* Storing an event keeps the invariant. *)
LEMMA StoreKeeps ==
  ASSUME StorageInv, NEW w \in Threads, NEW rec \in Records, StoreEvent(w, rec)
  PROVE  StorageInv'
<1>1. /\ TypeOK /\ Threaded /\ Written /\ Notes /\ Fresh /\ OneEnd /\ NothingForgotten
      /\ at[w] = "idle" /\ MayLog(rec)
      /\ log' = Append(log, rec) /\ at' = [at EXCEPT ![w] = "stored"]
      /\ on' = [on EXCEPT ![w] = Len(log')]
      /\ planned' = planned /\ noted' = noted /\ out' = out /\ emitted' = emitted
      /\ dropped' = dropped /\ lost' = lost
  BY DEF StorageInv, StoreEvent
<1>2. /\ log' \in Seq(Records) /\ Len(log) \in Nat /\ Len(log') = Len(log) + 1
      /\ DOMAIN log' = 1 .. Len(log) + 1 /\ DOMAIN log = 1 .. Len(log)
      /\ log'[Len(log) + 1] = rec /\ \A i \in DOMAIN log : log'[i] = log[i]
      /\ \A i \in DOMAIN log' : i \in DOMAIN log \/ i = Len(log) + 1
  BY <1>1, LogGrows
<1>3. TypeOK'
  BY <1>1, <1>2 DEF TypeOK
<1>4. /\ at'[w] = "stored" /\ on'[w] = Len(log) + 1
      /\ \A v \in Threads : v # w => at'[v] = at[v] /\ on'[v] = on[v]
  BY <1>1, <1>2 DEF TypeOK
<1>5. \A v \in Threads : at[v] # "idle" => on[v] \in DOMAIN log
  BY <1>1 DEF Threaded, Working1, TypeOK
<1>6. \A i \in DOMAIN log : i \in DOMAIN log' /\ i # Len(log) + 1
  BY <1>2
<1>7. Separate'
  BY <1>1, <1>4, <1>5, <1>6 DEF Threaded, Separate
<1>8. ASSUME NEW v \in Threads PROVE Working1(v)'
  <2>1. CASE v = w
    <3>1. out'[v] = {}
      BY <1>1, <2>1 DEF Threaded, Working1
    <3>2. on'[v] \in DOMAIN log' /\ at'[v] = "stored"
      BY <1>2, <1>4, <2>1
    <3> QED BY <3>1, <3>2 DEF Working1
  <2>2. CASE v # w
    BY <1>1, <1>4, <1>6, <2>2 DEF Threaded, Working1
  <2> QED BY <2>1, <2>2
<1>9. Written'
  BY <1>1, <1>6 DEF Written
<1>10. Fresh'
  BY <1>1, <1>4, <1>6 DEF Fresh, Notes
<1>11. Made' = Made
  BY <1>1 DEF Made
<1>12. /\ Notes' /\ MadeOfNoted' /\ MapSound' /\ MapKnown' /\ MapComplete' /\ PlansKept'
       /\ FailedSafe' /\ EmbeddedSafe'
  BY <1>1, <1>2, <1>6, <1>11, Steady
<1>13. OneEnd'
  <2>1. rec.type \in RunEnds => ~ Logged(rec.run, "run", RunEnds)
    BY <1>1 DEF MayLog, RunEnds, RunTypes
  <2>2. \A i \in DOMAIN log : log[i].type \in RunEnds => log[i].key = "run"
    <3> SUFFICES ASSUME NEW i \in DOMAIN log, log[i].type \in RunEnds PROVE log[i].key = "run"
      OBVIOUS
    <3>1. log[i] \in Records
      BY <1>1, RecordIs
    <3> QED BY <3>1 DEF Records, RunEnds, RunTypes, StepTypes, StepEnds, AssetTypes
  <2>3. rec.type \in RunEnds =>
          \A i \in DOMAIN log : log[i].run = rec.run => log[i].type \notin RunEnds
    BY <2>1, <2>2 DEF Logged
  <2> QED BY <1>1, <1>2, <2>3 DEF OneEnd
<1>14. NothingForgotten'
  <2> SUFFICES ASSUME NEW i \in DOMAIN log', log'[i].type \in AssetTypes
               PROVE  \/ \E c \in emitted' : c.rec = i
                      \/ i \in dropped'
                      \/ \E v \in Threads : at'[v] # "idle" /\ on'[v] = i
                      \/ LeftToAssets(i)'
    BY DEF NothingForgotten, Returned, LeftToAssets
  <2>1. CASE i = Len(log) + 1
    BY <1>4, <2>1
  <2>2. CASE i \in DOMAIN log
    <3>1. \/ \E c \in emitted : c.rec = i
          \/ i \in dropped
          \/ \E v \in Threads : at[v] # "idle" /\ on[v] = i
          \/ LeftToAssets(i)
      BY <1>1, <1>2, <2>2 DEF NothingForgotten, Returned, LeftToAssets
    <3>2. LeftToAssets(i) => LeftToAssets(i)'
      BY <1>1, <1>2, <1>6, <2>2, StillLeft
    <3> QED BY <1>1, <1>4, <3>1, <3>2
  <2> QED BY <1>2, <2>1, <2>2
<1> QED BY <1>3, <1>7, <1>8, <1>9, <1>10, <1>12, <1>13, <1>14 DEF StorageInv, Threaded

(* A thread that makes some of its calls, or gives them up, keeps the      *)
(* invariant.                                                              *)
LEMMA GoingOnKeeps ==
  ASSUME StorageInv, NEW w \in Threads, NEW calls \in SUBSET out[w], Continue(w, calls),
         at[w] = "emit", log' = log, planned' = planned, noted' = noted, lost' = lost,
         emitted \subseteq emitted', emitted' \subseteq emitted \cup out[w],
         dropped' = dropped \/ dropped' = dropped \cup {on[w]},
         (\E c \in emitted' : c.rec = on[w]) \/ on[w] \in dropped',
         \A c \in out[w] : c \in emitted' \/ c \in calls \/ on[w] \in dropped'
  PROVE  StorageInv'
<1>1. TypeOK /\ Threaded /\ Written /\ Fresh /\ OneEnd /\ NothingForgotten /\ Notes
  BY DEF StorageInv
<1>2. out[w] \in SUBSET CallTypes /\ calls \in SUBSET CallTypes /\ on[w] \in Nat
      /\ on[w] \in DOMAIN log /\ \A c \in out[w] : c.rec = on[w]
  BY <1>1 DEF TypeOK, Threaded, Working1
<1>3. /\ out' \in [Threads -> SUBSET CallTypes] /\ on' \in [Threads -> Nat]
      /\ at' \in [Threads -> {"idle", "stored", "emit"}]
      /\ \A v \in Threads : v # w => out'[v] = out[v] /\ on'[v] = on[v] /\ at'[v] = at[v]
      /\ out'[w] = calls
      /\ calls = {} => at'[w] = "idle"
      /\ calls # {} => at'[w] = "emit" /\ on'[w] = on[w]
  BY <1>1, <1>2, ContinueIs
<1>4. TypeOK'
  BY <1>1, <1>2, <1>3 DEF TypeOK
<1>5. Separate'
  BY <1>1, <1>3 DEF Threaded, Separate
<1>6. ASSUME NEW v \in Threads PROVE Working1(v)'
  <2>1. CASE v = w
    BY <1>1, <1>3, <2>1 DEF Threaded, Working1
  <2>2. CASE v # w
    BY <1>1, <1>3, <2>2 DEF Threaded, Working1
  <2> QED BY <2>1, <2>2
<1>7. Made' \subseteq Made
  <2>1. \A v \in Threads : out'[v] \subseteq out[v]
    BY <1>3
  <2> QED BY <2>1 DEF Made
<1>8. ASSUME NEW c \in Made, NEW r, r = log[c.rec].run PROVE c \in Made' \/ ~ Whole(r)'
  <2>1. CASE c \in emitted
    BY <2>1 DEF Made
  <2>2. CASE c \in out[w]
    <3>1. CASE c \in emitted' \/ c \in calls
      BY <1>3, <3>1 DEF Made
    <3>2. CASE on[w] \in dropped'
      BY <1>2, <1>8, <2>2, <3>2 DEF Whole
    <3> QED BY <2>2, <3>1, <3>2
  <2>3. ASSUME NEW v \in Threads, v # w, c \in out[v] PROVE c \in Made'
    BY <1>3, <2>3 DEF Made
  <2> QED BY <2>1, <2>2, <2>3 DEF Made
<1>9. Written'
  BY <1>1, <1>2 DEF Written
<1>10. Fresh'
  BY <1>1, <1>3 DEF Fresh
<1>11. /\ Notes' /\ MadeOfNoted' /\ MapSound' /\ MapKnown' /\ MapComplete' /\ PlansKept'
       /\ FailedSafe' /\ EmbeddedSafe'
  BY <1>7, <1>8, Steady
<1>12. OneEnd'
  BY <1>1 DEF OneEnd
<1>13. NothingForgotten'
  <2> SUFFICES ASSUME NEW i \in DOMAIN log, log[i].type \in AssetTypes
               PROVE  \/ \E c \in emitted' : c.rec = i
                      \/ i \in dropped'
                      \/ \E v \in Threads : at'[v] # "idle" /\ on'[v] = i
                      \/ LeftToAssets(i)'
    BY DEF NothingForgotten, Returned, LeftToAssets
  <2>1. LeftToAssets(i) => LeftToAssets(i)'
    BY <1>1, StillLeft
  <2>2. \/ \E c \in emitted : c.rec = i
        \/ i \in dropped
        \/ \E v \in Threads : at[v] # "idle" /\ on[v] = i
        \/ LeftToAssets(i)
    BY <1>1 DEF NothingForgotten, Returned, LeftToAssets
  <2>3. CASE \E v \in Threads : at[v] # "idle" /\ on[v] = i
    BY <1>3, <2>3
  <2> QED BY <2>1, <2>2, <2>3
<1> QED BY <1>4, <1>5, <1>6, <1>9, <1>10, <1>11, <1>12, <1>13 DEF StorageInv, Threaded

(* A thread with calls to make is past its dispatch. *)
LEMMA Emitting ==
  ASSUME StorageInv, NEW w \in Threads, out[w] # {}
  PROVE  at[w] = "emit" /\ \A c \in out[w] : c.rec = on[w]
  BY DEF StorageInv, Threaded, Working1, TypeOK

(* An emission keeps the invariant. *)
LEMMA EmitKeeps ==
  ASSUME StorageInv, NEW w \in Threads, Emit(w) PROVE StorageInv'
<1>1. PICK c \in out[w] : Continue(w, out[w] \ {c}) /\ emitted' = emitted \cup {c}
  BY DEF Emit
<1>2. log' = log /\ planned' = planned /\ noted' = noted /\ dropped' = dropped /\ lost' = lost
  BY DEF Emit
<1>3. at[w] = "emit" /\ c.rec = on[w]
  BY Emitting
<1> QED BY <1>1, <1>2, <1>3, GoingOnKeeps

(* A refused emission keeps it: it is accounted for. *)
LEMMA EmitFailsKeeps ==
  ASSUME StorageInv, NEW w \in Threads, EmitFails(w) PROVE StorageInv'
<1>1. PICK c \in out[w] : Continue(w, out[w] \ {c})
  BY DEF EmitFails
<1>2. /\ log' = log /\ planned' = planned /\ noted' = noted /\ lost' = lost
      /\ dropped' = dropped \cup {on[w]} /\ emitted' = emitted
  BY DEF EmitFails
<1>3. at[w] = "emit"
  BY Emitting
<1> QED BY <1>1, <1>2, <1>3, GoingOnKeeps

(* An adapter that raises keeps it. *)
LEMMA DispatchFailsKeeps ==
  ASSUME StorageInv, NEW w \in Threads, DispatchFails(w) PROVE StorageInv'
<1>1. /\ log' = log /\ planned' = planned /\ noted' = noted /\ lost' = lost
      /\ dropped' = dropped \cup {on[w]} /\ emitted' = emitted
      /\ at[w] = "emit" /\ Continue(w, {})
  BY DEF DispatchFails
<1> QED BY <1>1, GoingOnKeeps

(* The death of a process keeps it. *)
LEMMA DieKeeps ==
  ASSUME StorageInv, NEW p \in Procs, Die(p) PROVE StorageInv'
<1>1. TypeOK /\ Threaded /\ Written /\ Fresh /\ OneEnd /\ NothingForgotten /\ Notes
  BY DEF StorageInv
<1>2. /\ log' = log /\ noted' = noted /\ emitted' = emitted
      /\ lost \subseteq lost' /\ lost' \subseteq Runs
      /\ \A r : Has(planned[p], r) => r \in lost'
      /\ planned' = [planned EXCEPT ![p] = NoRuns] /\ planned' \in [Procs -> Plans]
      /\ at' \in [Threads -> {"idle", "stored", "emit"}]
      /\ on' \in [Threads -> Nat] /\ out' \in [Threads -> SUBSET CallTypes]
      /\ dropped \subseteq dropped' /\ dropped' \subseteq Nat
      /\ \A w \in Threads : Home[w] = p =>
           at'[w] = "idle" /\ out'[w] = {} /\ (at[w] # "idle" => on[w] \in dropped')
      /\ \A w \in Threads : Home[w] # p =>
           at'[w] = at[w] /\ on'[w] = on[w] /\ out'[w] = out[w]
  BY <1>1, DieIs
<1>3. TypeOK'
  BY <1>1, <1>2 DEF TypeOK
<1>4. Threaded'
  BY <1>1, <1>2 DEF Threaded, Separate, Working1
<1>5. Made' \subseteq Made
  BY <1>2 DEF Made
<1>6. Written'
  <2>1. dropped' = dropped \cup {on[w] : w \in {v \in Threads : Home[v] = p /\ at[v] # "idle"}}
    BY DEF Die
  <2>2. \A w \in Threads : at[w] # "idle" => on[w] \in DOMAIN log
    BY <1>1 DEF Threaded, Working1, TypeOK
  <2> QED BY <1>1, <1>2, <2>1, <2>2 DEF Written
<1>7. ASSUME NEW q \in Procs, NEW r \in Runs
      PROVE  /\ planned'[q].keys[r] \subseteq planned[q].keys[r]
             /\ Has(planned'[q], r) => Has(planned[q], r)
             /\ r \notin lost' => /\ Has(planned[q], r) => Has(planned'[q], r)
                                  /\ planned'[q].keys[r] = planned[q].keys[r]
  <2>1. CASE q # p
    BY <1>1, <1>2, <2>1 DEF TypeOK
  <2>2. CASE q = p
    <3>1. planned'[q] = NoRuns /\ ~ Has(NoRuns, r)
      BY <1>1, <1>2, <2>2, NoRunsIs DEF TypeOK
    <3>2. NoRuns.keys[r] = {}
      BY DEF NoRuns
    <3>3. ~ Has(planned[q], r) => planned[q].keys[r] = {}
      BY <1>1 DEF TypeOK, Plans
    <3> QED BY <1>2, <2>2, <3>1, <3>2, <3>3
  <2> QED BY <2>1, <2>2
<1>8. ASSUME NEW c \in Made, NEW r, r = log[c.rec].run PROVE c \in Made' \/ ~ Whole(r)'
  <2>1. CASE c \in emitted
    BY <1>2, <2>1 DEF Made
  <2>2. ASSUME NEW w \in Threads, c \in out[w] PROVE c \in Made' \/ ~ Whole(r)'
    <3>1. CASE Home[w] # p
      BY <1>2, <2>2, <3>1 DEF Made
    <3>2. CASE Home[w] = p
      <4>1. at[w] # "idle" /\ c.rec = on[w]
        BY <1>1, <2>2 DEF Threaded, Working1
      <4>2. c.rec \in dropped'
        BY <1>2, <3>2, <4>1
      <4> QED BY <1>2, <1>8, <4>2 DEF Whole
    <3> QED BY <3>1, <3>2
  <2> QED BY <2>1, <2>2 DEF Made
<1>9. Fresh'
  BY <1>1, <1>2 DEF Fresh
<1>10. /\ Notes' /\ MadeOfNoted' /\ MapSound' /\ MapKnown' /\ MapComplete' /\ PlansKept'
       /\ FailedSafe' /\ EmbeddedSafe'
  BY <1>2, <1>5, <1>7, <1>8, Steady
<1>11. OneEnd'
  BY <1>1, <1>2 DEF OneEnd
<1>12. NothingForgotten'
  <2> SUFFICES ASSUME NEW i \in DOMAIN log, log[i].type \in AssetTypes
               PROVE  \/ \E c \in emitted : c.rec = i
                      \/ i \in dropped'
                      \/ \E v \in Threads : at'[v] # "idle" /\ on'[v] = i
                      \/ LeftToAssets(i)'
    BY <1>2 DEF NothingForgotten, Returned, LeftToAssets
  <2>1. LeftToAssets(i) => LeftToAssets(i)'
    BY <1>1, <1>2, StillLeft
  <2>2. \/ \E c \in emitted : c.rec = i
        \/ i \in dropped
        \/ \E v \in Threads : at[v] # "idle" /\ on[v] = i
        \/ LeftToAssets(i)
    BY <1>1 DEF NothingForgotten, Returned, LeftToAssets
  <2>3. CASE \E v \in Threads : at[v] # "idle" /\ on[v] = i
    BY <1>2, <2>3
  <2> QED BY <1>2, <2>1, <2>2, <2>3
<1> QED BY <1>3, <1>4, <1>6, <1>9, <1>10, <1>11, <1>12 DEF StorageInv

------------------------------------------------------------------------------
(***************************************************************************)
(* A process takes notice of a record: its notes grow by the N-th, which   *)
(* is record i, and every earlier note keeps its meaning.                  *)
(***************************************************************************)
Notice(q, N, i, rec) ==
  /\ q \in Procs /\ N \in Nat /\ i \in DOMAIN log /\ rec = log[i] /\ log' = log
  /\ rec.run \in Runs
  /\ \A p \in Procs : \A n \in DOMAIN noted[p] :
       /\ n \in DOMAIN noted'[p] /\ noted'[p][n] = noted[p][n]
       /\ \A r, T : Noted(p, n, r, T)' <=> Noted(p, n, r, T)
       /\ \A r, k, T : About(p, n, r, k, T)' <=> About(p, n, r, k, T)
  /\ \A p \in Procs : \A n \in DOMAIN noted[p] : n \in Nat /\ (p = q => n < N)
  /\ \A p \in Procs : \A n \in DOMAIN noted'[p] : n \in DOMAIN noted[p] \/ (p = q /\ n = N)
  /\ N \in DOMAIN noted'[q] /\ noted'[q][N] = i
  /\ \A n \in 1 .. N - 1 : n \in DOMAIN noted[q]
  /\ \A r, T : Noted(q, N, r, T)' <=> rec.run = r /\ rec.type \in T
  /\ \A r, k, T : About(q, N, r, k, T)' <=> rec.run = r /\ rec.type \in T /\ rec.key = k

LEMMA NoticeIs ==
  ASSUME TypeOK, Notes, NEW q \in Procs, NEW i \in DOMAIN log, NEW rec, rec = log[i],
         NEW N, N = Len(noted[q]) + 1,
         log' = log, noted' = [noted EXCEPT ![q] = Append(noted[q], i)]
  PROVE  Notice(q, N, i, rec)
<1>1. i \in Nat /\ rec.run \in Runs
  BY RecordIs
<1>2. \A p \in Procs : noted[p] \in Seq(Nat)
  BY DEF TypeOK
<1>3. PICK s : s = noted[q]
  OBVIOUS
<1>4. s \in Seq(Nat) /\ N = Len(s) + 1 /\ Len(s) \in Nat /\ DOMAIN s = 1 .. Len(s)
  BY <1>2, <1>3
<1>5. PICK t : t = Append(s, i)
  OBVIOUS
<1>6. /\ t \in Seq(Nat) /\ Len(t) = N /\ DOMAIN t = 1 .. N /\ t[N] = i
      /\ \A n \in DOMAIN s : t[n] = s[n]
  BY <1>1, <1>4, <1>5
<1>7. noted'[q] = t /\ \A p \in Procs : p # q => noted'[p] = noted[p]
  BY <1>3, <1>5 DEF TypeOK
<1>8. N \in Nat /\ N \in DOMAIN noted'[q] /\ noted'[q][N] = i
  BY <1>4, <1>6, <1>7
<1>9. ASSUME NEW p \in Procs, NEW n \in DOMAIN noted[p]
      PROVE  /\ n \in DOMAIN noted'[p] /\ noted'[p][n] = noted[p][n]
             /\ n \in Nat /\ (p = q => n < N)
             /\ noted[p][n] \in DOMAIN log
  <2>1. n \in Nat /\ noted[p][n] \in DOMAIN log
    BY <1>2 DEF Notes
  <2>2. CASE p = q
    BY <1>3, <1>4, <1>6, <1>7, <2>1, <2>2
  <2>3. CASE p # q
    BY <1>7, <2>1, <2>3
  <2> QED BY <2>2, <2>3
<1>10. ASSUME NEW p \in Procs, NEW n \in DOMAIN noted[p]
       PROVE  /\ \A r, T : Noted(p, n, r, T)' <=> Noted(p, n, r, T)
              /\ \A r, k, T : About(p, n, r, k, T)' <=> About(p, n, r, k, T)
  <2>1. log'[noted'[p][n]] = log[noted[p][n]]
    BY <1>9
  <2> QED BY <2>1 DEF Noted, About
<1>11. ASSUME NEW p \in Procs, NEW n \in DOMAIN noted'[p]
       PROVE  n \in DOMAIN noted[p] \/ (p = q /\ n = N)
  BY <1>3, <1>4, <1>6, <1>7
<1>12. \A n \in 1 .. N - 1 : n \in DOMAIN noted[q]
  BY <1>3, <1>4
<1>13. /\ \A r, T : Noted(q, N, r, T)' <=> rec.run = r /\ rec.type \in T
       /\ \A r, k, T : About(q, N, r, k, T)' <=> rec.run = r /\ rec.type \in T /\ rec.key = k
  <2>1. log'[noted'[q][N]] = rec
    BY <1>8
  <2> QED BY <2>1 DEF Noted, About
<1> QED BY <1>1, <1>8, <1>9, <1>10, <1>11, <1>12, <1>13 DEF Notice

(* What has not happened since a note still has not, unless the new one is *)
(* about it.                                                               *)
LEMMA SinceIs ==
  ASSUME NEW q, NEW N, NEW i, NEW rec, Notice(q, N, i, rec),
         NEW p \in Procs, NEW m \in DOMAIN noted[p], NEW r
  PROVE  /\ Open(p, m, r)' <=> Open(p, m, r) /\ ~ (p = q /\ rec.run = r /\ rec.type \in Closing)
         /\ Unfailed(p, m, r)' <=>
              Unfailed(p, m, r) /\ ~ (p = q /\ rec.run = r /\ rec.type = "run_failure")
         /\ \A k : Unmade(p, m, r, k)' <=>
              Unmade(p, m, r, k) /\ ~ (p = q /\ rec.run = r /\ rec.type \in Taken /\ rec.key = k)
<1>1. /\ \A n \in DOMAIN noted[p] :
           /\ n \in DOMAIN noted'[p] /\ n \in Nat
           /\ \A T : Noted(p, n, r, T)' <=> Noted(p, n, r, T)
           /\ \A k, T : About(p, n, r, k, T)' <=> About(p, n, r, k, T)
      /\ \A n \in DOMAIN noted'[p] : n \in DOMAIN noted[p] \/ (p = q /\ n = N)
      /\ p = q => m < N /\ N \in DOMAIN noted'[p]
  BY DEF Notice
<1>2. p = q => /\ \A T : Noted(p, N, r, T)' <=> rec.run = r /\ rec.type \in T
               /\ \A k, T : About(p, N, r, k, T)' <=> rec.run = r /\ rec.type \in T /\ rec.key = k
  BY DEF Notice
<1>3. N \in Nat /\ m \in Nat
  BY DEF Notice
<1>4. /\ Open(p, m, r)' <=> \A d \in DOMAIN noted'[p] : d > m => ~ Noted(p, d, r, Closing)'
      /\ Unfailed(p, m, r)' <=>
           \A d \in DOMAIN noted'[p] : d > m => ~ Noted(p, d, r, {"run_failure"})'
      /\ \A k : Unmade(p, m, r, k)' <=>
           \A d \in DOMAIN noted'[p] : d > m => ~ About(p, d, r, k, Taken)'
  BY DEF Open, Unfailed, Unmade
<1>5. Open(p, m, r)' <=> Open(p, m, r) /\ ~ (p = q /\ rec.run = r /\ rec.type \in Closing)
  BY <1>1, <1>2, <1>3, <1>4 DEF Open
<1>6. Unfailed(p, m, r)' <=>
        Unfailed(p, m, r) /\ ~ (p = q /\ rec.run = r /\ rec.type = "run_failure")
  BY <1>1, <1>2, <1>3, <1>4 DEF Unfailed
<1>7. ASSUME NEW k
      PROVE  Unmade(p, m, r, k)' <=>
               Unmade(p, m, r, k) /\ ~ (p = q /\ rec.run = r /\ rec.type \in Taken /\ rec.key = k)
  BY <1>1, <1>2, <1>3, <1>4 DEF Unmade
<1> QED BY <1>5, <1>6, <1>7

(* What _dispatch changes of the map, and what it emits. *)
Dispatching(q, M, Q, i, rec, calls) ==
  /\ M = planned[q] /\ planned' = [planned EXCEPT ![q] = Q]
  /\ M \in Plans /\ Q \in Plans
  /\ \A x \in Runs : x # rec.run /\ Has(Q, x) => Has(M, x) /\ Q.keys[x] = M.keys[x]
  /\ \A x \in Runs : x # rec.run /\ Has(M, x) /\ ~ Has(Q, x) => x \in lost'
  /\ rec.type = "planned" => Has(Q, rec.run) /\ Q.keys[rec.run] = M.keys[rec.run] \cup {rec.key}
  /\ rec.type \in Taken =>
       (Has(Q, rec.run) <=> Has(M, rec.run)) /\ Q.keys[rec.run] = M.keys[rec.run] \ {rec.key}
  /\ rec.type \in Closing => ~ Has(Q, rec.run) /\ Q.keys[rec.run] = {}
  /\ rec.type \notin {"planned"} \cup Taken \cup Closing => Q = M
  /\ lost \subseteq lost' /\ lost' \subseteq Runs
  /\ dropped' = dropped /\ emitted' = emitted
  /\ calls \in SUBSET CallTypes
  /\ \A c \in calls :
       /\ c.rec = i
       /\ c.kind = "check_planned" => rec.type = "check_planned" /\ ~ Has(M, rec.run)
       /\ c.kind = "failed" =>
            rec.type \in {"run_failure", "step_failure"} /\ c.key \in M.keys[rec.run]
  /\ rec.type \in AssetTypes =>
       \/ rec.type = "check_planned" /\ Has(M, rec.run)
       \/ \E c \in calls : c.kind = rec.type /\ c.key = rec.key
  /\ rec.type \in {"run_failure", "step_failure"} =>
       \A k \in M.keys[rec.run] : \E c \in calls : c.kind = "failed" /\ c.key = k
  /\ Made' = Made \cup calls

LEMMA DispatchIs ==
  ASSUME StorageInv, NEW w \in Threads, Dispatch(w), NEW q, q = Home[w],
         NEW i, i = on[w], NEW rec, rec = log[i], NEW M, M = planned[q],
         NEW Q, Q = Remember(M, rec), NEW calls, calls = Calls(M, i)
  PROVE  /\ q \in Procs /\ i \in DOMAIN log /\ at[w] = "stored" /\ log' = log
         /\ noted' = [noted EXCEPT ![q] = Append(noted[q], i)]
         /\ Continue(w, calls)
         /\ Dispatching(q, M, Q, i, rec, calls)
<1>1. TypeOK /\ Threaded
  BY DEF StorageInv
<1>2. q \in Procs /\ at[w] = "stored" /\ i \in DOMAIN log /\ out[w] = {}
  BY <1>1, StorageAssumption DEF Dispatch, Threaded, Working1
<1>3. rec \in Records /\ rec.run \in Runs
  BY <1>1, <1>2, RecordIs
<1>4. M \in Plans
  BY <1>1, <1>2 DEF TypeOK
<1>5. /\ log' = log /\ noted' = [noted EXCEPT ![q] = Append(noted[q], i)]
      /\ Continue(w, calls) /\ planned' = [planned EXCEPT ![q] = Q]
      /\ lost' = lost \cup ({r \in Runs : Has(M, r) /\ ~ Has(Q, r)} \ {rec.run})
      /\ dropped' = dropped /\ emitted' = emitted
  BY DEF Dispatch
<1>6. /\ Q \in Plans
      /\ \A x \in Runs : x # rec.run /\ Has(Q, x) => Has(M, x) /\ Q.keys[x] = M.keys[x]
      /\ rec.type = "planned" =>
           Has(Q, rec.run) /\ Q.keys[rec.run] = M.keys[rec.run] \cup {rec.key}
      /\ rec.type \in {"materialized", "not_materialized"} =>
           (Has(Q, rec.run) <=> Has(M, rec.run)) /\ Q.keys[rec.run] = M.keys[rec.run] \ {rec.key}
      /\ rec.type \in Closing => ~ Has(Q, rec.run) /\ Q.keys[rec.run] = {}
      /\ rec.type \notin {"planned", "materialized", "not_materialized"} \cup Closing => Q = M
  <2>1. M \in Plans /\ rec \in Records /\ Q = Remember(M, rec)
    BY <1>3, <1>4
  <2>2. Q \in Plans
    BY ONLY <2>1, RememberIs
  <2>3. \A x \in Runs : x # rec.run /\ Has(Q, x) => Has(M, x) /\ Q.keys[x] = M.keys[x]
    BY ONLY <2>1, RememberIs
  <2>4. rec.type = "planned" =>
           Has(Q, rec.run) /\ Q.keys[rec.run] = M.keys[rec.run] \cup {rec.key}
    BY ONLY <2>1, RememberIs
  <2>5. rec.type \in {"materialized", "not_materialized"} =>
           (Has(Q, rec.run) <=> Has(M, rec.run)) /\ Q.keys[rec.run] = M.keys[rec.run] \ {rec.key}
    BY ONLY <2>1, RememberIs
  <2>6. rec.type \in Closing => ~ Has(Q, rec.run) /\ Q.keys[rec.run] = {}
    BY ONLY <2>1, RememberIs
  <2>7. rec.type \notin {"planned", "materialized", "not_materialized"} \cup Closing => Q = M
    BY ONLY <2>1, RememberIs
  <2> QED BY <2>2, <2>3, <2>4, <2>5, <2>6, <2>7
<1>7. rec.type \notin {"planned"} \cup Taken \cup Closing => Q = M
  BY <1>6 DEF Taken
<1>8. /\ calls \in SUBSET CallTypes
      /\ \A c \in calls :
           /\ c.rec = i
           /\ c.kind = "check_planned" => rec.type = "check_planned" /\ ~ Has(M, rec.run)
           /\ c.kind = "failed" =>
                rec.type \in {"run_failure", "step_failure"} /\ c.key \in M.keys[rec.run]
      /\ rec.type \in AssetTypes =>
           \/ rec.type = "check_planned" /\ Has(M, rec.run)
           \/ \E c \in calls : c.kind = rec.type /\ c.key = rec.key
      /\ rec.type \in {"run_failure", "step_failure"} =>
           \A k \in M.keys[rec.run] : \E c \in calls : c.kind = "failed" /\ c.key = k
  BY <1>1, <1>2, <1>4, CallsAre
<1>9. Made' = Made \cup calls
  <2>1. /\ \A v \in Threads : v # w => out'[v] = out[v]
        /\ out'[w] = calls
    BY <1>1, <1>5, <1>8, ContinueIs
  <2> QED BY <1>2, <1>5, <2>1 DEF Made
<1>10. lost \subseteq lost' /\ lost' \subseteq Runs
       /\ \A x \in Runs : x # rec.run /\ Has(M, x) /\ ~ Has(Q, x) => x \in lost'
  BY <1>1, <1>5 DEF TypeOK
<1> QED BY <1>2, <1>4, <1>5, <1>6, <1>7, <1>8, <1>9, <1>10 DEF Dispatching, Taken

(* The map of a process that takes notice stays as its notes say. *)
LEMMA DispatchMaps ==
  ASSUME StorageInv, NEW q, NEW N, NEW i, NEW rec, Notice(q, N, i, rec),
         NEW M, NEW Q, NEW calls, Dispatching(q, M, Q, i, rec, calls)
  PROVE  MapSound' /\ MapKnown' /\ MapComplete'
<1>1. TypeOK /\ MapSound /\ MapKnown /\ MapComplete
  BY DEF StorageInv
<1>2. /\ q \in Procs /\ rec.run \in Runs /\ M = planned[q] /\ planned'[q] = Q
      /\ \A p \in Procs : p # q => planned'[p] = planned[p]
  BY <1>1 DEF Notice, Dispatching, TypeOK
<1>3. "planned" \notin Closing /\ "planned" \notin Taken /\ \A t \in Taken : t \notin Closing
  BY DEF Closing, Taken, RunEnds
<1>4. ASSUME NEW r \in Runs, NEW k \in Q.keys[r]
      PROVE  \/ k \in M.keys[r] /\ ~ (rec.run = r /\ rec.type \in Closing)
                /\ ~ (rec.run = r /\ rec.type \in Taken /\ rec.key = k)
             \/ rec.run = r /\ rec.type = "planned" /\ rec.key = k
  <2>1. Has(Q, r)
    BY <1>4 DEF Dispatching, Plans
  <2>2. CASE r # rec.run
    BY <1>4, <2>1, <2>2 DEF Dispatching
  <2>3. CASE r = rec.run
    <3>1. CASE rec.type = "planned"
      BY <1>3, <1>4, <2>3, <3>1 DEF Dispatching
    <3>2. CASE rec.type \in Taken
      BY <1>3, <1>4, <2>3, <3>2 DEF Dispatching
    <3>3. CASE rec.type \in Closing
      BY <1>4, <2>3, <3>3 DEF Dispatching
    <3>4. CASE rec.type \notin {"planned"} \cup Taken \cup Closing
      BY <1>4, <2>3, <3>4 DEF Dispatching
    <3> QED BY <3>1, <3>2, <3>3, <3>4
  <2> QED BY <2>2, <2>3
<1>5. MapSound'
  <2> SUFFICES ASSUME NEW p \in Procs, NEW r \in Runs, NEW k \in planned'[p].keys[r]
               PROVE  \E m \in DOMAIN noted'[p] :
                        /\ About(p, m, r, k, {"planned"})'
                        /\ Open(p, m, r)' /\ Unmade(p, m, r, k)'
    BY DEF MapSound
  <2>1. ASSUME k \in planned[p].keys[r],
               ~ (p = q /\ rec.run = r /\ rec.type \in Closing),
               ~ (p = q /\ rec.run = r /\ rec.type \in Taken /\ rec.key = k)
        PROVE  \E m \in DOMAIN noted'[p] :
                 /\ About(p, m, r, k, {"planned"})'
                 /\ Open(p, m, r)' /\ Unmade(p, m, r, k)'
    <3>1. PICK m \in DOMAIN noted[p] :
            About(p, m, r, k, {"planned"}) /\ Open(p, m, r) /\ Unmade(p, m, r, k)
      BY <1>1, <2>1 DEF MapSound
    <3>2. Open(p, m, r)' /\ Unmade(p, m, r, k)'
      BY <2>1, <3>1, SinceIs
    <3>3. m \in DOMAIN noted'[p] /\ About(p, m, r, k, {"planned"})'
      BY <3>1 DEF Notice
    <3> QED BY <3>2, <3>3
  <2>2. CASE p # q
    BY <1>2, <2>1, <2>2
  <2>3. CASE p = q /\ rec.run = r /\ rec.type = "planned" /\ rec.key = k
    <3>1. N \in DOMAIN noted'[p] /\ About(p, N, r, k, {"planned"})'
      BY <2>3 DEF Notice
    <3>2. \A d \in DOMAIN noted'[p] : ~ (d > N)
      BY <2>3 DEF Notice
    <3>3. Open(p, N, r)' /\ Unmade(p, N, r, k)'
      BY <3>2 DEF Open, Unmade
    <3> QED BY <3>1, <3>3
  <2> QED BY <1>2, <1>4, <2>1, <2>2, <2>3
<1>6. MapKnown'
  <2> SUFFICES ASSUME NEW p \in Procs, NEW r \in Runs, Has(planned'[p], r)
               PROVE  \E m \in DOMAIN noted'[p] : Noted(p, m, r, {"planned"})'
    BY DEF MapKnown
  <2>1. ASSUME Has(planned[p], r)
        PROVE  \E m \in DOMAIN noted'[p] : Noted(p, m, r, {"planned"})'
    <3>1. PICK m \in DOMAIN noted[p] : Noted(p, m, r, {"planned"})
      BY <1>1, <2>1 DEF MapKnown
    <3> QED BY <3>1 DEF Notice
  <2>2. CASE p # q
    BY <1>2, <2>1, <2>2
  <2>3. CASE p = q /\ r # rec.run
    BY <1>2, <2>1, <2>3 DEF Dispatching
  <2>4. CASE p = q /\ r = rec.run
    <3>1. CASE rec.type = "planned"
      BY <2>4, <3>1 DEF Notice
    <3>2. CASE rec.type \in Taken
      BY <1>2, <2>1, <2>4, <3>2 DEF Dispatching
    <3>3. CASE rec.type \in Closing
      BY <1>2, <2>4, <3>3 DEF Dispatching
    <3>4. CASE rec.type \notin {"planned"} \cup Taken \cup Closing
      BY <1>2, <2>1, <2>4, <3>4 DEF Dispatching
    <3> QED BY <3>1, <3>2, <3>3, <3>4
  <2> QED BY <2>2, <2>3, <2>4
<1>7. MapComplete'
  <2> SUFFICES ASSUME NEW p \in Procs, NEW r \in Runs, NEW m \in DOMAIN noted'[p],
                      Noted(p, m, r, {"planned"})', r \notin lost', Open(p, m, r)'
               PROVE  Has(planned'[p], r)
    BY DEF MapComplete
  <2>1. CASE p = q /\ m = N
    <3>1. rec.run = r /\ rec.type = "planned"
      BY <2>1 DEF Notice
    <3> QED BY <1>2, <2>1, <3>1 DEF Dispatching
  <2>2. CASE m \in DOMAIN noted[p]
    <3>1. Noted(p, m, r, {"planned"}) /\ r \notin lost
      BY <2>2 DEF Notice, Dispatching
    <3>2. Open(p, m, r) /\ ~ (p = q /\ rec.run = r /\ rec.type \in Closing)
      BY <2>2, SinceIs
    <3>3. Has(planned[p], r)
      BY <1>1, <2>2, <3>1, <3>2 DEF MapComplete
    <3>4. CASE p # q
      BY <1>2, <3>3, <3>4
    <3>5. CASE p = q /\ r # rec.run
      BY <1>2, <3>3, <3>5 DEF Dispatching
    <3>6. CASE p = q /\ r = rec.run
      <4>1. CASE rec.type = "planned"
        BY <1>2, <3>6, <4>1 DEF Dispatching
      <4>2. CASE rec.type \in Taken
        BY <1>2, <3>3, <3>6, <4>2 DEF Dispatching
      <4>3. CASE rec.type \notin {"planned"} \cup Taken \cup Closing
        BY <1>2, <3>3, <3>6, <4>3 DEF Dispatching
      <4> QED BY <3>2, <3>6, <4>1, <4>2, <4>3
    <3> QED BY <3>4, <3>5, <3>6
  <2> QED BY <2>1, <2>2 DEF Notice
<1> QED BY <1>5, <1>6, <1>7

(* A planned asset is still accounted for when its run's next record is    *)
(* noticed.                                                                *)
LEMMA DispatchPlans ==
  ASSUME StorageInv, NEW q, NEW N, NEW i, NEW rec, Notice(q, N, i, rec),
         NEW M, NEW Q, NEW calls, Dispatching(q, M, Q, i, rec, calls)
  PROVE  PlansKept'
<1>1. TypeOK /\ PlansKept
  BY DEF StorageInv
<1>2. /\ q \in Procs /\ rec.run \in Runs /\ M = planned[q] /\ planned'[q] = Q
      /\ \A p \in Procs : p # q => planned'[p] = planned[p]
      /\ log' = log /\ rec = log[i] /\ i \in DOMAIN log
  BY <1>1 DEF Notice, Dispatching, TypeOK
<1>3. "planned" \notin Closing /\ "planned" \notin Taken /\ \A t \in Taken : t \notin Closing
  BY DEF Closing, Taken, RunEnds
<1>4. \A r : Whole(r)' => Whole(r) /\ r \notin lost'
  BY <1>2 DEF Whole, Dispatching
<1>5. Made \subseteq Made' /\ calls \subseteq Made'
  BY DEF Dispatching
<1> SUFFICES ASSUME NEW p \in Procs, NEW r \in Runs, NEW k \in Steps,
                    NEW m \in DOMAIN noted'[p],
                    About(p, m, r, k, {"planned"})', Whole(r)'
             PROVE  Kept(p, m, r, k)'
  BY DEF PlansKept
<1>6. CASE p = q /\ m = N
  <2>1. rec.run = r /\ rec.type = "planned" /\ rec.key = k
    BY <1>6 DEF Notice
  <2>2. k \in planned'[p].keys[r]
    BY <1>2, <1>6, <2>1 DEF Dispatching
  <2>3. Unfailed(p, m, r)'
    BY <1>6 DEF Notice, Unfailed
  <2> QED BY <2>2, <2>3 DEF Kept
<1>7. CASE m \in DOMAIN noted[p]
  <2>1. About(p, m, r, k, {"planned"}) /\ Whole(r) /\ m \in Nat
    BY <1>4, <1>7 DEF Notice
  <2>2. Kept(p, m, r, k)
    BY <1>1, <1>7, <2>1 DEF PlansKept
  <2>3. ASSUME NEW c \in Made, RunOf(c) = r, c.key = k, c.kind \in {"failed", "not_materialized"}
        PROVE  Kept(p, m, r, k)'
    <3>1. c \in Made' /\ RunOf(c)' = r
      BY <1>2, <1>5, <2>3 DEF RunOf
    <3> QED BY <2>3, <3>1 DEF Kept
  <2>4. ASSUME NEW j \in DOMAIN log, log[j].run = r,
               log[j].type \in {"run_success", "run_canceled"}
        PROVE  Kept(p, m, r, k)'
    <3>1. j \in DOMAIN log' /\ log'[j] = log[j]
      BY <1>2
    <3> QED BY <2>4, <3>1 DEF Kept
  <2>5. ASSUME NEW d \in DOMAIN noted[p], d > m, About(p, d, r, k, {"materialized"}),
               \A e \in DOMAIN noted[p] : e > m /\ e < d => ~ Noted(p, e, r, {"run_failure"})
        PROVE  Kept(p, m, r, k)'
    <3>1. d \in DOMAIN noted'[p] /\ About(p, d, r, k, {"materialized"})' /\ d \in Nat
      BY <2>5 DEF Notice
    <3>2. ASSUME NEW e \in DOMAIN noted'[p], e > m, e < d PROVE ~ Noted(p, e, r, {"run_failure"})'
      <4>1. e \in DOMAIN noted[p]
        BY <3>2, <3>1 DEF Notice
      <4> QED BY <2>5, <3>2, <4>1 DEF Notice
    <3> QED BY <2>5, <3>1, <3>2 DEF Kept
  <2>6. ASSUME k \in planned[p].keys[r], Unfailed(p, m, r) PROVE Kept(p, m, r, k)'
    <3>1. ~ (p = q /\ rec.run = r /\ rec.type = "run_failure") => Unfailed(p, m, r)'
      BY <1>7, <2>6, SinceIs
    <3>2. CASE p # q
      BY <1>2, <2>6, <3>1, <3>2 DEF Kept
    <3>3. CASE p = q /\ r # rec.run
      <4>1. Has(M, r)
        BY <1>2, <2>6, <3>3 DEF Dispatching, Plans
      <4>2. Has(Q, r)
        BY <1>4, <3>3, <4>1 DEF Dispatching
      <4>3. k \in planned'[p].keys[r]
        BY <1>2, <2>6, <3>3, <4>2 DEF Dispatching
      <4> QED BY <3>1, <3>3, <4>3 DEF Kept
    <3>4. CASE p = q /\ r = rec.run
      <4>1. k \in M.keys[r]
        BY <1>2, <2>6, <3>4
      <4>2. CASE rec.type = "planned"
        BY <1>2, <3>1, <3>4, <4>1, <4>2 DEF Kept, Dispatching
      <4>3. CASE rec.type \in Taken /\ rec.key # k
        <5>1. k \in Q.keys[r] /\ rec.type # "run_failure"
          BY <3>4, <4>1, <4>3 DEF Dispatching, Taken
        <5> QED BY <1>2, <3>1, <3>4, <5>1 DEF Kept
      <4>4. CASE rec.type = "materialized" /\ rec.key = k
        <5>1. N \in DOMAIN noted'[p] /\ N > m /\ About(p, N, r, k, {"materialized"})'
          BY <1>7, <2>1, <3>4, <4>4 DEF Notice
        <5>2. \A e \in DOMAIN noted'[p] : e > m /\ e < N => ~ Noted(p, e, r, {"run_failure"})'
          <6> TAKE e \in DOMAIN noted'[p]
          <6> HAVE e > m /\ e < N
          <6>1. e \in DOMAIN noted[p]
            BY DEF Notice
          <6> QED BY <2>6, <6>1 DEF Notice, Unfailed
        <5> QED BY <5>1, <5>2 DEF Kept
      <4>5. CASE rec.type = "not_materialized" /\ rec.key = k
        <5>1. PICK c \in calls : c.kind = "not_materialized" /\ c.key = k
          BY <4>5 DEF Dispatching, AssetTypes
        <5>2. c.rec = i /\ c \in Made'
          BY <1>5 DEF Dispatching
        <5>3. RunOf(c)' = r
          BY <1>2, <3>4, <5>2 DEF RunOf
        <5> QED BY <5>1, <5>2, <5>3 DEF Kept
      <4>6. CASE rec.type \in {"run_failure", "step_failure"}
        <5>1. PICK c \in calls : c.kind = "failed" /\ c.key = k
          BY <3>4, <4>1, <4>6 DEF Dispatching
        <5>2. c.rec = i /\ c \in Made'
          BY <1>5 DEF Dispatching
        <5>3. RunOf(c)' = r
          BY <1>2, <3>4, <5>2 DEF RunOf
        <5> QED BY <5>1, <5>2, <5>3 DEF Kept
      <4>7. CASE rec.type \in {"run_success", "run_canceled"}
        BY <1>2, <2>4, <3>4, <4>7
      <4>8. CASE rec.type \notin {"planned"} \cup Taken \cup Closing
        <5>1. Q = M /\ rec.type # "run_failure"
          BY <4>8 DEF Dispatching, Closing, RunEnds
        <5> QED BY <1>2, <3>1, <3>4, <4>1, <5>1 DEF Kept
      <4>9. \/ rec.type = "planned"
            \/ rec.type \in Taken /\ rec.key # k
            \/ rec.type = "materialized" /\ rec.key = k
            \/ rec.type = "not_materialized" /\ rec.key = k
            \/ rec.type \in {"run_failure", "step_failure"}
            \/ rec.type \in {"run_success", "run_canceled"}
            \/ rec.type \notin {"planned"} \cup Taken \cup Closing
        BY DEF Taken, Closing, RunEnds
      <4> QED BY <4>2, <4>3, <4>4, <4>5, <4>6, <4>7, <4>8, <4>9
    <3> QED BY <3>2, <3>3, <3>4
  <2> QED BY <2>2, <2>3, <2>4, <2>5, <2>6 DEF Kept
<1> QED BY <1>6, <1>7 DEF Notice

(* What is said of the calls that were made holds of the new ones. *)
LEMMA DispatchCalls ==
  ASSUME StorageInv, NEW w \in Threads, at[w] = "stored",
         NEW q, NEW N, NEW i, i = on[w], NEW rec, Notice(q, N, i, rec),
         NEW M, NEW Q, NEW calls, Dispatching(q, M, Q, i, rec, calls)
  PROVE  MadeOfNoted' /\ FailedSafe' /\ EmbeddedSafe'
<1>1. TypeOK /\ Fresh /\ MadeOfNoted /\ MapSound /\ MapComplete /\ FailedSafe /\ EmbeddedSafe
  BY DEF StorageInv
<1>2. /\ q \in Procs /\ rec.run \in Runs /\ M = planned[q]
      /\ log' = log /\ rec = log[i] /\ i \in DOMAIN log
  BY <1>1 DEF Notice, Dispatching, TypeOK
<1>3. \A p \in Procs : \A n \in DOMAIN noted[p] : noted[p][n] # i
  BY <1>1 DEF Fresh
<1>4. \A c \in Made' : c \in Made \/ c \in calls
  BY DEF Dispatching
<1>5. \A c \in calls : c.rec = i
  BY DEF Dispatching
<1>6. \A c : RunOf(c)' = RunOf(c)
  BY <1>2 DEF RunOf
<1>7. \A r : Whole(r)' => Whole(r)
  BY <1>2 DEF Whole, Dispatching
<1>8. MadeOfNoted'
  <2> SUFFICES ASSUME NEW c \in Made'
               PROVE  /\ c.rec \in DOMAIN log'
                      /\ \E p \in Procs : \E n \in DOMAIN noted'[p] : noted'[p][n] = c.rec
    BY DEF MadeOfNoted
  <2>1. CASE c \in Made
    <3>1. c.rec \in DOMAIN log'
      BY <1>1, <1>2, <2>1 DEF MadeOfNoted
    <3>2. PICK p \in Procs : \E n \in DOMAIN noted[p] : noted[p][n] = c.rec
      BY <1>1, <2>1 DEF MadeOfNoted
    <3>3. PICK n \in DOMAIN noted[p] : noted[p][n] = c.rec
      BY <3>2
    <3>4. n \in DOMAIN noted'[p] /\ noted'[p][n] = c.rec
      BY <3>3 DEF Notice
    <3> QED BY <3>1, <3>4
  <2>2. CASE c \in calls
    BY <1>2, <1>5, <2>2 DEF Notice
  <2> QED BY <1>4, <2>1, <2>2
<1>9. FailedSafe'
  <2> SUFFICES ASSUME NEW c \in Made', c.kind = "failed"
               PROVE  \E p \in Procs : \E n \in DOMAIN noted'[p] :
                        /\ noted'[p][n] = c.rec
                        /\ log'[c.rec].type \in {"run_failure", "step_failure"}
                        /\ \E m \in 1 .. n - 1 :
                             /\ About(p, m, RunOf(c), c.key, {"planned"})'
                             /\ \A d \in m + 1 .. n - 1 :
                                  /\ ~ About(p, d, RunOf(c), c.key, Taken)'
                                  /\ ~ Noted(p, d, RunOf(c), Closing)'
    BY DEF FailedSafe
  <2>1. PICK r : r = RunOf(c)
    OBVIOUS
  <2>2. PICK p \in Procs : \E n \in Nat : \E m \in 1 .. n - 1 :
          /\ n \in DOMAIN noted'[p] /\ noted'[p][n] = c.rec
          /\ log[c.rec].type \in {"run_failure", "step_failure"}
          /\ \A d \in 1 .. n - 1 : d \in DOMAIN noted[p]
          /\ About(p, m, r, c.key, {"planned"})
          /\ \A d \in m + 1 .. n - 1 : ~ About(p, d, r, c.key, Taken) /\ ~ Noted(p, d, r, Closing)
    <3>1. CASE c \in Made
      <4>1. PICK p \in Procs : \E n \in DOMAIN noted[p] :
              /\ noted[p][n] = c.rec /\ log[c.rec].type \in {"run_failure", "step_failure"}
              /\ \E m \in 1 .. n - 1 :
                   /\ About(p, m, r, c.key, {"planned"})
                   /\ \A d \in m + 1 .. n - 1 :
                        ~ About(p, d, r, c.key, Taken) /\ ~ Noted(p, d, r, Closing)
        BY <1>1, <2>1, <3>1 DEF FailedSafe
      <4>2. PICK n \in DOMAIN noted[p] :
              /\ noted[p][n] = c.rec /\ log[c.rec].type \in {"run_failure", "step_failure"}
              /\ \E m \in 1 .. n - 1 :
                   /\ About(p, m, r, c.key, {"planned"})
                   /\ \A d \in m + 1 .. n - 1 :
                        ~ About(p, d, r, c.key, Taken) /\ ~ Noted(p, d, r, Closing)
        BY <4>1
      <4>3. n \in Nat /\ n \in DOMAIN noted'[p] /\ noted'[p][n] = c.rec
        BY <4>2 DEF Notice
      <4>4. \A d \in 1 .. n - 1 : d \in DOMAIN noted[p]
        BY <1>1 DEF TypeOK
      <4> QED BY <4>2, <4>3, <4>4
    <3>2. CASE c \in calls
      <4>1. /\ c.rec = i /\ r = rec.run /\ c.key \in M.keys[r]
            /\ log[c.rec].type \in {"run_failure", "step_failure"}
        BY <1>2, <2>1, <3>2 DEF Dispatching, RunOf
      <4>2. PICK m \in DOMAIN noted[q] :
              About(q, m, r, c.key, {"planned"}) /\ Open(q, m, r) /\ Unmade(q, m, r, c.key)
        BY <1>1, <1>2, <4>1 DEF MapSound
      <4>3. /\ N \in Nat /\ m \in 1 .. N - 1 /\ N \in DOMAIN noted'[q] /\ noted'[q][N] = c.rec
            /\ \A d \in 1 .. N - 1 : d \in DOMAIN noted[q]
        <5>1. N \in Nat /\ m \in Nat /\ m < N
          BY <1>2 DEF Notice
        <5>2. m >= 1
          BY <1>1, <1>2 DEF TypeOK
        <5> QED BY <4>1, <5>1, <5>2 DEF Notice
      <4>4. ASSUME NEW d \in m + 1 .. N - 1
            PROVE  ~ About(q, d, r, c.key, Taken) /\ ~ Noted(q, d, r, Closing)
        <5>1. d \in DOMAIN noted[q] /\ d > m
          BY <4>3
        <5> QED BY <4>2, <5>1 DEF Open, Unmade
      <4> QED BY <1>2, <4>1, <4>2, <4>3, <4>4
    <3> QED BY <1>4, <3>1, <3>2
  <2>3. PICK n \in Nat : \E m \in 1 .. n - 1 :
          /\ n \in DOMAIN noted'[p] /\ noted'[p][n] = c.rec
          /\ log[c.rec].type \in {"run_failure", "step_failure"}
          /\ \A d \in 1 .. n - 1 : d \in DOMAIN noted[p]
          /\ About(p, m, r, c.key, {"planned"})
          /\ \A d \in m + 1 .. n - 1 : ~ About(p, d, r, c.key, Taken) /\ ~ Noted(p, d, r, Closing)
    BY <2>2
  <2>4. PICK m \in 1 .. n - 1 :
          /\ n \in DOMAIN noted'[p] /\ noted'[p][n] = c.rec
          /\ log[c.rec].type \in {"run_failure", "step_failure"}
          /\ \A d \in 1 .. n - 1 : d \in DOMAIN noted[p]
          /\ About(p, m, r, c.key, {"planned"})
          /\ \A d \in m + 1 .. n - 1 : ~ About(p, d, r, c.key, Taken) /\ ~ Noted(p, d, r, Closing)
    BY <2>3
  <2>5. RunOf(c)' = r
    BY <1>6, <2>1
  <2>6. About(p, m, r, c.key, {"planned"})'
    BY <2>4 DEF Notice
  <2>7. ASSUME NEW d \in m + 1 .. n - 1
        PROVE  ~ About(p, d, r, c.key, Taken)' /\ ~ Noted(p, d, r, Closing)'
    <3>1. d \in DOMAIN noted[p]
      BY <2>4
    <3> QED BY <2>4, <3>1 DEF Notice
  <2>8. /\ About(p, m, RunOf(c), c.key, {"planned"})'
        /\ \A d \in m + 1 .. n - 1 :
             ~ About(p, d, RunOf(c), c.key, Taken)' /\ ~ Noted(p, d, RunOf(c), Closing)'
    BY <2>5, <2>6, <2>7 DEF About, Noted
  <2> QED BY <1>2, <2>4, <2>8
<1>10. EmbeddedSafe'
  <2> SUFFICES ASSUME NEW c \in Made', c.kind = "check_planned", Whole(RunOf(c))',
                      NEW p \in Procs, NEW n \in DOMAIN noted'[p], noted'[p][n] = c.rec,
                      NEW m \in 1 .. n - 1, Noted(p, m, RunOf(c), {"planned"})'
               PROVE  \E d \in m + 1 .. n - 1 : Noted(p, d, RunOf(c), Closing)'
    BY DEF EmbeddedSafe
  <2>1. PICK r : r = RunOf(c)
    OBVIOUS
  <2>2. RunOf(c)' = r /\ Noted(p, m, r, {"planned"})'
    BY <1>6, <2>1 DEF Noted
  <2>3. Whole(r)
    <3>1. Whole(r)'
      BY <2>2 DEF Whole
    <3> QED BY <1>7, <3>1
  <2>4. SUFFICES \E d \in m + 1 .. n - 1 : Noted(p, d, r, Closing)'
    BY <2>2 DEF Noted
  <2>5. CASE c \in Made
    <3>1. c.rec # i
      <4>1. PICK p1 \in Procs : \E n1 \in DOMAIN noted[p1] : noted[p1][n1] = c.rec
        BY <1>1, <2>5 DEF MadeOfNoted
      <4> QED BY <1>3, <4>1
    <3>2. n \in DOMAIN noted[p] /\ noted[p][n] = c.rec
      BY <3>1 DEF Notice
    <3>3. \A d \in 1 .. n - 1 : d \in DOMAIN noted[p]
      BY <1>1, <3>2 DEF TypeOK
    <3>4. Noted(p, m, r, {"planned"})
      BY <2>2, <3>3 DEF Notice
    <3>5. PICK d \in m + 1 .. n - 1 : Noted(p, d, r, Closing)
      BY <1>1, <2>1, <2>3, <2>5, <3>2, <3>4 DEF EmbeddedSafe
    <3>6. d \in DOMAIN noted[p]
      BY <1>1, <3>2 DEF TypeOK
    <3> QED BY <3>5, <3>6 DEF Notice
  <2>6. CASE c \in calls
    <3>1. c.rec = i /\ r = rec.run /\ ~ Has(M, r)
      BY <1>2, <2>1, <2>6 DEF Dispatching, RunOf
    <3>2. n \notin DOMAIN noted[p]
      <4>1. n \in DOMAIN noted[p] => noted'[p][n] = noted[p][n]
        BY DEF Notice
      <4> QED BY <1>3, <3>1, <4>1
    <3>3. p = q /\ n = N
      BY <3>2 DEF Notice
    <3>4. m \in DOMAIN noted[q]
      BY <3>3 DEF Notice
    <3>5. Noted(q, m, r, {"planned"})
      BY <2>2, <1>2, <3>3, <3>4 DEF Notice
    <3>6. r \notin lost /\ r \in Runs
      BY <1>2, <2>3, <3>1 DEF Whole
    <3>7. ~ Open(q, m, r)
      BY <1>1, <1>2, <3>1, <3>4, <3>5, <3>6 DEF MapComplete
    <3>8. PICK d \in DOMAIN noted[q] : d > m /\ Noted(q, d, r, Closing)
      BY <3>7 DEF Open
    <3>9. d \in m + 1 .. n - 1
      <4>1. d \in Nat /\ N \in Nat /\ d < N /\ m \in Nat
        BY <1>2, <3>4 DEF Notice
      <4> QED BY <3>3, <3>8, <4>1
    <3>10. Noted(q, d, r, Closing)'
      BY <1>2, <3>8 DEF Notice
    <3> QED BY <3>3, <3>9, <3>10
  <2> QED BY <1>4, <2>5, <2>6
<1> QED BY <1>8, <1>9, <1>10

(* The dispatch of an event keeps the invariant. *)
LEMMA DispatchKeeps ==
  ASSUME StorageInv, NEW w \in Threads, Dispatch(w) PROVE StorageInv'
<1>1. /\ TypeOK /\ Threaded /\ Written /\ Notes /\ Fresh /\ OneEnd /\ MapKnown
      /\ NothingForgotten
  BY DEF StorageInv
<1>2. PICK q : q = Home[w]
  OBVIOUS
<1>3. PICK i : i = on[w]
  OBVIOUS
<1>4. PICK rec : rec = log[i]
  OBVIOUS
<1>5. PICK N : N = Len(noted[q]) + 1
  OBVIOUS
<1>6. PICK M : M = planned[q]
  OBVIOUS
<1>7. PICK Q : Q = Remember(M, rec)
  OBVIOUS
<1>8. PICK calls : calls = Calls(M, i)
  OBVIOUS
<1>9. /\ q \in Procs /\ i \in DOMAIN log /\ at[w] = "stored" /\ log' = log
      /\ noted' = [noted EXCEPT ![q] = Append(noted[q], i)]
      /\ Continue(w, calls)
      /\ Dispatching(q, M, Q, i, rec, calls)
  BY <1>2, <1>3, <1>4, <1>6, <1>7, <1>8, DispatchIs
<1>10. Notice(q, N, i, rec)
  BY <1>1, <1>4, <1>5, <1>9, NoticeIs
<1>11. calls \in SUBSET CallTypes
  BY <1>9 DEF Dispatching
<1>12. /\ out' \in [Threads -> SUBSET CallTypes] /\ on' \in [Threads -> Nat]
       /\ at' \in [Threads -> {"idle", "stored", "emit"}]
       /\ \A v \in Threads : v # w => out'[v] = out[v] /\ on'[v] = on[v] /\ at'[v] = at[v]
       /\ out'[w] = calls
       /\ calls = {} => at'[w] = "idle"
       /\ calls # {} => at'[w] = "emit" /\ on'[w] = on[w]
  BY <1>1, <1>9, <1>11, ContinueIs
<1>13. TypeOK'
  <2>1. noted' \in [Procs -> Seq(Nat)]
    <3>1. i \in Nat /\ noted[q] \in Seq(Nat)
      BY <1>1, <1>9, RecordIs DEF TypeOK
    <3>2. Append(noted[q], i) \in Seq(Nat)
      BY <3>1
    <3> QED BY <1>1, <1>9, <3>2 DEF TypeOK
  <2>2. planned' \in [Procs -> Plans]
    BY <1>1, <1>9 DEF TypeOK, Dispatching
  <2> QED BY <1>1, <1>9, <1>12, <2>1, <2>2 DEF TypeOK, Dispatching
<1>14. Separate'
  BY <1>1, <1>9, <1>12 DEF Threaded, Separate
<1>15. ASSUME NEW v \in Threads PROVE Working1(v)'
  <2>1. CASE v = w
    BY <1>3, <1>9, <1>12, <2>1 DEF Working1, Dispatching
  <2>2. CASE v # w
    BY <1>1, <1>9, <1>12, <2>2 DEF Threaded, Working1
  <2> QED BY <2>1, <2>2
<1>16. Written'
  BY <1>1, <1>9 DEF Written, Dispatching
<1>17. Notes'
  <2> SUFFICES ASSUME NEW p \in Procs, NEW n \in DOMAIN noted'[p] PROVE noted'[p][n] \in DOMAIN log
    BY <1>9 DEF Notes
  <2>1. n \in DOMAIN noted[p] \/ (p = q /\ n = N)
    BY <1>10 DEF Notice
  <2> QED BY <1>1, <1>9, <1>10, <2>1 DEF Notes, Notice
<1>18. Fresh'
  <2> SUFFICES ASSUME NEW v \in Threads, at'[v] = "stored",
                      NEW p \in Procs, NEW n \in DOMAIN noted'[p]
               PROVE  noted'[p][n] # on'[v]
    BY DEF Fresh
  <2>1. v # w /\ at[v] = "stored" /\ on'[v] = on[v]
    BY <1>12
  <2>2. on[v] # i
    BY <1>1, <1>3, <1>9, <2>1 DEF Threaded, Separate
  <2>3. n \in DOMAIN noted[p] \/ (p = q /\ n = N)
    BY <1>10 DEF Notice
  <2> QED BY <1>1, <1>10, <2>1, <2>2, <2>3 DEF Fresh, Notice
<1>19. OneEnd'
  BY <1>1, <1>9 DEF OneEnd
<1>20. NothingForgotten'
  <2> SUFFICES ASSUME NEW j \in DOMAIN log, log[j].type \in AssetTypes
               PROVE  \/ \E c \in emitted' : c.rec = j
                      \/ j \in dropped'
                      \/ \E v \in Threads : at'[v] # "idle" /\ on'[v] = j
                      \/ LeftToAssets(j)'
    BY <1>9 DEF NothingForgotten, Returned, LeftToAssets
  <2>1. \/ \E c \in emitted : c.rec = j
        \/ j \in dropped
        \/ \E v \in Threads : at[v] # "idle" /\ on[v] = j
        \/ LeftToAssets(j)
    BY <1>1 DEF NothingForgotten, Returned, LeftToAssets
  <2>2. emitted' = emitted /\ dropped' = dropped
    BY <1>9 DEF Dispatching
  <2>3. ASSUME NEW v \in Threads, at[v] # "idle", on[v] = j, v # w
        PROVE  at'[v] # "idle" /\ on'[v] = j
    BY <1>12, <2>3
  <2>4. CASE j = i
    <3>1. CASE rec.type = "check_planned" /\ Has(M, rec.run)
      <4>1. rec.run \in Runs
        BY <1>10 DEF Notice
      <4>2. PICK m \in DOMAIN noted[q] : Noted(q, m, rec.run, {"planned"})
        BY <1>1, <1>6, <1>9, <3>1, <4>1 DEF MapKnown
      <4>3. N \in Nat /\ m \in Nat /\ m < N /\ m >= 1
        BY <1>1, <1>9, <1>10 DEF Notice, TypeOK
      <4>4. m \in 1 .. N - 1
        BY <4>3
      <4>5. Noted(q, m, rec.run, {"planned"})' /\ N \in DOMAIN noted'[q] /\ noted'[q][N] = j
        BY <1>9, <1>10, <2>4, <4>2 DEF Notice
      <4>6. log'[j] = rec
        BY <1>4, <1>9, <2>4
      <4>7. Noted(q, m, log[j].run, {"planned"})'
        BY <4>5, <4>6 DEF Noted
      <4> QED BY <1>9, <3>1, <4>4, <4>5, <4>6, <4>7 DEF LeftToAssets
    <3>2. CASE \E c \in calls : c.kind = rec.type /\ c.key = rec.key
      BY <1>3, <1>12, <2>4, <3>2
    <3> QED BY <1>4, <1>9, <2>4, <3>1, <3>2 DEF Dispatching
  <2>5. CASE j # i /\ LeftToAssets(j)
    <3>1. PICK p \in Procs : \E n \in DOMAIN noted[p] :
            noted[p][n] = j /\ \E m \in 1 .. n - 1 : Noted(p, m, log[j].run, {"planned"})
      BY <2>5 DEF LeftToAssets
    <3>2. PICK n \in DOMAIN noted[p] :
            noted[p][n] = j /\ \E m \in 1 .. n - 1 : Noted(p, m, log[j].run, {"planned"})
      BY <3>1
    <3>3. PICK m \in 1 .. n - 1 : Noted(p, m, log[j].run, {"planned"})
      BY <3>2
    <3>4. PICK r : r = log[j].run
      OBVIOUS
    <3>5. m \in DOMAIN noted[p]
      BY <1>1, <3>2, <3>3 DEF TypeOK
    <3>6. Noted(p, m, r, {"planned"})' /\ n \in DOMAIN noted'[p] /\ noted'[p][n] = j
      BY <1>10, <3>2, <3>3, <3>4, <3>5 DEF Notice
    <3>7. Noted(p, m, log[j].run, {"planned"})'
      BY <1>9, <3>4, <3>6 DEF Noted
    <3> QED BY <1>9, <2>5, <3>6, <3>7 DEF LeftToAssets
  <2> QED BY <1>3, <2>1, <2>2, <2>3, <2>4, <2>5
<1>21. MapSound' /\ MapKnown' /\ MapComplete'
  BY <1>9, <1>10, DispatchMaps
<1>22. PlansKept'
  BY <1>9, <1>10, DispatchPlans
<1>23. MadeOfNoted' /\ FailedSafe' /\ EmbeddedSafe'
  BY <1>3, <1>9, <1>10, DispatchCalls
<1> QED BY <1>13, <1>14, <1>15, <1>16, <1>17, <1>18, <1>19, <1>20, <1>21, <1>22, <1>23
        DEF StorageInv, Threaded

------------------------------------------------------------------------------
(* A step that changes nothing keeps the invariant. *)
LEMMA SameKeeps ==
  ASSUME StorageInv, UNCHANGED vars PROVE StorageInv'
<1>1. TypeOK /\ Threaded /\ Written /\ Fresh /\ OneEnd /\ NothingForgotten
  BY DEF StorageInv
<1>2. /\ log' = log /\ planned' = planned /\ noted' = noted /\ at' = at /\ on' = on
      /\ out' = out /\ emitted' = emitted /\ dropped' = dropped /\ lost' = lost
  BY DEF vars
<1>3. TypeOK' /\ Threaded' /\ Written' /\ Fresh' /\ OneEnd'
  BY <1>1, <1>2 DEF TypeOK, Threaded, Separate, Working1, Written, Fresh, OneEnd
<1>4. Made' = Made
  BY <1>2 DEF Made
<1>5. /\ Notes' /\ MadeOfNoted' /\ MapSound' /\ MapKnown' /\ MapComplete' /\ PlansKept'
      /\ FailedSafe' /\ EmbeddedSafe'
  BY <1>2, <1>4, Steady
<1>6. NothingForgotten'
  BY <1>1, <1>2 DEF NothingForgotten, Returned, Noted
<1> QED BY <1>3, <1>5, <1>6 DEF StorageInv

(* The invariant holds at the start. *)
LEMMA StorageInit == Init => StorageInv
<1> SUFFICES ASSUME Init PROVE StorageInv
  OBVIOUS
<1>1. /\ log = << >> /\ planned = [p \in Procs |-> NoRuns] /\ noted = [p \in Procs |-> << >>]
      /\ at = [w \in Threads |-> "idle"] /\ on = [w \in Threads |-> 0]
      /\ out = [w \in Threads |-> {}] /\ emitted = {} /\ dropped = {} /\ lost = {}
  BY DEF Init
<1>2. /\ << >> \in Seq(Records) /\ << >> \in Seq(Nat) /\ DOMAIN log = {}
      /\ \A p \in Procs : noted[p] = << >> /\ DOMAIN noted[p] = {}
  BY <1>1
<1>3. \A p \in Procs : planned[p] = NoRuns /\ \A r \in Runs : planned[p].keys[r] = {}
  BY <1>1 DEF NoRuns
<1>4. TypeOK
  BY <1>1, <1>2, NoRunsIs DEF TypeOK
<1>5. Threaded /\ Written /\ Notes /\ Fresh /\ OneEnd /\ NothingForgotten
  BY <1>1, <1>2 DEF Threaded, Separate, Working1, Written, Notes, Fresh, OneEnd, NothingForgotten
<1>6. Made = {}
  BY <1>1 DEF Made
<1>7. MadeOfNoted /\ FailedSafe /\ EmbeddedSafe
  BY <1>6 DEF MadeOfNoted, FailedSafe, EmbeddedSafe
<1>8. MapSound /\ MapKnown /\ MapComplete /\ PlansKept
  BY <1>2, <1>3, NoRunsIs DEF MapSound, MapKnown, MapComplete, PlansKept
<1> QED BY <1>4, <1>5, <1>7, <1>8 DEF StorageInv

(* In every state each busy thread works on an event of its own, what a    *)
(* process remembers of the runs is what it has taken notice of, and each  *)
(* call was made for an event it had noticed.                              *)
THEOREM StorageInvariant == Spec => []StorageInv
<1>1. StorageInv /\ [Next]_vars => StorageInv'
  BY StoreKeeps, EmitKeeps, EmitFailsKeeps, DispatchFailsKeeps, DispatchKeeps, DieKeeps,
     SameKeeps DEF Next, Working
<1> QED BY <1>1, StorageInit, PTL DEF Spec

(* Every stored asset event is emitted, unless its emission was lost, its  *)
(* thread has not returned or it is a check planned with its run: for any  *)
(* processes, threads and eviction bound, and any order of events.         *)
THEOREM NothingEverForgotten == Spec => []NothingForgotten
<1>1. StorageInv => NothingForgotten
  BY DEF StorageInv
<1> QED BY <1>1, StorageInvariant, PTL

(* A process reports as failed only an asset it had seen planned, and had  *)
(* not seen made, when it took notice of the failure: however many         *)
(* processes and threads share the log, and in any order.                  *)
THEOREM NeverFalselyFailed == Spec => []NoFalseFailure
<1>1. StorageInv => NoFalseFailure
  BY DEF StorageInv, FailedSafe, Made, NoFalseFailure, Taken
<1> QED BY <1>1, StorageInvariant, PTL

(* A planned check is told of as one that stands alone only by a process   *)
(* that had not seen its run plan anything, or had seen it end since,      *)
(* whatever other runs plan in between, unless what was planned was lost.  *)
THEOREM EmbeddedAlwaysKnown == Spec => []EmbeddedKnown
<1>1. StorageInv => EmbeddedKnown
  BY DEF StorageInv, EmbeddedSafe, Made, EmbeddedKnown
<1> QED BY <1>1, StorageInvariant, PTL

(* What was kept of a plan when the run's failure was noticed has been     *)
(* told once no event of the run is being stored.                          *)
LEMMA Telling ==
  ASSUME StorageInv PROVE FailuresTold
<1> SUFFICES ASSUME NEW p \in Procs, NEW n \in DOMAIN noted[p], NEW m \in 1 .. n - 1,
                    NEW k \in Steps, NEW r, r = log[noted[p][n]].run,
                    Noted(p, n, r, {"run_failure"}), About(p, m, r, k, {"planned"}),
                    Whole(r), Quiet(r)
             PROVE  \/ \E d \in m + 1 .. n - 1 : About(p, d, r, k, {"materialized"})
                    \/ Reported(r, k)
  BY DEF FailuresTold
<1>1. TypeOK /\ Threaded /\ Notes /\ OneEnd /\ PlansKept
  BY DEF StorageInv
<1>2. /\ noted[p] \in Seq(Nat) /\ m \in DOMAIN noted[p] /\ n \in Nat /\ m \in Nat /\ m < n
  BY <1>1 DEF TypeOK
<1>3. noted[p][n] \in DOMAIN log /\ r \in Runs
  BY <1>1, RecordIs DEF Notes
<1>4. Kept(p, m, r, k)
  BY <1>1, <1>2, <1>3 DEF PlansKept
<1>5. ~ Unfailed(p, m, r)
  BY <1>2 DEF Unfailed
<1>6. ASSUME NEW d \in DOMAIN noted[p], d > m, About(p, d, r, k, {"materialized"}),
             \A e \in DOMAIN noted[p] : e > m /\ e < d => ~ Noted(p, e, r, {"run_failure"})
      PROVE  d \in m + 1 .. n - 1
  <2>1. d \in Nat /\ ~ (n < d)
    BY <1>2, <1>6
  <2>2. d # n
    BY <1>6 DEF About, Noted
  <2> QED BY <1>2, <1>6, <2>1, <2>2
<1>7. ASSUME NEW c \in Made, RunOf(c) = r, c.key = k, c.kind \in {"failed", "not_materialized"}
      PROVE  Reported(r, k)
  <2>1. ASSUME NEW w \in Threads, c \in out[w] PROVE FALSE
    <3>1. at[w] # "idle" /\ c.rec = on[w]
      BY <1>1, <2>1 DEF Threaded, Working1
    <3> QED BY <1>7, <3>1 DEF Quiet, RunOf
  <2> QED BY <1>7, <2>1 DEF Made, Reported
<1>8. ASSUME NEW j \in DOMAIN log, log[j].run = r, log[j].type \in {"run_success", "run_canceled"}
      PROVE  FALSE
  <2>1. log[noted[p][n]].run = r /\ log[noted[p][n]].type = "run_failure"
    BY DEF Noted
  <2>2. j = noted[p][n]
    BY <1>1, <1>3, <1>8, <2>1 DEF OneEnd, RunEnds
  <2> QED BY <1>8, <2>1, <2>2
<1> QED BY <1>4, <1>5, <1>6, <1>7, <1>8 DEF Kept

(* A failed run's planned assets that a process has not seen made are told *)
(* once the failure is stored, unless something of that run was lost: for  *)
(* each of the processes that share the log, and any number of them.       *)
THEOREM FailuresAlwaysTold == Spec => []FailuresTold
<1>1. StorageInv => FailuresTold
  BY Telling
<1> QED BY <1>1, StorageInvariant, PTL
==============================================================================
