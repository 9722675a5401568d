-------------------------- MODULE PipesSessionProofs --------------------------
(***************************************************************************)
(* What PipesSession promises, for every set of assets, every choice of    *)
(* implementations and channels, and any number of messages, runs and      *)
(* faults: messages arrive in order, closing waits for them, and a failure *)
(* is told.                                                                *)
(***************************************************************************)
EXTENDS PipesSession, FiniteSetTheorems, WellFoundedInduction, TLAPS

Numbers(s) == {s[i].n : i \in DOMAIN s}
Rising(s) == \A i, j \in DOMAIN s : i < j => s[i].n < s[j].n
Before(s, t) == \A i \in DOMAIN s, j \in DOMAIN t : s[i].n < t[j].n
Genuine(s) == \A i \in DOMAIN s : s[i].n \in DOMAIN accepted /\ accepted[s[i].n] = s[i]

QueueOK ==
  /\ accepted \in Seq(Messages) /\ arrived \in Seq(Messages)
  /\ buffer \in Seq(Messages) /\ logs \in Seq(Messages) /\ chunk \in Seq(Messages)
Calls == [raised : BOOLEAN, threw : BOOLEAN, late : BOOLEAN]
TypeOK ==
  /\ <<lang, channel>> \in AllVariants
  /\ targets \subseteq Assets /\ made \subseteq Assets
  /\ context \in {"none", "open", "closed", "dropped"}
  /\ QueueOK
  /\ uploader \in {"none", "loop", "turn", "uploading", "last", "ended", "dead"}
  /\ lost \subseteq Nat /\ faults \in 0 .. MaxFaults
  /\ caller \in {"idle", "running", "joining"}
  /\ pending \in BOOLEAN /\ runs \in Seq(Calls)

(* A message is known by its number, wherever it is.                       *)
Numbered ==
  /\ \A i \in DOMAIN accepted : accepted[i].n = i
  /\ Genuine(arrived) /\ Genuine(chunk) /\ Genuine(buffer) /\ Genuine(logs)

(* Which messages are held where.                                          *)
Held ==
  /\ context = "none" => accepted = << >>
  /\ channel = "direct" => buffer = << >>
  /\ ~ (lang = "rust" /\ channel = "held") => logs = << >>
  /\ channel # "upload" => chunk = << >> /\ uploader = "none"
  /\ channel = "upload" /\ context # "none" => uploader # "none"
  /\ uploader \notin {"uploading", "last"} => chunk = << >>
  /\ lang = "rust" => context # "closed"
  /\ context = "dropped" => lang = "rust" /\ buffer = << >> /\ logs = << >>
  /\ lang = "typescript" /\ context = "closed" => buffer = << >>

(* What the channels of a Rust context hold goes out when they are dropped. *)
Clones ==
  lang = "rust" /\ channel = "held" =>
    /\ context # "dropped" => arrived = << >>
    /\ \A i \in DOMAIN buffer : buffer[i].method # "log"
    /\ \A i \in DOMAIN logs : logs[i].method = "log"

(* The messages stand in line: arrived, being uploaded, held.              *)
InLine ==
  /\ Rising(buffer) /\ Rising(logs) /\ Rising(chunk)
  /\ Before(arrived, chunk) /\ Before(arrived, buffer) /\ Before(chunk, buffer)

Accounted ==
  \A n \in DOMAIN accepted :
    \/ n \in Numbers(arrived) \cup Numbers(chunk) \cup Numbers(buffer) \cup Numbers(logs)
    \/ n \in lost

(* Where runDagsterPipes is.                                               *)
Callers ==
  /\ lang # "java" => caller = "idle" /\ runs = << >>
  /\ caller # "idle" => Len(runs) > 0 /\ context # "none"
  /\ caller = "running" =>
       ~ runs[Len(runs)].raised /\ (runs[Len(runs)].late <=> context = "closed")
  /\ caller = "joining" =>
       channel = "upload" /\ context = "open" /\ ~ runs[Len(runs)].late

(* The upload thread ends after it has taken the last "closed".            *)
Ended ==
  /\ uploader \in {"last", "ended"} =>
       ShouldClose /\ \A c \in ClosedAt, n \in Numbers(buffer) : c < n
  /\ lang = "java" /\ channel = "upload" /\ context = "closed" =>
       uploader \in {"ended", "dead"}

(* Java writes one "closed".                                               *)
Closings ==
  /\ lang = "java" /\ context # "closed" /\ caller # "joining" => ClosedAt = {}
  /\ context \in {"closed", "dropped"} \/ caller = "joining" => ClosedAt # {}

Pending == \A i \in DOMAIN runs : runs[i].raised => pending

(* What the code's close throws, as an invariant that is kept step by step. *)
Thrown ==
  \A i \in DOMAIN runs : runs[i].raised /\ ~ runs[i].late =>
    /\ runs[i].threw \/ (i = Len(runs) /\ caller = "joining")
    /\ \A c \in ClosedAt : accepted[c].failed

PipesInv ==
  /\ TypeOK /\ Numbered /\ Held /\ Clones /\ InLine /\ Accounted
  /\ Callers /\ Ended /\ Closings /\ Pending /\ Ordered /\ Thrown

------------------------------------------------------------------------------
(* A finite set of numbers that is not empty has a largest one: what Max   *)
(* stands for.                                                             *)
LEMMA HasMax ==
  ASSUME NEW S, IsFiniteSet(S), S # {}, S \subseteq Int
  PROVE  \E m \in S : \A x \in S : m >= x
<1> DEFINE Topped(U) == \E m \in U : \A x \in U : m >= x
           T == {U \in SUBSET S : U # {} /\ ~ Topped(U)}
<1> SUFFICES ASSUME T # {} PROVE FALSE
  OBVIOUS
<1>1. T \subseteq FiniteSubsetsOf(S)
  BY FS_Subset DEF FiniteSubsetsOf
<1>2. PICK U \in T : \A V \in T : <<V, U>> \notin StrictSubsetOrdering(S)
  <2> HIDE DEF T
  <2> QED BY <1>1, FS_StrictSubsetOrderingWellFounded, WFMin
<1>3. PICK u \in U : TRUE
  OBVIOUS
<1> DEFINE V == U \ {u}
<1>4. <<V, U>> \in StrictSubsetOrdering(S)
  BY DEF StrictSubsetOrdering
<1>5. V = {} \/ Topped(V)
  BY <1>2, <1>4
<1>6. CASE V = {}
  <2>1. \A x \in U : u >= x
    BY <1>6
  <2> QED BY <2>1
<1>7. CASE Topped(V)
  <2>1. PICK m \in V : \A x \in V : m >= x
    BY <1>7
  <2>2. u \in Int /\ m \in Int
    OBVIOUS
  <2>3. CASE u >= m
    <3>1. \A x \in U : u >= x
      BY <2>1, <2>2, <2>3
    <3> QED BY <3>1
  <2>4. CASE m > u
    <3>1. \A x \in U : m >= x
      BY <2>1, <2>2, <2>4
    <3> QED BY <3>1
  <2> QED BY <2>2, <2>3, <2>4
<1> QED BY <1>5, <1>6, <1>7

UpTo(S, i) == {j \in S : j <= i}

(* A finite set of numbers has a k-th smallest one for every k up to its   *)
(* size.                                                                   *)
LEMMA KthExists ==
  ASSUME NEW S, IsFiniteSet(S), S \subseteq Int, NEW k \in 1 .. Cardinality(S)
  PROVE  \E i \in S : Cardinality(UpTo(S, i)) = k
<1> DEFINE Ranked(U) ==
             \A l \in 1 .. Cardinality(U) : \E i \in U : Cardinality(UpTo(U, i)) = l
           T == {U \in SUBSET S : ~ Ranked(U)}
<1> SUFFICES ASSUME T # {} PROVE FALSE
  OBVIOUS
<1>1. T \subseteq FiniteSubsetsOf(S)
  BY FS_Subset DEF FiniteSubsetsOf
<1>2. PICK U \in T : \A V \in T : <<V, U>> \notin StrictSubsetOrdering(S)
  <2> HIDE DEF T
  <2> QED BY <1>1, FS_StrictSubsetOrderingWellFounded, WFMin
<1>3. PICK l \in 1 .. Cardinality(U) : \A i \in U : Cardinality(UpTo(U, i)) # l
  OBVIOUS
<1>4. IsFiniteSet(U) /\ Cardinality(U) \in Nat /\ U # {} /\ U \subseteq Int
  <2>1. IsFiniteSet(U) /\ U \subseteq Int
    BY <1>1 DEF FiniteSubsetsOf
  <2>2. Cardinality(U) \in Nat
    BY <2>1, FS_CardinalityType
  <2>3. Cardinality(U) # 0
    BY <1>3, <2>2
  <2> QED BY <2>1, <2>2, <2>3, FS_EmptySet
<1>5. PICK m \in U : \A x \in U : m >= x
  BY <1>4, HasMax
<1> DEFINE V == U \ {m}
<1>6. Cardinality(V) = Cardinality(U) - 1
  BY <1>4, FS_RemoveElement
<1>7. UpTo(U, m) = U
  BY <1>4, <1>5 DEF UpTo
<1>8. l \in 1 .. Cardinality(V)
  BY <1>3, <1>4, <1>6, <1>7
<1>9. <<V, U>> \in StrictSubsetOrdering(S)
  BY DEF StrictSubsetOrdering
<1>10. PICK i \in V : Cardinality(UpTo(V, i)) = l
  BY <1>2, <1>8, <1>9
<1>11. i < m
  BY <1>4, <1>5
<1>12. UpTo(U, i) = UpTo(V, i)
  BY <1>4, <1>11 DEF UpTo
<1> QED BY <1>3, <1>10, <1>12

(* The numbers of a set up to one of them: more for a larger one. *)
LEMMA Segments ==
  ASSUME NEW S, IsFiniteSet(S), S \subseteq Int, NEW i \in S, NEW j \in S
  PROVE  /\ Cardinality(UpTo(S, i)) \in 1 .. Cardinality(S)
         /\ i < j <=> Cardinality(UpTo(S, i)) < Cardinality(UpTo(S, j))
<1>1. \A x \in S : /\ IsFiniteSet(UpTo(S, x)) /\ Cardinality(UpTo(S, x)) \in Nat
                   /\ UpTo(S, x) \subseteq S /\ x \in UpTo(S, x)
  BY FS_Subset, FS_CardinalityType DEF UpTo
<1>2. \A x, y \in S : x <= y =>
        /\ UpTo(S, x) \subseteq UpTo(S, y)
        /\ x # y => UpTo(S, x) # UpTo(S, y)
  <2> TAKE x, y \in S
  <2> HAVE x <= y
  <2>1. x \in Int /\ y \in Int
    OBVIOUS
  <2>2. UpTo(S, x) \subseteq UpTo(S, y)
    <3> SUFFICES ASSUME NEW z \in S, z <= x PROVE z <= y
      BY DEF UpTo
    <3>1. z \in Int
      OBVIOUS
    <3> QED BY <2>1, <3>1
  <2>3. y \in UpTo(S, y) /\ (x # y => y \notin UpTo(S, x))
    BY <2>1 DEF UpTo
  <2> QED BY <2>2, <2>3
<1>3. \A x, y \in S : x <= y => Cardinality(UpTo(S, x)) <= Cardinality(UpTo(S, y))
  BY <1>1, <1>2, FS_Subset
<1>4. \A x, y \in S : x < y => Cardinality(UpTo(S, x)) # Cardinality(UpTo(S, y))
  BY <1>1, <1>2, FS_Subset
<1>5. Cardinality(UpTo(S, i)) # 0
  BY <1>1, FS_EmptySet
<1>6. Cardinality(UpTo(S, i)) <= Cardinality(S)
  BY <1>1, FS_Subset
<1> QED BY <1>1, <1>3, <1>4, <1>5, <1>6, FS_CardinalityType

(* Kth lists a finite set of numbers in ascending order, each of them      *)
(* once.                                                                   *)
LEMMA KthIs ==
  ASSUME NEW S, IsFiniteSet(S), S \subseteq Int
  PROVE  /\ \A k \in 1 .. Cardinality(S) :
              Kth(S, k) \in S /\ Cardinality(UpTo(S, Kth(S, k))) = k
         /\ \A k, l \in 1 .. Cardinality(S) : k < l => Kth(S, k) < Kth(S, l)
         /\ \A i \in S : \E k \in 1 .. Cardinality(S) : Kth(S, k) = i
<1>1. ASSUME NEW k \in 1 .. Cardinality(S)
      PROVE  Kth(S, k) \in S /\ Cardinality(UpTo(S, Kth(S, k))) = k
  <2>1. Kth(S, k) = CHOOSE i \in S : Cardinality(UpTo(S, i)) = k
    BY DEF Kth, UpTo
  <2>2. \E i \in S : Cardinality(UpTo(S, i)) = k
    BY KthExists
  <2> QED BY <2>1, <2>2
<1>2. \A k, l \in 1 .. Cardinality(S) : k < l => Kth(S, k) < Kth(S, l)
  BY ZenonT(40), <1>1, Segments
<1>3. ASSUME NEW i \in S
      PROVE  \E k \in 1 .. Cardinality(S) : Kth(S, k) = i
  <2> DEFINE k == Cardinality(UpTo(S, i))
  <2>1. k \in 1 .. Cardinality(S)
    BY Segments
  <2>2. Kth(S, k) \in S /\ Cardinality(UpTo(S, Kth(S, k))) = k
    BY <1>1, <2>1
  <2>3. Kth(S, k) = i
    <3> HIDE DEF k
    <3>1. PICK x : x = Kth(S, k)
      OBVIOUS
    <3>2. x \in S /\ Cardinality(UpTo(S, x)) = Cardinality(UpTo(S, i))
      BY <2>2, <3>1 DEF k
    <3>3. x \in Int /\ i \in Int
      BY <3>2
    <3>4. Cardinality(UpTo(S, i)) \in 1 .. Cardinality(S)
      BY Segments
    <3>5. x < i <=> Cardinality(UpTo(S, x)) < Cardinality(UpTo(S, i))
      BY <3>2, Segments
    <3>6. i < x <=> Cardinality(UpTo(S, i)) < Cardinality(UpTo(S, x))
      BY <3>2, Segments
    <3>7. ~ (x < i) /\ ~ (i < x)
      BY <3>2, <3>4, <3>5, <3>6
    <3> QED BY <3>1, <3>3, <3>7
  <2> QED BY <2>1, <2>3
<1> QED BY <1>1, <1>2, <1>3

(* Flushing keeps the messages it can write, in their order, and adds      *)
(* none.                                                                   *)
LEMMA FlushedKeeps ==
  ASSUME NEW messages \in Seq(Messages), NEW failed
  PROVE  /\ Flushed(messages, failed) \in Seq(Messages)
         /\ Rising(messages) => Rising(Flushed(messages, failed))
         /\ \A k \in DOMAIN Flushed(messages, failed) : \E i \in DOMAIN messages :
              Flushed(messages, failed)[k] = messages[i]
         /\ \A i \in DOMAIN messages : messages[i].n \notin failed =>
              \E k \in DOMAIN Flushed(messages, failed) :
                Flushed(messages, failed)[k] = messages[i]
<1> DEFINE kept == {i \in DOMAIN messages : messages[i].n \notin failed}
           N == Cardinality(kept)
           f == [k \in 1 .. N |-> messages[Kth(kept, k)]]
<1>1. Flushed(messages, failed) = f
  BY DEF Flushed
<1>2. kept \subseteq DOMAIN messages /\ DOMAIN messages = 1 .. Len(messages) /\ Len(messages) \in Nat
  OBVIOUS
<1>3. IsFiniteSet(kept) /\ kept \subseteq Int /\ N \in Nat
  <2>1. IsFiniteSet(1 .. Len(messages))
    BY <1>2, FS_Interval
  <2> HIDE DEF kept
  <2>2. IsFiniteSet(kept)
    BY <1>2, <2>1, FS_Subset
  <2>3. N \in Nat
    BY <2>2, FS_CardinalityType
  <2> QED BY <1>2, <2>2, <2>3
<1>4. /\ \A k \in 1 .. N : Kth(kept, k) \in kept
      /\ \A k, l \in 1 .. N : k < l => Kth(kept, k) < Kth(kept, l)
      /\ \A i \in kept : \E k \in 1 .. N : Kth(kept, k) = i
  BY <1>3, KthIs
<1>5. \A i \in DOMAIN messages : messages[i].n \notin failed => i \in kept
  OBVIOUS
<1> HIDE DEF kept, N
<1>6. f \in Seq(Messages)
  <2>1. \A k \in 1 .. N : messages[Kth(kept, k)] \in Messages
    BY <1>2, <1>4
  <2>2. f \in [1 .. N -> Messages]
    BY <2>1
  <2> QED BY <1>3, <2>2
<1>7. Rising(messages) => Rising(f)
  BY <1>2, <1>4 DEF Rising
<1>8. \A k \in DOMAIN f : \E i \in DOMAIN messages : f[k] = messages[i]
  BY <1>2, <1>4
<1>9. \A i \in DOMAIN messages : messages[i].n \notin failed => \E k \in DOMAIN f : f[k] = messages[i]
  BY <1>4, <1>5
<1> HIDE DEF f
<1> QED BY <1>1, <1>6, <1>7, <1>8, <1>9

------------------------------------------------------------------------------
(* A report is about an asset of the model, whoever resolves it. *)
LEMMA ResolvesToAssets ==
  ASSUME TypeOK, NEW asked \in Asked
  PROVE  Resolve(asked) \subseteq Assets /\ JavaResolve(asked) \subseteq Assets
<1>1. OnlyTarget \subseteq Assets
  BY DEF TypeOK, OnlyTarget
<1>2. CASE asked = NoKey
  BY <1>1, <1>2 DEF Resolve, JavaResolve
<1>3. CASE asked # NoKey
  BY <1>3 DEF Resolve, JavaResolve, Asked, TypeOK
<1> QED BY <1>2, <1>3

(* What Message makes: a message with the next number. *)
LEMMA MessageIs ==
  ASSUME TypeOK, NEW method \in Methods, NEW key \in Assets \cup {NoKey}, NEW failed \in BOOLEAN
  PROVE  /\ Message(method, key, failed) \in Messages
         /\ Message(method, key, failed).n = Len(accepted) + 1
         /\ Message(method, key, failed).method = method
         /\ Message(method, key, failed).failed = failed
  BY DEF Message, Messages, TypeOK, QueueOK

(* The elements of a sequence of messages with one more. *)
LEMMA AppendIs ==
  ASSUME NEW s \in Seq(Messages), NEW m \in Messages, NEW t, t = Append(s, m)
  PROVE  /\ t \in Seq(Messages) /\ t # << >> /\ Len(t) = Len(s) + 1
         /\ DOMAIN t = DOMAIN s \cup {Len(s) + 1}
         /\ t[Len(s) + 1] = m
         /\ \A i \in DOMAIN s : t[i] = s[i] /\ i \in Nat /\ i < Len(s) + 1
         /\ Len(s) \in Nat /\ Len(s) + 1 \notin DOMAIN s
<1>1. /\ t \in Seq(Messages) /\ t # << >> /\ Len(t) = Len(s) + 1
      /\ DOMAIN t = DOMAIN s \cup {Len(s) + 1}
      /\ t[Len(s) + 1] = m
      /\ \A i \in DOMAIN s : t[i] = s[i]
      /\ Len(s) \in Nat
  OBVIOUS
<1>2. \A i \in DOMAIN s : i \in Nat /\ i < Len(s) + 1
  OBVIOUS
<1> QED BY <1>1, <1>2

(* The numbers of a sequence of messages with one more. *)
LEMMA AppendNumbers ==
  ASSUME NEW s \in Seq(Messages), NEW m \in Messages
  PROVE  Numbers(Append(s, m)) = Numbers(s) \cup {m.n}
<1>1. PICK t : t = Append(s, m)
  OBVIOUS
<1>2. Numbers(t) = Numbers(s) \cup {m.n}
  BY <1>1, AppendIs DEF Numbers
<1> QED BY <1>1, <1>2

(* A message that is written has the next number and takes its place at    *)
(* the end of the line, wherever the channel puts it.                      *)
LEMMA Written ==
  ASSUME PipesInv, NEW m \in Messages, m.n = Len(accepted) + 1, WriteMessage(m),
         UNCHANGED <<rigid, logs, chunk, lost>>,
         context # "dropped"
  PROVE  /\ QueueOK' /\ Numbered' /\ InLine' /\ Accounted' /\ Ordered'
         /\ Len(accepted') = Len(accepted) + 1
         /\ accepted' # << >>
         /\ accepted'[Len(accepted) + 1] = m
         /\ \A i \in DOMAIN accepted : accepted'[i] = accepted[i]
         /\ ClosedAt' = IF m.method = "closed" THEN ClosedAt \cup {Len(accepted) + 1} ELSE ClosedAt
         /\ ClosedAt \subseteq 1 .. Len(accepted)
<1> USE DEF PipesInv, TypeOK
<1>q. /\ accepted \in Seq(Messages) /\ arrived \in Seq(Messages)
      /\ buffer \in Seq(Messages) /\ logs \in Seq(Messages) /\ chunk \in Seq(Messages)
      /\ \A x \in Messages : x.n \in Nat
  BY DEF QueueOK, Messages
<1>u. lang' = lang /\ channel' = channel /\ logs' = logs /\ chunk' = chunk /\ lost' = lost
  BY DEF rigid
<1> DEFINE n == Len(accepted) + 1
<1>n. n \in Nat /\ m.n = n
  BY <1>q
<1>1. /\ accepted' = Append(accepted, m)
      /\ accepted' \in Seq(Messages) /\ Len(accepted') = n /\ accepted'[n] = m
      /\ DOMAIN accepted' = DOMAIN accepted \cup {n}
      /\ \A i \in DOMAIN accepted : accepted'[i] = accepted[i]
      /\ n \notin DOMAIN accepted /\ accepted' # << >>
  BY <1>q DEF WriteMessage
<1>a. ASSUME channel = "direct"
      PROVE  QueueOK' /\ Numbered' /\ InLine' /\ Accounted' /\ Ordered'
  <2>1. /\ buffer' = buffer /\ buffer = << >> /\ chunk = << >>
    BY <1>a DEF WriteMessage, Held
  <2>2. /\ arrived' \in Seq(Messages) /\ Len(arrived') = Len(arrived) + 1
        /\ DOMAIN arrived' = DOMAIN arrived \cup {Len(arrived) + 1}
        /\ arrived'[Len(arrived) + 1] = m
        /\ \A i \in DOMAIN arrived :
             arrived'[i] = arrived[i] /\ i \in Nat /\ i < Len(arrived) + 1
        /\ Len(arrived) \in Nat
        /\ Numbers(arrived)' = Numbers(arrived) \cup {n}
    <3>1. PICK t : t = arrived'
      OBVIOUS
    <3>2. t = Append(arrived, m)
      BY <1>a, <3>1 DEF WriteMessage
    <3>3. Numbers(arrived)' = Numbers(t)
      BY <3>1 DEF Numbers
    <3>4. /\ t \in Seq(Messages) /\ Len(t) = Len(arrived) + 1
          /\ DOMAIN t = DOMAIN arrived \cup {Len(arrived) + 1}
          /\ t[Len(arrived) + 1] = m
          /\ \A i \in DOMAIN arrived : t[i] = arrived[i] /\ i \in Nat /\ i < Len(arrived) + 1
          /\ Len(arrived) \in Nat
      BY <1>q, <3>2, AppendIs
    <3>5. Numbers(t) = Numbers(arrived) \cup {m.n}
      BY <1>q, <3>2, AppendNumbers
    <3> QED BY <1>n, <3>1, <3>3, <3>4, <3>5
  <2>3. QueueOK'
    BY <1>q, <1>u, <1>1, <2>1, <2>2 DEF QueueOK
  <2>4. Numbered'
    BY <1>q, <1>u, <1>1, <1>n, <2>1, <2>2 DEF Numbered, Genuine
  <2>5. InLine'
    BY <1>q, <1>u, <2>1, <2>2 DEF InLine, Rising, Before
  <2>6. Accounted'
    <3>2. Numbers(chunk)' = Numbers(chunk) /\ Numbers(buffer)' = Numbers(buffer)
            /\ Numbers(logs)' = Numbers(logs)
      BY <1>u, <2>1
    <3> QED BY <1>1, <1>u, <2>2, <3>2 DEF Accounted
  <2>7. Ordered'
    <3>1. \A i \in DOMAIN arrived : arrived[i].n < n
      BY <1>q DEF Numbered, Genuine
    <3> SUFFICES ASSUME NEW i \in DOMAIN arrived', NEW j \in DOMAIN arrived', i < j
                 PROVE  \/ arrived'[i].n < arrived'[j].n
                        \/ /\ lang = "rust" /\ channel = "held"
                           /\ arrived'[i].method # "log" /\ arrived'[j].method = "log"
      BY <1>u DEF Ordered
    <3>2. i \in DOMAIN arrived
      BY <2>2
    <3>3. CASE j \in DOMAIN arrived
      BY <2>2, <3>2, <3>3 DEF Ordered
    <3>4. CASE j = Len(arrived) + 1
      BY <1>n, <2>2, <3>1, <3>2, <3>4
    <3> QED BY <2>2, <3>3, <3>4
  <2> QED BY <2>3, <2>4, <2>5, <2>6, <2>7
<1>b. ASSUME channel # "direct"
      PROVE  QueueOK' /\ Numbered' /\ InLine' /\ Accounted' /\ Ordered'
  <2>1. arrived' = arrived
    BY <1>b DEF WriteMessage
  <2>2. /\ buffer' \in Seq(Messages) /\ Len(buffer') = Len(buffer) + 1
        /\ DOMAIN buffer' = DOMAIN buffer \cup {Len(buffer) + 1}
        /\ buffer'[Len(buffer) + 1] = m
        /\ \A i \in DOMAIN buffer :
             buffer'[i] = buffer[i] /\ i \in Nat /\ i < Len(buffer) + 1
        /\ Len(buffer) \in Nat
        /\ Numbers(buffer)' = Numbers(buffer) \cup {n}
    <3>1. PICK t : t = buffer'
      OBVIOUS
    <3>2. t = Append(buffer, m)
      BY <1>b, <3>1 DEF WriteMessage
    <3>3. Numbers(buffer)' = Numbers(t)
      BY <3>1 DEF Numbers
    <3>4. /\ t \in Seq(Messages) /\ Len(t) = Len(buffer) + 1
          /\ DOMAIN t = DOMAIN buffer \cup {Len(buffer) + 1}
          /\ t[Len(buffer) + 1] = m
          /\ \A i \in DOMAIN buffer : t[i] = buffer[i] /\ i \in Nat /\ i < Len(buffer) + 1
          /\ Len(buffer) \in Nat
      BY <1>q, <3>2, AppendIs
    <3>5. Numbers(t) = Numbers(buffer) \cup {m.n}
      BY <1>q, <3>2, AppendNumbers
    <3> QED BY <1>n, <3>1, <3>3, <3>4, <3>5
  <2>0. \A s \in {arrived, chunk, buffer} : \A i \in DOMAIN s : s[i].n < n
    BY <1>q DEF Numbered, Genuine
  <2>3. QueueOK'
    BY <1>q, <1>u, <1>1, <2>1, <2>2 DEF QueueOK
  <2>4. Numbered'
    BY SMTT(30), <1>q, <1>u, <1>1, <1>n, <2>1, <2>2 DEF Numbered, Genuine
  <2>5. InLine'
    <3>1. Rising(buffer)'
      <4> SUFFICES ASSUME NEW i \in DOMAIN buffer', NEW j \in DOMAIN buffer', i < j
                   PROVE  buffer'[i].n < buffer'[j].n
        BY DEF Rising
      <4>1. i \in DOMAIN buffer
        BY <2>2
      <4>2. CASE j \in DOMAIN buffer
        BY <2>2, <4>1, <4>2 DEF InLine, Rising
      <4>3. CASE j = Len(buffer) + 1
        BY <1>n, <2>0, <2>2, <4>1, <4>3
      <4> QED BY <2>2, <4>2, <4>3
    <3>2. Before(arrived, buffer)' /\ Before(chunk, buffer)'
      BY <1>u, <1>n, <2>0, <2>1, <2>2 DEF InLine, Before
    <3> QED BY <1>u, <2>1, <3>1, <3>2 DEF InLine, Rising, Before
  <2>6. Accounted'
    <3>2. Numbers(chunk)' = Numbers(chunk) /\ Numbers(arrived)' = Numbers(arrived)
            /\ Numbers(logs)' = Numbers(logs)
      BY <1>u, <2>1
    <3> QED BY <1>1, <1>u, <2>2, <3>2 DEF Accounted
  <2>7. Ordered'
    BY <1>u, <2>1 DEF Ordered
  <2> QED BY <2>3, <2>4, <2>5, <2>6, <2>7
<1>c. ClosedAt' = IF m.method = "closed" THEN ClosedAt \cup {n} ELSE ClosedAt
  BY <1>1 DEF ClosedAt
<1>d. ClosedAt \subseteq 1 .. Len(accepted)
  BY <1>q DEF ClosedAt
<1> QED BY <1>1, <1>a, <1>b, <1>c, <1>d

(* A write keeps the invariant; only Rust's user can write "closed" this   *)
(* way.                                                                    *)
LEMMA WritePreserves ==
  ASSUME PipesInv, NEW m \in Messages, m.n = Len(accepted) + 1, m.method = "closed" => lang = "rust",
         WriteMessage(m), UNCHANGED <<rigid, logs, chunk, lost, session>>,
         made' \subseteq Assets,
         \/ context' = context /\ context # "none" /\ uploader' = uploader
         \/ /\ context = "none" /\ context' = "open"
            /\ uploader' = IF channel = "upload" THEN "loop" ELSE "none",
         context # "dropped", lang = "typescript" => context # "closed",
         lang = "rust" /\ channel = "held" => m.method # "log"
  PROVE  PipesInv'
<1> USE DEF PipesInv, TypeOK
<1>u. /\ lang' = lang /\ channel' = channel /\ targets' = targets /\ logs' = logs /\ chunk' = chunk
      /\ lost' = lost /\ caller' = caller /\ pending' = pending /\ runs' = runs
      /\ faults' = faults
  BY DEF rigid, session, WriteMessage
<1>1. /\ QueueOK' /\ Numbered' /\ InLine' /\ Accounted' /\ Ordered'
      /\ Len(accepted') = Len(accepted) + 1
      /\ accepted' # << >>
      /\ \A i \in DOMAIN accepted : accepted'[i] = accepted[i]
      /\ lang # "rust" => ClosedAt' = ClosedAt
      /\ ClosedAt # {} => ClosedAt' # {}
      /\ ClosedAt \subseteq 1 .. Len(accepted)
  BY Written
<1>q. /\ buffer \in Seq(Messages) /\ accepted \in Seq(Messages)
      /\ chunk \in Seq(Messages) /\ Len(accepted) \in Nat
  BY DEF QueueOK
<1>2. TypeOK'
  BY <1>u, <1>1
<1>3. chunk # << >> => context # "none"
  BY <1>q DEF Numbered, Genuine, Held
<1>4. Held'
  BY <1>u, <1>1, <1>3 DEF Held, WriteMessage
<1>5. Clones'
  <2> SUFFICES ASSUME lang = "rust", channel = "held"
               PROVE  /\ arrived' = << >>
                      /\ \A i \in DOMAIN buffer' : buffer'[i].method # "log"
                      /\ \A i \in DOMAIN logs : logs[i].method = "log"
    BY <1>u DEF Clones
  <2>1. buffer' = Append(buffer, m) /\ arrived' = arrived
    BY DEF WriteMessage
  <2>2. \A i \in DOMAIN buffer' : buffer'[i].method # "log"
    BY <1>q, <2>1, AppendIs DEF Clones
  <2> QED BY <2>1, <2>2 DEF Clones
<1>6. Callers'
  BY <1>u DEF Callers
<1>7. Ended'
  <2>1. CASE context = "none"
    BY <1>u, <2>1 DEF Ended
  <2>3. CASE lang = "rust"
    BY <1>u, <2>3 DEF Ended, Held, AllVariants
  <2>2. CASE context # "none" /\ lang # "rust"
    <3>1. \A c \in ClosedAt, k \in Numbers(buffer)' : c <= Len(accepted) /\
            (k \in Numbers(buffer) \/ k = Len(accepted) + 1)
      <4>1. Numbers(buffer)' \subseteq Numbers(buffer) \cup {m.n}
        <5>1. PICK t : t = buffer'
          OBVIOUS
        <5>2. t = buffer \/ t = Append(buffer, m)
          BY <5>1 DEF WriteMessage
        <5>3. Numbers(buffer)' = Numbers(t)
          BY <5>1 DEF Numbers
        <5>4. t = Append(buffer, m) => Numbers(t) = Numbers(buffer) \cup {m.n}
          BY <1>q, AppendNumbers
        <5> QED BY <5>2, <5>3, <5>4
      <4> QED BY <1>1, <1>q, <4>1
    <3>2. context' = context /\ uploader' = uploader
      BY <2>2
    <3>3. uploader \in {"last", "ended"} => \A c \in ClosedAt, k \in Numbers(buffer)' : c < k
      BY <1>1, <1>q, <2>2, <3>1 DEF Ended
    <3> QED BY <1>u, <1>1, <2>2, <3>2, <3>3 DEF Ended, ShouldClose
  <2> QED BY <2>1, <2>2, <2>3
<1>8. Closings'
  BY <1>u, <1>1 DEF Closings
<1>9. Pending'
  BY <1>u DEF Pending
<1>10. Thrown'
  <2>1. \A c \in ClosedAt : accepted'[c] = accepted[c]
    BY SMTT(30), <1>1, <1>q
  <2>2. CASE lang = "rust"
    BY <1>u, <2>2 DEF Thrown, Callers
  <2>3. CASE lang # "rust"
    BY <1>u, <1>1, <2>1, <2>3 DEF Thrown
  <2> QED BY <2>2, <2>3
<1> QED BY <1>1, <1>2, <1>4, <1>5, <1>6, <1>7, <1>8, <1>9, <1>10

(* A write that fails keeps the invariant. *)
LEMMA FailurePreserves ==
  ASSUME PipesInv, WriteFails, UNCHANGED <<rigid, context, logs, chunk, lost, session>>,
         made' \subseteq Assets,
         \/ uploader' = uploader
         \/ context = "none" /\ uploader' = IF channel = "upload" THEN "loop" ELSE "none"
  PROVE  PipesInv'
<1> USE DEF PipesInv, TypeOK
<1>u. /\ lang' = lang /\ channel' = channel /\ targets' = targets /\ logs' = logs /\ chunk' = chunk
      /\ lost' = lost /\ caller' = caller /\ pending' = pending /\ runs' = runs
      /\ context' = context /\ accepted' = accepted /\ arrived' = arrived /\ buffer' = buffer
  BY DEF rigid, session, WriteFails
<1>1. faults' \in 0 .. MaxFaults
  BY PipesAssumption DEF WriteFails
<1>2. TypeOK' /\ Numbered' /\ InLine' /\ Accounted' /\ Ordered'
  <2>1. TypeOK'
    BY <1>u, <1>1 DEF QueueOK
  <2>2. Numbered' /\ InLine'
    BY <1>u DEF Numbered, Genuine, InLine, Rising, Before
  <2>3. Accounted' /\ Ordered'
    BY <1>u DEF Accounted, Ordered, Numbers
  <2> QED BY <2>1, <2>2, <2>3
<1>3. Held'
  <2>1. context = "none" => chunk = << >>
    BY DEF QueueOK, Numbered, Genuine, Held
  <2> QED BY <1>u, <2>1 DEF Held
<1>4. Clones' /\ Callers' /\ Closings' /\ Pending' /\ Thrown'
  BY <1>u DEF Clones, Callers, Closings, Pending, Thrown, ClosedAt
<1>5. Ended'
  BY <1>u DEF Ended, ShouldClose, ClosedAt, Numbers
<1> QED BY <1>2, <1>3, <1>4, <1>5

------------------------------------------------------------------------------
(* PipesContext::new. *)
LEMMA RustNewPreserves ==
  ASSUME PipesInv, RustNew PROVE PipesInv'
<1> DEFINE m == Message("opened", NoKey, FALSE)
<1>1. m \in Messages /\ m.n = Len(accepted) + 1 /\ m.method = "opened"
  BY MessageIs DEF Methods, PipesInv
<1>2. made \subseteq Assets /\ channel # "upload" /\ uploader = "none"
  BY DEF PipesInv, TypeOK, Held, RustNew, AllVariants
<1>3. CASE WriteMessage(m) /\ context' = "open"
  <2> HIDE DEF m
  <2> QED BY <1>1, <1>2, <1>3, WritePreserves DEF RustNew
<1>4. CASE WriteFails /\ UNCHANGED context
  BY <1>2, <1>4, FailurePreserves DEF RustNew
<1> QED BY <1>3, <1>4 DEF RustNew

(* The reports of a Rust context. *)
LEMMA RustReportPreserves ==
  ASSUME PipesInv, RustReport PROVE PipesInv'
<1>1. TypeOK /\ made \subseteq Assets
  BY DEF PipesInv, TypeOK
<1>2. ASSUME NEW method \in Methods \ {"log", "closed"}, NEW key \in Assets \cup {NoKey},
             WriteMessage(Message(method, key, FALSE))
      PROVE  PipesInv'
  <2>1. PICK m : m = Message(method, key, FALSE)
    OBVIOUS
  <2>2. m \in Messages /\ m.n = Len(accepted) + 1 /\ m.method = method
    BY <1>1, <2>1, MessageIs
  <2>3. m.method # "closed" /\ m.method # "log"
    BY <2>2
  <2> QED BY <1>1, <1>2, <2>1, <2>2, <2>3, WritePreserves DEF RustReport
<1>3. CASE WriteFails
  BY <1>1, <1>3, FailurePreserves DEF RustReport
<1>4. CASE \E asked \in Asked : \E key \in Resolve(asked) :
             \E method \in {"report_asset_materialization", "report_asset_check"} :
               WriteMessage(Message(method, key, FALSE))
  BY <1>1, <1>2, <1>4, ResolvesToAssets DEF Methods
<1>5. CASE WriteMessage(Message("report_custom_message", NoKey, FALSE))
  BY <1>2, <1>5 DEF Methods
<1> QED BY <1>3, <1>4, <1>5 DEF RustReport

(* PipesContext::close, which may be called again. *)
LEMMA RustClosePreserves ==
  ASSUME PipesInv, RustClose PROVE PipesInv'
<1>1. TypeOK /\ made \subseteq Assets
  BY DEF PipesInv, TypeOK
<1>2. ASSUME NEW exc \in BOOLEAN, WriteMessage(Message("closed", NoKey, exc))
      PROVE  PipesInv'
  <2>1. PICK m : m = Message("closed", NoKey, exc)
    OBVIOUS
  <2>2. m \in Messages /\ m.n = Len(accepted) + 1 /\ m.method = "closed"
    BY <1>1, <2>1, MessageIs DEF Methods
  <2> QED BY <1>1, <1>2, <2>1, <2>2, WritePreserves DEF RustClose
<1>3. CASE WriteFails
  BY <1>1, <1>3, FailurePreserves DEF RustClose
<1> QED BY <1>2, <1>3 DEF RustClose

(* PipesContext.getInstance of TypeScript. *)
LEMMA TsGetInstancePreserves ==
  ASSUME PipesInv, TsGetInstance PROVE PipesInv'
<1> DEFINE m == Message("opened", NoKey, FALSE)
<1>1. m \in Messages /\ m.n = Len(accepted) + 1 /\ m.method = "opened"
  BY MessageIs DEF Methods, PipesInv
<1>2. made \subseteq Assets /\ channel # "upload" /\ uploader = "none"
  BY DEF PipesInv, TypeOK, Held, TsGetInstance, AllVariants
<1>3. CASE WriteMessage(m) /\ context' = "open"
  <2> HIDE DEF m
  <2> QED BY <1>1, <1>2, <1>3, WritePreserves DEF TsGetInstance
<1>4. CASE WriteFails /\ UNCHANGED context
  BY <1>2, <1>4, FailurePreserves DEF TsGetInstance
<1> QED BY <1>3, <1>4 DEF TsGetInstance

(* reportAssetMaterialization of TypeScript. *)
LEMMA TsMaterializePreserves ==
  ASSUME PipesInv, NEW asked \in Asked, TsMaterialize(asked) PROVE PipesInv'
<1>1. TypeOK /\ made \subseteq Assets
  BY DEF PipesInv, TypeOK
<1>2. PICK key \in Resolve(asked) \ made :
        \/ /\ WriteMessage(Message("report_asset_materialization", key, FALSE))
           /\ made' = made \cup {key}
        \/ WriteFails /\ UNCHANGED made
  BY DEF TsMaterialize
<1>3. key \in Assets
  BY <1>1, ResolvesToAssets
<1>4. CASE WriteMessage(Message("report_asset_materialization", key, FALSE))
             /\ made' = made \cup {key}
  <2>1. PICK m : m = Message("report_asset_materialization", key, FALSE)
    OBVIOUS
  <2>2. m \in Messages /\ m.n = Len(accepted) + 1 /\ m.method = "report_asset_materialization"
    BY <1>1, <1>3, <2>1, MessageIs DEF Methods
  <2> QED BY <1>1, <1>3, <1>4, <2>1, <2>2, WritePreserves DEF TsMaterialize
<1>5. CASE WriteFails /\ UNCHANGED made
  BY <1>1, <1>5, FailurePreserves DEF TsMaterialize
<1> QED BY <1>2, <1>4, <1>5

(* The other messages of TypeScript. *)
LEMMA TsWritePreserves ==
  ASSUME PipesInv, TsWrite PROVE PipesInv'
<1>1. TypeOK /\ made \subseteq Assets
  BY DEF PipesInv, TypeOK
<1>2. ASSUME NEW method \in Methods \ {"closed"}, NEW key \in Assets \cup {NoKey},
             WriteMessage(Message(method, key, FALSE))
      PROVE  PipesInv'
  <2>1. PICK m : m = Message(method, key, FALSE)
    OBVIOUS
  <2>2. m \in Messages /\ m.n = Len(accepted) + 1 /\ m.method = method
    BY <1>1, <2>1, MessageIs
  <2>3. m.method # "closed"
    BY <2>2
  <2> QED BY <1>1, <1>2, <2>1, <2>2, <2>3, WritePreserves DEF TsWrite
<1>3. CASE WriteFails
  BY <1>1, <1>3, FailurePreserves DEF TsWrite
<1>4. CASE \E asked \in Asked : \E key \in Resolve(asked) :
             WriteMessage(Message("report_asset_check", key, FALSE))
  BY <1>1, <1>2, <1>4, ResolvesToAssets DEF Methods
<1>5. CASE \E method \in {"log", "report_custom_message"} :
             WriteMessage(Message(method, NoKey, FALSE))
  BY <1>2, <1>5 DEF Methods
<1> QED BY <1>3, <1>4, <1>5 DEF TsWrite

(* Java's context and its upload thread. *)
LEMMA JavaBuildContextPreserves ==
  ASSUME PipesInv, JavaBuildContext PROVE PipesInv'
<1> DEFINE m == Message("opened", NoKey, FALSE)
<1>1. m \in Messages /\ m.n = Len(accepted) + 1 /\ m.method = "opened"
  BY MessageIs DEF Methods, PipesInv
<1>2. made \subseteq Assets
  BY DEF PipesInv, TypeOK
<1>3. CASE WriteMessage(m) /\ context' = "open"
  <2> HIDE DEF m
  <2> QED BY <1>1, <1>2, <1>3, WritePreserves DEF JavaBuildContext
<1>4. CASE WriteFails /\ UNCHANGED context
  BY <1>2, <1>4, FailurePreserves DEF JavaBuildContext
<1> QED BY <1>3, <1>4 DEF JavaBuildContext

(* reportAssetMaterialization of Java. *)
LEMMA JavaMaterializePreserves ==
  ASSUME PipesInv, NEW asked \in Asked, JavaMaterialize(asked) PROVE PipesInv'
<1>1. TypeOK /\ made \subseteq Assets /\ lang = "java"
  BY DEF PipesInv, TypeOK, Callers, JavaMaterialize
<1>2. PICK key \in JavaResolve(asked) \ made :
        \/ /\ WriteMessage(Message("report_asset_materialization", key, FALSE))
           /\ made' = made \cup {key}
        \/ WriteFails /\ UNCHANGED made
  BY DEF JavaMaterialize
<1>3. key \in Assets
  BY <1>1, ResolvesToAssets
<1>4. CASE WriteMessage(Message("report_asset_materialization", key, FALSE))
             /\ made' = made \cup {key}
  <2>1. PICK m : m = Message("report_asset_materialization", key, FALSE)
    OBVIOUS
  <2>2. m \in Messages /\ m.n = Len(accepted) + 1 /\ m.method = "report_asset_materialization"
    BY <1>1, <1>3, <2>1, MessageIs DEF Methods
  <2> QED BY <1>1, <1>3, <1>4, <2>1, <2>2, WritePreserves DEF JavaMaterialize
<1>5. CASE WriteFails /\ UNCHANGED made
  BY <1>1, <1>5, FailurePreserves DEF JavaMaterialize
<1> QED BY <1>2, <1>4, <1>5

(* The other reports of Java. *)
LEMMA JavaWritePreserves ==
  ASSUME PipesInv, JavaWrite PROVE PipesInv'
<1>1. TypeOK /\ made \subseteq Assets /\ lang = "java"
  BY DEF PipesInv, TypeOK, Callers, JavaWrite
<1>2. ASSUME NEW method \in Methods \ {"closed"}, NEW key \in Assets \cup {NoKey},
             WriteMessage(Message(method, key, FALSE))
      PROVE  PipesInv'
  <2>1. PICK m : m = Message(method, key, FALSE)
    OBVIOUS
  <2>2. m \in Messages /\ m.n = Len(accepted) + 1 /\ m.method = method
    BY <1>1, <2>1, MessageIs
  <2>3. m.method # "closed"
    BY <2>2
  <2> QED BY <1>1, <1>2, <2>1, <2>2, <2>3, WritePreserves DEF JavaWrite
<1>3. CASE WriteFails
  BY <1>1, <1>3, FailurePreserves DEF JavaWrite
<1>4. CASE \E asked \in Asked : \E key \in JavaResolve(asked) :
             WriteMessage(Message("report_asset_check", key, FALSE))
  BY <1>1, <1>2, <1>4, ResolvesToAssets DEF Methods
<1>5. CASE WriteMessage(Message("report_custom_message", NoKey, FALSE))
  BY <1>2, <1>5 DEF Methods
<1> QED BY <1>3, <1>4, <1>5 DEF JavaWrite

(* Java's logger, also after the channel is closed. *)
LEMMA JavaLogPreserves ==
  ASSUME PipesInv, JavaLog PROVE PipesInv'
<1>1. TypeOK /\ made \subseteq Assets /\ context # "dropped"
  BY DEF PipesInv, TypeOK, Held, JavaLog
<1>2. CASE WriteMessage(Message("log", NoKey, FALSE))
  <2>1. PICK m : m = Message("log", NoKey, FALSE)
    OBVIOUS
  <2>2. m \in Messages /\ m.n = Len(accepted) + 1 /\ m.method = "log"
    BY <1>1, <2>1, MessageIs DEF Methods
  <2> QED BY <1>1, <1>2, <2>1, <2>2, WritePreserves DEF JavaLog
<1>3. CASE WriteFails
  BY <1>1, <1>3, FailurePreserves DEF JavaLog
<1> QED BY <1>2, <1>3 DEF JavaLog

(* Rust's logger, which writes at once or holds the message in its own     *)
(* clone of the channel.                                                   *)
LEMMA RustLogPreserves ==
  ASSUME PipesInv, RustLog PROVE PipesInv'
<1> USE DEF PipesInv, TypeOK
<1>1. TypeOK /\ made \subseteq Assets
  OBVIOUS
<1>2. PICK m : m = Message("log", NoKey, FALSE)
  OBVIOUS
<1>3. m \in Messages /\ m.n = Len(accepted) + 1 /\ m.method = "log"
  BY <1>1, <1>2, MessageIs DEF Methods
<1>4. CASE channel = "direct" /\ WriteMessage(m) /\ UNCHANGED logs
  BY <1>1, <1>3, <1>4, WritePreserves DEF RustLog
<1>5. CASE channel = "direct" /\ WriteFails /\ UNCHANGED logs
  BY <1>1, <1>5, FailurePreserves DEF RustLog
<1>6. CASE /\ channel = "held"
           /\ accepted' = Append(accepted, m) /\ logs' = Append(logs, m)
           /\ UNCHANGED <<arrived, buffer, faults>>
  <2>u. /\ lang = "rust" /\ lang' = lang /\ channel' = channel /\ targets' = targets
        /\ made' = made /\ context' = context /\ context = "open" /\ chunk' = chunk
        /\ uploader' = uploader
        /\ lost' = lost /\ caller' = caller /\ pending' = pending /\ runs' = runs
        /\ arrived' = arrived /\ buffer' = buffer /\ faults' = faults
    BY <1>6 DEF RustLog, rigid, session
  <2>e. /\ arrived = << >> /\ chunk = << >> /\ uploader = "none" /\ runs = << >> /\ caller = "idle"
    BY <1>6, <2>u DEF Clones, Held, Callers
  <2>q. accepted \in Seq(Messages) /\ logs \in Seq(Messages) /\ buffer \in Seq(Messages)
    BY DEF QueueOK
  <2>1. PICK a : a = accepted'
    OBVIOUS
  <2>2. PICK l : l = logs'
    OBVIOUS
  <2>3. /\ a \in Seq(Messages) /\ a # << >> /\ Len(a) = Len(accepted) + 1
        /\ DOMAIN a = DOMAIN accepted \cup {Len(accepted) + 1}
        /\ a[Len(accepted) + 1] = m
        /\ \A i \in DOMAIN accepted : a[i] = accepted[i] /\ i \in Nat /\ i < Len(accepted) + 1
        /\ Len(accepted) \in Nat
    BY <1>3, <1>6, <2>q, <2>1, AppendIs
  <2>4. /\ l \in Seq(Messages) /\ DOMAIN l = DOMAIN logs \cup {Len(logs) + 1} /\ l[Len(logs) + 1] = m
        /\ \A i \in DOMAIN logs : l[i] = logs[i] /\ i \in Nat /\ i < Len(logs) + 1
        /\ Len(logs) \in Nat
    BY <1>3, <1>6, <2>q, <2>2, AppendIs
  <2>5. Numbers(l) = Numbers(logs) \cup {m.n}
    BY <1>3, <1>6, <2>q, <2>2, AppendNumbers
  <2>6. TypeOK'
    BY <2>u, <2>1, <2>2, <2>3, <2>4 DEF QueueOK
  <2>7. Numbered'
    BY <1>3, <2>u, <2>1, <2>2, <2>3, <2>4 DEF Numbered, Genuine
  <2>8. Held' /\ Clones'
    BY <1>3, <1>6, <2>u, <2>1, <2>2, <2>3, <2>4 DEF Held, Clones
  <2>9. InLine'
    <3>1. Rising(l)
      <4> SUFFICES ASSUME NEW i \in DOMAIN l, NEW j \in DOMAIN l, i < j
                   PROVE  l[i].n < l[j].n
        BY DEF Rising
      <4>1. i \in DOMAIN logs
        BY <2>4
      <4>2. CASE j \in DOMAIN logs
        BY <2>4, <4>1, <4>2 DEF InLine, Rising
      <4>3. CASE j = Len(logs) + 1
        BY <1>3, <2>q, <2>3, <2>4, <4>1, <4>3 DEF Numbered, Genuine
      <4> QED BY <2>4, <4>2, <4>3
    <3>2. Rising(logs)'
      BY <2>2, <3>1 DEF Rising
    <3> QED BY <2>u, <3>2 DEF InLine, Rising, Before
  <2>10. Accounted'
    <3>1. Numbers(logs)' = Numbers(l)
      BY <2>2 DEF Numbers
    <3>2. Numbers(arrived)' = Numbers(arrived) /\ Numbers(chunk)' = Numbers(chunk)
            /\ Numbers(buffer)' = Numbers(buffer)
      BY <2>u
    <3> QED BY <1>3, <2>u, <2>1, <2>3, <2>5, <3>1, <3>2 DEF Accounted
  <2>11. Callers' /\ Pending' /\ Thrown'
    BY <2>u, <2>e DEF Callers, Pending, Thrown
  <2>12. Ended'
    BY <2>u, <2>e DEF Ended
  <2>13. Closings'
    BY <2>u, <2>e DEF Closings
  <2>14. Ordered'
    BY <2>u, <2>e DEF Ordered
  <2> QED BY <2>6, <2>7, <2>8, <2>9, <2>10, <2>11, <2>12, <2>13, <2>14
<1> QED BY <1>2, <1>4, <1>5, <1>6 DEF RustLog

------------------------------------------------------------------------------
(* The elements of two sequences of messages, one after the other. *)
LEMMA ConcatParts ==
  ASSUME NEW s \in Seq(Messages), NEW t \in Seq(Messages)
  PROVE  /\ s \o t \in Seq(Messages)
         /\ Len(s) \in Nat /\ Len(t) \in Nat /\ Len(s \o t) = Len(s) + Len(t)
         /\ DOMAIN (s \o t) = 1 .. Len(s) + Len(t)
         /\ DOMAIN s = 1 .. Len(s) /\ DOMAIN t = 1 .. Len(t)
         /\ \A i \in 1 .. Len(s) : (s \o t)[i] = s[i]
         /\ \A i \in Len(s) + 1 .. Len(s) + Len(t) : (s \o t)[i] = t[i - Len(s)]
  OBVIOUS

(* The numbers of two sequences of messages, one after the other. *)
LEMMA ConcatNumbers ==
  ASSUME NEW s \in Seq(Messages), NEW t \in Seq(Messages)
  PROVE  Numbers(s \o t) = Numbers(s) \cup Numbers(t)
<1>0. PICK u : u = s \o t
  OBVIOUS
<1>1. /\ Len(s) \in Nat /\ Len(t) \in Nat
      /\ DOMAIN u = 1 .. Len(s) + Len(t) /\ DOMAIN s = 1 .. Len(s) /\ DOMAIN t = 1 .. Len(t)
      /\ \A i \in 1 .. Len(s) : u[i] = s[i]
      /\ \A i \in Len(s) + 1 .. Len(s) + Len(t) : u[i] = t[i - Len(s)]
  BY <1>0, ConcatParts
<1>2. ASSUME NEW i \in DOMAIN u PROVE u[i].n \in Numbers(s) \cup Numbers(t)
  <2>1. CASE i <= Len(s)
    BY <1>1, <2>1 DEF Numbers
  <2>2. CASE i > Len(s)
    <3>1. i - Len(s) \in DOMAIN t /\ u[i] = t[i - Len(s)]
      BY <1>1, <2>2
    <3> QED BY <3>1 DEF Numbers
  <2> QED BY <1>1, <2>1, <2>2
<1>3. ASSUME NEW i \in DOMAIN s PROVE s[i].n \in Numbers(u)
  <2>1. i \in DOMAIN u /\ u[i] = s[i]
    BY <1>1
  <2> QED BY <2>1 DEF Numbers
<1>4. ASSUME NEW i \in DOMAIN t PROVE t[i].n \in Numbers(u)
  <2>1. /\ Len(s) + i \in Len(s) + 1 .. Len(s) + Len(t) /\ (Len(s) + i) - Len(s) = i
        /\ Len(s) + i \in DOMAIN u
    BY <1>1
  <2>2. u[Len(s) + i] = t[i]
    BY <1>1, <2>1
  <2> QED BY <2>1, <2>2 DEF Numbers
<1>5. Numbers(u) = Numbers(s) \cup Numbers(t)
  BY <1>2, <1>3, <1>4 DEF Numbers
<1> QED BY <1>0, <1>5

(* An element of two sequences in a row is one of the first or of the      *)
(* second.                                                                 *)
LEMMA ConcatElements ==
  ASSUME NEW s \in Seq(Messages), NEW t \in Seq(Messages), NEW i \in DOMAIN (s \o t)
  PROVE  \/ \E j \in DOMAIN s : (s \o t)[i] = s[j]
         \/ \E j \in DOMAIN t : (s \o t)[i] = t[j]
<1>0. PICK u : u = s \o t
  OBVIOUS
<1>1. /\ Len(s) \in Nat /\ Len(t) \in Nat
      /\ DOMAIN u = 1 .. Len(s) + Len(t) /\ DOMAIN s = 1 .. Len(s) /\ DOMAIN t = 1 .. Len(t)
      /\ \A k \in 1 .. Len(s) : u[k] = s[k]
      /\ \A k \in Len(s) + 1 .. Len(s) + Len(t) : u[k] = t[k - Len(s)]
  BY <1>0, ConcatParts
<1>2. i \in 1 .. Len(s) + Len(t)
  BY <1>0, <1>1
<1>3. CASE i <= Len(s)
  <2>1. i \in DOMAIN s /\ u[i] = s[i]
    BY <1>1, <1>2, <1>3
  <2> QED BY <1>0, <2>1
<1>4. CASE i > Len(s)
  <2>1. i - Len(s) \in DOMAIN t /\ u[i] = t[i - Len(s)]
    BY <1>1, <1>2, <1>4
  <2> QED BY <1>0, <2>1
<1> QED BY <1>1, <1>2, <1>3, <1>4

(* Two rising sequences, one before the other, rise in a row. *)
LEMMA ConcatRises ==
  ASSUME NEW s \in Seq(Messages), NEW t \in Seq(Messages),
         Rising(s), Rising(t), Before(s, t)
  PROVE  Rising(s \o t)
<1>0. PICK u : u = s \o t
  OBVIOUS
<1>1. /\ Len(s) \in Nat /\ Len(t) \in Nat
      /\ DOMAIN u = 1 .. Len(s) + Len(t) /\ DOMAIN s = 1 .. Len(s) /\ DOMAIN t = 1 .. Len(t)
      /\ \A i \in 1 .. Len(s) : u[i] = s[i]
      /\ \A i \in Len(s) + 1 .. Len(s) + Len(t) : u[i] = t[i - Len(s)]
  BY <1>0, ConcatParts
<1>2. ASSUME NEW i \in DOMAIN u, NEW j \in DOMAIN u, i < j
      PROVE  u[i].n < u[j].n
  <2>1. CASE j <= Len(s)
    <3>1. i \in DOMAIN s /\ j \in DOMAIN s /\ u[i] = s[i] /\ u[j] = s[j]
      BY <1>1, <1>2, <2>1
    <3> QED BY <1>2, <3>1 DEF Rising
  <2>2. CASE i <= Len(s) /\ j > Len(s)
    <3>1. i \in DOMAIN s /\ j - Len(s) \in DOMAIN t /\ u[i] = s[i] /\ u[j] = t[j - Len(s)]
      BY <1>1, <1>2, <2>2
    <3> QED BY <1>2, <3>1 DEF Before
  <2>3. CASE i > Len(s)
    <3>1. /\ i - Len(s) \in DOMAIN t /\ j - Len(s) \in DOMAIN t
          /\ u[i] = t[i - Len(s)] /\ u[j] = t[j - Len(s)] /\ i - Len(s) < j - Len(s)
      BY <1>1, <1>2, <2>3
    <3> QED BY <1>2, <3>1 DEF Rising
  <2> QED BY <1>1, <2>1, <2>2, <2>3
<1>3. Rising(u)
  BY <1>2 DEF Rising
<1> QED BY <1>0, <1>3

(* Before, in terms of numbers. *)
LEMMA BeforeIs ==
  ASSUME NEW s, NEW t
  PROVE  Before(s, t) <=> \A x \in Numbers(s), y \in Numbers(t) : x < y
  BY DEF Before, Numbers

(* The types of the queues; what arrived rises unless a Rust context holds *)
(* messages.                                                               *)
LEMMA QueuesAre ==
  ASSUME PipesInv
  PROVE  /\ accepted \in Seq(Messages) /\ arrived \in Seq(Messages)
         /\ buffer \in Seq(Messages) /\ logs \in Seq(Messages) /\ chunk \in Seq(Messages)
         /\ Len(accepted) \in Nat /\ DOMAIN accepted = 1 .. Len(accepted)
         /\ lang # "rust" \/ channel # "held" => Rising(arrived)
         /\ \A x \in Messages : x.n \in Nat
<1>1. lang # "rust" \/ channel # "held" => Rising(arrived)
  BY DEF PipesInv, Ordered, Rising
<1> QED BY <1>1 DEF PipesInv, TypeOK, QueueOK, Messages

------------------------------------------------------------------------------
(* A call of runDagsterPipes begins. *)
LEMMA JavaRunPreserves ==
  ASSUME PipesInv, JavaRun PROVE PipesInv'
<1> USE DEF PipesInv, TypeOK
<1>u. /\ lang = "java" /\ lang' = lang /\ channel' = channel /\ targets' = targets
      /\ made' = made /\ context' = context /\ context # "none" /\ chunk' = chunk
      /\ uploader' = uploader /\ accepted' = accepted /\ logs' = logs
      /\ lost' = lost /\ pending' = pending /\ arrived' = arrived /\ buffer' = buffer
      /\ faults' = faults /\ caller = "idle" /\ caller' = "running"
  BY DEF JavaRun, rigid, held
<1>1. PICK r : r = [raised |-> FALSE, threw |-> FALSE, late |-> context = "closed"]
  OBVIOUS
<1>2. r \in Calls /\ ~ r.raised /\ (r.late <=> context = "closed")
  BY <1>1 DEF Calls
<1>3. PICK q : q = runs'
  OBVIOUS
<1>4. /\ q \in Seq(Calls) /\ Len(q) = Len(runs) + 1 /\ Len(runs) \in Nat
      /\ DOMAIN q = DOMAIN runs \cup {Len(runs) + 1} /\ q[Len(runs) + 1] = r
      /\ \A i \in DOMAIN runs : q[i] = runs[i] /\ i < Len(runs) + 1
  <2>1. q = Append(runs, r)
    BY <1>1, <1>3 DEF JavaRun
  <2>2. /\ q \in Seq(Calls) /\ Len(q) = Len(runs) + 1 /\ Len(runs) \in Nat
        /\ DOMAIN q = DOMAIN runs \cup {Len(runs) + 1} /\ q[Len(runs) + 1] = r
        /\ \A i \in DOMAIN runs : q[i] = runs[i]
    BY <1>2, <2>1
  <2>3. \A i \in DOMAIN runs : i < Len(runs) + 1
    OBVIOUS
  <2> QED BY <2>2, <2>3
<1>5. TypeOK'
  BY <1>u, <1>3, <1>4 DEF QueueOK
<1>6. Numbered' /\ InLine' /\ Held' /\ Clones' /\ Ordered'
  BY <1>u DEF Numbered, Genuine, InLine, Rising, Before, Held, Clones, Ordered
<1>7. Accounted'
  BY <1>u DEF Accounted, Numbers
<1>8. Callers'
  BY <1>u, <1>2, <1>3, <1>4 DEF Callers
<1>9. Ended'
  BY <1>u DEF Ended, ShouldClose, ClosedAt, Numbers
<1>10. Closings'
  BY <1>u DEF Closings, ClosedAt
<1>11. Pending'
  BY <1>u, <1>2, <1>3, <1>4 DEF Pending
<1>12. Thrown'
  <2>1. ClosedAt' = ClosedAt
    BY <1>u DEF ClosedAt
  <2> QED BY <1>u, <1>2, <1>3, <1>4, <2>1 DEF Thrown
<1> QED BY <1>5, <1>6, <1>7, <1>8, <1>9, <1>10, <1>11, <1>12

(* What Return records of the last call, and that it leaves the others     *)
(* alone.                                                                  *)
LEMMA ReturnIs ==
  ASSUME runs \in Seq(Calls), Len(runs) > 0, NEW raised \in BOOLEAN, NEW threw \in BOOLEAN,
         Return(raised, threw)
  PROVE  /\ runs' \in Seq(Calls) /\ Len(runs') = Len(runs) /\ DOMAIN runs' = DOMAIN runs
         /\ Len(runs) \in DOMAIN runs
         /\ runs'[Len(runs)].raised = raised /\ runs'[Len(runs)].threw = threw
         /\ runs'[Len(runs)].late = runs[Len(runs)].late
         /\ \A i \in DOMAIN runs : i # Len(runs) => runs'[i] = runs[i]
<1>1. Len(runs) \in DOMAIN runs /\ runs[Len(runs)] \in Calls
  OBVIOUS
<1>2. PICK r : r = [runs[Len(runs)] EXCEPT !.raised = raised, !.threw = threw]
  OBVIOUS
<1>3. r \in Calls /\ r.raised = raised /\ r.threw = threw /\ r.late = runs[Len(runs)].late
  BY <1>1, <1>2 DEF Calls
<1>4. runs' = [runs EXCEPT ![Len(runs)] = r]
  BY <1>2 DEF Return
<1>5. /\ runs' \in Seq(Calls) /\ Len(runs') = Len(runs) /\ DOMAIN runs' = DOMAIN runs
      /\ runs'[Len(runs)] = r
      /\ \A i \in DOMAIN runs : i # Len(runs) => runs'[i] = runs[i]
  BY <1>1, <1>3, <1>4
<1> QED BY <1>1, <1>3, <1>5

(* runDagsterPipes returns from the join of the upload thread. *)
LEMMA JavaJoinPreserves ==
  ASSUME PipesInv, JavaJoin PROVE PipesInv'
<1> USE DEF PipesInv, TypeOK
<1>u. /\ lang' = lang /\ channel' = channel /\ targets' = targets
      /\ made' = made /\ context' = "closed" /\ chunk' = chunk
      /\ uploader' = uploader /\ accepted' = accepted /\ logs' = logs
      /\ lost' = lost /\ pending' = pending /\ arrived' = arrived /\ buffer' = buffer
      /\ faults' = faults /\ caller = "joining" /\ caller' = "idle"
      /\ uploader \in {"ended", "dead"}
  BY DEF JavaJoin, rigid, held
<1>1. /\ lang = "java" /\ channel = "upload" /\ context = "open" /\ Len(runs) > 0
      /\ runs[Len(runs)].late = FALSE
  BY <1>u DEF Callers, Calls
<1>2. PICK q : q = runs'
  OBVIOUS
<1>3. /\ Len(runs) \in DOMAIN runs /\ runs[Len(runs)].raised \in BOOLEAN
      /\ runs[Len(runs)].raised => pending
  <2>1. Len(runs) \in DOMAIN runs /\ runs[Len(runs)] \in Calls
    BY <1>1
  <2> QED BY <2>1 DEF Pending, Calls
<1>4. /\ q \in Seq(Calls) /\ Len(q) = Len(runs) /\ DOMAIN q = DOMAIN runs
      /\ q[Len(runs)].raised = runs[Len(runs)].raised /\ q[Len(runs)].threw = pending
      /\ q[Len(runs)].late = runs[Len(runs)].late
      /\ \A i \in DOMAIN runs : i # Len(runs) => q[i] = runs[i]
  BY <1>1, <1>2, <1>3, ReturnIs DEF JavaJoin
<1>c. ClosedAt' = ClosedAt
  BY <1>u DEF ClosedAt
<1>5. TypeOK'
  BY <1>u, <1>2, <1>4 DEF QueueOK
<1>6. Numbered' /\ InLine' /\ Held' /\ Clones' /\ Ordered'
  BY <1>u, <1>1 DEF Numbered, Genuine, InLine, Rising, Before, Held, Clones, Ordered
<1>7. Accounted'
  BY <1>u DEF Accounted, Numbers
<1>8. Callers'
  BY <1>u, <1>1 DEF Callers
<1>9. Ended'
  BY <1>u DEF Ended, ShouldClose, ClosedAt, Numbers
<1>10. Closings'
  BY <1>u, <1>c DEF Closings
<1>11. Pending'
  BY <1>u, <1>2, <1>3, <1>4 DEF Pending
<1>12. Thrown'
  BY <1>u, <1>1, <1>2, <1>3, <1>4, <1>c DEF Thrown
<1> QED BY <1>5, <1>6, <1>7, <1>8, <1>9, <1>10, <1>11, <1>12

(* The user's code returns or raises and runDagsterPipes closes the        *)
(* context.                                                                *)
LEMMA JavaEndRunPreserves ==
  ASSUME PipesInv, NEW raised \in BOOLEAN, JavaEndRun(raised) PROVE PipesInv'
<1> USE DEF PipesInv, TypeOK
<1>u. /\ lang' = lang /\ channel' = channel /\ targets' = targets
      /\ made' = made /\ chunk' = chunk /\ uploader' = uploader /\ logs' = logs
      /\ lost' = lost /\ caller = "running" /\ pending' = (pending \/ raised)
      /\ UNCHANGED <<rigid, logs, chunk, lost>>
  BY DEF JavaEndRun, rigid
<1>1. /\ lang = "java" /\ Len(runs) > 0 /\ ~ runs[Len(runs)].raised
      /\ runs[Len(runs)].late <=> context = "closed"
      /\ pending' \in BOOLEAN /\ channel \in {"direct", "upload"}
      /\ context \in {"open", "closed"}
      /\ Len(runs) \in DOMAIN runs
  BY <1>u DEF Callers, Held, AllVariants
<1>2. PICK q : q = runs'
  OBVIOUS
<1>3. ASSUME NEW threw \in BOOLEAN, Return(raised, threw)
      PROVE  /\ q \in Seq(Calls) /\ Len(q) = Len(runs) /\ DOMAIN q = DOMAIN runs
             /\ q[Len(runs)].raised = raised /\ q[Len(runs)].threw = threw
             /\ q[Len(runs)].late = runs[Len(runs)].late
             /\ \A i \in DOMAIN runs : i # Len(runs) => q[i] = runs[i]
  BY <1>1, <1>2, <1>3, ReturnIs
<1>a. ASSUME context = "open", WriteMessage(Message("closed", NoKey, pending')),
             \/ /\ channel = "upload" /\ caller' = "joining" /\ Return(raised, FALSE)
                /\ context' = context
             \/ /\ channel = "direct" /\ caller' = "idle" /\ Return(raised, pending')
                /\ context' = "closed"
      PROVE  PipesInv'
  <2>1. PICK m : m = Message("closed", NoKey, pending')
    OBVIOUS
  <2>2. /\ m \in Messages /\ m.n = Len(accepted) + 1 /\ m.method = "closed"
        /\ m.failed = pending'
    BY <1>1, <2>1, MessageIs DEF Methods
  <2>3. PICK threw \in BOOLEAN :
          Return(raised, threw) /\ threw = IF channel = "direct" THEN pending' ELSE FALSE
    BY <1>1, <1>a
  <2>4. /\ q \in Seq(Calls) /\ Len(q) = Len(runs) /\ DOMAIN q = DOMAIN runs
        /\ q[Len(runs)].raised = raised /\ q[Len(runs)].threw = threw
        /\ q[Len(runs)].late = runs[Len(runs)].late
        /\ \A i \in DOMAIN runs : i # Len(runs) => q[i] = runs[i]
    BY <1>3, <2>3
  <2>5. /\ QueueOK' /\ Numbered' /\ InLine' /\ Accounted' /\ Ordered'
        /\ Len(accepted') = Len(accepted) + 1 /\ accepted' # << >>
        /\ accepted'[Len(accepted) + 1] = m
        /\ ClosedAt' = ClosedAt \cup {Len(accepted) + 1}
    BY <1>1, <1>u, <1>a, <2>1, <2>2, Written
  <2>6. ClosedAt' = {Len(accepted) + 1}
    BY <1>1, <1>u, <1>a, <2>5 DEF Closings
  <2>7. TypeOK'
    BY <1>u, <1>1, <1>2, <1>a, <2>4, <2>5 DEF WriteMessage
  <2>8. Held'
    BY <1>u, <1>1, <1>a, <2>5 DEF Held, WriteMessage
  <2>9. Clones'
    BY <1>u, <1>1 DEF Clones
  <2>10. Callers'
    BY <1>u, <1>1, <1>2, <1>a, <2>4 DEF Callers
  <2>11. Ended'
    BY <1>u, <1>1, <1>a DEF Ended, ShouldClose, Held
  <2>12. Closings'
    BY <1>u, <1>a, <2>6 DEF Closings
  <2>13. Pending'
    BY <1>u, <1>2, <2>4 DEF Pending
  <2>14. Thrown'
    <3> SUFFICES ASSUME NEW i \in DOMAIN q, q[i].raised, ~ q[i].late
                 PROVE  /\ q[i].threw \/ (i = Len(q) /\ caller' = "joining")
                        /\ \A c \in ClosedAt' : accepted'[c].failed
      BY <1>2 DEF Thrown
    <3>1. pending'
      BY <1>u, <2>4 DEF Pending
    <3>2. \A c \in ClosedAt' : accepted'[c].failed
      BY <2>2, <2>5, <2>6, <3>1
    <3>3. CASE i # Len(runs)
      BY <1>u, <2>4, <3>2, <3>3 DEF Thrown
    <3>4. CASE i = Len(runs)
      BY <1>1, <1>a, <2>3, <2>4, <3>1, <3>2, <3>4
    <3> QED BY <3>3, <3>4
  <2> QED BY <2>5, <2>7, <2>8, <2>9, <2>10, <2>11, <2>12, <2>13, <2>14
<1>b. ASSUME NEW threw \in BOOLEAN, Return(raised, threw), caller' = "idle",
             UNCHANGED <<context, accepted, arrived, buffer>>, faults' \in 0 .. MaxFaults,
             raised /\ context = "open" => threw
      PROVE  PipesInv'
  <2>1. /\ q \in Seq(Calls) /\ Len(q) = Len(runs) /\ DOMAIN q = DOMAIN runs
        /\ q[Len(runs)].raised = raised /\ q[Len(runs)].threw = threw
        /\ q[Len(runs)].late = runs[Len(runs)].late
        /\ \A i \in DOMAIN runs : i # Len(runs) => q[i] = runs[i]
    BY <1>3, <1>b
  <2>c. ClosedAt' = ClosedAt
    BY <1>b DEF ClosedAt
  <2>2. TypeOK'
    BY <1>u, <1>1, <1>2, <1>b, <2>1 DEF QueueOK
  <2>3. Numbered' /\ InLine' /\ Held' /\ Clones' /\ Ordered'
    BY <1>u, <1>1, <1>b DEF Numbered, Genuine, InLine, Rising, Before, Held, Clones, Ordered
  <2>4. Accounted'
    BY <1>u, <1>b DEF Accounted, Numbers
  <2>5. Callers'
    BY <1>u, <1>1, <1>b DEF Callers
  <2>6. Ended'
    BY <1>u, <1>b, <2>c DEF Ended, ShouldClose, Numbers
  <2>7. Closings'
    BY <1>u, <1>b, <2>c DEF Closings
  <2>8. Pending'
    BY <1>u, <1>2, <2>1 DEF Pending
  <2>9. Thrown'
    <3> SUFFICES ASSUME NEW i \in DOMAIN q, q[i].raised, ~ q[i].late
                 PROVE  q[i].threw /\ \A c \in ClosedAt : accepted[c].failed
      BY <1>2, <1>b, <2>c DEF Thrown
    <3>1. CASE i # Len(runs)
      BY <1>u, <2>1, <3>1 DEF Thrown
    <3>2. CASE i = Len(runs)
      <4>1. context = "open" /\ ClosedAt = {}
        BY <1>u, <1>1, <2>1, <3>2 DEF Closings
      <4> QED BY <1>b, <2>1, <3>2, <4>1
    <3> QED BY <3>1, <3>2
  <2> QED BY <2>2, <2>3, <2>4, <2>5, <2>6, <2>7, <2>8, <2>9
<1>4. CASE context = "open" /\ JavaClose(raised)
  <2>1. CASE WriteFails /\ caller' = "idle" /\ Return(raised, TRUE) /\ UNCHANGED context
    <3>1. faults' \in 0 .. MaxFaults
      BY <2>1, PipesAssumption DEF WriteFails
    <3> QED BY <1>b, <2>1, <3>1 DEF WriteFails
  <2> QED BY <1>1, <1>4, <1>a, <2>1 DEF JavaClose
<1>5. CASE /\ context # "open" /\ caller' = "idle" /\ Return(raised, FALSE)
           /\ UNCHANGED <<context, accepted, arrived, buffer, faults>>
  BY <1>5, <1>b
<1> QED BY <1>4, <1>5 DEF JavaEndRun

------------------------------------------------------------------------------
(* A turn of the upload loop begins or ends. *)
LEMMA TurnPreserves ==
  ASSUME PipesInv, BeginTurn \/ EndTurn PROVE PipesInv'
<1> USE DEF PipesInv, TypeOK
<1>u. /\ lang' = lang /\ channel' = channel /\ targets' = targets
      /\ made' = made /\ context' = context /\ chunk' = chunk
      /\ uploader \in {"loop", "turn"} /\ uploader' \in {"loop", "turn"}
      /\ accepted' = accepted /\ logs' = logs
      /\ lost' = lost /\ pending' = pending /\ arrived' = arrived /\ buffer' = buffer
      /\ faults' = faults /\ caller' = caller /\ runs' = runs
  BY DEF BeginTurn, EndTurn, rigid, session
<1>1. TypeOK'
  BY <1>u DEF QueueOK
<1>2. Numbered' /\ InLine' /\ Clones' /\ Ordered'
  BY <1>u DEF Numbered, Genuine, InLine, Rising, Before, Clones, Ordered
<1>3. Held'
  BY <1>u DEF Held
<1>4. Accounted'
  BY <1>u DEF Accounted, Numbers
<1>5. Callers' /\ Pending'
  BY <1>u DEF Callers, Pending
<1>6. Ended'
  BY <1>u DEF Ended
<1>7. Closings' /\ Thrown'
  BY <1>u DEF Closings, Thrown, ClosedAt
<1> QED BY <1>1, <1>2, <1>3, <1>4, <1>5, <1>6, <1>7

(* The upload thread takes what the buffer holds; the last time after      *)
(* "closed".                                                               *)
LEMMA TakePreserves ==
  ASSUME PipesInv, TakeChunk \/ LastChunk PROVE PipesInv'
<1> USE DEF PipesInv, TypeOK
<1>u. /\ lang' = lang /\ channel' = channel /\ targets' = targets
      /\ made' = made /\ context' = context /\ chunk' = buffer /\ buffer' = << >>
      /\ uploader \in {"loop", "turn"}
      /\ accepted' = accepted /\ logs' = logs
      /\ lost' = lost /\ pending' = pending /\ arrived' = arrived
      /\ faults' = faults /\ caller' = caller /\ runs' = runs
  BY DEF TakeChunk, LastChunk, rigid, session
<1>v. /\ uploader' \in {"uploading", "last", "ended"}
      /\ uploader' \in {"last", "ended"} => ShouldClose
      /\ uploader' = "ended" => buffer = << >>
  BY DEF TakeChunk, LastChunk
<1>e. chunk = << >> /\ channel = "upload" /\ lang = "java"
  BY <1>u DEF Held, AllVariants
<1>n. Numbers(<< >>) = {}
  BY DEF Numbers
<1>1. TypeOK'
  BY <1>u, <1>v DEF QueueOK
<1>2. Numbered' /\ InLine' /\ Clones' /\ Ordered'
  <2>1. Numbered'
    BY <1>u DEF Numbered, Genuine
  <2>2. InLine'
    BY <1>u DEF InLine, Rising, Before
  <2>3. Clones' /\ Ordered'
    BY <1>u, <1>e DEF Clones, Ordered
  <2> QED BY <2>1, <2>2, <2>3
<1>3. Held'
  BY <1>u, <1>v, <1>e DEF Held
<1>4. Accounted'
  <2>1. /\ Numbers(chunk)' = Numbers(buffer) /\ Numbers(arrived)' = Numbers(arrived)
        /\ Numbers(logs)' = Numbers(logs) /\ Numbers(chunk) = {}
    BY <1>u, <1>e, <1>n DEF Numbers
  <2> QED BY <1>u, <2>1 DEF Accounted
<1>5. Callers' /\ Pending'
  BY <1>u DEF Callers, Pending
<1>6. Ended'
  <2>1. ShouldClose' = ShouldClose /\ ClosedAt' = ClosedAt /\ Numbers(buffer)' = {}
    BY <1>u, <1>n DEF ShouldClose, ClosedAt, Numbers
  <2>2. ~ (lang = "java" /\ channel = "upload" /\ context = "closed")
    BY <1>u DEF Ended
  <2> QED BY <1>u, <1>v, <2>1, <2>2 DEF Ended
<1>7. Closings' /\ Thrown'
  BY <1>u DEF Closings, Thrown, ClosedAt
<1> QED BY <1>1, <1>2, <1>3, <1>4, <1>5, <1>6, <1>7

(* A chunk arrives behind what has arrived. *)
LEMMA UploadPreserves ==
  ASSUME PipesInv, Upload PROVE PipesInv'
<1> USE DEF PipesInv, TypeOK
<1>u. /\ lang' = lang /\ channel' = channel /\ targets' = targets
      /\ made' = made /\ context' = context /\ chunk' = << >> /\ buffer' = buffer
      /\ uploader \in {"uploading", "last"} /\ uploader' \in {"ended", "loop"}
      /\ uploader' = "ended" => uploader = "last"
      /\ accepted' = accepted /\ logs' = logs
      /\ lost' = lost /\ pending' = pending
      /\ faults' = faults /\ caller' = caller /\ runs' = runs
  BY DEF Upload, rigid, session
<1>e. channel = "upload" /\ lang = "java"
  BY <1>u DEF Held, AllVariants
<1>q. /\ accepted \in Seq(Messages) /\ arrived \in Seq(Messages)
      /\ buffer \in Seq(Messages) /\ logs \in Seq(Messages) /\ chunk \in Seq(Messages)
      /\ Rising(arrived)
  BY <1>e, QueuesAre
<1>a. PICK u : u = arrived'
  OBVIOUS
<1>b. u = arrived \o chunk
  BY <1>a DEF Upload
<1>c. /\ u \in Seq(Messages) /\ Rising(u) /\ Numbers(u) = Numbers(arrived) \cup Numbers(chunk)
  BY <1>q, <1>b, ConcatParts, ConcatRises, ConcatNumbers DEF InLine
<1>d. \A i \in DOMAIN u : (\E j \in DOMAIN arrived : u[i] = arrived[j])
                          \/ (\E j \in DOMAIN chunk : u[i] = chunk[j])
  BY <1>q, <1>b, ConcatElements
<1>n. Numbers(<< >>) = {}
  BY DEF Numbers
<1>1. TypeOK'
  BY <1>u, <1>a, <1>c DEF QueueOK
<1>2. Numbered'
  <2>1. Genuine(u)
    BY <1>d DEF Numbered, Genuine
  <2>2. Genuine(arrived)'
    BY <1>u, <1>a, <2>1 DEF Genuine
  <2> QED BY <1>u, <2>2 DEF Numbered, Genuine
<1>3. InLine'
  <2>1. Before(u, buffer)
    <3>1. /\ \A x \in Numbers(arrived), y \in Numbers(buffer) : x < y
          /\ \A x \in Numbers(chunk), y \in Numbers(buffer) : x < y
      BY BeforeIs DEF InLine
    <3> QED BY <1>c, <3>1, BeforeIs
  <2>2. Before(arrived, buffer)'
    BY <1>u, <1>a, <2>1 DEF Before
  <2> QED BY <1>u, <2>2 DEF InLine, Rising, Before
<1>4. Clones'
  BY <1>u, <1>e DEF Clones
<1>5. Ordered'
  BY <1>a, <1>c DEF Ordered, Rising
<1>6. Held'
  BY <1>u, <1>e DEF Held
<1>7. Accounted'
  <2>1. /\ Numbers(chunk)' = {} /\ Numbers(arrived)' = Numbers(u)
        /\ Numbers(buffer)' = Numbers(buffer) /\ Numbers(logs)' = Numbers(logs)
    BY <1>u, <1>a, <1>n DEF Numbers
  <2> QED BY <1>u, <1>c, <2>1 DEF Accounted
<1>8. Callers' /\ Pending'
  BY <1>u DEF Callers, Pending
<1>9. Ended'
  <2>1. ShouldClose' = ShouldClose /\ ClosedAt' = ClosedAt /\ Numbers(buffer)' = Numbers(buffer)
    BY <1>u DEF ShouldClose, ClosedAt, Numbers
  <2> QED BY <1>u, <2>1 DEF Ended
<1>10. Closings' /\ Thrown'
  BY <1>u DEF Closings, Thrown, ClosedAt
<1> QED BY <1>1, <1>2, <1>3, <1>4, <1>5, <1>6, <1>7, <1>8, <1>9, <1>10

(* An upload that raises loses its chunk and ends the thread. *)
LEMMA UploadFailsPreserves ==
  ASSUME PipesInv, UploadFails PROVE PipesInv'
<1> USE DEF PipesInv, TypeOK
<1>u. /\ lang' = lang /\ channel' = channel /\ targets' = targets
      /\ made' = made /\ context' = context /\ chunk' = << >> /\ buffer' = buffer
      /\ uploader \in {"uploading", "last"} /\ uploader' = "dead"
      /\ accepted' = accepted /\ logs' = logs /\ arrived' = arrived
      /\ lost' = lost \cup Numbers(chunk) /\ pending' = pending
      /\ caller' = caller /\ runs' = runs
  BY DEF UploadFails, rigid, session, Numbers
<1>e. channel = "upload" /\ lang = "java"
  BY <1>u DEF Held, AllVariants
<1>n. Numbers(<< >>) = {} /\ Numbers(chunk) \subseteq Nat
  BY QueuesAre DEF Numbers
<1>f. faults' \in 0 .. MaxFaults
  BY PipesAssumption DEF UploadFails
<1>1. TypeOK'
  <2>1. QueueOK'
    BY <1>u DEF QueueOK
  <2>2. lost' \subseteq Nat
    BY <1>u, <1>n
  <2> QED BY <1>u, <1>f, <2>1, <2>2
<1>2. Numbered'
  BY <1>u DEF Numbered, Genuine
<1>3. InLine'
  BY <1>u DEF InLine, Rising, Before
<1>4. Clones' /\ Ordered'
  BY <1>u DEF Clones, Ordered
<1>5. Held'
  BY <1>u, <1>e DEF Held
<1>6. Accounted'
  <2>1. /\ Numbers(chunk)' = {} /\ Numbers(arrived)' = Numbers(arrived)
        /\ Numbers(buffer)' = Numbers(buffer) /\ Numbers(logs)' = Numbers(logs)
    BY <1>u, <1>n DEF Numbers
  <2> QED BY <1>u, <2>1 DEF Accounted
<1>7. Callers' /\ Pending'
  BY <1>u DEF Callers, Pending
<1>8. Ended'
  BY <1>u DEF Ended
<1>9. Closings' /\ Thrown'
  BY <1>u DEF Closings, Thrown, ClosedAt
<1> QED BY <1>1, <1>2, <1>3, <1>4, <1>5, <1>6, <1>7, <1>8, <1>9

------------------------------------------------------------------------------
(* Drop closes, then the context's channel flushes, then the logger's: the *)
(* flushed log messages come last.                                         *)
LEMMA RustDropPreserves ==
  ASSUME PipesInv, RustDrop PROVE PipesInv'
<1> USE DEF PipesInv, TypeOK
<1>u. /\ lang = "rust" /\ lang' = lang /\ channel' = channel /\ targets' = targets
      /\ made' = made /\ context = "open" /\ context' = "dropped" /\ chunk' = chunk
      /\ buffer' = << >> /\ logs' = << >> /\ uploader' = uploader
      /\ pending' = pending /\ caller' = caller /\ runs' = runs
  BY DEF RustDrop, rigid, session
<1>e. /\ channel \in {"direct", "held"} /\ chunk = << >> /\ uploader = "none"
      /\ runs = << >> /\ caller = "idle"
      /\ channel = "direct" => buffer = << >> /\ logs = << >>
      /\ channel = "held" => arrived = << >>
  BY <1>u DEF Held, AllVariants, Callers, Clones
<1>q. /\ accepted \in Seq(Messages) /\ arrived \in Seq(Messages)
      /\ buffer \in Seq(Messages) /\ logs \in Seq(Messages)
      /\ Len(accepted) \in Nat /\ DOMAIN accepted = 1 .. Len(accepted)
      /\ \A x \in Messages : x.n \in Nat
  BY QueuesAre
<1>z. Numbers(<< >>) = {} /\ Rising(<< >>)
  BY DEF Numbers, Rising
<1>m. PICK m : m = Message("closed", NoKey, FALSE)
  OBVIOUS
<1>1. m \in Messages /\ m.n = Len(accepted) + 1 /\ m.method = "closed"
  BY <1>m, MessageIs DEF Methods
<1>2. PICK main : main = IF channel = "direct" THEN <<m>> ELSE Append(buffer, m)
  OBVIOUS
<1>3. main = Append(buffer, m)
  BY <1>e, <1>2
<1>4. PICK failed \in SUBSET {(main \o logs)[i].n : i \in DOMAIN (main \o logs)} :
        /\ faults + Cardinality(failed) <= MaxFaults
        /\ faults' = faults + Cardinality(failed)
        /\ accepted' = Append(accepted, m)
        /\ arrived' = arrived \o Flushed(main, failed) \o Flushed(logs, failed)
        /\ lost' = lost \cup failed
  BY ZenonT(40), <1>m, <1>2 DEF RustDrop
<1>5. PICK x : x = Flushed(main, failed)
  OBVIOUS
<1>6. PICK y : y = Flushed(logs, failed)
  OBVIOUS
<1>7. PICK a : a = accepted'
  OBVIOUS
<1>8. /\ a \in Seq(Messages) /\ a # << >> /\ Len(a) = Len(accepted) + 1
      /\ DOMAIN a = DOMAIN accepted \cup {Len(accepted) + 1}
      /\ a[Len(accepted) + 1] = m
      /\ \A i \in DOMAIN accepted : a[i] = accepted[i] /\ i \in Nat /\ i < Len(accepted) + 1
  BY <1>1, <1>4, <1>7, <1>q, AppendIs
<1>9. /\ main \in Seq(Messages)
      /\ DOMAIN main = DOMAIN buffer \cup {Len(buffer) + 1} /\ main[Len(buffer) + 1] = m
      /\ \A i \in DOMAIN buffer : main[i] = buffer[i] /\ i \in Nat /\ i < Len(buffer) + 1
      /\ Len(buffer) \in Nat
  BY <1>1, <1>3, <1>q, AppendIs
<1>10. Numbers(main) = Numbers(buffer) \cup {m.n}
  BY <1>1, <1>3, <1>q, AppendNumbers
<1>11. \A i \in DOMAIN main : main[i].n \in DOMAIN a /\ a[main[i].n] = main[i]
  BY <1>1, <1>8, <1>9 DEF Numbered, Genuine
<1>12. \A i \in DOMAIN logs : logs[i].n \in DOMAIN a /\ a[logs[i].n] = logs[i]
  BY <1>8 DEF Numbered, Genuine
<1>13. Rising(main)
  <2> SUFFICES ASSUME NEW i \in DOMAIN main, NEW j \in DOMAIN main, i < j
               PROVE  main[i].n < main[j].n
    BY DEF Rising
  <2>1. i \in DOMAIN buffer
    BY <1>9
  <2>2. CASE j \in DOMAIN buffer
    BY <1>9, <2>1, <2>2 DEF InLine, Rising
  <2>3. CASE j = Len(buffer) + 1
    BY <1>1, <1>q, <1>8, <1>9, <2>1, <2>3 DEF Numbered, Genuine
  <2> QED BY <1>9, <2>2, <2>3
<1>14. /\ x \in Seq(Messages) /\ Rising(x)
       /\ \A k \in DOMAIN x : \E i \in DOMAIN main : x[k] = main[i]
       /\ \A i \in DOMAIN main : main[i].n \notin failed => \E k \in DOMAIN x : x[k] = main[i]
  BY <1>5, <1>9, <1>13, FlushedKeeps
<1>15. /\ y \in Seq(Messages) /\ Rising(y)
       /\ \A k \in DOMAIN y : \E i \in DOMAIN logs : y[k] = logs[i]
       /\ \A i \in DOMAIN logs : logs[i].n \notin failed => \E k \in DOMAIN y : y[k] = logs[i]
  <2>1. Rising(logs)
    BY DEF InLine
  <2> QED BY <1>6, <1>q, <2>1, FlushedKeeps
<1>16. /\ Numbers(main) \subseteq failed \cup Numbers(x)
       /\ Numbers(logs) \subseteq failed \cup Numbers(y)
  BY <1>14, <1>15 DEF Numbers
<1>17. PICK first : first = arrived \o x
  OBVIOUS
<1>18. PICK all : all = first \o y
  OBVIOUS
<1>19. arrived' = all
  BY <1>4, <1>5, <1>6, <1>17, <1>18
<1>20. first \in Seq(Messages) /\ all \in Seq(Messages)
  BY <1>q, <1>14, <1>15, <1>17, <1>18, ConcatParts
<1>21. Rising(first)
  <2>1. Rising(arrived)
    BY <1>e, <1>z, QueuesAre
  <2>2. Before(arrived, x)
    <3> SUFFICES ASSUME NEW i \in DOMAIN arrived, NEW j \in DOMAIN x
                 PROVE  arrived[i].n < x[j].n
      BY DEF Before
    <3>1. channel = "direct" /\ buffer = << >>
      BY <1>e
    <3>2. x[j] = m
      BY <1>9, <1>14, <3>1
    <3>3. arrived[i].n \in DOMAIN accepted
      BY DEF Numbered, Genuine
    <3> QED BY <1>1, <1>8, <3>2, <3>3
  <2> QED BY <1>q, <1>14, <1>17, <2>1, <2>2, ConcatRises
<1>22. Numbers(all) = Numbers(arrived) \cup Numbers(x) \cup Numbers(y)
  <2>1. Numbers(first) = Numbers(arrived) \cup Numbers(x)
    BY <1>q, <1>14, <1>17, ConcatNumbers
  <2>2. Numbers(all) = Numbers(first) \cup Numbers(y)
    BY <1>15, <1>18, <1>20, ConcatNumbers
  <2> QED BY <2>1, <2>2
<1>23. TypeOK'
  <2>1. QueueOK'
    BY <1>u, <1>e, <1>7, <1>8, <1>19, <1>20 DEF QueueOK
  <2>2. Numbers(main \o logs) = Numbers(main) \cup Numbers(logs)
    BY <1>q, <1>9, ConcatNumbers
  <2>3. failed \subseteq Numbers(main \o logs)
    BY DEF Numbers
  <2>4. Numbers(main) \subseteq DOMAIN a /\ Numbers(logs) \subseteq DOMAIN a
    BY <1>11, <1>12 DEF Numbers
  <2>5. failed \subseteq 1 .. Len(accepted) + 1
    BY <1>q, <1>8, <2>2, <2>3, <2>4
  <2>6. IsFiniteSet(1 .. Len(accepted) + 1)
    BY <1>q, FS_Interval
  <2>7. Cardinality(failed) \in Nat
    BY <2>5, <2>6, FS_Subset, FS_CardinalityType
  <2>8. faults' \in 0 .. MaxFaults
    BY <1>4, <2>7, PipesAssumption
  <2>9. lost' \subseteq Nat
    BY <1>4, <1>q, <2>5
  <2> QED BY <1>u, <2>1, <2>8, <2>9
<1>24. Numbered'
  <2>1. \A i \in DOMAIN a : a[i].n = i
    BY <1>1, <1>8 DEF Numbered
  <2>2. ASSUME NEW i \in DOMAIN all
        PROVE  all[i].n \in DOMAIN a /\ a[all[i].n] = all[i]
    <3>1. \/ \E j \in DOMAIN first : all[i] = first[j]
          \/ \E j \in DOMAIN y : all[i] = y[j]
      BY <1>15, <1>18, <1>20, ConcatElements
    <3>2. ASSUME NEW j \in DOMAIN first
          PROVE  first[j].n \in DOMAIN a /\ a[first[j].n] = first[j]
      <4>1. \/ \E k \in DOMAIN arrived : first[j] = arrived[k]
            \/ \E k \in DOMAIN x : first[j] = x[k]
        BY <1>q, <1>14, <1>17, ConcatElements
      <4>2. \A k \in DOMAIN arrived : arrived[k].n \in DOMAIN a /\ a[arrived[k].n] = arrived[k]
        BY <1>8 DEF Numbered, Genuine
      <4> QED BY <1>11, <1>14, <4>1, <4>2
    <3> QED BY <1>12, <1>15, <3>1, <3>2
  <2>3. Genuine(arrived)'
    BY <1>7, <1>19, <2>2 DEF Genuine
  <2> QED BY <1>u, <1>e, <1>7, <2>1, <2>3 DEF Numbered, Genuine
<1>25. Held' /\ Clones'
  BY <1>u, <1>e DEF Held, Clones
<1>26. InLine'
  BY <1>u, <1>e DEF InLine, Rising, Before
<1>27. Accounted'
  <2>1. Numbers(arrived)' = Numbers(all)
    BY <1>19 DEF Numbers
  <2>2. ASSUME NEW n \in DOMAIN a
        PROVE  n \in Numbers(all) \/ n \in lost \cup failed
    <3>1. CASE n = Len(accepted) + 1
      BY <1>1, <1>10, <1>16, <1>22, <3>1
    <3>2. CASE n \in DOMAIN accepted
      <4>1. \/ n \in Numbers(arrived) \cup Numbers(chunk) \cup Numbers(buffer) \cup Numbers(logs)
            \/ n \in lost
        BY <3>2 DEF Accounted
      <4>2. Numbers(chunk) = {}
        BY <1>e, <1>z
      <4> QED BY <1>10, <1>16, <1>22, <4>1, <4>2
    <3> QED BY <1>8, <3>1, <3>2
  <2> QED BY <1>4, <1>7, <2>1, <2>2 DEF Accounted
<1>28. Callers' /\ Pending' /\ Thrown'
  BY <1>u, <1>e DEF Callers, Pending, Thrown
<1>29. Ended'
  BY <1>u, <1>e DEF Ended
<1>30. Closings'
  <2>1. Len(accepted) + 1 \in ClosedAt'
    BY <1>1, <1>7, <1>8 DEF ClosedAt
  <2> QED BY <1>u, <2>1 DEF Closings
<1>31. Ordered'
  <2> SUFFICES ASSUME NEW i \in DOMAIN all, NEW j \in DOMAIN all, i < j
               PROVE  \/ all[i].n < all[j].n
                      \/ channel = "held" /\ all[i].method # "log" /\ all[j].method = "log"
    BY <1>u, <1>19 DEF Ordered
  <2>1. /\ Len(first) \in Nat /\ Len(y) \in Nat
        /\ DOMAIN all = 1 .. Len(first) + Len(y)
        /\ DOMAIN first = 1 .. Len(first) /\ DOMAIN y = 1 .. Len(y)
        /\ \A k \in 1 .. Len(first) : all[k] = first[k]
        /\ \A k \in Len(first) + 1 .. Len(first) + Len(y) : all[k] = y[k - Len(first)]
    BY <1>15, <1>18, <1>20, ConcatParts
  <2>2. CASE j <= Len(first)
    <3>1. i \in DOMAIN first /\ j \in DOMAIN first /\ all[i] = first[i] /\ all[j] = first[j]
      BY <2>1, <2>2
    <3> QED BY <1>21, <3>1 DEF Rising
  <2>3. CASE i > Len(first)
    <3>1. /\ i - Len(first) \in DOMAIN y /\ j - Len(first) \in DOMAIN y
          /\ all[i] = y[i - Len(first)] /\ all[j] = y[j - Len(first)]
          /\ i - Len(first) < j - Len(first)
      BY <2>1, <2>3
    <3> QED BY <1>15, <3>1 DEF Rising
  <2>4. CASE i <= Len(first) /\ j > Len(first)
    <3>1. i \in DOMAIN first /\ all[i] = first[i]
      BY <2>1, <2>4
    <3>2. PICK k \in DOMAIN y : all[j] = y[k]
      <4>1. j - Len(first) \in DOMAIN y /\ all[j] = y[j - Len(first)]
        BY <2>1, <2>4
      <4> QED BY <4>1
    <3>3. PICK l \in DOMAIN logs : all[j] = logs[l]
      BY <1>15, <3>2
    <3>4. channel = "held" /\ arrived = << >>
      BY <1>e, <3>3
    <3>5. PICK p \in DOMAIN x : first[i] = x[p]
      BY <1>q, <1>14, <1>17, <3>1, <3>4, ConcatElements
    <3>6. PICK o \in DOMAIN main : all[i] = main[o]
      BY <1>14, <3>1, <3>5
    <3>7. main[o].method # "log"
      BY <1>u, <1>1, <1>9, <3>4 DEF Clones
    <3>8. logs[l].method = "log"
      BY <1>u, <3>4 DEF Clones
    <3> QED BY <3>3, <3>4, <3>6, <3>7, <3>8
  <2> QED BY <2>1, <2>2, <2>3, <2>4
<1> QED BY <1>23, <1>24, <1>25, <1>26, <1>27, <1>28, <1>29, <1>30, <1>31

(* close of TypeScript writes "closed" and flushes. *)
LEMMA TsClosePreserves ==
  ASSUME PipesInv, TsClose PROVE PipesInv'
<1> USE DEF PipesInv, TypeOK
<1>1. CASE WriteFails /\ UNCHANGED context
  BY <1>1, FailurePreserves DEF TsClose
<1>2. ASSUME NEW exc \in BOOLEAN, NEW m, m = Message("closed", NoKey, exc),
             context' = "closed", accepted' = Append(accepted, m),
             arrived' = arrived \o buffer \o <<m>>, buffer' = << >>, UNCHANGED faults
      PROVE  PipesInv'
  <2>u. /\ lang = "typescript" /\ lang' = lang /\ channel' = channel /\ targets' = targets
        /\ made' = made /\ context = "open" /\ chunk' = chunk
        /\ logs' = logs /\ uploader' = uploader /\ lost' = lost
        /\ pending' = pending /\ caller' = caller /\ runs' = runs
    BY DEF TsClose, rigid, session
  <2>e. /\ chunk = << >> /\ logs = << >> /\ uploader = "none" /\ runs = << >> /\ caller = "idle"
    BY <2>u DEF Held, AllVariants, Callers
  <2>q. /\ accepted \in Seq(Messages) /\ arrived \in Seq(Messages) /\ buffer \in Seq(Messages)
        /\ Len(accepted) \in Nat /\ Rising(arrived) /\ Rising(buffer) /\ Before(arrived, buffer)
    BY <2>u, QueuesAre DEF InLine
  <2>z. Numbers(<< >>) = {}
    BY DEF Numbers
  <2>1. m \in Messages /\ m.n = Len(accepted) + 1 /\ m.method = "closed"
    BY <1>2, MessageIs DEF Methods
  <2>2. PICK a : a = accepted'
    OBVIOUS
  <2>3. /\ a \in Seq(Messages) /\ a # << >> /\ Len(a) = Len(accepted) + 1
        /\ DOMAIN a = DOMAIN accepted \cup {Len(accepted) + 1}
        /\ a[Len(accepted) + 1] = m
        /\ \A i \in DOMAIN accepted : a[i] = accepted[i] /\ i \in Nat /\ i < Len(accepted) + 1
    <3>1. a = Append(accepted, m)
      BY <1>2, <2>2
    <3> QED BY <2>1, <2>q, <3>1, AppendIs
  <2>4. PICK first : first = arrived \o buffer
    OBVIOUS
  <2>5. /\ first \in Seq(Messages) /\ Rising(first)
        /\ Numbers(first) = Numbers(arrived) \cup Numbers(buffer)
    BY <2>4, <2>q, ConcatParts, ConcatRises, ConcatNumbers
  <2>6. PICK all : all = arrived'
    OBVIOUS
  <2>7. all = Append(first, m)
    BY <1>2, <2>1, <2>4, <2>5, <2>6
  <2>8. /\ all \in Seq(Messages)
        /\ DOMAIN all = DOMAIN first \cup {Len(first) + 1} /\ all[Len(first) + 1] = m
        /\ \A i \in DOMAIN first : all[i] = first[i] /\ i \in Nat /\ i < Len(first) + 1
        /\ Len(first) \in Nat
    BY <2>1, <2>5, <2>7, AppendIs
  <2>9. Numbers(all) = Numbers(arrived) \cup Numbers(buffer) \cup {m.n}
    BY <2>1, <2>5, <2>7, AppendNumbers
  <2>10. \A i \in DOMAIN first : first[i].n \in DOMAIN accepted /\ accepted[first[i].n] = first[i]
    BY <2>q, <2>4, ConcatElements DEF Numbered, Genuine
  <2>11. TypeOK'
    BY SMTT(30), <1>2, <2>u, <2>2, <2>3, <2>6, <2>8 DEF QueueOK
  <2>12. Numbered'
    <3>1. \A i \in DOMAIN a : a[i].n = i
      BY <2>1, <2>3 DEF Numbered
    <3>2. \A i \in DOMAIN all : all[i].n \in DOMAIN a /\ a[all[i].n] = all[i]
      BY <2>1, <2>3, <2>8, <2>10
    <3> QED BY SMTT(30), <1>2, <2>u, <2>e, <2>2, <2>6, <3>1, <3>2 DEF Numbered, Genuine
  <2>13. Held' /\ Clones'
    BY <1>2, <2>u, <2>e DEF Held, Clones
  <2>14. InLine'
    BY <1>2, <2>u, <2>e DEF InLine, Rising, Before
  <2>15. Accounted'
    <3>1. Numbers(arrived)' = Numbers(all) /\ Numbers(chunk) = {} /\ Numbers(logs) = {}
      BY <2>e, <2>6, <2>z DEF Numbers
    <3>2. \A n \in DOMAIN a : n \in Numbers(all) \/ n \in lost
      BY <2>1, <2>3, <2>9, <3>1 DEF Accounted
    <3> QED BY <2>u, <2>2, <3>1, <3>2 DEF Accounted
  <2>16. Callers' /\ Pending' /\ Thrown'
    BY <2>u, <2>e DEF Callers, Pending, Thrown
  <2>17. Ended'
    BY <2>u, <2>e DEF Ended
  <2>18. Closings'
    <3>1. Len(accepted) + 1 \in ClosedAt'
      BY <2>1, <2>2, <2>3 DEF ClosedAt
    <3> QED BY <2>u, <3>1 DEF Closings
  <2>19. Ordered'
    <3>1. ASSUME NEW i \in DOMAIN all, NEW j \in DOMAIN all, i < j
          PROVE  all[i].n < all[j].n
      <4>1. i \in DOMAIN first
        BY <2>8, <3>1
      <4>2. CASE j \in DOMAIN first
        BY <2>5, <2>8, <3>1, <4>1, <4>2 DEF Rising
      <4>3. CASE j = Len(first) + 1
        BY <2>1, <2>3, <2>8, <2>10, <4>1, <4>3
      <4> QED BY <2>8, <4>2, <4>3
    <3> QED BY <2>6, <3>1 DEF Ordered
  <2> QED BY <2>11, <2>12, <2>13, <2>14, <2>15, <2>16, <2>17, <2>18, <2>19
<1> QED BY <1>1, <1>2 DEF TsClose

------------------------------------------------------------------------------
(* The invariant holds before anything was written. *)
LEMMA InitHolds ==
  ASSUME Init PROVE PipesInv
<1> USE DEF Init
<1>1. PICK v \in Variants : lang = v[1] /\ channel = v[2]
  OBVIOUS
<1>2. <<lang, channel>> \in AllVariants
  BY <1>1, PipesAssumption DEF AllVariants
<1>3. TypeOK
  <2>1. QueueOK
    BY DEF QueueOK
  <2>2. runs \in Seq(Calls) /\ faults \in 0 .. MaxFaults /\ lost \subseteq Nat
    BY PipesAssumption
  <2> QED BY <1>2, <2>1, <2>2 DEF TypeOK
<1>4. Numbered /\ Held /\ Clones /\ InLine
  BY DEF Numbered, Genuine, Held, Clones, InLine, Rising, Before
<1>5. Accounted /\ Callers /\ Pending /\ Ordered
  BY DEF Accounted, Callers, Pending, Ordered
<1>6. Ended /\ Closings /\ Thrown
  BY DEF Ended, Closings, Thrown, ClosedAt
<1> QED BY <1>3, <1>4, <1>5, <1>6 DEF PipesInv

(* A step that changes nothing keeps the invariant. *)
LEMMA StutterPreserves ==
  ASSUME PipesInv, UNCHANGED vars PROVE PipesInv'
<1> USE DEF vars, rigid, held, session
<1>1. TypeOK' /\ Numbered' /\ Held' /\ Clones'
  BY DEF PipesInv, TypeOK, QueueOK, Numbered, Genuine, Held, Clones
<1>2. InLine' /\ Accounted' /\ Callers' /\ Pending' /\ Ordered'
  BY DEF PipesInv, InLine, Rising, Before, Accounted, Numbers, Callers, Pending, Ordered
<1>3. Ended' /\ Closings' /\ Thrown'
  BY DEF PipesInv, Ended, ShouldClose, Numbers, Closings, Thrown, ClosedAt
<1> QED BY <1>1, <1>2, <1>3 DEF PipesInv

(* Every step of every implementation keeps the invariant. *)
LEMMA StepPreserves ==
  ASSUME PipesInv, Next PROVE PipesInv'
<1>1. CASE RustNew \/ RustReport \/ RustLog \/ RustClose \/ RustDrop
  BY <1>1, RustNewPreserves, RustReportPreserves, RustLogPreserves, RustClosePreserves,
     RustDropPreserves
<1>2. CASE TsGetInstance \/ TsWrite \/ TsClose
  BY <1>2, TsGetInstancePreserves, TsWritePreserves, TsClosePreserves
<1>3. CASE JavaBuildContext \/ JavaWrite \/ JavaLog \/ JavaRun \/ JavaJoin
  BY <1>3, JavaBuildContextPreserves, JavaWritePreserves, JavaLogPreserves, JavaRunPreserves,
     JavaJoinPreserves
<1>4. ASSUME NEW raised \in BOOLEAN, JavaEndRun(raised) PROVE PipesInv'
  BY <1>4, JavaEndRunPreserves
<1>5. ASSUME NEW asked \in Asked, TsMaterialize(asked) \/ JavaMaterialize(asked)
      PROVE  PipesInv'
  BY <1>5, TsMaterializePreserves, JavaMaterializePreserves
<1>6. CASE Uploading
  BY <1>6, TurnPreserves, TakePreserves, UploadPreserves, UploadFailsPreserves DEF Uploading
<1> QED BY <1>1, <1>2, <1>3, <1>4, <1>5, <1>6 DEF Next

(* The inductive invariant of PipesSession: every accepted message is      *)
(* arrived, on its way or lost, and the line from arrived over the chunk   *)
(* to the buffer rises.                                                    *)
THEOREM PipesInvariant == Spec => []PipesInv
<1>1. PipesInv /\ [Next]_vars => PipesInv'
  BY StepPreserves, StutterPreserves
<1> QED BY <1>1, InitHolds, PTL DEF Spec

(* Messages arrive in the order they were written in, each at most once,   *)
(* for every implementation, channel, number of messages and fault.        *)
THEOREM AlwaysOrdered == Spec => []Ordered
<1>1. PipesInv => Ordered
  BY DEF PipesInv
<1> QED BY <1>1, PipesInvariant, PTL

(* An exception of the user's Java code is told to Dagster or, when no     *)
(* "closed" message can be written, thrown to the caller; "closed" never   *)
(* passes it off as a success, however often runDagsterPipes is called.    *)
THEOREM FailureAlwaysTold == Spec => []FailureTold
<1>1. PipesInv => FailureTold
  BY DEF PipesInv, Thrown, Closings, FailureTold
<1> QED BY <1>1, PipesInvariant, PTL

(* Once closing has returned, all messages up to the last "closed" have    *)
(* arrived, but for those a fault lost: Max(ClosedAt) exists because       *)
(* ClosedAt is finite and not empty, and the upload thread ends only after *)
(* it took "closed".                                                       *)
THEOREM ClosedAlwaysSent == Spec => []ClosedMeansSent
<1>1. PipesInv => ClosedMeansSent
  <2> SUFFICES ASSUME PipesInv, context \in {"closed", "dropped"}, uploader # "dead",
                      NEW n \in 1 .. Max(ClosedAt)
               PROVE  Arrived(n) \/ n \in lost
    BY DEF ClosedMeansSent
  <2> USE DEF PipesInv, TypeOK
  <2>1. /\ Len(accepted) \in Nat /\ DOMAIN accepted = 1 .. Len(accepted)
        /\ ClosedAt \subseteq 1 .. Len(accepted) /\ ClosedAt # {}
    BY QueuesAre DEF ClosedAt, Closings
  <2>2. IsFiniteSet(ClosedAt) /\ ClosedAt \subseteq Int
    <3>1. IsFiniteSet(1 .. Len(accepted))
      BY <2>1, FS_Interval
    <3>2. IsFiniteSet(ClosedAt)
      BY <2>1, <3>1, FS_Subset
    <3> QED BY <2>1, <3>2
  <2>3. PICK c : c = Max(ClosedAt)
    OBVIOUS
  <2>4. c \in ClosedAt /\ \A d \in ClosedAt : c >= d
    BY <2>1, <2>2, <2>3, HasMax DEF Max
  <2>5. n \in 1 .. c
    BY <2>3
  <2>6. n \in DOMAIN accepted
    BY <2>1, <2>4, <2>5
  <2>7. chunk = << >> /\ logs = << >> /\ n \notin Numbers(buffer)
    <3>1. CASE channel = "upload"
      <4>1. lang = "java" /\ uploader = "ended"
        BY <3>1 DEF AllVariants, Held, Ended
      <4>2. ~ (c < n)
        BY <2>1, <2>4, <2>5
      <4> QED BY <2>1, <2>4, <2>5, <3>1, <4>1, <4>2 DEF Held, Ended
    <3>2. CASE channel # "upload"
      <4>1. buffer = << >> /\ chunk = << >> /\ logs = << >>
        BY <3>2 DEF AllVariants, Held
      <4> QED BY <4>1 DEF Numbers
    <3> QED BY <3>1, <3>2
  <2>8. n \in Numbers(arrived) \/ n \in lost
    BY <2>6, <2>7 DEF Accounted, Numbers
  <2> QED BY <2>8 DEF Arrived, Numbers
<1> QED BY <1>1, PipesInvariant, PTL
==============================================================================
