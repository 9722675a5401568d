--------------------------- MODULE SharePointProofs ---------------------------
(***************************************************************************)
(* What a call of SharePointResource that has ended means, for any drive,  *)
(* any calls and any number of faults.  The first section is about what    *)
(* the clients of RemoteCalls share; RemoteCallsProofs goes on from here   *)
(* to the other clients.                                                   *)
(***************************************************************************)
EXTENDS SharePointResource, FiniteSetTheorems, SequenceTheorems, WellFoundedInduction, TLAPS

------------------------------------------------------------------------------
(***************************************************************************)
(* What the invariants of all clients share, and facts about sequences and *)
(* finite sets.                                                            *)
(***************************************************************************)
(* What is steady is so now; a call ends once, with an answer or an error;  *)
(* every request missed is a trouble.                                       *)
Known == steady \subseteq Facts(remote)
Ending == told \in {"none", "returned", "raised"} /\ (at = "ended" <=> told # "none")
Counted == faults \in Nat /\ missed \in Nat /\ (call.client # "hex" => missed <= faults)
Base == Known /\ Ending /\ Counted

(* What every step of every client has in common. *)
Shape ==
  /\ call' = call
  /\ steady' = steady \cap Facts(remote')
  /\ \/ at' = at /\ told' = told
     \/ told = "none" /\ told' = "none" /\ at' # "ended"
     \/ told = "none" /\ told' \in {"returned", "raised"} /\ at' = "ended"
  /\ \/ faults' = faults /\ missed' = missed
     \/ faults' = faults + 1 /\ missed' \in {missed, missed + 1}
     \/ call.client = "hex" /\ faults' = faults /\ missed' = missed + 1

(* A fact is a place of the service with the state it has.                 *)
LEMMA FactIs ==
  ASSUME NEW r, NEW x, NEW v
  PROVE  <<x, v>> \in Facts(r) <=> x \in DOMAIN r /\ v = r[x]
<1>1. <<x, v>> \in Facts(r) <=> \E y \in DOMAIN r : <<x, v>> = <<y, r[y]>>
  BY Zenon DEF Facts
<1> QED BY <1>1

(* What has been steady is so now.                                         *)
LEMMA SteadyIs ==
  ASSUME Known, NEW x, NEW v, <<x, v>> \in steady
  PROVE  x \in DOMAIN remote /\ v = remote[x]
BY FactIs DEF Known

(* What all steps share keeps what all invariants share, and steady facts  *)
(* only go.                                                                *)
LEMMA ShapeBase ==
  ASSUME Base, Shape
  PROVE  Base' /\ steady' \subseteq steady
<1>1. Known' /\ steady' \subseteq steady
  BY DEF Shape, Known
<1>2. Ending'
  BY DEF Shape, Base, Ending
<1>3. Counted'
  BY DEF Shape, Base, Counted
<1> QED BY <1>1, <1>2, <1>3 DEF Base

(* What a call begins with.                                                *)
LEMMA BeginBase ==
  ASSUME NEW c, NEW where, NEW todo, NEW r, Begin(c, where, todo, r), where # "ended"
  PROVE  Base
BY DEF Begin, Base, Known, Ending, Counted

(* The same conditions in the operators the clients are written with. *)
LEMMA ServiceKept ==
  ASSUME Known, UNCHANGED service
  PROVE  steady' = steady \cap Facts(remote') /\ remote' = remote /\ steady' = steady
BY DEF Known, service

(* A change of the service keeps the facts that are still so.              *)
LEMMA ServiceBecomes ==
  ASSUME NEW r, Becomes(r)
  PROVE  steady' = steady \cap Facts(remote') /\ remote' = r
BY DEF Becomes

(* What is otherwise now has not been steady. *)
LEMMA NotSteady ==
  ASSUME NEW s, NEW r, s \subseteq Facts(r), NEW x, NEW v, r[x] # v
  PROVE  <<x, v>> \notin s
BY FactIs

(* A sequence taken apart at its head, made longer at its end, and shortened. *)
LEMMA HeadTail ==
  ASSUME NEW S, NEW s \in Seq(S), s # << >>
  PROVE  /\ Head(s) \in S /\ Tail(s) \in Seq(S) /\ Range(s) = {Head(s)} \cup Range(Tail(s))
         /\ Head(s) = s[1] /\ Len(Tail(s)) = Len(s) - 1 /\ Len(s) \in Nat \ {0}
         /\ \A i \in 1 .. Len(Tail(s)) : Tail(s)[i] = s[i + 1]
<1>1. /\ Head(s) \in S /\ Tail(s) \in Seq(S) /\ Head(s) = s[1] /\ Len(Tail(s)) = Len(s) - 1
      /\ Len(s) \in Nat \ {0} /\ DOMAIN s = 1 .. Len(s) /\ DOMAIN Tail(s) = 1 .. (Len(s) - 1)
      /\ \A i \in 1 .. Len(Tail(s)) : Tail(s)[i] = s[i + 1]
  OBVIOUS
<1>2. Range(s) \subseteq {Head(s)} \cup Range(Tail(s))
  <2> SUFFICES ASSUME NEW i \in 1 .. Len(s), i # 1
               PROVE  s[i] \in Range(Tail(s))
    BY <1>1 DEF Range
  <2>1. i - 1 \in 1 .. Len(Tail(s)) /\ Tail(s)[i - 1] = s[i]
    BY <1>1
  <2> QED BY <1>1, <2>1 DEF Range
<1>3. {Head(s)} \cup Range(Tail(s)) \subseteq Range(s)
  <2>1. Head(s) \in Range(s)
    BY <1>1 DEF Range
  <2>2. ASSUME NEW i \in 1 .. Len(Tail(s)) PROVE Tail(s)[i] \in Range(s)
    <3>1. i + 1 \in 1 .. Len(s)
      BY <1>1
    <3> QED BY <1>1, <3>1 DEF Range
  <2> QED BY <1>1, <2>1, <2>2 DEF Range
<1> QED BY <1>1, <1>2, <1>3

(* Appending adds one member.                                              *)
LEMMA AppendRange ==
  ASSUME NEW S, NEW s \in Seq(S), NEW x
  PROVE  Range(Append(s, x)) = Range(s) \cup {x}
<1>1. DOMAIN Append(s, x) = 1 .. (Len(s) + 1) /\ DOMAIN s = 1 .. Len(s) /\ Len(s) \in Nat
       /\ Append(s, x)[Len(s) + 1] = x /\ \A i \in 1 .. Len(s) : Append(s, x)[i] = s[i]
  OBVIOUS
<1>2. Range(s) \cup {x} \subseteq Range(Append(s, x))
  BY <1>1 DEF Range
<1>3. Range(Append(s, x)) \subseteq Range(s) \cup {x}
  <2> SUFFICES ASSUME NEW i \in 1 .. (Len(s) + 1)
               PROVE  Append(s, x)[i] \in Range(s) \cup {x}
    BY <1>1 DEF Range
  <2> QED BY <1>1 DEF Range
<1> QED BY <1>2, <1>3

(* Each sequence of a finite set's members without repetition that is as   *)
(* long as the set is large has them all.                                  *)
LEMMA FullSequence ==
  ASSUME NEW S, IsFiniteSet(S), NEW s \in [1 .. Cardinality(S) -> S], IsInjective(s)
  PROVE  s \in Seq(S) /\ Len(s) = Cardinality(S) /\ Range(s) = S
<1> PICK n : n = Cardinality(S)
  OBVIOUS
<1>1. n \in Nat
  BY FS_CardinalityType
<1>2. s \in Injection(1 .. n, S)
  BY DEF Injection
<1>3. IsFiniteSet(1 .. n) /\ Cardinality(1 .. n) = n
  <2>1. 1 \in Int /\ n \in Int
    BY <1>1
  <2> QED BY <1>1, <2>1, FS_Interval
<1>4. s \in Surjection(1 .. n, S)
  BY <1>2, <1>3, FS_Injection
<1>5. Range(s) = S
  BY <1>4 DEF Range, Surjection
<1>6. s \in Seq(S) /\ Len(s) = n
  BY <1>1
<1> QED BY <1>5, <1>6

(* A finite set made a sequence: each member once.                         *)
LEMMA SetToSeqIs ==
  ASSUME NEW S, IsFiniteSet(S)
  PROVE  /\ SetToSeq(S) \in Seq(S) /\ Len(SetToSeq(S)) = Cardinality(S) /\ Range(SetToSeq(S)) = S
         /\ \A i, j \in 1 .. Len(SetToSeq(S)) : SetToSeq(S)[i] = SetToSeq(S)[j] => i = j
<1> PICK n : n = Cardinality(S)
  OBVIOUS
<1>1. n \in Nat /\ ExistsBijection(1 .. n, S)
  BY FS_CardinalityType
<1>2. PICK f : f \in Bijection(1 .. n, S)
  BY <1>1 DEF ExistsBijection
<1>3. f \in [1 .. n -> S] /\ IsInjective(f)
  BY <1>2 DEF Bijection, Injection, IsInjective
<1>4. SetToSeq(S) \in [1 .. n -> S] /\ IsInjective(SetToSeq(S))
  BY <1>3 DEF SetToSeq
<1>5. SetToSeq(S) \in Seq(S) /\ Len(SetToSeq(S)) = n /\ Range(SetToSeq(S)) = S
  BY <1>4, FullSequence
<1> QED BY <1>1, <1>4, <1>5 DEF IsInjective

(* The indices and members of a sequence.                                  *)
LEMMA SeqMembers ==
  ASSUME NEW S, NEW s \in Seq(S)
  PROVE  DOMAIN s = 1 .. Len(s) /\ Len(s) \in Nat /\ Range(s) \subseteq S /\ \A i \in 1 .. Len(s) : s[i] \in S
<1>1. DOMAIN s = 1 .. Len(s) /\ Len(s) \in Nat /\ \A i \in 1 .. Len(s) : s[i] \in S
  OBVIOUS
<1> QED BY <1>1 DEF Range

(* A sequence of one.                                                      *)
LEMMA HeadOne ==
  ASSUME NEW y
  PROVE  Head(<<y>>) = y /\ Len(<<y>>) = 1 /\ Tail(<<y>>) = << >>
OBVIOUS

(* Where the members of two sequences are when they are joined.            *)
LEMMA ConcatIs ==
  ASSUME NEW S, NEW a \in Seq(S), NEW b \in Seq(S)
  PROVE  /\ a \o b \in Seq(S) /\ Len(a \o b) = Len(a) + Len(b) /\ Len(a) \in Nat /\ Len(b) \in Nat
         /\ DOMAIN (a \o b) = 1 .. (Len(a) + Len(b))
         /\ \A i \in 1 .. Len(a) : (a \o b)[i] = a[i]
         /\ \A i \in 1 .. Len(b) : (a \o b)[Len(a) + i] = b[i]
         /\ Range(a \o b) = Range(a) \cup Range(b)
<1> PICK c : c = a \o b
  OBVIOUS
<1>1. /\ c \in Seq(S) /\ Len(c) = Len(a) + Len(b) /\ Len(a) \in Nat /\ Len(b) \in Nat
      /\ DOMAIN c = 1 .. (Len(a) + Len(b)) /\ DOMAIN a = 1 .. Len(a) /\ DOMAIN b = 1 .. Len(b)
      /\ \A i \in 1 .. Len(a) : c[i] = a[i]
      /\ \A i \in 1 .. Len(b) : c[Len(a) + i] = b[i]
  OBVIOUS
<1>2. Range(c) \subseteq Range(a) \cup Range(b)
  <2> SUFFICES ASSUME NEW i \in 1 .. (Len(a) + Len(b)) PROVE c[i] \in Range(a) \cup Range(b)
    BY <1>1 DEF Range
  <2>1. CASE i \in 1 .. Len(a)
    BY <1>1, <2>1 DEF Range
  <2>2. CASE i \notin 1 .. Len(a)
    <3>1. i - Len(a) \in 1 .. Len(b) /\ i = Len(a) + (i - Len(a))
      BY <1>1, <2>2
    <3>2. c[i] = b[i - Len(a)]
      BY <1>1, <3>1
    <3> QED BY <1>1, <3>1, <3>2 DEF Range
  <2> QED BY <2>1, <2>2
<1>3. Range(a) \subseteq Range(c)
  <2> SUFFICES ASSUME NEW i \in 1 .. Len(a) PROVE a[i] \in Range(c)
    BY <1>1 DEF Range
  <2>1. i \in 1 .. (Len(a) + Len(b))
    BY <1>1
  <2> QED BY <1>1, <2>1 DEF Range
<1>4. Range(b) \subseteq Range(c)
  <2> SUFFICES ASSUME NEW i \in 1 .. Len(b) PROVE b[i] \in Range(c)
    BY <1>1 DEF Range
  <2>1. Len(a) + i \in 1 .. (Len(a) + Len(b))
    BY <1>1
  <2> QED BY <1>1, <2>1 DEF Range
<1> QED BY <1>1, <1>2, <1>3, <1>4

(* A finite set of numbers that is not empty has a smallest one. *)
LEMMA HasMin ==
  ASSUME NEW S, IsFiniteSet(S), S # {}, S \subseteq Int
  PROVE  \E m \in S : \A x \in S : m <= x
<1> DEFINE Bottomed(U) == \E m \in U : \A x \in U : m <= x
           T == {U \in SUBSET S : U # {} /\ ~ Bottomed(U)}
<1> SUFFICES ASSUME T # {} PROVE FALSE
  OBVIOUS
<1>1. T \subseteq FiniteSubsetsOf(S)
  BY FS_Subset DEF FiniteSubsetsOf
<1>2. PICK U \in T : \A V \in T : <<V, U>> \notin StrictSubsetOrdering(S)
  <2> HIDE DEF T
  <2> QED BY <1>1, FS_StrictSubsetOrderingWellFounded, WFMin
<1>3. PICK u \in U : TRUE
  OBVIOUS
<1> DEFINE V == U \ {u}
<1>4. <<V, U>> \in StrictSubsetOrdering(S)
  BY DEF StrictSubsetOrdering
<1>5. V = {} \/ Bottomed(V)
  BY <1>2, <1>4
<1>6. CASE V = {}
  <2>1. \A x \in U : u <= x
    BY <1>6
  <2> QED BY <2>1
<1>7. CASE Bottomed(V)
  <2>1. PICK m \in V : \A x \in V : m <= x
    BY <1>7
  <2>2. u \in Int /\ m \in Int
    OBVIOUS
  <2>3. CASE u <= m
    <3>1. \A x \in U : u <= x
      BY <2>1, <2>2, <2>3
    <3> QED BY <3>1
  <2>4. CASE m < u
    <3>1. \A x \in U : m <= x
      BY <2>1, <2>2, <2>4
    <3> QED BY <3>1
  <2> QED BY <2>2, <2>3, <2>4
<1> QED BY <1>5, <1>6, <1>7

(* Where the members of a sequence are when one is appended.               *)
LEMMA AppendIs ==
  ASSUME NEW S, NEW s \in Seq(S), NEW x \in S
  PROVE  /\ Append(s, x) \in Seq(S) /\ Append(s, x) # << >> /\ Len(Append(s, x)) = Len(s) + 1 /\ Len(s) \in Nat
         /\ DOMAIN s = 1 .. Len(s) /\ DOMAIN Append(s, x) = 1 .. (Len(s) + 1)
         /\ Append(s, x)[Len(s) + 1] = x /\ \A i \in 1 .. Len(s) : Append(s, x)[i] = s[i]
OBVIOUS

(* Where a value is in a sequence, and where it is when one more is added.  *)
LEMMA PlacesGrow ==
  ASSUME NEW S, NEW s \in Seq(S), NEW x \in S
  PROVE  /\ \A i \in DOMAIN s : i \in Nat /\ i \in DOMAIN Append(s, x) /\ Append(s, x)[i] = s[i] /\ i < Len(s) + 1
         /\ Len(s) + 1 \in DOMAIN Append(s, x) /\ Append(s, x)[Len(s) + 1] = x
<1> PICK n, t : n = Len(s) /\ t = Append(s, x)
  OBVIOUS
<1>1. n \in Nat /\ DOMAIN s = 1 .. n /\ DOMAIN t = 1 .. (n + 1) /\ t[n + 1] = x /\ \A i \in 1 .. n : t[i] = s[i]
  BY AppendIs
<1>2. \A i \in 1 .. n : i \in 1 .. (n + 1) /\ i < n + 1 /\ i \in Nat
  BY <1>1
<1>3. n + 1 \in 1 .. (n + 1)
  BY <1>1
<1> QED BY <1>1, <1>2, <1>3

(* The last member is a member.                                            *)
LEMMA LastIs ==
  ASSUME NEW S, NEW s \in Seq(S), s # << >>
  PROVE  Last(s) \in Range(s) /\ Last(s) \in S
<1> PICK n : n = Len(s)
  OBVIOUS
<1>1. n \in 1 .. n /\ DOMAIN s = 1 .. n
  OBVIOUS
<1>2. Last(s) = s[n]
  BY DEF Last
<1> QED BY <1>1, <1>2 DEF Range

(* The members of a sequence of one, and of none.                          *)
LEMMA OneIs ==
  ASSUME NEW S, NEW x \in S
  PROVE  <<x>> \in Seq(S) /\ Range(<<x>>) = {x} /\ Len(<<x>>) = 1 /\ << >> \in Seq(S) /\ Range(<< >>) = {}
BY DEF Range

------------------------------------------------------------------------------
(***************************************************************************)
(* SharePointResource: the drive, the requests and their types.            *)
(***************************************************************************)
SpAct == SpNext \/ SpOthers
SpIds == SpItems \cup {Root}
SpPlaces == {Gone} \cup (SpIds \X STRING)
SpWhats == {"none", "item", "site", "drive", "drives", "folders", "files", "each_folder", "search",
            "download", "put", "session", "chunk", "last_chunk", "delete", "make_folder", "source",
            "move", "rename"}
SpReqs == [what : SpWhats, path : Seq(STRING), id : SpIds, then : SpWhats, last : Nat, here : Seq(Seq(STRING))]
(* What a call of an operation asks for.                                   *)
SpKind(op, k) ==
  \/ k \in {"site", "drive"}
  \/ (op = "list_drives" /\ k = "drives")
  \/ (op = "list_folders" /\ k = "folders")
  \/ (op \in {"list_files", "list_newly_created_files"} /\ k \in {"files", "folders", "each_folder"})
  \/ (op = "search_files" /\ k = "search")
  \/ (op = "download_file" /\ k = "download")
  \/ (op = "upload_file" /\ k \in {"put", "session", "chunk", "last_chunk"})
  \/ (op = "delete_file" /\ k = "delete")
  \/ (op = "create_folder" /\ k = "make_folder")
  \/ (op = "move_file" /\ k \in {"source", "move"})
  \/ (op = "rename_file" /\ k = "rename")
SpAllowed(r) ==
  /\ (SpKind(call.op, r.what) /\ r.what # "source") \/ (r.what = "item" /\ SpKind(call.op, r.then))
  /\ (call.op = "upload_file" /\ r.what \notin {"site", "drive"}) => r.path = call.path
SpDrive(r) ==
  /\ DOMAIN r = SpItems \cup {"token"} /\ \A x \in SpItems : r[x] \in SpPlaces
  /\ \A x, y \in SpItems : (r[x] = r[y] /\ r[x] # Gone) => x = y
SpKept(x) == remote[x] # Gone /\ <<x, remote[x]>> \in steady
SpTyped ==
  /\ call \in Calls /\ call.client = "sharepoint" /\ at \in {"request", "ended"}
  /\ SpDrive(remote)
  /\ call.op # "create_folder" => \A x \in SpSpares : remote[x] = Gone
  /\ \A s \in SUBSET SpItems : (s # {} /\ \A x \in s : SpKept(x)) => \E x \in s : remote[x][1] \notin s
  /\ left \in [todo : Seq(SpReqs), folders : Seq(Seq(STRING)), source : SpIds, target : SpIds]
  /\ \A r \in Range(left.todo) : SpAllowed(r)

(* What the assumption says of a call.                                     *)
LEMMA SpCalls ==
  ASSUME NEW c \in Calls, c.client = "sharepoint"
  PROVE  /\ c.op \in SpOps /\ c.known \in BOOLEAN /\ c.path \in Seq(STRING)
         /\ c.op \in SpListings => c.recursive \in BOOLEAN
         /\ c.op = "search_files" => c.limit \in Nat \ {0}
         /\ c.op \in {"upload_file", "move_file"} => c.path # << >>
         /\ c.op = "upload_file" => c.large \in BOOLEAN
         /\ c.op = "move_file" => c.to \in Seq(STRING)
         /\ c.op \in {"create_folder", "rename_file"} => c.names \in Seq(STRING) \ {<< >>}
BY SpAssumption

(* What every step of a SharePoint call leaves alone, and what it may      *)
(* count.                                                                  *)
LEMMA SpShape ==
  ASSUME Base, SpTyped, SpAct
  PROVE  Shape /\ call.client = "sharepoint"
<1> USE DEF Base, Goto, Return, Raise, NoTrouble, Miss, Trouble, troubles, Sending, CanSend
<1>1. CASE FetchToken
  <2>1. steady' = steady \cap Facts(remote')
    BY <1>1, ServiceKept, ServiceBecomes DEF FetchToken, Set
  <2> QED BY <1>1, <2>1 DEF FetchToken, Shape, Ending, Counted
<1>2. CASE Success
  <2>1. steady' = steady \cap Facts(remote')
    BY <1>2, ServiceBecomes DEF Success
  <2> QED BY <1>2, <2>1 DEF Success, Shape, Ending, Counted
<1>3. CASE Refused
  BY <1>3, ServiceKept DEF Refused, Shape, Ending, Counted
<1>4. CASE TooMany \/ ServerError \/ Broken
  <2>1. steady' = steady \cap Facts(remote')
    BY <1>4, ServiceKept, ServiceBecomes DEF TooMany, ServerError, Broken, Set
  <2> QED BY <1>4, <2>1 DEF TooMany, ServerError, Broken, Again, Shape, Ending, Counted
<1>5. CASE EachFolder \/ SpReturn
  BY <1>5, ServiceKept DEF EachFolder, SpReturn, Shape, Ending, Counted
<1>6. CASE SpOthers
  <2>1. PICK r : Others(r)
    BY <1>6 DEF SpOthers
  <2>2. steady' = steady \cap Facts(remote')
    BY <2>1, ServiceBecomes DEF Others
  <2> QED BY <1>6, <2>1, <2>2 DEF SpOthers, Others, Shape, Ending, Counted
<1> QED BY <1>1, <1>2, <1>3, <1>4, <1>5, <1>6 DEF SpAct, SpNext

(* What the assumption says of the items.                                  *)
LEMMA SpConstants ==
  /\ "token" \notin SpIds /\ Root \notin SpItems /\ Gone[1] \notin SpIds /\ IsFiniteSet(SpItems)
  /\ \A x \in SpFolders : x \in SpItems /\ x \notin SpFiles /\ x \notin SpSpares
  /\ \A x \in SpFiles : x \in SpItems /\ x \notin SpFolders /\ x \notin SpSpares
  /\ \A x \in SpSpares : x \in SpItems /\ x \notin SpFiles /\ x \notin SpFolders
  /\ \A x \in SpItems : x \in SpFolders \/ x \in SpFiles \/ x \in SpSpares
<1>1. IsFiniteSet(SpItems) /\ {Root, Gone[1], "token"} \cap SpItems = {}
      /\ SpFolders \cap SpFiles = {} /\ SpSpares \cap (SpFolders \cup SpFiles) = {}
  BY SpAssumption
<1>2. Root # "token" /\ Gone[1] # Root
  BY DEF Root, Gone
<1> QED BY <1>1, <1>2 DEF SpIds, SpItems

(* Where the service's order has an item, and the first of some.           *)
LEMMA SpPositions ==
  /\ \A x \in SpItems : Position(x) \in Nat \ {0} /\ SpOrder[Position(x)] = x /\ Position(x) \in 1 .. Len(SpOrder)
  /\ \A x, y \in SpItems : Position(x) = Position(y) => x = y
<1>1. SpOrder \in Seq(SpItems) /\ \A x \in SpItems : x \in Range(SpOrder)
  BY SpAssumption
<1>2. DOMAIN SpOrder = 1 .. Len(SpOrder) /\ Len(SpOrder) \in Nat
  BY <1>1, SeqMembers
<1>3. \A x \in SpItems : \E i \in DOMAIN SpOrder : SpOrder[i] = x
  BY <1>1 DEF Range
<1>4. \A x \in SpItems : Position(x) \in DOMAIN SpOrder /\ SpOrder[Position(x)] = x
  BY <1>3 DEF Position
<1> QED BY <1>2, <1>4

(* The first item of a page is the one that comes first.                   *)
LEMMA SpFirstIs ==
  ASSUME NEW items, items \subseteq SpItems, items # {}
  PROVE  FirstOf(items) \in items /\ \A y \in items : Position(FirstOf(items)) <= Position(y)
<1> DEFINE S == {Position(x) : x \in items}
<1>1. S \subseteq 1 .. Len(SpOrder) /\ S # {} /\ S \subseteq Int
  BY SpPositions
<1>2. IsFiniteSet(1 .. Len(SpOrder))
  <2>1. SpOrder \in Seq(SpItems)
    BY SpAssumption
  <2>2. Len(SpOrder) \in Int
    BY <2>1
  <2> QED BY <2>2, FS_Interval
<1>3. IsFiniteSet(S)
  BY <1>1, <1>2, FS_Subset
<1>4. PICK m \in S : \A n \in S : m <= n
  <2> HIDE DEF S
  <2> QED BY <1>1, <1>3, HasMin
<1>5. \E x \in items : \A y \in items : Position(x) <= Position(y)
  BY <1>4
<1> QED BY <1>5 DEF FirstOf

(* There is a next page unless this one was the last item.                 *)
LEMMA SpNextIs ==
  ASSUME SpTyped, left.todo # << >>, NEW items, items \subseteq SpItems
  PROVE  \/ NextPage(items) = << >> /\ items \subseteq {FirstOf(items)}
         \/ /\ items # {} /\ NextPage(items) = <<[Target EXCEPT !.last = Position(FirstOf(items))]>>
<1>1. CASE \A x, y \in items : x = y
  <2>1. items \subseteq {FirstOf(items)}
    <3>1. CASE items = {}
      BY <3>1
    <3>2. CASE items # {}
      <4>1. FirstOf(items) \in items
        BY <3>2, SpFirstIs
      <4> QED BY <1>1, <4>1
    <3> QED BY <3>1, <3>2
  <2> QED BY <1>1, <2>1 DEF NextPage
<1>2. CASE ~ \A x, y \in items : x = y
  BY <1>2 DEF NextPage
<1> QED BY <1>1, <1>2

(* The request at the head, and what is left of the others.                *)
LEMMA SpTarget ==
  ASSUME SpTyped, left.todo # << >>
  PROVE  /\ Target \in SpReqs /\ SpAllowed(Target) /\ Target \in Range(left.todo)
         /\ Tail(left.todo) \in Seq(SpReqs) /\ Range(left.todo) = {Target} \cup Range(Tail(left.todo))
         /\ \A r \in Range(Tail(left.todo)) : SpAllowed(r)
<1>1. left.todo \in Seq(SpReqs) /\ \A r \in Range(left.todo) : SpAllowed(r)
  BY DEF SpTyped
<1>2. Head(left.todo) \in SpReqs /\ Tail(left.todo) \in Seq(SpReqs)
      /\ Range(left.todo) = {Head(left.todo)} \cup Range(Tail(left.todo))
  BY <1>1, HeadTail
<1> QED BY <1>1, <1>2 DEF Target

(* A path without its last name, and what it leads to.                      *)
LEMMA SpFront ==
  ASSUME NEW path \in Seq(STRING), path # << >>
  PROVE  /\ Front(path) \in Seq(STRING) /\ Len(Front(path)) = Len(path) - 1 /\ Len(path) \in Nat \ {0}
         /\ Last(path) = path[Len(path)] /\ Last(path) \in STRING
         /\ \A i \in 1 .. (Len(path) - 1) : Front(path)[i] = path[i]
         /\ Append(Front(path), Last(path)) = path
<1>1. Len(path) \in Nat \ {0} /\ Last(path) = path[Len(path)] /\ Last(path) \in STRING
  BY DEF Last
<1>2. Front(path) = SubSeq(path, 1, Len(path) - 1)
  BY DEF Front
<1>3. /\ Front(path) \in Seq(STRING) /\ Len(Front(path)) = Len(path) - 1
      /\ \A i \in 1 .. (Len(path) - 1) : Front(path)[i] = path[i]
  <2> PICK m : m = Len(path) - 1
    OBVIOUS
  <2>1. m \in Int /\ 1 \in Int /\ m \in Nat /\ \A i \in 1 .. m : path[i] \in STRING
    BY <1>1
  <2>2. /\ SubSeq(path, 1, m) \in Seq(STRING) /\ Len(SubSeq(path, 1, m)) = (IF 1 <= m THEN m - 1 + 1 ELSE 0)
        /\ \A i \in 1 .. (m - 1 + 1) : SubSeq(path, 1, m)[i] = path[1 + i - 1]
    BY <2>1, SubSeqProperties
  <2>3. \A i \in 1 .. m : i \in 1 .. (m - 1 + 1) /\ 1 + i - 1 = i
    BY <2>1
  <2>4. (IF 1 <= m THEN m - 1 + 1 ELSE 0) = m
    BY <2>1
  <2> QED BY <1>2, <2>2, <2>3, <2>4
<1> PICK f, n, l : f = Front(path) /\ n = Len(path) /\ l = Last(path)
  OBVIOUS
<1>4. Append(f, l) = path
  <2>1. Append(f, l) \in Seq(STRING) /\ Len(Append(f, l)) = n /\ Append(f, l)[n] = l /\ \A i \in 1 .. (n - 1) : Append(f, l)[i] = f[i]
    BY <1>1, <1>3
  <2>2. \A i \in 1 .. n : Append(f, l)[i] = path[i]
    BY <1>1, <1>3, <2>1
  <2> QED BY <1>1, <2>1, <2>2
<1> QED BY <1>1, <1>3, <1>4

(* Where a path leads by the places r, of the service or after a step.      *)
SpChainsBy(r, path) ==
  {c \in [DOMAIN path -> SpItems] :
     \A i \in DOMAIN path : r[c[i]] = <<IF i = 1 THEN Root ELSE c[i - 1], path[i]>>}
SpResolvedBy(r, path) == IF path = << >> THEN {Root} ELSE {c[Len(path)] : c \in SpChainsBy(r, path)}
(* An item is on a path when it has the last name in an item on the rest.  *)
LEMMA SpAnyResolved ==
  ASSUME NEW places, NEW path \in Seq(STRING), path # << >>, NEW x
  PROVE  x \in SpResolvedBy(places, path) <=> x \in SpItems /\ \E z \in SpResolvedBy(places, Front(path)) : places[x] = <<z, Last(path)>>
<1> PICK f, n : f = Front(path) /\ n = Len(path)
  OBVIOUS
<1>1. /\ f \in Seq(STRING) /\ Len(f) = n - 1 /\ n \in Nat \ {0} /\ DOMAIN path = 1 .. n /\ DOMAIN f = 1 .. (n - 1)
      /\ Last(path) = path[n] /\ \A i \in 1 .. (n - 1) : f[i] = path[i]
  BY SpFront
<1>2. SpResolvedBy(places, path) = {c[n] : c \in SpChainsBy(places, path)}
  BY DEF SpResolvedBy
<1>3. ASSUME x \in SpResolvedBy(places, path) PROVE x \in SpItems /\ \E z \in SpResolvedBy(places, f) : places[x] = <<z, Last(path)>>
  <2>1. PICK c \in SpChainsBy(places, path) : x = c[n]
    BY <1>2, <1>3
  <2>2. c \in [1 .. n -> SpItems] /\ \A i \in 1 .. n : places[c[i]] = <<IF i = 1 THEN Root ELSE c[i - 1], path[i]>>
    BY <1>1, <2>1 DEF SpChainsBy
  <2>3. n \in 1 .. n
    BY <1>1
  <2>4. x \in SpItems /\ places[x] = <<IF n = 1 THEN Root ELSE c[n - 1], path[n]>>
    BY <2>1, <2>2, <2>3
  <2>5. CASE n = 1
    <3>1. f = << >>
      BY <1>1, <2>5
    <3>2. Root \in SpResolvedBy(places, f)
      BY <3>1 DEF SpResolvedBy
    <3> QED BY <1>1, <2>4, <2>5, <3>2
  <2>6. CASE n # 1
    <3> PICK b : b = [i \in 1 .. (n - 1) |-> c[i]]
      OBVIOUS
    <3>1. b \in [DOMAIN f -> SpItems] /\ \A i \in DOMAIN f : places[b[i]] = <<IF i = 1 THEN Root ELSE b[i - 1], f[i]>>
      <4>1. \A i \in 1 .. (n - 1) : i \in 1 .. n /\ (i # 1 => i - 1 \in 1 .. (n - 1))
        BY <1>1
      <4>2. b \in [DOMAIN f -> SpItems] /\ \A i \in 1 .. (n - 1) : b[i] = c[i]
        BY <1>1, <2>2, <4>1
      <4>3. \A i \in 1 .. (n - 1) : places[c[i]] = <<IF i = 1 THEN Root ELSE c[i - 1], f[i]>>
        BY <1>1, <2>2, <4>1
      <4>4. ASSUME NEW i \in 1 .. (n - 1) PROVE places[b[i]] = <<IF i = 1 THEN Root ELSE b[i - 1], f[i]>>
        <5>1. CASE i = 1
          BY <4>2, <4>3, <5>1
        <5>2. CASE i # 1
          <6>1. i - 1 \in 1 .. (n - 1) /\ b[i - 1] = c[i - 1] /\ b[i] = c[i]
            BY <4>1, <4>2, <5>2
          <6>2. places[c[i]] = <<c[i - 1], f[i]>>
            BY <4>3, <5>2
          <6> QED BY <5>2, <6>1, <6>2
        <5> QED BY <5>1, <5>2
      <4>5. DOMAIN f = 1 .. (n - 1)
        BY <1>1
      <4> QED BY <4>2, <4>4, <4>5
    <3>2. b \in SpChainsBy(places, f)
      BY <3>1 DEF SpChainsBy
    <3>3. n - 1 \in 1 .. (n - 1) /\ b[n - 1] = c[n - 1] /\ f # << >>
      BY <1>1, <2>6
    <3>4. SpResolvedBy(places, f) = {h[n - 1] : h \in SpChainsBy(places, f)}
      BY <1>1, <3>3 DEF SpResolvedBy
    <3>5. c[n - 1] \in SpResolvedBy(places, f)
      BY <3>2, <3>3, <3>4
    <3> QED BY <1>1, <2>4, <2>6, <3>5
  <2> QED BY <2>5, <2>6
<1>4. ASSUME x \in SpItems, NEW z \in SpResolvedBy(places, f), places[x] = <<z, Last(path)>> PROVE x \in SpResolvedBy(places, path)
  <2>1. ASSUME NEW c \in [1 .. n -> SpItems], c[n] = x,
               \A i \in 1 .. n : places[c[i]] = <<IF i = 1 THEN Root ELSE c[i - 1], path[i]>>
        PROVE  x \in SpResolvedBy(places, path)
    <3>1. c \in SpChainsBy(places, path)
      BY <1>1, <2>1 DEF SpChainsBy
    <3> QED BY <1>2, <2>1, <3>1
  <2>2. CASE n = 1
    <3>1. f = << >>
      BY <1>1, <2>2
    <3>2. z = Root
      BY <1>4, <3>1 DEF SpResolvedBy
    <3> DEFINE c == [i \in 1 .. n |-> x]
    <3>3. c \in [1 .. n -> SpItems] /\ c[n] = x /\ \A i \in 1 .. n : i = 1 /\ c[i] = x
      BY <1>1, <1>4, <2>2
    <3> HIDE DEF c
    <3>4. \A i \in 1 .. n : places[c[i]] = <<IF i = 1 THEN Root ELSE c[i - 1], path[i]>>
      BY <1>1, <1>4, <2>2, <3>2, <3>3
    <3> QED BY <2>1, <3>3, <3>4
  <2>3. CASE n # 1
    <3>1. f # << >>
      BY <1>1, <2>3
    <3>2. PICK b \in SpChainsBy(places, f) : z = b[n - 1]
      BY <1>1, <1>4, <3>1 DEF SpResolvedBy
    <3>3. b \in [1 .. (n - 1) -> SpItems] /\ \A i \in 1 .. (n - 1) : places[b[i]] = <<IF i = 1 THEN Root ELSE b[i - 1], f[i]>>
      BY <1>1, <3>2 DEF SpChainsBy
    <3> DEFINE c == [i \in 1 .. n |-> IF i = n THEN x ELSE b[i]]
    <3>4. \A i \in 1 .. n : i # n => i \in 1 .. (n - 1) /\ (i # 1 => i - 1 \in 1 .. (n - 1))
      BY <1>1
    <3>5. c \in [1 .. n -> SpItems] /\ n \in 1 .. n /\ c[n] = x /\ \A i \in 1 .. (n - 1) : c[i] = b[i]
      BY <1>1, <1>4, <3>3, <3>4
    <3> HIDE DEF c
    <3>6. n - 1 \in 1 .. (n - 1)
      BY <1>1, <2>3
    <3>7. ASSUME NEW i \in 1 .. n PROVE places[c[i]] = <<IF i = 1 THEN Root ELSE c[i - 1], path[i]>>
      <4>1. CASE i = n
        BY <1>1, <1>4, <2>3, <3>2, <3>5, <3>6, <4>1
      <4>2. CASE i # n
        <5>1. i \in 1 .. (n - 1) /\ (i # 1 => i - 1 \in 1 .. (n - 1))
          BY <3>4, <4>2
        <5>2. c[i] = b[i] /\ (i # 1 => c[i - 1] = b[i - 1]) /\ path[i] = f[i]
          BY <1>1, <3>5, <5>1
        <5> QED BY <3>3, <5>1, <5>2
      <4> QED BY <4>1, <4>2
    <3> QED BY <2>1, <3>5, <3>7
  <2> QED BY <2>2, <2>3
<1> QED BY <1>3, <1>4

(* The same, before and after a step.                                      *)
LEMMA SpResolved ==
  ASSUME NEW path \in Seq(STRING), path # << >>, NEW x
  PROVE  /\ x \in Resolved(path) <=> x \in SpItems /\ \E z \in Resolved(Front(path)) : remote[x] = <<z, Last(path)>>
         /\ x \in Resolved(path)' <=> x \in SpItems /\ \E z \in Resolved(Front(path))' : remote'[x] = <<z, Last(path)>>
<1>1. \A p : Resolved(p) = SpResolvedBy(remote, p) /\ Resolved(p)' = SpResolvedBy(remote', p)
  BY DEF Resolved, Chains, SpResolvedBy, SpChainsBy
<1> QED BY <1>1, SpAnyResolved

(* A path leads to an item or to the root.                                 *)
LEMMA SpLeads ==
  ASSUME NEW path \in Seq(STRING), NEW x \in Resolved(path)
  PROVE  x \in SpIds
BY SpResolved DEF SpIds, Resolved

(* A change of one item's place that keeps the drive one. *)
LEMMA SpPut ==
  ASSUME SpDrive(remote), NEW x \in SpItems, NEW place \in SpPlaces,
         place = Gone \/ ChildOf(place[1], place[2]) \subseteq {x}
  PROVE  /\ SpDrive(Put(x, place)) /\ Put(x, place)[x] = place
         /\ \A y \in DOMAIN remote : y # x => Put(x, place)[y] = remote[y]
<1> PICK r : r = Put(x, place)
  OBVIOUS
<1>1. /\ DOMAIN r = DOMAIN remote /\ DOMAIN remote = SpItems \cup {"token"} /\ r[x] = place
      /\ \A y \in DOMAIN remote : y # x => r[y] = remote[y]
  BY DEF Put, SpDrive
<1>2. \A y \in SpItems : r[y] \in SpPlaces
  BY <1>1 DEF SpDrive
<1>3. ASSUME NEW y \in SpItems, y # x, remote[y] = place PROVE place = Gone
  <2>1. CASE place = Gone
    BY <2>1
  <2>2. CASE place # Gone
    <3>1. place = <<place[1], place[2]>>
      BY <2>2 DEF SpPlaces
    <3>2. y \in ChildOf(place[1], place[2])
      BY <1>3, <3>1 DEF ChildOf
    <3> QED BY <1>3, <2>2, <3>2
  <2> QED BY <2>1, <2>2
<1>4. \A y, z \in SpItems : (r[y] = r[z] /\ r[y] # Gone) => y = z
  BY <1>1, <1>3 DEF SpDrive
<1> QED BY <1>1, <1>2, <1>4 DEF SpDrive

(* What the service does of each request.                                   *)
LEMMA SpCarriedIs ==
  /\ Target.what \in Reads => Carried = {remote}
  /\ Target.what = "item" => Carried = (IF Resolved(Target.path) = {} THEN {} ELSE {remote})
  /\ Target.what \in {"folders", "files", "download"} => Carried = (IF Held(Target.id) THEN {remote} ELSE {})
  /\ Target.what \in {"put", "last_chunk"} => Carried = Stored(Target.path)
  /\ Target.what = "delete" => Carried = Deleted(Target.id)
  /\ Target.what = "make_folder" => Carried = Made(Target.id)
  /\ Target.what = "move" => Carried = Moved(left.source, Target.id)
  /\ Target.what = "rename" => Carried = Renamed(Target.id, call.names[1])
<1> PICK w : w = Target.what
  OBVIOUS
<1>1. CASE w \in Reads
  <2>1. w \notin {"item", "folders", "files", "download", "put", "last_chunk", "delete", "make_folder", "move", "rename"}
    BY <1>1 DEF Reads
  <2> QED BY <1>1, <2>1 DEF Carried
<1>2. CASE w \notin Reads
  BY <1>2 DEF Carried
<1> QED BY <1>1, <1>2

(* Only its own operation sends a request that changes the drive.          *)
LEMMA SpKinds ==
  ASSUME SpTyped, left.todo # << >>
  PROVE  \/ Target.what \in Reads \cup {"item", "folders", "files", "download", "each_folder"}
         \/ Target.what \in {"put", "last_chunk"} /\ call.op = "upload_file"
         \/ Target.what = "delete" /\ call.op = "delete_file"
         \/ Target.what = "make_folder" /\ call.op = "create_folder"
         \/ Target.what = "move" /\ call.op = "move_file"
         \/ Target.what = "rename" /\ call.op = "rename_file"
BY SpTarget DEF SpAllowed, SpKind, Reads

(* One item at most changes its place, and none takes another's.            *)
SpChange(x, place) ==
  /\ place = Gone \/ ChildOf(place[1], place[2]) \subseteq {x}
  /\ x \in SpSpares => remote[x] # Gone \/ call.op = "create_folder"
(* A PATCH that is carried out puts an item in a free place.               *)
LEMMA SpPatchedIs ==
  ASSUME NEW x, NEW place, NEW r \in Patched(x, place)
  PROVE  /\ r = Put(x, place) /\ x \in SpItems /\ remote[x] # Gone
         /\ ChildOf(place[1], place[2]) \subseteq {x} /\ SpChange(x, place)
<1>1. r = Put(x, place) /\ x \in SpItems /\ Held(x) /\ ChildOf(place[1], place[2]) \subseteq {x}
  BY DEF Patched
<1>2. remote[x] # Gone
  BY <1>1, SpConstants DEF Held
<1> QED BY <1>1, <1>2 DEF SpChange

(* A request leaves the drive alone or puts one item in a place.           *)
LEMMA SpChanges ==
  ASSUME SpTyped, left.todo # << >>, ~Inner, NEW r \in Carried
  PROVE  \/ r = remote
         \/ \E x \in SpItems, place \in SpPlaces : r = Put(x, place) /\ SpChange(x, place)
<1> PICK t : t = Target
  OBVIOUS
<1>0. t \in SpReqs /\ t.id \in SpIds /\ t.path \in Seq(STRING)
  BY SpTarget DEF SpReqs
<1>c. call \in Calls /\ call.client = "sharepoint"
  BY DEF SpTyped
<1>1. CASE t.what \in Reads \cup {"item", "folders", "files", "download"}
  BY <1>1, SpCarriedIs
<1>2. CASE t.what \in {"put", "last_chunk"} /\ call.op = "upload_file"
  <2>1. PICK parent \in Resolved(Front(t.path)) :
          \/ r = remote
          \/ /\ ChildOf(parent, Last(t.path)) = {}
             /\ \E x \in SpFiles : r = Put(x, <<parent, Last(t.path)>>)
    <3>1. r \in Stored(t.path)
      BY <1>2, SpCarriedIs
    <3>2. PICK parent \in {x \in Resolved(Front(t.path)) : Folder(x)} :
            r \in (IF ChildOf(parent, Last(t.path)) = {}
                  THEN {Put(x, <<parent, Last(t.path)>>) : x \in {y \in SpFiles : remote[y] = Gone}}
                  ELSE {remote})
      BY <3>1, Zenon DEF Stored
    <3>3. CASE ChildOf(parent, Last(t.path)) = {}
      BY <3>2, <3>3
    <3>4. CASE ChildOf(parent, Last(t.path)) # {}
      BY <3>2, <3>4
    <3> QED BY <3>2, <3>3, <3>4
  <2>2. CASE t.path # << >>
    <3>1. parent \in SpIds /\ Last(t.path) \in STRING
      BY <1>0, <2>2, SpFront, SpLeads
    <3> PICK place : place = <<parent, Last(t.path)>>
      OBVIOUS
    <3>2. place \in SpPlaces /\ place[1] = parent /\ place[2] = Last(t.path)
      BY <3>1 DEF SpPlaces
    <3>3. ASSUME NEW x \in SpFiles, r = Put(x, place), ChildOf(parent, Last(t.path)) = {}
          PROVE  x \in SpItems /\ SpChange(x, place)
      BY <3>2, <3>3, SpConstants DEF SpChange
    <3> QED BY <2>1, <3>2, <3>3
  <2>3. t.path # << >>
    <3>1. t.path = call.path
      BY <1>2, SpTarget DEF SpAllowed
    <3> QED BY <1>2, <1>c, <3>1, SpCalls
  <2> QED BY <2>2, <2>3
<1>3. CASE t.what = "delete" /\ call.op = "delete_file"
  <2>1. t.id \in SpItems /\ Held(t.id) /\ r = Put(t.id, Gone)
    BY <1>3, SpCarriedIs DEF Deleted
  <2>2. remote[t.id] # Gone
    BY <2>1, SpConstants DEF Held
  <2> QED BY <2>1, <2>2 DEF SpChange, SpPlaces
<1>4. CASE t.what = "make_folder" /\ call.op = "create_folder"
  <2>1. PICK x \in SpSpares, n \in FreeNames(t.id) : r = Put(x, <<t.id, n>>)
    <3>1. r \in Made(t.id)
      BY <1>4, SpCarriedIs
    <3>2. Made(t.id) # {} => Folder(t.id)
      BY DEF Made
    <3>3. r \in UNION {{Put(x, <<t.id, n>>) : x \in {y \in SpSpares : remote[y] = Gone}} : n \in FreeNames(t.id)}
      BY <3>1, <3>2 DEF Made
    <3>4. PICK n \in FreeNames(t.id) : r \in {Put(x, <<t.id, n>>) : x \in {y \in SpSpares : remote[y] = Gone}}
      BY <3>3, Zenon
    <3> QED BY <3>4
  <2>2. n \in STRING /\ ChildOf(t.id, n) = {}
    <3>1. call.names \in Seq(STRING)
      BY <1>4, <1>c, SpCalls
    <3>2. PICK i \in DOMAIN call.names : n = call.names[i] /\ \A k \in 1 .. i : (ChildOf(t.id, call.names[k]) = {}) <=> k = i
      BY DEF FreeNames
    <3>3. i \in 1 .. i /\ call.names[i] \in STRING
      BY <3>1
    <3> QED BY <3>2, <3>3
  <2> PICK place : place = <<t.id, n>>
    OBVIOUS
  <2>3. place \in SpPlaces /\ place[1] = t.id /\ place[2] = n /\ x \in SpItems
    BY <1>0, <2>2, SpConstants DEF SpPlaces
  <2>4. SpChange(x, place)
    BY <1>4, <2>2, <2>3 DEF SpChange
  <2> QED BY <2>1, <2>3, <2>4
<1>5. CASE t.what = "move" /\ call.op = "move_file"
  <2>1. r \in Patched(left.source, <<t.id, Last(call.path)>>)
    BY <1>5, SpCarriedIs DEF Moved
  <2>2. Last(call.path) \in STRING
    BY <1>5, <1>c, SpCalls, SpFront
  <2>3. <<t.id, Last(call.path)>> \in SpPlaces
    BY <1>0, <2>2 DEF SpPlaces
  <2> QED BY <2>1, <2>3, SpPatchedIs
<1>6. CASE t.what = "rename" /\ call.op = "rename_file"
  <2>1. r \in Patched(t.id, <<remote[t.id][1], call.names[1]>>)
    BY <1>6, SpCarriedIs DEF Renamed
  <2>2. t.id \in SpItems /\ remote[t.id] # Gone
    BY <2>1, SpPatchedIs
  <2>3. remote[t.id][1] \in SpIds
    BY <2>2 DEF SpTyped, SpDrive, SpPlaces
  <2>4. call.names[1] \in STRING
    <3>1. call.names \in Seq(STRING) /\ call.names # << >>
      BY <1>6, <1>c, SpCalls
    <3> QED BY <3>1
  <2>5. <<remote[t.id][1], call.names[1]>> \in SpPlaces
    BY <2>3, <2>4 DEF SpPlaces
  <2> QED BY <2>1, <2>5, SpPatchedIs
<1> QED BY <1>1, <1>2, <1>3, <1>4, <1>5, <1>6, SpKinds DEF Inner

(* What stays in its place, and what a step does to the drive.              *)
LEMMA SpKeptOn ==
  ASSUME Base, Shape, NEW x, SpKept(x)'
  PROVE  SpKept(x) /\ remote'[x] = remote[x]
<1>1. <<x, remote'[x]>> \in steady' /\ remote'[x] # Gone
  BY DEF SpKept
<1>2. <<x, remote'[x]>> \in steady
  BY <1>1, ShapeBase
<1>3. remote'[x] = remote[x]
  BY <1>2, SteadyIs DEF Base
<1> QED BY <1>1, <1>2, <1>3 DEF SpKept

(* The token is no item.                                                   *)
LEMMA SpTokens ==
  ASSUME SpTyped, NEW v
  PROVE  /\ SpDrive([remote EXCEPT !["token"] = v])
         /\ \A x \in SpItems : [remote EXCEPT !["token"] = v][x] = remote[x]
<1> PICK r : r = [remote EXCEPT !["token"] = v]
  OBVIOUS
<1>1. DOMAIN r = DOMAIN remote /\ \A x \in DOMAIN remote : x # "token" => r[x] = remote[x]
  OBVIOUS
<1>2. \A x \in SpItems : x # "token" /\ x \in DOMAIN remote
  BY SpConstants DEF SpTyped, SpDrive, SpIds
<1>3. \A x \in SpItems : r[x] = remote[x]
  BY <1>1, <1>2
<1>4. SpDrive(r)
  BY <1>1, <1>3 DEF SpTyped, SpDrive
<1> QED BY <1>3, <1>4

(* A step leaves the drive alone, changes the token, or puts one item in a *)
(* place.                                                                  *)
LEMMA SpServes ==
  ASSUME Base, SpTyped, Shape, SpAct
  PROVE  \/ remote' = remote
         \/ \E v : remote' = [remote EXCEPT !["token"] = v]
         \/ \E x \in SpItems, place \in SpPlaces : remote' = Put(x, place) /\ SpChange(x, place)
<1>1. CASE FetchToken \/ Refused \/ EachFolder \/ SpReturn \/ TooMany
  BY <1>1 DEF FetchToken, Refused, EachFolder, SpReturn, TooMany, Set, Becomes, service
<1>2. CASE Success \/ ServerError \/ Broken
  <2>1. PICK r \in Carried \cup {remote} : remote' = r
    BY <1>2 DEF Success, ServerError, Broken, Becomes
  <2>2. left.todo # << >> /\ ~Inner
    BY <1>2 DEF Success, ServerError, Broken, CanSend, Sending
  <2> QED BY <2>1, <2>2, SpChanges
<1>3. CASE SpOthers
  <2>1. CASE Others([remote EXCEPT !["token"] = "none"])
    BY <2>1 DEF Others, Becomes
  <2>2. ASSUME NEW x \in SpFiles, Others(Put(x, Gone))
        PROVE  \E z \in SpItems, place \in SpPlaces : remote' = Put(z, place) /\ SpChange(z, place)
    <3>1. remote' = Put(x, Gone) /\ x \in SpItems /\ x \notin SpSpares /\ Gone \in SpPlaces
      BY <2>2, SpConstants DEF Others, Becomes, SpPlaces
    <3> QED BY <3>1 DEF SpChange
  <2>3. ASSUME NEW x \in SpFiles \cup SpFolders, NEW y \in SpFolders \cup {Root}, NEW name \in Names \ {"none"},
               ChildOf(y, name) = {}, Others(Put(x, <<y, name>>))
        PROVE  \E z \in SpItems, place \in SpPlaces : remote' = Put(z, place) /\ SpChange(z, place)
    <3>1. remote' = Put(x, <<y, name>>) /\ x \in SpItems /\ x \notin SpSpares /\ y \in SpIds
      BY <2>3, SpConstants DEF Others, Becomes, SpIds
    <3>2. PICK z \in SpItems : name = remote[z][2]
      BY <2>3 DEF Names
    <3>3. name \in STRING
      BY <3>2 DEF SpTyped, SpDrive, SpPlaces, Gone
    <3> PICK place : place = <<y, name>>
      OBVIOUS
    <3>4. place \in SpPlaces /\ place[1] = y /\ place[2] = name
      BY <3>1, <3>3 DEF SpPlaces
    <3>5. SpChange(x, place)
      BY <2>3, <3>1, <3>4 DEF SpChange
    <3> QED BY <3>1, <3>4, <3>5
  <2> QED BY <1>3, <2>1, <2>2, <2>3 DEF SpOthers
<1> QED BY <1>1, <1>2, <1>3 DEF SpAct, SpNext

(* The drive stays one: no two items in one place, and spares are made by  *)
(* create_folder alone.                                                    *)
LEMMA SpStaysDrive ==
  ASSUME Base, SpTyped, Shape, SpAct
  PROVE  SpDrive(remote') /\ (call.op # "create_folder" => \A x \in SpSpares : remote'[x] = Gone)
<1>1. CASE remote' = remote
  BY <1>1 DEF SpTyped
<1>2. ASSUME NEW v, remote' = [remote EXCEPT !["token"] = v]
      PROVE  SpDrive(remote') /\ (call.op # "create_folder" => \A x \in SpSpares : remote'[x] = Gone)
  BY <1>2, SpTokens, SpConstants DEF SpTyped
<1>3. ASSUME NEW x \in SpItems, NEW place \in SpPlaces, remote' = Put(x, place), SpChange(x, place)
      PROVE  SpDrive(remote') /\ (call.op # "create_folder" => \A y \in SpSpares : remote'[y] = Gone)
  <2>1. SpDrive(remote)
    BY DEF SpTyped
  <2>2. SpDrive(remote') /\ \A y \in DOMAIN remote : y # x => remote'[y] = remote[y]
    BY <1>3, <2>1, SpPut DEF SpChange
  <2>3. ASSUME call.op # "create_folder" PROVE \A y \in SpSpares : remote'[y] = Gone
    <3>1. x \notin SpSpares /\ \A y \in SpSpares : remote[y] = Gone /\ y \in DOMAIN remote
      BY <1>3, <2>3, SpConstants DEF SpChange, SpTyped, SpDrive
    <3> QED BY <2>2, <3>1
  <2> QED BY <2>2, <2>3
<1> QED BY <1>1, <1>2, <1>3, SpServes

(* Items that have been in their places all the while are not in a circle. *)
LEMMA SpStaysRooted ==
  ASSUME Base, SpTyped, Shape, NEW s \in SUBSET SpItems, s # {}, \A x \in s : SpKept(x)'
  PROVE  \E x \in s : remote'[x][1] \notin s
<1>1. \A x \in s : SpKept(x) /\ remote'[x] = remote[x]
  BY SpKeptOn
<1>2. PICK x \in s : remote[x][1] \notin s
  BY <1>1 DEF SpTyped
<1> QED BY <1>1, <1>2

(* What follows from an answer: requests instead of the first one.          *)
LEMMA SpRecords ==
  ASSUME SpTyped, NEW t
  PROVE  [left EXCEPT !.todo = t] = [todo |-> t, folders |-> left.folders, source |-> left.source, target |-> left.target]
<1>1. left \in [todo : Seq(SpReqs), folders : Seq(Seq(STRING)), source : SpIds, target : SpIds]
  BY DEF SpTyped
<1>2. left = [todo |-> left.todo, folders |-> left.folders, source |-> left.source, target |-> left.target]
  BY <1>1
<1> PICK a, b, c, d : a = left.todo /\ b = left.folders /\ c = left.source /\ d = left.target
  OBVIOUS
<1>3. left = [todo |-> a, folders |-> b, source |-> c, target |-> d]
  BY <1>2
<1>4. [[todo |-> a, folders |-> b, source |-> c, target |-> d] EXCEPT !.todo = t] = [todo |-> t, folders |-> b, source |-> c, target |-> d]
  OBVIOUS
<1> QED BY <1>3, <1>4

(* What a request consists of.                                             *)
LEMMA SpReqIs ==
  ASSUME NEW what \in SpWhats, NEW path \in Seq(STRING), NEW id \in SpIds, NEW th \in SpWhats, NEW n \in Nat,
         NEW h \in Seq(Seq(STRING))
  PROVE  [what |-> what, path |-> path, id |-> id, then |-> th, last |-> n, here |-> h] \in SpReqs
BY Zenon DEF SpReqs

(* What is in a folder is in a place of the drive.                         *)
LEMMA SpChildren ==
  ASSUME SpTyped, left.todo # << >>
  PROVE  /\ Children \subseteq SpItems
         /\ \A x \in Children : remote[x] # Gone /\ remote[x] \in SpIds \X STRING /\ remote[x][1] = Target.id /\ remote[x][2] \in STRING
<1>1. Target.id \in SpIds
  BY SpTarget DEF SpReqs
<1>2. ASSUME NEW x \in Children
      PROVE  x \in SpItems /\ remote[x] # Gone /\ remote[x] \in SpIds \X STRING /\ remote[x][1] = Target.id /\ remote[x][2] \in STRING
  <2>1. x \in SpItems /\ remote[x][1] = Target.id
    BY DEF Children
  <2>2. remote[x] # Gone
    BY <1>1, <2>1, SpConstants
  <2>3. remote[x] \in SpIds \X STRING
    BY <2>1, <2>2 DEF SpTyped, SpDrive, SpPlaces
  <2> QED BY <2>1, <2>2, <2>3
<1> QED BY <1>2

(* The folders a page finds are paths.                                     *)
LEMMA SpNewFolders ==
  ASSUME SpTyped, left.todo # << >>
  PROVE  NewFolders(Children) \in Seq(Seq(STRING))
<1>1. ASSUME Children # {} PROVE Append(Target.path, remote[FirstOf(Children)][2]) \in Seq(STRING)
  <2>1. FirstOf(Children) \in Children
    BY <1>1, SpChildren, SpFirstIs
  <2>2. remote[FirstOf(Children)][2] \in STRING /\ Target.path \in Seq(STRING)
    BY <2>1, SpChildren, SpTarget DEF SpReqs
  <2> QED BY <2>2
<1> PICK p : p = Append(Target.path, remote[FirstOf(Children)][2])
  OBVIOUS
<1>2. NewFolders(Children) = << >> \/ (Children # {} /\ NewFolders(Children) = <<p>>)
  BY DEF NewFolders
<1>3. \A S : << >> \in Seq(S) /\ \A q \in S : <<q>> \in Seq(S)
  OBVIOUS
<1> QED BY <1>1, <1>2, <1>3, Zenon

(* A request that starts at the first page.                                *)
LEMMA SpStart ==
  ASSUME NEW what \in SpWhats, NEW path \in Seq(STRING), NEW th \in SpWhats, NEW id \in SpIds
  PROVE  [what |-> what, path |-> path, id |-> id, then |-> th, last |-> 0, here |-> << >>] \in SpReqs
<1>1. \A S : << >> \in Seq(S)
  OBVIOUS
<1>2. 0 \in Nat
  OBVIOUS
<1>3. << >> \in Seq(Seq(STRING))
  BY <1>1, Zenon
<1> QED BY <1>2, <1>3, SpReqIs, Zenon

(* The requests that name a path, and those that look it up first.         *)
LEMMA SpReqOf ==
  ASSUME NEW what \in SpWhats, NEW path \in Seq(STRING)
  PROVE  /\ Req(what, path) \in SpReqs /\ Req(what, path).what = what /\ Req(what, path).path = path
         /\ Find(what, path) \in SpReqs /\ Find(what, path).what = "item" /\ Find(what, path).then = what
         /\ Find(what, path).path = path
<1>1. "item" \in SpWhats /\ "none" \in SpWhats /\ Root \in SpIds
  BY DEF SpIds, SpWhats
<1>2. Req(what, path) = [what |-> what, path |-> path, id |-> Root, then |-> "none", last |-> 0, here |-> << >>]
  BY DEF Req
<1>3. Find(what, path) = [what |-> "item", path |-> path, id |-> Root, then |-> what, last |-> 0, here |-> << >>]
  BY DEF Find, Req
<1>4. Req(what, path) \in SpReqs
  BY <1>1, <1>2, SpStart, Zenon
<1>5. Find(what, path) \in SpReqs
  BY <1>1, <1>3, SpStart, Zenon
<1> QED BY <1>2, <1>3, <1>4, <1>5

(* A request for a path, looked up unless it is the root, is one that the  *)
(* call may send.                                                          *)
LEMMA SpLookups ==
  ASSUME NEW what \in SpWhats, NEW path \in Seq(STRING), SpKind(call.op, what), what # "source", call.op # "upload_file"
  PROVE  Lookup(what, path) \in SpReqs /\ SpAllowed(Lookup(what, path))
<1>1. Lookup(what, path) = Req(what, path) \/ Lookup(what, path) = Find(what, path)
  BY DEF Lookup
<1> QED BY <1>1, SpReqOf DEF SpAllowed

(* So are the requests that go into the folders found.                     *)
LEMMA SpIntos ==
  ASSUME NEW here \in Seq(Seq(STRING)), SpKind(call.op, "folders"), call.op # "upload_file"
  PROVE  Into(here) \in Seq(SpReqs) /\ \A r \in Range(Into(here)) : SpAllowed(r)
<1>1. CASE call.recursive
  <2> PICK n, s : n = Len(here) /\ s = Into(here)
    OBVIOUS
  <2>1. n \in Nat /\ DOMAIN here = 1 .. n /\ \A i \in 1 .. n : here[i] \in Seq(STRING)
    BY SeqMembers
  <2>2. s = [i \in 1 .. n |-> Lookup("folders", here[i])]
    BY <1>1, <2>1 DEF Into
  <2>3. \A i \in 1 .. n : Lookup("folders", here[i]) \in SpReqs /\ SpAllowed(Lookup("folders", here[i]))
    <3>0. "folders" \in SpWhats /\ "folders" # "source"
      BY DEF SpWhats
    <3>1. \A path \in Seq(STRING) : Lookup("folders", path) \in SpReqs /\ SpAllowed(Lookup("folders", path))
      BY <3>0, SpLookups
    <3> QED BY <2>1, <3>1
  <2> QED BY <2>1, <2>2, <2>3 DEF Range
<1>2. CASE ~call.recursive
  BY <1>2 DEF Into, Range
<1> QED BY <1>1, <1>2

(* One request that the call may send.                                     *)
LEMMA SpOnes ==
  ASSUME NEW r \in SpReqs, SpAllowed(r)
  PROVE  <<r>> \in Seq(SpReqs) /\ \A q \in Range(<<r>>) : SpAllowed(q)
BY DEF Range

(* The next page is a request that the call may send.                      *)
LEMMA SpPages ==
  ASSUME SpTyped, left.todo # << >>, NEW items, items \subseteq SpItems
  PROVE  NextPage(items) \in Seq(SpReqs) /\ \A r \in Range(NextPage(items)) : SpAllowed(r)
<1>1. CASE NextPage(items) = << >>
  BY <1>1 DEF Range
<1>2. CASE items # {} /\ NextPage(items) = <<[Target EXCEPT !.last = Position(FirstOf(items))]>>
  <2>1. Position(FirstOf(items)) \in Nat
    BY <1>2, SpFirstIs, SpPositions
  <2>2. Target \in SpReqs /\ SpAllowed(Target)
    BY SpTarget
  <2>3. ASSUME NEW m \in Nat, NEW t \in SpReqs, SpAllowed(t)
        PROVE  [t EXCEPT !.last = m] \in SpReqs /\ SpAllowed([t EXCEPT !.last = m])
    BY <2>3 DEF SpReqs, SpAllowed
  <2> QED BY <1>2, <2>1, <2>2, <2>3, SpOnes
<1> QED BY <1>1, <1>2, SpNextIs

SpLefts == [todo : Seq(SpReqs), folders : Seq(Seq(STRING)), source : SpIds, target : SpIds]
SpFits(new) == new \in Seq(SpReqs) /\ \A r \in Range(new) : SpAllowed(r)

(* A sequence of two.                                                      *)
LEMMA PairIs ==
  ASSUME NEW S, NEW u \in S, NEW v \in S
  PROVE  <<u, v>> \in Seq(S) /\ Range(<<u, v>>) = {u, v}
<1>1. DOMAIN <<u, v>> = {1, 2} /\ <<u, v>>[1] = u /\ <<u, v>>[2] = v
  OBVIOUS
<1>2. Range(<<u, v>>) = {u, v}
  BY <1>1 DEF Range
<1>3. <<u, v>> \in Seq(S)
  OBVIOUS
<1> QED BY <1>2, <1>3

(* No requests are requests that the call may send.                        *)
LEMMA SpEmptyFits ==
  SpFits(<< >>)
BY DEF SpFits, Range

(* Requests the call may send, and more of them.                           *)
LEMMA SpFitsBoth ==
  ASSUME NEW u, NEW v, SpFits(u), SpFits(v)
  PROVE  SpFits(u \o v)
<1>1. u \in Seq(SpReqs) /\ v \in Seq(SpReqs)
  BY DEF SpFits
<1>2. u \o v \in Seq(SpReqs) /\ Range(u \o v) = Range(u) \cup Range(v)
  BY <1>1, ConcatIs
<1> QED BY <1>2, Zenon DEF SpFits

(* Two requests the call may send.                                         *)
LEMMA SpFitsPair ==
  ASSUME NEW a \in SpReqs, NEW b \in SpReqs, SpAllowed(a), SpAllowed(b)
  PROVE  SpFits(<<a, b>>)
<1>1. <<a, b>> \in Seq(SpReqs) /\ Range(<<a, b>>) = {a, b}
  BY PairIs
<1> QED BY <1>1, Zenon DEF SpFits

(* What is left of a call.                                                 *)
LEMMA SpLeftIs ==
  ASSUME NEW a \in Seq(SpReqs), NEW f \in Seq(Seq(STRING)), NEW s \in SpIds, NEW t \in SpIds
  PROVE  [todo |-> a, folders |-> f, source |-> s, target |-> t] \in SpLefts
BY Zenon DEF SpLefts

(* Requests that replace the head of those that are left.                  *)
LEMMA SpFollows ==
  ASSUME SpTyped, left.todo # << >>, NEW new, SpFits(new), NEW found \in Seq(Seq(STRING)), NEW s \in SpIds, NEW t \in SpIds,
         left' = [todo |-> new \o Tail(left.todo), folders |-> left.folders \o found, source |-> s, target |-> t]
  PROVE  left' \in SpLefts /\ \A r \in Range(left'.todo) : SpAllowed(r)
<1>1. left \in SpLefts
  BY DEF SpTyped, SpLefts
<1>2. Tail(left.todo) \in Seq(SpReqs) /\ \A r \in Range(Tail(left.todo)) : SpAllowed(r)
  BY SpTarget
<1> PICK a : a = Tail(left.todo)
  OBVIOUS
<1> PICK b : b = new \o a
  OBVIOUS
<1>3. SpFits(b)
  <2>1. SpFits(a)
    BY <1>2 DEF SpFits
  <2> QED BY <2>1, SpFitsBoth
<1>4. b \in Seq(SpReqs) /\ \A r \in Range(b) : SpAllowed(r)
  BY <1>3 DEF SpFits
<1>5. left.folders \o found \in Seq(Seq(STRING))
  <2>1. left.folders \in Seq(Seq(STRING))
    BY <1>1 DEF SpLefts
  <2>2. \A S : \A u, v \in Seq(S) : u \o v \in Seq(S)
    OBVIOUS
  <2> QED BY <2>1, <2>2, Zenon
<1> PICK f : f = left.folders \o found
  OBVIOUS
<1>6. left' = [todo |-> b, folders |-> f, source |-> s, target |-> t]
  OBVIOUS
<1>7. left' \in SpLefts
  BY <1>4, <1>5, <1>6, SpLeftIs
<1>8. left'.todo = b
  BY <1>6
<1> QED BY <1>4, <1>7, <1>8

(* What Follow leaves of a call.                                           *)
LEMMA SpFollowed ==
  ASSUME SpTyped, left.todo # << >>, NEW new, Follow(new)
  PROVE  /\ left' = [todo |-> new \o Tail(left.todo), folders |-> left.folders \o << >>, source |-> left.source, target |-> left.target]
         /\ left.source \in SpIds /\ left.target \in SpIds /\ << >> \in Seq(Seq(STRING))
<1>1. left \in SpLefts
  BY DEF SpTyped, SpLefts
<1>2. left.folders \in Seq(Seq(STRING)) /\ left.source \in SpIds /\ left.target \in SpIds
  BY <1>1 DEF SpLefts
<1>3. \A S : << >> \in Seq(S) /\ \A u \in Seq(S) : u \o << >> = u
  OBVIOUS
<1>4. left.folders \o << >> = left.folders /\ << >> \in Seq(Seq(STRING))
  BY <1>2, <1>3, Zenon
<1>5. left' = [left EXCEPT !.todo = new \o Tail(left.todo)]
  BY DEF Follow
<1>6. left' = [todo |-> new \o Tail(left.todo), folders |-> left.folders, source |-> left.source, target |-> left.target]
  BY <1>5, SpRecords
<1> QED BY <1>2, <1>4, <1>6

(* Follow keeps the types.                                                 *)
LEMMA SpFollowFits ==
  ASSUME SpTyped, left.todo # << >>, NEW new, SpFits(new), Follow(new)
  PROVE  left' \in SpLefts /\ \A r \in Range(left'.todo) : SpAllowed(r)
BY SpFollowed, SpFollows

(* A record of six fields.                                                 *)
LEMMA SixFields ==
  ASSUME NEW A, NEW B, NEW C, NEW D, NEW E, NEW F, NEW q \in [what : A, path : B, id : C, then : D, last : E, here : F]
  PROVE  /\ q.what \in A /\ q.path \in B /\ q.id \in C /\ q.then \in D /\ q.last \in E /\ q.here \in F
         /\ q = [what |-> q.what, path |-> q.path, id |-> q.id, then |-> q.then, last |-> q.last, here |-> q.here]
OBVIOUS

(* A record of six fields with another sixth.                              *)
LEMMA SixExcept ==
  ASSUME NEW a, NEW b, NEW c, NEW d, NEW e, NEW f, NEW g, NEW p,
         p = [what |-> a, path |-> b, id |-> c, then |-> d, last |-> e, here |-> f]
  PROVE  [p EXCEPT !.here = g] = [what |-> a, path |-> b, id |-> c, then |-> d, last |-> e, here |-> g]
OBVIOUS

(* A request with other folders in its hands.                              *)
LEMMA SpHereIs ==
  ASSUME NEW p \in SpReqs, NEW g
  PROVE  /\ [p EXCEPT !.here = g] = [what |-> p.what, path |-> p.path, id |-> p.id, then |-> p.then, last |-> p.last, here |-> g]
         /\ p.what \in SpWhats /\ p.path \in Seq(STRING) /\ p.id \in SpIds /\ p.then \in SpWhats /\ p.last \in Nat
<1>1. p \in [what : SpWhats, path : Seq(STRING), id : SpIds, then : SpWhats, last : Nat, here : Seq(Seq(STRING))]
  BY DEF SpReqs
<1>2. /\ p.what \in SpWhats /\ p.path \in Seq(STRING) /\ p.id \in SpIds /\ p.then \in SpWhats /\ p.last \in Nat
      /\ p = [what |-> p.what, path |-> p.path, id |-> p.id, then |-> p.then, last |-> p.last, here |-> p.here]
  BY <1>1, SixFields, Zenon
<1> PICK a, b, c, d, e, f : a = p.what /\ b = p.path /\ c = p.id /\ d = p.then /\ e = p.last /\ f = p.here
  OBVIOUS
<1>3. p = [what |-> a, path |-> b, id |-> c, then |-> d, last |-> e, here |-> f]
  BY <1>2, Zenon
<1>4. [p EXCEPT !.here = g] = [what |-> a, path |-> b, id |-> c, then |-> d, last |-> e, here |-> g]
  BY <1>3, SixExcept
<1> QED BY <1>2, <1>4, Zenon

(* It is one that the call may send.                                       *)
LEMMA SpHereFits ==
  ASSUME NEW p \in SpReqs, NEW g \in Seq(Seq(STRING)), SpAllowed(p)
  PROVE  SpFits(<<[p EXCEPT !.here = g]>>)
<1>1. PICK q : q = [p EXCEPT !.here = g]
  OBVIOUS
<1>2. q = [what |-> p.what, path |-> p.path, id |-> p.id, then |-> p.then, last |-> p.last, here |-> g]
  BY <1>1, SpHereIs
<1>3. p.what \in SpWhats /\ p.path \in Seq(STRING) /\ p.id \in SpIds /\ p.then \in SpWhats /\ p.last \in Nat
  BY SpHereIs
<1>4. [what |-> p.what, path |-> p.path, id |-> p.id, then |-> p.then, last |-> p.last, here |-> g] \in SpReqs
  BY <1>3, SpReqIs, Zenon
<1>5. q \in SpReqs /\ q.what = p.what /\ q.then = p.then /\ q.path = p.path
  BY <1>2, <1>4
<1>6. SpAllowed(q)
  BY <1>5 DEF SpAllowed
<1>7. SpFits(<<q>>)
  BY <1>5, <1>6, SpOnes DEF SpFits
<1> QED BY <1>1, <1>7

(* A page of folders keeps the types.                                      *)
LEMMA SpFoldersPageFits ==
  ASSUME SpTyped, left.todo # << >>, FoldersPage
  PROVE  left' \in SpLefts /\ \A r \in Range(left'.todo) : SpAllowed(r)
<1> PICK h, m, n : h = Target.here \o NewFolders(Children) /\ m = NextPage(Children) /\ n = NewFolders(Children)
  OBVIOUS
<1>1. left' = [todo |-> (IF m = << >> THEN Into(h) ELSE <<[m[1] EXCEPT !.here = h]>>) \o Tail(left.todo),
               folders |-> left.folders \o n, source |-> left.source, target |-> left.target]
  BY DEF FoldersPage
<1>2. n \in Seq(Seq(STRING))
  BY SpNewFolders
<1>3. Target \in SpReqs /\ SpAllowed(Target) /\ Target.what = "folders"
  BY SpTarget DEF FoldersPage
<1>4. h \in Seq(Seq(STRING))
  <2>1. Target.here \in Seq(Seq(STRING))
    BY <1>3 DEF SpReqs
  <2>2. \A S : \A u, v \in Seq(S) : u \o v \in Seq(S)
    OBVIOUS
  <2> QED BY <1>2, <2>1, <2>2, Zenon
<1>5. left.source \in SpIds /\ left.target \in SpIds
  BY DEF SpTyped
<1>6. SpKind(call.op, "folders") /\ call.op # "upload_file"
  BY <1>3 DEF SpAllowed, SpKind
<1>7. CASE m = << >>
  <2>1. SpFits(Into(h))
    BY <1>4, <1>6, SpIntos DEF SpFits
  <2> QED BY <1>1, <1>2, <1>5, <1>7, <2>1, SpFollows
<1>8. CASE m # << >>
  <2>1. Children \subseteq SpItems
    BY SpChildren
  <2>2. m \in Seq(SpReqs) /\ \A r \in Range(m) : SpAllowed(r)
    BY <2>1, SpPages
  <2>3. m[1] \in SpReqs /\ SpAllowed(m[1])
    BY <1>8, <2>2 DEF Range
  <2>4. SpFits(<<[m[1] EXCEPT !.here = h]>>)
    BY <1>4, <2>3, SpHereFits
  <2> QED BY <1>1, <1>2, <1>5, <1>8, <2>4, SpFollows
<1> QED BY <1>7, <1>8

(* A path looked up keeps the types.                                       *)
LEMMA SpItemFits ==
  ASSUME SpTyped, left.todo # << >>, Item
  PROVE  left' \in SpLefts /\ \A r \in Range(left'.todo) : SpAllowed(r)
<1>1. PICK x \in Resolved(Target.path) :
       left' = [todo |-> (IF Target.then = "source" THEN << >>
                          ELSE <<For(Req(Target.then, Target.path), x)>>) \o Tail(left.todo),
                folders |-> left.folders,
                source |-> IF Target.then = "move" THEN left.source ELSE x, target |-> x]
  BY DEF Item
<1>2. Target \in SpReqs /\ SpAllowed(Target) /\ Target.what = "item"
  BY SpTarget DEF Item
<1>3. Target.path \in Seq(STRING) /\ Target.then \in SpWhats
  BY <1>2 DEF SpReqs
<1>4. x \in SpIds
  BY <1>3, SpLeads
<1>5. left.source \in SpIds /\ left.folders \in Seq(Seq(STRING))
  BY DEF SpTyped
<1>6. (IF Target.then = "move" THEN left.source ELSE x) \in SpIds
  BY <1>4, <1>5
<1>7. \A S : << >> \in Seq(S) /\ \A u \in Seq(S) : u \o << >> = u
  OBVIOUS
<1>8. left.folders \o << >> = left.folders /\ << >> \in Seq(Seq(STRING))
  BY <1>5, <1>7, Zenon
<1>9. CASE Target.then = "source"
  BY <1>1, <1>4, <1>6, <1>8, <1>9, SpEmptyFits, SpFollows
<1>10. CASE Target.then # "source"
  <2> PICK w, p : w = Target.then /\ p = Target.path
    OBVIOUS
  <2>1. For(Req(w, p), x) = [what |-> w, path |-> p, id |-> x, then |-> "none", last |-> 0, here |-> << >>]
    BY DEF For, Req
  <2>2. "none" \in SpWhats
    BY DEF SpWhats
  <2>3. For(Req(w, p), x) \in SpReqs
    BY <1>3, <1>4, <2>1, <2>2, SpStart, Zenon
  <2>4. For(Req(w, p), x).what = w /\ For(Req(w, p), x).path = p
    BY <2>1
  <2>5. SpAllowed(For(Req(w, p), x))
    BY <1>2, <1>10, <2>4 DEF SpAllowed, SpKind
  <2>6. SpFits(<<For(Req(w, p), x)>>)
    BY <2>3, <2>5, SpOnes DEF SpFits
  <2> QED BY <1>1, <1>4, <1>6, <1>8, <1>10, <2>6, SpFollows
<1> QED BY <1>9, <1>10

(* Every answer keeps the types.                                           *)
LEMMA SpSuccessFits ==
  ASSUME SpTyped, Success
  PROVE  left' \in SpLefts /\ \A r \in Range(left'.todo) : SpAllowed(r)
<1>1. left.todo # << >>
  BY DEF Success, CanSend, Sending
<1>2. Target \in SpReqs /\ SpAllowed(Target)
  BY <1>1, SpTarget
<1>3. CASE FoldersPage
  BY <1>1, <1>3, SpFoldersPageFits
<1>4. CASE Item
  BY <1>1, <1>4, SpItemFits
<1>5. CASE FilesPage \/ SearchPage
  <2>1. PICK items \in SUBSET SpItems : Listing(items)
    <3>1. Children \subseteq SpItems /\ \A x \in SpFiles : x \in SpItems
      BY <1>1, SpChildren, SpConstants
    <3> QED BY <1>5, <3>1 DEF FilesPage, SearchPage
  <2>2. Follow(<< >>) \/ Follow(NextPage(items))
    BY <2>1 DEF Listing
  <2>3. SpFits(NextPage(items))
    BY <1>1, SpPages DEF SpFits
  <2> QED BY <1>1, <2>2, <2>3, SpEmptyFits, SpFollowFits
<1>6. CASE Finish
  BY <1>1, <1>6, SpEmptyFits, SpFollowFits DEF Finish, Proceed
<1>7. CASE Session
  <2>1. Follow(<<Req("chunk", Target.path), Req("last_chunk", Target.path)>>) /\ Target.what = "session"
    BY <1>7 DEF Session
  <2> PICK p, a, b : p = Target.path /\ a = Req("chunk", p) /\ b = Req("last_chunk", p)
    OBVIOUS
  <2>2. p \in Seq(STRING) /\ "chunk" \in SpWhats /\ "last_chunk" \in SpWhats
    BY <1>2 DEF SpReqs, SpWhats
  <2>3. a \in SpReqs /\ b \in SpReqs /\ a.what = "chunk" /\ b.what = "last_chunk" /\ a.path = p /\ b.path = p
    BY <2>2, SpReqOf
  <2>4. call.op = "upload_file" /\ p = call.path
    BY <1>2, <2>1 DEF SpAllowed, SpKind
  <2>5. SpAllowed(a) /\ SpAllowed(b)
    BY <2>3, <2>4 DEF SpAllowed, SpKind
  <2>6. SpFits(<<a, b>>)
    BY <2>3, <2>5, SpFitsPair
  <2> QED BY <1>1, <2>1, <2>6, SpFollowFits
<1> QED BY <1>3, <1>4, <1>5, <1>6, <1>7 DEF Success

(* Going on to the files of each folder keeps the types.                   *)
LEMMA SpEachFits ==
  ASSUME SpTyped, EachFolder
  PROVE  left' \in SpLefts /\ \A r \in Range(left'.todo) : SpAllowed(r)
<1>1. left.todo # << >> /\ Target.what = "each_folder"
  BY DEF EachFolder, Sending, Inner
<1>2. SpAllowed(Target)
  BY <1>1, SpTarget
<1>3. SpKind(call.op, "files") /\ call.op # "upload_file" /\ "files" # "source" /\ "files" \in SpWhats
  BY <1>1, <1>2 DEF SpAllowed, SpKind, SpWhats
<1> PICK f, s : f = left.folders /\ s = [i \in DOMAIN left.folders |-> Lookup("files", left.folders[i])]
  OBVIOUS
<1>4. f \in Seq(Seq(STRING))
  BY DEF SpTyped
<1> PICK n : n = Len(f)
  OBVIOUS
<1>5. n \in Nat /\ DOMAIN f = 1 .. n /\ \A i \in 1 .. n : f[i] \in Seq(STRING)
  BY <1>4, SeqMembers
<1>6. s = [i \in 1 .. n |-> Lookup("files", f[i])]
  BY <1>5
<1>7. \A path \in Seq(STRING) : Lookup("files", path) \in SpReqs /\ SpAllowed(Lookup("files", path))
  BY <1>3, SpLookups
<1>8. SpFits(s)
  BY <1>5, <1>6, <1>7 DEF SpFits, Range
<1>9. Follow(s)
  BY DEF EachFolder
<1> QED BY <1>1, <1>8, <1>9, SpFollowFits

(* Every other step leaves the requests and, but for a return, the answer.  *)
LEMMA SpQuiet ==
  ASSUME SpAct, ~Success, ~EachFolder
  PROVE  /\ left' = left
         /\ answer' = answer \/ (SpReturn /\ call.op = "list_folders" /\ answer' = left.folders)
<1>1. CASE FetchToken \/ Refused \/ TooMany \/ ServerError \/ Broken
  BY <1>1 DEF FetchToken, Refused, TooMany, ServerError, Broken, Again, Goto, Raise
<1>2. CASE SpReturn
  BY <1>2 DEF SpReturn, Return
<1>3. CASE SpOthers
  <2>1. PICK r : Others(r)
    BY <1>3 DEF SpOthers
  <2> QED BY <2>1 DEF Others
<1> QED BY <1>1, <1>2, <1>3 DEF SpAct, SpNext

(* Every step keeps the types.                                             *)
LEMMA SpTypedStep ==
  ASSUME Base, SpTyped, SpAct
  PROVE  SpTyped'
<1>1. Shape /\ call.client = "sharepoint"
  BY SpShape
<1>2. call' = call
  BY <1>1 DEF Shape
<1>3. at' \in {"request", "ended"}
  <2>1. CASE at' = at
    BY <2>1 DEF SpTyped
  <2>2. CASE told' = "none" /\ at' # "ended"
    <3>1. CASE SpNext
      BY <2>2, <3>1 DEF SpNext, FetchToken, Success, Refused, TooMany, ServerError, Broken, EachFolder, SpReturn, Again,
           Goto, Raise, Return, Sending, CanSend, SpTyped
    <3>2. CASE SpOthers
      <4>1. PICK r : Others(r)
        BY <3>2 DEF SpOthers
      <4> QED BY <4>1 DEF Others, SpTyped
    <3> QED BY <3>1, <3>2 DEF SpAct
  <2> QED BY <1>1, <2>1, <2>2 DEF Shape
<1>4. SpDrive(remote') /\ (call.op # "create_folder" => \A x \in SpSpares : remote'[x] = Gone)
  BY <1>1, SpStaysDrive
<1>5. SpDrive(remote)'
  BY <1>4 DEF SpDrive
<1>6. \A s \in SUBSET SpItems : (s # {} /\ \A x \in s : SpKept(x)') => \E x \in s : remote'[x][1] \notin s
  BY <1>1, SpStaysRooted
<1>7. left' \in SpLefts /\ \A r \in Range(left'.todo) : SpAllowed(r)
  <2>1. CASE Success
    BY <2>1, SpSuccessFits
  <2>2. CASE EachFolder
    BY <2>2, SpEachFits
  <2>3. CASE ~Success /\ ~EachFolder
    <3>1. left' = left
      BY <2>3, SpQuiet
    <3> QED BY <3>1 DEF SpTyped, SpLefts
  <2> QED BY <2>1, <2>2, <2>3
<1>8. \A r \in Range(left.todo)' : SpAllowed(r)'
  BY <1>2, <1>7 DEF SpAllowed, Range
<1> QED BY <1>1, <1>2, <1>3, <1>4, <1>5, <1>6, <1>7, <1>8 DEF SpTyped, SpLefts

------------------------------------------------------------------------------
(***************************************************************************)
(* SharePointResource: what each operation has done when nothing is left   *)
(* to do.                                                                  *)
(***************************************************************************)
(* Sequences of one length with the same members are the same.             *)
LEMMA SameSeq ==
  ASSUME NEW S, NEW a \in Seq(S), NEW b \in Seq(S), Len(a) = Len(b), \A i \in 1 .. Len(b) : a[i] = b[i]
  PROVE  a = b
OBVIOUS
(* One before others.                                                      *)
LEMMA OneThen ==
  ASSUME NEW S, NEW x, NEW r \in Seq(S), NEW o \in Seq(S), o = <<x>>, x \in S
  PROVE  /\ o \o r \in Seq(S) /\ Len(o \o r) = 1 + Len(r) /\ Len(r) \in Nat
         /\ (o \o r)[1] = x /\ \A i \in 1 .. Len(r) : (o \o r)[1 + i] = r[i]
<1>1. Len(o) = 1 /\ o[1] = x /\ 1 \in 1 .. Len(o)
  OBVIOUS
<1>2. /\ o \o r \in Seq(S) /\ Len(o \o r) = Len(o) + Len(r)
        /\ \A i \in 1 .. Len(o) : (o \o r)[i] = o[i]
        /\ \A j \in 1 .. Len(r) : (o \o r)[Len(o) + j] = r[j]
  BY ConcatIs
<1> QED BY <1>1, <1>2
(* Two before others.                                                      *)
LEMMA TwoThen ==
  ASSUME NEW S, NEW x, NEW y, NEW r \in Seq(S), NEW o \in Seq(S), o = <<x, y>>
  PROVE  /\ o \o r \in Seq(S) /\ Len(o \o r) = 2 + Len(r) /\ Len(r) \in Nat
         /\ (o \o r)[1] = x /\ (o \o r)[2] = y /\ \A i \in 1 .. Len(r) : (o \o r)[2 + i] = r[i]
<1>1. Len(o) = 2 /\ o[1] = x /\ o[2] = y /\ 1 \in 1 .. Len(o) /\ 2 \in 1 .. Len(o)
  OBVIOUS
<1>2. /\ o \o r \in Seq(S) /\ Len(o \o r) = Len(o) + Len(r)
        /\ \A i \in 1 .. Len(o) : (o \o r)[i] = o[i]
        /\ \A j \in 1 .. Len(r) : (o \o r)[Len(o) + j] = r[j]
  BY ConcatIs
<1> QED BY <1>1, <1>2

(* The head and tail of one before others.                                 *)
LEMMA ConsIs ==
  ASSUME NEW S, NEW x \in S, NEW r \in Seq(S)
  PROVE  /\ <<x>> \o r # << >> /\ Head(<<x>> \o r) = x /\ Tail(<<x>> \o r) = r /\ << >> \o r = r
         /\ Len(<<x>> \o r) = Len(r) + 1 /\ Len(r) \in Nat /\ <<x>> \o r \in Seq(S)
<1>0. PICK o : o = <<x>>
  OBVIOUS
<1>1. PICK s : s = o \o r
  OBVIOUS
<1>2. s \in Seq(S) /\ Len(s) = 1 + Len(r) /\ Len(r) \in Nat /\ s[1] = x /\ \A i \in 1 .. Len(r) : s[1 + i] = r[i]
  <2>1. o \in Seq(S)
    BY <1>0
  <2> QED BY <1>0, <1>1, <2>1, OneThen
<1>3. s # << >> /\ Head(s) = x
  BY <1>2
<1>4. Tail(s) \in Seq(S) /\ Len(Tail(s)) = Len(r) /\ \A i \in 1 .. Len(r) : Tail(s)[i] = r[i]
  <2>1. Len(Tail(s)) = Len(s) - 1 /\ Tail(s) \in Seq(S) /\ \A i \in 1 .. Len(Tail(s)) : Tail(s)[i] = s[i + 1]
    BY <1>2, <1>3, HeadTail
  <2> QED BY <1>2, <2>1
<1>5. Tail(s) = r
  BY <1>4, SameSeq
<1>6. << >> \o r = r
  OBVIOUS
<1> QED BY <1>0, <1>1, <1>2, <1>3, <1>5, <1>6

(* The head and tail of two before others.                                 *)
LEMMA Cons2Is ==
  ASSUME NEW S, NEW x \in S, NEW y \in S, NEW r \in Seq(S)
  PROVE  <<x, y>> \o r # << >> /\ Head(<<x, y>> \o r) = x /\ Tail(<<x, y>> \o r) = <<y>> \o r
<1>0. PICK o, p : o = <<x, y>> /\ p = <<y>>
  OBVIOUS
<1>1. PICK a, b : a = o \o r /\ b = p \o r
  OBVIOUS
<1>2. b \in Seq(S) /\ Len(b) = 1 + Len(r) /\ Len(r) \in Nat /\ b[1] = y /\ \A i \in 1 .. Len(r) : b[1 + i] = r[i]
  <2>1. p \in Seq(S)
    BY <1>0
  <2> QED BY <1>0, <1>1, <2>1, OneThen
<1>3. a \in Seq(S) /\ Len(a) = 2 + Len(r) /\ a[1] = x /\ a[2] = y /\ \A i \in 1 .. Len(r) : a[2 + i] = r[i]
  <2>1. o \in Seq(S)
    BY <1>0
  <2> QED BY <1>0, <1>1, <2>1, TwoThen
<1>4. a # << >> /\ Head(a) = x
  BY <1>2, <1>3
<1>5. Tail(a) \in Seq(S) /\ Len(Tail(a)) = 1 + Len(r) /\ \A i \in 1 .. (1 + Len(r)) : Tail(a)[i] = a[i + 1]
  <2>1. Len(Tail(a)) = Len(a) - 1 /\ Tail(a) \in Seq(S) /\ \A i \in 1 .. Len(Tail(a)) : Tail(a)[i] = a[i + 1]
    BY <1>3, <1>4, HeadTail
  <2> QED BY <1>2, <1>3, <2>1
<1>6. ASSUME NEW i \in 1 .. (1 + Len(r)) PROVE a[i + 1] = b[i]
  <2>1. CASE i = 1
    BY <1>2, <1>3, <2>1
  <2>2. CASE i # 1
    <3>1. i - 1 \in 1 .. Len(r) /\ i = 1 + (i - 1) /\ i + 1 = 2 + (i - 1)
      BY <1>2, <2>2
    <3> QED BY <1>2, <1>3, <3>1
  <2> QED BY <2>1, <2>2
<1>7. Tail(a) = b
  <2>1. Len(Tail(a)) = Len(b) /\ \A i \in 1 .. Len(b) : Tail(a)[i] = b[i]
    BY <1>2, <1>5, <1>6
  <2> QED BY <1>2, <1>5, <2>1, SameSeq
<1> QED BY <1>0, <1>1, <1>4, <1>7

(* The fields of a lookup.                                                 *)
LEMMA SpFindIs ==
  ASSUME NEW w, NEW p
  PROVE  /\ Find(w, p).what = "item" /\ Find(w, p).then = w /\ Find(w, p).path = p
         /\ Req(w, p).what = w /\ Req(w, p).path = p
BY DEF Find, Req

(* The fields of the request that a lookup becomes.                        *)
LEMMA SpForIs ==
  ASSUME NEW w, NEW p, NEW x
  PROVE  For(Req(w, p), x).what = w /\ For(Req(w, p), x).path = p /\ For(Req(w, p), x).id = x
BY DEF Req, For

(* One request the call may send.                                          *)
LEMMA SpOneFits ==
  ASSUME NEW r \in SpReqs, SpAllowed(r)
  PROVE  SpFits(<<r>>)
BY SpOnes DEF SpFits

(* One request for a path the call may ask for.                            *)
LEMMA SpLookupFits ==
  ASSUME NEW w \in SpWhats, NEW p \in Seq(STRING), SpKind(call.op, w), w # "source", call.op # "upload_file"
  PROVE  SpFits(<<Lookup(w, p)>>)
BY SpLookups, SpOneFits

(* One lookup the call may send.                                           *)
LEMMA SpFindFits ==
  ASSUME NEW w \in SpWhats, NEW p \in Seq(STRING), SpKind(call.op, w), call.op # "upload_file"
  PROVE  SpFits(<<Find(w, p)>>)
<1>1. Find(w, p) \in SpReqs /\ Find(w, p).what = "item" /\ Find(w, p).then = w
  BY SpReqOf
<1>2. SpAllowed(Find(w, p))
  BY <1>1 DEF SpAllowed
<1> QED BY <1>1, <1>2, SpOneFits

(* One request for what the call may ask for.                              *)
LEMMA SpReqFits ==
  ASSUME NEW w \in SpWhats, NEW p \in Seq(STRING), SpKind(call.op, w), w # "source",
         (call.op = "upload_file" /\ w \notin {"site", "drive"}) => p = call.path
  PROVE  SpFits(<<Req(w, p)>>) /\ Req(w, p) \in SpReqs
<1>1. Req(w, p) \in SpReqs /\ Req(w, p).what = w /\ Req(w, p).path = p
  BY SpReqOf
<1>2. SpAllowed(Req(w, p))
  BY <1>1 DEF SpAllowed
<1> QED BY <1>1, <1>2, SpOneFits

(* One and one are two.                                                    *)
LEMMA PairOf ==
  ASSUME NEW a, NEW b
  PROVE  <<a>> \o <<b>> = <<a, b>>
<1>0. PICK o, r, p : o = <<a>> /\ r = <<b>> /\ p = <<a, b>>
  OBVIOUS
<1>1. PICK S : S = {a, b}
  OBVIOUS
<1>2. o \in Seq(S) /\ r \in Seq(S) /\ p \in Seq(S) /\ a \in S /\ Len(r) = 1 /\ r[1] = b /\ Len(p) = 2 /\ p[1] = a /\ p[2] = b
  BY <1>0, <1>1
<1>3. /\ o \o r \in Seq(S) /\ Len(o \o r) = 2
      /\ (o \o r)[1] = a /\ (o \o r)[2] = b
  <2>1. /\ o \o r \in Seq(S) /\ Len(o \o r) = 1 + Len(r)
        /\ (o \o r)[1] = a /\ \A i \in 1 .. Len(r) : (o \o r)[1 + i] = r[i]
    BY <1>0, <1>2, OneThen
  <2>2. 1 \in 1 .. Len(r) /\ 1 + 1 = 2
    BY <1>2
  <2>3. (o \o r)[1 + 1] = r[1]
    BY <2>1, <2>2
  <2> QED BY <1>2, <2>1, <2>2, <2>3
<1>4. \A i \in 1 .. Len(p) : (o \o r)[i] = p[i]
  BY <1>2, <1>3
<1>5. o \o r = p
  BY <1>2, <1>3, <1>4, SameSeq
<1> QED BY <1>0, <1>5

(* The empty path is a path.                                               *)
LEMMA SpNoPath ==
  << >> \in Seq(STRING)
OBVIOUS

(* The requests each operation starts with.                                *)
LEMMA SpRestIs ==
  ASSUME NEW c
  PROVE  /\ c.op = "list_drives" => SpRest(c) = <<Req("drives", << >>)>>
         /\ c.op = "list_folders" => SpRest(c) = <<Lookup("folders", c.path)>>
         /\ c.op \in {"list_files", "list_newly_created_files"} => SpRest(c) = ListFiles(c)
         /\ c.op = "search_files" => SpRest(c) = <<Req("search", << >>)>>
         /\ c.op = "download_file" => SpRest(c) = <<Find("download", c.path)>>
         /\ c.op = "upload_file" => SpRest(c) = <<Req(IF c.large THEN "session" ELSE "put", c.path)>>
         /\ c.op = "delete_file" => SpRest(c) = <<Find("delete", c.path)>>
         /\ c.op = "create_folder" => SpRest(c) = <<Lookup("make_folder", c.path)>>
         /\ c.op = "move_file" => SpRest(c) = <<Find("source", c.path), Find("move", c.to)>>
         /\ c.op = "rename_file" => SpRest(c) = <<Find("rename", c.path)>>
BY DEF SpRest, ListFolders, ListNewlyCreatedFiles, SearchFiles, DownloadFile, UploadFile, DeleteFile, CreateFolder, MoveFile, RenameFile

(* Three requests the call may send.                                       *)
LEMMA SpThreeFit ==
  ASSUME NEW a \in SpReqs, NEW b \in SpReqs, NEW c \in SpReqs, SpAllowed(a), SpAllowed(b), SpAllowed(c)
  PROVE  SpFits(<<a, b, c>>)
<1>1. <<a, b, c>> \in Seq(SpReqs)
  OBVIOUS
<1>2. Range(<<a, b, c>>) = {a, b, c}
  <2>1. DOMAIN <<a, b, c>> = {1, 2, 3} /\ <<a, b, c>>[1] = a /\ <<a, b, c>>[2] = b /\ <<a, b, c>>[3] = c
    OBVIOUS
  <2> QED BY <2>1 DEF Range
<1> QED BY <1>1, <1>2, Zenon DEF SpFits

(* The requests a call starts with are ones that it may send.              *)
LEMMA SpMembersFit ==
  ASSUME call \in Calls, call.client = "sharepoint"
  PROVE  SpFits(SpRest(call)) /\ SpFits(SpPlan(call))
<1>1. call.op \in SpOps /\ call.known \in BOOLEAN /\ call.path \in Seq(STRING)
      /\ (call.op = "upload_file" => call.large \in BOOLEAN)
      /\ (call.op = "move_file" => call.to \in Seq(STRING))
  BY SpCalls
<1>2. \A w \in {"site", "drive", "drives", "search", "session", "put", "delete", "download", "folders", "files",
               "each_folder", "make_folder", "source", "move", "rename"} : w \in SpWhats
  BY DEF SpWhats
<1>3. << >> \in Seq(STRING)
  OBVIOUS
<1>4. SpFits(SpRest(call))
  <2>1. CASE call.op = "list_drives"
    BY <1>2, <1>3, <2>1, SpRestIs, SpReqFits DEF SpKind
  <2>2. CASE call.op = "list_folders"
    BY <1>1, <1>2, <2>2, SpRestIs, SpLookupFits DEF SpKind
  <2>3. CASE call.op \in {"list_files", "list_newly_created_files"}
    <3>1. PICK a, b, c : a = Lookup("files", call.path) /\ b = Lookup("folders", call.path) /\ c = Req("each_folder", << >>)
      OBVIOUS
    <3>2. a \in SpReqs /\ SpAllowed(a) /\ b \in SpReqs /\ SpAllowed(b)
      BY <1>1, <1>2, <2>3, <3>1, SpLookups DEF SpKind
    <3>3. c \in SpReqs /\ c.what = "each_folder"
      <4>1. "each_folder" \in SpWhats
        BY <1>2
      <4>2. Req("each_folder", << >>) \in SpReqs /\ Req("each_folder", << >>).what = "each_folder"
        BY <1>3, <4>1, SpReqOf
      <4>3. c = Req("each_folder", << >>)
        BY <3>1
      <4> QED BY <4>2, <4>3
    <3>4. SpAllowed(c)
      BY <2>3, <3>3 DEF SpAllowed, SpKind
    <3>5. SpFits(<<a, b, c>>) /\ SpFits(<<a>>)
      BY <3>2, <3>3, <3>4, SpThreeFit, SpOneFits
    <3>6. SpRest(call) = <<a, b, c>> \/ SpRest(call) = <<a>>
      BY <2>3, <3>1, SpRestIs DEF ListFiles
    <3> QED BY <3>5, <3>6
  <2>4. CASE call.op = "search_files"
    BY <1>2, <1>3, <2>4, SpRestIs, SpReqFits DEF SpKind
  <2>5. CASE call.op = "download_file"
    BY <1>1, <1>2, <2>5, SpRestIs, SpFindFits DEF SpKind
  <2>6. CASE call.op = "upload_file"
    <3>1. SpFits(<<Req("session", call.path)>>) /\ SpFits(<<Req("put", call.path)>>)
      BY <1>1, <1>2, <2>6, SpReqFits DEF SpKind
    <3>2. SpRest(call) = <<Req("session", call.path)>> \/ SpRest(call) = <<Req("put", call.path)>>
      BY <1>1, <2>6, SpRestIs
    <3> QED BY <3>1, <3>2
  <2>7. CASE call.op = "delete_file"
    BY <1>1, <1>2, <2>7, SpRestIs, SpFindFits DEF SpKind
  <2>8. CASE call.op = "create_folder"
    BY <1>1, <1>2, <2>8, SpRestIs, SpLookupFits DEF SpKind
  <2>9. CASE call.op = "move_file"
    <3>1. SpFits(<<Find("source", call.path)>>) /\ SpFits(<<Find("move", call.to)>>)
      BY <1>1, <1>2, <2>9, SpFindFits DEF SpKind
    <3>2. SpRest(call) = <<Find("source", call.path)>> \o <<Find("move", call.to)>>
      BY <2>9, SpRestIs, PairOf
    <3> QED BY <3>1, <3>2, SpFitsBoth
  <2>10. CASE call.op = "rename_file"
    BY <1>1, <1>2, <2>10, SpRestIs, SpFindFits DEF SpKind
  <2> QED BY <1>1, <2>1, <2>2, <2>3, <2>4, <2>5, <2>6, <2>7, <2>8, <2>9, <2>10 DEF SpOps, SpListings
<1>5. SpFits(SpFirst(call))
  <2>1. SpFits(<<Req("site", << >>)>>) /\ SpFits(<<Req("drive", << >>)>>)
    BY <1>2, <1>3, SpReqFits DEF SpKind
  <2>2. SpFits(<<Req("site", << >>)>> \o <<Req("drive", << >>)>>)
    BY <2>1, SpFitsBoth
  <2>3. <<Req("site", << >>)>> \o <<Req("drive", << >>)>> = <<Req("site", << >>), Req("drive", << >>)>>
    BY PairOf
  <2> QED BY <2>2, <2>3, SpEmptyFits DEF SpFirst
<1> QED BY <1>4, <1>5, SpFitsBoth DEF SpPlan

(* The requests for the site and the drive before the call's own.           *)
SpSite == Req("site", << >>)
SpItsDrive == Req("drive", << >>)
SpPre == \/ left.todo = <<SpSite, SpItsDrive>> \o SpRest(call)
         \/ left.todo = <<SpItsDrive>> \o SpRest(call)

(* They may begin with the site and the drive.                             *)
LEMMA SpPlanIs ==
  ASSUME call \in Calls, call.client = "sharepoint"
  PROVE  SpPlan(call) = SpRest(call) \/ SpPlan(call) = <<SpSite, SpItsDrive>> \o SpRest(call)
<1>1. SpRest(call) \in Seq(SpReqs)
  BY SpMembersFit DEF SpFits
<1>2. \A r \in Seq(SpReqs) : << >> \o r = r
  OBVIOUS
<1>3. << >> \o SpRest(call) = SpRest(call)
  BY <1>1, <1>2
<1> QED BY <1>3 DEF SpPlan, SpFirst, SpSite, SpItsDrive

(* An answer that only ends its request.                                   *)
LEMMA SpEnds ==
  ASSUME SpTyped, Success, Target.what \notin {"folders", "files", "search", "item", "session"}
  PROVE  /\ left' = [todo |-> Tail(left.todo), folders |-> left.folders, source |-> left.source, target |-> left.target]
         /\ Target.what \notin {"download", "make_folder"} => answer' = answer
         /\ Target.what = "make_folder" => answer' = SetToSeq({x \in SpSpares : remote'[x] # remote[x]})
<1>1. left.todo # << >> /\ Finish
  BY DEF Success, CanSend, Sending, FoldersPage, FilesPage, SearchPage, Item, Session
<1>2. left' = [todo |-> << >> \o Tail(left.todo), folders |-> left.folders \o << >>, source |-> left.source, target |-> left.target]
  BY <1>1, SpFollowed DEF Finish, Proceed
<1>3. Tail(left.todo) \in Seq(SpReqs) /\ left.folders \in Seq(Seq(STRING))
  BY <1>1, SpTarget DEF SpTyped
<1>4. << >> \o Tail(left.todo) = Tail(left.todo)
  BY <1>3, ConcatEmptySeq
<1>5. left.folders \o << >> = left.folders
  BY <1>3, ConcatEmptySeq
<1>6. answer' = CASE Target.what = "download"    -> <<Target.id>>
                 [] Target.what = "make_folder" -> SetToSeq({x \in SpSpares : remote'[x] # remote[x]})
                 [] OTHER                       -> answer
  BY <1>1 DEF Finish
<1> QED BY <1>2, <1>4, <1>5, <1>6

(* An answer that finds the item of a path.                                *)
LEMMA SpFound ==
  ASSUME SpTyped, Success, Target.what = "item"
  PROVE  /\ answer' = answer /\ remote' = remote
         /\ \E x \in Resolved(Target.path) :
              left' = [todo |-> (IF Target.then = "source" THEN << >>
                                 ELSE <<For(Req(Target.then, Target.path), x)>>) \o Tail(left.todo),
                       folders |-> left.folders,
                       source |-> IF Target.then = "move" THEN left.source ELSE x, target |-> x]
<1>1. Item
  BY DEF Success, FoldersPage, FilesPage, SearchPage, Finish, Session
<1>2. Carried \subseteq {remote}
  BY SpCarriedIs
<1> QED BY <1>1, <1>2 DEF Item, Success, Becomes

(* A request that reads changes nothing.                                   *)
LEMMA SpReadKept ==
  ASSUME Success, Target.what \in Reads
  PROVE  remote' = remote
BY SpCarriedIs DEF Success, Becomes

(* Until the drive is known nothing is done.                               *)
LEMMA SpPreStep ==
  ASSUME SpTyped, SpPre, Success
  PROVE  /\ left'.todo = <<SpItsDrive>> \o SpRest(call) \/ left'.todo = SpRest(call)
         /\ left'.folders = left.folders /\ left'.source = left.source /\ left'.target = left.target
         /\ answer' = answer /\ remote' = remote
<1>1. SpRest(call) \in Seq(SpReqs)
  BY SpMembersFit DEF SpFits, SpTyped
<1>2. SpSite \in SpReqs /\ SpItsDrive \in SpReqs /\ SpSite.what = "site" /\ SpItsDrive.what = "drive"
  <2>1. "site" \in SpWhats /\ "drive" \in SpWhats /\ << >> \in Seq(STRING)
    BY DEF SpWhats
  <2> QED BY <2>1, SpReqOf DEF SpSite, SpItsDrive
<1>3. \/ Target = SpSite /\ Tail(left.todo) = <<SpItsDrive>> \o SpRest(call)
      \/ Target = SpItsDrive /\ Tail(left.todo) = SpRest(call)
  <2>1. CASE left.todo = <<SpSite, SpItsDrive>> \o SpRest(call)
    <3>1. Head(left.todo) = SpSite /\ Tail(left.todo) = <<SpItsDrive>> \o SpRest(call)
      BY <1>1, <1>2, <2>1, Cons2Is
    <3> QED BY <3>1 DEF Target
  <2>2. CASE left.todo = <<SpItsDrive>> \o SpRest(call)
    <3>1. Head(left.todo) = SpItsDrive /\ Tail(left.todo) = SpRest(call)
      BY <1>1, <1>2, <2>2, ConsIs
    <3> QED BY <3>1 DEF Target
  <2> QED BY <2>1, <2>2 DEF SpPre
<1>4. Target.what \in {"site", "drive"}
  BY <1>2, <1>3
<1>5. left' = [todo |-> Tail(left.todo), folders |-> left.folders, source |-> left.source, target |-> left.target]
      /\ answer' = answer
  BY <1>4, SpEnds
<1>6. remote' = remote
  BY <1>4, SpReadKept DEF Reads
<1>7. left'.todo = Tail(left.todo) /\ left'.folders = left.folders /\ left'.source = left.source /\ left'.target = left.target
  BY <1>5
<1> QED BY <1>3, <1>5, <1>6, <1>7

(* Only listings of files go on to the files of each folder.               *)
LEMMA SpEachOp ==
  ASSUME SpTyped, EachFolder
  PROVE  call.op \in {"list_files", "list_newly_created_files"}
BY SpTarget DEF EachFolder, Sending, Inner, SpAllowed, SpKind

(* An item that is as it was all the while was so before the step.         *)
LEMMA SpSameOn ==
  ASSUME Base, Shape, NEW x \in SpSame'
  PROVE  x \in SpSame /\ remote'[x] = remote[x] /\ x \in SpItems
<1>1. x \in SpItems /\ <<x, remote'[x]>> \in steady'
  BY DEF SpSame
<1>2. <<x, remote'[x]>> \in steady
  BY <1>1, ShapeBase
<1>3. remote'[x] = remote[x]
  BY <1>2, SteadyIs DEF Base
<1> QED BY <1>1, <1>2, <1>3 DEF SpSame

(* Putting an item in a place moves that item alone.                       *)
LEMMA SpPutAt ==
  ASSUME SpTyped, NEW x \in SpItems, NEW place
  PROVE  Put(x, place)[x] = place /\ \A y \in SpItems : y # x => Put(x, place)[y] = remote[y]
<1>1. \A y \in SpItems : y \in DOMAIN remote
  BY DEF SpTyped, SpDrive
<1> QED BY <1>1 DEF Put

(* A sequence of one, taken apart.                                         *)
LEMMA OneAlone ==
  ASSUME NEW r
  PROVE  <<r>> \o << >> = <<r>> /\ << >> \o << >> = << >> /\ <<r>> # << >> /\ Head(<<r>>) = r /\ Tail(<<r>>) = << >>
<1>1. PICK S, o, e : S = {r} /\ o = <<r>> /\ e = << >>
  OBVIOUS
<1>2. o \in Seq(S) /\ e \in Seq(S)
  BY <1>1
<1>3. o \o e = o /\ e \o e = e
  BY <1>1, <1>2, ConcatEmptySeq
<1> QED BY <1>1, <1>3, HeadOne

(* How a call that changes something goes on.                              *)
SpDeletes ==
  call.op = "delete_file" =>
    \/ SpPre
    \/ left.todo = <<Find("delete", call.path)>>
    \/ left.todo = <<For(Req("delete", call.path), left.source)>>
    \/ left.todo = << >> /\ left.source \notin SpSame
SpRenames ==
  call.op = "rename_file" =>
    \/ SpPre
    \/ left.todo = <<Find("rename", call.path)>>
    \/ left.todo = <<For(Req("rename", call.path), left.source)>>
    \/ left.todo = << >> /\ (left.source \notin SpSame \/ remote[left.source][2] = call.names[1])
SpMoves ==
  call.op = "move_file" =>
    \/ SpPre
    \/ left.todo = <<Find("source", call.path), Find("move", call.to)>>
    \/ left.todo = <<Find("move", call.to)>>
    \/ left.todo = <<For(Req("move", call.to), left.target)>>
    \/ left.todo = << >> /\ (left.source \notin SpSame \/ remote[left.source][1] = left.target)
SpUploads ==
  call.op = "upload_file" =>
    \/ SpPre
    \/ left.todo = <<Req("put", call.path)>>
    \/ left.todo = <<Req("session", call.path)>>
    \/ left.todo = <<Req("chunk", call.path), Req("last_chunk", call.path)>>
    \/ left.todo = <<Req("last_chunk", call.path)>>
    \/ /\ left.todo = << >>
       /\ Resolved(call.path) # {} \/ ~(SpFiles \cup SpFolders \subseteq SpSame)

(* A step without an answer leaves what is left to do.                     *)
LEMMA SpQuietly ==
  ASSUME Base, SpTyped, SpAct, ~Success, call.op \notin {"list_files", "list_newly_created_files"}
  PROVE  left' = left /\ call' = call /\ Shape
BY SpShape, SpEachOp, SpQuiet DEF Shape

(* An answer is one to the request at the head.                            *)
LEMMA SpBusy ==
  ASSUME SpTyped, Success
  PROVE  left.todo # << >> /\ call' = call /\ Target = Head(left.todo)
BY DEF Success, CanSend, Sending, Target

(* A request for an item takes its place to the request it is for.          *)
LEMMA SpFindOne ==
  ASSUME SpTyped, Success, NEW w, w # "source", left.todo = <<Find(w, call.path)>> \/ left.todo = <<Find(w, call.to)>>,
         w # "move" => left.todo = <<Find(w, call.path)>>, w = "move" => left.todo = <<Find(w, call.to)>>
  PROVE  /\ answer' = answer /\ remote' = remote
         /\ \E x : /\ left'.todo = <<For(Req(w, IF w = "move" THEN call.to ELSE call.path), x)>>
                   /\ left'.target = x
                   /\ left'.source = (IF w = "move" THEN left.source ELSE x)
<1>1. PICK p : p = IF w = "move" THEN call.to ELSE call.path
  OBVIOUS
<1>2. left.todo = <<Find(w, p)>>
  BY <1>1
<1>3. Target = Find(w, p) /\ Tail(left.todo) = << >>
  BY <1>2, OneAlone DEF Target
<1>4. Target.what = "item" /\ Target.then = w /\ Target.path = p
  BY <1>3, SpFindIs
<1>5. answer' = answer /\ remote' = remote
  BY <1>4, SpFound
<1>6. PICK x \in Resolved(p) :
              left' = [todo |-> (IF w = "source" THEN << >>
                                 ELSE <<For(Req(w, p), x)>>) \o << >>,
                       folders |-> left.folders,
                       source |-> IF w = "move" THEN left.source ELSE x, target |-> x]
  BY <1>3, <1>4, SpFound
<1>7. left'.todo = <<For(Req(w, p), x)>> \o << >> /\ left'.target = x /\ left'.source = (IF w = "move" THEN left.source ELSE x)
  BY <1>6
<1>8. left'.todo = <<For(Req(w, p), x)>>
  BY <1>7, OneAlone
<1> QED BY <1>1, <1>5, <1>7, <1>8

(* After an answer the drive is as the request left it.                    *)
LEMMA SpBecame ==
  ASSUME Success
  PROVE  remote' \in Carried
BY DEF Success, Becomes

(* The last request of a call.                                              *)
LEMMA SpLastOne ==
  ASSUME SpTyped, Success, NEW r, left.todo = <<r>>, r.what \notin {"folders", "files", "search", "item", "session"}
  PROVE  /\ Target = r /\ left'.todo = << >> /\ left'.source = left.source /\ left'.target = left.target
         /\ r.what # "download" /\ r.what # "make_folder" => answer' = answer
         /\ r.what = "make_folder" => answer' = SetToSeq({x \in SpSpares : remote'[x] # remote[x]})
<1>1. Target = r /\ Tail(left.todo) = << >>
  BY OneAlone DEF Target
<1>2. left' = [todo |-> Tail(left.todo), folders |-> left.folders, source |-> left.source, target |-> left.target]
  BY <1>1, SpEnds
<1> QED BY <1>1, <1>2, SpEnds

(* delete_file: the file found is gone when nothing is left to do.         *)
LEMMA SpDeletesStep ==
  ASSUME Base, SpTyped, SpDeletes, SpAct
  PROVE  SpDeletes'
<1> SUFFICES ASSUME call.op = "delete_file", call' = call
             PROVE  SpDeletes'
  BY SpShape DEF Shape, SpDeletes
<1>s. Shape
  BY SpShape
<1>1. CASE ~Success
  <2>1. left' = left
    BY <1>1, SpQuietly
  <2>2. left.source \notin SpSame => left.source \notin SpSame'
    BY <1>s, SpSameOn
  <2> QED BY <2>1, <2>2 DEF SpDeletes, SpPre
<1>2. CASE Success /\ SpPre
  <2>1. SpRest(call) = <<Find("delete", call.path)>>
    BY SpRestIs
  <2> QED BY <1>2, <2>1, SpPreStep DEF SpDeletes, SpPre
<1>3. CASE Success /\ left.todo = <<Find("delete", call.path)>>
  <2>1. PICK x : left'.todo = <<For(Req("delete", call.path), x)>> /\ left'.source = x
    BY <1>3, SpFindOne
  <2> QED BY <2>1 DEF SpDeletes
<1>4. CASE Success /\ left.todo = <<For(Req("delete", call.path), left.source)>>
  <2>1. PICK r : r = For(Req("delete", call.path), left.source)
    OBVIOUS
  <2>2. r.what = "delete" /\ r.id = left.source
    BY <2>1, SpForIs
  <2>3. Target = r /\ left'.todo = << >> /\ left'.source = left.source
    BY <1>4, <2>1, <2>2, SpLastOne
  <2>4. remote' \in Deleted(left.source)
    <3>1. Target.what = "delete" /\ Target.id = r.id
      BY <2>2, <2>3
    <3>2. Carried = Deleted(Target.id)
      BY <3>1, SpCarriedIs
    <3>3. remote' \in Deleted(r.id)
      BY <1>4, <3>1, <3>2, SpBecame
    <3> QED BY <2>2, <3>3
  <2>5. left.source \in SpItems /\ Held(left.source) /\ remote' = Put(left.source, Gone)
    BY <2>4 DEF Deleted
  <2>6. remote[left.source] # Gone /\ remote'[left.source] = Gone
    BY <2>5, SpConstants, SpPutAt DEF Held
  <2>7. left.source \notin SpSame'
    BY <1>s, <2>6, SpSameOn
  <2> QED BY <2>3, <2>7 DEF SpDeletes
<1> QED BY <1>1, <1>2, <1>3, <1>4, SpBusy DEF SpDeletes

(* rename_file: the file found has its new name when nothing is left to    *)
(* do.                                                                     *)
LEMMA SpRenamesStep ==
  ASSUME Base, SpTyped, SpRenames, SpAct
  PROVE  SpRenames'
<1> SUFFICES ASSUME call.op = "rename_file", call' = call
             PROVE  SpRenames'
  BY SpShape DEF Shape, SpRenames
<1>s. Shape
  BY SpShape
<1>1. CASE ~Success
  <2>1. left' = left
    BY <1>1, SpQuietly
  <2>2. (left.source \notin SpSame \/ remote[left.source][2] = call.names[1])
          => (left.source \notin SpSame' \/ remote'[left.source][2] = call.names[1])
    BY <1>s, SpSameOn
  <2> QED BY <2>1, <2>2 DEF SpRenames, SpPre
<1>2. CASE Success /\ SpPre
  <2>1. SpRest(call) = <<Find("rename", call.path)>>
    BY SpRestIs
  <2> QED BY <1>2, <2>1, SpPreStep DEF SpRenames, SpPre
<1>3. CASE Success /\ left.todo = <<Find("rename", call.path)>>
  <2>1. PICK x : left'.todo = <<For(Req("rename", call.path), x)>> /\ left'.source = x
    BY <1>3, SpFindOne
  <2> QED BY <2>1 DEF SpRenames
<1>4. CASE Success /\ left.todo = <<For(Req("rename", call.path), left.source)>>
  <2>1. PICK r : r = For(Req("rename", call.path), left.source)
    OBVIOUS
  <2>2. r.what = "rename" /\ r.id = left.source
    BY <2>1, SpForIs
  <2>3. Target = r /\ left'.todo = << >> /\ left'.source = left.source
    BY <1>4, <2>1, <2>2, SpLastOne
  <2>4. remote' \in Patched(left.source, <<remote[left.source][1], call.names[1]>>)
    <3>1. Target.what = "rename" /\ Target.id = r.id
      BY <2>2, <2>3
    <3>2. Carried = Renamed(Target.id, call.names[1])
      BY <3>1, SpCarriedIs
    <3>3. remote' \in Renamed(r.id, call.names[1])
      BY <1>4, <3>1, <3>2, SpBecame
    <3> QED BY <2>2, <3>3 DEF Renamed
  <2>5. left.source \in SpItems /\ remote' = Put(left.source, <<remote[left.source][1], call.names[1]>>)
    BY <2>4, SpPatchedIs
  <2>6. remote'[left.source] = <<remote[left.source][1], call.names[1]>>
    BY <2>5, SpPutAt
  <2>7. remote'[left.source][2] = call.names[1]
    BY <2>6
  <2> QED BY <2>3, <2>7 DEF SpRenames
<1> QED BY <1>1, <1>2, <1>3, <1>4, SpBusy DEF SpRenames

(* move_file: the file found is in the folder found when nothing is left   *)
(* to do.                                                                  *)
LEMMA SpMovesStep ==
  ASSUME Base, SpTyped, SpMoves, SpAct
  PROVE  SpMoves'
<1> SUFFICES ASSUME call.op = "move_file", call' = call
             PROVE  SpMoves'
  BY SpShape DEF Shape, SpMoves
<1>s. Shape
  BY SpShape
<1>1. CASE ~Success
  <2>1. left' = left
    BY <1>1, SpQuietly
  <2>2. (left.source \notin SpSame \/ remote[left.source][1] = left.target)
          => (left.source \notin SpSame' \/ remote'[left.source][1] = left.target)
    BY <1>s, SpSameOn
  <2> QED BY <2>1, <2>2 DEF SpMoves, SpPre
<1>2. CASE Success /\ SpPre
  <2>1. SpRest(call) = <<Find("source", call.path), Find("move", call.to)>>
    BY SpRestIs
  <2> QED BY <1>2, <2>1, SpPreStep DEF SpMoves, SpPre
<1>3. CASE Success /\ left.todo = <<Find("source", call.path), Find("move", call.to)>>
  <2>1. PICK a, b : a = Find("source", call.path) /\ b = Find("move", call.to)
    OBVIOUS
  <2>2. Target = a /\ Tail(left.todo) = <<b>>
    <3>1. Head(<<a, b>>) = a /\ Tail(<<a, b>>) = <<b>>
      OBVIOUS
    <3> QED BY <1>3, <2>1, <3>1 DEF Target
  <2>3. Target.what = "item" /\ Target.then = "source"
    BY <2>1, <2>2, SpFindIs
  <2>4. PICK x : left' = [todo |-> << >> \o <<b>>, folders |-> left.folders, source |-> x, target |-> x]
    BY <1>3, <2>2, <2>3, SpFound
  <2>5. left'.todo = << >> \o <<b>>
    BY <2>4
  <2>6. << >> \o <<b>> = <<b>>
    BY OneIs, ConcatEmptySeq
  <2> QED BY <2>1, <2>5, <2>6 DEF SpMoves
<1>4. CASE Success /\ left.todo = <<Find("move", call.to)>>
  <2>1. PICK x : left'.todo = <<For(Req("move", call.to), x)>> /\ left'.target = x
    BY <1>4, SpFindOne
  <2> QED BY <2>1 DEF SpMoves
<1>5. CASE Success /\ left.todo = <<For(Req("move", call.to), left.target)>>
  <2>1. PICK r : r = For(Req("move", call.to), left.target)
    OBVIOUS
  <2>2. r.what = "move" /\ r.id = left.target
    BY <2>1, SpForIs
  <2>3. Target = r /\ left'.todo = << >> /\ left'.source = left.source /\ left'.target = left.target
    BY <1>5, <2>1, <2>2, SpLastOne
  <2>4. remote' \in Patched(left.source, <<left.target, Last(call.path)>>)
    <3>1. Target.what = "move" /\ Target.id = r.id
      BY <2>2, <2>3
    <3>2. Carried = Moved(left.source, Target.id)
      BY <3>1, SpCarriedIs
    <3>3. remote' \in Moved(left.source, r.id)
      BY <1>5, <3>1, <3>2, SpBecame
    <3> QED BY <2>2, <3>3 DEF Moved
  <2>5. left.source \in SpItems /\ remote' = Put(left.source, <<left.target, Last(call.path)>>)
    BY <2>4, SpPatchedIs
  <2>6. remote'[left.source] = <<left.target, Last(call.path)>>
    BY <2>5, SpPutAt
  <2>7. remote'[left.source][1] = left.target
    BY <2>6
  <2> QED BY <2>3, <2>7 DEF SpMoves
<1> QED BY <1>1, <1>2, <1>3, <1>4, <1>5, SpBusy DEF SpMoves

(* Paths lead where they led when no item moves.                           *)
LEMMA SpResolvedOn ==
  ASSUME \A x \in SpItems : remote'[x] = remote[x], NEW path
  PROVE  Resolved(path)' = Resolved(path)
<1>1. Chains(path)' = Chains(path)
  <2>1. ASSUME NEW c \in [DOMAIN path -> SpItems], NEW i \in DOMAIN path
        PROVE  remote'[c[i]] = remote[c[i]]
    BY <2>1
  <2> QED BY <2>1, Zenon DEF Chains
<1> QED BY <1>1 DEF Resolved

(* An upload replaces the file at its path or makes one.                   *)
LEMMA SpStoredIs ==
  ASSUME SpTyped, NEW path \in Seq(STRING), path # << >>, NEW r \in Stored(path)
  PROVE  \/ r = remote /\ Resolved(path) # {}
         \/ \E x \in SpFiles : remote[x] = Gone /\ r[x] # Gone
<1>1. PICK parent \in {x \in Resolved(Front(path)) : Folder(x)} :
            r \in (IF ChildOf(parent, Last(path)) = {}
                  THEN {Put(x, <<parent, Last(path)>>) : x \in {y \in SpFiles : remote[y] = Gone}}
                  ELSE {remote})
  BY Zenon DEF Stored
<1>2. Front(path) \in Seq(STRING)
  BY SpFront
<1>3. parent \in SpIds
  BY <1>2, SpLeads
<1>4. CASE ChildOf(parent, Last(path)) = {}
  <2>1. PICK x \in SpFiles : remote[x] = Gone /\ r = Put(x, <<parent, Last(path)>>)
    BY <1>1, <1>4
  <2>2. r[x] = <<parent, Last(path)>>
    BY <2>1, SpConstants, SpPutAt
  <2>3. r[x] # Gone
    BY <1>3, <2>2, SpConstants
  <2> QED BY <2>1, <2>3
<1>5. CASE ChildOf(parent, Last(path)) # {}
  <2>1. r = remote
    BY <1>1, <1>5
  <2>2. PICK y \in SpItems : remote[y] = <<parent, Last(path)>>
    BY <1>5 DEF ChildOf
  <2>3. y \in Resolved(path)
    BY <2>2, SpResolved
  <2> QED BY <2>1, <2>3
<1> QED BY <1>4, <1>5

(* A file uploaded is there as long as nothing else changes the drive.     *)
LEMMA SpUploadDone ==
  ASSUME Base, SpTyped, SpAct, Shape, call' = call, call.op = "upload_file",
         Resolved(call.path) # {} \/ ~(SpFiles \cup SpFolders \subseteq SpSame)
  PROVE  Resolved(call.path)' # {} \/ ~(SpFiles \cup SpFolders \subseteq SpSame')
<1> SUFFICES ASSUME SpFiles \cup SpFolders \subseteq SpSame'
             PROVE  Resolved(call.path)' # {}
  OBVIOUS
<1>1. \A x \in SpFiles \cup SpFolders : x \in SpSame /\ remote'[x] = remote[x]
  BY SpSameOn
<1>2. \A x \in SpSpares : remote[x] = Gone /\ remote'[x] = Gone
  BY SpTypedStep DEF SpTyped
<1>3. \A x \in SpItems : remote'[x] = remote[x]
  BY <1>1, <1>2, SpConstants
<1>4. Resolved(call.path) # {}
  BY <1>1
<1> PICK p : p = call.path
  OBVIOUS
<1>5. Resolved(p)' = Resolved(p)
  BY <1>3, SpResolvedOn
<1>6. Resolved(p) # {}
  BY <1>4
<1>7. Resolved(call.path)' = Resolved(p)'
  BY DEF Resolved, Chains
<1> QED BY <1>5, <1>6, <1>7

(* upload_file: its path leads to a file when nothing is left to do.       *)
LEMMA SpUploadsStep ==
  ASSUME Base, SpTyped, SpUploads, SpAct
  PROVE  SpUploads'
<1> SUFFICES ASSUME call.op = "upload_file", call' = call
             PROVE  SpUploads'
  BY SpShape DEF Shape, SpUploads
<1>s. Shape
  BY SpShape
<1>p. call.path \in Seq(STRING) /\ call.path # << >> /\ call.large \in BOOLEAN
  BY SpCalls DEF SpTyped
<1>1. CASE ~Success
  <2>1. left' = left
    BY <1>1, SpQuietly
  <2>2. (Resolved(call.path) # {} \/ ~(SpFiles \cup SpFolders \subseteq SpSame))
          => (Resolved(call.path)' # {} \/ ~(SpFiles \cup SpFolders \subseteq SpSame'))
    BY <1>s, SpUploadDone
  <2> QED BY <2>1, <2>2 DEF SpUploads, SpPre
<1>2. CASE Success /\ SpPre
  <2>1. SpRest(call) = <<Req("session", call.path)>> \/ SpRest(call) = <<Req("put", call.path)>>
    BY <1>p, SpRestIs
  <2> QED BY <1>2, <2>1, SpPreStep DEF SpUploads, SpPre
<1>3. CASE Success /\ (left.todo = <<Req("put", call.path)>> \/ left.todo = <<Req("last_chunk", call.path)>>)
  <2>1. PICK r : left.todo = <<r>> /\ (r = Req("put", call.path) \/ r = Req("last_chunk", call.path))
    BY <1>3
  <2>2. r.what \in {"put", "last_chunk"} /\ r.path = call.path
    BY <2>1, SpFindIs
  <2>3. Target = r /\ left'.todo = << >>
    <3>1. r.what \notin {"folders", "files", "search", "item", "session"} /\ left.todo = <<r>> /\ Success
      BY <1>3, <2>1, <2>2
    <3> QED BY <3>1, SpLastOne
  <2>4. Carried = Stored(call.path)
    <3>1. Target.what \in {"put", "last_chunk"} /\ Target.path = call.path
      BY <2>2, <2>3
    <3> QED BY <3>1, SpCarriedIs
  <2>5. remote' \in Stored(call.path)
    BY <1>3, <2>4, SpBecame
  <2>6. CASE remote' = remote /\ Resolved(call.path) # {}
    <3>1. Resolved(call.path)' # {} \/ ~(SpFiles \cup SpFolders \subseteq SpSame')
      BY <1>s, <2>6, SpUploadDone
    <3> QED BY <2>3, <3>1 DEF SpUploads
  <2>7. ASSUME NEW x \in SpFiles, remote[x] = Gone, remote'[x] # Gone
        PROVE  SpUploads'
    <3>1. x \notin SpSame'
      BY <1>s, <2>7, SpSameOn
    <3>2. ~(SpFiles \cup SpFolders \subseteq SpSame')
      BY <3>1
    <3> QED BY <2>3, <3>2 DEF SpUploads
  <2> QED BY <1>p, <2>5, <2>6, <2>7, SpStoredIs
<1>4. CASE Success /\ left.todo = <<Req("session", call.path)>>
  <2>1. PICK p, r, a, b : p = call.path /\ r = Req("session", p) /\ a = Req("chunk", p) /\ b = Req("last_chunk", p)
    OBVIOUS
  <2>2. Target = r /\ Tail(left.todo) = << >>
    BY <1>4, <2>1, OneAlone DEF Target
  <2>3. Target.what = "session" /\ Target.path = p
    BY <2>1, <2>2, SpFindIs
  <2>4. Follow(<<a, b>>)
    BY <1>4, <2>1, <2>3 DEF Success, FoldersPage, FilesPage, SearchPage, Item, Finish, Session
  <2>5. left.todo # << >>
    BY <1>4, SpBusy
  <2>6. left' = [todo |-> <<a, b>> \o << >>, folders |-> left.folders \o << >>, source |-> left.source, target |-> left.target]
    BY <2>2, <2>4, <2>5, SpFollowed
  <2>7. left'.todo = <<a, b>> \o << >>
    BY <2>6
  <2>8. <<a, b>> \o << >> = <<a, b>>
    <3>1. PICK S : S = {a, b}
      OBVIOUS
    <3>2. <<a, b>> \in Seq(S)
      BY <3>1
    <3> QED BY <3>2, ConcatEmptySeq
  <2> QED BY <2>1, <2>7, <2>8 DEF SpUploads
<1>5. CASE Success /\ left.todo = <<Req("chunk", call.path), Req("last_chunk", call.path)>>
  <2>1. PICK a, b : a = Req("chunk", call.path) /\ b = Req("last_chunk", call.path)
    OBVIOUS
  <2>2. Target = a /\ Tail(left.todo) = <<b>>
    <3>1. Head(<<a, b>>) = a /\ Tail(<<a, b>>) = <<b>>
      OBVIOUS
    <3> QED BY <1>5, <2>1, <3>1 DEF Target
  <2>3. Target.what = "chunk"
    BY <2>1, <2>2, SpFindIs
  <2>4. left' = [todo |-> Tail(left.todo), folders |-> left.folders, source |-> left.source, target |-> left.target]
    BY <1>5, <2>3, SpEnds
  <2> QED BY <2>1, <2>2, <2>4 DEF SpUploads
<1> QED BY <1>1, <1>2, <1>3, <1>4, <1>5, SpBusy DEF SpUploads

(* The folders a call may have made.                                        *)
SpSparesKept == call.op # "create_folder" => SpSpare = {}
SpCreates ==
  call.op = "create_folder" =>
    \/ /\ \/ SpPre
          \/ left.todo = <<Find("make_folder", call.path)>>
          \/ \E r : left.todo = <<r>> /\ r.what = "make_folder"
       /\ Cardinality(SpSpare) <= missed
    \/ /\ left.todo = << >>
       /\ Cardinality(SpSpare) <= missed + 1
       /\ <<answer[1], Gone>> \notin steady

(* A folder made since the call began was so before, or was made in this   *)
(* step.                                                                   *)
LEMMA SpSpareOn ==
  ASSUME Base, SpTyped, SpAct, Shape, NEW x \in SpSpare'
  PROVE  x \in SpSpares /\ (x \in SpSpare \/ remote'[x] # remote[x])
<1>1. x \in SpSpares /\ <<x, Gone>> \notin steady'
  BY DEF SpSpare
<1>2. SUFFICES ASSUME remote'[x] = remote[x], <<x, Gone>> \in steady
              PROVE  FALSE
  BY <1>1 DEF SpSpare
<1>3. remote[x] = Gone
  BY <1>2, SteadyIs DEF Base
<1>4. x \in DOMAIN remote'
  BY <1>1, SpConstants, SpTypedStep DEF SpTyped, SpDrive
<1>5. <<x, Gone>> \in Facts(remote')
  BY <1>2, <1>3, <1>4, FactIs
<1> QED BY <1>1, <1>2, <1>5 DEF Shape

(* A step makes one folder at most, and none without an answer or a        *)
(* trouble counted.                                                        *)
LEMMA SpSparesStep ==
  ASSUME Base, SpTyped, SpAct, Shape
  PROVE  /\ \E x : SpSpare' \subseteq SpSpare \cup {x}
         /\ (~Success /\ missed' = missed) => SpSpare' \subseteq SpSpare
<1>1. \E x : SpSpare' \subseteq SpSpare \cup {x}
  <2>1. CASE \A x \in SpItems : remote'[x] = remote[x]
    <3>1. SpSpare' \subseteq SpSpare
      BY <2>1, SpSpareOn, SpConstants
    <3> QED BY <3>1
  <2>2. ASSUME NEW x \in SpItems, NEW place, remote' = Put(x, place)
        PROVE  SpSpare' \subseteq SpSpare \cup {x}
    BY <2>2, SpPutAt, SpSpareOn, SpConstants
  <2>3. ASSUME NEW v, remote' = [remote EXCEPT !["token"] = v]
        PROVE  \A x \in SpItems : remote'[x] = remote[x]
    BY <2>3, SpTokens
  <2> QED BY <2>1, <2>2, <2>3, SpServes
<1>2. ASSUME ~Success, missed' = missed
      PROVE  \A x \in SpSpares : remote'[x] = remote[x]
  <2>0. missed + 1 # missed
    BY DEF Base, Counted
  <2>1. CASE FetchToken \/ TooMany
    <3>1. remote' = remote \/ \E v : remote' = [remote EXCEPT !["token"] = v]
      BY <2>1 DEF FetchToken, TooMany, Set, Becomes, service
    <3> QED BY <3>1, SpTokens, SpConstants
  <2>2. CASE Refused \/ EachFolder \/ SpReturn
    BY <2>2 DEF Refused, EachFolder, SpReturn, service
  <2>3. CASE ServerError \/ Broken
    BY <1>2, <2>0, <2>3 DEF ServerError, Broken, Miss
  <2>4. CASE SpOthers
    <3>1. CASE Others([remote EXCEPT !["token"] = "none"])
      BY <3>1, SpTokens, SpConstants DEF Others, Becomes
    <3>2. ASSUME NEW y \in SpFiles \cup SpFolders, NEW place, Others(Put(y, place))
          PROVE  \A x \in SpSpares : remote'[x] = remote[x]
      <4>1. remote' = Put(y, place) /\ y \in SpItems /\ y \notin SpSpares
        BY <3>2, SpConstants DEF Others, Becomes
      <4> QED BY <4>1, SpPutAt, SpConstants
    <3> QED BY <2>4, <3>1, <3>2 DEF SpOthers
  <2> QED BY <1>2, <2>1, <2>2, <2>3, <2>4 DEF SpAct, SpNext
<1> QED BY <1>1, <1>2, SpSpareOn

(* Only create_folder makes folders, and no more than its answer and the   *)
(* answers it missed.                                                      *)
LEMMA SpSparesKeptStep ==
  ASSUME Base, SpTyped, SpSparesKept, SpAct
  PROVE  SpSparesKept'
<1> SUFFICES ASSUME call.op # "create_folder", call' = call
             PROVE  SpSpare' = {}
  BY SpShape DEF Shape, SpSparesKept
<1>1. Shape
  BY SpShape
<1>2. \A x \in SpSpares : remote[x] = Gone /\ remote'[x] = Gone
  BY SpTypedStep DEF SpTyped
<1>3. SpSpare = {}
  BY DEF SpSparesKept
<1> QED BY <1>1, <1>2, <1>3, SpSpareOn

(* The folders made are finitely many.                                     *)
LEMMA SpSpareFinite ==
  IsFiniteSet(SpSpare) /\ Cardinality(SpSpare) \in Nat
<1>1. SpSpare \subseteq SpItems
  BY SpConstants DEF SpSpare
<1> QED BY <1>1, SpConstants, FS_Subset, FS_CardinalityType

(* create_folder makes one folder.                                         *)
LEMMA SpMadeIs ==
  ASSUME SpTyped, NEW id \in SpIds, NEW r \in Made(id)
  PROVE  \E x \in SpSpares : remote[x] = Gone /\ r[x] # Gone /\ \A y \in SpSpares : y # x => r[y] = remote[y]
<1>1. PICK x \in SpSpares, n \in FreeNames(id) : r = Put(x, <<id, n>>) /\ remote[x] = Gone
  <2>1. Made(id) # {} => Folder(id)
    BY DEF Made
  <2>2. r \in UNION {{Put(x, <<id, n>>) : x \in {y \in SpSpares : remote[y] = Gone}} : n \in FreeNames(id)}
    BY <2>1 DEF Made
  <2>3. PICK n \in FreeNames(id) : r \in {Put(x, <<id, n>>) : x \in {y \in SpSpares : remote[y] = Gone}}
    BY <2>2, Zenon
  <2> QED BY <2>3
<1>2. r[x] = <<id, n>> /\ \A y \in SpItems : y # x => r[y] = remote[y]
  BY <1>1, SpConstants, SpPutAt
<1>3. r[x] # Gone
  BY <1>2, SpConstants
<1> QED BY <1>1, <1>2, <1>3, SpConstants

(* create_folder: the folder it answers with was made by this call.        *)
LEMMA SpCreatesStep ==
  ASSUME Base, SpTyped, SpCreates, SpAct
  PROVE  SpCreates'
<1> SUFFICES ASSUME call.op = "create_folder", call' = call
             PROVE  SpCreates'
  BY SpShape DEF Shape, SpCreates
<1>s. Shape
  BY SpShape
<1>n. missed \in Nat /\ IsFiniteSet(SpSpare) /\ Cardinality(SpSpare) \in Nat /\ IsFiniteSet(SpSpare)' /\ Cardinality(SpSpare)' \in Nat
  <2>1. (IsFiniteSet(SpSpare) /\ Cardinality(SpSpare) \in Nat)'
    BY SpSpareFinite, PTL
  <2> QED BY <2>1, SpSpareFinite DEF Base, Counted
<1>c. Cardinality(SpSpare)' <= Cardinality(SpSpare) + 1
  <2>1. PICK x : SpSpare' \subseteq SpSpare \cup {x}
    BY <1>s, SpSparesStep
  <2>2. IsFiniteSet(SpSpare \cup {x}) /\ Cardinality(SpSpare \cup {x}) <= Cardinality(SpSpare) + 1
    <3>1. /\ IsFiniteSet(SpSpare \cup {x})
          /\ Cardinality(SpSpare \cup {x}) = (IF x \in SpSpare THEN Cardinality(SpSpare) ELSE Cardinality(SpSpare) + 1)
      BY <1>n, FS_AddElement
    <3> QED BY <1>n, <3>1
  <2>3. Cardinality(SpSpare') <= Cardinality(SpSpare \cup {x}) /\ Cardinality(SpSpare \cup {x}) \in Nat
    BY <2>1, <2>2, FS_Subset, FS_CardinalityType
  <2> QED BY <1>n, <2>2, <2>3
<1>d. SpSpare' \subseteq SpSpare => Cardinality(SpSpare)' <= Cardinality(SpSpare)
  BY <1>n, FS_Subset
<1>r. remote' = remote => SpSpare' \subseteq SpSpare
  BY <1>s, SpSpareOn
<1>t. steady' \subseteq steady
  BY <1>s, ShapeBase
<1>1. CASE ~Success
  <2>1. left' = left /\ answer' = answer
    BY <1>1, SpQuietly, SpQuiet, SpEachOp
  <2>2. missed' = missed \/ missed' = missed + 1
    BY <1>s DEF Shape
  <2>3. \A n \in {missed, missed + 1} : Cardinality(SpSpare) <= n => Cardinality(SpSpare)' <= (IF n = missed THEN missed' ELSE missed' + 1)
    <3>1. CASE missed' = missed
      <4>1. Cardinality(SpSpare)' <= Cardinality(SpSpare)
        BY <1>1, <1>s, <1>d, <3>1, SpSparesStep
      <4> QED BY <1>n, <3>1, <4>1
    <3>2. CASE missed' = missed + 1
      BY <1>n, <1>c, <3>2
    <3> QED BY <2>2, <3>1, <3>2
  <2>4. Cardinality(SpSpare) <= missed => Cardinality(SpSpare)' <= missed'
    BY <1>n, <2>3
  <2>5. Cardinality(SpSpare) <= missed + 1 => Cardinality(SpSpare)' <= missed' + 1
    BY <1>n, <2>3
  <2>6. SpPre => SpPre'
    BY <2>1 DEF SpPre
  <2>7. <<answer[1], Gone>> \notin steady => <<answer'[1], Gone>> \notin steady'
    BY <1>t, <2>1
  <2> QED BY <2>1, <2>4, <2>5, <2>6, <2>7 DEF SpCreates
<1>2. CASE Success /\ SpPre
  <2>1. SpRest(call) = <<Lookup("make_folder", call.path)>>
    BY SpRestIs
  <2>2. remote' = remote /\ (left'.todo = <<SpItsDrive>> \o SpRest(call) \/ left'.todo = SpRest(call))
    BY <1>2, SpPreStep
  <2>3. missed' = missed /\ left.todo # << >>
    BY <1>2, SpBusy DEF Success, NoTrouble, troubles
  <2>4. \/ SpRest(call) = <<Find("make_folder", call.path)>>
        \/ \E r : SpRest(call) = <<r>> /\ r.what = "make_folder"
    BY <2>1, SpFindIs DEF Lookup
  <2>5. Cardinality(SpSpare) <= missed
    BY <2>3 DEF SpCreates
  <2>6. Cardinality(SpSpare)' <= missed'
    BY <1>d, <1>n, <1>r, <2>2, <2>3, <2>5
  <2> QED BY <2>2, <2>4, <2>6 DEF SpCreates, SpPre
<1>3. CASE Success /\ left.todo = <<Find("make_folder", call.path)>>
  <2>1. PICK x : left'.todo = <<For(Req("make_folder", call.path), x)>> /\ remote' = remote
    BY <1>3, SpFindOne
  <2>2. missed' = missed /\ left.todo # << >>
    BY <1>3, SpBusy DEF Success, NoTrouble, troubles
  <2>3. Cardinality(SpSpare) <= missed
    BY <2>2 DEF SpCreates
  <2>4. Cardinality(SpSpare)' <= missed'
    BY <1>d, <1>n, <1>r, <2>1, <2>2, <2>3
  <2>5. For(Req("make_folder", call.path), x).what = "make_folder"
    BY SpForIs
  <2> QED BY <2>1, <2>4, <2>5 DEF SpCreates
<1>4. ASSUME Success, NEW r, left.todo = <<r>>, r.what = "make_folder" PROVE SpCreates'
  <2>1. Target = r /\ left'.todo = << >> /\ answer' = SetToSeq({x \in SpSpares : remote'[x] # remote[x]})
    BY <1>4, SpLastOne
  <2>2. left.todo # << >> /\ missed' = missed
    BY <1>4, SpBusy DEF Success, NoTrouble, troubles
  <2>3. Target.id \in SpIds
    BY <2>2, SpTarget DEF SpReqs
  <2>4. remote' \in Made(Target.id)
    BY <1>4, <2>1, SpCarriedIs, SpBecame
  <2>5. PICK x \in SpSpares : remote[x] = Gone /\ remote'[x] # Gone /\ \A y \in SpSpares : y # x => remote'[y] = remote[y]
    BY <2>3, <2>4, SpMadeIs
  <2>6. {y \in SpSpares : remote'[y] # remote[y]} = {x}
    BY <2>5
  <2>7. IsFiniteSet({x}) /\ Cardinality({x}) = 1
    BY FS_Singleton
  <2>8. Range(answer') = {x} /\ answer' \in Seq({x}) /\ Len(answer') = 1
    BY <2>1, <2>6, <2>7, SetToSeqIs
  <2>9. answer'[1] = x
    BY <2>8
  <2>10. <<x, Gone>> \notin steady'
    <3>1. steady' \subseteq Facts(remote')
      BY <1>s DEF Shape
    <3> QED BY <2>5, <3>1, NotSteady
  <2>11. Cardinality(SpSpare) <= missed
    BY <2>2 DEF SpCreates
  <2>12. Cardinality(SpSpare)' <= missed' + 1
    BY <1>n, <1>c, <2>2, <2>11
  <2> QED BY <2>1, <2>9, <2>10, <2>12 DEF SpCreates
<1> QED BY <1>1, <1>2, <1>3, <1>4, SpBusy DEF SpCreates

SpEndsEmpty == told = "returned" => left.todo = << >>
SpInv == /\ SpTyped /\ SpDeletes /\ SpRenames /\ SpMoves /\ SpUploads /\ SpSparesKept /\ SpCreates
         /\ SpEndsEmpty

(* The drive a call begins with.                                           *)
LEMMA SpBeginDrive ==
  ASSUME NEW d \in SpDrives, NEW r, DOMAIN r = SpItems \cup {"token"},
         \A x \in SpItems : r[x] = (IF x \in DOMAIN d THEN d[x] ELSE Gone)
  PROVE  /\ SpDrive(r) /\ \A x \in SpSpares : r[x] = Gone
         /\ \A s \in SUBSET SpItems : (s # {} /\ \A x \in s : r[x] # Gone) => \E x \in s : r[x][1] \notin s
<1>1. SpTree(d)
  BY SpAssumption
<1>3. DOMAIN r = SpItems \cup {"token"} /\ \A x \in SpItems : r[x] = (IF x \in DOMAIN d THEN d[x] ELSE Gone)
  OBVIOUS
<1>4. \A x \in DOMAIN d : x \in SpFolders \cup SpFiles /\ d[x] \in ({Root} \cup (SpFolders \cap DOMAIN d)) \X STRING
  BY <1>1 DEF SpTree
<1>5. \A x \in DOMAIN d : d[x] \in SpIds \X STRING
  BY <1>4, SpConstants DEF SpIds
<1>6. \A x \in SpItems : r[x] \in SpPlaces
  BY <1>3, <1>5 DEF SpPlaces
<1>7. \A x \in SpSpares : r[x] = Gone
  BY <1>3, <1>4, SpConstants
<1>8. ASSUME NEW x \in SpItems, NEW y \in SpItems, r[x] = r[y], r[x] # Gone PROVE x = y
  <2>1. x \in DOMAIN d /\ y \in DOMAIN d /\ d[x] = d[y]
    BY <1>3, <1>8
  <2> QED BY <1>1, <2>1 DEF SpTree
<1>9. ASSUME NEW s \in SUBSET SpItems, s # {}, \A x \in s : r[x] # Gone PROVE \E x \in s : r[x][1] \notin s
  <2>1. s \in (SUBSET DOMAIN d) \ {{}}
    BY <1>3, <1>9
  <2>2. PICK x \in s : d[x][1] \notin s
    BY <1>1, <2>1 DEF SpTree
  <2>3. r[x] = d[x]
    BY <1>3, <2>1
  <2> QED BY <2>2, <2>3
<1> QED BY <1>3, <1>6, <1>7, <1>8, <1>9 DEF SpDrive

(* A SharePoint call begins with its invariant.                            *)
LEMMA SpInitial ==
  ASSUME SpBegin
  PROVE  Base /\ SpInv
<1>1. PICK c \in Calls, d \in SpDrives :
        c.client = "sharepoint"
        /\ Begin(c, "request", [todo |-> SpPlan(c), folders |-> << >>, source |-> Root, target |-> Root],
                 [x \in SpItems \cup {"token"} |-> IF x = "token" THEN "none" ELSE IF x \in DOMAIN d THEN d[x] ELSE Gone])
  BY DEF SpBegin
<1>2. /\ call = c /\ call \in Calls /\ call.client = "sharepoint" /\ at = "request" /\ told = "none" /\ missed = 0
      /\ left = [todo |-> SpPlan(c), folders |-> << >>, source |-> Root, target |-> Root]
      /\ remote = [x \in SpItems \cup {"token"} |-> IF x = "token" THEN "none" ELSE IF x \in DOMAIN d THEN d[x] ELSE Gone]
      /\ steady = Facts(remote)
  BY <1>1 DEF Begin
<1>3. Base
  BY <1>1, BeginBase
<1>4. /\ SpDrive(remote) /\ \A x \in SpSpares : remote[x] = Gone
      /\ \A s \in SUBSET SpItems : (s # {} /\ \A x \in s : remote[x] # Gone) => \E x \in s : remote[x][1] \notin s
  <2>1. "token" \notin SpItems
    BY SpConstants DEF SpIds
  <2>2. DOMAIN remote = SpItems \cup {"token"} /\ \A x \in SpItems : remote[x] = (IF x \in DOMAIN d THEN d[x] ELSE Gone)
    BY <1>2, <2>1
  <2> QED BY <2>2, SpBeginDrive
<1>5. left \in SpLefts
  <2>1. SpPlan(c) \in Seq(SpReqs) /\ Root \in SpIds
    BY <1>2, SpMembersFit DEF SpFits, SpIds
  <2>2. << >> \in Seq(Seq(STRING))
    OBVIOUS
  <2> QED BY <1>2, <2>1, <2>2, SpLeftIs
<1>6. left.todo = SpPlan(call)
  BY <1>2
<1>7. SpTyped
  <2>1. \A r \in Range(left.todo) : SpAllowed(r)
    BY <1>2, <1>6, SpMembersFit DEF SpFits
  <2>2. \A s \in SUBSET SpItems : (s # {} /\ \A x \in s : SpKept(x)) => \E x \in s : remote[x][1] \notin s
    BY <1>4 DEF SpKept
  <2> QED BY <1>2, <1>4, <1>5, <2>1, <2>2 DEF SpTyped, SpLefts
<1>8. SpSpare = {}
  <2>1. \A x \in SpSpares : x \in DOMAIN remote
    BY <1>7, SpConstants DEF SpTyped, SpDrive
  <2>2. \A x \in SpSpares : <<x, Gone>> \in Facts(remote)
    BY <1>4, <2>1, FactIs
  <2> QED BY <1>2, <2>2 DEF SpSpare
<1>9. SpPre \/ left.todo = SpRest(call)
  BY <1>2, <1>6, SpPlanIs DEF SpPre
<1>10. SpDeletes /\ SpRenames /\ SpMoves
  BY <1>9, SpRestIs DEF SpDeletes, SpRenames, SpMoves
<1>11. SpUploads
  <2>1. call.op = "upload_file" => call.large \in BOOLEAN
    BY <1>2, SpCalls
  <2> QED BY <1>9, <2>1, SpRestIs DEF SpUploads
<1>12. SpCreates
  <2> SUFFICES ASSUME call.op = "create_folder" PROVE SpCreates
    BY DEF SpCreates
  <2>1. Cardinality(SpSpare) <= missed
    BY <1>2, <1>8, FS_EmptySet
  <2>2. SpRest(call) = <<Lookup("make_folder", call.path)>>
    BY SpRestIs
  <2>3. \/ SpRest(call) = <<Find("make_folder", call.path)>>
        \/ \E r : SpRest(call) = <<r>> /\ r.what = "make_folder"
    BY <2>2, SpFindIs DEF Lookup
  <2> QED BY <1>9, <2>1, <2>3 DEF SpCreates
<1> QED BY <1>2, <1>3, <1>7, <1>8, <1>10, <1>11, <1>12 DEF SpInv, SpSparesKept, SpEndsEmpty

(* Every step of a SharePoint call keeps its invariant.                    *)
LEMMA SpStep ==
  ASSUME Base, SpInv, SpAct
  PROVE  SpInv'
<1>1. SpTyped /\ SpDeletes /\ SpRenames /\ SpMoves /\ SpUploads /\ SpSparesKept /\ SpCreates /\ SpEndsEmpty
  BY DEF SpInv
<1>2. SpEndsEmpty'
  <2>1. CASE SpReturn
    BY <2>1 DEF SpReturn, SpEndsEmpty
  <2>2. CASE FetchToken \/ Refused \/ TooMany \/ ServerError \/ Broken
    BY <1>1, <2>2 DEF FetchToken, Refused, TooMany, ServerError, Broken, Again, Goto, Raise, SpEndsEmpty
  <2>3. CASE Success \/ EachFolder
    <3>1. told # "returned" /\ told' = told
      BY <2>3 DEF Success, EachFolder, CanSend, Sending, Base, Ending
    <3> QED BY <3>1 DEF SpEndsEmpty
  <2>4. CASE SpOthers
    <3>1. PICK r : Others(r)
      BY <2>4 DEF SpOthers
    <3> QED BY <1>1, <3>1 DEF Others, SpEndsEmpty
  <2> QED BY <2>1, <2>2, <2>3, <2>4 DEF SpAct, SpNext
<1>3. SpTyped' /\ SpDeletes' /\ SpRenames'
  BY <1>1, SpTypedStep, SpDeletesStep, SpRenamesStep
<1>4. SpMoves' /\ SpUploads'
  BY <1>1, SpMovesStep, SpUploadsStep
<1>5. SpSparesKept' /\ SpCreates'
  BY <1>1, SpSparesKeptStep, SpCreatesStep
<1> QED BY <1>2, <1>3, <1>4, <1>5 DEF SpInv

(* What the invariant says of a SharePoint call that has ended.            *)
LEMMA SpMeans ==
  ASSUME Base, SpInv
  PROVE  (told = "returned" => SpDone) /\ SpNoStrays
<1>1. ASSUME told = "returned" PROVE SpDone
  <2>1. left.todo = << >>
    BY <1>1 DEF SpInv, SpEndsEmpty
  <2>2. ~SpPre
    <3>1. SpRest(call) \in Seq(SpReqs)
      BY SpMembersFit DEF SpInv, SpTyped, SpFits
    <3>2. SpSite \in SpReqs /\ SpItsDrive \in SpReqs
      <4>1. "site" \in SpWhats /\ "drive" \in SpWhats /\ << >> \in Seq(STRING)
        BY DEF SpWhats
      <4> QED BY <4>1, SpReqOf DEF SpSite, SpItsDrive
    <3> QED BY <2>1, <3>1, <3>2, ConsIs, Cons2Is DEF SpPre
  <2>3. \A r : <<r>> # << >>
    OBVIOUS
  <2>4. \A r, q : <<r, q>> # << >>
    OBVIOUS
  <2>5. call.op = "delete_file" => left.source \notin SpSame
    BY <2>1, <2>2, <2>3 DEF SpInv, SpDeletes
  <2>6. call.op = "rename_file" => (left.source \notin SpSame \/ remote[left.source][2] = call.names[1])
    BY <2>1, <2>2, <2>3 DEF SpInv, SpRenames
  <2>7. call.op = "move_file" => (left.source \notin SpSame \/ remote[left.source][1] = left.target)
    BY <2>1, <2>2, <2>3, <2>4 DEF SpInv, SpMoves
  <2>8. call.op = "upload_file" => (Resolved(call.path) # {} \/ ~(SpFiles \cup SpFolders \subseteq SpSame))
    BY <2>1, <2>2, <2>3, <2>4 DEF SpInv, SpUploads
  <2>9. call.op = "create_folder" => <<answer[1], Gone>> \notin steady
    BY <2>1, <2>2, <2>3 DEF SpInv, SpCreates
  <2> QED BY <2>5, <2>6, <2>7, <2>8, <2>9 DEF SpDone
<1>2. SpNoStrays
  <2>0. missed \in Nat /\ Cardinality(SpSpare) \in Nat
    BY SpSpareFinite DEF Base, Counted
  <2>1. CASE call.op = "create_folder"
    BY <2>0, <2>1 DEF SpInv, SpCreates, SpNoStrays
  <2>2. CASE call.op # "create_folder"
    <3>1. Cardinality(SpSpare) = 0
      BY <2>2, FS_EmptySet DEF SpInv, SpSparesKept
    <3> QED BY <2>0, <3>1 DEF SpNoStrays
  <2> QED BY <2>1, <2>2
<1> QED BY <1>1, <1>2

------------------------------------------------------------------------------
(***************************************************************************)
(* SharePointResource: the listings, of folders, of files and by search.   *)
(***************************************************************************)
(* Sequences with one of some members, and with one at most.               *)
Meets(s, M) == \E i \in DOMAIN s : s[i] \in M
Single(s, M) == \A i, j \in DOMAIN s : (s[i] \in M /\ s[j] \in M) => i = j

(* An item that stays in a folder that stays, and so on up to the root.    *)
SpChained(x) == x = Root \/ (x \in SpItems /\ SpKept(x) /\ \A y \in Above(x) : SpKept(y))
SpWays(x) == {q \in Seq(STRING) : x \in Resolved(q)}
SpTop(z) == z \in Resolved(call.path)

(* Requests for the folders in z, or for its files: all, those that have    *)
(* not come to x, and those that hold the folder y until their last page.   *)
SpOfKind(r, kind) == r.what = kind \/ (r.what = "item" /\ r.then = kind)
SpAsking(kind, z) == {r \in SpReqs : SpOfKind(r, kind) /\ z \in Resolved(r.path)}
SpBefore(kind, z, x) == {r \in SpAsking(kind, z) : r.last < Position(x)}
SpHolding(y) == {r \in SpReqs : Meets(r.here, SpWays(y))}
SpSound(r) ==
  /\ r.what \in {"folders", "files"} => \A z \in SpIds : SpChained(z) => (z \in Resolved(r.path) <=> z = r.id)
  /\ r.what = "item" => r.last = 0 /\ r.then # "each_folder"
  /\ r.what # "folders" => r.here = << >>
  /\ SpOfKind(r, "folders") => /\ Len(r.path) >= Len(call.path)
                               /\ \A k \in DOMAIN r.here : Len(r.here[k]) > Len(call.path)
SpListed(op) == op \in {"list_files", "list_newly_created_files"}
SpGoesDown == call.op = "list_folders" \/ (SpListed(call.op) /\ call.recursive)

(* A folder whose parent is done has been found; one that has been found    *)
(* waits with its parent's request, is asked for itself, or is done.        *)
SpReached(z, t, f) == SpTop(z) \/ (call.recursive /\ Meets(f, SpWays(z)) /\ ~Meets(t, SpHolding(z)))
SpFolderIn(y, z, t, f) ==
  /\ Single(f, SpWays(y)) /\ Single(t, SpAsking("folders", y))
  /\ Meets(f, SpWays(y)) => SpReached(z, t, f) /\ ~Meets(t, SpBefore("folders", z, y))
  /\ (~Meets(f, SpWays(y)) /\ SpReached(z, t, f)) => Meets(t, SpBefore("folders", z, y))
  /\ Meets(t, SpHolding(y)) => Meets(f, SpWays(y)) /\ ~Meets(t, SpAsking("folders", y))
  /\ \A r \in Range(t) : r \in SpHolding(y) => r \in SpAsking("folders", z) /\ Single(r.here, SpWays(y))
  /\ Meets(t, SpAsking("folders", y)) => Meets(f, SpWays(y)) /\ call.recursive
SpFoldersIn(t, f) ==
  /\ \A z \in SpIds : (SpChained(z) /\ SpTop(z)) => Single(t, SpAsking("folders", z))
  /\ \A y \in SpFolders : (SpChained(y) /\ ~SpTop(y) /\ remote[y][1] \in SpBelow) => SpFolderIn(y, remote[y][1], t, f)

(* A file is asked for in its folder, once, after the folders were found.   *)
SpFirstPhase(t) == \E i \in DOMAIN t : t[i].what = "each_folder"
SpFileIn(x, z, t, a) ==
  /\ Single(a, {x})
  /\ Meets(a, {x}) => (SpTop(z) \/ ~SpFirstPhase(t)) /\ ~Meets(t, SpBefore("files", z, x))
  /\ (~Meets(a, {x}) /\ (SpTop(z) \/ ~SpFirstPhase(t))) => Meets(t, SpBefore("files", z, x))
SpFilesIn(t, a) ==
  /\ \A z \in SpIds : (SpChained(z) /\ z \in SpBelow) =>
       Single(t, SpAsking("files", z)) /\ ((SpFirstPhase(t) /\ Meets(t, SpAsking("files", z))) => SpTop(z))
  /\ \A x \in SpFiles : (SpChained(x) /\ Chosen(x) /\ remote[x][1] \in SpBelow) => SpFileIn(x, remote[x][1], t, a)
  /\ a \in Seq(SpFiles) /\ \A i \in DOMAIN a : Chosen(a[i]) /\ <<a[i], Gone>> \notin steady
SpParents == \A x \in SpItems : SpKept(x) => (remote[x][1] \in SpFolders \cup {Root} /\ x \notin SpSpares)
SpListsIn(t, f, a) ==
  /\ \A r \in Range(t) : SpSound(r)
  /\ \A i \in DOMAIN t : t[i].what = "each_folder" => i = Len(t)
  /\ \A i \in DOMAIN f : Len(f[i]) > Len(call.path)
  /\ SpGoesDown => SpFoldersIn(t, f)
  /\ SpListed(call.op) => SpFilesIn(t, a)
SpLists ==
  (call.op = "list_folders" \/ SpListed(call.op)) =>
    /\ SpParents /\ SpListsIn(left.todo, left.folders, answer)
    /\ (call.op = "list_folders" /\ told = "returned") => answer = left.folders

(* search_files takes the files in the service's order.                     *)
SpSearching == {r \in SpReqs : r.what = "search"}
SpUnseen(x) == {r \in SpSearching : r.last < Position(x)}
SpSearchIn(t, a) ==
  /\ Single(t, SpSearching) /\ \A r \in Range(t) : r.what # "item"
  /\ \A x \in SpFiles : Single(a, {x}) /\ (Meets(a, {x}) => ~Meets(t, SpUnseen(x)))
  /\ a \in Seq(SpFiles)
  /\ Len(a) <= call.limit /\ (Meets(t, SpSearching) => Len(a) < call.limit)
  /\ Len(a) < call.limit => \A x \in SpFiles : SpKept(x) => (Meets(a, {x}) \/ Meets(t, SpUnseen(x)))
SpSearches == call.op = "search_files" => SpSearchIn(left.todo, answer)

------------------------------------------------------------------------------
(* What a sequence meets, by its parts.                                     *)
LEMMA MeetsIs ==
  ASSUME NEW M, NEW x
  PROVE  /\ ~Meets(<< >>, M) /\ Single(<< >>, M)
         /\ Meets(<<x>>, M) <=> x \in M
         /\ Single(<<x>>, M)
BY DEF Meets, Single

(* What two sequences in a row meet.                                       *)
LEMMA MeetsBoth ==
  ASSUME NEW S, NEW s \in Seq(S), NEW t \in Seq(S), NEW M
  PROVE  /\ Meets(s \o t, M) <=> (Meets(s, M) \/ Meets(t, M))
         /\ Single(s \o t, M) <=> (Single(s, M) /\ Single(t, M) /\ ~(Meets(s, M) /\ Meets(t, M)))
<1> PICK u, m, n : u = s \o t /\ m = Len(s) /\ n = Len(t)
  OBVIOUS
<1>1. /\ m \in Nat /\ n \in Nat /\ DOMAIN s = 1 .. m /\ DOMAIN t = 1 .. n /\ DOMAIN u = 1 .. (m + n)
      /\ \A i \in 1 .. m : u[i] = s[i]
      /\ \A i \in 1 .. n : u[m + i] = t[i]
  BY ConcatIs, SeqMembers
<1>2. \A i \in 1 .. m : i \in 1 .. (m + n)
  BY <1>1
<1>3. \A i \in 1 .. n : m + i \in 1 .. (m + n) /\ m + i \notin 1 .. m
  BY <1>1
<1>4. \A i \in 1 .. (m + n) : i \in 1 .. m \/ (i - m \in 1 .. n /\ m + (i - m) = i)
  BY <1>1
<1>5. \A i \in 1 .. (m + n) : i \in 1 .. m \/ \E j \in 1 .. n : i = m + j
  BY <1>4
<1>6. Meets(u, M) <=> (Meets(s, M) \/ Meets(t, M))
  <2>1. ASSUME Meets(u, M) PROVE Meets(s, M) \/ Meets(t, M)
    <3>1. PICK i \in 1 .. (m + n) : u[i] \in M
      BY <1>1, <2>1 DEF Meets
    <3>2. CASE i \in 1 .. m
      BY <1>1, <3>1, <3>2 DEF Meets
    <3>3. ASSUME NEW j \in 1 .. n, i = m + j PROVE Meets(t, M)
      <4>1. t[j] = u[i]
        BY <1>1, <3>3
      <4> QED BY <1>1, <3>1, <4>1 DEF Meets
    <3> QED BY <1>5, <3>2, <3>3
  <2>2. ASSUME Meets(s, M) PROVE Meets(u, M)
    BY <1>1, <1>2, <2>2 DEF Meets
  <2>3. ASSUME Meets(t, M) PROVE Meets(u, M)
    BY <1>1, <1>3, <2>3 DEF Meets
  <2> QED BY <2>1, <2>2, <2>3
<1>7. ASSUME Single(u, M) PROVE Single(s, M) /\ Single(t, M) /\ ~(Meets(s, M) /\ Meets(t, M))
  <2>1. Single(s, M)
    BY <1>1, <1>2, <1>7 DEF Single
  <2>2. ASSUME NEW i \in 1 .. n, NEW j \in 1 .. n, t[i] \in M, t[j] \in M PROVE i = j
    <3>1. u[m + i] \in M /\ u[m + j] \in M /\ m + i \in DOMAIN u /\ m + j \in DOMAIN u
      BY <1>1, <1>3, <2>2
    <3>2. m + i = m + j
      BY <1>7, <3>1 DEF Single
    <3> QED BY <1>1, <3>2
  <2>3. ASSUME NEW i \in 1 .. m, NEW j \in 1 .. n, s[i] \in M, t[j] \in M PROVE FALSE
    <3>1. u[i] \in M /\ u[m + j] \in M /\ i \in DOMAIN u /\ m + j \in DOMAIN u
      BY <1>1, <1>2, <1>3, <2>3
    <3>2. i = m + j
      BY <1>7, <3>1 DEF Single
    <3> QED BY <1>3, <3>2
  <2> QED BY <1>1, <2>1, <2>2, <2>3 DEF Single, Meets
<1>8. ASSUME Single(s, M), Single(t, M), ~(Meets(s, M) /\ Meets(t, M)) PROVE Single(u, M)
  <2> SUFFICES ASSUME NEW i \in 1 .. (m + n), NEW j \in 1 .. (m + n), u[i] \in M, u[j] \in M PROVE i = j
    BY <1>1 DEF Single
  <2>1. CASE i \in 1 .. m /\ j \in 1 .. m
    BY <1>1, <1>8, <2>1 DEF Single
  <2>2. ASSUME NEW k \in 1 .. n, NEW l \in 1 .. n, i = m + k, j = m + l PROVE i = j
    BY <1>1, <1>8, <2>2 DEF Single
  <2>3. ASSUME NEW k \in 1 .. n, i = m + k, j \in 1 .. m PROVE FALSE
    BY <1>1, <1>8, <2>3 DEF Meets
  <2>4. ASSUME NEW k \in 1 .. n, j = m + k, i \in 1 .. m PROVE FALSE
    BY <1>1, <1>8, <2>4 DEF Meets
  <2> QED BY <1>5, <2>1, <2>2, <2>3, <2>4
<1> QED BY <1>6, <1>7, <1>8

(* What a sequence meets, by its head and its tail.                        *)
LEMMA MeetsHead ==
  ASSUME NEW S, NEW s \in Seq(S), s # << >>, NEW M
  PROVE  /\ Meets(s, M) <=> (Head(s) \in M \/ Meets(Tail(s), M))
         /\ Single(s, M) <=> (Single(Tail(s), M) /\ ~(Head(s) \in M /\ Meets(Tail(s), M)))
<1> PICK h, u, o : h = Head(s) /\ u = Tail(s) /\ o = <<h>>
  OBVIOUS
<1>1. h \in S /\ u \in Seq(S)
  BY HeadTail
<1>2. o \in Seq(S) /\ o \o u = s
  <2>1. o \in Seq(S)
    BY <1>1
  <2>2. Len(o \o u) = 1 + Len(u) /\ (o \o u)[1] = h /\ \A i \in 1 .. Len(u) : (o \o u)[1 + i] = u[i]
    BY <1>1, <2>1, OneThen
  <2>3. Len(u) = Len(s) - 1 /\ Len(s) \in Nat \ {0} /\ s[1] = h /\ \A i \in 1 .. Len(u) : u[i] = s[i + 1]
    BY HeadTail
  <2> PICK v : v = o \o u
    OBVIOUS
  <2>4. ASSUME NEW i \in 1 .. Len(s) PROVE v[i] = s[i]
    <3>1. i = 1 \/ (i - 1 \in 1 .. Len(u) /\ 1 + (i - 1) = i)
      BY <2>3
    <3> QED BY <2>2, <2>3, <3>1
  <2>5. v \in Seq(S) /\ Len(v) = Len(s)
    BY <1>1, <2>1, <2>2, <2>3, ConcatIs
  <2> QED BY <2>1, <2>4, <2>5, SameSeq
<1>3. /\ Meets(o \o u, M) <=> (Meets(o, M) \/ Meets(u, M))
      /\ Single(o \o u, M) <=> (Single(o, M) /\ Single(u, M) /\ ~(Meets(o, M) /\ Meets(u, M)))
  BY <1>1, <1>2, MeetsBoth
<1>4. (Meets(o, M) <=> h \in M) /\ Single(o, M)
  BY MeetsIs
<1> QED BY <1>2, <1>3, <1>4

(* The folders above an item: closed under parents, and the fewest so.      *)
SpAboveBy(r, x) == {y \in SpFolders :
                     \A s \in SUBSET SpFolders :
                       (\A z \in s \cup {x} : r[z][1] \in SpFolders => r[z][1] \in s) => y \in s}
(* The folders an item is in: its parent, theirs, and no others.           *)
LEMMA SpAnyAbove ==
  ASSUME NEW places, NEW x
  PROVE  /\ SpAboveBy(places, x) \subseteq SpFolders
         /\ places[x][1] \in SpFolders => places[x][1] \in SpAboveBy(places, x)
         /\ \A y \in SpAboveBy(places, x) : places[y][1] \in SpFolders => places[y][1] \in SpAboveBy(places, x)
         /\ \A s \in SUBSET SpFolders : (\A z \in s \cup {x} : places[z][1] \in SpFolders => places[z][1] \in s)
                                        => SpAboveBy(places, x) \subseteq s
<1>1. SpAboveBy(places, x) \subseteq SpFolders
  BY DEF SpAboveBy
<1>2. ASSUME NEW y \in SpAboveBy(places, x) \cup {x}, places[y][1] \in SpFolders PROVE places[y][1] \in SpAboveBy(places, x)
  <2> SUFFICES ASSUME NEW s \in SUBSET SpFolders, \A z \in s \cup {x} : places[z][1] \in SpFolders => places[z][1] \in s
               PROVE  places[y][1] \in s
    BY <1>2 DEF SpAboveBy
  <2>1. y \in s \cup {x}
    BY DEF SpAboveBy
  <2> QED BY <1>2, <2>1
<1>3. ASSUME NEW s \in SUBSET SpFolders, \A z \in s \cup {x} : places[z][1] \in SpFolders => places[z][1] \in s
      PROVE  SpAboveBy(places, x) \subseteq s
  BY <1>3 DEF SpAboveBy
<1> QED BY <1>1, <1>2, <1>3

(* The same before a step.                                                 *)
LEMMA SpAboveIs ==
  ASSUME NEW x
  PROVE  /\ Above(x) \subseteq SpFolders
         /\ remote[x][1] \in SpFolders => remote[x][1] \in Above(x)
         /\ \A y \in Above(x) : remote[y][1] \in SpFolders => remote[y][1] \in Above(x)
         /\ \A s \in SUBSET SpFolders : (\A z \in s \cup {x} : remote[z][1] \in SpFolders => remote[z][1] \in s)
                                        => Above(x) \subseteq s
<1>1. Above(x) = SpAboveBy(remote, x)
  BY DEF Above, SpAboveBy
<1> QED BY <1>1, SpAnyAbove

(* The same after it.                                                      *)
LEMMA SpAboveThen ==
  ASSUME NEW x
  PROVE  /\ Above(x)' \subseteq SpFolders
         /\ remote'[x][1] \in SpFolders => remote'[x][1] \in Above(x)'
         /\ \A y \in Above(x)' : remote'[y][1] \in SpFolders => remote'[y][1] \in Above(x)'
         /\ \A s \in SUBSET SpFolders : (\A z \in s \cup {x} : remote'[z][1] \in SpFolders => remote'[z][1] \in s)
                                        => Above(x)' \subseteq s
<1>1. Above(x)' = SpAboveBy(remote', x)
  BY DEF Above, SpAboveBy
<1> QED BY <1>1, SpAnyAbove

(* An item that stays has a parent that stays.                              *)
LEMMA SpChainedUp ==
  ASSUME SpTyped, SpParents, NEW x \in SpItems, SpChained(x)
  PROVE  /\ SpKept(x) /\ remote[x] \in SpIds \X STRING /\ remote[x][1] \in SpFolders \cup {Root}
         /\ SpChained(remote[x][1]) /\ x \notin SpSpares /\ x # Root
<1>1. SpKept(x) /\ x # Root /\ \A y \in Above(x) : SpKept(y)
  BY SpConstants DEF SpChained
<1>2. remote[x][1] \in SpFolders \cup {Root} /\ x \notin SpSpares
  BY <1>1 DEF SpParents
<1>3. remote[x] \in SpIds \X STRING
  BY <1>1 DEF SpKept, SpTyped, SpDrive, SpPlaces
<1> PICK p : p = remote[x][1]
  OBVIOUS
<1>4. ASSUME p \in SpFolders PROVE SpChained(p)
  <2>1. p \in Above(x) /\ p \in SpItems
    BY <1>4, SpAboveIs, SpConstants
  <2>2. Above(x) \in SUBSET SpFolders /\ \A z \in Above(x) \cup {p} : remote[z][1] \in SpFolders => remote[z][1] \in Above(x)
    BY <2>1, SpAboveIs
  <2>3. Above(p) \subseteq Above(x)
    BY <2>2, SpAboveIs
  <2> QED BY <1>1, <2>1, <2>3 DEF SpChained
<1> QED BY <1>1, <1>2, <1>3, <1>4 DEF SpChained

(* One path leads to an item that stays, and to nothing else.               *)
LEMMA SpOneWay ==
  ASSUME SpTyped, SpParents, NEW x \in SpIds, SpChained(x), NEW q \in Seq(STRING), x \in Resolved(q)
  PROVE  /\ \A y \in Resolved(q) : y = x
         /\ \A p \in Seq(STRING) : x \in Resolved(p) => p = q
<1> DEFINE Twice(z) == \E u \in Seq(STRING) : /\ z \in Resolved(u)
                                             /\ \/ \E y \in Resolved(u) : y # z
                                                \/ \E p \in Seq(STRING) : z \in Resolved(p) /\ p # u
           s == {z \in SpItems : SpChained(z) /\ Twice(z)}
<1>1. ASSUME Twice(Root) PROVE FALSE
  <2>1. ASSUME NEW u \in Seq(STRING), Root \in Resolved(u) PROVE u = << >>
    BY <2>1, SpResolved, SpConstants
  <2>2. \A y \in Resolved(<< >>) : y = Root
    BY DEF Resolved
  <2> QED BY <1>1, <2>1, <2>2
<1>2. s = {}
  <2> SUFFICES ASSUME s # {} PROVE FALSE
    OBVIOUS
  <2>1. s \in SUBSET SpItems /\ \A z \in s : SpKept(z)
    BY SpChainedUp
  <2>2. PICK z \in s : remote[z][1] \notin s
    <3> HIDE DEF s
    <3> QED BY <2>1 DEF SpTyped
  <2>3. z \in SpItems /\ SpChained(z) /\ Twice(z)
    OBVIOUS
  <2> PICK w : w = remote[z][1]
    OBVIOUS
  <2>4. SpChained(w) /\ w \in SpFolders \cup {Root} /\ remote[z] # Gone /\ remote[z] = <<w, remote[z][2]>> /\ z # Root
    <3>1. remote[z] \in SpIds \X STRING
      BY <2>3, SpChainedUp
    <3>2. remote[z] = <<remote[z][1], remote[z][2]>>
      BY <3>1
    <3> QED BY <2>3, <3>2, SpChainedUp DEF SpKept
  <2>5. ~Twice(w)
    <3>1. w = Root \/ w \in SpItems
      BY <2>4, SpConstants
    <3>2. w \notin s
      BY <2>2
    <3> QED BY <1>1, <2>4, <3>1, <3>2
  <2>6. PICK u \in Seq(STRING) : z \in Resolved(u) /\ (\/ \E y \in Resolved(u) : y # z
                                                       \/ \E p \in Seq(STRING) : z \in Resolved(p) /\ p # u)
    BY <2>3
  <2> HIDE DEF s
  <2>7. ASSUME NEW p \in Seq(STRING), z \in Resolved(p)
        PROVE  p # << >> /\ w \in Resolved(Front(p)) /\ Last(p) = remote[z][2] /\ Front(p) \in Seq(STRING)
    <3>1. p # << >>
      BY <2>4, <2>7 DEF Resolved
    <3>2. PICK v \in Resolved(Front(p)) : remote[z] = <<v, Last(p)>>
      BY <2>7, <3>1, SpResolved
    <3>3. v = w /\ Last(p) = remote[z][2]
      BY <2>4, <3>2
    <3> QED BY <3>1, <3>2, <3>3, SpFront
  <2>8. ASSUME NEW y \in Resolved(u) PROVE y = z
    <3>1. u # << >> /\ w \in Resolved(Front(u)) /\ Last(u) = remote[z][2] /\ Front(u) \in Seq(STRING)
      BY <2>6, <2>7
    <3>2. PICK v \in Resolved(Front(u)) : y \in SpItems /\ remote[y] = <<v, Last(u)>>
      BY <2>8, <3>1, SpResolved
    <3>3. v = w
      BY <2>5, <3>1, <3>2
    <3>4. remote[y] = remote[z]
      BY <2>4, <3>1, <3>2, <3>3
    <3> QED BY <2>3, <2>4, <3>2, <3>4 DEF SpTyped, SpDrive
  <2>9. ASSUME NEW p \in Seq(STRING), z \in Resolved(p) PROVE p = u
    <3>1. u # << >> /\ w \in Resolved(Front(u)) /\ Last(u) = remote[z][2] /\ Front(u) \in Seq(STRING)
      BY <2>6, <2>7
    <3>2. p # << >> /\ w \in Resolved(Front(p)) /\ Last(p) = remote[z][2] /\ Front(p) \in Seq(STRING)
      BY <2>7, <2>9
    <3>3. Front(p) = Front(u)
      BY <2>5, <3>1, <3>2
    <3>4. Append(Front(p), Last(p)) = p /\ Append(Front(u), Last(u)) = u
      BY <3>1, <3>2, SpFront
    <3> QED BY <3>1, <3>2, <3>3, <3>4
  <2> QED BY <2>6, <2>8, <2>9
<1>3. ~Twice(x)
  <2>1. x \in SpItems => x \notin s
    BY <1>2
  <2> QED BY <1>1, <2>1 DEF SpIds
<1> QED BY <1>3

(* Nothing that stays is above itself.                                      *)
LEMMA SpNoCycle ==
  ASSUME SpTyped, SpParents, NEW x \in SpItems, SpChained(x)
  PROVE  x \notin Above(x) /\ remote[x][1] # x
<1> DEFINE s == {z \in Above(x) \cup {x} : x \in Above(z)}
<1>1. \A z \in Above(x) : z \in SpItems /\ SpKept(z)
  BY SpAboveIs, SpConstants DEF SpChained
<1>2. SpKept(x)
  BY SpChainedUp
<1>3. ASSUME x \in Above(x) PROVE FALSE
  <2>1. s \in SUBSET SpItems /\ x \in s /\ \A z \in s : SpKept(z)
    BY <1>1, <1>2, <1>3
  <2>2. PICK z \in s : remote[z][1] \notin s
    <3> HIDE DEF s
    <3>1. s # {}
      BY <2>1
    <3> QED BY <2>1, <3>1 DEF SpTyped
  <2> PICK w : w = remote[z][1]
    OBVIOUS
  <2>3. z \in Above(x) \cup {x} /\ x \in Above(z) /\ z \in SpItems /\ SpKept(z)
    BY <2>1
  <2>4. w \in SpFolders
    <3>1. w \in SpFolders \cup {Root}
      BY <2>3 DEF SpParents
    <3>2. ASSUME w \notin SpFolders PROVE FALSE
      <4>1. {} \in SUBSET SpFolders /\ \A v \in {} \cup {z} : remote[v][1] \in SpFolders => remote[v][1] \in {}
        BY <3>2
      <4>2. Above(z) \subseteq {}
        BY <4>1, SpAboveIs
      <4> QED BY <2>3, <4>2
    <3> QED BY <3>2
  <2>5. w \in Above(x)
    BY <2>3, <2>4, SpAboveIs
  <2>6. w = x \/ x \in Above(w)
    <3> DEFINE u == Above(w) \cup {w}
    <3>1. u \in SUBSET SpFolders
      BY <2>4, SpAboveIs
    <3>2. \A v \in u \cup {z} : remote[v][1] \in SpFolders => remote[v][1] \in u
      BY SpAboveIs
    <3> HIDE DEF u
    <3>3. Above(z) \subseteq u
      BY <3>1, <3>2, SpAboveIs
    <3> QED BY <2>3, <3>3 DEF u
  <2> QED BY <1>3, <2>2, <2>5, <2>6
<1>4. ASSUME remote[x][1] = x PROVE FALSE
  <2>1. x \in SpFolders
    BY <1>4, SpChainedUp
  <2>2. x \in Above(x)
    BY <1>4, <2>1, SpAboveIs
  <2> QED BY <1>3, <2>2
<1> QED BY <1>3, <1>4

(* What will have stayed has stayed so far, and so has what is above it.    *)
LEMMA SpChainedOn ==
  ASSUME Base, SpTyped, Shape, NEW x \in SpItems, SpChained(x)'
  PROVE  SpChained(x) /\ Above(x)' = Above(x) /\ remote'[x] = remote[x] /\ SpKept(x)
<1>1. SpKept(x)' /\ \A y \in Above(x)' : SpKept(y)'
  BY SpConstants DEF SpChained
<1>2. SpKept(x) /\ remote'[x] = remote[x]
  BY <1>1, SpKeptOn
<1>3. \A y \in Above(x)' : SpKept(y) /\ remote'[y] = remote[y]
  BY <1>1, SpKeptOn
<1> PICK s : s = Above(x)'
  OBVIOUS
<1>4. s \in SUBSET SpFolders /\ \A z \in s \cup {x} : remote[z][1] \in SpFolders => remote[z][1] \in s
  BY <1>2, <1>3, SpAboveThen
<1>5. Above(x) \subseteq s
  BY <1>4, SpAboveIs
<1> PICK u : u = Above(x)
  OBVIOUS
<1>6. u \in SUBSET SpFolders /\ \A z \in u \cup {x} : remote'[z][1] \in SpFolders => remote'[z][1] \in u
  <2>1. \A z \in u \cup {x} : remote'[z] = remote[z]
    BY <1>2, <1>3, <1>5
  <2> QED BY <2>1, SpAboveIs
<1>7. s \subseteq u
  BY <1>6, SpAboveThen
<1>8. SpChained(x)
  BY <1>2, <1>3, <1>5 DEF SpChained
<1> QED BY <1>2, <1>5, <1>7, <1>8

(* The folder of an item that stayed has stayed, after a step.             *)
LEMMA SpChainedUpThen ==
  ASSUME NEW x \in SpItems, SpChained(x)', NEW p \in SpFolders \cup {Root}, remote'[x][1] = p
  PROVE  SpChained(p)'
<1>1. SpKept(x)' /\ \A y \in Above(x)' : SpKept(y)'
  BY SpConstants DEF SpChained
<1>2. CASE p \in SpFolders
  <2>1. p \in Above(x)' /\ p \in SpItems
    BY <1>2, SpAboveThen, SpConstants
  <2> PICK s : s = Above(x)'
    OBVIOUS
  <2>2. s \in SUBSET SpFolders /\ \A z \in s \cup {p} : remote'[z][1] \in SpFolders => remote'[z][1] \in s
    BY <2>1, SpAboveThen
  <2>3. Above(p)' \subseteq s
    BY <2>2, SpAboveThen
  <2>4. SpChained(p)'
    BY <1>1, <2>1, <2>3 DEF SpChained
  <2> QED BY <2>4
<1>3. CASE p = Root
  BY <1>3 DEF SpChained
<1> QED BY <1>2, <1>3

(* Nor has the path to it changed.                                          *)
LEMMA SpSameWays ==
  ASSUME Base, SpTyped, SpParents, Shape, NEW x \in SpIds, SpChained(x)', NEW q \in Seq(STRING)
  PROVE  x \in Resolved(q)' <=> x \in Resolved(q)
<1> DEFINE Differs(z) == \E u \in Seq(STRING) : ~(z \in Resolved(u)' <=> z \in Resolved(u))
           s == {z \in SpItems : SpChained(z)' /\ Differs(z)}
<1>1. ~Differs(Root)
  <2>1. ASSUME NEW u \in Seq(STRING), Root \in Resolved(u) \/ Root \in Resolved(u)' PROVE u = << >>
    BY <2>1, SpResolved, SpConstants
  <2>2. Root \in Resolved(<< >>) /\ Root \in Resolved(<< >>)'
    BY DEF Resolved
  <2> QED BY <2>1, <2>2
<1>2. s = {}
  <2> SUFFICES ASSUME s # {} PROVE FALSE
    OBVIOUS
  <2>1. \A z \in s : SpChained(z) /\ SpKept(z) /\ remote'[z] = remote[z]
    BY SpChainedOn
  <2>2. PICK z \in s : remote[z][1] \notin s
    <3> HIDE DEF s
    <3>1. s \in SUBSET SpItems
      BY DEF s
    <3> QED BY <2>1, <3>1 DEF SpTyped
  <2>3. z \in SpItems /\ SpChained(z)' /\ Differs(z)
    OBVIOUS
  <2> PICK w : w = remote[z][1]
    OBVIOUS
  <2>4. SpChained(z) /\ remote'[z] = remote[z] /\ w \in SpFolders \cup {Root} /\ remote'[z][1] = w /\ z # Root
        /\ remote[z] = <<w, remote[z][2]>>
    <3>1. SpChained(z) /\ remote'[z] = remote[z]
      BY <2>1
    <3>2. remote[z] \in SpIds \X STRING /\ w \in SpFolders \cup {Root} /\ z # Root
      BY <2>3, <3>1, SpChainedUp
    <3>3. remote[z] = <<remote[z][1], remote[z][2]>>
      BY <3>2
    <3> QED BY <3>1, <3>2, <3>3
  <2>5. SpChained(w)'
    BY <2>3, <2>4, SpChainedUpThen
  <2>6. ~Differs(w)
    <3>1. w = Root \/ w \in SpItems
      BY <2>4, SpConstants
    <3>2. w \notin s
      BY <2>2
    <3> QED BY <1>1, <2>5, <3>1, <3>2
  <2>7. PICK u \in Seq(STRING) : ~(z \in Resolved(u)' <=> z \in Resolved(u))
    BY <2>3
  <2> HIDE DEF s
  <2>8. CASE u = << >>
    <3>1. Resolved(u) = {Root} /\ Resolved(u)' = {Root}
      BY <2>8 DEF Resolved
    <3> QED BY <2>7, <3>1
  <2>9. CASE u # << >>
    <3> PICK v, n : v = Front(u) /\ n = Last(u)
      OBVIOUS
    <3>1. v \in Seq(STRING)
      BY <2>9, SpFront
    <3>2. z \in Resolved(u) <=> \E y \in Resolved(v) : remote[z] = <<y, n>>
      BY <2>3, <2>9, SpResolved
    <3>3. z \in Resolved(u)' <=> \E y \in Resolved(v)' : remote'[z] = <<y, n>>
      BY <2>3, <2>9, SpResolved
    <3>4. \A y : remote[z] = <<y, n>> <=> y = w /\ n = remote[z][2]
      BY <2>4
    <3>5. w \in Resolved(v)' <=> w \in Resolved(v)
      BY <2>6, <3>1
    <3> QED BY <2>4, <2>7, <3>2, <3>3, <3>4, <3>5
  <2> QED BY <2>8, <2>9
<1>3. ~Differs(x)
  <2>1. x \in SpItems => x \notin s
    BY <1>2
  <2> QED BY <1>1, <2>1 DEF SpIds
<1> QED BY <1>3

(* So has the place of an item below the folder asked for.                 *)
LEMMA SpBelowOn ==
  ASSUME Base, SpTyped, SpParents, Shape, NEW x \in SpIds, SpChained(x)'
  PROVE  /\ SpTop(x)' <=> SpTop(x)
         /\ x \in SpBelow' => x \in SpBelow
<1>1. call.path \in Seq(STRING) /\ call' = call
  BY SpCalls DEF SpTyped, Shape
<1> PICK p : p = call.path
  OBVIOUS
<1>2. SpTop(x)' <=> x \in Resolved(p)'
  BY <1>1 DEF SpTop, Resolved, Chains
<1>3. SpTop(x)' <=> SpTop(x)
  BY <1>1, <1>2, SpSameWays DEF SpTop
<1>4. Resolved(call.path)' = Resolved(p)'
  BY <1>1 DEF Resolved, Chains
<1>5. ASSUME x \in SpBelow', ~SpTop(x)' PROVE x \in SpBelow
  <2>1. call.recursive /\ x \in SpFolders /\ Resolved(p)' \cap ({Root} \cup Above(x)') # {}
    BY <1>1, <1>2, <1>4, <1>5 DEF SpBelow
  <2>2. PICK z \in Resolved(p)' : z \in {Root} \cup Above(x)'
    BY <2>1
  <2>3. x \in SpItems
    BY <2>1, SpConstants
  <2>4. Above(x)' = Above(x) /\ SpKept(x)
    BY <2>3, SpChainedOn
  <2>5. SpChained(z)' /\ z \in SpIds
    <3>1. CASE z = Root
      BY <3>1 DEF SpChained, SpIds
    <3>2. CASE z \in Above(x)'
      <4>1. z \in SpItems
        BY <3>2, SpAboveThen, SpConstants
      <4>2. Above(z)' \subseteq Above(x)'
        <5> PICK s : s = Above(x)'
          OBVIOUS
        <5>1. s \in SUBSET SpFolders /\ \A v \in s \cup {z} : remote'[v][1] \in SpFolders => remote'[v][1] \in s
          BY <3>2, SpAboveThen
        <5>2. Above(z)' \subseteq s
          BY <5>1, SpAboveThen
        <5> QED BY <5>2
      <4>3. \A y \in Above(x)' : SpKept(y)'
        BY <2>3, SpConstants DEF SpChained
      <4>4. SpKept(z)' /\ \A y \in Above(z)' : SpKept(y)'
        BY <3>2, <4>2, <4>3
      <4> QED BY <4>1, <4>4 DEF SpChained, SpIds
    <3> QED BY <2>2, <3>1, <3>2
  <2>6. z \in Resolved(p)
    BY <1>1, <2>5, SpSameWays
  <2>7. Held(x)
    BY <2>3, <2>4 DEF Held, SpKept
  <2>8. Resolved(call.path) \cap ({Root} \cup Above(x)) # {}
    BY <2>2, <2>4, <2>6
  <2> QED BY <2>1, <2>7, <2>8 DEF SpBelow
<1>6. ASSUME SpTop(x) PROVE x \in SpBelow
  BY <1>6 DEF SpTop, SpBelow
<1> QED BY <1>3, <1>5, <1>6

(* What others do in the drive changes nothing of what has been found, or   *)
(* is to be asked, of the items that stay.                                  *)
LEMMA SpSetsOn ==
  ASSUME Base, SpTyped, SpParents, Shape, NEW x \in SpIds, SpChained(x)'
  PROVE  /\ SpWays(x)' = SpWays(x) /\ SpHolding(x)' = SpHolding(x)
         /\ \A kind : SpAsking(kind, x)' = SpAsking(kind, x)
         /\ \A kind, y : SpBefore(kind, x, y)' = SpBefore(kind, x, y)
<1>1. \A q \in Seq(STRING) : x \in Resolved(q)' <=> x \in Resolved(q)
  BY SpSameWays
<1>2. SpWays(x)' = SpWays(x)
  BY <1>1 DEF SpWays
<1>3. SpHolding(x)' = SpHolding(x)
  <2>1. \A r \in SpReqs : Meets(r.here, SpWays(x))' <=> Meets(r.here, SpWays(x))
    BY <1>2 DEF Meets
  <2> QED BY <2>1 DEF SpHolding
<1>4. ASSUME NEW kind PROVE SpAsking(kind, x)' = SpAsking(kind, x)
  <2>1. \A r \in SpReqs : r.path \in Seq(STRING)
    BY DEF SpReqs
  <2>2. \A r \in SpReqs : SpOfKind(r, kind)' <=> SpOfKind(r, kind)
    BY DEF SpOfKind
  <2>3. \A r \in SpReqs : x \in Resolved(r.path)' <=> x \in Resolved(r.path)
    BY <1>1, <2>1
  <2> QED BY <2>2, <2>3 DEF SpAsking
<1>5. ASSUME NEW kind, NEW y PROVE SpBefore(kind, x, y)' = SpBefore(kind, x, y)
  <2>1. SpAsking(kind, x)' = SpAsking(kind, x)
    BY <1>4
  <2> QED BY <2>1 DEF SpBefore, Position
<1> QED BY <1>2, <1>3, <1>4, <1>5

(* Items that stayed are in folders, after a step as before.               *)
LEMMA SpParentsOn ==
  ASSUME Base, SpTyped, SpParents, Shape
  PROVE  SpParents'
<1>1. ASSUME NEW x \in SpItems, SpKept(x)' PROVE remote'[x][1] \in SpFolders \cup {Root} /\ x \notin SpSpares
  <2>1. SpKept(x) /\ remote'[x] = remote[x]
    BY <1>1, SpKeptOn
  <2> QED BY <2>1 DEF SpParents
<1> QED BY <1>1 DEF SpParents

(* A request that named what it asks for still does.                       *)
LEMMA SpSoundOn ==
  ASSUME Base, SpTyped, SpParents, Shape, NEW r \in SpReqs, SpSound(r)
  PROVE  SpSound(r)'
<1>1. ASSUME r.what \in {"folders", "files"}, NEW z \in SpIds, SpChained(z)' PROVE z \in Resolved(r.path)' <=> z = r.id
  <2>1. SpChained(z)
    <3>1. z = Root \/ z \in SpItems
      BY DEF SpIds
    <3> QED BY <1>1, <3>1, SpChainedOn DEF SpChained
  <2>2. r.path \in Seq(STRING)
    BY DEF SpReqs
  <2>3. z \in Resolved(r.path)' <=> z \in Resolved(r.path)
    BY <1>1, <2>2, SpSameWays
  <2> QED BY <1>1, <2>1, <2>3 DEF SpSound
<1>2. call' = call
  BY DEF Shape
<1> QED BY <1>1, <1>2 DEF SpSound, SpOfKind

(* A folder that was reached still is.                                     *)
LEMMA SpReachedOn ==
  ASSUME Base, SpTyped, SpParents, Shape, NEW z \in SpIds, SpChained(z)', NEW t, NEW f
  PROVE  SpReached(z, t, f)' <=> SpReached(z, t, f)
<1>1. SpWays(z)' = SpWays(z) /\ SpHolding(z)' = SpHolding(z)
  BY SpSetsOn
<1>2. (SpTop(z)' <=> SpTop(z)) /\ call' = call
  BY SpBelowOn DEF Shape
<1> QED BY <1>1, <1>2 DEF SpReached, Meets

(* What is known of a folder does not depend on others at work.            *)
LEMMA SpFolderOn ==
  ASSUME Base, SpTyped, SpParents, Shape, NEW y \in SpIds, NEW z \in SpIds, SpChained(y)', SpChained(z)',
         NEW t, NEW f, SpFolderIn(y, z, t, f)
  PROVE  SpFolderIn(y, z, t, f)'
<1>1. SpWays(y)' = SpWays(y) /\ SpHolding(y)' = SpHolding(y) /\ SpAsking("folders", y)' = SpAsking("folders", y)
  BY SpSetsOn
<1>2. SpAsking("folders", z)' = SpAsking("folders", z) /\ SpBefore("folders", z, y)' = SpBefore("folders", z, y)
  BY SpSetsOn
<1>3. (SpReached(z, t, f)' <=> SpReached(z, t, f)) /\ call' = call
  BY SpReachedOn DEF Shape
<1>4. \A r : Single(r.here, SpWays(y))' <=> Single(r.here, SpWays(y))
  BY <1>1 DEF Single
<1>5. /\ Meets(f, SpWays(y))' <=> Meets(f, SpWays(y))
      /\ Single(f, SpWays(y))' <=> Single(f, SpWays(y))
      /\ Meets(t, SpHolding(y))' <=> Meets(t, SpHolding(y))
      /\ Meets(t, SpAsking("folders", y))' <=> Meets(t, SpAsking("folders", y))
      /\ Single(t, SpAsking("folders", y))' <=> Single(t, SpAsking("folders", y))
      /\ Meets(t, SpBefore("folders", z, y))' <=> Meets(t, SpBefore("folders", z, y))
  BY <1>1, <1>2 DEF Single, Meets
<1>6. Range(t)' = Range(t)
  BY DEF Range
<1> QED BY <1>1, <1>2, <1>3, <1>4, <1>5, <1>6 DEF SpFolderIn

(* An item that stayed after a step had stayed before it.                  *)
LEMMA SpWas ==
  ASSUME Base, SpTyped, Shape, NEW z \in SpIds, SpChained(z)'
  PROVE  SpChained(z)
<1>1. z = Root \/ z \in SpItems
  BY DEF SpIds
<1> QED BY <1>1, SpChainedOn DEF SpChained

(* What is known of all folders does not depend on others at work.         *)
LEMMA SpFoldersOn ==
  ASSUME Base, SpTyped, SpParents, Shape, NEW t, NEW f, SpFoldersIn(t, f)
  PROVE  SpFoldersIn(t, f)'
<1>1. ASSUME NEW z \in SpIds, SpChained(z)', SpTop(z)' PROVE Single(t, SpAsking("folders", z))'
  <2>1. SpChained(z) /\ SpTop(z) /\ SpAsking("folders", z)' = SpAsking("folders", z)
    BY <1>1, SpWas, SpBelowOn, SpSetsOn
  <2>2. Single(t, SpAsking("folders", z))
    BY <2>1 DEF SpFoldersIn
  <2> QED BY <2>1, <2>2 DEF Single
<1>2. ASSUME NEW y \in SpFolders, SpChained(y)', ~SpTop(y)', NEW z, remote'[y][1] = z, z \in SpBelow'
      PROVE  SpFolderIn(y, z, t, f)'
  <2>1. y \in SpItems /\ y \in SpIds
    BY SpConstants DEF SpIds
  <2>2. SpChained(y) /\ remote'[y] = remote[y] /\ ~SpTop(y)
    BY <1>2, <2>1, SpChainedOn, SpBelowOn
  <2>3. z \in SpFolders \cup {Root} /\ z \in SpIds /\ remote[y][1] = z
    BY <1>2, <2>1, <2>2, SpChainedUp, SpConstants DEF SpIds
  <2>4. SpChained(z)'
    BY <1>2, <2>1, <2>3, SpChainedUpThen
  <2>5. z \in SpBelow
    BY <1>2, <2>3, <2>4, SpBelowOn
  <2>6. SpFolderIn(y, z, t, f)
    BY <2>2, <2>3, <2>5 DEF SpFoldersIn
  <2> QED BY <1>2, <2>1, <2>3, <2>4, <2>6, SpFolderOn
<1>3. ASSUME NEW y \in SpFolders, SpChained(y)', ~SpTop(y)', (remote[y][1] \in SpBelow)'
      PROVE  SpFolderIn(y, remote[y][1], t, f)'
  <2> PICK z : z = remote'[y][1]
    OBVIOUS
  <2>1. z \in SpBelow'
    BY <1>3
  <2>2. SpFolderIn(y, z, t, f)'
    BY <1>2, <1>3, <2>1
  <2> QED BY <2>2 DEF SpFolderIn
<1> QED BY <1>1, <1>3 DEF SpFoldersIn

(* Nor does what is known of files.                                        *)
LEMMA SpFilesOn ==
  ASSUME Base, SpTyped, SpParents, Shape, NEW t, NEW a, SpFilesIn(t, a)
  PROVE  SpFilesIn(t, a)'
<1>0. call' = call /\ steady' \subseteq steady /\ SpFirstPhase(t)' = SpFirstPhase(t) /\ \A x : Chosen(x)' = Chosen(x)
  BY ShapeBase DEF Shape, SpFirstPhase, Chosen
<1>1. ASSUME NEW z \in SpIds, SpChained(z)', z \in SpBelow'
      PROVE  (Single(t, SpAsking("files", z)) /\ ((SpFirstPhase(t) /\ Meets(t, SpAsking("files", z))) => SpTop(z)))'
  <2>1. SpChained(z) /\ z \in SpBelow /\ (SpTop(z)' <=> SpTop(z)) /\ SpAsking("files", z)' = SpAsking("files", z)
    BY <1>1, SpWas, SpBelowOn, SpSetsOn
  <2>2. Single(t, SpAsking("files", z)) /\ ((SpFirstPhase(t) /\ Meets(t, SpAsking("files", z))) => SpTop(z))
    BY <2>1 DEF SpFilesIn
  <2> QED BY <1>0, <2>1, <2>2 DEF Single, Meets
<1>2. ASSUME NEW x \in SpFiles, SpChained(x)', Chosen(x)', NEW z, remote'[x][1] = z, z \in SpBelow'
      PROVE  SpFileIn(x, z, t, a)'
  <2>1. x \in SpItems /\ x \in SpIds /\ Chosen(x)
    BY <1>0, <1>2, SpConstants DEF SpIds
  <2>2. SpChained(x) /\ remote'[x] = remote[x]
    BY <1>2, <2>1, SpChainedOn
  <2>3. z \in SpFolders \cup {Root} /\ z \in SpIds /\ remote[x][1] = z
    BY <1>2, <2>1, <2>2, SpChainedUp, SpConstants DEF SpIds
  <2>4. SpChained(z)'
    BY <1>2, <2>1, <2>3, SpChainedUpThen
  <2>5. z \in SpBelow /\ (SpTop(z)' <=> SpTop(z))
    BY <1>2, <2>3, <2>4, SpBelowOn
  <2>6. SpFileIn(x, z, t, a)
    BY <2>1, <2>2, <2>3, <2>5 DEF SpFilesIn
  <2>7. SpBefore("files", z, x)' = SpBefore("files", z, x)
    BY <2>3, <2>4, SpSetsOn
  <2>8. (Meets(t, SpBefore("files", z, x))' <=> Meets(t, SpBefore("files", z, x)))
    BY <2>7 DEF Meets
  <2> QED BY <1>0, <2>5, <2>6, <2>8 DEF SpFileIn, Single, Meets
<1>3. ASSUME NEW x \in SpFiles, SpChained(x)', Chosen(x)', (remote[x][1] \in SpBelow)'
      PROVE  SpFileIn(x, remote[x][1], t, a)'
  <2> PICK z : z = remote'[x][1]
    OBVIOUS
  <2>1. z \in SpBelow'
    BY <1>3
  <2>2. SpFileIn(x, z, t, a)'
    BY <1>2, <1>3, <2>1
  <2> QED BY <2>2 DEF SpFileIn
<1>4. a \in Seq(SpFiles) /\ \A i \in DOMAIN a : Chosen(a[i])' /\ <<a[i], Gone>> \notin steady'
  BY <1>0 DEF SpFilesIn
<1> QED BY <1>1, <1>3, <1>4 DEF SpFilesIn

(* Nor does what is known of a listing.                                    *)
LEMMA SpListsOn ==
  ASSUME Base, SpTyped, SpParents, Shape, NEW t \in Seq(SpReqs), NEW f, NEW a, SpListsIn(t, f, a)
  PROVE  SpListsIn(t, f, a)'
<1>0. call' = call
  BY DEF Shape
<1>1. \A r \in Range(t) : SpSound(r)'
  <2>1. \A r \in Range(t) : r \in SpReqs /\ SpSound(r)
    BY SeqMembers DEF SpListsIn
  <2> QED BY <2>1, SpSoundOn
<1>2. (SpGoesDown' <=> SpGoesDown) /\ (SpListed(call.op)' <=> SpListed(call.op))
  BY <1>0 DEF SpGoesDown, SpListed
<1>3. SpGoesDown' => SpFoldersIn(t, f)'
  BY <1>2, SpFoldersOn DEF SpListsIn
<1>4. SpListed(call.op)' => SpFilesIn(t, a)'
  BY <1>2, SpFilesOn DEF SpListsIn
<1>5. /\ \A i \in DOMAIN t : t[i].what = "each_folder" => i = Len(t)
      /\ \A i \in DOMAIN f : Len(f[i]) > Len(call.path)
  BY DEF SpListsIn
<1>6. Range(t)' = Range(t)
  BY DEF Range
<1> QED BY <1>0, <1>1, <1>3, <1>4, <1>5, <1>6 DEF SpListsIn

(* New requests instead of the one at the head that are none of M, or one   *)
(* that is of M just when that was.                                         *)
SpAlike(t, n, M) == \/ Head(t) \notin M /\ ~Meets(n, M)
                    \/ \E g : n = <<g>> /\ (g \in M <=> Head(t) \in M)
(* Requests put in the place of the head: the rest is met as before.       *)
LEMMA SpSwap ==
  ASSUME NEW S, NEW t \in Seq(S), t # << >>, NEW n \in Seq(S), NEW M, SpAlike(t, n, M)
  PROVE  /\ Meets(n \o Tail(t), M) <=> Meets(t, M)
         /\ Single(n \o Tail(t), M) <=> Single(t, M)
<1>1. Tail(t) \in Seq(S)
  BY HeadTail
<1>2. /\ Meets(n \o Tail(t), M) <=> (Meets(n, M) \/ Meets(Tail(t), M))
      /\ Single(n \o Tail(t), M) <=> (Single(n, M) /\ Single(Tail(t), M) /\ ~(Meets(n, M) /\ Meets(Tail(t), M)))
  BY <1>1, MeetsBoth
<1>3. /\ Meets(t, M) <=> (Head(t) \in M \/ Meets(Tail(t), M))
      /\ Single(t, M) <=> (Single(Tail(t), M) /\ ~(Head(t) \in M /\ Meets(Tail(t), M)))
  BY MeetsHead
<1>4. Single(n, M) /\ (Meets(n, M) <=> Head(t) \in M)
  <2>1. CASE Head(t) \notin M /\ ~Meets(n, M)
    BY <2>1 DEF Single, Meets
  <2>2. ASSUME NEW g, n = <<g>>, g \in M <=> Head(t) \in M PROVE Single(n, M) /\ (Meets(n, M) <=> Head(t) \in M)
    BY <2>2, MeetsIs
  <2> QED BY <2>1, <2>2 DEF SpAlike
<1> QED BY <1>2, <1>3, <1>4

SpEachOnes == {r \in SpReqs : r.what = "each_folder"}
(* The folders are still to be gone through while that is asked for.       *)
LEMMA SpPhaseIs ==
  ASSUME NEW t \in Seq(SpReqs)
  PROVE  SpFirstPhase(t) <=> Meets(t, SpEachOnes)
<1>1. \A i \in DOMAIN t : t[i] \in SpReqs
  BY SeqMembers
<1> QED BY <1>1 DEF SpFirstPhase, Meets, SpEachOnes

(* Going through the folders stays the last request.                       *)
LEMMA SpLastSwap ==
  ASSUME NEW t \in Seq(SpReqs), t # << >>, NEW n \in Seq(SpReqs), \A i \in DOMAIN t : t[i].what = "each_folder" => i = Len(t),
         \A r \in Range(n) : r.what # "each_folder"
  PROVE  /\ \A i \in DOMAIN (n \o Tail(t)) : (n \o Tail(t))[i].what = "each_folder" => i = Len(n \o Tail(t))
         /\ Head(t).what = "each_folder" => Tail(t) = << >>
         /\ Head(t).what # "each_folder" => (SpFirstPhase(n \o Tail(t)) <=> SpFirstPhase(t))
<1> PICK u, k, l : u = Tail(t) /\ k = Len(n) /\ l = Len(t)
  OBVIOUS
<1> PICK v : v = n \o u
  OBVIOUS
<1>1. /\ u \in Seq(SpReqs) /\ l \in Nat \ {0} /\ Len(u) = l - 1 /\ Head(t) = t[1] /\ DOMAIN t = 1 .. l
      /\ \A i \in 1 .. (l - 1) : u[i] = t[i + 1]
  BY HeadTail, SeqMembers
<1>2. /\ v \in Seq(SpReqs) /\ k \in Nat /\ Len(v) = k + (l - 1) /\ DOMAIN v = 1 .. (k + (l - 1))
      /\ \A i \in 1 .. k : v[i] = n[i]
      /\ \A i \in 1 .. (l - 1) : v[k + i] = u[i]
  BY <1>1, ConcatIs
<1>3. \A i \in 1 .. k : n[i].what # "each_folder"
  <2>1. DOMAIN n = 1 .. k
    BY SeqMembers
  <2> QED BY <2>1 DEF Range
<1>4. ASSUME NEW i \in DOMAIN v, v[i].what = "each_folder" PROVE i = Len(v)
  <2>1. i \in 1 .. (k + (l - 1)) /\ i \notin 1 .. k
    BY <1>2, <1>3, <1>4
  <2>2. \E j \in 1 .. (l - 1) : i = k + j /\ j + 1 \in 1 .. l
    <3>1. i - k \in 1 .. (l - 1) /\ i = k + (i - k) /\ (i - k) + 1 \in 1 .. l
      BY <1>1, <1>2, <2>1
    <3> QED BY <3>1
  <2>3. PICK j \in 1 .. (l - 1) : i = k + j /\ j + 1 \in 1 .. l
    BY <2>2
  <2>4. v[i] = t[j + 1]
    BY <1>1, <1>2, <2>3
  <2>5. j + 1 = l
    BY <1>1, <1>4, <2>3, <2>4
  <2>6. l - 1 = j
    BY <1>1, <2>3, <2>5
  <2>7. Len(v) = k + (l - 1)
    BY <1>2
  <2> QED BY <2>3, <2>6, <2>7
<1>5. Head(t).what = "each_folder" => u = << >>
  <2>1. 1 \in 1 .. l
    BY <1>1
  <2>2. ASSUME Head(t).what = "each_folder" PROVE Len(u) = 0
    <3>1. t[1].what = "each_folder" /\ 1 \in DOMAIN t
      BY <1>1, <2>1, <2>2
    <3>2. 1 = Len(t)
      BY <3>1
    <3>3. Len(u) = l - 1 /\ l = 1
      BY <1>1, <3>2
    <3> QED BY <3>3
  <2> QED BY <1>1, <2>2
<1>6. ASSUME Head(t).what # "each_folder" PROVE SpFirstPhase(v) <=> SpFirstPhase(t)
  <2>1. Head(t) \notin SpEachOnes
    BY <1>6 DEF SpEachOnes
  <2>2. ~Meets(n, SpEachOnes)
    BY DEF SpEachOnes, Meets, Range
  <2>3. Meets(v, SpEachOnes) <=> Meets(t, SpEachOnes)
    BY <2>1, <2>2, SpSwap DEF SpAlike
  <2> QED BY <1>2, <2>3, SpPhaseIs
<1> QED BY <1>4, <1>5, <1>6

(* Requests that mean the same for a folder, and for all of them.           *)
SpSameHere(t, n) ==
  \A r \in Range(n) : r.here # << >> =>
    r.here = Head(t).here /\ \A z \in SpIds : Head(t) \in SpAsking("folders", z) => r \in SpAsking("folders", z)
SpSwaps(t, n, M) == (Meets(n \o Tail(t), M) <=> Meets(t, M)) /\ (Single(n \o Tail(t), M) <=> Single(t, M))
(* A folder is found or still to be found when another request is in the   *)
(* place of the head.                                                      *)
LEMMA SpSwapFolder ==
  ASSUME NEW y \in SpIds, NEW z \in SpIds, NEW t \in Seq(SpReqs), t # << >>, NEW n \in Seq(SpReqs), NEW f, SpFolderIn(y, z, t, f),
         SpSwaps(t, n, SpAsking("folders", y)), SpSwaps(t, n, SpBefore("folders", z, y)),
         SpSwaps(t, n, SpHolding(y)), SpSwaps(t, n, SpHolding(z)), SpSameHere(t, n)
  PROVE  SpFolderIn(y, z, n \o Tail(t), f)
<1> PICK v : v = n \o Tail(t)
  OBVIOUS
<1>1. /\ Meets(v, SpAsking("folders", y)) <=> Meets(t, SpAsking("folders", y))
      /\ Single(v, SpAsking("folders", y)) <=> Single(t, SpAsking("folders", y))
      /\ Meets(v, SpBefore("folders", z, y)) <=> Meets(t, SpBefore("folders", z, y))
      /\ Meets(v, SpHolding(y)) <=> Meets(t, SpHolding(y))
      /\ Meets(v, SpHolding(z)) <=> Meets(t, SpHolding(z))
  BY DEF SpSwaps
<1>2. SpReached(z, v, f) <=> SpReached(z, t, f)
  BY <1>1 DEF SpReached
<1>3. ASSUME NEW r \in Range(v), r \in SpHolding(y) PROVE r \in SpAsking("folders", z) /\ Single(r.here, SpWays(y))
  <2>1. r \in Range(n) \/ r \in Range(Tail(t))
    <3>1. Tail(t) \in Seq(SpReqs)
      BY HeadTail
    <3>2. Range(n \o Tail(t)) = Range(n) \cup Range(Tail(t))
      BY <3>1, ConcatIs
    <3> QED BY <1>3, <3>2
  <2>2. Head(t) \in Range(t) /\ Range(Tail(t)) \subseteq Range(t) /\ Head(t) \in SpReqs
    BY HeadTail
  <2>3. CASE r \in Range(Tail(t))
    BY <1>3, <2>2, <2>3 DEF SpFolderIn
  <2>4. CASE r \in Range(n)
    <3>1. Meets(r.here, SpWays(y))
      BY <1>3 DEF SpHolding
    <3>2. r.here # << >>
      BY <3>1 DEF Meets
    <3>3. r.here = Head(t).here /\ (Head(t) \in SpAsking("folders", z) => r \in SpAsking("folders", z))
      BY <2>4, <3>2 DEF SpSameHere
    <3>4. Head(t) \in SpHolding(y)
      BY <2>2, <3>1, <3>3 DEF SpHolding
    <3>5. Head(t) \in SpAsking("folders", z) /\ Single(Head(t).here, SpWays(y))
      BY <2>2, <3>4 DEF SpFolderIn
    <3> QED BY <3>3, <3>5
  <2> QED BY <2>1, <2>3, <2>4
<1> QED BY <1>1, <1>2, <1>3 DEF SpFolderIn

(* So it is with all folders.                                              *)
LEMMA SpSwapFolders ==
  ASSUME SpTyped, SpParents, NEW t \in Seq(SpReqs), t # << >>, NEW n \in Seq(SpReqs), NEW f, SpFoldersIn(t, f),
         \A z \in SpIds : SpAlike(t, n, SpAsking("folders", z)),
         \A z \in SpIds, y \in SpFolders : SpAlike(t, n, SpBefore("folders", z, y)),
         \A y \in SpIds : SpAlike(t, n, SpHolding(y)), SpSameHere(t, n)
  PROVE  SpFoldersIn(n \o Tail(t), f)
<1>1. ASSUME NEW z \in SpIds, SpChained(z), SpTop(z) PROVE Single(n \o Tail(t), SpAsking("folders", z))
  <2>1. Single(t, SpAsking("folders", z))
    BY <1>1 DEF SpFoldersIn
  <2> QED BY <2>1, SpSwap
<1>2. ASSUME NEW y \in SpFolders, SpChained(y), ~SpTop(y), remote[y][1] \in SpBelow
      PROVE  SpFolderIn(y, remote[y][1], n \o Tail(t), f)
  <2> PICK z : z = remote[y][1]
    OBVIOUS
  <2>1. y \in SpItems /\ y \in SpIds
    BY SpConstants DEF SpIds
  <2>2. z \in SpIds
    BY <1>2, <2>1, SpChainedUp, SpConstants DEF SpIds
  <2>3. SpFolderIn(y, z, t, f)
    BY <1>2 DEF SpFoldersIn
  <2>4. /\ SpSwaps(t, n, SpAsking("folders", y)) /\ SpSwaps(t, n, SpBefore("folders", z, y))
        /\ SpSwaps(t, n, SpHolding(y)) /\ SpSwaps(t, n, SpHolding(z))
    BY <2>1, <2>2, SpSwap DEF SpSwaps
  <2> QED BY <2>1, <2>2, <2>3, <2>4, SpSwapFolder
<1> QED BY <1>1, <1>2 DEF SpFoldersIn

(* The members of a sequence with others at its head.                       *)
LEMMA SwapRange ==
  ASSUME NEW S, NEW t \in Seq(S), t # << >>, NEW n \in Seq(S)
  PROVE  /\ n \o Tail(t) \in Seq(S) /\ Range(n \o Tail(t)) = Range(n) \cup Range(Tail(t))
         /\ Tail(t) \in Seq(S) /\ Range(Tail(t)) \subseteq Range(t) /\ Head(t) \in Range(t) /\ Head(t) \in S
<1>1. Tail(t) \in Seq(S)
  BY HeadTail
<1>2. n \o Tail(t) \in Seq(S) /\ Range(n \o Tail(t)) = Range(n) \cup Range(Tail(t))
  BY <1>1, ConcatIs
<1> QED BY <1>1, <1>2, HeadTail

(* Requests that mean the same for files.                                   *)
LEMMA SpSwapFiles ==
  ASSUME SpTyped, SpParents, NEW t \in Seq(SpReqs), t # << >>, NEW n \in Seq(SpReqs), NEW a, SpFilesIn(t, a),
         \A z \in SpIds : SpAlike(t, n, SpAsking("files", z)),
         \A z \in SpIds, x \in SpFiles : SpAlike(t, n, SpBefore("files", z, x)),
         SpFirstPhase(n \o Tail(t)) <=> SpFirstPhase(t)
  PROVE  SpFilesIn(n \o Tail(t), a)
<1> PICK v : v = n \o Tail(t)
  OBVIOUS
<1>1. ASSUME NEW z \in SpIds, SpChained(z), z \in SpBelow
      PROVE  Single(v, SpAsking("files", z)) /\ ((SpFirstPhase(v) /\ Meets(v, SpAsking("files", z))) => SpTop(z))
  <2>1. Single(t, SpAsking("files", z)) /\ ((SpFirstPhase(t) /\ Meets(t, SpAsking("files", z))) => SpTop(z))
    BY <1>1 DEF SpFilesIn
  <2>2. SpSwaps(t, n, SpAsking("files", z))
    BY SpSwap DEF SpSwaps
  <2> QED BY <2>1, <2>2 DEF SpSwaps
<1>2. ASSUME NEW x \in SpFiles, SpChained(x), Chosen(x), remote[x][1] \in SpBelow
      PROVE  SpFileIn(x, remote[x][1], v, a)
  <2> PICK z : z = remote[x][1]
    OBVIOUS
  <2>1. x \in SpItems
    BY SpConstants
  <2>2. z \in SpIds
    BY <1>2, <2>1, SpChainedUp, SpConstants DEF SpIds
  <2>3. SpFileIn(x, z, t, a)
    BY <1>2 DEF SpFilesIn
  <2>4. SpSwaps(t, n, SpBefore("files", z, x))
    BY <2>2, SpSwap DEF SpSwaps
  <2> QED BY <2>3, <2>4 DEF SpFileIn, SpSwaps
<1>3. a \in Seq(SpFiles) /\ \A i \in DOMAIN a : Chosen(a[i]) /\ <<a[i], Gone>> \notin steady
  BY DEF SpFilesIn
<1> QED BY <1>1, <1>2, <1>3 DEF SpFilesIn

(* Requests that mean the same for a listing: those that are for the same   *)
(* folders or files, as far as the one at the head came, or none when that  *)
(* was for none.                                                            *)
SpMean(t, n) ==
  /\ \A k \in {"folders", "files"}, z \in SpIds : SpAlike(t, n, SpAsking(k, z))
  /\ \A k \in {"folders", "files"}, z \in SpIds, x \in SpItems : SpAlike(t, n, SpBefore(k, z, x))
  /\ \A y \in SpIds : SpAlike(t, n, SpHolding(y))
  /\ SpSameHere(t, n)
(* A request that gives way to others of the same meaning keeps the        *)
(* listing.                                                                *)
LEMMA SpListsSwap ==
  ASSUME SpTyped, SpParents, NEW t \in Seq(SpReqs), t # << >>, NEW n \in Seq(SpReqs), NEW f, NEW a, SpListsIn(t, f, a),
         Head(t).what # "each_folder", \A r \in Range(n) : r.what # "each_folder" /\ SpSound(r), SpMean(t, n)
  PROVE  SpListsIn(n \o Tail(t), f, a)
<1> PICK v : v = n \o Tail(t)
  OBVIOUS
<1>1. SpGoesDown => SpFoldersIn(v, f)
  <2>1. SpGoesDown => SpFoldersIn(t, f)
    BY DEF SpListsIn
  <2>2. \A y \in SpFolders : y \in SpItems
    BY SpConstants
  <2> QED BY <2>1, <2>2, SpSwapFolders DEF SpMean
<1>2. /\ \A i \in DOMAIN v : v[i].what = "each_folder" => i = Len(v)
      /\ SpFirstPhase(v) <=> SpFirstPhase(t)
  BY SpLastSwap DEF SpListsIn
<1>3. SpListed(call.op) => SpFilesIn(v, a)
  <2>1. SpListed(call.op) => SpFilesIn(t, a)
    BY DEF SpListsIn
  <2>2. \A x \in SpFiles : x \in SpItems
    BY SpConstants
  <2> QED BY <1>2, <2>1, <2>2, SpSwapFiles DEF SpMean
<1>4. \A r \in Range(v) : SpSound(r)
  <2>1. Range(n \o Tail(t)) = Range(n) \cup Range(Tail(t)) /\ Range(Tail(t)) \subseteq Range(t)
    BY SwapRange
  <2> QED BY <2>1 DEF SpListsIn
<1> QED BY <1>1, <1>2, <1>3, <1>4 DEF SpListsIn

(* Nothing for an answer to a request that is for no folder.                *)
LEMMA SpMeanNone ==
  ASSUME NEW t \in Seq(SpReqs), t # << >>, Head(t).what \notin {"folders", "files", "item"}, Head(t).here = << >>
  PROVE  SpMean(t, << >>)
<1>1. \A k \in {"folders", "files"} : \A z : Head(t) \notin SpAsking(k, z)
  BY DEF SpAsking, SpOfKind
<1>2. \A k \in {"folders", "files"} : \A z, x : Head(t) \notin SpBefore(k, z, x)
  BY <1>1 DEF SpBefore
<1>3. \A y : Head(t) \notin SpHolding(y)
  BY DEF SpHolding, Meets
<1>4. \A M : ~Meets(<< >>, M)
  BY DEF Meets
<1>5. Range(<< >>) = {}
  BY DEF Range
<1> QED BY <1>1, <1>2, <1>3, <1>4, <1>5 DEF SpMean, SpAlike, SpSameHere

(* One request for the other.                                               *)
LEMMA SpMeanOne ==
  ASSUME NEW t \in Seq(SpReqs), t # << >>, NEW g \in SpReqs, g.path = Head(t).path, g.last = Head(t).last, g.here = Head(t).here,
         \A k \in {"folders", "files"} : SpOfKind(g, k) <=> SpOfKind(Head(t), k)
  PROVE  SpMean(t, <<g>>)
<1>0. Head(t) \in SpReqs
  BY HeadTail
<1>1. \A k \in {"folders", "files"} : \A z : g \in SpAsking(k, z) <=> Head(t) \in SpAsking(k, z)
  BY <1>0 DEF SpAsking
<1>2. \A k \in {"folders", "files"} : \A z, x : g \in SpBefore(k, z, x) <=> Head(t) \in SpBefore(k, z, x)
  BY <1>1 DEF SpBefore
<1>3. \A y : g \in SpHolding(y) <=> Head(t) \in SpHolding(y)
  BY <1>0 DEF SpHolding
<1>4. Range(<<g>>) = {g}
  BY DEF Range
<1>5. SpSameHere(t, <<g>>)
  BY <1>1, <1>4 DEF SpSameHere
<1>6. \A M : (g \in M <=> Head(t) \in M) => SpAlike(t, <<g>>, M)
  BY DEF SpAlike
<1> QED BY <1>1, <1>2, <1>3, <1>5, <1>6 DEF SpMean

(* A path that was looked up.                                               *)
LEMMA SpItemMeans ==
  ASSUME SpTyped, SpParents, NEW t \in Seq(SpReqs), t # << >>, Head(t).what = "item", SpSound(Head(t)),
         Head(t).then # "item", NEW x \in Resolved(Head(t).path), NEW g, g = For(Req(Head(t).then, Head(t).path), x)
  PROVE  g \in SpReqs /\ SpSound(g) /\ SpMean(t, <<g>>) /\ g.what # "each_folder"
<1>1. Head(t) \in SpReqs
  BY HeadTail
<1>2. g.what = Head(t).then /\ g.path = Head(t).path /\ g.id = x /\ g.then = "none" /\ g.last = 0 /\ g.here = << >>
  BY DEF For, Req
<1>3. g = [what |-> Head(t).then, path |-> Head(t).path, id |-> x, then |-> "none", last |-> 0, here |-> << >>]
  BY DEF For, Req
<1>4. g \in SpReqs
  <2>1. Head(t).then \in SpWhats /\ Head(t).path \in Seq(STRING) /\ "none" \in SpWhats
    BY <1>1 DEF SpReqs, SpWhats
  <2>2. x \in SpIds
    BY <2>1, SpLeads
  <2> QED BY <1>3, <2>1, <2>2, SpStart
<1>5. Head(t).last = 0 /\ Head(t).then # "each_folder" /\ Head(t).here = << >>
  BY DEF SpSound
<1>6. \A k \in {"folders", "files"} : SpOfKind(g, k) <=> SpOfKind(Head(t), k)
  BY <1>2 DEF SpOfKind
<1>7. SpMean(t, <<g>>)
  BY <1>2, <1>4, <1>5, <1>6, SpMeanOne
<1>8. ASSUME NEW z \in SpIds, SpChained(z) PROVE z \in Resolved(g.path) <=> z = g.id
  <2>1. g.path \in Seq(STRING)
    BY <1>4 DEF SpReqs
  <2>2. z \in Resolved(g.path) => x = z
    BY <1>2, <1>8, <2>1, SpOneWay
  <2> QED BY <1>2, <2>2
<1>9. SpSound(g)
  <2>1. SpOfKind(g, "folders") => SpOfKind(Head(t), "folders")
    BY <1>6
  <2>2. SpOfKind(g, "folders") => Len(g.path) >= Len(call.path)
    BY <1>2, <2>1 DEF SpSound
  <2>3. \A k \in DOMAIN g.here : Len(g.here[k]) > Len(call.path)
    BY <1>2
  <2> QED BY <1>2, <1>8, <2>2, <2>3 DEF SpSound
<1> QED BY <1>2, <1>4, <1>5, <1>7, <1>9

(* What a sequence meets when one is appended.                              *)
LEMMA MeetsAppend ==
  ASSUME NEW S, NEW a \in Seq(S), NEW p \in S, NEW M
  PROVE  /\ Meets(Append(a, p), M) <=> (Meets(a, M) \/ p \in M)
         /\ Single(Append(a, p), M) <=> (Single(a, M) /\ ~(Meets(a, M) /\ p \in M))
<1> PICK o : o = <<p>>
  OBVIOUS
<1>1. o \in Seq(S) /\ Len(o) = 1 /\ o[1] = p
  OBVIOUS
<1>2. Append(a, p) = a \o o
  <2>1. /\ a \o o \in Seq(S) /\ Len(a \o o) = Len(a) + 1 /\ Len(a) \in Nat /\ (a \o o)[Len(a) + 1] = p
        /\ \A i \in 1 .. Len(a) : (a \o o)[i] = a[i]
    BY <1>1, ConcatIs
  <2>2. /\ Append(a, p) \in Seq(S) /\ Len(Append(a, p)) = Len(a) + 1 /\ Append(a, p)[Len(a) + 1] = p
        /\ \A i \in 1 .. Len(a) : Append(a, p)[i] = a[i]
    BY AppendIs
  <2>3. \A i \in 1 .. (Len(a) + 1) : i \in 1 .. Len(a) \/ i = Len(a) + 1
    BY <2>1
  <2>4. \A i \in 1 .. Len(a \o o) : Append(a, p)[i] = (a \o o)[i]
    BY <2>1, <2>2, <2>3
  <2> QED BY <2>1, <2>2, <2>4, SameSeq
<1>3. /\ Meets(a \o o, M) <=> (Meets(a, M) \/ Meets(o, M))
      /\ Single(a \o o, M) <=> (Single(a, M) /\ Single(o, M) /\ ~(Meets(a, M) /\ Meets(o, M)))
  BY <1>1, MeetsBoth
<1>4. (Meets(o, M) <=> p \in M) /\ Single(o, M)
  BY MeetsIs
<1> QED BY <1>2, <1>3, <1>4

(* What a sequence of one meets.                                            *)
LEMMA MeetsOne ==
  ASSUME NEW g, NEW n, n = <<g>>
  PROVE  \A M : (Meets(n, M) <=> g \in M) /\ Single(n, M)
BY MeetsIs

(* A request for the next page.                                             *)
LEMMA SpNextSets ==
  ASSUME NEW h \in SpReqs, NEW m \in Nat, NEW q, q = [h EXCEPT !.last = m]
  PROVE  /\ q \in SpReqs /\ q.what = h.what /\ q.path = h.path /\ q.id = h.id /\ q.then = h.then /\ q.last = m /\ q.here = h.here
         /\ \A k, z : q \in SpAsking(k, z) <=> h \in SpAsking(k, z)
         /\ \A k, z, x : q \in SpBefore(k, z, x) <=> (h \in SpAsking(k, z) /\ m < Position(x))
         /\ \A y : q \in SpHolding(y) <=> h \in SpHolding(y)
         /\ (h.what # "item" /\ SpSound(h)) => SpSound(q)
<1>1. q \in SpReqs /\ q.what = h.what /\ q.path = h.path /\ q.id = h.id /\ q.then = h.then /\ q.last = m /\ q.here = h.here
  BY DEF SpReqs
<1>2. \A k : SpOfKind(q, k) <=> SpOfKind(h, k)
  BY <1>1 DEF SpOfKind
<1>3. \A k, z : q \in SpAsking(k, z) <=> h \in SpAsking(k, z)
  BY <1>1, <1>2 DEF SpAsking
<1>4. \A k, z, x : q \in SpBefore(k, z, x) <=> (h \in SpAsking(k, z) /\ m < Position(x))
  BY <1>1, <1>3 DEF SpBefore
<1>5. \A y : q \in SpHolding(y) <=> h \in SpHolding(y)
  BY <1>1 DEF SpHolding
<1>6. (h.what # "item" /\ SpSound(h)) => SpSound(q)
  BY <1>1, <1>2 DEF SpSound
<1> QED BY <1>1, <1>3, <1>4, <1>5, <1>6

(* The one request for a folder is at the head.                             *)
LEMMA SpAlone ==
  ASSUME NEW t \in Seq(SpReqs), t # << >>, NEW k, NEW z, Single(t, SpAsking(k, z)), Head(t) \in SpAsking(k, z)
  PROVE  ~Meets(Tail(t), SpAsking(k, z)) /\ \A x : ~Meets(Tail(t), SpBefore(k, z, x))
<1>1. ~Meets(Tail(t), SpAsking(k, z))
  BY MeetsHead
<1> QED BY <1>1 DEF Meets, SpBefore

(* What a page begins with, and what is after it.                           *)
LEMMA SpPageOrder ==
  ASSUME NEW C, C \subseteq SpItems, C # {}, NEW m \in Nat, NEW w \in SpItems, w \in C <=> m < Position(w), m < Position(FirstOf(C))
  PROVE  m < Position(w) <=> (w = FirstOf(C) \/ Position(FirstOf(C)) < Position(w))
<1>1. FirstOf(C) \in C /\ \A y \in C : Position(FirstOf(C)) <= Position(y)
  BY SpFirstIs
<1>2. Position(w) \in Nat /\ Position(FirstOf(C)) \in Nat /\ (Position(w) = Position(FirstOf(C)) => w = FirstOf(C))
  BY <1>1, SpPositions
<1>3. CASE w \in C
  BY <1>1, <1>2, <1>3
<1>4. CASE w \notin C
  BY <1>1, <1>2, <1>4
<1> QED BY <1>3, <1>4

(* What a page has of the items that stayed.                                *)
LEMMA SpChildIs ==
  ASSUME SpTyped, SpParents, left.todo # << >>, NEW k, k \in {"folders", "files"}, Target.what = k, SpSound(Target),
         NEW w \in SpItems, SpChained(w), NEW z, z = remote[w][1]
  PROVE  /\ w \in Children <=> Target \in SpBefore(k, z, w)
         /\ Target \in SpAsking(k, z) <=> z = Target.id
         /\ Target \in SpBefore(k, z, w) <=> (z = Target.id /\ Target.last < Position(w))
<1>1. Target \in SpReqs
  BY SpTarget
<1>2. z \in SpIds /\ SpChained(z)
  BY SpChainedUp, SpConstants DEF SpIds
<1>3. z \in Resolved(Target.path) <=> z = Target.id
  BY <1>2 DEF SpSound
<1>4. Target \in SpAsking(k, z) <=> z = Target.id
  BY <1>1, <1>3 DEF SpAsking, SpOfKind
<1>5. Target \in SpBefore(k, z, w) <=> (z = Target.id /\ Target.last < Position(w))
  BY <1>4 DEF SpBefore
<1>6. w \in Children <=> (z = Target.id /\ Position(w) > Target.last)
  BY DEF Children, Later
<1>7. Position(w) \in Nat /\ Target.last \in Nat
  BY <1>1, SpPositions DEF SpReqs
<1> QED BY <1>4, <1>5, <1>6, <1>7

(* A page of files: a file that comes with it was to come, and the others   *)
(* are still to come.                                                       *)
SpAnswered(C, a) == IF C # {} /\ Chosen(FirstOf(C)) THEN Append(a, FirstOf(C)) ELSE a
(* A page of files: a file of the folder is held, or comes on a later      *)
(* page.                                                                   *)
LEMMA SpFilePage ==
  ASSUME SpTyped, SpParents, left.todo # << >>, Target.what = "files", SpSound(Target),
         NEW a \in Seq(SpFiles), NEW x \in SpFiles, SpChained(x), Chosen(x), NEW z, z = remote[x][1], SpFileIn(x, z, left.todo, a),
         Single(left.todo, SpAsking("files", z)),
         (SpFirstPhase(left.todo) /\ Meets(left.todo, SpAsking("files", z))) => SpTop(z),
         NEW v, v = NextPage(Children) \o Tail(left.todo), SpFirstPhase(v) <=> SpFirstPhase(left.todo)
  PROVE  SpFileIn(x, z, v, SpAnswered(Children, a))
<1> PICK t, h, u, n, b, C : t = left.todo /\ h = Target /\ u = Tail(left.todo) /\ n = NextPage(Children) /\ b = SpAnswered(Children, a) /\ C = Children
  OBVIOUS
<1> PICK p : p = FirstOf(C)
  OBVIOUS
<1>1. x \in SpItems /\ h \in SpReqs /\ h.last \in Nat /\ t \in Seq(SpReqs) /\ h = Head(t) /\ u = Tail(t) /\ u \in Seq(SpReqs) /\ t # << >>
  <2>1. h \in SpReqs
    BY SpTarget
  <2>2. t \in Seq(SpReqs)
    BY DEF SpTyped
  <2> QED BY <2>1, <2>2, SpConstants, HeadTail DEF Target, SpReqs
<1>2. /\ x \in C <=> h \in SpBefore("files", z, x)
      /\ h \in SpAsking("files", z) <=> z = h.id
      /\ h \in SpBefore("files", z, x) <=> (z = h.id /\ h.last < Position(x))
  BY <1>1, SpChildIs
<1>3. /\ C \subseteq SpItems /\ \A y \in C : remote[y][1] = h.id /\ Later(y, h.last)
      /\ C # {} => p \in C
  <2>1. C \subseteq SpItems /\ \A y \in C : remote[y][1] = h.id /\ Later(y, h.last)
    BY DEF Children
  <2> QED BY <2>1, SpFirstIs
<1>4. (n = << >> /\ C \subseteq {p}) \/ (C # {} /\ n = <<[h EXCEPT !.last = Position(p)]>>)
  BY <1>3, SpNextIs
<1>5. h \in SpAsking("files", z) => ~Meets(u, SpBefore("files", z, x))
  BY <1>1, SpAlone
<1>6. Meets(t, SpBefore("files", z, x)) <=> (h \in SpBefore("files", z, x) \/ Meets(u, SpBefore("files", z, x)))
  BY <1>1, MeetsHead
<1>7. C # {} => Position(p) \in Nat /\ h.last < Position(p)
  <2>1. C # {} => Position(p) \in Nat /\ Position(p) > h.last
    BY <1>3, SpPositions DEF Later
  <2> QED BY <1>1, <2>1
<1>8. (C # {} /\ z = h.id) => (h.last < Position(x) <=> (x = p \/ Position(p) < Position(x)))
  BY <1>1, <1>2, <1>3, <1>7, SpPageOrder
<1>9. n \in Seq(SpReqs) /\ (Meets(n, SpBefore("files", z, x)) <=> (n # << >> /\ z = h.id /\ Position(p) < Position(x)))
  <2>1. CASE n = << >>
    BY <2>1 DEF Meets
  <2>2. CASE C # {} /\ n = <<[h EXCEPT !.last = Position(p)]>>
    <3> PICK q : q = [h EXCEPT !.last = Position(p)]
      OBVIOUS
    <3>1. q \in SpReqs /\ (q \in SpBefore("files", z, x) <=> (h \in SpAsking("files", z) /\ Position(p) < Position(x)))
      BY <1>1, <1>7, <2>2, SpNextSets
    <3>2. n = <<q>>
      BY <2>2
    <3>3. Meets(n, SpBefore("files", z, x)) <=> q \in SpBefore("files", z, x)
      BY <3>2, MeetsOne
    <3>4. n \in Seq(SpReqs) /\ n # << >>
      BY <3>1, <3>2
    <3> QED BY <1>2, <3>1, <3>3, <3>4
  <2> QED BY <1>4, <2>1, <2>2
<1>10. Meets(v, SpBefore("files", z, x)) <=> (Meets(n, SpBefore("files", z, x)) \/ Meets(u, SpBefore("files", z, x)))
  <2>1. n \in Seq(SpReqs)
    BY <1>9
  <2>2. u \in Seq(SpReqs)
    BY <1>1
  <2>3. Meets(n \o u, SpBefore("files", z, x)) <=> (Meets(n, SpBefore("files", z, x)) \/ Meets(u, SpBefore("files", z, x)))
    BY <2>1, <2>2, MeetsBoth
  <2>4. v = n \o u
    OBVIOUS
  <2> QED BY <2>3, <2>4
<1>11. /\ Meets(b, {x}) <=> (Meets(a, {x}) \/ (C # {} /\ x = p))
       /\ Single(b, {x}) <=> (Single(a, {x}) /\ ~(Meets(a, {x}) /\ C # {} /\ x = p))
  <2>1. CASE C # {} /\ Chosen(p)
    <3>1. b = Append(a, p) /\ p \in SpFiles
      BY <2>1 DEF SpAnswered, Chosen
    <3>2. /\ Meets(b, {x}) <=> (Meets(a, {x}) \/ p \in {x})
          /\ Single(b, {x}) <=> (Single(a, {x}) /\ ~(Meets(a, {x}) /\ p \in {x}))
      BY <3>1, MeetsAppend
    <3> QED BY <2>1, <3>2
  <2>2. CASE ~(C # {} /\ Chosen(p))
    <3>1. b = a
      BY <2>2 DEF SpAnswered
    <3> QED BY <2>2, <3>1
  <2> QED BY <2>1, <2>2
<1>12. /\ Single(a, {x})
       /\ Meets(a, {x}) => (SpTop(z) \/ ~SpFirstPhase(t)) /\ ~Meets(t, SpBefore("files", z, x))
       /\ (~Meets(a, {x}) /\ (SpTop(z) \/ ~SpFirstPhase(t))) => Meets(t, SpBefore("files", z, x))
  BY DEF SpFileIn
<1>13. (C # {} /\ x = p) => h \in SpBefore("files", z, x) /\ h \in SpAsking("files", z) /\ z = h.id
  BY <1>2, <1>3
<1>14. (C # {} /\ x = p) => (SpTop(z) \/ ~SpFirstPhase(t))
  <2>1. h \in SpAsking("files", z) => Meets(t, SpAsking("files", z))
    BY <1>1, MeetsHead
  <2> QED BY <1>13, <2>1
<1>15. x = p => ~(Position(p) < Position(x))
  BY <1>1, SpPositions
<1>16. Single(b, {x})
  BY <1>6, <1>11, <1>12, <1>13
<1>17. Meets(b, {x}) => (SpTop(z) \/ ~SpFirstPhase(v)) /\ ~Meets(v, SpBefore("files", z, x))
  <2>1. CASE Meets(a, {x})
    BY <1>2, <1>4, <1>6, <1>8, <1>9, <1>10, <1>12, <2>1
  <2>2. CASE C # {} /\ x = p
    BY <1>5, <1>9, <1>10, <1>13, <1>14, <1>15, <2>2
  <2> QED BY <1>11, <2>1, <2>2
<1>18. (~Meets(b, {x}) /\ (SpTop(z) \/ ~SpFirstPhase(v))) => Meets(v, SpBefore("files", z, x))
  <2> SUFFICES ASSUME ~Meets(b, {x}), SpTop(z) \/ ~SpFirstPhase(v) PROVE Meets(v, SpBefore("files", z, x))
    OBVIOUS
  <2>1. ~Meets(a, {x}) /\ ~(C # {} /\ x = p) /\ Meets(t, SpBefore("files", z, x))
    BY <1>11, <1>12
  <2>2. CASE h \in SpBefore("files", z, x)
    <3>1. x \in C /\ C # {} /\ x # p /\ z = h.id
      BY <1>2, <2>1, <2>2
    <3>2. ASSUME n = << >> PROVE FALSE
      <4>1. C \subseteq {p}
        BY <1>4, <3>2
      <4> QED BY <3>1, <4>1
    <3>3. Position(p) < Position(x)
      BY <1>2, <1>8, <2>2, <3>1
    <3> QED BY <1>9, <1>10, <3>1, <3>2, <3>3
  <2> QED BY <1>6, <1>10, <2>1, <2>2
<1> QED BY <1>16, <1>17, <1>18 DEF SpFileIn

(* One request less, or one that is for no more.                            *)
LEMMA SpFewer ==
  ASSUME NEW S, NEW t \in Seq(S), t # << >>, NEW n \in Seq(S), NEW M,
         n = << >> \/ \E g : n = <<g>> /\ (g \in M => Head(t) \in M)
  PROVE  /\ Meets(n \o Tail(t), M) => Meets(t, M)
         /\ Single(t, M) => Single(n \o Tail(t), M)
<1>1. Tail(t) \in Seq(S)
  BY HeadTail
<1>2. /\ Meets(n \o Tail(t), M) <=> (Meets(n, M) \/ Meets(Tail(t), M))
      /\ Single(n \o Tail(t), M) <=> (Single(n, M) /\ Single(Tail(t), M) /\ ~(Meets(n, M) /\ Meets(Tail(t), M)))
  BY <1>1, MeetsBoth
<1>3. /\ Meets(t, M) <=> (Head(t) \in M \/ Meets(Tail(t), M))
      /\ Single(t, M) <=> (Single(Tail(t), M) /\ ~(Head(t) \in M /\ Meets(Tail(t), M)))
  BY MeetsHead
<1>4. Single(n, M) /\ (Meets(n, M) => Head(t) \in M)
  <2>1. CASE n = << >>
    BY <2>1 DEF Single, Meets
  <2>2. ASSUME NEW g, n = <<g>>, g \in M => Head(t) \in M PROVE Single(n, M) /\ (Meets(n, M) => Head(t) \in M)
    BY <2>2, MeetsOne
  <2> QED BY <2>1, <2>2
<1> QED BY <1>2, <1>3, <1>4

(* The request for the next page, or none.                                  *)
LEMMA SpNextOne ==
  ASSUME SpTyped, left.todo # << >>, Target.what # "item", SpSound(Target), NEW C, C \subseteq SpItems
  PROVE  /\ NextPage(C) \in Seq(SpReqs)
         /\ NextPage(C) = << >> \/ \E q \in SpReqs : /\ NextPage(C) = <<q>> /\ SpSound(q) /\ q.what = Target.what /\ q.here = Target.here
                                                    /\ q.path = Target.path /\ q.then = Target.then /\ Range(NextPage(C)) = {q}
<1> PICK n, h, p : n = NextPage(C) /\ h = Target /\ p = FirstOf(C)
  OBVIOUS
<1>1. h \in SpReqs
  BY SpTarget
<1>2. n = << >> \/ (C # {} /\ n = <<[h EXCEPT !.last = Position(p)]>>)
  BY SpNextIs
<1>3. CASE n = << >>
  BY <1>3
<1>4. CASE C # {} /\ n = <<[h EXCEPT !.last = Position(p)]>>
  <2> PICK q : q = [h EXCEPT !.last = Position(p)]
    OBVIOUS
  <2>1. Position(p) \in Nat
    BY <1>4, SpFirstIs, SpPositions
  <2>2. q \in SpReqs /\ q.what = h.what /\ q.here = h.here /\ q.path = h.path /\ q.then = h.then /\ SpSound(q)
    BY <1>1, <2>1, SpNextSets
  <2>3. n = <<q>>
    BY <1>4
  <2>4. Range(n) = {q} /\ n \in Seq(SpReqs)
    BY <2>2, <2>3, OneIs
  <2> QED BY <2>2, <2>3, <2>4
<1> QED BY <1>2, <1>3, <1>4

(* A page of files leaves what is known of folders.                         *)
LEMMA SpFilesLeaveFolders ==
  ASSUME SpTyped, SpParents, left.todo # << >>, Target.what = "files", SpSound(Target), NEW f, SpFoldersIn(left.todo, f)
  PROVE  SpFoldersIn(NextPage(Children) \o Tail(left.todo), f)
<1> PICK t, n : t = left.todo /\ n = NextPage(Children)
  OBVIOUS
<1>1. t \in Seq(SpReqs) /\ t # << >> /\ Head(t) = Target /\ Head(t) \in SpReqs
  BY SpTarget DEF SpTyped, Target
<1>2. Children \subseteq SpItems
  BY DEF Children
<1>3. n \in Seq(SpReqs) /\ (n = << >> \/ \E q \in SpReqs : n = <<q>> /\ q.what = "files" /\ q.here = Head(t).here /\ Range(n) = {q})
  BY <1>1, <1>2, SpNextOne
<1>4. Head(t).here = << >>
  BY <1>1 DEF SpSound
<1>5. \A q \in SpReqs : q.what = "files" => \A z : q \notin SpAsking("folders", z) /\ \A x : q \notin SpBefore("folders", z, x)
  BY DEF SpAsking, SpBefore, SpOfKind
<1>6. \A q \in SpReqs : q.here = << >> => \A y : q \notin SpHolding(y)
  BY DEF SpHolding, Meets
<1>7. ASSUME NEW M, \A q \in SpReqs : (q.what = "files" /\ q.here = << >>) => q \notin M PROVE SpAlike(t, n, M)
  <2>1. Head(t) \notin M
    BY <1>1, <1>4, <1>7
  <2>2. ~Meets(n, M)
    <3>1. CASE n = << >>
      BY <3>1 DEF Meets
    <3>2. ASSUME NEW q \in SpReqs, n = <<q>>, q.what = "files", q.here = Head(t).here PROVE ~Meets(n, M)
      <4>1. q \notin M
        BY <1>4, <1>7, <3>2
      <4> QED BY <3>2, <4>1, MeetsOne
    <3> QED BY <1>3, <3>1, <3>2
  <2> QED BY <2>1, <2>2 DEF SpAlike
<1>8. SpSameHere(t, n)
  <2>1. \A r \in Range(n) : r.here = << >>
    BY <1>3, <1>4 DEF Range
  <2> QED BY <2>1 DEF SpSameHere
<1>9. /\ \A z \in SpIds : SpAlike(t, n, SpAsking("folders", z))
      /\ \A z \in SpIds, y \in SpFolders : SpAlike(t, n, SpBefore("folders", z, y))
      /\ \A y \in SpIds : SpAlike(t, n, SpHolding(y))
  BY <1>5, <1>6, <1>7
<1> QED BY <1>1, <1>3, <1>8, <1>9, SpSwapFolders

(* A page of files keeps what is known of files.                            *)
LEMMA SpFilesPageFiles ==
  ASSUME Base, SpTyped, SpParents, left.todo # << >>, Target.what = "files", SpSound(Target), NEW a, SpFilesIn(left.todo, a),
         NEW v, v = NextPage(Children) \o Tail(left.todo), SpFirstPhase(v) <=> SpFirstPhase(left.todo)
  PROVE  SpFilesIn(v, SpAnswered(Children, a))
<1> PICK t, n, b : t = left.todo /\ n = NextPage(Children) /\ b = SpAnswered(Children, a)
  OBVIOUS
<1>1. t \in Seq(SpReqs) /\ t # << >> /\ Head(t) = Target /\ Head(t) \in SpReqs
  BY SpTarget DEF SpTyped, Target
<1>2. Children \subseteq SpItems
  BY DEF Children
<1>3. n \in Seq(SpReqs) /\ (n = << >> \/ \E q \in SpReqs : n = <<q>> /\ q.what = "files" /\ q.path = Head(t).path)
  BY <1>1, <1>2, SpNextOne
<1>4. ASSUME NEW z \in SpIds, SpChained(z), z \in SpBelow
      PROVE  /\ Single(t, SpAsking("files", z)) /\ ((SpFirstPhase(t) /\ Meets(t, SpAsking("files", z))) => SpTop(z))
             /\ Single(v, SpAsking("files", z)) /\ ((SpFirstPhase(v) /\ Meets(v, SpAsking("files", z))) => SpTop(z))
  <2>1. Single(t, SpAsking("files", z)) /\ ((SpFirstPhase(t) /\ Meets(t, SpAsking("files", z))) => SpTop(z))
    BY <1>4 DEF SpFilesIn
  <2>2. n = << >> \/ \E q : n = <<q>> /\ (q \in SpAsking("files", z) => Head(t) \in SpAsking("files", z))
    <3>1. \A q \in SpReqs : q.path = Head(t).path => (q \in SpAsking("files", z) => Head(t) \in SpAsking("files", z))
      BY <1>1 DEF SpAsking, SpOfKind
    <3> QED BY <1>3, <3>1
  <2>3. n \in Seq(SpReqs)
    BY <1>3
  <2>4. /\ Meets(n \o Tail(t), SpAsking("files", z)) => Meets(t, SpAsking("files", z))
        /\ Single(t, SpAsking("files", z)) => Single(n \o Tail(t), SpAsking("files", z))
    BY <1>1, <2>2, <2>3, SpFewer
  <2> QED BY <2>1, <2>4
<1>5. a \in Seq(SpFiles) /\ \A i \in DOMAIN a : Chosen(a[i]) /\ <<a[i], Gone>> \notin steady
  BY DEF SpFilesIn
<1>6. ASSUME NEW x \in SpFiles, SpChained(x), Chosen(x), NEW z, z = remote[x][1], z \in SpBelow
      PROVE  SpFileIn(x, z, v, b)
  <2>1. SpFileIn(x, z, t, a)
    BY <1>6 DEF SpFilesIn
  <2>2. x \in SpItems
    BY SpConstants
  <2>3. z \in SpIds /\ SpChained(z)
    BY <1>6, <2>2, SpChainedUp, SpConstants DEF SpIds
  <2>4. Single(t, SpAsking("files", z)) /\ ((SpFirstPhase(t) /\ Meets(t, SpAsking("files", z))) => SpTop(z))
    BY <1>4, <1>6, <2>3
  <2> QED BY <1>5, <1>6, <2>1, <2>4, SpFilePage
<1>7. b \in Seq(SpFiles) /\ \A i \in DOMAIN b : Chosen(b[i]) /\ <<b[i], Gone>> \notin steady
  <2>1. CASE Children # {} /\ Chosen(FirstOf(Children))
    <3> PICK p : p = FirstOf(Children)
      OBVIOUS
    <3>1. p \in Children /\ p \in SpFiles /\ b = Append(a, p) /\ Chosen(p)
      BY <1>2, <2>1, SpFirstIs DEF Chosen, SpAnswered
    <3>2. remote[p] # Gone
      BY <3>1, SpChildren
    <3>3. <<p, Gone>> \notin steady
      BY <3>2, NotSteady DEF Base, Known
    <3>4. /\ Append(a, p) \in Seq(SpFiles) /\ DOMAIN a = 1 .. Len(a) /\ DOMAIN Append(a, p) = 1 .. (Len(a) + 1) /\ Len(a) \in Nat
          /\ Append(a, p)[Len(a) + 1] = p /\ \A i \in 1 .. Len(a) : Append(a, p)[i] = a[i]
      BY <1>5, <3>1, AppendIs
    <3>5. ASSUME NEW i \in DOMAIN b PROVE Chosen(b[i]) /\ <<b[i], Gone>> \notin steady
      <4>1. i \in 1 .. Len(a) \/ i = Len(a) + 1
        BY <3>1, <3>4
      <4>2. (i \in DOMAIN a /\ b[i] = a[i]) \/ b[i] = p
        BY <3>1, <3>4, <4>1
      <4> QED BY <1>5, <3>1, <3>3, <4>2
    <3> QED BY <3>1, <3>4, <3>5
  <2>2. CASE ~(Children # {} /\ Chosen(FirstOf(Children)))
    <3>1. b = a
      BY <2>2 DEF SpAnswered
    <3> QED BY <1>5, <3>1
  <2> QED BY <2>1, <2>2
<1>8. ASSUME NEW x \in SpFiles, SpChained(x), Chosen(x), remote[x][1] \in SpBelow
      PROVE  SpFileIn(x, remote[x][1], v, b)
  BY <1>6, <1>8
<1> QED BY <1>4, <1>7, <1>8 DEF SpFilesIn

(* A page of files keeps what is known of a listing.                        *)
LEMMA SpFilesPageIn ==
  ASSUME Base, SpTyped, SpParents, left.todo # << >>, Target.what = "files", SpListed(call.op), NEW f, NEW a, SpListsIn(left.todo, f, a)
  PROVE  SpListsIn(NextPage(Children) \o Tail(left.todo), f, SpAnswered(Children, a))
<1> PICK t, n : t = left.todo /\ n = NextPage(Children)
  OBVIOUS
<1> PICK v : v = n \o Tail(t)
  OBVIOUS
<1>1. t \in Seq(SpReqs) /\ t # << >> /\ Head(t) = Target /\ Head(t) \in SpReqs /\ Head(t) \in Range(t)
  BY SpTarget DEF SpTyped, Target
<1>2. SpSound(Target)
  BY <1>1 DEF SpListsIn
<1>3. Children \subseteq SpItems
  BY DEF Children
<1>4. n \in Seq(SpReqs) /\ \A r \in Range(n) : r.what = "files" /\ SpSound(r)
  <2>1. n \in Seq(SpReqs) /\ (n = << >> \/ \E q \in SpReqs : SpSound(q) /\ q.what = "files" /\ Range(n) = {q})
    BY <1>2, <1>3, SpNextOne
  <2>2. CASE n = << >>
    BY <2>1, <2>2 DEF Range
  <2> QED BY <2>1, <2>2
<1>5. /\ \A i \in DOMAIN v : v[i].what = "each_folder" => i = Len(v)
      /\ SpFirstPhase(v) <=> SpFirstPhase(t)
  <2>1. \A r \in Range(n) : r.what # "each_folder"
    BY <1>4
  <2>2. n \in Seq(SpReqs)
    BY <1>4
  <2>3. \A i \in DOMAIN t : t[i].what = "each_folder" => i = Len(t)
    BY DEF SpListsIn
  <2>4. Head(t).what # "each_folder"
    BY <1>1
  <2> QED BY <1>1, <2>1, <2>2, <2>3, <2>4, SpLastSwap
<1>6. \A r \in Range(v) : SpSound(r)
  <2>1. n \in Seq(SpReqs)
    BY <1>4
  <2>2. Range(n \o Tail(t)) = Range(n) \cup Range(Tail(t)) /\ Range(Tail(t)) \subseteq Range(t)
    BY <1>1, <2>1, SwapRange
  <2> QED BY <1>4, <2>2 DEF SpListsIn
<1>7. SpGoesDown => SpFoldersIn(v, f)
  BY <1>2, SpFilesLeaveFolders DEF SpListsIn
<1>8. SpFilesIn(v, SpAnswered(Children, a))
  BY <1>2, <1>5, SpFilesPageFiles DEF SpListsIn
<1> QED BY <1>5, <1>6, <1>7, <1>8 DEF SpListsIn

(* A sequence with one more value: what comes before it, and the value.     *)
LEMMA FrontAppendOf ==
  ASSUME NEW S, NEW s \in Seq(S), NEW e \in S
  PROVE  Append(s, e) \in Seq(S) /\ Append(s, e) # << >> /\ Front(Append(s, e)) = s /\ Last(Append(s, e)) = e
         /\ Len(Append(s, e)) = Len(s) + 1
<1>1. /\ Append(s, e) \in Seq(S) /\ Append(s, e) # << >> /\ Len(Append(s, e)) = Len(s) + 1 /\ Len(s) \in Nat
      /\ Append(s, e)[Len(s) + 1] = e /\ \A i \in 1 .. Len(s) : Append(s, e)[i] = s[i]
  BY AppendIs
<1>2. PICK q : q = Append(s, e)
  OBVIOUS
<1>3. /\ q \in Seq(S) /\ q # << >> /\ Len(q) = Len(s) + 1 /\ Len(s) \in Nat
      /\ q[Len(s) + 1] = e /\ \A i \in 1 .. Len(s) : q[i] = s[i]
  BY <1>1, <1>2, Zenon
<1>4. /\ SubSeq(q, 1, Len(s)) \in Seq(S) /\ Len(SubSeq(q, 1, Len(s))) = Len(s)
      /\ \A i \in 1 .. Len(s) : SubSeq(q, 1, Len(s))[i] = q[i]
  BY <1>3
<1>5. SubSeq(q, 1, Len(s)) = s
  BY <1>3, <1>4, SameSeq
<1>6. Len(q) - 1 = Len(s)
  BY <1>3
<1>7. Front(q) = s
  BY <1>5, <1>6, Zenon DEF Front
<1>8. Last(q) = e
  BY <1>3, Zenon DEF Last
<1> QED BY <1>2, <1>3, <1>7, <1>8, Zenon

(* A path with one more name.                                               *)
LEMMA FrontAppend ==
  ASSUME NEW s \in Seq(STRING), NEW e \in STRING
  PROVE  Append(s, e) \in Seq(STRING) /\ Append(s, e) # << >> /\ Front(Append(s, e)) = s /\ Last(Append(s, e)) = e
         /\ Len(Append(s, e)) = Len(s) + 1
BY FrontAppendOf, Zenon

(* The folder that a page finds, if it stays.                               *)
LEMMA SpNewMeets ==
  ASSUME SpTyped, SpParents, left.todo # << >>, Target.what = "folders", SpSound(Target),
         NEW w \in SpFolders, SpChained(w)
  PROVE  /\ Meets(NewFolders(Children), SpWays(w)) <=> (Children # {} /\ w = FirstOf(Children))
         /\ Single(NewFolders(Children), SpWays(w))
<1> PICK G, C, p, h : G = NewFolders(Children) /\ C = Children /\ p = FirstOf(C) /\ h = Target
  OBVIOUS
<1>1. C \subseteq SpItems /\ (C # {} => p \in C)
  BY SpChildren, SpFirstIs
<1>2. w \in SpItems /\ w \notin SpFiles
  BY SpConstants
<1>3. CASE C # {} /\ p \notin SpFiles
  <2>1. remote[p] \in SpIds \X STRING /\ remote[p][1] = h.id /\ remote[p][2] \in STRING /\ p \in SpItems /\ remote[p] # Gone
    BY <1>1, <1>3, SpChildren
  <2>2. h.path \in Seq(STRING)
    BY SpTarget DEF SpReqs
  <2>0. PICK q : q = Append(h.path, remote[p][2])
    OBVIOUS
  <2>3. q \in Seq(STRING) /\ q # << >> /\ Front(q) = h.path /\ Last(q) = remote[p][2]
    BY <2>0, <2>1, <2>2, FrontAppend
  <2>4. w \in Resolved(q) <=> \E z \in Resolved(h.path) : remote[w] = <<z, remote[p][2]>>
    <3>1. w \in Resolved(q) <=> w \in SpItems /\ \E z \in Resolved(Front(q)) : remote[w] = <<z, Last(q)>>
      BY <2>3, SpResolved
    <3> QED BY <1>2, <2>3, <3>1
  <2>5. remote[w] \in SpIds \X STRING /\ SpChained(remote[w][1]) /\ remote[w][1] \in SpIds
    BY <1>2, SpChainedUp, SpConstants DEF SpIds
  <2>6. remote[w][1] \in Resolved(h.path) <=> remote[w][1] = h.id
    BY <2>5 DEF SpSound
  <2>7. ASSUME w \in Resolved(q) PROVE w = p
    <3>1. PICK z \in Resolved(h.path) : remote[w] = <<z, remote[p][2]>>
      BY <2>4, <2>7
    <3>2. remote[w][1] = z /\ remote[w][2] = remote[p][2]
      BY <3>1
    <3>3. remote[w][1] = remote[p][1]
      BY <2>1, <2>6, <3>2
    <3>4. remote[w] = remote[p]
      BY <2>1, <2>5, <3>2, <3>3
    <3> QED BY <1>2, <2>1, <3>4 DEF SpTyped, SpDrive
  <2>8. ASSUME w = p PROVE w \in Resolved(q)
    <3>1. remote[w] = <<remote[w][1], remote[w][2]>>
      BY <2>5
    <3>2. remote[w][1] \in Resolved(h.path)
      BY <2>1, <2>6, <2>8
    <3> QED BY <2>4, <2>8, <3>1, <3>2
  <2>9. q \in SpWays(w) <=> w = p
    BY <2>3, <2>7, <2>8 DEF SpWays
  <2>10. G = <<q>>
    BY <1>3, <2>0 DEF NewFolders
  <2>11. (Meets(G, SpWays(w)) <=> q \in SpWays(w)) /\ Single(G, SpWays(w))
    BY <2>10, MeetsOne
  <2> QED BY <1>3, <2>9, <2>11
<1>4. CASE ~(C # {} /\ p \notin SpFiles)
  <2>1. G = << >>
    BY <1>4 DEF NewFolders
  <2>2. ~Meets(G, SpWays(w)) /\ Single(G, SpWays(w))
    BY <2>1 DEF Meets, Single
  <2> QED BY <1>2, <1>4, <2>2
<1> QED BY <1>3, <1>4

(* What is longer than the path of the call does not lead to its folder.    *)
LEMMA SpTopShort ==
  ASSUME SpTyped, SpParents, NEW z \in SpIds, SpChained(z), SpTop(z), NEW q \in Seq(STRING), Len(q) > Len(call.path)
  PROVE  q \notin SpWays(z)
<1>1. call.path \in Seq(STRING)
  BY SpCalls DEF SpTyped
<1>2. z \in Resolved(call.path)
  BY DEF SpTop
<1>3. z \in Resolved(q) => q = call.path
  BY <1>1, <1>2, SpOneWay
<1>4. q # call.path
  BY <1>1
<1> QED BY <1>3, <1>4 DEF SpWays

(* The fields of a lookup.                                                  *)
LEMMA SpFindHas ==
  ASSUME NEW w, NEW q
  PROVE  /\ Find(w, q).what = "item" /\ Find(w, q).then = w /\ Find(w, q).path = q
         /\ Find(w, q).here = << >> /\ Find(w, q).last = 0 /\ Find(w, q).id = Root
BY DEF Find, Req

(* Going into the folders found.                                            *)
LEMMA SpIntoMeets ==
  ASSUME SpTyped, SpKind(call.op, "folders"), call.op # "upload_file", NEW here \in Seq(Seq(STRING)),
         \A k \in DOMAIN here : Len(here[k]) > Len(call.path)
  PROVE  /\ Into(here) \in Seq(SpReqs)
         /\ \A r \in Range(Into(here)) : SpSound(r) /\ r.here = << >> /\ r.what = "item" /\ r.then = "folders"
         /\ \A z : /\ Meets(Into(here), SpAsking("folders", z)) <=> (call.recursive /\ Meets(here, SpWays(z)))
                   /\ Single(here, SpWays(z)) => Single(Into(here), SpAsking("folders", z))
         /\ \A z : \A y \in SpItems : Meets(Into(here), SpBefore("folders", z, y)) <=> Meets(Into(here), SpAsking("folders", z))
<1> PICK I : I = Into(here)
  OBVIOUS
<1>1. I \in Seq(SpReqs)
  BY SpIntos
<1>2. CASE ~call.recursive
  <2>1. I = << >>
    BY <1>2 DEF Into
  <2>2. Range(I) = {} /\ (\A M : ~Meets(I, M) /\ Single(I, M))
    BY <2>1 DEF Range, Meets, Single
  <2> QED BY <1>1, <1>2, <2>2
<1>3. CASE call.recursive
  <2>1. Len(call.path) \in Nat
    BY SpCalls DEF SpTyped
  <2>2. DOMAIN here = 1 .. Len(here) /\ \A i \in DOMAIN here : here[i] \in Seq(STRING)
    BY SeqMembers
  <2>3. \A i \in DOMAIN here : here[i] # << >>
    <3>1. Len(<< >>) = 0
      OBVIOUS
    <3> QED BY <2>1, <3>1
  <2>4. DOMAIN I = DOMAIN here /\ \A i \in DOMAIN here : I[i] = Find("folders", here[i])
    BY <1>3, <2>3 DEF Into, Lookup
  <2>5. \A i \in DOMAIN I : I[i] \in SpReqs
    BY <1>1, SeqMembers
  <2>6. \A i \in DOMAIN I : /\ I[i].what = "item" /\ I[i].then = "folders" /\ I[i].path = here[i]
                            /\ I[i].here = << >> /\ I[i].last = 0
    BY <2>4, SpFindHas
  <2>7. \A i \in DOMAIN I : \A z : I[i] \in SpAsking("folders", z) <=> here[i] \in SpWays(z)
    BY <2>2, <2>4, <2>5, <2>6 DEF SpAsking, SpWays, SpOfKind
  <2>8. \A z : Meets(I, SpAsking("folders", z)) <=> Meets(here, SpWays(z))
    BY <2>4, <2>7 DEF Meets
  <2>9. \A z : Single(here, SpWays(z)) => Single(I, SpAsking("folders", z))
    BY <2>4, <2>7 DEF Single
  <2>10. ASSUME NEW z, NEW y \in SpItems PROVE Meets(I, SpBefore("folders", z, y)) <=> Meets(I, SpAsking("folders", z))
    <3>1. 0 < Position(y)
      BY SpPositions
    <3>2. \A i \in DOMAIN I : I[i] \in SpBefore("folders", z, y) <=> I[i] \in SpAsking("folders", z)
      BY <2>6, <3>1 DEF SpBefore
    <3> QED BY <3>2 DEF Meets
  <2>11. ASSUME NEW r \in Range(I) PROVE SpSound(r) /\ r.here = << >> /\ r.what = "item" /\ r.then = "folders"
    <3>1. PICK i \in DOMAIN I : r = I[i]
      BY DEF Range
    <3>2. r.what = "item" /\ r.then = "folders" /\ r.path = here[i] /\ r.here = << >> /\ r.last = 0
      BY <2>6, <3>1
    <3>3. Len(r.path) >= Len(call.path) /\ \A k \in DOMAIN r.here : Len(r.here[k]) > Len(call.path)
      <4>1. here[i] \in Seq(STRING) /\ Len(here[i]) > Len(call.path)
        BY <2>2, <2>4
      <4>2. Len(here[i]) >= Len(call.path)
        BY <2>1, <4>1
      <4>3. DOMAIN << >> = {}
        OBVIOUS
      <4> QED BY <3>2, <4>2, <4>3
    <3> QED BY <3>2, <3>3 DEF SpSound
  <2> QED BY <1>1, <1>3, <2>8, <2>9, <2>10, <2>11
<1> QED BY <1>2, <1>3

(* A folder that is below the one asked for, and is not it, is in one that  *)
(* is below it too.                                                         *)
LEMMA SpBelowUp ==
  ASSUME SpTyped, SpParents, NEW z \in SpIds, SpChained(z), z \in SpBelow, ~SpTop(z)
  PROVE  z \in SpFolders /\ call.recursive /\ remote[z][1] \in SpBelow
<1>1. call.recursive /\ z \in SpFolders /\ Resolved(call.path) \cap ({Root} \cup Above(z)) # {}
  BY DEF SpBelow, SpTop
<1> PICK v : v = remote[z][1]
  OBVIOUS
<1>2. z \in SpItems
  BY <1>1, SpConstants
<1>3. v \in SpFolders \cup {Root} /\ SpChained(v)
  BY <1>2, SpChainedUp
<1>4. PICK d \in Resolved(call.path) : d = Root \/ d \in Above(z)
  BY <1>1
<1>5. CASE v \in Resolved(call.path)
  BY <1>1, <1>5 DEF SpBelow
<1>6. ASSUME v \notin Resolved(call.path) PROVE v \in SpBelow
  <2>1. v = Root => Above(z) = {}
    <3>1. v = Root => v \notin SpFolders
      BY SpConstants
    <3>2. v = Root => Above(z) \subseteq {}
      <4>1. \A s \in SUBSET SpFolders : (\A c \in s \cup {z} : remote[c][1] \in SpFolders => remote[c][1] \in s) => Above(z) \subseteq s
        BY SpAboveIs
      <4>2. {} \in SUBSET SpFolders
        OBVIOUS
      <4> QED BY <3>1, <4>1, <4>2
    <3> QED BY <3>2
  <2>2. v # Root
    BY <1>4, <1>6, <2>1
  <2>3. v \in SpFolders /\ v \in SpItems
    BY <1>3, <2>2, SpConstants
  <2>4. Held(v)
    BY <1>3, <2>3, SpChainedUp DEF Held, SpKept
  <2>5. Above(z) \subseteq {v} \cup Above(v)
    <3>1. {v} \cup Above(v) \in SUBSET SpFolders
      BY <2>3, SpAboveIs
    <3>2. \A c \in ({v} \cup Above(v)) \cup {z} : remote[c][1] \in SpFolders => remote[c][1] \in {v} \cup Above(v)
      BY SpAboveIs
    <3> QED BY <3>1, <3>2, SpAboveIs
  <2>6. d = Root \/ d \in Above(v)
    BY <1>4, <1>6, <2>5
  <2> QED BY <1>1, <1>4, <2>3, <2>4, <2>6 DEF SpBelow
<1> QED BY <1>1, <1>5, <1>6

(* What a page of folders adds to what was found, for a folder that stays.  *)
SpIsNew(w) == Children # {} /\ w = FirstOf(Children)
SpHere == Target.here \o NewFolders(Children)
(* A page of folders: what it says of one of them, and of one it does not  *)
(* have.                                                                   *)
LEMMA SpFoundIs ==
  ASSUME SpTyped, SpParents, left.todo # << >>, Target.what = "folders", SpSound(Target),
         NEW w \in SpFolders, SpChained(w), NEW v, v = remote[w][1],
         NEW f \in Seq(Seq(STRING)), SpFolderIn(w, v, left.todo, f)
  PROVE  /\ SpIsNew(w) => /\ Target \in SpBefore("folders", v, w) /\ Target \in SpAsking("folders", v)
                          /\ ~Meets(f, SpWays(w)) /\ ~Meets(left.todo, SpAsking("folders", w))
                          /\ Target \notin SpHolding(w) /\ ~Meets(left.todo, SpHolding(w))
         /\ Meets(f \o NewFolders(Children), SpWays(w)) <=> (Meets(f, SpWays(w)) \/ SpIsNew(w))
         /\ Single(f \o NewFolders(Children), SpWays(w))
         /\ Meets(SpHere, SpWays(w)) <=> (Target \in SpHolding(w) \/ SpIsNew(w))
         /\ Single(SpHere, SpWays(w))
         /\ Target \in SpHolding(w) => /\ Target \in SpAsking("folders", v) /\ Meets(f, SpWays(w)) /\ Meets(left.todo, SpHolding(w))
                                       /\ ~Meets(left.todo, SpAsking("folders", w))
<1> PICK t, h, G : t = left.todo /\ h = Target /\ G = NewFolders(Children)
  OBVIOUS
<1>1. t \in Seq(SpReqs) /\ h \in SpReqs /\ h = Head(t) /\ h \in Range(t) /\ t # << >>
  BY SpTarget DEF SpTyped, Target
<1>2. w \in SpItems
  BY SpConstants
<1>3. h.here \in Seq(Seq(STRING))
  BY <1>1 DEF SpReqs
<1>4. G \in Seq(Seq(STRING))
  BY SpNewFolders
<1>5. (Meets(G, SpWays(w)) <=> SpIsNew(w)) /\ Single(G, SpWays(w))
  BY SpNewMeets DEF SpIsNew
<1>6. /\ Single(f, SpWays(w))
      /\ Meets(f, SpWays(w)) => ~Meets(t, SpBefore("folders", v, w))
      /\ Meets(t, SpHolding(w)) => Meets(f, SpWays(w)) /\ ~Meets(t, SpAsking("folders", w))
      /\ Meets(t, SpAsking("folders", w)) => Meets(f, SpWays(w))
  BY DEF SpFolderIn
<1>7. h \in SpHolding(w) => h \in SpAsking("folders", v) /\ Single(h.here, SpWays(w))
  BY <1>1 DEF SpFolderIn
<1>8. /\ h \in SpHolding(w) => Meets(t, SpHolding(w))
      /\ h \in SpBefore("folders", v, w) => Meets(t, SpBefore("folders", v, w))
  BY <1>1, MeetsHead
<1>9. SpIsNew(w) => h \in SpBefore("folders", v, w) /\ h \in SpAsking("folders", v)
  <2>1. SpIsNew(w) => w \in Children
    BY SpFirstIs, SpChildren DEF SpIsNew
  <2>2. w \in Children <=> h \in SpBefore("folders", v, w)
    BY <1>2, SpChildIs
  <2> QED BY <2>1, <2>2 DEF SpBefore
<1>10. SpIsNew(w) => /\ ~Meets(f, SpWays(w)) /\ ~Meets(t, SpAsking("folders", w))
                     /\ ~Meets(t, SpHolding(w)) /\ h \notin SpHolding(w)
  BY <1>6, <1>8, <1>9
<1>11. /\ Meets(f \o G, SpWays(w)) <=> (Meets(f, SpWays(w)) \/ Meets(G, SpWays(w)))
       /\ Single(f \o G, SpWays(w)) <=> (Single(f, SpWays(w)) /\ Single(G, SpWays(w)) /\ ~(Meets(f, SpWays(w)) /\ Meets(G, SpWays(w))))
  BY <1>4, MeetsBoth
<1>12. /\ Meets(h.here \o G, SpWays(w)) <=> (Meets(h.here, SpWays(w)) \/ Meets(G, SpWays(w)))
       /\ Single(h.here \o G, SpWays(w)) <=> (Single(h.here, SpWays(w)) /\ Single(G, SpWays(w)) /\ ~(Meets(h.here, SpWays(w)) /\ Meets(G, SpWays(w))))
  BY <1>3, <1>4, MeetsBoth
<1>13. h \in SpHolding(w) <=> Meets(h.here, SpWays(w))
  BY <1>1 DEF SpHolding
<1>14. Single(h.here, SpWays(w))
  <2>1. h \notin SpHolding(w) => Single(h.here, SpWays(w))
    BY <1>13 DEF Single, Meets
  <2> QED BY <1>7, <2>1
<1>15. SpHere = h.here \o G
  BY DEF SpHere
<1>16. /\ Meets(f \o G, SpWays(w)) <=> (Meets(f, SpWays(w)) \/ SpIsNew(w))
       /\ Single(f \o G, SpWays(w))
  BY <1>5, <1>6, <1>10, <1>11
<1>17. /\ Meets(SpHere, SpWays(w)) <=> (h \in SpHolding(w) \/ SpIsNew(w))
       /\ Single(SpHere, SpWays(w))
  BY <1>5, <1>10, <1>12, <1>13, <1>14, <1>15
<1>18. h \in SpHolding(w) => h \in SpAsking("folders", v) /\ Meets(f, SpWays(w)) /\ Meets(t, SpHolding(w)) /\ ~Meets(t, SpAsking("folders", w))
  BY <1>6, <1>7, <1>8
<1> QED BY <1>9, <1>10, <1>16, <1>17, <1>18

(* A folder that is asked for has been reached.                             *)
LEMMA SpAskedReached ==
  ASSUME NEW z, NEW zz, NEW t, NEW f, SpTop(z) \/ SpFolderIn(z, zz, t, f), Meets(t, SpAsking("folders", z))
  PROVE  SpReached(z, t, f)
BY DEF SpReached, SpFolderIn

(* The same, when the page is not the last: the request goes on with what   *)
(* it has found.                                                            *)
LEMMA SpFolderMore ==
  ASSUME SpTyped, SpParents, left.todo # << >>, Target.what = "folders", SpSound(Target), Children # {},
         NEW y \in SpFolders, SpChained(y), NEW z, z = remote[y][1], NEW f \in Seq(Seq(STRING)), SpFolderIn(y, z, left.todo, f),
         Single(left.todo, SpAsking("folders", z)),
         NEW zz, SpTop(z) \/ (z \in SpFolders /\ zz = remote[z][1] /\ SpFolderIn(z, zz, left.todo, f)),
         NEW q \in SpReqs, q.here = SpHere, \A k, x : q \in SpAsking(k, x) <=> Target \in SpAsking(k, x),
         \A k, x, w : q \in SpBefore(k, x, w) <=> (Target \in SpAsking(k, x) /\ Position(FirstOf(Children)) < Position(w))
  PROVE  SpFolderIn(y, z, <<q>> \o Tail(left.todo), f \o NewFolders(Children))
<1> PICK t, h, g, p : t = left.todo /\ h = Target /\ g = f \o NewFolders(Children) /\ p = FirstOf(Children)
  OBVIOUS
<1>0. PICK n : n = <<q>>
  OBVIOUS
<1> PICK u, v : u = Tail(t) /\ v = n \o u
  OBVIOUS
<1>1. t \in Seq(SpReqs) /\ h \in SpReqs /\ h = Head(t) /\ h \in Range(t) /\ t # << >> /\ h.last \in Nat
  BY SpTarget DEF SpTyped, Target, SpReqs
<1>2. n \in Seq(SpReqs) /\ Range(n) = {q}
  BY <1>0, OneIs
<1>3. y \in SpItems /\ SpChained(z) /\ z \in SpIds
  BY SpChainedUp, SpConstants DEF SpIds
<1>4. /\ SpIsNew(y) => /\ h \in SpBefore("folders", z, y) /\ h \in SpAsking("folders", z)
                       /\ ~Meets(f, SpWays(y)) /\ ~Meets(t, SpAsking("folders", y))
      /\ Meets(g, SpWays(y)) <=> (Meets(f, SpWays(y)) \/ SpIsNew(y))
      /\ Single(g, SpWays(y))
      /\ Meets(SpHere, SpWays(y)) <=> (h \in SpHolding(y) \/ SpIsNew(y))
      /\ Single(SpHere, SpWays(y))
      /\ h \in SpHolding(y) => h \in SpAsking("folders", z)
  BY SpFoundIs
<1>5. \A M : (Meets(n, M) <=> q \in M) /\ Single(n, M)
  BY <1>0, MeetsOne
<1>6. /\ Tail(t) \in Seq(SpReqs) /\ Range(Tail(t)) \subseteq Range(t)
      /\ Range(n \o Tail(t)) = Range(n) \cup Range(Tail(t))
  BY <1>1, <1>2, SwapRange
<1>7. \A M : Meets(v, M) <=> (q \in M \/ Meets(u, M))
  <2>1. u \in Seq(SpReqs) /\ n \in Seq(SpReqs)
    BY <1>2, <1>6
  <2> QED BY <1>5, <2>1, MeetsBoth
<1>8. \A M : Meets(t, M) <=> (h \in M \/ Meets(u, M))
  BY <1>1, MeetsHead
<1>9. \A w : q \in SpHolding(w) <=> Meets(SpHere, SpWays(w))
  BY DEF SpHolding
<1>10. SpAlike(t, n, SpAsking("folders", y))
  BY <1>0, <1>1 DEF SpAlike
<1>11. Single(v, SpAsking("folders", y)) /\ (Meets(v, SpAsking("folders", y)) <=> Meets(t, SpAsking("folders", y)))
  <2>1. Single(t, SpAsking("folders", y))
    BY DEF SpFolderIn
  <2> QED BY <1>1, <1>2, <1>10, <2>1, SpSwap
<1>12. SpReached(z, v, g) <=> SpReached(z, t, f)
  <2>1. CASE SpTop(z)
    BY <2>1 DEF SpReached
  <2>2. CASE z \in SpFolders /\ zz = remote[z][1] /\ SpFolderIn(z, zz, t, f)
    <3>1. /\ SpIsNew(z) => ~Meets(f, SpWays(z))
          /\ Meets(g, SpWays(z)) <=> (Meets(f, SpWays(z)) \/ SpIsNew(z))
          /\ Meets(SpHere, SpWays(z)) <=> (h \in SpHolding(z) \/ SpIsNew(z))
      BY <1>3, <2>2, SpFoundIs
    <3>2. Meets(v, SpHolding(z)) <=> (Meets(t, SpHolding(z)) \/ SpIsNew(z))
      BY <1>7, <1>8, <1>9, <3>1
    <3> QED BY <3>1, <3>2 DEF SpReached
  <2> QED BY <2>1, <2>2
<1>13. h \in SpAsking("folders", z) => /\ SpReached(z, t, f) /\ ~Meets(u, SpBefore("folders", z, y))
  <2>1. h \in SpAsking("folders", z) => Meets(t, SpAsking("folders", z))
    BY <1>8
  <2>2. h \in SpAsking("folders", z) => ~Meets(u, SpBefore("folders", z, y))
    BY <1>1, SpAlone
  <2> QED BY <2>1, <2>2, SpAskedReached
<1>14. h \in SpAsking("folders", z) => (h \in SpBefore("folders", z, y) <=> (SpIsNew(y) \/ Position(p) < Position(y)))
  <2> SUFFICES ASSUME h \in SpAsking("folders", z) PROVE h \in SpBefore("folders", z, y) <=> (SpIsNew(y) \/ Position(p) < Position(y))
    OBVIOUS
  <2>1. /\ y \in Children <=> h \in SpBefore("folders", z, y)
        /\ h \in SpAsking("folders", z) <=> z = h.id
        /\ h \in SpBefore("folders", z, y) <=> (z = h.id /\ h.last < Position(y))
    BY <1>3, SpChildIs
  <2>2. Children \subseteq SpItems /\ p \in Children /\ \A c \in Children : Later(c, h.last)
    BY SpFirstIs DEF Children
  <2>3. h.last < Position(p)
    <3>1. Position(p) > h.last /\ Position(p) \in Nat
      BY <2>2, SpPositions DEF Later
    <3> QED BY <1>1, <3>1
  <2>4. h.last < Position(y) <=> (y = p \/ Position(p) < Position(y))
    <3>1. y \in Children <=> h.last < Position(y)
      BY <2>1
    <3> QED BY <1>1, <1>3, <2>2, <2>3, <3>1, SpPageOrder
  <2> QED BY <2>1, <2>4 DEF SpIsNew
<1>15. q \in SpBefore("folders", z, y) <=> (h \in SpAsking("folders", z) /\ Position(p) < Position(y))
  OBVIOUS
<1>16. SpIsNew(y) => ~(Position(p) < Position(y))
  BY <1>3, SpPositions DEF SpIsNew
<1>17. /\ Meets(f, SpWays(y)) => SpReached(z, t, f) /\ ~Meets(t, SpBefore("folders", z, y))
       /\ (~Meets(f, SpWays(y)) /\ SpReached(z, t, f)) => Meets(t, SpBefore("folders", z, y))
       /\ Meets(t, SpHolding(y)) => Meets(f, SpWays(y)) /\ ~Meets(t, SpAsking("folders", y))
       /\ Meets(t, SpAsking("folders", y)) => Meets(f, SpWays(y)) /\ call.recursive
  BY DEF SpFolderIn
<1>18. Meets(g, SpWays(y)) => SpReached(z, v, g) /\ ~Meets(v, SpBefore("folders", z, y))
  <2>1. CASE Meets(f, SpWays(y))
    BY <1>7, <1>8, <1>12, <1>14, <1>15, <1>17, <2>1
  <2>2. CASE SpIsNew(y)
    BY <1>4, <1>7, <1>12, <1>13, <1>15, <1>16, <2>2
  <2> QED BY <1>4, <2>1, <2>2
<1>19. (~Meets(g, SpWays(y)) /\ SpReached(z, v, g)) => Meets(v, SpBefore("folders", z, y))
  <2> SUFFICES ASSUME ~Meets(g, SpWays(y)), SpReached(z, v, g) PROVE Meets(v, SpBefore("folders", z, y))
    OBVIOUS
  <2>1. ~SpIsNew(y) /\ Meets(t, SpBefore("folders", z, y))
    BY <1>4, <1>12, <1>17
  <2>2. h \in SpBefore("folders", z, y) => h \in SpAsking("folders", z)
    BY DEF SpBefore
  <2> QED BY <1>7, <1>8, <1>14, <1>15, <2>1, <2>2
<1>20. Meets(v, SpHolding(y)) => Meets(g, SpWays(y)) /\ ~Meets(v, SpAsking("folders", y))
  BY <1>4, <1>7, <1>8, <1>9, <1>11, <1>17
<1>21. \A r \in Range(v) : r \in SpHolding(y) => r \in SpAsking("folders", z) /\ Single(r.here, SpWays(y))
  <2>1. ASSUME NEW r \in Range(u), r \in SpHolding(y) PROVE r \in SpAsking("folders", z) /\ Single(r.here, SpWays(y))
    BY <1>6, <2>1 DEF SpFolderIn
  <2>2. q \in SpHolding(y) => q \in SpAsking("folders", z) /\ Single(q.here, SpWays(y))
    BY <1>4, <1>9
  <2> QED BY <1>2, <1>6, <2>1, <2>2
<1>22. Meets(v, SpAsking("folders", y)) => Meets(g, SpWays(y)) /\ call.recursive
  BY <1>4, <1>11, <1>17
<1>23. SpFolderIn(y, z, v, g)
  BY <1>4, <1>11, <1>18, <1>19, <1>20, <1>21, <1>22 DEF SpFolderIn
<1> QED BY <1>0, <1>23

(* The same for the last page, after which the folders found are gone into. *)
LEMMA SpFolderLast ==
  ASSUME SpTyped, SpParents, left.todo # << >>, Target.what = "folders", SpSound(Target), Children \subseteq {FirstOf(Children)},
         NEW y \in SpFolders, SpChained(y), NEW z, z = remote[y][1], NEW f \in Seq(Seq(STRING)), SpFolderIn(y, z, left.todo, f),
         Single(left.todo, SpAsking("folders", z)),
         NEW zz, \/ SpTop(z) /\ ~Meets(SpHere, SpWays(z))
                 \/ ~SpTop(z) /\ z \in SpFolders /\ zz = remote[z][1] /\ SpFolderIn(z, zz, left.todo, f),
         NEW n \in Seq(SpReqs), \A r \in Range(n) : r.here = << >>,
         \A x : /\ Meets(n, SpAsking("folders", x)) <=> (call.recursive /\ Meets(SpHere, SpWays(x)))
                /\ Single(SpHere, SpWays(x)) => Single(n, SpAsking("folders", x)),
         \A x : \A w \in SpItems : Meets(n, SpBefore("folders", x, w)) <=> Meets(n, SpAsking("folders", x))
  PROVE  SpFolderIn(y, z, n \o Tail(left.todo), f \o NewFolders(Children))
<1> PICK t, h, g, p : t = left.todo /\ h = Target /\ g = f \o NewFolders(Children) /\ p = FirstOf(Children)
  OBVIOUS
<1> PICK u, v : u = Tail(t) /\ v = n \o u
  OBVIOUS
<1>1. t \in Seq(SpReqs) /\ h \in SpReqs /\ h = Head(t) /\ h \in Range(t) /\ t # << >> /\ h.last \in Nat
  BY SpTarget DEF SpTyped, Target, SpReqs
<1>3. y \in SpItems /\ SpChained(z) /\ z \in SpIds
  BY SpChainedUp, SpConstants DEF SpIds
<1>4. /\ SpIsNew(y) => /\ h \in SpBefore("folders", z, y) /\ h \in SpAsking("folders", z)
                       /\ ~Meets(f, SpWays(y)) /\ ~Meets(t, SpAsking("folders", y))
      /\ Meets(g, SpWays(y)) <=> (Meets(f, SpWays(y)) \/ SpIsNew(y))
      /\ Single(g, SpWays(y))
      /\ Meets(SpHere, SpWays(y)) <=> (h \in SpHolding(y) \/ SpIsNew(y))
      /\ Single(SpHere, SpWays(y))
      /\ h \in SpHolding(y) => /\ h \in SpAsking("folders", z) /\ Meets(f, SpWays(y)) /\ Meets(t, SpHolding(y))
                               /\ ~Meets(t, SpAsking("folders", y))
  BY SpFoundIs
<1>6. /\ Tail(t) \in Seq(SpReqs) /\ Range(Tail(t)) \subseteq Range(t)
      /\ Range(n \o Tail(t)) = Range(n) \cup Range(Tail(t))
  BY <1>1, SwapRange
<1>7. \A M : /\ Meets(v, M) <=> (Meets(n, M) \/ Meets(u, M))
             /\ Single(v, M) <=> (Single(n, M) /\ Single(u, M) /\ ~(Meets(n, M) /\ Meets(u, M)))
  <2>1. u \in Seq(SpReqs)
    BY <1>6
  <2> QED BY <2>1, MeetsBoth
<1>8. \A M : /\ Meets(t, M) <=> (h \in M \/ Meets(u, M))
             /\ Single(t, M) => Single(u, M)
  BY <1>1, MeetsHead
<1>9. \A w : ~Meets(n, SpHolding(w))
  <2>1. \A i \in DOMAIN n : n[i].here = << >>
    BY DEF Range
  <2>2. \A r : r.here = << >> => \A w : r \notin SpHolding(w)
    BY DEF SpHolding, Meets
  <2> QED BY <2>1, <2>2 DEF Meets
<1>10. h \in SpAsking("folders", z) => ~Meets(u, SpAsking("folders", z)) /\ ~Meets(u, SpBefore("folders", z, y))
  BY <1>1, SpAlone
<1>11. h \in SpAsking("folders", z) => ~Meets(u, SpHolding(y))
  <2>1. \A r \in Range(u) : r \in SpHolding(y) => r \in SpAsking("folders", z)
    BY <1>6 DEF SpFolderIn
  <2>2. \A i \in DOMAIN u : u[i] \in SpHolding(y) => u[i] \in SpAsking("folders", z)
    BY <2>1 DEF Range
  <2>3. Meets(u, SpHolding(y)) => Meets(u, SpAsking("folders", z))
    BY <2>2 DEF Meets
  <2> QED BY <1>10, <2>3
<1>12. h \in SpAsking("folders", z) => SpReached(z, t, f)
  <2>1. h \in SpAsking("folders", z) => Meets(t, SpAsking("folders", z))
    BY <1>8
  <2> QED BY <2>1, SpAskedReached
<1>13. h \in SpBefore("folders", z, y) => SpIsNew(y) /\ h \in SpAsking("folders", z)
  <2>1. y \in Children <=> h \in SpBefore("folders", z, y)
    BY <1>3, SpChildIs
  <2> QED BY <2>1 DEF SpIsNew, SpBefore
<1>14. /\ Single(t, SpAsking("folders", y))
       /\ Meets(f, SpWays(y)) => SpReached(z, t, f) /\ ~Meets(t, SpBefore("folders", z, y))
       /\ (~Meets(f, SpWays(y)) /\ SpReached(z, t, f)) => Meets(t, SpBefore("folders", z, y))
       /\ Meets(t, SpHolding(y)) => Meets(f, SpWays(y)) /\ ~Meets(t, SpAsking("folders", y))
       /\ Meets(t, SpAsking("folders", y)) => Meets(f, SpWays(y)) /\ call.recursive
  BY DEF SpFolderIn
<1>15. /\ Meets(n, SpAsking("folders", y)) <=> (call.recursive /\ Meets(SpHere, SpWays(y)))
       /\ Single(n, SpAsking("folders", y))
       /\ Meets(n, SpBefore("folders", z, y)) <=> (call.recursive /\ Meets(SpHere, SpWays(z)))
  BY <1>3, <1>4
\* the parent: reached as before, and asked for again only when it was not
<1>16. /\ SpReached(z, t, f) => SpReached(z, v, g) /\ ~Meets(n, SpBefore("folders", z, y))
       /\ (~SpReached(z, t, f) /\ SpReached(z, v, g)) => Meets(n, SpBefore("folders", z, y))
  <2>1. CASE SpTop(z) /\ ~Meets(SpHere, SpWays(z))
    BY <1>15, <2>1 DEF SpReached
  <2>2. CASE ~SpTop(z) /\ z \in SpFolders /\ zz = remote[z][1] /\ SpFolderIn(z, zz, t, f)
    <3>1. /\ SpIsNew(z) => ~Meets(f, SpWays(z))
          /\ Meets(g, SpWays(z)) <=> (Meets(f, SpWays(z)) \/ SpIsNew(z))
          /\ Meets(SpHere, SpWays(z)) <=> (h \in SpHolding(z) \/ SpIsNew(z))
          /\ h \in SpHolding(z) => Meets(t, SpHolding(z))
      BY <1>3, <2>2, SpFoundIs
    <3>2. Meets(v, SpHolding(z)) => Meets(t, SpHolding(z))
      BY <1>7, <1>8, <1>9
    <3>3. (Meets(t, SpHolding(z)) /\ ~Meets(v, SpHolding(z))) => h \in SpHolding(z)
      BY <1>7, <1>8, <1>9
    <3> QED BY <1>15, <2>2, <3>1, <3>2, <3>3 DEF SpReached
  <2> QED BY <2>1, <2>2
<1>17. Single(v, SpAsking("folders", y))
  <2>1. Meets(n, SpAsking("folders", y)) => ~Meets(t, SpAsking("folders", y))
    BY <1>4, <1>15
  <2> QED BY <1>7, <1>8, <1>14, <1>15, <2>1
<1>18. Meets(g, SpWays(y)) => SpReached(z, v, g) /\ ~Meets(v, SpBefore("folders", z, y))
  <2>1. CASE Meets(f, SpWays(y))
    BY <1>7, <1>8, <1>14, <1>16, <2>1
  <2>2. CASE SpIsNew(y)
    BY <1>4, <1>7, <1>10, <1>12, <1>16, <2>2
  <2> QED BY <1>4, <2>1, <2>2
<1>19. (~Meets(g, SpWays(y)) /\ SpReached(z, v, g)) => Meets(v, SpBefore("folders", z, y))
  <2> SUFFICES ASSUME ~Meets(g, SpWays(y)), SpReached(z, v, g) PROVE Meets(v, SpBefore("folders", z, y))
    OBVIOUS
  <2>1. ~Meets(f, SpWays(y)) /\ ~SpIsNew(y)
    BY <1>4
  <2>2. CASE SpReached(z, t, f)
    BY <1>7, <1>8, <1>13, <1>14, <2>1, <2>2
  <2>3. CASE ~SpReached(z, t, f)
    BY <1>7, <1>16, <2>3
  <2> QED BY <2>2, <2>3
<1>20. Meets(v, SpHolding(y)) => Meets(g, SpWays(y)) /\ ~Meets(v, SpAsking("folders", y))
  <2> SUFFICES ASSUME Meets(v, SpHolding(y)) PROVE Meets(g, SpWays(y)) /\ ~Meets(v, SpAsking("folders", y))
    OBVIOUS
  <2>1. Meets(u, SpHolding(y)) /\ Meets(t, SpHolding(y))
    BY <1>7, <1>8, <1>9
  <2>2. Meets(f, SpWays(y)) /\ ~Meets(u, SpAsking("folders", y))
    BY <1>8, <1>14, <2>1
  <2>3. ~Meets(n, SpAsking("folders", y))
    BY <1>4, <1>11, <1>15, <2>1
  <2> QED BY <1>4, <1>7, <2>2, <2>3
<1>21. \A r \in Range(v) : r \in SpHolding(y) => r \in SpAsking("folders", z) /\ Single(r.here, SpWays(y))
  <2>1. ASSUME NEW r \in Range(u), r \in SpHolding(y) PROVE r \in SpAsking("folders", z) /\ Single(r.here, SpWays(y))
    BY <1>6, <2>1 DEF SpFolderIn
  <2>2. \A r \in Range(n) : r \notin SpHolding(y)
    BY DEF SpHolding, Meets
  <2> QED BY <1>6, <2>1, <2>2
<1>22. Meets(v, SpAsking("folders", y)) => Meets(g, SpWays(y)) /\ call.recursive
  BY <1>4, <1>7, <1>8, <1>14, <1>15
<1> QED BY <1>4, <1>17, <1>18, <1>19, <1>20, <1>21, <1>22 DEF SpFolderIn

(* Paths of two sequences, all longer than the one asked for.               *)
LEMMA LongBoth ==
  ASSUME NEW S, NEW g \in Seq(S), NEW G \in Seq(S), NEW m, \A k \in DOMAIN g : Len(g[k]) > m, \A k \in DOMAIN G : Len(G[k]) > m
  PROVE  \A k \in DOMAIN (g \o G) : Len((g \o G)[k]) > m
<1>0. PICK a, b, s : a = Len(g) /\ b = Len(G) /\ s = g \o G
  OBVIOUS
<1>1. /\ a \in Nat /\ b \in Nat /\ DOMAIN s = 1 .. (a + b) /\ DOMAIN g = 1 .. a /\ DOMAIN G = 1 .. b
      /\ \A i \in 1 .. a : s[i] = g[i]
      /\ \A i \in 1 .. b : s[a + i] = G[i]
  BY <1>0, ConcatIs, SeqMembers
<1>2. ASSUME NEW k \in 1 .. (a + b) PROVE Len(s[k]) > m
  <2>1. k \in 1 .. a \/ (k - a \in 1 .. b /\ k = a + (k - a))
    BY <1>1
  <2>2. k \in 1 .. a \/ \E i \in 1 .. b : k = a + i
    BY <2>1
  <2>3. CASE k \in 1 .. a
    BY <1>1, <2>3
  <2>4. ASSUME NEW i \in 1 .. b, k = a + i PROVE Len(s[k]) > m
    <3>1. s[k] = G[i] /\ i \in DOMAIN G
      BY <1>1, <2>4
    <3> QED BY <3>1
  <2> QED BY <2>2, <2>3, <2>4
<1> QED BY <1>0, <1>1, <1>2

(* What replaces a request for folders.                                     *)
SpThen == IF NextPage(Children) = << >> THEN Into(SpHere) ELSE <<[NextPage(Children)[1] EXCEPT !.here = SpHere]>>
(* Folders found are below the folder asked for.                           *)
LEMMA SpHereLong ==
  ASSUME SpTyped, left.todo # << >>, Target.what = "folders", SpSound(Target)
  PROVE  /\ SpHere \in Seq(Seq(STRING)) /\ \A k \in DOMAIN SpHere : Len(SpHere[k]) > Len(call.path)
         /\ NewFolders(Children) \in Seq(Seq(STRING))
         /\ \A k \in DOMAIN NewFolders(Children) : Len(NewFolders(Children)[k]) > Len(call.path)
<1> PICK G, h : G = NewFolders(Children) /\ h = Target
  OBVIOUS
<1>1. h \in SpReqs /\ h.here \in Seq(Seq(STRING)) /\ h.path \in Seq(STRING) /\ Len(h.path) \in Nat
  BY SpTarget DEF SpReqs
<1>2. G \in Seq(Seq(STRING))
  BY SpNewFolders
<1>3. Len(h.path) >= Len(call.path) /\ \A k \in DOMAIN h.here : Len(h.here[k]) > Len(call.path)
  BY DEF SpSound, SpOfKind
<1>4. Len(call.path) \in Nat
  BY SpCalls DEF SpTyped
<1>5. \A k \in DOMAIN G : Len(G[k]) > Len(call.path)
  <2>1. CASE Children # {} /\ FirstOf(Children) \notin SpFiles
    <3>0. PICK q : q = Append(h.path, remote[FirstOf(Children)][2])
      OBVIOUS
    <3>1. G = <<q>>
      BY <2>1, <3>0 DEF NewFolders
    <3>2. remote[FirstOf(Children)][2] \in STRING
      BY <2>1, SpChildren, SpFirstIs
    <3>3. Len(q) = Len(h.path) + 1
      BY <1>1, <3>0, <3>2, FrontAppend
    <3>4. Len(q) > Len(call.path)
      BY <1>1, <1>3, <1>4, <3>3
    <3>5. \A k \in DOMAIN G : G[k] = q
      BY <3>1
    <3> QED BY <3>4, <3>5
  <2>2. CASE ~(Children # {} /\ FirstOf(Children) \notin SpFiles)
    <3>1. G = << >>
      BY <2>2 DEF NewFolders
    <3> QED BY <3>1
  <2> QED BY <2>1, <2>2
<1>6. SpHere = h.here \o G
  BY DEF SpHere
<1>7. h.here \in Seq(Seq(STRING)) /\ h.here \o G \in Seq(Seq(STRING))
  BY <1>1, <1>2, ConcatIs
<1>8. \A k \in DOMAIN (h.here \o G) : Len((h.here \o G)[k]) > Len(call.path)
  BY <1>2, <1>3, <1>5, <1>7, LongBoth
<1> QED BY <1>2, <1>5, <1>6, <1>7, <1>8

(* It is the request for the next page, or those for the folders found.     *)
LEMMA SpThenIs ==
  ASSUME SpTyped, left.todo # << >>, Target.what = "folders", SpSound(Target), SpKind(call.op, "folders"), call.op # "upload_file"
  PROVE  /\ SpThen \in Seq(SpReqs) /\ \A r \in Range(SpThen) : SpSound(r) /\ r.what # "each_folder" /\ ~SpOfKind(r, "files")
         /\ \/ /\ Children # {}
               /\ \E q \in SpReqs : /\ SpThen = <<q>> /\ q.here = SpHere /\ \A k, x : q \in SpAsking(k, x) <=> Target \in SpAsking(k, x)
                                    /\ \A k, x, w : q \in SpBefore(k, x, w) <=>
                                         (Target \in SpAsking(k, x) /\ Position(FirstOf(Children)) < Position(w))
            \/ /\ Children \subseteq {FirstOf(Children)} /\ \A r \in Range(SpThen) : r.here = << >>
               /\ \A x : /\ Meets(SpThen, SpAsking("folders", x)) <=> (call.recursive /\ Meets(SpHere, SpWays(x)))
                         /\ Single(SpHere, SpWays(x)) => Single(SpThen, SpAsking("folders", x))
               /\ \A x : \A w \in SpItems : Meets(SpThen, SpBefore("folders", x, w)) <=> Meets(SpThen, SpAsking("folders", x))
<1> PICK h, n, p : h = Target /\ n = SpThen /\ p = FirstOf(Children)
  OBVIOUS
<1>1. h \in SpReqs
  BY SpTarget
<1>2. Children \subseteq SpItems
  BY DEF Children
<1>3. SpHere \in Seq(Seq(STRING)) /\ \A k \in DOMAIN SpHere : Len(SpHere[k]) > Len(call.path)
  BY SpHereLong
<1>4. \/ NextPage(Children) = << >> /\ Children \subseteq {p}
      \/ Children # {} /\ NextPage(Children) = <<[h EXCEPT !.last = Position(p)]>>
  BY <1>2, SpNextIs
<1>5. CASE NextPage(Children) = << >> /\ Children \subseteq {p}
  <2>1. n = Into(SpHere)
    BY <1>5 DEF SpThen
  <2>2. /\ n \in Seq(SpReqs)
        /\ \A r \in Range(n) : SpSound(r) /\ r.here = << >> /\ r.what = "item" /\ r.then = "folders"
        /\ \A z : /\ Meets(n, SpAsking("folders", z)) <=> (call.recursive /\ Meets(SpHere, SpWays(z)))
                  /\ Single(SpHere, SpWays(z)) => Single(n, SpAsking("folders", z))
        /\ \A z : \A y \in SpItems : Meets(n, SpBefore("folders", z, y)) <=> Meets(n, SpAsking("folders", z))
    BY <1>3, <2>1, SpIntoMeets
  <2>3. \A r \in Range(n) : r.what # "each_folder" /\ ~SpOfKind(r, "files")
    BY <2>2 DEF SpOfKind
  <2> QED BY <1>5, <2>2, <2>3
<1>6. CASE Children # {} /\ NextPage(Children) = <<[h EXCEPT !.last = Position(p)]>>
  <2>0. PICK m : m = [h EXCEPT !.last = Position(p)]
    OBVIOUS
  <2>1. Position(p) \in Nat
    BY <1>2, <1>6, SpFirstIs, SpPositions
  <2>2. /\ m \in SpReqs /\ m.what = h.what /\ m.path = h.path /\ m.id = h.id /\ m.then = h.then /\ m.last = Position(p)
        /\ \A k, z : m \in SpAsking(k, z) <=> h \in SpAsking(k, z)
        /\ \A k, z, x : m \in SpBefore(k, z, x) <=> (h \in SpAsking(k, z) /\ Position(p) < Position(x))
        /\ SpSound(m)
    BY <1>1, <2>0, <2>1, SpNextSets
  <2>3. NextPage(Children) = <<m>>
    BY <1>6, <2>0
  <2>4. NextPage(Children) # << >> /\ NextPage(Children)[1] = m
    BY <2>3
  <2>5. PICK q : q = [m EXCEPT !.here = SpHere]
    OBVIOUS
  <2>6. n = <<q>>
    BY <2>4, <2>5 DEF SpThen
  <2>7. /\ q \in SpReqs /\ q.what = m.what /\ q.path = m.path /\ q.id = m.id /\ q.then = m.then /\ q.last = m.last /\ q.here = SpHere
    BY <1>3, <2>2, <2>5 DEF SpReqs
  <2>8. \A k : SpOfKind(q, k) <=> SpOfKind(m, k)
    BY <2>7 DEF SpOfKind
  <2>9. \A k, x : q \in SpAsking(k, x) <=> m \in SpAsking(k, x)
    BY <2>2, <2>7, <2>8 DEF SpAsking
  <2>10. \A k, x, w : q \in SpBefore(k, x, w) <=> m \in SpBefore(k, x, w)
    BY <2>7, <2>9 DEF SpBefore
  <2>11. SpSound(q)
    <3>1. q.what = "folders"
      BY <2>2, <2>7
    <3>2. \A z \in SpIds : SpChained(z) => (z \in Resolved(q.path) <=> z = q.id)
      BY <2>2, <2>7, <3>1 DEF SpSound
    <3>3. Len(q.path) >= Len(call.path)
      BY <2>2, <2>7, <2>8, <3>1 DEF SpSound, SpOfKind
    <3> QED BY <1>3, <2>7, <3>1, <3>2, <3>3 DEF SpSound
  <2>12. n \in Seq(SpReqs) /\ Range(n) = {q}
    BY <2>6, <2>7, OneIs
  <2>13. q.what # "each_folder" /\ ~SpOfKind(q, "files")
    BY <2>2, <2>7 DEF SpOfKind
  <2>14. /\ \A k, x : q \in SpAsking(k, x) <=> h \in SpAsking(k, x)
         /\ \A k, x, w : q \in SpBefore(k, x, w) <=> (h \in SpAsking(k, x) /\ Position(p) < Position(w))
    BY <2>2, <2>9, <2>10
  <2> QED BY <1>6, <2>6, <2>7, <2>11, <2>12, <2>13, <2>14
<1> QED BY <1>4, <1>5, <1>6

(* No folder that was found is the one the call asks about.                 *)
LEMMA SpTopNotHere ==
  ASSUME SpTyped, SpParents, NEW z \in SpIds, SpChained(z), SpTop(z), NEW f \in Seq(Seq(STRING)),
         \A k \in DOMAIN f : Len(f[k]) > Len(call.path)
  PROVE  ~Meets(f, SpWays(z)) /\ Single(f, SpWays(z))
<1>1. ASSUME NEW k \in DOMAIN f PROVE f[k] \notin SpWays(z)
  <2>1. f[k] \in Seq(STRING)
    BY SeqMembers
  <2>2. Len(f[k]) > Len(call.path)
    OBVIOUS
  <2> QED BY <2>1, <2>2, SpTopShort
<1> QED BY <1>1 DEF Meets, Single

(* A page of folders keeps what is known of the folders.                    *)
LEMMA SpFoldersPageFolders ==
  ASSUME SpTyped, SpParents, left.todo # << >>, Target.what = "folders", SpSound(Target),
         SpKind(call.op, "folders"), call.op # "upload_file", NEW f \in Seq(Seq(STRING)), SpFoldersIn(left.todo, f)
  PROVE  SpFoldersIn(SpThen \o Tail(left.todo), f \o NewFolders(Children))
<1> PICK t, h, n, G : t = left.todo /\ h = Target /\ n = SpThen /\ G = NewFolders(Children)
  OBVIOUS
<1>1. t \in Seq(SpReqs) /\ t # << >> /\ Head(t) = h /\ h \in SpReqs
  BY SpTarget DEF SpTyped, Target
<1>2. n \in Seq(SpReqs)
  BY SpThenIs
<1>3. SpHere \in Seq(Seq(STRING)) /\ \A k \in DOMAIN SpHere : Len(SpHere[k]) > Len(call.path)
  BY SpHereLong
<1>4. \A z \in SpIds : (SpChained(z) /\ SpTop(z)) => Single(t, SpAsking("folders", z))
  BY DEF SpFoldersIn
<1>5. ASSUME NEW y \in SpFolders, SpChained(y), ~SpTop(y), NEW z, z = remote[y][1], z \in SpBelow
      PROVE  /\ z \in SpIds /\ SpChained(z) /\ SpFolderIn(y, z, t, f) /\ Single(t, SpAsking("folders", z))
             /\ ~SpTop(z) => z \in SpFolders /\ SpFolderIn(z, remote[z][1], t, f)
  <2>1. y \in SpItems
    BY SpConstants
  <2>2. z \in SpIds /\ SpChained(z)
    BY <1>5, <2>1, SpChainedUp, SpConstants DEF SpIds
  <2>3. SpFolderIn(y, z, t, f)
    BY <1>5 DEF SpFoldersIn
  <2>4. CASE SpTop(z)
    BY <1>4, <2>2, <2>3, <2>4
  <2>5. CASE ~SpTop(z)
    <3>1. z \in SpFolders /\ remote[z][1] \in SpBelow
      BY <1>5, <2>2, <2>5, SpBelowUp
    <3>2. SpFolderIn(z, remote[z][1], t, f)
      BY <2>2, <2>5, <3>1 DEF SpFoldersIn
    <3>3. Single(t, SpAsking("folders", z))
      BY <3>2 DEF SpFolderIn
    <3> QED BY <2>2, <2>3, <2>5, <3>1, <3>2, <3>3
  <2> QED BY <2>4, <2>5
<1>6. ASSUME Children # {}, NEW q \in SpReqs, n = <<q>>, q.here = SpHere, \A k, x : q \in SpAsking(k, x) <=> h \in SpAsking(k, x),
             \A k, x, w : q \in SpBefore(k, x, w) <=> (h \in SpAsking(k, x) /\ Position(FirstOf(Children)) < Position(w))
      PROVE  SpFoldersIn(n \o Tail(t), f \o G)
  <2>1. ASSUME NEW z \in SpIds, SpChained(z), SpTop(z) PROVE Single(n \o Tail(t), SpAsking("folders", z))
    <3>1. SpAlike(t, n, SpAsking("folders", z))
      BY <1>1, <1>6 DEF SpAlike
    <3> QED BY <1>1, <1>2, <1>4, <2>1, <3>1, SpSwap
  <2>2. ASSUME NEW y \in SpFolders, SpChained(y), ~SpTop(y), NEW z, z = remote[y][1], z \in SpBelow
        PROVE  SpFolderIn(y, z, n \o Tail(t), f \o G)
    <3>1. SpFolderIn(y, z, left.todo, f) /\ Single(left.todo, SpAsking("folders", z))
      BY <1>5, <2>2
    <3>2. SpTop(z) \/ (z \in SpFolders /\ SpFolderIn(z, remote[z][1], left.todo, f))
      BY <1>5, <2>2
    <3>3. PICK zz : zz = remote[z][1]
      OBVIOUS
    <3>4. SpTop(z) \/ (z \in SpFolders /\ zz = remote[z][1] /\ SpFolderIn(z, zz, left.todo, f))
      BY <3>2, <3>3
    <3>5. /\ \A k, x : q \in SpAsking(k, x) <=> Target \in SpAsking(k, x)
          /\ \A k, x, w : q \in SpBefore(k, x, w) <=> (Target \in SpAsking(k, x) /\ Position(FirstOf(Children)) < Position(w))
      BY <1>6
    <3>6. SpFolderIn(y, z, <<q>> \o Tail(left.todo), f \o NewFolders(Children))
      BY <1>6, <2>2, <3>1, <3>4, <3>5, SpFolderMore
    <3> QED BY <1>6, <3>6
  <2> QED BY <2>1, <2>2 DEF SpFoldersIn
<1>7. ASSUME Children \subseteq {FirstOf(Children)}, \A r \in Range(n) : r.here = << >>,
             \A x : /\ Meets(n, SpAsking("folders", x)) <=> (call.recursive /\ Meets(SpHere, SpWays(x)))
                    /\ Single(SpHere, SpWays(x)) => Single(n, SpAsking("folders", x)),
             \A x : \A w \in SpItems : Meets(n, SpBefore("folders", x, w)) <=> Meets(n, SpAsking("folders", x))
      PROVE  SpFoldersIn(n \o Tail(t), f \o G)
  <2>0. ASSUME NEW z \in SpIds, SpChained(z), SpTop(z) PROVE ~Meets(SpHere, SpWays(z)) /\ Single(SpHere, SpWays(z))
    BY <1>3, <2>0, SpTopNotHere
  <2>1. ASSUME NEW z \in SpIds, SpChained(z), SpTop(z) PROVE Single(n \o Tail(t), SpAsking("folders", z))
    <3>1. ~Meets(n, SpAsking("folders", z)) /\ Single(n, SpAsking("folders", z))
      BY <1>7, <2>0, <2>1
    <3>2. Single(Tail(t), SpAsking("folders", z)) /\ Tail(t) \in Seq(SpReqs)
      BY <1>1, <1>4, <2>1, MeetsHead, HeadTail
    <3> QED BY <1>2, <3>1, <3>2, MeetsBoth
  <2>2. ASSUME NEW y \in SpFolders, SpChained(y), ~SpTop(y), NEW z, z = remote[y][1], z \in SpBelow
        PROVE  SpFolderIn(y, z, n \o Tail(t), f \o G)
    <3>1. SpFolderIn(y, z, left.todo, f) /\ Single(left.todo, SpAsking("folders", z))
      BY <1>5, <2>2
    <3>3. PICK zz : zz = remote[z][1]
      OBVIOUS
    <3>4. \/ SpTop(z) /\ ~Meets(SpHere, SpWays(z))
          \/ ~SpTop(z) /\ z \in SpFolders /\ zz = remote[z][1] /\ SpFolderIn(z, zz, left.todo, f)
      BY <1>5, <2>0, <2>2, <3>3
    <3>6. SpFolderIn(y, z, n \o Tail(left.todo), f \o NewFolders(Children))
      BY <1>2, <1>7, <2>2, <3>1, <3>4, SpFolderLast
    <3> QED BY <3>6
  <2> QED BY <2>1, <2>2 DEF SpFoldersIn
<1>8. \/ /\ Children # {}
         /\ \E q \in SpReqs : /\ n = <<q>> /\ q.here = SpHere /\ \A k, x : q \in SpAsking(k, x) <=> h \in SpAsking(k, x)
                              /\ \A k, x, w : q \in SpBefore(k, x, w) <=>
                                   (h \in SpAsking(k, x) /\ Position(FirstOf(Children)) < Position(w))
      \/ /\ Children \subseteq {FirstOf(Children)} /\ \A r \in Range(n) : r.here = << >>
         /\ \A x : /\ Meets(n, SpAsking("folders", x)) <=> (call.recursive /\ Meets(SpHere, SpWays(x)))
                   /\ Single(SpHere, SpWays(x)) => Single(n, SpAsking("folders", x))
         /\ \A x : \A w \in SpItems : Meets(n, SpBefore("folders", x, w)) <=> Meets(n, SpAsking("folders", x))
  BY SpThenIs
<1> QED BY <1>6, <1>7, <1>8

(* A page of folders keeps the listing.                                    *)
LEMMA SpFoldersPageIn ==
  ASSUME SpTyped, SpParents, left.todo # << >>, Target.what = "folders",
         SpKind(call.op, "folders"), call.op # "upload_file",
         NEW f \in Seq(Seq(STRING)), NEW a, SpListsIn(left.todo, f, a)
  PROVE  SpListsIn(SpThen \o Tail(left.todo), f \o NewFolders(Children), a)
<1> PICK t, h, n, G : t = left.todo /\ h = Target /\ n = SpThen /\ G = NewFolders(Children)
  OBVIOUS
<1> PICK v : v = n \o Tail(t)
  OBVIOUS
<1>1. t \in Seq(SpReqs) /\ t # << >> /\ Head(t) = h /\ h \in SpReqs /\ h \in Range(t)
  BY SpTarget DEF SpTyped, Target
<1>2. SpSound(Target) /\ SpSound(h)
  BY <1>1 DEF SpListsIn
<1>3. n \in Seq(SpReqs) /\ \A r \in Range(n) : SpSound(r) /\ r.what # "each_folder" /\ ~SpOfKind(r, "files")
  BY <1>2, SpThenIs
<1>4. /\ \A i \in DOMAIN v : v[i].what = "each_folder" => i = Len(v)
      /\ SpFirstPhase(v) <=> SpFirstPhase(t)
  <2>1. \A r \in Range(n) : r.what # "each_folder"
    BY <1>3
  <2>2. n \in Seq(SpReqs)
    BY <1>3
  <2>3. \A i \in DOMAIN t : t[i].what = "each_folder" => i = Len(t)
    BY DEF SpListsIn
  <2>4. Head(t).what # "each_folder"
    BY <1>1
  <2> QED BY <1>1, <2>1, <2>2, <2>3, <2>4, SpLastSwap
<1>5. \A r \in Range(v) : SpSound(r)
  <2>1. n \in Seq(SpReqs)
    BY <1>3
  <2>2. Range(n \o Tail(t)) = Range(n) \cup Range(Tail(t)) /\ Range(Tail(t)) \subseteq Range(t)
    BY <1>1, <2>1, SwapRange
  <2> QED BY <1>3, <2>2 DEF SpListsIn
<1>6. SpGoesDown => SpFoldersIn(v, f \o G)
  BY <1>2, SpFoldersPageFolders DEF SpListsIn
<1>7. SpListed(call.op) => SpFilesIn(v, a)
  <2>1. SpListed(call.op) => SpFilesIn(t, a)
    BY DEF SpListsIn
  <2>2. \A z : h \notin SpAsking("files", z)
    BY DEF SpAsking, SpOfKind
  <2>3. \A z : ~Meets(n, SpAsking("files", z))
    <3>1. \A i \in DOMAIN n : n[i] \in Range(n)
      BY DEF Range
    <3> QED BY <1>3, <3>1 DEF Meets, SpAsking
  <2>4. \A z \in SpIds : SpAlike(t, n, SpAsking("files", z))
    BY <1>1, <2>2, <2>3 DEF SpAlike
  <2>5. \A z \in SpIds, x \in SpFiles : SpAlike(t, n, SpBefore("files", z, x))
    BY <1>1, <2>2, <2>3 DEF SpAlike, SpBefore, Meets
  <2>6. n \in Seq(SpReqs)
    BY <1>3
  <2> QED BY <1>1, <1>4, <2>1, <2>4, <2>5, <2>6, SpSwapFiles
<1>8. \A i \in DOMAIN (f \o G) : Len((f \o G)[i]) > Len(call.path)
  <2>1. G \in Seq(Seq(STRING)) /\ \A k \in DOMAIN G : Len(G[k]) > Len(call.path)
    BY <1>2, SpHereLong
  <2>2. \A i \in DOMAIN f : Len(f[i]) > Len(call.path)
    BY DEF SpListsIn
  <2>3. G \in Seq(Seq(STRING))
    BY <2>1
  <2> QED BY <2>1, <2>2, <2>3, LongBoth
<1> QED BY <1>4, <1>5, <1>6, <1>7, <1>8 DEF SpListsIn

(* Once no request for folders is left, every folder that stays is found:   *)
(* one that is not would be in another that is not.                         *)
LEMMA SpAllFound ==
  ASSUME SpTyped, SpParents, NEW t, NEW f, SpFoldersIn(t, f),
         \A z : ~Meets(t, SpAsking("folders", z)) /\ ~Meets(t, SpHolding(z)),
         NEW x \in SpFolders, SpChained(x), ~SpTop(x), remote[x][1] \in SpBelow
  PROVE  Meets(f, SpWays(x)) /\ Single(f, SpWays(x))
<1>1. ASSUME NEW y \in SpFolders, SpChained(y), ~SpTop(y), NEW z, z = remote[y][1], z \in SpBelow,
             SpTop(z) \/ Meets(f, SpWays(z))
      PROVE  Meets(f, SpWays(y))
  <2>1. SpFolderIn(y, z, t, f)
    BY <1>1 DEF SpFoldersIn
  <2>2. ~Meets(t, SpBefore("folders", z, y)) /\ ~Meets(t, SpHolding(z))
    BY DEF SpBefore, Meets
  <2>3. y \in SpItems
    BY SpConstants
  <2>4. ~SpTop(z) => call.recursive
    <3>1. z \in SpIds /\ SpChained(z)
      BY <1>1, <2>3, SpChainedUp, SpConstants DEF SpIds
    <3> QED BY <1>1, <3>1, SpBelowUp
  <2>5. SpReached(z, t, f)
    BY <1>1, <2>2, <2>4 DEF SpReached
  <2> QED BY <2>1, <2>2, <2>5 DEF SpFolderIn
<1> PICK s : s = {y \in SpFolders : SpChained(y) /\ ~SpTop(y) /\ remote[y][1] \in SpBelow /\ ~Meets(f, SpWays(y))}
  OBVIOUS
<1>2. ASSUME s # {} PROVE FALSE
  <2>1. s \in SUBSET SpItems /\ \A y \in s : SpKept(y)
    <3>1. ASSUME NEW y \in s PROVE y \in SpItems /\ SpKept(y)
      <4>1. y \in SpItems /\ SpChained(y)
        BY SpConstants
      <4> QED BY <4>1, SpChainedUp
    <3> QED BY <3>1
  <2>2. PICK y \in s : remote[y][1] \notin s
    BY <1>2, <2>1 DEF SpTyped
  <2> PICK z : z = remote[y][1]
    OBVIOUS
  <2>3. y \in SpFolders /\ y \in SpItems /\ SpChained(y) /\ ~SpTop(y) /\ z \in SpBelow /\ ~Meets(f, SpWays(y))
    BY SpConstants
  <2>4. z \in SpIds /\ SpChained(z)
    BY <2>3, SpChainedUp, SpConstants DEF SpIds
  <2>5. ~SpTop(z)
    BY <1>1, <2>3
  <2>6. z \in SpFolders /\ remote[z][1] \in SpBelow
    BY <2>3, <2>4, <2>5, SpBelowUp
  <2>7. Meets(f, SpWays(z))
    BY <2>2, <2>4, <2>5, <2>6
  <2> QED BY <1>1, <2>3, <2>7
<1>3. Meets(f, SpWays(x))
  BY <1>2
<1>4. Single(f, SpWays(x))
  BY DEF SpFoldersIn, SpFolderIn
<1> QED BY <1>3, <1>4

(* The requests for the files of each folder found.                         *)
SpLooks(f) == [i \in DOMAIN f |-> Lookup("files", f[i])]
(* The requests for the files of the folders found, one each.              *)
LEMMA SpLooksMeet ==
  ASSUME SpTyped, SpListed(call.op), NEW f \in Seq(Seq(STRING)), \A k \in DOMAIN f : Len(f[k]) > Len(call.path)
  PROVE  /\ SpLooks(f) \in Seq(SpReqs)
         /\ \A r \in Range(SpLooks(f)) : SpSound(r) /\ r.here = << >> /\ r.what = "item" /\ r.then = "files"
         /\ \A z : /\ Meets(SpLooks(f), SpAsking("files", z)) <=> Meets(f, SpWays(z))
                   /\ Single(f, SpWays(z)) => Single(SpLooks(f), SpAsking("files", z))
         /\ \A z : \A x \in SpItems : Meets(SpLooks(f), SpBefore("files", z, x)) <=> Meets(SpLooks(f), SpAsking("files", z))
<1> PICK I : I = SpLooks(f)
  OBVIOUS
<1>1. Len(call.path) \in Nat
  BY SpCalls DEF SpTyped
<1>2. DOMAIN f = 1 .. Len(f) /\ Len(f) \in Nat /\ \A i \in DOMAIN f : f[i] \in Seq(STRING)
  BY SeqMembers
<1>3. \A i \in DOMAIN f : f[i] # << >>
  <2>1. Len(<< >>) = 0
    OBVIOUS
  <2> QED BY <1>1, <2>1
<1>4. DOMAIN I = DOMAIN f /\ \A i \in DOMAIN f : I[i] = Find("files", f[i])
  BY <1>3 DEF SpLooks, Lookup
<1>5. \A i \in DOMAIN I : I[i] \in SpReqs
  <2>1. "files" \in SpWhats
    BY DEF SpWhats
  <2> QED BY <1>2, <1>4, <2>1, SpReqOf
<1>6. I \in Seq(SpReqs)
  <2>1. PICK J : J = [i \in 1 .. Len(f) |-> Lookup("files", f[i])]
    OBVIOUS
  <2>2. I = J
    BY <1>2, <2>1 DEF SpLooks
  <2>3. \A i \in 1 .. Len(f) : Lookup("files", f[i]) \in SpReqs
    BY <1>2, <1>3, <1>4, <1>5 DEF Lookup
  <2>4. J \in Seq(SpReqs)
    BY <1>2, <2>1, <2>3
  <2> QED BY <2>2, <2>4
<1>7. \A i \in DOMAIN I : /\ I[i].what = "item" /\ I[i].then = "files" /\ I[i].path = f[i]
                          /\ I[i].here = << >> /\ I[i].last = 0
  BY <1>4, SpFindHas
<1>8. \A i \in DOMAIN I : \A z : I[i] \in SpAsking("files", z) <=> f[i] \in SpWays(z)
  BY <1>2, <1>4, <1>5, <1>7 DEF SpAsking, SpWays, SpOfKind
<1>9. \A z : Meets(I, SpAsking("files", z)) <=> Meets(f, SpWays(z))
  BY <1>4, <1>8 DEF Meets
<1>10. \A z : Single(f, SpWays(z)) => Single(I, SpAsking("files", z))
  BY <1>4, <1>8 DEF Single
<1>11. ASSUME NEW z, NEW y \in SpItems PROVE Meets(I, SpBefore("files", z, y)) <=> Meets(I, SpAsking("files", z))
  <2>1. 0 < Position(y)
    BY SpPositions
  <2>2. \A i \in DOMAIN I : I[i] \in SpBefore("files", z, y) <=> I[i] \in SpAsking("files", z)
    BY <1>7, <2>1 DEF SpBefore
  <2> QED BY <2>2 DEF Meets
<1>12. ASSUME NEW r \in Range(I) PROVE SpSound(r) /\ r.here = << >> /\ r.what = "item" /\ r.then = "files"
  <2>1. PICK i \in DOMAIN I : r = I[i]
    BY DEF Range
  <2>2. r.what = "item" /\ r.then = "files" /\ r.here = << >> /\ r.last = 0
    BY <1>7, <2>1
  <2> QED BY <2>2 DEF SpSound, SpOfKind
<1> QED BY <1>6, <1>9, <1>10, <1>11, <1>12

(* list_files asks for the files of every folder that list_folders found.   *)
LEMMA SpEachFolders ==
  ASSUME SpTyped, SpParents, NEW t \in Seq(SpReqs), t # << >>, Head(t).what = "each_folder", SpSound(Head(t)), SpListed(call.op),
         NEW f \in Seq(Seq(STRING)), \A k \in DOMAIN f : Len(f[k]) > Len(call.path), SpFoldersIn(t, f)
  PROVE  SpFoldersIn(SpLooks(f) \o Tail(t), f)
<1> PICK n : n = SpLooks(f)
  OBVIOUS
<1>1. n \in Seq(SpReqs)
  BY SpLooksMeet
<1>2. \A r \in Range(n) : r.here = << >> /\ r.what = "item" /\ r.then = "files"
  BY SpLooksMeet
<1>3. \A i \in DOMAIN n : n[i] \in Range(n)
  BY DEF Range
<1>4. \A z : Head(t) \notin SpAsking("folders", z) /\ Head(t) \notin SpHolding(z)
  <2>1. Head(t).here = << >>
    BY DEF SpSound
  <2> QED BY <2>1 DEF SpAsking, SpOfKind, SpHolding, Meets
<1>5. \A z : ~Meets(n, SpAsking("folders", z)) /\ ~Meets(n, SpHolding(z))
  <2>1. \A r \in Range(n) : \A z : r \notin SpAsking("folders", z) /\ r \notin SpHolding(z)
    BY <1>2 DEF SpAsking, SpOfKind, SpHolding, Meets
  <2> QED BY <1>3, <2>1 DEF Meets
<1>6. \A z, y : Head(t) \notin SpBefore("folders", z, y) /\ ~Meets(n, SpBefore("folders", z, y))
  BY <1>4, <1>5 DEF SpBefore, Meets
<1>7. SpSameHere(t, n)
  BY <1>2 DEF SpSameHere
<1> QED BY <1>1, <1>4, <1>5, <1>6, <1>7, SpSwapFolders DEF SpAlike

(* Going through the folders found asks for the files of each, once.       *)
LEMMA SpEachFiles ==
  ASSUME SpTyped, SpParents, NEW t, NEW h \in SpReqs, t = <<h>>, h.what = "each_folder", SpSound(h), SpListed(call.op),
         NEW f \in Seq(Seq(STRING)), \A k \in DOMAIN f : Len(f[k]) > Len(call.path), SpGoesDown => SpFoldersIn(t, f),
         NEW a, SpFilesIn(t, a)
  PROVE  SpFilesIn(SpLooks(f), a)
<1> PICK v : v = SpLooks(f)
  OBVIOUS
<1>1. /\ v \in Seq(SpReqs)
      /\ \A r \in Range(v) : SpSound(r) /\ r.here = << >> /\ r.what = "item" /\ r.then = "files"
      /\ \A z : /\ Meets(v, SpAsking("files", z)) <=> Meets(f, SpWays(z))
                /\ Single(f, SpWays(z)) => Single(v, SpAsking("files", z))
      /\ \A z : \A x \in SpItems : Meets(v, SpBefore("files", z, x)) <=> Meets(v, SpAsking("files", z))
  BY SpLooksMeet
<1>2. ~SpFirstPhase(v)
  BY <1>1 DEF SpFirstPhase, Range
<1>3. \A M : Meets(t, M) <=> h \in M
  BY MeetsOne
<1>4. SpFirstPhase(t)
  <2>1. t[1] = h /\ 1 \in DOMAIN t
    OBVIOUS
  <2> QED BY <2>1 DEF SpFirstPhase
<1>5. \A k \in {"folders", "files"} : \A z, x : h \notin SpAsking(k, z) /\ h \notin SpHolding(z) /\ h \notin SpBefore(k, z, x)
  <2>1. h.here = << >>
    BY DEF SpSound
  <2> QED BY <2>1 DEF SpAsking, SpOfKind, SpHolding, Meets, SpBefore
<1>6. ASSUME NEW z \in SpIds, SpChained(z), SpTop(z) PROVE ~Meets(f, SpWays(z)) /\ Single(f, SpWays(z))
  BY <1>6, SpTopNotHere
<1>7. ASSUME NEW z \in SpIds, SpChained(z), z \in SpBelow, ~SpTop(z) PROVE Meets(f, SpWays(z)) /\ Single(f, SpWays(z))
  <2>1. z \in SpFolders /\ call.recursive /\ remote[z][1] \in SpBelow
    BY <1>7, SpBelowUp
  <2>2. SpFoldersIn(t, f)
    BY <2>1 DEF SpGoesDown
  <2>3. \A y : ~Meets(t, SpAsking("folders", y)) /\ ~Meets(t, SpHolding(y))
    BY <1>3, <1>5
  <2> QED BY <1>7, <2>1, <2>2, <2>3, SpAllFound
<1>8. ASSUME NEW z \in SpIds, SpChained(z), z \in SpBelow
      PROVE  Single(v, SpAsking("files", z)) /\ ((SpFirstPhase(v) /\ Meets(v, SpAsking("files", z))) => SpTop(z))
  BY <1>1, <1>2, <1>6, <1>7, <1>8
<1>9. ASSUME NEW x \in SpFiles, SpChained(x), Chosen(x), NEW z, z = remote[x][1], z \in SpBelow
      PROVE  SpFileIn(x, z, v, a)
  <2>1. x \in SpItems
    BY SpConstants
  <2>2. z \in SpIds /\ SpChained(z)
    BY <1>9, <2>1, SpChainedUp, SpConstants DEF SpIds
  <2>3. SpFileIn(x, z, t, a)
    BY <1>9 DEF SpFilesIn
  <2>4. ~Meets(t, SpBefore("files", z, x))
    BY <1>3, <1>5
  <2>5. Meets(v, SpBefore("files", z, x)) <=> Meets(f, SpWays(z))
    BY <1>1, <2>1
  <2>6. SpTop(z) => ~Meets(f, SpWays(z))
    BY <1>6, <2>2
  <2>7. ~SpTop(z) => Meets(f, SpWays(z))
    BY <1>7, <1>9, <2>2
  <2> QED BY <1>2, <1>4, <2>3, <2>4, <2>5, <2>6, <2>7 DEF SpFileIn
<1>10. a \in Seq(SpFiles) /\ \A i \in DOMAIN a : Chosen(a[i]) /\ <<a[i], Gone>> \notin steady
  BY DEF SpFilesIn
<1> QED BY <1>8, <1>9, <1>10 DEF SpFilesIn

(* Going through the folders keeps the listing.                            *)
LEMMA SpEachIn ==
  ASSUME SpTyped, SpParents, left.todo # << >>, Inner, SpListed(call.op),
         NEW f \in Seq(Seq(STRING)), NEW a, SpListsIn(left.todo, f, a)
  PROVE  SpListsIn(SpLooks(f) \o Tail(left.todo), f, a)
<1> PICK t, n, h : t = left.todo /\ n = SpLooks(f) /\ h = Target
  OBVIOUS
<1>1. t \in Seq(SpReqs) /\ t # << >> /\ Head(t) = h /\ h \in SpReqs /\ h \in Range(t)
  BY SpTarget DEF SpTyped, Target
<1>2. SpSound(h) /\ h.what = "each_folder"
  BY <1>1 DEF SpListsIn, Inner
<1>3. \A k \in DOMAIN f : Len(f[k]) > Len(call.path)
  BY DEF SpListsIn
<1>4. n \in Seq(SpReqs)
  BY <1>3, SpLooksMeet
<1>5. \A r \in Range(n) : SpSound(r) /\ r.what = "item"
  BY <1>3, SpLooksMeet
<1>6. /\ \A i \in DOMAIN (n \o Tail(t)) : (n \o Tail(t))[i].what = "each_folder" => i = Len(n \o Tail(t))
      /\ Tail(t) = << >>
  <2>1. \A r \in Range(n) : r.what # "each_folder"
    BY <1>5
  <2>2. \A i \in DOMAIN t : t[i].what = "each_folder" => i = Len(t)
    BY DEF SpListsIn
  <2> QED BY <1>1, <1>2, <1>4, <2>1, <2>2, SpLastSwap
<1>7. n \o Tail(t) = n
  <2> PICK u : u = << >>
    OBVIOUS
  <2>0. u = << >> /\ u \in Seq(SpReqs) /\ Len(u) = 0
    OBVIOUS
  <2>1. n \o u \in Seq(SpReqs) /\ Len(n \o u) = Len(n) + Len(u) /\ Len(n) \in Nat /\ \A i \in 1 .. Len(n) : (n \o u)[i] = n[i]
    BY <1>4, <2>0, ConcatIs
  <2>2. Len(n \o u) = Len(n)
    BY <2>0, <2>1
  <2>3. n \o u = n
    BY <1>4, <2>1, <2>2, SameSeq
  <2> QED BY <1>6, <2>0, <2>3
<1>8. t = <<h>>
  <2>1. Len(t) = 1 /\ t[1] = h
    <3>1. Len(Tail(t)) = Len(t) - 1 /\ Len(t) \in Nat \ {0} /\ t[1] = h
      BY <1>1, HeadTail
    <3>2. Len(Tail(t)) = 0
      BY <1>6
    <3> QED BY <3>1, <3>2
  <2>2. <<h>> \in Seq(SpReqs) /\ Len(<<h>>) = 1
    BY <1>1, OneIs
  <2>3. \A i \in 1 .. Len(<<h>>) : t[i] = <<h>>[i]
    BY <2>1, <2>2
  <2> QED BY <1>1, <2>1, <2>2, <2>3, SameSeq
<1>9. SpGoesDown => SpFoldersIn(t, f)
  BY DEF SpListsIn
<1>10. SpGoesDown => SpFoldersIn(n \o Tail(t), f)
  BY <1>1, <1>2, <1>3, <1>9, SpEachFolders
<1>11. SpFilesIn(t, a)
  BY DEF SpListsIn
<1>12. SpFilesIn(n, a)
  BY <1>1, <1>2, <1>3, <1>8, <1>9, <1>11, SpEachFiles
<1> QED BY <1>3, <1>5, <1>6, <1>7, <1>10, <1>12 DEF SpListsIn

(* What a step leaves to do, and what it has found.                         *)
LEMMA SpFollowsOn ==
  ASSUME SpTyped, left.todo # << >>, NEW new, Follow(new)
  PROVE  left'.todo = new \o Tail(left.todo) /\ left'.folders = left.folders
<1>1. left' = [todo |-> new \o Tail(left.todo), folders |-> left.folders \o << >>, source |-> left.source, target |-> left.target]
  BY SpFollowed
<1>2. left.folders \o << >> = left.folders
  BY ConcatEmptySeq DEF SpTyped
<1> QED BY <1>1, <1>2

(* A call that has returned makes no step; it returns by a step of its own. *)
LEMMA SpTells ==
  ASSUME Base, SpAct, told' = "returned"
  PROVE  SpReturn
<1>1. CASE SpReturn
  BY <1>1
<1>2. CASE FetchToken \/ Refused \/ TooMany \/ ServerError \/ Broken
  <2>1. told = "none" \/ told' # told
    BY <1>2 DEF FetchToken, Refused, TooMany, ServerError, Broken, Again, Goto, Raise, Sending, CanSend, Base, Ending
  <2> QED BY <1>2, <2>1 DEF FetchToken, Refused, TooMany, ServerError, Broken, Again, Goto, Raise
<1>3. CASE Success \/ EachFolder
  <2>1. told' = told /\ at = "request"
    BY <1>3 DEF Success, EachFolder, CanSend, Sending
  <2> QED BY <2>1 DEF Base, Ending
<1>4. CASE SpOthers
  <2>1. PICK r : Others(r)
    BY <1>4 DEF SpOthers
  <2>2. told' = told /\ at # "ended"
    BY <2>1 DEF Others
  <2> QED BY <2>2 DEF Base, Ending
<1> QED BY <1>1, <1>2, <1>3, <1>4 DEF SpAct, SpNext

(* Each answer keeps what is known of a listing.                            *)
SpListOp == call.op = "list_folders" \/ SpListed(call.op)
(* The requests a listing makes.                                           *)
LEMMA SpListKinds ==
  ASSUME SpTyped, SpListOp, left.todo # << >>, SpSound(Target)
  PROVE  /\ Target.what \in {"site", "drive", "folders", "files", "each_folder", "item"}
         /\ Target.what = "item" => Target.then \in {"site", "drive", "folders", "files"}
         /\ Target.what = "folders" => SpKind(call.op, "folders")
         /\ Target.what = "files" => SpListed(call.op)
         /\ call.op # "upload_file"
<1>1. SpAllowed(Target)
  BY SpTarget
<1>2. \A k : SpKind(call.op, k) => (k \in {"site", "drive", "folders"} \/ (SpListed(call.op) /\ k \in {"files", "each_folder"}))
  BY DEF SpListOp, SpListed, SpKind
<1>3. call.op # "upload_file"
  BY DEF SpListOp, SpListed
<1>4. Target.what = "item" => Target.then # "each_folder"
  BY DEF SpSound
<1> QED BY <1>1, <1>2, <1>3, <1>4 DEF SpAllowed

(* An answer keeps the listing.                                            *)
LEMMA SpListsSuccess ==
  ASSUME Base, SpTyped, SpListOp, SpParents, SpListsIn(left.todo, left.folders, answer), Success
  PROVE  SpListsIn(left'.todo, left'.folders, answer')
<1> PICK t, h, f, a : t = left.todo /\ h = Target /\ f = left.folders /\ a = answer
  OBVIOUS
<1>1. left.todo # << >> /\ ~Inner
  BY DEF Success, CanSend, Sending
<1>2. t \in Seq(SpReqs) /\ t # << >> /\ Head(t) = h /\ h \in SpReqs /\ h \in Range(t) /\ f \in Seq(Seq(STRING))
  BY <1>1, SpTarget DEF SpTyped, Target
<1>3. SpSound(h) /\ SpListsIn(t, f, a)
  BY <1>2 DEF SpListsIn
<1>4. /\ h.what \in {"site", "drive", "folders", "files", "item"}
      /\ h.what = "item" => h.then \in {"site", "drive", "folders", "files"}
      /\ h.what = "folders" => SpKind(call.op, "folders")
      /\ h.what = "files" => SpListed(call.op)
      /\ call.op # "upload_file"
  BY <1>1, <1>3, SpListKinds DEF Inner
<1>5. CASE h.what \in {"site", "drive"}
  <2>1. left'.todo = Tail(t) /\ left'.folders = f /\ answer' = a
    <3>1. Target.what \notin {"folders", "files", "search", "item", "session"}
      BY <1>5
    <3>2. Target.what \notin {"download", "make_folder"}
      BY <1>5
    <3>3. left' = [todo |-> Tail(left.todo), folders |-> left.folders, source |-> left.source, target |-> left.target]
      BY <3>1, SpEnds
    <3>4. answer' = answer
      BY <3>1, <3>2, SpEnds
    <3>5. left'.todo = Tail(left.todo) /\ left'.folders = left.folders
      BY <3>3
    <3> QED BY <3>4, <3>5
  <2>2. SpMean(t, << >>)
    <3>1. h.here = << >>
      BY <1>3, <1>5 DEF SpSound
    <3>2. Head(t).what \notin {"folders", "files", "item"}
      BY <1>2, <1>5
    <3>3. Head(t).here = << >>
      BY <1>2, <3>1
    <3> QED BY <1>2, <3>2, <3>3, SpMeanNone
  <2>3. PICK n : n = << >>
    OBVIOUS
  <2>4. n \in Seq(SpReqs) /\ Range(n) = {} /\ n \o Tail(t) = Tail(t)
    <3>1. Tail(t) \in Seq(SpReqs)
      BY <1>2, HeadTail
    <3>2. n \o Tail(t) = Tail(t)
      BY <2>3, <3>1, ConcatEmptySeq
    <3>3. Range(n) = {}
      BY <2>3 DEF Range
    <3> QED BY <2>3, <3>2, <3>3
  <2>5. Head(t).what # "each_folder"
    BY <1>2, <1>5
  <2>6. SpListsIn(n \o Tail(t), f, a)
    BY <1>2, <1>3, <2>2, <2>3, <2>4, <2>5, SpListsSwap
  <2> QED BY <2>1, <2>4, <2>6
<1>6. CASE h.what = "folders"
  <2>1. FoldersPage
    BY <1>6 DEF Success, FilesPage, SearchPage, Item, Session, Finish
  <2>2. /\ left'.todo = (IF NextPage(Children) = << >> THEN Into(SpHere)
                         ELSE <<[NextPage(Children)[1] EXCEPT !.here = SpHere]>>) \o Tail(left.todo)
        /\ left'.folders = left.folders \o NewFolders(Children) /\ answer' = answer
    BY <2>1 DEF FoldersPage, SpHere
  <2>3. left'.todo = SpThen \o Tail(left.todo)
    BY <2>2 DEF SpThen
  <2>4. SpListsIn(SpThen \o Tail(left.todo), f \o NewFolders(Children), a)
    BY <1>1, <1>2, <1>3, <1>4, <1>6, SpFoldersPageIn
  <2> QED BY <2>2, <2>3, <2>4
<1>7. CASE h.what = "files"
  <2>1. FilesPage
    BY <1>7 DEF Success, FoldersPage, SearchPage, Item, Session, Finish
  <2>2. answer' = SpAnswered(Children, answer) /\ Follow(NextPage(Children))
    BY <2>1, <1>7 DEF FilesPage, Listing, SpAnswered
  <2>3. left'.todo = NextPage(Children) \o Tail(left.todo) /\ left'.folders = left.folders
    BY <1>1, <2>2, SpFollowsOn
  <2>4. SpListsIn(NextPage(Children) \o Tail(left.todo), f, SpAnswered(Children, a))
    BY <1>1, <1>3, <1>4, <1>7, SpFilesPageIn
  <2> QED BY <2>2, <2>3, <2>4
<1>8. CASE h.what = "item"
  <2>1. answer' = answer
    BY <1>8, SpFound
  <2>2. PICK x \in Resolved(Target.path) :
              left' = [todo |-> (IF Target.then = "source" THEN << >>
                                 ELSE <<For(Req(Target.then, Target.path), x)>>) \o Tail(left.todo),
                       folders |-> left.folders,
                       source |-> IF Target.then = "move" THEN left.source ELSE x, target |-> x]
    BY <1>8, SpFound
  <2>3. PICK g : g = For(Req(h.then, h.path), x)
    OBVIOUS
  <2>4. left'.todo = <<g>> \o Tail(t) /\ left'.folders = f
    BY <1>4, <1>8, <2>2, <2>3
  <2>5. x \in Resolved(Head(t).path) /\ g = For(Req(Head(t).then, Head(t).path), x)
    BY <1>2, <2>2, <2>3
  <2>6. Head(t).what = "item" /\ SpSound(Head(t)) /\ Head(t).then # "item"
    BY <1>2, <1>3, <1>4, <1>8
  <2>7. g \in SpReqs /\ SpSound(g) /\ SpMean(t, <<g>>) /\ g.what # "each_folder"
    BY <1>2, <2>5, <2>6, SpItemMeans
  <2>8. <<g>> \in Seq(SpReqs) /\ Range(<<g>>) = {g}
    BY <2>7, OneIs
  <2>9. PICK n : n = <<g>>
    OBVIOUS
  <2>10. n \in Seq(SpReqs)
    BY <2>8, <2>9
  <2>11. \A r \in Range(n) : r.what # "each_folder" /\ SpSound(r)
    BY <2>7, <2>8, <2>9
  <2>12. SpMean(t, n) /\ Head(t).what # "each_folder"
    BY <2>6, <2>7, <2>9
  <2>13. SpListsIn(n \o Tail(t), f, a)
    BY <1>2, <1>3, <2>10, <2>11, <2>12, SpListsSwap
  <2> QED BY <2>1, <2>4, <2>9, <2>13
<1> QED BY <1>4, <1>5, <1>6, <1>7, <1>8

(* Going through the folders found is the other step of a listing.         *)
LEMMA SpListsEach ==
  ASSUME SpTyped, SpListOp, SpParents, SpListsIn(left.todo, left.folders, answer), EachFolder
  PROVE  SpListsIn(left'.todo, left'.folders, answer')
<1>1. left.todo # << >> /\ Inner
  BY DEF EachFolder, Sending
<1>2. SpListed(call.op)
  BY SpEachOp DEF SpListed
<1>3. Follow(SpLooks(left.folders)) /\ answer' = answer
  BY DEF EachFolder, SpLooks
<1>4. left'.todo = SpLooks(left.folders) \o Tail(left.todo) /\ left'.folders = left.folders
  BY <1>1, <1>3, SpFollowsOn
<1>5. left.folders \in Seq(Seq(STRING))
  BY DEF SpTyped
<1> PICK f, a : f = left.folders /\ a = answer
  OBVIOUS
<1>6. SpListsIn(SpLooks(f) \o Tail(left.todo), f, a)
  BY <1>1, <1>2, <1>5, SpEachIn
<1> QED BY <1>3, <1>4, <1>6

(* Every step keeps it.                                                     *)
LEMMA SpListsStep ==
  ASSUME Base, SpTyped, SpLists, SpEndsEmpty, SpAct
  PROVE  SpLists'
<1>1. Shape /\ SpTyped'
  BY SpShape, SpTypedStep
<1>2. call' = call
  BY <1>1 DEF Shape
<1> SUFFICES ASSUME SpListOp PROVE SpLists'
  BY <1>2 DEF SpLists, SpListOp, SpListed
<1>3. SpParents /\ SpListsIn(left.todo, left.folders, answer)
  BY DEF SpLists, SpListOp
<1> PICK t, f, a : t = left'.todo /\ f = left'.folders /\ a = answer'
  OBVIOUS
<1>4. SpListsIn(t, f, a)
  <2>1. CASE Success
    BY <1>3, <2>1, SpListsSuccess
  <2>2. CASE EachFolder
    BY <1>3, <2>2, SpListsEach
  <2>3. CASE ~Success /\ ~EachFolder
    <3>1. left' = left /\ (answer' = answer \/ call.op = "list_folders")
      BY <2>3, SpQuiet
    <3>2. ASSUME call.op = "list_folders" PROVE SpListsIn(t, f, a)
      BY <1>3, <3>1, <3>2 DEF SpListsIn, SpListed
    <3> QED BY <1>3, <3>1, <3>2
  <2> QED BY <2>1, <2>2, <2>3
<1>5. SpParents'
  BY <1>1, <1>3, SpParentsOn
<1>6. t \in Seq(SpReqs)
  BY <1>1 DEF SpTyped
<1>7. SpListsIn(t, f, a)'
  BY <1>1, <1>3, <1>4, <1>6, SpListsOn
<1>8. SpListsIn(left.todo, left.folders, answer)'
  BY <1>7
<1>9. (call.op = "list_folders" /\ told' = "returned") => answer' = left'.folders
  <2> SUFFICES ASSUME call.op = "list_folders", told' = "returned" PROVE answer' = left'.folders
    OBVIOUS
  <2>1. SpReturn
    BY SpTells
  <2> QED BY <2>1 DEF SpReturn, Return
<1> QED BY <1>2, <1>5, <1>8, <1>9 DEF SpLists

(* A sequence that is empty, and the members of two.                        *)
LEMMA NoneIs ==
  ASSUME NEW S, NEW n, n = << >>
  PROVE  n \in Seq(S) /\ Range(n) = {} /\ \A M : ~Meets(n, M) /\ Single(n, M)
<1>1. n \in Seq(S) /\ Range(n) = {}
  BY DEF Range
<1>2. \A M : ~Meets(n, M) /\ Single(n, M)
  BY DEF Meets, Single
<1> QED BY <1>1, <1>2

(* The members of two sequences in a row.                                  *)
LEMMA RangeBoth ==
  ASSUME NEW S, NEW n \in Seq(S), NEW u \in Seq(S), NEW r \in Range(n \o u)
  PROVE  r \in Range(n) \/ r \in Range(u)
<1>1. Range(n \o u) = Range(n) \cup Range(u)
  BY ConcatIs
<1> QED BY <1>1

(* A page of a search.                                                      *)
SpSeen == {x \in SpFiles : remote[x] # Gone /\ Later(x, Target.last)}
(* A page of a search takes the files after those seen, up to the limit.   *)
LEMMA SpSearchPage ==
  ASSUME SpTyped, left.todo # << >>, Target.what = "search", call.op = "search_files", NEW a, SpSearchIn(left.todo, a),
         NEW b, b = SpAnswered(SpSeen, a),
         NEW n, n = IF Len(b) >= call.limit THEN << >> ELSE NextPage(SpSeen)
  PROVE  SpSearchIn(n \o Tail(left.todo), b)
<1> PICK t, h, C, p : t = left.todo /\ h = Target /\ C = SpSeen /\ p = FirstOf(C)
  OBVIOUS
<1> PICK v : v = n \o Tail(t)
  OBVIOUS
<1>1. t \in Seq(SpReqs) /\ t # << >> /\ Head(t) = h /\ h \in SpReqs /\ h \in Range(t) /\ h.last \in Nat
  BY SpTarget DEF SpTyped, Target, SpReqs
<1>2. C \subseteq SpItems /\ \A x \in SpItems : x \in C <=> (x \in SpFiles /\ remote[x] # Gone /\ h.last < Position(x))
  BY SpConstants, SpPositions, <1>1 DEF SpSeen, Later
<1>3. h \in SpSearching /\ \A x : h \in SpUnseen(x) <=> h.last < Position(x)
  BY <1>1 DEF SpSearching, SpUnseen
<1>4. ~Meets(Tail(t), SpSearching) /\ \A x : ~Meets(Tail(t), SpUnseen(x))
  <2>1. Single(t, SpSearching)
    BY DEF SpSearchIn
  <2>2. ~Meets(Tail(t), SpSearching)
    BY <1>1, <1>3, <2>1, MeetsHead
  <2> QED BY <2>2 DEF Meets, SpUnseen
<1>5. Meets(t, SpSearching) /\ \A x : Meets(t, SpUnseen(x)) <=> h.last < Position(x)
  BY <1>1, <1>3, <1>4, MeetsHead
<1>6. call.limit \in Nat \ {0}
  BY SpCalls DEF SpTyped
<1>7. a \in Seq(SpFiles) /\ Len(a) \in Nat /\ Len(a) < call.limit
  <2>1. a \in Seq(SpFiles) /\ (Meets(t, SpSearching) => Len(a) < call.limit)
    BY DEF SpSearchIn
  <2> QED BY <1>5, <2>1, SeqMembers
<1>8. \/ NextPage(C) = << >> /\ C \subseteq {p}
      \/ C # {} /\ NextPage(C) = <<[h EXCEPT !.last = Position(p)]>>
  BY <1>2, SpNextIs
<1>9. /\ \A x \in SpFiles : Single(a, {x}) /\ (Meets(a, {x}) => ~(h.last < Position(x)))
      /\ \A x \in SpFiles : SpKept(x) => (Meets(a, {x}) \/ h.last < Position(x))
  BY <1>5, <1>7 DEF SpSearchIn
<1>10. \A r \in Range(Tail(t)) : r.what # "item"
  BY <1>1, HeadTail DEF SpSearchIn
<1>11. \A x \in SpFiles : x \in SpItems /\ Position(x) \in Nat
  BY SpConstants, SpPositions
<1>12. n = << >> \/ \E q \in SpReqs : n = <<q>> /\ q.what = "search" /\ q.last = Position(p) /\ C # {}
  <2>1. ASSUME C # {}, n = <<[h EXCEPT !.last = Position(p)]>>
        PROVE  \E q \in SpReqs : n = <<q>> /\ q.what = "search" /\ q.last = Position(p) /\ C # {}
    <3>1. Position(p) \in Nat
      BY <1>2, <2>1, SpFirstIs, SpPositions
    <3>2. PICK q : q = [h EXCEPT !.last = Position(p)]
      OBVIOUS
    <3>3. q \in SpReqs /\ q.what = h.what /\ q.last = Position(p)
      BY <1>1, <3>1, <3>2, SpNextSets
    <3> QED BY <2>1, <3>2, <3>3
  <2> QED BY <1>8, <2>1
<1>13. n \in Seq(SpReqs) /\ (\A r \in Range(n) : r.what # "item") /\ (\A M : Single(n, M))
       /\ (\A x : Meets(n, SpUnseen(x)) => C # {} /\ Position(p) < Position(x))
       /\ (\A x : (n # << >> /\ Position(p) < Position(x)) => Meets(n, SpUnseen(x)))
       /\ (Meets(n, SpSearching) => n # << >>)
  <2>1. ASSUME n = << >> PROVE (n \in Seq(SpReqs) /\ (\A r \in Range(n) : r.what # "item") /\ (\A M : Single(n, M))
            /\ (\A x : Meets(n, SpUnseen(x)) => C # {} /\ Position(p) < Position(x))
            /\ (\A x : (n # << >> /\ Position(p) < Position(x)) => Meets(n, SpUnseen(x)))
            /\ (Meets(n, SpSearching) => n # << >>))
    <3>1. n \in Seq(SpReqs)
      BY <2>1, NoneIs
    <3>2. Range(n) = {} /\ \A M : ~Meets(n, M) /\ Single(n, M)
      BY <2>1, NoneIs
    <3> QED BY <2>1, <3>1, <3>2
  <2>2. ASSUME NEW q \in SpReqs, n = <<q>>, q.what = "search", q.last = Position(p), C # {} PROVE (n \in Seq(SpReqs) /\ (\A r \in Range(n) : r.what # "item") /\ (\A M : Single(n, M))
            /\ (\A x : Meets(n, SpUnseen(x)) => C # {} /\ Position(p) < Position(x))
            /\ (\A x : (n # << >> /\ Position(p) < Position(x)) => Meets(n, SpUnseen(x)))
            /\ (Meets(n, SpSearching) => n # << >>))
    <3>1. n \in Seq(SpReqs) /\ Range(n) = {q}
      BY <2>2, OneIs
    <3>2. \A M : (Meets(n, M) <=> q \in M) /\ Single(n, M)
      BY <2>2, MeetsOne
    <3>3. \A x : q \in SpUnseen(x) <=> Position(p) < Position(x)
      BY <2>2 DEF SpUnseen, SpSearching
    <3>4. n # << >>
      BY <2>2
    <3> QED BY <2>2, <3>1, <3>2, <3>3, <3>4
  <2> QED BY <1>12, <2>1, <2>2
<1>14. /\ \A M : Meets(v, M) <=> (Meets(n, M) \/ Meets(Tail(t), M))
       /\ \A M : Single(v, M) <=> (Single(n, M) /\ Single(Tail(t), M) /\ ~(Meets(n, M) /\ Meets(Tail(t), M)))
       /\ \A r \in Range(v) : r \in Range(n) \/ r \in Range(Tail(t))
  <2>1. n \in Seq(SpReqs)
    BY <1>13
  <2>2. Tail(t) \in Seq(SpReqs)
    BY <1>1, HeadTail
  <2>3. \A r \in Range(n \o Tail(t)) : r \in Range(n) \/ r \in Range(Tail(t))
    BY <2>1, <2>2, RangeBoth
  <2>4. ASSUME NEW M
        PROVE  /\ Meets(n \o Tail(t), M) <=> (Meets(n, M) \/ Meets(Tail(t), M))
               /\ Single(n \o Tail(t), M) <=> (Single(n, M) /\ Single(Tail(t), M) /\ ~(Meets(n, M) /\ Meets(Tail(t), M)))
    BY <2>1, <2>2, MeetsBoth
  <2> QED BY <2>3, <2>4
<1>15. /\ \A r \in Range(v) : r.what # "item"
       /\ Single(v, SpSearching)
       /\ \A x : Meets(v, SpUnseen(x)) <=> Meets(n, SpUnseen(x))
       /\ Meets(v, SpSearching) <=> Meets(n, SpSearching)
  <2>1. Single(Tail(t), SpSearching)
    BY <1>4 DEF Meets, Single
  <2> QED BY <1>4, <1>10, <1>13, <1>14, <2>1
<1>16. CASE C = {}
  <2>1. b = a
    BY <1>16 DEF SpAnswered
  <2>2. n = << >>
    BY <1>16, <1>12
  <2>3. \A x : ~Meets(n, SpUnseen(x))
    BY <2>2 DEF Meets
  <2>4. ~Meets(n, SpSearching)
    BY <2>2 DEF Meets
  <2>5. ASSUME NEW x \in SpFiles, SpKept(x) PROVE Meets(a, {x})
    <3>1. remote[x] # Gone
      BY <2>5 DEF SpKept
    <3> QED BY <1>2, <1>9, <1>11, <1>16, <2>5, <3>1
  <2>6. Len(b) <= call.limit
    BY <1>6, <1>7, <2>1
  <2> QED BY <1>7, <1>9, <1>15, <2>1, <2>3, <2>4, <2>5, <2>6 DEF SpSearchIn
<1>17. CASE C # {}
  <2>1. p \in C /\ p \in SpFiles /\ h.last < Position(p) /\ \A y \in C : Position(p) <= Position(y)
    BY <1>2, <1>17, SpFirstIs
  <2>2. Chosen(p)
    BY <2>1 DEF Chosen
  <2>3. b = Append(a, p)
    BY <1>17, <2>2 DEF SpAnswered
  <2>4. /\ \A M : Meets(b, M) <=> (Meets(a, M) \/ p \in M)
        /\ \A M : Single(b, M) <=> (Single(a, M) /\ ~(Meets(a, M) /\ p \in M))
    BY <1>7, <2>1, <2>3, MeetsAppend
  <2>5. b \in Seq(SpFiles) /\ Len(b) = Len(a) + 1
    BY <1>7, <2>1, <2>3, AppendIs
  <2>6. Len(b) <= call.limit /\ Len(b) \in Nat
    BY <1>6, <1>7, <2>5
  <2>7. ~Meets(a, {p})
    BY <1>9, <2>1
  <2>8. ASSUME NEW x \in SpFiles PROVE Single(b, {x}) /\ (Meets(b, {x}) => ~Meets(n, SpUnseen(x)))
    <3>1. Single(b, {x})
      BY <1>9, <2>4, <2>7
    <3>2. ASSUME Meets(b, {x}), Meets(n, SpUnseen(x)) PROVE FALSE
      <4>1. Position(p) < Position(x)
        BY <1>13, <3>2
      <4>2. x = p \/ ~(h.last < Position(x))
        BY <1>9, <2>4, <3>2
      <4>3. Position(p) \in Nat /\ Position(x) \in Nat
        BY <1>11, <2>1
      <4> QED BY <1>1, <2>1, <4>1, <4>2, <4>3
    <3> QED BY <3>1, <3>2
  <2>9. Meets(n, SpSearching) => Len(b) < call.limit
    <3>1. ~(Len(b) >= call.limit) => Len(b) < call.limit
      BY <1>6, <2>6
    <3> QED BY <1>13, <3>1
  <2>10. ASSUME Len(b) < call.limit, NEW x \in SpFiles, SpKept(x) PROVE Meets(b, {x}) \/ Meets(n, SpUnseen(x))
    <3>1. n = NextPage(C)
      <4>1. ~(Len(b) >= call.limit)
        BY <1>6, <2>6, <2>10
      <4> QED BY <4>1
    <3>2. CASE Meets(a, {x}) \/ x = p
      BY <2>4, <3>2
    <3>3. CASE ~Meets(a, {x}) /\ x # p
      <4>1. h.last < Position(x) /\ remote[x] # Gone
        BY <1>9, <2>10, <3>3 DEF SpKept
      <4>2. x \in C
        BY <1>2, <1>11, <4>1
      <4>3. Position(p) < Position(x)
        <5>1. Position(p) <= Position(x) /\ Position(p) # Position(x)
          BY <1>2, <2>1, <3>3, <4>2, SpPositions
        <5>2. Position(p) \in Nat /\ Position(x) \in Nat
          BY <1>11, <2>1
        <5> QED BY <5>1, <5>2
      <4>4. n # << >>
        <5>1. \A q : <<q>> # << >>
          OBVIOUS
        <5> QED BY <1>8, <3>1, <3>3, <4>2, <5>1
      <4> QED BY <1>13, <4>3, <4>4
    <3> QED BY <3>2, <3>3
  <2> QED BY <1>15, <2>5, <2>6, <2>8, <2>9, <2>10 DEF SpSearchIn
<1> QED BY <1>16, <1>17

(* Every step keeps what is known of a search.                              *)
LEMMA SpSearchEnd ==
  ASSUME NEW t \in Seq(SpReqs), t # << >>, NEW a, SpSearchIn(t, a), Head(t).what # "search"
  PROVE  SpSearchIn(Tail(t), a)
<1>1. Tail(t) \in Seq(SpReqs) /\ Range(Tail(t)) \subseteq Range(t)
  BY HeadTail
<1>2. Head(t) \notin SpSearching /\ \A x : Head(t) \notin SpUnseen(x)
  BY DEF SpSearching, SpUnseen
<1>3. /\ \A M : Meets(t, M) <=> (Head(t) \in M \/ Meets(Tail(t), M))
      /\ \A M : Single(t, M) <=> (Single(Tail(t), M) /\ ~(Head(t) \in M /\ Meets(Tail(t), M)))
  BY MeetsHead
<1>4. /\ Single(Tail(t), SpSearching) <=> Single(t, SpSearching)
      /\ Meets(Tail(t), SpSearching) <=> Meets(t, SpSearching)
      /\ \A x : Meets(Tail(t), SpUnseen(x)) <=> Meets(t, SpUnseen(x))
  BY <1>2, <1>3
<1> QED BY <1>1, <1>4 DEF SpSearchIn

(* What is known of a search does not depend on others at work.            *)
LEMMA SpSearchOn ==
  ASSUME Base, SpTyped, Shape, NEW t, NEW a, SpSearchIn(t, a)
  PROVE  SpSearchIn(t, a)'
<1>0. call' = call
  BY DEF Shape
<1>1. \A x : SpKept(x)' => SpKept(x)
  BY SpKeptOn
<1>2. /\ Single(t, SpSearching)' <=> Single(t, SpSearching)
      /\ Meets(t, SpSearching)' <=> Meets(t, SpSearching)
      /\ \A x : Meets(t, SpUnseen(x))' <=> Meets(t, SpUnseen(x))
      /\ \A x : Meets(a, {x})' <=> Meets(a, {x})
      /\ \A x : Single(a, {x})' <=> Single(a, {x})
      /\ Range(t)' = Range(t)
  BY DEF Single, Meets, Range, SpUnseen, SpSearching, SpReqs, SpIds, SpItems, Position
<1>3. /\ Single(t, SpSearching) /\ \A r \in Range(t) : r.what # "item"
      /\ \A x \in SpFiles : Single(a, {x}) /\ (Meets(a, {x}) => ~Meets(t, SpUnseen(x)))
      /\ a \in Seq(SpFiles)
      /\ Len(a) <= call.limit /\ (Meets(t, SpSearching) => Len(a) < call.limit)
      /\ Len(a) < call.limit => \A x \in SpFiles : SpKept(x) => (Meets(a, {x}) \/ Meets(t, SpUnseen(x)))
  BY DEF SpSearchIn
<1> QED BY <1>0, <1>1, <1>2, <1>3 DEF SpSearchIn

(* An answer keeps the search.                                             *)
LEMMA SpSearchSuccess ==
  ASSUME SpTyped, call.op = "search_files", SpSearchIn(left.todo, answer), Success
  PROVE  SpSearchIn(left'.todo, answer')
<1> PICK t, h, a : t = left.todo /\ h = Target /\ a = answer
  OBVIOUS
<1>1. left.todo # << >>
  BY DEF Success, CanSend, Sending
<1>2. t \in Seq(SpReqs) /\ t # << >> /\ Head(t) = h /\ h \in SpReqs /\ h \in Range(t)
  BY <1>1, SpTarget DEF SpTyped, Target
<1>3. h.what \in {"site", "drive", "search"}
  <2>1. SpAllowed(h)
    BY <1>1, SpTarget
  <2>2. h.what # "item"
    BY <1>2 DEF SpSearchIn
  <2> QED BY <2>1, <2>2 DEF SpAllowed, SpKind
<1>4. CASE h.what \in {"site", "drive"}
  <2>1. Target.what \notin {"folders", "files", "search", "item", "session"}
    BY <1>4
  <2>2. Target.what \notin {"download", "make_folder"}
    BY <1>4
  <2>3. left' = [todo |-> Tail(left.todo), folders |-> left.folders, source |-> left.source, target |-> left.target]
    BY <2>1, SpEnds
  <2>4. answer' = answer
    BY <2>1, <2>2, SpEnds
  <2>5. left'.todo = Tail(left.todo)
    BY <2>3
  <2>6. Head(t).what # "search"
    BY <1>2, <1>4
  <2>7. SpSearchIn(Tail(t), a)
    BY <1>2, <2>6, SpSearchEnd
  <2> QED BY <2>4, <2>5, <2>7
<1>5. CASE h.what = "search"
  <2>1. SearchPage
    BY <1>5 DEF Success, FoldersPage, FilesPage, Item, Session, Finish
  <2>2. PICK b : b = SpAnswered(SpSeen, a)
    OBVIOUS
  <2>3. PICK n : n = IF Len(b) >= call.limit THEN << >> ELSE NextPage(SpSeen)
    OBVIOUS
  <2>4. answer' = b
    BY <2>1, <2>2 DEF SearchPage, Listing, SpAnswered, SpSeen
  <2>5. Follow(n)
    BY <1>5, <2>1, <2>3, <2>4 DEF SearchPage, Listing, SpSeen
  <2>6. left'.todo = n \o Tail(left.todo)
    BY <1>1, <2>5, SpFollowsOn
  <2>7. SpSearchIn(n \o Tail(left.todo), b)
    BY <1>1, <1>5, <2>2, <2>3, SpSearchPage
  <2> QED BY <2>4, <2>6, <2>7
<1> QED BY <1>3, <1>4, <1>5

(* Every step keeps the search: what stayed is taken, or not yet seen.     *)
LEMMA SpSearchesStep ==
  ASSUME Base, SpTyped, SpSearches, SpAct
  PROVE  SpSearches'
<1>1. Shape /\ call' = call
  BY SpShape DEF Shape
<1> SUFFICES ASSUME call.op = "search_files" PROVE SpSearches'
  BY <1>1 DEF SpSearches
<1>2. SpSearchIn(left.todo, answer)
  BY DEF SpSearches
<1> PICK t, a : t = left'.todo /\ a = answer'
  OBVIOUS
<1>3. SpSearchIn(t, a)
  <2>1. CASE Success
    BY <1>2, <2>1, SpSearchSuccess
  <2>2. CASE EachFolder
    BY <2>2, SpEachOp
  <2>3. CASE ~Success /\ ~EachFolder
    <3>1. left' = left /\ answer' = answer
      BY <2>3, SpQuiet
    <3> QED BY <1>2, <3>1
  <2> QED BY <2>1, <2>2, <2>3
<1>4. SpSearchIn(t, a)'
  BY <1>1, <1>3, SpSearchOn
<1>5. SpSearchIn(left.todo, answer)'
  BY <1>4
<1> QED BY <1>1, <1>5 DEF SpSearches

(* Two and three members.                                                   *)
LEMMA MeetsTwo ==
  ASSUME NEW S, NEW a \in S, NEW b \in S, NEW n, n = <<a, b>>
  PROVE  /\ n \in Seq(S) /\ Range(n) = {a, b}
         /\ \A M : Meets(n, M) <=> (a \in M \/ b \in M)
         /\ \A M : Single(n, M) <=> ~(a \in M /\ b \in M)
<1>1. n \in Seq(S) /\ DOMAIN n = {1, 2} /\ n[1] = a /\ n[2] = b
  OBVIOUS
<1>2. Range(n) = {a, b}
  BY <1>1 DEF Range
<1>3. \A M : Meets(n, M) <=> (a \in M \/ b \in M)
  BY <1>1 DEF Meets
<1>4. \A M : Single(n, M) <=> ~(a \in M /\ b \in M)
  BY <1>1 DEF Single
<1> QED BY <1>1, <1>2, <1>3, <1>4

(* Three members.                                                          *)
LEMMA MeetsThree ==
  ASSUME NEW S, NEW a \in S, NEW b \in S, NEW c \in S, NEW n, n = <<a, b, c>>
  PROVE  /\ n \in Seq(S) /\ Range(n) = {a, b, c} /\ DOMAIN n = {1, 2, 3} /\ Len(n) = 3 /\ n[1] = a /\ n[2] = b /\ n[3] = c
         /\ \A M : Meets(n, M) <=> (a \in M \/ b \in M \/ c \in M)
         /\ \A M : Single(n, M) <=> (~(a \in M /\ b \in M) /\ ~(a \in M /\ c \in M) /\ ~(b \in M /\ c \in M))
<1>1. n \in Seq(S) /\ DOMAIN n = {1, 2, 3} /\ Len(n) = 3 /\ n[1] = a /\ n[2] = b /\ n[3] = c
  OBVIOUS
<1>2. Range(n) = {a, b, c}
  BY <1>1 DEF Range
<1>3. \A M : Meets(n, M) <=> (a \in M \/ b \in M \/ c \in M)
  BY <1>1 DEF Meets
<1>4. \A M : Single(n, M) <=> (~(a \in M /\ b \in M) /\ ~(a \in M /\ c \in M) /\ ~(b \in M /\ c \in M))
  BY <1>1 DEF Single
<1> QED BY <1>1, <1>2, <1>3, <1>4

(* What a listing's first requests are for.                                 *)
SpOpens(s) ==
  /\ s \in Seq(SpReqs) /\ \A r \in Range(s) : SpSound(r) /\ r.here = << >> /\ r.last = 0
  /\ \A i \in DOMAIN s : s[i].what = "each_folder" => i = Len(s)
  /\ SpGoesDown => \A z : (Meets(s, SpAsking("folders", z)) <=> SpTop(z)) /\ Single(s, SpAsking("folders", z))
  /\ SpListed(call.op) => /\ \A z : (Meets(s, SpAsking("files", z)) <=> SpTop(z)) /\ Single(s, SpAsking("files", z))
                          /\ call.recursive => SpFirstPhase(s)
(* A path that is asked for is asked for once.                             *)
LEMMA SpLooked ==
  ASSUME SpTyped, NEW k \in {"folders", "files"}, NEW r, r = Lookup(k, call.path)
  PROVE  /\ r \in SpReqs /\ SpSound(r) /\ r.here = << >> /\ r.last = 0 /\ r.what # "each_folder"
         /\ \A z : r \in SpAsking(k, z) <=> SpTop(z)
         /\ \A z, j : j \in {"folders", "files"} \ {k} => r \notin SpAsking(j, z)
<1>1. call.path \in Seq(STRING) /\ Len(call.path) \in Nat /\ k \in SpWhats
  BY SpCalls DEF SpTyped, SpWhats
<1>2. /\ Req(k, call.path) \in SpReqs /\ Req(k, call.path).what = k /\ Req(k, call.path).path = call.path
      /\ Req(k, call.path).here = << >> /\ Req(k, call.path).last = 0 /\ Req(k, call.path).id = Root
  <2>1. Req(k, call.path) \in SpReqs
    BY <1>1, SpReqOf
  <2> QED BY <2>1 DEF Req
<1>3. /\ Find(k, call.path) \in SpReqs /\ Find(k, call.path).what = "item" /\ Find(k, call.path).then = k
      /\ Find(k, call.path).path = call.path /\ Find(k, call.path).here = << >> /\ Find(k, call.path).last = 0
  BY <1>1, SpReqOf, SpFindHas
<1>4. \A j : \A i \in DOMAIN << >> : Len(<< >>[i]) > j
  OBVIOUS
<1>5. CASE call.path = << >>
  <2>1. r = Req(k, call.path)
    BY <1>5 DEF Lookup
  <2>2. r \in SpReqs /\ r.what = k /\ r.path = call.path /\ r.here = << >> /\ r.last = 0 /\ r.id = Root
    BY <1>2, <2>1
  <2>3. Resolved(r.path) = {Root}
    BY <1>5, <2>2 DEF Resolved
  <2>4. r.what # "item" /\ r.what # "each_folder"
    BY <2>2
  <2>5. SpSound(r)
    BY <1>1, <1>4, <2>2, <2>3, <2>4 DEF SpSound
  <2>6. \A j : SpOfKind(r, j) <=> j = k
    BY <2>2, <2>4 DEF SpOfKind
  <2> QED BY <2>2, <2>4, <2>5, <2>6 DEF SpAsking, SpTop
<1>6. CASE call.path # << >>
  <2>1. r = Find(k, call.path)
    BY <1>6 DEF Lookup
  <2>2. r \in SpReqs /\ r.what = "item" /\ r.then = k /\ r.path = call.path /\ r.here = << >> /\ r.last = 0
    BY <1>3, <2>1
  <2>3. SpSound(r)
    BY <1>1, <1>4, <2>2 DEF SpSound
  <2>4. \A j \in {"folders", "files"} : SpOfKind(r, j) <=> j = k
    BY <2>2 DEF SpOfKind
  <2> QED BY <2>2, <2>3, <2>4 DEF SpAsking, SpTop
<1> QED BY <1>5, <1>6

(* The requests of an operation on the whole open a listing.               *)
LEMMA SpRestOpens ==
  ASSUME SpTyped, SpListOp
  PROVE  SpOpens(SpRest(call))
<1> PICK s, d, e, g : s = SpRest(call) /\ d = Lookup("folders", call.path) /\ e = Lookup("files", call.path) /\ g = Req("each_folder", << >>)
  OBVIOUS
<1>1. /\ d \in SpReqs /\ SpSound(d) /\ d.here = << >> /\ d.last = 0 /\ d.what # "each_folder"
      /\ \A z : d \in SpAsking("folders", z) <=> SpTop(z)
      /\ \A z : d \notin SpAsking("files", z)
  BY SpLooked
<1>2. /\ e \in SpReqs /\ SpSound(e) /\ e.here = << >> /\ e.last = 0 /\ e.what # "each_folder"
      /\ \A z : e \in SpAsking("files", z) <=> SpTop(z)
      /\ \A z : e \notin SpAsking("folders", z)
  BY SpLooked
<1>3. /\ g \in SpReqs /\ SpSound(g) /\ g.here = << >> /\ g.last = 0 /\ g.what = "each_folder"
      /\ \A k \in {"folders", "files"} : \A z : g \notin SpAsking(k, z)
  <2>1. "each_folder" \in SpWhats /\ << >> \in Seq(STRING)
    BY DEF SpWhats
  <2>2. g \in SpReqs /\ g.what = "each_folder"
    BY <2>1, SpReqOf
  <2>3. g.here = << >> /\ g.last = 0
    BY DEF Req
  <2>4. \A k \in {"folders", "files"} : ~SpOfKind(g, k)
    BY <2>2 DEF SpOfKind
  <2>5. SpSound(g)
    BY <2>2, <2>3, <2>4 DEF SpSound
  <2> QED BY <2>2, <2>3, <2>4, <2>5 DEF SpAsking
<1>4. CASE call.op = "list_folders"
  <2>1. s = <<d>> /\ ~SpListed(call.op)
    BY <1>4, SpRestIs DEF SpListed
  <2>2. s \in Seq(SpReqs) /\ Range(s) = {d} /\ Len(s) = 1
    BY <1>1, <2>1, OneIs
  <2>3. \A M : (Meets(s, M) <=> d \in M) /\ Single(s, M)
    BY <2>1, MeetsOne
  <2>4. \A i \in DOMAIN s : s[i] \in Range(s)
    BY DEF Range
  <2> QED BY <1>1, <2>1, <2>2, <2>3, <2>4 DEF SpOpens
<1>5. CASE SpListed(call.op) /\ ~call.recursive
  <2>1. s = <<e>> /\ ~SpGoesDown
    BY <1>5, SpRestIs DEF SpListed, SpGoesDown, ListFiles
  <2>2. s \in Seq(SpReqs) /\ Range(s) = {e} /\ Len(s) = 1
    BY <1>2, <2>1, OneIs
  <2>3. \A M : (Meets(s, M) <=> e \in M) /\ Single(s, M)
    BY <2>1, MeetsOne
  <2>4. \A i \in DOMAIN s : s[i] \in Range(s)
    BY DEF Range
  <2> QED BY <1>2, <1>5, <2>1, <2>2, <2>3, <2>4 DEF SpOpens
<1>6. CASE SpListed(call.op) /\ call.recursive
  <2>1. s = <<e, d, g>>
    BY <1>6, SpRestIs DEF SpListed, ListFiles
  <2>2. s \in Seq(SpReqs) /\ Range(s) = {e, d, g} /\ DOMAIN s = {1, 2, 3} /\ Len(s) = 3 /\ s[1] = e /\ s[2] = d /\ s[3] = g
    BY <1>1, <1>2, <1>3, <2>1, MeetsThree
  <2>3. /\ \A M : Meets(s, M) <=> (e \in M \/ d \in M \/ g \in M)
        /\ \A M : Single(s, M) <=> (~(e \in M /\ d \in M) /\ ~(e \in M /\ g \in M) /\ ~(d \in M /\ g \in M))
    BY <1>1, <1>2, <1>3, <2>1, MeetsThree
  <2>4. \A i \in DOMAIN s : s[i].what = "each_folder" => i = Len(s)
    BY <1>1, <1>2, <2>2
  <2>5. SpFirstPhase(s)
    BY <1>3, <2>2 DEF SpFirstPhase
  <2>6. \A r \in Range(s) : SpSound(r) /\ r.here = << >> /\ r.last = 0
    BY <1>1, <1>2, <1>3, <2>2
  <2>7. \A z : (Meets(s, SpAsking("folders", z)) <=> SpTop(z)) /\ Single(s, SpAsking("folders", z))
    BY <1>1, <1>2, <1>3, <2>3
  <2>8. \A z : (Meets(s, SpAsking("files", z)) <=> SpTop(z)) /\ Single(s, SpAsking("files", z))
    BY <1>1, <1>2, <1>3, <2>3
  <2>9. s \in Seq(SpReqs)
    BY <2>2
  <2> QED BY <2>4, <2>5, <2>6, <2>7, <2>8, <2>9 DEF SpOpens
<1> QED BY <1>4, <1>5, <1>6 DEF SpListOp

(* The requests for the drive before them are for no folder.                *)
LEMMA SpDriveFirst ==
  ASSUME NEW s, SpOpens(s), NEW a \in SpReqs, NEW b \in SpReqs, a = SpSite, b = SpItsDrive, NEW v, v = <<a, b>> \o s
  PROVE  SpOpens(v)
<1>1. PICK u : u = <<a, b>>
  OBVIOUS
<1>2. /\ a.what = "site" /\ a.here = << >> /\ a.last = 0
      /\ b.what = "drive" /\ b.here = << >> /\ b.last = 0
  BY DEF SpSite, SpItsDrive, Req
<1>3. SpSound(a) /\ SpSound(b) /\ \A k \in {"folders", "files"} : \A z : a \notin SpAsking(k, z) /\ b \notin SpAsking(k, z)
  BY <1>2 DEF SpSound, SpOfKind, SpAsking
<1>4. /\ u \in Seq(SpReqs) /\ Range(u) = {a, b}
      /\ \A M : Meets(u, M) <=> (a \in M \/ b \in M)
      /\ \A M : Single(u, M) <=> ~(a \in M /\ b \in M)
  BY <1>1, MeetsTwo
<1>5. s \in Seq(SpReqs) /\ Len(s) \in Nat /\ DOMAIN s = 1 .. Len(s)
  BY SeqMembers DEF SpOpens
<1>6. u \in Seq(SpReqs) /\ u \o s = v
  BY <1>1, <1>4
<1>7. ASSUME NEW M, a \notin M, b \notin M PROVE (Meets(v, M) <=> Meets(s, M)) /\ (Single(v, M) <=> Single(s, M))
  <2>1. ~Meets(u, M) /\ Single(u, M)
    BY <1>4, <1>7
  <2>2. /\ Meets(u \o s, M) <=> (Meets(u, M) \/ Meets(s, M))
        /\ Single(u \o s, M) <=> (Single(u, M) /\ Single(s, M) /\ ~(Meets(u, M) /\ Meets(s, M)))
    BY <1>5, <1>6, MeetsBoth
  <2> QED BY <1>6, <2>1, <2>2
<1>8. v \in Seq(SpReqs) /\ Len(v) = 2 + Len(s) /\ v[1] = a /\ v[2] = b /\ \A i \in 1 .. Len(s) : v[2 + i] = s[i]
  BY <1>1, <1>5, <1>6, TwoThen
<1>9. \A r \in Range(v) : SpSound(r) /\ r.here = << >> /\ r.last = 0
  <2>1. \A r \in Range(u \o s) : r \in Range(u) \/ r \in Range(s)
    BY <1>5, <1>6, RangeBoth
  <2>2. \A r \in Range(s) : SpSound(r) /\ r.here = << >> /\ r.last = 0
    BY DEF SpOpens
  <2> QED BY <1>2, <1>3, <1>4, <1>6, <2>1, <2>2
<1>10. ASSUME NEW i \in DOMAIN v, v[i].what = "each_folder" PROVE i = Len(v)
  <2>0. PICK m : m = Len(s)
    OBVIOUS
  <2>1. DOMAIN v = 1 .. (2 + m) /\ m \in Nat
    BY <1>5, <1>8, <2>0, SeqMembers
  <2>2. i = 1 \/ i = 2 \/ (i - 2 \in 1 .. m /\ i = 2 + (i - 2))
    <3>1. i \in 1 .. (2 + m) /\ m \in Nat
      BY <1>10, <2>1
    <3>2. i \in Int /\ m \in Int /\ 1 <= i /\ i <= 2 + m
      BY <3>1
    <3> QED BY <3>2
  <2>3. i # 1 /\ i # 2
    BY <1>2, <1>8, <1>10
  <2>j. PICK j : j = i - 2
    OBVIOUS
  <2>4. j \in 1 .. m /\ i = 2 + j
    BY <2>2, <2>3, <2>j
  <2>5. s[j].what = "each_folder"
    <3>1. v[2 + j] = s[j]
      <4>1. \A k \in 1 .. m : v[2 + k] = s[k]
        BY <1>8, <2>0
      <4>2. j \in 1 .. m
        BY <2>4
      <4> QED BY <4>1, <4>2
    <3> QED BY <1>10, <2>4, <3>1
  <2>6. j = m
    BY <1>5, <2>0, <2>4, <2>5 DEF SpOpens
  <2> QED BY <1>8, <2>0, <2>4, <2>6
<1>11. SpFirstPhase(s) => SpFirstPhase(v)
  <2>1. a \notin SpEachOnes /\ b \notin SpEachOnes
    BY <1>2 DEF SpEachOnes
  <2>2. Meets(v, SpEachOnes) <=> Meets(s, SpEachOnes)
    BY <1>7, <2>1
  <2> QED BY <1>5, <1>8, <2>2, SpPhaseIs
<1>12. \A k \in {"folders", "files"} : \A z : /\ Meets(v, SpAsking(k, z)) <=> Meets(s, SpAsking(k, z))
                                              /\ Single(v, SpAsking(k, z)) <=> Single(s, SpAsking(k, z))
  BY <1>3, <1>7
<1> QED BY <1>8, <1>9, <1>10, <1>11, <1>12 DEF SpOpens

(* They start a listing, with nothing found yet.                            *)
LEMMA SpOpensLists ==
  ASSUME SpTyped, SpParents, SpListOp, NEW t, SpOpens(t), NEW f, f = << >>
  PROVE  SpListsIn(t, f, f)
<1>1. DOMAIN f = {} /\ f \in Seq(SpFiles) /\ \A M : ~Meets(f, M) /\ Single(f, M)
  BY DEF Meets, Single
<1>2. /\ t \in Seq(SpReqs) /\ \A r \in Range(t) : SpSound(r) /\ r.here = << >> /\ r.last = 0
      /\ \A i \in DOMAIN t : t[i].what = "each_folder" => i = Len(t)
  BY DEF SpOpens
<1>3. \A i \in DOMAIN t : t[i] \in Range(t)
  BY DEF Range
<1>4. \A r \in Range(t) : \A y : r \notin SpHolding(y)
  BY <1>2 DEF SpHolding, Meets
<1>5. \A y : ~Meets(t, SpHolding(y))
  BY <1>3, <1>4 DEF Meets
<1>6. ASSUME NEW k, NEW z, NEW x \in SpItems PROVE Meets(t, SpBefore(k, z, x)) <=> Meets(t, SpAsking(k, z))
  <2>1. 0 < Position(x)
    BY SpPositions
  <2>2. \A i \in DOMAIN t : t[i] \in SpBefore(k, z, x) <=> t[i] \in SpAsking(k, z)
    BY <1>2, <1>3, <2>1 DEF SpBefore
  <2> QED BY <2>2 DEF Meets
<1>7. ASSUME SpGoesDown PROVE SpFoldersIn(t, f)
  <2>1. \A z : (Meets(t, SpAsking("folders", z)) <=> SpTop(z)) /\ Single(t, SpAsking("folders", z))
    BY <1>7 DEF SpOpens
  <2>2. ASSUME NEW y \in SpFolders, ~SpTop(y), NEW z PROVE SpFolderIn(y, z, t, f)
    <3>1. SpReached(z, t, f) <=> SpTop(z)
      BY <1>1 DEF SpReached
    <3>2. y \in SpItems
      BY SpConstants
    <3>3. Meets(t, SpBefore("folders", z, y)) <=> SpTop(z)
      BY <1>6, <2>1, <3>2
    <3> QED BY <1>1, <1>4, <1>5, <2>1, <2>2, <3>1, <3>3 DEF SpFolderIn
  <2> QED BY <2>1, <2>2 DEF SpFoldersIn
<1>8. ASSUME SpListed(call.op) PROVE SpFilesIn(t, f)
  <2>1. /\ \A z : (Meets(t, SpAsking("files", z)) <=> SpTop(z)) /\ Single(t, SpAsking("files", z))
        /\ call.recursive => SpFirstPhase(t)
    BY <1>8 DEF SpOpens
  <2>2. ASSUME NEW x \in SpFiles, SpChained(x), NEW z, z = remote[x][1], z \in SpBelow PROVE SpFileIn(x, z, t, f)
    <3>1. x \in SpItems
      BY SpConstants
    <3>2. Meets(t, SpBefore("files", z, x)) <=> SpTop(z)
      BY <1>6, <2>1, <3>1
    <3>3. z \in SpIds /\ SpChained(z)
      BY <2>2, <3>1, SpChainedUp, SpConstants DEF SpIds
    <3>4. ~SpTop(z) => call.recursive
      BY <2>2, <3>3, SpBelowUp
    <3> QED BY <1>1, <2>1, <3>2, <3>4 DEF SpFileIn
  <2>3. \A x \in SpFiles : (SpChained(x) /\ Chosen(x) /\ remote[x][1] \in SpBelow) => SpFileIn(x, remote[x][1], t, f)
    BY <2>2
  <2> QED BY <1>1, <2>1, <2>3 DEF SpFilesIn
<1> QED BY <1>1, <1>2, <1>7, <1>8 DEF SpListsIn

(* A drive is a tree when a call begins.                                    *)
LEMMA SpBeginParents ==
  ASSUME SpBegin
  PROVE  SpParents
<1>1. PICK d \in SpDrives :
        remote = [x \in SpItems \cup {"token"} |-> IF x = "token" THEN "none" ELSE IF x \in DOMAIN d THEN d[x] ELSE Gone]
  BY DEF SpBegin, Begin
<1>2. "token" \notin SpItems /\ SpTree(d)
  BY SpConstants, SpAssumption DEF SpIds
<1>3. ASSUME NEW x \in SpItems, SpKept(x) PROVE remote[x][1] \in SpFolders \cup {Root} /\ x \notin SpSpares
  <2>1. remote[x] = (IF x \in DOMAIN d THEN d[x] ELSE Gone) /\ remote[x] # Gone
    BY <1>1, <1>2, <1>3 DEF SpKept
  <2>2. x \in DOMAIN d /\ remote[x] = d[x]
    BY <2>1
  <2>3. d[x] \in ({Root} \cup (SpFolders \cap DOMAIN d)) \X STRING /\ x \in SpFolders \cup SpFiles
    BY <1>2, <2>2 DEF SpTree
  <2>4. d[x][1] \in {Root} \cup (SpFolders \cap DOMAIN d)
    BY <2>3
  <2> QED BY <2>2, <2>3, <2>4, SpConstants
<1> QED BY <1>3 DEF SpParents

(* They start a search, with nothing found yet.                            *)
LEMMA SpSearchStarts ==
  ASSUME SpTyped, call.op = "search_files", NEW t, t = SpRest(call) \/ t = <<SpSite, SpItsDrive>> \o SpRest(call), NEW f, f = << >>
  PROVE  SpSearchIn(t, f)
<1>0. DOMAIN f = {} /\ f \in Seq(SpFiles) /\ Len(f) = 0 /\ \A M : ~Meets(f, M) /\ Single(f, M)
  BY DEF Meets, Single
<1> PICK r, a, b : r = Req("search", << >>) /\ a = SpSite /\ b = SpItsDrive
  OBVIOUS
<1>1. r \in SpReqs /\ r.what = "search" /\ r.last = 0
  <2>1. "search" \in SpWhats /\ << >> \in Seq(STRING)
    BY DEF SpWhats
  <2>2. r \in SpReqs /\ r.what = "search"
    BY <2>1, SpReqOf
  <2>3. r.last = 0
    BY DEF Req
  <2> QED BY <2>2, <2>3
<1>2. a \in SpReqs /\ b \in SpReqs /\ a.what = "site" /\ b.what = "drive"
  <2>1. "site" \in SpWhats /\ "drive" \in SpWhats /\ << >> \in Seq(STRING)
    BY DEF SpWhats
  <2>2. a \in SpReqs /\ a.what = "site"
    BY <2>1, SpReqOf DEF SpSite
  <2>3. b \in SpReqs /\ b.what = "drive"
    BY <2>1, SpReqOf DEF SpItsDrive
  <2> QED BY <2>2, <2>3
<1>3. PICK s : s = SpRest(call)
  OBVIOUS
<1>4. s = <<r>>
  BY <1>3, SpRestIs
<1>5. s \in Seq(SpReqs) /\ Range(s) = {r}
  BY <1>1, <1>4, OneIs
<1>6. \A M : (Meets(s, M) <=> r \in M) /\ Single(s, M)
  BY <1>4, MeetsOne
<1>7. PICK u : u = <<a, b>>
  OBVIOUS
<1>8. /\ u \in Seq(SpReqs) /\ Range(u) = {a, b}
      /\ \A M : Meets(u, M) <=> (a \in M \/ b \in M)
      /\ \A M : Single(u, M) <=> ~(a \in M /\ b \in M)
  BY <1>2, <1>7, MeetsTwo
<1>9. u \in Seq(SpReqs) /\ s \in Seq(SpReqs)
  BY <1>5, <1>8
<1>10. /\ \A M : Meets(u \o s, M) <=> (Meets(u, M) \/ Meets(s, M))
       /\ \A M : Single(u \o s, M) <=> (Single(u, M) /\ Single(s, M) /\ ~(Meets(u, M) /\ Meets(s, M)))
       /\ \A q \in Range(u \o s) : q \in Range(u) \/ q \in Range(s)
  BY <1>9, MeetsBoth, RangeBoth
<1>11. t = s \/ t = u \o s
  BY <1>3, <1>7
<1>12. a \notin SpSearching /\ b \notin SpSearching /\ \A x : a \notin SpUnseen(x) /\ b \notin SpUnseen(x)
  BY <1>2 DEF SpSearching, SpUnseen
<1>13. \A x \in SpItems : r \in SpUnseen(x)
  BY <1>1, SpPositions DEF SpUnseen, SpSearching
<1>14. Single(t, SpSearching) /\ \A x \in SpItems : Meets(t, SpUnseen(x))
  <2>1. CASE t = s
    BY <1>6, <1>13, <2>1
  <2>2. CASE t = u \o s
    <3>1. ~Meets(u, SpSearching) /\ Single(u, SpSearching)
      BY <1>8, <1>12
    <3> QED BY <1>6, <1>10, <1>13, <2>2, <3>1
  <2> QED BY <1>11, <2>1, <2>2
<1>15. \A q \in Range(t) : q.what # "item"
  <2>1. a.what # "item" /\ b.what # "item" /\ r.what # "item"
    BY <1>1, <1>2
  <2>2. (\A q \in Range(s) : q.what # "item") /\ (\A q \in Range(u) : q.what # "item")
    BY <1>5, <1>8, <2>1
  <2>3. \A q \in Range(u \o s) : q.what # "item"
    BY <1>10, <2>2
  <2>4. CASE t = s
    BY <2>2, <2>4
  <2>5. CASE t = u \o s
    BY <2>3, <2>5
  <2> QED BY <1>11, <2>4, <2>5
<1>16. call.limit \in Nat \ {0}
  BY SpCalls DEF SpTyped
<1>17. \A x \in SpFiles : x \in SpItems
  BY SpConstants
<1> QED BY <1>0, <1>14, <1>15, <1>16, <1>17 DEF SpSearchIn

(* Every listing and every search begins so.                               *)
LEMMA SpListsInitial ==
  ASSUME SpBegin
  PROVE  SpLists /\ SpSearches
<1>1. SpTyped
  BY SpInitial DEF SpInv
<1>2. left.todo = SpPlan(call) /\ left.folders = << >> /\ answer = << >> /\ told = "none"
  <2>1. PICK c \in Calls, d \in SpDrives :
        c.client = "sharepoint"
        /\ Begin(c, "request", [todo |-> SpPlan(c), folders |-> << >>, source |-> Root, target |-> Root],
                 [x \in SpItems \cup {"token"} |-> IF x = "token" THEN "none" ELSE IF x \in DOMAIN d THEN d[x] ELSE Gone])
    BY DEF SpBegin
  <2>2. call = c /\ left = [todo |-> SpPlan(c), folders |-> << >>, source |-> Root, target |-> Root] /\ answer = << >> /\ told = "none"
    BY <2>1 DEF Begin
  <2> QED BY <2>2
<1>3. SpParents
  BY SpBeginParents
<1>4. left.todo = SpRest(call) \/ left.todo = <<SpSite, SpItsDrive>> \o SpRest(call)
  BY <1>1, <1>2, SpPlanIs DEF SpTyped
<1>5. PICK t, f : t = left.todo /\ f = << >>
  OBVIOUS
<1>6. ASSUME SpListOp PROVE SpListsIn(t, f, f)
  <2>1. SpOpens(SpRest(call))
    BY <1>1, <1>6, SpRestOpens
  <2>2. SpOpens(t)
    <3>1. CASE t = SpRest(call)
      BY <2>1, <3>1
    <3>2. CASE t = <<SpSite, SpItsDrive>> \o SpRest(call)
      <4>1. SpSite \in SpReqs /\ SpItsDrive \in SpReqs
        <5>1. "site" \in SpWhats /\ "drive" \in SpWhats /\ << >> \in Seq(STRING)
          BY DEF SpWhats
        <5> QED BY <5>1, SpReqOf DEF SpSite, SpItsDrive
      <4> QED BY <2>1, <3>2, <4>1, SpDriveFirst
    <3> QED BY <1>4, <1>5, <3>1, <3>2
  <2> QED BY <1>1, <1>3, <1>5, <1>6, <2>2, SpOpensLists
<1>7. SpLists
  BY <1>2, <1>3, <1>5, <1>6 DEF SpLists, SpListOp
<1>8. SpSearches
  <2>1. call.op = "search_files" => SpSearchIn(t, f)
    BY <1>1, <1>4, <1>5, SpSearchStarts
  <2> QED BY <1>2, <1>5, <2>1 DEF SpSearches
<1> QED BY <1>7, <1>8

(* One place in a sequence.                                                 *)
LEMMA OnceIs ==
  ASSUME NEW a, NEW M, Meets(a, M), Single(a, M)
  PROVE  Cardinality({i \in DOMAIN a : a[i] \in M}) = 1
<1>1. PICK k \in DOMAIN a : a[k] \in M
  BY DEF Meets
<1>2. {i \in DOMAIN a : a[i] \in M} = {k}
  BY <1>1 DEF Single
<1> QED BY <1>2, FS_Singleton

(* A listing that has returned is complete.                                 *)
LEMMA SpNotOver ==
  ASSUME SpTyped, SpParents, NEW x \in SpFolders, SpChained(x), remote[x][1] \in SpBelow
  PROVE  ~SpTop(x)
<1> SUFFICES ASSUME SpTop(x) PROVE FALSE
  OBVIOUS
<1> PICK v, q : v = remote[x][1] /\ q = call.path
  OBVIOUS
<1>1. x \in SpItems /\ x \in SpIds /\ x # Root
  BY SpConstants DEF SpIds
<1>2. q \in Seq(STRING) /\ x \in Resolved(q)
  BY SpCalls DEF SpTyped, SpTop
<1>3. \A y \in Resolved(q) : y = x
  BY <1>1, <1>2, SpOneWay
<1>4. x \notin Above(x) /\ v # x
  BY <1>1, SpNoCycle
<1>5. v \in SpFolders /\ x \in Above(v)
  <2>1. v \in SpFolders /\ Resolved(q) \cap ({Root} \cup Above(v)) # {}
    BY <1>3, <1>4 DEF SpBelow
  <2> QED BY <1>1, <1>3, <2>1
<1>6. Above(v) \subseteq Above(x)
  <2>1. v \in Above(x) /\ Above(x) \in SUBSET SpFolders
    BY <1>5, SpAboveIs
  <2>2. \A z \in Above(x) \cup {v} : remote[z][1] \in SpFolders => remote[z][1] \in Above(x)
    BY <2>1, SpAboveIs
  <2> QED BY <2>1, <2>2, SpAboveIs
<1> QED BY <1>4, <1>5, <1>6

(* What stayed is there.                                                   *)
LEMMA SpStaysIs ==
  ASSUME NEW x \in SpItems, SpStays(x)
  PROVE  SpKept(x)
<1>1. x # Root
  BY SpConstants
<1> QED BY <1>1 DEF SpStays, SpKept

(* What stayed in folders that stayed is where it was.                     *)
LEMMA SpAllStays ==
  ASSUME NEW x \in SpItems, SpStays(x), \A y \in Above(x) : SpStays(y)
  PROVE  SpChained(x)
<1>1. \A y \in Above(x) : y \in SpItems
  BY SpAboveIs, SpConstants
<1> QED BY <1>1, SpStaysIs DEF SpChained

(* A listing that returns with nothing left to do has what SpListing says. *)
LEMMA SpListingMeans ==
  ASSUME Base, SpTyped, SpEndsEmpty, SpLists, SpSearches, told = "returned"
  PROVE  SpListing
<1> PICK t, f, a : t = left.todo /\ f = left.folders /\ a = answer
  OBVIOUS
<1>1. t = << >> /\ f \in Seq(Seq(STRING))
  BY DEF SpEndsEmpty, SpTyped
<1>2. \A M : ~Meets(t, M)
  BY <1>1, MeetsIs
<1>3. ~SpFirstPhase(t)
  BY <1>1 DEF SpFirstPhase
<1>4. ASSUME call.op \in {"list_files", "list_newly_created_files"}
      PROVE  /\ \A x \in SpSettled : Cardinality({i \in DOMAIN a : a[i] = x}) = 1
             /\ \A x \in {a[i] : i \in DOMAIN a} : Chosen(x) /\ <<x, Gone>> \notin steady
  <2>1. SpParents /\ SpFilesIn(t, a)
    BY <1>4 DEF SpLists, SpListsIn, SpListed
  <2>2. ASSUME NEW x \in SpSettled PROVE Cardinality({i \in DOMAIN a : a[i] = x}) = 1
    <3>1. x \in SpFiles /\ x \in SpItems /\ Chosen(x) /\ remote[x][1] \in SpBelow /\ SpStays(x) /\ \A y \in Above(x) : SpStays(y)
      BY SpConstants DEF SpSettled
    <3>2. SpChained(x)
      BY <3>1, SpAllStays
    <3>3. SpFileIn(x, remote[x][1], t, a)
      BY <2>1, <3>1, <3>2 DEF SpFilesIn
    <3>4. Meets(a, {x}) /\ Single(a, {x})
      BY <1>2, <1>3, <3>3 DEF SpFileIn
    <3>5. {i \in DOMAIN a : a[i] = x} = {i \in DOMAIN a : a[i] \in {x}}
      OBVIOUS
    <3> QED BY <3>4, <3>5, OnceIs
  <2> QED BY <2>1, <2>2 DEF SpFilesIn
<1>5. ASSUME call.op = "search_files"
      PROVE  /\ Len(answer) <= call.limit /\ \A x \in {answer[i] : i \in DOMAIN answer} : Cardinality({i \in DOMAIN answer : answer[i] = x}) = 1
             /\ Len(answer) < call.limit => \A x \in SpFiles : SpStays(x) => x \in {answer[i] : i \in DOMAIN answer}
  <2>1. SpSearchIn(t, answer)
    BY <1>5 DEF SpSearches
  <2>2. /\ \A x \in SpFiles : Single(answer, {x}) /\ answer \in Seq(SpFiles) /\ Len(answer) <= call.limit
        /\ Len(answer) < call.limit => \A x \in SpFiles : SpKept(x) => Meets(answer, {x})
        /\ answer \in Seq(SpFiles) /\ Len(answer) <= call.limit
    BY <1>2, <2>1 DEF SpSearchIn
  <2>3. ASSUME NEW k \in DOMAIN answer PROVE Cardinality({i \in DOMAIN answer : answer[i] = answer[k]}) = 1
    <3>0. PICK x : x = answer[k]
      OBVIOUS
    <3>1. x \in SpFiles
      BY <2>2, <3>0, SeqMembers
    <3>2. Meets(answer, {x}) /\ Single(answer, {x})
      BY <2>2, <3>0, <3>1 DEF Meets
    <3>3. {i \in DOMAIN answer : answer[i] = x} = {i \in DOMAIN answer : answer[i] \in {x}}
      OBVIOUS
    <3>4. Cardinality({i \in DOMAIN answer : answer[i] = x}) = 1
      BY <3>2, <3>3, OnceIs
    <3> QED BY <3>0, <3>4
  <2>4. ASSUME Len(answer) < call.limit, NEW x \in SpFiles, SpStays(x) PROVE x \in {answer[i] : i \in DOMAIN answer}
    <3>1. SpKept(x)
      BY <2>4, SpConstants, SpStaysIs
    <3>2. Meets(answer, {x})
      BY <2>2, <2>4, <3>1
    <3> QED BY <3>2 DEF Meets
  <2>5. \A x \in {answer[i] : i \in DOMAIN answer} : Cardinality({i \in DOMAIN answer : answer[i] = x}) = 1
    BY <2>3
  <2> QED BY <2>2, <2>4, <2>5
<1>6. ASSUME call.op = "list_folders", NEW x \in SpFoldersSettled
      PROVE  Cardinality({i \in DOMAIN a : Resolved(a[i]) = {x}}) = 1
  <2>1. SpParents /\ SpFoldersIn(t, f) /\ a = f
    BY <1>6 DEF SpLists, SpListsIn, SpGoesDown
  <2>2. x \in SpFolders /\ x \in SpItems /\ x \in SpIds /\ remote[x][1] \in SpBelow /\ SpStays(x) /\ \A y \in Above(x) : SpStays(y)
    BY SpConstants DEF SpFoldersSettled, SpIds
  <2>3. SpChained(x)
    BY <2>2, SpAllStays
  <2>4. ~SpTop(x)
    BY <2>1, <2>2, <2>3, SpNotOver
  <2>5. Meets(f, SpWays(x)) /\ Single(f, SpWays(x))
    BY <1>2, <2>1, <2>2, <2>3, <2>4, SpAllFound
  <2>6. ASSUME NEW i \in DOMAIN f PROVE Resolved(f[i]) = {x} <=> f[i] \in SpWays(x)
    <3>0. PICK q : q = f[i]
      OBVIOUS
    <3>1. q \in Seq(STRING)
      BY <1>1, <3>0, SeqMembers
    <3>2. x \in Resolved(q) => \A y \in Resolved(q) : y = x
      BY <2>1, <2>2, <2>3, <3>1, SpOneWay
    <3>3. Resolved(q) = {x} <=> x \in Resolved(q)
      BY <3>2
    <3> QED BY <3>0, <3>1, <3>3 DEF SpWays
  <2>7. {i \in DOMAIN f : Resolved(f[i]) = {x}} = {i \in DOMAIN f : f[i] \in SpWays(x)}
    BY <2>6
  <2> QED BY <2>1, <2>5, <2>7, OnceIs
<1>7. call.op \in {"list_files", "list_newly_created_files"} =>
        /\ \A x \in SpSettled : Cardinality({i \in DOMAIN answer : answer[i] = x}) = 1
        /\ \A x \in {answer[i] : i \in DOMAIN answer} : Chosen(x) /\ <<x, Gone>> \notin steady
  BY <1>4
<1>8. call.op = "search_files" =>
        /\ Len(answer) <= call.limit
        /\ \A x \in {answer[i] : i \in DOMAIN answer} : Cardinality({i \in DOMAIN answer : answer[i] = x}) = 1
        /\ Len(answer) < call.limit => \A x \in SpFiles : SpStays(x) => x \in {answer[i] : i \in DOMAIN answer}
  BY <1>5
<1>9. call.op = "list_folders" => \A x \in SpFoldersSettled : Cardinality({i \in DOMAIN answer : Resolved(answer[i]) = {x}}) = 1
  BY <1>6
<1> QED BY <1>7, <1>8, <1>9, Zenon DEF SpListing
================================================================================
