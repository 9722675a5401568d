------------------------ MODULE StepsAndUtilitiesProofs ------------------------
(***************************************************************************)
(* Proofs about what happens inside the process of a step: StepExecution,  *)
(* one attempt of it, and TeradataUtilities, the programs its code calls.  *)
(* The two do not meet; each has its own part of this module.              *)
(***************************************************************************)
EXTENDS StepExecution, TeradataUtilities, FiniteSetTheorems, TLAPS

------------------------------------------------------------------------------
(***************************************************************************)
(* StepExecution, for every list of outputs, every relation between        *)
(* assets, and any length of an attempt: a success has kept every output   *)
(* it announced, an asset the function gave is materialized before those   *)
(* that depend on it, and an attempt is what the executor takes it for.    *)
(***************************************************************************)
IsList(s) == \E S : s \in Seq(S)

Lists == IsList(log) /\ IsList(pieces)

(* What the record of an asset can be. *)
Marks == {"materialized", "observed"}
Untold(o) == Positions("handled", o) = {} /\ \A k \in Marks : Positions(k, o) = {}

(* What Store leaves of an output. *)
Due(o, k) == o \in Assets /\ step.assets = k
Entered(o) ==
  /\ Handled(o) => \E n : Positions("handled", o) = {n}
  /\ ~ Handled(o) => Positions("handled", o) = {}
  /\ \A k \in Marks : /\ Due(o, k) => \E n : Positions(k, o) = {n}
                      /\ ~ Due(o, k) => Positions(k, o) = {}

(* An output that came before is about to be refused. *)
Twice(o) == \E i \in DOMAIN pieces : pieces[i].kind = "output" /\ pieces[i].out = o

(* What the function gives is known, whatever it returned. *)
Known == Items \cup {Plain, Wrong}
Words == {"passed", "warned", "refuted"}

Begun ==
  /\ stage \in {"spawned", "inputs", "compute", "returned", "closing"} \cup Ends
  /\ step.selected \subseteq Outs /\ seen \subseteq Outs
  /\ \/ storing = << >>
     \/ \E o \in Outs, ok \in BOOLEAN : storing = <<[out |-> o, ok |-> ok]>>
  /\ stage \in {"spawned", "inputs"} => Told = {} /\ seen = {} /\ Idle
  /\ items \in Seq(Known)
  /\ stage = "spawned" => log = << >>

(* Outputs are announced when they are seen; those implied at the end are not. *)
Announced ==
  /\ Running => seen \subseteq Told
  /\ \A o \in Outs \ Told : Untold(o)
  /\ stage \in {"compute", "returned"} => Told \subseteq seen

(* The output that is being stored is that of the first piece: announced,   *)
(* not recorded yet, and none that depends on it was materialized.          *)
Handling ==
  Running /\ storing # << >> =>
    LET o == storing[1].out IN
    /\ pieces # << >> /\ Head(pieces).out = o
    /\ o \in Told /\ Untold(o)
    /\ o \in seen \cap Assets => \A c \in Children[o] \ {o} : Positions("materialized", c) = {}

(* At the end the pieces are what the outputs miss, each output once. *)
Closing ==
  stage = "closing" =>
    /\ \A i \in DOMAIN pieces :
         /\ pieces[i].kind \in {"implied", "missing"}
         /\ pieces[i].out \in Outs
         /\ i > 1 \/ storing = << >> => pieces[i].out \notin Told
    /\ \A i, j \in DOMAIN pieces : pieces[i].out = pieces[j].out => i = j
    /\ \A o \in Required(step) : o \in Told \/ \E i \in DOMAIN pieces : pieces[i].out = o
Open ==
  stage \in {"compute", "returned"} =>
    \A i \in DOMAIN pieces : /\ pieces[i].kind \notin {"implied", "missing"}
                             /\ pieces[i].kind = "evaluation" => pieces[i].verdict \in Words

(* What is announced is kept, but for a result that comes a second time,   *)
(* with a value or without, and ends the attempt.                          *)
Stored ==
  Running \/ stage = "success" =>
    \A o \in Told : (storing # << >> /\ storing[1].out = o) \/ Entered(o) \/ Twice(o)

Refuted ==
  /\ \A c \in Blocking : Positions("refuted", c) # {} => c \in blocked
  /\ stage = "success" => blocked = {} /\ Idle

StepInv ==
  /\ Lists /\ Begun /\ Announced /\ Handling /\ Closing /\ Open /\ Stored /\ Refuted
  /\ ParentsFirst

------------------------------------------------------------------------------
USE StepAssumption

(* A list with one more element is a list. *)
LEMMA ListAppend == ASSUME NEW s, IsList(s), NEW e PROVE IsList(Append(s, e))
<1>1. PICK S : s \in Seq(S)
  BY DEF IsList
<1>2. Append(s, e) \in Seq(S \cup {e})
  BY <1>1
<1> QED  BY <1>2 DEF IsList

(* The tail of a list is the list without its first element. *)
LEMMA ListTail ==
  ASSUME NEW s, IsList(s), s # << >>
  PROVE  /\ IsList(Tail(s))
         /\ 1 \in DOMAIN s /\ Head(s) = s[1]
         /\ DOMAIN Tail(s) = {i \in Nat \ {0} : i + 1 \in DOMAIN s}
         /\ \A i \in DOMAIN Tail(s) : Tail(s)[i] = s[i + 1]
         /\ \A j \in DOMAIN s : j = 1 \/ j - 1 \in DOMAIN Tail(s)
<1>1. PICK S : s \in Seq(S)
  BY DEF IsList
<1>2. Tail(s) \in Seq(S)
  BY <1>1
<1> QED  BY <1>1, <1>2 DEF IsList

Pos(l, k, o) == {i \in DOMAIN l : l[i] = Event(k, o)}

(* An event tells its kind and its output. *)
LEMMA EventIs == \A k, o, m, p : Event(k, o) = Event(m, p) => k = m /\ o = p
BY DEF Event

(* Where an event is after another was appended: where it was, and at the  *)
(* end if it is the one.                                                   *)
LEMMA AppendPositions ==
  ASSUME NEW l, IsList(l), NEW e, NEW k, NEW o
  PROVE  /\ Len(l) \in Nat /\ Len(l) + 1 \notin Pos(l, k, o)
         /\ \A i \in Pos(l, k, o) : i \in Nat /\ i < Len(l) + 1
         /\ Pos(Append(l, e), k, o) =
              IF e = Event(k, o) THEN Pos(l, k, o) \cup {Len(l) + 1} ELSE Pos(l, k, o)
<1>1. PICK S : l \in Seq(S)
  BY DEF IsList
<1>2. /\ Len(l) \in Nat /\ DOMAIN l = 1 .. Len(l) /\ DOMAIN Append(l, e) = 1 .. Len(l) + 1
      /\ \A i \in 1 .. Len(l) : Append(l, e)[i] = l[i]
      /\ Append(l, e)[Len(l) + 1] = e
  BY <1>1
<1> QED  BY <1>2 DEF Pos

(* Positions are numbers below the next one. *)
LEMMA PositionsBelow ==
  ASSUME NEW l, IsList(l)
  PROVE  Len(l) + 1 \in Nat /\ \A k, o : \A i \in Pos(l, k, o) : i \in Nat /\ i < Len(l) + 1
<1>1. PICK S : l \in Seq(S)
  BY DEF IsList
<1>2. Len(l) \in Nat /\ DOMAIN l = 1 .. Len(l)
  BY <1>1
<1> QED  BY <1>2 DEF Pos

Kinds == {"output", "handled", "materialized", "observed", "refuted"}

(* An event that none of the invariants is about. *)
LEMMA OtherEvent ==
  ASSUME IsList(log), NEW k, k \notin Kinds, NEW p, log' = Append(log, Event(k, p))
  PROVE  \A m \in Kinds : \A o : Positions(m, o)' = Positions(m, o)
<1> SUFFICES ASSUME NEW m \in Kinds, NEW o PROVE Pos(log', m, o) = Pos(log, m, o)
  BY DEF Positions, Pos
<1>1. Event(k, p) # Event(m, o)
  BY EventIs
<1> QED  BY <1>1, AppendPositions

(* An exception ends the attempt with one event, which tells of no output. *)
LEMMA FailsSame ==
  ASSUME IsList(log), NEW exc, Fails(exc)
  PROVE  /\ stage' \in {"retry", "failure"} /\ IsList(log')
         /\ \A m \in Kinds : \A o : Positions(m, o)' = Positions(m, o)
<1>1. stage' \in {"retry", "failure"}
  BY DEF Fails
<1>2. stage' \notin Kinds
  BY <1>1 DEF Kinds
<1> QED  BY <1>1, <1>2, OtherEvent, ListAppend DEF Fails

(* What is announced and recorded depends on the positions of four kinds   *)
(* of events only.                                                         *)
LEMMA SamePositions ==
  ASSUME \A m \in Kinds : \A o : Positions(m, o)' = Positions(m, o)
  PROVE  /\ Told' = Told
         /\ \A o : Untold(o)' <=> Untold(o)
         /\ step' = step /\ bare' = bare => \A o : Entered(o)' <=> Entered(o)
<1>1. Told' = Told /\ \A o : Untold(o)' <=> Untold(o)
  BY DEF Told, Untold, Kinds, Marks
<1>2. ASSUME step' = step, bare' = bare, NEW o PROVE Entered(o)' <=> Entered(o)
  <2>1. (Handled(o)' <=> Handled(o)) /\ \A k : Due(o, k)' <=> Due(o, k)
    BY <1>2 DEF Handled, Observed, Due
  <2>2. /\ Positions("handled", o)' = Positions("handled", o)
        /\ \A k \in Marks : Positions(k, o)' = Positions(k, o)
    BY DEF Kinds, Marks
  <2> QED  BY <2>1, <2>2 DEF Entered
<1> QED  BY <1>1, <1>2

(* A step that logs nothing leaves all of that alone. *)
LEMMA SameLog ==
  ASSUME log' = log
  PROVE  /\ \A k, o : Positions(k, o)' = Positions(k, o)
         /\ Told' = Told
         /\ \A o : Untold(o)' <=> Untold(o)
         /\ step' = step /\ bare' = bare => \A o : Entered(o)' <=> Entered(o)
<1>1. \A k, o : Positions(k, o)' = Positions(k, o)
  BY DEF Positions
<1> QED  BY <1>1, SamePositions

(* Once an attempt has ended badly only what was recorded matters. *)
LEMMA EndedBadly ==
  ASSUME StepInv, stage' \in {"retry", "failure", "cancelled"}, IsList(log'), IsList(pieces'),
         UNCHANGED <<step, items, blocked>>, storing' \in {storing, << >>},
         seen' = seen \/ \E e \in Outs \ Told : seen' = seen \cup {e},
         \A m \in Kinds : \A o : Positions(m, o)' = Positions(m, o)
  PROVE  StepInv'
<1> USE DEF StepInv, Kinds
<1>0. Told' = Told /\ \A o : Untold(o)' <=> Untold(o)
  BY SamePositions
<1>1. Lists'  BY DEF Lists
<1>2. Begun'  BY DEF Begun, Ends
<1>3. Announced'  BY <1>0 DEF Announced, Running
<1>4. Handling'  BY DEF Handling, Running
<1>5. Closing' /\ Open'  BY DEF Closing, Open
<1>6. Stored'  BY DEF Stored, Running
<1>7. Refuted'  BY DEF Refuted
<1>8. ParentsFirst'
  <2>1. CASE seen' = seen
    BY <2>1 DEF ParentsFirst
  <2>2. ASSUME NEW e \in Outs \ Told, seen' = seen \cup {e} PROVE ParentsFirst'
    <3>1. Positions("materialized", e) = {}
      BY <2>2 DEF Announced, Untold, Marks
    <3> QED  BY <2>2, <3>1 DEF ParentsFirst
  <2> QED  BY <2>1, <2>2
<1> QED  BY <1>1, <1>2, <1>3, <1>4, <1>5, <1>6, <1>7, <1>8

(* The pieces of an item are none of those implied at the end. *)
Usual(x) == /\ x.kind \in {"output", "evaluation", "wrong"}
            /\ x.kind = "evaluation" => x.verdict \in Words
Ordinary(s) == \E S : s \in Seq(S) /\ \A x \in S : Usual(x)

(* A list over ordinary pieces is ordinary. *)
LEMMA OrdinaryOver ==
  ASSUME NEW s, NEW S, s \in Seq(S), \A x \in S : Usual(x)
  PROVE  Ordinary(s)
BY DEF Ordinary

(* So are two of them, one after the other. *)
LEMMA OrdinaryConcat ==
  ASSUME NEW s, NEW t, Ordinary(s), Ordinary(t)
  PROVE  Ordinary(s \o t)
<1>1. PICK S : s \in Seq(S) /\ \A x \in S : Usual(x)
  BY DEF Ordinary
<1>2. PICK T : t \in Seq(T) /\ \A x \in T : Usual(x)
  BY DEF Ordinary
<1>3. s \in Seq(S \cup T) /\ t \in Seq(S \cup T)
  BY <1>1, <1>2
<1>4. s \o t \in Seq(S \cup T)
  BY <1>3
<1> QED  BY <1>1, <1>2, <1>4 DEF Ordinary

(* No piece, or one of an ordinary kind. *)
LEMMA OrdinaryShort ==
  /\ Ordinary(<< >>)
  /\ \A k \in {"output", "wrong"} : \A o, b : Ordinary(<<Piece(k, o, b)>>)
  /\ \A o : \A b \in Words : Ordinary(<<Piece("evaluation", o, b)>>)
<1>1. ASSUME NEW t, t = << >> PROVE Ordinary(t)
  <2>1. t \in Seq({})
    BY <1>1
  <2> QED  BY <2>1, OrdinaryOver
<1>2. ASSUME NEW p, Usual(p), NEW t, t = <<p>>
      PROVE  Ordinary(t)
  <2>1. t \in Seq({p}) /\ \A x \in {p} : Usual(x)
    BY <1>2
  <2> QED  BY <2>1, OrdinaryOver
<1>3. ASSUME NEW k \in {"output", "wrong"}, NEW o, NEW b PROVE Usual(Piece(k, o, b))
  BY DEF Usual, Piece
<1>4. ASSUME NEW o, NEW b \in Words PROVE Usual(Piece("evaluation", o, b))
  BY DEF Usual, Piece
<1> QED  BY <1>1, <1>2, <1>3, <1>4

(* The verdicts of what is given are known; only a result comes without a  *)
(* value.                                                                  *)
LEMMA KnownIs ==
  ASSUME NEW i \in Known
  PROVE  /\ i.verdicts \subseteq Verdicts
         /\ i.bare => i.kind = "result"
<1>1. CASE i \in {Output(o) : o \in Outs}
  BY <1>1 DEF Output, Item
<1>2. CASE i \in {Check(v) : v \in Verdicts}
  BY <1>2 DEF Check, Item
<1>3. CASE i \in Results
  <2>1. PICK o \in Assets, b \in BOOLEAN, V \in {{}} \cup {{v} : v \in Verdicts} :
          i = Item("result", o, b, V)
    BY <1>3 DEF Results
  <2>2. V \subseteq Verdicts
    OBVIOUS
  <2> QED  BY <2>1, <2>2 DEF Item
<1>4. CASE i \in {Plain, Wrong}
  BY <1>4 DEF Plain, Wrong, Item
<1> QED  BY <1>1, <1>2, <1>3, <1>4 DEF Known, Items

(* A sequence of some outputs in the order of their definition names each  *)
(* once.                                                                   *)
LEMMA InOrderIs ==
  ASSUME NEW S \in SUBSET Outs, NEW g \in InOrder(S)
  PROVE  /\ g \in Seq(S) /\ \E n \in Nat : DOMAIN g = 1 .. n
         /\ \A k \in DOMAIN g : g[k] \in S
         /\ \A o \in S : \E k \in DOMAIN g : g[k] = o
         /\ \A j, k \in DOMAIN g : g[j] = g[k] => j = k
<1>1. IsFiniteSet(Outs)
  <2>1. OutSeq \in Surjection(1 .. Len(OutSeq), Outs)
    <3>1. OutSeq \in [1 .. Len(OutSeq) -> Outs]
      OBVIOUS
    <3>2. \A o \in Outs : \E k \in 1 .. Len(OutSeq) : OutSeq[k] = o
      BY DEF Outs, ToSet
    <3> QED  BY <3>1, <3>2 DEF Surjection
  <2>2. IsFiniteSet(1 .. Len(OutSeq))
    BY FS_Interval
  <2> QED  BY <2>1, <2>2, FS_Surjection
<1>2. Cardinality(S) \in Nat
  BY <1>1, FS_Subset, FS_CardinalityType
<1>3. g \in Bijection(1 .. Cardinality(S), S)
  BY DEF InOrder
<1> QED  BY <1>2, <1>3 DEF Bijection, Injection, Surjection, IsInjective

(* So is what a return value is coerced to. *)
LEMMA CoerceKnown ==
  ASSUME NEW r \in Returned, NEW outs \in InOrder(Expected(r))
  PROVE  Coerce(r, outs) \in Seq(Known)
<1>1. r.elems \in Seq(Known)
  <2>1. CASE r = [tuple |-> FALSE, elems |-> << >>]
    BY <2>1
  <2>2. ASSUME NEW i \in Items \cup {Plain}, r = [tuple |-> FALSE, elems |-> <<i>>]
        PROVE  r.elems \in Seq(Known)
    <3>1. i \in Known
      BY DEF Known
    <3> QED  BY <2>2, <3>1
  <2>3. ASSUME NEW i \in Items \cup {Plain}, NEW j \in Items \cup {Plain},
               r = [tuple |-> TRUE, elems |-> <<i, j>>]
        PROVE  r.elems \in Seq(Known)
    <3>1. i \in Known /\ j \in Known
      BY DEF Known
    <3> QED  BY <2>3, <3>1
  <2>4. \/ r = [tuple |-> FALSE, elems |-> << >>]
        \/ \E i \in Items \cup {Plain} : r = [tuple |-> FALSE, elems |-> <<i>>]
        \/ \E i, j \in Items \cup {Plain} : r = [tuple |-> TRUE, elems |-> <<i, j>>]
    BY DEF Returned
  <2> QED  BY <2>1, <2>2, <2>3, <2>4
<1>2. \A o \in Outs : Output(o) \in Known
  BY DEF Known, Items
<1>3. Plain \in Known /\ Wrong \in Known
  BY DEF Known
<1>4. \A i \in Known, o \in Outs : Coerced(i, o) \in Known
  BY <1>2, <1>3 DEF Coerced
<1>5. outs \in Seq(Outs)
  <2>1. Expected(r) \in SUBSET Outs
    BY DEF Expected
  <2>2. outs \in Seq(Expected(r))
    BY <2>1, InOrderIs
  <2> QED  BY <2>1, <2>2
<1> DEFINE one == ~ r.tuple /\ r.elems # << >>
           last == Coerced(IF one THEN r.elems[1] ELSE Plain, OutSeq[1])
<1>6. [k \in DOMAIN outs |-> Output(outs[k])] \in Seq(Known)
  BY <1>2, <1>5
<1>7. ASSUME Len(r.elems) = Len(outs)
      PROVE  [k \in DOMAIN outs |-> Coerced(r.elems[k], outs[k])] \in Seq(Known)
  BY <1>1, <1>4, <1>5, <1>7
<1>8. OutSeq # << >> => <<last>> \in Seq(Known)
  BY <1>1, <1>3, <1>4
<1>9. <<Wrong>> \in Seq(Known) /\ << >> \in Seq(Known)
  BY <1>3
<1> HIDE DEF last, one
<1> QED  BY <1>1, <1>6, <1>7, <1>8, <1>9 DEF Coerce, last, one

(* Whatever the function gives, its pieces are ordinary. *)
LEMMA OrdinaryPieces ==
  ASSUME NEW i \in Known
  PROVE  Ordinary(PiecesOf(i))
<1>1. ASSUME NEW v \in Verdicts PROVE Ordinary(OfVerdict(v))
  <2> DEFINE first == IF v.check \in step.selected
                      THEN <<Piece("output", v.check, "")>> ELSE << >>
             second == <<Piece("evaluation", v.check, v.verdict)>>
  <2>0. v.verdict \in Words
    BY DEF Verdicts, Words
  <2>1. Ordinary(first) /\ Ordinary(second)
    BY <2>0, OrdinaryShort
  <2> HIDE DEF first, second
  <2>2. Ordinary(first \o second)
    BY <2>1, OrdinaryConcat
  <2> QED  BY <2>2 DEF OfVerdict, first, second
<1>2. Ordinary(OfVerdicts(i.verdicts))
  <2>1. i.verdicts # {} => (CHOOSE v \in i.verdicts : TRUE) \in Verdicts
    BY KnownIs
  <2> QED  BY <1>1, <2>1, OrdinaryShort DEF OfVerdicts
<1> DEFINE rest == IF i.kind = "check" THEN << >>
                   ELSE IF i.kind \in {"output", "result"} THEN <<Piece("output", i.out, "")>>
                   ELSE <<Piece("wrong", NoOut, "")>>
<1>3. Ordinary(rest)
  BY OrdinaryShort
<1> HIDE DEF rest
<1>4. Ordinary(OfVerdicts(i.verdicts) \o rest)
  BY <1>2, <1>3, OrdinaryConcat
<1> QED  BY <1>4 DEF PiecesOf, rest

(* The last piece of a result is its output. *)
LEMMA ResultTwice ==
  ASSUME NEW i \in Known, i.kind = "result"
  PROVE  \E k \in DOMAIN PiecesOf(i) : PiecesOf(i)[k].kind = "output" /\ PiecesOf(i)[k].out = i.out
<1> DEFINE first == OfVerdicts(i.verdicts)
           rest == <<Piece("output", i.out, "")>>
<1>1. PiecesOf(i) = first \o rest
  BY DEF PiecesOf
<1>2. PICK S : first \in Seq(S)
  <2>1. \A v : \E S : OfVerdict(v) \in Seq(S)
    <3> TAKE v
    <3> DEFINE a == Piece("output", v.check, "")
               b == Piece("evaluation", v.check, v.verdict)
    <3> HIDE DEF a, b
    <3>1. << >> \o <<b>> \in Seq({a, b}) /\ <<a>> \o <<b>> \in Seq({a, b})
      OBVIOUS
    <3>2. OfVerdict(v) \in Seq({a, b})
      BY <3>1 DEF OfVerdict, a, b
    <3> QED  BY <3>2
  <2>2. << >> \in Seq({})
    OBVIOUS
  <2> QED  BY <2>1, <2>2 DEF OfVerdicts
<1> HIDE DEF first
<1>3. PICK e : e = Piece("output", i.out, "")
  OBVIOUS
<1>7. e.kind = "output" /\ e.out = i.out
  BY <1>3 DEF Piece
<1>8. rest = <<e>>
  BY <1>3
<1>9. first \in Seq(S \cup {e})
  BY <1>2
<1>4. rest = <<e>> /\ first \in Seq(S \cup {e})
  BY <1>8, <1>9
<1> HIDE DEF rest
<1>5. ASSUME NEW T, first \in Seq(T), e \in T, NEW s, s = first \o <<e>>
      PROVE  \E k \in DOMAIN s : s[k] = e
  <2>1. <<e>> \in Seq(T) /\ Len(<<e>>) = 1 /\ <<e>>[1] = e
    BY <1>5
  <2>2. Len(first) \in Nat /\ s \in Seq(T) /\ Len(s) = Len(first) + 1
    BY <1>5, <2>1
  <2>3. Len(first) + 1 \in DOMAIN s /\ s[Len(first) + 1] = e
    BY <1>5, <2>1, <2>2
  <2> QED  BY <2>3
<1>6. \E k \in DOMAIN PiecesOf(i) : PiecesOf(i)[k] = e
  BY <1>1, <1>4, <1>5
<1> QED  BY <1>7, <1>6

(* None of them is one that is implied or missing at the end. *)
LEMMA OrdinaryOpen ==
  ASSUME NEW s, Ordinary(s)
  PROVE  /\ IsList(s)
         /\ \A k \in DOMAIN s : /\ s[k].kind \notin {"implied", "missing"}
                                /\ s[k].kind = "evaluation" => s[k].verdict \in Words
<1>1. PICK S : s \in Seq(S) /\ \A x \in S : Usual(x)
  BY DEF Ordinary
<1> QED  BY <1>1 DEF IsList, Usual

(* The start of the step is the first event of its log. *)
LEMMA StartStepInv == ASSUME StepInv, StartStep PROVE StepInv'
<1> USE DEF StepInv, StartStep
<1>1. log = << >> /\ IsList(log) /\ log' = Append(log, Event("start", NoOut))
  BY DEF Begun, Lists
<1>2. \A m \in Kinds : \A o : Positions(m, o)' = Positions(m, o)
  BY <1>1, OtherEvent DEF Kinds
<1>3. Told' = Told /\ \A o : Untold(o)' <=> Untold(o)
  BY <1>2, SamePositions
<1>4. Lists'  BY ZenonT(40), <1>1, ListAppend DEF Lists, given
<1>5. Begun'  BY <1>3 DEF Begun, Idle, given
<1>6. Announced'  BY <1>3 DEF Announced, Running
<1>7. Handling' /\ Closing' /\ Open' /\ Stored'  BY DEF Handling, Closing, Open, Stored, Running
<1>8. Refuted'  BY <1>2 DEF Refuted, Kinds
<1>9. ParentsFirst'  BY <1>2 DEF ParentsFirst, Kinds
<1> QED  BY <1>4, <1>5, <1>6, <1>7, <1>8, <1>9

(* Loading inputs announces nothing. *)
LEMMA LoadInputsInv == ASSUME StepInv, LoadInputs PROVE StepInv'
<1> USE DEF StepInv
<1>1. CASE stage' = "compute" /\ UNCHANGED log
  <2> USE <1>1 DEF LoadInputs, given
  <2>1. Told = {} /\ seen = {} /\ pieces = << >> /\ storing = << >>
    BY DEF Begun, Idle
  <2>2. Told' = Told /\ \A o : Untold(o)' <=> Untold(o)
    BY SameLog
  <2>3. Lists'  BY DEF Lists
  <2>4. Begun'  BY <2>1 DEF Begun
  <2>5. Announced'  BY <2>1, <2>2 DEF Announced, Running
  <2>6. Handling' /\ Closing' /\ Open' /\ Stored'
    BY <2>1, <2>2 DEF Handling, Closing, Open, Stored
  <2>7. Refuted'  BY DEF Refuted, Positions
  <2>8. ParentsFirst'  BY DEF ParentsFirst, Positions
  <2> QED  BY <2>3, <2>4, <2>5, <2>6, <2>7, <2>8
<1>2. ASSUME NEW exc, Fails(exc) PROVE StepInv'
  BY <1>2, FailsSame, EndedBadly DEF LoadInputs, given, Lists
<1> QED  BY <1>1, <1>2 DEF LoadInputs

(* An item is turned into ordinary pieces while no output is being stored. *)
LEMMA GiveInv ==
  ASSUME StepInv, stage \in {"compute", "returned"}, Idle, NEW i \in Known, Give(i),
         items' \in Seq(Known), UNCHANGED <<step, stage, seen, storing, blocked, log>>
  PROVE  StepInv'
<1> USE DEF StepInv
<1>a. pieces' = PiecesOf(i)
  BY DEF Give
<1>1. Ordinary(pieces')
  BY <1>a, OrdinaryPieces
<1>2. Told' = Told
  BY SameLog
<1>3. Lists'  BY <1>1, OrdinaryOpen DEF Lists
<1>4. Begun'  BY <1>2 DEF Begun
<1>5. Announced'  BY SameLog DEF Announced, Running
<1>6. Handling' /\ Closing'  BY DEF Handling, Closing, Idle
<1>7. Open'
  <2>1. \A k \in DOMAIN pieces' : /\ pieces'[k].kind \notin {"implied", "missing"}
                                  /\ pieces'[k].kind = "evaluation" => pieces'[k].verdict \in Words
    <3>1. PICK q : q = pieces'
      OBVIOUS
    <3>2. Ordinary(q)
      BY <1>1, <3>1
    <3>3. \A k \in DOMAIN q : /\ q[k].kind \notin {"implied", "missing"}
                              /\ q[k].kind = "evaluation" => q[k].verdict \in Words
      BY <3>2, OrdinaryOpen
    <3> QED  BY <3>1, <3>3
  <2> QED  BY <2>1 DEF Open
<1>8. Stored'
  <2> SUFFICES ASSUME NEW o \in Told PROVE Entered(o)' \/ Twice(o)'
    BY <1>2 DEF Stored
  <2>1. Entered(o)
    BY DEF Stored, Running, Idle, Twice
  <2>2. CASE i.bare /\ o = i.out
    <3>1. i.kind = "result"
      BY <2>2, KnownIs
    <3> QED  BY <1>a, <2>2, <3>1, ResultTwice DEF Twice
  <2>3. CASE ~ (i.bare /\ o = i.out)
    <3>1. o \in bare' <=> o \in bare
      BY <2>3 DEF Give
    <3>2. (Handled(o)' <=> Handled(o)) /\ \A k : Due(o, k)' <=> Due(o, k)
      BY <3>1 DEF Handled, Observed, Due
    <3>3. \A k : Positions(k, o)' = Positions(k, o)
      BY SameLog
    <3> QED  BY <2>1, <3>2, <3>3 DEF Entered
  <2> QED  BY <2>2, <2>3
<1>9. Refuted'  BY DEF Refuted, Positions
<1>10. ParentsFirst'  BY DEF ParentsFirst, Positions
<1> QED  BY <1>3, <1>4, <1>5, <1>6, <1>7, <1>8, <1>9, <1>10

(* The function yields an item, or one of those it returned is pulled. *)
LEMMA YieldInv == ASSUME StepInv, Yield PROVE StepInv'
<1>1. PICK i \in Items : Give(i)
  BY DEF Yield
<1>2. i \in Known /\ items' \in Seq(Known)
  BY DEF Known, Yield, StepInv, Begun
<1> QED  BY <1>1, <1>2, GiveInv DEF Yield

LEMMA PullReturnedInv == ASSUME StepInv, PullReturned PROVE StepInv'
<1>1. items \in Seq(Known) /\ items # << >>
  BY DEF PullReturned, StepInv, Begun
<1>2. Head(items) \in Known /\ Tail(items) \in Seq(Known)
  BY <1>1
<1> QED  BY <1>2, GiveInv DEF PullReturned

(* The function returns between two outputs. *)
LEMMA ReturnInv == ASSUME StepInv, Return PROVE StepInv'
<1> USE DEF StepInv, Return
<1>1. items' \in Seq(Known)
  <2>1. ASSUME items' = << >> PROVE items' \in Seq(Known)
    BY <2>1
  <2> QED  BY <2>1, CoerceKnown
<1>2. Lists'  BY DEF Lists
<1>a. Told' = Told
  BY SameLog
<1>3. Begun'  BY <1>1, <1>a DEF Begun
<1>4. Announced'  BY SameLog DEF Announced, Running
<1>5. Handling' /\ Closing' /\ Open'
  <2>1. stage' = "returned" /\ storing' = << >> /\ pieces' = << >>
    BY DEF Idle
  <2> QED  BY <2>1 DEF Handling, Closing, Open
<1>6. Stored'  BY SameLog DEF Stored, Running, Twice
<1>7. Refuted'  BY DEF Refuted, Positions
<1>8. ParentsFirst'  BY DEF ParentsFirst, Positions
<1> QED  BY <1>1, <1>2, <1>3, <1>4, <1>5, <1>6, <1>7, <1>8

(* What the outputs still miss was not announced, and is all that a        *)
(* required output can be missing as.                                      *)
LEMMA ExhaustedInv == ASSUME StepInv, Exhausted PROVE StepInv'
<1> USE DEF StepInv
<1>1. CASE \E exc : Fails(exc) /\ UNCHANGED pieces
  BY <1>1, FailsSame, EndedBadly DEF Exhausted, Lists
<1>2. ASSUME NEW gaps \in InOrder({o \in Outs : Missing(o)}),
             pieces' = [k \in DOMAIN gaps |-> Implied(gaps[k])],
             stage' = "closing", UNCHANGED log
      PROVE  StepInv'
  <2> USE <1>2 DEF Exhausted
  <2>0. /\ stage = "returned" /\ storing = << >> /\ storing' = << >>
        /\ pieces = << >> /\ Told' = Told
        /\ \A o : (Untold(o)' <=> Untold(o)) /\ (Entered(o)' <=> Entered(o))
    BY SameLog DEF Idle
  <2>1. /\ DOMAIN pieces' = DOMAIN gaps
        /\ \A k \in DOMAIN gaps : /\ pieces'[k].out = gaps[k]
                                  /\ pieces'[k].kind \in {"implied", "missing"}
    BY DEF Implied, Piece
  <2>2. /\ \A k \in DOMAIN gaps : gaps[k] \in Outs /\ Missing(gaps[k])
        /\ \A o \in Outs : Missing(o) => \E k \in DOMAIN gaps : gaps[k] = o
        /\ \A j, k \in DOMAIN gaps : gaps[j] = gaps[k] => j = k
    <3>1. gaps \in InOrder({o \in Outs : Missing(o)}) /\ {o \in Outs : Missing(o)} \in SUBSET Outs
      BY <1>2
    <3> HIDE <1>2 DEF Exhausted
    <3> QED  BY ZenonT(40), <3>1, InOrderIs
  <2>3. IsList(pieces')
    <3>1. PICK n \in Nat : DOMAIN gaps = 1 .. n
      BY InOrderIs
    <3>2. pieces' \in Seq({pieces'[k] : k \in 1 .. n})
      BY <3>1
    <3> QED  BY <3>2 DEF IsList
  <2>4. Lists'  BY <2>3 DEF Lists
  <2>5. Begun'  BY <2>0 DEF Begun
  <2>6. Announced'  BY <2>0 DEF Announced, Running
  <2>7. Handling' /\ Open'  BY <2>0 DEF Handling, Open
  <2>8. Closing'
    <3>1. \A k \in DOMAIN gaps : gaps[k] \notin Told
      BY <2>0, <2>2 DEF Missing, Announced
    <3>2. \A o \in Required(step) : o \in Told \/ \E k \in DOMAIN gaps : gaps[k] = o
      BY <2>0, <2>2 DEF Required, Missing, Announced, Begun, Running
    <3>3. /\ \A i \in DOMAIN pieces' : /\ pieces'[i].kind \in {"implied", "missing"}
                                       /\ pieces'[i].out \in Outs
                                        /\ pieces'[i].out \notin Told
          /\ \A i, j \in DOMAIN pieces' : pieces'[i].out = pieces'[j].out => i = j
          /\ \A o \in Required(step) : o \in Told \/ \E i \in DOMAIN pieces' : pieces'[i].out = o
      BY <2>1, <2>2, <3>1, <3>2
    <3>4. Required(step') = Required(step)
      OBVIOUS
    <3> QED  BY <2>0, <3>3, <3>4 DEF Closing
  <2>9. Stored'  BY <2>0 DEF Stored, Running, Twice
  <2>10. Refuted'  BY DEF Refuted, Positions
  <2>11. ParentsFirst'  BY DEF ParentsFirst, Positions
  <2> QED  BY <2>4, <2>5, <2>6, <2>7, <2>8, <2>9, <2>10, <2>11
<1> QED  BY <1>1, <1>2 DEF Exhausted

(* Exceptions and cancellation leave what was recorded as it is. *)
LEMMA EndsBadlyInv ==
  ASSUME StepInv, FunctionRaises \/ Raised \/ StoreFails \/ Cancel
  PROVE  StepInv'
<1>1. ASSUME NEW exc, Fails(exc), UNCHANGED <<step, given, seen, blocked>>,
             storing' \in {storing, << >>}
      PROVE  StepInv'
  BY <1>1, FailsSame, EndedBadly DEF StepInv, Lists, given
<1>2. CASE Cancel
  BY <1>2, SameLog, EndedBadly DEF StepInv, Lists, given, Cancel
<1> QED  BY <1>1, <1>2 DEF FunctionRaises, Raised, StoreFails

(* A type check that raises ends the attempt before anything is announced. *)
LEMMA TypeCheckRaisesInv ==
  ASSUME StepInv, TypeCheck, NEW exc, Fails(exc), UNCHANGED storing
  PROVE  StepInv'
<1> USE DEF StepInv
<1>0. PICK e :
      /\ e = Head(pieces).out
      /\ stage \in {"compute", "returned", "closing"} /\ pieces # << >>
      /\ Head(pieces).kind = "implied" \/ (Head(pieces).kind = "output" /\ ~ Refused(e))
      /\ seen' = IF Head(pieces).kind = "output" THEN seen \cup {e} ELSE seen
      /\ UNCHANGED <<step, given, blocked>>
  BY DEF TypeCheck, Running
<1>1. Head(pieces) = pieces[1] /\ 1 \in DOMAIN pieces
  BY <1>0, ListTail DEF Lists
<1>2. Head(pieces).kind = "output" => e \in Outs \ Told
  BY <1>0, <1>1 DEF Closing, Begun, Refused, Announced
<1> QED  BY <1>0, <1>2, FailsSame, EndedBadly DEF Lists, given

(* A type check announces an output that was not announced before, and     *)
(* finds none of the assets that depend on it materialized.                *)
LEMMA TypeCheckInv ==
  ASSUME StepInv, TypeCheck, UNCHANGED stage,
         log' = Append(log, Event("output", Head(pieces).out)),
         \E ok \in BOOLEAN : storing' = <<[out |-> Head(pieces).out, ok |-> ok]>>
  PROVE  StepInv' /\ \E o \in Outs \ Told : Told' = Told \cup {o}
<1> USE DEF StepInv
<1>0. PICK p, e :
      /\ p = Head(pieces) /\ e = p.out
      /\ stage \in {"compute", "returned", "closing"} /\ pieces # << >> /\ storing = << >>
      /\ p.kind = "implied" \/ (p.kind = "output" /\ ~ Refused(e))
      /\ seen' = IF p.kind = "output" THEN seen \cup {e} ELSE seen
      /\ log' = Append(log, Event("output", e))
      /\ \E ok \in BOOLEAN : storing' = <<[out |-> e, ok |-> ok]>>
      /\ UNCHANGED <<step, stage, items, pieces, bare, blocked>>
  BY DEF TypeCheck, Running, given
<1>a. 1 \in DOMAIN pieces /\ p = pieces[1]
  BY <1>0, ListTail DEF Lists
<1>b. /\ p.kind = "output" => stage \in {"compute", "returned"}
      /\ p.kind = "implied" => stage = "closing"
      /\ e \in Outs /\ e \notin Told
  <2>1. CASE p.kind = "output"
    <3>1. stage \in {"compute", "returned"} /\ Told \subseteq seen
      BY <1>0, <1>a, <2>1 DEF Closing, Announced
    <3> QED  BY <1>0, <2>1, <3>1 DEF Refused, Begun
  <2>2. CASE p.kind = "implied"
    <3>1. stage = "closing"
      BY <1>0, <1>a, <2>2 DEF Open
    <3>2. e = pieces[1].out
      BY <1>0, <1>a
    <3> QED  BY <1>0, <1>a, <2>2, <3>1, <3>2 DEF Closing
  <2> QED  BY <1>0, <2>1, <2>2
<1>c. /\ \A o : Positions("output", o)' # {} <=> Positions("output", o) # {} \/ o = e
      /\ \A m \in Kinds \ {"output"} : \A o : Positions(m, o)' = Positions(m, o)
  <2>1. \A m, o : Positions(m, o)' = Pos(log', m, o) /\ Positions(m, o) = Pos(log, m, o)
    BY DEF Positions, Pos
  <2>2. \A m, o : Pos(log', m, o) = IF Event("output", e) = Event(m, o)
                                    THEN Pos(log, m, o) \cup {Len(log) + 1} ELSE Pos(log, m, o)
    <3> SUFFICES ASSUME NEW m, NEW o
                 PROVE  Pos(log', m, o) = IF Event("output", e) = Event(m, o)
                                          THEN Pos(log, m, o) \cup {Len(log) + 1} ELSE Pos(log, m, o)
      OBVIOUS
    <3>1. PICK v : v = Event("output", e)
      OBVIOUS
    <3>2. IsList(log) /\ log' = Append(log, v)
      BY <1>0, <3>1 DEF Lists
    <3>3. Pos(Append(log, v), m, o) = IF v = Event(m, o)
                                      THEN Pos(log, m, o) \cup {Len(log) + 1} ELSE Pos(log, m, o)
      BY <3>2, AppendPositions
    <3> QED  BY <3>1, <3>2, <3>3
  <2>3. \A m, o : Event("output", e) = Event(m, o) <=> m = "output" /\ o = e
    BY EventIs
  <2>4. \A o : Positions("output", o)' # {} <=> Positions("output", o) # {} \/ o = e
    BY <2>1, <2>2, <2>3
  <2>5. ASSUME NEW m \in Kinds \ {"output"}, NEW o PROVE Positions(m, o)' = Positions(m, o)
    BY <2>1, <2>2, <2>3, <2>5
  <2> QED  BY <2>4, <2>5
<1>d. Told' = Told \cup {e}
  BY <1>b, <1>c DEF Told
<1>e. ASSUME NEW o PROVE (Untold(o)' <=> Untold(o)) /\ (Entered(o)' <=> Entered(o))
  <2>1. /\ Positions("handled", o)' = Positions("handled", o)
        /\ \A k \in Marks : Positions(k, o)' = Positions(k, o)
    BY <1>c DEF Kinds, Marks
  <2>2. (Handled(o)' <=> Handled(o)) /\ \A k : Due(o, k)' <=> Due(o, k)
    BY <1>0 DEF Handled, Observed, Due
  <2> QED  BY <2>1, <2>2 DEF Untold, Entered
<1>f. storing' # << >> /\ storing'[1].out = e
  BY <1>0
<1>1. Lists'  BY <1>0, ListAppend DEF Lists
<1>2. Begun'  BY <1>0, <1>b DEF Begun
<1>3. Announced'  BY <1>0, <1>b, <1>d, <1>e DEF Announced, Running
<1>4. Handling'
  <2>1. Untold(e)
    BY <1>b DEF Announced
  <2>2. ASSUME e \in seen' \cap Assets, NEW c \in Children[e] \ {e}
        PROVE  Positions("materialized", c) = {}
    <3>1. p.kind = "output"
      BY <1>0, <1>b, <2>2 DEF Announced, Running
    <3>2. c \in Outs /\ c \notin Told
      BY <1>0, <1>b, <2>2, <3>1 DEF Refused, Announced
    <3> QED  BY <3>2 DEF Announced, Untold, Marks
  <2>3. /\ pieces' # << >> /\ Head(pieces').out = e
        /\ e \in Told' /\ Untold(e)'
        /\ e \in seen' \cap Assets => \A c \in Children[e] \ {e} : Positions("materialized", c)' = {}
    <3>1. \A c : Positions("materialized", c)' = Positions("materialized", c)
      BY <1>c DEF Kinds
    <3> QED  BY <1>0, <1>d, <1>e, <2>1, <2>2, <3>1
  <2> QED  BY <1>f, <2>3 DEF Handling
<1>5. Closing'
  <2> SUFFICES ASSUME stage = "closing" PROVE Closing'
    BY <1>0 DEF Closing
  <2>1. /\ \A i \in DOMAIN pieces :
             /\ pieces[i].kind \in {"implied", "missing"} /\ pieces[i].out \in Outs
             /\ i > 1 => pieces[i].out \notin Told'
    BY <1>0, <1>a, <1>d DEF Closing
  <2>2. /\ \A i, j \in DOMAIN pieces : pieces[i].out = pieces[j].out => i = j
        /\ \A o \in Required(step) : o \in Told' \/ \E i \in DOMAIN pieces : pieces[i].out = o
    BY <1>d DEF Closing
  <2>3. pieces' = pieces /\ Required(step') = Required(step) /\ storing' # << >>
    BY <1>0
  <2> QED  BY <2>1, <2>2, <2>3 DEF Closing
<1>6. Open'  BY <1>0 DEF Open
<1>7. Stored'
  <2>1. \A o \in Told : Entered(o) \/ Twice(o)
    BY <1>0 DEF Stored, Running
  <2>2. \A o : Twice(o)' <=> Twice(o)
    BY <1>0 DEF Twice
  <2> QED  BY <1>d, <1>e, <1>f, <2>1, <2>2 DEF Stored
<1>8. Refuted'  BY <1>0, <1>c DEF Refuted, Kinds
<1>9. ParentsFirst'
  <2>1. Positions("materialized", e) = {}
    BY <1>b DEF Announced, Untold, Marks
  <2>2. \A c : Positions("materialized", c)' = Positions("materialized", c)
    BY <1>c DEF Kinds
  <2> QED  BY <1>0, <2>1, <2>2 DEF ParentsFirst
<1> QED  BY <1>b, <1>d, <1>1, <1>2, <1>3, <1>4, <1>5, <1>6, <1>7, <1>8, <1>9

(* What Store adds to the log. *)
LEMMA StorePositions ==
  ASSUME IsList(log), NEW o, log' = StoreEvents(o)
  PROVE  /\ IsList(log')
         /\ \A m \in {"output", "refuted"} : \A q : Positions(m, q)' = Positions(m, q)
         /\ \A m \in Kinds : \A q : q # o => Positions(m, q)' = Positions(m, q)
         /\ \A m \in Kinds : \A q : \A i \in Positions(m, q) : i \in Nat
         /\ Handled(o) => \E n : Positions("handled", o)' = Positions("handled", o) \cup {n}
         /\ ~ Handled(o) => Positions("handled", o)' = Positions("handled", o)
         /\ \A m \in Marks :
              /\ Due(o, m) =>
                   \E n \in Nat : /\ Positions(m, o)' = Positions(m, o) \cup {n}
                                  /\ \A q : \A i \in Positions(m, q) : i < n
              /\ ~ Due(o, m) => Positions(m, o)' = Positions(m, o)
<1> DEFINE M == Event(step.assets, o)
           H == Event("handled", o)
           first == IF Recorded(o) THEN Append(log, M) ELSE log
<1>0. \A m, q : M = Event(m, q) <=> m = step.assets /\ q = o
  BY EventIs
<1> HIDE DEF M
<1>1. log' = IF Handled(o) THEN Append(first, H) ELSE first
  BY DEF StoreEvents, M
<1>2. IsList(first) /\ IsList(log')
  BY <1>1, ListAppend
<1>3. \A m, q : Positions(m, q)' = Pos(log', m, q) /\ Positions(m, q) = Pos(log, m, q)
  BY DEF Positions, Pos
<1>4. \A m, q : Pos(first, m, q) = IF Recorded(o) /\ m = step.assets /\ q = o
                                   THEN Pos(log, m, q) \cup {Len(log) + 1} ELSE Pos(log, m, q)
  <2>1. \A m, q : Pos(Append(log, M), m, q) = IF M = Event(m, q) THEN Pos(log, m, q) \cup {Len(log) + 1}
                                              ELSE Pos(log, m, q)
    BY AppendPositions
  <2> QED  BY <1>0, <2>1
<1> HIDE DEF first
<1>5. \A m, q : Pos(log', m, q) = IF Handled(o) /\ m = "handled" /\ q = o
                                  THEN Pos(first, m, q) \cup {Len(first) + 1} ELSE Pos(first, m, q)
  <2>1. \A m, q : Pos(Append(first, H), m, q) = IF H = Event(m, q) THEN Pos(first, m, q) \cup {Len(first) + 1}
                                                ELSE Pos(first, m, q)
    BY <1>2, AppendPositions
  <2>2. \A m, q : H = Event(m, q) <=> m = "handled" /\ q = o
    BY EventIs
  <2> HIDE DEF H
  <2>3. CASE ~ Handled(o)
    BY <1>1, <2>3
  <2>4. CASE Handled(o)
    <3>1. log' = Append(first, H)
      BY <1>1, <2>4
    <3> QED  BY <2>1, <2>2, <2>4, <3>1
  <2> QED  BY <2>3, <2>4
<1>6. Len(log) + 1 \in Nat /\ \A m, q : \A i \in Pos(log, m, q) : i \in Nat /\ i < Len(log) + 1
  BY PositionsBelow
<1>7. /\ \A m, q : q # o => Pos(log', m, q) = Pos(log, m, q)
      /\ \A m \in {"output", "refuted"} : \A q : Pos(log', m, q) = Pos(log, m, q)
  <2>1. \A m : Recorded(o) /\ m = step.assets => m \in Marks
    BY DEF Recorded, Marks
  <2> QED  BY <1>4, <1>5, <2>1 DEF Marks
<1>8. /\ Pos(first, "handled", o) = Pos(log, "handled", o)
      /\ Handled(o) => \E n : Pos(log', "handled", o) = Pos(log, "handled", o) \cup {n}
      /\ ~ Handled(o) => Pos(log', "handled", o) = Pos(log, "handled", o)
  BY <1>4, <1>5 DEF Recorded
<1>9. ASSUME NEW m \in Marks
      PROVE  Pos(log', m, o) = IF Due(o, m) THEN Pos(log, m, o) \cup {Len(log) + 1}
                               ELSE Pos(log, m, o)
  <2>1. m # "handled"
    BY DEF Marks
  <2>2. Recorded(o) /\ m = step.assets <=> Due(o, m)
    BY DEF Recorded, Due, Marks
  <2> QED  BY <1>4, <1>5, <2>1, <2>2
<1>10. ASSUME NEW m \in Marks
       PROVE  /\ Due(o, m) =>
                   \E n \in Nat : /\ Positions(m, o)' = Positions(m, o) \cup {n}
                                  /\ \A q : \A i \in Positions(m, q) : i < n
              /\ ~ Due(o, m) => Positions(m, o)' = Positions(m, o)
  BY <1>3, <1>6, <1>9
<1> QED  BY ONLY <1>2, <1>3, <1>6, <1>7, <1>8, <1>10

(* Storing records the announced output, after everything it depends on. *)
LEMMA StoreInv == ASSUME StepInv, Store PROVE StepInv'
<1> USE DEF StepInv
<1>0. PICK e :
      /\ e = storing[1].out
      /\ stage \in {"compute", "returned", "closing"} /\ storing # << >>
      /\ log' = StoreEvents(e)
      /\ pieces' = Tail(pieces) /\ storing' = << >>
      /\ UNCHANGED <<step, stage, items, bare, seen, blocked>>
  BY DEF Store, Running
<1>a. /\ pieces # << >> /\ pieces[1].out = e /\ e \in Told /\ Untold(e) /\ storing[1].out = e
      /\ e \in seen \cap Assets =>
           \A c \in Children[e] \ {e} : Positions("materialized", c) = {}
  BY <1>0, ListTail DEF Handling, Running, Lists
<1>k. /\ (Handled(e)' <=> Handled(e))
      /\ \A o : (Handled(o)' <=> Handled(o)) /\ \A k : Due(o, k)' <=> Due(o, k)
  BY <1>0 DEF Handled, Observed, Due
<1>s. /\ IsList(log')
      /\ \A m \in {"output", "refuted"} : \A q : Positions(m, q)' = Positions(m, q)
      /\ \A m \in Kinds : \A q : q # e => Positions(m, q)' = Positions(m, q)
      /\ Handled(e) => \E n : Positions("handled", e)' = {n}
      /\ ~ Handled(e) => Positions("handled", e)' = {}
      /\ \A m \in Marks :
           /\ Due(e, m) => \E n \in Nat : /\ Positions(m, e)' = {n}
                                          /\ \A q : \A i \in Positions(m, q) : i < n
           /\ ~ Due(e, m) => Positions(m, e)' = {}
  <2>1. IsList(log) /\ log' = StoreEvents(e)
    BY <1>0 DEF Lists
  <2>2. Positions("handled", e) = {} /\ \A m \in Marks : Positions(m, e) = {}
    BY <1>a DEF Untold
  <2>3. /\ IsList(log')
        /\ \A m \in {"output", "refuted"} : \A q : Positions(m, q)' = Positions(m, q)
        /\ \A m \in Kinds : \A q : q # e => Positions(m, q)' = Positions(m, q)
    BY <2>1, StorePositions
  <2>4. /\ Handled(e) => \E n : Positions("handled", e)' = {n}
        /\ ~ Handled(e) => Positions("handled", e)' = {}
    <3>1. /\ Handled(e) => \E n : Positions("handled", e)' = Positions("handled", e) \cup {n}
          /\ ~ Handled(e) => Positions("handled", e)' = Positions("handled", e)
      BY <2>1, StorePositions
    <3> QED  BY ONLY <2>2, <3>1
  <2>5. ASSUME NEW m \in Marks
        PROVE  /\ Due(e, m) => \E n \in Nat : /\ Positions(m, e)' = {n}
                                              /\ \A q : \A i \in Positions(m, q) : i < n
               /\ ~ Due(e, m) => Positions(m, e)' = {}
    <3>1. /\ Due(e, m) =>
               \E n \in Nat : /\ Positions(m, e)' = Positions(m, e) \cup {n}
                              /\ \A q : \A i \in Positions(m, q) : i < n
          /\ ~ Due(e, m) => Positions(m, e)' = Positions(m, e)
      BY <2>1, StorePositions
    <3>2. Positions(m, e) = {}
      BY <2>2
    <3> QED  BY ONLY <3>1, <3>2
  <2> QED  BY ONLY <2>3, <2>4, <2>5
<1>b. Told' = Told
  BY <1>s DEF Told
<1>c. ASSUME NEW o, o # e
      PROVE  (Untold(o)' <=> Untold(o)) /\ (Entered(o)' <=> Entered(o))
  <2>1. /\ Positions("handled", o)' = Positions("handled", o)
        /\ \A k \in Marks : Positions(k, o)' = Positions(k, o)
    BY <1>c, <1>s DEF Kinds, Marks
  <2> QED  BY <1>k, <2>1 DEF Untold, Entered
<1>d. Entered(e)'
  BY <1>k, <1>s DEF Entered
<1>1. Lists'  BY <1>0, <1>a, <1>s, ListTail DEF Lists
<1>2. Begun'  BY <1>0, <1>b DEF Begun
<1>3. Announced'  BY <1>0, <1>a, <1>b, <1>c DEF Announced, Running
<1>4. Handling'  BY <1>0 DEF Handling
<1>5. Closing'
  <2> SUFFICES ASSUME stage = "closing" PROVE Closing'
    BY <1>0 DEF Closing
  <2>1. /\ \A i \in DOMAIN pieces' : i + 1 \in DOMAIN pieces /\ i \in Nat \ {0}
                                     /\ pieces'[i] = pieces[i + 1]
        /\ \A j \in DOMAIN pieces : j = 1 \/ j - 1 \in DOMAIN pieces'
        /\ \A j \in DOMAIN pieces : j \in Nat
    BY <1>0, <1>a, ListTail DEF Lists, IsList
  <2>2. \A i \in DOMAIN pieces' : /\ pieces'[i].kind \in {"implied", "missing"}
                                  /\ pieces'[i].out \in Outs /\ pieces'[i].out \notin Told
    BY <2>1 DEF Closing
  <2>3. \A i, j \in DOMAIN pieces' : pieces'[i].out = pieces'[j].out => i = j
    BY <2>1 DEF Closing
  <2>4. ASSUME NEW o \in Required(step), o \notin Told
        PROVE  \E i \in DOMAIN pieces' : pieces'[i].out = o
    <3>1. PICK j \in DOMAIN pieces : pieces[j].out = o
      BY <2>4 DEF Closing
    <3>2. j # 1 /\ j \in Nat
      BY <1>a, <2>1, <2>4, <3>1
    <3>3. j - 1 \in DOMAIN pieces' /\ pieces'[j - 1] = pieces[j]
      BY <2>1, <3>2
    <3> QED  BY <3>1, <3>3
  <2>5. Required(step') = Required(step)
    BY <1>0
  <2> QED  BY <1>b, <2>2, <2>3, <2>4, <2>5 DEF Closing
<1>t. /\ \A i \in DOMAIN pieces' : i + 1 \in DOMAIN pieces /\ pieces'[i] = pieces[i + 1]
      /\ \A j \in DOMAIN pieces : j \in Nat /\ (j = 1 \/ j - 1 \in DOMAIN pieces')
  BY <1>0, <1>a, ListTail DEF Lists, IsList
<1>6. Open'
  <2> SUFFICES ASSUME stage \in {"compute", "returned"} PROVE Open'
    BY <1>0 DEF Open
  <2> QED  BY <1>t DEF Open
<1>7. Stored'
  <2> SUFFICES ASSUME NEW o \in Told, o # e PROVE Entered(o)' \/ Twice(o)'
    BY <1>b, <1>d DEF Stored
  <2>1. CASE Entered(o)
    BY <1>c, <2>1
  <2>2. CASE Twice(o)
    <3>1. PICK j \in DOMAIN pieces : pieces[j].kind = "output" /\ pieces[j].out = o
      BY <2>2 DEF Twice
    <3>2. j \in Nat /\ j # 1 /\ j - 1 \in DOMAIN pieces' /\ pieces'[j - 1] = pieces[(j - 1) + 1]
      BY <1>a, <1>t, <3>1
    <3>3. pieces'[j - 1] = pieces[j]
      BY <3>2
    <3> QED  BY <3>1, <3>2, <3>3 DEF Twice
  <2> QED  BY <1>0, <2>1, <2>2 DEF Stored, Running
<1>8. Refuted'  BY <1>0, <1>s DEF Refuted
<1>9. ParentsFirst'
  <2> SUFFICES ASSUME NEW o \in seen \cap Assets, NEW c \in Children[o] \ {o},
                      NEW i \in Positions("materialized", o)',
                      NEW j \in Positions("materialized", c)'
               PROVE  i < j
    BY <1>0 DEF ParentsFirst
  <2>0. "materialized" \in Marks /\ "materialized" \in Kinds
    BY DEF Marks, Kinds
  <2>1. CASE o = e
    <3>1. Positions("materialized", c)' = Positions("materialized", c)
      BY <1>s, <2>0, <2>1
    <3> QED  BY <1>a, <2>1, <3>1
  <2>2. CASE o # e /\ c = e
    <3>1. i \in Positions("materialized", o)
      BY <1>s, <2>0, <2>2
    <3>2. Positions("materialized", e)' # {}
      BY <2>2
    <3>3. PICK n \in Nat : /\ Positions("materialized", e)' = {n}
                           /\ \A q : \A k \in Positions("materialized", q) : k < n
      BY <1>s, <2>0, <3>2
    <3>4. j = n
      BY <2>2, <3>3
    <3> QED  BY <3>1, <3>3, <3>4
  <2>3. CASE o # e /\ c # e
    BY <1>s, <2>0, <2>3 DEF ParentsFirst
  <2> QED  BY <2>1, <2>2, <2>3
<1> QED  BY <1>1, <1>2, <1>3, <1>4, <1>5, <1>6, <1>7, <1>8, <1>9

(* An evaluation that refutes a blocking check is remembered, and          *)
(* announces nothing.                                                      *)
LEMMA EvaluateInv == ASSUME StepInv, Evaluate PROVE StepInv' /\ Told' = Told
<1> USE DEF StepInv
<1>0. PICK p, k :
      /\ p = Head(pieces) /\ k = p.verdict
      /\ stage \in {"compute", "returned", "closing"} /\ pieces # << >> /\ storing = << >>
      /\ p.kind = "evaluation"
      /\ log' = Append(log, Event(k, p.out))
      /\ blocked' = IF k = "refuted" /\ p.out \in Blocking THEN blocked \cup {p.out} ELSE blocked
      /\ pieces' = Tail(pieces)
      /\ UNCHANGED <<step, stage, items, bare, seen, storing>>
  BY DEF Evaluate, Running
<1>a. /\ p = pieces[1] /\ 1 \in DOMAIN pieces /\ IsList(pieces')
      /\ \A i \in DOMAIN pieces' : i + 1 \in DOMAIN pieces /\ pieces'[i] = pieces[i + 1]
      /\ \A j \in DOMAIN pieces : j \in Nat /\ (j = 1 \/ j - 1 \in DOMAIN pieces')
  BY <1>0, ListTail DEF Lists, IsList
<1>b. stage \in {"compute", "returned"}
  BY <1>0, <1>a DEF Closing
<1>k. k \in Words
  BY <1>0, <1>a, <1>b DEF Open
<1>c. /\ \A m \in Kinds \ {"refuted"} : \A o : Positions(m, o)' = Positions(m, o)
      /\ \A o : Positions("refuted", o)' # {} =>
           Positions("refuted", o) # {} \/ (k = "refuted" /\ o = p.out)
  <2>1. \A m, o : Positions(m, o)' = Pos(log', m, o) /\ Positions(m, o) = Pos(log, m, o)
    BY DEF Positions, Pos
  <2>2. \A m \in Kinds \ {"refuted"} : m # k
    BY <1>k DEF Kinds, Words
  <2>3. \A m, o : Pos(log', m, o) = IF Event(k, p.out) = Event(m, o)
                                    THEN Pos(log, m, o) \cup {Len(log) + 1} ELSE Pos(log, m, o)
    <3>1. PICK v : v = Event(k, p.out)
      OBVIOUS
    <3>2. IsList(log) /\ log' = Append(log, v)
      BY <1>0, <3>1 DEF Lists
    <3>3. \A m, o : Pos(Append(log, v), m, o) = IF v = Event(m, o)
                                      THEN Pos(log, m, o) \cup {Len(log) + 1} ELSE Pos(log, m, o)
      BY <3>2, AppendPositions
    <3> QED  BY <3>1, <3>2, <3>3
  <2> QED  BY <2>1, <2>2, <2>3, EventIs
<1>d. Told' = Told /\ \A o : Untold(o)' <=> Untold(o)
  BY <1>c DEF Told, Untold, Kinds, Marks
<1>e. ASSUME NEW o PROVE Entered(o)' <=> Entered(o)
  <2>1. /\ Positions("handled", o)' = Positions("handled", o)
        /\ \A m \in Marks : Positions(m, o)' = Positions(m, o)
    BY <1>c DEF Kinds, Marks
  <2>2. (Handled(o)' <=> Handled(o)) /\ \A m : Due(o, m)' <=> Due(o, m)
    BY <1>0 DEF Handled, Observed, Due
  <2> QED  BY <2>1, <2>2 DEF Entered
<1>1. Lists'  BY <1>0, <1>a, ListAppend DEF Lists
<1>2. Begun'  BY <1>0, <1>b, <1>d DEF Begun
<1>3. Announced'  BY <1>0, <1>d DEF Announced, Running
<1>4. Handling'  BY <1>0 DEF Handling
<1>5. Closing'  BY <1>0, <1>b DEF Closing
<1>6. Open'  BY <1>0, <1>a, <1>b DEF Open
<1>7. Stored'
  <2> SUFFICES ASSUME NEW o \in Told PROVE Entered(o)' \/ Twice(o)'
    BY <1>d DEF Stored
  <2>1. CASE Entered(o)
    BY <1>e, <2>1
  <2>2. CASE Twice(o)
    <3>1. PICK j \in DOMAIN pieces : pieces[j].kind = "output" /\ pieces[j].out = o
      BY <2>2 DEF Twice
    <3>2. j \in Nat /\ j # 1 /\ j - 1 \in DOMAIN pieces' /\ pieces'[j - 1] = pieces[(j - 1) + 1]
      BY <1>0, <1>a, <3>1
    <3>3. pieces'[j - 1] = pieces[j]
      BY <3>2
    <3> QED  BY <3>1, <3>2, <3>3 DEF Twice
  <2> QED  BY <1>0, <2>1, <2>2 DEF Stored, Running
<1>8. Refuted'  BY <1>0, <1>b, <1>c DEF Refuted
<1>9. ParentsFirst'
  <2>1. \A o : Positions("materialized", o)' = Positions("materialized", o)
    BY <1>c DEF Kinds
  <2> QED  BY <1>0, <2>1 DEF ParentsFirst
<1> QED  BY <1>d, <1>1, <1>2, <1>3, <1>4, <1>5, <1>6, <1>7, <1>8, <1>9

(* The attempt is concluded when nothing is left to be stored and no       *)
(* blocking check was refuted.                                             *)
LEMMA ConcludeInv == ASSUME StepInv, Conclude PROVE StepInv'
<1> USE DEF StepInv
<1>1. CASE blocked = {} /\ stage' = "success" /\ log' = Append(log, Event("success", NoOut))
  <2> USE <1>1 DEF Conclude, given
  <2>0. /\ pieces = << >> /\ storing = << >>
        /\ \A m \in Kinds : \A o : Positions(m, o)' = Positions(m, o)
    BY OtherEvent DEF Lists, Kinds, Idle
  <2>1. Told' = Told /\ \A o : (Untold(o)' <=> Untold(o)) /\ (Entered(o)' <=> Entered(o))
    BY <2>0, SamePositions
  <2>2. Lists'  BY ListAppend DEF Lists
  <2>3. Begun'  BY DEF Begun, Ends
  <2>4. Announced'  BY <2>1 DEF Announced, Running
  <2>5. Handling' /\ Closing' /\ Open'  BY <2>0 DEF Handling, Closing, Open
  <2>6. Stored'  BY <2>0, <2>1 DEF Stored, Running, Twice
  <2>7. Refuted'  BY <2>0 DEF Refuted, Kinds, Idle
  <2>8. ParentsFirst'  BY <2>0 DEF ParentsFirst, Kinds
  <2> QED  BY <2>2, <2>3, <2>4, <2>5, <2>6, <2>7, <2>8
<1>2. ASSUME Fails("error") PROVE StepInv'
  BY <1>2, FailsSame, EndedBadly DEF Conclude, Lists, given
<1> QED  BY <1>1, <1>2 DEF Conclude

(* All of the above holds in every reachable state. *)
THEOREM StepInvariant == Spec => []StepInv
<1>1. Init => StepInv
  <2> SUFFICES ASSUME Init PROVE StepInv
    OBVIOUS
  <2>1. \A k, o : Positions(k, o) = {}
    BY DEF Init, Positions
  <2>2. << >> \in Seq({})
    OBVIOUS
  <2>3. Lists /\ items \in Seq(Known)
    BY DEF Init, Lists, IsList
  <2> QED
    BY <2>1, <2>2, <2>3 DEF Init, StepInv, Begun, Announced, Handling, Closing, Open, Stored, Refuted,
                 ParentsFirst, Attempts, Told, Idle, Running, Untold, Ends
<1>2. StepInv /\ [Next]_vars => StepInv'
  <2> SUFFICES ASSUME StepInv, [Next]_vars PROVE StepInv'
    OBVIOUS
  <2>1. CASE TypeCheck
    <3>1. \/ /\ log' = Append(log, Event("output", Head(pieces).out))
             /\ \E ok \in BOOLEAN : storing' = <<[out |-> Head(pieces).out, ok |-> ok]>>
             /\ UNCHANGED stage
          \/ Fails("error") /\ UNCHANGED storing
      BY <2>1 DEF TypeCheck
    <3> QED  BY <2>1, <3>1, TypeCheckInv, TypeCheckRaisesInv
  <2>2. CASE UNCHANGED vars
    <3>1. /\ \A k, o : Positions(k, o)' = Positions(k, o)
          /\ Told' = Told
          /\ \A o : (Untold(o)' <=> Untold(o)) /\ (Entered(o)' <=> Entered(o))
      BY <2>2, SameLog DEF vars, given
    <3>2. \A o : Twice(o)' <=> Twice(o)
      BY <2>2 DEF vars, given, Twice
    <3> QED
      BY <2>2, <3>1, <3>2 DEF vars, given, StepInv, Lists, Begun, Announced, Handling, Closing,
         Open, Stored, Refuted, ParentsFirst, Running, Idle
  <2> QED
    BY <2>1, <2>2, StartStepInv, LoadInputsInv, YieldInv, PullReturnedInv, ReturnInv,
       ExhaustedInv, EndsBadlyInv, StoreInv, EvaluateInv, ConcludeInv DEF Next
<1> QED  BY <1>1, <1>2, PTL DEF Spec

(* SuccessMeansKept: a step that succeeds has kept every output it         *)
(* announced as its kind asks, and no blocking check of it was refuted,    *)
(* whatever the function gives.                                            *)
THEOREM SuccessAlwaysKept == Spec => []SuccessMeansKept
<1>1. StepInv => SuccessMeansKept
  <2> SUFFICES ASSUME StepInv, stage = "success" PROVE SuccessMeansKept
    BY DEF SuccessMeansKept
  <2>1. Cardinality({}) = 0 /\ \A n : Cardinality({n}) = 1
    BY FS_Singleton, FS_EmptySet
  <2>2. \A o \in Outs : Positions("output", o) # {} => Entered(o)
    BY DEF StepInv, Stored, Refuted, Told, Idle, Twice
  <2>3. \A c \in Blocking : Positions("refuted", c) = {}
    BY DEF StepInv, Refuted
  <2>4. ASSUME NEW o \in Outs, Entered(o)
        PROVE  Cardinality(Positions("handled", o)) = (IF Handled(o) THEN 1 ELSE 0)
    BY <2>1, <2>4 DEF Entered
  <2>5. ASSUME NEW o \in Outs, Entered(o), NEW k \in Marks
        PROVE  Cardinality(Positions(k, o)) = (IF Due(o, k) THEN 1 ELSE 0)
    BY <2>1, <2>5 DEF Entered
  <2> QED  BY <2>2, <2>3, <2>4, <2>5 DEF SuccessMeansKept, Marks, Due
<1> QED  BY <1>1, StepInvariant, PTL

(* ParentsFirst: an asset the function gave is materialized before those   *)
(* of the step that depend on it.                                          *)
THEOREM ParentsAlwaysFirst == Spec => []ParentsFirst
BY StepInvariant, PTL DEF StepInv

(* AttemptKept: every step of an attempt is one of StepAttempt or leaves   *)
(* it alone: outputs are announced once, required ones before a success,   *)
(* and nothing follows the end.                                            *)
THEOREM AttemptAlwaysKept == Spec => AttemptKept
<1>1. Init => Attempt!Init
  <2> SUFFICES ASSUME Init PROVE Attempt!Init
    OBVIOUS
  <2>1. Told = {}
    BY DEF Init, Told, Positions
  <2>2. Required(step) \in SUBSET Outs
    BY DEF Init, Attempts, Required
  <2> QED  BY <2>1, <2>2 DEF Init, Attempt!Init, Phase, MayRetry, Ends
<1>2. StepInv /\ [Next]_vars => [Attempt!Next]_Attempt!vars
  <2> SUFFICES ASSUME StepInv, [Next]_vars PROVE [Attempt!Next]_Attempt!vars
    OBVIOUS
  <2> USE DEF StepInv
  <2>0. step' = step => Required(step)' = Required(step) /\ MayRetry(step)' = MayRetry(step)
    BY DEF Required, MayRetry
  <2>1. ASSUME NEW exc, Fails(exc), stage \notin Ends \cup {"spawned"}, step' = step
        PROVE  Attempt!Next
    <3>1. Told' = Told
      BY <2>1, FailsSame, SamePositions DEF Lists
    <3>2. /\ stage' \in {"failure", "retry"}
          /\ stage' = "retry" => MayRetry(step)
      BY <2>1 DEF Fails
    <3>3. Attempt!End(stage')
      BY <2>0, <2>1, <3>1, <3>2 DEF Attempt!End, Phase, Ends
    <3> QED  BY <3>2, <3>3 DEF Attempt!Next
  <2>2. ASSUME log' = log, step' = step, Phase' = Phase
        PROVE  UNCHANGED Attempt!vars
    BY <2>0, <2>2, SameLog DEF Attempt!vars
  <2>3. CASE StartStep
    <3>1. log = << >> /\ IsList(log) /\ log' = Append(log, Event("start", NoOut))
      BY <2>3 DEF StartStep, Begun, Lists
    <3>2. Told' = Told
      BY <3>1, OtherEvent, SamePositions DEF Kinds
    <3>3. Attempt!Start
      BY <2>0, <2>3, <3>2 DEF StartStep, Attempt!Start, Phase, Ends
    <3> QED  BY <3>3 DEF Attempt!Next
  <2>4. CASE LoadInputs
    BY <2>1, <2>2, <2>4 DEF LoadInputs, Phase, Ends
  <2>5. CASE Yield \/ Return \/ PullReturned
    BY <2>2, <2>5 DEF Yield, Return, PullReturned, Phase, Ends
  <2>6. CASE FunctionRaises \/ Raised \/ StoreFails
    BY <2>1, <2>6 DEF FunctionRaises, Raised, StoreFails, Running, Ends
  <2>7. CASE Exhausted
    BY <2>1, <2>2, <2>7 DEF Exhausted, Phase, Ends
  <2>8. CASE TypeCheck
    <3>1. CASE Fails("error")
      BY <2>1, <2>8, <3>1 DEF TypeCheck, Running, Ends
    <3>2. ASSUME log' = Append(log, Event("output", Head(pieces).out)), UNCHANGED stage,
                 \E ok \in BOOLEAN : storing' = <<[out |-> Head(pieces).out, ok |-> ok]>>
          PROVE  Attempt!Next
      <4>1. PICK o \in Outs \ Told : Told' = Told \cup {o}
        BY <2>8, <3>2, TypeCheckInv
      <4>2. Attempt!Output(o)
        BY <2>0, <2>8, <3>2, <4>1 DEF TypeCheck, Attempt!Output, Phase, Ends, Running
      <4> QED  BY <4>2 DEF Attempt!Next
    <3> QED  BY <2>8, <3>1, <3>2 DEF TypeCheck
  <2>9. CASE Store
    <3>1. Told' = Told
      BY <2>9, StorePositions DEF Store, Lists, Told
    <3> QED  BY <2>0, <2>9, <3>1 DEF Store, Attempt!vars, Phase
  <2>10. CASE Evaluate
    <3>1. Told' = Told
      BY <2>10, EvaluateInv
    <3> QED  BY <2>0, <2>10, <3>1 DEF Evaluate, Attempt!vars, Phase
  <2>11. CASE Conclude
    <3>1. CASE blocked = {} /\ stage' = "success" /\ log' = Append(log, Event("success", NoOut))
      <4>1. Told' = Told
        BY <3>1, OtherEvent, SamePositions DEF Kinds, Lists
      <4>2. Required(step) \subseteq Told
        BY <2>11 DEF Conclude, Idle, Closing
      <4>3. Attempt!End("success")
        BY <2>0, <2>11, <3>1, <4>1, <4>2 DEF Conclude, Attempt!End, Phase, Ends
      <4> QED  BY <4>3 DEF Attempt!Next
    <3> QED  BY <2>1, <2>11, <3>1 DEF Conclude, Ends
  <2>12. CASE Cancel
    <3>1. Told' = Told
      BY <2>12, SameLog DEF Cancel
    <3>2. Attempt!Cancel
      BY <2>0, <2>12, <3>1 DEF Cancel, Attempt!Cancel, Phase, Ends, Running
    <3> QED  BY <3>2 DEF Attempt!Next
  <2>13. CASE UNCHANGED vars
    BY <2>2, <2>13 DEF vars, Phase
  <2> QED
    BY <2>3, <2>4, <2>5, <2>6, <2>7, <2>8, <2>9, <2>10, <2>11, <2>12, <2>13 DEF Next
<1> QED  BY <1>1, <1>2, StepInvariant, PTL DEF Spec, AttemptKept, Attempt!Spec

------------------------------------------------------------------------------
(***************************************************************************)
(* TeradataUtilities, for every set of processes and hosts and any number  *)
(* of calls: although all BTEQ calls share one file name, a call runs its  *)
(* own script, on the host it was asked for, a status of zero means that   *)
(* it ran (but for BTEQ on a remote host), and files are accounted for.    *)
(***************************************************************************)
Stages == {"idle", "asked", "ready", "found", "sent", "opened", "closing", "dead"}
Early == {"asked", "ready", "found"}    \* nothing was sent yet
OnHost == {"found", "sent", "opened"}   \* the call works on a host

TypeOK ==
  /\ made \in [Procs -> Nat]
  /\ \A p \in Procs : made[p] <= MaxCalls[p]
  /\ call \in [Procs -> [util : Utilities, host : Hosts \cup {Local}, file : BOOLEAN]]
  /\ at \in [Procs -> Stages]
  /\ ssh \in [Procs -> [Utilities -> Hosts \cup {Local, Closed}]]
  /\ result \in [Ids -> {"none", "zero", "other", "raised", "lost"}]
  /\ \A p \in Procs : at[p] # "idle" => made[p] >= 1

(* Where a stage can be reached: behind a connection, on a host, by BTEQ. *)
Route ==
  \A p \in Procs :
    /\ at[p] \in OnHost => Where(p) \in Hosts
    /\ at[p] = "opened" => ~ Bteq(p)
    /\ at[p] = "closing" => Bteq(p)
    /\ at[p] \in OnHost \cup {"ready"} /\ Util(p) = "ddl" /\ call[p].host # Local
         => ssh[p]["ddl"] = call[p].host

(* A file is of a call that was made, and tells by its name of which, if   *)
(* that call was not one of BTEQ.                                          *)
Named(f) ==
  \/ f.name = BteqName
  \/ f.name = <<f.of, "enc">>
  \/ f.name = <<f.of, "plain">>
Filed ==
  \A f \in files :
    /\ f = File(f.host, f.name, f.of) /\ Named(f)
    /\ f.of \in Ids /\ f.of[2] <= made[f.of[1]]

(* The files of a process's present call are where it works. *)
Placed ==
  \A p \in Procs, f \in files : f.of = Id(p) =>
    /\ at[p] \notin Early
    /\ f.host = Where(p)
    /\ (f.name = BteqName <=> Bteq(p))

(* Removals are of files named like BTEQ's, for calls that are over. *)
Removing ==
  \A r \in removals :
    /\ r.by \in Ids
    /\ r.by[2] <= made[r.by[1]]
    /\ r.by[2] = made[r.by[1]] => at[r.by[1]] = "idle"
    /\ \A f \in files : f.of = r.by => f.name = BteqName

(* The script TPT has opened on its host is there. *)
Kept ==
  \A p \in Procs :
    at[p] = "opened" => \E f \in At(Where(p), PlainName(p)) : f.of = Id(p)

(* A call that is not BTEQ's on a remote host has run its script when its  *)
(* result is zero; a call to come has no result yet.                       *)
Excused(p) == Bteq(p) /\ call[p].host # Local
Ran ==
  /\ \A id \in Ids : id[2] > made[id[1]] => result[id] = "none"
  /\ \A p \in Procs :
       made[p] > 0 /\ result[Id(p)] = "zero" /\ ~ Excused(p) => \E r \in ran : r.by = Id(p)

(* The files on the hosts, each with the reason why it is there. *)
Left ==
  \A f \in files :
    \/ f.of \in undeleted
    \/ \E r \in removals : r.host = f.host /\ r.by = f.of
    \/ at[f.of[1]] # "idle" /\ made[f.of[1]] = f.of[2]
    \/ result[f.of] = "raised" /\ f.name # BteqName
    \/ result[f.of] = "lost"

(* The inductive invariant: what the three properties need of the calls    *)
(* under way.                                                              *)
TtuInv ==
  /\ TypeOK /\ Route /\ Filed /\ Placed /\ Removing /\ Kept
  /\ NoForeignScript /\ Ran /\ Left

USE TtuAssumption

(* Every call that is under way is numbered within the bound of its process. *)
LEMMA IdIn == ASSUME TypeOK, NEW p \in Procs, at[p] # "idle" PROVE Id(p) \in Ids
BY DEF TypeOK, Id, Ids

(* An identity is a process and a number; that of the present call of a    *)
(* process is told by the two.                                             *)
LEMMA IdIs ==
  \A id \in Ids : /\ id = <<id[1], id[2]>> /\ id[1] \in Procs /\ id[2] \in Nat
                  /\ \A p \in Procs : id = Id(p) <=> id[1] = p /\ id[2] = made[p]
BY DEF Ids, Id

(* A step of one call that gives it no zero, or runs its script, keeps Ran. *)
LEMMA StillRan ==
  ASSUME TypeOK, Ran, NEW p \in Procs, made[p] >= 1, made' = made, ran \subseteq ran',
         \A q \in Procs : call'[q].util = call[q].util /\ call'[q].host = call[q].host,
         \A id \in Ids : id # Id(p) => result'[id] = result[id],
         result'[Id(p)] = "zero" /\ ~ Excused(p) =>
           result[Id(p)] = "zero" \/ \E r \in ran' : r.by = Id(p)
  PROVE  Ran'
<1>1. \A id \in Ids : id[2] > made[id[1]] => id # Id(p)
  BY IdIs DEF TypeOK
<1>2. \A q \in Procs : Id(q)' = Id(q) /\ Excused(q)' = Excused(q) /\ Bteq(q)' = Bteq(q)
  BY DEF Id, Excused, Bteq, Util
<1>3. ASSUME NEW q \in Procs, made[q] > 0, result'[Id(q)] = "zero", ~ Excused(q)
      PROVE  \E r \in ran' : r.by = Id(q)
  <2>1. Id(q) \in Ids
    BY <1>3 DEF Id, Ids, TypeOK
  <2>2. CASE result[Id(q)] = "zero"
    BY <1>3, <2>2 DEF Ran
  <2>3. CASE Id(q) = Id(p)
    BY <1>3, <2>2, <2>3 DEF Id
  <2> QED  BY <1>3, <2>1, <2>2, <2>3
<1>4. \A id \in Ids : id[2] > made'[id[1]] => result'[id] = "none"
  BY <1>1 DEF Ran
<1> QED  BY <1>2, <1>3, <1>4 DEF Ran

(* The names of the files tell BTEQ's from those of TPT, an encrypted TPT  *)
(* script from the one it was opened into, and one call from another.      *)
LEMMA Names == \A x, y : /\ BteqName # <<x, "enc">> /\ BteqName # <<x, "plain">>
                         /\ <<x, "enc">> # <<y, "plain">>
                         /\ <<x, "enc">> = <<y, "enc">> => x = y
                         /\ <<x, "plain">> = <<y, "plain">> => x = y
BY DEF BteqName

(* A process that begins a call leaves no trace of it on the hosts yet. *)
LEMMA BeginInv == ASSUME TtuInv, NEW p \in Procs, NEW c \in Calls, Begin(p, c) PROVE TtuInv'
<1> USE DEF TtuInv
<1>1. TypeOK'
  BY DEF TypeOK, Begin, Calls, Goto, Stages
<1>2. Route'
  BY DEF TypeOK, Begin, Raise, Outcome, Goto, Stages, Route, OnHost, Where, Bteq, Util
<1>3. Filed'
  BY IdIs DEF TypeOK, Filed, Begin, Named, File
<1>4. Placed'
  <2>1. \A f \in files : f.of # Id(p)'
    BY IdIs DEF TypeOK, Begin, Filed, Id
  <2>2. \A q \in Procs : q # p =>
          Id(q)' = Id(q) /\ Where(q)' = Where(q) /\ Bteq(q)' = Bteq(q) /\ at'[q] = at[q]
    BY DEF TypeOK, Begin, Goto, Where, Bteq, Util, Id
  <2> QED  BY <2>1, <2>2 DEF Begin, Placed
<1>5. Removing'
  BY IdIs DEF TypeOK, Begin, Raise, Goto, Removing, Stages
<1>6. Kept'
  BY ZenonT(40) DEF TypeOK, Begin, Raise, Goto, Kept, Stages, At, Where, Bteq, Util, Id, PlainName
<1>7. NoForeignScript'
  BY DEF Begin, NoForeignScript
<1>8. Ran'
  <2>1. \A q \in Procs : q # p => Id(q)' = Id(q) /\ Excused(q)' = Excused(q) /\ made'[q] = made[q]
    BY DEF TypeOK, Begin, Id, Excused, Bteq, Util
  <2>2. Id(p)' \in Ids /\ Id(p)'[2] > made[Id(p)'[1]]
    BY DEF TypeOK, Begin, Id, Ids
  <2>3. result'[Id(p)'] = "none"
    BY <2>2 DEF Begin, Ran
  <2>4. \A id \in Ids : id[2] > made'[id[1]] => id[2] > made[id[1]]
    BY IdIs DEF TypeOK, Begin
  <2> QED  BY <2>1, <2>3, <2>4 DEF Begin, Ran
<1>9. Left'
  BY IdIs DEF TypeOK, Begin, Goto, Stages, Filed, Placed, Left
<1> QED BY <1>1, <1>2, <1>3, <1>4, <1>5, <1>6, <1>7, <1>8, <1>9

(* A call that is refused has sent nothing, so that its exception leaves   *)
(* nothing.                                                                *)
LEMMA RefuseInv == ASSUME TtuInv, NEW p \in Procs, Refuse(p) PROVE TtuInv'
<1> USE DEF TtuInv
<1>0. Id(p) \in Ids  BY IdIn DEF Refuse
<1>1. TypeOK'
  BY <1>0 DEF TypeOK, Refuse, Raise, Outcome, Goto, Stages
<1>2. Route'
  BY DEF TypeOK, Refuse, Raise, Outcome, Goto, Stages, Route, OnHost, Where, Bteq, Util
<1>3. Filed'
  BY DEF Filed, Refuse, Named, File
<1>4. Placed'
  BY DEF TypeOK, Refuse, Raise, Goto, Placed, Early, Where, Bteq, Util, Id
<1>5. Removing'
  BY IdIs DEF TypeOK, Refuse, Raise, Goto, Removing, Stages
<1>6. Kept'
  BY DEF TypeOK, Refuse, Raise, Goto, Kept, Stages, At, Where, Bteq, Util, Id, PlainName
<1>7. NoForeignScript'
  BY DEF Refuse, NoForeignScript
<1>8. Ran'
  <2>1. /\ \A id \in Ids : id # Id(p) => result'[id] = result[id]
        /\ result'[Id(p)] = "zero" => result[Id(p)] = "zero"
    BY <1>0 DEF TypeOK, Refuse, Raise, Outcome
  <2> QED  BY <2>1, StillRan DEF TypeOK, Refuse
<1>9. Left'
  BY <1>0, IdIs DEF TypeOK, Refuse, Raise, Outcome, Goto, Stages, Filed, Placed, Early, Left
<1> QED BY <1>1, <1>2, <1>3, <1>4, <1>5, <1>6, <1>7, <1>8, <1>9

(* A connection, made or not, is that of a call that has sent nothing. *)
LEMMA ConnectInv ==
  ASSUME TtuInv, NEW p \in Procs, NEW util \in Utilities, Connect(p, util) PROVE TtuInv'
<1> USE DEF TtuInv
<1>0. Id(p) \in Ids  BY IdIn DEF Connect
<1>1. TypeOK'
  <2>1. ssh' \in [Procs -> [Utilities -> Hosts \cup {Local, Closed}]]
    <3>1. PICK x \in Hosts \cup {Local, Closed} : ssh' = [ssh EXCEPT ![p][util] = x]
      BY DEF Connect
    <3> QED  BY <3>1 DEF TypeOK
  <2>2. at' \in [Procs -> Stages] /\ result' \in [Ids -> {"none", "zero", "other", "raised", "lost"}]
    BY <1>0 DEF TypeOK, Connect, Raise, Outcome, Goto, Stages
  <2>3. \A q \in Procs : at'[q] # "idle" => at[q] # "idle"
    BY DEF TypeOK, Connect, Raise, Goto
  <2> QED  BY <2>1, <2>2, <2>3 DEF TypeOK, Connect
<1>2. Route'
  <2>1. \A q \in Procs : q # p => at'[q] = at[q] /\ ssh'[q] = ssh[q]
    BY DEF TypeOK, Connect, Raise, Goto
  <2>2. call' = call /\ Util(p) = util /\ at'[p] \in {"ready", "idle"}
    BY DEF TypeOK, Connect, Raise, Goto
  <2>3. at'[p] = "ready" => ssh'[p][util] = call[p].host
    BY DEF TypeOK, Connect, Raise, Goto
  <2> QED  BY <2>1, <2>2, <2>3 DEF Route, OnHost, Where, Bteq, Util
<1>3. Filed'
  BY DEF Filed, Connect, Named, File
<1>4. Placed'
  BY DEF TypeOK, Connect, Raise, Goto, Placed, Early, Where, Bteq, Util, Id
<1>5. Removing'
  BY IdIs DEF TypeOK, Connect, Raise, Goto, Removing, Stages
<1>6. Kept'
  <2>1. \A q \in Procs : at'[q] \in {"sent", "opened"} => q # p /\ at'[q] = at[q]
    BY DEF TypeOK, Connect, Raise, Goto
  <2>2. \A q \in Procs : q # p => Where(q)' = Where(q)
    BY DEF TypeOK, Connect, Where, Util
  <2> QED  BY ZenonT(40), <2>1, <2>2 DEF Connect, Kept, At, Bteq, Util, Id, PlainName
<1>7. NoForeignScript'
  BY DEF Connect, NoForeignScript
<1>8. Ran'
  <2>1. /\ \A id \in Ids : id # Id(p) => result'[id] = result[id]
        /\ result'[Id(p)] = "zero" => result[Id(p)] = "zero"
    BY <1>0 DEF TypeOK, Connect, Raise, Outcome
  <2> QED  BY <2>1, StillRan DEF TypeOK, Connect
<1>9. Left'
BY <1>0, IdIs DEF TypeOK, Connect, Raise, Outcome, Goto, Stages, Filed, Placed, Early,
         Left
<1> QED BY <1>1, <1>2, <1>3, <1>4, <1>5, <1>6, <1>7, <1>8, <1>9

(* The same for a call without a host. *)
LEMMA NoConnectionInv == ASSUME TtuInv, NEW p \in Procs, NoConnection(p) PROVE TtuInv'
<1> USE DEF TtuInv
<1>0. Id(p) \in Ids  BY IdIn DEF NoConnection
<1>1. TypeOK'
  BY <1>0 DEF TypeOK, NoConnection, Raise, Outcome, Goto, Stages
<1>2. Route'
  BY DEF TypeOK, NoConnection, Raise, Outcome, Goto, Stages, Route, OnHost, Where, Bteq, Util
<1>3. Filed'
  BY DEF Filed, NoConnection, Named, File
<1>4. Placed'
  BY DEF TypeOK, NoConnection, Raise, Goto, Placed, Early, Where, Bteq, Util, Id
<1>5. Removing'
  BY IdIs DEF TypeOK, NoConnection, Raise, Goto, Removing, Stages
<1>6. Kept'
  BY DEF TypeOK, NoConnection, Raise, Goto, Kept, Stages, At, Where, Bteq, Util, Id, PlainName
<1>7. NoForeignScript'
  BY DEF NoConnection, NoForeignScript
<1>8. Ran'
  <2>1. /\ \A id \in Ids : id # Id(p) => result'[id] = result[id]
        /\ result'[Id(p)] = "zero" => result[Id(p)] = "zero"
    BY <1>0 DEF TypeOK, NoConnection, Raise, Outcome
  <2> QED  BY <2>1, StillRan DEF TypeOK, NoConnection
<1>9. Left'
BY <1>0, IdIs DEF TypeOK, NoConnection, Raise, Outcome, Goto, Stages, Filed, Placed, Early,
         Left
<1> QED BY <1>1, <1>2, <1>3, <1>4, <1>5, <1>6, <1>7, <1>8, <1>9

(* A function changed at one point by a value of its range. *)
LEMMA ChangedIn ==
  ASSUME NEW D, NEW R, NEW f \in [D -> R], NEW d \in D, NEW r \in R
  PROVE  [f EXCEPT ![d] = r] \in [D -> R]
OBVIOUS

(* Reading the script from a file changes neither the utility nor the host *)
(* of the call.                                                            *)
LEMMA ReadBteqFileInv == ASSUME TtuInv, NEW p \in Procs, ReadBteqFile(p) PROVE TtuInv'
<1> USE DEF TtuInv
<1>0. Id(p) \in Ids  BY IdIn DEF ReadBteqFile
<1>a. \A q \in Procs : Util(q)' = Util(q) /\ Where(q)' = Where(q) /\ call'[q].host = call[q].host
  <2>1. CASE call' = [call EXCEPT ![p].file = FALSE]
    BY <2>1 DEF TypeOK, ReadBteqFile, Util, Where
  <2>2. CASE UNCHANGED call
    BY <2>2 DEF ReadBteqFile, Util, Where
  <2> QED  BY <2>1, <2>2 DEF ReadBteqFile
<1>1. TypeOK'
  <2>1. call' \in [Procs -> [util : Utilities, host : Hosts \cup {Local}, file : BOOLEAN]]
    <3> DEFINE R == [util : Utilities, host : Hosts \cup {Local}, file : BOOLEAN]
    <3>1. call \in [Procs -> R]
      BY DEF TypeOK
    <3>2. CASE call' = [call EXCEPT ![p].file = FALSE]
      <4>1. [call[p] EXCEPT !.file = FALSE] \in R
        BY <3>1
      <4>2. call' = [call EXCEPT ![p] = [call[p] EXCEPT !.file = FALSE]]
        BY <3>1, <3>2
      <4> QED BY <3>1, <4>1, <4>2, ChangedIn
    <3>3. CASE UNCHANGED call
      BY <3>1, <3>3
    <3> QED BY <3>2, <3>3 DEF ReadBteqFile
  <2>2. at' \in [Procs -> Stages] /\ \A q \in Procs : at'[q] # "idle" => made[q] >= 1
    BY DEF TypeOK, ReadBteqFile, Raise, Goto, Stages
  <2>3. result' \in [Ids -> {"none", "zero", "other", "raised", "lost"}]
    BY <1>0 DEF TypeOK, ReadBteqFile, Raise, Outcome
  <2> QED BY <2>1, <2>2, <2>3 DEF TypeOK, ReadBteqFile
<1>2. Route'
  BY <1>a DEF TypeOK, ReadBteqFile, Raise, Goto, Route, OnHost, Bteq
<1>3. Filed'
  BY DEF Filed, ReadBteqFile, Named, File
<1>4. Placed'
  <2>1. \A q \in Procs : Bteq(q)' = Bteq(q) /\ Id(q)' = Id(q) /\ Where(q)' = Where(q)
    BY <1>a DEF ReadBteqFile, Bteq, Id
  <2>2. \A q \in Procs : at'[q] \in Early => at[q] \in Early
    BY DEF TypeOK, ReadBteqFile, Raise, Goto, Early
  <2> QED  BY <2>1, <2>2 DEF ReadBteqFile, Placed
<1>5. Removing'
  BY IdIs DEF TypeOK, ReadBteqFile, Raise, Goto, Removing, Stages
<1>6. Kept'
  <2>1. \A q \in Procs : at'[q] \in {"sent", "opened"} => at'[q] = at[q]
    BY DEF TypeOK, ReadBteqFile, Raise, Goto
  <2>2. \A q \in Procs : /\ Bteq(q)' = Bteq(q) /\ Id(q)' = Id(q) /\ Where(q)' = Where(q)
                         /\ PlainName(q)' = PlainName(q)
    BY <1>a DEF ReadBteqFile, Bteq, Id, PlainName
  <2>3. files' = files
    BY DEF ReadBteqFile
  <2> QED  BY <2>1, <2>2, <2>3 DEF Kept, At
<1>7. NoForeignScript'
  BY DEF ReadBteqFile, NoForeignScript
<1>8. Ran'
  <2>1. /\ \A id \in Ids : id # Id(p) => result'[id] = result[id]
        /\ result'[Id(p)] = "zero" => result[Id(p)] = "zero"
    BY <1>0 DEF TypeOK, ReadBteqFile, Raise, Outcome
  <2>2. \A q \in Procs : call'[q].util = call[q].util /\ call'[q].host = call[q].host
    BY <1>a DEF Util
  <2> QED  BY <2>1, <2>2, StillRan DEF TypeOK, ReadBteqFile
<1>9. Left'
BY <1>0, IdIs DEF TypeOK, ReadBteqFile, Raise, Outcome, Goto, Stages, Filed, Placed, Early,
         Left
<1> QED BY <1>1, <1>2, <1>3, <1>4, <1>5, <1>6, <1>7, <1>8, <1>9

(* tdload with a file ends in an exception, before anything was sent. *)
LEMMA ReadJobVarFileInv == ASSUME TtuInv, NEW p \in Procs, ReadJobVarFile(p) PROVE TtuInv'
<1> USE DEF TtuInv
<1>0. Id(p) \in Ids  BY IdIn DEF ReadJobVarFile
<1>1. TypeOK'
  BY <1>0 DEF TypeOK, ReadJobVarFile, Raise, Outcome, Goto, Stages
<1>2. Route'
  BY DEF TypeOK, ReadJobVarFile, Raise, Outcome, Goto, Stages, Route, OnHost, Where, Bteq, Util
<1>3. Filed'
  BY DEF Filed, ReadJobVarFile, Named, File
<1>4. Placed'
  BY DEF TypeOK, ReadJobVarFile, Raise, Goto, Placed, Early, Where, Bteq, Util, Id
<1>5. Removing'
  BY IdIs DEF TypeOK, ReadJobVarFile, Raise, Goto, Removing, Stages
<1>6. Kept'
  BY ZenonT(40) DEF TypeOK, ReadJobVarFile, Raise, Goto, Kept, Stages, At, Where, Bteq, Util, Id, PlainName
<1>7. NoForeignScript'
  BY DEF ReadJobVarFile, NoForeignScript
<1>8. Ran'
  <2>1. /\ \A id \in Ids : id # Id(p) => result'[id] = result[id]
        /\ result'[Id(p)] = "zero" => result[Id(p)] = "zero"
    BY <1>0 DEF TypeOK, ReadJobVarFile, Raise, Outcome
  <2> QED  BY <2>1, StillRan DEF TypeOK, ReadJobVarFile
<1>9. Left'
BY <1>0, IdIs DEF TypeOK, ReadJobVarFile, Raise, Outcome, Goto, Stages, Filed, Placed, Early,
         Left
<1> QED BY <1>1, <1>2, <1>3, <1>4, <1>5, <1>6, <1>7, <1>8, <1>9

(* Looking for the utility on the host sends no file. *)
LEMMA VerifyInv == ASSUME TtuInv, NEW p \in Procs, Verify(p) PROVE TtuInv'
<1> USE DEF TtuInv
<1>0. Id(p) \in Ids  BY IdIn DEF Verify, Ready
<1>1. TypeOK'
  BY <1>0 DEF TypeOK, Verify, Ready, Raise, Outcome, Goto, Stages
<1>2. Route'
  BY DEF TypeOK, Verify, Ready, Raise, Outcome, Goto, Stages, Route, OnHost, Where, Bteq, Util
<1>3. Filed'
  BY DEF Filed, Verify, Ready, Named, File
<1>4. Placed'
  BY DEF TypeOK, Verify, Ready, Raise, Goto, Placed, Early, Where, Bteq, Util, Id
<1>5. Removing'
  BY IdIs DEF TypeOK, Verify, Ready, Raise, Goto, Removing, Stages
<1>6. Kept'
  BY ZenonT(40) DEF TypeOK, Verify, Ready, Raise, Goto, Kept, Stages, At, Where, Bteq, Util, Id, PlainName
<1>7. NoForeignScript'
  BY DEF Verify, Ready, NoForeignScript
<1>8. Ran'
  <2>1. /\ \A id \in Ids : id # Id(p) => result'[id] = result[id]
        /\ result'[Id(p)] = "zero" => result[Id(p)] = "zero"
    BY <1>0 DEF TypeOK, Verify, Ready, Raise, Outcome
  <2> QED  BY <2>1, StillRan DEF TypeOK, Verify, Ready
<1>9. Left'
BY <1>0, IdIs DEF TypeOK, Verify, Ready, Raise, Outcome, Goto, Stages, Filed, Placed, Early,
         Left
<1> QED BY <1>1, <1>2, <1>3, <1>4, <1>5, <1>6, <1>7, <1>8, <1>9

(* A process that is killed leaves its files, and its call is told as lost. *)
LEMMA DieInv == ASSUME TtuInv, NEW p \in Procs, Die(p) PROVE TtuInv'
<1> USE DEF TtuInv
<1>0. Id(p) \in Ids  BY IdIn DEF Die
<1>1. TypeOK'
  BY <1>0 DEF TypeOK, Die, Raise, Outcome, Goto, Stages
<1>2. Route'
  BY DEF TypeOK, Die, Raise, Outcome, Goto, Stages, Route, OnHost, Where, Bteq, Util
<1>3. Filed'
  BY DEF Filed, Die, Named, File
<1>4. Placed'
  BY DEF TypeOK, Die, Raise, Goto, Placed, Early, Where, Bteq, Util, Id
<1>5. Removing'
  BY IdIs DEF TypeOK, Die, Raise, Goto, Removing, Stages
<1>6. Kept'
  BY DEF TypeOK, Die, Raise, Goto, Kept, Stages, At, Where, Bteq, Util, Id, PlainName
<1>7. NoForeignScript'
  BY DEF Die, NoForeignScript
<1>8. Ran'
  <2>1. /\ \A id \in Ids : id # Id(p) => result'[id] = result[id]
        /\ result'[Id(p)] = "zero" => result[Id(p)] = "zero"
    BY <1>0 DEF TypeOK, Die, Raise, Outcome
  <2> QED  BY <2>1, StillRan DEF TypeOK, Die
<1>9. Left'
  BY <1>0, IdIs DEF TypeOK, Die, Raise, Outcome, Goto, Stages, Filed, Placed, Early, Left
<1> QED BY <1>1, <1>2, <1>3, <1>4, <1>5, <1>6, <1>7, <1>8, <1>9

(* A local run that returns a status has run the script; one that raises   *)
(* may have.                                                               *)
LEMMA RunLocallyInv ==
  ASSUME TtuInv, NEW p \in Procs, NEW util \in Utilities, RunLocally(p, util) PROVE TtuInv'
<1> USE DEF TtuInv
<1>0. Id(p) \in Ids  BY IdIn DEF RunLocally, Ready, Exits, Statuses
<1>1. TypeOK'
  BY <1>0 DEF TypeOK, RunLocally, Ready, Exits, Statuses, Raise, Outcome, Goto, Stages
<1>2. Route'
BY DEF TypeOK, RunLocally, Ready, Exits, Statuses, Raise, Outcome, Goto, Stages, Route, OnHost,
         Where, Bteq, Util
<1>3. Filed'
  BY DEF Filed, RunLocally, Ready, Exits, Statuses, Named, File
<1>4. Placed'
BY DEF TypeOK, RunLocally, Ready, Exits, Statuses, Raise, Goto, Placed, Early, Where, Bteq,
         Util, Id
<1>5. Removing'
  BY IdIs DEF TypeOK, RunLocally, Ready, Exits, Statuses, Raise, Goto, Removing, Stages
<1>6. Kept'
BY ZenonT(40) DEF TypeOK, RunLocally, Ready, Exits, Statuses, Raise, Goto, Kept, Stages, At, Where,
         Bteq, Util, Id, PlainName
<1>7. NoForeignScript'
  BY DEF RunLocally, Ready, Exits, Statuses, NoForeignScript
<1>8. Ran'
  <2>1. ran \subseteq ran' /\ made[p] >= 1
    BY DEF TypeOK, RunLocally, Ready
  <2>2. result'[Id(p)] = "zero" => \E r \in ran' : r.by = Id(p)
    <3>1. CASE Raise(p)
      BY <1>0, <3>1 DEF TypeOK, Raise, Outcome
    <3>2. CASE ran' = ran \cup {[script |-> Id(p), by |-> Id(p), host |-> Local]}
      <4>1. [script |-> Id(p), by |-> Id(p), host |-> Local] \in ran'
        BY <3>2
      <4> QED  BY <4>1
    <3> QED  BY <3>1, <3>2 DEF RunLocally
  <2>3. \A id \in Ids : id # Id(p) => result'[id] = result[id]
    BY <1>0 DEF TypeOK, RunLocally, Exits, Raise, Outcome
  <2> QED  BY <2>1, <2>2, <2>3, StillRan DEF RunLocally
<1>9. Left'
BY <1>0, IdIs DEF TypeOK, RunLocally, Ready, Exits, Statuses, Raise, Outcome, Goto, Stages,
         Filed, Placed, Early, Left
<1> QED BY <1>1, <1>2, <1>3, <1>4, <1>5, <1>6, <1>7, <1>8, <1>9

(* BTEQ over SSH reads a file that its own call has written, or nothing;   *)
(* its status says nothing of which.                                       *)
LEMMA RunBteqInv == ASSUME TtuInv, NEW p \in Procs, RunBteq(p) PROVE TtuInv'
<1> USE DEF TtuInv
<1>0. Id(p) \in Ids  BY IdIn DEF RunBteq, Exits, Statuses
<1>1. TypeOK'
  BY <1>0 DEF TypeOK, RunBteq, Exits, Statuses, Raise, Outcome, Goto, Stages
<1>2. Route'
BY DEF TypeOK, RunBteq, Exits, Statuses, Raise, Outcome, Goto, Stages, Route, OnHost, Where,
         Bteq, Util
<1>3. Filed'
  BY DEF Filed, RunBteq, Exits, Statuses, Named, File
<1>4. Placed'
  BY DEF TypeOK, RunBteq, Exits, Statuses, Raise, Goto, Placed, Early, Where, Bteq, Util, Id
<1>5. Removing'
  BY IdIs DEF TypeOK, RunBteq, Exits, Statuses, Raise, Goto, Removing, Stages
<1>6. Kept'
BY ZenonT(40) DEF TypeOK, RunBteq, Exits, Statuses, Raise, Goto, Kept, Stages, At, Where, Bteq, Util,
         Id, PlainName
<1>7. NoForeignScript'
  BY DEF RunBteq, Piped, Opens, NoForeignScript
<1>8. Ran'
  <2>1. Excused(p) /\ ran \subseteq ran' /\ made[p] >= 1
    BY DEF TypeOK, RunBteq, Route, OnHost, Excused, Where, Bteq
  <2>2. \A id \in Ids : id # Id(p) => result'[id] = result[id]
    BY <1>0 DEF TypeOK, RunBteq, Exits, Raise, Outcome
  <2> QED  BY <2>1, <2>2, StillRan DEF RunBteq
<1>9. Left'
  <2>1. Where(p) # Local
    BY DEF RunBteq, Route, OnHost, Where, TypeOK
  <2>2. at' = [at EXCEPT ![p] = "closing"]
    BY <2>1 DEF RunBteq, Exits, Raise, Goto
  <2>3. \A id \in Ids : id # Id(p) => result'[id] = result[id]
    BY <1>0 DEF TypeOK, RunBteq, Exits, Raise, Outcome
  <2>4. files' = files /\ removals' = removals /\ undeleted' = undeleted /\ made' = made
    BY DEF RunBteq
  <2>5. \A q \in Procs : at[q] # "idle" => at'[q] # "idle"
    BY <2>2 DEF TypeOK
  <2>6. at'[p] # "idle"
    BY <2>2 DEF TypeOK
  <2>7. ASSUME NEW f \in files
        PROVE  \/ f.of \in undeleted
               \/ \E r \in removals : r.host = f.host /\ r.by = f.of
               \/ at'[f.of[1]] # "idle" /\ made[f.of[1]] = f.of[2]
               \/ result'[f.of] = "raised" /\ f.name # BteqName
               \/ result'[f.of] = "lost"
    <3>1. f.of \in Ids /\ f.of[1] \in Procs
      BY IdIs DEF Filed
    <3>2. CASE f.of = Id(p)
      BY <2>6, <3>2 DEF Id
    <3>3. CASE f.of # Id(p)
      BY <2>3, <2>5, <3>1, <3>3 DEF Left
    <3> QED  BY <3>2, <3>3
  <2> QED  BY <2>4, <2>7 DEF Left
<1> QED BY <1>1, <1>2, <1>3, <1>4, <1>5, <1>6, <1>7, <1>8, <1>9

(* Closing a BTEQ call sends the removal of its file, or tells that it     *)
(* could not.                                                              *)
LEMMA CloseBteqInv == ASSUME TtuInv, NEW p \in Procs, CloseBteq(p) PROVE TtuInv'
<1> USE DEF TtuInv
<1>0. Id(p) \in Ids  BY IdIn DEF CloseBteq
<1>1. TypeOK'
  BY <1>0 DEF TypeOK, CloseBteq, Raise, Outcome, Goto, Stages
<1>2. Route'
  BY DEF TypeOK, CloseBteq, Raise, Outcome, Goto, Stages, Route, OnHost, Where, Bteq, Util
<1>3. Filed'
  BY DEF Filed, CloseBteq, Named, File
<1>4. Placed'
  BY DEF TypeOK, CloseBteq, Raise, Goto, Placed, Early, Where, Bteq, Util, Id
<1>5. Removing'
  BY <1>0, IdIs DEF TypeOK, CloseBteq, Goto, Stages, Removing, Route, Placed
<1>6. Kept'
  BY DEF TypeOK, CloseBteq, Raise, Goto, Kept, Stages, At, Where, Bteq, Util, Id, PlainName
<1>7. NoForeignScript'
  BY DEF CloseBteq, NoForeignScript
<1>8. Ran'
  <2>1. /\ \A id \in Ids : id # Id(p) => result'[id] = result[id]
        /\ result'[Id(p)] = "zero" => result[Id(p)] = "zero"
    BY <1>0 DEF TypeOK, CloseBteq, Outcome
  <2> QED  BY <2>1, StillRan DEF TypeOK, CloseBteq
<1>9. Left'
  <2> SUFFICES ASSUME NEW f \in files
               PROVE  \/ f.of \in undeleted'
                      \/ \E r \in removals' : r.host = f.host /\ r.by = f.of
                      \/ at'[f.of[1]] # "idle" /\ made[f.of[1]] = f.of[2]
                      \/ result'[f.of] = "raised" /\ f.name # BteqName
                      \/ result'[f.of] = "lost"
    BY DEF CloseBteq, Left
  <2>1. CASE f.of = Id(p)
    <3>1. f.host = Where(p)
      BY <2>1 DEF Placed
    <3>2. CASE removals' = removals \cup {[host |-> Where(p), by |-> Id(p)]}
      <4>1. [host |-> Where(p), by |-> Id(p)] \in removals'
        BY <3>2
      <4> QED  BY <2>1, <3>1, <4>1
    <3>3. CASE undeleted' = undeleted \cup {Id(p)}
      BY <2>1, <3>3
    <3> QED  BY <3>2, <3>3 DEF CloseBteq
  <2>2. CASE f.of # Id(p)
    BY <1>0, <2>2, IdIs DEF TypeOK, CloseBteq, Outcome, Goto, Filed, Left
  <2> QED  BY <2>1, <2>2
<1> QED BY <1>1, <1>2, <1>3, <1>4, <1>5, <1>6, <1>7, <1>8, <1>9

(* A transfer replaces a file only of the same name: nothing of TPT's.     *)
LEMMA TransferInv == ASSUME TtuInv, NEW p \in Procs, Transfer(p) PROVE TtuInv'
<1> USE DEF TtuInv
<1>0. Id(p) \in Ids  BY IdIn DEF Transfer
<1>a. at[p] = "found" /\ Where(p) \in Hosts
  BY DEF Transfer, Route, OnHost
<1>b. /\ \A f \in files' \ files : f = File(Where(p), EncName(p), Id(p))
      /\ \A f \in files \ files' : f \in At(Where(p), EncName(p))
  BY DEF Transfer, Put
<1>c. \/ at' = [at EXCEPT ![p] = "sent"] /\ result' = result
      \/ /\ at' = [at EXCEPT ![p] = IF Bteq(p) THEN "closing" ELSE "idle"]
         /\ result' = [result EXCEPT ![Id(p)] = "raised"]
  BY <1>a DEF Transfer, Raise, Goto, Outcome
<1>1. TypeOK'
  BY <1>0, <1>c DEF TypeOK, Transfer, Stages
<1>2. Route'
  BY <1>a, <1>c DEF TypeOK, Transfer, Route, OnHost, Where, Bteq, Util
<1>3. Filed'
  <2>1. \A f \in files' \cap files : f = File(f.host, f.name, f.of) /\ Named(f)
                                   /\ f.of \in Ids /\ f.of[2] <= made[f.of[1]]
    BY DEF Filed
  <2>2. \A f \in files' \ files : f.of \in Ids /\ f = File(f.host, f.name, f.of) /\ Named(f)
    BY <1>0, <1>b DEF File, Named, EncName
  <2>3. \A f \in files' \ files : f.of[2] <= made[f.of[1]]
    BY <1>0, <1>b, IdIs DEF File, TypeOK
  <2> QED  BY <2>1, <2>2, <2>3 DEF Transfer, Filed, Named, File
<1>4. Placed'
BY <1>a, <1>b, <1>c, IdIs DEF TypeOK, Transfer, Placed, Early, Where, Bteq, Util, Id,
         EncName, File, BteqName
<1>5. Removing'
  <2>1. \A r \in removals : r.by # Id(p)
    BY <1>a DEF Removing, Id
  <2>2. \A r \in removals, f \in files' : f.of = r.by => f \in files
    BY <1>b, <2>1 DEF File
  <2> QED  BY <1>a, <1>c, <2>2, IdIs DEF TypeOK, Transfer, Removing
<1>6. Kept'
  <2> SUFFICES ASSUME NEW q \in Procs, at'[q] = "opened"
               PROVE  \E f \in At(Where(q), PlainName(q))' : f.of = Id(q)
    BY DEF Kept, Transfer, Id
  <2>1. at[q] = "opened" /\ Where(q)' = Where(q) /\ PlainName(q)' = PlainName(q)
    BY <1>a, <1>c DEF TypeOK, Transfer, Where, Util, PlainName, Id
  <2>2. PICK f \in At(Where(q), PlainName(q)) : f.of = Id(q)
    BY <2>1 DEF Kept
  <2>3. f \in files'
    BY <1>b, Names DEF At, EncName, PlainName
  <2> QED  BY <2>1, <2>2, <2>3 DEF At
<1>7. NoForeignScript'
  BY DEF Transfer, NoForeignScript
<1>8. Ran'
  <2>1. /\ \A id \in Ids : id # Id(p) => result'[id] = result[id]
        /\ result'[Id(p)] = "zero" => result[Id(p)] = "zero"
    BY <1>0, <1>c DEF TypeOK
  <2> QED  BY <2>1, StillRan DEF TypeOK, Transfer
<1>9. Left'
  <2> SUFFICES ASSUME NEW f \in files'
               PROVE  \/ f.of \in undeleted
                      \/ \E r \in removals : r.host = f.host /\ r.by = f.of
                      \/ at'[f.of[1]] # "idle" /\ made[f.of[1]] = f.of[2]
                      \/ result'[f.of] = "raised" /\ f.name # BteqName
                      \/ result'[f.of] = "lost"
    BY DEF Transfer, Left
  <2>1. CASE f.of = Id(p)
    <3>1. f = File(Where(p), EncName(p), Id(p))
      BY <1>a, <1>b, <2>1 DEF Placed, Early
    <3> QED  BY <1>0, <1>c, <2>1, <3>1, IdIs, Names DEF TypeOK, EncName, File
  <2>2. CASE f.of # Id(p)
    <3>1. f \in files
      BY <1>b, <2>2 DEF File
    <3> QED  BY <1>0, <1>c, <2>2, <3>1, IdIs DEF TypeOK, Filed, Left
  <2> QED  BY <2>1, <2>2
<1> QED BY <1>1, <1>2, <1>3, <1>4, <1>5, <1>6, <1>7, <1>8, <1>9

(* Opening a TPT script adds a file of the call, of a name no other call   *)
(* has.                                                                    *)
LEMMA DecryptInv == ASSUME TtuInv, NEW p \in Procs, Decrypt(p) PROVE TtuInv'
<1> USE DEF TtuInv
<1>0. Id(p) \in Ids  BY IdIn DEF Decrypt
<1>a. at[p] = "sent" /\ ~ Bteq(p) /\ Where(p) \in Hosts
  BY DEF Decrypt, Route, OnHost
<1>b. /\ files \subseteq files'
      /\ \A f \in files' \ files : f = File(Where(p), PlainName(p), Id(p))
  BY DEF Decrypt, PlainFile
<1>c. \/ at' = [at EXCEPT ![p] = "opened"] /\ result' = result /\ PlainFile(p) \in files'
      \/ at' = [at EXCEPT ![p] = "idle"] /\ result' = [result EXCEPT ![Id(p)] = "raised"]
  BY <1>a DEF Decrypt, Protect, Raise, Goto, Outcome
<1>1. TypeOK'
  BY <1>0, <1>c DEF TypeOK, Decrypt, Stages
<1>2. Route'
  BY <1>a, <1>c DEF TypeOK, Decrypt, Route, OnHost, Where, Bteq, Util
<1>3. Filed'
  <2>1. \A f \in files : f = File(f.host, f.name, f.of) /\ Named(f)
                         /\ f.of \in Ids /\ f.of[2] <= made[f.of[1]]
    BY DEF Filed
  <2>2. \A f \in files' \ files : f.of \in Ids /\ f = File(f.host, f.name, f.of) /\ Named(f)
    BY <1>0, <1>b DEF File, Named, PlainName
  <2>3. \A f \in files' \ files : f.of[2] <= made[f.of[1]]
    BY <1>0, <1>b, IdIs DEF File, TypeOK
  <2> QED  BY <2>1, <2>2, <2>3 DEF Decrypt, Filed, Named, File
<1>4. Placed'
  <2>1. \A q \in Procs : Where(q)' = Where(q) /\ Bteq(q)' = Bteq(q) /\ Id(q)' = Id(q)
    BY DEF Decrypt, Where, Bteq, Util, Id
  <2>2. \A q \in Procs : at'[q] \in Early => at[q] \in Early /\ q # p
    BY <1>c DEF TypeOK, Early
  <2>3. \A f \in files' \ files : /\ f.of = Id(p) /\ f.host = Where(p) /\ f.name # BteqName
    BY <1>b, Names DEF File, PlainName
  <2>4. \A q \in Procs : Id(q) = Id(p) => q = p
    BY DEF Id
  <2> QED  BY <1>a, <2>1, <2>2, <2>3, <2>4 DEF Placed
<1>5. Removing'
  <2>1. \A r \in removals : r.by # Id(p)
    BY <1>a DEF Removing, Id
  <2>2. \A r \in removals, f \in files' : f.of = r.by => f \in files
    BY <1>b, <2>1 DEF File
  <2> QED  BY <1>a, <1>c, <2>2, IdIs DEF TypeOK, Decrypt, Removing
<1>6. Kept'
  <2>1. \A q \in Procs : Where(q)' = Where(q) /\ Id(q)' = Id(q) /\ PlainName(q)' = PlainName(q)
    BY DEF Decrypt, Where, Util, Id, PlainName
  <2>2. \A q \in Procs : q # p => at'[q] = at[q]
    BY <1>c DEF TypeOK
  <2>3. at'[p] = "opened" => \E f \in files' : f.host = Where(p) /\ f.name = PlainName(p) /\ f.of = Id(p)
    BY <1>c DEF TypeOK, PlainFile, File
  <2> QED  BY <1>b, <2>1, <2>2, <2>3 DEF Kept, At
<1>7. NoForeignScript'
  BY DEF Decrypt, NoForeignScript
<1>8. Ran'
  <2>1. /\ \A id \in Ids : id # Id(p) => result'[id] = result[id]
        /\ result'[Id(p)] = "zero" => result[Id(p)] = "zero"
    BY <1>0, <1>c DEF TypeOK
  <2> QED  BY <2>1, StillRan DEF TypeOK, Decrypt
<1>9. Left'
  <2> SUFFICES ASSUME NEW f \in files'
               PROVE  \/ f.of \in undeleted
                      \/ \E r \in removals : r.host = f.host /\ r.by = f.of
                      \/ at'[f.of[1]] # "idle" /\ made[f.of[1]] = f.of[2]
                      \/ result'[f.of] = "raised" /\ f.name # BteqName
                      \/ result'[f.of] = "lost"
    BY DEF Decrypt, Left
  <2>1. CASE f.of = Id(p)
    <3>1. f.name # BteqName
      BY <1>a, <1>b, <2>1, Names DEF File, PlainName, Placed
    <3> QED  BY <1>0, <1>c, <2>1, <3>1, IdIs DEF TypeOK
  <2>2. CASE f.of # Id(p)
    <3>1. f \in files
      BY <1>b, <2>2 DEF File
    <3> QED  BY <1>0, <1>c, <2>2, <3>1, IdIs DEF TypeOK, Filed, Left
  <2> QED  BY <2>1, <2>2
<1> QED BY <1>1, <1>2, <1>3, <1>4, <1>5, <1>6, <1>7, <1>8, <1>9

(* A TPT run reads the script of its own call, and deletes only its own    *)
(* files or tells which it left.                                           *)
LEMMA RunOpenedInv ==
  ASSUME TtuInv, NEW p \in Procs, NEW util \in Utilities, RunOpened(p, util) PROVE TtuInv'
<1> USE DEF TtuInv
<1>0. Id(p) \in Ids  BY IdIn DEF RunOpened
<1>a. at[p] = "opened" /\ ~ Bteq(p) /\ Where(p) \in Hosts
  BY DEF RunOpened, Route, OnHost
<1>b. at' = [at EXCEPT ![p] = "idle"]
  BY <1>a DEF RunOpened, Exits, Raise, Goto
<1>c. /\ result' \in [Ids -> {"none", "zero", "other", "raised", "lost"}]
      /\ result'[Id(p)] \in {"zero", "other", "raised"}
      /\ \A id \in Ids : id # Id(p) => result'[id] = result[id]
  BY <1>0 DEF TypeOK, RunOpened, Exits, Statuses, Raise, Outcome
<1>d. files' \subseteq files /\ undeleted \subseteq undeleted'
  BY DEF RunOpened, Delete
<1>e. /\ made' = made /\ call' = call /\ ssh' = ssh
      /\ removals' = removals
  BY DEF RunOpened
<1>f. \A q \in Procs : Where(q)' = Where(q) /\ Bteq(q)' = Bteq(q) /\ Id(q)' = Id(q)
                       /\ PlainName(q)' = PlainName(q)
  BY <1>e DEF Where, Bteq, Util, Id, PlainName
<1>1. TypeOK'
  BY <1>b, <1>c, <1>e DEF TypeOK, Stages
<1>2. Route'
  BY <1>b, <1>e DEF TypeOK, Route, OnHost, Where, Bteq, Util
<1>3. Filed'
  BY <1>d, <1>e DEF Filed, Named, File
<1>4. Placed'
  BY <1>a, <1>b, <1>d, <1>f DEF TypeOK, Placed, Early
<1>5. Removing'
  BY <1>b, <1>d, <1>e, IdIs DEF TypeOK, Removing
<1>6. Kept'
  <2>1. \A q \in Procs : at'[q] = "opened" => q # p /\ at'[q] = at[q]
    BY <1>b DEF TypeOK
  <2>2. ASSUME NEW q \in Procs, q # p, NEW f \in files, f.name = PlainName(q)
        PROVE  f \in files'
    <3>1. Id(q) # Id(p)
      BY <2>2 DEF Id
    <3>2. f \notin Own(p)
      BY <1>a, <2>2, <3>1, Names DEF Own, At, EncName, PlainName
    <3> QED  BY <2>2, <3>2 DEF RunOpened, Delete
  <2> QED  BY <1>e, <1>f, <2>1, <2>2 DEF Kept, At
<1>7. NoForeignScript'
  <2>1. \A f \in At(Where(p), PlainName(p)) : f.of = Id(p)
    BY Names DEF At, PlainName, Filed, Named
  <2> QED  BY <2>1 DEF RunOpened, NoForeignScript
<1>8. Ran'
  <2>1. ran \subseteq ran' /\ made[p] >= 1
    BY <1>a DEF TypeOK, RunOpened
  <2>2. result'[Id(p)] = "zero" => \E r \in ran' : r.by = Id(p)
    <3>1. CASE Raise(p)
      BY <1>0, <3>1 DEF TypeOK, Raise, Outcome
    <3>2. CASE ran' = ran \cup {[script |-> f.of, by |-> Id(p), host |-> Where(p)] :
                                  f \in At(Where(p), PlainName(p))}
      <4>1. PICK f \in At(Where(p), PlainName(p)) : f.of = Id(p)
        BY <1>a DEF Kept
      <4>2. [script |-> f.of, by |-> Id(p), host |-> Where(p)] \in ran'
        BY <3>2, <4>1
      <4> QED  BY <4>2
    <3> QED  BY <3>1, <3>2 DEF RunOpened
  <2> QED  BY <1>c, <1>e, <2>1, <2>2, StillRan
<1>9. Left'
  <2> SUFFICES ASSUME NEW f \in files'
               PROVE  \/ f.of \in undeleted'
                      \/ \E r \in removals : r.host = f.host /\ r.by = f.of
                      \/ at'[f.of[1]] # "idle" /\ made[f.of[1]] = f.of[2]
                      \/ result'[f.of] = "raised" /\ f.name # BteqName
                      \/ result'[f.of] = "lost"
    BY <1>e DEF Left
  <2>0. f \in files
    BY <1>d
  <2>1. CASE f.of = Id(p)
    <3>1. f.name # BteqName /\ f \in Own(p)
      BY <1>a, <2>0, <2>1 DEF Placed, Filed, Named, Own, At, EncName, PlainName
    <3>2. CASE Delete(p)
      BY <2>1, <3>1, <3>2 DEF Delete
    <3>3. CASE Raise(p)
      BY <1>0, <2>1, <3>1, <3>3 DEF TypeOK, Raise, Outcome
    <3> QED  BY <3>2, <3>3 DEF RunOpened
  <2>2. CASE f.of # Id(p)
    BY <1>b, <1>c, <1>d, <2>0, <2>2, IdIs DEF TypeOK, Filed, Left
  <2> QED  BY <2>1, <2>2
<1> QED BY <1>1, <1>2, <1>3, <1>4, <1>5, <1>6, <1>7, <1>8, <1>9

(* An rm that is carried out late takes files of BTEQ's name only, all of  *)
(* the call it was sent for among them.                                    *)
LEMMA RemoveInv == ASSUME TtuInv, NEW r \in removals, RemoveFile(r) PROVE TtuInv'
<1> USE DEF TtuInv
<1>a. \A q \in Procs : Where(q)' = Where(q) /\ Bteq(q)' = Bteq(q) /\ Id(q)' = Id(q)
                       /\ PlainName(q)' = PlainName(q)
  BY DEF RemoveFile, Where, Bteq, Util, Id, PlainName
<1>b. files' \subseteq files /\ removals' \subseteq removals
  BY DEF RemoveFile
<1>1. TypeOK'
  BY DEF TypeOK, RemoveFile
<1>2. Route'
  BY DEF Route, RemoveFile, OnHost, Where, Bteq, Util
<1>3. Filed'
  BY <1>b DEF Filed, RemoveFile, Named, File
<1>4. Placed'
  BY <1>a, <1>b DEF Placed, RemoveFile
<1>5. Removing'
  BY <1>b DEF Removing, RemoveFile
<1>6. Kept'
  <2>1. ASSUME NEW q \in Procs, NEW f \in files, f.name = PlainName(q)
        PROVE  f \in files'
    BY <2>1, Names DEF RemoveFile, At, PlainName
  <2>2. at' = at
    BY DEF RemoveFile
  <2> QED  BY <1>a, <1>b, <2>1, <2>2 DEF Kept, At
<1>7. NoForeignScript'
  BY DEF RemoveFile, NoForeignScript
<1>8. Ran'
  <2>1. \A q \in Procs : Excused(q)' = Excused(q)
    BY DEF RemoveFile, Excused, Bteq, Util
  <2> QED  BY <1>a, <2>1 DEF RemoveFile, Ran
<1>9. Left'
  <2>1. \A f \in files : f.host = r.host /\ f.of = r.by => f \notin files'
    BY DEF RemoveFile, At, Removing
  <2> QED  BY <1>b, <2>1 DEF RemoveFile, Left
<1> QED BY <1>1, <1>2, <1>3, <1>4, <1>5, <1>6, <1>7, <1>8, <1>9

(* All of the above holds in every reachable state. *)
THEOREM TtuInvariant == TtuSpec => []TtuInv
<1>1. TtuInit => TtuInv
  BY DEF TtuInit, TtuInv, TypeOK, Route, Filed, Placed, Removing, Kept, NoForeignScript,
         Ran, Left, Stages, OnHost, Utilities
<1>2. TtuInv /\ [TtuNext]_ttuVars => TtuInv'
  <2> SUFFICES ASSUME TtuInv, [TtuNext]_ttuVars PROVE TtuInv'
    OBVIOUS
  <2> USE DEF Utilities
  <2>1. ASSUME NEW p \in Procs, BeginBteq(p) \/ BeginDdl(p) \/ BeginTdload(p) PROVE TtuInv'
    BY <2>1, BeginInv DEF BeginBteq, BeginDdl, BeginTdload
  <2>2. ASSUME NEW p \in Procs, Refuse(p) PROVE TtuInv'
    BY <2>2, RefuseInv
  <2>3. ASSUME NEW p \in Procs, ConnectBteq(p) \/ ConnectDdl(p) \/ ConnectTdload(p) PROVE TtuInv'
    BY <2>3, ConnectInv DEF ConnectBteq, ConnectDdl, ConnectTdload
  <2>4. ASSUME NEW p \in Procs, NoConnection(p) PROVE TtuInv'
    BY <2>4, NoConnectionInv
  <2>5. ASSUME NEW p \in Procs, ReadBteqFile(p) \/ ReadJobVarFile(p) PROVE TtuInv'
    BY <2>5, ReadBteqFileInv, ReadJobVarFileInv
  <2>6. ASSUME NEW p \in Procs, RunBteqLocally(p) \/ RunTbuildLocally(p) \/ RunTdloadLocally(p)
        PROVE  TtuInv'
    BY <2>6, RunLocallyInv DEF RunBteqLocally, RunTbuildLocally, RunTdloadLocally
  <2>7. ASSUME NEW p \in Procs, VerifyBteq(p) \/ VerifyTpt(p) PROVE TtuInv'
    BY <2>7, VerifyInv DEF VerifyBteq, VerifyTpt
  <2>8. ASSUME NEW p \in Procs, Transfer(p) PROVE TtuInv'
    BY <2>8, TransferInv
  <2>9. ASSUME NEW p \in Procs, RunBteq(p) PROVE TtuInv'
    BY <2>9, RunBteqInv
  <2>10. ASSUME NEW p \in Procs, CloseBteq(p) PROVE TtuInv'
    BY <2>10, CloseBteqInv
  <2>11. ASSUME NEW p \in Procs, Decrypt(p) PROVE TtuInv'
    BY <2>11, DecryptInv
  <2>12. ASSUME NEW p \in Procs, RunTbuild(p) \/ RunTdload(p) PROVE TtuInv'
    BY <2>12, RunOpenedInv DEF RunTbuild, RunTdload
  <2>13. ASSUME NEW p \in Procs, Die(p) PROVE TtuInv'
    BY <2>13, DieInv
  <2>14. ASSUME NEW r \in removals, RemoveFile(r) PROVE TtuInv'
    BY <2>14, RemoveInv
  <2>15. CASE UNCHANGED ttuVars
    <3>1. TypeOK' /\ Route' /\ Filed' /\ Removing' /\ NoForeignScript' /\ Ran' /\ Left'
      BY <2>15 DEF ttuVars, TtuInv, TypeOK, Route, Filed, Removing, NoForeignScript,
                   Ran, Excused, Id, Left, OnHost, Where, Bteq, Util, Named, File
    <3>2. Placed'
      BY <2>15 DEF ttuVars, TtuInv, Placed, Where, Bteq, Util, Id
    <3>3. Kept'
      BY <2>15 DEF ttuVars, TtuInv, Kept, Where, Bteq, Util, Id, At, PlainName
    <3> QED  BY <3>1, <3>2, <3>3 DEF TtuInv
  <2> QED
    BY <2>1, <2>2, <2>3, <2>4, <2>5, <2>6, <2>7, <2>8, <2>9, <2>10, <2>11, <2>12, <2>13,
       <2>14, <2>15 DEF TtuNext
<1> QED  BY <1>1, <1>2, PTL DEF TtuSpec

(* NoForeignScript: the script that runs for a call is its own, for any    *)
(* number of processes that share the name of the remote file.             *)
THEOREM OwnScriptAlways == TtuSpec => []NoForeignScript
BY TtuInvariant, PTL DEF TtuInv

(* SuccessMeansRan: a status of zero means that the script of the call has *)
(* run, for TPT, and for BTEQ on the machine of the process.               *)
THEOREM SuccessAlwaysRan == TtuSpec => []SuccessMeansRan
<1>1. TtuInv => SuccessMeansRan
  BY DEF TtuInv, Ran, Excused, SuccessMeansRan, Where, Bteq
<1> QED  BY <1>1, TtuInvariant, PTL

(* RemoteClean: a BTEQ call that is over and a TPT call that returned have *)
(* no file on the hosts, but for removals on their way or tried in vain.   *)
THEOREM RemoteAlwaysClean == TtuSpec => []RemoteClean
<1>1. TtuInv => RemoteClean
  BY DEF TtuInv, Left, RemoteClean
<1> QED  BY <1>1, TtuInvariant, PTL

(* RunsWhereAsked: every script runs on the host its call names, and, for  *)
(* all but data definition, locally when it names none.                    *)
THEOREM AlwaysWhereAsked == TtuSpec => RunsWhereAsked
<1> DEFINE AskedFor(p, h) == call[p].util # "ddl" \/ call[p].host \in Hosts => h = call[p].host
<1>1. ASSUME TtuInv, NEW p \in Procs, at[p] \in OnHost \cup {"ready"}
      PROVE  AskedFor(p, Where(p))
  <2>1. CASE Util(p) = "tdload"
    BY <1>1, <2>1 DEF TtuInv, Route, Where, Util
  <2>2. CASE Util(p) = "bteq"
    BY <1>1, <2>2 DEF TtuInv, Route, Where, Util
  <2>3. CASE Util(p) = "ddl"
    BY <1>1, <2>3 DEF TtuInv, Route, Where, Util
  <2> QED  BY <1>1, <2>1, <2>2, <2>3 DEF TtuInv, TypeOK, Util, Utilities
<1>2. ASSUME TtuInv, [TtuNext]_ttuVars, NEW r \in ran' \ ran
      PROVE  AskedFor(r.by[1], r.host)
  <2>1. ASSUME NEW p \in Procs, r.by = Id(p), r.host = Where(p), at[p] \in OnHost \cup {"ready"}
        PROVE  AskedFor(r.by[1], r.host)
    BY <1>1, <1>2, <2>1 DEF Id
  <2>2. ASSUME NEW p \in Procs, NEW util \in Utilities, RunLocally(p, util)
        PROVE  AskedFor(r.by[1], r.host)
    BY <1>2, <2>1, <2>2 DEF RunLocally, Ready
  <2>3. ASSUME NEW p \in Procs, RunBteq(p)
        PROVE  AskedFor(r.by[1], r.host)
    BY <1>2, <2>1, <2>3 DEF RunBteq, Piped, OnHost
  <2>4. ASSUME NEW p \in Procs, NEW util \in Utilities, RunOpened(p, util)
        PROVE  AskedFor(r.by[1], r.host)
    BY <1>2, <2>1, <2>4 DEF RunOpened, OnHost
  <2>5. ASSUME NEW p \in Procs,
               \/ BeginBteq(p) \/ BeginDdl(p) \/ BeginTdload(p) \/ Refuse(p)
               \/ ConnectBteq(p) \/ ConnectDdl(p) \/ ConnectTdload(p) \/ NoConnection(p)
               \/ ReadBteqFile(p) \/ ReadJobVarFile(p) \/ VerifyBteq(p) \/ VerifyTpt(p)
               \/ Transfer(p) \/ CloseBteq(p) \/ Decrypt(p) \/ Die(p)
        PROVE  ran' = ran
    BY <2>5 DEF BeginBteq, BeginDdl, BeginTdload, Begin, Refuse, ConnectBteq, ConnectDdl,
                ConnectTdload, Connect, NoConnection, ReadBteqFile, ReadJobVarFile, VerifyBteq,
                VerifyTpt, Verify, Transfer, CloseBteq, Decrypt, Die
  <2>6. ASSUME NEW s \in removals, RemoveFile(s)
        PROVE  ran' = ran
    BY <2>6 DEF RemoveFile
  <2>7. CASE UNCHANGED ttuVars
    BY <1>2, <2>7 DEF ttuVars
  <2> QED
    BY <1>2, <2>2, <2>3, <2>4, <2>5, <2>6, <2>7
    DEF TtuNext, Utilities, RunBteqLocally, RunTbuildLocally, RunTdloadLocally, RunTbuild, RunTdload
<1>3. TtuInv /\ [TtuNext]_ttuVars =>
        [\A r \in ran' \ ran :
           LET c == call[r.by[1]]
           IN  c.util # "ddl" \/ c.host \in Hosts => r.host = c.host]_ttuVars
  BY <1>2
<1> QED  BY <1>3, TtuInvariant, PTL DEF TtuSpec, RunsWhereAsked
================================================================================
